CONSTANTS
    A = A
    B = B
    C = C
    D = D
    P = P
    Blocks = {A, B, C, D, P}
    Dispatcher = D
    m1 = m1
    m2 = m2
    Markers = {m1, m2}
    MarkerPC <- MCMarkerPC
    MarkerSize <- MCMarkerSize
    MaxLen = 2
    Other = Other
    NoCall = NoCall
    Pending = Pending
    Aborted = Aborted
    AssertsEnabled = TRUE
    AnyPoint = FALSE

SPECIFICATION DivergeSpec
INVARIANT AmbiguityDetected
