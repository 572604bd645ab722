CONSTANTS
    Blocks = {b1, b2, b3}
    Dispatcher = b1
    m1 = m1
    m2 = m2
    Markers = {m1, m2}
    MarkerPC <- MCMarkerPC
    MarkerSize <- MCMarkerSize
    MaxLen = 2
    Other = Other
    NoCall = NoCall
    Pending = Pending
    Aborted = Aborted
    AssertsEnabled = TRUE
    AnyPoint = TRUE

SPECIFICATION Spec
INVARIANT ResultCorrect
