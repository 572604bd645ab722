\* Three blocks, two instructions per block, two newpc calls (one of
\* size 0), a build with assertions.
CONSTANTS
    Blocks = {b1, b2, b3}
    Dispatcher = b1
    m1 = m1
    m2 = m2
    Markers = {m1, m2}
    MarkerPC <- MCMarkerPC
    MarkerSize <- MCMarkerSizeZero
    MaxLen = 2
    Other = Other
    NoCall = NoCall
    Pending = Pending
    Aborted = Aborted
    AssertsEnabled = TRUE
    AnyPoint = FALSE

SPECIFICATION Spec
INVARIANT TypeOK
INVARIANT ResultCorrect
INVARIANT WorklistBound
