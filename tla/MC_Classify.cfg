\* One function of up to four blocks, a build with assertions, every
\* metadata shape that the contract lets through or stops on.
CONSTANTS
    a1 = a1
    a2 = a2
    Addrs = {a1, a2}
    NumFuncs = 1
    MaxBlocks = 4
    MDStates = {"ok", "absent", "notuple"}
    DelayVals = {0, 1}
    NoBlock = NoBlock
    NoAddr = NoAddr
    NoPCVar = NoPCVar
    PCVar = PCVar
    AssertsEnabled = TRUE
    DistinctTargets = TRUE
SPECIFICATION CSpec
INVARIANTS CTypeOK ClassifyExact FatalOnlyOnBreach
PROPERTIES ClassifyImplementsContract
