\* Two functions classified by the same pass object.
CONSTANTS
    a1 = a1
    a2 = a2
    Addrs = {a1, a2}
    NumFuncs = 2
    MaxBlocks = 3
    MDStates = {"ok"}
    DelayVals = {0}
    NoBlock = NoBlock
    NoAddr = NoAddr
    NoPCVar = NoPCVar
    PCVar = PCVar
    AssertsEnabled = TRUE
    DistinctTargets = TRUE
SPECIFICATION CSpec
INVARIANT ClassifyExact
