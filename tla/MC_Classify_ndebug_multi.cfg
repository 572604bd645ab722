\* A build with NDEBUG, two functions classified by one pass object, every
\* shape of the metadata record.
CONSTANTS
    a1 = a1
    a2 = a2
    Addrs = {a1, a2}
    NumFuncs = 2
    MaxBlocks = 2
    MDStates = {"ok", "absent", "notuple", "nopcvar"}
    DelayVals = {0, 1}
    NoBlock = NoBlock
    NoAddr = NoAddr
    NoPCVar = NoPCVar
    PCVar = PCVar
    AssertsEnabled = FALSE
    DistinctTargets = FALSE
SPECIFICATION CSpec
INVARIANT MembersSound
