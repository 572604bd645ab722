\* Every call of startsWith, contains and the two operator| of
\* transformadapter.h on strings and sequences of up to three elements over
\* two values, and every transformer of those values.
CONSTANTS
    Chars = {"a", "b"}
    Vals = {0, 1}
    MaxLen = 3
    NoResult = NoResult
SPECIFICATION HSpec
INVARIANTS
    StartsWithIsPrefix
    ContainsIsMembership
    TransformIsMap
