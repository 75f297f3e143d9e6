CONSTANTS
    G = G  a1 = a1  a2 = a2  b1 = b1  b2 = b2  b3 = b3
    NoBlock = NoBlock
    Genesis = G
    Block <- HeavyBlock
    Parent <- HeavyParent
    Chain <- HeavyChain
    Height <- HeavyHeight
    ChainWork <- HeavyWork
    Rank <- HeavyRank
    MaxId = 12
    MaxCrash = 0
    FileCap = 2
    Rewind = 100
    InOrder = FALSE
    CrashHeight = 0
    Tracking = "same"
SPECIFICATION Spec
INVARIANTS TypeOK TopIsHeaviest
CHECK_DEADLOCK FALSE
