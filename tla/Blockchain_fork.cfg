CONSTANTS
    G = G  a1 = a1  a2 = a2  b1 = b1  b2 = b2  b3 = b3
    NoBlock = NoBlock
    Genesis = G
    Block <- ForkBlock
    Parent <- ForkParent
    Chain <- ForkChain
    Height <- ForkHeight
    ChainWork <- ForkWork
    Rank <- ForkRank
    MaxId = 12
    MaxCrash = 1
    FileCap = 10
    Rewind = 100
    InOrder = TRUE
    CrashHeight = 2
    Tracking = "same"
SPECIFICATION Spec
INVARIANTS MainBranchConsistent BranchPointIsFork ValidDupIsMain DupIsUnique
PROPERTIES ImplementsMainBranch RebuildSettles
CHECK_DEADLOCK FALSE
