CONSTANTS
    G = G  a1 = a1  a2 = a2  b1 = b1  b2 = b2  b3 = b3
    NoBlock = NoBlock
    Genesis = G
    Block <- TreeBlock
    Parent <- TreeParent
    Chain <- TreeChain
    Height <- TreeHeight
    ChainWork <- RaceWork
    Rank <- TreeRank
    Spends <- TreeSpends
    CleanModes = {}
    KillModes = {"load"}
    Registers = FALSE
    KillAt = {"subssh"}
    MaxStops = 1
SPECIFICATION Spec
INVARIANTS HistoryIsMain
CHECK_DEADLOCK FALSE
