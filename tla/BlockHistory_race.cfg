CONSTANTS
    G = G  a1 = a1  a2 = a2  b1 = b1  b2 = b2  b3 = b3
    NoBlock = NoBlock
    Genesis = G
    Block <- TreeBlock
    Parent <- TreeParent
    Chain <- TreeChain
    Height <- TreeHeight
    ChainWork <- TieWork
    Rank <- TreeRank
    Spends <- TreeSpends
    CleanModes = {}
    KillModes = {}
    Registers = TRUE
    KillAt = {}
    MaxStops = 0
SPECIFICATION FairSpec
INVARIANTS TypeOK HistoryIsMain TallyNeverOff
PROPERTIES UpdatesEnd
CHECK_DEADLOCK FALSE
