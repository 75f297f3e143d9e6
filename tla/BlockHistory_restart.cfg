CONSTANTS
    G = G  a1 = a1  a2 = a2  b1 = b1  b2 = b2  b3 = b3
    NoBlock = NoBlock
    Genesis = G
    Block <- TreeBlock
    Parent <- TreeParent
    Chain <- TreeChain
    Height <- TreeHeight
    ChainWork <- RaceWork
    Rank <- TreeRank
    Spends <- TreeSpends
    CleanModes = {"load"}
    KillModes = {"rescan"}
    Registers = FALSE
    KillAt = {"idle", "sync", "plan", "undo", "undossh", "scan", "batch", "stxo", "subssh", "join", "ssh"}
    MaxStops = 2
SPECIFICATION Spec
INVARIANTS HistoryIsMain StxoIsMain NeverFails
CHECK_DEADLOCK FALSE
