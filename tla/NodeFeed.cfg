CONSTANTS
    MaxBlocks = 3
    MaxDrops = 2
    EarlyDrop = FALSE
    UpdateMayFail = TRUE
SPECIFICATION FairSpec
INVARIANTS TypeOK
PROPERTIES SignalledProcessed Reconnects
CHECK_DEADLOCK FALSE
