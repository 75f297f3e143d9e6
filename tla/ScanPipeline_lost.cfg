CONSTANTS
    NBatches = 2
    BatchSize = 1
    Workers = {w1}
    Depth = 1
    UintMod = 65536
    OldOutputs <- MCOldOutputs
    Spends <- MCSpends
    Unreadable <- MCAllReadable
    MayHalt = {}
SPECIFICATION Spec
INVARIANT ReportedIsCommitted
CHECK_DEADLOCK FALSE
