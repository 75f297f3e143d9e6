CONSTANTS
    NBatches = 3
    BatchSize = 2
    Workers = {w1, w2}
    Depth = 2
    UintMod = 65536
    OldOutputs <- MCOldOutputs
    Spends <- MCSpends
    Unreadable <- MCUnreadable
    MayHalt = {1, 2, 3}
SPECIFICATION FairSpec
INVARIANTS TypeOK PipelineIsSequential ThrottleHolds HintsLagOneBatch
PROPERTIES ScanEnds
CHECK_DEADLOCK FALSE
