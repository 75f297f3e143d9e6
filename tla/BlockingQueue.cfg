CONSTANTS
    Producers = {p1, p2}
    Consumers = {c1, c2}
    Pollers = {c1}
    Retriers = {c1}
    MaxPush = 2
SPECIFICATION FairSpec
INVARIANTS TypeOK CountersAgree NoLostWakeup NoSleeperLeftBehind
PROPERTIES EntriesTaken CloseReleases CompletedReturns ImplementsClosableQueue
CHECK_DEADLOCK FALSE
