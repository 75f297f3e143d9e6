CONSTANTS
    r1 = r1  r2 = r2  h1 = h1  h2 = h2  n = n
    None = None
    Tx = {h1, h2}
    NetTx = {}
    Rebroadcasts = FALSE
    Rejectable = {h1}
    Requests = {r1, r2}
    Wants <- WantsShared
    p1 = p1  p2 = p2
    Parsers = {p1}
    BlockAfter = 2
SPECIFICATION FairSpec
INVARIANTS TypeOK WatcherOwned
PROPERTIES ParsedHaveBody PurgeAnswered RequestsSettle
CHECK_DEADLOCK FALSE
