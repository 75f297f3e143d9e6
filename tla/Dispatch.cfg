SPECIFICATION FairSpec
CONSTANTS
    Readers = {r1, r2}
    Parsers = {p1, p2}
    Writers = {w1, w2}
    Fragments <- MCFragments
    MaxUpsets = 2
    QuietJoins = TRUE
INVARIANTS
    TypeOK
    StreamsDecrypt
    NoPacketStranded
PROPERTY CommandsAnswered
CHECK_DEADLOCK FALSE
