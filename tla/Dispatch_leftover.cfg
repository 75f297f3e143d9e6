SPECIFICATION Spec
CONSTANTS
    Readers = {r1, r2}
    Parsers = {p1, p2}
    Writers = {w1, w2}
    Fragments <- MCFragments
    MaxUpsets = 2
    QuietJoins = FALSE
INVARIANTS
    StreamsDecrypt
CHECK_DEADLOCK FALSE
