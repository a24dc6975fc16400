SPECIFICATION FairSpec
CONSTANTS
    Clients = {c1, c2, m}
    Misbehaving = {m}
    SeqLens = {2}
    NoGrant = none
    NoClient = nobody
    MaxRuns = 2
INVARIANTS NoSpuriousEof
PROPERTIES RequestsServed AnsweredIfOpening ImplementsService
CHECK_DEADLOCK FALSE
