SPECIFICATION FairSpec
CONSTANTS
    Clients = {c1, c2, c3}
    SeqLens = {0, 2}
    REQ_SIZE = 2
    RES_SIZE = 1
    QBYTES = 5
    NoGrant = none
    MaxRuns = 2
INVARIANTS OwnReply
PROPERTIES Answered ImplementsService
CHECK_DEADLOCK FALSE
