SPECIFICATION FairSpec
CONSTANTS
    Clients = {c1, c2}
    Files <- ShortAndLong
    Missing = missing
    MAXMSG = 2
    OPEN_MAX = 4
    MaxRuns = 2
INVARIANTS WholeFile StaleBytesOnce
PROPERTIES ServerReturns Answered
CHECK_DEADLOCK FALSE
