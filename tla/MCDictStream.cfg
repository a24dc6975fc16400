SPECIFICATION FairSpec
CONSTANTS
    Clients = {c1, c2}
    Words = {known, unknown}
    Table = {known}
    XXXX = XXXX
    Garbage = garbage
    BACKLOG = 0
    MAXPROC = 1
    MaxAsk = 3
INVARIANTS WrongOnlyWhenLost
PROPERTIES NobodyWaits ChildrenEnd
CHECK_DEADLOCK FALSE
