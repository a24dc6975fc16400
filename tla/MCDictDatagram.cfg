SPECIFICATION FairSpec
CONSTANTS
    Clients = {c1, c2}
    Words = {1, 2}
    MaxRec = 3
    Limit = 2
    XXXX = XXXX
    RCVBUF = 1
    MaxAsk = 2
    MaxRuns = 2
INVARIANTS RightAnswers NeverWrong
PROPERTIES AnsweredUnlessLost
CHECK_DEADLOCK FALSE
