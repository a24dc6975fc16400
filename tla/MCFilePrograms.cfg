SPECIFICATION ProgramsSpec
CONSTANTS
    BUF_SIZE = 3
    MaxSize = 9
    MaxLines = 3
    MaxPid = 4
    Me = 2
    Block = 3
    Limits = {8, 10}
    MaxForks = 2
INVARIANTS RightWithoutOverlap ScanExplained
CHECK_DEADLOCK FALSE
