SPECIFICATION FairSpec
CONSTANTS
    Readers = {r1, r2}
    Data = {a, b}
    NoData = none
    BUF_SIZE = 1
    MaxRuns = 2
    MaxBlocks = 2
INVARIANTS BufferExclusive ReadersSeeLiveBlock ReportsAgree
PROPERTIES TransferCompletes ImplementsChannel
CHECK_DEADLOCK FALSE
