SPECIFICATION PingPongFairSpec
CONSTANTS
    MaxSigs = 8
INVARIANTS SignalsMeet
PROPERTIES BothFinish
CHECK_DEADLOCK FALSE
