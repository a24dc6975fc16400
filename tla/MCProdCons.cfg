SPECIFICATION FairSpec
CONSTANTS
    M = 4
    N = 2
    B = 2
INVARIANTS LossOnlyWhenLapped NeverOverReports
PROPERTIES InOrderOnce LastSignalEndsRun
CHECK_DEADLOCK FALSE
