SPECIFICATION Spec
CONSTANTS
    a = a
    b = b
    Paths <- TwoNames
    Trees <- SomeTrees
    MAXQ = 3
    MaxOps = 3
SYMMETRY Alike
INVARIANTS ListCoversWatches ExitsExplained NothingElseMissed
CHECK_DEADLOCK FALSE
