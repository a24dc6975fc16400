SPECIFICATION SysVFairSpec
INVARIANTS SigintAsAnnounced
PROPERTIES KeyEnds
CHECK_DEADLOCK FALSE
