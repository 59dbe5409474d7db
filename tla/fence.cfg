SPECIFICATION Spec
CONSTANT MaxPid = 6
INVARIANTS OutsidersGone ResidentsSpared
CHECK_DEADLOCK FALSE
