SPECIFICATION Spec
CONSTANTS
    MaxAttempts = 3
    MaxCrashes = 1
    MaxWrites = 1
INVARIANTS
    RefusalRemovesNothing
CHECK_DEADLOCK FALSE
