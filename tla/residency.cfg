SPECIFICATION Spec
CONSTANTS
    MaxWall = 4
    Timeouts = {0, 1, 2}
    MaxRevision = 5
INVARIANTS IdleIsBounded
PROPERTIES RetentionIsKept
