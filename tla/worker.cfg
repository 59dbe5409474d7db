SPECIFICATION FairSpec
CONSTANTS
    MaxTurns = 2
    MaxCrashes = 1
INVARIANTS SealsHold AcceptanceIsOwn
PROPERTY SupervisorSettles
CHECK_DEADLOCK FALSE
