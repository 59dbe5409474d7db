SPECIFICATION FairSpec
CONSTANTS
    MaxAttempts = 3
    MaxCrashes = 1
    MaxWrites = 1
INVARIANTS
    GenerationIsWhole
    CollisionsRefusedFirst
    WritersApart
PROPERTIES
    ForeignFilesSurvive
    PreparationSettles
CHECK_DEADLOCK FALSE
