SPECIFICATION FairSpec
CONSTANTS
    None = None
    Fresh = Fresh
    a1 = a1
    a2 = a2
    a3 = a3
    t1 = t1
    t2 = t2
    c1 = c1
    c2 = c2
    Attempts = {a1}
    Tasks = {t1}
    Conversations = {c1}
    TaskOf <- OneTask
    ConversationOf <- SoleConversation
    ResidentLimit = 1
    MaxPendingResults = 2
    MaxTasks = 1
    MaxRestarts = 1
    Faulty = {a1}
    CheckoutAttempts = {a1}
    ResultKinds = {"complete"}
INVARIANTS
    RegistryValid
    StopAgreement
    ClosedMeansEnded
    CleanRootIsDurable
    NoLostOutcome
PROPERTIES
    OutcomeFinal
    OutcomesDelivered
    StopIsFinal
    StoppedSessionReleased
CHECK_DEADLOCK FALSE
