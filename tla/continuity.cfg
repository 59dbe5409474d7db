SPECIFICATION Spec
CONSTANTS
    None = None
    Fresh = Fresh
    a1 = a1
    a2 = a2
    a3 = a3
    t1 = t1
    t2 = t2
    c1 = c1
    c2 = c2
    Attempts = {a1, a2}
    Tasks = {t1, t2}
    Conversations = {c1}
    TaskOf <- TwoTasks
    ConversationOf <- OneConversation
    ResidentLimit = 2
    MaxPendingResults = 3
    MaxTasks = 2
    MaxRestarts = 0
    Faulty = {}
    CheckoutAttempts = {}
    ResultKinds = {"complete"}
INVARIANTS
    RegistryValid
    LeaseAgreement
    IdleIsWarm
    CheckpointIsAccepted
CHECK_DEADLOCK FALSE
