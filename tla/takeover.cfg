SPECIFICATION Spec
CONSTANTS
    None = None
    Fresh = Fresh
    a1 = a1
    a2 = a2
    a3 = a3
    t1 = t1
    t2 = t2
    c1 = c1
    c2 = c2
    Attempts = {a1, a2, a3}
    Tasks = {t1, t2}
    Conversations = {c1, c2}
    TaskOf <- RetryAndOther
    ConversationOf <- TwoConversations
    ResidentLimit = 1
    MaxPendingResults = 3
    MaxTasks = 2
    MaxRestarts = 0
    Faulty = {a1}
    CheckoutAttempts = {}
    ResultKinds = {"complete"}
CONSTRAINT RetryOrOther
INVARIANTS
    ExclusiveWriter
    ResidentBound
CHECK_DEADLOCK FALSE
