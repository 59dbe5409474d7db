SPECIFICATION Spec
CONSTANTS
    Processes = {p1, p2}
    Transactions = {x1, x2, x3}
    Absent = Absent
    Nobody = Nobody
    MaxStoreFiles = 4
    MaxCrashes = 2
INVARIANTS
    AnswersSurvive
    OwnerKnowsJournal
PROPERTIES
    AtomicStore
CHECK_DEADLOCK FALSE
