SPECIFICATION MCSpec
CONSTANTS
    None = None
    Absent = Absent
    c1 = c1
    c2 = c2
    c3 = c3
    k1 = k1
    k2 = k2
    r1 = r1
    r2 = r2
    Callers = {c1, c2, c3}
    Keys = {k1, k2}
    KeyOf <- TwoEntries
    Refs = {r1, r2}
    RefOf <- TwoRefs
    Slots = {1, 2}
    MaxVersion = 2
    MaxEvictions = 1
    MaxRestarts = 1
    Impatient = {c1}
    Expiring = {k1}
    Stuck = {k1, k2}
    Unremovable = {k2}
INVARIANTS
    SnapshotIsWhole
    ActiveIsUsers
    CheckoutIsAuthorized
    CancelHarmsNobody
PROPERTIES
    QuarantineHolds
    CallsEnd
CHECK_DEADLOCK FALSE
