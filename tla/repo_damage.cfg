SPECIFICATION Spec
CONSTANTS
    None = None
    Absent = Absent
    c1 = c1
    c2 = c2
    c3 = c3
    k1 = k1
    k2 = k2
    r1 = r1
    r2 = r2
    Callers = {c1, c2, c3}
    Keys = {k1}
    KeyOf <- OneEntry
    Refs = {r1, r2}
    RefOf <- TwoRefs
    Slots = {1}
    MaxVersion = 1
    MaxEvictions = 1
    MaxRestarts = 0
    Impatient = {}
    Expiring = {}
    Stuck = {}
    Unremovable = {k1}
INVARIANTS
    SnapshotIsWhole
CHECK_DEADLOCK FALSE
