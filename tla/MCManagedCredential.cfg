SPECIFICATION Spec
CONSTANTS
    Proc = {p1, p2}
    Device = {d1, d2}
    UserId = {u1, u2}
    CredId = {i1, i2}
    None = None
    Capacity = 1
SYMMETRY Symmetry
INVARIANTS
    NoSilentOrphan
    CrashIsContained
    PublishedIsBacked
    RetiredIsAbsent
    RetireErrorIsDefinite
    NoFalseAlarm
CHECK_DEADLOCK FALSE
