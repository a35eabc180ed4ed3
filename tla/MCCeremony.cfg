CONSTANTS
    Device = {d1, d2}
    CredId = {c1, c2}
    PinValue = {p1, p2}
    None = None
    MaxRetries = 2
    MaxFaults = 3
SYMMETRY Symmetry
SPECIFICATION Spec
INVARIANTS
    AcceptedIsExact
    RecordIsDeviceBound
    UndisturbedSucceeds
    PinIsSpared
CHECK_DEADLOCK FALSE
