CONSTANTS
    Invalid = Invalid
    NoFile = NoFile
    Enrolled <- Between
    Crowd = 31
    Secrets <- BoundarySecrets
    MaxDamage = 1
SPECIFICATION FormatSpec
INVARIANTS
    WrittenIsReadable
    AcceptedIsValid
CHECK_DEADLOCK FALSE
