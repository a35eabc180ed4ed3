CONSTANTS
    MaxSize = 14
    Maximum = 9
    Chunk = 4
SPECIFICATION BufferSpec
INVARIANTS
    SecretsAreCleared
CHECK_DEADLOCK FALSE
