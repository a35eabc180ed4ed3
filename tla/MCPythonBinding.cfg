CONSTANTS
    Thread = {t1, t2}
    Protector = {k1, k2}
    Cancelled = {c}
    Exception = {x, y}
    MaxDepth = 2
    None = None
SPECIFICATION Spec
SYMMETRY Symmetry
INVARIANTS
    BusyMeansRunning
    RaisedIsCause
