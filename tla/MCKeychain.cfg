SPECIFICATION Spec
CONSTANTS
    Proc = {p1, p2, p3}
    Secret = {s1, s2}
    Damaged = Damaged
    None = None
SYMMETRY Symmetry
INVARIANTS
    RetrySucceeds
PROPERTIES
    KeepsPromise
