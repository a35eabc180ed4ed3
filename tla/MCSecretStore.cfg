SPECIFICATION Spec
CONSTANTS
    Proc = {p1, p2}
    Recipient = {r1}
    Secret = {s1, s2}
    Item = {i1, i2}
    Damaged = Damaged
    None = None
SYMMETRY Symmetry
INVARIANTS
    AcceptedIsKept
    LoadReturnsAccepted
    DuplicatesAreReported
    AnswersAreDefinite
