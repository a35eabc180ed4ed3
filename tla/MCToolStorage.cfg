SPECIFICATION Spec
CONSTANTS
    Proc = {p1, p2}
    Path = {d1}
    Temp = {t1, t2}
    File = {f1, f2}
    None = None
SYMMETRY Symmetry
INVARIANTS
    DestinationIsWhole
    SavedIsDurable
    AnswersAreDefinite
