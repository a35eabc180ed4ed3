SPECIFICATION Spec
CONSTANTS
    Application = {a1}
    EnvelopeId = {e1, e2}
    RecipientId = {i1, i2}
    Root = {k1, k2}
    Credential = {c1, c2}
    Salt = {s1, s2}
    Nonce = {n1, n2, n3}
    Word = {w1, w2}
    Work = {1, 2}
    Suite = {"passphrase", "combined", "recovery", "fido", "local"}
    None = None
    MaxRecipients = 2
    MaxIssued = 3
SYMMETRY Symmetry
INVARIANTS
    RoutesOpen
    UnlockIsAuthentic
    PromptIsEarned
    NoReuse
PROPERTIES
    ChangesAreAuthenticated
    ChangesOneRoute
