SPECIFICATION Spec
CONSTANTS
    User = {u1, u2}
    Family = {f1, f2}
    Token = {t1, t2, t3}
    ResetKey = {k1}
    Request = {r1, r2}
    Nil = Nil
    Handlers = {"login", "refresh", "logout", "revoke", "list", "revokeAll"}
    MaxFaults = 1
    MaxPassword = 0
SYMMETRY Symmetry
INVARIANTS
    ConsumedIsDead
    RevokeAllIsExact
    OneAccountPerSession
    HeldSessionsWereIndexed
PROPERTIES
    RejectionIsFinal
    ImplementsSessionLife
