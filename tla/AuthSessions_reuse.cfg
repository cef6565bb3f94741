SPECIFICATION Spec
CONSTANTS
    User = {u1}
    Family = {f1}
    Token = {t1, t2, t3}
    ResetKey = {k1}
    Request = {r1, r2}
    Nil = Nil
    Handlers = {"login", "refresh", "logout"}
    MaxFaults = 0
    MaxPassword = 0
SYMMETRY Symmetry
INVARIANT OneLiveTokenPerSession
