SPECIFICATION Spec
CONSTANTS
    User = {u1}
    Family = {f1}
    Token = {t1, t2, t3}
    ResetKey = {k1}
    Request = {r1, r2}
    Nil = Nil
    Handlers = {"login", "reset"}
    MaxFaults = 0
    MaxPassword = 1
SYMMETRY Symmetry
INVARIANT ResetLeavesNoOldSession
