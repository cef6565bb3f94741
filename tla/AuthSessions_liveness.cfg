SPECIFICATION FairSpec
CONSTANTS
    User = {u1}
    Family = {f1}
    Token = {t1, t2}
    ResetKey = {k1}
    Request = {r1, r2}
    Nil = Nil
    Handlers = {"login", "refresh", "logout", "revoke", "reset", "password", "revokeAll", "admin"}
    MaxFaults = 0
    MaxPassword = 1
PROPERTIES
    RevocationCompletes
