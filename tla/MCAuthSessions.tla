--------------------------- MODULE MCAuthSessions ---------------------------
(* Instances of AuthSessions for TLC. *)
EXTENDS AuthSessionsInv, TLC

\* Accounts, sessions, tokens and requests are interchangeable in safety runs.
Symmetry ==
    Permutations(User) \cup Permutations(Family) \cup Permutations(Token)
        \cup Permutations(Request) \cup Permutations(ResetKey)
=============================================================================
