---------------------------- MODULE SessionLife ----------------------------
(***************************************************************************)
(* What the rest of the system may assume of sessions, without their       *)
(* tokens: a session is opened once and ended once, it is never reopened,  *)
(* and its end may be announced (auth.session_revoked), possibly more than *)
(* once or not at all, but never before it.  AuthSessions implements this; *)
(* the WebSocket gateway, which sees only the index and the announcements, *)
(* depends on nothing else of it.                                          *)
(***************************************************************************)
CONSTANT Family

VARIABLES
    life,        \* the stage of each session
    announced    \* sessions whose end was published

lifeVars == <<life, announced>>

LifeInit ==
    /\ life = [f \in Family |-> "unused"]
    /\ announced = {}

Open(f) ==
    /\ life[f] = "unused"
    /\ life' = [life EXCEPT ![f] = "open"]
    /\ UNCHANGED announced

End(f) ==
    /\ life[f] = "open"
    /\ life' = [life EXCEPT ![f] = "ended"]
    /\ UNCHANGED announced

Announce(f) ==
    /\ life[f] = "ended"
    /\ announced' = announced \cup {f}
    /\ UNCHANGED life

LifeNext == \E f \in Family : Open(f) \/ End(f) \/ Announce(f)

LifeSpec == LifeInit /\ [][LifeNext]_lifeVars
=============================================================================
