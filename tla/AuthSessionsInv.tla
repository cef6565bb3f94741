-------------------------- MODULE AuthSessionsInv --------------------------
(***************************************************************************)
(* The inductive invariants of AuthSessions.  Its properties speak of what *)
(* is in Redis and in clients' hands; they are kept only because the       *)
(* locals of every request in flight agree with Redis in the way stated    *)
(* here, label by label.                                                   *)
(***************************************************************************)
EXTENDS AuthSessions

-----------------------------------------------------------------------------
(* Which locals are set at which label *)

HasUser ==
    {"loginToken", "loginFamily", "loginIndex", "loginSign",
     "refreshUser", "refreshDel", "refreshMark", "refreshStore", "refreshFamily",
     "reuseDel", "reuseBump", "reuseUnindex", "reusePublish",
     "logoutDel", "logoutUnindex", "logoutPublish",
     "revokeGet", "revokeDel", "revokeUnindex", "revokePublish",
     "passwordWrite", "resetConsume", "resetUser", "resetWrite",
     "allSnapshot", "listSnapshot", "listPick", "listStale"} \cup RevokeAllLabel

HasFam ==
    {"loginFamily", "loginIndex", "loginSign",
     "refreshUser", "refreshDel", "refreshMark", "refreshStore", "refreshFamily",
     "reuseFamily", "reuseDel", "reuseBump", "reuseUnindex", "reusePublish",
     "logoutDel", "logoutUnindex", "logoutPublish",
     "revokeGet", "revokeDel", "revokeUnindex", "revokePublish",
     "allDel", "allUnindex", "allPublish", "allStale", "listStale"}

HasOld ==
    {"refreshUser", "refreshDel", "refreshMark", "refreshStore", "refreshFamily",
     "reuseMark", "reuseFamily", "reuseDel", "logoutDel", "revokeDel", "allDel"}

HasNew == {"loginFamily", "loginIndex", "loginSign", "refreshFamily"}

Fits(label, l) ==
    /\ label \in HasUser => l.user \in User
    /\ label \in HasFam => l.fam \in Family
    /\ label \in HasOld => l.old \in Token
    /\ label \in HasNew => l.new \in Token

LocalsSet == \A r \in Request : Fits(pc[r], loc[r])

TypeInv == TypeOK /\ LocalsSet

-----------------------------------------------------------------------------
(* What Redis, the tokens in clients' hands and the history agree on *)

StoreOK ==
    /\ \A t \in Token : rt[t] # Nil =>
            lineage[t] = rt[t].fam /\ owner[rt[t].fam] = rt[t].user
    /\ \A f \in Family : family[f] # Nil =>
            owner[f] = family[f].user /\ lineage[family[f].latest] = f
    /\ \A t \in Token : consumed[t] # Nil => consumed[t] = lineage[t] /\ rt[t] = Nil
    /\ \A u \in User : \A f \in sessions[u] : owner[f] = u /\ f \in opened
    /\ \A a \in access :
            owner[a.fam] = a.user /\ a.fam \in opened /\ a.ver <= tokenVersion[a.user]
    /\ \A t \in cookies : lineage[t] \in opened
    /\ \A t \in Token : lineage[t] # Nil => owner[lineage[t]] # Nil
    /\ \A f \in opened : owner[f] # Nil
    /\ revoked \subseteq Ended

-----------------------------------------------------------------------------
(* What the locals of a request agree on with it *)

Creating   == {"loginFamily", "loginIndex"}
Publishing == {"reusePublish", "logoutPublish", "revokePublish", "allPublish"}
Going      == {"allDel", "allUnindex", "allStale"}

LocalOK(r) ==
    LET l == loc[r] IN
    \* the session is of this account, and was in the index
    /\ pc[r] \in HasFam \ {"reuseFamily", "revokeGet"} => owner[l.fam] = l.user
    /\ pc[r] \in HasFam \ Creating => l.fam \in opened
    /\ pc[r] \in Creating => l.fam \notin opened
    /\ pc[r] \in Publishing => l.fam \notin Indexed
    \* the tokens are of this session
    /\ pc[r] \in HasNew => lineage[l.new] = l.fam
    /\ pc[r] \in {"refreshUser", "refreshDel", "refreshMark"} => lineage[l.old] = l.fam
    /\ pc[r] = "refreshMark" => rt[l.old] = Nil
    /\ pc[r] = "reuseMark" => lineage[l.old] \in opened
    /\ pc[r] \in {"refreshDel", "refreshMark", "refreshStore", "refreshFamily"} =>
            l.ver <= tokenVersion[l.user]
    \* the loops run over sessions of this account
    /\ pc[r] \in RevokeAllLabel \cup {"listPick", "listStale"} =>
            \A f \in l.todo : owner[f] = l.user /\ f \in opened
    /\ pc[r] \in RevokeAllLabel =>
            \A f \in l.ids : \/ f \in l.todo \cup {l.keep} \/ f \in Ended
                             \/ pc[r] \in Going /\ f = l.fam
    /\ pc[r] \in Going => l.fam # l.keep

CreatesDistinct ==
    \A q, r \in Request :
        pc[q] \in Creating /\ pc[r] \in Creating /\ loc[q].fam = loc[r].fam => q = r

SessionInv == StoreOK /\ (\A r \in Request : LocalOK(r)) /\ CreatesDistinct

=============================================================================
