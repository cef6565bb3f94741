---------------------------- MODULE AuthSessions ----------------------------
(***************************************************************************)
(* Sessions of the API server: server/src/auth/auth.service.ts with the    *)
(* guard that admits requests (auth/guards/jwt-auth.guard.ts).             *)
(*                                                                         *)
(* A session is a family of refresh tokens.  Its state is spread over four *)
(* Redis keys and two columns of the user row, and each handler reads and  *)
(* writes them with separate awaited commands.  One action below is one    *)
(* command: the code that runs between two awaits is atomic in Node, and   *)
(* any other request may run at each await.                                *)
(*                                                                         *)
(* Left out: the createdAt of a session (it only sorts a list), the JWT    *)
(* expiry (it only rejects more), the last-login column, and the answers   *)
(* that refuse a request before it changes anything.                       *)
(***************************************************************************)
EXTENDS Naturals, FiniteSets

CONSTANTS
    User,         \* accounts, all registered
    Family,       \* session identifiers randomUUID can return
    Token,        \* refresh tokens randomUUID can return
    ResetKey,     \* password-reset tokens, by their hash
    Request,      \* HTTP requests the server may be working on at once
    Nil,          \* an absent key or an unset local
    Handlers,     \* the handlers clients call in this instance
    MaxFaults,    \* bound: requests that die between two commands, keys that expire
    MaxPassword   \* bound: password changes that start below it

RefreshData == [user : User, fam : Family]      \* value of rt:<token>
FamilyData  == [user : User, latest : Token]    \* value of rt_family:<family>
AccessJwt   == [user : User, fam : Family, ver : Nat]

ASSUME NilAssumption ==
    Nil \notin User \cup Family \cup Token \cup ResetKey \cup RefreshData \cup FamilyData

ASSUME BoundsAssumption == MaxFaults \in Nat /\ MaxPassword \in Nat

VARIABLES
    \* PostgreSQL, table "user"
    active,         \* user_is_active
    tokenVersion,   \* user_token_version
    password,       \* user_password_hash, as the number of changes so far
    \* Redis
    rt,             \* rt:<token>
    family,         \* rt_family:<family>
    consumed,       \* rt_consumed:<token>
    sessions,       \* user_sessions:<user>
    pr,             \* pr:<hash of the reset token>
    \* what left the server
    cookies,        \* refresh tokens some client was given
    access,         \* access tokens some client was given
    revoked,        \* sessions published as auth.session_revoked
    \* requests
    pc,             \* the command each request executes next
    loc,            \* the locals of its handler
    \* history: no code reads these
    owner,          \* the account a session was created for
    lineage,        \* the session a refresh token was created for
    opened,         \* sessions that createTokenPair put in the index
    authPw,         \* the password a session was authenticated with
    faults          \* faults so far

account == <<active, tokenVersion, password>>
tokens  == <<rt, family, consumed>>
wire    == <<cookies, access, revoked>>
history == <<owner, lineage, opened, authPw, faults>>
vars    == <<account, tokens, sessions, pr, wire, pc, loc, history>>

RevokeAllLabel == {"allPick", "allDel", "allUnindex", "allPublish", "allStale", "allBump"}

Label ==
    {"idle", "loginToken", "loginFamily", "loginIndex", "loginSign",
     "refreshUser", "refreshDel", "refreshMark", "refreshStore", "refreshFamily",
     "reuseMark", "reuseFamily", "reuseDel", "reuseBump", "reuseUnindex", "reusePublish",
     "logoutDel", "logoutUnindex", "logoutPublish",
     "revokeGet", "revokeDel", "revokeUnindex", "revokePublish",
     "passwordWrite", "resetConsume", "resetUser", "resetWrite",
     "allSnapshot", "listSnapshot", "listPick", "listStale"} \cup RevokeAllLabel

Locals ==
    [user : User \cup {Nil}, fam : Family \cup {Nil},
     old  : Token \cup {Nil},       \* the token presented, or the one to delete
     new  : Token \cup {Nil},       \* the token this request created
     ver  : Nat, pw : Nat,          \* columns of the user row as last read
     ids  : SUBSET Family,          \* familyIds, the sessions read with SMEMBERS
     todo : SUBSET Family,          \* those the loop has not reached
     keep : Family \cup {Nil},      \* currentSessionId
     key  : ResetKey \cup {Nil}]

Blank ==
    [user |-> Nil, fam |-> Nil, old |-> Nil, new |-> Nil, ver |-> 0, pw |-> 0,
     ids |-> {}, todo |-> {}, keep |-> Nil, key |-> Nil]

TypeOK ==
    /\ active \in [User -> BOOLEAN]
    /\ tokenVersion \in [User -> Nat]
    /\ password \in [User -> Nat]
    /\ rt \in [Token -> RefreshData \cup {Nil}]
    /\ family \in [Family -> FamilyData \cup {Nil}]
    /\ consumed \in [Token -> Family \cup {Nil}]
    /\ sessions \in [User -> SUBSET Family]
    /\ pr \in [ResetKey -> User \cup {Nil}]
    /\ cookies \subseteq Token
    /\ access \subseteq AccessJwt
    /\ revoked \subseteq Family
    /\ pc \in [Request -> Label]
    /\ loc \in [Request -> Locals]
    /\ owner \in [Family -> User \cup {Nil}]
    /\ lineage \in [Token -> Family \cup {Nil}]
    /\ opened \subseteq Family
    /\ authPw \in [Family -> Nat]
    /\ faults \in Nat

Init ==
    /\ active = [u \in User |-> TRUE]
    /\ tokenVersion = [u \in User |-> 0]
    /\ password = [u \in User |-> 0]
    /\ rt = [t \in Token |-> Nil]
    /\ family = [f \in Family |-> Nil]
    /\ consumed = [t \in Token |-> Nil]
    /\ sessions = [u \in User |-> {}]
    /\ pr = [k \in ResetKey |-> Nil]
    /\ cookies = {} /\ access = {} /\ revoked = {}
    /\ pc = [r \in Request |-> "idle"]
    /\ loc = [r \in Request |-> Blank]
    /\ owner = [f \in Family |-> Nil]
    /\ lineage = [t \in Token |-> Nil]
    /\ opened = {}
    /\ authPw = [f \in Family |-> 0]
    /\ faults = 0

-----------------------------------------------------------------------------
(* Control of a request *)

\* Request r leaves command `at` for command `next`.
Goto(r, at, next) ==
    /\ pc[r] = at
    /\ pc' = [pc EXCEPT ![r] = next]

\* A client calls a handler: r enters it at `next` with the locals l.
Enter(r, handler, next, l) ==
    /\ handler \in Handlers
    /\ Goto(r, "idle", next)
    /\ loc' = [loc EXCEPT ![r] = l]

\* The handler of r answers, from command `at`.
Answer(r, at) ==
    /\ Goto(r, at, "idle")
    /\ loc' = [loc EXCEPT ![r] = Blank]

\* The guard's verdict on an access token.  It reads the user row and then the
\* index; a session never returns to the index (see Life), so a pass
\* means that both reads would have passed at the time of the first.
Admits(a) ==
    /\ active[a.user]
    /\ tokenVersion[a.user] = a.ver
    /\ a.fam \in sessions[a.user]

\* A client calls a handler behind the guard with the access token a.
EnterGuarded(r, handler, next, a, l) ==
    /\ a \in access /\ Admits(a)
    /\ Enter(r, handler, next, l)
    /\ UNCHANGED <<account, tokens, sessions, pr, wire, history>>

\* Bound: a call that will draw a token or a session is taken only while one is
\* left for it beside those the running requests will draw.
WillDraw(labels) == {r \in Request : pc[r] \in labels}
TokenLeft ==
    Cardinality(WillDraw({"loginToken", "refreshUser", "refreshDel", "refreshMark", "refreshStore"}))
        < Cardinality({t \in Token : lineage[t] = Nil})
FamilyLeft ==
    Cardinality(WillDraw({"loginToken"})) < Cardinality({f \in Family : owner[f] = Nil})

-----------------------------------------------------------------------------
(* Commands that several handlers issue *)

\* DEL rt:<token> rt_family:<family>, one atomic command
DeleteFamily(r, at, next) ==
    /\ Goto(r, at, next)
    /\ rt' = [rt EXCEPT ![loc[r].old] = Nil]
    /\ family' = [family EXCEPT ![loc[r].fam] = Nil]
    /\ UNCHANGED <<account, consumed, sessions, pr, wire, loc, history>>

\* SREM user_sessions:<user> <family>
Unindex(r, at, next) ==
    /\ Goto(r, at, next)
    /\ sessions' = [sessions EXCEPT ![loc[r].user] = @ \ {loc[r].fam}]
    /\ UNCHANGED <<account, tokens, pr, wire, loc, history>>

\* Publish auth.session_revoked; a failure is logged and swallowed.
PublishSessionRevoked(r) ==
    /\ revoked' \in {revoked, revoked \cup {loc[r].fam}}
    /\ UNCHANGED <<account, tokens, sessions, pr, cookies, access, history>>

\* UPDATE "user" SET user_token_version = user_token_version + 1
IncrementTokenVersion(u) ==
    tokenVersion' = [tokenVersion EXCEPT ![u] = @ + 1]

\* The response carries a refresh cookie and a freshly signed access token.
Deliver(r, ver) ==
    /\ cookies' = cookies \cup {loc[r].new}
    /\ access' = access \cup {[user |-> loc[r].user, fam |-> loc[r].fam, ver |-> ver]}

-----------------------------------------------------------------------------
(* POST /auth/login, and createTokenPair, which register and accept-invitation *)
(* also end with                                                              *)

\* findByEmail, the active check and the password check, all on that one read
LoginCheck(r, u) ==
    /\ active[u] /\ TokenLeft /\ FamilyLeft
    /\ Enter(r, "login", "loginToken", [Blank EXCEPT !.user = u, !.pw = password[u]])
    /\ UNCHANGED <<account, tokens, sessions, pr, wire, history>>

\* createTokenPair draws both identifiers and stores rt:<token>
LoginStoreToken(r) ==
    /\ Goto(r, "loginToken", "loginFamily")
    /\ \E t \in Token, f \in Family :
        /\ lineage[t] = Nil /\ owner[f] = Nil
        /\ rt' = [rt EXCEPT ![t] = [user |-> loc[r].user, fam |-> f]]
        /\ loc' = [loc EXCEPT ![r] = [@ EXCEPT !.fam = f, !.new = t]]
        /\ lineage' = [lineage EXCEPT ![t] = f]
        /\ owner' = [owner EXCEPT ![f] = loc[r].user]
        /\ authPw' = [authPw EXCEPT ![f] = loc[r].pw]
    /\ UNCHANGED <<account, family, consumed, sessions, pr, wire, opened, faults>>

\* Mutant: the session is not put in the index.
UnindexedStoreFamily(r) ==
    /\ Goto(r, "loginFamily", "loginSign")
    /\ family' = [family EXCEPT
                    ![loc[r].fam] = [user |-> loc[r].user, latest |-> loc[r].new]]
    /\ UNCHANGED <<account, rt, consumed, sessions, pr, wire, loc, history>>

LoginStoreFamily(r) ==
    /\ Goto(r, "loginFamily", "loginIndex")
    /\ family' = [family EXCEPT
                    ![loc[r].fam] = [user |-> loc[r].user, latest |-> loc[r].new]]
    /\ UNCHANGED <<account, rt, consumed, sessions, pr, wire, loc, history>>

LoginIndex(r) ==
    /\ Goto(r, "loginIndex", "loginSign")
    /\ sessions' = [sessions EXCEPT ![loc[r].user] = @ \cup {loc[r].fam}]
    /\ opened' = opened \cup {loc[r].fam}
    /\ UNCHANGED <<account, tokens, pr, wire, loc, owner, lineage, authPw, faults>>

\* reads the user row again and signs with the token version found now
LoginSign(r) ==
    /\ Answer(r, "loginSign")
    /\ Deliver(r, tokenVersion[loc[r].user])
    /\ UNCHANGED <<account, tokens, sessions, pr, revoked, history>>

-----------------------------------------------------------------------------
(* POST /auth/refresh: rotateToken, or handleReuse for a token already used *)

\* Mutant: the session is taken from the cookie, not from rt:<token>.
TrustingRefreshLookup(r, t) ==
    /\ t \in cookies /\ rt[t] # Nil /\ TokenLeft
    /\ \E f \in opened :
        Enter(r, "refresh", "refreshUser", [Blank EXCEPT !.user = rt[t].user, !.fam = f, !.old = t])
    /\ UNCHANGED <<account, tokens, sessions, pr, wire, history>>

RefreshLookup(r, t) ==
    /\ t \in cookies
    /\ \/ /\ rt[t] # Nil /\ TokenLeft
          /\ Enter(r, "refresh", "refreshUser",
                   [Blank EXCEPT !.user = rt[t].user, !.fam = rt[t].fam, !.old = t])
       \/ /\ rt[t] = Nil
          /\ Enter(r, "refresh", "reuseMark", [Blank EXCEPT !.old = t])
    /\ UNCHANGED <<account, tokens, sessions, pr, wire, history>>

RotateReadUser(r) ==
    /\ \/ /\ Answer(r, "refreshUser")
          /\ ~active[loc[r].user]
       \/ /\ Goto(r, "refreshUser", "refreshDel")
          /\ active[loc[r].user]
          /\ loc' = [loc EXCEPT ![r] = [@ EXCEPT !.ver = tokenVersion[loc[r].user]]]
    /\ UNCHANGED <<account, tokens, sessions, pr, wire, history>>

\* Mutant: the old token is marked but not deleted.
KeepingRotateDelete(r) ==
    /\ Goto(r, "refreshDel", "refreshMark")
    /\ UNCHANGED <<account, tokens, sessions, pr, wire, loc, history>>

RotateDelete(r) ==
    /\ Goto(r, "refreshDel", "refreshMark")
    /\ rt' = [rt EXCEPT ![loc[r].old] = Nil]
    /\ UNCHANGED <<account, family, consumed, sessions, pr, wire, loc, history>>

RotateMarkConsumed(r) ==
    /\ Goto(r, "refreshMark", "refreshStore")
    /\ consumed' = [consumed EXCEPT ![loc[r].old] = loc[r].fam]
    /\ UNCHANGED <<account, rt, family, sessions, pr, wire, loc, history>>

RotateStoreToken(r) ==
    /\ Goto(r, "refreshStore", "refreshFamily")
    /\ \E t \in Token :
        /\ lineage[t] = Nil
        /\ rt' = [rt EXCEPT ![t] = [user |-> loc[r].user, fam |-> loc[r].fam]]
        /\ loc' = [loc EXCEPT ![r] = [@ EXCEPT !.new = t]]
        /\ lineage' = [lineage EXCEPT ![t] = loc[r].fam]
    /\ UNCHANGED <<account, family, consumed, sessions, pr, wire, owner, opened, authPw, faults>>

\* Mutant: a rotation also puts the session in the index, as a login does.
IndexingStoreFamily(r) ==
    /\ Answer(r, "refreshFamily")
    /\ family' = [family EXCEPT
                    ![loc[r].fam] = [user |-> loc[r].user, latest |-> loc[r].new]]
    /\ sessions' = [sessions EXCEPT ![loc[r].user] = @ \cup {loc[r].fam}]
    /\ Deliver(r, loc[r].ver)
    /\ UNCHANGED <<account, rt, consumed, pr, revoked, history>>

\* Writes rt_family:<family> whether or not it is still there (the read before
\* it only carries createdAt over), then signs with the user row read first.
RotateStoreFamily(r) ==
    /\ Answer(r, "refreshFamily")
    /\ family' = [family EXCEPT
                    ![loc[r].fam] = [user |-> loc[r].user, latest |-> loc[r].new]]
    /\ Deliver(r, loc[r].ver)
    /\ UNCHANGED <<account, rt, consumed, sessions, pr, revoked, history>>

ReuseReadMark(r) ==
    /\ \/ /\ Answer(r, "reuseMark")
          /\ consumed[loc[r].old] = Nil
       \/ /\ Goto(r, "reuseMark", "reuseFamily")
          /\ consumed[loc[r].old] # Nil
          /\ loc' = [loc EXCEPT ![r] = [@ EXCEPT !.fam = consumed[loc[r].old]]]
    /\ UNCHANGED <<account, tokens, sessions, pr, wire, history>>

ReuseReadFamily(r) ==
    LET data == family[loc[r].fam] IN
    /\ \/ /\ Answer(r, "reuseFamily")
          /\ data = Nil
       \/ /\ Goto(r, "reuseFamily", "reuseDel")
          /\ data # Nil
          /\ loc' = [loc EXCEPT ![r] = [@ EXCEPT !.user = data.user, !.old = data.latest]]
    /\ UNCHANGED <<account, tokens, sessions, pr, wire, history>>

ReuseDelete(r) == DeleteFamily(r, "reuseDel", "reuseBump")

ReuseBump(r) ==
    /\ Goto(r, "reuseBump", "reuseUnindex")
    /\ IncrementTokenVersion(loc[r].user)
    /\ UNCHANGED <<active, password, tokens, sessions, pr, wire, loc, history>>

ReuseUnindex(r) == Unindex(r, "reuseUnindex", "reusePublish")

ReusePublish(r) == Answer(r, "reusePublish") /\ PublishSessionRevoked(r)

-----------------------------------------------------------------------------
(* POST /auth/logout *)

LogoutLookup(r, t) ==
    /\ t \in cookies /\ rt[t] # Nil
    /\ Enter(r, "logout", "logoutDel",
             [Blank EXCEPT !.user = rt[t].user, !.fam = rt[t].fam, !.old = t])
    /\ UNCHANGED <<account, tokens, sessions, pr, wire, history>>

LogoutDelete(r) == DeleteFamily(r, "logoutDel", "logoutUnindex")

\* Mutant: logout deletes the keys and leaves the session in the index.
LeavingLogoutUnindex(r) ==
    /\ Goto(r, "logoutUnindex", "logoutPublish")
    /\ UNCHANGED <<account, tokens, sessions, pr, wire, loc, history>>

LogoutUnindex(r) == Unindex(r, "logoutUnindex", "logoutPublish")
LogoutPublish(r) == Answer(r, "logoutPublish") /\ PublishSessionRevoked(r)

-----------------------------------------------------------------------------
(* DELETE /auth/sessions/:id *)

RevokeEnter(r, a, f) ==
    /\ f \in opened
    /\ EnterGuarded(r, "revoke", "revokeGet", a, [Blank EXCEPT !.user = a.user, !.fam = f])

\* Mutant: the session may be another account's.
AnyoneRevokeLookup(r) ==
    LET data == family[loc[r].fam] IN
    /\ \/ Answer(r, "revokeGet") /\ data = Nil
       \/ /\ Goto(r, "revokeGet", "revokeDel")
          /\ data # Nil
          /\ loc' = [loc EXCEPT ![r] = [@ EXCEPT !.old = data.latest]]
    /\ UNCHANGED <<account, tokens, sessions, pr, wire, history>>

RevokeLookup(r) ==
    LET data == family[loc[r].fam]
        mine == data # Nil /\ data.user = loc[r].user
    IN
    /\ \/ Answer(r, "revokeGet") /\ ~mine
       \/ /\ Goto(r, "revokeGet", "revokeDel")
          /\ mine
          /\ loc' = [loc EXCEPT ![r] = [@ EXCEPT !.old = data.latest]]
    /\ UNCHANGED <<account, tokens, sessions, pr, wire, history>>

RevokeDelete(r)  == DeleteFamily(r, "revokeDel", "revokeUnindex")
RevokeUnindex(r) == Unindex(r, "revokeUnindex", "revokePublish")
RevokePublish(r) == Answer(r, "revokePublish") /\ PublishSessionRevoked(r)

-----------------------------------------------------------------------------
(* revokeAllSessions: DELETE /auth/sessions and the end of both password    *)
(* changes                                                                  *)

RevokeAllEnter(r, a) ==
    EnterGuarded(r, "revokeAll", "allSnapshot", a, [Blank EXCEPT !.user = a.user, !.keep = a.fam])

RevokeAllSnapshot(r) ==
    LET ids == sessions[loc[r].user] IN
    /\ Goto(r, "allSnapshot", "allPick")
    /\ loc' = [loc EXCEPT ![r] = [@ EXCEPT !.ids = ids, !.todo = ids]]
    /\ UNCHANGED <<account, tokens, sessions, pr, wire, history>>

\* The next session of the loop, read; it skips the current session.
RevokeAllPick(r) ==
    /\ \E f \in loc[r].todo \ {loc[r].keep} :
        LET data == family[f] IN
        IF data # Nil /\ data.user = loc[r].user
        THEN /\ Goto(r, "allPick", "allDel")
             /\ loc' = [loc EXCEPT ![r] =
                            [@ EXCEPT !.todo = loc[r].todo \ {f}, !.fam = f, !.old = data.latest]]
        ELSE /\ Goto(r, "allPick", "allStale")
             /\ loc' = [loc EXCEPT ![r] = [@ EXCEPT !.todo = loc[r].todo \ {f}, !.fam = f]]
    /\ UNCHANGED <<account, tokens, sessions, pr, wire, history>>

RevokeAllDelete(r)  == DeleteFamily(r, "allDel", "allUnindex")
RevokeAllUnindex(r) == Unindex(r, "allUnindex", "allPublish")

\* Mutant: a session without a family is skipped and stays in the index.
SkippingRevokeAllStale(r) ==
    /\ Goto(r, "allStale", "allPick")
    /\ UNCHANGED <<account, tokens, sessions, pr, wire, loc, history>>

RevokeAllStale(r) == Unindex(r, "allStale", "allPick")

RevokeAllPublish(r) ==
    /\ Goto(r, "allPublish", "allPick")
    /\ PublishSessionRevoked(r)
    /\ UNCHANGED loc

\* The loop is over; only a revocation of every session bumps the version.
RevokeAllDone(r) ==
    /\ loc[r].todo \subseteq {loc[r].keep}
    /\ \/ Answer(r, "allPick") /\ loc[r].keep # Nil
       \/ Goto(r, "allPick", "allBump") /\ loc[r].keep = Nil /\ UNCHANGED loc
    /\ UNCHANGED <<account, tokens, sessions, pr, wire, history>>

RevokeAllBump(r) ==
    /\ Answer(r, "allBump")
    /\ IncrementTokenVersion(loc[r].user)
    /\ UNCHANGED <<active, password, tokens, sessions, pr, wire, history>>

-----------------------------------------------------------------------------
(* PATCH /auth/me/password; the check of the current password reads the row *)
(* and keeps nothing of it                                                  *)

PasswordEnter(r, a) ==
    /\ password[a.user] < MaxPassword
    /\ EnterGuarded(r, "password", "passwordWrite", a,
                    [Blank EXCEPT !.user = a.user, !.keep = a.fam])

PasswordWrite(r) ==
    LET u == loc[r].user IN
    /\ Goto(r, "passwordWrite", "allSnapshot")
    /\ password' = [password EXCEPT ![u] = @ + 1]
    /\ authPw' = [authPw EXCEPT ![loc[r].keep] = password[u] + 1]
    /\ UNCHANGED <<active, tokenVersion, tokens, sessions, pr, wire, loc, owner, lineage, opened, faults>>

-----------------------------------------------------------------------------
(* POST /auth/forgot-password and /auth/reset-password *)

\* The link goes out by mail after the key is stored; a link never mailed is a
\* key nobody presents.
ForgotPassword(u, k) ==
    /\ "reset" \in Handlers
    /\ active[u] /\ pr[k] = Nil
    /\ \A r \in Request : loc[r].key # k
    /\ pr' = [pr EXCEPT ![k] = u]
    /\ UNCHANGED <<account, tokens, sessions, wire, pc, loc, history>>

ResetLookup(r, k) ==
    /\ pr[k] # Nil /\ password[pr[k]] < MaxPassword
    /\ Enter(r, "reset", "resetConsume", [Blank EXCEPT !.user = pr[k], !.key = k])
    /\ UNCHANGED <<account, tokens, sessions, pr, wire, history>>

\* The answer of DEL, how many keys it deleted, is not looked at.
ResetConsume(r) ==
    /\ Goto(r, "resetConsume", "resetUser")
    /\ pr' = [pr EXCEPT ![loc[r].key] = Nil]
    /\ UNCHANGED <<account, tokens, sessions, wire, loc, history>>

ResetReadUser(r) ==
    /\ \/ Answer(r, "resetUser") /\ ~active[loc[r].user]
       \/ Goto(r, "resetUser", "resetWrite") /\ active[loc[r].user] /\ UNCHANGED loc
    /\ UNCHANGED <<account, tokens, sessions, pr, wire, history>>

ResetWrite(r) ==
    /\ Goto(r, "resetWrite", "allSnapshot")
    /\ password' = [password EXCEPT ![loc[r].user] = @ + 1]
    /\ UNCHANGED <<active, tokenVersion, tokens, sessions, pr, wire, loc, history>>

-----------------------------------------------------------------------------
(* GET /auth/sessions, which removes sessions without a family from the index *)

ListEnter(r, a) ==
    EnterGuarded(r, "list", "listSnapshot", a, [Blank EXCEPT !.user = a.user])

ListSnapshot(r) ==
    /\ Goto(r, "listSnapshot", "listPick")
    /\ loc' = [loc EXCEPT ![r] = [@ EXCEPT !.todo = sessions[loc[r].user]]]
    /\ UNCHANGED <<account, tokens, sessions, pr, wire, history>>

ListPick(r) ==
    /\ \E f \in loc[r].todo :
        LET live == family[f] # Nil /\ family[f].user = loc[r].user IN
        /\ Goto(r, "listPick", IF live THEN "listPick" ELSE "listStale")
        /\ loc' = [loc EXCEPT ![r] = [@ EXCEPT !.todo = loc[r].todo \ {f}, !.fam = f]]
    /\ UNCHANGED <<account, tokens, sessions, pr, wire, history>>

ListStale(r) == Unindex(r, "listStale", "listPick")

ListDone(r) ==
    /\ loc[r].todo = {}
    /\ Answer(r, "listPick")
    /\ UNCHANGED <<account, tokens, sessions, pr, wire, history>>

-----------------------------------------------------------------------------
(* What the rest of the system does to an account, and faults *)

\* An administrator deactivates or reactivates the account: one column, no
\* token version, nothing in Redis.
SetActive(u) ==
    /\ "admin" \in Handlers
    /\ active' = [active EXCEPT ![u] = ~@]
    /\ UNCHANGED <<tokenVersion, password, tokens, sessions, pr, wire, pc, loc, history>>

Fault == faults < MaxFaults /\ faults' = faults + 1

\* The process dies, or a command fails and its exception ends the request.
Abort(r) ==
    /\ Fault /\ pc[r] # "idle"
    /\ Answer(r, pc[r])
    /\ UNCHANGED <<account, tokens, sessions, pr, wire, owner, lineage, opened, authPw>>

\* The TTL of a key runs out; user_sessions has none.
Expire ==
    /\ Fault
    /\ \/ /\ \E t \in Token :
                \/ rt[t] # Nil /\ rt' = [rt EXCEPT ![t] = Nil] /\ UNCHANGED consumed
                \/ consumed[t] # Nil /\ consumed' = [consumed EXCEPT ![t] = Nil] /\ UNCHANGED rt
          /\ UNCHANGED <<family, pr>>
       \/ /\ \E f \in Family : family[f] # Nil /\ family' = [family EXCEPT ![f] = Nil]
          /\ UNCHANGED <<rt, consumed, pr>>
       \/ /\ \E k \in ResetKey : pr[k] # Nil /\ pr' = [pr EXCEPT ![k] = Nil]
          /\ UNCHANGED tokens
    /\ UNCHANGED <<account, sessions, wire, pc, loc, owner, lineage, opened, authPw>>

\* The next command of a request the server is working on
Continue(r) ==
    \/ LoginStoreToken(r) \/ LoginStoreFamily(r) \/ LoginIndex(r) \/ LoginSign(r)
    \/ RotateReadUser(r) \/ RotateDelete(r) \/ RotateMarkConsumed(r)
    \/ RotateStoreToken(r) \/ RotateStoreFamily(r)
    \/ ReuseReadMark(r) \/ ReuseReadFamily(r) \/ ReuseDelete(r) \/ ReuseBump(r)
    \/ ReuseUnindex(r) \/ ReusePublish(r)
    \/ LogoutDelete(r) \/ LogoutUnindex(r) \/ LogoutPublish(r)
    \/ RevokeLookup(r) \/ RevokeDelete(r) \/ RevokeUnindex(r) \/ RevokePublish(r)
    \/ RevokeAllSnapshot(r) \/ RevokeAllPick(r) \/ RevokeAllDelete(r) \/ RevokeAllUnindex(r)
    \/ RevokeAllStale(r) \/ RevokeAllPublish(r) \/ RevokeAllDone(r) \/ RevokeAllBump(r)
    \/ PasswordWrite(r) \/ ResetConsume(r) \/ ResetReadUser(r) \/ ResetWrite(r)
    \/ ListSnapshot(r) \/ ListPick(r) \/ ListStale(r) \/ ListDone(r)

\* A client's call
Call(r) ==
    \/ \E u \in User : LoginCheck(r, u)
    \/ \E t \in Token : RefreshLookup(r, t) \/ LogoutLookup(r, t)
    \/ \E k \in ResetKey : ResetLookup(r, k)
    \/ \E a \in access :
        \/ \E f \in Family : RevokeEnter(r, a, f)
        \/ RevokeAllEnter(r, a) \/ PasswordEnter(r, a) \/ ListEnter(r, a)

Next ==
    \/ \E r \in Request : Call(r) \/ Continue(r) \/ Abort(r)
    \/ \E u \in User : SetActive(u) \/ \E k \in ResetKey : ForgotPassword(u, k)
    \/ Expire

Spec == Init /\ [][Next]_vars

\* The event loop serves every request it has taken, and Redis and PostgreSQL
\* answer: each request's next command is executed.  Clients owe nothing.
Fairness == \A r \in Request : WF_vars(Continue(r))

FairSpec == Spec /\ Fairness

-----------------------------------------------------------------------------
(* Properties *)

\* Sessions that were in the index once and are not any more
Indexed == UNION {sessions[u] : u \in User}
Ended   == opened \ Indexed

\* A refresh token marked as consumed is never live again, however refreshes,
\* logins, revocations and expiries interleave (auth.service.ts 140-169, 459-469):
\* the lookup by rt: before rt_consumed: cannot miss a reuse.
ConsumedIsDead == \A t \in Token : consumed[t] # Nil => rt[t] = Nil

\* Every record of a session, in Redis, in a token or in a handler's locals,
\* names the account the session was created for and only tokens of that
\* session: no handler acts on the session of another account, and a reuse
\* revokes the family the reused token belonged to (500-517, 351-409, 449-483).
OneAccountPerSession ==
    /\ \A u \in User : \A f \in sessions[u] : owner[f] = u
    /\ \A t \in Token : rt[t] # Nil => rt[t].fam = lineage[t] /\ rt[t].user = owner[lineage[t]]
    /\ \A f \in Family : family[f] # Nil =>
            family[f].user = owner[f] /\ lineage[family[f].latest] = f
    /\ \A t \in Token : consumed[t] # Nil => consumed[t] = lineage[t]
    /\ \A a \in access : a.user = owner[a.fam]

\* A client never holds a token of a session that was not put in the index
\* first, so every session in use can be listed and revoked (411-447).
HeldSessionsWereIndexed ==
    /\ \A t \in cookies : lineage[t] \in opened
    /\ \A a \in access : a.fam \in opened

\* When revokeAllSessions has gone over its snapshot, no session of the
\* snapshot but the current one is in the index, whatever ran at its awaits,
\* and it never takes the current one (370-402).
RevokeAllIsExact ==
    \A r \in Request : pc[r] \in RevokeAllLabel =>
        LET l     == loc[r]
            going == IF pc[r] \in {"allDel", "allUnindex", "allStale"} THEN {l.fam} ELSE {}
        IN  /\ (l.ids \ (l.todo \cup {l.keep} \cup going)) \cap sessions[l.user] = {}
            /\ l.keep \notin going

\* The life of a session as the index shows it is the one SessionLife promises.
\* A revoked session does not come back: no refresh, login or revocation still
\* running puts it into the index again.  And auth.session_revoked is published
\* only once the session is out for good, so that a socket it disconnects, when
\* it reconnects with the same access token, is refused (171-192, 351-517).
Life == INSTANCE SessionLife WITH
    life      <- [f \in Family |-> IF f \in Indexed THEN "open"
                                   ELSE IF f \in opened THEN "ended" ELSE "unused"],
    announced <- revoked

ImplementsSessionLife == Life!LifeSpec

\* An access token the guard refuses for its token version or its session is
\* refused for ever: reactivating the account or finishing a refresh that was
\* already running does not revive it (jwt-auth.guard.ts 41-78).
Stale(a) == tokenVersion[a.user] # a.ver \/ a.fam \notin sessions[a.user]
RejectionIsFinal == [][\A a \in access : Stale(a) => Stale(a)']_vars

\* A session whose family was deleted leaves the index too, when no request
\* dies on the way: a revocation does not stop half-way (171-192, 351-409,
\* 500-517), whatever a concurrent refresh writes.
RevocationCompletes ==
    \A f \in Family : (f \in opened /\ family[f] = Nil) ~> (f \in Ended)

-----------------------------------------------------------------------------
(* What the documentation says and the code does not do *)

\* README.md: every refresh rotates the token and reuse of an old token is
\* detected.  So a session has one live refresh token at most.
OneLiveTokenPerSession ==
    \A t1, t2 \in Token :
        rt[t1] # Nil /\ rt[t2] # Nil /\ rt[t1].fam = rt[t2].fam => t1 = t2

\* auth.service.ts 665-666: a replayed link can never reset the password twice.
\* So two requests with the same reset token never both write a password.
ResetTokenIsSingleUse ==
    \A r1, r2 \in Request :
        /\ pc[r1] = "allSnapshot" /\ pc[r2] = "allSnapshot"
        /\ loc[r1].key = loc[r2].key /\ loc[r1].key # Nil
        => r1 = r2

\* auth.service.ts 648-652: a password reset revokes every session.  So with no
\* request in flight, no session that can still be refreshed was authenticated
\* with an older password.
ResetLeavesNoOldSession ==
    (\A r \in Request : pc[r] = "idle") =>
        \A u \in User : \A f \in sessions[u] :
            family[f] # Nil => authPw[f] = password[u]

=============================================================================
