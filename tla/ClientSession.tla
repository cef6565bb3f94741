--------------------------- MODULE ClientSession ---------------------------
(***************************************************************************)
(* One tab of the web client and its session: the store of credentials     *)
(* (store/auth.store.ts), the HTTP layer and its silent refresh            *)
(* (api/client.ts), the live socket (services/socket.ts,                   *)
(* LiveSocketBridge.tsx), the guard of the pages (ProtectedRoute.tsx) and  *)
(* the logout (useAuth.ts).                                                *)
(*                                                                         *)
(* Three parts of the client refresh on their own, with the one cookie of  *)
(* the browser: the interceptor of the HTTP layer, the socket and the      *)
(* guard.  Refresh tokens and the access tokens issued with them are       *)
(* numbered; the server is what AuthSessions makes of it: a refresh with   *)
(* the live token rotates it, with an older one ends the session.          *)
(*                                                                         *)
(* JavaScript runs to its next await without interruption.  An assignment  *)
(* to window.location is taken as the reload it leads to.                  *)
(***************************************************************************)
EXTENDS Naturals, FiniteSets

CONSTANTS
    Call,          \* requests of the pages
    SocketTry,     \* refreshes the socket may have under way
    MaxIssued,     \* bound: tokens the server issues
    MaxLogins,     \* bound: logins
    MaxTroubles    \* bound: reloads, and what the network loses

ASSUME ClientSessionAssumption ==
    /\ {MaxIssued, MaxLogins, MaxTroubles} \subseteq Nat
    /\ "http" \notin SocketTry /\ "guard" \notin SocketTry

Refresher == {"http", "guard"} \cup SocketTry

VARIABLES
    token,      \* accessToken of the store, 0 for none
    signedIn,   \* isAuthenticated
    jar,        \* the refresh cookie of the browser, 0 for none
    refresh,    \* the refreshes under way
    orphans,    \* cookies of refreshes whose page is gone
    page,       \* the requests of the pages
    wire,       \* the socket
    leaving,    \* the logout under way
    alive,      \* server: the refresh token that is live, 0 when there is no session
    issued,     \* server: tokens issued so far
    expired,    \* server: access tokens up to this one have expired
    reused,     \* history: the server has taken a refresh for a reuse
    strained,   \* history: a refresh began while another was under way, or its
                \* answer never arrived
    cleared,    \* history: the store was cleared while requests were under way
    spent       \* history: bounded events so far

store      == <<token, signedIn>>
server     == <<alive, issued, expired, reused>>
tabNotes   == <<strained, cleared, spent>>
clientVars == <<store, jar, refresh, orphans, page, wire, leaving, server, tabNotes>>

Attempt == [at : {"idle", "sent", "answered", "refused", "failed", "owner", "queued"},
            cookie : 0..MaxIssued, got : 0..MaxIssued,
            seen   : 0..MaxIssued,       \* the token the guard was looking at
            must   : BOOLEAN]            \* sent again by the interceptor, or after auth_required

NoAttempt == [at |-> "idle", cookie |-> 0, got |-> 0, seen |-> 0, must |-> FALSE]

PageCall == [at : {"idle", "sent", "ok", "unauthorized", "owner", "queued"},
             token : 0..MaxIssued, retried : BOOLEAN,
             me : BOOLEAN]               \* GET /me of the guard, which still waits for it
NoCall   == [at |-> "idle", token |-> 0, retried |-> FALSE, me |-> FALSE]

FlagsOK == signedIn \in BOOLEAN /\ reused \in BOOLEAN /\ strained \in BOOLEAN /\ cleared \in BOOLEAN

ClientTypeOK ==
    /\ FlagsOK /\ token \in 0..MaxIssued /\ jar \in 0..MaxIssued
    /\ refresh \in [Refresher -> Attempt] /\ orphans \subseteq 0..MaxIssued
    /\ page \in [Call -> PageCall]
    /\ wire \in {"none", "connecting", "connected", "refreshing"}
    /\ leaving \in {"no", "sent", "done"}
    /\ alive \in 0..MaxIssued /\ issued \in 0..MaxIssued /\ expired \in 0..MaxIssued
    /\ spent \in [logins : 0..MaxLogins, troubles : 0..MaxTroubles]

\* The login page of a browser without cookies.
ClientInit ==
    /\ token = 0 /\ signedIn = FALSE /\ jar = 0
    /\ refresh = [x \in Refresher |-> NoAttempt] /\ orphans = {}
    /\ page = [q \in Call |-> NoCall]
    /\ wire = "none" /\ leaving = "no"
    /\ alive = 0 /\ issued = 0 /\ expired = 0 /\ reused = FALSE
    /\ strained = FALSE /\ cleared = FALSE
    /\ spent = [logins |-> 0, troubles |-> 0]

-----------------------------------------------------------------------------
InFlight == {x \in Refresher : refresh[x].at \in {"sent", "answered"}}
\* Everything whose answer may still set a token.
Pending  == {x \in Refresher : refresh[x].at # "idle"} \cup {q \in Call : page[q].at # "idle"}
Uses(field, limit) == spent[field] < limit /\ spent' = [spent EXCEPT ![field] = @ + 1]

Accepted(t) == t > expired /\ alive # 0     \* the guard of the API: unexpired, session alive

\* A reload ends every script of the tab; the server may still serve what was sent.
Reload ==
    /\ refresh' = [x \in Refresher |-> NoAttempt] /\ page' = [q \in Call |-> NoCall]
    /\ orphans' = orphans \cup {refresh[x].cookie : x \in {y \in InFlight : refresh[y].at = "sent"}}
    /\ wire' = "none" /\ leaving' = "no"
    /\ strained' = (strained \/ InFlight # {})

\* clearAuth and window.location.href = "/login"
SignOutAndReload ==
    /\ token' = 0 /\ signedIn' = FALSE
    /\ Reload
    /\ UNCHANGED <<jar, server, cleared, spent>>

\* useAuth.login and register; typing takes longer than any request under way.
Login ==
    /\ ~ signedIn /\ leaving = "no" /\ InFlight = {} /\ orphans = {}
    /\ \A q \in Call : page[q].at = "idle"
    /\ issued < MaxIssued /\ Uses("logins", MaxLogins)
    /\ issued' = issued + 1 /\ alive' = issued + 1 /\ jar' = issued + 1
    /\ token' = issued + 1 /\ signedIn' = TRUE
    /\ reused' = FALSE /\ strained' = FALSE /\ cleared' = FALSE
    /\ UNCHANGED <<refresh, orphans, page, wire, leaving, expired>>

-----------------------------------------------------------------------------
(* A refresh: sent with the cookie of the moment, served, and answered *)

\* axios.post("/api/auth/refresh"): the browser adds its cookie.
Sent(c, seen, must) == [at |-> "sent", cookie |-> c, got |-> 0, seen |-> seen, must |-> must]
Post(x, must) ==
    /\ refresh' = [refresh EXCEPT ![x] = Sent(jar, IF x = "guard" THEN token ELSE 0, must)]
    /\ strained' = (strained \/ InFlight # {})

\* refreshToken of the server: rotation, reuse, or a token nobody knows.
Rotates(c) == c # 0 /\ c = alive
Reuses(c)  == c # 0 /\ c < alive

Verdict(c) ==
    /\ Rotates(c) => issued < MaxIssued
    /\ issued' = IF Rotates(c) THEN issued + 1 ELSE issued
    /\ alive' = CASE Rotates(c) -> issued + 1 [] Reuses(c) -> 0 [] OTHER -> alive
    /\ reused' = (reused \/ Reuses(c))

Serve(x) ==
    LET c == refresh[x].cookie IN
    /\ refresh[x].at = "sent"
    /\ Verdict(c)
    /\ refresh' = [refresh EXCEPT ![x] =
          [@ EXCEPT !.at = IF Rotates(c) THEN "answered" ELSE "refused",
                    !.got = IF Rotates(c) THEN issued + 1 ELSE 0, !.cookie = 0]]
    /\ UNCHANGED <<store, jar, orphans, page, wire, leaving, expired, tabNotes>>

ServeOrphan(c) ==
    /\ c \in orphans
    /\ orphans' = orphans \ {c}
    /\ \/ Verdict(c)
       \/ UNCHANGED <<alive, issued, reused>>
    /\ UNCHANGED <<store, jar, refresh, page, wire, leaving, expired, tabNotes>>

\* The network, or the limit of ten refreshes a minute; when the server had
\* served the request already, the new cookie never arrives.
LoseAnswer(x) ==
    /\ refresh[x].at \in {"sent", "answered"}
    /\ Uses("troubles", MaxTroubles)
    /\ refresh' = [refresh EXCEPT ![x] = [@ EXCEPT !.at = "failed", !.cookie = 0, !.got = 0]]
    /\ strained' = (strained \/ refresh[x].at = "answered")
    /\ UNCHANGED <<store, jar, orphans, page, wire, leaving, server, cleared>>

-----------------------------------------------------------------------------
(* The HTTP layer *)

\* Requests of the pages, and GET /api/auth/me of the guard
SendCall(q, me) ==
    /\ page[q].at = "idle" /\ token # 0 /\ (me \/ signedIn)
    /\ page' = [page EXCEPT ![q] = [at |-> "sent", token |-> token, retried |-> FALSE, me |-> me]]
    /\ UNCHANGED <<store, jar, refresh, orphans, wire, leaving, server, tabNotes>>

ServeCall(q) ==
    /\ page[q].at = "sent"
    /\ page' = [page EXCEPT ![q].at = IF Accepted(page[q].token) THEN "ok" ELSE "unauthorized"]
    /\ UNCHANGED <<store, jar, refresh, orphans, wire, leaving, server, tabNotes>>

\* What /me answers to the guard signs the user in, unless the token has changed
\* meanwhile: the effect that waited for it is cancelled then.
Current(q) == page[q].me /\ page[q].token = token
ReceiveCall(q) ==
    /\ page[q].at = "ok"
    /\ page' = [page EXCEPT ![q] = NoCall]
    /\ signedIn' = (signedIn \/ Current(q))
    /\ UNCHANGED <<token, jar, refresh, orphans, wire, leaving, server, tabNotes>>

isRefreshing == refresh["http"].at # "idle"

\* The response interceptor, for a request of a page
Unauthorized(q) ==
    /\ page[q].at = "unauthorized"
    /\ \/ page[q].retried /\ SignOutAndReload
       \/ /\ ~ page[q].retried /\ ~ isRefreshing
          /\ page' = [page EXCEPT ![q].at = "owner"]
          /\ Post("http", FALSE)
          /\ UNCHANGED <<store, jar, orphans, wire, leaving, server, cleared, spent>>
       \/ /\ ~ page[q].retried /\ isRefreshing
          /\ page' = [page EXCEPT ![q].at = "queued"]
          /\ UNCHANGED <<store, jar, refresh, orphans, wire, leaving, server, tabNotes>>

\* The owner of the refresh and those that waited are sent again with the new
\* token; only the owner is marked as retried.
Resent(q, t) ==
    CASE page[q].at = "owner"  -> [at |-> "sent", token |-> t, retried |-> TRUE, me |-> FALSE]
      [] page[q].at = "queued" -> [at |-> "sent", token |-> t, retried |-> FALSE, me |-> FALSE]
      [] OTHER                 -> page[q]

\* Mutant: the answer does not replace the cookie.
StaleCookieHttpRefreshed ==
    LET t == refresh["http"].got IN
    /\ refresh["http"].at = "answered"
    /\ token' = t
    /\ page' = [q \in Call |-> Resent(q, t)]
    /\ refresh' = [refresh EXCEPT !["http"] = NoAttempt]
    /\ UNCHANGED <<signedIn, jar, orphans, wire, leaving, server, tabNotes>>

\* Mutant: only the request that began the refresh is sent again.
SelfishHttpRefreshed ==
    LET t == refresh["http"].got
        g == refresh["guard"].at
    IN  /\ refresh["http"].at = "answered"
        /\ jar' = t /\ token' = t
        /\ page' = [q \in Call |-> IF page[q].at = "owner" THEN Resent(q, t) ELSE page[q]]
        /\ refresh' = [refresh EXCEPT
              !["http"] = NoAttempt,
              !["guard"] = IF g = "owner" THEN Sent(t, @.seen, TRUE) ELSE @]
        /\ UNCHANGED <<signedIn, orphans, wire, leaving, server, tabNotes>>

HttpRefreshed ==
    LET t == refresh["http"].got
        g == refresh["guard"].at
    IN  /\ refresh["http"].at = "answered"
        /\ jar' = t /\ token' = t
        /\ page' = [q \in Call |-> Resent(q, t)]
        /\ refresh' = [refresh EXCEPT
              !["http"] = NoAttempt,
              !["guard"] = IF g \in {"owner", "queued"}
                           THEN Sent(t, @.seen, g = "owner") ELSE @]
        /\ UNCHANGED <<signedIn, orphans, wire, leaving, server, tabNotes>>

\* Mutant: a refresh that fails gives the requests up and leaves the user signed in.
PatientHttpRefused ==
    /\ refresh["http"].at \in {"refused", "failed"}
    /\ refresh' = [refresh EXCEPT !["http"] = NoAttempt]
    /\ page' = [q \in Call |-> IF page[q].at \in {"owner", "queued"} THEN NoCall ELSE page[q]]
    /\ UNCHANGED <<store, jar, orphans, wire, leaving, server, tabNotes>>

\* Any failure of the refresh, the network's included.
HttpRefused ==
    /\ refresh["http"].at \in {"refused", "failed"}
    /\ SignOutAndReload

-----------------------------------------------------------------------------
(* The socket *)

\* The effect of LiveSocketBridge, and socket.io connecting again.
ConnectSocket ==
    /\ wire = "none" /\ signedIn /\ token # 0
    /\ wire' = "connecting"
    /\ UNCHANGED <<store, jar, refresh, orphans, page, leaving, server, tabNotes>>

\* handleConnection of the gateway
SocketAdmitted ==
    /\ wire = "connecting" /\ Accepted(token)
    /\ wire' = "connected"
    /\ UNCHANGED <<store, jar, refresh, orphans, page, leaving, server, tabNotes>>

SocketAuthRequired(x) ==
    /\ wire = "connecting" /\ token <= expired
    /\ refresh[x].at = "idle"
    /\ wire' = "refreshing"
    /\ Post(x, TRUE)
    /\ UNCHANGED <<store, jar, orphans, page, leaving, server, cleared, spent>>

\* connect_error: socket.io goes on trying while the refresh is under way.
SocketConnectError(x) ==
    /\ wire \in {"connecting", "connected"} /\ token # 0
    /\ refresh[x].at = "idle"
    /\ Uses("troubles", MaxTroubles)
    /\ wire' = "connecting"
    /\ Post(x, FALSE)
    /\ UNCHANGED <<store, jar, orphans, page, leaving, server, cleared>>

SocketRefreshed(x) ==
    /\ refresh[x].at = "answered"
    /\ jar' = refresh[x].got /\ token' = refresh[x].got
    /\ refresh' = [refresh EXCEPT ![x] = NoAttempt]
    /\ wire' = IF refresh[x].must /\ wire = "refreshing" THEN "connecting" ELSE wire
    /\ UNCHANGED <<signedIn, orphans, page, leaving, server, tabNotes>>

\* forceLogout after auth_required; after connect_error the failure is ignored.
SocketRefused(x) ==
    /\ refresh[x].at \in {"refused", "failed"}
    /\ \/ refresh[x].must /\ SignOutAndReload
       \/ /\ ~ refresh[x].must
          /\ refresh' = [refresh EXCEPT ![x] = NoAttempt]
          /\ UNCHANGED <<store, jar, orphans, page, wire, leaving, server, tabNotes>>

\* "force_logout": the session of the socket ended.
ForceLogout ==
    /\ wire = "connected" \/ (wire = "connecting" /\ token > expired)
    /\ alive = 0
    /\ SignOutAndReload

-----------------------------------------------------------------------------
(* The guard of the pages, logout and reload *)

\* ProtectedRoute finds its token expired, after a reload for instance.
GuardRefresh ==
    /\ token # 0 /\ token <= expired /\ refresh["guard"].at = "idle"
    /\ Post("guard", FALSE)
    /\ UNCHANGED <<store, jar, orphans, page, wire, leaving, server, cleared, spent>>

\* The effect is cancelled when the token has changed meanwhile; the cookie is not.
GuardRefreshed ==
    /\ refresh["guard"].at = "answered"
    /\ jar' = refresh["guard"].got
    /\ token' = IF token = refresh["guard"].seen THEN refresh["guard"].got ELSE token
    /\ refresh' = [refresh EXCEPT !["guard"] = NoAttempt]
    /\ UNCHANGED <<signedIn, orphans, page, wire, leaving, server, tabNotes>>

\* A 401 goes through the interceptor like any other request's.
GuardUnauthorized ==
    /\ refresh["guard"].at = "refused"
    /\ \/ refresh["guard"].must /\ SignOutAndReload
       \/ /\ ~ refresh["guard"].must /\ ~ isRefreshing
          /\ refresh' = [refresh EXCEPT !["guard"].at = "owner", !["http"] = Sent(jar, 0, FALSE)]
          /\ strained' = (strained \/ InFlight # {})
          /\ UNCHANGED <<store, jar, orphans, page, wire, leaving, server, cleared, spent>>
       \/ /\ ~ refresh["guard"].must /\ isRefreshing
          /\ refresh' = [refresh EXCEPT !["guard"].at = "queued"]
          /\ UNCHANGED <<store, jar, orphans, page, wire, leaving, server, tabNotes>>

\* Any other failure makes the guard clear the store, unless it was cancelled.
GuardFailed ==
    LET mine == token = refresh["guard"].seen IN
    /\ refresh["guard"].at = "failed"
    /\ refresh' = [refresh EXCEPT !["guard"] = NoAttempt]
    /\ token' = IF mine THEN 0 ELSE token
    /\ signedIn' = (signedIn /\ ~ mine)
    /\ wire' = IF mine THEN "none" ELSE wire
    /\ UNCHANGED <<jar, orphans, page, leaving, server, strained, spent>>
    /\ cleared' = (cleared \/ (mine /\ Pending' # {}))

\* GET /me fails for the network: the guard clears the store as well.
LoseMe(q) ==
    /\ page[q].at = "sent" /\ Current(q)
    /\ Uses("troubles", MaxTroubles)
    /\ page' = [page EXCEPT ![q] = NoCall]
    /\ token' = 0 /\ signedIn' = FALSE /\ wire' = "none"
    /\ UNCHANGED <<jar, refresh, orphans, leaving, server, strained>>
    /\ cleared' = (cleared \/ Pending' # {})

Logout ==
    /\ signedIn /\ leaving = "no"
    /\ leaving' = "sent"
    /\ UNCHANGED <<store, jar, refresh, orphans, page, wire, server, tabNotes>>

ServeLogout ==
    /\ leaving = "sent"
    /\ leaving' = "done" /\ jar' = 0
    /\ alive' = IF jar = alive THEN 0 ELSE alive
    /\ UNCHANGED <<store, refresh, orphans, page, wire, issued, expired, reused, tabNotes>>

\* Mutant: the logout forgets the user and keeps the token.
HalfLeaveStore ==
    /\ leaving = "done"
    /\ leaving' = "no" /\ signedIn' = FALSE /\ wire' = "none"
    /\ UNCHANGED <<token, jar, refresh, orphans, page, server, tabNotes>>

\* finally: clearAuth; the bridge takes the socket down.
LeaveStore ==
    /\ leaving = "done"
    /\ leaving' = "no" /\ token' = 0 /\ signedIn' = FALSE /\ wire' = "none"
    /\ cleared' = (cleared \/ Pending # {})
    /\ UNCHANGED <<jar, refresh, orphans, page, server, strained, spent>>

ReloadTab ==
    /\ Uses("troubles", MaxTroubles) /\ Reload
    /\ UNCHANGED <<store, jar, server, cleared>>

\* Fifteen minutes pass.
Expire ==
    /\ expired < issued /\ expired' = issued
    /\ UNCHANGED <<store, jar, refresh, orphans, page, wire, leaving, alive, issued, reused, tabNotes>>

\* The session is revoked elsewhere.
Revoke ==
    /\ alive # 0 /\ alive' = 0
    /\ UNCHANGED <<store, jar, refresh, orphans, page, wire, leaving, issued, expired, reused, tabNotes>>

-----------------------------------------------------------------------------
ClientNext ==
    \/ Login \/ Logout \/ ServeLogout \/ LeaveStore \/ ReloadTab \/ Expire \/ Revoke
    \/ \E x \in Refresher : Serve(x) \/ LoseAnswer(x)
    \/ \E c \in orphans : ServeOrphan(c)
    \/ \E q \in Call : (\E me \in BOOLEAN : SendCall(q, me)) \/ LoseMe(q) \/ ServeCall(q) \/ ReceiveCall(q) \/ Unauthorized(q)
    \/ HttpRefreshed \/ HttpRefused
    \/ ConnectSocket \/ SocketAdmitted \/ ForceLogout
    \/ \E x \in SocketTry : SocketAuthRequired(x) \/ SocketConnectError(x)
                            \/ SocketRefreshed(x) \/ SocketRefused(x)
    \/ GuardRefresh \/ GuardRefreshed \/ GuardUnauthorized \/ GuardFailed

\* The layout polls every fifteen seconds, and what was sent ends one way or
\* another; nothing is asked of the user, of the socket or of expiry.
Polling(q)  == SendCall(q, FALSE) \/ ServeCall(q) \/ ReceiveCall(q) \/ Unauthorized(q)
HttpEnds    == Serve("http") \/ HttpRefreshed \/ HttpRefused

ClientFairness == (\A q \in Call : WF_clientVars(Polling(q))) /\ WF_clientVars(HttpEnds)

ClientSpec == ClientInit /\ [][ClientNext]_clientVars /\ ClientFairness

-----------------------------------------------------------------------------
(* Properties *)

\* The server takes a refresh of this tab for a stolen token, and revokes the
\* session, only when two parts of the client refreshed at once or the answer of
\* an earlier refresh never arrived: the HTTP layer on its own never does it.
ReuseNeedsCrossing == reused => strained

\* The store never shows a user without a token; a token without a user is the
\* answer of a refresh that outlived a clearing of the store, or that a request
\* outliving it has begun: logging out clears the store and cancels neither.
NoOrphanToken ==
    /\ signedIn => token # 0
    /\ token # 0 /\ ~ signedIn => cleared

\* Who has had a 401 and has not given up, by what it waits as.
WaitingAs(s) == {q \in Call : page[q].at = s} \cup {x \in {"guard"} : refresh[x].at = s}

\* A refresh of the HTTP layer has one owner, and nobody waits in failedQueue
\* without one: when it ends, whichever way, no request is left behind, be it a
\* page's or the guard's (client.ts 54-110, processQueue).
QueuedHaveARefresh ==
    /\ isRefreshing <=> WaitingAs("owner") # {}
    /\ WaitingAs("queued") # {} => isRefreshing
    /\ \A a, b \in WaitingAs("owner") : a = b

\* A tab whose session the server has ended is signed out, whatever the three
\* refreshers are doing, with the socket or without it.
DeadSessionSignsOut == (signedIn /\ alive = 0) ~> ~ signedIn
=============================================================================
