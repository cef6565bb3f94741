------------------------------ MODULE Gateway ------------------------------
(***************************************************************************)
(* The WebSocket gateway of the API server (websocket/websocket.gateway.ts *)
(* and websocket.consumer.ts) on top of the life of sessions.              *)
(*                                                                         *)
(* A connection is admitted after one look-up of its session in Redis; it  *)
(* is closed by the consumer of auth.session_revoked, which looks for the  *)
(* sockets whose client.data.user names the session.  Nothing else ties a  *)
(* socket to its session.                                                  *)
(*                                                                         *)
(* Left out: the page rooms, into which nothing is sent (a join_page that  *)
(* arrives before the admission closes the socket, which Drop covers), and *)
(* the alerts pushed to sockets, which change nothing here.                *)
(***************************************************************************)
EXTENDS SessionLife, FiniteSets

CONSTANTS
    Socket,
    User,
    Org,
    Nil,
    AccountOf,    \* the account of each session
    RoleOf,       \* role and organization in the tokens of each account
    OrgOf,
    TypeOf        \* organization_type of each organization

ASSUME GatewayAssumption ==
    /\ AccountOf \in [Family -> User] /\ OrgOf \in [User -> Org]
    /\ RoleOf \in [User -> {"shipper", "carrier", "admin", "regulator", "super_admin"}]
    /\ TypeOf \in [Org -> {"shipper", "carrier", "regulator"}]
    /\ Nil \notin Family \cup User \cup Org

\* ShipmentEventPayload: what decides who sees it
Payload ==
    [shipper    : {o \in Org : TypeOf[o] = "shipper"},
     carrierOrg : {o \in Org : TypeOf[o] = "carrier"} \cup {Nil},
     driver     : {u \in User : RoleOf[u] = "carrier"} \cup {Nil}]

VARIABLES
    queue,      \* sessions with a message in ws.session-revoked
    stage,      \* "closed", "checking" the session, "admitting" it, or "connected"
    session,    \* the session of the socket's token; of client.data.user once connected
    last,       \* the last shipment:updated a socket got
    \* history: no code reads these
    handled,    \* sessions whose revocation the consumer has handled
    raced       \* sockets that were being admitted when it was

sockets == <<stage, session, last>>
vars    == <<lifeVars, queue, sockets, handled, raced>>

Stage == {"closed", "checking", "admitting", "connected"}

TypeOK ==
    /\ life \in [Family -> {"unused", "open", "ended"}] /\ announced \subseteq Family
    /\ queue \subseteq Family
    /\ stage \in [Socket -> Stage]
    /\ session \in [Socket -> Family \cup {Nil}]
    /\ last \in [Socket -> Payload \cup {Nil}]
    /\ handled \subseteq Family /\ raced \subseteq Socket

Init ==
    /\ LifeInit
    /\ queue = {}
    /\ stage = [c \in Socket |-> "closed"]
    /\ session = [c \in Socket |-> Nil]
    /\ last = [c \in Socket |-> Nil]
    /\ handled = {} /\ raced = {}

-----------------------------------------------------------------------------
(* Sessions, as SessionLife promises them; an announcement is a message.     *)

OpenSession(f) == Open(f) /\ UNCHANGED <<queue, sockets, handled, raced>>
EndSession(f)  == End(f) /\ UNCHANGED <<queue, sockets, handled, raced>>

PublishRevoked(f) ==
    /\ Announce(f)
    /\ queue' = queue \cup {f}
    /\ UNCHANGED <<sockets, handled, raced>>

-----------------------------------------------------------------------------
(* handleConnection                                                          *)

\* A client presents an access token, which it has of sessions once opened.
Connect(c, f) ==
    /\ stage[c] = "closed"
    /\ life[f] # "unused"
    /\ stage' = [stage EXCEPT ![c] = "checking"]
    /\ session' = [session EXCEPT ![c] = f]
    /\ UNCHANGED <<lifeVars, queue, last, handled, raced>>

Close(c) ==
    /\ stage' = [stage EXCEPT ![c] = "closed"]
    /\ session' = [session EXCEPT ![c] = Nil]
    /\ last' = [last EXCEPT ![c] = Nil]

\* Mutant: the session is not looked up.
TrustingLookUp(c) ==
    /\ stage[c] = "checking"
    /\ stage' = [stage EXCEPT ![c] = "admitting"]
    /\ UNCHANGED <<lifeVars, queue, session, last, handled, raced>>

\* SISMEMBER user_sessions:<sub>; a session that is not there is refused.
LookUp(c) ==
    /\ stage[c] = "checking"
    /\ IF life[session[c]] = "open"
       THEN stage' = [stage EXCEPT ![c] = "admitting"] /\ UNCHANGED <<session, last, raced>>
       ELSE Close(c) /\ UNCHANGED raced
    /\ UNCHANGED <<lifeVars, queue, handled>>

\* The answer arrives: client.data.user is set.
Admit(c) ==
    /\ stage[c] = "admitting"
    /\ stage' = [stage EXCEPT ![c] = "connected"]
    /\ UNCHANGED <<lifeVars, queue, session, last, handled, raced>>

\* The client or the network closes the socket.
Drop(c) ==
    /\ stage[c] # "closed"
    /\ Close(c)
    /\ raced' = raced \ {c}
    /\ UNCHANGED <<lifeVars, queue, handled>>

-----------------------------------------------------------------------------
(* The consumers                                                             *)

Of(f, at) == {c \in Socket : stage[c] = at /\ session[c] = f}

\* Mutant: the consumer ignores a message about a session it has handled before.
HandleOnce(f) ==
    LET closed == IF f \in handled THEN {} ELSE Of(f, "connected") IN
    /\ f \in queue
    /\ queue' = queue \ {f}
    /\ stage' = [c \in Socket |-> IF c \in closed THEN "closed" ELSE stage[c]]
    /\ session' = [c \in Socket |-> IF c \in closed THEN Nil ELSE session[c]]
    /\ last' = [c \in Socket |-> IF c \in closed THEN Nil ELSE last[c]]
    /\ handled' = handled \cup {f}
    /\ raced' = (raced \ closed) \cup Of(f, "admitting")
    /\ UNCHANGED lifeVars

\* handleSessionRevoked, emitForceLogout: every socket whose user has the session
HandleSessionRevoked(f) ==
    LET closed == Of(f, "connected") IN
    /\ f \in queue
    /\ queue' = queue \ {f}
    /\ stage' = [c \in Socket |-> IF c \in closed THEN "closed" ELSE stage[c]]
    /\ session' = [c \in Socket |-> IF c \in closed THEN Nil ELSE session[c]]
    /\ last' = [c \in Socket |-> IF c \in closed THEN Nil ELSE last[c]]
    /\ handled' = handled \cup {f}
    /\ raced' = (raced \ closed) \cup Of(f, "admitting")
    /\ UNCHANGED lifeVars

\* Mutant: a driver sees what his organization has claimed, an org-mate's included.
CanViewOrgMates(u, p) ==
    \/ RoleOf[u] \in {"super_admin", "regulator"}
    \/ RoleOf[u] \in {"shipper", "admin"} /\ p.shipper = OrgOf[u]
    \/ RoleOf[u] \in {"admin", "carrier"} /\ p.carrierOrg = OrgOf[u]
    \/ RoleOf[u] = "carrier" /\ (p.driver = u \/ p.carrierOrg = Nil)

\* canViewShipment
CanView(u, p) ==
    \/ RoleOf[u] \in {"super_admin", "regulator"}
    \/ RoleOf[u] \in {"shipper", "admin"} /\ p.shipper = OrgOf[u]
    \/ RoleOf[u] = "admin" /\ p.carrierOrg = OrgOf[u]
    \/ /\ RoleOf[u] = "carrier"
       /\ \/ p.driver = u
          \/ p.carrierOrg = OrgOf[u] /\ p.driver = Nil
          \/ p.carrierOrg = Nil

\* handleShipmentEvent, emitShipmentEvent
EmitShipmentEvent(p) ==
    /\ last' = [c \in Socket |->
                  IF stage[c] = "connected" /\ CanView(AccountOf[session[c]], p)
                  THEN p ELSE last[c]]
    /\ UNCHANGED <<lifeVars, queue, stage, session, handled, raced>>

-----------------------------------------------------------------------------
Next ==
    \/ \E f \in Family :
        OpenSession(f) \/ EndSession(f) \/ PublishRevoked(f) \/ HandleSessionRevoked(f)
    \/ \E c \in Socket :
        (\E f \in Family : Connect(c, f)) \/ LookUp(c) \/ Admit(c) \/ Drop(c)
    \/ \E p \in Payload : EmitShipmentEvent(p)

Spec == Init /\ [][Next]_vars

\* A message in the queue is delivered to the consumer.
FairSpec == Spec /\ \A f \in Family : WF_vars(HandleSessionRevoked(f))

-----------------------------------------------------------------------------
(* Properties *)

\* A socket outlives the announced end of its session only if it was being
\* admitted, its session looked up and client.data.user not yet set, when the
\* announcement was handled (handleConnection 75-94 against emitForceLogout 167).
OnlyRacingSocketsOutlive ==
    \A c \in Socket : stage[c] = "connected" /\ session[c] \in handled => c \in raced

\* A socket connected while an announcement of its session waits is closed, the
\* ones that outlived an earlier announcement included (emitForceLogout).
ForcedLogoutArrives ==
    \A c \in Socket, f \in Family :
        stage[c] = "connected" /\ session[c] = f /\ f \in queue
            ~> session[c] # f

\* enforceViewAccess, canCarrierManage: GET /shipments/:id answers
MayInspect(u, p) ==
    \/ RoleOf[u] \in {"super_admin", "regulator"}
    \/ p.shipper = OrgOf[u]
    \/ p.driver = u
    \/ /\ p.carrierOrg = OrgOf[u]
       /\ RoleOf[u] = "carrier" => p.driver = Nil

\* buildWhereClause: drivers are listed what no organization has claimed, until it
\* is cancelled.
Offered(u, p) == RoleOf[u] = "carrier" /\ p.carrierOrg = Nil

\* The gateway and the REST API decide alike, with code of their own: what a socket
\* was last sent is about a shipment that its account may inspect, or that is or was
\* offered to it (canViewShipment against enforceViewAccess and buildWhereClause).
ShowsWhatTheApiShows ==
    \A c \in Socket : last[c] # Nil =>
        LET u == AccountOf[session[c]] IN MayInspect(u, last[c]) \/ Offered(u, last[c])
=============================================================================
