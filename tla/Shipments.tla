----------------------------- MODULE Shipments -----------------------------
(***************************************************************************)
(* Shipments of the API server: server/src/shipments/shipments.service.ts  *)
(* with its transition table, and what the administration does to a        *)
(* shipment (admin/admin.service.ts).                                      *)
(*                                                                         *)
(* Every handler reads the row, decides from what it read, and writes the  *)
(* row by its identifier some awaits later, with no condition on what the  *)
(* row has become.  One action is one awaited statement, transaction or    *)
(* publication; reads that commute with every step (the user, whose role   *)
(* and organization are constants here, the route, the checkpoint) are     *)
(* part of the action before them.                                         *)
(*                                                                         *)
(* Left out: descriptions, weights, positions and dates, audit messages,   *)
(* and the answers that refuse a request before it changes anything.       *)
(***************************************************************************)
EXTENDS Naturals, FiniteSets

CONSTANTS
    Shipment,
    User,
    Org,
    Request,      \* HTTP requests the server may be working on at once
    Nil,          \* an absent row, an empty column or an unset local
    RoleOf,       \* user_role of each user
    OrgOf,        \* organization_id of each user
    TypeOf,       \* organization_type of each organization
    Handlers,     \* the handlers clients call in this instance
    Asked,        \* bound: the statuses clients and administrators ask for
    MaxCalls      \* bound: calls

Role    == {"shipper", "carrier", "admin", "regulator", "super_admin"}
OrgType == {"shipper", "carrier", "regulator"}

\* SHIPMENT_STATUSES
Status ==
    {"draft", "confirmed", "picked_up", "in_transit", "at_checkpoint", "customs_hold",
     "customs_cleared", "out_for_delivery", "delivered", "cancelled", "delayed"}

ASSUME TypeAssumption ==
    /\ RoleOf \in [User -> Role] /\ OrgOf \in [User -> Org] /\ TypeOf \in [Org -> OrgType]
    /\ Asked \subseteq Status /\ MaxCalls \in Nat
    /\ Nil \notin Shipment \cup User \cup Org \cup Status

\* STATUS_TRANSITIONS
Transitions ==
    [st \in Status |->
        CASE st = "draft"            -> {"confirmed", "cancelled"}
          [] st = "confirmed"        -> {"picked_up", "cancelled"}
          [] st = "picked_up"        -> {"in_transit", "cancelled"}
          [] st = "in_transit"       -> {"at_checkpoint", "out_for_delivery", "delayed", "cancelled"}
          [] st = "at_checkpoint"    -> {"customs_hold", "customs_cleared", "in_transit"}
          [] st = "customs_hold"     -> {"customs_cleared", "cancelled"}
          [] st = "customs_cleared"  -> {"in_transit", "out_for_delivery"}
          [] st = "out_for_delivery" -> {"delivered", "cancelled"}
          [] st = "delivered"        -> {}
          [] st = "cancelled"        -> {"draft", "confirmed"}
          [] st = "delayed"          -> {"in_transit", "cancelled"}]

\* A row of shipment_event; admin marks an override by an administrator.
Event == [type   : {"shipment_created", "status_change", "carrier_assigned", "route_assigned"},
          status : Status, admin : BOOLEAN]

\* A message on escv.events: its routing key, and the new status when it tells one
Message == [key : {"shipment.created", "shipment.status_changed", "shipment.accepted",
                   "shipment.route_assigned", "shipment.delivered", "shipment.exception",
                   "shipment.delayed"},
            status : Status \cup {Nil}]

VARIABLES
    \* table shipment
    status,        \* shipment_status, Nil when there is no row
    shipper,       \* shipper_organization_id
    carrierOrg,    \* carrier_organization_id
    carrierUser,   \* carrier_user_id
    \* table shipment_event, as the set of what it records
    timeline,
    \* messages published, by shipment
    published,
    \* requests
    pc,            \* the statement each request executes next
    loc,           \* the locals of its handler
    \* history: no code reads these
    forced,        \* shipments whose status an administrator has set by hand
    calls          \* calls so far

row     == <<status, shipper, carrierOrg, carrierUser>>
history == <<forced, calls>>
vars    == <<row, timeline, published, pc, loc, history>>

Label ==
    {"idle", "createPublish", "updateWrite", "routeWrite", "routeEvent", "routePublish",
     "statusTx", "statusPublish", "statusAlert",
     "acceptCount", "acceptWrite", "acceptEvent", "acceptPublish", "removeDelete"}

Locals ==
    [ship   : Shipment \cup {Nil},
     user   : User \cup {Nil},
     seen   : Status \cup {Nil},    \* shipment_status of the row read
     org    : Org \cup {Nil},       \* its carrier, or the carrier to write
     driver : User \cup {Nil},      \* its driver
     next   : Status \cup {Nil}]    \* dto.status

Blank == [ship |-> Nil, user |-> Nil, seen |-> Nil, org |-> Nil, driver |-> Nil, next |-> Nil]

TypeOK ==
    /\ status \in [Shipment -> Status \cup {Nil}]
    /\ shipper \in [Shipment -> Org \cup {Nil}]
    /\ carrierOrg \in [Shipment -> Org \cup {Nil}]
    /\ carrierUser \in [Shipment -> User \cup {Nil}]
    /\ timeline \in [Shipment -> SUBSET Event]
    /\ published \in [Shipment -> SUBSET Message]
    /\ pc \in [Request -> Label]
    /\ loc \in [Request -> Locals]
    /\ forced \in [Shipment -> BOOLEAN]
    /\ calls \in Nat

Init ==
    /\ status = [s \in Shipment |-> Nil]
    /\ shipper = [s \in Shipment |-> Nil]
    /\ carrierOrg = [s \in Shipment |-> Nil]
    /\ carrierUser = [s \in Shipment |-> Nil]
    /\ timeline = [s \in Shipment |-> {}]
    /\ published = [s \in Shipment |-> {}]
    /\ pc = [r \in Request |-> "idle"]
    /\ loc = [r \in Request |-> Blank]
    /\ forced = [s \in Shipment |-> FALSE]
    /\ calls = 0

-----------------------------------------------------------------------------
(* Control of a request, and statements several handlers issue *)

Goto(r, at, next) ==
    /\ pc[r] = at
    /\ pc' = [pc EXCEPT ![r] = next]

\* A client calls a handler: r enters it at `next` with the locals l.
Enter(r, handler, next, l) ==
    /\ handler \in Handlers /\ calls < MaxCalls
    /\ calls' = calls + 1
    /\ Goto(r, "idle", next)
    /\ loc' = [loc EXCEPT ![r] = l]
    /\ UNCHANGED forced

\* The handler of r answers, from `at`.
Answer(r, at) ==
    /\ Goto(r, at, "idle")
    /\ loc' = [loc EXCEPT ![r] = Blank]

\* The handler of r keeps its locals.
Proceed(r, at, next) == Goto(r, at, next) /\ UNCHANGED loc

Exists(s) == status[s] # Nil

Record(s, type, st, admin) ==
    timeline' = [timeline EXCEPT ![s] = @ \cup {[type |-> type, status |-> st, admin |-> admin]}]

Tell(key)           == [key |-> key, status |-> Nil]
TellStatus(st)      == [key |-> "shipment.status_changed", status |-> st]
Publish(s, message) == published' = [published EXCEPT ![s] = @ \cup {message}]

\* enforceEditAccess
MayEdit(u, s) == RoleOf[u] = "super_admin" \/ shipper[s] = OrgOf[u]

\* A shipment a driver still has to bring to its end
Active(s) == Exists(s) /\ status[s] \notin {"delivered", "cancelled"}

-----------------------------------------------------------------------------
(* POST /shipments *)

\* The row and its first event are created in one transaction.
CreateTx(r, u, s, o) ==
    /\ RoleOf[u] \in {"shipper", "admin"}
    /\ TypeOf[OrgOf[u]] = "shipper"
    /\ o # OrgOf[u]
    /\ ~Exists(s) /\ shipper[s] = Nil   \* a new identifier
    /\ Enter(r, "create", "createPublish", [Blank EXCEPT !.ship = s])
    /\ status' = [status EXCEPT ![s] = "draft"]
    /\ shipper' = [shipper EXCEPT ![s] = OrgOf[u]]
    /\ carrierOrg' = [carrierOrg EXCEPT ![s] = o]
    /\ Record(s, "shipment_created", "draft", FALSE)
    /\ UNCHANGED <<carrierUser, published>>

CreatePublish(r) ==
    /\ Answer(r, "createPublish")
    /\ Publish(loc[r].ship, Tell("shipment.created"))
    /\ UNCHANGED <<row, timeline, history>>

-----------------------------------------------------------------------------
(* PUT /shipments/:id, as far as it names a carrier; null clears the column *)

UpdateRead(r, u, s, o) ==
    /\ RoleOf[u] \in {"shipper", "admin", "super_admin"}
    /\ Exists(s) /\ MayEdit(u, s)
    /\ status[s] # "delivered"
    /\ o # shipper[s]
    /\ Enter(r, "update", "updateWrite", [Blank EXCEPT !.ship = s, !.org = o])
    /\ UNCHANGED <<row, timeline, published>>

UpdateWrite(r) ==
    /\ Answer(r, "updateWrite")
    /\ carrierOrg' = [carrierOrg EXCEPT ![loc[r].ship] = loc[r].org]
    /\ UNCHANGED <<status, shipper, carrierUser, timeline, published, history>>

-----------------------------------------------------------------------------
(* PATCH /shipments/:id/route *)

MayRoute(u, s) ==
    \/ RoleOf[u] = "super_admin"
    \/ shipper[s] = OrgOf[u] /\ RoleOf[u] \in {"shipper", "admin"}
    \/ /\ carrierOrg[s] = OrgOf[u] /\ TypeOf[OrgOf[u]] = "carrier"
       /\ RoleOf[u] = "admin" \/ (RoleOf[u] = "carrier" /\ carrierUser[s] = u)

RouteRead(r, u, s) ==
    /\ Exists(s) /\ status[s] # "delivered"
    /\ status[s] = "cancelled" => RoleOf[u] = "super_admin"
    /\ MayRoute(u, s)
    /\ Enter(r, "route", "routeWrite", [Blank EXCEPT !.ship = s])
    /\ UNCHANGED <<row, timeline, published>>

\* Sets route_id, which no other handler looks at.
RouteWrite(r) ==
    /\ Proceed(r, "routeWrite", "routeEvent")
    /\ UNCHANGED <<row, timeline, published, history>>

\* The event says "confirmed" whatever the status is.
RouteEvent(r) ==
    /\ Proceed(r, "routeEvent", "routePublish")
    /\ Record(loc[r].ship, "route_assigned", "confirmed", FALSE)
    /\ UNCHANGED <<row, published, history>>

RoutePublish(r) ==
    /\ Answer(r, "routePublish")
    /\ Publish(loc[r].ship, Tell("shipment.route_assigned"))
    /\ UNCHANGED <<row, timeline, history>>

-----------------------------------------------------------------------------
(* PATCH /shipments/:id/status *)

MaySetStatus(u, s) ==
    IF RoleOf[u] = "carrier"
    THEN carrierUser[s] = u
    ELSE \/ RoleOf[u] = "super_admin"
         \/ OrgOf[u] \in {shipper[s], carrierOrg[s]}
         \/ carrierUser[s] = u

\* Only the administrator of the shipper's organization, or of the platform,
\* restores a cancelled shipment.
MayRestore(u, s) ==
    RoleOf[u] = "super_admin" \/ (RoleOf[u] = "admin" /\ OrgOf[u] = shipper[s])

\* Mutant: a shipment may skip the transit.
ShortFollows(from, to) ==
    \/ to = from \/ to \in Transitions[from]
    \/ from = "picked_up" /\ to = "out_for_delivery"

Follows(from, to) == to = from \/ to \in Transitions[from]

StatusRead(r, u, s, st) ==
    /\ Exists(s) /\ MaySetStatus(u, s)
    /\ Follows(status[s], st)
    /\ status[s] = "cancelled" => MayRestore(u, s)
    /\ Enter(r, "status", "statusTx", [Blank EXCEPT !.ship = s, !.seen = status[s], !.next = st])
    /\ UNCHANGED <<row, timeline, published>>

\* One transaction: the row, by its identifier alone, and the event.
StatusTx(r) ==
    /\ Goto(r, "statusTx", "statusPublish")
    /\ loc' = [loc EXCEPT ![r] = [@ EXCEPT !.seen = Nil]]
    /\ status' = [status EXCEPT ![loc[r].ship] = loc[r].next]
    /\ Record(loc[r].ship, "status_change", loc[r].next, FALSE)
    /\ UNCHANGED <<shipper, carrierOrg, carrierUser, published, history>>

\* Past its ETA, a shipment that gets under way is reported as delayed at once,
\* without awaiting it.
StatusPublish(r) ==
    LET s == loc[r].ship
        told == published[s] \cup {TellStatus(loc[r].next)}
    IN
    /\ \/ /\ loc[r].next \in {"delivered", "customs_hold"}
          /\ Proceed(r, "statusPublish", "statusAlert")
       \/ /\ loc[r].next \notin {"delivered", "customs_hold"}
          /\ Answer(r, "statusPublish")
    /\ \E late \in IF loc[r].next = "in_transit" THEN {{}, {Tell("shipment.delayed")}} ELSE {{}} :
        published' = [published EXCEPT ![s] = told \cup late]
    /\ UNCHANGED <<row, timeline, history>>

\* Mutant: a delivery is reported as an exception.
SwappedStatusAlert(r) ==
    /\ Answer(r, "statusAlert")
    /\ Publish(loc[r].ship,
               Tell(IF loc[r].next = "delivered" THEN "shipment.exception" ELSE "shipment.delivered"))
    /\ UNCHANGED <<row, timeline, history>>

StatusAlert(r) ==
    /\ Answer(r, "statusAlert")
    /\ Publish(loc[r].ship,
               Tell(IF loc[r].next = "delivered" THEN "shipment.delivered" ELSE "shipment.exception"))
    /\ UNCHANGED <<row, timeline, history>>

-----------------------------------------------------------------------------
(* POST /shipments/:id/accept: a driver claims a shipment *)

AcceptRead(r, u, s) ==
    /\ RoleOf[u] \in {"carrier", "admin"}
    /\ Exists(s) /\ status[s] # "cancelled"
    /\ TypeOf[OrgOf[u]] = "carrier"
    /\ carrierOrg[s] \in {Nil, OrgOf[u]}
    /\ Enter(r, "accept", "acceptCount",
             [Blank EXCEPT !.ship = s, !.user = u, !.seen = status[s],
                           !.org = carrierOrg[s], !.driver = carrierUser[s]])
    /\ UNCHANGED <<row, timeline, published>>

\* Mutant: the driver the shipment already has is not looked at.
GreedyAcceptCount(r) ==
    LET busy == \E s \in Shipment : carrierUser[s] = loc[r].user /\ Active(s) IN
    /\ \/ Answer(r, "acceptCount") /\ busy
       \/ Proceed(r, "acceptCount", "acceptWrite") /\ ~busy
    /\ UNCHANGED <<row, timeline, published, history>>

\* A driver with an active shipment is refused, and so is a claim on a shipment
\* that a driver of the same organization had when the row was read; a second
\* claim by its own driver is answered with no change.
AcceptCount(r) ==
    LET l    == loc[r]
        busy == \E s \in Shipment : carrierUser[s] = l.user /\ Active(s)
        had  == l.org = OrgOf[l.user] /\ l.driver # Nil
    IN
    /\ \/ Answer(r, "acceptCount") /\ (busy \/ had)
       \/ Proceed(r, "acceptCount", "acceptWrite") /\ ~busy /\ ~had
    /\ UNCHANGED <<row, timeline, published, history>>

\* Mutant: every claim confirms the shipment.
ConfirmingAcceptWrite(r) ==
    LET l == loc[r] IN
    /\ Goto(r, "acceptWrite", "acceptEvent")
    /\ loc' = [loc EXCEPT ![r] = [Blank EXCEPT !.ship = l.ship]]
    /\ carrierUser' = [carrierUser EXCEPT ![l.ship] = l.user]
    /\ carrierOrg' = [carrierOrg EXCEPT ![l.ship] = OrgOf[l.user]]
    /\ status' = [status EXCEPT ![l.ship] = "confirmed"]
    /\ UNCHANGED <<shipper, timeline, published, history>>

\* Mutant: unless it was a draft, the status read is written back.
StaleAcceptWrite(r) ==
    LET l == loc[r] IN
    /\ Goto(r, "acceptWrite", "acceptEvent")
    /\ loc' = [loc EXCEPT ![r] = [Blank EXCEPT !.ship = l.ship]]
    /\ carrierUser' = [carrierUser EXCEPT ![l.ship] = l.user]
    /\ IF l.org = OrgOf[l.user]
       THEN UNCHANGED <<status, carrierOrg>>
       ELSE /\ carrierOrg' = [carrierOrg EXCEPT ![l.ship] = OrgOf[l.user]]
            /\ status' = [status EXCEPT ![l.ship] = IF l.seen = "draft" THEN "confirmed" ELSE l.seen]
    /\ UNCHANGED <<shipper, timeline, published, history>>

\* An organization that had the shipment already only gets a driver; otherwise
\* the organization is set too, and a shipment that was a draft is confirmed.
AcceptWrite(r) ==
    LET l == loc[r] IN
    /\ Goto(r, "acceptWrite", "acceptEvent")
    /\ loc' = [loc EXCEPT ![r] = [Blank EXCEPT !.ship = l.ship]]
    /\ carrierUser' = [carrierUser EXCEPT ![l.ship] = l.user]
    /\ IF l.org = OrgOf[l.user]
       THEN UNCHANGED <<status, carrierOrg>>
       ELSE /\ carrierOrg' = [carrierOrg EXCEPT ![l.ship] = OrgOf[l.user]]
            /\ status' = [status EXCEPT ![l.ship] = IF l.seen = "draft" THEN "confirmed" ELSE @]
    /\ UNCHANGED <<shipper, timeline, published, history>>

AcceptEvent(r) ==
    /\ Proceed(r, "acceptEvent", "acceptPublish")
    /\ Record(loc[r].ship, "carrier_assigned", "confirmed", FALSE)
    /\ UNCHANGED <<row, published, history>>

AcceptPublish(r) ==
    /\ Answer(r, "acceptPublish")
    /\ Publish(loc[r].ship, Tell("shipment.accepted"))
    /\ UNCHANGED <<row, timeline, history>>

-----------------------------------------------------------------------------
(* DELETE /shipments/:id *)

RemoveRead(r, u, s) ==
    /\ RoleOf[u] \in {"shipper", "admin", "super_admin"}
    /\ Exists(s) /\ MayEdit(u, s)
    /\ status[s] = "draft"
    /\ Enter(r, "remove", "removeDelete", [Blank EXCEPT !.ship = s, !.seen = status[s]])
    /\ UNCHANGED <<row, timeline, published>>

\* The foreign key of shipment_event restricts the deletion, and create wrote
\* an event: with an event in the timeline PostgreSQL refuses it, the request
\* fails, and the publication of shipment.removed is not reached.
RemoveDelete(r) ==
    LET s == loc[r].ship IN
    /\ Answer(r, "removeDelete")
    /\ status' = [status EXCEPT ![s] = IF timeline[s] = {} THEN Nil ELSE @]
    /\ UNCHANGED <<shipper, carrierOrg, carrierUser, timeline, published, history>>

-----------------------------------------------------------------------------
(* The administration panel: no transition table, and nothing is published *)

AdminStatus(s, st) ==
    /\ "admin" \in Handlers /\ calls < MaxCalls
    /\ calls' = calls + 1
    /\ Exists(s)
    /\ status' = [status EXCEPT ![s] = st]
    /\ Record(s, "status_change", st, TRUE)
    /\ forced' = [forced EXCEPT ![s] = TRUE]
    /\ UNCHANGED <<shipper, carrierOrg, carrierUser, published, pc, loc>>

\* bulkAction "shipment_cancel": no event either
BulkCancel(ids) ==
    /\ "admin" \in Handlers /\ calls < MaxCalls
    /\ calls' = calls + 1
    /\ status' = [s \in Shipment |-> IF s \in ids /\ Exists(s) THEN "cancelled" ELSE status[s]]
    /\ forced' = [s \in Shipment |-> forced[s] \/ (s \in ids /\ Exists(s))]
    /\ UNCHANGED <<shipper, carrierOrg, carrierUser, timeline, published, pc, loc>>

Continue(r) ==
    \/ CreatePublish(r) \/ UpdateWrite(r)
    \/ RouteWrite(r) \/ RouteEvent(r) \/ RoutePublish(r)
    \/ StatusTx(r) \/ StatusPublish(r) \/ StatusAlert(r)
    \/ AcceptCount(r) \/ AcceptWrite(r) \/ AcceptEvent(r) \/ AcceptPublish(r)
    \/ RemoveDelete(r)

Call(r) ==
    \E u \in User, s \in Shipment :
        \/ \E o \in Org \cup {Nil} : CreateTx(r, u, s, o) \/ UpdateRead(r, u, s, o)
        \/ \E st \in Asked : StatusRead(r, u, s, st)
        \/ RouteRead(r, u, s) \/ AcceptRead(r, u, s) \/ RemoveRead(r, u, s)

Next ==
    \/ \E r \in Request : Call(r) \/ Continue(r)
    \/ \E s \in Shipment, st \in Asked : AdminStatus(s, st)
    \/ \E ids \in SUBSET Shipment \ {{}} : BulkCancel(ids)

Spec == Init /\ [][Next]_vars

-----------------------------------------------------------------------------
(* Properties *)

Changed(st) == [type |-> "status_change", status |-> st, admin |-> FALSE]

\* What the table makes unavoidable on the way to a status
Milestones(st) ==
    CASE st = "delivered" -> {"picked_up", "in_transit", "out_for_delivery"}
      [] st = "out_for_delivery" -> {"picked_up", "in_transit"}
      [] st \in {"at_checkpoint", "customs_hold", "customs_cleared", "delayed"} ->
            {"picked_up", "in_transit"}
      [] st = "in_transit" -> {"picked_up"}
      [] OTHER -> {}

\* The timeline of a shipment no administrator overrode skips no milestone: it
\* records a delivery only with a pick-up, a transit and a departure for
\* delivery, although updates decide from statuses read awaits before
\* (updateStatus 728-909, accept 1207-1216).
NoMilestoneSkipped ==
    \A s \in Shipment : ~forced[s] =>
        \A st \in Status : Changed(st) \in timeline[s] =>
            \A m \in Milestones(st) : Changed(m) \in timeline[s]

\* Whoever drives a shipment belongs to a carrier organization, and no
\* organization carries its own shipment, whatever updates and claims interleave
\* (create 90-94, update 425-429, accept 1061-1080).
CarriersCarry ==
    \A s \in Shipment : Exists(s) =>
        /\ carrierUser[s] # Nil => TypeOf[OrgOf[carrierUser[s]]] = "carrier"
        /\ TypeOf[shipper[s]] = "shipper"
        /\ carrierOrg[s] # shipper[s]

\* Requests that will write the status of s from a row they read
Deciding(r, s) == pc[r] \in {"statusTx", "acceptCount", "acceptWrite"} /\ loc[r].ship = s

\* Only races leave the transition table: unless a request in flight decided
\* from a status the shipment has no more, or an administrator steps in, every
\* step keeps the status or follows the table (updateStatus 770-778, 819-823,
\* accept 1212-1214).
OnlyRacesLeaveTheTable ==
    [][\A s \in Shipment :
        /\ Exists(s)
        /\ \A r \in Request : Deciding(r, s) => loc[r].seen = status[s]
        => \/ Follows(status[s], status'[s])
           \/ forced'[s]]_vars

\* Only races take a shipment from its driver: unless a claim in flight read
\* another driver or another organization, the driver of a shipment that an
\* organization carries stays (accept 1073-1110, 1207-1211, update 494-496).
OnlyRacesDisplaceADriver ==
    [][\A s \in Shipment :
        /\ carrierUser[s] # Nil /\ carrierOrg[s] # Nil
        /\ \A r \in Request : pc[r] \in {"acceptCount", "acceptWrite"} /\ loc[r].ship = s
                => loc[r].driver = carrierUser[s] /\ loc[r].org = carrierOrg[s]
        => carrierUser'[s] = carrierUser[s]]_vars

\* Nothing is announced that was not committed: a status on the wire is in the
\* timeline, and an alert comes after the status it reports (updateStatus
\* 819-961).
AnnouncedAfterCommit ==
    \A s \in Shipment :
        /\ \A st \in Status : TellStatus(st) \in published[s] => Changed(st) \in timeline[s]
        /\ Tell("shipment.delivered") \in published[s] => TellStatus("delivered") \in published[s]
        /\ Tell("shipment.exception") \in published[s] => TellStatus("customs_hold") \in published[s]

\* Requests that will change or remove s, decided from the status they read
Open(r, s) == Deciding(r, s) \/ (pc[r] = "removeDelete" /\ loc[r].ship = s)

\* The status of a shipment lives the life ShipmentLife promises: a change
\* follows the table from a stage the shipment was in when it was decided, or is
\* an administrator's, it is recorded as it is made, and it is announced only
\* then (updateStatus 728-934, accept 1207-1216, remove 1321-1330,
\* admin.service.ts 559-677).
Life == INSTANCE ShipmentLife WITH
    stage    <- status,
    open     <- [s \in Shipment |-> {loc[r].seen : r \in {q \in Request : Open(q, s)}}],
    recorded <- [s \in Shipment |-> {st \in Status : Changed(st) \in timeline[s]}],
    told     <- [s \in Shipment |-> {st \in Status : TellStatus(st) \in published[s]}]

ImplementsShipmentLife == Life!LifeSpec

-----------------------------------------------------------------------------
(* What the documentation says and the code does not do *)

\* server/README.md 343: "Delete a draft shipment".  A deletion that finds its
\* draft removes it (remove 1316-1330).
DraftsAreDeleted ==
    [][\A r \in Request :
        pc[r] = "removeDelete" /\ pc'[r] = "idle" /\ status[loc[r].ship] = "draft"
        => status'[loc[r].ship] = Nil]_vars

\* server/README.md 358: delivered is terminal.
DeliveredIsTerminal ==
    [][\A s \in Shipment : status[s] = "delivered" => status'[s] = "delivered"]_vars

\* shipments.service.ts 1093: "You already have an active shipment. Please
\* complete or cancel it before accepting a new one."
OneActiveShipment ==
    \A u \in User : \A s1, s2 \in Shipment :
        carrierUser[s1] = u /\ Active(s1) /\ carrierUser[s2] = u /\ Active(s2) => s1 = s2

=============================================================================
