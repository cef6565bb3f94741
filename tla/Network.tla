------------------------------ MODULE Network ------------------------------
(***************************************************************************)
(* Routes, checkpoints and the positions checkpoints have on routes:       *)
(* routes/routes.service.ts and checkpoints/checkpoints.service.ts, with   *)
(* the two operations of shipments.service.ts that rely on them:           *)
(* assignRoute and the checkpoint of a status update.                      *)
(*                                                                         *)
(* Only super administrators change the network, but nothing serializes    *)
(* their requests.  A handler reads, counts what depends on the row, and   *)
(* writes by identifier: one action is one awaited statement, together     *)
(* with the look-ups before it that only refuse the call.                  *)
(*                                                                         *)
(* Left out: names, cities, coordinates and estimated days; the look-up of *)
(* a code before the insert, which the unique column repeats; the lists,   *)
(* of pages, PagedList and Screens; audit messages, Pipelines.             *)
(***************************************************************************)
EXTENDS Domain, Naturals, FiniteSets

CONSTANTS
    Route,
    Checkpoint,
    Position,      \* sequence_order
    MaxEdits,      \* bound: calls that change the network
    MaxTravels     \* bound: what shipments do

ASSUME NetworkAssumption ==
    /\ MaxEdits \in Nat /\ MaxTravels \in Nat
    /\ Nil \notin Route \cup Checkpoint /\ Nil \notin BOOLEAN /\ Nil \notin Position

VARIABLES
    routeOn,    \* route_is_active of each route, Nil when there is none
    cpOn,       \* checkpoint_is_active
    stop,       \* table route_checkpoint, by its unique key
    via,        \* route_id of each shipment, or Nil
    journey,    \* shipment_status, the statuses in between taken together
    passed,     \* checkpoint_id of the events of each shipment
    npc,        \* the statement each request executes next
    nloc,       \* the locals of its handler
    rows,       \* history: rows of route_checkpoint inserted so far
    wakes,      \* history: routes activated so far
    edits,      \* history: calls so far
    travels     \* history: what shipments did so far

network     == <<routeOn, cpOn, stop>>
traffic     == <<via, journey, passed>>
history     == <<rows, wakes, travels>>
networkVars == <<network, traffic, npc, nloc, history, edits>>

Journey == {"under way", "cancelled", "delivered"}

Stop == [cp : Checkpoint, id : Nat, asOf : Nat]  \* asOf: rows inserted when it was looked for

NetworkLabel == {"idle", "routeSwitch", "cpSwitch", "addFind", "addCreate", "takeCount", "takeDelete"}

NetworkLocals ==
    [route : Route \cup {Nil}, cp : Checkpoint \cup {Nil}, pos : Position \cup {Nil},
     row : Nat, on : BOOLEAN,
     counted : BOOLEAN,          \* history: dependents were counted
     asOf : Nat]                 \* history: rows, rows and wakes, or travels when that was

NoEdit == [route |-> Nil, cp |-> Nil, pos |-> Nil, row |-> 0, on |-> FALSE,
           counted |-> FALSE, asOf |-> 0]

NetworkTypeOK ==
    /\ routeOn \in [Route -> BOOLEAN \cup {Nil}] /\ cpOn \in [Checkpoint -> BOOLEAN \cup {Nil}]
    /\ stop \in [Route \X Position -> Stop \cup {Nil}]
    /\ via \in [Shipment -> Route \cup {Nil}] /\ journey \in [Shipment -> Journey]
    /\ passed \in [Shipment -> SUBSET Checkpoint]
    /\ npc \in [Request -> NetworkLabel] /\ nloc \in [Request -> NetworkLocals]
    /\ rows \in Nat /\ wakes \in Nat /\ edits \in Nat /\ travels \in Nat

\* A fresh database, with shipments that have no route yet.
NetworkInit ==
    /\ routeOn = [t \in Route |-> Nil] /\ cpOn = [c \in Checkpoint |-> Nil]
    /\ stop = [k \in Route \X Position |-> Nil]
    /\ via = [s \in Shipment |-> Nil] /\ journey = [s \in Shipment |-> "under way"]
    /\ passed = [s \in Shipment |-> {}]
    /\ npc = [r \in Request |-> "idle"] /\ nloc = [r \in Request |-> NoEdit]
    /\ rows = 0 /\ wakes = 0 /\ edits = 0 /\ travels = 0

-----------------------------------------------------------------------------
Edit == edits < MaxEdits /\ edits' = edits + 1

Open(r, next, l) ==
    /\ npc[r] = "idle" /\ Edit
    /\ npc' = [npc EXCEPT ![r] = next] /\ nloc' = [nloc EXCEPT ![r] = l]
    /\ UNCHANGED history

Close(r, at) ==
    /\ npc[r] = at
    /\ npc' = [npc EXCEPT ![r] = "idle"] /\ nloc' = [nloc EXCEPT ![r] = NoEdit]

Stops(t)  == {p \in Position : stop[<<t, p>>] # Nil}
At(t, c)  == {p \in Stops(t) : stop[<<t, p>>].cp = c}
OnRoute(t) == {s \in Shipment : via[s] = t}
LiveOn(t) == {s \in OnRoute(t) : journey[s] = "under way"}
InUse(c)  == \E t \in Route : routeOn[t] = TRUE /\ At(t, c) # {}

-----------------------------------------------------------------------------
(* routes.service: create, remove, activate, deactivate *)

CreateRoute(r, t) ==
    /\ npc[r] = "idle" /\ Edit /\ routeOn[t] = Nil
    /\ routeOn' = [routeOn EXCEPT ![t] = TRUE]
    /\ UNCHANGED <<cpOn, stop, traffic, npc, nloc, history>>

\* remove and activate write without counting anything.
SwitchRoute(r, t, on) ==
    /\ routeOn[t] # Nil
    /\ Open(r, "routeSwitch", [NoEdit EXCEPT !.route = t, !.on = on])
    /\ UNCHANGED <<network, traffic>>

\* Mutant: the route is switched off without counting its shipments.
HastyDeactivateRoute(r, t) ==
    /\ routeOn[t] # Nil
    /\ Open(r, "routeSwitch", [NoEdit EXCEPT !.route = t, !.counted = TRUE, !.asOf = travels])
    /\ UNCHANGED <<network, traffic>>

\* deactivate counts the live shipments of the route first.
DeactivateRoute(r, t) ==
    /\ routeOn[t] # Nil /\ LiveOn(t) = {}
    /\ Open(r, "routeSwitch", [NoEdit EXCEPT !.route = t, !.counted = TRUE, !.asOf = travels])
    /\ UNCHANGED <<network, traffic>>

RouteWrite(r) ==
    /\ Close(r, "routeSwitch")
    /\ routeOn' = [routeOn EXCEPT ![nloc[r].route] = nloc[r].on]
    /\ wakes' = IF nloc[r].on THEN wakes + 1 ELSE wakes
    /\ UNCHANGED <<cpOn, stop, traffic, rows, edits, travels>>

-----------------------------------------------------------------------------
(* checkpoints.service: create, remove, activate, deactivate *)

CreateCheckpoint(r, c) ==
    /\ npc[r] = "idle" /\ Edit /\ cpOn[c] = Nil
    /\ cpOn' = [cpOn EXCEPT ![c] = TRUE]
    /\ UNCHANGED <<routeOn, stop, traffic, npc, nloc, history>>

SwitchCheckpoint(r, c, on) ==
    /\ cpOn[c] # Nil
    /\ Open(r, "cpSwitch", [NoEdit EXCEPT !.cp = c, !.on = on])
    /\ UNCHANGED <<network, traffic>>

\* deactivate counts the active routes the checkpoint is on first.
DeactivateCheckpoint(r, c) ==
    /\ cpOn[c] # Nil /\ ~ InUse(c)
    /\ Open(r, "cpSwitch", [NoEdit EXCEPT !.cp = c, !.counted = TRUE, !.asOf = rows + wakes])
    /\ UNCHANGED <<network, traffic>>

CheckpointWrite(r) ==
    /\ Close(r, "cpSwitch")
    /\ cpOn' = [cpOn EXCEPT ![nloc[r].cp] = nloc[r].on]
    /\ UNCHANGED <<routeOn, stop, traffic, history, edits>>

-----------------------------------------------------------------------------
(* routes.service: addCheckpoint, removeCheckpoint *)

\* The route and the checkpoint exist, active or not, and the position is free.
AddRead(r, t, c, p) ==
    /\ routeOn[t] # Nil /\ cpOn[c] # Nil /\ stop[<<t, p>>] = Nil
    /\ Open(r, "addFind", [NoEdit EXCEPT !.route = t, !.cp = c, !.pos = p])
    /\ UNCHANGED <<network, traffic>>

\* Mutant: the checkpoint is not looked for on the route.
BlindAddFind(r) ==
    /\ npc[r] = "addFind"
    /\ UNCHANGED <<network, traffic, history, edits>>
    /\ npc' = [npc EXCEPT ![r] = "addCreate"]
    /\ nloc' = [nloc EXCEPT ![r].asOf = rows]

AddFind(r) ==
    LET l == nloc[r] IN
    /\ npc[r] = "addFind"
    /\ UNCHANGED <<network, traffic, history, edits>>
    /\ \/ /\ At(l.route, l.cp) = {}
          /\ npc' = [npc EXCEPT ![r] = "addCreate"]
          /\ nloc' = [nloc EXCEPT ![r].asOf = rows]
       \/ At(l.route, l.cp) # {} /\ Close(r, "addFind")

\* Only the position is unique in the database.
AddCreate(r) ==
    LET l == nloc[r] IN
    /\ Close(r, "addCreate")
    /\ IF stop[<<l.route, l.pos>>] = Nil
       THEN /\ stop' = [stop EXCEPT ![<<l.route, l.pos>>] = [cp |-> l.cp, id |-> rows + 1, asOf |-> l.asOf]]
            /\ rows' = rows + 1
       ELSE UNCHANGED <<stop, rows>>
    /\ UNCHANGED <<routeOn, cpOn, traffic, wakes, edits, travels>>

TakeRead(r, t, c, p) ==
    /\ p \in At(t, c)
    /\ Open(r, "takeCount", [NoEdit EXCEPT !.route = t, !.cp = c, !.pos = p, !.row = stop[<<t, p>>].id])
    /\ UNCHANGED <<network, traffic>>

Passers(t, c) == {s \in OnRoute(t) : c \in passed[s]}

\* Mutant: only live shipments of the route are counted.
LiveTakeCount(r) ==
    LET l    == nloc[r]
        some == \E s \in LiveOn(l.route) : l.cp \in passed[s]
    IN  /\ npc[r] = "takeCount"
        /\ UNCHANGED <<network, traffic, history, edits>>
        /\ \/ /\ ~ some
              /\ npc' = [npc EXCEPT ![r] = "takeDelete"]
              /\ nloc' = [nloc EXCEPT ![r].counted = TRUE, ![r].asOf = travels]
           \/ some /\ Close(r, "takeCount")

TakeCount(r) ==
    LET l == nloc[r] IN
    /\ npc[r] = "takeCount"
    /\ UNCHANGED <<network, traffic, history, edits>>
    /\ \/ /\ Passers(l.route, l.cp) = {}
          /\ npc' = [npc EXCEPT ![r] = "takeDelete"]
          /\ nloc' = [nloc EXCEPT ![r].counted = TRUE, ![r].asOf = travels]
       \/ Passers(l.route, l.cp) # {} /\ Close(r, "takeCount")

\* The row is deleted by its identifier; one that is gone fails the statement.
TakeDelete(r) ==
    LET l == nloc[r]
        k == <<l.route, l.pos>>
    IN  /\ Close(r, "takeDelete")
        /\ stop' = IF stop[k] # Nil /\ stop[k].id = l.row THEN [stop EXCEPT ![k] = Nil] ELSE stop
        /\ UNCHANGED <<routeOn, cpOn, traffic, history, edits>>

\* A statement fails, and the request with it.
EditFails(r) ==
    /\ npc[r] # "idle" /\ Close(r, npc[r])
    /\ UNCHANGED <<network, traffic, history, edits>>

-----------------------------------------------------------------------------
(* Shipments *)

Travel == travels < MaxTravels /\ travels' = travels + 1

\* assignRoute: the route exists; whether it is active is not asked.
AssignRoute(s, t) ==
    /\ Travel /\ journey[s] # "delivered" /\ routeOn[t] # Nil
    /\ via' = [via EXCEPT ![s] = t]
    /\ UNCHANGED <<network, journey, passed, npc, nloc, rows, wakes, edits>>

\* updateStatus, perhaps with a checkpoint, which need not be on the shipment's
\* route; only the administration's override, which has none, revives a delivery.
MoveShipment(s, j, c) ==
    /\ Travel
    /\ journey[s] # "delivered" \/ c = Nil
    /\ c \in {Nil} \cup {d \in Checkpoint : cpOn[d] # Nil}
    /\ journey' = [journey EXCEPT ![s] = j]
    /\ passed' = [passed EXCEPT ![s] = @ \cup ({c} \ {Nil})]
    /\ UNCHANGED <<network, via, npc, nloc, rows, wakes, edits>>

-----------------------------------------------------------------------------
NetworkNext ==
    \/ \E r \in Request, t \in Route :
         CreateRoute(r, t) \/ DeactivateRoute(r, t) \/ \E on \in BOOLEAN : SwitchRoute(r, t, on)
    \/ \E r \in Request, c \in Checkpoint :
         CreateCheckpoint(r, c) \/ DeactivateCheckpoint(r, c)
         \/ \E on \in BOOLEAN : SwitchCheckpoint(r, c, on)
    \/ \E r \in Request, t \in Route, c \in Checkpoint, p \in Position :
         AddRead(r, t, c, p) \/ TakeRead(r, t, c, p)
    \/ \E r \in Request : RouteWrite(r) \/ CheckpointWrite(r) \/ AddFind(r) \/ AddCreate(r)
                          \/ TakeCount(r) \/ TakeDelete(r) \/ EditFails(r)
    \/ \E s \in Shipment :
         (\E t \in Route : AssignRoute(s, t))
         \/ (\E j \in Journey, c \in Checkpoint \cup {Nil} : MoveShipment(s, j, c))

NetworkSpec == NetworkInit /\ [][NetworkNext]_networkVars

-----------------------------------------------------------------------------
(* Properties *)

\* "Checkpoint is already assigned to this route": two additions at different
\* positions may both find it absent, so a checkpoint can stand on a route
\* twice; but never when the second addition looked after the first insert.
TwiceOnlyByOverlap ==
    \A t \in Route : \A p, q \in Stops(t) :
        (stop[<<t, p>>].cp = stop[<<t, q>>].cp /\ stop[<<t, p>>].id < stop[<<t, q>>].id)
        => stop[<<t, q>>].asOf < stop[<<t, p>>].id

\* "it has been passed ... and is part of the shipment history": a checkpoint
\* that a shipment on the route has passed leaves the route only when a shipment
\* moved between the count and the deletion.
PassedStopsStay ==
    [][ \A t \in Route : \A p \in Stops(t) :
          (stop'[<<t, p>>] = Nil /\ Passers(t, stop[<<t, p>>].cp) # {})
          => \E r \in Request : npc[r] = "takeDelete" /\ nloc[r].asOf < travels ]_networkVars

\* deactivate refuses a route with live shipments and a checkpoint of an active
\* route: one that is switched off all the same was removed, which asks nothing,
\* or what depends on it came after the count.
UsedStaysOn ==
    [][ /\ \A t \in Route :
             (routeOn[t] = TRUE /\ routeOn'[t] = FALSE /\ LiveOn(t) # {})
             => \E r \in Request : /\ npc[r] = "routeSwitch" /\ nloc[r].route = t
                                   /\ nloc[r].counted => nloc[r].asOf < travels
        /\ \A c \in Checkpoint :
             (cpOn[c] = TRUE /\ cpOn'[c] = FALSE /\ InUse(c))
             => \E r \in Request : /\ npc[r] = "cpSwitch" /\ nloc[r].cp = c
                                   /\ nloc[r].counted => nloc[r].asOf < rows + wakes ]_networkVars
=============================================================================
