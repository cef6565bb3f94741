-------------------------- MODULE BackOfficeProofs --------------------------
(***************************************************************************)
(* The safety properties of Network, Tenancy and Alerts, for every number  *)
(* of requests, rows, workers and calls.                                   *)
(***************************************************************************)
EXTENDS Network, Tenancy, Alerts, FiniteSetTheorems, TLAPS

LEMMA UpdateType ==
    ASSUME NEW D, NEW S, NEW f \in [D -> S], NEW k, NEW v \in S
    PROVE  [f EXCEPT ![k] = v] \in [D -> S]
  OBVIOUS

-----------------------------------------------------------------------------
(* Routes and checkpoints                                                  *)

AddLabel  == {"addFind", "addCreate"}
TakeLabel == {"takeCount", "takeDelete"}

\* The locals a handler has set by the time it reaches a statement.
EditFits(at, l) ==
    /\ at \in AddLabel \cup TakeLabel =>
          l.route \in Route /\ l.cp \in Checkpoint /\ l.pos \in Position
    /\ at = "routeSwitch" => l.route \in Route
    /\ at = "cpSwitch" => l.cp \in Checkpoint

NetworkLocalsSet == \A r \in Request : EditFits(npc[r], nloc[r])

EditTypeOK ==
    /\ npc \in [Request -> NetworkLabel] /\ nloc \in [Request -> NetworkLocals]
    /\ NetworkLocalsSet

LEMMA NoEditType == NoEdit \in NetworkLocals /\ EditFits("idle", NoEdit)
  BY DEF NoEdit, NetworkLocals, EditFits, AddLabel, TakeLabel

LEMMA OpenType ==
    ASSUME EditTypeOK, edits \in Nat, NEW r \in Request, NEW next \in NetworkLabel,
           NEW l \in NetworkLocals, EditFits(next, l), Open(r, next, l)
    PROVE  EditTypeOK' /\ edits' \in Nat /\ UNCHANGED history
  BY DEF EditTypeOK, NetworkLocalsSet, Open, Edit

LEMMA CloseType ==
    ASSUME EditTypeOK, NEW r \in Request, NEW at, Close(r, at)
    PROVE  EditTypeOK'
  BY NoEditType DEF EditTypeOK, NetworkLocalsSet, Close, NetworkLabel

LEMMA AdvanceType ==
    ASSUME EditTypeOK, NEW r \in Request, NEW next \in NetworkLabel,
           NEW l \in NetworkLocals, EditFits(next, l),
           npc' = [npc EXCEPT ![r] = next], nloc' = [nloc EXCEPT ![r] = l]
    PROVE  EditTypeOK'
  BY DEF EditTypeOK, NetworkLocalsSet

\* Rows, identifiers and locals keep their types.
LEMMA NetworkTypes == NetworkSpec => [](NetworkTypeOK /\ NetworkLocalsSet)
<1> DEFINE Inv == NetworkTypeOK /\ NetworkLocalsSet
<1>1. NetworkInit => Inv
  <2> SUFFICES ASSUME NetworkInit PROVE Inv
    OBVIOUS
  <2>1. /\ routeOn \in [Route -> BOOLEAN \cup {Nil}] /\ cpOn \in [Checkpoint -> BOOLEAN \cup {Nil}]
        /\ stop \in [Route \X Position -> Stop \cup {Nil}]
    BY DEF NetworkInit
  <2>2. /\ via \in [Shipment -> Route \cup {Nil}] /\ journey \in [Shipment -> Journey]
        /\ passed \in [Shipment -> SUBSET Checkpoint]
    BY DEF NetworkInit, Journey
  <2>3. EditTypeOK
    BY NoEditType DEF NetworkInit, NetworkLabel, EditTypeOK, NetworkLocalsSet
  <2> QED
    BY <2>1, <2>2, <2>3 DEF NetworkInit, EditTypeOK, NetworkTypeOK
<1>2. Inv /\ [NetworkNext]_networkVars => Inv'
  <2> SUFFICES ASSUME Inv, [NetworkNext]_networkVars PROVE Inv'
    OBVIOUS
  <2>0. EditTypeOK
    BY DEF EditTypeOK, NetworkTypeOK
  <2>e. ASSUME EditTypeOK', edits' \in Nat, UNCHANGED <<network, traffic, history>> PROVE Inv'
    BY <2>e DEF EditTypeOK, NetworkTypeOK, network, traffic, history
  <2>f. ASSUME UNCHANGED <<npc, nloc>>,
               /\ routeOn' \in [Route -> BOOLEAN \cup {Nil}]
               /\ cpOn' \in [Checkpoint -> BOOLEAN \cup {Nil}]
               /\ via' \in [Shipment -> Route \cup {Nil}] /\ journey' \in [Shipment -> Journey]
               /\ passed' \in [Shipment -> SUBSET Checkpoint],
               edits' \in Nat, travels' \in Nat, UNCHANGED <<stop, rows, wakes>>
        PROVE  Inv'
    BY <2>f DEF NetworkTypeOK, NetworkLocalsSet
  <2>1. ASSUME NEW r \in Request, NEW t \in Route, CreateRoute(r, t) PROVE Inv'
    BY <2>1, <2>f DEF CreateRoute, NetworkTypeOK, Edit, history, traffic
  <2>2. ASSUME NEW r \in Request, NEW t \in Route, NEW on \in BOOLEAN,
               DeactivateRoute(r, t) \/ SwitchRoute(r, t, on)
        PROVE  Inv'
    <3>1. /\ [NoEdit EXCEPT !.route = t, !.on = on] \in NetworkLocals
          /\ EditFits("routeSwitch", [NoEdit EXCEPT !.route = t, !.on = on])
          /\ [NoEdit EXCEPT !.route = t, !.counted = TRUE, !.asOf = travels] \in NetworkLocals
          /\ EditFits("routeSwitch", [NoEdit EXCEPT !.route = t, !.counted = TRUE, !.asOf = travels])
      BY DEF NoEdit, NetworkLocals, EditFits, AddLabel, TakeLabel, NetworkTypeOK
    <3> QED
      BY <2>0, <2>e, <2>2, <3>1, OpenType
         DEF DeactivateRoute, SwitchRoute, NetworkTypeOK, NetworkLabel
  <2>3. ASSUME NEW r \in Request, NEW c \in Checkpoint, CreateCheckpoint(r, c) PROVE Inv'
    BY <2>3, <2>f DEF CreateCheckpoint, NetworkTypeOK, Edit, history, traffic
  <2>4. ASSUME NEW r \in Request, NEW c \in Checkpoint, NEW on \in BOOLEAN,
               DeactivateCheckpoint(r, c) \/ SwitchCheckpoint(r, c, on)
        PROVE  Inv'
    <3>1. /\ [NoEdit EXCEPT !.cp = c, !.on = on] \in NetworkLocals
          /\ EditFits("cpSwitch", [NoEdit EXCEPT !.cp = c, !.on = on])
          /\ [NoEdit EXCEPT !.cp = c, !.counted = TRUE, !.asOf = rows + wakes] \in NetworkLocals
          /\ EditFits("cpSwitch", [NoEdit EXCEPT !.cp = c, !.counted = TRUE, !.asOf = rows + wakes])
      <4>1. rows + wakes \in Nat
        BY DEF NetworkTypeOK
      <4> QED
        BY <4>1 DEF NoEdit, NetworkLocals, EditFits, AddLabel, TakeLabel
    <3> QED
      BY <2>0, <2>e, <2>4, <3>1, OpenType
         DEF DeactivateCheckpoint, SwitchCheckpoint, NetworkTypeOK, NetworkLabel
  <2>5. ASSUME NEW r \in Request, NEW t \in Route, NEW c \in Checkpoint, NEW p \in Position,
               AddRead(r, t, c, p)
        PROVE  Inv'
    <3>1. /\ [NoEdit EXCEPT !.route = t, !.cp = c, !.pos = p] \in NetworkLocals
          /\ EditFits("addFind", [NoEdit EXCEPT !.route = t, !.cp = c, !.pos = p])
      BY DEF NoEdit, NetworkLocals, EditFits, AddLabel, TakeLabel
    <3> QED
      BY <2>0, <2>e, <2>5, <3>1, OpenType DEF AddRead, NetworkTypeOK, NetworkLabel
  <2>6. ASSUME NEW r \in Request, NEW t \in Route, NEW c \in Checkpoint, NEW p \in Position,
               TakeRead(r, t, c, p)
        PROVE  Inv'
    <3> DEFINE l == [NoEdit EXCEPT !.route = t, !.cp = c, !.pos = p, !.row = stop[<<t, p>>].id]
    <3>1. stop[<<t, p>>].id \in Nat
      BY <2>6 DEF TakeRead, At, Stops, Stop, NetworkTypeOK
    <3>2. l \in NetworkLocals /\ EditFits("takeCount", l)
      BY <3>1 DEF NoEdit, NetworkLocals, EditFits, AddLabel, TakeLabel
    <3> QED
      BY <2>0, <2>e, <2>6, <3>2, OpenType DEF TakeRead, NetworkTypeOK, NetworkLabel
  <2>7. ASSUME NEW r \in Request, RouteWrite(r) PROVE Inv'
    <3>1. nloc[r].on \in BOOLEAN
      BY DEF NetworkTypeOK, NetworkLocals
    <3>2. EditTypeOK'
      BY <2>0, <2>7, CloseType DEF RouteWrite
    <3>3. routeOn' \in [Route -> BOOLEAN \cup {Nil}] /\ wakes' \in Nat
      <4>1. routeOn' = [routeOn EXCEPT ![nloc[r].route] = nloc[r].on]
        BY <2>7 DEF RouteWrite
      <4>2. wakes' \in {wakes, wakes + 1} /\ wakes + 1 \in Nat
        BY <2>7 DEF RouteWrite, NetworkTypeOK
      <4> QED
        BY <3>1, <4>1, <4>2 DEF NetworkTypeOK
    <3> QED
      BY <2>7, <3>2, <3>3 DEF RouteWrite, EditTypeOK, NetworkTypeOK, traffic
  <2>8. ASSUME NEW r \in Request, CheckpointWrite(r) PROVE Inv'
    <3>1. nloc[r].on \in BOOLEAN
      BY DEF NetworkTypeOK, NetworkLocals
    <3>2. EditTypeOK'
      BY <2>0, <2>8, CloseType DEF CheckpointWrite
    <3> QED
      BY <2>8, <3>1, <3>2 DEF CheckpointWrite, EditTypeOK, NetworkTypeOK, traffic, history
  <2>9. ASSUME NEW r \in Request, AddFind(r) PROVE Inv'
    <3>1. CASE Close(r, "addFind")
      BY <2>0, <2>9, <2>e, <3>1, CloseType DEF AddFind, NetworkTypeOK
    <3>2. CASE /\ npc' = [npc EXCEPT ![r] = "addCreate"] /\ nloc' = [nloc EXCEPT ![r].asOf = rows]
      <4>1. /\ [nloc[r] EXCEPT !.asOf = rows] \in NetworkLocals
            /\ EditFits("addCreate", [nloc[r] EXCEPT !.asOf = rows])
            /\ nloc' = [nloc EXCEPT ![r] = [nloc[r] EXCEPT !.asOf = rows]]
        BY <2>9, <3>2 DEF AddFind, NetworkTypeOK, NetworkLocals, NetworkLocalsSet, EditFits, AddLabel, TakeLabel
      <4> QED
        BY <2>0, <2>9, <2>e, <3>2, <4>1, AdvanceType DEF AddFind, NetworkTypeOK, NetworkLabel
    <3> QED
      BY <2>9, <3>1, <3>2 DEF AddFind
  <2>10. ASSUME NEW r \in Request, AddCreate(r) PROVE Inv'
    <3> DEFINE new == [cp |-> nloc[r].cp, id |-> rows + 1, asOf |-> nloc[r].asOf]
    <3>1. new \in Stop
      <4>1. nloc[r].cp \in Checkpoint
        BY <2>10 DEF AddCreate, Close, NetworkLocalsSet, EditFits, AddLabel
      <4>2. nloc[r].asOf \in Nat /\ rows + 1 \in Nat
        BY DEF NetworkTypeOK, NetworkLocals
      <4> QED
        BY <4>1, <4>2 DEF Stop
    <3>2. EditTypeOK'
      BY <2>0, <2>10, CloseType DEF AddCreate
    <3>3. stop' \in [Route \X Position -> Stop \cup {Nil}] /\ rows' \in Nat
      <4> HIDE DEF new
      <4>1. stop \in [Route \X Position -> Stop \cup {Nil}] /\ rows \in Nat
        BY DEF NetworkTypeOK
      <4>2. CASE /\ stop' = [stop EXCEPT ![<<nloc[r].route, nloc[r].pos>>] = new]
                 /\ rows' = rows + 1
        <5>1. new \in Stop \cup {Nil} /\ rows + 1 \in Nat
          BY <3>1, <4>1
        <5> QED
          BY <4>1, <4>2, <5>1, UpdateType
      <4> QED
        BY <2>10, <4>1, <4>2 DEF AddCreate, new
    <3> QED
      BY <2>10, <3>2, <3>3 DEF AddCreate, EditTypeOK, NetworkTypeOK, traffic
  <2>11. ASSUME NEW r \in Request, TakeCount(r) PROVE Inv'
    <3>1. CASE Close(r, "takeCount")
      BY <2>0, <2>11, <2>e, <3>1, CloseType DEF TakeCount, NetworkTypeOK
    <3>2. CASE /\ npc' = [npc EXCEPT ![r] = "takeDelete"]
               /\ nloc' = [nloc EXCEPT ![r].counted = TRUE, ![r].asOf = travels]
      <4>1. /\ [nloc[r] EXCEPT !.counted = TRUE, !.asOf = travels] \in NetworkLocals
            /\ EditFits("takeDelete", [nloc[r] EXCEPT !.counted = TRUE, !.asOf = travels])
            /\ nloc' = [nloc EXCEPT ![r] = [nloc[r] EXCEPT !.counted = TRUE, !.asOf = travels]]
        BY <2>11, <3>2 DEF TakeCount, NetworkTypeOK, NetworkLocals, NetworkLocalsSet, EditFits, AddLabel, TakeLabel
      <4> QED
        BY <2>0, <2>11, <2>e, <3>2, <4>1, AdvanceType DEF TakeCount, NetworkTypeOK, NetworkLabel
    <3> QED
      BY <2>11, <3>1, <3>2 DEF TakeCount
  <2>12. ASSUME NEW r \in Request, TakeDelete(r) PROVE Inv'
    <3>1. EditTypeOK'
      BY <2>0, <2>12, CloseType DEF TakeDelete
    <3>2. stop' \in [Route \X Position -> Stop \cup {Nil}]
      BY <2>12 DEF TakeDelete, NetworkTypeOK
    <3> QED
      BY <2>12, <3>1, <3>2 DEF TakeDelete, EditTypeOK, NetworkTypeOK, traffic, history
  <2>13. ASSUME NEW r \in Request, EditFails(r) PROVE Inv'
    BY <2>0, <2>13, <2>e, CloseType DEF EditFails, NetworkTypeOK
  <2>14. ASSUME NEW s \in Shipment, NEW t \in Route, AssignRoute(s, t) PROVE Inv'
    BY <2>14, <2>f DEF AssignRoute, Travel, network, NetworkTypeOK
  <2>15. ASSUME NEW s \in Shipment, NEW j \in Journey, NEW c \in Checkpoint \cup {Nil},
                MoveShipment(s, j, c)
         PROVE  Inv'
    BY <2>15, <2>f DEF MoveShipment, Travel, network, NetworkTypeOK
  <2>16. CASE UNCHANGED networkVars
    BY <2>16 DEF networkVars, network, traffic, history, NetworkTypeOK, NetworkLocalsSet
  <2> QED
    BY <2>1, <2>2, <2>3, <2>4, <2>5, <2>6, <2>7, <2>8, <2>9, <2>10, <2>11, <2>12, <2>13, <2>14,
       <2>15, <2>16
       DEF NetworkNext
<1> QED
  BY <1>1, <1>2, PTL DEF NetworkSpec

\* Rows belong to routes that exist; an identifier is one that was given out.
RowsFit ==
    \A t \in Route, p \in Position :
        stop[<<t, p>>] # Nil => routeOn[t] # Nil /\ stop[<<t, p>>].id <= rows

\* What an addition found is what there was: later rows of the checkpoint are newer.
AddFits ==
    \A r \in Request :
        /\ npc[r] \in AddLabel => routeOn[nloc[r].route] # Nil
        /\ npc[r] = "addCreate" =>
              /\ nloc[r].asOf <= rows
              /\ \A p \in Position :
                    stop[<<nloc[r].route, p>>] # Nil /\ stop[<<nloc[r].route, p>>].cp = nloc[r].cp
                    => nloc[r].asOf < stop[<<nloc[r].route, p>>].id

\* The row a removal has read is that of its checkpoint as long as it is there.
TakeFits ==
    \A r \in Request :
        npc[r] \in TakeLabel =>
            /\ nloc[r].row <= rows
            /\ (/\ stop[<<nloc[r].route, nloc[r].pos>>] # Nil
                /\ stop[<<nloc[r].route, nloc[r].pos>>].id = nloc[r].row)
               => stop[<<nloc[r].route, nloc[r].pos>>].cp = nloc[r].cp

\* What was counted as absent appears only in a later travel, row or activation.
TakeCounted ==
    \A r \in Request :
        npc[r] = "takeDelete" =>
            /\ nloc[r].asOf <= travels
            /\ Passers(nloc[r].route, nloc[r].cp) # {} => nloc[r].asOf < travels

RouteCounted ==
    \A r \in Request :
        npc[r] = "routeSwitch" /\ nloc[r].counted =>
            /\ nloc[r].asOf <= travels
            /\ LiveOn(nloc[r].route) # {} => nloc[r].asOf < travels

CheckpointCounted ==
    \A r \in Request :
        npc[r] = "cpSwitch" /\ nloc[r].counted =>
            /\ nloc[r].asOf <= rows + wakes
            /\ InUse(nloc[r].cp) => nloc[r].asOf < rows + wakes

NetworkInv ==
    /\ RowsFit /\ AddFits /\ TakeFits
    /\ TakeCounted /\ RouteCounted /\ CheckpointCounted
    /\ TwiceOnlyByOverlap

\* The effect of the three ways a request moves on.
Kept(r) == \A q \in Request \ {r} : npc'[q] = npc[q] /\ nloc'[q] = nloc[q]

LEMMA Opened ==
    ASSUME EditTypeOK, NEW r \in Request, NEW next, NEW l, Open(r, next, l)
    PROVE  npc'[r] = next /\ nloc'[r] = l /\ Kept(r) /\ UNCHANGED history
  BY DEF EditTypeOK, Open, Kept

LEMMA Closed ==
    ASSUME EditTypeOK, NEW r \in Request, NEW at, Close(r, at)
    PROVE  npc[r] = at /\ npc'[r] = "idle" /\ Kept(r)
  BY DEF EditTypeOK, Close, Kept

\* What was counted stays counted while requests other than the acting one wait.
LEMMA SameTraffic ==
    ASSUME UNCHANGED <<via, journey, passed>>
    PROVE  (\A t : LiveOn(t)' = LiveOn(t)) /\ \A t, c : Passers(t, c)' = Passers(t, c)
  BY DEF LiveOn, Passers, OnRoute

LEMMA SameStops ==
    ASSUME UNCHANGED <<routeOn, stop>>
    PROVE  \A c : InUse(c)' = InUse(c)
  BY DEF InUse, At, Stops

LEMMA TakeCountedKept ==
    ASSUME TakeCounted, NEW r \in Request, Kept(r), npc'[r] # "takeDelete",
           UNCHANGED <<via, journey, passed, travels>>
    PROVE  TakeCounted'
  BY SameTraffic DEF TakeCounted, Kept

LEMMA RouteCountedKept ==
    ASSUME RouteCounted, NEW r \in Request, Kept(r), npc'[r] # "routeSwitch",
           UNCHANGED <<via, journey, passed, travels>>
    PROVE  RouteCounted'
  BY SameTraffic DEF RouteCounted, Kept

LEMMA CheckpointCountedKept ==
    ASSUME CheckpointCounted, EditTypeOK, NEW r \in Request, Kept(r), npc'[r] # "cpSwitch",
           UNCHANGED <<rows, wakes>>, \A c \in Checkpoint : InUse(c)' => InUse(c)
    PROVE  CheckpointCounted'
<1>1. \A q \in Request : npc[q] = "cpSwitch" => nloc[q].cp \in Checkpoint
  BY DEF EditTypeOK, NetworkLocalsSet, EditFits
<1> QED
  BY <1>1 DEF CheckpointCounted, Kept

\* A request that only begins or ends leaves the tables and the counters alone.
LEMMA QuietKeepsInv ==
    ASSUME NetworkTypeOK, NetworkInv, NEW r \in Request, Kept(r),
           UNCHANGED <<network, traffic, history>>,
           npc'[r] \in {"idle", "addFind", "routeSwitch", "cpSwitch"},
           npc'[r] = "addFind" => routeOn[nloc'[r].route] # Nil,
           npc'[r] = "routeSwitch" /\ nloc'[r].counted =>
               nloc'[r].asOf = travels /\ LiveOn(nloc'[r].route) = {},
           npc'[r] = "cpSwitch" /\ nloc'[r].counted =>
               nloc'[r].asOf = rows + wakes /\ ~ InUse(nloc'[r].cp)
    PROVE  NetworkInv'
<1> USE DEF Kept, network, traffic, history
<1>1. RowsFit' /\ TwiceOnlyByOverlap'
  BY DEF NetworkInv, RowsFit, TwiceOnlyByOverlap, Stops
<1>2. AddFits'
  BY DEF NetworkInv, AddFits, AddLabel
<1>3. TakeFits'
  BY DEF NetworkInv, TakeFits, TakeLabel
<1>4. TakeCounted'
  BY TakeCountedKept DEF NetworkInv
<1>5. RouteCounted'
  <2>1. \A t : LiveOn(t)' = LiveOn(t)
    BY SameTraffic
  <2>2. travels \in Nat /\ \A q \in Request \ {r} : npc'[q] = npc[q] /\ nloc'[q] = nloc[q]
    BY DEF NetworkTypeOK
  <2> QED
    BY <2>1, <2>2 DEF NetworkInv, RouteCounted
<1>6. CheckpointCounted'
  <2>1. \A c : InUse(c)' = InUse(c)
    BY SameStops
  <2> QED
    BY <2>1 DEF NetworkInv, CheckpointCounted, NetworkTypeOK
<1> QED
  BY <1>1, <1>2, <1>3, <1>4, <1>5, <1>6 DEF NetworkInv

Facts == NetworkTypeOK /\ EditTypeOK /\ NetworkInv

LEMMA OpeningsKeepInv ==
    ASSUME Facts, NEW r \in Request,
           \/ \E t \in Route : DeactivateRoute(r, t) \/ \E on \in BOOLEAN : SwitchRoute(r, t, on)
           \/ \E c \in Checkpoint :
                DeactivateCheckpoint(r, c) \/ \E on \in BOOLEAN : SwitchCheckpoint(r, c, on)
           \/ \E t \in Route, c \in Checkpoint, p \in Position : AddRead(r, t, c, p)
           \/ EditFails(r)
    PROVE  NetworkInv'
<1> USE DEF Facts
<1>1. ASSUME NEW t \in Route, DeactivateRoute(r, t) PROVE NetworkInv'
  <2> DEFINE l == [NoEdit EXCEPT !.route = t, !.counted = TRUE, !.asOf = travels]
  <2>1. npc'[r] = "routeSwitch" /\ nloc'[r] = l /\ Kept(r) /\ UNCHANGED history
    BY <1>1, Opened DEF DeactivateRoute
  <2>2. l.route = t /\ l.asOf = travels
    BY DEF NoEdit
  <2> QED
    BY <1>1, <2>1, <2>2, QuietKeepsInv DEF DeactivateRoute, network, traffic, history
<1>2. ASSUME NEW t \in Route, NEW on \in BOOLEAN, SwitchRoute(r, t, on) PROVE NetworkInv'
  <2> DEFINE l == [NoEdit EXCEPT !.route = t, !.on = on]
  <2>1. npc'[r] = "routeSwitch" /\ nloc'[r] = l /\ Kept(r) /\ UNCHANGED history
    BY <1>2, Opened DEF SwitchRoute
  <2>2. l.counted = FALSE
    BY DEF NoEdit
  <2> QED
    BY <1>2, <2>1, <2>2, QuietKeepsInv DEF SwitchRoute, network, traffic, history
<1>3. ASSUME NEW c \in Checkpoint, DeactivateCheckpoint(r, c) PROVE NetworkInv'
  <2> DEFINE l == [NoEdit EXCEPT !.cp = c, !.counted = TRUE, !.asOf = rows + wakes]
  <2>1. npc'[r] = "cpSwitch" /\ nloc'[r] = l /\ Kept(r) /\ UNCHANGED history
    BY <1>3, Opened DEF DeactivateCheckpoint
  <2>2. l.cp = c /\ l.asOf = rows + wakes
    BY DEF NoEdit
  <2> QED
    BY <1>3, <2>1, <2>2, QuietKeepsInv DEF DeactivateCheckpoint, network, traffic, history
<1>4. ASSUME NEW c \in Checkpoint, NEW on \in BOOLEAN, SwitchCheckpoint(r, c, on) PROVE NetworkInv'
  <2> DEFINE l == [NoEdit EXCEPT !.cp = c, !.on = on]
  <2>1. npc'[r] = "cpSwitch" /\ nloc'[r] = l /\ Kept(r) /\ UNCHANGED history
    BY <1>4, Opened DEF SwitchCheckpoint
  <2>2. l.counted = FALSE
    BY DEF NoEdit
  <2> QED
    BY <1>4, <2>1, <2>2, QuietKeepsInv DEF SwitchCheckpoint, network, traffic, history
<1>5. ASSUME NEW t \in Route, NEW c \in Checkpoint, NEW p \in Position, AddRead(r, t, c, p)
      PROVE  NetworkInv'
  <2> DEFINE l == [NoEdit EXCEPT !.route = t, !.cp = c, !.pos = p]
  <2>1. npc'[r] = "addFind" /\ nloc'[r] = l /\ Kept(r) /\ UNCHANGED history
    BY <1>5, Opened DEF AddRead
  <2>2. l.route = t
    BY DEF NoEdit
  <2> QED
    BY <1>5, <2>1, <2>2, QuietKeepsInv DEF AddRead, network, traffic, history
<1>6. CASE EditFails(r)
  BY <1>6, Closed, QuietKeepsInv DEF EditFails, network, traffic, history
<1> QED
  BY <1>1, <1>2, <1>3, <1>4, <1>5, <1>6

\* Only routes and checkpoints that did not exist are created.
LEMMA CreationsKeepInv ==
    ASSUME Facts, NEW r \in Request,
           \/ \E t \in Route : CreateRoute(r, t)
           \/ \E c \in Checkpoint : CreateCheckpoint(r, c)
    PROVE  NetworkInv'
<1> USE DEF Facts
<1>1. UNCHANGED <<stop, via, journey, passed, npc, nloc, rows, wakes, travels>>
  BY DEF CreateRoute, CreateCheckpoint, traffic, history
<1>2. \A t \in Route : routeOn[t] # Nil => routeOn'[t] = routeOn[t]
  BY DEF CreateRoute, CreateCheckpoint, NetworkTypeOK
<1>3. RowsFit' /\ AddFits'
  <2>1. \A q \in Request : npc[q] \in AddLabel => nloc[q].route \in Route
    BY DEF EditTypeOK, NetworkLocalsSet, EditFits
  <2> QED
    BY <1>1, <1>2, <2>1 DEF NetworkInv, RowsFit, AddFits
<1>4. TakeFits' /\ TakeCounted' /\ RouteCounted' /\ TwiceOnlyByOverlap'
  BY <1>1, SameTraffic
     DEF NetworkInv, TakeFits, TakeCounted, RouteCounted, TwiceOnlyByOverlap, Stops
<1>5. CheckpointCounted'
  <2>1. \A c \in Checkpoint : InUse(c)' => InUse(c)
    BY <1>1, <1>2 DEF InUse, At, Stops, NetworkInv, RowsFit
  <2>2. \A q \in Request : npc[q] = "cpSwitch" => nloc[q].cp \in Checkpoint
    BY DEF EditTypeOK, NetworkLocalsSet, EditFits
  <2> QED
    BY <1>1, <2>1, <2>2 DEF NetworkInv, CheckpointCounted
<1> QED
  BY <1>3, <1>4, <1>5 DEF NetworkInv

LEMMA SwitchesKeepInv ==
    ASSUME Facts, NEW r \in Request, RouteWrite(r) \/ CheckpointWrite(r)
    PROVE  NetworkInv'
<1> USE DEF Facts
<1>1. UNCHANGED <<stop, via, journey, passed, rows, travels>>
  BY DEF RouteWrite, CheckpointWrite, traffic, history
<1>2. npc'[r] = "idle" /\ Kept(r)
  BY Closed DEF RouteWrite, CheckpointWrite
<1>3. \A t \in Route : routeOn[t] # Nil => routeOn'[t] # Nil
  <2>1. \A q \in Request : nloc[q].on \in BOOLEAN
    BY DEF NetworkTypeOK, NetworkLocals
  <2> QED
    BY <2>1, NetworkAssumption DEF RouteWrite, CheckpointWrite, NetworkTypeOK
<1>4. RowsFit' /\ AddFits'
  <2>1. \A q \in Request : npc[q] \in AddLabel => nloc[q].route \in Route
    BY DEF EditTypeOK, NetworkLocalsSet, EditFits
  <2> QED
    BY <1>1, <1>2, <1>3, <2>1 DEF NetworkInv, RowsFit, AddFits, Kept, AddLabel
<1>5. TakeFits' /\ TakeCounted' /\ RouteCounted' /\ TwiceOnlyByOverlap'
  <2>1. TakeFits' /\ TwiceOnlyByOverlap'
    BY <1>1, <1>2 DEF NetworkInv, TakeFits, TwiceOnlyByOverlap, Stops, Kept, TakeLabel
  <2>2. TakeCounted'
    BY <1>1, <1>2, TakeCountedKept DEF NetworkInv
  <2>3. RouteCounted'
    BY <1>1, <1>2, RouteCountedKept DEF NetworkInv
  <2> QED
    BY <2>1, <2>2, <2>3
<1>6. CheckpointCounted'
  <2>1. CASE wakes' = wakes + 1
    BY <1>1, <1>2, <2>1 DEF NetworkInv, CheckpointCounted, Kept, NetworkTypeOK, NetworkLocals
  <2>2. CASE wakes' = wakes /\ \A t \in Route : routeOn'[t] = TRUE => routeOn[t] = TRUE
    <3>1. \A c \in Checkpoint : InUse(c)' => InUse(c)
      BY <1>1, <2>2 DEF InUse, At, Stops
    <3>2. \A q \in Request : npc[q] = "cpSwitch" => nloc[q].cp \in Checkpoint
      BY DEF EditTypeOK, NetworkLocalsSet, EditFits
    <3> QED
      BY <1>1, <1>2, <2>2, <3>1, <3>2 DEF NetworkInv, CheckpointCounted, Kept
  <2>3. CASE CheckpointWrite(r)
    BY <2>2, <2>3 DEF CheckpointWrite, history
  <2>4. CASE RouteWrite(r)
    BY <2>1, <2>2, <2>4 DEF RouteWrite, NetworkTypeOK
  <2> QED
    BY <2>3, <2>4
<1> QED
  BY <1>4, <1>5, <1>6 DEF NetworkInv

LEMMA AddFindKeepsInv ==
    ASSUME Facts, NEW r \in Request, AddFind(r)
    PROVE  NetworkInv'
<1> USE DEF Facts
<1>1. UNCHANGED <<network, traffic, history>>
  BY DEF AddFind
<1>2. CASE Close(r, "addFind")
  BY <1>1, <1>2, Closed, QuietKeepsInv
<1>3. CASE /\ At(nloc[r].route, nloc[r].cp) = {}
           /\ npc' = [npc EXCEPT ![r] = "addCreate"] /\ nloc' = [nloc EXCEPT ![r].asOf = rows]
  <2>1. /\ npc'[r] = "addCreate" /\ Kept(r)
        /\ nloc'[r].route = nloc[r].route /\ nloc'[r].cp = nloc[r].cp /\ nloc'[r].asOf = rows
    BY <1>3 DEF EditTypeOK, NetworkLocals, Kept
  <2> USE <1>1, <2>1 DEF network, traffic, history, Kept
  <2>2. AddFits'
    <3>1. npc[r] = "addFind" /\ rows \in Nat
      BY DEF AddFind, NetworkTypeOK
    <3>2. \A p \in Position : stop[<<nloc[r].route, p>>] # Nil => stop[<<nloc[r].route, p>>].cp # nloc[r].cp
      BY <1>3 DEF At, Stops
    <3> QED
      BY <3>1, <3>2 DEF NetworkInv, AddFits, AddLabel
  <2>3. RowsFit' /\ TwiceOnlyByOverlap'
    BY DEF NetworkInv, RowsFit, TwiceOnlyByOverlap, Stops
  <2>4. TakeFits'
    BY DEF NetworkInv, TakeFits, TakeLabel
  <2>5. TakeCounted'
    BY TakeCountedKept DEF NetworkInv
  <2>6. RouteCounted'
    BY RouteCountedKept DEF NetworkInv
  <2>7. CheckpointCounted'
    BY SameStops, CheckpointCountedKept DEF NetworkInv
  <2> QED
    BY <2>2, <2>3, <2>4, <2>5, <2>6, <2>7 DEF NetworkInv
<1> QED
  BY <1>2, <1>3 DEF AddFind

\* The new row is the newest, and not there when the others were looked for.
LEMMA AddCreateKeepsInv ==
    ASSUME Facts, NEW r \in Request, AddCreate(r)
    PROVE  NetworkInv'
<1> USE DEF Facts
<1> DEFINE l == nloc[r]
           k == <<l.route, l.pos>>
<1>1. npc[r] = "addCreate" /\ npc'[r] = "idle" /\ Kept(r)
  BY Closed DEF AddCreate
<1>2. UNCHANGED <<routeOn, cpOn, via, journey, passed, wakes, travels>>
  BY DEF AddCreate, traffic
<1>3. l.route \in Route /\ l.pos \in Position /\ l.cp \in Checkpoint /\ l.asOf \in Nat
  BY <1>1 DEF EditTypeOK, NetworkLocalsSet, EditFits, AddLabel, NetworkLocals
<1>4. CASE UNCHANGED <<stop, rows>>
  BY <1>1, <1>2, <1>4, QuietKeepsInv DEF network, traffic, history
<1>5. CASE /\ stop[k] = Nil /\ rows' = rows + 1
           /\ stop' = [stop EXCEPT ![k] = [cp |-> l.cp, id |-> rows + 1, asOf |-> l.asOf]]
  <2>1. k \in Route \X Position /\ rows \in Nat
    BY <1>3 DEF NetworkTypeOK
  <2>2. /\ stop'[k].cp = l.cp /\ stop'[k].id = rows + 1 /\ stop'[k].asOf = l.asOf
        /\ \A t \in Route, p \in Position : <<t, p>> # k => stop'[<<t, p>>] = stop[<<t, p>>]
    BY <1>5, <2>1 DEF NetworkTypeOK
  <2>3. \A t \in Route, p \in Position : <<t, p>> = k <=> t = l.route /\ p = l.pos
    OBVIOUS
  <2>4. \A t \in Route, p \in Position :
            stop[<<t, p>>] # Nil => stop[<<t, p>>].id \in Nat /\ stop[<<t, p>>].id <= rows
    BY DEF NetworkTypeOK, NetworkInv, RowsFit, Stop
  <2>5. /\ routeOn[l.route] # Nil /\ l.asOf <= rows
        /\ \A p \in Position :
              stop[<<l.route, p>>] # Nil /\ stop[<<l.route, p>>].cp = l.cp
              => l.asOf < stop[<<l.route, p>>].id
    BY <1>1 DEF NetworkInv, AddFits, AddLabel
  <2>6. RowsFit'
    BY <1>2, <1>5, <2>1, <2>2, <2>3, <2>4, <2>5 DEF NetworkInv, RowsFit
  <2>7. AddFits'
    <3> SUFFICES ASSUME NEW q \in Request \ {r}, npc[q] \in AddLabel
                 PROVE  /\ routeOn[nloc[q].route] # Nil
                        /\ npc[q] = "addCreate" =>
                             /\ nloc[q].asOf <= rows + 1
                             /\ \A p \in Position :
                                  /\ stop'[<<nloc[q].route, p>>] # Nil
                                  /\ stop'[<<nloc[q].route, p>>].cp = nloc[q].cp
                                  => nloc[q].asOf < stop'[<<nloc[q].route, p>>].id
      BY <1>1, <1>2, <1>5 DEF AddFits, Kept, AddLabel
    <3>1. nloc[q].route \in Route /\ nloc[q].asOf \in Nat
      BY DEF EditTypeOK, NetworkLocalsSet, EditFits, NetworkLocals
    <3>2. /\ routeOn[nloc[q].route] # Nil
          /\ npc[q] = "addCreate" =>
               /\ nloc[q].asOf <= rows
               /\ \A p \in Position :
                    stop[<<nloc[q].route, p>>] # Nil /\ stop[<<nloc[q].route, p>>].cp = nloc[q].cp
                    => nloc[q].asOf < stop[<<nloc[q].route, p>>].id
      BY DEF NetworkInv, AddFits
    <3> QED
      BY <2>1, <2>2, <2>3, <3>1, <3>2
  <2>8. TakeFits'
    <3> SUFFICES ASSUME NEW q \in Request \ {r}, npc[q] \in TakeLabel
                 PROVE  LET kq == <<nloc[q].route, nloc[q].pos>> IN
                        /\ nloc[q].row <= rows + 1
                        /\ stop'[kq] # Nil /\ stop'[kq].id = nloc[q].row => stop'[kq].cp = nloc[q].cp
      BY <1>1, <1>5 DEF TakeFits, Kept, TakeLabel
    <3>1. nloc[q].route \in Route /\ nloc[q].pos \in Position /\ nloc[q].row \in Nat
      BY DEF EditTypeOK, NetworkLocalsSet, EditFits, NetworkLocals
    <3> QED
      BY <2>1, <2>2, <3>1 DEF NetworkInv, TakeFits
  <2>9. TakeCounted'
    BY <1>1, <1>2, TakeCountedKept DEF NetworkInv
  <2>10. RouteCounted'
    BY <1>1, <1>2, RouteCountedKept DEF NetworkInv
  <2>11. CheckpointCounted'
    BY <1>1, <1>2, <1>5, <2>1
       DEF NetworkInv, CheckpointCounted, Kept, NetworkTypeOK, NetworkLocals
  <2>12. TwiceOnlyByOverlap'
    <3> SUFFICES ASSUME NEW t \in Route, NEW p \in Position, NEW q \in Position,
                        stop'[<<t, p>>] # Nil, stop'[<<t, q>>] # Nil,
                        stop'[<<t, p>>].cp = stop'[<<t, q>>].cp,
                        stop'[<<t, p>>].id < stop'[<<t, q>>].id
                 PROVE  stop'[<<t, q>>].asOf < stop'[<<t, p>>].id
      BY DEF TwiceOnlyByOverlap, Stops
    <3>1. CASE <<t, p>> = k
      BY <2>1, <2>2, <2>3, <2>4, <3>1
    <3>2. CASE <<t, p>> # k /\ <<t, q>> = k
      BY <2>2, <2>3, <2>5, <3>2
    <3>3. CASE <<t, p>> # k /\ <<t, q>> # k
      BY <2>2, <3>3 DEF NetworkInv, TwiceOnlyByOverlap, Stops
    <3> QED
      BY <3>1, <3>2, <3>3
  <2> QED
    BY <2>6, <2>7, <2>8, <2>9, <2>10, <2>11, <2>12 DEF NetworkInv
<1> QED
  BY <1>4, <1>5 DEF AddCreate

LEMMA TakeReadKeepsInv ==
    ASSUME Facts, NEW r \in Request, NEW t \in Route, NEW c \in Checkpoint, NEW p \in Position,
           TakeRead(r, t, c, p)
    PROVE  NetworkInv'
<1> USE DEF Facts
<1> DEFINE l == [NoEdit EXCEPT !.route = t, !.cp = c, !.pos = p, !.row = stop[<<t, p>>].id]
<1>1. npc'[r] = "takeCount" /\ nloc'[r] = l /\ Kept(r) /\ UNCHANGED <<network, traffic, history>>
  BY Opened DEF TakeRead
<1>2. l.route = t /\ l.cp = c /\ l.pos = p /\ l.row = stop[<<t, p>>].id
  BY DEF NoEdit
<1> HIDE DEF l
<1> USE <1>1, <1>2 DEF network, traffic, history, Kept
<1>3. TakeFits'
  <2>1. stop[<<t, p>>] # Nil /\ stop[<<t, p>>].cp = c
    BY DEF TakeRead, At, Stops
  <2>2. stop[<<t, p>>].id <= rows
    BY <2>1 DEF NetworkInv, RowsFit
  <2> QED
    BY <2>1, <2>2 DEF NetworkInv, TakeFits, TakeLabel
<1>4. RowsFit' /\ TwiceOnlyByOverlap'
  BY DEF NetworkInv, RowsFit, TwiceOnlyByOverlap, Stops
<1>5. AddFits'
  BY DEF NetworkInv, AddFits, AddLabel
<1>6. TakeCounted'
  BY TakeCountedKept DEF NetworkInv
<1>7. RouteCounted'
  BY RouteCountedKept DEF NetworkInv
<1>8. CheckpointCounted'
  BY SameStops, CheckpointCountedKept DEF NetworkInv
<1> QED
  BY <1>3, <1>4, <1>5, <1>6, <1>7, <1>8 DEF NetworkInv

LEMMA TakeCountKeepsInv ==
    ASSUME Facts, NEW r \in Request, TakeCount(r)
    PROVE  NetworkInv'
<1> USE DEF Facts
<1>1. npc[r] = "takeCount" /\ UNCHANGED <<network, traffic, history>>
  BY DEF TakeCount
<1>2. CASE Close(r, "takeCount")
  BY <1>1, <1>2, Closed, QuietKeepsInv
<1>3. CASE /\ Passers(nloc[r].route, nloc[r].cp) = {}
           /\ npc' = [npc EXCEPT ![r] = "takeDelete"]
           /\ nloc' = [nloc EXCEPT ![r].counted = TRUE, ![r].asOf = travels]
  <2>1. /\ npc'[r] = "takeDelete" /\ Kept(r)
        /\ nloc'[r].route = nloc[r].route /\ nloc'[r].cp = nloc[r].cp /\ nloc'[r].pos = nloc[r].pos
        /\ nloc'[r].row = nloc[r].row /\ nloc'[r].asOf = travels
    BY <1>3 DEF EditTypeOK, NetworkLocals, Kept
  <2> USE <1>1, <2>1 DEF network, traffic, history, Kept
  <2>2. TakeCounted'
    <3>1. travels \in Nat
      BY DEF NetworkTypeOK
    <3>2. \A t, c : Passers(t, c)' = Passers(t, c)
      BY SameTraffic
    <3>3. Passers(nloc'[r].route, nloc'[r].cp) = {}
      BY <1>3
    <3>4. \A q \in Request \ {r} : npc'[q] = npc[q] /\ nloc'[q] = nloc[q]
      OBVIOUS
    <3> QED
      BY <3>1, <3>2, <3>3, <3>4 DEF NetworkInv, TakeCounted
  <2>3. RowsFit' /\ TwiceOnlyByOverlap'
    BY DEF NetworkInv, RowsFit, TwiceOnlyByOverlap, Stops
  <2>4. AddFits'
    BY DEF NetworkInv, AddFits, AddLabel
  <2>5. TakeFits'
    BY DEF NetworkInv, TakeFits, TakeLabel
  <2>6. RouteCounted'
    BY RouteCountedKept DEF NetworkInv
  <2>7. CheckpointCounted'
    BY SameStops, CheckpointCountedKept DEF NetworkInv
  <2> QED
    BY <2>2, <2>3, <2>4, <2>5, <2>6, <2>7 DEF NetworkInv
<1> QED
  BY <1>2, <1>3 DEF TakeCount

\* A row disappears, and no counter moves: everything said of rows is said of fewer.
LEMMA TakeDeleteKeepsInv ==
    ASSUME Facts, NEW r \in Request, TakeDelete(r)
    PROVE  NetworkInv'
<1> USE DEF Facts
<1>1. npc'[r] = "idle" /\ Kept(r)
  BY Closed DEF TakeDelete
<1>2. UNCHANGED <<routeOn, cpOn, via, journey, passed, rows, wakes, travels>>
  BY DEF TakeDelete, traffic, history
<1>3. \A k \in Route \X Position : stop'[k] = stop[k] \/ stop'[k] = Nil
  BY DEF TakeDelete, NetworkTypeOK
<1>4. \A t \in Route, p \in Position :
          stop'[<<t, p>>] # Nil => stop'[<<t, p>>] = stop[<<t, p>>]
  BY <1>3
<1> USE <1>1, <1>2 DEF Kept
<1>5. RowsFit' /\ TwiceOnlyByOverlap'
  BY <1>4 DEF NetworkInv, RowsFit, TwiceOnlyByOverlap, Stops
<1>6. AddFits'
  <2>1. \A q \in Request : npc[q] \in AddLabel => nloc[q].route \in Route
    BY DEF EditTypeOK, NetworkLocalsSet, EditFits
  <2> QED
    BY <1>4, <2>1 DEF NetworkInv, AddFits, AddLabel
<1>7. TakeFits'
  <2>1. \A q \in Request : npc[q] \in TakeLabel => nloc[q].route \in Route /\ nloc[q].pos \in Position
    BY DEF EditTypeOK, NetworkLocalsSet, EditFits
  <2> QED
    BY <1>4, <2>1 DEF NetworkInv, TakeFits, TakeLabel
<1>8. TakeCounted'
  BY TakeCountedKept DEF NetworkInv
<1>9. RouteCounted'
  BY RouteCountedKept DEF NetworkInv
<1>10. CheckpointCounted'
  <2>1. ASSUME NEW c \in Checkpoint, InUse(c)' PROVE InUse(c)
    <3>1. PICK t \in Route : routeOn[t] = TRUE /\ \E p \in Position :
                                 stop'[<<t, p>>] # Nil /\ stop'[<<t, p>>].cp = c
      BY <2>1 DEF InUse, At, Stops
    <3> QED
      BY <1>4, <3>1 DEF InUse, At, Stops
  <2> QED
    BY <2>1, CheckpointCountedKept DEF NetworkInv
<1> QED
  BY <1>5, <1>6, <1>7, <1>8, <1>9, <1>10 DEF NetworkInv

\* Whatever a shipment does is later than every count.
LEMMA TravelsKeepInv ==
    ASSUME Facts, NEW s \in Shipment,
           \/ \E t \in Route : AssignRoute(s, t)
           \/ \E j \in Journey, c \in Checkpoint \cup {Nil} : MoveShipment(s, j, c)
    PROVE  NetworkInv'
<1> USE DEF Facts
<1>1. UNCHANGED <<routeOn, cpOn, stop, npc, nloc, rows, wakes>> /\ travels' = travels + 1
  BY DEF AssignRoute, MoveShipment, Travel, network
<1>2. travels \in Nat /\ \A q \in Request : nloc[q].asOf \in Nat
  BY DEF NetworkTypeOK, NetworkLocals
<1>3. RowsFit' /\ AddFits' /\ TakeFits' /\ TwiceOnlyByOverlap'
  BY <1>1 DEF NetworkInv, RowsFit, AddFits, TakeFits, TwiceOnlyByOverlap, Stops
<1>4. TakeCounted' /\ RouteCounted'
  BY <1>1, <1>2 DEF NetworkInv, TakeCounted, RouteCounted
<1>5. CheckpointCounted'
  BY <1>1, SameStops DEF NetworkInv, CheckpointCounted
<1> QED
  BY <1>3, <1>4, <1>5 DEF NetworkInv

LEMMA NetworkInvariant == NetworkSpec => [](Facts)
<1>1. NetworkInit => NetworkInv
  <2> SUFFICES ASSUME NetworkInit PROVE NetworkInv
    OBVIOUS
  <2>1. \A t \in Route, p \in Position : stop[<<t, p>>] = Nil
    BY DEF NetworkInit
  <2>2. \A r \in Request : npc[r] = "idle"
    BY DEF NetworkInit
  <2>3. RowsFit /\ TwiceOnlyByOverlap
    BY <2>1 DEF RowsFit, TwiceOnlyByOverlap, Stops
  <2> QED
    BY <2>2, <2>3 DEF NetworkInv, AddFits, TakeFits, TakeCounted, RouteCounted, CheckpointCounted,
                      AddLabel, TakeLabel
<1>2. NetworkTypeOK /\ NetworkLocalsSet => EditTypeOK
  BY DEF NetworkTypeOK, EditTypeOK
<1>3. NetworkTypeOK /\ EditTypeOK /\ NetworkInv /\ [NetworkNext]_networkVars => NetworkInv'
  <2> SUFFICES ASSUME Facts, [NetworkNext]_networkVars PROVE NetworkInv'
    BY DEF Facts
  <2>1. CASE UNCHANGED networkVars
    BY <2>1 DEF networkVars, network, traffic, history, Facts, NetworkInv, RowsFit, AddFits, TakeFits,
                TakeCounted, RouteCounted, CheckpointCounted, TwiceOnlyByOverlap, Stops, Passers,
                LiveOn, OnRoute, InUse, At
  <2>2. CASE NetworkNext
    BY <2>2, OpeningsKeepInv, CreationsKeepInv, SwitchesKeepInv, AddFindKeepsInv, AddCreateKeepsInv,
       TakeReadKeepsInv, TakeCountKeepsInv, TakeDeleteKeepsInv, TravelsKeepInv DEF NetworkNext
  <2> QED
    BY <2>1, <2>2
<1> QED
  BY <1>1, <1>2, <1>3, NetworkTypes, PTL DEF NetworkSpec, Facts

\* Rows, identifiers and locals keep their types.
THEOREM NetworkTypeCorrect == NetworkSpec => []NetworkTypeOK
  BY NetworkTypes, PTL

\* A checkpoint stands on a route twice only when the two additions overlapped,
\* for every number of requests, routes and checkpoints.
THEOREM TwiceNeedsOverlap == NetworkSpec => []TwiceOnlyByOverlap
<1>1. Facts => TwiceOnlyByOverlap
  BY DEF Facts, NetworkInv
<1> QED
  BY <1>1, NetworkInvariant, PTL

\* The step that takes a row away, or switches something off.
LEMMA WhoTakes ==
    ASSUME Facts, [NetworkNext]_networkVars, stop' # stop
    PROVE  \E r \in Request : AddCreate(r) \/ TakeDelete(r)
  BY DEF NetworkNext, networkVars, network, traffic, CreateRoute, DeactivateRoute, SwitchRoute,
         CreateCheckpoint, DeactivateCheckpoint, SwitchCheckpoint, AddRead, TakeRead, RouteWrite,
         CheckpointWrite, AddFind, TakeCount, EditFails, AssignRoute, MoveShipment

\* A checkpoint that shipments have passed leaves its route only when one moved
\* between the count and the deletion.
THEOREM PassedCheckpointsStay == NetworkSpec => PassedStopsStay
<1> DEFINE StaysUnlessMoved == \A t \in Route : \A p \in Stops(t) :
          (stop'[<<t, p>>] = Nil /\ Passers(t, stop[<<t, p>>].cp) # {})
          => \E r \in Request : npc[r] = "takeDelete" /\ nloc[r].asOf < travels
<1>1. Facts /\ [NetworkNext]_networkVars => [StaysUnlessMoved]_networkVars
  <2> SUFFICES ASSUME Facts, [NetworkNext]_networkVars,
                      NEW t \in Route, NEW p \in Stops(t),
                      stop'[<<t, p>>] = Nil, Passers(t, stop[<<t, p>>].cp) # {}
               PROVE  \E r \in Request : npc[r] = "takeDelete" /\ nloc[r].asOf < travels
    OBVIOUS
  <2> DEFINE k == <<t, p>>
  <2>1. k \in Route \X Position /\ stop[k] # Nil
    BY DEF Stops
  <2>2. PICK r \in Request : AddCreate(r) \/ TakeDelete(r)
    BY WhoTakes, <2>1
  <2>3. CASE AddCreate(r)
    <3>1. stop'[k] = stop[k]
      BY <2>1, <2>3 DEF AddCreate, Facts, NetworkTypeOK
    <3> QED
      BY <2>1, <3>1
  <2>4. CASE TakeDelete(r)
    <3>1. npc[r] = "takeDelete"
      BY <2>4 DEF TakeDelete, Close
    <3>2. k = <<nloc[r].route, nloc[r].pos>> /\ stop[k].id = nloc[r].row
      BY <2>1, <2>4 DEF TakeDelete, Facts, NetworkTypeOK
    <3>3. stop[k].cp = nloc[r].cp /\ t = nloc[r].route
      BY <2>1, <3>1, <3>2 DEF Facts, NetworkInv, TakeFits, TakeLabel
    <3> QED
      BY <3>1, <3>3 DEF Facts, NetworkInv, TakeCounted
  <2> QED
    BY <2>2, <2>3, <2>4
<1> QED
  BY <1>1, NetworkInvariant, PTL DEF NetworkSpec, PassedStopsStay

\* A route in use is switched off only by a removal, or when a shipment moved
\* after the count; a checkpoint in use likewise.
THEOREM WhatIsUsedStaysOn == NetworkSpec => UsedStaysOn
<1> DEFINE Routes ==
             \A t \in Route :
               (routeOn[t] = TRUE /\ routeOn'[t] = FALSE /\ LiveOn(t) # {})
               => \E r \in Request : /\ npc[r] = "routeSwitch" /\ nloc[r].route = t
                                     /\ nloc[r].counted => nloc[r].asOf < travels
           Checkpoints ==
             \A c \in Checkpoint :
               (cpOn[c] = TRUE /\ cpOn'[c] = FALSE /\ InUse(c))
               => \E r \in Request : /\ npc[r] = "cpSwitch" /\ nloc[r].cp = c
                                     /\ nloc[r].counted => nloc[r].asOf < rows + wakes
<1>1. Facts /\ [NetworkNext]_networkVars => Routes
  <2> SUFFICES ASSUME Facts, [NetworkNext]_networkVars, NEW t \in Route,
                      routeOn[t] = TRUE, routeOn'[t] = FALSE, LiveOn(t) # {}
               PROVE  \E r \in Request : /\ npc[r] = "routeSwitch" /\ nloc[r].route = t
                                         /\ nloc[r].counted => nloc[r].asOf < travels
    OBVIOUS
  <2>1. routeOn \in [Route -> BOOLEAN \cup {Nil}]
    BY DEF Facts, NetworkTypeOK
  <2>2. ASSUME NEW r \in Request, NEW u \in Route, CreateRoute(r, u) PROVE FALSE
    BY <2>1, <2>2, NetworkAssumption DEF CreateRoute
  <2>3. PICK r \in Request : RouteWrite(r)
    BY <2>2 DEF NetworkNext, networkVars, network, traffic, DeactivateRoute, SwitchRoute,
         CreateCheckpoint, DeactivateCheckpoint, SwitchCheckpoint, AddRead, TakeRead, AddCreate,
         CheckpointWrite, AddFind, TakeCount, TakeDelete, EditFails, AssignRoute, MoveShipment
  <2>4. npc[r] = "routeSwitch" /\ nloc[r].route = t
    BY <2>1, <2>3 DEF RouteWrite, Close
  <2> QED
    BY <2>4 DEF Facts, NetworkInv, RouteCounted
<1>2. Facts /\ [NetworkNext]_networkVars => Checkpoints
  <2> SUFFICES ASSUME Facts, [NetworkNext]_networkVars, NEW c \in Checkpoint,
                      cpOn[c] = TRUE, cpOn'[c] = FALSE, InUse(c)
               PROVE  \E r \in Request : /\ npc[r] = "cpSwitch" /\ nloc[r].cp = c
                                         /\ nloc[r].counted => nloc[r].asOf < rows + wakes
    OBVIOUS
  <2>1. cpOn \in [Checkpoint -> BOOLEAN \cup {Nil}]
    BY DEF Facts, NetworkTypeOK
  <2>2. ASSUME NEW r \in Request, NEW d \in Checkpoint, CreateCheckpoint(r, d) PROVE FALSE
    BY <2>1, <2>2, NetworkAssumption DEF CreateCheckpoint
  <2>3. PICK r \in Request : CheckpointWrite(r)
    BY <2>2 DEF NetworkNext, networkVars, network, traffic, DeactivateRoute, SwitchRoute, CreateRoute,
         DeactivateCheckpoint, SwitchCheckpoint, AddRead, TakeRead, AddCreate,
         RouteWrite, AddFind, TakeCount, TakeDelete, EditFails, AssignRoute, MoveShipment
  <2>4. npc[r] = "cpSwitch" /\ nloc[r].cp = c
    BY <2>1, <2>3 DEF CheckpointWrite, Close
  <2> QED
    BY <2>4 DEF Facts, NetworkInv, CheckpointCounted
<1>3. Facts /\ [NetworkNext]_networkVars => [Routes /\ Checkpoints]_networkVars
  BY <1>1, <1>2
<1> QED
  BY <1>3, NetworkInvariant, PTL DEF NetworkSpec, UsedStaysOn

-----------------------------------------------------------------------------
(* Members and invitations                                                 *)

\* The locals a handler has set by the time it reaches a statement.
CallFits(at, l) ==
    /\ at \in {"inviteCreate", "acceptTx"} =>
          l.org \in Org /\ l.who \in Person /\ l.role \in Role \ {"super_admin"}
    /\ at = "inviteCreate" => l.by \in Person
    /\ at \in {"invitePublish", "resendWrite", "cancelDelete", "acceptExpire", "acceptTx"} =>
          l.inv \in Invite
    /\ at \in {"memberWrite", "updateCheck", "updateWrite", "deleteCount", "deleteRow"} =>
          l.who \in Person
    /\ at \in {"updateCheck", "updateWrite", "deleteCount", "deleteRow"} =>
          l.seenRole \in Role /\ l.seenOrg \in Org
    /\ at = "closeMembers" => l.org \in Org

TenantLocalsSet == \A r \in Request : CallFits(tpc[r], tloc[r])

CallTypeOK ==
    /\ tpc \in [Request -> TenantLabel] /\ tloc \in [Request -> TenantLocals]
    /\ TenantLocalsSet /\ retyped \subseteq Org /\ tcalls \in Nat

TablesOK ==
    /\ user \in [Person -> UserRow \cup {Nil}]
    /\ kind \in [Org -> OrgType \cup {Nil}] /\ open \in [Org -> BOOLEAN]
    /\ invite \in [Invite -> InviteRow \cup {Nil}] /\ mailed \subseteq Link

LEMMA NoTenantType == NoTenant \in TenantLocals /\ CallFits("idle", NoTenant)
  BY DEF NoTenant, TenantLocals, CallFits

LEMMA BeginType ==
    ASSUME CallTypeOK, NEW r \in Request, NEW next \in TenantLabel,
           NEW l \in TenantLocals, CallFits(next, l), Begin(r, next, l)
    PROVE  CallTypeOK'
  BY DEF CallTypeOK, TenantLocalsSet, Begin, Count

LEMMA FinishType ==
    ASSUME CallTypeOK, NEW r \in Request, NEW at, Finish(r, at)
    PROVE  CallTypeOK'
  BY NoTenantType DEF CallTypeOK, TenantLocalsSet, Finish, TenantLabel

LEMMA MoveOnType ==
    ASSUME CallTypeOK, NEW r \in Request, NEW next \in TenantLabel,
           NEW l \in TenantLocals, CallFits(next, l),
           tpc' = [tpc EXCEPT ![r] = next], tloc' = [tloc EXCEPT ![r] = l],
           UNCHANGED <<retyped, tcalls>>
    PROVE  CallTypeOK'
  BY DEF CallTypeOK, TenantLocalsSet

\* The call that begins has what its first statement needs.
LEMMA BeginningsType ==
    ASSUME CallTypeOK, TablesOK, NEW r \in Request,
           \/ \E by, p \in Person, o \in Org, role \in Role : InviteRead(r, by, o, p, role)
           \/ \E by \in Person, i \in Invite : ResendRead(r, by, i) \/ CancelRead(r, by, i)
           \/ \E by, p \in Person, enable \in BOOLEAN : MemberRead(r, by, p, enable)
           \/ \E link \in mailed : OpenLateLink(r, link[1], link[2]) \/ AcceptRead(r, link[1], link[2])
           \/ \E p \in Person, enable \in BOOLEAN : UserRead(r, p, enable)
           \/ \E p \in Person, role \in (Role \ {"super_admin"}) \cup {Nil}, o \in Org \cup {Nil} :
                 UpdateRead(r, p, role, o)
           \/ \E p \in Person : DeleteRead(r, p)
    PROVE  CallTypeOK' /\ UNCHANGED <<tables, mailed>>
<1>1. ASSUME NEW by \in Person, NEW p \in Person, NEW o \in Org, NEW role \in Role,
             InviteRead(r, by, o, p, role)
      PROVE  CallTypeOK' /\ UNCHANGED <<tables, mailed>>
  <2> DEFINE l == [NoTenant EXCEPT !.by = by, !.org = o, !.who = p, !.role = role]
  <2>1. role \in Role \ {"super_admin"}
    BY <1>1 DEF InviteRead, TablesOK, OrgType, Role
  <2>2. l \in TenantLocals /\ CallFits("inviteCreate", l)
    BY <2>1 DEF NoTenant, TenantLocals, CallFits
  <2> HIDE DEF l
  <2> QED
    BY <1>1, <2>2, BeginType DEF InviteRead, TenantLabel, l
<1>2. ASSUME NEW by \in Person, NEW i \in Invite, ResendRead(r, by, i) \/ CancelRead(r, by, i)
      PROVE  CallTypeOK' /\ UNCHANGED <<tables, mailed>>
  <2> DEFINE l == [NoTenant EXCEPT !.inv = i]
  <2>1. l \in TenantLocals /\ CallFits("resendWrite", l) /\ CallFits("cancelDelete", l)
    BY DEF NoTenant, TenantLocals, CallFits
  <2> HIDE DEF l
  <2> QED
    BY <1>2, <2>1, BeginType DEF ResendRead, CancelRead, TenantLabel, l
<1>3. ASSUME NEW p \in Person, NEW enable \in BOOLEAN,
             UserRead(r, p, enable) \/ \E by \in Person : MemberRead(r, by, p, enable)
      PROVE  CallTypeOK' /\ UNCHANGED <<tables, mailed>>
  <2> DEFINE l == [NoTenant EXCEPT !.who = p, !.enable = enable]
  <2>1. l \in TenantLocals /\ CallFits("memberWrite", l)
    BY DEF NoTenant, TenantLocals, CallFits
  <2> HIDE DEF l
  <2> QED
    BY <1>3, <2>1, BeginType DEF UserRead, MemberRead, TenantLabel, l
<1>4. ASSUME NEW i \in Invite, NEW t \in Nat, OpenLateLink(r, i, t)
      PROVE  CallTypeOK' /\ UNCHANGED <<tables, mailed>>
  <2> DEFINE l == [NoTenant EXCEPT !.inv = i, !.token = t]
  <2>1. l \in TenantLocals /\ CallFits("acceptExpire", l)
    BY DEF NoTenant, TenantLocals, CallFits
  <2> HIDE DEF l
  <2> QED
    BY <1>4, <2>1, BeginType DEF OpenLateLink, TenantLabel, l
<1>5. ASSUME NEW i \in Invite, NEW t \in Nat, AcceptRead(r, i, t)
      PROVE  CallTypeOK' /\ UNCHANGED <<tables, mailed>>
  <2> DEFINE l == [NoTenant EXCEPT !.inv = i, !.token = t, !.who = invite[i].email,
                                            !.org = invite[i].org, !.role = invite[i].role]
  <2>1. invite[i] \in InviteRow
    BY <1>5 DEF AcceptRead, Exists, TablesOK
  <2>2. /\ invite[i].email \in Person /\ invite[i].org \in Org
        /\ invite[i].role \in Role \ {"super_admin"}
    BY <2>1 DEF InviteRow
  <2>3. l \in TenantLocals /\ CallFits("acceptTx", l)
    BY <2>2 DEF NoTenant, TenantLocals, CallFits
  <2> HIDE DEF l
  <2> QED
    BY <1>5, <2>3, BeginType DEF AcceptRead, TenantLabel, l
<1>6. ASSUME NEW p \in Person, NEW role \in (Role \ {"super_admin"}) \cup {Nil},
             NEW o \in Org \cup {Nil}, UpdateRead(r, p, role, o)
      PROVE  CallTypeOK' /\ UNCHANGED <<tables, mailed>>
  <2> DEFINE l == [NoTenant EXCEPT !.who = p, !.role = role, !.org = o,
                                   !.seenRole = user[p].role, !.seenOrg = user[p].org]
  <2>1. user[p].role \in Role /\ user[p].org \in Org
    BY <1>6 DEF UpdateRead, TablesOK, UserRow
  <2>2. l \in TenantLocals /\ CallFits("updateCheck", l)
    BY <2>1 DEF NoTenant, TenantLocals, CallFits
  <2> HIDE DEF l
  <2> QED
    BY <1>6, <2>2, BeginType DEF UpdateRead, TenantLabel, l
<1>7. ASSUME NEW p \in Person, DeleteRead(r, p)
      PROVE  CallTypeOK' /\ UNCHANGED <<tables, mailed>>
  <2> DEFINE l == [NoTenant EXCEPT !.who = p, !.seenRole = user[p].role, !.seenOrg = user[p].org]
  <2>1. user[p].role \in Role /\ user[p].org \in Org
    BY <1>7 DEF DeleteRead, TablesOK, UserRow
  <2>2. l \in TenantLocals /\ CallFits("deleteCount", l) /\ CallFits("deleteRow", l)
    BY <2>1 DEF NoTenant, TenantLocals, CallFits
  <2> HIDE DEF l
  <2> QED
    BY <1>7, <2>2, BeginType DEF DeleteRead, TenantLabel, l
<1>8. \A link \in mailed : link[1] \in Invite /\ link[2] \in Nat
  BY DEF TablesOK, Link
<1> QED
  BY <1>1, <1>2, <1>3, <1>4, <1>5, <1>6, <1>7, <1>8

\* What a statement writes is a row.
LEMMA StepsType ==
    ASSUME CallTypeOK, TablesOK, NEW r \in Request, TenantStep(r)
    PROVE  CallTypeOK' /\ TablesOK'
<1> USE DEF tables
<1>0. CallFits(tpc[r], tloc[r]) /\ tloc[r] \in TenantLocals
  BY DEF CallTypeOK, TenantLocalsSet
<1>1. ASSUME NEW i \in Invite, InviteCreate(r, i) PROVE CallTypeOK' /\ TablesOK'
  <2> DEFINE row == [org |-> tloc[r].org, email |-> tloc[r].who, role |-> tloc[r].role, by |-> tloc[r].by,
                     token |-> 1, late |-> FALSE, status |-> "pending"]
             l   == [tloc[r] EXCEPT !.inv = i, !.token = 1]
  <2>1. tpc[r] = "inviteCreate"
    BY <1>1 DEF InviteCreate
  <2>2. row \in InviteRow
    BY <1>0, <2>1 DEF InviteRow, CallFits
  <2>3. l \in TenantLocals /\ CallFits("invitePublish", l)
    BY <1>0 DEF TenantLocals, CallFits
  <2>4. CASE /\ invite' = [invite EXCEPT ![i] = row]
             /\ tpc' = [tpc EXCEPT ![r] = "invitePublish"] /\ tloc' = [tloc EXCEPT ![r] = l]
    <3> HIDE DEF row, l
    <3>1. invite' \in [Invite -> InviteRow \cup {Nil}]
      BY <2>2, <2>4, UpdateType DEF TablesOK
    <3>2. CallTypeOK'
      BY <1>1, <2>3, <2>4, MoveOnType DEF InviteCreate, TenantLabel
    <3> QED
      BY <1>1, <3>1, <3>2 DEF InviteCreate, TablesOK
  <2>5. CASE Finish(r, "inviteCreate") /\ UNCHANGED invite
    BY <1>1, <2>5, FinishType DEF InviteCreate, TablesOK
  <2> QED
    BY <1>1, <2>4, <2>5 DEF InviteCreate
<1>2. CASE InvitePublish(r)
  <2>1. <<tloc[r].inv, tloc[r].token>> \in Link
    <3>1. tpc[r] = "invitePublish"
      BY <1>2 DEF InvitePublish, Finish
    <3> QED
      BY <1>0, <3>1 DEF CallFits, TenantLocals, Link
  <2> QED
    BY <1>2, <2>1, FinishType DEF InvitePublish, TablesOK
<1>3. CASE ResendWrite(r)
  <2> DEFINE i == tloc[r].inv
  <2>1. i \in Invite
    BY <1>0, <1>3 DEF ResendWrite, CallFits
  <2>2. CASE /\ Exists(i)
             /\ invite' = [invite EXCEPT ![i].token = @ + 1, ![i].late = FALSE]
             /\ tpc' = [tpc EXCEPT ![r] = "invitePublish"]
             /\ tloc' = [tloc EXCEPT ![r].token = invite[i].token + 1]
    <3> DEFINE row == [invite[i] EXCEPT !.token = @ + 1, !.late = FALSE]
               l   == [tloc[r] EXCEPT !.token = invite[i].token + 1]
    <3>1. invite[i] \in InviteRow
      BY <2>1, <2>2 DEF Exists, TablesOK
    <3>2. row \in InviteRow /\ invite[i].token + 1 \in Nat
      <4>1. invite[i].token + 1 \in Nat
        BY <3>1 DEF InviteRow
      <4>2. row = [invite[i] EXCEPT !.token = invite[i].token + 1, !.late = FALSE]
        BY <3>1 DEF InviteRow
      <4> QED
        BY <3>1, <4>1, <4>2 DEF InviteRow
    <3>3. l \in TenantLocals /\ CallFits("invitePublish", l)
      BY <1>0, <2>1, <3>2 DEF TenantLocals, CallFits
    <3>4. invite' = [invite EXCEPT ![i] = row] /\ tloc' = [tloc EXCEPT ![r] = l]
      BY <2>1, <2>2 DEF TablesOK, CallTypeOK
    <3> HIDE DEF row, l
    <3>5. invite' \in [Invite -> InviteRow \cup {Nil}]
      BY <3>2, <3>4, UpdateType DEF TablesOK
    <3>6. CallTypeOK'
      BY <1>3, <2>2, <3>3, <3>4, MoveOnType DEF ResendWrite, TenantLabel
    <3> QED
      BY <1>3, <3>5, <3>6 DEF ResendWrite, TablesOK
  <2>3. CASE Finish(r, "resendWrite") /\ UNCHANGED invite
    BY <1>3, <2>3, FinishType DEF ResendWrite, TablesOK
  <2> QED
    BY <1>3, <2>2, <2>3 DEF ResendWrite
<1>4. CASE CancelDelete(r) \/ AcceptExpire(r)
  <2>1. tloc[r].inv \in Invite
    BY <1>0, <1>4 DEF CancelDelete, AcceptExpire, Finish, CallFits
  <2>2. ASSUME NEW st \in {"accepted", "expired", "deleted"}, Exists(tloc[r].inv)
        PROVE  [invite EXCEPT ![tloc[r].inv].status = st] \in [Invite -> InviteRow \cup {Nil}]
    <3>1. [invite[tloc[r].inv] EXCEPT !.status = st] \in InviteRow
      BY <2>1, <2>2 DEF Exists, TablesOK, InviteRow
    <3> QED
      BY <3>1, UpdateType DEF TablesOK
  <2>3. CallTypeOK'
    BY <1>4, FinishType DEF CancelDelete, AcceptExpire
  <2>4. invite' \in [Invite -> InviteRow \cup {Nil}]
    BY <1>4, <2>2 DEF CancelDelete, AcceptExpire, TablesOK
  <2> QED
    BY <1>4, <2>3, <2>4 DEF CancelDelete, AcceptExpire, TablesOK
<1>5. CASE AcceptTx(r)
  <2> DEFINE l == tloc[r]
  <2>1. l.inv \in Invite /\ l.org \in Org /\ l.who \in Person /\ l.role \in Role
    BY <1>0, <1>5 DEF AcceptTx, Finish, CallFits
  <2>2. [role |-> l.role, org |-> l.org, active |-> TRUE] \in UserRow
    BY <2>1 DEF UserRow
  <2>3. Exists(l.inv) => [invite[l.inv] EXCEPT !.status = "accepted"] \in InviteRow
    BY <2>1 DEF Exists, TablesOK, InviteRow
  <2>4. invite' \in [Invite -> InviteRow \cup {Nil}]
    BY <1>5, <2>3, UpdateType DEF AcceptTx, TablesOK
  <2>5. user' \in [Person -> UserRow \cup {Nil}]
    BY <1>5, <2>2, UpdateType DEF AcceptTx, TablesOK
  <2>6. CallTypeOK'
    BY <1>5, FinishType DEF AcceptTx
  <2> QED
    BY <1>5, <2>4, <2>5, <2>6 DEF AcceptTx, TablesOK
<1>6. CASE MemberWrite(r)
  <2>1. tloc[r].who \in Person /\ tloc[r].enable \in BOOLEAN
    BY <1>0, <1>6 DEF MemberWrite, Finish, CallFits, TenantLocals
  <2>2. user[tloc[r].who] # Nil => [user[tloc[r].who] EXCEPT !.active = tloc[r].enable] \in UserRow
    BY <2>1 DEF TablesOK, UserRow
  <2>3. user' \in [Person -> UserRow \cup {Nil}]
    BY <1>6, <2>2, UpdateType DEF MemberWrite, TablesOK
  <2>4. CallTypeOK'
    BY <1>6, FinishType DEF MemberWrite
  <2> QED
    BY <1>6, <2>3, <2>4 DEF MemberWrite, TablesOK
<1>7. CASE UpdateCheck(r)
  <2>1. CASE Finish(r, "updateCheck")
    BY <1>7, <2>1, FinishType DEF UpdateCheck, TablesOK
  <2>2. CASE Proceed(r, "updateCheck", "updateWrite")
    <3>1. CallFits("updateWrite", tloc[r]) /\ tloc' = [tloc EXCEPT ![r] = tloc[r]]
      BY <1>0, <2>2 DEF Proceed, CallFits, CallTypeOK
    <3>2. CallTypeOK'
      BY <1>0, <2>2, <3>1, MoveOnType DEF Proceed, TenantLabel
    <3> QED
      BY <1>7, <3>2 DEF UpdateCheck, TablesOK
  <2> QED
    BY <1>7, <2>1, <2>2 DEF UpdateCheck
<1>8. CASE UpdateWrite(r)
  <2> DEFINE l == tloc[r]
             row == [user[l.who] EXCEPT !.role = Target(l.role, @), !.org = Target(l.org, @)]
  <2>1. l.who \in Person /\ l.role \in Role \cup {Nil} /\ l.org \in Org \cup {Nil}
    BY <1>0, <1>8 DEF UpdateWrite, Finish, CallFits, TenantLocals
  <2>2. ASSUME user[l.who] # Nil PROVE row \in UserRow
    <3>1. user[l.who] \in UserRow
      BY <2>1, <2>2 DEF TablesOK
    <3>2. Target(l.role, user[l.who].role) \in Role /\ Target(l.org, user[l.who].org) \in Org
      BY <2>1, <3>1 DEF UserRow, Target
    <3>3. row = [user[l.who] EXCEPT !.role = Target(l.role, user[l.who].role),
                                    !.org = Target(l.org, user[l.who].org)]
      BY <3>1 DEF UserRow
    <3> QED
      BY <3>1, <3>2, <3>3 DEF UserRow
  <2>3. user[l.who] # Nil => user' = [user EXCEPT ![l.who] = row]
    BY <1>8, <2>1 DEF UpdateWrite, TablesOK
  <2> HIDE DEF row
  <2>4. user' \in [Person -> UserRow \cup {Nil}]
    <3>1. CASE user[l.who] = Nil
      BY <1>8, <3>1 DEF UpdateWrite, TablesOK
    <3>2. CASE user[l.who] # Nil
      BY <2>2, <2>3, <3>2, UpdateType DEF TablesOK
    <3> QED
      BY <3>1, <3>2
  <2>5. CallTypeOK'
    BY <1>8, FinishType DEF UpdateWrite
  <2> QED
    BY <1>8, <2>4, <2>5 DEF UpdateWrite, TablesOK
<1>9. CASE DeleteCount(r)
  <2>1. CASE Finish(r, "deleteCount")
    BY <1>9, <2>1, FinishType DEF DeleteCount, TablesOK
  <2>2. CASE /\ tpc' = [tpc EXCEPT ![r] = "deleteRow"]
             /\ tloc' = [tloc EXCEPT ![r].counted = Admins(tloc[r].seenOrg)]
             /\ UNCHANGED <<retyped, tcalls>>
    <3> DEFINE l == [tloc[r] EXCEPT !.counted = Admins(tloc[r].seenOrg)]
    <3>1. l \in TenantLocals /\ CallFits("deleteRow", l)
      BY <1>0, <1>9 DEF DeleteCount, TenantLocals, CallFits, Admins
    <3>2. tloc' = [tloc EXCEPT ![r] = l]
      BY <2>2 DEF CallTypeOK
    <3> HIDE DEF l
    <3>3. CallTypeOK'
      BY <2>2, <3>1, <3>2, MoveOnType DEF TenantLabel
    <3> QED
      BY <1>9, <3>3 DEF DeleteCount, TablesOK
  <2> QED
    BY <1>9, <2>1, <2>2 DEF DeleteCount
<1>10. CASE DeleteRow(r)
  <2>1. TablesOK'
    BY <1>10 DEF DeleteRow, Without, TablesOK, Exists, InviteRow
  <2> QED
    BY <1>10, <2>1, FinishType DEF DeleteRow
<1>11. CASE CloseMembers(r)
  <2>1. TablesOK'
    BY <1>11 DEF CloseMembers, TablesOK, UserRow
  <2> QED
    BY <1>11, <2>1, FinishType DEF CloseMembers
<1> QED
  BY <1>1, <1>2, <1>3, <1>4, <1>5, <1>6, <1>7, <1>8, <1>9, <1>10, <1>11 DEF TenantStep

\* Rows, links and locals keep their types.
LEMMA TenancyTypes == TenancySpec => [](CallTypeOK /\ TablesOK)
<1>1. TenancyInit => CallTypeOK /\ TablesOK
  <2> SUFFICES ASSUME TenancyInit PROVE CallTypeOK /\ TablesOK
    OBVIOUS
  <2>1. CallTypeOK
    BY NoTenantType DEF TenancyInit, CallTypeOK, TenantLocalsSet, TenantLabel
  <2>2. user \in [Person -> UserRow \cup {Nil}]
    BY TenancyAssumption DEF TenancyInit, UserRow, Role
  <2>3. kind \in [Org -> OrgType \cup {Nil}] /\ open \in [Org -> BOOLEAN]
    BY DEF TenancyInit, OrgType
  <2>4. invite \in [Invite -> InviteRow \cup {Nil}] /\ mailed \subseteq Link
    <3>1. CASE invite = [i \in Invite |-> Nil] /\ mailed = {}
      BY <3>1
    <3>2. ASSUME NEW i \in Invite, NEW p \in Person, NEW role \in {"admin", "shipper"},
                 invite = [j \in Invite |->
                             IF j # i THEN Nil
                             ELSE [org |-> HomeOrg, email |-> p, role |-> role, by |-> Founder,
                                   token |-> 1, late |-> FALSE, status |-> "pending"]],
                 mailed = {<<i, 1>>}
          PROVE  invite \in [Invite -> InviteRow \cup {Nil}] /\ mailed \subseteq Link
      <4>1. [org |-> HomeOrg, email |-> p, role |-> role, by |-> Founder,
             token |-> 1, late |-> FALSE, status |-> "pending"] \in InviteRow
        BY TenancyAssumption DEF InviteRow, Role, OrgType
      <4> QED
        BY <3>2, <4>1 DEF Link
    <3> QED
      BY <3>1, <3>2 DEF TenancyInit
  <2> QED
    BY <2>1, <2>2, <2>3, <2>4 DEF TablesOK
<1>2. CallTypeOK /\ TablesOK /\ [TenancyNext]_tenancyVars => (CallTypeOK /\ TablesOK)'
  <2> SUFFICES ASSUME CallTypeOK, TablesOK, [TenancyNext]_tenancyVars PROVE (CallTypeOK /\ TablesOK)'
    OBVIOUS
  <2>1. ASSUME NEW r \in Request, TenantStep(r) PROVE (CallTypeOK /\ TablesOK)'
    BY <2>1, StepsType
  <2>2. ASSUME CallTypeOK', UNCHANGED <<tables, mailed>> PROVE (CallTypeOK /\ TablesOK)'
    BY <2>2 DEF TablesOK, tables
  <2>3. ASSUME UNCHANGED <<tpc, tloc>>, retyped' \subseteq Org, tcalls' \in Nat, TablesOK'
        PROVE  (CallTypeOK /\ TablesOK)'
    BY <2>3 DEF CallTypeOK, TenantLocalsSet
  <2>4. ASSUME NEW r \in Request, NEW p \in Person, NEW o \in Org, NEW k \in OrgType,
               Register(r, p, o, k)
        PROVE  (CallTypeOK /\ TablesOK)'
    BY <2>3, <2>4 DEF Register, Count, TablesOK, CallTypeOK, UserRow, Role
  <2>5. ASSUME NEW r \in Request, Fail(r) PROVE (CallTypeOK /\ TablesOK)'
    BY <2>2, <2>5, FinishType DEF Fail
  <2>6. ASSUME NEW i \in Invite, Lapse(i) PROVE (CallTypeOK /\ TablesOK)'
    <3>1. [invite[i] EXCEPT !.late = TRUE] \in InviteRow
      BY <2>6 DEF Lapse, TablesOK, InviteRow
    <3>2. TablesOK'
      BY <2>6, <3>1, UpdateType DEF Lapse, TablesOK
    <3> QED
      BY <2>3, <2>6, <3>2 DEF Lapse, CallTypeOK
  <2>7. ASSUME NEW r \in Request, NEW ids \in SUBSET Person \ {{}},
               NEW a \in {"activate", "deactivate", "delete"}, BulkUsers(r, ids, a)
        PROVE  (CallTypeOK /\ TablesOK)'
    <3>1. CASE Without(ids)
      <4>1. TablesOK'
        BY <2>7, <3>1 DEF BulkUsers, Without, TablesOK, Exists, InviteRow
      <4> QED
        BY <2>3, <2>7, <4>1 DEF BulkUsers, Count, CallTypeOK
    <3>2. CASE /\ user' = [p \in Person |-> IF p \in ids /\ user[p] # Nil
                                            THEN [user[p] EXCEPT !.active = (a = "activate")]
                                            ELSE user[p]]
               /\ UNCHANGED invite
      <4>1. \A p \in Person : user[p] # Nil =>
               [user[p] EXCEPT !.active = (a = "activate")] \in UserRow
        BY DEF TablesOK, UserRow
      <4>2. user' \in [Person -> UserRow \cup {Nil}]
        BY <3>2, <4>1 DEF TablesOK
      <4>3. TablesOK'
        BY <2>7, <3>2, <4>2 DEF BulkUsers, TablesOK
      <4> QED
        BY <2>3, <2>7, <4>3 DEF BulkUsers, Count, CallTypeOK
    <3> QED
      BY <2>7, <3>1, <3>2 DEF BulkUsers
  <2>8. ASSUME NEW r \in Request, NEW o \in Org, NEW k \in OrgType, UpdateOrganization(r, o, k)
        PROVE  (CallTypeOK /\ TablesOK)'
    BY <2>3, <2>8 DEF UpdateOrganization, Count, TablesOK, CallTypeOK
  <2>9. ASSUME NEW r \in Request, NEW o \in Org, ReopenOrganization(r, o)
        PROVE  (CallTypeOK /\ TablesOK)'
    BY <2>3, <2>9 DEF ReopenOrganization, Count, TablesOK, CallTypeOK
  <2>10. ASSUME NEW r \in Request, NEW o \in Org, CloseOrganization(r, o)
         PROVE  (CallTypeOK /\ TablesOK)'
    <3> DEFINE l == [NoTenant EXCEPT !.org = o]
    <3>1. l \in TenantLocals /\ CallFits("closeMembers", l)
      BY DEF NoTenant, TenantLocals, CallFits
    <3> HIDE DEF l
    <3>2. CallTypeOK'
      BY <2>10, <3>1, BeginType DEF CloseOrganization, TenantLabel, l
    <3> QED
      BY <2>10, <3>2 DEF CloseOrganization, TablesOK
  <2>11. CASE UNCHANGED tenancyVars
    BY <2>11 DEF tenancyVars, tables, CallTypeOK, TenantLocalsSet, TablesOK
  <2>12. ASSUME NEW r \in Request, OrganizationCall(r) \/ AdminCall(r)
         PROVE  (CallTypeOK /\ TablesOK)'
    BY <2>2, <2>4, <2>7, <2>8, <2>9, <2>10, <2>12, BeginningsType DEF OrganizationCall, AdminCall
  <2> QED
    BY <2>1, <2>5, <2>6, <2>11, <2>12 DEF TenancyNext
<1> QED
  BY <1>1, <1>2, PTL DEF TenancySpec

\* Rows, links and locals keep their types.
THEOREM TenancyTypeCorrect == TenancySpec => []TenancyTypeOK
<1>1. CallTypeOK /\ TablesOK => TenancyTypeOK
  BY DEF CallTypeOK, TablesOK, TenancyTypeOK
<1> QED
  BY <1>1, TenancyTypes, PTL

\* A role that goes with the type an organization has or once had.
Matched(role, o) ==
    kind[o] # Nil /\ (role \in {"admin", "super_admin", kind[o]} \/ o \in retyped)

\* What a handler has read still holds, as far as anything keeps it.
CallHolds(at, l) ==
    /\ at = "inviteCreate" => Matched(l.role, l.org)
    /\ at = "acceptTx" =>
          /\ invite[l.inv] # Nil /\ invite[l.inv].email = l.who
          /\ invite[l.inv].org = l.org /\ invite[l.inv].role = l.role
    /\ at = "acceptExpire" =>
          /\ invite[l.inv] # Nil /\ l.token <= invite[l.inv].token
          /\ l.token = invite[l.inv].token => invite[l.inv].late
    /\ at = "updateWrite" => Matched(Target(l.role, l.seenRole), Target(l.org, l.seenOrg))
    /\ at = "deleteRow" /\ l.seenRole = "admin" => Cardinality(l.counted) > 1

CallsHold     == \A r \in Request : CallHolds(tpc[r], tloc[r])
InvitesMatch  == \A i \in Invite : invite[i] # Nil => Matched(invite[i].role, invite[i].org)
TenancyFacts  == CallTypeOK /\ TablesOK /\ CallsHold /\ InvitesMatch

\* Invitations are never taken out of the table nor readdressed, their tokens
\* grow, and organizations stay and are marked when they change their type.
Evolves(old, new) ==
    /\ new # Nil /\ new.email = old.email /\ new.org = old.org /\ new.role = old.role
    /\ \/ new.token = old.token /\ (old.late => new.late)
       \/ new.token = old.token + 1

InvitesEvolve == \A i \in Invite : invite[i] # Nil => Evolves(invite[i], invite'[i])

OrgsEvolve ==
    /\ retyped \subseteq retyped'
    /\ \A o \in Org : kind[o] # Nil => kind'[o] # Nil /\ (kind'[o] = kind[o] \/ o \in retyped')

\* One invitation becomes another row of the same address.
LEMMA OneInviteEvolves ==
    ASSUME TablesOK, NEW i \in Invite, NEW row \in InviteRow,
           invite' = [invite EXCEPT ![i] = row],
           invite[i] # Nil => Evolves(invite[i], row)
    PROVE  InvitesEvolve
<1>1. \A j \in Invite \ {i} : invite[j] # Nil => Evolves(invite[j], invite'[j])
  <2>1. \A j \in Invite \ {i} : invite'[j] = invite[j]
    BY DEF TablesOK
  <2> QED
    BY <2>1 DEF Evolves
<1>2. invite'[i] = row
  BY DEF TablesOK
<1> QED
  BY <1>1, <1>2 DEF InvitesEvolve

LEMMA InvitesSame == ASSUME UNCHANGED invite PROVE InvitesEvolve
  BY DEF InvitesEvolve, Evolves

LEMMA OrgsSame == ASSUME UNCHANGED <<kind, retyped>> PROVE OrgsEvolve
  BY DEF OrgsEvolve

LEMMA WithoutEvolves ==
    ASSUME TablesOK, NEW ids, Without(ids)
    PROVE  InvitesEvolve
<1> SUFFICES ASSUME NEW i \in Invite, invite[i] # Nil
             PROVE  Evolves(invite[i], invite'[i])
  BY DEF InvitesEvolve
<1>1. invite[i] \in InviteRow
  BY DEF TablesOK
<1>2. CASE invite'[i] = invite[i]
  BY <1>1, <1>2 DEF Evolves
<1>3. CASE invite'[i] = [invite[i] EXCEPT !.status = "deleted"]
  <2>1. [invite[i] EXCEPT !.status = "deleted"] \in InviteRow
    BY <1>1 DEF InviteRow
  <2> QED
    BY <1>1, <1>3, <2>1, TenancyRowAssumption DEF Evolves, InviteRow
<1> QED
  BY <1>2, <1>3 DEF Without

LEMMA LapseEvolves ==
    ASSUME TablesOK, NEW i \in Invite, Lapse(i)
    PROVE  InvitesEvolve
<1> DEFINE row == [invite[i] EXCEPT !.late = TRUE]
<1>1. invite[i] \in InviteRow /\ invite' = [invite EXCEPT ![i] = row]
  BY DEF Lapse, TablesOK
<1>2. row \in InviteRow
  BY <1>1 DEF InviteRow
<1>3. Evolves(invite[i], row)
  BY <1>1, <1>2, TenancyRowAssumption DEF Evolves, InviteRow
<1> HIDE DEF row
<1> QED
  BY <1>1, <1>2, <1>3, OneInviteEvolves

LEMMA RowsEvolve ==
    ASSUME CallTypeOK, TablesOK, [TenancyNext]_tenancyVars
    PROVE  InvitesEvolve /\ OrgsEvolve
<1> USE DEF tables
<1>1. ASSUME NEW r \in Request, NEW at, NEW l, Begin(r, at, l), UNCHANGED <<kind, invite>>
      PROVE  InvitesEvolve /\ OrgsEvolve
  BY <1>1, InvitesSame, OrgsSame DEF Begin
<1>2. ASSUME NEW r \in Request, NEW at, Finish(r, at), UNCHANGED <<kind, invite>>
      PROVE  InvitesEvolve /\ OrgsEvolve
  BY <1>2, InvitesSame, OrgsSame DEF Finish
<1>3. ASSUME NEW r \in Request, OrganizationCall(r) PROVE InvitesEvolve /\ OrgsEvolve
  <2>1. ASSUME NEW p \in Person, NEW o \in Org, NEW k \in OrgType, Register(r, p, o, k)
        PROVE  InvitesEvolve /\ OrgsEvolve
    BY <2>1, InvitesSame DEF Register, OrgsEvolve, TablesOK
  <2> QED
    BY <1>1, <1>3, <2>1
       DEF OrganizationCall, InviteRead, ResendRead, CancelRead, MemberRead, OpenLateLink, AcceptRead
<1>4. ASSUME NEW r \in Request, AdminCall(r) PROVE InvitesEvolve /\ OrgsEvolve
  <2>1. ASSUME NEW p \in Person, NEW enable \in BOOLEAN, UserRead(r, p, enable)
        PROVE  InvitesEvolve /\ OrgsEvolve
    BY <1>1, <2>1 DEF UserRead
  <2>2. ASSUME NEW p \in Person, NEW role \in (Role \ {"super_admin"}) \cup {Nil},
               NEW o \in Org \cup {Nil}, UpdateRead(r, p, role, o)
        PROVE  InvitesEvolve /\ OrgsEvolve
    BY <1>1, <2>2 DEF UpdateRead
  <2>3. ASSUME NEW p \in Person, DeleteRead(r, p) PROVE InvitesEvolve /\ OrgsEvolve
    BY <1>1, <2>3 DEF DeleteRead
  <2>4. ASSUME NEW ids \in SUBSET Person \ {{}}, NEW a \in {"activate", "deactivate", "delete"},
               BulkUsers(r, ids, a)
        PROVE  InvitesEvolve /\ OrgsEvolve
    <3>1. OrgsEvolve
      BY <2>4, OrgsSame DEF BulkUsers
    <3>2. InvitesEvolve
      BY <2>4, InvitesSame, WithoutEvolves DEF BulkUsers
    <3> QED
      BY <3>1, <3>2
  <2>5. ASSUME NEW o \in Org, NEW k \in OrgType, UpdateOrganization(r, o, k)
        PROVE  InvitesEvolve /\ OrgsEvolve
    <3>1. k # Nil
      BY TenancyRowAssumption DEF OrgType, Role
    <3>2. OrgsEvolve
      BY <2>5, <3>1 DEF UpdateOrganization, OrgsEvolve, TablesOK
    <3> QED
      BY <2>5, <3>2, InvitesSame DEF UpdateOrganization
  <2>6. ASSUME NEW o \in Org, CloseOrganization(r, o) \/ ReopenOrganization(r, o)
        PROVE  InvitesEvolve /\ OrgsEvolve
    BY <1>1, <2>6, InvitesSame, OrgsSame DEF CloseOrganization, ReopenOrganization
  <2> QED
    BY <1>4, <2>1, <2>2, <2>3, <2>4, <2>5, <2>6 DEF AdminCall
<1>5. ASSUME NEW r \in Request, TenantStep(r) PROVE InvitesEvolve /\ OrgsEvolve
  <2>0. CallFits(tpc[r], tloc[r]) /\ tloc[r] \in TenantLocals
    BY DEF CallTypeOK, TenantLocalsSet
  <2>1. OrgsEvolve
    BY <1>5, OrgsSame DEF TenantStep, InviteCreate, InvitePublish, ResendWrite, CancelDelete,
       AcceptExpire, AcceptTx, MemberWrite, UpdateCheck, UpdateWrite, DeleteCount, DeleteRow,
       CloseMembers, Finish, Proceed
  <2>2. CASE UNCHANGED invite
    BY <2>1, <2>2, InvitesSame
  <2>3. ASSUME NEW i \in Invite, InviteCreate(r, i) PROVE InvitesEvolve
    BY <2>3 DEF InviteCreate, InvitesEvolve, Evolves, TablesOK
  <2>4. CASE ResendWrite(r)
    <3> DEFINE i == tloc[r].inv
               row == [invite[i] EXCEPT !.token = invite[i].token + 1, !.late = FALSE]
    <3>1. i \in Invite
      BY <2>0, <2>4 DEF ResendWrite, CallFits
    <3>2. CASE Exists(i) /\ invite' = [invite EXCEPT ![i].token = @ + 1, ![i].late = FALSE]
      <4>1. invite[i] \in InviteRow
        BY <3>1, <3>2 DEF Exists, TablesOK
      <4>2. invite[i].token + 1 \in Nat
        BY <4>1 DEF InviteRow
      <4>3. /\ row \in InviteRow /\ row.email = invite[i].email /\ row.org = invite[i].org
            /\ row.role = invite[i].role /\ row.token = invite[i].token + 1
        BY <4>1, <4>2 DEF InviteRow
      <4>4. invite' = [invite EXCEPT ![i] = row]
        BY <3>1, <3>2, <4>1 DEF TablesOK, InviteRow
      <4> HIDE DEF row, i
      <4>5. row \in InviteRow /\ Evolves(invite[i], row)
        BY <4>3, TenancyRowAssumption DEF Evolves
      <4> QED
        BY <2>1, <3>1, <4>4, <4>5, OneInviteEvolves
    <3> QED
      BY <2>4, <3>2, <2>2 DEF ResendWrite
  <2>5. CASE CancelDelete(r) \/ AcceptExpire(r) \/ AcceptTx(r)
    <3> DEFINE i == tloc[r].inv
    <3>1. i \in Invite
      BY <2>0, <2>5 DEF CancelDelete, AcceptExpire, AcceptTx, Finish, CallFits
    <3>2. ASSUME NEW st \in {"accepted", "expired", "deleted"}, Exists(i),
                 invite' = [invite EXCEPT ![i].status = st]
          PROVE  InvitesEvolve
      <4> DEFINE row == [invite[i] EXCEPT !.status = st]
      <4>1. invite[i] \in InviteRow
        BY <3>1, <3>2 DEF Exists, TablesOK
      <4>2. /\ row \in InviteRow /\ row.email = invite[i].email /\ row.org = invite[i].org
            /\ row.role = invite[i].role /\ row.token = invite[i].token /\ row.late = invite[i].late
        BY <4>1 DEF InviteRow
      <4>3. invite' = [invite EXCEPT ![i] = row]
        BY <3>1, <3>2 DEF TablesOK
      <4> HIDE DEF row, i
      <4>4. row \in InviteRow /\ Evolves(invite[i], row)
        BY <4>2, TenancyRowAssumption DEF Evolves
      <4> QED
        BY <3>1, <4>3, <4>4, OneInviteEvolves
    <3> QED
      <4>1. CASE CancelDelete(r)
        BY <4>1, <2>1, <2>2, <3>2 DEF CancelDelete
      <4>2. CASE AcceptExpire(r)
        BY <4>2, <2>1, <2>2, <3>2 DEF AcceptExpire
      <4>3. CASE AcceptTx(r)
        BY <4>3, <2>1, <2>2, <3>2 DEF AcceptTx
      <4> QED
        BY <2>5, <4>1, <4>2, <4>3
  <2>6. CASE DeleteRow(r)
    BY <2>1, <2>6, WithoutEvolves DEF DeleteRow
  <2> QED
    BY <1>5, <2>1, <2>2, <2>3, <2>4, <2>5, <2>6
       DEF TenantStep, InvitePublish, MemberWrite, UpdateCheck, UpdateWrite, DeleteCount, CloseMembers
<1>6. ASSUME NEW r \in Request, Fail(r) PROVE InvitesEvolve /\ OrgsEvolve
  BY <1>2, <1>6 DEF Fail
<1>7. ASSUME NEW i \in Invite, Lapse(i) PROVE InvitesEvolve /\ OrgsEvolve
  BY <1>7, OrgsSame, LapseEvolves DEF Lapse
<1>8. CASE UNCHANGED tenancyVars
  BY <1>8, InvitesSame, OrgsSame DEF tenancyVars
<1> QED
  BY <1>3, <1>4, <1>5, <1>6, <1>7, <1>8 DEF TenancyNext

\* What was matched stays matched.
LEMMA MatchedStays ==
    ASSUME OrgsEvolve, NEW role, NEW o \in Org, Matched(role, o)
    PROVE  Matched(role, o)'
  BY DEF OrgsEvolve, Matched

\* What a waiting handler has read still holds after a step of another request.
LEMMA HoldsStays ==
    ASSUME TablesOK, InvitesEvolve, OrgsEvolve, NEW at, NEW l \in TenantLocals,
           CallFits(at, l), CallHolds(at, l)
    PROVE  CallHolds(at, l)'
<1>1. at = "inviteCreate" => Matched(l.role, l.org)'
  BY MatchedStays DEF CallHolds, CallFits
<1>2. at = "acceptTx" =>
          /\ invite'[l.inv] # Nil /\ invite'[l.inv].email = l.who
          /\ invite'[l.inv].org = l.org /\ invite'[l.inv].role = l.role
  BY DEF CallHolds, CallFits, InvitesEvolve, Evolves
<1>3. ASSUME at = "acceptExpire"
      PROVE  /\ invite'[l.inv] # Nil /\ l.token <= invite'[l.inv].token
             /\ l.token = invite'[l.inv].token => invite'[l.inv].late
  <2>1. l.inv \in Invite /\ invite[l.inv] # Nil /\ l.token <= invite[l.inv].token
        /\ (l.token = invite[l.inv].token => invite[l.inv].late)
    BY <1>3 DEF CallHolds, CallFits
  <2>2. l.token \in Nat /\ invite[l.inv].token \in Nat
    BY <2>1 DEF TenantLocals, TablesOK, InviteRow
  <2>3. Evolves(invite[l.inv], invite'[l.inv])
    BY <2>1 DEF InvitesEvolve
  <2> QED
    BY <2>1, <2>2, <2>3 DEF Evolves
<1>4. at = "updateWrite" => Matched(Target(l.role, l.seenRole), Target(l.org, l.seenOrg))'
  <2>1. at = "updateWrite" => Target(l.org, l.seenOrg) \in Org
    BY DEF CallFits, Target, TenantLocals
  <2>2. at = "updateWrite" => Matched(Target(l.role, l.seenRole), Target(l.org, l.seenOrg))
    BY DEF CallHolds
  <2>3. \A role, o : Matched(role, o) /\ o \in Org => Matched(role, o)'
    BY MatchedStays
  <2> QED
    BY <2>1, <2>2, <2>3 DEF Target
<1>5. at = "deleteRow" /\ l.seenRole = "admin" => Cardinality(l.counted) > 1
  BY DEF CallHolds
<1> QED
  BY <1>1, <1>2, <1>3, <1>4, <1>5 DEF CallHolds

\* Only the acting request has to show that what it has just read holds.
LEMMA ActorHolds ==
    ASSUME CallTypeOK, TablesOK, CallsHold, InvitesEvolve, OrgsEvolve, NEW r \in Request,
           \A q \in Request \ {r} : tpc'[q] = tpc[q] /\ tloc'[q] = tloc[q],
           CallHolds(tpc[r], tloc[r])'
    PROVE  CallsHold'
<1> SUFFICES ASSUME NEW q \in Request PROVE CallHolds(tpc[q], tloc[q])'
  BY DEF CallsHold
<1>1. CASE q = r
  BY <1>1
<1>2. CASE q # r
  <2> DEFINE at == tpc[q]
             l == tloc[q]
  <2>1. l \in TenantLocals /\ CallFits(at, l) /\ CallHolds(at, l)
    BY DEF CallTypeOK, TenantLocalsSet, CallsHold
  <2>2. \A a, x : x \in TenantLocals /\ CallFits(a, x) /\ CallHolds(a, x) => CallHolds(a, x)'
    BY HoldsStays
  <2>3. tpc'[q] = tpc[q] /\ tloc'[q] = tloc[q]
    BY <1>2
  <2> QED
    BY <2>1, <2>2, <2>3 DEF CallHolds
<1> QED
  BY <1>1, <1>2

LEMMA NobodyActs ==
    ASSUME CallTypeOK, TablesOK, CallsHold, InvitesEvolve, OrgsEvolve, UNCHANGED <<tpc, tloc>>
    PROVE  CallsHold'
<1> SUFFICES ASSUME NEW q \in Request PROVE CallHolds(tpc[q], tloc[q])'
  BY DEF CallsHold
<1>1. tloc[q] \in TenantLocals /\ CallFits(tpc[q], tloc[q]) /\ CallHolds(tpc[q], tloc[q])
  BY DEF CallTypeOK, TenantLocalsSet, CallsHold
<1>2. \A a, x : x \in TenantLocals /\ CallFits(a, x) /\ CallHolds(a, x) => CallHolds(a, x)'
  BY HoldsStays
<1> QED
  BY <1>1, <1>2 DEF CallHolds

\* The three ways a request moves.
LEMMA Began ==
    ASSUME CallTypeOK, NEW r \in Request, NEW next, NEW l, Begin(r, next, l)
    PROVE  /\ tpc'[r] = next /\ tloc'[r] = l
           /\ \A q \in Request \ {r} : tpc'[q] = tpc[q] /\ tloc'[q] = tloc[q]
  BY DEF CallTypeOK, Begin

LEMMA Finished ==
    ASSUME CallTypeOK, NEW r \in Request, NEW at, Finish(r, at)
    PROVE  /\ tpc[r] = at /\ tpc'[r] = "idle"
           /\ \A q \in Request \ {r} : tpc'[q] = tpc[q] /\ tloc'[q] = tloc[q]
  BY DEF CallTypeOK, Finish

LEMMA MovedOn ==
    ASSUME CallTypeOK, NEW r \in Request, NEW next, NEW l,
           tpc' = [tpc EXCEPT ![r] = next], tloc' = [tloc EXCEPT ![r] = l]
    PROVE  /\ tpc'[r] = next /\ tloc'[r] = l
           /\ \A q \in Request \ {r} : tpc'[q] = tpc[q] /\ tloc'[q] = tloc[q]
  BY DEF CallTypeOK

LEMMA FinishHolds ==
    ASSUME CallTypeOK, TablesOK, CallsHold, InvitesEvolve, OrgsEvolve, NEW r \in Request, NEW at,
           Finish(r, at)
    PROVE  CallsHold'
<1>1. CallHolds(tpc[r], tloc[r])'
  BY Finished DEF CallHolds
<1> QED
  BY <1>1, ActorHolds, Finished

LEMMA BeginHolds ==
    ASSUME CallTypeOK, TablesOK, CallsHold, InvitesEvolve, OrgsEvolve, NEW r \in Request,
           NEW next, NEW l \in TenantLocals, Begin(r, next, l), CallFits(next, l), CallHolds(next, l)
    PROVE  CallsHold'
<1>1. \A a, x : x \in TenantLocals /\ CallFits(a, x) /\ CallHolds(a, x) => CallHolds(a, x)'
  BY HoldsStays
<1>2. tpc'[r] = next /\ tloc'[r] = l
  BY Began
<1>3. CallHolds(tpc[r], tloc[r])'
  BY <1>1, <1>2 DEF CallHolds
<1> QED
  BY <1>3, ActorHolds, Began

\* What a call checks when it begins is what its next statement relies on.
LEMMA BeginningsHold ==
    ASSUME TenancyFacts, InvitesEvolve, OrgsEvolve, NEW r \in Request,
           OrganizationCall(r) \/ AdminCall(r)
    PROVE  CallsHold'
<1> USE DEF TenancyFacts
<1>1. ASSUME NEW by \in Person, NEW p \in Person, NEW o \in Org, NEW role \in Role,
             InviteRead(r, by, o, p, role)
      PROVE  CallsHold'
  <2> DEFINE l == [NoTenant EXCEPT !.by = by, !.org = o, !.who = p, !.role = role]
  <2>1. l.role = role /\ l.org = o
    BY DEF NoTenant
  <2>2. Matched(role, o)
    BY <1>1 DEF InviteRead, Matched
  <2>3. tpc'[r] = "inviteCreate" /\ tloc'[r] = l
    BY <1>1, Began DEF InviteRead
  <2>4. Matched(role, o)'
    BY <2>2, MatchedStays
  <2> HIDE DEF l
  <2>5. CallHolds(tpc[r], tloc[r])'
    BY <2>1, <2>3, <2>4 DEF CallHolds, Matched
  <2> QED
    BY <1>1, <2>5, ActorHolds, Began DEF InviteRead
<1>2. ASSUME NEW next, NEW l, Begin(r, next, l),
             next \in {"resendWrite", "cancelDelete", "memberWrite", "updateCheck", "deleteCount",
                       "closeMembers"}
      PROVE  CallsHold'
  <2>1. CallHolds(tpc[r], tloc[r])'
    BY <1>2, Began DEF CallHolds
  <2> QED
    BY <1>2, <2>1, ActorHolds, Began
<1>3. ASSUME NEW by \in Person, NEW i \in Invite, ResendRead(r, by, i) \/ CancelRead(r, by, i)
      PROVE  CallsHold'
  BY <1>2, <1>3 DEF ResendRead, CancelRead
<1>4. ASSUME NEW by \in Person, NEW p \in Person, NEW enable \in BOOLEAN,
             MemberRead(r, by, p, enable) \/ UserRead(r, p, enable)
      PROVE  CallsHold'
  BY <1>2, <1>4 DEF MemberRead, UserRead
<1>5. ASSUME NEW i \in Invite, NEW t \in Nat, OpenLateLink(r, i, t) PROVE CallsHold'
  <2> DEFINE l == [NoTenant EXCEPT !.inv = i, !.token = t]
  <2>1. l.inv = i /\ l.token = t /\ l \in TenantLocals /\ CallFits("acceptExpire", l)
    BY DEF NoTenant, TenantLocals, CallFits
  <2> HIDE DEF l
  <2>2. CallHolds("acceptExpire", l)
    BY <1>5, <2>1 DEF OpenLateLink, Exists, CallHolds
  <2> QED
    BY <1>5, <2>1, <2>2, BeginHolds DEF OpenLateLink, l
<1>6. ASSUME NEW i \in Invite, NEW t \in Nat, AcceptRead(r, i, t) PROVE CallsHold'
  <2> DEFINE l == [NoTenant EXCEPT !.inv = i, !.token = t, !.who = invite[i].email,
                                            !.org = invite[i].org, !.role = invite[i].role]
  <2>1. /\ l.inv = i /\ l.who = invite[i].email /\ l.org = invite[i].org
        /\ l.role = invite[i].role
    BY DEF NoTenant
  <2>2. invite[i] # Nil /\ tpc'[r] = "acceptTx" /\ tloc'[r] = l
    BY <1>6, Began DEF AcceptRead, Exists
  <2> HIDE DEF l
  <2>3. Evolves(invite[i], invite'[i])
    BY <2>2 DEF InvitesEvolve
  <2>4. CallHolds(tpc[r], tloc[r])'
    BY <2>1, <2>2, <2>3 DEF CallHolds, Evolves
  <2> QED
    BY <1>6, <2>4, ActorHolds, Began DEF AcceptRead
<1>7. ASSUME NEW p \in Person, NEW role, NEW o, UpdateRead(r, p, role, o) PROVE CallsHold'
  BY <1>2, <1>7 DEF UpdateRead
<1>8. ASSUME NEW p \in Person, DeleteRead(r, p) PROVE CallsHold'
  <2> DEFINE l == [NoTenant EXCEPT !.who = p, !.seenRole = user[p].role, !.seenOrg = user[p].org]
  <2>1. CASE user[p].role = "admin"
    BY <1>2, <1>8, <2>1 DEF DeleteRead
  <2>2. CASE user[p].role # "admin"
    <3>1. l.seenRole = user[p].role
      BY DEF NoTenant
    <3>2. tpc'[r] = "deleteRow" /\ tloc'[r] = l
      BY <1>8, <2>2, Began DEF DeleteRead
    <3> HIDE DEF l
    <3>3. CallHolds(tpc[r], tloc[r])'
      BY <2>2, <3>1, <3>2 DEF CallHolds
    <3> QED
      BY <1>8, <3>3, ActorHolds, Began DEF DeleteRead
  <2> QED
    BY <2>1, <2>2
<1>9. ASSUME NEW o \in Org, CloseOrganization(r, o) PROVE CallsHold'
  BY <1>2, <1>9 DEF CloseOrganization
<1>10. CASE UNCHANGED <<tpc, tloc>>
  BY <1>10, NobodyActs
<1>11. \A link \in mailed : link[1] \in Invite /\ link[2] \in Nat
  BY DEF TablesOK, Link
<1>12. CASE OrganizationCall(r)
  BY <1>1, <1>3, <1>4, <1>5, <1>6, <1>10, <1>11, <1>12 DEF OrganizationCall, Register
<1>13. CASE AdminCall(r)
  BY <1>4, <1>7, <1>8, <1>9, <1>10, <1>13, TenancyAssumption
     DEF AdminCall, BulkUsers, UpdateOrganization, ReopenOrganization
<1> QED
  BY <1>12, <1>13

\* What a statement checks is what the next one relies on.
LEMMA StepsHold ==
    ASSUME TenancyFacts, InvitesEvolve, OrgsEvolve, NEW r \in Request, TenantStep(r)
    PROVE  CallsHold'
<1> USE DEF TenancyFacts
<1>1. ASSUME NEW next, NEW l, tpc' = [tpc EXCEPT ![r] = next], tloc' = [tloc EXCEPT ![r] = l],
             next = "invitePublish"
      PROVE  CallsHold'
  <2>1. tpc'[r] = next
    BY <1>1, MovedOn
  <2>2. CallHolds(tpc[r], tloc[r])'
    BY <1>1, <2>1 DEF CallHolds
  <2> QED
    BY <1>1, <2>2, ActorHolds, MovedOn
<1>2. ASSUME NEW i \in Invite, InviteCreate(r, i) PROVE CallsHold'
  BY <1>1, <1>2, FinishHolds DEF InviteCreate
<1>3. CASE ResendWrite(r)
  <2>1. \A t : [tloc EXCEPT ![r].token = t] = [tloc EXCEPT ![r] = [tloc[r] EXCEPT !.token = t]]
    BY DEF CallTypeOK
  <2> QED
    BY <1>1, <1>3, <2>1, FinishHolds DEF ResendWrite
<1>4. CASE UpdateCheck(r)
  <2>1. CASE Finish(r, "updateCheck")
    BY <2>1, FinishHolds
  <2>2. CASE /\ kind[Target(tloc[r].org, tloc[r].seenOrg)] # Nil
             /\ Fits(Target(tloc[r].role, tloc[r].seenRole), Target(tloc[r].org, tloc[r].seenOrg))
             /\ Proceed(r, "updateCheck", "updateWrite")
    <3> DEFINE l == tloc[r]
    <3>1. tpc[r] = "updateCheck" /\ tpc'[r] = "updateWrite" /\ tloc'[r] = l
          /\ \A q \in Request \ {r} : tpc'[q] = tpc[q] /\ tloc'[q] = tloc[q]
      BY <2>2 DEF Proceed, CallTypeOK
    <3>2. l \in TenantLocals /\ CallFits("updateWrite", l) /\ CallHolds("updateWrite", l)
      BY <2>2, <3>1 DEF CallTypeOK, TenantLocalsSet, CallFits, CallHolds, Fits, Matched
    <3>3. \A a, x : x \in TenantLocals /\ CallFits(a, x) /\ CallHolds(a, x) => CallHolds(a, x)'
      BY HoldsStays
    <3>4. CallHolds(tpc[r], tloc[r])'
      BY <3>1, <3>2, <3>3 DEF CallHolds
    <3> QED
      BY <3>1, <3>4, ActorHolds
  <2> QED
    BY <1>4, <2>1, <2>2 DEF UpdateCheck
<1>5. CASE DeleteCount(r)
  <2>1. CASE Finish(r, "deleteCount")
    BY <2>1, FinishHolds
  <2>2. CASE /\ Cardinality(Admins(tloc[r].seenOrg)) > 1
             /\ tpc' = [tpc EXCEPT ![r] = "deleteRow"]
             /\ tloc' = [tloc EXCEPT ![r].counted = Admins(tloc[r].seenOrg)]
    <3> DEFINE l == [tloc[r] EXCEPT !.counted = Admins(tloc[r].seenOrg)]
    <3>1. l.counted = Admins(tloc[r].seenOrg) /\ tloc' = [tloc EXCEPT ![r] = l]
      BY <2>2 DEF CallTypeOK, TenantLocals
    <3> HIDE DEF l
    <3>2. tpc'[r] = "deleteRow" /\ tloc'[r] = l
          /\ \A q \in Request \ {r} : tpc'[q] = tpc[q] /\ tloc'[q] = tloc[q]
      BY <2>2, <3>1 DEF CallTypeOK
    <3>3. CallHolds(tpc[r], tloc[r])'
      BY <2>2, <3>1, <3>2 DEF CallHolds
    <3> QED
      BY <3>2, <3>3, ActorHolds
  <2> QED
    BY <1>5, <2>1, <2>2 DEF DeleteCount
<1>6. CASE \/ InvitePublish(r) \/ CancelDelete(r) \/ AcceptExpire(r) \/ AcceptTx(r) \/ MemberWrite(r)
           \/ UpdateWrite(r) \/ DeleteRow(r) \/ CloseMembers(r)
  BY <1>6, FinishHolds DEF InvitePublish, CancelDelete, AcceptExpire, AcceptTx, MemberWrite,
     UpdateWrite, DeleteRow, CloseMembers
<1> QED
  BY <1>2, <1>3, <1>4, <1>5, <1>6 DEF TenantStep

\* Every invitation was written for a role that fitted its organization.
LEMMA InvitesStayMatched ==
    ASSUME TenancyFacts, InvitesEvolve, OrgsEvolve,
           \A i \in Invite : invite[i] = Nil /\ invite'[i] # Nil =>
               Matched(invite'[i].role, invite'[i].org)
               /\ invite'[i].org \in Org
    PROVE  InvitesMatch'
<1> SUFFICES ASSUME NEW i \in Invite, invite'[i] # Nil
             PROVE  Matched(invite[i].role, invite[i].org)'
  BY DEF InvitesMatch
<1>1. \A role, o : o \in Org /\ Matched(role, o) => Matched(role, o)'
  BY MatchedStays
<1>2. CASE invite[i] # Nil
  <2>1. invite[i].org \in Org /\ Matched(invite[i].role, invite[i].org)
    BY <1>2 DEF TenancyFacts, TablesOK, InviteRow, InvitesMatch
  <2>2. invite'[i].role = invite[i].role /\ invite'[i].org = invite[i].org
    BY <1>2 DEF InvitesEvolve, Evolves
  <2> QED
    BY <1>1, <2>1, <2>2 DEF Matched
<1>3. CASE invite[i] = Nil
  BY <1>1, <1>3 DEF Matched
<1> QED
  BY <1>2, <1>3

LEMMA NewInvitesMatch ==
    ASSUME TenancyFacts, [TenancyNext]_tenancyVars,
           NEW i \in Invite, invite[i] = Nil, invite'[i] # Nil
    PROVE  Matched(invite'[i].role, invite'[i].org) /\ invite'[i].org \in Org
<1> USE DEF TenancyFacts
<1>1. ASSUME NEW ids, Without(ids) PROVE FALSE
  BY <1>1 DEF Without, Exists
<1>2. ASSUME NEW r \in Request, OrganizationCall(r) PROVE FALSE
  BY <1>2 DEF OrganizationCall, InviteRead, ResendRead, CancelRead, MemberRead, OpenLateLink,
              AcceptRead, Register, tables
<1>3. ASSUME NEW r \in Request, AdminCall(r) PROVE FALSE
  BY <1>1, <1>3 DEF AdminCall, UserRead, UpdateRead, DeleteRead, BulkUsers, UpdateOrganization,
              CloseOrganization, ReopenOrganization, tables
<1>4. ASSUME NEW r \in Request, NEW j \in Invite, InviteCreate(r, j)
      PROVE  Matched(invite'[i].role, invite'[i].org) /\ invite'[i].org \in Org
  <2>1. /\ tpc[r] = "inviteCreate" /\ j = i
        /\ invite'[i] = [org |-> tloc[r].org, email |-> tloc[r].who, role |-> tloc[r].role,
                         by |-> tloc[r].by, token |-> 1, late |-> FALSE, status |-> "pending"]
    BY <1>4 DEF InviteCreate, TablesOK
  <2>2. CallHolds(tpc[r], tloc[r]) /\ CallFits(tpc[r], tloc[r])
    BY DEF CallsHold, CallTypeOK, TenantLocalsSet
  <2> QED
    BY <2>1, <2>2 DEF CallHolds, CallFits
<1>5. ASSUME NEW r \in Request,
             ResendWrite(r) \/ CancelDelete(r) \/ AcceptExpire(r) \/ AcceptTx(r)
      PROVE  FALSE
  BY <1>5 DEF ResendWrite, CancelDelete, AcceptExpire, AcceptTx, Exists, TablesOK
<1>6. ASSUME NEW r \in Request, DeleteRow(r) PROVE FALSE
  BY <1>1, <1>6 DEF DeleteRow
<1>7. ASSUME NEW r \in Request, TenantStep(r)
      PROVE  Matched(invite'[i].role, invite'[i].org) /\ invite'[i].org \in Org
  BY <1>4, <1>5, <1>6, <1>7
     DEF TenantStep, InvitePublish, MemberWrite, UpdateCheck, UpdateWrite, DeleteCount, CloseMembers, tables
<1>8. ASSUME NEW j \in Invite, Lapse(j) PROVE FALSE
  BY <1>8 DEF Lapse, TablesOK
<1> QED
  BY <1>2, <1>3, <1>7, <1>8 DEF TenancyNext, Fail, tenancyVars, tables

LEMMA TenancyInvariant == TenancySpec => []TenancyFacts
<1>1. TenancyInit => CallsHold /\ InvitesMatch
  <2> SUFFICES ASSUME TenancyInit PROVE CallsHold /\ InvitesMatch
    OBVIOUS
  <2>1. CallsHold
    BY DEF TenancyInit, CallsHold, CallHolds
  <2>2. kind[HomeOrg] = "shipper" /\ kind[HomeOrg] # Nil
    BY TenancyAssumption, TenancyRowAssumption DEF TenancyInit, Role, OrgType
  <2>3. \A i \in Invite : invite[i] # Nil =>
           invite[i].org = HomeOrg /\ invite[i].role \in {"admin", "shipper"}
    BY DEF TenancyInit
  <2> QED
    BY <2>1, <2>2, <2>3 DEF InvitesMatch, Matched
<1>2. CallTypeOK /\ TablesOK /\ CallsHold /\ InvitesMatch /\ [TenancyNext]_tenancyVars
      => CallsHold' /\ InvitesMatch'
  <2> SUFFICES ASSUME TenancyFacts, [TenancyNext]_tenancyVars PROVE CallsHold' /\ InvitesMatch'
    BY DEF TenancyFacts
  <2>1. InvitesEvolve /\ OrgsEvolve
    BY RowsEvolve DEF TenancyFacts
  <2>2. InvitesMatch'
    BY <2>1, InvitesStayMatched, NewInvitesMatch
  <2>3. CallsHold'
    <3>1. ASSUME NEW r \in Request, Fail(r) PROVE CallsHold'
      BY <2>1, <3>1, FinishHolds DEF Fail, TenancyFacts
    <3>2. CASE UNCHANGED <<tpc, tloc>>
      BY <2>1, <3>2, NobodyActs DEF TenancyFacts
    <3> QED
      BY <2>1, <3>1, <3>2, BeginningsHold, StepsHold DEF TenancyNext, Lapse, tenancyVars
  <2> QED
    BY <2>2, <2>3
<1> QED
  BY <1>1, <1>2, TenancyTypes, PTL DEF TenancySpec, TenancyFacts

\* Nobody joins an organization that exists but through an invitation that is in
\* the table at that moment with his address, role and organization.
THEOREM OnlyTheInvitedJoin == TenancySpec => MembersWereInvited
<1> DEFINE Joins(p) ==
             \/ kind[user'[p].org] = Nil /\ user'[p].role = "admin"
             \/ \E i \in Invite :
                   /\ Exists(i) /\ invite[i].email = p /\ invite'[i].status = "accepted"
                   /\ invite[i].org = user'[p].org /\ invite[i].role = user'[p].role
<1>1. TenancyFacts /\ [TenancyNext]_tenancyVars
      => \A p \in Person : user[p] = Nil /\ user'[p] # Nil => Joins(p)
  <2> SUFFICES ASSUME TenancyFacts, [TenancyNext]_tenancyVars,
                      NEW p \in Person, user[p] = Nil, user'[p] # Nil
               PROVE  Joins(p)
    OBVIOUS
  <2> USE DEF TenancyFacts
  <2>1. ASSUME NEW r \in Request, AcceptTx(r) PROVE Joins(p)
    <3> DEFINE l == tloc[r]
    <3>1. tpc[r] = "acceptTx" /\ CallHolds(tpc[r], l) /\ CallFits(tpc[r], l)
      BY <2>1 DEF AcceptTx, Finish, CallsHold, CallTypeOK, TenantLocalsSet
    <3>2. /\ l.inv \in Invite /\ invite[l.inv].email = l.who
          /\ invite[l.inv].org = l.org /\ invite[l.inv].role = l.role
      BY <3>1 DEF CallHolds, CallFits
    <3>3. /\ Exists(l.inv) /\ p = l.who
          /\ user'[p] = [role |-> l.role, org |-> l.org, active |-> TRUE]
          /\ invite' = [invite EXCEPT ![l.inv].status = "accepted"]
      BY <2>1 DEF AcceptTx, TablesOK
    <3>4. invite[l.inv] \in InviteRow
      BY <3>2, <3>3 DEF Exists, TablesOK
    <3>5. invite'[l.inv].status = "accepted"
      BY <3>2, <3>3, <3>4 DEF TablesOK, InviteRow
    <3> QED
      BY <3>2, <3>3, <3>5
  <2>2. ASSUME NEW r \in Request, NEW q \in Person, NEW o \in Org, NEW k \in OrgType, Register(r, q, o, k)
        PROVE  Joins(p)
    BY <2>2 DEF Register, TablesOK
  <2>3. ASSUME NEW ids, Without(ids) PROVE FALSE
    BY <2>3 DEF Without
  <2>4. ASSUME NEW r \in Request, MemberWrite(r) \/ UpdateWrite(r) \/ CloseMembers(r) PROVE FALSE
    BY <2>4 DEF MemberWrite, UpdateWrite, CloseMembers, TablesOK
  <2>5. ASSUME NEW r \in Request, DeleteRow(r) PROVE FALSE
    BY <2>3, <2>5 DEF DeleteRow
  <2>6. ASSUME NEW r \in Request, AdminCall(r) PROVE FALSE
    BY <2>3, <2>6 DEF AdminCall, UserRead, UpdateRead, DeleteRead, BulkUsers, UpdateOrganization,
              CloseOrganization, ReopenOrganization, tables
  <2>7. ASSUME NEW r \in Request, OrganizationCall(r) PROVE Joins(p)
    BY <2>2, <2>7 DEF OrganizationCall, InviteRead, ResendRead, CancelRead, MemberRead, OpenLateLink,
              AcceptRead, tables
  <2>8. ASSUME NEW r \in Request, TenantStep(r) PROVE Joins(p)
    BY <2>1, <2>4, <2>5, <2>8 DEF TenantStep, InviteCreate, InvitePublish, ResendWrite, CancelDelete,
       AcceptExpire, UpdateCheck, DeleteCount, tables
  <2> QED
    BY <2>6, <2>7, <2>8 DEF TenancyNext, Fail, Lapse, tenancyVars, tables
<1> QED
  BY <1>1, TenancyInvariant, PTL DEF TenancySpec, MembersWereInvited

\* Only a late invitation expires, or one that was sent again since its old link was
\* found to be late.
THEOREM OnlyLateLinksExpire == TenancySpec => ExpiryHitsOnlyLateLinks
<1> DEFINE Deserved(i) ==
             \/ invite[i].late
             \/ \E r \in Request : /\ Ends(r, "acceptExpire") /\ tloc[r].inv = i
                                   /\ tloc[r].token # invite[i].token
<1>1. TenancyFacts /\ [TenancyNext]_tenancyVars
      => \A i \in Invite :
            invite[i] # Nil /\ invite[i].status # "expired" /\ invite'[i].status = "expired"
            => Deserved(i)
  <2> SUFFICES ASSUME TenancyFacts, [TenancyNext]_tenancyVars, NEW i \in Invite, invite[i] # Nil,
                      invite[i].status # "expired", invite'[i].status = "expired"
               PROVE  Deserved(i)
    OBVIOUS
  <2> USE DEF TenancyFacts
  <2>0. invite[i] \in InviteRow
    BY DEF TablesOK
  <2>1. ASSUME NEW r \in Request, AcceptExpire(r) PROVE Deserved(i)
    <3>1. tpc[r] = "acceptExpire" /\ CallHolds(tpc[r], tloc[r]) /\ CallFits(tpc[r], tloc[r])
      BY <2>1 DEF AcceptExpire, Finish, CallsHold, CallTypeOK, TenantLocalsSet
    <3>2. tloc[r].inv = i
      BY <2>1, <3>1 DEF AcceptExpire, TablesOK, CallFits
    <3>3. tloc[r].token = invite[i].token => invite[i].late
      BY <3>1, <3>2, RowsEvolve DEF CallHolds
    <3>4. Ends(r, "acceptExpire")
      BY <2>1, <3>1, Finished DEF AcceptExpire, Ends
    <3> QED
      BY <3>2, <3>3, <3>4
  <2>2. ASSUME NEW ids, Without(ids) PROVE FALSE
    <3>1. invite'[i] = invite[i] \/ invite'[i] = [invite[i] EXCEPT !.status = "deleted"]
      BY <2>2 DEF Without
    <3> QED
      BY <2>0, <3>1 DEF InviteRow
  <2>3. ASSUME NEW j \in Invite, NEW st, st # "expired",
               invite' = [invite EXCEPT ![j].status = st]
        PROVE  FALSE
    BY <2>0, <2>3 DEF TablesOK, InviteRow
  <2>4. ASSUME NEW r \in Request, CancelDelete(r) \/ AcceptTx(r) PROVE FALSE
    BY <2>3, <2>4 DEF CancelDelete, AcceptTx, Exists, TablesOK
  <2>5. ASSUME NEW r \in Request, ResendWrite(r) PROVE FALSE
    BY <2>0, <2>5 DEF ResendWrite, TablesOK, InviteRow
  <2>6. ASSUME NEW r \in Request, NEW j \in Invite, InviteCreate(r, j) PROVE FALSE
    BY <2>6 DEF InviteCreate, TablesOK
  <2>7. ASSUME NEW r \in Request, DeleteRow(r) PROVE FALSE
    BY <2>2, <2>7 DEF DeleteRow
  <2>8. ASSUME NEW r \in Request, OrganizationCall(r) PROVE FALSE
    BY <2>8 DEF OrganizationCall, InviteRead, ResendRead, CancelRead, MemberRead, OpenLateLink,
              AcceptRead, Register, tables
  <2>9. ASSUME NEW r \in Request, AdminCall(r) PROVE FALSE
    BY <2>2, <2>9 DEF AdminCall, UserRead, UpdateRead, DeleteRead, BulkUsers, UpdateOrganization,
              CloseOrganization, ReopenOrganization, tables
  <2>10. ASSUME NEW r \in Request, TenantStep(r) PROVE Deserved(i)
    BY <2>1, <2>4, <2>5, <2>6, <2>7, <2>10 DEF TenantStep, InvitePublish, MemberWrite, UpdateCheck,
       UpdateWrite, DeleteCount, CloseMembers, tables
  <2>11. ASSUME NEW j \in Invite, Lapse(j) PROVE FALSE
    BY <2>0, <2>11 DEF Lapse, TablesOK, InviteRow
  <2> QED
    BY <2>8, <2>9, <2>10, <2>11 DEF TenancyNext, Fail, tenancyVars, tables
<1> QED
  BY <1>1, TenancyInvariant, PTL DEF TenancySpec, ExpiryHitsOnlyLateLinks

\* A deletion that leaves an organization without administrators counted another
\* one when it looked, or was not of an administrator of that organization.
THEOREM OrphansComeFromRaces == TenancySpec => OrphansNeedARace
<1> DEFINE Raced(o) ==
             \/ tpc' = tpc /\ tcalls' # tcalls
             \/ \E r \in Request : Ends(r, "updateWrite")
             \/ \E r \in Request :
                   /\ Ends(r, "deleteRow")
                   /\ \/ tloc[r].seenRole # "admin" \/ tloc[r].seenOrg # o
                      \/ tloc[r].counted \ {tloc[r].who} # {}
<1>1. TenancyFacts /\ [TenancyNext]_tenancyVars
      => \A o \in Org : Admins(o) # {} /\ Admins(o)' = {} => Raced(o)
  <2> SUFFICES ASSUME TenancyFacts, [TenancyNext]_tenancyVars,
                      NEW o \in Org, Admins(o) # {}, Admins(o)' = {}
               PROVE  Raced(o)
    OBVIOUS
  <2> USE DEF TenancyFacts
  <2>1. PICK p \in Person : user[p] # Nil /\ user[p].role = "admin" /\ user[p].org = o
    BY DEF Admins
  <2>2. ~ (user'[p] # Nil /\ user'[p].role = "admin" /\ user'[p].org = o)
    BY DEF Admins
  <2>3. user[p] \in UserRow
    BY <2>1 DEF TablesOK
  <2>4. \A e \in BOOLEAN : /\ [user[p] EXCEPT !.active = e] # Nil
                           /\ [user[p] EXCEPT !.active = e].role = "admin"
                           /\ [user[p] EXCEPT !.active = e].org = o
    BY <2>1, <2>3, TenancyRowAssumption DEF UserRow
  <2>5. ASSUME NEW r \in Request, UpdateWrite(r) PROVE Raced(o)
    BY <2>5, Finished DEF UpdateWrite, Ends
  <2>6. ASSUME NEW r \in Request, DeleteRow(r) PROVE Raced(o)
    <3>1. tpc[r] = "deleteRow" /\ Ends(r, "deleteRow") /\ CallHolds(tpc[r], tloc[r])
      BY <2>6, Finished DEF DeleteRow, Ends, CallsHold
    <3>2. tloc[r].seenRole = "admin" => Cardinality(tloc[r].counted) > 1
      BY <3>1 DEF CallHolds
    <3>3. Cardinality({tloc[r].who}) = 1 /\ Cardinality({}) = 0
      BY FS_EmptySet, FS_Singleton
    <3>4. tloc[r].counted \ {tloc[r].who} = {}
          => tloc[r].counted = {} \/ tloc[r].counted = {tloc[r].who}
      OBVIOUS
    <3>5. tloc[r].seenRole = "admin" => tloc[r].counted \ {tloc[r].who} # {}
      <4>1. CASE tloc[r].counted = {}
        BY <3>2, <3>3, <4>1
      <4>2. CASE tloc[r].counted = {tloc[r].who}
        BY <3>2, <3>3, <4>2
      <4> QED
        BY <3>4, <4>1, <4>2
    <3> QED
      BY <3>1, <3>5
  <2>7. ASSUME NEW r \in Request, MemberWrite(r) \/ CloseMembers(r) PROVE FALSE
    <3>1. CASE MemberWrite(r)
      <4>1. tloc[r].enable \in BOOLEAN /\ tloc[r].who \in Person
        BY <3>1 DEF MemberWrite, Finish, CallTypeOK, TenantLocals, TenantLocalsSet, CallFits
      <4>2. user'[p] = user[p] \/ user'[p] = [user[p] EXCEPT !.active = tloc[r].enable]
        BY <3>1, <4>1 DEF MemberWrite, TablesOK
      <4> QED
        BY <2>1, <2>2, <2>4, <4>1, <4>2
    <3>2. CASE CloseMembers(r)
      <4>1. user'[p] = user[p] \/ user'[p] = [user[p] EXCEPT !.active = FALSE]
        BY <3>2 DEF CloseMembers
      <4> QED
        BY <2>1, <2>2, <2>4, <4>1
    <3> QED
      BY <2>7, <3>1, <3>2
  <2>8. ASSUME NEW r \in Request, AcceptTx(r) PROVE FALSE
    BY <2>1, <2>2, <2>8 DEF AcceptTx, TablesOK
  <2>9. ASSUME NEW r \in Request, NEW ids, NEW a, BulkUsers(r, ids, a) PROVE Raced(o)
    BY <2>9 DEF BulkUsers, Count, CallTypeOK
  <2>10. ASSUME NEW r \in Request, NEW q \in Person, NEW oo \in Org, NEW k \in OrgType,
                Register(r, q, oo, k)
         PROVE  FALSE
    BY <2>1, <2>2, <2>10 DEF Register, TablesOK
  <2>11. CASE UNCHANGED user
    BY <2>1, <2>2, <2>11
  <2>12. ASSUME NEW r \in Request, AdminCall(r) PROVE Raced(o)
    BY <2>9, <2>11, <2>12 DEF AdminCall, UserRead, UpdateRead, DeleteRead, UpdateOrganization,
              CloseOrganization, ReopenOrganization, tables
  <2>13. ASSUME NEW r \in Request, OrganizationCall(r) PROVE Raced(o)
    BY <2>10, <2>11, <2>13 DEF OrganizationCall, InviteRead, ResendRead, CancelRead, MemberRead,
              OpenLateLink, AcceptRead, tables
  <2>14. ASSUME NEW r \in Request, TenantStep(r) PROVE Raced(o)
    BY <2>5, <2>6, <2>7, <2>8, <2>11, <2>14 DEF TenantStep, InviteCreate, InvitePublish, ResendWrite,
       CancelDelete, AcceptExpire, UpdateCheck, DeleteCount, tables
  <2> QED
    BY <2>11, <2>12, <2>13, <2>14 DEF TenancyNext, Fail, Lapse, tenancyVars, tables
<1> QED
  BY <1>1, TenancyInvariant, PTL DEF TenancySpec, OrphansNeedARace

\* A user who does not fit his organization was written from an old row, or the
\* type of the organization was changed.
THEOREM MisfitsComeFromRaces == TenancySpec => MisfitNeedsARace
<1> DEFINE Raced(p)  == user'[p].org \in retyped' \/ DecidedFromOldRow(p)
           Same(p)   == /\ user[p] # Nil /\ user'[p].role = user[p].role
                        /\ user'[p].org = user[p].org
           Placed(p) == /\ kind' = kind /\ retyped' = retyped
                        /\ Matched(user'[p].role, user'[p].org)
<1>1. TenancyFacts /\ [TenancyNext]_tenancyVars => \A p \in Person : p \in Misfits' \ Misfits => Raced(p)
  <2> SUFFICES ASSUME TenancyFacts, [TenancyNext]_tenancyVars, NEW p \in Person,
                      user'[p] # Nil, ~ Fits(user[p].role, user[p].org)',
                      user[p] = Nil \/ Fits(user[p].role, user[p].org)
               PROVE  Raced(p)
    BY DEF Misfits
  <2> USE DEF TenancyFacts
  <2>1. CASE Same(p)
    <3> DEFINE o    == user[p].org
               role == user[p].role
    <3>1. o \in Org /\ role \in Role
      BY <2>1 DEF TablesOK, UserRow
    <3>2. kind[o] # Nil => kind'[o] = kind[o] \/ o \in retyped'
      BY <3>1, RowsEvolve DEF OrgsEvolve
    <3>3. role # Nil
      BY <3>1, TenancyRowAssumption
    <3>4. role \in {"admin", "super_admin", kind[o]} /\ role \notin {"admin", "super_admin", kind'[o]}
      BY <2>1 DEF Fits
    <3> QED
      BY <2>1, <3>2, <3>3, <3>4
  <2>2. CASE Placed(p)
    BY <2>2 DEF Matched, Fits
  <2>3. ASSUME NEW r \in Request, AcceptTx(r) PROVE Raced(p)
    <3> DEFINE l == tloc[r]
    <3>1. CASE user'[p] = user[p]
      BY <2>1, <3>1
    <3>2. CASE user'[p] # user[p]
      <4>1. tpc[r] = "acceptTx" /\ CallHolds(tpc[r], l) /\ CallFits(tpc[r], l)
        BY <2>3 DEF AcceptTx, Finish, CallsHold, CallTypeOK, TenantLocalsSet
      <4>2. /\ l.inv \in Invite /\ invite[l.inv] # Nil
            /\ invite[l.inv].org = l.org /\ invite[l.inv].role = l.role
        BY <4>1 DEF CallHolds, CallFits
      <4>3. /\ p = l.who /\ user'[p] = [role |-> l.role, org |-> l.org, active |-> TRUE]
            /\ kind' = kind /\ retyped' = retyped
        BY <2>3, <3>2 DEF AcceptTx, Finish, TablesOK
      <4>4. Matched(l.role, l.org)
        BY <4>2 DEF InvitesMatch
      <4>5. user'[p].role = l.role /\ user'[p].org = l.org
        BY <4>3
      <4> QED
        BY <2>2, <4>3, <4>4, <4>5
    <3> QED
      BY <3>1, <3>2
  <2>4. ASSUME NEW r \in Request, UpdateWrite(r) PROVE Raced(p)
    <3> DEFINE l == tloc[r]
    <3>1. CASE user'[p] = user[p]
      BY <2>1, <3>1
    <3>2. CASE user'[p] # user[p]
      <4>1. tpc[r] = "updateWrite" /\ CallHolds(tpc[r], l)
        BY <2>4 DEF UpdateWrite, Finish, CallsHold
      <4>2. Matched(Target(l.role, l.seenRole), Target(l.org, l.seenOrg))
        BY <4>1 DEF CallHolds
      <4>3. /\ p = l.who /\ user[p] # Nil /\ kind' = kind /\ retyped' = retyped
            /\ user'[p].role = Target(l.role, user[p].role)
            /\ user'[p].org = Target(l.org, user[p].org)
        BY <2>4, <3>2 DEF UpdateWrite, Finish, TablesOK, UserRow
      <4>4. CASE l.seenRole = user[p].role /\ l.seenOrg = user[p].org
        BY <2>2, <4>2, <4>3, <4>4
      <4>5. CASE l.seenRole # user[p].role \/ l.seenOrg # user[p].org
        BY <4>1, <4>3, <4>5 DEF DecidedFromOldRow
      <4> QED
        BY <4>4, <4>5
    <3> QED
      BY <3>1, <3>2
  <2>5. ASSUME NEW ids, Without(ids) PROVE Raced(p)
    BY <2>1, <2>5 DEF Without
  <2>6. ASSUME NEW e \in BOOLEAN, user[p] # Nil, user'[p] = [user[p] EXCEPT !.active = e]
        PROVE  Raced(p)
    <3>1. Same(p)
      BY <2>6 DEF TablesOK, UserRow
    <3> QED
      BY <2>1, <3>1
  <2>7. CASE user'[p] = user[p]
    BY <2>1, <2>7
  <2>8. ASSUME NEW r \in Request, MemberWrite(r) PROVE Raced(p)
    <3>1. tloc[r].enable \in BOOLEAN
      BY DEF CallTypeOK, TenantLocals
    <3>2. user'[p] = user[p] \/ (user[p] # Nil /\ user'[p] = [user[p] EXCEPT !.active = tloc[r].enable])
      BY <2>8 DEF MemberWrite, TablesOK
    <3> QED
      BY <2>6, <2>7, <3>1, <3>2
  <2>9. ASSUME NEW r \in Request, CloseMembers(r) PROVE Raced(p)
    BY <2>6, <2>7, <2>9 DEF CloseMembers
  <2>10. ASSUME NEW r \in Request, NEW ids, NEW a, BulkUsers(r, ids, a) PROVE Raced(p)
    <3>1. CASE Without(ids)
      BY <2>5, <3>1
    <3>2. CASE user' = [q \in Person |-> IF q \in ids /\ user[q] # Nil
                                         THEN [user[q] EXCEPT !.active = (a = "activate")] ELSE user[q]]
      BY <2>6, <2>7, <3>2
    <3> QED
      BY <2>10, <3>1, <3>2 DEF BulkUsers
  <2>11. ASSUME NEW r \in Request, NEW q \in Person, NEW o \in Org, NEW k \in OrgType,
                Register(r, q, o, k)
         PROVE  Raced(p)
    <3>1. user'[p] = user[p] \/ user'[p].role = "admin"
      BY <2>11 DEF Register, TablesOK
    <3> QED
      BY <2>7, <3>1 DEF Fits
  <2>12. ASSUME NEW r \in Request, AdminCall(r) PROVE Raced(p)
    BY <2>7, <2>10, <2>12 DEF AdminCall, UserRead, UpdateRead, DeleteRead, UpdateOrganization,
              CloseOrganization, ReopenOrganization, tables
  <2>13. ASSUME NEW r \in Request, OrganizationCall(r) PROVE Raced(p)
    BY <2>7, <2>11, <2>13 DEF OrganizationCall, InviteRead, ResendRead, CancelRead, MemberRead,
              OpenLateLink, AcceptRead, tables
  <2>14. ASSUME NEW r \in Request, TenantStep(r) PROVE Raced(p)
    BY <2>3, <2>4, <2>5, <2>7, <2>8, <2>9, <2>14 DEF TenantStep, InviteCreate, InvitePublish,
       ResendWrite, CancelDelete, AcceptExpire, UpdateCheck, DeleteCount, DeleteRow, tables
  <2> QED
    BY <2>7, <2>12, <2>13, <2>14 DEF TenancyNext, Fail, Lapse, tenancyVars, tables
<1> QED
  BY <1>1, TenancyInvariant, PTL DEF TenancySpec, MisfitNeedsARace

-----------------------------------------------------------------------------
(* Alerts                                                                  *)

UsedType == [moves : Nat, resolves : Nat, leaves : Nat, faults : Nat]

\* A counter that is spent stays a counter; only a fault raises the number of faults.
LEMMA SpendType ==
    ASSUME used \in UsedType, NEW field \in {"moves", "resolves", "leaves", "faults"},
           NEW limit, Spend(field, limit)
    PROVE  /\ used' \in UsedType
           /\ used'.faults = IF field = "faults" THEN used.faults + 1 ELSE used.faults
<1>1. CASE field = "moves"
  BY <1>1 DEF Spend, UsedType
<1>2. CASE field = "resolves"
  BY <1>2 DEF Spend, UsedType
<1>3. CASE field = "leaves"
  BY <1>3 DEF Spend, UsedType
<1>4. CASE field = "faults"
  BY <1>4 DEF Spend, UsedType
<1> QED
  BY <1>1, <1>2, <1>3, <1>4

LEMMA FaultType ==
    ASSUME used \in UsedType, Fault
    PROVE  used' \in UsedType /\ used'.faults = used.faults + 1
  BY SpendType DEF Fault

\* What the tasks of the consumer know at each stage.
TaskFits(task) ==
    /\ task.at # "free" => task.ship \in Shipment /\ task.type \in AlertType
    /\ task.at = "free" => task.ship = Nil

TasksFit == \A w \in Worker : TaskFits(work[w])

ScansFit == \A k \in Scan : scans[k].at = "publish" => scans[k].ship \in Shipment

AlertsTyped == AlertsTypeOK /\ TasksFit /\ ScansFit

LEMMA FreeType == Free \in Task /\ TaskFits(Free)
  BY DEF Free, Task, Stage, TaskFits

LEMMA NoScanType == NoScan \in ScanState /\ NoScan.at = "off" /\ NoScan.todo = {} /\ NoScan.ship = Nil
  BY DEF NoScan, ScanState

\* A worker takes its next step with a task that has what the step needs.
LEMMA StepType ==
    ASSUME work \in [Worker -> Task], TasksFit, NEW w \in Worker, NEW at, NEW task \in Task,
           TaskFits(task), Step(w, at, task)
    PROVE  work' \in [Worker -> Task] /\ TasksFit'
  BY DEF Step, TasksFit

LEMMA ScanStepType ==
    ASSUME scans \in [Scan -> ScanState], ScansFit, NEW k \in Scan, NEW s \in ScanState,
           s.at = "publish" => s.ship \in Shipment, scans' = [scans EXCEPT ![k] = s]
    PROVE  scans' \in [Scan -> ScanState] /\ ScansFit'
  BY DEF ScansFit

LEMMA InvolvedType ==
    ASSUME AlertsTypeOK, NEW s \in Shipment
    PROVE  Involved(s) \subseteq Person
  BY AlertsAssumption DEF AlertsTypeOK, Involved

\* The broker's side of the type: a message more, a message less.
LEMMA QueueType ==
    ASSUME queue \in [Shipment \X AlertType -> Nat], NEW f \in [Shipment \X AlertType -> Nat],
           queue' = [m \in DOMAIN queue |-> queue[m] + f[m]]
    PROVE  queue' \in [Shipment \X AlertType -> Nat]
  OBVIOUS

LEMMA TaskSteps ==
    ASSUME AlertsTyped, NEW w \in Worker, Consume(w)
    PROVE  AlertsTyped'
<1> USE DEF AlertsTyped
<1>0. work[w] \in Task /\ TaskFits(work[w])
  BY DEF AlertsTypeOK, TasksFit
<1>1. Len(alerts) \in Nat
  BY DEF AlertsTypeOK
<1>2. CASE FindOpenAlert(w)
  <2> DEFINE task == [work[w] EXCEPT !.at = "recipients", !.asOf = Len(alerts)]
  <2>1. work[w].at = "look"
    BY <1>2 DEF FindOpenAlert, Step
  <2>2. task \in Task /\ TaskFits(task)
    BY <1>0, <1>1, <2>1 DEF Task, Stage, TaskFits
  <2> HIDE DEF task
  <2>3. Step(w, "look", Free) \/ Step(w, "look", task)
    BY <1>2 DEF FindOpenAlert, task
  <2>4. work' \in [Worker -> Task] /\ TasksFit'
    BY <2>2, <2>3, FreeType, StepType DEF AlertsTypeOK
  <2> QED
    BY <1>2, <2>4 DEF FindOpenAlert, AlertsTypeOK, ScansFit, world
<1>3. CASE ReadRecipients(w)
  <2> DEFINE task == [work[w] EXCEPT !.at = "store", !.to = Involved(work[w].ship)]
  <2>1. work[w].at = "recipients"
    BY <1>3 DEF ReadRecipients, Step
  <2>2. Involved(work[w].ship) \subseteq Person
    BY <1>0, <2>1, InvolvedType DEF TaskFits
  <2>3. task \in Task /\ TaskFits(task)
    BY <1>0, <2>1, <2>2 DEF Task, Stage, TaskFits
  <2> HIDE DEF task
  <2>4. Step(w, "recipients", Free) \/ Step(w, "recipients", task)
    BY <1>3 DEF ReadRecipients, task
  <2>5. work' \in [Worker -> Task] /\ TasksFit'
    BY <2>3, <2>4, FreeType, StepType DEF AlertsTypeOK
  <2> QED
    BY <1>3, <2>5 DEF ReadRecipients, AlertsTypeOK, ScansFit, world
<1>4. CASE StoreAlert(w)
  <2> DEFINE task == [work[w] EXCEPT !.at = "tell", !.row = Len(alerts) + 1]
             new  == [ship |-> work[w].ship, type |-> work[w].type, open |-> TRUE,
                      rows |-> work[w].to, by |-> w, asOf |-> work[w].asOf]
  <2>1. work[w].at = "store"
    BY <1>4 DEF StoreAlert, Step
  <2>2. task \in Task /\ TaskFits(task)
    <3>1. Len(alerts) + 1 \in Nat /\ work[w].ship \in Shipment /\ work[w].type \in AlertType
      BY <1>0, <1>1, <2>1 DEF TaskFits
    <3>2. /\ task.at = "tell" /\ task.ship = work[w].ship /\ task.type = work[w].type
          /\ task \in Task
      BY <1>0, <3>1 DEF Task, Stage
    <3> HIDE DEF task
    <3> QED
      BY <3>1, <3>2 DEF TaskFits
  <2>3. new \in Alert
    BY <1>0, <2>1 DEF Task, TaskFits, Alert
  <2> HIDE DEF task, new
  <2>4. Step(w, "store", Free) \/ Step(w, "store", task)
    BY <1>4 DEF StoreAlert, task
  <2>5. work' \in [Worker -> Task] /\ TasksFit'
    BY <2>2, <2>4, FreeType, StepType DEF AlertsTypeOK
  <2>6. alerts' = alerts \/ alerts' = Append(alerts, new)
    BY <1>4 DEF StoreAlert, new
  <2>7. alerts' \in Seq(Alert)
    <3>1. alerts \in Seq(Alert)
      BY DEF AlertsTypeOK
    <3> QED
      BY <2>3, <2>6, <3>1
  <2> QED
    BY <1>4, <2>5, <2>7 DEF StoreAlert, AlertsTypeOK, ScansFit, world
<1>5. CASE TellRecipients(w)
  <2>1. work' \in [Worker -> Task] /\ TasksFit'
    BY <1>5, FreeType, StepType DEF TellRecipients, AlertsTypeOK
  <2>2. work[w].row \in Nat
    BY <1>0 DEF Task
  <2>3. told' \subseteq Nat /\ used' \in [moves : Nat, resolves : Nat, leaves : Nat, faults : Nat]
    BY <1>5, <2>2, FaultType DEF TellRecipients, AlertsTypeOK, UsedType
  <2> QED
    BY <1>5, <2>1, <2>3 DEF TellRecipients, AlertsTypeOK, ScansFit, world
<1> QED
  BY <1>2, <1>3, <1>4, <1>5 DEF Consume

LEMMA ScanSteps ==
    ASSUME AlertsTyped, NEW k \in Scan, StartScan(k) \/ ScanLook(k) \/ ScanPublish(k)
    PROVE  AlertsTyped'
<1> USE DEF AlertsTyped
<1>0. scans[k] \in ScanState
  BY DEF AlertsTypeOK
<1>1. \A at \in {"off", "due", "look", "publish"}, todo \in SUBSET Shipment, s \in Shipment \cup {Nil} :
         (at = "publish" => s \in Shipment)
         /\ scans' = [scans EXCEPT ![k] = [scans[k] EXCEPT !.at = at, !.todo = todo, !.ship = s]]
         => scans' \in [Scan -> ScanState] /\ ScansFit'
  <2> SUFFICES ASSUME NEW at \in {"off", "due", "look", "publish"}, NEW todo \in SUBSET Shipment,
                      NEW s \in Shipment \cup {Nil}, at = "publish" => s \in Shipment,
                      scans' = [scans EXCEPT ![k] = [scans[k] EXCEPT !.at = at, !.todo = todo, !.ship = s]]
               PROVE  scans' \in [Scan -> ScanState] /\ ScansFit'
    OBVIOUS
  <2> DEFINE new == [scans[k] EXCEPT !.at = at, !.todo = todo, !.ship = s]
  <2>1. new \in ScanState /\ new.at = at /\ new.ship = s
    BY <1>0 DEF ScanState
  <2> HIDE DEF new
  <2>2. scans' = [scans EXCEPT ![k] = new]
    BY DEF new
  <2> QED
    BY <2>1, <2>2, ScanStepType DEF AlertsTypeOK
<1>2. scans' = [scans EXCEPT ![k] = NoScan] => scans' \in [Scan -> ScanState] /\ ScansFit'
  BY NoScanType, ScanStepType DEF AlertsTypeOK
<1>3. CASE StartScan(k)
  <2> DEFINE late == {s \in Shipment : Late(s)}
             new  == [NoScan EXCEPT !.at = "look", !.todo = late]
  <2>1. late \in SUBSET Shipment
    OBVIOUS
  <2> HIDE DEF late
  <2>2. new \in ScanState /\ new.at = "look"
    BY <2>1, NoScanType DEF NoScan, ScanState
  <2>3. scans' = [scans EXCEPT ![k] = new]
    BY <1>3 DEF StartScan, late
  <2> HIDE DEF new
  <2>4. scans' \in [Scan -> ScanState] /\ ScansFit'
    BY <2>2, <2>3, ScanStepType DEF AlertsTypeOK
  <2> QED
    BY <1>3, <2>4 DEF StartScan, AlertsTypeOK, TasksFit, world
<1>4. CASE ScanLook(k)
  <2>1. scans' \in [Scan -> ScanState] /\ ScansFit'
    <3>1. ASSUME NEW s \in scans[k].todo,
                 scans' = [scans EXCEPT ![k].todo = @ \ {s},
                                   ![k].ship = IF OpenAlerts(s, "shipment.delayed") = {} THEN s ELSE @,
                                   ![k].at = IF OpenAlerts(s, "shipment.delayed") = {}
                                             THEN "publish" ELSE "look"]
          PROVE  scans' \in [Scan -> ScanState] /\ ScansFit'
      <4>1. s \in Shipment /\ scans[k].todo \ {s} \in SUBSET Shipment
        BY <1>0, <3>1 DEF ScanState
      <4>2. CASE OpenAlerts(s, "shipment.delayed") = {}
        <5>1. scans' = [scans EXCEPT ![k] = [scans[k] EXCEPT !.at = "publish", !.todo = scans[k].todo \ {s},
                                                             !.ship = s]]
          BY <1>0, <3>1, <4>2 DEF AlertsTypeOK, ScanState
        <5> QED
          BY <1>1, <4>1, <5>1
      <4>3. CASE OpenAlerts(s, "shipment.delayed") # {}
        <5>1. scans' = [scans EXCEPT ![k] = [scans[k] EXCEPT !.at = "look", !.todo = scans[k].todo \ {s},
                                                             !.ship = scans[k].ship]]
          BY <1>0, <3>1, <4>3 DEF AlertsTypeOK, ScanState
        <5>2. scans[k].ship \in Shipment \cup {Nil}
          BY <1>0 DEF ScanState
        <5> QED
          BY <1>1, <4>1, <5>1, <5>2
      <4> QED
        BY <4>2, <4>3
    <3> QED
      BY <1>2, <1>4, <3>1 DEF ScanLook
  <2> QED
    BY <1>4, <2>1 DEF ScanLook, AlertsTypeOK, TasksFit, world
<1>5. CASE ScanPublish(k)
  <2>1. scans[k].ship \in Shipment /\ scans[k].todo \in SUBSET Shipment
    BY <1>0, <1>5 DEF ScanPublish, ScansFit, ScanState
  <2>2. ASSUME scans' = [scans EXCEPT ![k].at = "look", ![k].ship = Nil]
        PROVE  scans' \in [Scan -> ScanState] /\ ScansFit'
    <3>1. scans' = [scans EXCEPT ![k] = [scans[k] EXCEPT !.at = "look", !.todo = scans[k].todo, !.ship = Nil]]
      BY <1>0, <2>2 DEF AlertsTypeOK, ScanState
    <3> DEFINE new == [scans[k] EXCEPT !.at = "look", !.todo = scans[k].todo, !.ship = Nil]
    <3>2. new \in ScanState /\ new.at = "look"
      BY <1>0 DEF ScanState
    <3> HIDE DEF new
    <3>3. scans' = [scans EXCEPT ![k] = new]
      BY <3>1 DEF new
    <3> QED
      BY <3>2, <3>3, ScanStepType DEF AlertsTypeOK
  <2>3. scans' \in [Scan -> ScanState] /\ ScansFit'
    <3>1. \/ scans' = [scans EXCEPT ![k].at = "look", ![k].ship = Nil]
          \/ scans' = [scans EXCEPT ![k] = NoScan]
      BY <1>5 DEF ScanPublish
    <3> QED
      BY <1>2, <2>2, <3>1
  <2>4. queue' \in [Shipment \X AlertType -> Nat]
    <3>1. queue \in [Shipment \X AlertType -> Nat]
      BY DEF AlertsTypeOK
    <3>2. <<scans[k].ship, "shipment.delayed">> \in Shipment \X AlertType
      BY <2>1 DEF AlertType
    <3> DEFINE m == <<scans[k].ship, "shipment.delayed">>
    <3>3. queue' = queue \/ queue' = [queue EXCEPT ![m] = @ + 1]
      BY <1>5 DEF ScanPublish
    <3> HIDE DEF m
    <3> QED
      BY <3>1, <3>2, <3>3 DEF m
  <2>5. used' \in [moves : Nat, resolves : Nat, leaves : Nat, faults : Nat]
    BY <1>5, FaultType DEF ScanPublish, AlertsTypeOK, UsedType
  <2> QED
    BY <1>5, <2>3, <2>4, <2>5 DEF ScanPublish, AlertsTypeOK, TasksFit, world
<1> QED
  BY <1>3, <1>4, <1>5

\* AlertsSpec but for its fairness, which no safety property of Alerts needs.
AlertsSteps == AlertsInit /\ [][AlertsNext]_alertsVars

LEMMA AlertsTypes == AlertsSteps => []AlertsTyped
<1>1. AlertsInit => AlertsTyped
  <2> SUFFICES ASSUME AlertsInit PROVE AlertsTyped
    OBVIOUS
  <2>1. work \in [Worker -> Task] /\ TasksFit
    BY FreeType DEF AlertsInit, TasksFit
  <2>2. scans \in [Scan -> ScanState] /\ ScansFit
    <3>1. [NoScan EXCEPT !.at = "due"] \in ScanState /\ [NoScan EXCEPT !.at = "due"].at = "due"
      BY DEF NoScan, ScanState
    <3> QED
      BY <3>1, NoScanType DEF AlertsInit, ScansFit
  <2>3. alerts \in Seq(Alert) /\ told \subseteq Nat
    BY DEF AlertsInit
  <2>4. queue \in [Shipment \X AlertType -> Nat]
    BY DEF AlertsInit
  <2>5. used \in [moves : Nat, resolves : Nat, leaves : Nat, faults : Nat]
    BY DEF AlertsInit
  <2>6. phase \in [Shipment -> Phase] /\ departed \in [Shipment -> Int \cup {Nil}]
    BY DEF AlertsInit, Phase, Travelling
  <2>7. /\ creator \in [Shipment -> Person \cup {Nil}] /\ driver \in [Shipment -> Person \cup {Nil}]
        /\ staff \subseteq Person /\ enabled \subseteq Person /\ now \in Nat
    BY AlertsAssumption DEF AlertsInit
  <2> QED
    BY <2>1, <2>2, <2>3, <2>4, <2>5, <2>6, <2>7 DEF AlertsTyped, AlertsTypeOK
<1>2. AlertsTyped /\ [AlertsNext]_alertsVars => AlertsTyped'
  <2> SUFFICES ASSUME AlertsTyped, [AlertsNext]_alertsVars PROVE AlertsTyped'
    OBVIOUS
  <2> USE DEF AlertsTyped
  <2>1. ASSUME NEW s \in Shipment, NEW st \in Phase \ {"draft"}, UpdateStatus(s, st)
        PROVE  AlertsTyped'
    <3>1. queue' \in [Shipment \X AlertType -> Nat]
      <4> DEFINE f == [m \in Shipment \X AlertType |->
                         IF m[1] = s /\ m[2] \in Announced(st, s) THEN 1 ELSE 0]
      <4>1. f \in [Shipment \X AlertType -> Nat] /\ queue \in [Shipment \X AlertType -> Nat]
        BY DEF AlertsTypeOK
      <4>2. queue' = queue \/ queue' = [m \in DOMAIN queue |-> queue[m] + f[m]]
        BY <2>1, <4>1 DEF UpdateStatus
      <4> HIDE DEF f
      <4> QED
        BY <4>1, <4>2, QueueType
    <3>2. used' \in [moves : Nat, resolves : Nat, leaves : Nat, faults : Nat]
      <4>1. used \in [moves : Nat, resolves : Nat, leaves : Nat, faults : Nat]
        BY DEF AlertsTypeOK
      <4>2. \/ used' = [used EXCEPT !.moves = @ + 1]
            \/ used' = [used EXCEPT !.moves = @ + 1, !.faults = @ + 1]
        BY <2>1 DEF UpdateStatus
      <4>3. used.moves + 1 \in Nat /\ used.faults + 1 \in Nat
        BY <4>1
      <4>4. \A a, b \in Nat : /\ [used EXCEPT !.moves = a] \in [moves : Nat, resolves : Nat, leaves : Nat, faults : Nat]
                             /\ [used EXCEPT !.moves = a, !.faults = b] \in
                                  [moves : Nat, resolves : Nat, leaves : Nat, faults : Nat]
        BY <4>1
      <4> QED
        BY <4>2, <4>3, <4>4
    <3>3. phase' \in [Shipment -> Phase] /\ departed' \in [Shipment -> Int \cup {Nil}]
      BY <2>1 DEF UpdateStatus, AlertsTypeOK
    <3> QED
      BY <2>1, <3>1, <3>2, <3>3 DEF UpdateStatus, AlertsTypeOK, TasksFit, ScansFit
  <2>2. ASSUME NEW w \in Worker, NEW s \in Shipment, NEW t \in AlertType, Receive(w, s, t)
        PROVE  AlertsTyped'
    <3> DEFINE task == [Free EXCEPT !.at = IF t \in OpenTypes THEN "look" ELSE "recipients",
                                    !.ship = s, !.type = t]
    <3>1. task \in Task /\ TaskFits(task)
      BY DEF Free, Task, Stage, TaskFits
    <3>2. Step(w, "free", task)
      BY <2>2 DEF Receive
    <3> HIDE DEF task
    <3>3. work' \in [Worker -> Task] /\ TasksFit'
      BY <3>1, <3>2, StepType DEF AlertsTypeOK
    <3>4. queue' \in [Shipment \X AlertType -> Nat]
      <4> DEFINE m == <<s, t>>
      <4>1. m \in Shipment \X AlertType /\ queue \in [Shipment \X AlertType -> Nat]
        BY DEF AlertsTypeOK
      <4>2. queue[m] > 0 /\ queue' = [queue EXCEPT ![m] = @ - 1]
        BY <2>2 DEF Receive
      <4> HIDE DEF m
      <4>3. queue[m] - 1 \in Nat
        BY <4>1, <4>2
      <4> QED
        BY <4>1, <4>2, <4>3
    <3> QED
      BY <2>2, <3>3, <3>4 DEF Receive, AlertsTypeOK, ScansFit, world
  <2>3. ASSUME NEW w \in Worker, RefuseMessage(w) PROVE AlertsTyped'
    <3>1. work' \in [Worker -> Task] /\ TasksFit'
      BY <2>3, FreeType DEF RefuseMessage, AlertsTypeOK, TasksFit
    <3>2. used' \in [moves : Nat, resolves : Nat, leaves : Nat, faults : Nat]
      BY <2>3, FaultType DEF RefuseMessage, AlertsTypeOK, UsedType
    <3> QED
      BY <2>3, <3>1, <3>2 DEF RefuseMessage, AlertsTypeOK, ScansFit, world
  <2>4. CASE Restart
    <3>1. work' \in [Worker -> Task] /\ TasksFit'
      BY <2>4, FreeType DEF Restart, TasksFit
    <3>2. scans' \in [Scan -> ScanState] /\ ScansFit'
      <4>1. [NoScan EXCEPT !.at = "due"] \in ScanState /\ [NoScan EXCEPT !.at = "due"].at = "due"
        BY DEF NoScan, ScanState
      <4> QED
        BY <2>4, <4>1, NoScanType DEF Restart, ScansFit
    <3>3. used' \in [moves : Nat, resolves : Nat, leaves : Nat, faults : Nat]
      BY <2>4, FaultType DEF Restart, AlertsTypeOK, UsedType
    <3>4. queue' \in [Shipment \X AlertType -> Nat]
      <4> DEFINE busy(m) == {w \in Worker : <<work[w].ship, work[w].type>> = m}
                 f == [m \in Shipment \X AlertType |-> Cardinality(busy(m))]
      <4>1. ASSUME NEW m PROVE Cardinality(busy(m)) \in Nat
        <5>1. IsFiniteSet(Worker) /\ busy(m) \subseteq Worker
          BY AlertsAssumption
        <5> HIDE DEF busy
        <5> QED
          BY <5>1, FS_Subset, FS_CardinalityType
      <4>2. queue \in [Shipment \X AlertType -> Nat]
        BY DEF AlertsTypeOK
      <4>3. queue' = [m \in DOMAIN queue |-> queue[m] + Cardinality(busy(m))]
        BY <2>4 DEF Restart
      <4> HIDE DEF busy
      <4>4. f \in [Shipment \X AlertType -> Nat]
        BY <4>1
      <4>5. queue' = [m \in DOMAIN queue |-> queue[m] + f[m]]
        BY <4>2, <4>3
      <4> HIDE DEF f
      <4> QED
        BY <4>2, <4>4, <4>5, QueueType
    <3> QED
      BY <2>4, <3>1, <3>2, <3>3, <3>4 DEF Restart, AlertsTypeOK, world
  <2>5. ASSUME NEW u \in OrgAdmin, NEW i \in 1..Len(alerts), resolve(u, i) PROVE AlertsTyped'
    <3>1. used' \in [moves : Nat, resolves : Nat, leaves : Nat, faults : Nat]
      BY <2>5, SpendType DEF resolve, AlertsTypeOK, UsedType
    <3>2. alerts' \in Seq(Alert)
      <4>1. alerts \in Seq(Alert)
        BY DEF AlertsTypeOK
      <4> DEFINE row == [alerts[i] EXCEPT !.open = FALSE]
      <4>2. alerts[i] \in Alert
        BY <4>1
      <4>3. row \in Alert
        BY <4>2 DEF Alert
      <4>4. alerts' = [alerts EXCEPT ![i] = row]
        BY <2>5 DEF resolve
      <4> HIDE DEF row
      <4> QED
        BY <4>1, <4>3, <4>4
    <3> QED
      BY <2>5, <3>1, <3>2 DEF resolve, AlertsTypeOK, TasksFit, ScansFit, world
  <2>6. ASSUME NEW u, DisableUser(u) PROVE AlertsTyped'
    <3>1. used' \in [moves : Nat, resolves : Nat, leaves : Nat, faults : Nat]
      BY <2>6, SpendType DEF DisableUser, AlertsTypeOK, UsedType
    <3> QED
      BY <2>6, <3>1 DEF DisableUser, AlertsTypeOK, TasksFit, ScansFit
  <2>7. ASSUME NEW u, RemoveUser(u) PROVE AlertsTyped'
    <3>1. used' \in [moves : Nat, resolves : Nat, leaves : Nat, faults : Nat]
      BY <2>7, SpendType DEF RemoveUser, AlertsTypeOK, UsedType
    <3>2. alerts' \in Seq(Alert)
      <4>1. alerts \in Seq(Alert)
        BY DEF AlertsTypeOK
      <4> DEFINE row(i) == [alerts[i] EXCEPT !.rows = @ \ {u}]
      <4>2. \A i \in 1..Len(alerts) : row(i) \in Alert
        <5> SUFFICES ASSUME NEW i \in 1..Len(alerts) PROVE row(i) \in Alert
          OBVIOUS
        <5>1. alerts[i] \in Alert
          BY <4>1
        <5> QED
          BY <5>1 DEF Alert
      <4>3. alerts' = [i \in 1..Len(alerts) |-> row(i)] /\ Len(alerts) \in Nat
        BY <2>7, <4>1 DEF RemoveUser
      <4> HIDE DEF row
      <4> QED
        BY <4>2, <4>3
    <3> QED
      BY <2>7, <3>1, <3>2 DEF RemoveUser, AlertsTypeOK, TasksFit, ScansFit
  <2>8. CASE Pass
    BY <2>8 DEF Pass, AlertsTypeOK, TasksFit, ScansFit
  <2>9. CASE UNCHANGED alertsVars
    BY <2>9 DEF alertsVars, AlertsTypeOK, TasksFit, ScansFit
  <2> QED
    BY <2>1, <2>2, <2>3, <2>4, <2>5, <2>6, <2>7, <2>8, <2>9, TaskSteps, ScanSteps DEF AlertsNext
<1> QED
  BY <1>1, <1>2, PTL DEF AlertsSteps

\* The rows of the alert tables, the queue and the tasks keep their types.
THEOREM AlertsTypeCorrect == AlertsSpec => []AlertsTypeOK
<1>1. AlertsTyped => AlertsTypeOK
  BY DEF AlertsTyped
<1> QED
  BY <1>1, AlertsTypes, PTL DEF AlertsSpec, AlertsSteps

\* Alerts are neither deleted nor opened again, and what they are about stays.
AlertsEvolve ==
    /\ Len(alerts) <= Len(alerts')
    /\ \A i \in 1..Len(alerts) :
          /\ alerts'[i].ship = alerts[i].ship /\ alerts'[i].type = alerts[i].type
          /\ alerts'[i].by = alerts[i].by /\ alerts'[i].asOf = alerts[i].asOf
          /\ alerts'[i].open => alerts[i].open

\* What a worker that has looked may rely on when it stores.
LookedAt(w) ==
    work[w].at \in {"recipients", "store"} /\ work[w].type \in OpenTypes =>
        /\ work[w].asOf <= Len(alerts)
        /\ \A i \in 1..Len(alerts) :
              /\ i > work[w].asOf => alerts[i].by # w
              /\ alerts[i].open /\ alerts[i].ship = work[w].ship /\ alerts[i].type = work[w].type
                 => i > work[w].asOf

AlertFacts == OneOpenAlertPerWorker /\ \A w \in Worker : LookedAt(w)

\* Whatever does not store an alert disturbs nothing.
LEMMA RowsStay ==
    ASSUME AlertsTyped, AlertFacts, AlertsEvolve, Len(alerts') = Len(alerts)
    PROVE  /\ OneOpenAlertPerWorker'
           /\ \A w \in Worker : work'[w] = work[w] \/ work'[w].at \notin {"recipients", "store"}
                                => LookedAt(w)'
<1>1. Len(alerts) \in Nat
  BY DEF AlertsTyped, AlertsTypeOK
<1>2. OneOpenAlertPerWorker'
  BY <1>1 DEF AlertFacts, OneOpenAlertPerWorker, AlertsEvolve
<1>3. ASSUME NEW w \in Worker, work'[w] = work[w] PROVE LookedAt(w)'
  BY <1>1, <1>3 DEF AlertFacts, LookedAt, AlertsEvolve
<1>4. ASSUME NEW w \in Worker, work'[w].at \notin {"recipients", "store"} PROVE LookedAt(w)'
  BY <1>4 DEF LookedAt
<1> QED
  BY <1>2, <1>3, <1>4

LEMMA AlertsStay == ASSUME alerts \in Seq(Alert), UNCHANGED alerts
                    PROVE  AlertsEvolve /\ Len(alerts') = Len(alerts)
  BY DEF AlertsEvolve

\* The steps of a worker, seen from the task it goes on with.
LEMMA WorkerStep ==
    ASSUME work \in [Worker -> Task], NEW w \in Worker, NEW at, NEW task, Step(w, at, task)
    PROVE  work[w].at = at /\ work'[w] = task /\ \A v \in Worker \ {w} : work'[v] = work[v]
  BY DEF Step

\* A worker that looks, reads and stores adds to no alert that was open when it looked.
LEMMA ConsumerKeepsFacts ==
    ASSUME AlertsTyped, AlertFacts, NEW w \in Worker, Consume(w)
    PROVE  AlertFacts'
<1>1. work \in [Worker -> Task] /\ alerts \in Seq(Alert) /\ Len(alerts) \in Nat
      /\ work[w] \in Task /\ TaskFits(work[w])
  BY DEF AlertsTyped, AlertsTypeOK, TasksFit
<1>2. CASE FindOpenAlert(w)
  <2> DEFINE task == [work[w] EXCEPT !.at = "recipients", !.asOf = Len(alerts)]
  <2>1. AlertsEvolve /\ Len(alerts') = Len(alerts) /\ alerts' = alerts
    BY <1>1, <1>2, AlertsStay DEF FindOpenAlert
  <2>2. /\ task.at = "recipients" /\ task.asOf = Len(alerts)
        /\ task.ship = work[w].ship /\ task.type = work[w].type
    BY <1>1 DEF Task
  <2> HIDE DEF task
  <2>3. \/ Step(w, "look", Free)
        \/ OpenAlerts(work[w].ship, work[w].type) = {} /\ Step(w, "look", task)
    BY <1>2 DEF FindOpenAlert, task
  <2>4. \A v \in Worker \ {w} : work'[v] = work[v]
    BY <1>1, <2>3, WorkerStep
  <2>5. LookedAt(w)'
    <3>1. CASE Step(w, "look", Free)
      BY <1>1, <3>1, WorkerStep DEF LookedAt, Free
    <3>2. CASE OpenAlerts(work[w].ship, work[w].type) = {} /\ Step(w, "look", task)
      <4>1. work'[w] = task
        BY <1>1, <3>2, WorkerStep
      <4>2. \A i \in 1..Len(alerts) :
               ~ (alerts[i].ship = work[w].ship /\ alerts[i].type = work[w].type /\ alerts[i].open)
        BY <3>2 DEF OpenAlerts
      <4> QED
        BY <1>1, <2>1, <2>2, <4>1, <4>2 DEF LookedAt
    <3> QED
      BY <2>3, <3>1, <3>2
  <2> QED
    BY <2>1, <2>4, <2>5, RowsStay DEF AlertFacts
<1>3. CASE ReadRecipients(w)
  <2> DEFINE task == [work[w] EXCEPT !.at = "store", !.to = Involved(work[w].ship)]
  <2>1. AlertsEvolve /\ Len(alerts') = Len(alerts) /\ alerts' = alerts
    BY <1>1, <1>3, AlertsStay DEF ReadRecipients
  <2>2. /\ task.at = "store" /\ task.asOf = work[w].asOf
        /\ task.ship = work[w].ship /\ task.type = work[w].type
    BY <1>1 DEF Task
  <2> HIDE DEF task
  <2>3. Step(w, "recipients", Free) \/ Step(w, "recipients", task)
    BY <1>3 DEF ReadRecipients, task
  <2>4. work[w].at = "recipients" /\ \A v \in Worker \ {w} : work'[v] = work[v]
    BY <1>1, <2>3, WorkerStep
  <2>5. LookedAt(w)'
    <3>1. CASE Step(w, "recipients", Free)
      BY <1>1, <3>1, WorkerStep DEF LookedAt, Free
    <3>2. CASE Step(w, "recipients", task)
      <4>1. work'[w] = task
        BY <1>1, <3>2, WorkerStep
      <4> QED
        BY <1>1, <2>1, <2>2, <2>4, <4>1 DEF LookedAt, AlertFacts
    <3> QED
      BY <2>3, <3>1, <3>2
  <2> QED
    BY <2>1, <2>4, <2>5, RowsStay DEF AlertFacts
<1>4. CASE StoreAlert(w)
  <2> DEFINE task == [work[w] EXCEPT !.at = "tell", !.row = Len(alerts) + 1]
             new  == [ship |-> work[w].ship, type |-> work[w].type, open |-> TRUE,
                      rows |-> work[w].to, by |-> w, asOf |-> work[w].asOf]
  <2>1. task.at = "tell"
    BY <1>1 DEF Task
  <2>2. /\ new.ship = work[w].ship /\ new.type = work[w].type /\ new.by = w
        /\ new.asOf = work[w].asOf
    OBVIOUS
  <2>a. new \in Alert
    BY <1>1, <1>4 DEF StoreAlert, Step, Task, TaskFits, Alert
  <2> HIDE DEF task, new
  <2>3. \/ Step(w, "store", Free) /\ UNCHANGED alerts
        \/ Step(w, "store", task) /\ alerts' = Append(alerts, new)
    BY <1>4 DEF StoreAlert, task, new
  <2>4. CASE Step(w, "store", Free) /\ UNCHANGED alerts
    <3>1. work'[w].at = "free" /\ \A v \in Worker \ {w} : work'[v] = work[v]
      BY <1>1, <2>4, WorkerStep DEF Free
    <3> QED
      BY <1>1, <2>4, <3>1, RowsStay, AlertsStay DEF AlertFacts
  <2>5. CASE Step(w, "store", task) /\ alerts' = Append(alerts, new)
    <3> DEFINE n == Len(alerts)
    <3>1. /\ work[w].at = "store" /\ work'[w].at = "tell"
          /\ \A v \in Worker \ {w} : work'[v] = work[v]
      BY <1>1, <2>1, <2>5, WorkerStep
    <3>2. /\ Len(alerts') = n + 1 /\ alerts'[n + 1] = new
          /\ \A i \in 1..n : alerts'[i] = alerts[i]
      BY <1>1, <2>a, <2>5
    <3>3. work[w].type \in OpenTypes =>
             /\ work[w].asOf <= n
             /\ \A i \in 1..n :
                   /\ i > work[w].asOf => alerts[i].by # w
                   /\ alerts[i].open /\ alerts[i].ship = work[w].ship /\ alerts[i].type = work[w].type
                      => i > work[w].asOf
      BY <3>1 DEF AlertFacts, LookedAt
    <3>4. work[w].asOf \in Nat
      BY <1>1 DEF Task
    <3>5. OneOpenAlertPerWorker'
      <4> SUFFICES ASSUME NEW i \in 1..(n + 1), NEW j \in 1..(n + 1), i < j,
                          alerts'[i].open, alerts'[j].open, alerts'[i].ship = alerts'[j].ship,
                          alerts'[i].type = alerts'[j].type, alerts'[j].type \in OpenTypes
                   PROVE  alerts'[j].asOf < i /\ alerts'[i].by # alerts'[j].by
        BY <3>2 DEF OneOpenAlertPerWorker
      <4>1. i \in 1..n
        BY <1>1
      <4>2. CASE j = n + 1
        BY <2>2, <3>2, <3>3, <4>1, <4>2
      <4>3. CASE j # n + 1
        <5>1. j \in 1..n
          BY <1>1, <4>3
        <5> QED
          BY <3>2, <4>1, <5>1 DEF AlertFacts, OneOpenAlertPerWorker
      <4> QED
        BY <4>2, <4>3
    <3>6. ASSUME NEW v \in Worker \ {w} PROVE LookedAt(v)'
      <4> SUFFICES ASSUME work[v].at \in {"recipients", "store"}, work[v].type \in OpenTypes
                   PROVE  /\ work[v].asOf <= n + 1
                          /\ \A i \in 1..(n + 1) :
                                /\ i > work[v].asOf => alerts'[i].by # v
                                /\ /\ alerts'[i].open /\ alerts'[i].ship = work[v].ship
                                   /\ alerts'[i].type = work[v].type
                                   => i > work[v].asOf
        BY <3>1, <3>2 DEF LookedAt
      <4>1. work[v].asOf \in Nat
        BY DEF AlertsTyped, AlertsTypeOK, Task
      <4>2. /\ work[v].asOf <= n
            /\ \A i \in 1..n :
                  /\ i > work[v].asOf => alerts[i].by # v
                  /\ alerts[i].open /\ alerts[i].ship = work[v].ship /\ alerts[i].type = work[v].type
                     => i > work[v].asOf
        BY DEF AlertFacts, LookedAt
      <4>3. n + 1 > work[v].asOf /\ alerts'[n + 1].by # v
        BY <1>1, <2>2, <3>2, <3>6, <4>1, <4>2
      <4>4. \A i \in 1..(n + 1) : i \in 1..n \/ i = n + 1
        BY <1>1
      <4> QED
        BY <1>1, <3>2, <4>1, <4>2, <4>3, <4>4
    <3>7. LookedAt(w)'
      BY <3>1 DEF LookedAt
    <3> QED
      BY <3>5, <3>6, <3>7 DEF AlertFacts
  <2> QED
    BY <2>3, <2>4, <2>5
<1>5. CASE TellRecipients(w)
  <2>1. AlertsEvolve /\ Len(alerts') = Len(alerts)
    BY <1>1, <1>5, AlertsStay DEF TellRecipients
  <2>2. work'[w].at = "free" /\ \A v \in Worker \ {w} : work'[v] = work[v]
    BY <1>1, <1>5, WorkerStep DEF TellRecipients, Free
  <2> QED
    BY <2>1, <2>2, RowsStay DEF AlertFacts
<1> QED
  BY <1>2, <1>3, <1>4, <1>5 DEF Consume

LEMMA ResolveKeepsRows ==
    ASSUME alerts \in Seq(Alert), NEW u, NEW i \in 1..Len(alerts), resolve(u, i)
    PROVE  AlertsEvolve /\ Len(alerts') = Len(alerts)
<1> DEFINE row == [alerts[i] EXCEPT !.open = FALSE]
<1>1. alerts[i] \in Alert
  OBVIOUS
<1>2. /\ row \in Alert /\ row.ship = alerts[i].ship /\ row.type = alerts[i].type
      /\ row.by = alerts[i].by /\ row.asOf = alerts[i].asOf /\ row.open = FALSE
  BY <1>1 DEF Alert
<1>3. alerts' = [alerts EXCEPT ![i] = row]
  BY DEF resolve
<1> HIDE DEF row
<1>4. Len(alerts') = Len(alerts) /\ alerts'[i] = row /\ \A j \in 1..Len(alerts) : j # i => alerts'[j] = alerts[j]
  BY <1>2, <1>3
<1> QED
  BY <1>2, <1>4 DEF AlertsEvolve

LEMMA RemovalKeepsRows ==
    ASSUME alerts \in Seq(Alert), NEW u, RemoveUser(u)
    PROVE  AlertsEvolve /\ Len(alerts') = Len(alerts)
<1> DEFINE row(i) == [alerts[i] EXCEPT !.rows = @ \ {u}]
<1>1. ASSUME NEW i \in 1..Len(alerts)
      PROVE  /\ row(i).ship = alerts[i].ship /\ row(i).type = alerts[i].type
             /\ row(i).by = alerts[i].by /\ row(i).asOf = alerts[i].asOf /\ row(i).open = alerts[i].open
  <2>1. alerts[i] \in Alert
    OBVIOUS
  <2> QED
    BY <2>1 DEF Alert
<1>2. alerts' = [i \in 1..Len(alerts) |-> row(i)] /\ Len(alerts) \in Nat
  BY DEF RemoveUser
<1> HIDE DEF row
<1>3. Len(alerts') = Len(alerts) /\ \A i \in 1..Len(alerts) : alerts'[i] = row(i)
  BY <1>2
<1> QED
  BY <1>1, <1>3 DEF AlertsEvolve

LEMMA OneOpenAlertStays == AlertsSteps => []OneOpenAlertPerWorker
<1>1. AlertsInit => AlertFacts
  BY DEF AlertsInit, AlertFacts, OneOpenAlertPerWorker, LookedAt, Free
<1>2. AlertsTyped /\ AlertFacts /\ [AlertsNext]_alertsVars => AlertFacts'
  <2> SUFFICES ASSUME AlertsTyped, AlertFacts, [AlertsNext]_alertsVars PROVE AlertFacts'
    OBVIOUS
  <2>0. work \in [Worker -> Task] /\ alerts \in Seq(Alert)
    BY DEF AlertsTyped, AlertsTypeOK
  <2>1. ASSUME AlertsEvolve /\ Len(alerts') = Len(alerts), UNCHANGED work PROVE AlertFacts'
    BY <2>1, RowsStay DEF AlertFacts
  <2>2. CASE UNCHANGED <<alerts, work>>
    BY <2>0, <2>1, <2>2, AlertsStay
  <2>3. ASSUME NEW w \in Worker, NEW s \in Shipment, NEW t \in AlertType, Receive(w, s, t)
        PROVE  AlertFacts'
    <3> DEFINE task == [Free EXCEPT !.at = IF t \in OpenTypes THEN "look" ELSE "recipients",
                                    !.ship = s, !.type = t]
    <3>1. task.type = t /\ task.at = IF t \in OpenTypes THEN "look" ELSE "recipients"
      BY DEF Free
    <3> HIDE DEF task
    <3>2. work'[w] = task /\ \A v \in Worker \ {w} : work'[v] = work[v]
      BY <2>0, <2>3, WorkerStep DEF Receive, task
    <3>3. LookedAt(w)'
      BY <3>1, <3>2 DEF LookedAt
    <3>4. AlertsEvolve /\ Len(alerts') = Len(alerts)
      BY <2>0, <2>3, AlertsStay DEF Receive
    <3> QED
      BY <3>2, <3>3, <3>4, RowsStay DEF AlertFacts
  <2>4. ASSUME NEW w \in Worker, RefuseMessage(w) PROVE AlertFacts'
    <3>1. work'[w].at = "free" /\ \A v \in Worker \ {w} : work'[v] = work[v]
      BY <2>0, <2>4 DEF RefuseMessage, Free
    <3>2. AlertsEvolve /\ Len(alerts') = Len(alerts)
      BY <2>0, <2>4, AlertsStay DEF RefuseMessage
    <3> QED
      BY <3>1, <3>2, RowsStay DEF AlertFacts
  <2>5. CASE Restart
    <3>1. \A w \in Worker : work'[w].at = "free"
      BY <2>5 DEF Restart, Free
    <3>2. AlertsEvolve /\ Len(alerts') = Len(alerts)
      BY <2>0, <2>5, AlertsStay DEF Restart
    <3> QED
      BY <3>1, <3>2, RowsStay DEF AlertFacts
  <2>6. ASSUME NEW u \in OrgAdmin, NEW i \in 1..Len(alerts), resolve(u, i) PROVE AlertFacts'
    BY <2>0, <2>1, <2>6, ResolveKeepsRows DEF resolve
  <2>7. ASSUME NEW u, RemoveUser(u) PROVE AlertFacts'
    BY <2>0, <2>1, <2>7, RemovalKeepsRows DEF RemoveUser
  <2> QED
    BY <2>2, <2>3, <2>4, <2>5, <2>6, <2>7, ConsumerKeepsFacts
       DEF AlertsNext, UpdateStatus, StartScan, ScanLook, ScanPublish, DisableUser, Pass, alertsVars
<1>3. AlertFacts => OneOpenAlertPerWorker
  BY DEF AlertFacts
<1> QED
  BY <1>1, <1>2, <1>3, AlertsTypes, PTL DEF AlertsSteps

\* Two open alerts of one condition are the work of two workers, the second of which
\* had looked before the first stored.
THEOREM OneWorkerOneOpenAlert == AlertsSpec => []OneOpenAlertPerWorker
BY OneOpenAlertStays, PTL DEF AlertsSpec, AlertsSteps

LEMMA StoredStaysTold == AlertsSteps => []StoredIsTold
<1> DEFINE Owed(i) == \E w \in Worker : work[w].at = "tell" /\ work[w].row = i
<1>1. AlertsInit => StoredIsTold
  BY DEF AlertsInit, StoredIsTold
<1>2. AlertsTyped /\ StoredIsTold /\ [AlertsNext]_alertsVars => StoredIsTold'
  <2> SUFFICES ASSUME AlertsTyped, StoredIsTold, [AlertsNext]_alertsVars, used'.faults = 0,
                      NEW i \in 1..Len(alerts')
               PROVE  i \in told' \/ \E w \in Worker : work'[w].at = "tell" /\ work'[w].row = i
    BY DEF StoredIsTold
  <2>0. /\ work \in [Worker -> Task] /\ alerts \in Seq(Alert) /\ used \in UsedType
        /\ used.faults \in Nat /\ Len(alerts) \in Nat
    BY DEF AlertsTyped, AlertsTypeOK, UsedType
  <2>1. ASSUME Fault PROVE FALSE
    BY <2>0, <2>1, FaultType
  <2> DEFINE Goal == i \in told' \/ \E w \in Worker : work'[w].at = "tell" /\ work'[w].row = i
  <2>2. ASSUME used.faults = 0, i \in 1..Len(alerts), told \subseteq told',
               \A w \in Worker : work[w].at = "tell" => work'[w] = work[w]
        PROVE  Goal
    BY <2>2 DEF StoredIsTold
  <2>3. ASSUME UNCHANGED <<alerts, told, work>>, used.faults = 0 PROVE Goal
    BY <2>2, <2>3
  <2>4. ASSUME NEW w \in Worker, NEW at, NEW task, at # "tell", Step(w, at, task),
               UNCHANGED <<alerts, told, used>>
        PROVE  Goal
    BY <2>0, <2>2, <2>4, WorkerStep
  <2>5. ASSUME NEW w \in Worker, StoreAlert(w) PROVE Goal
    <3> DEFINE task == [work[w] EXCEPT !.at = "tell", !.row = Len(alerts) + 1]
               new  == [ship |-> work[w].ship, type |-> work[w].type, open |-> TRUE,
                        rows |-> work[w].to, by |-> w, asOf |-> work[w].asOf]
    <3>1. task.at = "tell" /\ task.row = Len(alerts) + 1
      BY <2>0 DEF Task
    <3> HIDE DEF task, new
    <3>2. \/ Step(w, "store", Free) /\ UNCHANGED <<alerts, told, used>>
          \/ Step(w, "store", task) /\ alerts' = Append(alerts, new) /\ UNCHANGED <<told, used>>
      BY <2>5 DEF StoreAlert, task, new
    <3>3. CASE Step(w, "store", task) /\ alerts' = Append(alerts, new) /\ UNCHANGED <<told, used>>
      <4>1. work[w].at = "store" /\ work'[w] = task /\ \A v \in Worker \ {w} : work'[v] = work[v]
        BY <2>0, <3>3, WorkerStep
      <4>2. Len(alerts') = Len(alerts) + 1
        BY <2>0, <3>3
      <4>3. CASE i = Len(alerts) + 1
        BY <3>1, <4>1, <4>3
      <4>4. CASE i \in 1..Len(alerts)
        BY <2>2, <3>3, <4>1, <4>4
      <4> QED
        BY <2>0, <4>2, <4>3, <4>4
    <3> QED
      BY <2>4, <3>2, <3>3
  <2>6. ASSUME NEW w \in Worker, TellRecipients(w) PROVE Goal
    <3>1. told' = told \cup {work[w].row} /\ UNCHANGED <<alerts, used>>
      BY <2>1, <2>6 DEF TellRecipients
    <3>2. \A v \in Worker \ {w} : work'[v] = work[v]
      BY <2>0, <2>6, WorkerStep DEF TellRecipients
    <3> QED
      BY <3>1, <3>2 DEF StoredIsTold
  <2>7. ASSUME NEW w \in Worker, NEW s \in Shipment, NEW t \in AlertType, Receive(w, s, t) PROVE Goal
    BY <2>4, <2>7 DEF Receive
  <2>8. ASSUME NEW s, NEW st, UpdateStatus(s, st) PROVE Goal
    <3>1. used.faults = 0
      <4>1. \/ used' = [used EXCEPT !.moves = @ + 1]
            \/ used' = [used EXCEPT !.moves = @ + 1, !.faults = @ + 1]
        BY <2>8 DEF UpdateStatus
      <4>2. used'.faults = used.faults \/ used'.faults = used.faults + 1
        BY <2>0, <4>1 DEF UsedType
      <4> QED
        BY <2>0, <4>2
    <3> QED
      BY <2>3, <2>8, <3>1 DEF UpdateStatus
  <2>9. ASSUME NEW u \in OrgAdmin, NEW n \in 1..Len(alerts), resolve(u, n) PROVE Goal
    <3>1. used.faults = 0
      BY <2>0, <2>9, SpendType DEF resolve
    <3>2. i \in 1..Len(alerts)
      BY <2>0, <2>9, ResolveKeepsRows
    <3> QED
      BY <2>2, <2>9, <3>1, <3>2 DEF resolve
  <2>10. ASSUME NEW u, RemoveUser(u) PROVE Goal
    <3>1. used.faults = 0
      BY <2>0, <2>10, SpendType DEF RemoveUser
    <3>2. i \in 1..Len(alerts)
      BY <2>0, <2>10, RemovalKeepsRows
    <3> QED
      BY <2>2, <2>10, <3>1, <3>2 DEF RemoveUser
  <2>11. ASSUME NEW u, DisableUser(u) PROVE Goal
    <3>1. used.faults = 0
      BY <2>0, <2>11, SpendType DEF DisableUser
    <3> QED
      BY <2>3, <2>11, <3>1 DEF DisableUser
  <2>12. ASSUME NEW k \in Scan, StartScan(k) \/ ScanLook(k) \/ ScanPublish(k) PROVE Goal
    BY <2>1, <2>3, <2>12 DEF StartScan, ScanLook, ScanPublish
  <2>13. ASSUME NEW w \in Worker, FindOpenAlert(w) \/ ReadRecipients(w) PROVE Goal
    BY <2>4, <2>13 DEF FindOpenAlert, ReadRecipients
  <2>14. CASE Pass \/ UNCHANGED alertsVars
    BY <2>3, <2>14 DEF Pass, alertsVars
  <2> QED
    BY <2>1, <2>5, <2>6, <2>7, <2>8, <2>9, <2>10, <2>11, <2>12, <2>13, <2>14
       DEF AlertsNext, Consume, RefuseMessage, Restart
<1> QED
  BY <1>1, <1>2, AlertsTypes, PTL DEF AlertsSteps

\* Without a fault, what is stored has been told or its worker is about to tell it.
THEOREM WhatIsStoredIsTold == AlertsSpec => []StoredIsTold
BY StoredStaysTold, PTL DEF AlertsSpec, AlertsSteps
=============================================================================
