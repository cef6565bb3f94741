-------------------------- MODULE ShipmentsProofs --------------------------
(* Proofs about Shipments, for every value of its constants. *)
EXTENDS ShipmentsInv, TLAPS

-----------------------------------------------------------------------------
(* Type correctness                                                          *)

\* The columns start empty, and no request is running.
LEMMA TypeInit == Init => TypeInv
  BY DEF Init, TypeInv, TypeOK, LocalsSet, Fits, Blank, Locals, Label

LocalsTyped == pc \in [Request -> Label] /\ loc \in [Request -> Locals] /\ LocalsSet

\* A request that moves to a label fitting its new locals keeps them all typed.
LEMMA MoveTyped ==
  ASSUME LocalsTyped, NEW r \in Request, NEW next \in Label, NEW l \in Locals, Fits(next, l),
         pc' = [pc EXCEPT ![r] = next], loc' = [loc EXCEPT ![r] = l]
  PROVE  LocalsTyped'
  BY DEF LocalsTyped, LocalsSet

\* An answer clears the locals, which fits the idle label.
LEMMA AnswerTyped ==
  ASSUME LocalsTyped, NEW r \in Request, NEW at, Answer(r, at)
  PROVE  LocalsTyped'
  <1>1. Blank \in Locals /\ "idle" \in Label
    BY DEF Blank, Locals, Label
  <1>2. Fits("idle", Blank)
    BY DEF Fits
  <1> QED BY <1>1, <1>2, MoveTyped DEF Answer, Goto

\* A handler that keeps its locals goes on to a statement they still fit.
LEMMA ProceedTyped ==
  ASSUME LocalsTyped, NEW r \in Request, NEW at, NEW next \in Label \ {"idle"}, Proceed(r, at, next),
         Fits(next, loc[r])
  PROVE  LocalsTyped'
  <1>1. loc' = [loc EXCEPT ![r] = loc[r]] /\ loc[r] \in Locals
    BY DEF Proceed, LocalsTyped
  <1> QED BY <1>1, MoveTyped DEF Proceed, Goto

\* A handler starts at a statement its locals fit.
LEMMA EnterTyped ==
  ASSUME LocalsTyped, NEW r \in Request, NEW handler, NEW next \in Label, NEW l \in Locals,
         Fits(next, l), Enter(r, handler, next, l)
  PROVE  LocalsTyped'
  BY MoveTyped DEF Enter, Goto

\* What a label says of the locals
LEMMA LocalsAt ==
  ASSUME TypeInv, NEW r \in Request
  PROVE  LocalsTyped /\ loc[r] \in Locals /\ Fits(pc[r], loc[r])
  BY DEF TypeInv, TypeOK, LocalsTyped, LocalsSet

\* Every call enters its handler with the locals the next statement needs.
LEMMA CallLocals ==
  ASSUME TypeInv, NEW r \in Request, Call(r)
  PROVE  LocalsTyped'
  <1>1. LocalsTyped /\ Blank \in Locals
    BY LocalsAt DEF Blank, Locals
  <1>2. PICK u \in User, s \in Shipment :
            \/ \E o \in Org \cup {Nil} : CreateTx(r, u, s, o) \/ UpdateRead(r, u, s, o)
            \/ \E st \in Asked : StatusRead(r, u, s, st)
            \/ RouteRead(r, u, s) \/ AcceptRead(r, u, s) \/ RemoveRead(r, u, s)
    BY DEF Call
  <1>3. ASSUME NEW o \in Org \cup {Nil}, CreateTx(r, u, s, o)
        PROVE  LocalsTyped'
    <2> DEFINE l == [Blank EXCEPT !.ship = s]
    <2>1. l \in Locals /\ Fits("createPublish", l) /\ "createPublish" \in Label
      BY DEF Blank, Locals, Fits, Label
    <2>2. Enter(r, "create", "createPublish", l)
      BY <1>3 DEF CreateTx
    <2> HIDE DEF l
    <2> QED BY <1>1, <2>1, <2>2, EnterTyped
  <1>4. ASSUME NEW o \in Org \cup {Nil}, UpdateRead(r, u, s, o)
        PROVE  LocalsTyped'
    <2> DEFINE l == [Blank EXCEPT !.ship = s, !.org = o]
    <2>1. l \in Locals /\ Fits("updateWrite", l) /\ "updateWrite" \in Label
      BY DEF Blank, Locals, Fits, Label
    <2>2. Enter(r, "update", "updateWrite", l)
      BY <1>4 DEF UpdateRead
    <2> HIDE DEF l
    <2> QED BY <1>1, <2>1, <2>2, EnterTyped
  <1>5. ASSUME NEW st \in Asked, StatusRead(r, u, s, st)
        PROVE  LocalsTyped'
    <2> DEFINE l == [Blank EXCEPT !.ship = s, !.seen = status[s], !.next = st]
    <2>1. st \in Status /\ status[s] \in Status
      BY <1>5, TypeAssumption DEF StatusRead, Exists, TypeInv, TypeOK
    <2>2. l \in Locals /\ Fits("statusTx", l) /\ "statusTx" \in Label
      BY <2>1 DEF Blank, Locals, Fits, Label
    <2>3. Enter(r, "status", "statusTx", l)
      BY <1>5 DEF StatusRead
    <2> HIDE DEF l
    <2> QED BY <1>1, <2>2, <2>3, EnterTyped
  <1>6. ASSUME RouteRead(r, u, s)
        PROVE  LocalsTyped'
    <2> DEFINE l == [Blank EXCEPT !.ship = s]
    <2>1. l \in Locals /\ Fits("routeWrite", l) /\ "routeWrite" \in Label
      BY DEF Blank, Locals, Fits, Label
    <2>2. Enter(r, "route", "routeWrite", l)
      BY <1>6 DEF RouteRead
    <2> HIDE DEF l
    <2> QED BY <1>1, <2>1, <2>2, EnterTyped
  <1>7. ASSUME AcceptRead(r, u, s)
        PROVE  LocalsTyped'
    <2> DEFINE l == [Blank EXCEPT !.ship = s, !.user = u, !.seen = status[s],
                                  !.org = carrierOrg[s], !.driver = carrierUser[s]]
    <2>1. l \in Locals /\ Fits("acceptCount", l) /\ "acceptCount" \in Label
      BY DEF Blank, Locals, Fits, Label, TypeInv, TypeOK
    <2>2. Enter(r, "accept", "acceptCount", l)
      BY <1>7 DEF AcceptRead
    <2> HIDE DEF l
    <2> QED BY <1>1, <2>1, <2>2, EnterTyped
  <1>8. ASSUME RemoveRead(r, u, s)
        PROVE  LocalsTyped'
    <2> DEFINE l == [Blank EXCEPT !.ship = s, !.seen = status[s]]
    <2>1. l \in Locals /\ Fits("removeDelete", l) /\ "removeDelete" \in Label
      BY DEF Blank, Locals, Fits, Label, TypeInv, TypeOK
    <2>2. Enter(r, "remove", "removeDelete", l)
      BY <1>8 DEF RemoveRead
    <2> HIDE DEF l
    <2> QED BY <1>1, <2>1, <2>2, EnterTyped
  <1> QED BY <1>2, <1>3, <1>4, <1>5, <1>6, <1>7, <1>8

\* Every statement of a handler leaves the locals its next statement needs.
LEMMA ContinueLocals ==
  ASSUME TypeInv, NEW r \in Request, Continue(r)
  PROVE  LocalsTyped'
  <1>1. LocalsTyped /\ loc[r] \in Locals /\ Fits(pc[r], loc[r])
    BY LocalsAt
  <1>2. ASSUME NEW at, Answer(r, at)
        PROVE  LocalsTyped'
    BY <1>1, <1>2, AnswerTyped
  <1>3. ASSUME NEW at \in {"routeWrite", "routeEvent", "statusPublish", "acceptCount", "acceptEvent"},
               NEW next \in {"routeEvent", "routePublish", "statusAlert", "acceptWrite", "acceptPublish"},
               at = "statusPublish" <=> next = "statusAlert",
               at = "acceptCount" <=> next = "acceptWrite",
               Proceed(r, at, next)
        PROVE  LocalsTyped'
    <2>1. pc[r] = at
      BY <1>3 DEF Proceed, Goto
    <2>2. Fits(next, loc[r]) /\ next \in Label \ {"idle"}
      BY <1>1, <1>3, <2>1 DEF Fits, Label
    <2> QED BY <1>1, <1>3, <2>2, ProceedTyped
  <1>4. ASSUME StatusTx(r)
        PROVE  LocalsTyped'
    <2> DEFINE l == [loc[r] EXCEPT !.seen = Nil]
    <2>1. /\ pc[r] = "statusTx" /\ pc' = [pc EXCEPT ![r] = "statusPublish"]
          /\ loc' = [loc EXCEPT ![r] = l]
      BY <1>4 DEF StatusTx, Goto
    <2>2. l \in Locals /\ l.ship = loc[r].ship /\ l.next = loc[r].next
      BY <1>1 DEF Locals
    <2>3. Fits("statusPublish", l) /\ "statusPublish" \in Label
      BY <1>1, <2>1, <2>2 DEF Fits, Label
    <2> HIDE DEF l
    <2> QED BY <1>1, <2>1, <2>2, <2>3, MoveTyped
  <1>5. ASSUME AcceptWrite(r)
        PROVE  LocalsTyped'
    <2> DEFINE l == [Blank EXCEPT !.ship = loc[r].ship]
    <2>1. /\ pc[r] = "acceptWrite" /\ pc' = [pc EXCEPT ![r] = "acceptEvent"]
          /\ loc' = [loc EXCEPT ![r] = l]
      BY <1>5 DEF AcceptWrite, Goto
    <2>2. loc[r].ship \in Shipment
      BY <1>1, <2>1 DEF Fits
    <2>3. l \in Locals /\ Fits("acceptEvent", l) /\ "acceptEvent" \in Label
      BY <2>2 DEF Blank, Locals, Fits, Label
    <2> HIDE DEF l
    <2> QED BY <1>1, <2>1, <2>3, MoveTyped
  <1>6. CASE CreatePublish(r) \/ UpdateWrite(r) \/ RoutePublish(r) \/ StatusAlert(r)
             \/ AcceptPublish(r) \/ RemoveDelete(r)
    BY <1>2, <1>6 DEF CreatePublish, UpdateWrite, RoutePublish, StatusAlert, AcceptPublish, RemoveDelete
  <1>7. CASE RouteWrite(r)
    BY <1>3, <1>7 DEF RouteWrite
  <1>8. CASE RouteEvent(r)
    BY <1>3, <1>8 DEF RouteEvent
  <1>9. CASE AcceptEvent(r)
    BY <1>3, <1>9 DEF AcceptEvent
  <1>10. CASE StatusPublish(r)
    BY <1>2, <1>3, <1>10 DEF StatusPublish
  <1>11. CASE AcceptCount(r)
    BY <1>2, <1>3, <1>11 DEF AcceptCount
  <1> QED BY <1>4, <1>5, <1>6, <1>7, <1>8, <1>9, <1>10, <1>11 DEF Continue

\* The tables keep their types.
Columns ==
    /\ status \in [Shipment -> Status \cup {Nil}]
    /\ shipper \in [Shipment -> Org \cup {Nil}]
    /\ carrierOrg \in [Shipment -> Org \cup {Nil}]
    /\ carrierUser \in [Shipment -> User \cup {Nil}]
    /\ timeline \in [Shipment -> SUBSET Event]
    /\ published \in [Shipment -> SUBSET Message]
    /\ forced \in [Shipment -> BOOLEAN]
    /\ calls \in Nat

\* Statuses named by the code are statuses.
LEMMA StatusNames ==
  /\ "draft" \in Status /\ "confirmed" \in Status /\ "cancelled" \in Status
  /\ Asked \subseteq Status
  BY TypeAssumption DEF Status

\* A row of the timeline
LEMMA RecordTyped ==
  ASSUME Columns, NEW s, NEW type \in {"shipment_created", "status_change", "carrier_assigned", "route_assigned"},
         NEW st \in Status, NEW admin \in BOOLEAN, Record(s, type, st, admin)
  PROVE  timeline' \in [Shipment -> SUBSET Event]
  <1> DEFINE e == [type |-> type, status |-> st, admin |-> admin]
  <1>1. e \in Event
    BY DEF Event
  <1>2. timeline' = [timeline EXCEPT ![s] = @ \cup {e}]
    BY DEF Record
  <1> HIDE DEF e
  <1> QED BY <1>1, <1>2 DEF Columns

\* A message on the exchange
LEMMA PublishTyped ==
  ASSUME Columns, NEW s, NEW message \in Message, Publish(s, message)
  PROVE  published' \in [Shipment -> SUBSET Message]
  BY DEF Columns, Publish

\* What a call writes: create fills a row, the others count the call only.
LEMMA CallColumns ==
  ASSUME TypeInv, NEW r \in Request, Call(r)
  PROVE  Columns'
  <1>1. Columns
    BY DEF TypeInv, TypeOK, Columns
  <1>2. PICK u \in User, s \in Shipment :
            \/ \E o \in Org \cup {Nil} : CreateTx(r, u, s, o) \/ UpdateRead(r, u, s, o)
            \/ \E st \in Asked : StatusRead(r, u, s, st)
            \/ RouteRead(r, u, s) \/ AcceptRead(r, u, s) \/ RemoveRead(r, u, s)
    BY DEF Call
  <1>3. ASSUME NEW o \in Org \cup {Nil}, CreateTx(r, u, s, o)
        PROVE  Columns'
    <2>1. timeline' \in [Shipment -> SUBSET Event]
      BY <1>1, <1>3, StatusNames, RecordTyped DEF CreateTx
    <2>2. OrgOf[u] \in Org /\ "draft" \in Status
      BY TypeAssumption, StatusNames
    <2>3. /\ status' \in [Shipment -> Status \cup {Nil}]
          /\ shipper' \in [Shipment -> Org \cup {Nil}]
          /\ carrierOrg' \in [Shipment -> Org \cup {Nil}]
      BY <1>1, <1>3, <2>2 DEF CreateTx, Columns
    <2>4. calls' \in Nat /\ UNCHANGED <<carrierUser, published, forced>>
      BY <1>1, <1>3 DEF CreateTx, Enter, Columns
    <2> QED BY <1>1, <2>1, <2>3, <2>4 DEF Columns
  <1>4. ASSUME UNCHANGED <<row, timeline, published, forced>>, calls' = calls + 1
        PROVE  Columns'
    BY <1>1, <1>4 DEF row, Columns
  <1> QED BY <1>2, <1>3, <1>4 DEF UpdateRead, StatusRead, RouteRead, AcceptRead, RemoveRead, Enter

\* What a handler writes comes from its typed locals.
LEMMA ContinueColumns ==
  ASSUME TypeInv, NEW r \in Request, Continue(r)
  PROVE  Columns'
  <1>1. Columns /\ loc[r] \in Locals /\ Fits(pc[r], loc[r])
    BY LocalsAt DEF TypeInv, TypeOK, Columns
  <1>2. ASSUME CreatePublish(r) \/ RoutePublish(r) \/ AcceptPublish(r) \/ StatusAlert(r)
        PROVE  Columns'
    <2>1. PICK key \in {"shipment.created", "shipment.route_assigned", "shipment.accepted",
                        "shipment.delivered", "shipment.exception"} : Publish(loc[r].ship, Tell(key))
      BY <1>2 DEF CreatePublish, RoutePublish, AcceptPublish, StatusAlert
    <2>2. Tell(key) \in Message
      BY DEF Tell, Message
    <2>3. published' \in [Shipment -> SUBSET Message]
      BY <1>1, <2>1, <2>2, PublishTyped
    <2> QED BY <1>1, <1>2, <2>3 DEF CreatePublish, RoutePublish, AcceptPublish, StatusAlert, row, history, Columns
  <1>3. ASSUME UpdateWrite(r)
        PROVE  Columns'
    BY <1>1, <1>3 DEF UpdateWrite, history, Columns, Locals
  <1>4. ASSUME RouteWrite(r) \/ AcceptCount(r)
        PROVE  Columns'
    BY <1>1, <1>4 DEF RouteWrite, AcceptCount, row, history, Columns
  <1>5. ASSUME RouteEvent(r) \/ AcceptEvent(r)
        PROVE  Columns'
    <2>1. timeline' \in [Shipment -> SUBSET Event]
      BY <1>1, <1>5, StatusNames, RecordTyped DEF RouteEvent, AcceptEvent
    <2> QED BY <1>1, <1>5, <2>1 DEF RouteEvent, AcceptEvent, row, history, Columns
  <1>6. ASSUME StatusTx(r)
        PROVE  Columns'
    <2>1. loc[r].next \in Status
      BY <1>1, <1>6 DEF StatusTx, Goto, Fits
    <2>2. timeline' \in [Shipment -> SUBSET Event]
      BY <1>1, <1>6, <2>1, RecordTyped DEF StatusTx
    <2> QED BY <1>1, <1>6, <2>1, <2>2 DEF StatusTx, history, Columns
  <1>7. ASSUME StatusPublish(r)
        PROVE  Columns'
    <2>1. loc[r].next \in Status
      BY <1>1, <1>7 DEF StatusPublish, Proceed, Answer, Goto, Fits
    <2>2. TellStatus(loc[r].next) \in Message /\ Tell("shipment.delayed") \in Message
      BY <2>1 DEF TellStatus, Tell, Message
    <2>3. PICK late \in {{}, {Tell("shipment.delayed")}} :
              published' = [published EXCEPT
                  ![loc[r].ship] = (published[loc[r].ship] \cup {TellStatus(loc[r].next)}) \cup late]
      BY <1>7 DEF StatusPublish
    <2>4. published' \in [Shipment -> SUBSET Message]
      BY <1>1, <2>2, <2>3 DEF Columns
    <2> QED BY <1>1, <1>7, <2>4 DEF StatusPublish, row, history, Columns
  <1>8. ASSUME AcceptWrite(r)
        PROVE  Columns'
    <2>1. loc[r].user \in User
      BY <1>1, <1>8 DEF AcceptWrite, Goto, Fits
    <2>2. OrgOf[loc[r].user] \in Org /\ "confirmed" \in Status
      BY <2>1, TypeAssumption, StatusNames
    <2>3. /\ carrierUser' \in [Shipment -> User \cup {Nil}]
          /\ UNCHANGED <<shipper, timeline, published, forced, calls>>
      BY <1>1, <1>8, <2>1 DEF AcceptWrite, history, Columns
    <2>4. carrierOrg' \in [Shipment -> Org \cup {Nil}]
      BY <1>1, <1>8, <2>2 DEF AcceptWrite, Columns
    <2>5. status' \in [Shipment -> Status \cup {Nil}]
      BY <1>1, <1>8, <2>2 DEF AcceptWrite, Columns
    <2> QED BY <1>1, <2>3, <2>4, <2>5 DEF Columns
  <1>9. ASSUME RemoveDelete(r)
        PROVE  Columns'
    BY <1>1, <1>9 DEF RemoveDelete, history, Columns
  <1> QED BY <1>2, <1>3, <1>4, <1>5, <1>6, <1>7, <1>8, <1>9 DEF Continue

\* Types and locals survive every step.
LEMMA TypeStep == TypeInv /\ [Next]_vars => TypeInv'
  <1> SUFFICES ASSUME TypeInv, [Next]_vars
               PROVE  TypeInv'
    OBVIOUS
  <1>1. Columns /\ LocalsTyped
    BY DEF TypeInv, TypeOK, Columns, LocalsTyped
  <1>2. ASSUME Columns', LocalsTyped'
        PROVE  TypeInv'
    BY <1>2 DEF TypeInv, TypeOK, Columns, LocalsTyped
  <1>3. ASSUME NEW r \in Request, Call(r)
        PROVE  TypeInv'
    BY <1>2, <1>3, CallLocals, CallColumns
  <1>4. ASSUME NEW r \in Request, Continue(r)
        PROVE  TypeInv'
    BY <1>2, <1>4, ContinueLocals, ContinueColumns
  <1>5. ASSUME NEW s \in Shipment, NEW st \in Asked, AdminStatus(s, st)
        PROVE  TypeInv'
    <2>1. st \in Status
      BY StatusNames
    <2>2. timeline' \in [Shipment -> SUBSET Event]
      BY <1>1, <1>5, <2>1, RecordTyped DEF AdminStatus
    <2>3. LocalsTyped'
      BY <1>1, <1>5 DEF AdminStatus, LocalsTyped, LocalsSet
    <2>4. Columns'
      <3>1. status' \in [Shipment -> Status \cup {Nil}] /\ forced' \in [Shipment -> BOOLEAN]
        BY <1>1, <1>5, <2>1 DEF AdminStatus, Columns
      <3>2. calls' \in Nat /\ UNCHANGED <<shipper, carrierOrg, carrierUser, published>>
        BY <1>1, <1>5 DEF AdminStatus, Columns
      <3> QED BY <1>1, <2>2, <3>1, <3>2 DEF Columns
    <2> QED BY <1>2, <2>3, <2>4
  <1>6. ASSUME NEW ids \in SUBSET Shipment \ {{}}, BulkCancel(ids)
        PROVE  TypeInv'
    <2>1. LocalsTyped'
      BY <1>1, <1>6 DEF BulkCancel, LocalsTyped, LocalsSet
    <2>2. Columns'
      BY <1>1, <1>6, StatusNames DEF BulkCancel, Columns
    <2> QED BY <1>2, <2>1, <2>2
  <1>7. CASE UNCHANGED vars
    BY <1>1, <1>2, <1>7 DEF vars, row, history, Columns, LocalsTyped, LocalsSet
  <1> QED BY <1>3, <1>4, <1>5, <1>6, <1>7 DEF Next

\* The columns of a shipment, its timeline and the locals of every handler keep
\* their types: no handler writes a local it has not set.
THEOREM TypeCorrect == Spec => []TypeOK
  <1>1. TypeInv => TypeOK
    BY DEF TypeInv
  <1> QED BY TypeInit, TypeStep, <1>1, PTL DEF Spec

-----------------------------------------------------------------------------
(* The transition table                                                      *)

\* A status that follows another has no milestone the other had not passed.
LEMMA TablePassesMilestones ==
  ASSUME NEW from \in Status, NEW to \in Status, Follows(from, to)
  PROVE  Milestones(to) \subseteq Past(from)
  <1>1. CASE to = from
    BY <1>1 DEF Past
  <1>2. CASE to \in Transitions[from]
    <2>1. CASE from = "draft"
      BY <1>2, <2>1 DEF Transitions, Status, Milestones, Past
    <2>2. CASE from = "confirmed"
      BY <1>2, <2>2 DEF Transitions, Status, Milestones, Past
    <2>3. CASE from = "picked_up"
      BY <1>2, <2>3 DEF Transitions, Status, Milestones, Past
    <2>4. CASE from = "in_transit"
      BY <1>2, <2>4 DEF Transitions, Status, Milestones, Past
    <2>5. CASE from = "at_checkpoint"
      BY <1>2, <2>5 DEF Transitions, Status, Milestones, Past
    <2>6. CASE from = "customs_hold"
      BY <1>2, <2>6 DEF Transitions, Status, Milestones, Past
    <2>7. CASE from = "customs_cleared"
      BY <1>2, <2>7 DEF Transitions, Status, Milestones, Past
    <2>8. CASE from = "out_for_delivery"
      BY <1>2, <2>8 DEF Transitions, Status, Milestones, Past
    <2>9. CASE from = "delivered"
      BY <1>2, <2>9 DEF Transitions, Status, Milestones, Past
    <2>10. CASE from = "cancelled"
      BY <1>2, <2>10 DEF Transitions, Status, Milestones, Past
    <2>11. CASE from = "delayed"
      BY <1>2, <2>11 DEF Transitions, Status, Milestones, Past
    <2> QED BY <2>1, <2>2, <2>3, <2>4, <2>5, <2>6, <2>7, <2>8, <2>9, <2>10, <2>11 DEF Status
  <1> QED BY <1>1, <1>2 DEF Follows

\* A draft, a confirmation and a cancellation ask nothing of the timeline, and
\* the table confirms a draft.
LEMMA FreeStatuses ==
  /\ Past("draft") = {} /\ Past("confirmed") = {} /\ Past("cancelled") = {}
  /\ Follows("draft", "confirmed")
  BY StatusNames DEF Past, Milestones, Follows, Transitions

-----------------------------------------------------------------------------
(* What no step undoes                                                       *)

\* A row stays, with its shipper; the timeline and what was published only
\* grow; an override by an administrator is not forgotten.
Grows ==
    \A s \in Shipment :
        /\ Exists(s) => Exists(s)' /\ shipper'[s] = shipper[s]
        /\ timeline[s] \subseteq timeline'[s]
        /\ published[s] \subseteq published'[s]
        /\ forced[s] => forced'[s]

\* What a request knows of a row outlives the steps of all the others.
LEMMA RequestKept ==
  ASSUME TypeInv, Grows, NEW q \in Request, RequestOK(q), pc'[q] = pc[q], loc'[q] = loc[q]
  PROVE  RequestOK(q)'
  <1>1. pc[q] # "idle" => loc[q].ship \in Shipment
    BY LocalsAt DEF Fits
  <1>2. pc[q] # "idle" => /\ Exists(loc[q].ship)
                          /\ Exists(loc[q].ship)' /\ shipper'[loc[q].ship] = shipper[loc[q].ship]
                          /\ timeline[loc[q].ship] \subseteq timeline'[loc[q].ship]
                          /\ published[loc[q].ship] \subseteq published'[loc[q].ship]
                          /\ forced[loc[q].ship] => forced'[loc[q].ship]
    BY <1>1 DEF Grows, RequestOK
  <1> QED BY <1>2 DEF RequestOK, Recorded

\* The part of the state that tells of shipment s
Same(s) ==
    /\ status'[s] = status[s] /\ shipper'[s] = shipper[s]
    /\ carrierOrg'[s] = carrierOrg[s] /\ carrierUser'[s] = carrierUser[s]
    /\ timeline'[s] = timeline[s] /\ published'[s] = published[s] /\ forced'[s] = forced[s]

\* A shipment a step does not touch stays consistent.
LEMMA SameKeeps ==
  ASSUME NEW s \in Shipment, ShipmentOK(s), Same(s)
  PROVE  ShipmentOK(s)'
  BY DEF Same, ShipmentOK, AbsentOK, RowOK, TimelineOK, AnnouncedOK, Exists, Recorded

\* Only r moves: its own locals have to be checked, and the shipments it wrote.
LEMMA StepKeeps ==
  ASSUME TypeInv, ShipmentInv, Grows, NEW r \in Request, RequestOK(r)',
         \A s \in Shipment : ShipmentOK(s)',
         \A q \in Request \ {r} : pc'[q] = pc[q] /\ loc'[q] = loc[q]
  PROVE  ShipmentInv' /\ Grows
  BY RequestKept DEF ShipmentInv

\* A request reads and moves on.
LEMMA QuietStep ==
  ASSUME TypeInv, ShipmentInv, NEW r \in Request, RequestOK(r)',
         UNCHANGED <<row, timeline, published, forced>>,
         \A q \in Request \ {r} : pc'[q] = pc[q] /\ loc'[q] = loc[q]
  PROVE  ShipmentInv' /\ Grows
  <1>1. Grows
    BY DEF Grows, Exists, row
  <1>2. \A s \in Shipment : ShipmentOK(s)'
    BY SameKeeps DEF ShipmentInv, Same, row
  <1> QED BY <1>1, <1>2, StepKeeps

\* Nothing is asked of a request that has answered.
LEMMA IdleOK ==
  ASSUME NEW r \in Request, pc'[r] = "idle"
  PROVE  RequestOK(r)'
  BY DEF RequestOK

-----------------------------------------------------------------------------
(* The request that moves, and the others                                    *)

\* Labels
LEMMA Moved ==
  ASSUME TypeInv, NEW r \in Request, NEW at, NEW next, Goto(r, at, next)
  PROVE  /\ pc[r] = at /\ pc'[r] = next
         /\ \A q \in Request \ {r} : pc'[q] = pc[q]
  BY DEF Goto, TypeInv, TypeOK

\* Locals
LEMMA LocSet ==
  ASSUME TypeInv, NEW r \in Request, NEW l, loc' = [loc EXCEPT ![r] = l]
  PROVE  /\ loc'[r] = l
         /\ \A q \in Request \ {r} : loc'[q] = loc[q]
  BY DEF TypeInv, TypeOK

\* A handler starts.
LEMMA Entered ==
  ASSUME TypeInv, NEW r \in Request, NEW handler, NEW next, NEW l, Enter(r, handler, next, l)
  PROVE  /\ pc[r] = "idle" /\ pc'[r] = next /\ loc'[r] = l
         /\ \A q \in Request \ {r} : pc'[q] = pc[q] /\ loc'[q] = loc[q]
         /\ UNCHANGED forced
  <1>1. Goto(r, "idle", next) /\ loc' = [loc EXCEPT ![r] = l] /\ UNCHANGED forced
    BY DEF Enter
  <1>2. /\ pc[r] = "idle" /\ pc'[r] = next
        /\ \A q \in Request \ {r} : pc'[q] = pc[q]
    BY <1>1, Moved
  <1>3. loc'[r] = l /\ \A q \in Request \ {r} : loc'[q] = loc[q]
    BY <1>1, LocSet
  <1> QED BY <1>1, <1>2, <1>3

\* A handler answers.
LEMMA Answered ==
  ASSUME TypeInv, NEW r \in Request, NEW at, Answer(r, at)
  PROVE  /\ pc[r] = at /\ pc'[r] = "idle" /\ RequestOK(r)'
         /\ \A q \in Request \ {r} : pc'[q] = pc[q] /\ loc'[q] = loc[q]
  <1>1. Goto(r, at, "idle") /\ loc' = [loc EXCEPT ![r] = Blank]
    BY DEF Answer
  <1>2. /\ pc[r] = at /\ pc'[r] = "idle"
        /\ \A q \in Request \ {r} : pc'[q] = pc[q]
    BY <1>1, Moved
  <1>3. \A q \in Request \ {r} : loc'[q] = loc[q]
    BY <1>1, LocSet
  <1>4. RequestOK(r)'
    BY <1>2, IdleOK
  <1> QED BY <1>2, <1>3, <1>4

\* A handler goes on.
LEMMA Proceeded ==
  ASSUME TypeInv, NEW r \in Request, NEW at, NEW next, Proceed(r, at, next)
  PROVE  /\ pc[r] = at /\ pc'[r] = next /\ loc'[r] = loc[r]
         /\ \A q \in Request \ {r} : pc'[q] = pc[q] /\ loc'[q] = loc[q]
  BY Moved DEF Proceed

\* A row of the timeline that tells no change of status
LEMMA NoteKeeps ==
  ASSUME TypeInv, NEW s \in Shipment, ShipmentOK(s), Exists(s), NEW type, type # "status_change",
         NEW st, NEW admin, Record(s, type, st, admin), UNCHANGED <<row, published, forced>>
  PROVE  /\ ShipmentOK(s)' /\ timeline[s] \subseteq timeline'[s]
         /\ \A z \in Shipment \ {s} : Same(z)
         /\ Exists(s)'
  <1> DEFINE e == [type |-> type, status |-> st, admin |-> admin]
  <1>1. timeline' = [timeline EXCEPT ![s] = @ \cup {e}]
    BY DEF Record
  <1>2. \A x : Changed(x) # e
    BY DEF Changed
  <1> HIDE DEF e
  <1>3. timeline'[s] = timeline[s] \cup {e} /\ \A z \in Shipment \ {s} : timeline'[z] = timeline[z]
    BY <1>1 DEF TypeInv, TypeOK
  <1>4. UNCHANGED <<status, shipper, carrierOrg, carrierUser, published, forced>>
    BY DEF row
  <1>5. \A x : Changed(x) \in timeline'[s] <=> Changed(x) \in timeline[s]
    BY <1>2, <1>3
  <1>6. ShipmentOK(s)'
    BY <1>3, <1>4, <1>5 DEF ShipmentOK, AbsentOK, RowOK, TimelineOK, AnnouncedOK, Exists, Recorded
  <1> QED BY <1>3, <1>4, <1>6 DEF Same, Exists

\* Messages that keep what is announced consistent
LEMMA MessageKeeps ==
  ASSUME TypeInv, NEW s \in Shipment, ShipmentOK(s), NEW ms,
         published' = [published EXCEPT ![s] = @ \cup ms],
         AnnouncedOK(s)', UNCHANGED <<row, timeline, forced>>
  PROVE  /\ ShipmentOK(s)' /\ published[s] \subseteq published'[s] /\ ms \subseteq published'[s]
         /\ \A z \in Shipment \ {s} : Same(z)
  <1>1. published'[s] = published[s] \cup ms /\ \A z \in Shipment \ {s} : published'[z] = published[z]
    BY DEF TypeInv, TypeOK
  <1>2. UNCHANGED <<status, shipper, carrierOrg, carrierUser, timeline, forced>>
    BY DEF row
  <1>3. ShipmentOK(s)'
    BY <1>2 DEF ShipmentOK, AbsentOK, RowOK, TimelineOK, Exists, Recorded
  <1> QED BY <1>1, <1>2, <1>3 DEF Same

\* A message that announces neither a status nor an alert
LEMMA PlainMessageKeeps ==
  ASSUME TypeInv, NEW s \in Shipment, ShipmentOK(s),
         NEW key, key \notin {"shipment.status_changed", "shipment.delivered", "shipment.exception"},
         Publish(s, Tell(key)), UNCHANGED <<row, timeline, forced>>
  PROVE  /\ ShipmentOK(s)' /\ published[s] \subseteq published'[s]
         /\ \A z \in Shipment \ {s} : Same(z)
  <1>1. published' = [published EXCEPT ![s] = @ \cup {Tell(key)}]
    BY DEF Publish
  <1>2. published'[s] = published[s] \cup {Tell(key)}
    BY <1>1 DEF TypeInv, TypeOK
  <1>3. /\ \A st : TellStatus(st) # Tell(key)
        /\ Tell("shipment.delivered") # Tell(key) /\ Tell("shipment.exception") # Tell(key)
    BY DEF Tell, TellStatus
  <1>4. AnnouncedOK(s)'
    BY <1>2, <1>3 DEF ShipmentOK, AnnouncedOK
  <1> HIDE DEF Tell
  <1> QED BY <1>1, <1>4, MessageKeeps

\* A step of r that touches shipment s alone
LEMMA OneShipment ==
  ASSUME TypeInv, ShipmentInv, NEW r \in Request, RequestOK(r)',
         \A q \in Request \ {r} : pc'[q] = pc[q] /\ loc'[q] = loc[q],
         NEW s \in Shipment, ShipmentOK(s)', \A z \in Shipment \ {s} : Same(z),
         Exists(s) => Exists(s)' /\ shipper'[s] = shipper[s],
         timeline[s] \subseteq timeline'[s], published[s] \subseteq published'[s],
         forced[s] => forced'[s]
  PROVE  ShipmentInv' /\ Grows
  <1>1. Grows
    BY DEF Grows, Same, Exists
  <1>2. \A z \in Shipment : ShipmentOK(z)'
    BY SameKeeps DEF ShipmentInv
  <1> QED BY <1>1, <1>2, StepKeeps

-----------------------------------------------------------------------------
(* The handlers                                                              *)

\* create fills an unused identifier, of which nothing was recorded (118-203).
LEMMA CreateTxStep ==
  ASSUME TypeInv, ShipmentInv, NEW r \in Request, NEW u \in User, NEW s \in Shipment,
         NEW o \in Org \cup {Nil}, CreateTx(r, u, s, o)
  PROVE  ShipmentInv' /\ Grows
  <1> DEFINE l == [Blank EXCEPT !.ship = s]
             e == [type |-> "shipment_created", status |-> "draft", admin |-> FALSE]
  <1>1. Enter(r, "create", "createPublish", l) /\ l.ship = s
    BY DEF CreateTx, Blank
  <1>2. timeline' = [timeline EXCEPT ![s] = @ \cup {e}] /\ \A x : Changed(x) # e
    BY DEF CreateTx, Record, Changed
  <1> HIDE DEF l, e
  <1>3. pc'[r] = "createPublish" /\ loc'[r] = l /\ UNCHANGED forced
        /\ \A q \in Request \ {r} : pc'[q] = pc[q] /\ loc'[q] = loc[q]
    BY <1>1, Entered
  <1>4. ShipmentOK(s) /\ ~Exists(s) /\ timeline[s] = {} /\ carrierUser[s] = Nil
    BY DEF CreateTx, ShipmentInv, ShipmentOK, AbsentOK
  <1>5. /\ status'[s] = "draft" /\ shipper'[s] = OrgOf[u] /\ carrierOrg'[s] = o /\ carrierUser'[s] = Nil
        /\ timeline'[s] = {e} /\ published'[s] = published[s]
    BY <1>2, <1>4 DEF CreateTx, TypeInv, TypeOK
  <1>6. \A z \in Shipment \ {s} : Same(z)
    BY <1>2, <1>3 DEF CreateTx, Same, TypeInv, TypeOK
  <1>7. Exists(s)'
    BY <1>5, StatusNames, TypeAssumption DEF Exists
  <1>8. OrgOf[u] \in Org /\ TypeOf[OrgOf[u]] = "shipper" /\ o # OrgOf[u]
    BY TypeAssumption DEF CreateTx
  <1>9. RowOK(s)' /\ AbsentOK(s)'
    BY <1>5, <1>7, <1>8 DEF RowOK, AbsentOK
  <1>10. TimelineOK(s)'
    BY <1>2, <1>5, FreeStatuses DEF TimelineOK, Recorded
  <1>11. AnnouncedOK(s)'
    BY <1>4, <1>5 DEF ShipmentOK, AnnouncedOK
  <1>12. RequestOK(r)'
    BY <1>1, <1>3, <1>7 DEF RequestOK
  <1> QED BY <1>3, <1>4, <1>5, <1>6, <1>9, <1>10, <1>11, <1>12, OneShipment DEF ShipmentOK

\* The other handlers only read before their first await, and remember what
\* their next statement relies on.
LEMMA ReadSteps ==
  ASSUME TypeInv, ShipmentInv, NEW r \in Request, NEW u \in User, NEW s \in Shipment,
         \/ \E o \in Org \cup {Nil} : UpdateRead(r, u, s, o)
         \/ \E st \in Asked : StatusRead(r, u, s, st)
         \/ RouteRead(r, u, s) \/ AcceptRead(r, u, s) \/ RemoveRead(r, u, s)
  PROVE  ShipmentInv' /\ Grows
  <1>1. Exists(s) /\ Exists(s)' /\ UNCHANGED <<row, timeline, published, forced>>
    BY DEF UpdateRead, StatusRead, RouteRead, AcceptRead, RemoveRead, Enter, Exists, row
  <1>2. ASSUME NEW handler, NEW next, NEW l, Enter(r, handler, next, l), l.ship = s,
               next \notin {"idle", "statusTx", "statusPublish", "statusAlert", "updateWrite",
                            "acceptCount", "acceptWrite"}
        PROVE  ShipmentInv' /\ Grows
    <2>1. /\ pc'[r] = next /\ loc'[r] = l
          /\ \A q \in Request \ {r} : pc'[q] = pc[q] /\ loc'[q] = loc[q]
      BY <1>2, Entered
    <2>2. RequestOK(r)'
      BY <1>1, <1>2, <2>1 DEF RequestOK
    <2> QED BY <1>1, <2>1, <2>2, QuietStep
  <1>3. CASE RouteRead(r, u, s) \/ RemoveRead(r, u, s)
    <2>1. PICK l : l.ship = s /\ (\/ Enter(r, "route", "routeWrite", l)
                                 \/ Enter(r, "remove", "removeDelete", l))
      BY <1>3 DEF RouteRead, RemoveRead, Blank
    <2> QED BY <1>2, <2>1
  <1>4. ASSUME NEW o \in Org \cup {Nil}, UpdateRead(r, u, s, o)
        PROVE  ShipmentInv' /\ Grows
    <2> DEFINE l == [Blank EXCEPT !.ship = s, !.org = o]
    <2>1. l.ship = s /\ l.org = o /\ Enter(r, "update", "updateWrite", l) /\ o # shipper[s]
      BY <1>4 DEF UpdateRead, Blank
    <2> HIDE DEF l
    <2>2. /\ pc'[r] = "updateWrite" /\ loc'[r] = l
          /\ \A q \in Request \ {r} : pc'[q] = pc[q] /\ loc'[q] = loc[q]
      BY <2>1, Entered
    <2>3. RequestOK(r)'
      BY <1>1, <2>1, <2>2 DEF RequestOK, row
    <2> QED BY <1>1, <2>2, <2>3, QuietStep
  <1>5. ASSUME NEW st \in Asked, StatusRead(r, u, s, st)
        PROVE  ShipmentInv' /\ Grows
    <2> DEFINE l == [Blank EXCEPT !.ship = s, !.seen = status[s], !.next = st]
    <2>1. l.ship = s /\ l.seen = status[s] /\ l.next = st /\ Enter(r, "status", "statusTx", l)
          /\ Follows(status[s], st)
      BY <1>5 DEF StatusRead, Blank
    <2> HIDE DEF l
    <2>2. /\ pc'[r] = "statusTx" /\ loc'[r] = l
          /\ \A q \in Request \ {r} : pc'[q] = pc[q] /\ loc'[q] = loc[q]
      BY <2>1, Entered
    <2>3. ~forced[s] => Recorded(s, Past(status[s]))
      BY <1>1 DEF ShipmentInv, ShipmentOK, TimelineOK
    <2>4. UNCHANGED <<timeline, forced>>
      BY <1>1
    <2>5. RequestOK(r)'
      BY <1>1, <2>1, <2>2, <2>3, <2>4 DEF RequestOK, Recorded
    <2> QED BY <1>1, <2>2, <2>5, QuietStep
  <1>6. CASE AcceptRead(r, u, s)
    <2> DEFINE l == [Blank EXCEPT !.ship = s, !.user = u, !.seen = status[s],
                                  !.org = carrierOrg[s], !.driver = carrierUser[s]]
    <2>1. l.ship = s /\ l.user = u /\ l.org = carrierOrg[s] /\ Enter(r, "accept", "acceptCount", l)
          /\ TypeOf[OrgOf[u]] = "carrier" /\ carrierOrg[s] \in {Nil, OrgOf[u]}
      BY <1>6 DEF AcceptRead, Blank
    <2> HIDE DEF l
    <2>2. /\ pc'[r] = "acceptCount" /\ loc'[r] = l
          /\ \A q \in Request \ {r} : pc'[q] = pc[q] /\ loc'[q] = loc[q]
      BY <2>1, Entered
    <2>3. RequestOK(r)'
      BY <1>1, <2>1, <2>2 DEF RequestOK
    <2> QED BY <1>1, <2>2, <2>3, QuietStep
  <1> QED BY <1>3, <1>4, <1>5, <1>6

\* What a request at work knows of its shipment
LEMMA AtWork ==
  ASSUME TypeInv, ShipmentInv, NEW r \in Request, pc[r] # "idle"
  PROVE  RequestOK(r) /\ \E s \in Shipment : loc[r].ship = s /\ Exists(s) /\ ShipmentOK(s)
  BY LocalsAt DEF Fits, ShipmentInv, RequestOK

\* The publications of create, assignRoute and accept (225-236, 690-703, 1295-1306)
LEMMA PlainPublishSteps ==
  ASSUME TypeInv, ShipmentInv, NEW r \in Request,
         CreatePublish(r) \/ RoutePublish(r) \/ AcceptPublish(r)
  PROVE  ShipmentInv' /\ Grows
  <1>1. PICK key \in {"shipment.created", "shipment.route_assigned", "shipment.accepted"} :
            Publish(loc[r].ship, Tell(key))
    BY DEF CreatePublish, RoutePublish, AcceptPublish
  <1>2. PICK at \in {"createPublish", "routePublish", "acceptPublish"} : Answer(r, at)
    BY DEF CreatePublish, RoutePublish, AcceptPublish
  <1>3. pc[r] = at /\ RequestOK(r)' /\ \A q \in Request \ {r} : pc'[q] = pc[q] /\ loc'[q] = loc[q]
    BY <1>2, Answered
  <1>4. PICK s \in Shipment : loc[r].ship = s /\ Exists(s) /\ ShipmentOK(s)
    BY <1>3, AtWork
  <1>5. UNCHANGED <<row, timeline, forced>>
    BY DEF CreatePublish, RoutePublish, AcceptPublish, history
  <1>6. ShipmentOK(s)' /\ published[s] \subseteq published'[s] /\ \A z \in Shipment \ {s} : Same(z)
    BY <1>1, <1>4, <1>5, PlainMessageKeeps
  <1>7. UNCHANGED <<status, shipper, timeline, forced>>
    BY <1>5 DEF row
  <1> QED BY <1>3, <1>4, <1>6, <1>7, OneShipment DEF Exists

\* update writes the carrier it checked against a shipper that does not change
\* (425-429, 494-496).
LEMMA UpdateWriteStep ==
  ASSUME TypeInv, ShipmentInv, NEW r \in Request, UpdateWrite(r)
  PROVE  ShipmentInv' /\ Grows
  <1>1. /\ pc[r] = "updateWrite" /\ RequestOK(r)'
        /\ \A q \in Request \ {r} : pc'[q] = pc[q] /\ loc'[q] = loc[q]
    BY Answered DEF UpdateWrite
  <1>2. PICK s \in Shipment : loc[r].ship = s /\ Exists(s) /\ ShipmentOK(s)
    BY <1>1, AtWork
  <1>3. loc[r].org # shipper[s]
    BY <1>1, <1>2, AtWork DEF RequestOK
  <1>4. UNCHANGED <<status, shipper, carrierUser, timeline, published, forced>>
    BY DEF UpdateWrite, history
  <1>5. carrierOrg'[s] = loc[r].org /\ \A z \in Shipment \ {s} : carrierOrg'[z] = carrierOrg[z]
    BY <1>2 DEF UpdateWrite, TypeInv, TypeOK
  <1>6. Exists(s)' /\ \A z \in Shipment \ {s} : Same(z)
    BY <1>2, <1>4, <1>5 DEF Same, Exists
  <1>7. ShipmentOK(s)'
    BY <1>2, <1>3, <1>4, <1>5 DEF ShipmentOK, AbsentOK, RowOK, TimelineOK, AnnouncedOK, Exists, Recorded
  <1> QED BY <1>1, <1>2, <1>4, <1>6, <1>7, OneShipment

\* assignRoute and accept note what they did (680-688, 1264-1272).
LEMMA NoteSteps ==
  ASSUME TypeInv, ShipmentInv, NEW r \in Request, RouteEvent(r) \/ AcceptEvent(r)
  PROVE  ShipmentInv' /\ Grows
  <1>1. PICK at \in {"routeEvent", "acceptEvent"}, next \in {"routePublish", "acceptPublish"} :
            Proceed(r, at, next)
    BY DEF RouteEvent, AcceptEvent
  <1>2. /\ pc[r] = at /\ pc'[r] = next /\ loc'[r] = loc[r]
        /\ \A q \in Request \ {r} : pc'[q] = pc[q] /\ loc'[q] = loc[q]
    BY <1>1, Proceeded
  <1>3. PICK s \in Shipment : loc[r].ship = s /\ Exists(s) /\ ShipmentOK(s)
    BY <1>2, AtWork
  <1>4. PICK type \in {"route_assigned", "carrier_assigned"} : Record(s, type, "confirmed", FALSE)
    BY <1>3 DEF RouteEvent, AcceptEvent
  <1>5. UNCHANGED <<row, published, forced>> /\ UNCHANGED shipper
    BY DEF RouteEvent, AcceptEvent, history, row
  <1>6. /\ ShipmentOK(s)' /\ timeline[s] \subseteq timeline'[s]
        /\ \A z \in Shipment \ {s} : Same(z)
        /\ Exists(s)'
    BY <1>3, <1>4, <1>5, NoteKeeps
  <1>7. RequestOK(r)'
    BY <1>2, <1>3, <1>6 DEF RequestOK
  <1> QED BY <1>2, <1>3, <1>5, <1>6, <1>7, OneShipment

\* assignRoute writes the route, which is no part of the model, and accept
\* decides (629-678, 1082-1110).
LEMMA DecideSteps ==
  ASSUME TypeInv, ShipmentInv, NEW r \in Request, RouteWrite(r) \/ AcceptCount(r)
  PROVE  ShipmentInv' /\ Grows
  <1>1. UNCHANGED <<row, timeline, published, forced>>
    BY DEF RouteWrite, AcceptCount, history
  <1>2. ASSUME NEW at, Answer(r, at)
        PROVE  ShipmentInv' /\ Grows
    BY <1>1, <1>2, Answered, QuietStep
  <1>3. CASE RouteWrite(r)
    <2>1. /\ pc[r] = "routeWrite" /\ pc'[r] = "routeEvent" /\ loc'[r] = loc[r]
          /\ \A q \in Request \ {r} : pc'[q] = pc[q] /\ loc'[q] = loc[q]
      BY <1>3, Proceeded DEF RouteWrite
    <2>2. RequestOK(r)'
      BY <1>1, <2>1, AtWork DEF RequestOK, Exists, row
    <2> QED BY <1>1, <2>1, <2>2, QuietStep
  <1>4. ASSUME Proceed(r, "acceptCount", "acceptWrite"),
               ~(loc[r].org = OrgOf[loc[r].user] /\ loc[r].driver # Nil)
        PROVE  ShipmentInv' /\ Grows
    <2>1. /\ pc[r] = "acceptCount" /\ pc'[r] = "acceptWrite" /\ loc'[r] = loc[r]
          /\ \A q \in Request \ {r} : pc'[q] = pc[q] /\ loc'[q] = loc[q]
      BY <1>4, Proceeded
    <2>2. RequestOK(r)'
      BY <1>1, <1>4, <2>1, AtWork DEF RequestOK, Exists, row
    <2> QED BY <1>1, <2>1, <2>2, QuietStep
  <1> QED BY <1>2, <1>3, <1>4 DEF AcceptCount

\* updateStatus writes a status the table allowed from the one it read: the
\* timeline had recorded all the milestones of that one (770-778, 819-909).
LEMMA StatusTxStep ==
  ASSUME TypeInv, ShipmentInv, NEW r \in Request, StatusTx(r)
  PROVE  ShipmentInv' /\ Grows
  <1> DEFINE l == [loc[r] EXCEPT !.seen = Nil]
  <1>1. Goto(r, "statusTx", "statusPublish") /\ loc' = [loc EXCEPT ![r] = l]
    BY DEF StatusTx
  <1>2. l.ship = loc[r].ship /\ l.next = loc[r].next
    BY LocalsAt DEF Locals
  <1> HIDE DEF l
  <1>3. /\ pc[r] = "statusTx" /\ pc'[r] = "statusPublish" /\ loc'[r] = l
        /\ \A q \in Request \ {r} : pc'[q] = pc[q] /\ loc'[q] = loc[q]
    <2>1. loc'[r] = l /\ \A q \in Request \ {r} : loc'[q] = loc[q]
      BY <1>1, LocSet
    <2> QED BY <1>1, <2>1, Moved
  <1>4. PICK s \in Shipment : loc[r].ship = s /\ Exists(s) /\ ShipmentOK(s)
    BY <1>3, AtWork
  <1>5. PICK st \in Status : loc[r].next = st
    BY <1>3, LocalsAt DEF Fits
  <1>6. PICK from \in Status : loc[r].seen = from
    BY <1>3, LocalsAt DEF Fits
  <1>7. Follows(from, st) /\ (~forced[s] => Recorded(s, Past(from)))
    BY <1>3, <1>4, <1>5, <1>6, AtWork DEF RequestOK
  <1>8. Milestones(st) \subseteq Past(from)
    BY <1>7, TablePassesMilestones
  <1>9. status'[s] = st /\ timeline'[s] = timeline[s] \cup {Changed(st)}
    BY <1>4, <1>5 DEF StatusTx, Record, Changed, TypeInv, TypeOK
  <1>10. UNCHANGED <<shipper, carrierOrg, carrierUser, published, forced>>
    BY DEF StatusTx, history
  <1>11. \A z \in Shipment \ {s} : Same(z)
    BY <1>4, <1>10 DEF StatusTx, Record, Same, TypeInv, TypeOK
  <1>12. Exists(s)'
    BY <1>9, TypeAssumption DEF Exists
  <1>13. RowOK(s)' /\ AbsentOK(s)'
    BY <1>4, <1>9, <1>10, <1>12 DEF ShipmentOK, RowOK, AbsentOK
  <1>14. ~forced[s] => \A m \in Milestones(st) : Changed(m) \in timeline[s]
    BY <1>7, <1>8 DEF Recorded
  <1>15. TimelineOK(s)'
    <2>1. SUFFICES ASSUME ~forced[s]
                   PROVE  /\ \A m \in Past(st) : Changed(m) \in timeline'[s]
                          /\ \A x \in Status : Changed(x) \in timeline'[s] =>
                                \A m \in Milestones(x) : Changed(m) \in timeline'[s]
      BY <1>9, <1>10 DEF TimelineOK, Recorded
    <2>2. \A m \in Past(st) : Changed(m) \in timeline'[s]
      BY <1>9, <1>14, <2>1 DEF Past
    <2>3. ASSUME NEW x \in Status, Changed(x) \in timeline'[s]
          PROVE  \A m \in Milestones(x) : Changed(m) \in timeline'[s]
      <3>1. CASE Changed(x) \in timeline[s]
        BY <1>4, <1>9, <2>1, <3>1 DEF ShipmentOK, TimelineOK, Recorded
      <3>2. CASE Changed(x) = Changed(st)
        <4>1. x = st
          BY <3>2 DEF Changed
        <4> QED BY <1>9, <1>14, <2>1, <4>1
      <3> QED BY <1>9, <2>3, <3>1, <3>2
    <2> QED BY <2>2, <2>3
  <1>16. AnnouncedOK(s)'
    BY <1>4, <1>9, <1>10 DEF ShipmentOK, AnnouncedOK
  <1>17. RequestOK(r)'
    BY <1>2, <1>3, <1>4, <1>5, <1>9, <1>12 DEF RequestOK
  <1> QED BY <1>3, <1>4, <1>9, <1>10, <1>11, <1>12, <1>13, <1>15, <1>16, <1>17, OneShipment DEF ShipmentOK

\* updateStatus announces the status the timeline has (911-938).
LEMMA StatusPublishStep ==
  ASSUME TypeInv, ShipmentInv, NEW r \in Request, StatusPublish(r)
  PROVE  ShipmentInv' /\ Grows
  <1>1. pc[r] = "statusPublish" /\ \A q \in Request \ {r} : pc'[q] = pc[q] /\ loc'[q] = loc[q]
    BY Answered, Proceeded DEF StatusPublish
  <1>2. PICK s \in Shipment : loc[r].ship = s /\ Exists(s) /\ ShipmentOK(s)
    BY <1>1, AtWork
  <1>3. PICK st \in Status : loc[r].next = st
    BY <1>1, LocalsAt DEF Fits
  <1>4. PICK late \in {{}, {Tell("shipment.delayed")}} :
            published' = [published EXCEPT ![s] = (published[s] \cup {TellStatus(st)}) \cup late]
    BY <1>2, <1>3 DEF StatusPublish
  <1> DEFINE ms == {TellStatus(st)} \cup late
  <1>5. published' = [published EXCEPT ![s] = @ \cup ms] /\ TellStatus(st) \in ms
    BY <1>4
  <1>6. published'[s] = published[s] \cup ms
    BY <1>5 DEF TypeInv, TypeOK
  <1>7. /\ \A x : TellStatus(x) \in ms => x = st
        /\ Tell("shipment.delivered") \notin ms /\ Tell("shipment.exception") \notin ms
    BY <1>4 DEF Tell, TellStatus
  <1> HIDE DEF ms
  <1>8. Changed(st) \in timeline[s]
    BY <1>1, <1>2, <1>3, AtWork DEF RequestOK
  <1>9. UNCHANGED <<row, timeline, forced>>
    BY DEF StatusPublish, history
  <1>10. AnnouncedOK(s)'
    BY <1>2, <1>6, <1>7, <1>8, <1>9 DEF ShipmentOK, AnnouncedOK
  <1>11. /\ ShipmentOK(s)' /\ published[s] \subseteq published'[s] /\ ms \subseteq published'[s]
         /\ \A z \in Shipment \ {s} : Same(z)
    BY <1>2, <1>5, <1>9, <1>10, MessageKeeps
  <1>12. UNCHANGED <<status, shipper, timeline, forced>>
    BY <1>9 DEF row
  <1>13. RequestOK(r)'
    <2>1. CASE Answer(r, "statusPublish")
      BY <2>1, Answered
    <2>2. CASE Proceed(r, "statusPublish", "statusAlert") /\ loc[r].next \in {"delivered", "customs_hold"}
      <3>1. pc'[r] = "statusAlert" /\ loc'[r] = loc[r]
        BY <2>2, Proceeded
      <3>2. TellStatus(st) \in published'[s] /\ Exists(s)'
        BY <1>2, <1>5, <1>11, <1>12 DEF Exists
      <3> QED BY <1>2, <1>3, <2>2, <3>1, <3>2 DEF RequestOK
    <2> QED BY <2>1, <2>2 DEF StatusPublish
  <1> QED BY <1>1, <1>2, <1>11, <1>12, <1>13, OneShipment DEF Exists

\* The alert of a delivery or a customs hold comes after its status (939-961).
LEMMA StatusAlertStep ==
  ASSUME TypeInv, ShipmentInv, NEW r \in Request, StatusAlert(r)
  PROVE  ShipmentInv' /\ Grows
  <1>1. /\ pc[r] = "statusAlert" /\ RequestOK(r)'
        /\ \A q \in Request \ {r} : pc'[q] = pc[q] /\ loc'[q] = loc[q]
    BY Answered DEF StatusAlert
  <1>2. PICK s \in Shipment : loc[r].ship = s /\ Exists(s) /\ ShipmentOK(s)
    BY <1>1, AtWork
  <1>3. loc[r].next \in {"delivered", "customs_hold"} /\ TellStatus(loc[r].next) \in published[s]
    BY <1>1, <1>2, AtWork DEF RequestOK
  <1> DEFINE ms == {Tell(IF loc[r].next = "delivered" THEN "shipment.delivered" ELSE "shipment.exception")}
  <1>4. published' = [published EXCEPT ![s] = @ \cup ms]
    BY <1>2 DEF StatusAlert, Publish
  <1>5. published'[s] = published[s] \cup ms
    BY <1>2, <1>4 DEF TypeInv, TypeOK
  <1>6. /\ \A x : TellStatus(x) \notin ms
        /\ Tell("shipment.delivered") \in ms => loc[r].next = "delivered"
        /\ Tell("shipment.exception") \in ms => loc[r].next = "customs_hold"
    BY <1>3 DEF Tell, TellStatus
  <1> HIDE DEF ms
  <1>7. UNCHANGED <<row, timeline, forced>>
    BY DEF StatusAlert, history
  <1>8. AnnouncedOK(s)'
    BY <1>2, <1>3, <1>5, <1>6, <1>7 DEF ShipmentOK, AnnouncedOK
  <1>9. /\ ShipmentOK(s)' /\ published[s] \subseteq published'[s]
        /\ \A z \in Shipment \ {s} : Same(z)
    BY <1>2, <1>4, <1>7, <1>8, MessageKeeps
  <1>10. UNCHANGED <<status, shipper, timeline, forced>>
    BY <1>7 DEF row
  <1> QED BY <1>1, <1>2, <1>9, <1>10, OneShipment DEF Exists

\* accept writes a driver of a carrier organization, and with it no status that
\* asks anything of the timeline (1109-1163, 1207-1262).
LEMMA AcceptWriteStep ==
  ASSUME TypeInv, ShipmentInv, NEW r \in Request, AcceptWrite(r)
  PROVE  ShipmentInv' /\ Grows
  <1> DEFINE l == [Blank EXCEPT !.ship = loc[r].ship]
  <1>1. Goto(r, "acceptWrite", "acceptEvent") /\ loc' = [loc EXCEPT ![r] = l]
    BY DEF AcceptWrite
  <1>2. l.ship = loc[r].ship
    BY DEF Blank
  <1> HIDE DEF l
  <1>3. /\ pc[r] = "acceptWrite" /\ pc'[r] = "acceptEvent" /\ loc'[r] = l
        /\ \A q \in Request \ {r} : pc'[q] = pc[q] /\ loc'[q] = loc[q]
    <2>1. loc'[r] = l /\ \A q \in Request \ {r} : loc'[q] = loc[q]
      BY <1>1, LocSet
    <2> QED BY <1>1, <2>1, Moved
  <1>4. PICK s \in Shipment : loc[r].ship = s /\ Exists(s) /\ ShipmentOK(s)
    BY <1>3, AtWork
  <1>5. PICK u \in User : loc[r].user = u
    BY <1>3, LocalsAt DEF Fits
  <1>6. TypeOf[OrgOf[u]] = "carrier"
    BY <1>3, <1>5, AtWork DEF RequestOK
  <1>7. UNCHANGED <<shipper, timeline, published, forced>>
    BY DEF AcceptWrite, history
  <1>8. /\ carrierUser'[s] = u
        /\ carrierOrg'[s] \in {carrierOrg[s], OrgOf[u]}
        /\ status'[s] \in {status[s], "confirmed"}
    BY <1>4, <1>5 DEF AcceptWrite, TypeInv, TypeOK
  <1>9. \A z \in Shipment \ {s} : Same(z)
    BY <1>4, <1>7 DEF AcceptWrite, Same, TypeInv, TypeOK
  <1>10. Exists(s)'
    BY <1>4, <1>8, StatusNames, TypeAssumption DEF Exists
  <1>11. shipper[s] # OrgOf[u]
    BY <1>4, <1>6 DEF ShipmentOK, RowOK
  <1>12. RowOK(s)' /\ AbsentOK(s)'
    BY <1>4, <1>6, <1>7, <1>8, <1>10, <1>11 DEF ShipmentOK, RowOK, AbsentOK
  <1>13. TimelineOK(s)'
    BY <1>4, <1>7, <1>8, FreeStatuses DEF ShipmentOK, TimelineOK, Recorded
  <1>14. AnnouncedOK(s)'
    BY <1>4, <1>7 DEF ShipmentOK, AnnouncedOK
  <1>15. RequestOK(r)'
    BY <1>2, <1>3, <1>4, <1>10 DEF RequestOK
  <1> QED BY <1>3, <1>4, <1>7, <1>9, <1>10, <1>12, <1>13, <1>14, <1>15, OneShipment DEF ShipmentOK

\* The deletion is refused: every row has an event (1327).
LEMMA RemoveDeleteStep ==
  ASSUME TypeInv, ShipmentInv, NEW r \in Request, RemoveDelete(r)
  PROVE  /\ ShipmentInv' /\ Grows
         /\ UNCHANGED status
  <1>1. /\ pc[r] = "removeDelete" /\ RequestOK(r)'
        /\ \A q \in Request \ {r} : pc'[q] = pc[q] /\ loc'[q] = loc[q]
    BY Answered DEF RemoveDelete
  <1>2. PICK s \in Shipment : loc[r].ship = s /\ Exists(s) /\ ShipmentOK(s)
    BY <1>1, AtWork
  <1>3. timeline[s] # {}
    BY <1>2 DEF ShipmentOK, RowOK
  <1>4. status' = status
    BY <1>2, <1>3 DEF RemoveDelete, TypeInv, TypeOK
  <1>5. UNCHANGED <<row, timeline, published, forced>>
    BY <1>4 DEF RemoveDelete, row, history
  <1> QED BY <1>1, <1>4, <1>5, QuietStep

\* An administrator sets a status by hand (admin.service.ts 559-614).
LEMMA AdminStatusStep ==
  ASSUME TypeInv, ShipmentInv, NEW s \in Shipment, NEW st \in Asked, AdminStatus(s, st)
  PROVE  ShipmentInv' /\ Grows
  <1> DEFINE e == [type |-> "status_change", status |-> st, admin |-> TRUE]
  <1>1. timeline' = [timeline EXCEPT ![s] = @ \cup {e}]
    BY DEF AdminStatus, Record
  <1> HIDE DEF e
  <1>2. st \in Status /\ Exists(s) /\ ShipmentOK(s)
    BY StatusNames DEF AdminStatus, ShipmentInv
  <1>3. UNCHANGED <<shipper, carrierOrg, carrierUser, published, pc, loc>>
    BY DEF AdminStatus
  <1>4. status'[s] = st /\ forced'[s] /\ timeline'[s] = timeline[s] \cup {e}
    BY <1>1 DEF AdminStatus, TypeInv, TypeOK
  <1>5. \A z \in Shipment \ {s} : Same(z)
    BY <1>1, <1>3 DEF AdminStatus, Same, TypeInv, TypeOK
  <1>6. Exists(s)'
    BY <1>2, <1>4, TypeAssumption DEF Exists
  <1>7. ShipmentOK(s)'
    BY <1>2, <1>3, <1>4, <1>6 DEF ShipmentOK, AbsentOK, RowOK, TimelineOK, AnnouncedOK
  <1>8. Grows
    BY <1>3, <1>4, <1>5, <1>6 DEF Grows, Same, Exists
  <1>9. \A z \in Shipment : ShipmentOK(z)'
    BY <1>5, <1>7, SameKeeps DEF ShipmentInv
  <1>10. \A q \in Request : RequestOK(q)'
    BY <1>3, <1>8, RequestKept DEF ShipmentInv
  <1> QED BY <1>8, <1>9, <1>10 DEF ShipmentInv

\* An administrator cancels many shipments (admin.service.ts 616-677).
LEMMA BulkCancelStep ==
  ASSUME TypeInv, ShipmentInv, NEW ids \in SUBSET Shipment \ {{}}, BulkCancel(ids)
  PROVE  ShipmentInv' /\ Grows
  <1>1. UNCHANGED <<shipper, carrierOrg, carrierUser, timeline, published, pc, loc>>
    BY DEF BulkCancel
  <1>2. \A s \in Shipment : /\ s \in ids /\ Exists(s) => status'[s] = "cancelled" /\ forced'[s]
                            /\ ~(s \in ids /\ Exists(s)) => status'[s] = status[s] /\ forced'[s] = forced[s]
    BY DEF BulkCancel, TypeInv, TypeOK
  <1>3. "cancelled" # Nil
    BY StatusNames, TypeAssumption
  <1>4. Grows
    BY <1>1, <1>2, <1>3 DEF Grows, Exists
  <1>5. ASSUME NEW s \in Shipment
        PROVE  ShipmentOK(s)'
    <2>1. ShipmentOK(s)
      BY DEF ShipmentInv
    <2>2. CASE s \in ids /\ Exists(s)
      <3>1. status'[s] = "cancelled" /\ forced'[s] /\ Exists(s)'
        BY <1>2, <1>3, <2>2 DEF Exists
      <3> QED BY <1>1, <2>1, <2>2, <3>1 DEF ShipmentOK, AbsentOK, RowOK, TimelineOK, AnnouncedOK
    <2>3. CASE ~(s \in ids /\ Exists(s))
      BY <1>1, <1>2, <2>1, <2>3, SameKeeps DEF Same
    <2> QED BY <2>2, <2>3
  <1>6. \A q \in Request : RequestOK(q)'
    BY <1>1, <1>4, RequestKept DEF ShipmentInv
  <1> QED BY <1>4, <1>5, <1>6 DEF ShipmentInv

-----------------------------------------------------------------------------
(* The invariant                                                             *)

\* No row, no event, no request
LEMMA ShipmentInit == Init => ShipmentInv
  BY DEF Init, ShipmentInv, ShipmentOK, AbsentOK, RowOK, TimelineOK, AnnouncedOK, Exists, RequestOK, Recorded

\* Every step keeps what rows, timelines and requests say of each other.
LEMMA ShipmentStep ==
  ASSUME TypeInv, ShipmentInv, [Next]_vars
  PROVE  ShipmentInv'
  <1>1. ASSUME NEW r \in Request, Call(r)
        PROVE  ShipmentInv'
    BY <1>1, CreateTxStep, ReadSteps DEF Call
  <1>2. ASSUME NEW r \in Request, Continue(r)
        PROVE  ShipmentInv'
    BY <1>2, PlainPublishSteps, UpdateWriteStep, NoteSteps, DecideSteps, StatusTxStep, StatusPublishStep,
       StatusAlertStep, AcceptWriteStep, RemoveDeleteStep DEF Continue
  <1>3. CASE UNCHANGED vars
    BY <1>3, SameKeeps DEF vars, row, history, ShipmentInv, Same, RequestOK, Exists, Recorded
  <1> QED BY <1>1, <1>2, <1>3, AdminStatusStep, BulkCancelStep DEF Next

\* The inductive invariant: rows agree with their timelines, announcements with
\* both, and a request in flight still knows what it relies on.
THEOREM ShipmentsConsistent == Spec => [](TypeInv /\ ShipmentInv)
  <1>1. TypeInv /\ ShipmentInv /\ [Next]_vars => (TypeInv /\ ShipmentInv)'
    BY TypeStep, ShipmentStep
  <1> QED BY TypeInit, ShipmentInit, <1>1, PTL DEF Spec

-----------------------------------------------------------------------------
(* The properties                                                            *)

\* Without an override by an administrator, no milestone is skipped, however
\* stale the statuses the updates decided from.
THEOREM MilestonesRecorded == Spec => []NoMilestoneSkipped
  <1>1. TypeInv /\ ShipmentInv => NoMilestoneSkipped
    BY DEF ShipmentInv, ShipmentOK, TimelineOK, Recorded, NoMilestoneSkipped
  <1> QED BY ShipmentsConsistent, <1>1, PTL

\* Drivers belong to carriers, and no organization carries its own shipment.
THEOREM CarriersOnly == Spec => []CarriersCarry
  <1>1. TypeInv /\ ShipmentInv => CarriersCarry
    BY DEF ShipmentInv, ShipmentOK, RowOK, CarriersCarry
  <1> QED BY ShipmentsConsistent, <1>1, PTL

\* Nothing is announced before it is committed.
THEOREM CommittedFirst == Spec => []AnnouncedAfterCommit
  <1>1. TypeInv /\ ShipmentInv => AnnouncedAfterCommit
    BY DEF ShipmentInv, ShipmentOK, AnnouncedOK, AnnouncedAfterCommit
  <1> QED BY ShipmentsConsistent, <1>1, PTL

\* A request that starts leaves the rows there are: only create writes at once, and
\* where no row is.
LEMMA CallKeepsRows ==
  ASSUME TypeInv, NEW r \in Request, Call(r), NEW s \in Shipment, Exists(s)
  PROVE  status'[s] = status[s] /\ carrierUser'[s] = carrierUser[s]
  <1>1. PICK u \in User, z \in Shipment :
            \/ \E o \in Org \cup {Nil} : CreateTx(r, u, z, o) \/ UpdateRead(r, u, z, o)
            \/ \E st \in Asked : StatusRead(r, u, z, st)
            \/ RouteRead(r, u, z) \/ AcceptRead(r, u, z) \/ RemoveRead(r, u, z)
    BY DEF Call
  <1>2. ASSUME NEW o, CreateTx(r, u, z, o)
        PROVE  status'[s] = status[s] /\ carrierUser'[s] = carrierUser[s]
    BY <1>2 DEF CreateTx, Exists, TypeInv, TypeOK
  <1>3. ASSUME UNCHANGED row
        PROVE  status'[s] = status[s] /\ carrierUser'[s] = carrierUser[s]
    BY <1>3 DEF row
  <1> QED BY <1>1, <1>2, <1>3 DEF UpdateRead, StatusRead, RouteRead, AcceptRead, RemoveRead

\* What may write the status of a shipment
LEMMA StatusWriters ==
  ASSUME TypeInv, ShipmentInv, [Next]_vars, NEW s \in Shipment, Exists(s), status'[s] # status[s]
  PROVE  \/ \E r \in Request : StatusTx(r) /\ loc[r].ship = s
         \/ \E r \in Request : AcceptWrite(r) /\ loc[r].ship = s
         \/ forced'[s]
  <1>1. ASSUME NEW r \in Request, Call(r)
        PROVE  FALSE
    BY <1>1, CallKeepsRows
  <1>2. ASSUME NEW r \in Request,
               CreatePublish(r) \/ UpdateWrite(r) \/ RouteWrite(r) \/ RouteEvent(r) \/ RoutePublish(r)
               \/ StatusPublish(r) \/ StatusAlert(r) \/ AcceptCount(r) \/ AcceptEvent(r) \/ AcceptPublish(r)
        PROVE  FALSE
    BY <1>2 DEF CreatePublish, UpdateWrite, RouteWrite, RouteEvent, RoutePublish, StatusPublish, StatusAlert,
       AcceptCount, AcceptEvent, AcceptPublish, row
  <1>3. ASSUME NEW r \in Request, RemoveDelete(r)
        PROVE  FALSE
    BY <1>3, RemoveDeleteStep
  <1>4. ASSUME NEW r \in Request, StatusTx(r) \/ AcceptWrite(r)
        PROVE  loc[r].ship = s
    BY <1>4 DEF StatusTx, AcceptWrite, TypeInv, TypeOK
  <1>5. ASSUME NEW z \in Shipment, NEW st \in Asked, AdminStatus(z, st)
        PROVE  forced'[s]
    BY <1>5 DEF AdminStatus, TypeInv, TypeOK
  <1>6. ASSUME NEW ids \in SUBSET Shipment \ {{}}, BulkCancel(ids)
        PROVE  forced'[s]
    BY <1>6 DEF BulkCancel, TypeInv, TypeOK
  <1>7. ~UNCHANGED vars
    BY DEF vars, row
  <1> QED BY <1>1, <1>2, <1>3, <1>4, <1>5, <1>6, <1>7 DEF Next, Continue

\* Unless a request decides from a status that is gone, or an administrator
\* steps in, a step follows the transition table.
THEOREM TableFollowed == Spec => OnlyRacesLeaveTheTable
  <1>1. ASSUME TypeInv, ShipmentInv, [Next]_vars, NEW s \in Shipment, Exists(s),
               \A r \in Request : Deciding(r, s) => loc[r].seen = status[s]
        PROVE  Follows(status[s], status'[s]) \/ forced'[s]
    <2>1. CASE status'[s] = status[s]
      BY <2>1 DEF Follows
    <2>2. ASSUME NEW r \in Request, StatusTx(r), loc[r].ship = s
          PROVE  Follows(status[s], status'[s])
      <3>1. pc[r] = "statusTx" /\ status'[s] = loc[r].next
        BY <1>1, <2>2 DEF StatusTx, Goto, TypeInv, TypeOK
      <3>2. loc[r].seen = status[s]
        BY <1>1, <2>2, <3>1 DEF Deciding
      <3>3. Follows(loc[r].seen, loc[r].next)
        BY <1>1, <3>1 DEF ShipmentInv, RequestOK
      <3> QED BY <3>1, <3>2, <3>3
    <2>3. ASSUME NEW r \in Request, AcceptWrite(r), loc[r].ship = s
          PROVE  Follows(status[s], status'[s])
      <3>1. pc[r] = "acceptWrite"
        BY <2>3 DEF AcceptWrite, Goto
      <3>2. loc[r].seen = status[s]
        BY <1>1, <2>3, <3>1 DEF Deciding
      <3>3. status'[s] = status[s] \/ (loc[r].seen = "draft" /\ status'[s] = "confirmed")
        BY <1>1, <2>3 DEF AcceptWrite, TypeInv, TypeOK
      <3> QED BY <3>2, <3>3, FreeStatuses DEF Follows
    <2> QED BY <1>1, <2>1, <2>2, <2>3, StatusWriters
  <1>2. TypeInv /\ ShipmentInv /\ [Next]_vars =>
            [\A s \in Shipment :
                /\ Exists(s)
                /\ \A r \in Request : Deciding(r, s) => loc[r].seen = status[s]
                => \/ Follows(status[s], status'[s])
                   \/ forced'[s]]_vars
    BY <1>1
  <1> QED BY ShipmentsConsistent, <1>2, PTL DEF Spec, OnlyRacesLeaveTheTable

\* Unless a claim decides from a driver or an organization that is gone, the
\* driver of a shipment that has a carrier stays.
THEOREM DriversStay == Spec => OnlyRacesDisplaceADriver
  <1>1. ASSUME TypeInv, ShipmentInv, [Next]_vars, NEW s \in Shipment,
               carrierUser[s] # Nil, carrierOrg[s] # Nil,
               \A r \in Request : pc[r] \in {"acceptCount", "acceptWrite"} /\ loc[r].ship = s
                    => loc[r].driver = carrierUser[s] /\ loc[r].org = carrierOrg[s]
        PROVE  carrierUser'[s] = carrierUser[s]
    <2>1. ASSUME NEW r \in Request, AcceptWrite(r)
          PROVE  carrierUser'[s] = carrierUser[s]
      <3>1. pc[r] = "acceptWrite" /\ RequestOK(r)
        BY <1>1, <2>1 DEF AcceptWrite, Goto, ShipmentInv
      <3>2. loc[r].org \in {Nil, OrgOf[loc[r].user]}
            /\ (loc[r].org = OrgOf[loc[r].user] => loc[r].driver = Nil)
        BY <3>1 DEF RequestOK
      <3>3. loc[r].ship # s
        BY <1>1, <3>1, <3>2
      <3> QED BY <1>1, <2>1, <3>3 DEF AcceptWrite, TypeInv, TypeOK
    <2>2. ASSUME NEW r \in Request, Call(r)
          PROVE  carrierUser'[s] = carrierUser[s]
      <3>1. CASE Exists(s)
        BY <2>2, <3>1, CallKeepsRows, <1>1
      <3>2. CASE ~Exists(s)
        BY <1>1, <3>2 DEF ShipmentInv, ShipmentOK, AbsentOK
      <3> QED BY <3>1, <3>2
    <2>3. ASSUME NEW r \in Request,
                 CreatePublish(r) \/ UpdateWrite(r) \/ RouteWrite(r) \/ RouteEvent(r) \/ RoutePublish(r)
                 \/ StatusTx(r) \/ StatusPublish(r) \/ StatusAlert(r)
                 \/ AcceptCount(r) \/ AcceptEvent(r) \/ AcceptPublish(r) \/ RemoveDelete(r)
          PROVE  carrierUser'[s] = carrierUser[s]
      BY <2>3 DEF CreatePublish, UpdateWrite, RouteWrite, RouteEvent, RoutePublish, StatusTx, StatusPublish,
         StatusAlert, AcceptCount, AcceptEvent, AcceptPublish, RemoveDelete, row
    <2>4. ASSUME (\E z \in Shipment, st \in Asked : AdminStatus(z, st))
                 \/ (\E ids \in SUBSET Shipment \ {{}} : BulkCancel(ids)) \/ UNCHANGED vars
          PROVE  carrierUser'[s] = carrierUser[s]
      BY <2>4 DEF AdminStatus, BulkCancel, vars, row
    <2> QED BY <1>1, <2>1, <2>2, <2>3, <2>4 DEF Next, Continue
  <1>2. TypeInv /\ ShipmentInv /\ [Next]_vars =>
            [\A s \in Shipment :
                /\ carrierUser[s] # Nil /\ carrierOrg[s] # Nil
                /\ \A r \in Request : pc[r] \in {"acceptCount", "acceptWrite"} /\ loc[r].ship = s
                        => loc[r].driver = carrierUser[s] /\ loc[r].org = carrierOrg[s]
                => carrierUser'[s] = carrierUser[s]]_vars
    BY <1>1
  <1> QED BY ShipmentsConsistent, <1>2, PTL DEF Spec, OnlyRacesDisplaceADriver

-----------------------------------------------------------------------------
(* The life of a status                                                      *)

\* The variables of ShipmentLife, as Shipments implements them
Opened     == [s \in Shipment |-> {loc[r].seen : r \in {q \in Request : Open(q, s)}}]
RecordedIn == [s \in Shipment |-> {st \in Status : Changed(st) \in timeline[s]}]
ToldIn     == [s \in Shipment |-> {st \in Status : TellStatus(st) \in published[s]}]

\* A request that neither opens nor closes a decision leaves all of them open.
LEMMA OpenedStays ==
  ASSUME NEW r \in Request, \A q \in Request \ {r} : pc'[q] = pc[q] /\ loc'[q] = loc[q],
         \A s \in Shipment : Open(r, s)' <=> Open(r, s),
         (\E s \in Shipment : Open(r, s)) => loc'[r].seen = loc[r].seen
  PROVE  Opened' = Opened
  <1>1. ASSUME NEW s \in Shipment, NEW q \in Request
        PROVE  /\ Open(q, s)' <=> Open(q, s)
               /\ Open(q, s) => loc'[q].seen = loc[q].seen
    BY <1>1 DEF Open, Deciding
  <1>2. ASSUME NEW s \in Shipment
        PROVE  {loc'[q].seen : q \in {x \in Request : Open(x, s)'}}
               = {loc[q].seen : q \in {x \in Request : Open(x, s)}}
    BY <1>1
  <1> QED BY <1>2 DEF Opened

\* A request that read z decides from the status it read.
LEMMA OpenedGains ==
  ASSUME NEW r \in Request, \A q \in Request \ {r} : pc'[q] = pc[q] /\ loc'[q] = loc[q],
         NEW z \in Shipment, \A s \in Shipment : ~Open(r, s),
         \A s \in Shipment : Open(r, s)' <=> s = z
  PROVE  Opened' = [Opened EXCEPT ![z] = @ \cup {loc'[r].seen}]
  <1>1. ASSUME NEW s \in Shipment, NEW q \in Request \ {r}
        PROVE  (Open(q, s)' <=> Open(q, s)) /\ loc'[q] = loc[q]
    BY <1>1 DEF Open, Deciding
  <1>2. {loc'[q].seen : q \in {x \in Request : Open(x, z)'}}
        = {loc[q].seen : q \in {x \in Request : Open(x, z)}} \cup {loc'[r].seen}
    BY <1>1
  <1>3. ASSUME NEW s \in Shipment \ {z}
        PROVE  {loc'[q].seen : q \in {x \in Request : Open(x, s)'}}
               = {loc[q].seen : q \in {x \in Request : Open(x, s)}}
    BY <1>1
  <1> QED BY <1>2, <1>3 DEF Opened

\* A decision that is done with stays open only if another request took it too.
LEMMA OpenedCloses ==
  ASSUME NEW r \in Request, \A q \in Request \ {r} : pc'[q] = pc[q] /\ loc'[q] = loc[q],
         NEW z \in Shipment, Open(r, z), \A s \in Shipment : ~Open(r, s)',
         NEW from, loc[r].seen = from
  PROVE  Life!Close(z, from) /\ from \in Opened[z]
  <1>1. ASSUME NEW s \in Shipment, NEW q \in Request \ {r}
        PROVE  (Open(q, s)' <=> Open(q, s)) /\ loc'[q] = loc[q]
    BY <1>1 DEF Open, Deciding
  <1>2. from \in Opened[z]
    BY DEF Opened
  <1>3. ASSUME NEW s \in Shipment \ {z}
        PROVE  {loc'[q].seen : q \in {x \in Request : Open(x, s)'}}
               = {loc[q].seen : q \in {x \in Request : Open(x, s)}}
    <2>1. ~Open(r, s)
      BY DEF Open, Deciding
    <2> QED BY <1>1, <2>1
  <1>4. CASE \E q \in Request \ {r} : Open(q, z) /\ loc[q].seen = from
    <2>1. {loc'[q].seen : q \in {x \in Request : Open(x, z)'}}
          = {loc[q].seen : q \in {x \in Request : Open(x, z)}}
      BY <1>1, <1>4
    <2>2. Opened' = Opened
      BY <1>3, <2>1 DEF Opened
    <2> QED BY <1>2, <2>2 DEF Life!Close, Opened
  <1>5. CASE ~\E q \in Request \ {r} : Open(q, z) /\ loc[q].seen = from
    <2>1. {loc'[q].seen : q \in {x \in Request : Open(x, z)'}}
          = {loc[q].seen : q \in {x \in Request : Open(x, z)}} \ {from}
      BY <1>1, <1>5
    <2>2. Opened' = [Opened EXCEPT ![z] = @ \ {from}]
      <3>1. Opened'[z] = Opened[z] \ {from}
        BY <2>1 DEF Opened
      <3>2. \A s \in Shipment \ {z} : Opened'[s] = Opened[s]
        BY <1>3 DEF Opened
      <3>3. Opened = [s \in Shipment |-> Opened[s]] /\ Opened' = [s \in Shipment |-> Opened'[s]]
        BY DEF Opened
      <3> QED BY <3>1, <3>2, <3>3
    <2> QED BY <1>2, <2>2 DEF Life!Close, Opened
  <1> QED BY <1>4, <1>5

\* Events of other kinds, and those an administrator leaves, record no change.
LEMMA NotesRecordNoChange ==
  ASSUME TypeInv, NEW z \in Shipment, NEW type, NEW st, NEW admin, Record(z, type, st, admin),
         type # "status_change" \/ admin = TRUE
  PROVE  RecordedIn' = RecordedIn
  <1>1. ASSUME NEW s \in Shipment, NEW x \in Status
        PROVE  Changed(x) \in timeline'[s] <=> Changed(x) \in timeline[s]
    BY DEF Changed, Record, TypeInv, TypeOK
  <1> QED BY <1>1 DEF RecordedIn, Changed

\* A change by a client is recorded.
LEMMA ChangesAreRecorded ==
  ASSUME TypeInv, NEW z \in Shipment, NEW st \in Status, Record(z, "status_change", st, FALSE)
  PROVE  RecordedIn' = [RecordedIn EXCEPT ![z] = @ \cup {st}]
  <1>1. ASSUME NEW s \in Shipment, NEW x \in Status
        PROVE  Changed(x) \in timeline'[s] <=> Changed(x) \in timeline[s] \/ (s = z /\ x = st)
    BY DEF Changed, Record, TypeInv, TypeOK
  <1>2. ASSUME NEW s \in Shipment
        PROVE  {x \in Status : Changed(x) \in timeline'[s]}
               = IF s = z THEN {x \in Status : Changed(x) \in timeline[s]} \cup {st}
                 ELSE {x \in Status : Changed(x) \in timeline[s]}
    BY <1>1
  <1> QED BY <1>2 DEF RecordedIn, Changed

\* Messages that name no status announce none.
LEMMA PlainMessagesTellNothing ==
  ASSUME TypeInv, NEW z \in Shipment, NEW key, key # "shipment.status_changed",
         Publish(z, Tell(key))
  PROVE  ToldIn' = ToldIn
  <1>1. ASSUME NEW s \in Shipment, NEW x \in Status
        PROVE  TellStatus(x) \in published'[s] <=> TellStatus(x) \in published[s]
    BY DEF TellStatus, Tell, Publish, TypeInv, TypeOK
  <1> QED BY <1>1 DEF ToldIn, TellStatus

\* A status that is published is announced, with or without the delay.
LEMMA StatusesAreTold ==
  ASSUME TypeInv, NEW z \in Shipment, NEW st \in Status,
         NEW late \in {{}, {Tell("shipment.delayed")}},
         published' = [published EXCEPT ![z] = (published[z] \cup {TellStatus(st)}) \cup late]
  PROVE  ToldIn' = [ToldIn EXCEPT ![z] = @ \cup {st}]
  <1>1. ASSUME NEW s \in Shipment, NEW x \in Status
        PROVE  TellStatus(x) \in published'[s] <=> TellStatus(x) \in published[s] \/ (s = z /\ x = st)
    BY DEF TellStatus, Tell, TypeInv, TypeOK
  <1>2. ASSUME NEW s \in Shipment
        PROVE  {x \in Status : TellStatus(x) \in published'[s]}
               = IF s = z THEN {x \in Status : TellStatus(x) \in published[s]} \cup {st}
                 ELSE {x \in Status : TellStatus(x) \in published[s]}
    BY <1>1
  <1> QED BY <1>2 DEF ToldIn, TellStatus

\* A call registers a shipment, decides from the status it read, or does
\* nothing to the life of a status.
LEMMA CallLives ==
  ASSUME TypeInv, NEW r \in Request, Call(r)
  PROVE  \/ UNCHANGED <<status, Opened, RecordedIn, ToldIn>>
         \/ \E s \in Shipment : /\ status[s] = Nil /\ status' = [status EXCEPT ![s] = "draft"]
                                /\ UNCHANGED <<Opened, RecordedIn, ToldIn>>
         \/ \E s \in Shipment : /\ status[s] # Nil
                                /\ Opened' = [Opened EXCEPT ![s] = @ \cup {status[s]}]
                                /\ UNCHANGED <<status, RecordedIn, ToldIn>>
  <1>1. PICK u \in User, s \in Shipment :
            \/ \E o \in Org \cup {Nil} : CreateTx(r, u, s, o) \/ UpdateRead(r, u, s, o)
            \/ \E st \in Asked : StatusRead(r, u, s, st)
            \/ RouteRead(r, u, s) \/ AcceptRead(r, u, s) \/ RemoveRead(r, u, s)
    BY DEF Call
  <1>2. ASSUME NEW handler, NEW next \in {"createPublish", "updateWrite", "routeWrite"},
               NEW l, Enter(r, handler, next, l)
        PROVE  Opened' = Opened
    <2>1. /\ pc[r] = "idle" /\ pc'[r] = next
          /\ \A q \in Request \ {r} : pc'[q] = pc[q] /\ loc'[q] = loc[q]
      BY <1>2, Entered
    <2>2. \A z \in Shipment : ~Open(r, z) /\ ~Open(r, z)'
      BY <2>1 DEF Open, Deciding
    <2> QED BY <2>1, <2>2, OpenedStays
  <1>3. ASSUME NEW handler, NEW next \in {"statusTx", "acceptCount", "removeDelete"}, NEW l,
               Enter(r, handler, next, l),
               l.ship = s, l.seen = status[s]
        PROVE  Opened' = [Opened EXCEPT ![s] = @ \cup {status[s]}]
    <2>1. /\ pc[r] = "idle" /\ pc'[r] = next /\ loc'[r] = l
          /\ \A q \in Request \ {r} : pc'[q] = pc[q] /\ loc'[q] = loc[q]
      BY <1>3, Entered
    <2>2. \A z \in Shipment : ~Open(r, z) /\ (Open(r, z)' <=> z = s)
      BY <1>3, <2>1 DEF Open, Deciding
    <2> QED BY <1>3, <2>1, <2>2, OpenedGains
  <1>4. ASSUME NEW o, CreateTx(r, u, s, o)
        PROVE  /\ status[s] = Nil /\ status' = [status EXCEPT ![s] = "draft"]
               /\ UNCHANGED <<Opened, RecordedIn, ToldIn>>
    <2>1. RecordedIn' = RecordedIn
      BY <1>4, NotesRecordNoChange DEF CreateTx
    <2>2. ToldIn' = ToldIn
      BY <1>4 DEF CreateTx, ToldIn
    <2> QED BY <1>2, <1>4, <2>1, <2>2 DEF CreateTx, Exists
  <1>5. ASSUME UNCHANGED <<timeline, published>>
        PROVE  UNCHANGED <<RecordedIn, ToldIn>>
    BY <1>5 DEF RecordedIn, ToldIn
  <1>6. ASSUME NEW o, UpdateRead(r, u, s, o)
        PROVE  UNCHANGED <<status, Opened, RecordedIn, ToldIn>>
    BY <1>2, <1>5, <1>6 DEF UpdateRead, row
  <1>7. ASSUME RouteRead(r, u, s)
        PROVE  UNCHANGED <<status, Opened, RecordedIn, ToldIn>>
    BY <1>2, <1>5, <1>7 DEF RouteRead, row
  <1>8. ASSUME NEW st, StatusRead(r, u, s, st)
        PROVE  /\ status[s] # Nil /\ UNCHANGED <<status, RecordedIn, ToldIn>>
               /\ Opened' = [Opened EXCEPT ![s] = @ \cup {status[s]}]
    <2> DEFINE l == [Blank EXCEPT !.ship = s, !.seen = status[s], !.next = st]
    <2>1. Enter(r, "status", "statusTx", l) /\ l.ship = s /\ l.seen = status[s]
      BY <1>8 DEF StatusRead, Blank
    <2> HIDE DEF l
    <2> QED BY <1>3, <1>5, <1>8, <2>1 DEF StatusRead, Exists, row
  <1>9. ASSUME AcceptRead(r, u, s)
        PROVE  /\ status[s] # Nil /\ UNCHANGED <<status, RecordedIn, ToldIn>>
               /\ Opened' = [Opened EXCEPT ![s] = @ \cup {status[s]}]
    <2> DEFINE l == [Blank EXCEPT !.ship = s, !.user = u, !.seen = status[s],
                                  !.org = carrierOrg[s], !.driver = carrierUser[s]]
    <2>1. Enter(r, "accept", "acceptCount", l) /\ l.ship = s /\ l.seen = status[s]
      BY <1>9 DEF AcceptRead, Blank
    <2> HIDE DEF l
    <2> QED BY <1>3, <1>5, <1>9, <2>1 DEF AcceptRead, Exists, row
  <1>10. ASSUME RemoveRead(r, u, s)
         PROVE  /\ status[s] # Nil /\ UNCHANGED <<status, RecordedIn, ToldIn>>
                /\ Opened' = [Opened EXCEPT ![s] = @ \cup {status[s]}]
    <2> DEFINE l == [Blank EXCEPT !.ship = s, !.seen = status[s]]
    <2>1. Enter(r, "remove", "removeDelete", l) /\ l.ship = s /\ l.seen = status[s]
      BY <1>10 DEF RemoveRead, Blank
    <2> HIDE DEF l
    <2> QED BY <1>3, <1>5, <1>10, <2>1 DEF RemoveRead, Exists, row
  <1> QED BY <1>1, <1>4, <1>6, <1>7, <1>8, <1>9, <1>10

\* The statements around the decisions do nothing to the life of a status.
LEMMA OtherStatementsLive ==
  ASSUME TypeInv, ShipmentInv, NEW r \in Request,
         \/ CreatePublish(r) \/ UpdateWrite(r) \/ RouteWrite(r) \/ RouteEvent(r) \/ RoutePublish(r)
         \/ StatusAlert(r) \/ AcceptEvent(r) \/ AcceptPublish(r)
  PROVE  UNCHANGED <<status, Opened, RecordedIn, ToldIn>>
  <1> DEFINE Plain == {"createPublish", "updateWrite", "routeWrite", "routeEvent", "routePublish",
                       "statusAlert", "acceptEvent", "acceptPublish", "idle"}
  <1>1. PICK at \in Plain, next \in Plain :
            Proceed(r, at, next) \/ (next = "idle" /\ Answer(r, at))
    BY DEF CreatePublish, UpdateWrite, RouteWrite, RouteEvent, RoutePublish, StatusAlert, AcceptEvent,
       AcceptPublish
  <1>2. /\ pc[r] = at /\ pc'[r] = next
        /\ \A q \in Request \ {r} : pc'[q] = pc[q] /\ loc'[q] = loc[q]
    BY <1>1, Proceeded, Answered
  <1>3. \A s \in Shipment : ~Open(r, s) /\ ~Open(r, s)'
    BY <1>1, <1>2 DEF Open, Deciding
  <1>4. Opened' = Opened
    BY <1>2, <1>3, OpenedStays
  <1>5. pc[r] # "idle"
    BY DEF CreatePublish, UpdateWrite, RouteWrite, RouteEvent, RoutePublish, StatusAlert, AcceptEvent,
       AcceptPublish, Proceed, Answer, Goto
  <1>6. loc[r].ship \in Shipment
    BY <1>5, AtWork
  <1>7. UNCHANGED status
    BY DEF CreatePublish, UpdateWrite, RouteWrite, RouteEvent, RoutePublish, StatusAlert,
       AcceptEvent, AcceptPublish, row
  <1>8. RecordedIn' = RecordedIn
    <2>1. CASE RouteEvent(r) \/ AcceptEvent(r)
      <3>1. PICK type \in {"route_assigned", "carrier_assigned"} : Record(loc[r].ship, type, "confirmed", FALSE)
        BY <2>1 DEF RouteEvent, AcceptEvent
      <3> QED BY <1>6, <3>1, NotesRecordNoChange
    <2>2. CASE timeline' = timeline
      BY <2>2 DEF RecordedIn
    <2> QED BY <2>1, <2>2 DEF CreatePublish, UpdateWrite, RouteWrite, RoutePublish, StatusAlert,
            AcceptPublish
  <1>9. ToldIn' = ToldIn
    <2>1. ASSUME NEW key \in {"shipment.created", "shipment.route_assigned", "shipment.accepted",
                              "shipment.delivered", "shipment.exception"},
                 Publish(loc[r].ship, Tell(key))
          PROVE  ToldIn' = ToldIn
      BY <1>6, <2>1, PlainMessagesTellNothing
    <2>2. CASE published' = published
      BY <2>2 DEF ToldIn
    <2> QED BY <2>1, <2>2 DEF CreatePublish, UpdateWrite, RouteWrite, RouteEvent, RoutePublish,
            StatusAlert, AcceptEvent, AcceptPublish
  <1> QED BY <1>4, <1>7, <1>8, <1>9

\* An update makes the change it decided on, from the status it read.
LEMMA StatusTxLives ==
  ASSUME TypeInv, ShipmentInv, NEW r \in Request, StatusTx(r)
  PROVE  \E s \in Shipment : \E from \in Opened[s] : \E to \in Status : Life!Update(s, from, to)
  <1>1. PICK s \in Shipment : loc[r].ship = s
    BY AtWork DEF StatusTx, Goto
  <1>2. PICK from, to : loc[r].seen = from /\ loc[r].next = to
    OBVIOUS
  <1>3. RequestOK(r) /\ Fits(pc[r], loc[r]) /\ pc[r] = "statusTx"
    BY LocalsAt DEF ShipmentInv, StatusTx, Goto
  <1>4. to \in Status /\ Follows(from, to)
    BY <1>2, <1>3 DEF RequestOK, Fits
  <1>5. /\ pc'[r] = "statusPublish"
        /\ \A q \in Request \ {r} : pc'[q] = pc[q] /\ loc'[q] = loc[q]
    BY Moved, LocSet DEF StatusTx
  <1>6. Open(r, s) /\ \A z \in Shipment : ~Open(r, z)'
    BY <1>1, <1>3, <1>5 DEF Open, Deciding
  <1>7. Life!Close(s, from) /\ from \in Opened[s]
    BY <1>2, <1>5, <1>6, OpenedCloses
  <1>8. RecordedIn' = [RecordedIn EXCEPT ![s] = @ \cup {to}]
    BY <1>1, <1>2, <1>4, ChangesAreRecorded DEF StatusTx
  <1>9. status' = [status EXCEPT ![s] = to] /\ ToldIn' = ToldIn
    BY <1>1, <1>2 DEF StatusTx, ToldIn
  <1>10. Life!Update(s, from, to)
    BY <1>4, <1>7, <1>8, <1>9 DEF Life!Update, Follows, RecordedIn, ToldIn
  <1> QED BY <1>4, <1>7, <1>10

\* A status is announced once its change is recorded.
LEMMA StatusPublishLives ==
  ASSUME TypeInv, ShipmentInv, NEW r \in Request, StatusPublish(r)
  PROVE  \E s \in Shipment : \E st \in Status : Life!Announce(s, st)
  <1>1. pc[r] = "statusPublish"
    BY DEF StatusPublish, Proceed, Answer, Goto
  <1>2. PICK s \in Shipment : loc[r].ship = s
    BY <1>1, AtWork
  <1>3. loc[r].next \in Status /\ Changed(loc[r].next) \in timeline[s]
    BY <1>1, <1>2, LocalsAt DEF ShipmentInv, RequestOK, Fits
  <1>4. loc[r].next \in RecordedIn[s]
    BY <1>3 DEF RecordedIn, Changed
  <1>5. /\ pc'[r] \in {"idle", "statusAlert"}
        /\ \A q \in Request \ {r} : pc'[q] = pc[q] /\ loc'[q] = loc[q]
    BY Proceeded, Answered DEF StatusPublish
  <1>6. \A z \in Shipment : ~Open(r, z) /\ ~Open(r, z)'
    BY <1>1, <1>5 DEF Open, Deciding
  <1>7. Opened' = Opened
    BY <1>5, <1>6, OpenedStays
  <1>8. ToldIn' = [ToldIn EXCEPT ![s] = @ \cup {loc[r].next}]
    <2>1. PICK late \in {{}, {Tell("shipment.delayed")}} :
              published' = [published EXCEPT ![s] = (published[s] \cup {TellStatus(loc[r].next)}) \cup late]
      BY <1>2 DEF StatusPublish
    <2> QED BY <1>3, <2>1, StatusesAreTold
  <1>9. status' = status /\ RecordedIn' = RecordedIn
    BY DEF StatusPublish, row, RecordedIn
  <1>10. Life!Announce(s, loc[r].next)
    BY <1>4, <1>7, <1>8, <1>9 DEF Life!Announce, Opened, RecordedIn, ToldIn
  <1> QED BY <1>3, <1>10

\* A claim that is refused is withdrawn; the others are still to be made.
LEMMA AcceptCountLives ==
  ASSUME TypeInv, ShipmentInv, NEW r \in Request, AcceptCount(r)
  PROVE  \/ UNCHANGED <<status, Opened, RecordedIn, ToldIn>>
         \/ \E s \in Shipment : \E from \in Opened[s] : Life!Withdraw(s, from)
  <1>1. pc[r] = "acceptCount" /\ UNCHANGED <<status, RecordedIn, ToldIn>>
    BY DEF AcceptCount, Proceed, Answer, Goto, row, RecordedIn, ToldIn
  <1>2. PICK s \in Shipment : loc[r].ship = s
    BY <1>1, AtWork
  <1>3. CASE Proceed(r, "acceptCount", "acceptWrite")
    <2>1. /\ pc'[r] = "acceptWrite" /\ loc'[r] = loc[r]
          /\ \A q \in Request \ {r} : pc'[q] = pc[q] /\ loc'[q] = loc[q]
      BY <1>3, Proceeded
    <2>2. \A z \in Shipment : Open(r, z)' <=> Open(r, z)
      BY <1>1, <2>1 DEF Open, Deciding
    <2> QED BY <1>1, <2>1, <2>2, OpenedStays
  <1>4. CASE Answer(r, "acceptCount")
    <2>1. /\ pc'[r] = "idle"
          /\ \A q \in Request \ {r} : pc'[q] = pc[q] /\ loc'[q] = loc[q]
      BY <1>4, Answered
    <2>2. Open(r, s) /\ \A z \in Shipment : ~Open(r, z)'
      BY <1>1, <1>2, <2>1 DEF Open, Deciding
    <2>3. PICK from : Life!Close(s, from) /\ from \in Opened[s]
      BY <2>1, <2>2, OpenedCloses
    <2>4. Life!Withdraw(s, from)
      BY <1>1, <2>3 DEF Life!Withdraw, RecordedIn, ToldIn
    <2> QED BY <2>3, <2>4
  <1> QED BY <1>3, <1>4 DEF AcceptCount

\* The deletion of a draft is refused, for the shipment has its events.
LEMMA RemoveDeleteLives ==
  ASSUME TypeInv, ShipmentInv, NEW r \in Request, RemoveDelete(r)
  PROVE  \E s \in Shipment : \E from \in Opened[s] : Life!Withdraw(s, from)
  <1>1. UNCHANGED <<status, RecordedIn, ToldIn>>
    BY RemoveDeleteStep DEF RemoveDelete, RecordedIn, ToldIn, row
  <1>2. /\ pc[r] = "removeDelete" /\ pc'[r] = "idle"
        /\ \A q \in Request \ {r} : pc'[q] = pc[q] /\ loc'[q] = loc[q]
    BY Answered DEF RemoveDelete
  <1>3. PICK s \in Shipment : loc[r].ship = s
    BY <1>2, AtWork
  <1>4. Open(r, s) /\ \A z \in Shipment : ~Open(r, z)'
    BY <1>2, <1>3 DEF Open, Deciding
  <1>5. PICK from : Life!Close(s, from) /\ from \in Opened[s]
    BY <1>2, <1>4, OpenedCloses
  <1>6. Life!Withdraw(s, from)
    BY <1>1, <1>5 DEF Life!Withdraw, RecordedIn, ToldIn
  <1> QED BY <1>5, <1>6

\* A claim confirms the draft it read, or leaves the status as it is.
LEMMA AcceptWriteLives ==
  ASSUME TypeInv, ShipmentInv, NEW r \in Request, AcceptWrite(r)
  PROVE  \E s \in Shipment : Life!Claim(s) \/ \E from \in Opened[s] : Life!Withdraw(s, from)
  <1>1. pc[r] = "acceptWrite" /\ UNCHANGED <<RecordedIn, ToldIn>>
    BY DEF AcceptWrite, Goto, RecordedIn, ToldIn
  <1>2. PICK s \in Shipment : loc[r].ship = s
    BY <1>1, AtWork
  <1>3. /\ pc'[r] = "acceptEvent"
        /\ \A q \in Request \ {r} : pc'[q] = pc[q] /\ loc'[q] = loc[q]
    BY Moved, LocSet DEF AcceptWrite
  <1>4. Open(r, s) /\ \A z \in Shipment : ~Open(r, z)'
    BY <1>1, <1>2, <1>3 DEF Open, Deciding
  <1>5. PICK from : loc[r].seen = from /\ Life!Close(s, from) /\ from \in Opened[s]
    BY <1>3, <1>4, OpenedCloses
  <1>6. ASSUME from = "draft", status' = [status EXCEPT ![s] = "confirmed"]
        PROVE  Life!Claim(s)
    BY <1>1, <1>5, <1>6 DEF Life!Claim, RecordedIn, ToldIn
  <1>7. ASSUME status' = status
        PROVE  Life!Withdraw(s, from)
    BY <1>1, <1>5, <1>7 DEF Life!Withdraw, RecordedIn, ToldIn
  <1>8. status = [status EXCEPT ![s] = status[s]]
    BY DEF TypeInv, TypeOK
  <1> QED BY <1>2, <1>5, <1>6, <1>7, <1>8 DEF AcceptWrite

\* An administrator overrides, and leaves no record that a client changed it.
LEMMA OverridesLive ==
  ASSUME TypeInv,
         \/ \E s \in Shipment, st \in Asked : AdminStatus(s, st)
         \/ \E ids \in SUBSET Shipment \ {{}} : BulkCancel(ids)
  PROVE  \E ids \in SUBSET Shipment, to \in Status : Life!Override(ids, to)
  <1>1. ASSUME NEW s \in Shipment, NEW st \in Asked, AdminStatus(s, st)
        PROVE  Life!Override({s}, st) /\ st \in Status
    <2>1. UNCHANGED <<Opened, ToldIn>>
      BY <1>1 DEF AdminStatus, Opened, Open, Deciding, ToldIn
    <2>2. RecordedIn' = RecordedIn
      BY <1>1, NotesRecordNoChange DEF AdminStatus
    <2>3. status' = [z \in Shipment |-> IF z \in {s} /\ status[z] # Nil THEN st ELSE status[z]]
      BY <1>1 DEF AdminStatus, Exists, TypeInv, TypeOK
    <2> QED BY <2>1, <2>2, <2>3, StatusNames DEF Life!Override, Opened, RecordedIn, ToldIn
  <1>2. ASSUME NEW ids \in SUBSET Shipment, BulkCancel(ids)
        PROVE  Life!Override(ids, "cancelled")
    <2>1. UNCHANGED <<Opened, RecordedIn, ToldIn>>
      BY <1>2 DEF BulkCancel, Opened, Open, Deciding, RecordedIn, ToldIn
    <2>2. status' = [z \in Shipment |-> IF z \in ids /\ status[z] # Nil THEN "cancelled" ELSE status[z]]
      BY <1>2 DEF BulkCancel, Exists
    <2> QED BY <2>1, <2>2 DEF Life!Override, Opened, RecordedIn, ToldIn
  <1> QED BY <1>1, <1>2, StatusNames

\* Every step is a step of the life of a status, or none.
LEMMA LifeStep ==
  ASSUME TypeInv, ShipmentInv, [Next]_vars
  PROVE  [Life!LifeNext]_(Life!lifeVars)
  <1>1. ASSUME UNCHANGED <<status, Opened, RecordedIn, ToldIn>>
        PROVE  UNCHANGED Life!lifeVars
    BY <1>1 DEF Life!lifeVars, Opened, RecordedIn, ToldIn
  <1>2. ASSUME NEW r \in Request, Call(r)
        PROVE  [Life!LifeNext]_(Life!lifeVars)
    <2>1. ASSUME NEW s \in Shipment, status[s] = Nil, status' = [status EXCEPT ![s] = "draft"],
                 UNCHANGED <<Opened, RecordedIn, ToldIn>>
          PROVE  Life!Register(s)
      BY <2>1 DEF Life!Register, Opened, RecordedIn, ToldIn
    <2>2. ASSUME NEW s \in Shipment, status[s] # Nil,
                 Opened' = [Opened EXCEPT ![s] = @ \cup {status[s]}],
                 UNCHANGED <<status, RecordedIn, ToldIn>>
          PROVE  Life!Decide(s)
      BY <2>2 DEF Life!Decide, Opened, RecordedIn, ToldIn
    <2> QED BY <1>1, <1>2, <2>1, <2>2, CallLives DEF Life!LifeNext
  <1>3. ASSUME NEW r \in Request, Continue(r)
        PROVE  [Life!LifeNext]_(Life!lifeVars)
    <2>1. CASE StatusTx(r)
      BY <2>1, StatusTxLives DEF Life!LifeNext, Opened
    <2>2. CASE StatusPublish(r)
      BY <2>2, StatusPublishLives DEF Life!LifeNext
    <2>3. CASE AcceptCount(r)
      BY <1>1, <2>3, AcceptCountLives DEF Life!LifeNext, Opened
    <2>4. CASE AcceptWrite(r)
      BY <2>4, AcceptWriteLives DEF Life!LifeNext, Opened
    <2>5. CASE RemoveDelete(r)
      BY <2>5, RemoveDeleteLives DEF Life!LifeNext, Opened
    <2> QED BY <1>1, <1>3, <2>1, <2>2, <2>3, <2>4, <2>5, OtherStatementsLive DEF Continue
  <1>4. ASSUME \/ \E s \in Shipment, st \in Asked : AdminStatus(s, st)
               \/ \E ids \in SUBSET Shipment \ {{}} : BulkCancel(ids)
        PROVE  Life!LifeNext
    BY <1>4, OverridesLive DEF Life!LifeNext
  <1>5. CASE UNCHANGED vars
    BY <1>1, <1>5 DEF vars, row, Opened, Open, Deciding, RecordedIn, ToldIn
  <1> QED BY <1>2, <1>3, <1>4, <1>5 DEF Next

\* A change of status follows the table from a stage the shipment was in when
\* it was decided, or is an administrator's; it is recorded as it is made and
\* announced only then: Shipments implements ShipmentLife.
THEOREM ShipmentsImplementTheirLife == Spec => ImplementsShipmentLife
  <1>1. Init => Life!LifeInit
    BY DEF Init, Life!LifeInit, Open, Deciding, Changed, TellStatus
  <1> QED BY <1>1, LifeStep, ShipmentsConsistent, PTL DEF Spec, ImplementsShipmentLife, Life!LifeSpec
=============================================================================
