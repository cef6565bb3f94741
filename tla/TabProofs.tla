----------------------------- MODULE TabProofs -----------------------------
(***************************************************************************)
(* What holds of what a tab shows, for any shipments, accounts and rows of *)
(* the log: LiveLists, Screens and AuditExport.                            *)
(***************************************************************************)
EXTENDS LiveLists, Screens, AuditExport, FunctionTheorems, SequenceTheorems, FiniteSetTheorems, TLAPS

-----------------------------------------------------------------------------
(* The lists of a driver                                                   *)

LEMMA LoadingIsAQuery ==
    ASSUME NEW q \in Query
    PROVE  Load(q) \in Query /\ Load([q EXCEPT !.old = TRUE]) \in Query
BY DEF Load, Query

LEMMA AnswerIsAList ==
    ASSUME ListsTypeOK, NEW t \in Tab
    PROVE  Listed(t) \in [Shipment -> Row \cup {Nil}]
BY DEF ListsTypeOK, Listed

LEMMA WritingKeepsType ==
    ASSUME ListsTypeOK, NEW s \in Shipment, NEW r \in Row, NEW p \in BOOLEAN, Write(s, r, p)
    PROVE  row' \in [Shipment -> Row] /\ news' \in Nat /\ untold' \subseteq Shipment
BY DEF ListsTypeOK, Write

\* What serving and failing make of the query of one list.
LEMMA OneListChanges ==
    ASSUME ListsTypeOK, NEW t \in Tab
    PROVE  /\ [list[t] EXCEPT !.at = "served", !.snap = Listed(t)] \in Query
           /\ [list[t] EXCEPT !.at = "idle", !.snap = Nil] \in Query
           /\ [list EXCEPT ![t].at = "served", ![t].snap = Listed(t)]
                = [list EXCEPT ![t] = [list[t] EXCEPT !.at = "served", !.snap = Listed(t)]]
           /\ [list EXCEPT ![t].at = "idle", ![t].snap = Nil]
                = [list EXCEPT ![t] = [list[t] EXCEPT !.at = "idle", !.snap = Nil]]
<1>1. list \in [Tab -> Query] /\ list[t] \in Query
  BY DEF ListsTypeOK
<1>2. [list[t] EXCEPT !.at = "served", !.snap = Listed(t)] \in Query
  BY <1>1, AnswerIsAList DEF Query
<1>3. [list[t] EXCEPT !.at = "idle", !.snap = Nil] \in Query
  BY <1>1 DEF Query
<1>4. /\ [list EXCEPT ![t].at = "served", ![t].snap = Listed(t)]
           = [list EXCEPT ![t] = [list[t] EXCEPT !.at = "served", !.snap = Listed(t)]]
      /\ [list EXCEPT ![t].at = "idle", ![t].snap = Nil]
           = [list EXCEPT ![t] = [list[t] EXCEPT !.at = "idle", !.snap = Nil]]
  BY <1>1, Zenon
<1> QED
  BY <1>2, <1>3, <1>4

LEMMA InvalidatingKeepsType ==
    ASSUME ListsTypeOK, InvalidateQueries
    PROVE  list' \in [Tab -> Query] /\ missed' \subseteq Tab
<1>1. ASSUME NEW t \in Tab PROVE Refetched(t) \in Query
  <2>1. list[t] \in Query
    BY DEF ListsTypeOK
  <2>2. [list[t] EXCEPT !.old = TRUE] \in Query
    BY <2>1 DEF Query
  <2> QED
    BY <2>1, <2>2, LoadingIsAQuery DEF Refetched
<1> QED
  BY <1>1 DEF InvalidateQueries

LEMMA ExpendingIsCounted ==
    ASSUME eventsUsed \in [changes : 0..MaxChanges, clicks : 0..MaxClicks, drops : 0..MaxDrops],
           \/ Expend("changes", MaxChanges) \/ Expend("clicks", MaxClicks)
           \/ Expend("drops", MaxDrops)
    PROVE  eventsUsed' \in [changes : 0..MaxChanges, clicks : 0..MaxClicks, drops : 0..MaxDrops]
<1>1. MaxChanges \in Nat /\ MaxClicks \in Nat /\ MaxDrops \in Nat
  BY LiveListsAssumption
<1>2. CASE Expend("changes", MaxChanges)
  BY <1>1, <1>2, SMT DEF Expend
<1>3. CASE Expend("clicks", MaxClicks)
  BY <1>1, <1>3, SMT DEF Expend
<1>4. CASE Expend("drops", MaxDrops)
  BY <1>1, <1>4, SMT DEF Expend
<1> QED
  BY <1>2, <1>3, <1>4

LEMMA ChangesAreRows ==
    ASSUME NEW r \in Row
    PROVE  /\ Publishing(r) \subseteq Row /\ Silent(r) \subseteq Row
           /\ [r EXCEPT !.org = "ours", !.driver = "me"] \in Row
<1>1. Publishing(r) \subseteq Row
  BY DEF Row, Publishing
<1>2. Silent(r) \subseteq Row
  BY DEF Row, Silent
<1>3. [r EXCEPT !.org = "ours", !.driver = "me"] \in Row
  BY DEF Row
<1> QED
  BY <1>1, <1>2, <1>3

\* The rows and queries keep their types, and a claim under way names a shipment.
ListsTypes == ListsTypeOK /\ (claim.at # "none" => claim.ship \in Shipment)

LEMMA ListsTypesInductive == ListsTypes /\ [ListsNext]_listsVars => ListsTypes'
<1> SUFFICES ASSUME ListsTypes, [ListsNext]_listsVars PROVE ListsTypes'
  OBVIOUS
<1>0. ListsTypeOK
  BY DEF ListsTypes
<1>1. ASSUME NEW s \in Shipment, RowChanges(s) PROVE ListsTypes'
  <2>1. row[s] \in Row
    BY <1>0 DEF ListsTypeOK
  <2>2. \E r \in Row, p \in BOOLEAN : Write(s, r, p)
    BY <1>1, <2>1, ChangesAreRows DEF RowChanges
  <2>3. row' \in [Shipment -> Row] /\ news' \in Nat /\ untold' \subseteq Shipment
    BY <1>0, <2>2, WritingKeepsType
  <2>4. eventsUsed' \in [changes : 0..MaxChanges, clicks : 0..MaxClicks, drops : 0..MaxDrops]
    BY <1>0, <1>1, ExpendingIsCounted DEF ListsTypeOK, RowChanges
  <2> QED
    BY <1>1, <2>3, <2>4 DEF ListsTypes, ListsTypeOK, RowChanges
<1>2. ASSUME NEW s \in Shipment, Accept(s) PROVE ListsTypes'
  <2>1. eventsUsed' \in [changes : 0..MaxChanges, clicks : 0..MaxClicks, drops : 0..MaxDrops]
    BY <1>0, <1>2, ExpendingIsCounted DEF ListsTypeOK, Accept
  <2> QED
    BY <1>2, <2>1 DEF ListsTypes, ListsTypeOK, Accept
<1>3. CASE ServeClaim
  <2>1. claim.ship \in Shipment /\ claim.at = "sent"
    BY <1>3 DEF ListsTypes, ServeClaim
  <2>2. row[claim.ship] \in Row
    BY <1>0, <2>1 DEF ListsTypeOK
  <2>3. row' \in [Shipment -> Row] /\ news' \in Nat /\ untold' \subseteq Shipment
    <3>1. ASSUME Write(claim.ship, [row[claim.ship] EXCEPT !.org = "ours", !.driver = "me"], TRUE)
          PROVE  row' \in [Shipment -> Row] /\ news' \in Nat /\ untold' \subseteq Shipment
      BY <1>0, <2>1, <2>2, <3>1, ChangesAreRows, WritingKeepsType
    <3> QED
      BY <1>0, <1>3, <3>1 DEF ServeClaim, ListsTypeOK
  <2>4. claim' \in [ship : Shipment, at : {"done", "refused"}]
    BY <1>0, <1>3, <2>1 DEF ServeClaim, ListsTypeOK
  <2> QED
    BY <1>3, <2>3, <2>4 DEF ListsTypes, ListsTypeOK, ServeClaim
<1>4. CASE ClaimAnswered
  <2>1. claim' = NoClaim
    BY <1>4 DEF ClaimAnswered
  <2>2. list' \in [Tab -> Query] /\ missed' \subseteq Tab /\ tab' \in Tab
    BY <1>0, <1>4, InvalidatingKeepsType DEF ClaimAnswered, ListsTypeOK, Tab
  <2> QED
    BY <1>4, <2>1, <2>2 DEF ListsTypes, ListsTypeOK, ClaimAnswered, NoClaim
<1>5. ASSUME NEW t \in Tab, ServeList(t) PROVE ListsTypes'
  <2>1. list' \in [Tab -> Query]
    BY <1>0, <1>5, OneListChanges DEF ListsTypeOK, ServeList
  <2> QED
    BY <1>5, <2>1 DEF ListsTypes, ListsTypeOK, ServeList, listsNotes
<1>6. ASSUME NEW t \in Tab, ListArrives(t) PROVE ListsTypes'
  <2>1. list' \in [Tab -> Query]
    BY <1>0, <1>6 DEF ListsTypeOK, ListArrives, Query
  <2> QED
    BY <1>6, <2>1 DEF ListsTypes, ListsTypeOK, ListArrives, listsNotes
<1>7. ASSUME NEW t \in Tab, ListFails(t) PROVE ListsTypes'
  <2>1. list' \in [Tab -> Query]
    BY <1>0, <1>7, OneListChanges DEF ListsTypeOK, ListFails
  <2>2. eventsUsed' \in [changes : 0..MaxChanges, clicks : 0..MaxClicks, drops : 0..MaxDrops]
    BY <1>0, <1>7, ExpendingIsCounted DEF ListsTypeOK, ListFails
  <2> QED
    BY <1>7, <2>1, <2>2 DEF ListsTypes, ListsTypeOK, ListFails
<1>8. ASSUME NEW t \in Tab, OpenTab(t) PROVE ListsTypes'
  <2>1. list' \in [Tab -> Query] /\ missed' \subseteq Tab
    <3>1. list \in [Tab -> Query] /\ Load(list[t]) \in Query /\ missed \subseteq Tab
      BY <1>0, LoadingIsAQuery DEF ListsTypeOK
    <3>2. \/ list' = [list EXCEPT ![t] = Load(list[t])] /\ missed' = missed \ {t}
          \/ list' = list /\ missed' = missed
      BY <1>8 DEF OpenTab
    <3> QED
      BY <3>1, <3>2
  <2>2. eventsUsed' \in [changes : 0..MaxChanges, clicks : 0..MaxClicks, drops : 0..MaxDrops]
    BY <1>0, <1>8, ExpendingIsCounted DEF ListsTypeOK, OpenTab
  <2> QED
    BY <1>8, <2>1, <2>2 DEF ListsTypes, ListsTypeOK, OpenTab
<1>9. CASE Deliver
  <2>1. list' \in [Tab -> Query] /\ missed' \subseteq Tab
    BY <1>0, <1>9, InvalidatingKeepsType DEF Deliver, ListsTypeOK
  <2>2. news' \in Nat
    BY <1>0, <1>9 DEF Deliver, ListsTypeOK
  <2> QED
    BY <1>9, <2>1, <2>2 DEF ListsTypes, ListsTypeOK, Deliver
<1>10. CASE Disconnect
  <2>1. eventsUsed' \in [changes : 0..MaxChanges, clicks : 0..MaxClicks, drops : 0..MaxDrops]
    BY <1>0, <1>10, ExpendingIsCounted DEF ListsTypeOK, Disconnect
  <2> QED
    BY <1>10, <2>1 DEF ListsTypes, ListsTypeOK, Disconnect
<1>11. CASE Reconnect
  <2>1. list' \in [Tab -> Query] /\ missed' \subseteq Tab
    BY <1>0, <1>11, InvalidatingKeepsType DEF Reconnect
  <2> QED
    BY <1>11, <2>1 DEF ListsTypes, ListsTypeOK, Reconnect
<1>12. CASE UNCHANGED listsVars
  BY <1>12 DEF listsVars, listsNotes, ListsTypes, ListsTypeOK
<1> QED
  BY <1>1, <1>2, <1>3, <1>4, <1>5, <1>6, <1>7, <1>8, <1>9, <1>10, <1>11, <1>12 DEF ListsNext

LEMMA ListsBegin == ListsInit => ListsTypes
<1> SUFFICES ASSUME ListsInit PROVE ListsTypes
  OBVIOUS
<1>1. MaxChanges \in Nat /\ MaxClicks \in Nat /\ MaxDrops \in Nat
  BY LiveListsAssumption
<1>2. list \in [Tab -> Query]
  BY DEF ListsInit, Load, Fresh, Query
<1>3. row \in [Shipment -> Row] /\ claim \in [ship : {Nil}, at : {"none"}] /\ claim.at = "none"
  BY DEF ListsInit, Row, Unclaimed, NoClaim
<1>4. eventsUsed \in [changes : 0..MaxChanges, clicks : 0..MaxClicks, drops : 0..MaxDrops]
  BY <1>1 DEF ListsInit
<1> QED
  BY <1>2, <1>3, <1>4 DEF ListsInit, ListsTypes, ListsTypeOK, Tab

\* The rows, the queries of the three tabs and the claim keep their types.
THEOREM ListsTypeCorrect == ListsSpec => []ListsTypeOK
<1>1. ListsTypes => ListsTypeOK
  BY DEF ListsTypes
<1> QED
  BY <1>1, ListsBegin, ListsTypesInductive, PTL DEF ListsSpec

\* An invalidation is still to come: a message, a reconnection, or the answer to a claim.
RefreshDue == news > 0 \/ ~online \/ claim.at = "done"

\* What a tab shows of a shipment, or will without another invalidation, is what
\* the server would answer.
Holds(t, s) ==
    LET q == list[t] IN
    \/ q.at = "sent"
    \/ q.at = "served" /\ q.snap[s] = Listed(t)[s]
    \/ q.at = "idle" /\ q.data # Nil /\ q.data[s] = Listed(t)[s]
    \/ q.at = "idle" /\ t \notin Enabled /\ (q.data = Nil \/ q.old)

\* An answer is there once served, and a list on the screen that did not lose a
\* load has rows.
ListsFilled ==
    /\ \A t \in Tab : list[t].at = "served" => list[t].snap # Nil
    /\ \A t \in Enabled \ missed : list[t].at = "idle" => list[t].data # Nil

ListsCurrent == ~RefreshDue => \A t \in Tab \ missed, s \in Shipment \ untold : Holds(t, s)

ListsInv == ListsTypes /\ ListsFilled /\ ListsCurrent

\* One shipment of one list: what was true of it is, if neither its row nor the
\* list changed and the list did not come to the screen.
LEMMA ListHoldsStays ==
    ASSUME ListsTypeOK, ListsTypeOK', NEW t \in Tab, NEW s \in Shipment,
           list'[t] = list[t], row'[s] = row[s], t \in Enabled' => t \in Enabled,
           Holds(t, s)
    PROVE  Holds(t, s)'
<1>1. Listed(t)'[s] = Listed(t)[s]
  BY DEF Listed, InScope
<1> QED
  BY <1>1 DEF Holds

\* A list whose answer is fresh.
LEMMA ServedHolds ==
    ASSUME ListsTypeOK, NEW t \in Tab, ServeList(t)
    PROVE  /\ list'[t].at = "served" /\ list'[t].snap # Nil
           /\ \A s \in Shipment : Holds(t, s)'
<1>1. list'[t].at = "served" /\ list'[t].snap = Listed(t)
  <2>1. list' = [list EXCEPT ![t] = [list[t] EXCEPT !.at = "served", !.snap = Listed(t)]]
    BY OneListChanges DEF ServeList
  <2>2. list \in [Tab -> Query] /\ list[t] \in Query
    BY DEF ListsTypeOK
  <2>3. list'[t] = [list[t] EXCEPT !.at = "served", !.snap = Listed(t)]
    BY <2>1, <2>2
  <2> QED
    BY <2>2, <2>3 DEF Query
<1>2. Listed(t) # Nil
  BY AnswerIsAList, ListsAssumption
<1>3. Listed(t)' = Listed(t)
  BY DEF ServeList, Listed, InScope
<1> QED
  BY <1>1, <1>2, <1>3 DEF Holds

\* An invalidation loads the lists on the screen anew and marks the others, or
\* the list misses it.
LEMMA InvalidatingRefreshes ==
    ASSUME ListsTypeOK, InvalidateQueries, NEW t \in Tab
    PROVE  /\ t \notin missed' => \/ list'[t].at = "sent"
                                  \/ t \notin Enabled /\ list'[t].at = "idle" /\ list'[t].old
           /\ list'[t].at = "served" => list[t].at = "served" /\ list'[t].snap = list[t].snap
<1>1. list[t] \in Query
  BY DEF ListsTypeOK
<1>2. list'[t] = Refetched(t)
  BY DEF InvalidateQueries
<1>3. Refetched(t) = [list[t] EXCEPT !.old = TRUE] \/ Refetched(t).at = "sent"
  BY <1>1 DEF Refetched, Load, Query
<1>4. CASE Refetched(t).at = "sent"
  BY <1>2, <1>4
<1>5. CASE Refetched(t) = [list[t] EXCEPT !.old = TRUE] /\ Refetched(t).at # "sent"
  <2>1. list'[t].at = list[t].at /\ list'[t].snap = list[t].snap /\ list'[t].old
    BY <1>1, <1>2, <1>5 DEF Query
  <2>2. ASSUME t \notin missed' PROVE t \notin Enabled /\ list[t].at = "idle"
    <3>1. ~Forgets(t)
      BY <2>2 DEF InvalidateQueries
    <3>2. t \notin Enabled \/ (list[t].at # "idle" /\ list[t].data = Nil)
      BY <1>1, <1>5 DEF Refetched, Load, Query
    <3> QED
      BY <3>1, <3>2 DEF Forgets
  <2> QED
    BY <2>1, <2>2
<1> QED
  BY <1>3, <1>4, <1>5

LEMMA InvalidatingKeepsInv ==
    ASSUME ListsTypeOK, ListsFilled, InvalidateQueries, Enabled' \subseteq Enabled
    PROVE  ListsFilled' /\ \A t \in Tab \ missed', s \in Shipment : Holds(t, s)'
<1>1. ASSUME NEW t \in Tab, list'[t].at = "served" PROVE list'[t].snap # Nil
  BY <1>1, InvalidatingRefreshes DEF ListsFilled
<1>2. ASSUME NEW t \in Enabled' \ missed', list'[t].at = "idle" PROVE list'[t].data # Nil
  <2>1. t \in Tab
    BY DEF ListsTypeOK, Enabled, Tab
  <2> QED
    BY <1>2, <2>1, InvalidatingRefreshes
<1>3. ASSUME NEW t \in Tab \ missed', NEW s \in Shipment PROVE Holds(t, s)'
  BY InvalidatingRefreshes DEF Holds
<1> QED
  BY <1>1, <1>2, <1>3 DEF ListsFilled

LEMMA ListsInvInductive == ListsInv /\ [ListsNext]_listsVars => ListsInv'
<1> SUFFICES ASSUME ListsInv, [ListsNext]_listsVars PROVE ListsFilled' /\ ListsCurrent'
  BY ListsTypesInductive DEF ListsInv
<1>0. ListsTypeOK /\ ListsTypeOK' /\ ListsFilled /\ ListsCurrent
  BY ListsTypesInductive DEF ListsInv, ListsTypes
<1> DEFINE Written(s, r, p) == Write(s, r, p) /\ UNCHANGED <<online, tab, list, missed>>
<1>1. ASSUME NEW s \in Shipment, NEW r \in Row, NEW p \in BOOLEAN, Written(s, r, p),
             claim'.at = "done" => news' > 0, claim.at = "done" => claim'.at = "done"
      PROVE  ListsFilled' /\ ListsCurrent'
  <2>1. ListsFilled'
    BY <1>0, <1>1 DEF ListsFilled, Enabled
  <2>2. ASSUME ~RefreshDue', NEW t \in Tab \ missed', NEW z \in Shipment \ untold'
        PROVE  Holds(t, z)'
    <3>1. ~(p /\ CanView(r))
      BY <1>0, <1>1, <2>2 DEF RefreshDue, Write, ListsTypeOK
    <3>2. ~RefreshDue /\ z # s /\ z \notin untold
      BY <1>1, <2>2, <3>1 DEF RefreshDue, Write
    <3>3. row'[z] = row[z]
      BY <1>0, <1>1, <3>2 DEF Write, ListsTypeOK
    <3> QED
      BY <1>0, <1>1, <3>2, <3>3, ListHoldsStays DEF ListsCurrent, Enabled
  <2> QED
    BY <2>1, <2>2 DEF ListsCurrent
<1>2. ASSUME NEW s \in Shipment, RowChanges(s) PROVE ListsFilled' /\ ListsCurrent'
  <2>1. row[s] \in Row
    BY <1>0 DEF ListsTypeOK
  <2>2. \E r \in Row, p \in BOOLEAN : Written(s, r, p)
    BY <1>2, <2>1, ChangesAreRows DEF RowChanges
  <2>3. CASE claim.at = "done"
    BY <1>0, <1>2, <2>2, <2>3 DEF RowChanges, ListsFilled, ListsCurrent, RefreshDue, Enabled
  <2> QED
    BY <1>1, <1>2, <2>2, <2>3 DEF RowChanges
<1>3. CASE ServeClaim
  <2> DEFINE mine == [row[claim.ship] EXCEPT !.org = "ours", !.driver = "me"]
  <2>1. claim.ship \in Shipment /\ row[claim.ship] \in Row /\ mine \in Row
    BY <1>0, <1>3, ChangesAreRows DEF ListsInv, ListsTypes, ListsTypeOK, ServeClaim
  <2>2. CASE Write(claim.ship, mine, TRUE)
    <3>1. CanView(mine)
      BY <2>1 DEF CanView, Row
    <3>2. news' > 0
      BY <1>0, <2>2, <3>1 DEF Write, ListsTypeOK
    <3> QED
      BY <1>0, <1>3, <3>2 DEF ServeClaim, ListsFilled, ListsCurrent, RefreshDue, Enabled
  <2>3. CASE UNCHANGED <<row, news, untold>> /\ claim' = [claim EXCEPT !.at = "refused"]
    <3>1. claim.at = "sent"
      BY <1>3 DEF ServeClaim
    <3>2. ~RefreshDue' => ~RefreshDue
      BY <1>3, <2>3, <3>1 DEF RefreshDue, ServeClaim
    <3> QED
      BY <1>0, <1>3, <2>3, <3>2, ListHoldsStays DEF ServeClaim, ListsFilled, ListsCurrent, Enabled
  <2> QED
    BY <1>3, <2>2, <2>3 DEF ServeClaim
<1>4. CASE Deliver \/ Reconnect \/ ClaimAnswered
  <2>1. CASE InvalidateQueries
    <3>1. Enabled' \subseteq Enabled
      BY <1>4 DEF Deliver, Reconnect, ClaimAnswered, Enabled
    <3> QED
      BY <1>0, <2>1, <3>1, InvalidatingKeepsInv DEF ListsCurrent
  <2>2. CASE UNCHANGED <<list, missed>> /\ ~InvalidateQueries
    <3>1. UNCHANGED <<row, tab, online, untold>> /\ (~RefreshDue' => ~RefreshDue)
      BY <1>0, <1>4, <2>2 DEF Deliver, Reconnect, ClaimAnswered, RefreshDue, ListsTypeOK
    <3> QED
      BY <1>0, <2>2, <3>1, ListHoldsStays DEF ListsFilled, ListsCurrent, Enabled
  <2> QED
    BY <1>4, <2>1, <2>2 DEF Deliver, Reconnect, ClaimAnswered
<1>5. CASE Disconnect
  BY <1>0, <1>5 DEF Disconnect, ListsFilled, ListsCurrent, RefreshDue, Enabled
<1>6. ASSUME NEW s \in Shipment, Accept(s) PROVE ListsFilled' /\ ListsCurrent'
  <2>1. ~RefreshDue' => ~RefreshDue
    BY <1>6 DEF Accept, RefreshDue, NoClaim
  <2> QED
    BY <1>0, <1>6, <2>1, ListHoldsStays DEF Accept, ListsFilled, ListsCurrent, Enabled
<1>7. ASSUME NEW t \in Tab, ServeList(t) PROVE ListsFilled' /\ ListsCurrent'
  <2>1. \A u \in Tab : u # t => list'[u] = list[u]
    BY <1>0, <1>7 DEF ServeList, ListsTypeOK
  <2>2. UNCHANGED <<row, news, online, tab, claim, missed, untold>>
    BY <1>7 DEF ServeList, listsNotes
  <2>3. ListsFilled'
    BY <1>0, <1>7, <2>1, <2>2, ServedHolds DEF ListsFilled, Enabled, ListsTypeOK, Tab
  <2>4. ASSUME ~RefreshDue', NEW u \in Tab \ missed', NEW s \in Shipment \ untold'
        PROVE  Holds(u, s)'
    <3>1. CASE u = t
      BY <1>0, <1>7, <3>1, ServedHolds
    <3>2. CASE u # t
      BY <1>0, <2>1, <2>2, <2>4, <3>2, ListHoldsStays DEF ListsCurrent, RefreshDue, Enabled
    <3> QED
      BY <3>1, <3>2
  <2> QED
    BY <2>3, <2>4 DEF ListsCurrent
<1>8. ASSUME NEW t \in Tab, ListArrives(t) PROVE ListsFilled' /\ ListsCurrent'
  <2>1. \A u \in Tab : u # t => list'[u] = list[u]
    BY <1>0, <1>8 DEF ListArrives, ListsTypeOK
  <2>2. UNCHANGED <<row, news, online, tab, claim, missed, untold>>
    BY <1>8 DEF ListArrives, listsNotes
  <2>3. list[t].at = "served" /\ list'[t].at = "idle" /\ list'[t].data = list[t].snap /\ list[t].snap # Nil
    BY <1>0, <1>8 DEF ListArrives, ListsTypeOK, ListsFilled
  <2>4. ListsFilled'
    BY <1>0, <2>1, <2>2, <2>3 DEF ListsFilled, Enabled, ListsTypeOK, Tab
  <2>5. ASSUME ~RefreshDue', NEW u \in Tab \ missed', NEW s \in Shipment \ untold'
        PROVE  Holds(u, s)'
    <3>1. Holds(u, s)
      BY <1>0, <2>2, <2>5 DEF ListsCurrent, RefreshDue
    <3>2. CASE u = t
      <4>1. list[t].snap[s] = Listed(t)[s]
        BY <2>3, <3>1, <3>2 DEF Holds
      <4>2. Listed(t)' = Listed(t)
        BY <2>2 DEF Listed, InScope
      <4> QED
        BY <2>3, <3>2, <4>1, <4>2 DEF Holds
    <3>3. CASE u # t
      BY <1>0, <2>1, <2>2, <3>1, <3>3, ListHoldsStays DEF Enabled
    <3> QED
      BY <3>2, <3>3
  <2> QED
    BY <2>4, <2>5 DEF ListsCurrent
<1>9. ASSUME NEW t \in Tab, ListFails(t) PROVE ListsFilled' /\ ListsCurrent'
  <2>1. UNCHANGED <<row, news, online, tab, claim, untold>> /\ missed' = missed \cup {t}
    BY <1>9 DEF ListFails
  <2>2. \A u \in Tab : u # t => list'[u] = list[u]
    BY <1>0, <1>9 DEF ListFails, ListsTypeOK
  <2>3. list'[t].at = "idle"
    BY <1>0, <1>9 DEF ListFails, ListsTypeOK, Query
  <2>4. ListsFilled'
    BY <1>0, <2>1, <2>2, <2>3 DEF ListsFilled, Enabled, ListsTypeOK, Tab
  <2>5. ListsCurrent'
    BY <1>0, <2>1, <2>2, ListHoldsStays DEF ListsCurrent, RefreshDue, Enabled
  <2> QED
    BY <2>4, <2>5
<1>10. ASSUME NEW t \in Tab, OpenTab(t) PROVE ListsFilled' /\ ListsCurrent'
  <2>1. UNCHANGED <<row, news, online, claim, untold>> /\ tab' = t
    BY <1>10 DEF OpenTab
  <2>2. CASE list' = [list EXCEPT ![t] = Load(@)] /\ missed' = missed \ {t}
    <3>1. list'[t].at = "sent" /\ \A u \in Tab : u # t => list'[u] = list[u]
      BY <1>0, <2>2 DEF Load, ListsTypeOK, Query
    <3>2. ListsFilled'
      BY <1>0, <2>1, <2>2, <3>1 DEF ListsFilled, Enabled, ListsTypeOK, Tab
    <3>3. ASSUME ~RefreshDue', NEW u \in Tab \ missed', NEW s \in Shipment \ untold'
          PROVE  Holds(u, s)'
      <4>1. CASE u = t
        BY <3>1, <4>1 DEF Holds
      <4>2. CASE u # t
        BY <1>0, <2>1, <2>2, <3>1, <3>3, <4>2, ListHoldsStays DEF ListsCurrent, RefreshDue, Enabled
      <4> QED
        BY <4>1, <4>2
    <3> QED
      BY <3>2, <3>3 DEF ListsCurrent
  <2>3. CASE UNCHANGED <<list, missed>> /\ ~(Opens(t) /\ MustLoad(t))
    <3>1. list[t].at = "idle" /\ t # "my" => list[t].data # Nil /\ ~list[t].old
      BY <2>3 DEF Opens, MustLoad
    <3>2. ListsFilled'
      BY <1>0, <2>1, <2>3, <3>1 DEF ListsFilled, Enabled
    <3>3. ASSUME ~RefreshDue', NEW u \in Tab \ missed', NEW s \in Shipment \ untold'
          PROVE  Holds(u, s)'
      <4>1. Holds(u, s)
        BY <1>0, <2>1, <2>3, <3>3 DEF ListsCurrent, RefreshDue
      <4>2. CASE u = t /\ t # "my"
        <5>1. Listed(t)' = Listed(t)
          BY <2>1 DEF Listed, InScope
        <5> QED
          BY <2>3, <3>1, <4>1, <4>2, <5>1 DEF Holds
      <4>3. CASE u # t \/ t = "my"
        BY <1>0, <2>1, <2>3, <4>1, <4>3, ListHoldsStays DEF Enabled
      <4> QED
        BY <4>2, <4>3
    <3> QED
      BY <3>2, <3>3 DEF ListsCurrent
  <2> QED
    BY <1>10, <2>2, <2>3 DEF OpenTab
<1>11. CASE UNCHANGED listsVars
  BY <1>0, <1>11, ListHoldsStays DEF listsVars, listsNotes, ListsFilled, ListsCurrent, RefreshDue, Enabled
<1> QED
  BY <1>2, <1>3, <1>4, <1>5, <1>6, <1>7, <1>8, <1>9, <1>10, <1>11 DEF ListsNext

\* When nothing is under way, every list on the screen that lost no load is what
\* the server would answer, but for the shipments the driver is not told of:
\* CarrierShipmentsPage over LiveSocketBridge, for any shipments and any number of
\* changes, clicks and lost connections.
THEOREM QuietScreensAreCurrent == ListsSpec => []QuietListsAreCurrent
<1>1. ListsInit => ListsInv
  <2> SUFFICES ASSUME ListsInit PROVE ListsFilled /\ ListsCurrent
    BY ListsBegin DEF ListsInv
  <2>1. list["my"].at = "sent" /\ \A t \in Tab \ {"my"} : list[t] = Fresh
    BY DEF ListsInit, Load, Fresh, Tab
  <2>2. Enabled = {"my"}
    BY DEF ListsInit, Enabled
  <2>3. ListsFilled
    BY <2>1, <2>2 DEF ListsFilled, Fresh, Tab
  <2>4. ListsCurrent
    BY <2>1, <2>2 DEF ListsCurrent, Holds, Fresh, Tab
  <2> QED
    BY <2>3, <2>4
<1>2. ListsInv => QuietListsAreCurrent
  <2> SUFFICES ASSUME ListsInv, Quiet, NEW t \in Enabled \ missed, NEW s \in Shipment \ untold
               PROVE  list[t].data # Nil /\ list[t].data[s] = Listed(t)[s]
    BY DEF QuietListsAreCurrent
  <2>1. t \in Tab /\ list[t].at = "idle" /\ ~RefreshDue
    BY DEF Quiet, RefreshDue, NoClaim, ListsInv, ListsTypes, ListsTypeOK, Enabled, Tab
  <2> QED
    BY <2>1 DEF ListsInv, ListsFilled, ListsCurrent, Holds
<1> QED
  BY <1>1, <1>2, ListsInvInductive, PTL DEF ListsSpec

-----------------------------------------------------------------------------
(* The screens: the tables of changes                                      *)

LEMMA ChangesByTable ==
    /\ DOMAIN ShipmentChanges = {"createShipment", "acceptShipment", "updateStatus", "assignRoute", "updateShipment"}
    /\ DOMAIN RouteChanges = {"saveRoute", "switchRoute", "editStops"}
    /\ DOMAIN CheckpointChanges = {"saveCheckpoint", "switchCheckpoint"}
    /\ DOMAIN UserChanges = {"switchUser", "deleteUser"}
    /\ DOMAIN OrganizationChanges = {"switchOrganization"}
    /\ DOMAIN OrganizationEdit = {"updateOrganization"}
    /\ DOMAIN AdminInviteChanges = {"adminInvite"}
    /\ DOMAIN MemberChanges = {"switchMember"}
    /\ DOMAIN InviteChange = {"invite"}
    /\ DOMAIN OrgInviteChanges = {"manageInvite"}
    /\ DOMAIN AlertChanges = {"markRead"}
    /\ DOMAIN ReportChanges = {"generateReport"}
    /\ DOMAIN SessionChanges = {"revokeSessions"}
    /\ DOMAIN PasswordChange = {"updatePassword"}
    /\ DOMAIN ProfileChange = {"updateProfile"}
BY DEF ShipmentChanges, RouteChanges, CheckpointChanges, UserChanges, OrganizationChanges,
       OrganizationEdit, AdminInviteChanges, MemberChanges, InviteChange, OrgInviteChanges,
       AlertChanges, ReportChanges, SessionChanges, PasswordChange, ProfileChange

\* A change stands in one table.
LEMMA OneTable ==
    ASSUME NEW t \in ChangeTables, NEW c \in DOMAIN t
    PROVE  c \in Change /\ EffectOf[c] = t[c]
<1>1. c \in Change
  BY DEF Change
<1>2. \A u \in ChangeTables : c \in DOMAIN u => u = t
  BY ChangesByTable DEF ChangeTables
<1>3. (CHOOSE u \in ChangeTables : c \in DOMAIN u) = t
  BY <1>2
<1> QED
  BY <1>1, <1>3 DEF EffectOf

\* The families that read the rows of each kind.
LEMMA Readers ==
    ASSUME NEW f \in Family
    PROVE  /\ "shipment" \in ReadBy[f] => f \in {"dashboard-stats", "shipments", "shipment-detail"}
           /\ "event" \in ReadBy[f] => f = "shipment-detail"
           /\ "assignment" \in ReadBy[f] => f \in {"routes", "routes-picker"}
           /\ "route" \in ReadBy[f] => f \in {"shipments", "shipment-detail", "routes", "routes-picker"}
           /\ "stop" \in ReadBy[f] => f \in {"shipments", "shipment-detail", "routes", "routes-picker"}
           /\ "checkpoint" \in ReadBy[f] =>
                f \in {"shipments", "shipment-detail", "routes", "routes-picker", "checkpoints"}
           /\ "user" \in ReadBy[f] =>
                f \in {"dashboard-stats", "shipments", "shipment-detail", "admin-users",
                       "admin-organizations", "admin-invitations", "org-members", "org-members-active"}
           /\ "active" \in ReadBy[f] =>
                f \in {"dashboard-stats", "admin-users", "org-members", "org-members-active"}
           /\ "org" \in ReadBy[f] =>
                f \in {"shipments", "shipment-detail", "admin-users", "admin-organizations", "admin-invitations"}
           /\ "orgActive" \in ReadBy[f] =>
                f \in {"dashboard-stats", "admin-organizations", "admin-organizations-active"}
           /\ "invitation" \in ReadBy[f] =>
                f \in {"admin-invitations", "org-invitations", "org-invitations-all", "org-invitations-count"}
           /\ "mark" \in ReadBy[f] => f \in {"alerts", "unread-alerts-count"}
           /\ "report" \in ReadBy[f] => f = "reports"
           /\ "session" \in ReadBy[f] => f = "auth-sessions"
<1>1. \/ f = "shipments" /\ ReadBy[f] = ShipmentsRead
      \/ f = "shipment-detail" /\ ReadBy[f] = ShipmentRead
      \/ f \in {"routes", "routes-picker"} /\ ReadBy[f] = RoutesRead
      \/ f = "checkpoints" /\ ReadBy[f] = CheckpointsRead
      \/ f = "alerts" /\ ReadBy[f] = AlertsRead
      \/ f = "unread-alerts-count" /\ ReadBy[f] = UnreadRead
      \/ f = "reports" /\ ReadBy[f] = ReportsRead
      \/ f = "auth-sessions" /\ ReadBy[f] = SessionsRead
      \/ f = "dashboard-stats" /\ ReadBy[f] = StatsRead
      \/ f = "admin-users" /\ ReadBy[f] = UsersRead
      \/ f = "admin-organizations" /\ ReadBy[f] = OrganizationsRead
      \/ f = "admin-organizations-active" /\ ReadBy[f] = {"orgActive"}
      \/ f = "admin-invitations" /\ ReadBy[f] = AllInvitesRead
      \/ f \in {"org-members", "org-members-active"} /\ ReadBy[f] = MembersRead
      \/ f \in {"org-invitations", "org-invitations-all", "org-invitations-count"} /\ ReadBy[f] = OrgInvitesRead
  BY DEF Family, ReadBy
<1> QED
  BY <1>1 DEF StatsRead, ShipmentsRead, ShipmentRead, RoutesRead, CheckpointsRead, UsersRead,
       OrganizationsRead, AllInvitesRead, OrgInvitesRead, MembersRead, AlertsRead, UnreadRead,
       ReportsRead, SessionsRead

\* An answer reaches every family that reads what the change wrote, but for those it is
\* known never to reach and the lists of invitations, which load whenever they mount.
Reached(c, f) ==
    \/ ReadBy[f] \cap EffectOf[c].writes = {}
    \/ c \in NeverTold[f]
    \/ f \in EffectOf[c].stales
    \/ f \in NeverFresh /\ (c = "adminInvite" \/ (c = "manageInvite" /\ f = "org-invitations"))

LEMMA AnswersReach ==
    ASSUME NEW c \in Change, NEW f \in Family
    PROVE  Reached(c, f)
<1>1. PICK t \in ChangeTables : c \in DOMAIN t
  BY DEF Change
<1>2. EffectOf[c] = t[c]
  BY <1>1, OneTable
<1>3. CASE t = ShipmentChanges
  BY <1>1, <1>2, <1>3, Readers DEF Reached, ShipmentChanges, Effect, NeverTold, NeverFresh, Family
<1>4. CASE t = RouteChanges
  BY <1>1, <1>2, <1>4, Readers DEF Reached, RouteChanges, Effect, NeverTold, NeverFresh, Family
<1>5. CASE t = CheckpointChanges
  BY <1>1, <1>2, <1>5, Readers DEF Reached, CheckpointChanges, Effect, NeverTold, NeverFresh, Family
<1>6. CASE t = UserChanges
  BY <1>1, <1>2, <1>6, Readers DEF Reached, UserChanges, Effect, NeverTold, NeverFresh, Family
<1>7. CASE t = OrganizationChanges
  BY <1>1, <1>2, <1>7, Readers DEF Reached, OrganizationChanges, Effect, NeverTold, NeverFresh, Family
<1>8. CASE t = OrganizationEdit
  BY <1>1, <1>2, <1>8, Readers DEF Reached, OrganizationEdit, Effect, NeverTold, NeverFresh, Family
<1>9. CASE t = AdminInviteChanges
  BY <1>1, <1>2, <1>9, Readers DEF Reached, AdminInviteChanges, Effect, NeverTold, NeverFresh, Family
<1>10. CASE t = MemberChanges
  BY <1>1, <1>2, <1>10, Readers DEF Reached, MemberChanges, Effect, NeverTold, NeverFresh, Family
<1>11. CASE t = InviteChange
  BY <1>1, <1>2, <1>11, Readers DEF Reached, InviteChange, Effect, NeverTold, NeverFresh, Family
<1>12. CASE t = OrgInviteChanges
  BY <1>1, <1>2, <1>12, Readers DEF Reached, OrgInviteChanges, Effect, NeverTold, NeverFresh, Family
<1>13. CASE t = AlertChanges
  BY <1>1, <1>2, <1>13, Readers DEF Reached, AlertChanges, Effect, NeverTold, NeverFresh, Family
<1>14. CASE t = ReportChanges
  BY <1>1, <1>2, <1>14, Readers DEF Reached, ReportChanges, Effect, NeverTold, NeverFresh, Family
<1>15. CASE t = SessionChanges
  BY <1>1, <1>2, <1>15, Readers DEF Reached, SessionChanges, Effect, NeverTold, NeverFresh, Family
<1>16. CASE t = PasswordChange
  BY <1>1, <1>2, <1>16, Readers DEF Reached, PasswordChange, Effect, NeverTold, NeverFresh, Family
<1>17. CASE t = ProfileChange
  BY <1>1, <1>2, <1>17, Readers DEF Reached, ProfileChange, Effect, NeverTold, NeverFresh, Family
<1> QED
  BY <1>1, <1>3, <1>4, <1>5, <1>6, <1>7, <1>8, <1>9, <1>10, <1>11, <1>12, <1>13, <1>14, <1>15, <1>16, <1>17
     DEF ChangeTables

\* The lists of one organization are invalidated by the changes of its administrators only.
LEMMA ScopedStales ==
    ASSUME NEW c \in Change, EffectOf[c].stales \cap OrgScoped # {}
    PROVE  c \in {"switchMember", "invite", "manageInvite"}
<1>1. PICK t \in ChangeTables : c \in DOMAIN t
  BY DEF Change
<1>2. EffectOf[c] = t[c]
  BY <1>1, OneTable
<1>3. t \in {MemberChanges, InviteChange, OrgInviteChanges}
  BY <1>1, <1>2, ChangesByTable
     DEF ChangeTables, ShipmentChanges, RouteChanges, CheckpointChanges, UserChanges, OrganizationChanges,
         OrganizationEdit, AdminInviteChanges, AlertChanges, ReportChanges, SessionChanges,
         PasswordChange, ProfileChange, Effect, OrgScoped
<1> QED
  BY <1>1, <1>3, ChangesByTable
-----------------------------------------------------------------------------
(* The pages and panels each role is led to, and what the server admits   *)

LEMMA PagesLed ==
    ASSUME NEW a \in Account, NEW p \in DOMAIN PagesOf(a)
    PROVE  \/ p = "dashboard" /\ PagesOf(a)[p] = DashboardRedirect(a)
           \/ p = "shipments" /\ PagesOf(a)[p] = ShipmentsRedirect(a)
           \/ p = "tracking"  /\ PagesOf(a)[p] = TrackingPage
           \/ p = "alerts"    /\ PagesOf(a)[p] = AlertsPage
           \/ p = "reports"   /\ PagesOf(a)[p] = ReportsPage
           \/ p = "profile"   /\ PagesOf(a)[p] = ProfilePage
           \/ /\ RoleOf[a] = "admin"
              /\ \/ p = "members"     /\ PagesOf(a)[p] = OrganizationsPage
                 \/ p = "invitations" /\ PagesOf(a)[p] = InvitationsPage
           \/ /\ RoleOf[a] = "super_admin"
              /\ \/ p = "users"          /\ PagesOf(a)[p] = UsersReportPage
                 \/ p = "organizations"  /\ PagesOf(a)[p] = SuperAdminOrganizationsPage
                 \/ p = "allInvitations" /\ PagesOf(a)[p] = SuperAdminInvitationsPage
                 \/ p = "routes"         /\ PagesOf(a)[p] = RoutesPage
                 \/ p = "checkpoints"    /\ PagesOf(a)[p] = CheckpointsPage
<1>1. CASE RoleOf[a] = "admin"
  BY <1>1 DEF PagesOf, Merged, CommonPages, AdminPages
<1>2. CASE RoleOf[a] = "super_admin"
  BY <1>2 DEF PagesOf, Merged, CommonPages, SuperAdminPages
<1>3. CASE RoleOf[a] \notin {"admin", "super_admin"}
  <2>1. PagesOf(a) = Merged(CommonPages(a), << >>)
    BY <1>3 DEF PagesOf
  <2>2. DOMAIN << >> = {}
    OBVIOUS
  <2>3. p \in DOMAIN CommonPages(a) /\ PagesOf(a)[p] = CommonPages(a)[p]
    BY <2>1, <2>2 DEF Merged
  <2> QED
    BY <2>3 DEF CommonPages
<1> QED
  BY <1>1, <1>2, <1>3

\* Every role has the common pages.
LEMMA CommonPagesThere ==
    ASSUME NEW a \in Account
    PROVE  "dashboard" \in DOMAIN PagesOf(a)
BY DEF PagesOf, Merged, CommonPages

LEMMA PanelsLed ==
    ASSUME NEW a \in Account, NEW p, NEW q \in DOMAIN PanelsOf(a, p)
    PROVE  \/ q = "none" /\ PanelsOf(a, p)[q] = Blank
           \/ q = "bell" /\ PanelsOf(a, p)[q] = Bell
           \/ /\ p = "shipments" /\ RoleOf[a] = "carrier"
              /\ \/ q = "assigned"  /\ PanelsOf(a, p)[q] = OrgShipmentsTab
                 \/ q = "available" /\ PanelsOf(a, p)[q] = AvailableTab
                 \/ q = "detail"    /\ PanelsOf(a, p)[q] = ShipmentDetailPanel
                 \/ q = "picker"    /\ PanelsOf(a, p)[q] = RoutePicker
           \/ /\ p = "shipments" /\ RoleOf[a] # "carrier"
              /\ \/ q = "create" /\ PanelsOf(a, p)[q] = CreateShipmentModal(a)
                 \/ q = "edit"   /\ PanelsOf(a, p)[q] = EditShipmentModal(a)
           \/ p = "invitations"   /\ q = "invite" /\ PanelsOf(a, p)[q] = InviteMemberModal
           \/ p = "organizations" /\ q = "edit" /\ PanelsOf(a, p)[q] = EditOrganizationModal
           \/ p = "routes"        /\ q = "edit" /\ PanelsOf(a, p)[q] = RouteModal
           \/ p = "routes"        /\ q = "stops" /\ PanelsOf(a, p)[q] = RouteCheckpointsModal
           \/ p = "checkpoints"   /\ q = "edit" /\ PanelsOf(a, p)[q] = CheckpointModal
<1>1. CASE p = "shipments" /\ RoleOf[a] = "carrier"
  BY <1>1 DEF PanelsOf, Merged
<1>2. CASE p = "shipments" /\ RoleOf[a] # "carrier"
  BY <1>2 DEF PanelsOf, Merged
<1>3. CASE p \in {"invitations", "organizations", "routes", "checkpoints"}
  BY <1>3 DEF PanelsOf, Merged
<1>4. CASE p \notin {"shipments", "invitations", "organizations", "routes", "checkpoints"}
  <2>1. PanelsOf(a, p) = Merged([none |-> Blank, bell |-> Bell], << >>)
    BY <1>4 DEF PanelsOf
  <2> QED
    BY <2>1 DEF Merged
<1> QED
  BY <1>1, <1>2, <1>3, <1>4

LEMMA NonePanelThere ==
    ASSUME NEW a \in Account, NEW p
    PROVE  "none" \in DOMAIN PanelsOf(a, p)
BY DEF PanelsOf, Merged
-----------------------------------------------------------------------------
\* The server admits what a part of the screen mounts and offers.
Served(a, s) ==
    /\ \A q \in s.queries : MayAsk(a, q[1])
    /\ \A c \in s.offers : MayAsk(a, c)

LEMMA OneFamily ==
    ASSUME NEW f
    PROVE  One(f)[1] = f
BY DEF One

LEMMA BothServed ==
    ASSUME NEW a, NEW s, NEW t, Served(a, s), Served(a, t)
    PROVE  Served(a, With(s, t))
BY DEF Served, With, Shows

\* What the controllers admit, role by role.
LEMMA AskedByRole ==
    ASSUME NEW a \in Account
    PROVE  /\ \A q \in {"shipments", "shipment-detail", "updateStatus", "routes", "routes-picker",
                        "checkpoints", "alerts", "unread-alerts-count", "markRead", "dashboard-stats",
                        "reports", "generateReport", "auth-sessions", "revokeSessions",
                        "updatePassword", "updateProfile"} : MayAsk(a, q)
           /\ RoleOf[a] = "super_admin" => \A q : MayAsk(a, q)
           /\ RoleOf[a] = "admin" =>
                \A q \in {"org-members", "org-members-active", "org-invitations", "org-invitations-all",
                          "org-invitations-count", "invite", "manageInvite", "switchMember"} : MayAsk(a, q)
           /\ RoleOf[a] \in {"shipper", "admin"} =>
                MayAsk(a, "createShipment") /\ MayAsk(a, "updateShipment")
           /\ RoleOf[a] = "carrier" => MayAsk(a, "acceptShipment") /\ MayAsk(a, "assignRoute")
<1>1. RoleOf[a] \in AnyRole
  BY ScreensAssumption
<1>2. \A t \in Controllers : \A q : q \in DOMAIN t /\ RoleOf[a] \in t[q] => MayAsk(a, q)
  BY DEF MayAsk
<1>3. \A q \in {"shipments", "shipment-detail", "updateStatus"} : MayAsk(a, q)
  BY <1>1, <1>2 DEF Controllers, ShipmentsController
<1>4. \A q \in {"routes", "routes-picker"} : MayAsk(a, q)
  BY <1>1, <1>2 DEF Controllers, RoutesController
<1>5. MayAsk(a, "checkpoints")
  BY <1>1, <1>2 DEF Controllers, CheckpointsController
<1>6. \A q \in {"alerts", "unread-alerts-count", "markRead"} : MayAsk(a, q)
  BY <1>1, <1>2 DEF Controllers, AlertsController
<1>7. MayAsk(a, "dashboard-stats")
  BY <1>1, <1>2 DEF Controllers, DashboardController
<1>8. \A q \in {"reports", "generateReport"} : MayAsk(a, q)
  BY <1>1, <1>2 DEF Controllers, ReportsController
<1>9. \A q \in {"auth-sessions", "revokeSessions", "updatePassword", "updateProfile"} : MayAsk(a, q)
  BY <1>1, <1>2 DEF Controllers, AuthController
<1>10. RoleOf[a] = "super_admin" => \A q : MayAsk(a, q)
  BY DEF MayAsk
<1>11. RoleOf[a] = "admin" =>
         \A q \in {"org-members", "org-members-active", "org-invitations", "org-invitations-all",
                   "org-invitations-count", "invite", "manageInvite", "switchMember"} : MayAsk(a, q)
  BY <1>2 DEF Controllers, OrganizationsController
<1>12. RoleOf[a] \in {"shipper", "admin"} => MayAsk(a, "createShipment") /\ MayAsk(a, "updateShipment")
  BY <1>2 DEF Controllers, ShipmentsController
<1>13. RoleOf[a] = "carrier" => MayAsk(a, "acceptShipment") /\ MayAsk(a, "assignRoute")
  BY <1>2 DEF Controllers, ShipmentsController
<1> QED
  BY <1>3, <1>4, <1>5, <1>6, <1>7, <1>8, <1>9, <1>10, <1>11, <1>12, <1>13

LEMMA PagesServed ==
    ASSUME NEW a \in Account, NEW p \in DOMAIN PagesOf(a)
    PROVE  Served(a, PagesOf(a)[p])
<1>1. RoleOf[a] \in AnyRole
  BY ScreensAssumption
<1>2. Served(a, DashboardRedirect(a))
  BY <1>1, AskedByRole, OneFamily DEF DashboardRedirect, SuperAdminDashboard, AdminDashboard, CarrierDashboard,
     ShipperDashboard, RegulatorDashboard, Blank, Shows, Served, AnyRole
<1>3. Served(a, ShipmentsRedirect(a))
  BY <1>1, AskedByRole DEF ShipmentsRedirect, CarrierShipmentsPage, ShipmentsPage, Shows, Served
<1>4. Served(a, TrackingPage) /\ Served(a, AlertsPage) /\ Served(a, ReportsPage) /\ Served(a, ProfilePage)
  BY AskedByRole, OneFamily DEF TrackingPage, AlertsPage, ReportsPage, ProfilePage, Shows, Served
<1>5. RoleOf[a] = "admin" => Served(a, OrganizationsPage) /\ Served(a, InvitationsPage)
  BY AskedByRole, OneFamily DEF OrganizationsPage, InvitationsPage, Shows, Served
<1>6. RoleOf[a] = "super_admin" => \A s : Served(a, s)
  BY AskedByRole, OneFamily DEF Served
<1> QED
  BY <1>2, <1>3, <1>4, <1>5, <1>6, PagesLed

LEMMA PanelsServed ==
    ASSUME NEW a \in Account, NEW p \in DOMAIN PagesOf(a), NEW q \in DOMAIN PanelsOf(a, p)
    PROVE  Served(a, PanelsOf(a, p)[q])
<1>1. Served(a, Blank) /\ Served(a, Bell)
  BY AskedByRole, OneFamily DEF Blank, Bell, Shows, Served
<1>2. Served(a, OrgShipmentsTab) /\ Served(a, ShipmentDetailPanel)
  BY AskedByRole, OneFamily DEF OrgShipmentsTab, ShipmentDetailPanel, Shows, Served
<1>3. RoleOf[a] = "carrier" => Served(a, AvailableTab) /\ Served(a, RoutePicker)
  <2>1. RoleOf[a] = "carrier" => Served(a, Shows({One("routes-picker")}, {"assignRoute"}))
    BY AskedByRole, OneFamily DEF Shows, Served
  <2>2. RoleOf[a] = "carrier" => Served(a, RoutePicker)
    BY <1>2, <2>1, BothServed DEF RoutePicker
  <2> QED
    BY <2>2, AskedByRole DEF AvailableTab, Shows, Served
<1>4. Served(a, CreateShipmentModal(a)) /\ Served(a, EditShipmentModal(a))
  BY AskedByRole, OneFamily DEF CreateShipmentModal, EditShipmentModal, MayEdit, Shows, Served
<1>5. p = "invitations" => Served(a, InviteMemberModal)
  BY PagesLed, AskedByRole DEF InviteMemberModal, Shows, Served
<1>6. p \in {"organizations", "routes", "checkpoints"} => \A s : Served(a, s)
  BY PagesLed, AskedByRole DEF Served
<1> QED
  BY <1>1, <1>2, <1>3, <1>4, <1>5, <1>6, PanelsLed
-----------------------------------------------------------------------------
\* Who sees the lists that never are fresh, and who may change their rows.
Suits(a, p, s) ==
    /\ \A q \in s.queries : /\ q[1] \in Family
                            /\ q[1] \in NeverFresh => RoleOf[a] = "admin"
                            /\ q[1] = "org-invitations" => p = "dashboard"
    /\ \A c \in s.offers : /\ c \in {"switchMember", "invite", "manageInvite"} => RoleOf[a] = "admin"
                           /\ c = "manageInvite" => p = "invitations"
                           /\ c = "adminInvite" => RoleOf[a] = "super_admin"

LEMMA BothFit ==
    ASSUME NEW a, NEW p, NEW s, NEW t, Suits(a, p, s), Suits(a, p, t)
    PROVE  Suits(a, p, With(s, t))
BY DEF Suits, With, Shows

LEMMA LayoutFits ==
    ASSUME NEW a, NEW p
    PROVE  Suits(a, p, Layout)
BY OneFamily DEF Suits, Layout, Shows, Family, NeverFresh

LEMMA PagesFit ==
    ASSUME NEW a \in Account, NEW p \in DOMAIN PagesOf(a)
    PROVE  Suits(a, p, PagesOf(a)[p])
<1>1. RoleOf[a] \in AnyRole
  BY ScreensAssumption
<1>2. p = "dashboard" => Suits(a, p, DashboardRedirect(a))
  BY <1>1, OneFamily DEF DashboardRedirect, SuperAdminDashboard, AdminDashboard, CarrierDashboard,
     ShipperDashboard, RegulatorDashboard, Blank, Shows, Suits, AnyRole, Family, NeverFresh
<1>3. Suits(a, p, ShipmentsRedirect(a))
  BY <1>1 DEF ShipmentsRedirect, CarrierShipmentsPage, ShipmentsPage, Shows, Suits, Family, NeverFresh
<1>4. Suits(a, p, TrackingPage) /\ Suits(a, p, AlertsPage) /\ Suits(a, p, ReportsPage) /\ Suits(a, p, ProfilePage)
  BY OneFamily DEF TrackingPage, AlertsPage, ReportsPage, ProfilePage, Shows, Suits, Family, NeverFresh
<1>5. RoleOf[a] = "admin" => Suits(a, p, OrganizationsPage)
  BY OneFamily DEF OrganizationsPage, Shows, Suits, Family, NeverFresh
<1>6. RoleOf[a] = "admin" /\ p = "invitations" => Suits(a, p, InvitationsPage)
  BY OneFamily DEF InvitationsPage, Shows, Suits, Family, NeverFresh
<1>7. Suits(a, p, UsersReportPage) /\ Suits(a, p, SuperAdminOrganizationsPage)
  BY OneFamily DEF UsersReportPage, SuperAdminOrganizationsPage, Shows, Suits, Family, NeverFresh
<1>8. RoleOf[a] = "super_admin" => Suits(a, p, SuperAdminInvitationsPage)
  BY OneFamily DEF SuperAdminInvitationsPage, Shows, Suits, Family, NeverFresh
<1>9. Suits(a, p, RoutesPage) /\ Suits(a, p, CheckpointsPage)
  BY DEF RoutesPage, CheckpointsPage, Shows, Suits, Family, NeverFresh
<1> QED
  BY <1>2, <1>3, <1>4, <1>5, <1>6, <1>7, <1>8, <1>9, PagesLed

LEMMA PanelsFit ==
    ASSUME NEW a \in Account, NEW p \in DOMAIN PagesOf(a), NEW q \in DOMAIN PanelsOf(a, p)
    PROVE  Suits(a, p, PanelsOf(a, p)[q])
<1>1. Suits(a, p, Blank) /\ Suits(a, p, Bell)
  BY DEF Blank, Bell, Shows, Suits, Family, NeverFresh
<1>2. Suits(a, p, OrgShipmentsTab) /\ Suits(a, p, AvailableTab) /\ Suits(a, p, ShipmentDetailPanel)
  BY OneFamily DEF OrgShipmentsTab, AvailableTab, ShipmentDetailPanel, Shows, Suits, Family, NeverFresh
<1>3. Suits(a, p, RoutePicker)
  <2>1. Suits(a, p, Shows({One("routes-picker")}, {"assignRoute"}))
    BY OneFamily DEF Shows, Suits, Family, NeverFresh
  <2> QED
    BY <1>2, <2>1, BothFit DEF RoutePicker
<1>4. Suits(a, p, CreateShipmentModal(a)) /\ Suits(a, p, EditShipmentModal(a))
  BY DEF CreateShipmentModal, EditShipmentModal, Shows, Suits
<1>5. p = "invitations" => Suits(a, p, InviteMemberModal)
  BY PagesLed DEF InviteMemberModal, Shows, Suits
<1>6. /\ Suits(a, p, EditOrganizationModal) /\ Suits(a, p, RouteModal)
      /\ Suits(a, p, RouteCheckpointsModal) /\ Suits(a, p, CheckpointModal)
  BY DEF EditOrganizationModal, RouteModal, RouteCheckpointsModal, CheckpointModal, Shows, Suits,
     Family, NeverFresh
<1> QED
  BY <1>1, <1>2, <1>3, <1>4, <1>5, <1>6, PanelsLed
-----------------------------------------------------------------------------
(* The inductive invariant of the screens                                  *)

\* What is shown is a page the role is led to, and a panel of that page.
LedThere(a, v) ==
    /\ v \in [page : PageName, panel : PanelName]
    /\ v.page \in DOMAIN PagesOf(a) /\ v.panel \in DOMAIN PanelsOf(a, v.page)

Keyed(k) == k[1] \in Family /\ (k[1] \notin OrgScoped => k[3] = Nil)

\* What is mounted has an answer nobody has invalidated.
MountedIsLoaded ==
    \A k \in Mounted : k \in DOMAIN queryCache /\ ~queryCache[k].invalid

\* The answer to c is still to come, and will invalidate the entry.
Awaited(k, c) ==
    \E u \in unanswered : u[1] = c /\ k[1] \in EffectOf[c].stales /\ k[3] \in {Nil, u[2]}

\* Why an entry may be behind a change: it is never told, it is told already, it will be,
\* or it loads anew before anybody sees it.
Excused(k, c) ==
    \/ c \in NeverTold[k[1]]
    \/ queryCache[k].invalid
    \/ Awaited(k, c)
    \/ k[1] \in NeverFresh /\ k \notin Mounted

BehindIsExcused ==
    \A k \in DOMAIN queryCache : Keyed(k) /\ \A c \in queryCache[k].behind : Excused(k, c)

ScreensInv ==
    /\ ScreensTypeOK
    /\ viewer # Nil => viewer \in Account /\ LedThere(viewer, view)
    /\ MountedIsLoaded
    /\ BehindIsExcused

\* The keys of a signed-in person's screen.
ScreenKeys(a, v) == LayoutKeys(a) \cup Keys(a, Showing(a, v).queries)

LEMMA MountedIsScreen ==
    Mounted = IF viewer = Nil THEN {} ELSE ScreenKeys(viewer, view)
BY DEF Mounted, ScreenKeys

LEMMA ScreenKeysOf ==
    ASSUME NEW a, NEW v
    PROVE  ScreenKeys(a, v) = LayoutKeys(a) \cup Keys(a, PagesOf(a)[v.page].queries)
                                \cup Keys(a, PanelsOf(a, v.page)[v.panel].queries)
<1> DEFINE s == PagesOf(a)[v.page]
           t == PanelsOf(a, v.page)[v.panel]
<1>1. Showing(a, v) = With(s, t)
  BY DEF Showing
<1> HIDE DEF s, t
<1>2. Keys(a, With(s, t).queries) = Keys(a, s.queries) \cup Keys(a, t.queries)
  BY DEF Keys, With, Shows
<1>3. ScreenKeys(a, v) = LayoutKeys(a) \cup Keys(a, s.queries) \cup Keys(a, t.queries)
  BY <1>1, <1>2 DEF ScreenKeys
<1> QED
  BY <1>3 DEF s, t

LEMMA ScreenFits ==
    ASSUME NEW a \in Account, NEW v, LedThere(a, v)
    PROVE  Suits(a, v.page, With(Layout, Showing(a, v)))
BY LayoutFits, PagesFit, PanelsFit, BothFit DEF LedThere, Showing

LEMMA ScreenKeysAre ==
    ASSUME NEW a \in Account, NEW v, LedThere(a, v), NEW k \in ScreenKeys(a, v)
    PROVE  /\ Keyed(k)
           /\ k[1] \in NeverFresh => RoleOf[a] = "admin"
           /\ k[1] = "org-invitations" => v.page = "dashboard"
<1>1. a # Nil
  BY ScreensAssumption
<1>2. PICK q \in With(Layout, Showing(a, v)).queries : k = <<q[1], q[2], Scope(a, q[1])>>
  BY <1>1 DEF ScreenKeys, LayoutKeys, Keys, With, Shows
<1>3. k[1] = q[1] /\ k[3] = Scope(a, q[1])
  BY <1>2
<1> QED
  BY <1>2, <1>3, ScreenFits DEF Suits, Keyed, Scope
-----------------------------------------------------------------------------
(* Every step keeps it                                                     *)

LEMMA LoadedTyped ==
    Loaded \in [behind : SUBSET Change, invalid : BOOLEAN, old : BOOLEAN]
BY DEF Loaded

LEMMA VisitKeeps ==
    ASSUME ScreensInv, NEW a \in Account, NEW v, LedThere(a, v), NEW keys, Visit(a, v, keys),
           keys \subseteq ScreenKeys(a, v),
           ScreenKeys(a, v) \subseteq Mounted \cup keys
    PROVE  ScreensInv'
<1>1. a # Nil /\ viewer' = a /\ view' = v /\ unanswered' = unanswered
  BY ScreensAssumption DEF Visit
<1>2. Mounted' = ScreenKeys(a, v)
  BY <1>1 DEF Mounted, ScreenKeys, LayoutKeys
<1>3. /\ DOMAIN queryCache' = keys \cup DOMAIN queryCache
      /\ \A k \in DOMAIN queryCache' :
            IF k \in keys /\ Reloads(k) THEN queryCache'[k] = Loaded
                                        ELSE k \in DOMAIN queryCache /\ queryCache'[k] = queryCache[k]
  <2> DEFINE anew == [k \in {k \in keys : Reloads(k)} |-> Loaded]
  <2>1. queryCache' = Merged(anew, queryCache)
    BY DEF Visit, Mount
  <2>2. DOMAIN anew = {k \in keys : Reloads(k)} /\ \A k \in DOMAIN anew : anew[k] = Loaded
    OBVIOUS
  <2>3. \A k \in keys : k \in DOMAIN anew \/ k \in DOMAIN queryCache
    BY <2>2 DEF Reloads
  <2> HIDE DEF anew
  <2>4. DOMAIN queryCache' = DOMAIN anew \cup DOMAIN queryCache
    BY <2>1 DEF Merged
  <2>5. \A k \in DOMAIN queryCache' : queryCache'[k] = IF k \in DOMAIN anew THEN anew[k] ELSE queryCache[k]
    BY <2>1, <2>4 DEF Merged
  <2> QED
    BY <2>2, <2>3, <2>4, <2>5
<1>4. ScreensTypeOK'
  <2>1. \A k \in DOMAIN queryCache' :
            queryCache'[k] \in [behind : SUBSET Change, invalid : BOOLEAN, old : BOOLEAN]
    BY <1>3, LoadedTyped DEF ScreensInv, ScreensTypeOK
  <2>2. viewer' \in Account /\ view' \in [page : PageName, panel : PanelName]
    BY <1>1 DEF LedThere
  <2>3. visits' \in 0..MaxVisits /\ submitted' \in 0..MaxSubmits
    BY ScreensAssumption DEF ScreensInv, ScreensTypeOK, Visit
  <2>4. unanswered' \subseteq Change \X {OrgOf[b] : b \in Account}
    BY <1>1 DEF ScreensInv, ScreensTypeOK
  <2> QED
    BY <2>1, <2>2, <2>3, <2>4 DEF ScreensTypeOK
<1>5. MountedIsLoaded'
  <2> SUFFICES ASSUME NEW k \in Mounted'
               PROVE  k \in DOMAIN queryCache' /\ ~queryCache'[k].invalid
    BY DEF MountedIsLoaded
  <2>1. CASE k \in keys
    BY <1>3, <2>1 DEF Loaded, Reloads
  <2>2. CASE k \notin keys
    BY <1>2, <1>3, <2>2 DEF ScreensInv, MountedIsLoaded
  <2> QED
    BY <2>1, <2>2
<1>6. BehindIsExcused'
  <2> SUFFICES ASSUME NEW k \in DOMAIN queryCache'
               PROVE  Keyed(k) /\ \A c \in queryCache'[k].behind : Excused(k, c)'
    BY DEF BehindIsExcused
  <2>1. CASE k \in keys /\ Reloads(k)
    BY <1>3, <2>1, ScreenKeysAre DEF Loaded
  <2>2. CASE ~(k \in keys /\ Reloads(k))
    <3>1. k \in DOMAIN queryCache /\ queryCache'[k] = queryCache[k]
      BY <1>3, <2>2
    <3> SUFFICES ASSUME NEW c \in queryCache[k].behind, Excused(k, c)
                 PROVE  Excused(k, c)'
      BY <3>1 DEF ScreensInv, BehindIsExcused
    <3>2. Awaited(k, c)' = Awaited(k, c)
      BY <1>1 DEF Awaited
    <3>3. k[1] \in NeverFresh /\ k \notin Mounted => k \notin Mounted'
      BY <1>2, <2>2 DEF Reloads
    <3> QED
      BY <3>1, <3>2, <3>3 DEF Excused
  <2> QED
    BY <2>1, <2>2
<1> QED
  BY <1>1, <1>4, <1>5, <1>6 DEF ScreensInv

LEMMA InitScreens == ScreensInit => ScreensInv
BY ScreensAssumption DEF ScreensInit, ScreensInv, ScreensTypeOK, PageName, PanelName, MountedIsLoaded, Mounted, BehindIsExcused

LEMMA SignInKeeps ==
    ASSUME ScreensInv, NEW a \in Account, SignIn(a)
    PROVE  ScreensInv'
<1> DEFINE v == [page |-> "dashboard", panel |-> "none"]
<1>1. LedThere(a, v)
  BY CommonPagesThere, NonePanelThere DEF LedThere, PageName, PanelName
<1>2. Visit(a, v, ScreenKeys(a, v))
  BY DEF SignIn, ScreenKeys
<1> HIDE DEF v
<1> QED
  BY <1>1, <1>2, VisitKeeps

LEMMA OpenPageKeeps ==
    ASSUME ScreensInv, NEW p, OpenPage(p)
    PROVE  ScreensInv'
<1> DEFINE v    == [page |-> p, panel |-> "none"]
           keys == Keys(viewer, Showing(viewer, v).queries) \ LayoutKeys(viewer)
<1>1. viewer \in Account /\ viewer # Nil /\ p \in DOMAIN PagesOf(viewer) /\ Visit(viewer, v, keys)
  BY DEF OpenPage, ScreensInv
<1>2. p \in PageName
  BY <1>1, PagesLed DEF PageName
<1>3. LedThere(viewer, v)
  BY <1>1, <1>2, NonePanelThere DEF LedThere, PanelName
<1>4. LayoutKeys(viewer) \subseteq Mounted
  BY <1>1 DEF Mounted
<1>5. keys \subseteq ScreenKeys(viewer, v) /\ ScreenKeys(viewer, v) \subseteq Mounted \cup keys
  BY <1>4 DEF ScreenKeys
<1> HIDE DEF v, keys
<1> QED
  BY <1>1, <1>3, <1>5, VisitKeeps

LEMMA OpenPanelKeeps ==
    ASSUME ScreensInv, NEW p, OpenPanel(p)
    PROVE  ScreensInv'
<1> DEFINE v    == [view EXCEPT !.panel = p]
           page == view.page
           keys == Keys(viewer, PanelsOf(viewer, page)[p].queries)
<1>1. /\ viewer \in Account /\ viewer # Nil /\ LedThere(viewer, view)
      /\ p \in DOMAIN PanelsOf(viewer, page) /\ Visit(viewer, v, keys)
  BY DEF OpenPanel, ScreensInv
<1>2. p \in PanelName
  BY <1>1, PanelsLed DEF PanelName
<1>3. v.page = page /\ v.panel = p /\ v \in [page : PageName, panel : PanelName]
  BY <1>1, <1>2 DEF LedThere
<1>4. LedThere(viewer, v)
  BY <1>1, <1>3 DEF LedThere
<1>5. Mounted = LayoutKeys(viewer) \cup Keys(viewer, PagesOf(viewer)[page].queries)
                  \cup Keys(viewer, PanelsOf(viewer, page)[view.panel].queries)
  BY <1>1, MountedIsScreen, ScreenKeysOf
<1>6. ScreenKeys(viewer, v) = LayoutKeys(viewer) \cup Keys(viewer, PagesOf(viewer)[page].queries) \cup keys
  BY <1>3, ScreenKeysOf
<1> HIDE DEF v, keys
<1> QED
  BY <1>1, <1>4, <1>5, <1>6, VisitKeeps

LEMMA SignOutKeeps ==
    ASSUME ScreensInv, SignOut
    PROVE  ScreensInv'
<1>1. /\ viewer' = Nil /\ queryCache' = queryCache /\ unanswered' = unanswered
      /\ Mounted' = {} /\ view' \in [page : PageName, panel : PanelName]
  BY DEF SignOut, Mounted, PageName, PanelName
<1>2. ScreensTypeOK'
  BY <1>1 DEF SignOut, ScreensInv, ScreensTypeOK
<1>3. \A k, c : Excused(k, c) => Excused(k, c)'
  BY <1>1 DEF Excused, Awaited
<1> QED
  BY <1>1, <1>2, <1>3 DEF ScreensInv, MountedIsLoaded, BehindIsExcused

LEMMA LoadAnewKeeps ==
    ASSUME ScreensInv, LoadAnew
    PROVE  ScreensInv'
<1> DEFINE v == [view EXCEPT !.panel = "none"]
<1>1. /\ viewer \in Account /\ viewer # Nil /\ LedThere(viewer, view)
      /\ viewer' = viewer /\ view' = v /\ unanswered' = {}
      /\ queryCache' = [k \in LayoutKeys(viewer) \cup Keys(viewer, PagesOf(viewer)[view.page].queries)
                          |-> Loaded]
  BY DEF LoadAnew, ScreensInv
<1>2. v.page = view.page /\ v.panel = "none" /\ v \in [page : PageName, panel : PanelName]
  BY <1>1 DEF LedThere, PanelName
<1>3. LedThere(viewer, v)
  BY <1>1, <1>2, NonePanelThere DEF LedThere, PanelName
<1>4. PanelsOf(viewer, view.page)["none"] = Blank
  BY <1>1, NonePanelThere, PanelsLed
<1>6. Keys(viewer, Blank.queries) = {}
  BY DEF Keys, Blank, Shows
<1>7. ScreenKeys(viewer, v) = LayoutKeys(viewer) \cup Keys(viewer, PagesOf(viewer)[view.page].queries)
  BY <1>2, <1>4, <1>6, ScreenKeysOf
<1>8. DOMAIN queryCache' = ScreenKeys(viewer, v) /\ \A k \in DOMAIN queryCache' : queryCache'[k] = Loaded
  BY <1>1, <1>7
<1>9. Mounted' = ScreenKeys(viewer, v)
  BY <1>1 DEF Mounted, ScreenKeys, LayoutKeys
<1>10. ScreensTypeOK'
  BY <1>1, <1>2, <1>8, LoadedTyped DEF LoadAnew, ScreensInv, ScreensTypeOK
<1>11. MountedIsLoaded'
  BY <1>8, <1>9 DEF MountedIsLoaded, Loaded
<1>12. BehindIsExcused'
  <2>1. \A k \in ScreenKeys(viewer, v) : Keyed(k)
    BY <1>1, <1>3, ScreenKeysAre
  <2>2. Loaded.behind = {}
    BY DEF Loaded
  <2> QED
    BY <1>8, <2>1, <2>2 DEF BehindIsExcused
<1> QED
  BY <1>1, <1>3, <1>10, <1>11, <1>12 DEF ScreensInv

\* Only an administrator of an organization changes its members and invitations, and a
\* super administrator's screen does not show the invitations of one.
LEMMA SubmitIsExcused ==
    ASSUME ScreensInv, NEW c \in Change, SubmitChange(c),
           NEW k \in DOMAIN queryCache, Reaches(viewer, k), ReadBy[k[1]] \cap EffectOf[c].writes # {}
    PROVE  \/ c \in NeverTold[k[1]]
           \/ k[1] \in EffectOf[c].stales /\ k[3] \in {Nil, OrgOf[viewer]}
           \/ k[1] \in NeverFresh /\ k \notin Mounted
<1>1. viewer \in Account /\ viewer # Nil /\ LedThere(viewer, view) /\ Keyed(k)
  BY DEF SubmitChange, ScreensInv, BehindIsExcused
<1>2. c \in With(Layout, Showing(viewer, view)).offers
  BY DEF SubmitChange, With, Shows
<1>3. /\ c \in {"switchMember", "invite", "manageInvite"} => RoleOf[viewer] = "admin"
      /\ c = "manageInvite" => view.page = "invitations"
      /\ c = "adminInvite" => RoleOf[viewer] = "super_admin"
  BY <1>1, <1>2, ScreenFits DEF Suits
<1>4. k \in Mounted => /\ k[1] \in NeverFresh => RoleOf[viewer] = "admin"
                       /\ k[1] = "org-invitations" => view.page = "dashboard"
  BY <1>1, MountedIsScreen, ScreenKeysAre
<1>5. Reached(c, k[1])
  BY <1>1, AnswersReach DEF Keyed
<1>6. CASE k[1] \in NeverFresh /\ (c = "adminInvite" \/ (c = "manageInvite" /\ k[1] = "org-invitations"))
  BY <1>3, <1>4, <1>6
<1>7. CASE c \notin NeverTold[k[1]] /\ k[1] \in EffectOf[c].stales
  <2>1. CASE k[1] \notin OrgScoped
    BY <1>1, <1>7, <2>1 DEF Keyed
  <2>2. CASE k[1] \in OrgScoped
    <3>1. c \in {"switchMember", "invite", "manageInvite"}
      BY <1>7, <2>2, ScopedStales
    <3> QED
      BY <1>3, <1>7, <3>1 DEF Reaches
  <2> QED
    BY <2>1, <2>2
<1> QED
  BY <1>5, <1>6, <1>7 DEF Reached

LEMMA SubmitKeeps ==
    ASSUME ScreensInv, NEW c \in Change, SubmitChange(c)
    PROVE  ScreensInv'
<1> DEFINE hit(k) == Reaches(viewer, k) /\ ReadBy[k[1]] \cap EffectOf[c].writes # {}
<1>1. /\ viewer \in Account /\ viewer' = viewer /\ view' = view
      /\ unanswered' = unanswered \cup {<<c, OrgOf[viewer]>>}
      /\ DOMAIN queryCache' = DOMAIN queryCache
  BY DEF SubmitChange, ScreensInv
<1>2. \A k \in DOMAIN queryCache :
        queryCache'[k] = IF hit(k) THEN [queryCache[k] EXCEPT !.behind = @ \cup {c}] ELSE queryCache[k]
  BY DEF SubmitChange
<1> HIDE DEF hit
<1>3. Mounted' = Mounted
  BY <1>1 DEF Mounted, LayoutKeys
<1>4. \A k \in DOMAIN queryCache :
        /\ queryCache'[k] \in [behind : SUBSET Change, invalid : BOOLEAN, old : BOOLEAN]
        /\ queryCache'[k].invalid = queryCache[k].invalid
        /\ queryCache'[k].behind = IF hit(k) THEN queryCache[k].behind \cup {c} ELSE queryCache[k].behind
  <2> SUFFICES ASSUME NEW k \in DOMAIN queryCache
               PROVE  /\ queryCache'[k] \in [behind : SUBSET Change, invalid : BOOLEAN, old : BOOLEAN]
                      /\ queryCache'[k].invalid = queryCache[k].invalid
                      /\ queryCache'[k].behind = IF hit(k) THEN queryCache[k].behind \cup {c}
                                                          ELSE queryCache[k].behind
    OBVIOUS
  <2> DEFINE more == queryCache[k].behind \cup {c}
  <2>1. queryCache[k] \in [behind : SUBSET Change, invalid : BOOLEAN, old : BOOLEAN]
    BY DEF ScreensInv, ScreensTypeOK
  <2>2. more \in SUBSET Change
    BY <2>1
  <2>3. queryCache'[k] = IF hit(k) THEN [queryCache[k] EXCEPT !.behind = more] ELSE queryCache[k]
    BY <1>2, <2>1
  <2> HIDE DEF more
  <2>4. /\ queryCache'[k] \in [behind : SUBSET Change, invalid : BOOLEAN, old : BOOLEAN]
        /\ queryCache'[k].invalid = queryCache[k].invalid
        /\ queryCache'[k].behind = IF hit(k) THEN more ELSE queryCache[k].behind
    BY <2>1, <2>2, <2>3
  <2> QED
    BY <2>4 DEF more
<1>5. ScreensTypeOK'
  BY <1>1, <1>4, ScreensAssumption DEF SubmitChange, ScreensInv, ScreensTypeOK
<1>6. MountedIsLoaded'
  BY <1>1, <1>3, <1>4 DEF ScreensInv, MountedIsLoaded
<1>7. BehindIsExcused'
  <2> SUFFICES ASSUME NEW k \in DOMAIN queryCache, NEW d \in queryCache'[k].behind
               PROVE  Excused(k, d)'
    BY <1>1 DEF ScreensInv, BehindIsExcused
  <2>1. CASE d \in queryCache[k].behind
    <3>1. Excused(k, d)
      BY <2>1 DEF ScreensInv, BehindIsExcused
    <3>2. Awaited(k, d) => Awaited(k, d)'
      <4>1. unanswered \subseteq unanswered'
        BY <1>1
      <4> QED
        BY <4>1 DEF Awaited
    <3> QED
      BY <1>3, <1>4, <3>1, <3>2 DEF Excused
  <2>2. CASE hit(k) /\ d = c
    <3>1. \/ c \in NeverTold[k[1]]
          \/ k[1] \in EffectOf[c].stales /\ k[3] \in {Nil, OrgOf[viewer]}
          \/ k[1] \in NeverFresh /\ k \notin Mounted
      BY <2>2, SubmitIsExcused DEF hit
    <3>2. k[1] \in EffectOf[c].stales /\ k[3] \in {Nil, OrgOf[viewer]} => Awaited(k, c)'
      <4> DEFINE u == <<c, OrgOf[viewer]>>
      <4>1. u \in unanswered' /\ u[1] = c /\ u[2] = OrgOf[viewer]
        BY <1>1
      <4> HIDE DEF u
      <4> QED
        BY <4>1 DEF Awaited
    <3> QED
      BY <1>3, <2>2, <3>1, <3>2 DEF Excused
  <2> QED
    BY <1>4, <2>1, <2>2
<1> QED
  BY <1>1, <1>5, <1>6, <1>7 DEF ScreensInv

\* An invalidation loads what is mounted and marks the rest.
LEMMA InvalidatedKeeps ==
    ASSUME ScreensInv, NEW families, NEW org, queryCache' = Invalidated(families, org),
           viewer' = viewer, view' = view,
           unanswered' \subseteq unanswered,
           \A u \in unanswered \ unanswered' : EffectOf[u[1]].stales \subseteq families /\ u[2] = org,
           visits' = visits, submitted' = submitted
    PROVE  ScreensInv'
<1> DEFINE hit(k) == k[1] \in families /\ k[3] \in {Nil, org}
<1>1. DOMAIN queryCache' = DOMAIN queryCache
  BY DEF Invalidated
<1>2. \A k \in DOMAIN queryCache :
        queryCache'[k] = IF ~hit(k) THEN queryCache[k]
                         ELSE IF k \in Mounted THEN Loaded ELSE [queryCache[k] EXCEPT !.invalid = TRUE]
  BY DEF Invalidated
<1>3. Mounted' = Mounted
  BY DEF Mounted, LayoutKeys
<1>4. \A k \in DOMAIN queryCache :
        /\ queryCache'[k] \in [behind : SUBSET Change, invalid : BOOLEAN, old : BOOLEAN]
        /\ ~hit(k) => queryCache'[k] = queryCache[k]
        /\ hit(k) /\ k \in Mounted => queryCache'[k] = Loaded
        /\ hit(k) /\ k \notin Mounted => queryCache'[k].invalid
  <2> HIDE DEF hit
  <2> SUFFICES ASSUME NEW k \in DOMAIN queryCache
               PROVE  /\ queryCache'[k] \in [behind : SUBSET Change, invalid : BOOLEAN, old : BOOLEAN]
                      /\ ~hit(k) => queryCache'[k] = queryCache[k]
                      /\ hit(k) /\ k \in Mounted => queryCache'[k] = Loaded
                      /\ hit(k) /\ k \notin Mounted => queryCache'[k].invalid
    OBVIOUS
  <2>1. queryCache[k] \in [behind : SUBSET Change, invalid : BOOLEAN, old : BOOLEAN]
    BY DEF ScreensInv, ScreensTypeOK
  <2>2. queryCache'[k] = IF ~hit(k) THEN queryCache[k]
                         ELSE IF k \in Mounted THEN Loaded ELSE [queryCache[k] EXCEPT !.invalid = TRUE]
    BY <1>2
  <2> QED
    BY <2>1, <2>2, LoadedTyped
<1>5. ScreensTypeOK'
  BY <1>1, <1>4 DEF ScreensInv, ScreensTypeOK
<1>6. MountedIsLoaded'
  BY <1>1, <1>3, <1>4 DEF ScreensInv, MountedIsLoaded, Loaded
<1>7. BehindIsExcused'
  <2> SUFFICES ASSUME NEW k \in DOMAIN queryCache, NEW c \in queryCache'[k].behind
               PROVE  Excused(k, c)'
    BY <1>1 DEF ScreensInv, BehindIsExcused
  <2>1. CASE hit(k)
    <3>1. k \notin Mounted
      BY <1>4, <2>1 DEF Loaded
    <3> QED
      BY <1>4, <2>1, <3>1 DEF Excused
  <2>2. CASE ~hit(k)
    <3>1. Excused(k, c)
      BY <1>4, <2>2 DEF ScreensInv, BehindIsExcused
    <3>2. Awaited(k, c) => Awaited(k, c)'
      BY <2>2 DEF Awaited
    <3> QED
      BY <1>3, <1>4, <2>2, <3>1, <3>2 DEF Excused
  <2> QED
    BY <2>1, <2>2
<1> QED
  BY <1>5, <1>6, <1>7 DEF ScreensInv

LEMMA PollKeeps ==
    ASSUME ScreensInv, PollQueries
    PROVE  ScreensInv'
<1>1. PICK q \in Mounted : queryCache' = [queryCache EXCEPT ![q] = Loaded]
  BY DEF PollQueries
<1>2. /\ viewer' = viewer /\ view' = view /\ unanswered' = unanswered
      /\ visits' = visits /\ submitted' = submitted /\ DOMAIN queryCache' = DOMAIN queryCache
  BY <1>1 DEF PollQueries
<1>3. \A k \in DOMAIN queryCache : queryCache'[k] = IF k = q THEN Loaded ELSE queryCache[k]
  BY <1>1
<1>4. Mounted' = Mounted
  BY <1>2 DEF Mounted, LayoutKeys
<1>5. ScreensTypeOK'
  BY <1>2, <1>3, LoadedTyped DEF ScreensInv, ScreensTypeOK
<1>6. MountedIsLoaded'
  BY <1>2, <1>3, <1>4 DEF ScreensInv, MountedIsLoaded, Loaded
<1>7. BehindIsExcused'
  <2> SUFFICES ASSUME NEW k \in DOMAIN queryCache, NEW c \in queryCache'[k].behind
               PROVE  Excused(k, c)'
    BY <1>2 DEF ScreensInv, BehindIsExcused
  <2>1. k # q
    BY <1>3 DEF Loaded
  <2>2. Excused(k, c)
    BY <1>3, <2>1 DEF ScreensInv, BehindIsExcused
  <2> QED
    BY <1>2, <1>3, <1>4, <2>1, <2>2 DEF Excused, Awaited
<1> QED
  BY <1>2, <1>5, <1>6, <1>7 DEF ScreensInv

LEMMA GrowOldKeeps ==
    ASSUME ScreensInv, GrowOld
    PROVE  ScreensInv'
<1>1. /\ viewer' = viewer /\ view' = view /\ unanswered' = unanswered
      /\ visits' = visits /\ submitted' = submitted /\ DOMAIN queryCache' = DOMAIN queryCache
  BY DEF GrowOld
<1>2. \A k \in DOMAIN queryCache :
        /\ queryCache'[k] \in [behind : SUBSET Change, invalid : BOOLEAN, old : BOOLEAN]
        /\ queryCache'[k].behind = queryCache[k].behind
        /\ queryCache'[k].invalid = queryCache[k].invalid
  BY DEF GrowOld, ScreensInv, ScreensTypeOK
<1>3. Mounted' = Mounted
  BY <1>1 DEF Mounted, LayoutKeys
<1>4. ScreensTypeOK'
  BY <1>1, <1>2 DEF ScreensInv, ScreensTypeOK
<1>5. MountedIsLoaded'
  BY <1>1, <1>2, <1>3 DEF ScreensInv, MountedIsLoaded
<1>6. BehindIsExcused'
  BY <1>1, <1>2, <1>3 DEF ScreensInv, BehindIsExcused, Excused, Awaited
<1> QED
  BY <1>1, <1>4, <1>5, <1>6 DEF ScreensInv

LEMMA ScreensInductive == ScreensInv /\ [ScreensNext]_screenVars => ScreensInv'
<1> SUFFICES ASSUME ScreensInv, [ScreensNext]_screenVars
             PROVE  ScreensInv'
  OBVIOUS
<1>1. CASE \E a \in Account : SignIn(a)
  BY <1>1, SignInKeeps
<1>2. CASE viewer # Nil /\ \E p \in DOMAIN PagesOf(viewer) : OpenPage(p)
  BY <1>2, OpenPageKeeps
<1>3. CASE viewer # Nil /\ \E p \in DOMAIN PanelsOf(viewer, view.page) : OpenPanel(p)
  BY <1>3, OpenPanelKeeps
<1>4. CASE SignOut
  BY <1>4, SignOutKeeps
<1>5. CASE LoadAnew
  BY <1>5, LoadAnewKeeps
<1>6. CASE \E c \in Change : SubmitChange(c)
  BY <1>6, SubmitKeeps
<1>7. CASE AnswerChange
  BY <1>7, InvalidatedKeeps DEF AnswerChange
<1>8. CASE HearLive
  <2>1. PICK heard : queryCache' = Invalidated(heard, OrgOf[viewer])
    BY <1>8 DEF HearLive
  <2> QED
    BY <1>8, <2>1, InvalidatedKeeps DEF HearLive
<1>9. CASE PollQueries
  BY <1>9, PollKeeps
<1>10. CASE GrowOld
  BY <1>10, GrowOldKeeps
<1>11. CASE UNCHANGED screenVars
  <2>1. /\ viewer' = viewer /\ view' = view /\ unanswered' = unanswered /\ queryCache' = queryCache
        /\ visits' = visits /\ submitted' = submitted
    BY <1>11 DEF screenVars
  <2>2. Mounted' = Mounted
    BY <2>1 DEF Mounted, LayoutKeys
  <2> QED
    BY <2>1, <2>2 DEF ScreensInv, ScreensTypeOK, MountedIsLoaded, BehindIsExcused, Excused, Awaited
<1> QED
  BY <1>1, <1>2, <1>3, <1>4, <1>5, <1>6, <1>7, <1>8, <1>9, <1>10, <1>11 DEF ScreensNext

LEMMA ScreensInvariant == ScreensSpec => []ScreensInv
BY InitScreens, ScreensInductive, PTL DEF ScreensSpec

\* The entries of the query cache and the changes waiting for their answers keep their types.
THEOREM ScreensTypeCorrect == ScreensSpec => []ScreensTypeOK
<1>1. ScreensInv => ScreensTypeOK
  BY DEF ScreensInv
<1> QED
  BY <1>1, ScreensInvariant, PTL

\* Whatever pages, panels and accounts a tab goes through, once its changes are answered
\* the screen shows them, but for those the family shown is never told of.
THEOREM DoneIsAlwaysShown == ScreensSpec => []DoneIsShown
<1>1. ScreensInv => DoneIsShown
  <2> SUFFICES ASSUME ScreensInv, unanswered = {}, NEW k \in Mounted, NEW c \in queryCache[k].behind
               PROVE  c \in NeverTold[k[1]]
    BY DEF DoneIsShown
  <2>1. k \in DOMAIN queryCache /\ ~queryCache[k].invalid
    BY DEF ScreensInv, MountedIsLoaded
  <2> QED
    BY <2>1 DEF ScreensInv, BehindIsExcused, Excused, Awaited
<1> QED
  BY <1>1, ScreensInvariant, PTL

\* No screen leads anyone, of any role and organization, to a request the server refuses.
THEOREM ScreensAreAlwaysServed == ScreensSpec => []ScreensAreServed
<1>1. ScreensInv => ScreensAreServed
  <2> SUFFICES ASSUME ScreensInv, viewer # Nil
               PROVE  Served(viewer, With(Layout, Showing(viewer, view)))
    BY DEF ScreensAreServed, Served
  <2>1. viewer \in Account /\ LedThere(viewer, view)
    BY DEF ScreensInv
  <2>2. Served(viewer, Layout)
    BY <2>1, AskedByRole, OneFamily DEF Layout, Shows, Served
  <2> QED
    BY <2>1, <2>2, PagesServed, PanelsServed, BothServed DEF LedThere, Showing
<1> QED
  BY <1>1, ScreensInvariant, PTL

-----------------------------------------------------------------------------
(* The export of the audit log                                             *)

\* The rows before r, newest first, when r is alone in its time.
Newer(r) == {q \in auditLog : q[1] > r[1]}

LEMMA SizesAreNumbers == ExportBatch \in Nat \ {0} /\ ExportRowCap \in Nat /\ MaxRows \in Nat
BY ExportAssumption

LEMMA TimesAreNumbers == \A r \in AuditRow : r[1] \in Nat
BY ExportAssumption DEF AuditRow

LEMMA NewerAreCounted ==
    ASSUME IsFiniteSet(auditLog), NEW r
    PROVE  /\ IsFiniteSet(Newer(r)) /\ Cardinality(Newer(r)) \in Nat
           /\ Cardinality(auditLog) \in Nat
<1>1. IsFiniteSet(Newer(r))
  BY FS_Subset DEF Newer
<1> QED
  BY <1>1, FS_CardinalityType

\* The rows of a log read newest first: everyone is read once, and a row alone in
\* its time comes right after those newer than it.
LEMMA ReadInOrder ==
    ASSUME auditLog \subseteq AuditRow, IsFiniteSet(auditLog),
           NEW s \in SetToSeqs(auditLog), NewestFirst(s)
    PROVE  /\ Len(s) = Cardinality(auditLog) /\ Len(s) \in Nat
           /\ \A i \in 1..Len(s) : s[i] \in auditLog
           /\ \A r \in auditLog : AloneInTime(r) =>
                 Cardinality(Newer(r)) + 1 \in 1..Len(s) /\ s[Cardinality(Newer(r)) + 1] = r
<1> DEFINE n == Cardinality(auditLog)
<1>1. n \in Nat
  BY FS_CardinalityType
<1>2. s \in [1..n -> auditLog] /\ \A i, j \in 1..n : i # j => s[i] # s[j]
  BY DEF SetToSeqs
<1>3. s \in Seq(auditLog)
  BY <1>1, <1>2, SMT
<1>4. Len(s) = n
  BY <1>1, <1>2, <1>3, LenProperties
<1>5. \A i \in 1..Len(s) : s[i] \in auditLog
  BY <1>2, <1>4
<1>6. \A r \in auditLog : \E i \in 1..n : s[i] = r
  <2>1. s \in Injection(1..n, auditLog)
    BY <1>2, Fun_IsInj
  <2>2. IsFiniteSet(1..n) /\ Cardinality(1..n) = n
    BY <1>1, FS_Interval
  <2>3. s \in Surjection(1..n, auditLog)
    BY <2>1, <2>2, FS_Injection
  <2> QED
    BY <2>3 DEF Surjection
<1>7. ASSUME NEW r \in auditLog, AloneInTime(r)
      PROVE  Cardinality(Newer(r)) + 1 \in 1..n /\ s[Cardinality(Newer(r)) + 1] = r
  <2>1. PICK i \in 1..n : s[i] = r
    BY <1>6
  <2>2. i \in Nat /\ i - 1 \in Nat
    BY <1>1, <2>1
  <2>3. ASSUME NEW j \in 1..(i - 1) PROVE s[j] \in Newer(r)
    <3>1. j \in 1..n /\ j < i /\ j # i
      BY <1>1, <2>2
    <3>2. s[j] \in auditLog /\ s[j] # r /\ s[j][1] >= r[1]
      BY <1>2, <1>4, <2>1, <3>1 DEF NewestFirst
    <3>3. s[j][1] # r[1]
      BY <1>7, <3>2 DEF AloneInTime
    <3>4. s[j][1] \in Nat /\ r[1] \in Nat
      BY <3>2, TimesAreNumbers
    <3> QED
      BY <3>2, <3>3, <3>4 DEF Newer
  <2>4. ASSUME NEW q \in Newer(r) PROVE \E j \in 1..(i - 1) : s[j] = q
    <3>1. PICK j \in 1..n : s[j] = q
      BY <1>6 DEF Newer
    <3>2. q[1] > r[1] /\ q[1] \in Nat /\ r[1] \in Nat
      BY TimesAreNumbers DEF Newer
    <3>3. ~(i < j) /\ i # j
      BY <1>4, <2>1, <3>1, <3>2 DEF NewestFirst
    <3>4. j \in 1..(i - 1)
      BY <1>1, <2>2, <3>1, <3>3
    <3> QED
      BY <3>1, <3>4
  <2> DEFINE f == [j \in 1..(i - 1) |-> s[j]]
  <2>5. f \in [1..(i - 1) -> Newer(r)]
    BY <2>3
  <2>6. \A a, b \in 1..(i - 1) : f[a] = f[b] => a = b
    <3>1. 1..(i - 1) \subseteq 1..n
      BY <1>1, <2>2
    <3> QED
      BY <1>2, <3>1
  <2>7. \A q \in Newer(r) : \E j \in 1..(i - 1) : f[j] = q
    BY <2>4
  <2>8. f \in Bijection(1..(i - 1), Newer(r))
    <3> HIDE DEF f
    <3> QED
      BY <2>5, <2>6, <2>7, Fun_IsBij
  <2>9. ExistsBijection(1..(i - 1), Newer(r))
    BY <2>8, Fun_ExistsBij
  <2>10. Cardinality(Newer(r)) = i - 1
    BY <2>2, <2>9, FS_CountingElements
  <2> QED
    BY <2>1, <2>2, <2>10
<1> QED
  BY <1>1, <1>4, <1>5, <1>7

\* Every row of the log comes after those newer than it.
LEMMA PlaceInLog ==
    ASSUME auditLog \subseteq AuditRow, IsFiniteSet(auditLog), NEW r \in auditLog
    PROVE  Cardinality(Newer(r)) + 1 <= Cardinality(auditLog)
<1>1. r \notin Newer(r) /\ Newer(r) \cup {r} \subseteq auditLog
  BY TimesAreNumbers DEF Newer
<1>2. Cardinality(Newer(r) \cup {r}) = Cardinality(Newer(r)) + 1
  BY <1>1, NewerAreCounted, FS_AddElement
<1> QED
  BY <1>1, <1>2, FS_Subset

LEMMA BatchesAddUp ==
    ASSUME NEW n \in Nat \ {0}
    PROVE  /\ (n - 1) * ExportBatch \in Nat /\ n * ExportBatch \in Nat
           /\ (n - 1) * ExportBatch + ExportBatch = n * ExportBatch
           /\ (n + 1) * ExportBatch = n * ExportBatch + ExportBatch
BY SizesAreNumbers, SMT

\* What does not fit n batches has one page more.
LEMMA OneMorePage ==
    ASSUME NEW n \in Nat \ {0}, NEW c \in Nat, c > n * ExportBatch
    PROVE  n + 1 <= (c + ExportBatch - 1) \div ExportBatch
<1> DEFINE b == ExportBatch
           p == (c + b - 1) \div b
<1>1. b \in Nat \ {0} /\ n * b \in Nat
  BY SizesAreNumbers, BatchesAddUp
<1>2. p \in Int /\ c + b - 1 < (p + 1) * b
  BY <1>1, SMTT(30)
<1>3. (n + 1) * b <= c + b - 1
  BY <1>1, BatchesAddUp
<1>4. (n + 1) * b < (p + 1) * b
  <2> HIDE DEF p, b
  <2> QED
    BY <1>1, <1>2, <1>3
<1>5. n + 1 < p + 1
  <2> HIDE DEF p, b
  <2> QED
    BY <1>1, <1>2, <1>4, SMTT(30)
<1> QED
  BY <1>2, <1>5

ExportTypes ==
    /\ ExportTypeOK
    /\ IsFiniteSet(auditLog)
    /\ batch.rows # Nil => IsFiniteSet(batch.rows)

\* A row found at the start, alone in its time and not collected, is past the
\* batches collected, and past the one fetched if that does not hold it; what was
\* counted beside that fetch then has a page more.
RowsAhead ==
    \A r \in exporting.atStart \ exporting.got : AloneInTime(r) =>
        /\ Cardinality(Newer(r)) >= (exporting.asked - 1) * ExportBatch
        /\ batch.rows # Nil /\ r \notin batch.rows =>
              /\ Cardinality(Newer(r)) >= exporting.asked * ExportBatch
              /\ batch.count # Nil /\ ~batch.crossed => batch.count > exporting.asked * ExportBatch

ExportInv ==
    /\ exporting.atStart \subseteq auditLog
    /\ exporting.status = "running" =>
          /\ RowsAhead
          /\ batch.count # Nil /\ batch.rows = Nil /\ ~batch.crossed =>
                batch.count = Cardinality(auditLog)
    /\ ExportMissesOnlyByRace

LEMMA InsertedIsARow ==
    ASSUME auditLog \subseteq AuditRow, IsFiniteSet(auditLog), Cardinality(auditLog) < MaxRows,
           NEW t \in Instant
    PROVE  <<t, Cardinality({r \in auditLog : r[1] = t}) + 1>> \in AuditRow
<1> DEFINE same == {r \in auditLog : r[1] = t}
<1>1. IsFiniteSet(same) /\ Cardinality(same) <= Cardinality(auditLog)
  BY FS_Subset
<1>2. Cardinality(same) \in Nat /\ Cardinality(auditLog) \in Nat
  BY <1>1, FS_CardinalityType
<1>3. Cardinality(same) + 1 \in 1..MaxRows
  <2> HIDE DEF same
  <2> QED
    BY <1>1, <1>2, SizesAreNumbers
<1> QED
  BY <1>3 DEF AuditRow

\* What collecting a batch does: on to the next one, or the end.
Collected(more) ==
    /\ exporting.status = "running" /\ batch.rows # Nil /\ batch.count # Nil
    /\ Cardinality(batch.rows) \in Nat
    /\ more <=> /\ exporting.asked + 1 <= TotalPages
                /\ exporting.size + Cardinality(batch.rows) < ExportRowCap
    /\ exporting' = [status  |-> IF more THEN "running" ELSE "done",
                     asked   |-> IF more THEN exporting.asked + 1 ELSE exporting.asked,
                     got     |-> exporting.got \cup batch.rows,
                     size    |-> exporting.size + Cardinality(batch.rows),
                     atStart |-> exporting.atStart]
    /\ batch' = IF more THEN NoBatch ELSE batch
    /\ auditLog' = auditLog

LEMMA CollectingCollects ==
    ASSUME ExportTypes, CollectBatch
    PROVE  \E more \in BOOLEAN : Collected(more)
<1> DEFINE size == exporting.size + Cardinality(batch.rows)
           more == exporting.asked + 1 <= TotalPages /\ size < ExportRowCap
<1>1. IsFiniteSet(batch.rows)
  BY DEF CollectBatch, ExportTypes
<1>2. Cardinality(batch.rows) \in Nat
  BY <1>1, FS_CardinalityType
<1>3. exporting = [status |-> exporting.status, asked |-> exporting.asked, got |-> exporting.got,
                   size |-> exporting.size, atStart |-> exporting.atStart]
  BY DEF ExportTypes, ExportTypeOK
<1>4. exporting' = [exporting EXCEPT !.got = @ \cup batch.rows, !.size = size,
                                     !.asked = IF more THEN @ + 1 ELSE @,
                                     !.status = IF more THEN "running" ELSE "done"]
  BY DEF CollectBatch
<1>5. exporting' = [status  |-> IF more THEN "running" ELSE "done",
                    asked   |-> IF more THEN exporting.asked + 1 ELSE exporting.asked,
                    got     |-> exporting.got \cup batch.rows,
                    size    |-> size,
                    atStart |-> exporting.atStart]
  <2> HIDE DEF size, more
  <2> QED
    BY <1>3, <1>4
<1>6. /\ exporting.status = "running" /\ batch.rows # Nil /\ batch.count # Nil
      /\ batch' = IF more THEN NoBatch ELSE batch
      /\ auditLog' = auditLog
  BY DEF CollectBatch
<1>8. Collected(more)
  BY <1>2, <1>5, <1>6 DEF Collected
<1>7. more \in BOOLEAN
  OBVIOUS
<1> HIDE DEF more
<1> QED
  BY <1>7, <1>8

LEMMA ExportTypesInductive == ExportTypes /\ [ExportNext]_exportVars => ExportTypes'
<1> SUFFICES ASSUME ExportTypes, [ExportNext]_exportVars PROVE ExportTypes'
  OBVIOUS
<1>0. /\ auditLog \subseteq AuditRow /\ IsFiniteSet(auditLog) /\ Cardinality(auditLog) \in Nat
      /\ exporting \in [status : {"none", "running", "done", "failed"}, asked : Nat \ {0},
                        got : SUBSET AuditRow, size : Nat, atStart : SUBSET AuditRow]
      /\ batch \in [count : Nat \cup {Nil}, rows : (SUBSET AuditRow) \cup {Nil}, crossed : BOOLEAN]
  BY FS_CardinalityType DEF ExportTypes, ExportTypeOK
<1>1. CASE InsertAuditRow
  <2>1. PICK t \in Instant :
            auditLog' = auditLog \cup {<<t, Cardinality({r \in auditLog : r[1] = t}) + 1>>}
    BY <1>1 DEF InsertAuditRow
  <2> DEFINE new == <<t, Cardinality({r \in auditLog : r[1] = t}) + 1>>
  <2>2. auditLog' \subseteq AuditRow /\ IsFiniteSet(auditLog')
    <3>1. new \in AuditRow
      BY <1>0, <1>1, InsertedIsARow DEF InsertAuditRow
    <3>2. auditLog' = auditLog \cup {new}
      BY <2>1
    <3> HIDE DEF new
    <3> QED
      BY <1>0, <3>1, <3>2, FS_AddElement
  <2>3. /\ batch' \in [count : Nat \cup {Nil}, rows : (SUBSET AuditRow) \cup {Nil}, crossed : BOOLEAN]
        /\ batch'.rows = batch.rows
    BY <1>0, <1>1 DEF InsertAuditRow
  <2> QED
    BY <1>1, <2>2, <2>3 DEF ExportTypes, ExportTypeOK, InsertAuditRow
<1>2. CASE StartExport
  <2>1. /\ exporting' = [status |-> "running", asked |-> 1, got |-> {}, size |-> 0, atStart |-> auditLog]
        /\ batch' = NoBatch /\ auditLog' = auditLog /\ NoBatch.rows = Nil
    BY <1>2 DEF StartExport, NoExport, NoBatch
  <2>2. exporting' \in [status : {"none", "running", "done", "failed"}, asked : Nat \ {0},
                        got : SUBSET AuditRow, size : Nat, atStart : SUBSET AuditRow]
    BY <1>0, <2>1
  <2>3. NoBatch \in [count : Nat \cup {Nil}, rows : (SUBSET AuditRow) \cup {Nil}, crossed : BOOLEAN]
    BY DEF NoBatch
  <2> QED
    BY <1>0, <2>1, <2>2, <2>3 DEF ExportTypes, ExportTypeOK
<1>3. CASE CountAuditRows
  <2>1. /\ batch' \in [count : Nat \cup {Nil}, rows : (SUBSET AuditRow) \cup {Nil}, crossed : BOOLEAN]
        /\ batch'.rows = batch.rows
    BY <1>0, <1>3 DEF CountAuditRows
  <2> QED
    BY <1>0, <1>3, <2>1 DEF CountAuditRows, ExportTypes, ExportTypeOK
<1>4. CASE FetchAuditRows
  <2> DEFINE skip == (exporting.asked - 1) * ExportBatch
  <2>1. PICK s \in SetToSeqs(auditLog) :
            /\ NewestFirst(s)
            /\ batch' = [batch EXCEPT !.rows =
                            {s[i] : i \in (skip + 1)..Len(s) \cap 1..(skip + ExportBatch)}]
    BY <1>4 DEF FetchAuditRows
  <2>2. batch'.rows \subseteq auditLog
    <3>1. skip \in Nat
      BY <1>0, BatchesAddUp
    <3>2. batch'.rows = {s[i] : i \in (skip + 1)..Len(s) \cap 1..(skip + ExportBatch)}
      BY <1>0, <2>1
    <3>3. \A i \in (skip + 1)..Len(s) \cap 1..(skip + ExportBatch) : i \in 1..Len(s)
      <4> HIDE DEF skip
      <4> QED
        BY <1>0, <2>1, <3>1, ReadInOrder, SizesAreNumbers
    <3> QED
      BY <1>0, <2>1, <3>2, <3>3, ReadInOrder
  <2>3. IsFiniteSet(batch'.rows)
    BY <1>0, <2>2, FS_Subset
  <2>4. batch' \in [count : Nat \cup {Nil}, rows : (SUBSET AuditRow) \cup {Nil}, crossed : BOOLEAN]
    BY <1>0, <2>1, <2>2
  <2> QED
    BY <1>0, <1>4, <2>3, <2>4 DEF FetchAuditRows, ExportTypes, ExportTypeOK
<1>5. CASE CollectBatch
  <2>1. PICK more \in BOOLEAN : Collected(more)
    BY <1>5, CollectingCollects
  <2>2. batch.rows \in SUBSET AuditRow /\ exporting.size + Cardinality(batch.rows) \in Nat
    <3>1. batch.rows # Nil /\ Cardinality(batch.rows) \in Nat
      BY <2>1 DEF Collected
    <3>2. batch.rows \in SUBSET AuditRow
      BY <1>0, <3>1
    <3>3. exporting.size \in Nat
      BY <1>0
    <3> QED
      BY <3>1, <3>2, <3>3
  <2>3. exporting' \in [status : {"none", "running", "done", "failed"}, asked : Nat \ {0},
                        got : SUBSET AuditRow, size : Nat, atStart : SUBSET AuditRow]
    BY <1>0, <2>1, <2>2 DEF Collected
  <2>4. batch' = batch \/ (batch' = NoBatch /\ NoBatch.rows = Nil)
    BY <2>1 DEF Collected, NoBatch
  <2>5. batch' \in [count : Nat \cup {Nil}, rows : (SUBSET AuditRow) \cup {Nil}, crossed : BOOLEAN]
    <3>1. NoBatch \in [count : Nat \cup {Nil}, rows : (SUBSET AuditRow) \cup {Nil}, crossed : BOOLEAN]
      BY DEF NoBatch
    <3> QED
      BY <1>0, <2>4, <3>1
  <2> QED
    BY <1>0, <2>1, <2>3, <2>4, <2>5 DEF Collected, ExportTypes, ExportTypeOK
<1>6. CASE ExportFails
  BY <1>0, <1>6 DEF ExportFails, ExportTypes, ExportTypeOK
<1>7. CASE UNCHANGED exportVars
  BY <1>7 DEF exportVars, ExportTypes, ExportTypeOK
<1> QED
  BY <1>1, <1>2, <1>3, <1>4, <1>5, <1>6, <1>7 DEF ExportNext

LEMMA ExportBegins == ExportInit => ExportTypes /\ ExportInv
<1> SUFFICES ASSUME ExportInit PROVE ExportTypes /\ ExportInv
  OBVIOUS
<1>1. auditLog \subseteq AuditRow /\ IsFiniteSet(auditLog) /\ exporting = NoExport /\ batch = NoBatch
  BY DEF ExportInit
<1>2. ExportTypes
  BY <1>1 DEF ExportTypes, ExportTypeOK, NoExport, NoBatch
<1>3. ExportInv
  BY <1>1 DEF ExportInv, ExportMissesOnlyByRace, NoExport
<1> QED
  BY <1>2, <1>3

\* Rows are inserted, never removed: a row moves down only, and one that is alone
\* in its time was.
LEMMA InsertingMovesDown ==
    ASSUME IsFiniteSet(auditLog), IsFiniteSet(auditLog'), auditLog \subseteq auditLog', NEW r
    PROVE  /\ Cardinality(Newer(r)) \in Nat /\ Cardinality(Newer(r)') \in Nat
           /\ Cardinality(Newer(r)) <= Cardinality(Newer(r)')
           /\ AloneInTime(r)' => AloneInTime(r)
<1>1. Newer(r) \subseteq Newer(r)' /\ Newer(r)' \subseteq auditLog' /\ Newer(r) \subseteq auditLog
  BY DEF Newer
<1>2. IsFiniteSet(Newer(r)) /\ IsFiniteSet(Newer(r)')
  BY <1>1, FS_Subset
<1>3. Cardinality(Newer(r)) <= Cardinality(Newer(r)')
  BY <1>1, <1>2, FS_Subset
<1> QED
  BY <1>2, <1>3, FS_CardinalityType DEF AloneInTime

LEMMA ExportInvInductive ==
    ExportTypes /\ ExportInv /\ [ExportNext]_exportVars => ExportInv'
<1> SUFFICES ASSUME ExportTypes, ExportInv, [ExportNext]_exportVars PROVE ExportInv'
  OBVIOUS
<1>0. /\ auditLog \subseteq AuditRow /\ IsFiniteSet(auditLog) /\ Cardinality(auditLog) \in Nat
      /\ exporting \in [status : {"none", "running", "done", "failed"}, asked : Nat \ {0},
                        got : SUBSET AuditRow, size : Nat, atStart : SUBSET AuditRow]
      /\ batch \in [count : Nat \cup {Nil}, rows : (SUBSET AuditRow) \cup {Nil}, crossed : BOOLEAN]
      /\ exporting.atStart \subseteq auditLog
  BY FS_CardinalityType DEF ExportTypes, ExportTypeOK, ExportInv
<1>b. /\ (exporting.asked - 1) * ExportBatch \in Nat /\ exporting.asked * ExportBatch \in Nat
      /\ (exporting.asked - 1) * ExportBatch + ExportBatch = exporting.asked * ExportBatch
  BY <1>0, BatchesAddUp
<1>1. CASE InsertAuditRow
  <2>1. /\ auditLog \subseteq auditLog' /\ exporting' = exporting
        /\ batch'.count = batch.count /\ batch'.rows = batch.rows
        /\ batch'.crossed <=> batch.crossed \/ (batch.count # Nil /\ batch.rows = Nil)
    BY <1>0, <1>1 DEF InsertAuditRow
  <2>2. IsFiniteSet(auditLog')
    BY ExportTypesInductive DEF ExportTypes
  <2>3. ASSUME exporting.status = "running" PROVE RowsAhead'
    <3> SUFFICES ASSUME NEW r \in exporting.atStart \ exporting.got, AloneInTime(r)'
                 PROVE  /\ Cardinality(Newer(r)') >= (exporting.asked - 1) * ExportBatch
                        /\ batch.rows # Nil /\ r \notin batch.rows =>
                              /\ Cardinality(Newer(r)') >= exporting.asked * ExportBatch
                              /\ batch.count # Nil /\ ~batch'.crossed =>
                                    batch.count > exporting.asked * ExportBatch
      BY <2>1 DEF RowsAhead
    <3>1. /\ Cardinality(Newer(r)) \in Nat /\ Cardinality(Newer(r)') \in Nat
          /\ Cardinality(Newer(r)) <= Cardinality(Newer(r)') /\ AloneInTime(r)
      BY <1>0, <2>1, <2>2, InsertingMovesDown
    <3>2. /\ Cardinality(Newer(r)) >= (exporting.asked - 1) * ExportBatch
          /\ batch.rows # Nil /\ r \notin batch.rows =>
                /\ Cardinality(Newer(r)) >= exporting.asked * ExportBatch
                /\ batch.count # Nil /\ ~batch.crossed => batch.count > exporting.asked * ExportBatch
      BY <2>3, <3>1 DEF ExportInv, RowsAhead
    <3> QED
      BY <1>b, <2>1, <3>1, <3>2
  <2>4. ASSUME exporting.status = "done", exporting.size < ExportRowCap,
               NEW r \in exporting.atStart \ exporting.got
        PROVE  ~AloneInTime(r)' \/ batch'.crossed
    <3>1. ~AloneInTime(r) \/ batch.crossed
      BY <2>4 DEF ExportInv, ExportMissesOnlyByRace
    <3>2. AloneInTime(r)' => AloneInTime(r)
      BY <2>1 DEF AloneInTime
    <3> QED
      BY <2>1, <3>1, <3>2
  <2> QED
    BY <1>0, <2>1, <2>3, <2>4 DEF ExportInv, ExportMissesOnlyByRace
<1>2. CASE StartExport
  <2>1. /\ exporting' = [status |-> "running", asked |-> 1, got |-> {}, size |-> 0, atStart |-> auditLog]
        /\ batch' = NoBatch /\ auditLog' = auditLog /\ NoBatch.rows = Nil /\ NoBatch.count = Nil
    BY <1>2 DEF StartExport, NoExport, NoBatch
  <2>2. \A r : Cardinality(Newer(r)') >= 0
    <3> TAKE r
    <3>1. Newer(r)' = Newer(r)
      BY <2>1 DEF Newer
    <3>2. Cardinality(Newer(r)) \in Nat
      BY <1>0, NewerAreCounted
    <3> QED
      BY <3>1, <3>2
  <2>3. (1 - 1) * ExportBatch = 0
    BY SizesAreNumbers
  <2>4. RowsAhead'
    BY <2>1, <2>2, <2>3 DEF RowsAhead
  <2> QED
    BY <2>1, <2>4 DEF ExportInv, ExportMissesOnlyByRace
<1>3. CASE CountAuditRows
  <2>1. /\ auditLog' = auditLog /\ exporting' = exporting /\ exporting.status = "running"
        /\ batch'.count = Cardinality(auditLog) /\ batch'.rows = batch.rows
        /\ batch'.crossed = batch.crossed
    BY <1>0, <1>3 DEF CountAuditRows
  <2>2. RowsAhead'
    <3> SUFFICES ASSUME NEW r \in exporting.atStart \ exporting.got, AloneInTime(r)'
                 PROVE  /\ Cardinality(Newer(r)') >= (exporting.asked - 1) * ExportBatch
                        /\ batch.rows # Nil /\ r \notin batch.rows =>
                              /\ Cardinality(Newer(r)') >= exporting.asked * ExportBatch
                              /\ Cardinality(auditLog) > exporting.asked * ExportBatch
      BY <2>1 DEF RowsAhead
    <3>1. Newer(r)' = Newer(r) /\ AloneInTime(r)
      BY <2>1 DEF Newer, AloneInTime
    <3>2. Cardinality(Newer(r)) + 1 <= Cardinality(auditLog) /\ Cardinality(Newer(r)) \in Nat
      BY <1>0, PlaceInLog, NewerAreCounted
    <3>3. /\ Cardinality(Newer(r)) >= (exporting.asked - 1) * ExportBatch
          /\ batch.rows # Nil /\ r \notin batch.rows =>
                Cardinality(Newer(r)) >= exporting.asked * ExportBatch
      BY <2>1, <3>1 DEF ExportInv, RowsAhead
    <3> QED
      BY <1>0, <1>b, <3>1, <3>2, <3>3
  <2> QED
    BY <1>0, <2>1, <2>2 DEF ExportInv, ExportMissesOnlyByRace
<1>4. CASE FetchAuditRows
  <2> DEFINE skip == (exporting.asked - 1) * ExportBatch
  <2>1. PICK s \in SetToSeqs(auditLog) :
            /\ NewestFirst(s)
            /\ batch' = [batch EXCEPT !.rows =
                            {s[i] : i \in (skip + 1)..Len(s) \cap 1..(skip + ExportBatch)}]
    BY <1>4 DEF FetchAuditRows
  <2>2. /\ auditLog' = auditLog /\ exporting' = exporting /\ exporting.status = "running"
        /\ batch.rows = Nil /\ batch'.count = batch.count /\ batch'.crossed = batch.crossed
        /\ batch'.rows = {s[i] : i \in (skip + 1)..Len(s) \cap 1..(skip + ExportBatch)}
    BY <1>0, <1>4, <2>1 DEF FetchAuditRows
  <2>3. RowsAhead'
    <3> SUFFICES ASSUME NEW r \in exporting.atStart \ exporting.got, AloneInTime(r)'
                 PROVE  /\ Cardinality(Newer(r)') >= skip
                        /\ r \notin batch'.rows =>
                              /\ Cardinality(Newer(r)') >= exporting.asked * ExportBatch
                              /\ batch.count # Nil /\ ~batch.crossed =>
                                    batch.count > exporting.asked * ExportBatch
      BY <2>2 DEF RowsAhead
    <3> DEFINE place == Cardinality(Newer(r))
    <3>1. Newer(r)' = Newer(r) /\ AloneInTime(r)
      BY <2>2 DEF Newer, AloneInTime
    <3>2. place \in Nat /\ place >= skip
      BY <1>0, <2>2, <3>1, NewerAreCounted DEF ExportInv, RowsAhead
    <3>3. /\ Len(s) = Cardinality(auditLog) /\ place + 1 \in 1..Len(s) /\ s[place + 1] = r
      BY <1>0, <2>1, <3>1, ReadInOrder
    <3>4. batch.count # Nil /\ ~batch.crossed => batch.count = Cardinality(auditLog)
      BY <2>2 DEF ExportInv
    <3>5. r \notin batch'.rows => place >= skip + ExportBatch
      <4> SUFFICES ASSUME place < skip + ExportBatch PROVE r \in batch'.rows
        BY <1>b, <3>2, SizesAreNumbers
      <4>1. place + 1 \in (skip + 1)..Len(s) \cap 1..(skip + ExportBatch)
        <5>1. skip \in Nat /\ place \in Nat /\ ExportBatch \in Nat /\ Len(s) \in Nat
          BY <1>0, <1>b, <3>2, <3>3, SizesAreNumbers
        <5> HIDE DEF skip, place
        <5>2. place + 1 <= Len(s) /\ place >= skip /\ place < skip + ExportBatch
          BY <3>2, <3>3, <5>1
        <5> QED
          BY <5>1, <5>2
      <4> QED
        BY <2>2, <3>3, <4>1
    <3>6. Cardinality(auditLog) > place
      BY <1>0, <3>2, <3>3
    <3> QED
      BY <1>0, <1>b, <3>1, <3>2, <3>4, <3>5, <3>6
  <2>4. batch.count # Nil /\ ~batch.crossed => batch.count = Cardinality(auditLog)
    BY <2>2 DEF ExportInv
  <2> QED
    BY <1>0, <2>2, <2>3, <2>4 DEF ExportInv, ExportMissesOnlyByRace
<1>5. CASE CollectBatch
  <2>1. PICK more \in BOOLEAN : Collected(more)
    BY <1>5, CollectingCollects
  <2>2. /\ exporting.status = "running" /\ batch.rows # Nil /\ batch.count # Nil /\ RowsAhead
        /\ Cardinality(batch.rows) \in Nat /\ auditLog' = auditLog
    BY <2>1 DEF Collected, ExportInv
  <2>3. CASE more
    <3>1. /\ exporting'.asked = exporting.asked + 1 /\ exporting'.got = exporting.got \cup batch.rows
          /\ exporting'.atStart = exporting.atStart /\ exporting'.status = "running"
          /\ batch'.rows = Nil /\ batch'.count = Nil
      BY <2>1, <2>3 DEF Collected, NoBatch
    <3>2. (exporting'.asked - 1) * ExportBatch = exporting.asked * ExportBatch
      <4>1. exporting'.asked - 1 = exporting.asked
        BY <1>0, <3>1
      <4> QED
        BY <4>1, Zenon
    <3>3. RowsAhead'
      <4> SUFFICES ASSUME NEW r \in exporting.atStart \ (exporting.got \cup batch.rows), AloneInTime(r)'
                   PROVE  Cardinality(Newer(r)') >= (exporting'.asked - 1) * ExportBatch
        <5>1. /\ exporting'.got = exporting.got \cup batch.rows
              /\ exporting'.atStart = exporting.atStart /\ batch'.rows = Nil
          BY <3>1
        <5> QED
          BY <5>1 DEF RowsAhead
      <4>1. Newer(r)' = Newer(r) /\ AloneInTime(r)
        BY <2>2 DEF Newer, AloneInTime
      <4> QED
        <5>1. Cardinality(Newer(r)) >= exporting.asked * ExportBatch
          BY <2>2, <4>1 DEF RowsAhead
        <5> QED
          BY <3>2, <4>1, <5>1
    <3> QED
      BY <1>0, <2>2, <3>1, <3>3 DEF ExportInv, ExportMissesOnlyByRace
  <2>4. CASE ~more
    <3>1. /\ exporting'.got = exporting.got \cup batch.rows /\ exporting'.status = "done"
          /\ exporting'.size = exporting.size + Cardinality(batch.rows)
          /\ exporting'.atStart = exporting.atStart /\ batch' = batch
      BY <2>1, <2>4 DEF Collected
    <3>2. ASSUME exporting'.size < ExportRowCap, ~batch.crossed,
                 NEW r \in exporting.atStart \ (exporting.got \cup batch.rows), AloneInTime(r)
          PROVE  FALSE
      <4>1. batch.count > exporting.asked * ExportBatch /\ batch.count \in Nat
        BY <1>0, <2>2, <3>2 DEF RowsAhead
      <4>2. exporting.asked + 1 <= TotalPages
        BY <1>0, <4>1, OneMorePage DEF TotalPages
      <4>3. ~(exporting.asked + 1 <= TotalPages)
        BY <2>1, <2>4, <3>1, <3>2 DEF Collected
      <4> QED
        BY <4>2, <4>3
    <3>3. ExportMissesOnlyByRace'
      BY <2>2, <3>1, <3>2 DEF ExportMissesOnlyByRace, AloneInTime
    <3> QED
      BY <1>0, <2>2, <3>1, <3>3 DEF ExportInv
  <2> QED
    BY <2>3, <2>4
<1>6. CASE ExportFails
  <2>1. auditLog' = auditLog /\ exporting'.status = "failed" /\ exporting'.atStart = exporting.atStart
    BY <1>0, <1>6 DEF ExportFails
  <2> QED
    BY <1>0, <2>1 DEF ExportInv, ExportMissesOnlyByRace
<1>7. CASE UNCHANGED exportVars
  BY <1>7 DEF exportVars, ExportInv, RowsAhead, ExportMissesOnlyByRace, AloneInTime, Newer
<1> QED
  BY <1>1, <1>2, <1>3, <1>4, <1>5, <1>6, <1>7 DEF ExportNext

\* The log, the export under way and its batch keep their types.
THEOREM ExportTypeCorrect == ExportSpec => []ExportTypeOK
<1>1. ExportTypes => ExportTypeOK
  BY DEF ExportTypes
<1> QED
  BY <1>1, ExportBegins, ExportTypesInductive, PTL DEF ExportSpec

\* An export that ends below its cap holds every row it found at its start that is
\* alone in its time, unless one was inserted between the count and the page of its
\* last request: handleExport over getAuditLogs, for any size of a batch, any cap
\* and any log.
THEOREM ExportsMissOnlyByRace == ExportSpec => []ExportMissesOnlyByRace
<1>1. ExportInv => ExportMissesOnlyByRace
  BY DEF ExportInv
<1> QED
  BY <1>1, ExportBegins, ExportTypesInductive, ExportInvInductive, PTL DEF ExportSpec
=============================================================================
