----------------------------- MODULE LiveLists -----------------------------
(***************************************************************************)
(* The lists a driver looks at (CarrierShipmentsPage.tsx over              *)
(* useShipments.ts) against the rows of the server, and what keeps them    *)
(* up to date: the gateway's shipment:updated to those who may see the     *)
(* shipment, and LiveSocketBridge.tsx, which invalidates every list.       *)
(*                                                                         *)
(* Rows are seen from the driver: an organization is his or another, a     *)
(* driver is he or somebody else.  React Query is modelled as these files  *)
(* configure it (App.tsx): an invalidation restarts the request of a list  *)
(* on the screen that has been loaded before, joins that of a first load,  *)
(* and only marks a list whose tab is not open.                            *)
(*                                                                         *)
(* Left out: pages of a list (they are taken to be long enough), searches, *)
(* and the positions and dates a row also has.                             *)
(***************************************************************************)
EXTENDS Naturals, FiniteSets, Domain

CONSTANTS
    MaxChanges,    \* bound: changes of rows by others
    MaxClicks,     \* bound: tabs opened and shipments claimed
    MaxDrops       \* bound: connections and requests that fail

ASSUME LiveListsAssumption == {MaxChanges, MaxClicks, MaxDrops} \subseteq Nat

Tab == {"my", "org", "available"}

Row == [org    : {"none", "ours", "other"},       \* carrier_organization_id
        driver : {"none", "me", "other"},         \* carrier_user_id
        state  : {"open", "cancelled"}]           \* a delivery closes like a cancellation

Unclaimed == [org |-> "none", driver |-> "none", state |-> "open"]

\* A query of React Query; snap is what the server answered.
Query == [data : [Shipment -> Row \cup {Nil}] \cup {Nil},
          old  : BOOLEAN,                         \* isInvalidated, or older than staleTime
          at   : {"idle", "sent", "served"},
          snap : [Shipment -> Row \cup {Nil}] \cup {Nil}]

\* No list is the absence of one.
ASSUME ListsAssumption == Nil \notin [Shipment -> Row \cup {Nil}]

VARIABLES
    row,        \* the rows of the server
    news,       \* how many messages the gateway still has to tell this driver
    online,     \* the socket is connected
    tab,        \* activeTab
    list,       \* the query of each tab
    claim,      \* the shipment a claim is under way for, and how far it is
    missed,     \* history: lists that missed an invalidation, or failed to load
    untold,     \* history: shipments whose last change the driver is not told of
    eventsUsed  \* history: bounded events so far

listsNotes == <<missed, untold, eventsUsed>>
listsVars  == <<row, news, online, tab, list, claim, listsNotes>>

NoClaim == [ship |-> Nil, at |-> "none"]

ListsTypeOK ==
    /\ row \in [Shipment -> Row] /\ news \in Nat
    /\ online \in BOOLEAN /\ tab \in Tab /\ list \in [Tab -> Query]
    /\ claim \in [ship : Shipment \cup {Nil}, at : {"none", "sent", "done", "refused"}]
    /\ missed \subseteq Tab /\ untold \subseteq Shipment
    /\ eventsUsed \in [changes : 0..MaxChanges, clicks : 0..MaxClicks, drops : 0..MaxDrops]

Enabled == {"my", tab}

Load(q) == [q EXCEPT !.at = "sent", !.snap = Nil]
Fresh   == [data |-> Nil, old |-> FALSE, at |-> "idle", snap |-> Nil]

\* The page has just been opened: its first tab is loading.
ListsInit ==
    /\ row = [s \in Shipment |-> Unclaimed] /\ news = 0
    /\ online = TRUE /\ tab = "my"
    /\ list = [t \in Tab |-> IF t = "my" THEN Load(Fresh) ELSE Fresh]
    /\ claim = NoClaim
    /\ missed = {} /\ untold = {}
    /\ eventsUsed = [changes |-> 0, clicks |-> 0, drops |-> 0]

Expend(field, limit) == eventsUsed[field] < limit /\ eventsUsed' = [eventsUsed EXCEPT ![field] = @ + 1]

-----------------------------------------------------------------------------
(* The server *)

\* canViewShipment of the gateway, for a driver
CanView(r) ==
    \/ r.driver = "me"
    \/ r.org = "ours" /\ r.driver = "none"
    \/ r.org = "none"

\* buildWhereClause: the scopes "mine", "assigned" and "available"
InScope(t, r) ==
    CASE t = "my"        -> r.driver = "me"
      [] t = "org"       -> r.org = "ours" /\ r.driver = "none"
      [] t = "available" -> r.org = "none" /\ r.state # "cancelled"

Listed(t) == [s \in Shipment |-> IF InScope(t, row[s]) THEN row[s] ELSE Nil]

Busy == \E s \in Shipment : row[s].driver = "me" /\ row[s].state = "open"

\* A change that publishes tells the driver when he may see the new row, which
\* is what emitShipmentEvent decides from.
Write(s, r, published) ==
    /\ row' = [row EXCEPT ![s] = r]
    /\ news' = IF published /\ CanView(r) THEN news + 1 ELSE news
    /\ untold' = IF published /\ CanView(r) THEN untold \ {s} ELSE untold \cup {s}

\* Claims by others, and the statuses drivers and shippers set.
Publishing(r) ==
    (IF r.org = "none" /\ r.state # "cancelled"
     THEN {[r EXCEPT !.org = "other", !.driver = "other"],
           [r EXCEPT !.org = "ours",  !.driver = "other"]} ELSE {})
    \cup (IF r.org = "ours" /\ r.driver = "none" /\ r.state # "cancelled"
          THEN {[r EXCEPT !.driver = "other"]} ELSE {})
    \cup {[r EXCEPT !.state = IF @ = "open" THEN "cancelled" ELSE "open"]}

\* An edit of the shipper that names the carrier, and the panel of the administrators.
Silent(r) == {[r EXCEPT !.org = o] : o \in {"none", "ours", "other"}}
             \cup {[r EXCEPT !.state = st] : st \in {"open", "cancelled"}}

RowChanges(s) ==
    /\ Expend("changes", MaxChanges)
    /\ \/ \E r \in Publishing(row[s]) : Write(s, r, TRUE)
       \/ \E r \in Silent(row[s]) \ {row[s]} : Write(s, r, FALSE)
    /\ UNCHANGED <<online, tab, list, claim, missed>>

\* accept, for the claim under way; Shipments has its steps.
ServeClaim ==
    LET s == claim.ship
        r == row[claim.ship]
        granted == ~Busy /\ r.state # "cancelled"
                   /\ (r.org = "none" \/ (r.org = "ours" /\ r.driver = "none"))
    IN  /\ claim.at = "sent"
        /\ \/ /\ granted
              /\ Write(s, [r EXCEPT !.org = "ours", !.driver = "me"], TRUE)
              /\ claim' = [claim EXCEPT !.at = "done"]
           \/ /\ ~granted
              /\ claim' = [claim EXCEPT !.at = "refused"]
              /\ UNCHANGED <<row, news, untold>>
        /\ UNCHANGED <<online, tab, list, missed, eventsUsed>>

-----------------------------------------------------------------------------
(* Queries and invalidations *)

Refetched(t) ==
    IF t \notin Enabled \/ (list[t].at # "idle" /\ list[t].data = Nil)
    THEN [list[t] EXCEPT !.old = TRUE]
    ELSE Load([list[t] EXCEPT !.old = TRUE])

\* What is loading already forgets the mark when it arrives, and does not hold
\* what changed after the server read it.
Forgets(t) == list[t].at # "idle" /\ (t \notin Enabled \/ list[t].data = Nil)

InvalidateQueries ==
    /\ list' = [t \in Tab |-> Refetched(t)]
    /\ missed' = {t \in Tab : Forgets(t) \/ (t \in missed /\ t \notin Enabled)}

\* findAll
ServeList(t) ==
    /\ list[t].at = "sent"
    /\ list' = [list EXCEPT ![t].at = "served", ![t].snap = Listed(t)]
    /\ UNCHANGED <<row, news, online, tab, claim, listsNotes>>

ListArrives(t) ==
    /\ list[t].at = "served"
    /\ list' = [list EXCEPT ![t] = [data |-> @.snap, old |-> FALSE, at |-> "idle", snap |-> Nil]]
    /\ UNCHANGED <<row, news, online, tab, claim, listsNotes>>

\* Both tries of a request fail.
ListFails(t) ==
    /\ list[t].at # "idle"
    /\ Expend("drops", MaxDrops)
    /\ list' = [list EXCEPT ![t].at = "idle", ![t].snap = Nil]
    /\ missed' = missed \cup {t}
    /\ UNCHANGED <<row, news, online, tab, claim, untold>>

-----------------------------------------------------------------------------
(* The socket *)

\* shipment:updated in the bridge; what is sent to a socket that is down is lost.
Deliver ==
    /\ news > 0 /\ news' = news - 1
    /\ IF online THEN InvalidateQueries ELSE UNCHANGED <<list, missed>>
    /\ UNCHANGED <<row, online, tab, claim, untold, eventsUsed>>

Disconnect ==
    /\ online /\ online' = FALSE
    /\ Expend("drops", MaxDrops)
    /\ UNCHANGED <<row, news, tab, list, claim, missed, untold>>

\* Mutant: a connection that is back loads nothing.
IdleReconnect ==
    /\ ~online /\ online' = TRUE
    /\ UNCHANGED <<row, news, tab, list, claim, listsNotes>>

\* handleConnect
Reconnect ==
    /\ ~online /\ online' = TRUE
    /\ InvalidateQueries
    /\ UNCHANGED <<row, news, tab, claim, untold, eventsUsed>>

-----------------------------------------------------------------------------
(* The driver *)

\* Opening a tab loads its list when there is none, when it was invalidated, and
\* when it is older than five minutes; the first list is loaded in any case.
Opens(t)  == t # "my" /\ list[t].at = "idle"
MustLoad(t) == list[t].data = Nil \/ list[t].old

OpenTab(t) ==
    /\ t # tab /\ Expend("clicks", MaxClicks)
    /\ tab' = t
    /\ \/ /\ Opens(t)
          /\ list' = [list EXCEPT ![t] = Load(@)]
          /\ missed' = missed \ {t}
       \/ ~(Opens(t) /\ MustLoad(t)) /\ UNCHANGED <<list, missed>>
    /\ UNCHANGED <<row, news, online, claim, untold>>

hasActiveShipment ==
    /\ list["my"].data # Nil
    /\ \E s \in Shipment : list["my"].data[s] # Nil /\ list["my"].data[s].state = "open"

\* handleAccept
Accept(s) ==
    /\ claim = NoClaim /\ Expend("clicks", MaxClicks)
    /\ tab # "my" /\ list[tab].data # Nil
    /\ list[tab].data[s] # Nil
    /\ ~hasActiveShipment
    /\ claim' = [ship |-> s, at |-> "sent"]
    /\ UNCHANGED <<row, news, online, tab, list, missed, untold>>

\* onSuccess invalidates, and shows the first tab; an error only shows a message.
ClaimAnswered ==
    /\ claim.at \in {"done", "refused"}
    /\ claim' = NoClaim
    /\ IF claim.at = "done" THEN InvalidateQueries /\ tab' = "my"
                            ELSE UNCHANGED <<tab, list, missed>>
    /\ UNCHANGED <<row, news, online, untold, eventsUsed>>

-----------------------------------------------------------------------------
ListsNext ==
    \/ \E s \in Shipment : RowChanges(s) \/ Accept(s)
    \/ ServeClaim \/ ClaimAnswered
    \/ \E t \in Tab : ServeList(t) \/ ListArrives(t) \/ ListFails(t) \/ OpenTab(t)
    \/ Deliver \/ Disconnect \/ Reconnect

ListsSpec == ListsInit /\ [][ListsNext]_listsVars

-----------------------------------------------------------------------------
(* Properties *)

\* When nothing is under way, every list on the screen is what the server would
\* answer, but for the shipments whose last change the driver is not told of
\* (another driver's claim, an edit of the shipper, the panel of the
\* administrators) and for a list that lost its refresh: one that failed to
\* load, or whose loading an invalidation did not restart.
Quiet == news = 0 /\ online /\ claim = NoClaim /\ \A t \in Tab : list[t].at = "idle"

QuietListsAreCurrent ==
    Quiet => \A t \in Enabled \ missed, s \in Shipment \ untold :
                 list[t].data # Nil /\ list[t].data[s] = Listed(t)[s]
=============================================================================
