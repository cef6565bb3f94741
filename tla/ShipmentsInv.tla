---------------------------- MODULE ShipmentsInv ----------------------------
(***************************************************************************)
(* The inductive invariants of Shipments: what a row and its timeline say  *)
(* of each other, and what a request in flight still knows to be true of a *)
(* row it read some awaits ago.  The status it read may be gone; what the  *)
(* timeline had recorded by then is not, for the timeline only grows.      *)
(***************************************************************************)
EXTENDS Shipments

-----------------------------------------------------------------------------
(* Which locals are set at which label *)

Fits(label, l) ==
    /\ label # "idle" => l.ship \in Shipment
    /\ label = "statusTx" => l.seen \in Status
    /\ label \in {"statusTx", "statusPublish", "statusAlert"} => l.next \in Status
    /\ label \in {"acceptCount", "acceptWrite"} => l.user \in User

LocalsSet == \A r \in Request : Fits(pc[r], loc[r])

TypeInv == TypeOK /\ LocalsSet

-----------------------------------------------------------------------------
(* Rows *)

\* What the timeline of a shipment has recorded once its status is st
Past(st) == Milestones(st) \cup ({st} \cap {"picked_up", "in_transit", "out_for_delivery"})

Recorded(s, statuses) == \A m \in statuses : Changed(m) \in timeline[s]

AbsentOK(s) == ~Exists(s) => timeline[s] = {} /\ carrierUser[s] = Nil

RowOK(s) ==
    Exists(s) =>
        /\ timeline[s] # {}
        /\ shipper[s] \in Org /\ TypeOf[shipper[s]] = "shipper"
        /\ carrierOrg[s] # shipper[s]
        /\ carrierUser[s] # Nil => TypeOf[OrgOf[carrierUser[s]]] = "carrier"

TimelineOK(s) ==
    ~forced[s] =>
        /\ Exists(s) => Recorded(s, Past(status[s]))
        /\ \A st \in Status : Changed(st) \in timeline[s] => Recorded(s, Milestones(st))

AnnouncedOK(s) ==
    /\ \A st \in Status : TellStatus(st) \in published[s] => Changed(st) \in timeline[s]
    /\ Tell("shipment.delivered") \in published[s] => TellStatus("delivered") \in published[s]
    /\ Tell("shipment.exception") \in published[s] => TellStatus("customs_hold") \in published[s]

ShipmentOK(s) == AbsentOK(s) /\ RowOK(s) /\ TimelineOK(s) /\ AnnouncedOK(s)

-----------------------------------------------------------------------------
(* Requests *)

RequestOK(r) ==
    LET l == loc[r] IN
    /\ pc[r] # "idle" => Exists(l.ship)
    /\ pc[r] = "statusTx" =>
        /\ Follows(l.seen, l.next)
        /\ ~forced[l.ship] => Recorded(l.ship, Past(l.seen))
    /\ pc[r] = "statusPublish" => Changed(l.next) \in timeline[l.ship]
    /\ pc[r] = "statusAlert" =>
        /\ TellStatus(l.next) \in published[l.ship]
        /\ l.next \in {"delivered", "customs_hold"}
    /\ pc[r] = "updateWrite" => l.org # shipper[l.ship]
    /\ pc[r] \in {"acceptCount", "acceptWrite"} => TypeOf[OrgOf[l.user]] = "carrier"
    /\ pc[r] \in {"acceptCount", "acceptWrite"} => l.org \in {Nil, OrgOf[l.user]}
    /\ pc[r] = "acceptWrite" /\ l.org = OrgOf[l.user] => l.driver = Nil

ShipmentInv == (\A s \in Shipment : ShipmentOK(s)) /\ (\A r \in Request : RequestOK(r))

=============================================================================
