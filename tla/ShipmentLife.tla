---------------------------- MODULE ShipmentLife ----------------------------
(***************************************************************************)
(* What the rest of the system may assume of the status of a shipment,     *)
(* without requests, rows and roles.  A change of status is decided from a *)
(* stage the shipment is in and follows the table from there, but it may   *)
(* be made after the shipment has left that stage: many decisions may be   *)
(* open at once, each is made or withdrawn, and nothing invalidates them.  *)
(* Only an administrator leaves the table.  Every change is recorded as it *)
(* is made and is announced only then, possibly late or not at all.  A     *)
(* shipment may be removed, by a decision taken while it was a draft, with *)
(* its history or without.  Shipments implements this; what it does not do *)
(* is remove anything (DraftsAreDeleted).                                  *)
(***************************************************************************)
CONSTANTS Shipment, Status, Nil, Transitions

VARIABLES
    stage,       \* the status of each shipment, Nil before it is registered
    open,        \* the stages changes were decided from that are still to be made
    recorded,    \* the statuses its history says it was changed to
    told         \* the statuses announced

lifeVars == <<stage, open, recorded, told>>

LifeInit ==
    /\ stage = [s \in Shipment |-> Nil]
    /\ open = [s \in Shipment |-> {}]
    /\ recorded = [s \in Shipment |-> {}]
    /\ told = [s \in Shipment |-> {}]

Register(s) ==
    /\ stage[s] = Nil
    /\ stage' = [stage EXCEPT ![s] = "draft"]
    /\ UNCHANGED <<open, recorded, told>>

Decide(s) ==
    /\ stage[s] # Nil
    /\ open' = [open EXCEPT ![s] = @ \cup {stage[s]}]
    /\ UNCHANGED <<stage, recorded, told>>

\* A decision from `from` is done with, unless another one was taken from there.
Close(s, from) ==
    /\ from \in open[s]
    /\ \/ open' = [open EXCEPT ![s] = @ \ {from}]
       \/ UNCHANGED open

Withdraw(s, from) ==
    /\ Close(s, from)
    /\ UNCHANGED <<stage, recorded, told>>

Update(s, from, to) ==
    /\ to = from \/ to \in Transitions[from]
    /\ Close(s, from)
    /\ stage' = [stage EXCEPT ![s] = to]
    /\ recorded' = [recorded EXCEPT ![s] = @ \cup {to}]
    /\ UNCHANGED told

\* A carrier that claims a draft confirms it; its history says who carries it,
\* not that it was confirmed.
Claim(s) ==
    /\ Close(s, "draft")
    /\ stage' = [stage EXCEPT ![s] = "confirmed"]
    /\ UNCHANGED <<recorded, told>>

\* The deletion of a draft is decided and made like a change of status, and may
\* come as late.
Remove(s) ==
    /\ Close(s, "draft")
    /\ stage' = [stage EXCEPT ![s] = Nil]
    /\ \/ recorded' = [recorded EXCEPT ![s] = {}]
       \/ UNCHANGED recorded
    /\ UNCHANGED told

Override(ids, to) ==
    /\ stage' = [s \in Shipment |-> IF s \in ids /\ stage[s] # Nil THEN to ELSE stage[s]]
    /\ UNCHANGED <<open, recorded, told>>

\* What it reports may be gone by then.
Announce(s, st) ==
    /\ st \in recorded[s] \/ stage[s] = Nil
    /\ told' = [told EXCEPT ![s] = @ \cup {st}]
    /\ UNCHANGED <<stage, open, recorded>>

LifeNext ==
    \/ \E s \in Shipment :
        \/ Register(s) \/ Decide(s) \/ Claim(s) \/ Remove(s)
        \/ \E from \in open[s] : Withdraw(s, from) \/ \E to \in Status : Update(s, from, to)
        \/ \E st \in Status : Announce(s, st)
    \/ \E ids \in SUBSET Shipment, to \in Status : Override(ids, to)

LifeSpec == LifeInit /\ [][LifeNext]_lifeVars
=============================================================================
