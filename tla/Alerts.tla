------------------------------- MODULE Alerts -------------------------------
(***************************************************************************)
(* Alerts of the API server: alerts/alerts.service.ts, the consumer of     *)
(* alerts_queue (alerts.consumer.ts), the scan for late shipments          *)
(* (eta-scanner.service.ts, delay-evaluator.ts) and the publications of    *)
(* updateStatus that feed the queue.                                       *)
(*                                                                         *)
(* The consumer works on several messages at once (the prefetch of the     *)
(* channel): a worker is one message being handled, and one action is one  *)
(* awaited statement or publication.  Shipments are what Shipments makes   *)
(* of them; here any status may follow any other but delivered, because    *)
(* the statuses in between publish nothing for alerts_queue.               *)
(*                                                                         *)
(* Left out: severities, titles and texts, which the type of the alert     *)
(* determines; search, paging and reading of a user's alerts; and messages *)
(* without a type or a shipment, which nobody sends.                       *)
(***************************************************************************)
EXTENDS Domain, Integers, Sequences, FiniteSets

CONSTANTS
    Worker,        \* messages of alerts_queue handled at once
    OrgAdmin,      \* the administrators of the two organizations of a shipment
    CreatedBy,     \* created_by_user_id of each shipment, or Nil
    DrivenBy,      \* carrier_user_id of each, or Nil
    Grace,         \* DELAY_GRACE_MS
    PlannedEta,    \* shipment_estimated_arrival_at of each shipment, or Nil
    RouteDays,     \* route_estimated_days of the route of each, or Nil
    Horizon,       \* bound: the clock
    MaxMoves,      \* bound: status updates
    MaxResolves,   \* bound: alerts resolved
    MaxLeaves,     \* bound: users deactivated or deleted
    MaxFaults,     \* bound: failed statements, failed publications and restarts
    MaxQueued      \* bound: a scan publishes when fewer messages wait

ASSUME AlertsAssumption ==
    /\ Grace \in Nat /\ {Horizon, MaxMoves, MaxResolves, MaxLeaves, MaxFaults, MaxQueued} \subseteq Nat
    /\ PlannedEta \in [Shipment -> Int \cup {Nil}] /\ RouteDays \in [Shipment -> Int \cup {Nil}]
    /\ CreatedBy \in [Shipment -> Person \cup {Nil}] /\ DrivenBy \in [Shipment -> Person \cup {Nil}]
    /\ OrgAdmin \subseteq Person /\ Nil \notin Person \cup Shipment \cup Int
    /\ IsFiniteSet(Worker)

AlertType  == {"shipment.delayed", "shipment.exception", "shipment.delivered"}
OpenTypes  == {"shipment.delayed", "shipment.exception"}      \* OPEN_ALERT_TYPES
Travelling == {"confirmed", "in_transit", "customs_hold"}     \* ACTIVE_STATUSES_NOT_ARRIVED
Phase      == Travelling \cup {"draft", "delivered"}
Scan       == {"boot", "midnight"}

VARIABLES
    now,        \* the clock
    phase,      \* shipment_status of each shipment
    departed,   \* shipment_actual_departure_at
    creator,    \* created_by_user_id
    driver,     \* carrier_user_id
    staff,      \* users that exist
    enabled,    \* those with user_is_active
    alerts,     \* table alert with its rows of user_alert, oldest first
    queue,      \* alerts_queue: messages per shipment and type
    work,       \* what each worker does
    scans,      \* the scans under way
    told,       \* alerts for which alert.created was published
    used        \* history: bounded events so far

alertsVars == <<now, phase, departed, creator, driver, staff, enabled, alerts, queue, work,
                scans, told, used>>
world      == <<now, phase, departed, creator, driver, staff, enabled>>

Alert == [ship : Shipment, type : AlertType, open : BOOLEAN,
          rows   : SUBSET Person,     \* users with a row of user_alert
          by     : Worker,            \* history: the worker that stored it
          asOf   : Nat]               \* history: alerts stored when it was looked for

Stage == {"free", "look", "recipients", "store", "tell"}

Task == [at : Stage, ship : Shipment \cup {Nil}, type : AlertType \cup {Nil},
         asOf : Nat, to : SUBSET Person, row : Nat]

Free == [at |-> "free", ship |-> Nil, type |-> Nil, asOf |-> 0, to |-> {}, row |-> 0]

ScanState == [at : {"off", "due", "look", "publish"}, todo : SUBSET Shipment,
              ship : Shipment \cup {Nil}]

NoScan == [at |-> "off", todo |-> {}, ship |-> Nil]

AlertsTypeOK ==
    /\ now \in Nat /\ phase \in [Shipment -> Phase] /\ departed \in [Shipment -> Int \cup {Nil}]
    /\ creator \in [Shipment -> Person \cup {Nil}] /\ driver \in [Shipment -> Person \cup {Nil}]
    /\ staff \subseteq Person /\ enabled \subseteq Person
    /\ alerts \in Seq(Alert) /\ told \subseteq Nat
    /\ queue \in [Shipment \X AlertType -> Nat]
    /\ work \in [Worker -> Task] /\ scans \in [Scan -> ScanState]
    /\ used \in [moves : Nat, resolves : Nat, leaves : Nat, faults : Nat]

\* A server that has just started, with shipments created and claimed before.
AlertsInit ==
    /\ now = 0 /\ phase = [s \in Shipment |-> "confirmed"]
    /\ departed = [s \in Shipment |-> Nil]
    /\ creator = CreatedBy /\ driver = DrivenBy
    /\ staff = Person /\ enabled = Person
    /\ alerts = <<>> /\ told = {}
    /\ queue = [m \in Shipment \X AlertType |-> 0]
    /\ work = [w \in Worker |-> Free]
    /\ scans = [k \in Scan |-> IF k = "boot" THEN [NoScan EXCEPT !.at = "due"] ELSE NoScan]
    /\ used = [moves |-> 0, resolves |-> 0, leaves |-> 0, faults |-> 0]

-----------------------------------------------------------------------------
(* Lateness, recipients, open alerts *)

computeEffectiveEta(s) ==
    IF PlannedEta[s] # Nil THEN PlannedEta[s]
    ELSE IF RouteDays[s] # Nil /\ departed[s] # Nil THEN departed[s] + RouteDays[s]
    ELSE Nil

isPastDelayGrace(eta) == eta # Nil /\ eta + Grace < now

Late(s) == phase[s] \in Travelling /\ isPastDelayGrace(computeEffectiveEta(s))

\* collectRecipients, for both sides: active administrators, and the two
\* people on the row whether or not they are active
Involved(s) == (OrgAdmin \cap enabled \cap staff) \cup ({creator[s], driver[s]} \ {Nil})

OpenAlerts(s, t) == {i \in 1..Len(alerts) :
                        alerts[i].ship = s /\ alerts[i].type = t /\ alerts[i].open}

Spend(field, limit) == used[field] < limit /\ used' = [used EXCEPT ![field] = @ + 1]
Fault == Spend("faults", MaxFaults)

-----------------------------------------------------------------------------
(* Producers *)

\* updateStatus commits the status and then publishes, or fails to publish.
\* in_transit publishes only when the shipment is late already.
Announced(st, s) ==
    CASE st = "delivered"    -> {"shipment.delivered"}
      [] st = "customs_hold" -> {"shipment.exception"}
      [] st = "in_transit"   -> IF Late(s)' THEN {"shipment.delayed"} ELSE {}
      [] OTHER               -> {}

UpdateStatus(s, st) ==
    /\ phase[s] # "delivered" /\ used.moves < MaxMoves
    /\ phase' = [phase EXCEPT ![s] = st]
    /\ departed' = IF st = "in_transit" /\ departed[s] = Nil
                   THEN [departed EXCEPT ![s] = now] ELSE departed
    /\ UNCHANGED <<now, creator, driver, staff, enabled, alerts, work, scans, told>>
    /\ \/ /\ queue' = [m \in DOMAIN queue |->
                          queue[m] + (IF m[1] = s /\ m[2] \in Announced(st, s) THEN 1 ELSE 0)]
          /\ used' = [used EXCEPT !.moves = @ + 1]
       \/ /\ Announced(st, s) # {} /\ used.faults < MaxFaults
          /\ used' = [used EXCEPT !.moves = @ + 1, !.faults = @ + 1]
          /\ UNCHANGED queue

\* The timer of onModuleInit or the cron job: the candidates are read at once.
StartScan(k) ==
    /\ scans[k].at = IF k = "boot" THEN "due" ELSE "off"
    /\ scans' = [scans EXCEPT ![k] = [NoScan EXCEPT !.at = "look",
                                                    !.todo = {s \in Shipment : Late(s)}]]
    /\ UNCHANGED <<world, alerts, queue, work, told, used>>

\* Mutant: an alert that was resolved counts like an open one.
ContentScanLook(k) ==
    /\ scans[k].at = "look"
    /\ UNCHANGED <<world, alerts, queue, work, told, used>>
    /\ \/ /\ scans[k].todo = {}
          /\ scans' = [scans EXCEPT ![k] = NoScan]
       \/ \E s \in scans[k].todo :
            LET some == \E i \in 1..Len(alerts) :
                           alerts[i].ship = s /\ alerts[i].type = "shipment.delayed"
            IN  scans' = [scans EXCEPT ![k].todo = @ \ {s},
                                       ![k].ship = IF some THEN @ ELSE s,
                                       ![k].at = IF some THEN "look" ELSE "publish"]

ScanLook(k) ==
    /\ scans[k].at = "look"
    /\ UNCHANGED <<world, alerts, queue, work, told, used>>
    /\ \/ /\ scans[k].todo = {}
          /\ scans' = [scans EXCEPT ![k] = NoScan]
       \/ \E s \in scans[k].todo :
            scans' = [scans EXCEPT ![k].todo = @ \ {s},
                                   ![k].ship = IF OpenAlerts(s, "shipment.delayed") = {} THEN s ELSE @,
                                   ![k].at = IF OpenAlerts(s, "shipment.delayed") = {}
                                             THEN "publish" ELSE "look"]

\* A publication that fails ends the scan: the rest of the list waits for the next one.
ScanPublish(k) ==
    /\ scans[k].at = "publish"
    /\ UNCHANGED <<world, alerts, work, told>>
    /\ \/ /\ queue[<<scans[k].ship, "shipment.delayed">>] < MaxQueued
          /\ queue' = [queue EXCEPT ![<<scans[k].ship, "shipment.delayed">>] = @ + 1]
          /\ scans' = [scans EXCEPT ![k].at = "look", ![k].ship = Nil]
          /\ UNCHANGED used
       \/ /\ Fault
          /\ scans' = [scans EXCEPT ![k] = NoScan]
          /\ UNCHANGED queue

-----------------------------------------------------------------------------
(* The consumer: handleShipmentEvents and createAlert *)

Step(w, at, task) ==
    /\ work[w].at = at
    /\ work' = [work EXCEPT ![w] = task]

Receive(w, s, t) ==
    /\ queue[<<s, t>>] > 0
    /\ queue' = [queue EXCEPT ![<<s, t>>] = @ - 1]
    /\ Step(w, "free", [Free EXCEPT !.at = IF t \in OpenTypes THEN "look" ELSE "recipients",
                                    !.ship = s, !.type = t])
    /\ UNCHANGED <<world, alerts, scans, told, used>>

\* Mutant: the guard looks for any open alert that was there at the first look.
BlindFindOpenAlert(w) ==
    /\ Step(w, "look", [work[w] EXCEPT !.at = "recipients", !.asOf = Len(alerts)])
    /\ UNCHANGED <<world, alerts, queue, scans, told, used>>

\* The idempotency guard: an open alert of this shipment and type ends the work.
FindOpenAlert(w) ==
    /\ Step(w, "look", IF OpenAlerts(work[w].ship, work[w].type) # {} THEN Free
                       ELSE [work[w] EXCEPT !.at = "recipients", !.asOf = Len(alerts)])
    /\ UNCHANGED <<world, alerts, queue, scans, told, used>>

ReadRecipients(w) ==
    /\ Step(w, "recipients", IF Involved(work[w].ship) = {} THEN Free
                             ELSE [work[w] EXCEPT !.at = "store", !.to = Involved(work[w].ship)])
    /\ UNCHANGED <<world, alerts, queue, scans, told, used>>

\* Mutant: an alert of customs is stored without being published.
MuteStoreAlert(w) ==
    LET task == work[w]
        new  == [ship |-> task.ship, type |-> task.type, open |-> TRUE, rows |-> task.to,
                 by |-> w, asOf |-> task.asOf]
    IN  /\ UNCHANGED <<world, queue, scans, told, used>>
        /\ task.to \subseteq staff
        /\ alerts' = Append(alerts, new)
        /\ Step(w, "store", IF task.type = "shipment.exception" THEN Free
                            ELSE [task EXCEPT !.at = "tell", !.row = Len(alerts) + 1])

\* The alert and its rows are one insert: a recipient deleted meanwhile fails
\* the foreign key, and the message is refused without being requeued.
StoreAlert(w) ==
    LET task == work[w]
        new  == [ship |-> task.ship, type |-> task.type, open |-> TRUE, rows |-> task.to,
                 by |-> w, asOf |-> task.asOf]
    IN  /\ UNCHANGED <<world, queue, scans, told, used>>
        /\ \/ /\ task.to \subseteq staff
              /\ alerts' = Append(alerts, new)
              /\ Step(w, "store", [task EXCEPT !.at = "tell", !.row = Len(alerts) + 1])
           \/ /\ ~ task.to \subseteq staff
              /\ Step(w, "store", Free)
              /\ UNCHANGED alerts

TellRecipients(w) ==
    /\ Step(w, "tell", Free)
    /\ UNCHANGED <<world, alerts, queue, scans>>
    /\ \/ told' = told \cup {work[w].row} /\ UNCHANGED used
       \/ Fault /\ UNCHANGED told          \* stored, refused without requeue, never told

\* A statement of the handler fails: Nack(false).
RefuseMessage(w) ==
    /\ work[w].at \in {"look", "recipients", "store"} /\ Fault
    /\ work' = [work EXCEPT ![w] = Free]
    /\ UNCHANGED <<world, alerts, queue, scans, told>>

\* The process restarts: unacknowledged messages are delivered again.
Restart ==
    /\ Fault
    /\ queue' = [m \in DOMAIN queue |->
                    queue[m] + Cardinality({w \in Worker : <<work[w].ship, work[w].type>> = m})]
    /\ work' = [w \in Worker |-> Free]
    /\ scans' = [k \in Scan |-> IF k = "boot" THEN [NoScan EXCEPT !.at = "due"] ELSE NoScan]
    /\ UNCHANGED <<world, alerts, told>>

-----------------------------------------------------------------------------
(* Administrators and users *)

resolve(u, i) ==
    /\ i \in 1..Len(alerts) /\ u \in staff
    /\ alerts' = [alerts EXCEPT ![i].open = FALSE]
    /\ IF alerts[i].open THEN Spend("resolves", MaxResolves) ELSE UNCHANGED used
    /\ UNCHANGED <<world, queue, work, scans, told>>

\* Deactivation and deletion by the administration; the deletion empties the
\* columns of the shipments and takes the user's rows of user_alert with it.
DisableUser(u) ==
    /\ enabled' = enabled \ {u}
    /\ Spend("leaves", MaxLeaves)
    /\ UNCHANGED <<now, phase, departed, creator, driver, staff, alerts, queue, work, scans, told>>

RemoveUser(u) ==
    /\ staff' = staff \ {u}
    /\ creator' = [s \in Shipment |-> IF creator[s] = u THEN Nil ELSE creator[s]]
    /\ driver' = [s \in Shipment |-> IF driver[s] = u THEN Nil ELSE driver[s]]
    /\ alerts' = [i \in 1..Len(alerts) |-> [alerts[i] EXCEPT !.rows = @ \ {u}]]
    /\ Spend("leaves", MaxLeaves)
    /\ UNCHANGED <<now, phase, departed, enabled, queue, work, scans, told>>

Pass ==
    /\ now < Horizon /\ now' = now + 1
    /\ UNCHANGED <<phase, departed, creator, driver, staff, enabled, alerts, queue, work, scans,
                   told, used>>

-----------------------------------------------------------------------------
\* Whoever leaves without having had to do with a shipment changes nothing here.
Concerned == OrgAdmin \cup UNION {{CreatedBy[s], DrivenBy[s]} \ {Nil} : s \in Shipment}

Consume(w) == FindOpenAlert(w) \/ ReadRecipients(w) \/ StoreAlert(w) \/ TellRecipients(w)

AlertsNext ==
    \/ \E s \in Shipment, st \in Phase \ {"draft"} : UpdateStatus(s, st)
    \/ \E k \in Scan : StartScan(k) \/ ScanLook(k) \/ ScanPublish(k)
    \/ \E w \in Worker, s \in Shipment, t \in AlertType : Receive(w, s, t)
    \/ \E w \in Worker : Consume(w) \/ RefuseMessage(w)
    \/ \E u \in OrgAdmin, i \in 1..Len(alerts) : resolve(u, i)
    \/ \E u \in Concerned : DisableUser(u) \/ RemoveUser(u)
    \/ Restart \/ Pass

\* The cron job fires every day, a scan and a handler run to their end, and the
\* broker hands out every message; nothing obliges users to do anything.
AlertsFairness ==
    /\ \A k \in Scan : WF_alertsVars(StartScan(k)) /\ WF_alertsVars(ScanLook(k) \/ ScanPublish(k))
    /\ \A w \in Worker : WF_alertsVars(Consume(w))
    /\ \A s \in Shipment, t \in AlertType : SF_alertsVars(\E w \in Worker : Receive(w, s, t))

AlertsSpec == AlertsInit /\ [][AlertsNext]_alertsVars /\ AlertsFairness

-----------------------------------------------------------------------------
(* Properties *)

\* "never create a second open alert for the same shipment + condition": the
\* look-up and the insert are separate, so workers that looked before the first
\* insert may add theirs; but a worker never adds to an alert that was open when
\* it looked, so each open alert of a condition is another worker's.
OneOpenAlertPerWorker ==
    \A i, j \in 1..Len(alerts) :
        (/\ i < j /\ alerts[i].open /\ alerts[j].open
         /\ alerts[i].ship = alerts[j].ship /\ alerts[i].type = alerts[j].type
         /\ alerts[j].type \in OpenTypes)
        => alerts[j].asOf < i /\ alerts[i].by # alerts[j].by

\* Whatever was stored is told to its recipients or is about to be, as long as no
\* publication failed and no restart came in between.
StoredIsTold ==
    used.faults = 0 =>
        \A i \in 1..Len(alerts) : i \in told \/ \E w \in Worker : work[w].at = "tell" /\ work[w].row = i

\* A shipment that stays late ends up with an open alert, whatever was lost or
\* refused on the way, unless nobody is involved in it any more.
LateIsReported ==
    \A s \in Shipment :
        Late(s) ~> (OpenAlerts(s, "shipment.delayed") # {} \/ ~ Late(s) \/ Involved(s) = {})
=============================================================================
