---------------------------- MODULE MCEventually ----------------------------
(***************************************************************************)
(* What must end: alerts, road routes, background work, the session of a   *)
(* tab and the paging of a list, side by side in one run, each under the   *)
(* fairness of its module.  focus names the one that moves.                *)
(***************************************************************************)
EXTENDS Alerts, MapCache, Pipelines, ClientSession, PagedList

VARIABLE focus

mcVars == <<alertsVars, mapVars, pipeVars, clientVars, pagedVars, focus>>

\* The alerts are those of a shipment on a route of no days, driven by an administrator.
MCDrivenBy  == [s \in Shipment |-> CHOOSE p \in OrgAdmin : TRUE]
MCNobody    == [s \in Shipment |-> Nil]
MCRouteDays == [s \in Shipment |-> 0]

\* The list opens with the alerts the search matches; the others may come.
MCInit ==
    /\ AlertsInit /\ MapInit /\ PipelinesInit /\ ClientInit /\ PagedInit
    /\ focus \in {"alerts", "map", "pipelines", "client", "paged"}
    /\ inbox = IF focus = "paged" THEN Sought ELSE {}

MCNext ==
    /\ UNCHANGED focus
    /\ \/ focus = "alerts" /\ AlertsNext /\ UNCHANGED <<mapVars, pipeVars, clientVars, pagedVars>>
       \/ focus = "map" /\ MapNext /\ UNCHANGED <<alertsVars, pipeVars, clientVars, pagedVars>>
       \/ focus = "pipelines" /\ PipelinesNext /\ UNCHANGED <<alertsVars, mapVars, clientVars, pagedVars>>
       \/ focus = "client" /\ ClientNext /\ UNCHANGED <<alertsVars, mapVars, pipeVars, pagedVars>>
       \/ focus = "paged" /\ PagedNext /\ UNCHANGED <<alertsVars, mapVars, pipeVars, clientVars>>

\* The fairness of the component that moves.
MCFairness ==
    /\ \A k \in Scan : /\ WF_alertsVars(focus = "alerts" /\ StartScan(k))
                       /\ WF_alertsVars(focus = "alerts" /\ (ScanLook(k) \/ ScanPublish(k)))
    /\ \A w \in Worker : WF_alertsVars(focus = "alerts" /\ Consume(w))
    /\ \A s \in Shipment, t \in AlertType :
         SF_alertsVars(focus = "alerts" /\ \E w \in Worker : Receive(w, s, t))
    /\ \A r \in Request : WF_mapVars(focus = "map" /\ (Answer(r) \/ Refusal(r) \/ TryAgain(r)))
    /\ \A j \in Job : WF_pipeVars(focus = "pipelines" /\ Advance(j))
    /\ \A q \in Call : WF_clientVars(focus = "client" /\ Polling(q))
    /\ WF_clientVars(focus = "client" /\ HttpEnds)
    /\ WF_pagedVars(focus = "paged" /\ AnswerList) /\ WF_pagedVars(focus = "paged" /\ ClampPage)
    /\ WF_pagedVars(focus = "paged" /\ DebounceFires) /\ WF_pagedVars(focus = "paged" /\ MarkAnswered)

MCSpec == MCInit /\ [][MCNext]_mcVars /\ MCFairness
=============================================================================
