----------------------------- MODULE Pipelines -----------------------------
(***************************************************************************)
(* Work the API server does after it has answered: the rows of the audit   *)
(* log (audit/audit.service.ts, audit.consumer.ts), e-mail                 *)
(* (queue/consumers/email.consumer.ts, mail/mail.service.ts) and reports   *)
(* (reports/reports.service.ts).                                           *)
(*                                                                         *)
(* A job is one audit entry, one e-mail or one report.  RabbitMQ delivers  *)
(* a message again that was not acknowledged; a report lives in a timer of *)
(* the process.  Left out: the contents; an e-mail without a mail host,    *)
(* which is logged, counts as sent.                                        *)
(***************************************************************************)
EXTENDS Naturals

CONSTANTS
    Audit, Mail, Report,   \* jobs of each kind
    MaxMishaps             \* bound: failures and restarts

ASSUME PipelinesAssumption == MaxMishaps \in Nat /\ Audit \cap Mail = {}

Job == Audit \cup Mail \cup Report

VARIABLES
    stage,      \* where each job is
    effects,    \* rows, e-mails or files it has produced
    mishaps     \* history: failures and restarts so far

pipeVars == <<stage, effects, mishaps>>

JobStage == {"none", "sending", "queued", "handled", "unacked", "timer", "over", "dropped"}

PipelinesTypeOK ==
    /\ stage \in [Job -> JobStage] /\ effects \in [Job -> Nat] /\ mishaps \in Nat

PipelinesInit ==
    /\ stage = [j \in Job |-> "none"] /\ effects = [j \in Job |-> 0] /\ mishaps = 0

-----------------------------------------------------------------------------
Move(j, from, to) == stage[j] = from /\ stage' = [stage EXCEPT ![j] = to]
Mishap == mishaps < MaxMishaps /\ mishaps' = mishaps + 1

\* AuditService.log returns before its publication ends; an e-mail is published
\* by the handler that wants it; a report is a pending row and a timer.
Submit(j) ==
    /\ Move(j, "none", IF j \in Audit THEN "sending" ELSE IF j \in Mail THEN "queued" ELSE "timer")
    /\ UNCHANGED <<effects, mishaps>>

Enqueued(j)  == Move(j, "sending", "queued") /\ UNCHANGED <<effects, mishaps>>
EnqueueFails(j) == Move(j, "sending", "dropped") /\ Mishap /\ UNCHANGED effects

Handle(j) == Move(j, "queued", "handled") /\ UNCHANGED <<effects, mishaps>>

\* The row is inserted, the e-mail is sent.
Perform(j) ==
    /\ Move(j, "handled", "unacked")
    /\ effects' = [effects EXCEPT ![j] = @ + 1]
    /\ UNCHANGED mishaps

\* Mutant: the e-mail consumer swallows the error like the audit consumer does.
SwallowPerformFails(j) ==
    /\ Move(j, "handled", "dropped")
    /\ Mishap /\ UNCHANGED effects

\* The audit consumer refuses the message without requeueing it; the e-mail
\* consumer throws, and the message goes back to its queue.
PerformFails(j) ==
    /\ Move(j, "handled", IF j \in Audit THEN "dropped" ELSE "queued")
    /\ Mishap /\ UNCHANGED effects

Acknowledge(j) == Move(j, "unacked", "over") /\ UNCHANGED <<effects, mishaps>>

\* processReportAsync after its three seconds: the row is completed, or is not.
CompleteReport(j) ==
    /\ Move(j, "timer", "over")
    /\ effects' = [effects EXCEPT ![j] = @ + 1]
    /\ UNCHANGED mishaps

ReportFails(j) == Move(j, "timer", "dropped") /\ Mishap /\ UNCHANGED effects

\* Mutant: messages are acknowledged when they are received.
EagerRestartServer ==
    /\ Mishap /\ UNCHANGED effects
    /\ stage' = [j \in Job |-> CASE stage[j] \in {"handled", "unacked"} -> "over"
                                 [] stage[j] \in {"sending", "timer"}   -> "dropped"
                                 [] OTHER                               -> stage[j]]

\* The process restarts: deliveries return to their queues, timers and
\* publications under way are gone.
RestartServer ==
    /\ Mishap /\ UNCHANGED effects
    /\ stage' = [j \in Job |-> CASE stage[j] \in {"handled", "unacked"} -> "queued"
                                 [] stage[j] \in {"sending", "timer"}   -> "dropped"
                                 [] OTHER                               -> stage[j]]

-----------------------------------------------------------------------------
Advance(j) == Enqueued(j) \/ Handle(j) \/ Perform(j) \/ Acknowledge(j) \/ CompleteReport(j)

PipelinesNext ==
    \/ \E j \in Job : Submit(j) \/ Advance(j) \/ EnqueueFails(j) \/ PerformFails(j) \/ ReportFails(j)
    \/ RestartServer

\* The broker delivers, a handler runs to its end and a timer fires.
PipelinesFairness == \A j \in Job : WF_pipeVars(Advance(j))

PipelinesSpec == PipelinesInit /\ [][PipelinesNext]_pipeVars /\ PipelinesFairness

-----------------------------------------------------------------------------
(* Properties *)

\* Nothing is done twice or dropped unless something failed, and an e-mail is
\* never dropped: a second row or e-mail is a delivery repeated after a restart.
DroppedOnlyByMishap ==
    /\ \A j \in Job : effects[j] > 1 \/ stage[j] = "dropped" => mishaps >= 1
    /\ \A j \in Job : effects[j] <= mishaps + 1
    /\ \A j \in Mail : stage[j] # "dropped" /\ (stage[j] = "over" => effects[j] >= 1)

\* An e-mail the broker has accepted is sent, whatever was refused and restarted
\* in between; a report that was not lost with its timer is completed.
BackgroundWorkEnds ==
    /\ \A j \in Mail : stage[j] = "queued" ~> effects[j] >= 1
    /\ \A j \in Report : stage[j] = "timer" ~> (effects[j] = 1 \/ stage[j] = "dropped")
=============================================================================
