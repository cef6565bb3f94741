---------------------------- MODULE AuditExport ----------------------------
(***************************************************************************)
(* The export of the audit log: the page asks for batch after batch by     *)
(* number, newest first, while the consumer of the audit queue goes on     *)
(* inserting rows, each with the time its publisher gave it and so not     *)
(* always at the top.  A batch is two statements, a count and a page, run  *)
(* side by side.                                                           *)
(***************************************************************************)
EXTENDS Domain, Naturals, FiniteSets, SequencesExt

CONSTANTS
    Instant,        \* values of audit_performed_at, naturals
    ExportBatch,    \* EXPORT_BATCH, 100 in the code
    ExportRowCap,   \* EXPORT_ROW_CAP, 10 000 in the code
    MaxRows         \* bound on the rows of the log

ASSUME ExportAssumption ==
    /\ Instant \subseteq Nat
    /\ ExportBatch \in Nat \ {0} /\ ExportRowCap \in Nat /\ MaxRows \in Nat

VARIABLES
    auditLog,    \* the rows that match the filters: their time, and a number among those of that time
    exporting,   \* the export under way, or the last one
    batch        \* what the server has read for the request under way

exportVars == <<auditLog, exporting, batch>>

AuditRow == Instant \X (1..MaxRows)

\* asked: the next batch; got: the rows collected, size: how many times a row was;
\* atStart: the log when the export began.
NoExport == [status |-> "none", asked |-> 1, got |-> {}, size |-> 0, atStart |-> {}]
NoBatch  == [count |-> Nil, rows |-> Nil, crossed |-> FALSE]

ExportTypeOK ==
    /\ auditLog \subseteq AuditRow
    /\ exporting \in [status : {"none", "running", "done", "failed"}, asked : Nat \ {0},
                      got : SUBSET AuditRow, size : Nat, atStart : SUBSET AuditRow]
    /\ batch \in [count : Nat \cup {Nil}, rows : (SUBSET AuditRow) \cup {Nil}, crossed : BOOLEAN]

ExportInit ==
    /\ auditLog \in {S \in SUBSET AuditRow :
                        /\ IsFiniteSet(S) /\ Cardinality(S) < MaxRows
                        /\ \A r \in S : r[2] > 1 => <<r[1], r[2] - 1>> \in S}
    /\ exporting = NoExport
    /\ batch = NoBatch
----------------------------------------------------------------------------
\* The consumer inserts a row.  crossed remembers that one came after the count
\* of a request and before its page.
InsertAuditRow ==
    /\ Cardinality(auditLog) < MaxRows
    /\ \E t \in Instant :
          auditLog' = auditLog \cup {<<t, Cardinality({r \in auditLog : r[1] = t}) + 1>>}
    /\ batch' = [batch EXCEPT !.crossed = @ \/ (batch.count # Nil /\ batch.rows = Nil)]
    /\ UNCHANGED exporting

StartExport ==
    /\ exporting.status # "running"
    /\ exporting' = [NoExport EXCEPT !.status = "running", !.atStart = auditLog]
    /\ batch' = NoBatch
    /\ UNCHANGED auditLog

\* auditLog.count of getAuditLogs.
CountAuditRows ==
    /\ exporting.status = "running" /\ batch.count = Nil
    /\ batch' = [batch EXCEPT !.count = Cardinality(auditLog)]
    /\ UNCHANGED <<auditLog, exporting>>

\* Newest first; rows of one time come in any order, and not in the same one each time.
NewestFirst(s) == \A i, j \in 1..Len(s) : i < j => s[i][1] >= s[j][1]

\* auditLog.findMany of getAuditLogs.
FetchAuditRows ==
    LET skip == (exporting.asked - 1) * ExportBatch IN
    /\ exporting.status = "running" /\ batch.rows = Nil
    /\ \E s \in SetToSeqs(auditLog) :
          /\ NewestFirst(s)
          /\ batch' = [batch EXCEPT !.rows = {s[i] : i \in (skip + 1)..Len(s) \cap 1..(skip + ExportBatch)}]
    /\ UNCHANGED <<auditLog, exporting>>

TotalPages == (batch.count + ExportBatch - 1) \div ExportBatch

\* Mutant: the loop stops before the last page.
ShortCollectBatch ==
    LET size == exporting.size + Cardinality(batch.rows)
        more == exporting.asked + 1 < TotalPages /\ size < ExportRowCap
    IN
    /\ exporting.status = "running" /\ batch.count # Nil /\ batch.rows # Nil
    /\ exporting' = [exporting EXCEPT !.got = @ \cup batch.rows, !.size = size,
                                      !.asked = IF more THEN @ + 1 ELSE @,
                                      !.status = IF more THEN "running" ELSE "done"]
    /\ batch' = IF more THEN NoBatch ELSE batch
    /\ UNCHANGED auditLog

\* The loop of handleExport: on to the next batch while the answer to this one
\* counts more pages and the cap is not reached.
CollectBatch ==
    LET size == exporting.size + Cardinality(batch.rows)
        more == exporting.asked + 1 <= TotalPages /\ size < ExportRowCap
    IN
    /\ exporting.status = "running" /\ batch.count # Nil /\ batch.rows # Nil
    /\ exporting' = [exporting EXCEPT !.got = @ \cup batch.rows, !.size = size,
                                      !.asked = IF more THEN @ + 1 ELSE @,
                                      !.status = IF more THEN "running" ELSE "done"]
    /\ batch' = IF more THEN NoBatch ELSE batch
    /\ UNCHANGED auditLog

\* A request that fails ends the export: no file.
ExportFails ==
    /\ exporting.status = "running"
    /\ exporting' = [exporting EXCEPT !.status = "failed"]
    /\ UNCHANGED <<auditLog, batch>>

ExportNext ==
    \/ InsertAuditRow \/ StartExport
    \/ CountAuditRows \/ FetchAuditRows \/ CollectBatch \/ ExportFails

ExportSpec == ExportInit /\ [][ExportNext]_exportVars
----------------------------------------------------------------------------
AloneInTime(r) == \A q \in auditLog : q[1] = r[1] => q = r

\* An export that ends below its cap misses a row it found at its start only
\* when another row has the same time, or when a row was inserted between the
\* count and the page of its last request.
ExportMissesOnlyByRace ==
    (exporting.status = "done" /\ exporting.size < ExportRowCap) =>
        \A r \in exporting.atStart \ exporting.got : ~AloneInTime(r) \/ batch.crossed
=============================================================================
