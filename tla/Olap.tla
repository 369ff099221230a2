-------------------------------- MODULE Olap --------------------------------
(***************************************************************************)
(* cloud-backend/internal/olap: how accepted events and stock movements    *)
(* get from PostgreSQL into ClickHouse.  Forwarders export what is new,    *)
(* an operator may lift their back-off, and backfill jobs export a range   *)
(* again, because costs are recalculated after a row was exported.         *)
(*                                                                         *)
(* A behaviour is about one stream: raw_business_events takes its rows     *)
(* from inbox_events, where they are locked and marked one by one, and     *)
(* stock_moves from stock_ledger, behind a checkpoint.  ClickHouse is      *)
(* external: tables that are only appended to, whose engine                *)
(* (ReplacingMergeTree with FINAL) shows the version exported last.        *)
(*                                                                         *)
(* Instead of a clock there is the order in which the runs under way have  *)
(* read it, never two in one millisecond; a lock gets old and a back-off   *)
(* ends at some time.                                                      *)
(***************************************************************************)
EXTENDS Integers, FiniteSets, FiniteSetsExt

CONSTANTS
    Entry,          \* ids of a table in their order, as numbers from 1
    Forwarder,      \* forwarders of a stream: one in each process of the Cloud
    Worker,         \* the backfill worker
    Scenes,         \* bound: streams with their forwarders, the command_ids of
                    \* RequestExportRetry, the ranges of a backfill job, and how often
                    \* costs are recalculated
    BatchSize,      \* ForwarderConfig.BatchSize
    MaxFaults       \* bound: calls that fail or answer late, processes that stop

Stream == {"raw_business_events", "stock_moves"}

ASSUME OlapAssumption ==
    /\ Entry \subseteq Nat \ {0} /\ IsFiniteSet(Entry)
    /\ Worker \notin Forwarder
    /\ \A s \in Scenes : s.stream \in Stream /\ s.forwarders \subseteq Forwarder
    /\ BatchSize \in Nat \ {0} /\ MaxFaults \in Nat

Runner == Forwarder \cup {Worker}

VARIABLES
    scene,          \* the stream this behaviour is about
    source,         \* the rows of its table that are committed
    late,           \* those that were committed after a row with a greater id
    costing,        \* how often the costs of a row were recalculated
    export,         \* the olap_ columns of inbox_events
    checkpoint,     \* row olap_stock_moves of olap_export_checkpoints
    archive,        \* ClickHouse: the costs it shows for a row
    hand,           \* what a RunOnce holds
    order,          \* pairs of runs under way: which one read the time before which
    job,            \* a row of olap_backfill_jobs
    retried,        \* olap_export_retry_commands
    olapFaults

olapVars == <<scene, source, late, costing, export, checkpoint, archive, hand,
              order, job, retried, olapFaults>>

\* batch: the costs read of the rows; newer: rows shown as exported by a later run.
NoCosts == [r \in {} |-> 0]
NoExport == [phase |-> "idle", batch |-> NoCosts, newer |-> {}, since |-> NoCosts]
None == -1
Pending == [status |-> "pending", processed |-> FALSE, stale |-> FALSE, due |-> TRUE]
NoBackfill == [status |-> "none", cursor |-> 0, range |-> {}, since |-> NoCosts]

OlapInit ==
    /\ scene \in Scenes
    /\ source = {} /\ late = {} /\ retried = {}
    /\ costing = [r \in Entry |-> 0] /\ archive = [r \in Entry |-> None]
    /\ export = [r \in Entry |-> Pending]
    /\ checkpoint = [last |-> 0, blocked |-> FALSE]
    /\ hand = [f \in Runner |-> NoExport] /\ order = {}
    /\ job = NoBackfill /\ olapFaults = 0

Raw == scene.stream = "raw_business_events"
OlapFault == olapFaults < MaxFaults /\ olapFaults' = olapFaults + 1
\* ORDER BY id LIMIT n
FirstOf(rows, n) == {r \in rows : Cardinality({s \in rows : s < r}) < n}
LastOf(rows) == CHOOSE r \in rows : \A s \in rows : s <= r

-----------------------------------------------------------------------------
(* The tables, and ClickHouse.                                             *)

\* A row is committed.  Its id is a UUIDv7 made before that, with a random tail, so rows
\* of one millisecond, or of two processes, may be committed out of order.
Commit(r) ==
    /\ r \notin source
    /\ source' = source \cup {r}
    /\ late' = IF \E s \in source : s > r THEN late \cup {r} ELSE late
    /\ UNCHANGED <<scene, costing, export, checkpoint, archive, hand, order, job,
                   retried, olapFaults>>

\* bound: how often costs were recalculated.
Recalculations == MapThenSumSet(LAMBDA r : costing[r], Entry)

\* The costs of a ledger row change; nothing tells the forwarder.
UpdateRecalculationLedgerRow(r) ==
    /\ ~Raw /\ r \in source /\ Recalculations < scene.costings
    /\ costing' = [costing EXCEPT ![r] = @ + 1]
    /\ UNCHANGED <<scene, source, late, export, checkpoint, archive, hand, order, job,
                   retried, olapFaults>>

\* Mutant: the engine keeps what was inserted last.
ShownInserted(f, rows) ==
    [r \in Entry |-> IF r \in rows THEN hand[f].batch[r] ELSE archive[r]]

\* The rows of a batch, stamped with the now of the run: ClickHouse shows the version of
\* the latest run.  (Two costings of one run do not occur.)
Shown(f, rows) ==
    [r \in Entry |-> IF r \in rows \ hand[f].newer THEN hand[f].batch[r] ELSE archive[r]]
ReadBefore(g, f) == <<g, f>> \in order

\* InsertRawBusinessEvents, InsertStockMoves: one request, which ClickHouse carries out
\* or not; either way the answer may be an error.
Insert(f, answer) ==
    LET rows == IF answer = "failed" THEN {} ELSE DOMAIN hand[f].batch
    IN  /\ hand[f].phase = "insert"
        /\ archive' = Shown(f, rows)
        /\ hand' = [g \in Runner |->
              IF g = f THEN [hand[f] EXCEPT !.phase = IF answer = "ok" THEN "done"
                                                      ELSE "error"]
              ELSE IF ReadBefore(g, f) THEN [hand[g] EXCEPT !.newer = @ \cup rows]
              ELSE hand[g]]
        /\ IF answer = "ok" THEN UNCHANGED olapFaults ELSE OlapFault

\* SELECT ... FINAL: every row is listed once.
ListRawBusinessEvents == {r \in Entry : archive[r] # None}
ListStockMoves == [r \in {s \in Entry : archive[s] # None} |-> archive[r]]
Archived(r) == IF Raw THEN r \in ListRawBusinessEvents ELSE r \in DOMAIN ListStockMoves

\* RunOnce reads the clock, and ends.
ReadClock(f) ==
    order' = order \cup {<<g, f>> : g \in {h \in Runner : hand[h].phase # "idle"}}
End(f) ==
    /\ hand' = [hand EXCEPT ![f] = NoExport]
    /\ order' = {p \in order : p[1] # f /\ p[2] # f}

-----------------------------------------------------------------------------
(* The forwarders.                                                         *)

Claimable(r) ==
    /\ ~export[r].processed /\ export[r].due
    /\ export[r].status = "processing" => export[r].stale

Unclaimed ==
    IF Raw THEN {r \in source : Claimable(r)}
    ELSE IF checkpoint.blocked THEN {} ELSE {r \in source : r > checkpoint.last}

\* RunOnce reads the clock before it claims anything.  (With nothing to claim it returns.)
BeginForward(f) ==
    /\ hand[f].phase = "idle" /\ Unclaimed # {}
    /\ ReadClock(f)
    /\ hand' = [hand EXCEPT ![f].phase = "claim"]
    /\ UNCHANGED <<scene, source, late, costing, export, checkpoint, archive, job,
                   retried, olapFaults>>

\* ClaimPending locks the rows it returns; ClaimPendingStockMoves locks nothing.
ClaimExports(f) ==
    LET rows == FirstOf(Unclaimed, BatchSize)
        read == [r \in rows |-> costing[r]]
    IN  /\ hand[f].phase = "claim"
        /\ IF rows = {} THEN End(f)
           ELSE /\ hand' = [hand EXCEPT ![f].phase = "insert", ![f].batch = read]
                /\ UNCHANGED order
        /\ export' = [r \in Entry |->
              IF Raw /\ r \in rows
              THEN [export[r] EXCEPT !.status = "processing", !.stale = FALSE]
              ELSE export[r]]
        /\ UNCHANGED <<scene, source, late, costing, checkpoint, archive, job,
                       retried, olapFaults>>

Forward(f, answer) ==
    /\ Insert(f, answer)
    /\ UNCHANGED <<scene, source, late, costing, export, checkpoint, order, job,
                   retried>>

\* The rows are processed, whoever holds them now.
Processed(rows) ==
    [r \in Entry |-> IF r \in rows
                   THEN [status |-> "processed", processed |-> TRUE, stale |-> FALSE,
                         due |-> TRUE]
                   ELSE export[r]]

\* The checkpoint may go back, when a slower forwarder ends after a quicker one.
CheckpointAfter(rows) == [last |-> LastOf(rows), blocked |-> FALSE]

MarkExported(f) ==
    LET rows == DOMAIN hand[f].batch
    IN  /\ hand[f].phase = "done"
        /\ End(f)
        /\ IF Raw THEN export' = Processed(rows) /\ UNCHANGED checkpoint
           ELSE checkpoint' = CheckpointAfter(rows) /\ UNCHANGED export
        /\ UNCHANGED <<scene, source, late, costing, archive, job, retried,
                       olapFaults>>

\* MarkFailed and MarkStockMovesFailed, too, ask neither who holds the rows nor whether
\* they are processed by now.
MarkExportFailed(f) ==
    /\ hand[f].phase = "error"
    /\ End(f)
    /\ IF Raw
       THEN /\ export' = [r \in Entry |->
                  IF r \in DOMAIN hand[f].batch
                  THEN [export[r] EXCEPT !.status = "failed", !.stale = FALSE, !.due = FALSE]
                  ELSE export[r]]
            /\ UNCHANGED checkpoint
       ELSE checkpoint' = [checkpoint EXCEPT !.blocked = TRUE] /\ UNCHANGED export
    /\ UNCHANGED <<scene, source, late, costing, archive, job, retried, olapFaults>>

RunForwarder(f) ==
    \/ BeginForward(f) \/ ClaimExports(f) \/ MarkExported(f) \/ MarkExportFailed(f)
    \/ \E answer \in {"ok", "lost", "failed"} : Forward(f, answer)

Held(r) == \E f \in Forwarder : r \in DOMAIN hand[f].batch

\* ProcessingTTL runs out; while somebody works on the row it is a fault.
LockExpires(r) ==
    /\ export[r].status = "processing" /\ ~export[r].stale
    /\ export' = [export EXCEPT ![r].stale = TRUE]
    /\ IF Held(r) THEN OlapFault ELSE UNCHANGED olapFaults
    /\ UNCHANGED <<scene, source, late, costing, checkpoint, archive, hand, order,
                   job, retried>>

\* RetryDelay runs out.
RetryIsDue ==
    /\ checkpoint.blocked \/ \E r \in Entry : ~export[r].due
    /\ checkpoint' = [checkpoint EXCEPT !.blocked = FALSE]
    /\ export' = [r \in Entry |-> [export[r] EXCEPT !.due = TRUE]]
    /\ UNCHANGED <<scene, source, late, costing, archive, hand, order, job, retried,
                   olapFaults>>

\* A process stops between two calls of RunOnce.
StopForwarder(f) ==
    /\ hand[f].phase # "idle"
    /\ End(f)
    /\ OlapFault
    /\ UNCHANGED <<scene, source, late, costing, export, checkpoint, archive, job,
                   retried>>

\* In mode resume_from_checkpoint the locks are lifted, too.
ApplyExportRetry(resume) ==
    LET statuses == IF resume THEN {"failed", "processing"} ELSE {"failed"}
    IN  /\ export' = [r \in Entry |->
              IF Raw /\ ~export[r].processed /\ export[r].status \in statuses
              THEN Pending ELSE export[r]]
        /\ checkpoint' = [checkpoint EXCEPT !.blocked = FALSE]

\* The operator lifts the back-off.  A command that is repeated changes nothing.
RequestExportRetry(c, resume) ==
    /\ c \notin retried
    /\ retried' = retried \cup {c}
    /\ ApplyExportRetry(resume)
    /\ UNCHANGED <<scene, source, late, costing, archive, hand, order, job, olapFaults>>

-----------------------------------------------------------------------------
(* Backfill.                                                               *)

\* The range by occurred_at: all rows, or all but the first.
CreateBackfillJob(range) ==
    /\ job.status = "none"
    /\ job' = [NoBackfill EXCEPT !.status = "queued", !.range = range]
    /\ UNCHANGED <<scene, source, late, costing, export, checkpoint, archive, hand,
                   order, retried, olapFaults>>

CancelBackfillJob ==
    /\ job.status \in {"queued", "running"}
    /\ job' = [job EXCEPT !.status = "cancelled"]
    /\ UNCHANGED <<scene, source, late, costing, export, checkpoint, archive, hand,
                   order, retried, olapFaults>>

\* RunOnce reads the clock; the costs of this moment are what the job promises.
BeginBackfill ==
    /\ hand[Worker].phase = "idle" /\ job.status = "queued"
    /\ ReadClock(Worker)
    /\ hand' = [hand EXCEPT ![Worker] = [NoExport EXCEPT !.phase = "claim", !.since = costing]]
    /\ UNCHANGED <<scene, source, late, costing, export, checkpoint, archive, job,
                   retried, olapFaults>>

\* Only a queued job is claimed.
ClaimBackfillJob ==
    /\ hand[Worker].phase = "claim"
    /\ IF job.status = "queued"
       THEN /\ job' = [job EXCEPT !.status = "running", !.since = hand[Worker].since]
            /\ hand' = [hand EXCEPT ![Worker].phase = "load", ![Worker].since = NoCosts]
            /\ UNCHANGED order
       ELSE End(Worker) /\ UNCHANGED job
    /\ UNCHANGED <<scene, source, late, costing, export, checkpoint, archive, retried,
                   olapFaults>>

LoadBackfillBatch ==
    LET rows == FirstOf({r \in source \cap job.range : r > job.cursor}, BatchSize)
        read == [r \in rows |-> costing[r]]
    IN  /\ hand[Worker].phase = "load"
        /\ hand' = [hand EXCEPT ![Worker].phase = IF rows = {} THEN "done" ELSE "insert",
                                ![Worker].batch = read]
        /\ UNCHANGED <<scene, source, late, costing, export, checkpoint, archive,
                       order, job, retried, olapFaults>>

\* Whatever became of the job in the meantime, it is running, or completed after an
\* empty batch; a running job is not claimed again.
MarkBackfillProgress ==
    LET rows == DOMAIN hand[Worker].batch
    IN  /\ hand[Worker].phase = "done"
        /\ job' = IF rows = {} THEN [job EXCEPT !.status = "completed"]
                  ELSE [job EXCEPT !.status = "running", !.cursor = LastOf(rows)]
        /\ End(Worker)
        /\ UNCHANGED <<scene, source, late, costing, export, checkpoint, archive,
                       retried, olapFaults>>

MarkBackfillFailed ==
    /\ hand[Worker].phase = "error"
    /\ job' = [job EXCEPT !.status = "failed"]
    /\ End(Worker)
    /\ UNCHANGED <<scene, source, late, costing, export, checkpoint, archive, retried,
                   olapFaults>>

RunBackfill ==
    \/ BeginBackfill \/ ClaimBackfillJob \/ LoadBackfillBatch
    \/ MarkBackfillProgress \/ MarkBackfillFailed
    \/ \E answer \in {"ok", "lost", "failed"} : Forward(Worker, answer)

OlapNext ==
    \/ \E r \in Entry : Commit(r) \/ UpdateRecalculationLedgerRow(r) \/ LockExpires(r)
    \/ RetryIsDue
    \/ \E f \in scene.forwarders : RunForwarder(f) \/ StopForwarder(f)
    \/ \E c \in scene.commands, resume \in BOOLEAN : RequestExportRetry(c, resume)
    \/ \E range \in scene.ranges : CreateBackfillJob(range)
    \/ CancelBackfillJob \/ RunBackfill

-----------------------------------------------------------------------------
(* Properties.                                                             *)

\* What PostgreSQL says of ClickHouse is true, whatever was repeated, lost or taken over:
\* a row marked as exported, or behind the checkpoint, is in the archive, unless it was
\* committed late; and what a job has gone past is shown with costs no older than when
\* the job was taken up, although forwarders stamp their rows at the same time.
MarksTellTheArchive ==
    /\ \A r \in source : export[r].processed => Archived(r)
    /\ \A r \in source \ late : r <= checkpoint.last => Archived(r)
    /\ \A r \in (source \cap job.range) \ late :
          r <= job.cursor => Archived(r) /\ (~Raw => ListStockMoves[r] >= job.since[r])

\* Every row gets into the archive in the end, whichever forwarder took it and stopped,
\* unless it was committed late and is behind the checkpoint.
EveryRowIsArchived ==
    \A r \in Entry : r \in source ~> Archived(r) \/ (~Raw /\ r \in late)

\* The code breaks this: a job that is claimed comes to an end.
ClaimedJobsFinish ==
    job.status = "running" ~> job.status \in {"completed", "failed", "cancelled"}
=============================================================================
