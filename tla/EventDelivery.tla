--------------------------- MODULE EventDelivery ---------------------------
(***************************************************************************)
(* Delivery of Edge events to the Cloud: the pos_sync_outbox of one POS     *)
(* Edge, its only sender (syncsender.Worker, which exchanges batches of     *)
(* rows) and the receiving side of cloud-backend/internal/cloudsync.        *)
(*                                                                         *)
(* Each database transaction is one action.  Between two transactions of    *)
(* the worker, commands commit rows, an operator retries suspended rows,    *)
(* the process may stop or die, and requests the worker gave up on go on    *)
(* running in the Cloud beside the ones that repeat them.                   *)
(***************************************************************************)
EXTENDS Integers, FiniteSets, Sequences

CONSTANTS
    Kind,           \* bound: the kinds of events that are written
    MaxRows,        \* bound: rows ever written to the outbox
    BatchSize,      \* Config.BatchSize
    MaxAttempts,    \* DefaultOutboxMaxAttempts
    Exchange,       \* bound: requests the Cloud runs at the same time
    MaxLosses,      \* bound: crashes, stops and failed transactions of the worker
    MaxRetries      \* bound: manual retries of suspended rows

\* What tells events apart on their way: an event of no module, one that is not
\* for the Cloud, one a licence module owns, one the Cloud finds invalid.
ASSUME DeliveryAssumption ==
    /\ Kind \subseteq {"plain", "local", "module", "invalid"}
    /\ MaxRows \in Nat /\ MaxAttempts \in Nat /\ MaxLosses \in Nat /\ MaxRetries \in Nat
    /\ BatchSize \in Nat \ {0}

VARIABLES
    outbox,         \* table pos_sync_outbox, in the order of sequence_no
    stale,          \* rows locked longer than Config.ReclaimAfter
    worker,         \* the iteration of Worker.RunOnce under way
    exchanges,      \* requests in the Cloud
    receipts,       \* table cloud_edge_event_receipts: the rows received
    projected,      \* how often the projections counted the event of each row
    losses,         \* iterations lost so far
    retries         \* manual retries so far

vars == <<outbox, stale, worker, exchanges, receipts, projected, losses, retries>>
cloudVars == <<exchanges, receipts, projected>>

Row == 1..MaxRows
OutboxRow == [kind : Kind, status : {"pending", "processing", "sent", "suspended"},
              attempts : 0..(MaxAttempts + 1), backoff : BOOLEAN]
Acks == [Row -> {"none", "accepted", "rejected", "retryable"}]
Written == 1..Len(outbox)

\* todo: rows the current loop of RunOnce has still to handle; batch: sendable.
\* Slices of rows are always in the order of sequence_no, so sets stand for them
\* and each loop takes the oldest row first.  acks: the verdicts of the answer.
NoAcks == [r \in Row |-> "none"]
Idle == [phase |-> "idle", todo |-> {}, batch |-> {}, exchange |-> "none", acks |-> NoAcks]
Unused == [state |-> "unused", todo |-> {}, receipt |-> "unread", acks |-> NoAcks]
Oldest(r, rows) == r \in rows /\ \A q \in rows : r <= q

Init ==
    /\ outbox = <<>> /\ stale = {} /\ worker = Idle
    /\ exchanges = [x \in Exchange |-> Unused]
    /\ receipts = {} /\ projected = [r \in Row |-> 0]
    /\ losses = 0 /\ retries = 0

-----------------------------------------------------------------------------
(* Statements of the outbox table.  A row that is not processing holds no     *)
(* lock, so its lock has no age.                                              *)
SetRow(r, row) ==
    /\ outbox' = [outbox EXCEPT ![r] = row]
    /\ stale' = stale \ {r}

MarkSent(r) == SetRow(r, [outbox[r] EXCEPT !.status = "sent", !.backoff = FALSE])
Suspend(r) == SetRow(r, [outbox[r] EXCEPT !.status = "suspended", !.backoff = FALSE])

MarkRetryableFailure(r) ==
    LET failed == [outbox[r] EXCEPT !.attempts = @ + 1]
    IN  IF failed.attempts > MaxAttempts
        THEN SetRow(r, [failed EXCEPT !.status = "suspended", !.backoff = FALSE])
        ELSE SetRow(r, [failed EXCEPT !.status = "pending", !.backoff = TRUE])

\* The rows of R back to pending; the retry time of a locked row has passed.
Unlock(R) == [r \in Written |->
    IF r \in R THEN [outbox[r] EXCEPT !.status = "pending"] ELSE outbox[r]]

Processing == {r \in Written : outbox[r].status = "processing"}
Waiting(r) == outbox[r].status = "pending" /\ outbox[r].backoff
Due(r) == outbox[r].status = "pending" /\ ~outbox[r].backoff

\* ClaimPendingOutbox: due rows older than any row locked or waiting for its retry time.
BlocksYoungerIfWaiting(q) == Waiting(q)
BlocksYounger(q) == q \in Processing \/ Waiting(q)
Claimable == {r \in Written : Due(r) /\ \A q \in Written : BlocksYounger(q) => r < q}
ClaimBatch == {r \in Claimable : Cardinality({q \in Claimable : q < r}) < BatchSize}

-----------------------------------------------------------------------------
(* The worker.  LoseIteration and Stop may come between any two of its steps. *)
Begin(phase, rows) == [worker EXCEPT !.phase = phase, !.todo = rows]
Handled(r) == [worker EXCEPT !.todo = @ \ {r}]
AtRow(phase, r) == worker.phase = phase /\ Oldest(r, worker.todo)
LoopOver(phase) == worker.phase = phase /\ worker.todo = {}

\* ReclaimStaleProcessingOutbox
StartIterationWithoutReclaim ==
    /\ worker.phase = "idle"
    /\ worker' = Begin("claiming", {})
    /\ UNCHANGED <<outbox, stale, cloudVars, losses, retries>>

StartIteration ==
    /\ worker.phase = "idle"
    /\ outbox' = Unlock(stale)
    /\ stale' = {}
    /\ worker' = Begin("claiming", {})
    /\ UNCHANGED <<cloudVars, losses, retries>>

Claim ==
    /\ worker.phase = "claiming"
    /\ outbox' = [r \in Written |-> IF r \in ClaimBatch
                                    THEN [outbox[r] EXCEPT !.status = "processing"]
                                    ELSE outbox[r]]
    /\ worker' = Begin("triage", ClaimBatch)
    /\ UNCHANGED <<stale, cloudVars, losses, retries>>

\* One row of the loop before sending: suspended when it is not for the Cloud,
\* deferred when the licence of its module cannot be confirmed, else sendable.
Triage(r) ==
    /\ AtRow("triage", r)
    /\ \/ /\ outbox[r].kind = "local"
          /\ Suspend(r)
          /\ worker' = Handled(r)
       \/ /\ outbox[r].kind = "module"
          /\ MarkRetryableFailure(r)
          /\ worker' = Handled(r)
       \/ /\ outbox[r].kind # "local"
          /\ worker' = [Handled(r) EXCEPT !.batch = @ \union {r}]
          /\ UNCHANGED <<outbox, stale>>
    /\ UNCHANGED <<cloudVars, losses, retries>>

Send(x) ==
    /\ LoopOver("triage") /\ worker.batch # {}
    /\ exchanges[x] = Unused
    /\ exchanges' = [exchanges EXCEPT ![x] =
                        [Unused EXCEPT !.state = "running", !.todo = worker.batch]]
    /\ worker' = [worker EXCEPT !.phase = "waiting", !.exchange = x]
    /\ UNCHANGED <<outbox, stale, receipts, projected, losses, retries>>

\* The answer came in time.  Cloud packages of the answer that do not apply leave the
\* verdicts alone: ApplySyncExchangeCloudPackages records the problem and returns nil.
TakeAnswer ==
    /\ worker.phase = "waiting" /\ worker.exchange \in Exchange
    /\ exchanges[worker.exchange].state = "answered"
    /\ exchanges' = [exchanges EXCEPT ![worker.exchange] = Unused]
    /\ worker' = [phase |-> "acking", todo |-> worker.batch, batch |-> {}, exchange |-> "none",
                  acks |-> exchanges[worker.exchange].acks]
    /\ UNCHANGED <<outbox, stale, receipts, projected, losses, retries>>

\* SendTimeout, a transport error or an HTTP error; the request may go on without its caller.
GiveUp ==
    /\ worker.phase = "waiting"
    /\ worker' = [Idle EXCEPT !.phase = "failing", !.todo = worker.batch]
    /\ UNCHANGED <<outbox, stale, cloudVars, losses, retries>>

MarkVerdictTrusting(r, verdict) ==
    \/ verdict \in {"accepted", "retryable"} /\ MarkSent(r)
    \/ verdict = "rejected" /\ Suspend(r)

\* processBatchResults
MarkVerdict(r, verdict) ==
    \/ verdict = "accepted" /\ MarkSent(r)
    \/ verdict = "rejected" /\ Suspend(r)
    \/ verdict \in {"retryable", "none"} /\ MarkRetryableFailure(r)

AckRow(r) ==
    /\ AtRow("acking", r)
    /\ MarkVerdict(r, worker.acks[r])
    /\ worker' = Handled(r)
    /\ UNCHANGED <<cloudVars, losses, retries>>

FailRow(r) ==
    /\ AtRow("failing", r)
    /\ MarkRetryableFailure(r)
    /\ worker' = Handled(r)
    /\ UNCHANGED <<cloudVars, losses, retries>>

EndIteration ==
    /\ \/ LoopOver("triage") /\ worker.batch = {}
       \/ LoopOver("acking") \/ LoopOver("failing")
    /\ worker' = Idle
    /\ UNCHANGED <<outbox, stale, cloudVars, losses, retries>>

\* The process dies, or a transaction of the iteration fails and RunOnce returns:
\* the rows it claimed stay locked.
LoseIteration ==
    /\ losses < MaxLosses /\ worker.phase # "idle"
    /\ worker' = Idle
    /\ losses' = losses + 1
    /\ UNCHANGED <<outbox, stale, cloudVars, retries>>

\* An orderly stop releases every lock of this worker id, older ones too.
Stop ==
    /\ losses < MaxLosses /\ Processing # {}
    /\ outbox' = Unlock(Processing)
    /\ stale' = {}
    /\ worker' = Idle
    /\ losses' = losses + 1
    /\ UNCHANGED <<cloudVars, retries>>

-----------------------------------------------------------------------------
(* Around the worker: commands, the operator, time.                           *)

\* WriteOutbox, in the transaction of the command that caused the event.
Commit(kind) ==
    /\ Len(outbox) < MaxRows
    /\ outbox' = Append(outbox, [kind |-> kind, status |-> "pending", attempts |-> 0, backoff |-> FALSE])
    /\ UNCHANGED <<stale, worker, cloudVars, losses, retries>>

Retried(statuses) == [r \in Written |->
    IF outbox[r].status \in statuses
    THEN [outbox[r] EXCEPT !.status = "pending", !.attempts = 0, !.backoff = FALSE]
    ELSE outbox[r]]

RetryUnsentOutbox ==
    /\ retries < MaxRetries
    /\ \E r \in Written : outbox[r].status = "suspended"
    /\ outbox' = Retried({"processing", "suspended"})
    /\ stale' = {}
    /\ retries' = retries + 1
    /\ UNCHANGED <<worker, cloudVars, losses>>

RetryFailedOutbox ==
    /\ retries < MaxRetries
    /\ \E r \in Written : outbox[r].status = "suspended"
    /\ outbox' = Retried({"suspended"})
    /\ retries' = retries + 1
    /\ UNCHANGED <<stale, worker, cloudVars, losses>>

\* next_retry_at passes
BackoffExpires(r) ==
    /\ r \in Written /\ Waiting(r)
    /\ outbox' = [outbox EXCEPT ![r].backoff = FALSE]
    /\ UNCHANGED <<stale, worker, cloudVars, losses, retries>>

\* The rows the iteration under way has still to mark: ReclaimAfter is much
\* longer than an iteration, so their locks never get old.
Held == worker.todo \union worker.batch

LockAges(r) ==
    /\ r \in Processing \ (Held \union stale)
    /\ stale' = stale \union {r}
    /\ UNCHANGED <<outbox, worker, cloudVars, losses, retries>>

-----------------------------------------------------------------------------
(* The Cloud: Exchange handles the events of a request one by one, each in a   *)
(* transaction of its own that first looks for the receipt of the event.      *)
Awaited(x) == worker.phase = "waiting" /\ worker.exchange = x
Receiving(x, r) == exchanges[x].state = "running" /\ Oldest(r, exchanges[x].todo)

Judge(x, r, verdict) ==
    LET e == exchanges[x] IN
    exchanges' = [exchanges EXCEPT ![x] =
        [e EXCEPT !.todo = @ \ {r}, !.receipt = "unread", !.acks = [@ EXCEPT ![r] = verdict]]]

\* The envelope is invalid, or the licence the Cloud sees does not cover the module.
RejectItem(x, r) ==
    /\ Receiving(x, r) /\ exchanges[x].receipt = "unread"
    /\ outbox[r].kind \in {"invalid", "module"}
    /\ Judge(x, r, "rejected")
    /\ UNCHANGED <<outbox, stale, worker, receipts, projected, losses, retries>>

\* SELECT ... FOR UPDATE locks a receipt that is there, and nothing when it is not.
ReadReceipt(x, r) ==
    /\ Receiving(x, r) /\ exchanges[x].receipt = "unread"
    /\ outbox[r].kind # "invalid"
    /\ exchanges' = [exchanges EXCEPT ![x] =
                        [@ EXCEPT !.receipt = IF r \in receipts THEN "found" ELSE "absent"]]
    /\ UNCHANGED <<outbox, stale, worker, receipts, projected, losses, retries>>

AcknowledgeKnownItem(x, r) ==
    /\ Receiving(x, r) /\ exchanges[x].receipt = "found"
    /\ Judge(x, r, "accepted")
    /\ UNCHANGED <<outbox, stale, worker, receipts, projected, losses, retries>>

\* The receipt, the inbox event and the projections in one transaction; the
\* unique idempotency_key refuses a receipt another request inserted meanwhile.
InsertReceipt(x, r) ==
    /\ Receiving(x, r) /\ exchanges[x].receipt = "absent"
    /\ r \notin receipts
    /\ Judge(x, r, "accepted")
    /\ receipts' = receipts \union {r}
    /\ projected' = [projected EXCEPT ![r] = @ + 1]
    /\ UNCHANGED <<outbox, stale, worker, losses, retries>>

\* The unique violation, and any other error of the transaction.
FailItem(x, r) ==
    /\ Receiving(x, r)
    /\ Judge(x, r, "retryable")
    /\ UNCHANGED <<outbox, stale, worker, receipts, projected, losses, retries>>

\* All events are handled: the answer reaches the worker if it still waits.
Answer(x) ==
    /\ exchanges[x].state = "running" /\ exchanges[x].todo = {}
    /\ exchanges' = [exchanges EXCEPT ![x] =
                        IF Awaited(x) THEN [@ EXCEPT !.state = "answered"] ELSE Unused]
    /\ UNCHANGED <<outbox, stale, worker, receipts, projected, losses, retries>>

\* The Cloud dies, or RecordDeliveryExchange fails; what was received stays received.
AbortExchange(x) ==
    /\ exchanges[x].state # "unused"
    /\ exchanges' = [exchanges EXCEPT ![x] = Unused]
    /\ worker' = IF Awaited(x) THEN [worker EXCEPT !.exchange = "none"] ELSE worker
    /\ UNCHANGED <<outbox, stale, receipts, projected, losses, retries>>

-----------------------------------------------------------------------------
WorkerStep ==
    \/ StartIteration \/ Claim \/ TakeAnswer \/ GiveUp \/ EndIteration
    \/ \E r \in Written : Triage(r) \/ AckRow(r) \/ FailRow(r)
    \/ \E x \in Exchange : Send(x)

CloudStep(x) ==
    \/ \E r \in Written : \/ RejectItem(x, r) \/ ReadReceipt(x, r) \/ AcknowledgeKnownItem(x, r)
                          \/ InsertReceipt(x, r) \/ FailItem(x, r)
    \/ Answer(x) \/ AbortExchange(x)

Next ==
    \/ WorkerStep \/ LoseIteration \/ Stop
    \/ \E kind \in Kind : Commit(kind)
    \/ RetryFailedOutbox
    \/ \E r \in Row : BackoffExpires(r) \/ LockAges(r)
    \/ \E x \in Exchange : CloudStep(x)

Spec == Init /\ [][Next]_vars

\* The worker polls in a loop, a request the Cloud runs ends one way or another,
\* and time passes.  Nothing obliges the Cloud to succeed, or anyone to retry.
Fairness ==
    /\ WF_vars(WorkerStep)
    /\ \A x \in Exchange : WF_vars(CloudStep(x))
    /\ \A r \in Row : WF_vars(BackoffExpires(r)) /\ WF_vars(LockAges(r))

FairSpec == Spec /\ Fairness

-----------------------------------------------------------------------------
(* Properties                                                                 *)
WorkerPhase == {"idle", "claiming", "triage", "waiting", "acking", "failing"}

TypeOK ==
    /\ outbox \in Seq(OutboxRow) /\ Len(outbox) <= MaxRows
    /\ stale \subseteq Processing
    /\ worker \in [phase : WorkerPhase, todo : SUBSET Written, batch : SUBSET Written,
                    exchange : Exchange \union {"none"}, acks : Acks]
    /\ exchanges \in [Exchange -> [state : {"unused", "running", "answered"},
                                   todo : SUBSET Written,
                                   receipt : {"unread", "found", "absent"}, acks : Acks]]
    /\ receipts \subseteq Written
    /\ projected \in [Row -> Nat]
    /\ losses \in 0..MaxLosses /\ retries \in 0..MaxRetries

(* Every event enters the projections of the Cloud once if the Cloud received  *)
(* it and never otherwise, whatever was retried, timed out, ran twice at the   *)
(* same time or died half way (ReceiveEdgeEvent, applyEventProjections).       *)
CountedOnce == \A r \in Row : projected[r] = IF r \in receipts THEN 1 ELSE 0

(* The rows an iteration has still to send or to mark are locked all the way:  *)
(* neither a manual retry, a reclaim nor a second claim can hand them out      *)
(* again while their verdict is on its way.                                    *)
HeldRowsStayLocked == Held \subseteq Processing

(* A row left locked by a lost iteration holds back every younger row: no      *)
(* batch the worker holds is younger than a locked row it does not hold.       *)
LostRowsAreNotOvertaken ==
    \A r \in Held, q \in Processing \ Held : r < q

(* What delivery promises (EventJournal): an event is booked in the Cloud at   *)
(* most once, is marked delivered on the Edge only after that, and stays so.   *)
Journal == INSTANCE EventJournal WITH
    Events <- Row, written <- Written, booked <- projected,
    delivered <- {r \in Written : outbox[r].status = "sent"}

ImplementsEventJournal == Journal!Spec

(* Every row is in the end delivered or set aside for the operator, however    *)
(* often the Cloud fails, the licence is missing or the worker dies: a lost    *)
(* lock is reclaimed and a retry that never succeeds runs out of attempts.     *)
EveryRowSettles ==
    \A r \in Row : (r \in Written) ~> (r \in Written /\ outbox[r].status \in {"sent", "suspended"})
=============================================================================
