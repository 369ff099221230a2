----------------------------- MODULE PrintQueue -----------------------------
(***************************************************************************)
(* The local print queue of the POS Edge (app/print and print_repository): *)
(* the jobs of one closed check and of its tickets, one target per printer *)
(* a job goes to, the worker that claims, sends and marks targets, and the *)
(* operator who changes routes and asks for another try.                   *)
(*                                                                         *)
(* The worker's steps are transactions of their own.  What a printer puts  *)
(* on paper stays there whatever the database says afterwards.             *)
(***************************************************************************)
EXTENDS Naturals

CONSTANTS
    Ticket,         \* the tickets issued with the check
    Printer,        \* receipt_printers, numbered in the order of their ids
    InitialRoutes,  \* the print_routes the restaurant may have set up
    Setup,          \* bound: what the operator may turn a document's routes into
    MaxAttempts,    \* print_jobs.max_attempts
    MaxRetries,     \* bound: retries the operator asks for
    MaxChanges      \* bound: changes of the routes

Document == Ticket \cup {"check"}
Route == {"none", "required", "optional"}

ASSUME QueueAssumption ==
    /\ Printer \subseteq Nat
    /\ InitialRoutes \subseteq [Document -> [Printer -> Route]]
    /\ Setup \subseteq [Printer -> Route]
    /\ MaxAttempts \in Nat \ {0}
    /\ MaxRetries \in Nat /\ MaxChanges \in Nat
    /\ "check" \notin Ticket

VARIABLES
    routes,         \* active print_routes: document -> printer -> route
    jobs,           \* print_jobs.status: document -> status
    targets,        \* print_job_targets: document -> printer -> row
    worker,         \* what ProcessNextPrintJob has in hand
    retrying,       \* documents whose job the operator's request still has to rebuild
    plan,           \* the routes RetryPrintJob read before its transaction
    admitting,      \* active ticket_units
    confirmed,      \* checks.print_confirmed_at is set
    paper,          \* documents that came out of a printer
    retries, changes

databaseVars == <<routes, jobs, targets, admitting, confirmed>>
operatorVars == <<retrying, plan, retries, changes>>
vars == <<databaseVars, operatorVars, worker, paper>>

JobStatus == {"none", "pending", "succeeded", "failed"}
\* born stands for created_at, and with document and printer for the id.
NoTarget == [status |-> "none", attempts |-> 0, waiting |-> FALSE,
             required |-> FALSE, born |-> 0]
TargetRow == [status : {"none", "pending", "processing", "succeeded", "failed"},
              attempts : 0..MaxAttempts, waiting : BOOLEAN, required : BOOLEAN,
              born : 0..MaxRetries]
NoPlan == [document |-> "none", routes |-> [p \in Printer |-> "none"]]
Phase == {"sending", "sent", "refused", "marked", "ready"}
Idle == [phase |-> "idle", document |-> "none", printer |-> 0, attempts |-> 0, born |-> 0]

\* targetsForRoutes
TargetsFor(routesOfDocument) ==
    [p \in Printer |->
        IF routesOfDocument[p] = "none" THEN NoTarget
        ELSE [status |-> "pending", attempts |-> 0, waiting |-> FALSE,
              required |-> routesOfDocument[p] = "required", born |-> retries]]

\* aggregatePrintJobStatus over the targets of one job.
Required(rows) == {p \in Printer : rows[p].required}
Exhausted(rows) ==
    \E p \in Required(rows) : rows[p].status = "failed" /\ rows[p].attempts >= MaxAttempts
Complete(rows) ==
    /\ Required(rows) # {}
    /\ \A p \in Required(rows) : rows[p].status = "succeeded"
Aggregate(rows) ==
    IF Exhausted(rows) THEN "failed"
    ELSE IF Complete(rows) THEN "succeeded" ELSE "pending"

HasTargets(d) == \E p \in Printer : targets[d][p].status # "none"

\* The check and its tickets are there, their jobs are not queued yet.
Init ==
    /\ routes \in InitialRoutes
    /\ jobs = [d \in Document |-> "none"]
    /\ targets = [d \in Document |-> [p \in Printer |-> NoTarget]]
    /\ worker = Idle
    /\ retrying = {} /\ plan = NoPlan
    /\ admitting = Ticket /\ confirmed = FALSE
    /\ paper = {}
    /\ retries = 0 /\ changes = 0

\* EnqueuePrintJobWithTargets: a job with its targets and their aggregate.  A job
\* without a route has no targets and fails at once.
EnqueuePrintJobsWithTargets(rows) ==
    /\ targets' = rows
    /\ jobs' = [d \in Document |->
           IF \A p \in Printer : rows[d][p] = NoTarget THEN "failed" ELSE Aggregate(rows[d])]

\* EnqueueForClosedCheck, part of the transaction of the final payment.
EnqueueForClosedCheck ==
    /\ \A d \in Document : jobs[d] = "none"
    /\ EnqueuePrintJobsWithTargets([d \in Document |-> TargetsFor(routes[d])])
    /\ UNCHANGED <<routes, admitting, confirmed, operatorVars, worker, paper>>

-----------------------------------------------------------------------------
(* The worker.                                                             *)

Due(d, p) == targets[d][p].status = "pending" /\ ~targets[d][p].waiting
Free(p) == \A d \in Document : targets[d][p].status # "processing"

\* ClaimDuePrintJobTarget: the oldest due target of the first printer that is
\* not busy.
Claim(d, p) ==
    /\ worker = Idle
    /\ Due(d, p) /\ Free(p)
    /\ \A q \in Printer, e \in Document :
          q < p => ~(Due(e, q) /\ Free(q))
    /\ \A e \in Document : Due(e, p) => targets[d][p].born <= targets[e][p].born
    /\ targets' = [targets EXCEPT ![d][p].status = "processing"]
    /\ worker' = [phase |-> "sending", document |-> d, printer |-> p,
                  attempts |-> targets[d][p].attempts, born |-> targets[d][p].born]
    /\ UNCHANGED <<routes, jobs, admitting, confirmed, operatorVars, paper>>

\* renderAndSend: nil means the bytes were accepted; an error leaves open
\* whether they came out.
Send ==
    /\ worker.phase = "sending"
    /\ \/ /\ worker' = [worker EXCEPT !.phase = "sent"]
          /\ paper' = paper \cup {worker.document}
       \/ /\ worker' = [worker EXCEPT !.phase = "refused"]
          /\ paper' \in {paper, paper \cup {worker.document}}
    /\ UNCHANGED <<databaseVars, operatorVars>>

\* The context of the whole iteration ends with SendTimeout: a send that takes so
\* long fails, and so does every statement after it, the marking included.
Expire ==
    /\ worker # Idle
    /\ worker' = Idle
    /\ paper' \in {paper, IF worker.phase = "sending" THEN paper \cup {worker.document}
                                                      ELSE paper}
    /\ UNCHANGED <<databaseVars, operatorVars>>

\* Mutant: the row is looked up by job and printer.
HeldRowByPlace == targets[worker.document][worker.printer].status # "none"
\* The row the worker claimed is still there: no rebuild deleted it meanwhile.
HeldRowExists ==
    /\ targets[worker.document][worker.printer].status # "none"
    /\ targets[worker.document][worker.printer].born = worker.born

\* Writes row r of the held target and the aggregate of its job.
MarkRow(r) ==
    LET rows == [targets[worker.document] EXCEPT ![worker.printer] = r]
    IN  /\ targets' = [targets EXCEPT ![worker.document] = rows]
        /\ jobs' = [jobs EXCEPT ![worker.document] = Aggregate(rows)]

MarkPrintJobTargetSucceeded ==
    /\ worker.phase = "sent" /\ HeldRowExists
    /\ MarkRow([targets[worker.document][worker.printer] EXCEPT
                   !.status = "succeeded", !.attempts = worker.attempts + 1,
                   !.waiting = FALSE])
    /\ worker' = [worker EXCEPT !.phase = "marked"]
    /\ UNCHANGED <<routes, admitting, confirmed, operatorVars, paper>>

\* Mutant: the attempt is not counted.
RecordTargetAttemptFailureUncounted ==
    /\ worker.phase = "refused" /\ HeldRowExists
    /\ MarkRow([targets[worker.document][worker.printer] EXCEPT
                   !.status = "pending", !.attempts = worker.attempts, !.waiting = TRUE])
    /\ worker' = Idle
    /\ UNCHANGED <<routes, admitting, confirmed, operatorVars, paper>>

\* recordTargetAttemptFailure counts from the attempts it claimed with, even if
\* the operator has reset the row since.
RecordTargetAttemptFailure ==
    /\ worker.phase = "refused" /\ HeldRowExists
    /\ LET attempts == worker.attempts + 1
           last == attempts >= MaxAttempts
       IN  MarkRow([targets[worker.document][worker.printer] EXCEPT
                       !.status = IF last THEN "failed" ELSE "pending",
                       !.attempts = attempts, !.waiting = ~last])
    /\ worker' = Idle
    /\ UNCHANGED <<routes, admitting, confirmed, operatorVars, paper>>

\* The row is gone: the marking fails and nothing is written.
MarkVanished ==
    /\ worker.phase \in {"sent", "refused"} /\ ~HeldRowExists
    /\ worker' = Idle
    /\ UNCHANGED <<databaseVars, operatorVars, paper>>

\* maybeConfirmCheckPrint reads the job first.
ReadJob ==
    /\ worker.phase = "marked"
    /\ worker' = IF jobs[worker.document] = "succeeded" THEN [worker EXCEPT !.phase = "ready"]
                                                        ELSE Idle
    /\ UNCHANGED <<databaseVars, operatorVars, paper>>

\* Mutant: the tickets do not count.
ReadyWithoutTickets == jobs["check"] = "succeeded"
\* The conditions of MarkCheckPrintConfirmedIfReady.
Ready == jobs["check"] = "succeeded" /\ \A t \in admitting : jobs[t] = "succeeded"

MarkCheckPrintConfirmedIfReady ==
    /\ worker.phase = "ready"
    /\ confirmed' = (confirmed \/ Ready)
    /\ worker' = Idle
    /\ UNCHANGED <<routes, jobs, targets, admitting, operatorVars, paper>>

\* The restart forgets the worker's and the operator's requests; rows left in
\* processing stay there.
Crash ==
    /\ worker' = Idle /\ retrying' = {} /\ plan' = NoPlan
    /\ UNCHANGED <<databaseVars, paper, retries, changes>>

\* next_attempt_at passes.
BackoffExpires(d, p) ==
    /\ targets[d][p].waiting
    /\ targets' = [targets EXCEPT ![d][p].waiting = FALSE]
    /\ UNCHANGED <<routes, jobs, admitting, confirmed, operatorVars, worker, paper>>

-----------------------------------------------------------------------------
(* The operator.                                                           *)

\* CreatePrintRoute and DeactivatePrintRoute touch the one active route the unique
\* index leaves per document type, scope and printer; UpdatePrintRoute may move it
\* to a printer that has none.
OneEdit(old, new) ==
    \E p, q \in Printer :
       /\ \A x \in Printer \ {p, q} : new[x] = old[x]
       /\ p # q => new[p] = "none" /\ old[q] = "none"

ChangeRoute(d, setup) ==
    /\ changes < MaxChanges
    /\ setup # routes[d] /\ OneEdit(routes[d], setup)
    /\ routes' = [routes EXCEPT ![d] = setup]
    /\ changes' = changes + 1
    /\ UNCHANGED <<jobs, targets, admitting, confirmed, retrying, plan, retries, worker, paper>>

Retryable(row) == row.status \in {"pending", "failed", "processing"}

\* Mutant: the job is left as it was.
RetryPrintJobTargetAlone(d, p) ==
    /\ retries < MaxRetries
    /\ Retryable(targets[d][p])
    /\ targets' = [targets EXCEPT ![d][p].status = "pending", ![d][p].attempts = 0,
                                  ![d][p].waiting = FALSE]
    /\ retries' = retries + 1
    /\ UNCHANGED <<routes, jobs, admitting, confirmed, retrying, plan, changes, worker, paper>>

\* RetryPrintJobTarget, of a target the worker has in hand as well.
RetryPrintJobTarget(d, p) ==
    /\ retries < MaxRetries
    /\ Retryable(targets[d][p])
    /\ LET rows == [targets[d] EXCEPT ![p].status = "pending", ![p].attempts = 0,
                                      ![p].waiting = FALSE]
       IN  /\ targets' = [targets EXCEPT ![d] = rows]
           /\ jobs' = [jobs EXCEPT ![d] = Aggregate(rows)]
    /\ retries' = retries + 1
    /\ UNCHANGED <<routes, admitting, confirmed, retrying, plan, changes, worker, paper>>

\* RetryPrintJobAsOperator for one job, or RetryPrintConfirmationAsOperator for
\* every job of the check that has targets.
RequestRetry ==
    /\ retries < MaxRetries
    /\ retrying = {}
    /\ retrying' \in {{d} : d \in {e \in Document : jobs[e] # "none"}}
                        \cup {{d \in Document : HasTargets(d)}}
    /\ retrying' # {}
    /\ retries' = retries + 1
    /\ UNCHANGED <<databaseVars, plan, changes, worker, paper>>

\* routesForJob: the routes are read before the transaction that uses them.
ReadRoutes(d) ==
    /\ d \in retrying
    /\ plan = NoPlan
    /\ plan' = [document |-> d, routes |-> routes[d]]
    /\ UNCHANGED <<databaseVars, retrying, retries, changes, worker, paper>>

\* ResetPrintJobForRetryWithTargets replaces the targets.  It does not look at
\* what the worker has in hand, and a job that gets no target stays pending.
ResetPrintJob ==
    /\ plan # NoPlan
    /\ targets' = [targets EXCEPT ![plan.document] = TargetsFor(plan.routes)]
    /\ jobs' = [jobs EXCEPT ![plan.document] = "pending"]
    /\ retrying' = retrying \ {plan.document}
    /\ plan' = NoPlan
    /\ UNCHANGED <<routes, admitting, confirmed, retries, changes, worker, paper>>

\* CancelUnconfirmedOrder, as far as printing is concerned; its other conditions
\* are in PosSales.
VoidTickets ==
    /\ jobs["check"] # "none"
    /\ ~confirmed
    /\ admitting' = {}
    /\ UNCHANGED <<routes, jobs, targets, confirmed, operatorVars, worker, paper>>

-----------------------------------------------------------------------------
WorkerStep ==
    \/ \E d \in Document, p \in Printer : Claim(d, p)
    \/ Send \/ Expire
    \/ MarkPrintJobTargetSucceeded \/ RecordTargetAttemptFailure \/ MarkVanished
    \/ ReadJob \/ MarkCheckPrintConfirmedIfReady

OperatorStep ==
    \/ \E d \in Document, p \in Printer : RetryPrintJobTarget(d, p)
    \/ \E d \in Document, setup \in Setup : ChangeRoute(d, setup)
    \/ RequestRetry \/ ResetPrintJob
    \/ \E d \in Document : ReadRoutes(d)

\* Everything but a restart of the process.
RunningStep ==
    \/ EnqueueForClosedCheck
    \/ WorkerStep
    \/ OperatorStep
    \/ VoidTickets
    \/ \E d \in Document, p \in Printer : BackoffExpires(d, p)

Next == RunningStep \/ Crash

Spec == Init /\ [][Next]_vars

\* The worker polls and its transactions end, time passes.  Nobody has to retry, and
\* nothing bounds a send: WriteRaw sets no write deadline.
FairSpec ==
    /\ Spec
    /\ WF_vars(worker.phase # "sending" /\ WorkerStep)
    /\ \A d \in Document, p \in Printer : WF_vars(BackoffExpires(d, p))

-----------------------------------------------------------------------------
(* Properties.                                                             *)

\* Every row fits its schema; no target is tried more often than max_attempts.
TypeOK ==
    /\ routes \in [Document -> [Printer -> Route]]
    /\ jobs \in [Document -> JobStatus]
    /\ targets \in [Document -> [Printer -> TargetRow]]
    /\ \/ worker = Idle
       \/ worker \in [phase : Phase, document : Document, printer : Printer,
                      attempts : 0..(MaxAttempts - 1), born : 0..MaxRetries]
    /\ retrying \subseteq Document
    /\ plan = NoPlan \/ plan \in [document : Document, routes : [Printer -> Route]]
    /\ admitting \subseteq Ticket /\ confirmed \in BOOLEAN
    /\ paper \subseteq Document
    /\ retries \in 0..MaxRetries /\ changes \in 0..MaxChanges

\* A job says what its targets say, through retries, rebuilds and late marks: it
\* has succeeded exactly when every required target has (and there is one), and
\* failed exactly when a required one used up its attempts; without targets it
\* never counts as printed.
JobFitsTargets ==
    \A d \in Document :
       LET Has(status) == {p \in Required(targets[d]) : targets[d][p].status = status}
       IN  /\ jobs[d] = "succeeded" <=>
                 Required(targets[d]) # {} /\ Has("succeeded") = Required(targets[d])
           /\ HasTargets(d) => (jobs[d] = "failed" <=> Has("failed") # {})

\* Two targets are never in processing on one printer, even when a lost iteration
\* left one there and the operator retries (docs/backend/EDGE-PRINT-ROUTING-SPEC.md,
\* the FIFO buffer of a printer).
OneTargetPerPrinter ==
    \A p \in Printer, d, e \in Document :
       targets[d][p].status = "processing" /\ targets[e][p].status = "processing" => d = e

\* The rows of a document agree with each other and with those of the printer.
TargetsAreInOrder == JobFitsTargets /\ OneTargetPerPrinter

\* Only the send of a target settles it: what comes back of a send whose target was
\* replaced meanwhile counts for no other row, though it is for the same document
\* and printer.
SettledByItsOwnSend ==
    [][\A d \in Document, p \in Printer :
          targets[d][p].status \in {"pending", "processing"}
             /\ targets'[d][p].status \in {"succeeded", "failed"} =>
                   /\ worker.document = d /\ worker.printer = p
                   /\ worker.born = targets[d][p].born]_vars

\* A target that is printed is not sent again until its job is rebuilt, and is
\* never turned into a failure by a mark that comes late.
PrintedStaysPrinted ==
    [][\A d \in Document, p \in Printer :
          targets[d][p].status = "succeeded" =>
             targets'[d][p].status = "succeeded" \/ targets'[d][p].born # targets[d][p].born
                \/ targets'[d][p].status = "none"]_vars

\* The queue implements the confirmation PaperTrail promises.
Trail == INSTANCE PaperTrail WITH CheckDocument <- "check"
ImplementsPaperTrail == Trail!Spec

\* A printer is blocked by a row in processing that nobody works on.
Blocked(p) ==
    \E d \in Document :
       /\ targets[d][p].status = "processing"
       /\ ~(worker.document = d /\ worker.printer = p)

\* The worker is never in one send for ever.
SendsReturn == []<>(worker.phase # "sending")

\* As long as sends return, a queued target is printed, or fails after its attempts,
\* or is replaced, or its printer is blocked (the failed attempt is written with the
\* context of the send, so after a send that lasted until the deadline the row stays
\* in processing): backoff of one target holds up no other for ever, and no printer
\* starves behind one that always fails.
EveryTargetSettles ==
    SendsReturn =>
       \A d \in Document, p \in Printer :
          targets[d][p].status = "pending" ~>
             targets[d][p].status \in {"none", "succeeded", "failed"} \/ Blocked(p)
=============================================================================
