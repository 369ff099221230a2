-------------------------- MODULE PrintQueueProofs --------------------------
(***************************************************************************)
(* Safety of PrintQueue for any tickets, printers, routes, attempts,       *)
(* retries and changes, and that the queue implements PaperTrail.          *)
(***************************************************************************)
EXTENDS PrintQueue, TLAPS

-----------------------------------------------------------------------------
(* The inductive invariant.                                                *)

\* What the status of a row says of its attempts, and of the paper.
RowIsSane(d, row) ==
    /\ row.status = "none" => ~row.required
    /\ row.waiting => row.status = "pending"
    /\ row.status = "pending" => row.attempts < MaxAttempts
    /\ row.status = "failed" => row.attempts = MaxAttempts
    /\ row.status = "succeeded" => d \in paper
    /\ row.born <= retries
RowsAreSane == \A d \in Document, p \in Printer : RowIsSane(d, targets[d][p])

\* Nothing happens before the jobs are queued.
QueuedFirst ==
    (\A d \in Document : jobs[d] = "none") =>
        /\ worker = Idle /\ retrying = {} /\ plan = NoPlan
        /\ \A d \in Document, p \in Printer : targets[d][p].status = "none"

\* A row has not been settled while it is in the worker's hand, and what the worker takes
\* for printed is.
Held(row) == row.status # "none" /\ row.born = worker.born
HandIsTrue ==
    /\ worker # Idle => worker.born <= retries
    /\ worker.phase \in {"sent", "marked", "ready"} => worker.document \in paper
    /\ worker.phase \in {"sending", "sent", "refused"} =>
          (Held(targets[worker.document][worker.printer]) =>
              targets[worker.document][worker.printer].status \in {"pending", "processing"})

\* Rows that are about to be replaced, and a hand that holds one, are older than those
\* that will be.
RebuildsAreYounger ==
    /\ plan # NoPlan => plan.document \in retrying
    /\ \A d \in retrying :
          /\ \A p \in Printer : targets[d][p].status # "none" => targets[d][p].born < retries
          /\ worker # Idle /\ worker.document = d => worker.born < retries

IInv == /\ TypeOK /\ TargetsAreInOrder
        /\ RowsAreSane /\ QueuedFirst /\ HandIsTrue /\ RebuildsAreYounger

-----------------------------------------------------------------------------
(* The rows of one job and its status.                                     *)

\* JobFitsTargets of one job.
Fits(job, rows) ==
    /\ job = "succeeded" <=> Complete(rows)
    /\ (\E p \in Printer : rows[p].status # "none") =>
          (job = "failed" <=> \E p \in Required(rows) : rows[p].status = "failed")

\* A job fits its targets when it does so document by document.
LEMMA FitsEach == JobFitsTargets <=> \A d \in Document : Fits(jobs[d], targets[d])
  BY DEF JobFitsTargets, Fits, Complete, HasTargets, Required

\* The aggregate fits the rows if the failed ones used up their attempts.
LEMMA AggregateFits ==
    ASSUME NEW rows,
           \A p \in Printer : rows[p].status = "failed" => rows[p].attempts >= MaxAttempts
    PROVE  /\ Aggregate(rows) \in {"pending", "succeeded", "failed"}
           /\ Fits(Aggregate(rows), rows)
  <1>1. Exhausted(rows) <=> \E p \in Required(rows) : rows[p].status = "failed"
    BY DEF Exhausted, Required
  <1>2. Exhausted(rows) => ~Complete(rows)
    BY <1>1 DEF Complete
  <1> QED
    BY <1>1, <1>2 DEF Aggregate, Fits

\* A job still fits rows that are neither settled nor reopened nor replaced.
LEMMA FitsKept ==
    ASSUME NEW job, NEW old, NEW new, Fits(job, old),
           \A p \in Printer :
              /\ new[p].required = old[p].required
              /\ \A status \in {"none", "succeeded", "failed"} :
                    new[p].status = status <=> old[p].status = status
    PROVE  Fits(job, new)
  <1>1. Required(new) = Required(old)
    BY DEF Required
  <1>2. Complete(new) <=> Complete(old)
    BY <1>1 DEF Complete, Required
  <1> QED
    BY <1>1, <1>2 DEF Fits, Required

\* The rows of routes are pending, and required rows are there.
LEMMA RowsOfRoutes ==
    ASSUME NEW setup \in [Printer -> Route], retries \in 0..MaxRetries
    PROVE  /\ TargetsFor(setup) \in [Printer -> TargetRow]
           /\ \A p \in Printer : LET row == TargetsFor(setup)[p]
                                 IN  \/ row = NoTarget
                                     \/ /\ row.status = "pending" /\ row.attempts = 0
                                        /\ row.waiting = FALSE /\ row.born = retries
           /\ Fits("pending", TargetsFor(setup))
  <1> DEFINE rows == TargetsFor(setup)
             fresh(required) == [status |-> "pending", attempts |-> 0, waiting |-> FALSE,
                                 required |-> required, born |-> retries]
  <1>0. MaxAttempts \in Nat \ {0} /\ MaxRetries \in Nat
    BY QueueAssumption
  <1>1. NoTarget \in TargetRow /\ \A b \in BOOLEAN : fresh(b) \in TargetRow
    BY <1>0 DEF NoTarget, TargetRow
  <1>2. \A p \in Printer : rows[p] = NoTarget \/ \E b \in BOOLEAN : rows[p] = fresh(b)
    BY DEF TargetsFor
  <1>3. rows \in [Printer -> TargetRow]
    BY <1>1, <1>2 DEF TargetsFor
  <1>4. \A p \in Printer : /\ rows[p].status \in {"none", "pending"}
                           /\ rows[p].status = "none" => ~rows[p].required
    <2>1. NoTarget.status = "none" /\ ~NoTarget.required
      BY DEF NoTarget
    <2>2. \A b \in BOOLEAN : /\ fresh(b).status = "pending" /\ fresh(b).attempts = 0
                             /\ fresh(b).waiting = FALSE /\ fresh(b).born = retries
      OBVIOUS
    <2> HIDE DEF rows, fresh
    <2> QED
      BY <1>2, <2>1, <2>2
  <1>5. Fits("pending", rows)
    BY <1>4 DEF Fits, Complete, Required
  <1> QED
    BY <1>2, <1>3, <1>5

-----------------------------------------------------------------------------
(* Changes of single rows, and of the rows of one document.                *)

Targets == targets \in [Document -> [Printer -> TargetRow]]

\* A change of one row leaves the others.
LEMMA OneRow ==
    ASSUME Targets, NEW d \in Document, NEW p \in Printer, NEW row \in TargetRow,
           targets' = [targets EXCEPT ![d] = [targets[d] EXCEPT ![p] = row]]
    PROVE  /\ Targets'
           /\ targets'[d] = [targets[d] EXCEPT ![p] = row]
           /\ targets'[d][p] = row
           /\ \A q \in Printer : q # p => targets'[d][q] = targets[d][q]
           /\ \A e \in Document : e # d => targets'[e] = targets[e]
  BY DEF Targets

\* So does a change of the rows of one document.
LEMMA OneDocument ==
    ASSUME Targets, NEW d \in Document, NEW rows \in [Printer -> TargetRow],
           targets' = [targets EXCEPT ![d] = rows]
    PROVE  /\ Targets'
           /\ targets'[d] = rows
           /\ \A e \in Document : e # d => targets'[e] = targets[e]
  BY DEF Targets

\* What TypeOK says of the hand.
InHand == [phase : Phase, document : Document, printer : Printer,
           attempts : 0..(MaxAttempts - 1), born : 0..MaxRetries]

\* What the hand of a worker holds, by the step it is at.
LEMMA Hand ==
    ASSUME TypeOK
    PROVE  /\ worker # Idle => worker \in InHand
           /\ worker.phase \in Phase => worker # Idle
  BY DEF TypeOK, InHand, Idle, Phase

\* The hand goes on to another phase.
LEMMA NextPhase ==
    ASSUME worker \in InHand, NEW phase \in Phase, worker' = [worker EXCEPT !.phase = phase]
    PROVE  /\ worker' \in InHand /\ worker'.phase = phase
           /\ worker'.document = worker.document /\ worker'.printer = worker.printer
           /\ worker'.born = worker.born
           /\ worker' # Idle
  BY DEF InHand, Idle, Phase

-----------------------------------------------------------------------------
(* Two kinds of steps.                                                     *)

PlanRow == [document : Document, routes : [Printer -> Route]]

\* A step that leaves the rows and the jobs alone, and at most goes on with what is in
\* hand, puts it on paper, lets go of it, or gives up requests.
LEMMA QuietStep ==
    ASSUME IInv, UNCHANGED <<jobs, targets, retries>>,
           routes' \in [Document -> [Printer -> Route]],
           admitting' \subseteq Ticket, confirmed' \in BOOLEAN, changes' \in 0..MaxChanges,
           paper \subseteq paper', paper' \subseteq Document,
           retrying' \subseteq retrying,
           plan' = NoPlan \/ (plan' \in PlanRow /\ plan'.document \in retrying'),
           \/ worker' \in {worker, Idle}
           \/ /\ worker # Idle /\ worker' \in InHand
              /\ worker'.document = worker.document /\ worker'.printer = worker.printer
              /\ worker'.born = worker.born
              /\ worker'.phase \in {"sent", "marked", "ready"} => worker'.document \in paper'
              /\ worker'.phase \in {"sending", "sent", "refused"} => worker.phase = "sending"
    PROVE  IInv'
  <1>1. TypeOK'
    BY DEF IInv, TypeOK, InHand, PlanRow
  <1>2. TargetsAreInOrder'
    BY DEF IInv, TargetsAreInOrder, JobFitsTargets, OneTargetPerPrinter, HasTargets, Required
  <1>3. RowsAreSane'
    BY DEF IInv, RowsAreSane, RowIsSane
  <1>4. QueuedFirst'
    BY DEF IInv, QueuedFirst
  <1>5. HandIsTrue'
    BY DEF IInv, HandIsTrue, Held, Idle
  <1>6. RebuildsAreYounger'
    BY DEF IInv, RebuildsAreYounger, Idle
  <1> QED
    BY <1>1, <1>2, <1>3, <1>4, <1>5, <1>6 DEF IInv

\* The plan, where there is one, is for a document whose job is to be rebuilt.
LEMMA PlanKept == IInv => plan = NoPlan \/ (plan \in PlanRow /\ plan.document \in retrying)
  BY DEF IInv, TypeOK, RebuildsAreYounger, PlanRow

\* A step that writes one row which is there, and the job with it.
RowWritten(d, p, row, job) ==
    /\ row \in TargetRow
    /\ targets' = [targets EXCEPT ![d] = [targets[d] EXCEPT ![p] = row]]
    /\ targets[d][p].status # "none" /\ row.status # "none"
    /\ row.born = targets[d][p].born /\ RowIsSane(d, row)
    /\ row.status = "processing" => Free(p)
    /\ \/ jobs' = [jobs EXCEPT ![d] = job] /\ job \in {"pending", "succeeded", "failed"}
       \/ jobs' = jobs /\ job = jobs[d]
    /\ Fits(job, [targets[d] EXCEPT ![p] = row])
    /\ paper' = paper /\ retries' \in {retries, retries + 1}

\* What follows when one row is written, and with it the status of its job.
LEMMA RowStep ==
    ASSUME IInv, NEW d \in Document, NEW p \in Printer, NEW row, NEW job,
           RowWritten(d, p, row, job)
    PROVE  /\ Targets' /\ jobs' \in [Document -> JobStatus]
           /\ TargetsAreInOrder' /\ RowsAreSane' /\ QueuedFirst'
           /\ targets'[d][p] = row
           /\ \A e \in Document, q \in Printer :
                 /\ e # d \/ q # p => targets'[e][q] = targets[e][q]
                 /\ targets'[e][q].born = targets[e][q].born
                 /\ targets'[e][q].status = "none" <=> targets[e][q].status = "none"
  <1>1. Targets /\ retries \in Nat /\ jobs \in [Document -> JobStatus]
    BY DEF IInv, TypeOK, Targets
  <1>2. /\ Targets'
        /\ targets'[d] = [targets[d] EXCEPT ![p] = row]
        /\ targets'[d][p] = row
        /\ \A q \in Printer : q # p => targets'[d][q] = targets[d][q]
        /\ \A e \in Document : e # d => targets'[e] = targets[e]
    BY <1>1, OneRow DEF RowWritten
  <1>3. /\ jobs' \in [Document -> JobStatus] /\ jobs'[d] = job
        /\ \A e \in Document : e # d => jobs'[e] = jobs[e]
    BY <1>1 DEF JobStatus, RowWritten
  <1>4. \A e \in Document, q \in Printer :
           /\ e # d \/ q # p => targets'[e][q] = targets[e][q]
           /\ targets'[e][q].born = targets[e][q].born
           /\ targets'[e][q].status = "none" <=> targets[e][q].status = "none"
    BY <1>2 DEF RowWritten
  <1>5. JobFitsTargets'
    <2>1. \A e \in Document : Fits(jobs[e], targets[e])
      BY FitsEach DEF IInv, TargetsAreInOrder
    <2>2. \A e \in Document : Fits(jobs'[e], targets'[e])
      BY <1>2, <1>3, <2>1 DEF RowWritten
    <2> QED
      BY <2>2 DEF JobFitsTargets, Fits, Complete, HasTargets, Required
  <1>6. OneTargetPerPrinter'
    BY <1>2, <1>4 DEF IInv, TargetsAreInOrder, OneTargetPerPrinter, Free, RowWritten
  <1>7. RowsAreSane'
    <2> SUFFICES ASSUME NEW e \in Document, NEW q \in Printer
                 PROVE  RowIsSane(e, targets[e][q])'
      BY DEF RowsAreSane
    <2>1. targets'[e][q] \in TargetRow /\ targets[e][q] \in TargetRow
      BY <1>1, <1>2 DEF Targets
    <2>2. RowIsSane(e, targets'[e][q])
      BY <1>2, <1>4 DEF IInv, RowsAreSane, RowWritten
    <2>3. targets'[e][q].born <= retries => targets'[e][q].born <= retries'
      BY <1>1, <2>1, QueueAssumption DEF TargetRow, RowWritten
    <2> QED
      BY <2>2, <2>3 DEF RowIsSane, RowWritten
  <1>8. QueuedFirst'
    <2>1. PICK e \in Document : jobs[e] # "none"
      BY DEF IInv, QueuedFirst, RowWritten
    <2>2. job # "none" \/ job = jobs[d]
      BY DEF RowWritten
    <2>3. jobs'[e] # "none"
      BY <1>3, <2>1, <2>2
    <2> QED
      BY <2>3 DEF QueuedFirst
  <1> QED
    BY <1>2, <1>3, <1>4, <1>5, <1>6, <1>7, <1>8 DEF TargetsAreInOrder

-----------------------------------------------------------------------------
(* The invariant at the start and through every action.                    *)

\* Nothing is queued, held or printed at the start.
LEMMA StartsRight == Init => IInv
  <1> SUFFICES ASSUME Init PROVE IInv
    OBVIOUS
  <1>0. MaxAttempts \in Nat \ {0} /\ MaxRetries \in Nat /\ MaxChanges \in Nat
    BY QueueAssumption
  <1>1. /\ targets \in [Document -> [Printer -> TargetRow]]
        /\ \A d \in Document, p \in Printer : targets[d][p] = NoTarget
    BY <1>0 DEF Init, NoTarget, TargetRow
  <1>2. TypeOK
    <2>1. routes \in [Document -> [Printer -> Route]]
      BY QueueAssumption DEF Init
    <2>2. jobs \in [Document -> JobStatus]
      BY DEF Init, JobStatus
    <2>3. /\ retries \in 0..MaxRetries /\ changes \in 0..MaxChanges
          /\ retrying \subseteq Document /\ paper \subseteq Document
          /\ admitting \subseteq Ticket
      BY <1>0 DEF Init
    <2>4. confirmed \in BOOLEAN /\ worker = Idle /\ plan = NoPlan
      BY DEF Init
    <2> QED
      BY <1>1, <2>1, <2>2, <2>3, <2>4 DEF TypeOK
  <1>3. TargetsAreInOrder
    BY <1>1 DEF Init, TargetsAreInOrder, JobFitsTargets, OneTargetPerPrinter, HasTargets,
                Required, NoTarget
  <1>4. RowsAreSane /\ QueuedFirst
    BY <1>1 DEF Init, RowsAreSane, RowIsSane, QueuedFirst, NoTarget
  <1>5. HandIsTrue /\ RebuildsAreYounger
    BY DEF Init, HandIsTrue, RebuildsAreYounger, Idle
  <1> QED
    BY <1>2, <1>3, <1>4, <1>5 DEF IInv

\* The final payment queues the jobs of the check and of its tickets.
LEMMA EnqueueKeeps == ASSUME IInv, EnqueueForClosedCheck PROVE IInv'
  <1> DEFINE rows(d) == TargetsFor(routes[d])
  <1>0. /\ worker = Idle /\ retrying = {} /\ plan = NoPlan
        /\ retries \in 0..MaxRetries
        /\ \A d \in Document : routes[d] \in [Printer -> Route]
        /\ MaxAttempts \in Nat \ {0}
    BY QueueAssumption DEF IInv, QueuedFirst, TypeOK, EnqueueForClosedCheck
  <1>1. \A d \in Document :
           /\ targets'[d] = rows(d) /\ rows(d) \in [Printer -> TargetRow]
           /\ \A p \in Printer : \/ rows(d)[p] = NoTarget
                                 \/ /\ rows(d)[p].status = "pending" /\ rows(d)[p].attempts = 0
                                    /\ rows(d)[p].waiting = FALSE /\ rows(d)[p].born = retries
           /\ jobs'[d] = IF \A p \in Printer : rows(d)[p] = NoTarget THEN "failed"
                         ELSE Aggregate(rows(d))
    <2> TAKE d \in Document
    <2>1. /\ targets'[d] = rows(d)
          /\ jobs'[d] = IF \A p \in Printer : rows(d)[p] = NoTarget THEN "failed"
                        ELSE Aggregate(rows(d))
      BY DEF EnqueueForClosedCheck, EnqueuePrintJobsWithTargets
    <2>2. /\ rows(d) \in [Printer -> TargetRow]
          /\ \A p \in Printer : \/ rows(d)[p] = NoTarget
                                \/ /\ rows(d)[p].status = "pending" /\ rows(d)[p].attempts = 0
                                   /\ rows(d)[p].waiting = FALSE /\ rows(d)[p].born = retries
      BY <1>0, RowsOfRoutes
    <2> QED
      BY <2>1, <2>2
  <1>2. NoTarget.status = "none" /\ ~NoTarget.required /\ NoTarget.waiting = FALSE
        /\ NoTarget.born = 0
    BY DEF NoTarget
  <1> HIDE DEF rows
  <1>3. ASSUME NEW d \in Document
        PROVE  jobs'[d] \in {"pending", "succeeded", "failed"} /\ Fits(jobs'[d], rows(d))
    <2>1. CASE \A p \in Printer : rows(d)[p] = NoTarget
      BY <1>1, <1>2, <2>1 DEF Fits, Complete, Required
    <2>2. CASE ~ \A p \in Printer : rows(d)[p] = NoTarget
      <3>1. \A p \in Printer : rows(d)[p].status # "failed"
        BY <1>1, <1>2
      <3> QED
        BY <1>1, <2>2, <3>1, AggregateFits
    <2> QED
      BY <2>1, <2>2
  <1>4. TypeOK'
    <2>1. targets' \in [Document -> [Printer -> TargetRow]]
      BY <1>1 DEF EnqueueForClosedCheck, EnqueuePrintJobsWithTargets
    <2>2. jobs' \in [Document -> JobStatus]
      BY <1>3 DEF EnqueueForClosedCheck, EnqueuePrintJobsWithTargets, JobStatus
    <2> QED
      BY <2>1, <2>2 DEF IInv, TypeOK, EnqueueForClosedCheck, operatorVars
  <1>5. TargetsAreInOrder'
    <2>1. JobFitsTargets'
      BY <1>1, <1>3 DEF JobFitsTargets, Fits, Complete, HasTargets, Required
    <2>2. OneTargetPerPrinter'
      BY <1>1, <1>2 DEF OneTargetPerPrinter
    <2> QED
      BY <2>1, <2>2 DEF TargetsAreInOrder
  <1>6. RowsAreSane'
    BY <1>0, <1>1, <1>2, QueueAssumption
    DEF RowsAreSane, RowIsSane, EnqueueForClosedCheck, operatorVars
  <1>7. QueuedFirst' /\ HandIsTrue' /\ RebuildsAreYounger'
    <2>1. \E d \in Document : jobs'[d] # "none"
      BY <1>3 DEF Document
    <2>2. worker' = Idle /\ retrying' = {} /\ plan' = NoPlan
      BY <1>0 DEF EnqueueForClosedCheck, operatorVars
    <2> QED
      BY <2>1, <2>2 DEF QueuedFirst, HandIsTrue, RebuildsAreYounger, Idle
  <1> QED
    BY <1>4, <1>5, <1>6, <1>7 DEF IInv

\* A claim takes a pending row of a free printer.
LEMMA ClaimKeeps ==
    ASSUME IInv, NEW d \in Document, NEW p \in Printer, Claim(d, p) PROVE IInv'
  <1> DEFINE row == [targets[d][p] EXCEPT !.status = "processing"]
  <1>0. /\ targets[d][p] \in TargetRow /\ targets[d][p].status = "pending"
        /\ targets[d][p].attempts < MaxAttempts /\ targets[d][p].born <= retries
        /\ targets[d][p].waiting = FALSE
        /\ Targets /\ MaxAttempts \in Nat \ {0} /\ MaxRetries \in Nat /\ retries \in 0..MaxRetries
    BY QueueAssumption DEF IInv, TypeOK, TargetRow, RowsAreSane, RowIsSane, Claim, Due, Targets
  <1>1. /\ row \in TargetRow /\ row.status = "processing" /\ row.born = targets[d][p].born
        /\ row.required = targets[d][p].required
        /\ RowIsSane(d, row)
    BY <1>0 DEF TargetRow, RowIsSane
  <1>2. targets' = [targets EXCEPT ![d] = [targets[d] EXCEPT ![p] = row]]
    BY DEF Claim
  <1>3. Fits(jobs[d], [targets[d] EXCEPT ![p] = row])
    <2>1. Fits(jobs[d], targets[d])
      BY FitsEach DEF IInv, TargetsAreInOrder
    <2>2. targets[d] \in [Printer -> TargetRow]
      BY <1>0 DEF Targets
    <2> HIDE DEF row
    <2> QED
      BY <1>0, <1>1, <2>1, <2>2, FitsKept
  <1>4. /\ Targets' /\ jobs' \in [Document -> JobStatus]
        /\ TargetsAreInOrder' /\ RowsAreSane' /\ QueuedFirst'
        /\ targets'[d][p] = row
        /\ \A e \in Document, q \in Printer :
              /\ targets'[e][q].born = targets[e][q].born
              /\ targets'[e][q].status = "none" <=> targets[e][q].status = "none"
    <2>1. Free(p) /\ jobs' = jobs /\ paper' = paper /\ retries' = retries
      BY DEF Claim, operatorVars
    <2> HIDE DEF row
    <2>2. RowWritten(d, p, row, jobs[d])
      BY <1>0, <1>1, <1>2, <1>3, <2>1 DEF RowWritten
    <2> QED
      BY <2>2, RowStep
  <1>5. /\ worker = Idle /\ worker' \in InHand
        /\ worker'.phase = "sending" /\ worker'.document = d /\ worker'.printer = p
        /\ worker'.born = targets[d][p].born
    BY <1>0 DEF Claim, InHand, Phase, TargetRow
  <1>6. TypeOK'
    BY <1>4, <1>5 DEF IInv, TypeOK, Targets, InHand, Claim, operatorVars
  <1>7. HandIsTrue'
    BY <1>0, <1>1, <1>4, <1>5 DEF HandIsTrue, Claim, operatorVars
  <1>8. RebuildsAreYounger'
    BY <1>0, <1>4, <1>5 DEF IInv, RebuildsAreYounger, Claim, operatorVars
  <1> QED
    BY <1>4, <1>6, <1>7, <1>8 DEF IInv

\* renderAndSend.
LEMMA SendKeeps == ASSUME IInv, Send PROVE IInv'
  <1>1. worker # Idle /\ worker \in InHand /\ worker.document \in Document
    BY Hand DEF IInv, Send, Phase, InHand
  <1>2. \/ /\ worker' = [worker EXCEPT !.phase = "sent"]
           /\ paper' = paper \cup {worker.document}
        \/ /\ worker' = [worker EXCEPT !.phase = "refused"]
           /\ paper' \in {paper, paper \cup {worker.document}}
    BY DEF Send
  <1>3. /\ worker' \in InHand /\ worker'.phase \in {"sent", "refused"}
        /\ worker'.document = worker.document /\ worker'.printer = worker.printer
        /\ worker'.born = worker.born
        /\ worker'.phase = "sent" => worker'.document \in paper'
    BY <1>1, <1>2, NextPhase DEF Phase
  <1>4. paper \subseteq paper' /\ paper' \subseteq Document
    BY <1>1, <1>2 DEF IInv, TypeOK
  <1>5. worker.phase = "sending" /\ UNCHANGED <<databaseVars, operatorVars>>
    BY DEF Send
  <1> QED
    BY <1>1, <1>3, <1>4, <1>5, QuietStep, PlanKept DEF IInv, TypeOK, databaseVars, operatorVars

\* The hand is empty afterwards.
LEMMA ExpireKeeps == ASSUME IInv, Expire PROVE IInv'
  <1>1. worker # Idle /\ worker.document \in Document
    BY Hand DEF IInv, Expire, InHand
  <1>2. paper \subseteq paper' /\ paper' \subseteq Document
    BY <1>1 DEF IInv, TypeOK, Expire
  <1>3. worker' = Idle /\ UNCHANGED <<databaseVars, operatorVars>>
    BY DEF Expire
  <1> QED
    BY <1>2, <1>3, QuietStep, PlanKept DEF IInv, TypeOK, databaseVars, operatorVars

\* A target whose row is gone is passed over.
LEMMA MarkVanishedKeeps == ASSUME IInv, MarkVanished PROVE IInv'
  <1>1. worker' = Idle /\ UNCHANGED <<databaseVars, operatorVars, paper>>
    BY DEF MarkVanished
  <1> QED
    BY <1>1, QuietStep, PlanKept DEF IInv, TypeOK, databaseVars, operatorVars

\* Reading a job puts into the hand what its row says.
LEMMA ReadJobKeeps == ASSUME IInv, ReadJob PROVE IInv'
  <1>1. worker # Idle /\ worker \in InHand /\ worker.document \in paper
    BY Hand DEF IInv, HandIsTrue, ReadJob, Phase
  <1>2. worker' = Idle \/ worker' = [worker EXCEPT !.phase = "ready"]
    BY DEF ReadJob
  <1>3. \/ worker' = Idle
        \/ /\ worker' \in InHand /\ worker'.phase = "ready"
           /\ worker'.document = worker.document /\ worker'.printer = worker.printer
           /\ worker'.born = worker.born
    BY <1>1, <1>2, NextPhase DEF Phase
  <1>4. UNCHANGED <<databaseVars, operatorVars, paper>>
    BY DEF ReadJob
  <1> QED
    BY <1>1, <1>3, <1>4, QuietStep, PlanKept DEF IInv, TypeOK, databaseVars, operatorVars

\* A check counts as printed only when its job has succeeded.
LEMMA ConfirmKeeps == ASSUME IInv, MarkCheckPrintConfirmedIfReady PROVE IInv'
  <1>1. worker' = Idle /\ confirmed' \in BOOLEAN
    BY DEF MarkCheckPrintConfirmedIfReady
  <1>2. UNCHANGED <<routes, jobs, targets, admitting, operatorVars, paper>>
    BY DEF MarkCheckPrintConfirmedIfReady
  <1> QED
    BY <1>1, <1>2, QuietStep, PlanKept DEF IInv, TypeOK, operatorVars

\* The hand is lost, the rows stay as they are.
LEMMA CrashKeeps == ASSUME IInv, Crash PROVE IInv'
  <1>1. /\ worker' = Idle /\ retrying' = {} /\ plan' = NoPlan
        /\ UNCHANGED <<databaseVars, paper, retries, changes>>
    BY DEF Crash
  <1> QED
    BY <1>1, QuietStep DEF IInv, TypeOK, databaseVars

\* The operator's and the cashier's steps that touch no row.
LEMMA ChangeRouteKeeps ==
    ASSUME IInv, NEW d \in Document, NEW setup \in Setup, ChangeRoute(d, setup) PROVE IInv'
  <1>1. routes' \in [Document -> [Printer -> Route]]
    BY QueueAssumption DEF IInv, TypeOK, ChangeRoute
  <1>2. changes' \in 0..MaxChanges
    BY QueueAssumption DEF IInv, TypeOK, ChangeRoute
  <1>3. UNCHANGED <<jobs, targets, admitting, confirmed, retrying, plan, retries, worker, paper>>
    BY DEF ChangeRoute
  <1> QED
    BY <1>1, <1>2, <1>3, QuietStep, PlanKept DEF IInv, TypeOK

\* The plan is about a document that is being retried, with its routes.
LEMMA ReadRoutesKeeps ==
    ASSUME IInv, NEW d \in Document, ReadRoutes(d) PROVE IInv'
  <1>1. plan' = [document |-> d, routes |-> routes[d]] /\ d \in retrying
    BY DEF ReadRoutes
  <1>2. plan' \in PlanRow /\ plan'.document \in retrying
    BY <1>1 DEF IInv, TypeOK, PlanRow
  <1>3. UNCHANGED <<databaseVars, retrying, retries, changes, worker, paper>>
    BY DEF ReadRoutes
  <1> QED
    BY <1>2, <1>3, QuietStep DEF IInv, TypeOK, databaseVars

\* Voided tickets are admitted no more; no row changes.
LEMMA VoidTicketsKeeps == ASSUME IInv, VoidTickets PROVE IInv'
  <1>1. admitting' = {} /\ UNCHANGED <<routes, jobs, targets, confirmed, operatorVars, worker, paper>>
    BY DEF VoidTickets
  <1> QED
    BY <1>1, QuietStep, PlanKept DEF IInv, TypeOK, operatorVars

\* A request makes every row that is there older than those that will replace it.
LEMMA RequestRetryKeeps == ASSUME IInv, RequestRetry PROVE IInv'
  <1>0. /\ retries \in Nat /\ MaxRetries \in Nat /\ retries < MaxRetries /\ retries' = retries + 1
        /\ UNCHANGED <<databaseVars, plan, changes, worker, paper>>
        /\ retrying = {} /\ retrying' # {}
        /\ plan = NoPlan
    BY QueueAssumption DEF IInv, TypeOK, RebuildsAreYounger, RequestRetry
  <1>1. retrying' \subseteq Document
    BY DEF RequestRetry
  <1>2. TypeOK'
    BY <1>0, <1>1 DEF IInv, TypeOK, databaseVars
  <1>3. TargetsAreInOrder'
    BY <1>0 DEF IInv, TargetsAreInOrder, JobFitsTargets, OneTargetPerPrinter, HasTargets,
                Required, databaseVars
  <1>4. \A d \in Document, p \in Printer :
           targets[d][p].born \in Nat /\ targets[d][p].born <= retries
    BY QueueAssumption DEF IInv, TypeOK, TargetRow, RowsAreSane, RowIsSane
  <1>5. RowsAreSane'
    BY <1>0, <1>4 DEF IInv, RowsAreSane, RowIsSane, databaseVars
  <1>6. \E d \in Document : jobs[d] # "none"
    BY DEF RequestRetry, HasTargets, IInv, QueuedFirst
  <1>7. QueuedFirst'
    BY <1>0, <1>6 DEF QueuedFirst, databaseVars
  <1>8. HandIsTrue' /\ RebuildsAreYounger'
    <2>1. worker # Idle => worker.born \in Nat /\ worker.born <= retries
      BY <1>0, Hand DEF IInv, HandIsTrue, InHand
    <2>2. HandIsTrue'
      BY <1>0, <2>1, Hand DEF IInv, HandIsTrue, Held, databaseVars, Phase
    <2>3. RebuildsAreYounger'
      BY <1>0, <1>1, <1>4, <2>1 DEF RebuildsAreYounger, databaseVars
    <2> QED
      BY <2>2, <2>3
  <1> QED
    BY <1>2, <1>3, <1>5, <1>7, <1>8 DEF IInv

\* Writing the outcome of a send into the row it was claimed with.
LEMMA MarkRowKeeps ==
    ASSUME IInv, NEW row, worker # Idle, HeldRowExists, MarkRow(row),
           row \in TargetRow, row.status # "none", row.status # "processing",
           row.born = targets[worker.document][worker.printer].born,
           RowIsSane(worker.document, row),
           UNCHANGED <<routes, admitting, confirmed, operatorVars, paper>>,
           \/ worker' = Idle
           \/ /\ worker.phase = "sent"
              /\ worker' = [worker EXCEPT !.phase = "marked"]
    PROVE  IInv'
  <1> DEFINE d == worker.document
             p == worker.printer
             rows == [targets[d] EXCEPT ![p] = row]
  <1>0. /\ worker \in InHand /\ d \in Document /\ p \in Printer
        /\ targets[d] \in [Printer -> TargetRow] /\ Targets
        /\ targets[d][p].status # "none"
        /\ MaxAttempts \in Nat \ {0} /\ retries \in Nat
    BY Hand, QueueAssumption DEF IInv, TypeOK, InHand, HeldRowExists, Targets
  <1>1. targets' = [targets EXCEPT ![d] = rows] /\ jobs' = [jobs EXCEPT ![d] = Aggregate(rows)]
    BY DEF MarkRow
  <1>2. \A q \in Printer : rows[q].status = "failed" => rows[q].attempts >= MaxAttempts
    <2> TAKE q \in Printer
    <2>1. rows[q] = IF q = p THEN row ELSE targets[d][q]
      BY <1>0
    <2>2. targets[d][q].status = "failed" => targets[d][q].attempts = MaxAttempts
      BY <1>0 DEF IInv, RowsAreSane, RowIsSane
    <2>3. row.status = "failed" => row.attempts = MaxAttempts
      BY DEF RowIsSane
    <2> QED
      BY <1>0, <2>1, <2>2, <2>3
  <1>3. Aggregate(rows) \in {"pending", "succeeded", "failed"} /\ Fits(Aggregate(rows), rows)
    BY <1>2, AggregateFits
  <1>4. RowWritten(d, p, row, Aggregate(rows))
    BY <1>0, <1>1, <1>3 DEF RowWritten, operatorVars
  <1> HIDE DEF d, p, rows
  <1>5. /\ Targets' /\ jobs' \in [Document -> JobStatus]
        /\ TargetsAreInOrder' /\ RowsAreSane' /\ QueuedFirst'
        /\ \A e \in Document, q \in Printer :
              /\ targets'[e][q].born = targets[e][q].born
              /\ targets'[e][q].status = "none" <=> targets[e][q].status = "none"
    BY <1>0, <1>4, RowStep
  <1>6. \/ worker' = Idle
        \/ /\ worker' \in InHand /\ worker'.phase = "marked"
           /\ worker'.document = worker.document /\ worker'.born = worker.born
    BY <1>0, NextPhase DEF Phase
  <1>7. TypeOK'
    BY <1>5, <1>6 DEF IInv, TypeOK, Targets, InHand, operatorVars
  <1>8. HandIsTrue'
    <2>1. worker.phase = "sent" => worker.document \in paper
      BY DEF IInv, HandIsTrue
    <2>2. CASE worker' = Idle
      BY <2>2 DEF HandIsTrue, Idle
    <2>3. CASE worker' # Idle
      BY <1>6, <2>1, <2>3 DEF IInv, HandIsTrue, operatorVars
    <2> QED
      BY <2>2, <2>3
  <1>9. RebuildsAreYounger'
    <2>1. UNCHANGED <<retrying, plan, retries>> /\ retrying \subseteq Document
      BY DEF IInv, TypeOK, operatorVars
    <2> QED
      BY <1>5, <1>6, <2>1 DEF IInv, RebuildsAreYounger
  <1> QED
    BY <1>5, <1>7, <1>8, <1>9 DEF IInv

\* A target succeeds only in the hand that has sent it.
LEMMA MarkSucceededKeeps == ASSUME IInv, MarkPrintJobTargetSucceeded PROVE IInv'
  <1> DEFINE old == targets[worker.document][worker.printer]
             row == [old EXCEPT !.status = "succeeded", !.attempts = worker.attempts + 1,
                                !.waiting = FALSE]
  <1>0. /\ worker # Idle /\ worker \in InHand /\ worker.document \in paper
        /\ worker.attempts + 1 \in 0..MaxAttempts
        /\ old \in TargetRow /\ old.born <= retries
    BY Hand, QueueAssumption
    DEF IInv, TypeOK, InHand, Phase, HandIsTrue, RowsAreSane, RowIsSane,
        MarkPrintJobTargetSucceeded
  <1>1. /\ row \in TargetRow /\ row.status = "succeeded" /\ row.born = old.born
    BY <1>0 DEF TargetRow
  <1>2. RowIsSane(worker.document, row)
    BY <1>0, <1>1 DEF RowIsSane
  <1>3. MarkRow(row) /\ HeldRowExists
    BY DEF MarkPrintJobTargetSucceeded
  <1>4. /\ worker.phase = "sent" /\ worker' = [worker EXCEPT !.phase = "marked"]
        /\ UNCHANGED <<routes, admitting, confirmed, operatorVars, paper>>
    BY DEF MarkPrintJobTargetSucceeded
  <1> HIDE DEF row
  <1> QED
    BY <1>0, <1>1, <1>2, <1>3, <1>4, MarkRowKeeps

\* A failed attempt is counted, and the row waits or is failed for good.
LEMMA RecordFailureKeeps == ASSUME IInv, RecordTargetAttemptFailure PROVE IInv'
  <1> DEFINE old == targets[worker.document][worker.printer]
             attempts == worker.attempts + 1
             last == attempts >= MaxAttempts
             row == [old EXCEPT !.status = IF last THEN "failed" ELSE "pending",
                                !.attempts = attempts, !.waiting = ~last]
  <1>0. /\ worker # Idle /\ worker \in InHand
        /\ attempts \in 0..MaxAttempts /\ MaxAttempts \in Nat
        /\ old \in TargetRow /\ old.born <= retries
    BY Hand, QueueAssumption
    DEF IInv, TypeOK, InHand, Phase, RowsAreSane, RowIsSane, RecordTargetAttemptFailure
  <1>1. /\ row \in TargetRow /\ row.status \in {"failed", "pending"} /\ row.born = old.born
        /\ row.waiting = FALSE \/ row.status = "pending"
        /\ row.status = "failed" => row.attempts = MaxAttempts
        /\ row.status = "pending" => row.attempts < MaxAttempts
    <2>1. CASE last
      <3>1. row = [old EXCEPT !.status = "failed", !.attempts = attempts, !.waiting = FALSE]
        BY <2>1, Zenon
      <3>2. attempts = MaxAttempts
        BY <1>0, <2>1
      <3> HIDE DEF row, attempts
      <3> QED
        BY <1>0, <3>1, <3>2 DEF TargetRow
    <2>2. CASE ~last
      <3>1. row = [old EXCEPT !.status = "pending", !.attempts = attempts, !.waiting = TRUE]
        BY <2>2, Zenon
      <3>2. attempts < MaxAttempts
        BY <1>0, <2>2
      <3> HIDE DEF row, attempts
      <3> QED
        BY <1>0, <3>1, <3>2 DEF TargetRow
    <2> QED
      BY <2>1, <2>2
  <1>2. RowIsSane(worker.document, row)
    BY <1>0, <1>1 DEF RowIsSane
  <1>3. MarkRow(row) /\ HeldRowExists
    BY DEF RecordTargetAttemptFailure
  <1>4. /\ worker' = Idle
        /\ UNCHANGED <<routes, admitting, confirmed, operatorVars, paper>>
    BY DEF RecordTargetAttemptFailure
  <1> HIDE DEF row
  <1> QED
    BY <1>0, <1>1, <1>2, <1>3, <1>4, MarkRowKeeps

\* next_attempt_at passes.
LEMMA BackoffKeeps ==
    ASSUME IInv, NEW d \in Document, NEW p \in Printer, BackoffExpires(d, p) PROVE IInv'
  <1> DEFINE old == targets[d][p]
             row == [old EXCEPT !.waiting = FALSE]
  <1>0. /\ old \in TargetRow /\ targets[d] \in [Printer -> TargetRow] /\ RowIsSane(d, old)
        /\ Targets
    BY DEF IInv, TypeOK, RowsAreSane, Targets
  <1>1. /\ row \in TargetRow /\ row.born = old.born /\ row.required = old.required
        /\ row.status = old.status /\ row.attempts = old.attempts
    BY <1>0 DEF TargetRow
  <1>2. old.status = "pending"
    BY <1>0 DEF BackoffExpires, RowIsSane
  <1>3. UNCHANGED <<routes, jobs, admitting, confirmed, operatorVars, worker, paper>>
    BY DEF BackoffExpires
  <1>4. RowWritten(d, p, row, jobs[d])
    <2>1. RowIsSane(d, row)
      BY <1>0, <1>1, <1>2 DEF RowIsSane
    <2>2. targets' = [targets EXCEPT ![d] = [targets[d] EXCEPT ![p] = row]]
      BY DEF BackoffExpires
    <2>3. Fits(jobs[d], targets[d])
      BY FitsEach DEF IInv, TargetsAreInOrder
    <2> HIDE DEF row
    <2>4. Fits(jobs[d], [targets[d] EXCEPT ![p] = row])
      BY <1>0, <1>1, <2>3, FitsKept
    <2> QED
      BY <1>1, <1>2, <1>3, <2>1, <2>2, <2>4 DEF RowWritten, operatorVars
  <1> HIDE DEF row
  <1>5. /\ Targets' /\ jobs' \in [Document -> JobStatus]
        /\ TargetsAreInOrder' /\ RowsAreSane' /\ QueuedFirst'
        /\ targets'[d][p] = row
        /\ \A e \in Document, q \in Printer :
              /\ e # d \/ q # p => targets'[e][q] = targets[e][q]
              /\ targets'[e][q].born = targets[e][q].born
              /\ targets'[e][q].status = "none" <=> targets[e][q].status = "none"
    BY <1>4, RowStep
  <1>6. \A e \in Document, q \in Printer : targets'[e][q].status = targets[e][q].status
    BY <1>1, <1>5
  <1>7. TypeOK'
    BY <1>3, <1>5 DEF IInv, TypeOK, Targets, operatorVars
  <1>8. HandIsTrue'
    BY <1>3, <1>5, <1>6, Hand DEF IInv, HandIsTrue, Held, InHand, Phase, operatorVars
  <1>9. RebuildsAreYounger'
    <2>1. UNCHANGED <<retrying, plan, retries, worker>> /\ retrying \subseteq Document
      BY <1>3 DEF IInv, TypeOK, operatorVars
    <2> QED
      BY <1>5, <2>1 DEF IInv, RebuildsAreYounger
  <1> QED
    BY <1>5, <1>7, <1>8, <1>9 DEF IInv

\* The operator asks for another try of one target.
LEMMA RetryTargetKeeps ==
    ASSUME IInv, NEW d \in Document, NEW p \in Printer, RetryPrintJobTarget(d, p) PROVE IInv'
  <1> DEFINE old == targets[d][p]
             row == [old EXCEPT !.status = "pending", !.attempts = 0, !.waiting = FALSE]
             rows == [targets[d] EXCEPT ![p] = row]
  <1>0. /\ old \in TargetRow /\ targets[d] \in [Printer -> TargetRow] /\ RowIsSane(d, old)
        /\ Targets /\ old.status # "none"
        /\ MaxAttempts \in Nat \ {0} /\ MaxRetries \in Nat
        /\ retries \in Nat /\ retries' = retries + 1 /\ retries' \in 0..MaxRetries
    BY QueueAssumption
    DEF IInv, TypeOK, RowsAreSane, Targets, RetryPrintJobTarget, Retryable
  <1>1. /\ row \in TargetRow /\ row.born = old.born /\ row.status = "pending"
        /\ row.attempts = 0 /\ row.waiting = FALSE
    <2>1. old \in TargetRow /\ 0 \in 0..MaxAttempts
      BY <1>0
    <2> HIDE DEF old
    <2> QED
      BY <2>1 DEF TargetRow
  <1>2. UNCHANGED <<routes, admitting, confirmed, retrying, plan, changes, worker, paper>>
    BY DEF RetryPrintJobTarget
  <1>3. /\ targets' = [targets EXCEPT ![d] = rows]
        /\ jobs' = [jobs EXCEPT ![d] = Aggregate(rows)]
    <2>1. rows = [targets[d] EXCEPT ![p].status = "pending", ![p].attempts = 0,
                                    ![p].waiting = FALSE]
      BY <1>0
    <2> QED
      BY <2>1 DEF RetryPrintJobTarget
  <1>4. RowWritten(d, p, row, Aggregate(rows))
    <2>1. RowIsSane(d, row)
      BY <1>0, <1>1 DEF RowIsSane
    <2> HIDE DEF row
    <2>2. \A q \in Printer : rows[q].status = "failed" => rows[q].attempts >= MaxAttempts
      BY <1>0, <1>1 DEF IInv, RowsAreSane, RowIsSane
    <2>3. Aggregate(rows) \in {"pending", "succeeded", "failed"} /\ Fits(Aggregate(rows), rows)
      BY <2>2, AggregateFits
    <2> QED
      BY <1>0, <1>1, <1>2, <1>3, <2>1, <2>3 DEF RowWritten
  <1> HIDE DEF row, rows
  <1>5. /\ Targets' /\ jobs' \in [Document -> JobStatus]
        /\ TargetsAreInOrder' /\ RowsAreSane' /\ QueuedFirst'
        /\ targets'[d][p] = row
        /\ \A e \in Document, q \in Printer :
              /\ e # d \/ q # p => targets'[e][q] = targets[e][q]
              /\ targets'[e][q].born = targets[e][q].born
              /\ targets'[e][q].status = "none" <=> targets[e][q].status = "none"
    BY <1>4, RowStep
  <1>6. TypeOK'
    BY <1>0, <1>2, <1>5 DEF IInv, TypeOK, Targets
  <1>7. HandIsTrue'
    <2>1. worker # Idle => worker.document \in Document /\ worker.printer \in Printer
                              /\ worker.born \in Nat
      BY Hand DEF IInv, InHand
    <2>2. \A e \in Document, q \in Printer :
             targets'[e][q].status \in {targets[e][q].status, "pending"}
      BY <1>1, <1>5
    <2> QED
      BY <1>0, <1>2, <1>5, <2>1, <2>2, Hand DEF IInv, HandIsTrue, Held, Phase
  <1>8. RebuildsAreYounger'
    <2>1. retrying \subseteq Document /\ (worker # Idle => worker.born \in Nat)
      BY Hand DEF IInv, TypeOK, InHand
    <2>2. \A e \in Document, q \in Printer : targets[e][q].born \in Nat
      BY <1>0 DEF Targets, TargetRow
    <2> QED
      BY <1>0, <1>2, <1>5, <2>1, <2>2 DEF IInv, RebuildsAreYounger
  <1> QED
    BY <1>5, <1>6, <1>7, <1>8 DEF IInv

\* The rows of a document are replaced, under the worker's hands if need be: what it
\* holds is older than the new rows.
LEMMA ResetKeeps == ASSUME IInv, ResetPrintJob PROVE IInv'
  <1> DEFINE d == plan.document
             rows == TargetsFor(plan.routes)
  <1>0. /\ d \in Document /\ d \in retrying /\ plan.routes \in [Printer -> Route]
        /\ retries \in 0..MaxRetries /\ MaxRetries \in Nat /\ MaxAttempts \in Nat \ {0}
        /\ Targets
    BY PlanKept, QueueAssumption DEF ResetPrintJob, PlanRow, IInv, TypeOK, Targets
  <1>1. /\ targets' = [targets EXCEPT ![d] = rows] /\ jobs' = [jobs EXCEPT ![d] = "pending"]
        /\ retrying' = retrying \ {d} /\ plan' = NoPlan
        /\ UNCHANGED <<routes, admitting, confirmed, retries, changes, worker, paper>>
    BY DEF ResetPrintJob
  <1>2. /\ rows \in [Printer -> TargetRow]
        /\ \A p \in Printer : \/ rows[p] = NoTarget
                              \/ /\ rows[p].status = "pending" /\ rows[p].attempts = 0
                                 /\ rows[p].waiting = FALSE /\ rows[p].born = retries
        /\ Fits("pending", rows)
    BY <1>0, RowsOfRoutes
  <1>3. /\ NoTarget.status = "none" /\ ~NoTarget.required /\ NoTarget.waiting = FALSE
        /\ NoTarget.born = 0
    BY DEF NoTarget
  <1> HIDE DEF d, rows
  <1>4. /\ Targets' /\ targets'[d] = rows
        /\ \A e \in Document : e # d => targets'[e] = targets[e]
    BY <1>0, <1>1, <1>2, OneDocument
  <1>5. /\ jobs' \in [Document -> JobStatus] /\ jobs'[d] = "pending"
        /\ \A e \in Document : e # d => jobs'[e] = jobs[e]
    BY <1>0, <1>1 DEF IInv, TypeOK, JobStatus
  <1>6. TypeOK'
    BY <1>1, <1>4, <1>5 DEF IInv, TypeOK, Targets
  <1>7. TargetsAreInOrder'
    <2>1. \A e \in Document : Fits(jobs[e], targets[e])
      BY FitsEach DEF IInv, TargetsAreInOrder
    <2>2. \A e \in Document : Fits(jobs'[e], targets'[e])
      BY <1>2, <1>4, <1>5, <2>1
    <2>3. JobFitsTargets'
      BY <2>2 DEF JobFitsTargets, Fits, Complete, HasTargets, Required
    <2>4. \A p \in Printer : rows[p].status # "processing"
      BY <1>2, <1>3
    <2>5. OneTargetPerPrinter'
      BY <1>4, <2>4 DEF IInv, TargetsAreInOrder, OneTargetPerPrinter
    <2> QED
      BY <2>3, <2>5 DEF TargetsAreInOrder
  <1>8. RowsAreSane'
    <2> SUFFICES ASSUME NEW e \in Document, NEW p \in Printer
                 PROVE  RowIsSane(e, targets[e][p])'
      BY DEF RowsAreSane
    <2>1. CASE e = d
      BY <1>0, <1>1, <1>2, <1>3, <1>4, <2>1 DEF RowIsSane
    <2>2. CASE e # d
      BY <1>1, <1>4, <2>2 DEF IInv, RowsAreSane, RowIsSane
    <2> QED
      BY <2>1, <2>2
  <1>9. QueuedFirst'
    BY <1>0, <1>5 DEF QueuedFirst
  <1>10. HandIsTrue'
    <2> SUFFICES ASSUME worker.phase \in {"sending", "sent", "refused"},
                        Held(targets[worker.document][worker.printer])'
                 PROVE  targets'[worker.document][worker.printer].status
                           \in {"pending", "processing"}
      BY <1>1 DEF IInv, HandIsTrue, Held
    <2>1. /\ worker # Idle /\ worker.document \in Document /\ worker.printer \in Printer
          /\ worker.born \in Nat
      BY Hand DEF IInv, InHand, Phase
    <2>2. CASE worker.document = d
      <3>1. worker.born < retries
        BY <1>0, <2>1, <2>2 DEF IInv, RebuildsAreYounger
      <3> QED
        BY <1>0, <1>1, <1>2, <1>3, <1>4, <2>1, <2>2, <3>1 DEF Held
    <2>3. CASE worker.document # d
      BY <1>1, <1>4, <2>1, <2>3 DEF IInv, HandIsTrue, Held
    <2> QED
      BY <2>2, <2>3
  <1>11. RebuildsAreYounger'
    BY <1>0, <1>1, <1>4 DEF IInv, TypeOK, RebuildsAreYounger
  <1> QED
    BY <1>6, <1>7, <1>8, <1>9, <1>10, <1>11 DEF IInv

-----------------------------------------------------------------------------
(* The theorems.                                                           *)

\* Every step of the queue keeps the invariant.
LEMMA EveryStepKeeps == ASSUME IInv, [Next]_vars PROVE IInv'
  <1>1. CASE UNCHANGED vars
    <2>1. /\ UNCHANGED <<routes, jobs, targets, admitting, confirmed>>
          /\ UNCHANGED <<retrying, plan, retries, changes, worker, paper>>
      BY <1>1 DEF vars, databaseVars, operatorVars
    <2> QED
      BY <2>1, QuietStep, PlanKept DEF IInv, TypeOK
  <1>2. CASE Next
    <2>1. CASE EnqueueForClosedCheck
      BY <2>1, EnqueueKeeps
    <2>2. CASE WorkerStep
      BY <2>2, ClaimKeeps, SendKeeps, ExpireKeeps, MarkSucceededKeeps, RecordFailureKeeps,
         MarkVanishedKeeps, ReadJobKeeps, ConfirmKeeps DEF WorkerStep
    <2>3. CASE OperatorStep
      BY <2>3, RetryTargetKeeps, ChangeRouteKeeps, RequestRetryKeeps, ResetKeeps,
         ReadRoutesKeeps DEF OperatorStep
    <2>4. CASE VoidTickets
      BY <2>4, VoidTicketsKeeps
    <2>5. CASE \E d \in Document, p \in Printer : BackoffExpires(d, p)
      BY <2>5, BackoffKeeps
    <2>6. CASE Crash
      BY <2>6, CrashKeeps
    <2> QED
      BY <1>2, <2>1, <2>2, <2>3, <2>4, <2>5, <2>6 DEF Next, RunningStep
  <1> QED
    BY <1>1, <1>2

\* The invariant holds in every state that is reached.
LEMMA Invariance == Spec => []IInv
  BY StartsRight, EveryStepKeeps, PTL DEF Spec

\* The tables of the queue always fit their schema, and no target is tried more often than
\* max_attempts, though the operator's retries and the worker's marks race.
THEOREM TypeCorrect == Spec => []TypeOK
  BY Invariance, PTL DEF IInv

\* Through retries, rebuilds, late marks and restarts a job says what its targets say, and a
\* printer has one target in processing at a time.
THEOREM TargetsStayInOrder == Spec => []TargetsAreInOrder
  BY Invariance, PTL DEF IInv

-----------------------------------------------------------------------------
(* What a step may do to the status of a row.                              *)

\* The worker's own send settles a row.
SettledBySend(d, p) ==
    targets[d][p].status \in {"pending", "processing"}
       /\ targets'[d][p].status \in {"succeeded", "failed"} =>
             /\ worker.document = d /\ worker.printer = p
             /\ worker.born = targets[d][p].born
\* A row that is printed stays so until it is replaced.
StaysPrinted(d, p) ==
    targets[d][p].status = "succeeded" =>
       targets'[d][p].status = "succeeded" \/ targets'[d][p].born # targets[d][p].born
          \/ targets'[d][p].status = "none"
RowsMoveWell == \A d \in Document, p \in Printer : SettledBySend(d, p) /\ StaysPrinted(d, p)

\* Rows move well when none of them changes.
LEMMA RowsRest == ASSUME UNCHANGED targets PROVE RowsMoveWell
  BY DEF RowsMoveWell, SettledBySend, StaysPrinted

\* A row that is changed in place was not printed, and is not settled.
RowKeptOpen(d, p, row) ==
    /\ row.status \in {"pending", "processing"} /\ targets[d][p].status # "succeeded"
    /\ targets' = [targets EXCEPT ![d] = [targets[d] EXCEPT ![p] = row]]

\* Rows move well when only one of them changes, and that one stays open.
LEMMA RowMoves ==
    ASSUME Targets, NEW d \in Document, NEW p \in Printer, NEW row, RowKeptOpen(d, p, row)
    PROVE  RowsMoveWell
  <1> SUFFICES ASSUME NEW e \in Document, NEW q \in Printer
               PROVE  SettledBySend(e, q) /\ StaysPrinted(e, q)
    BY DEF RowsMoveWell
  <1>1. targets'[e][q] = IF e = d /\ q = p THEN row ELSE targets[e][q]
    BY DEF Targets, RowKeptOpen
  <1> QED
    BY <1>1 DEF SettledBySend, StaysPrinted, RowKeptOpen

\* The mark of a send falls on its own row, which was not printed.
LEMMA MarkMoves ==
    ASSUME IInv, NEW row, worker.phase \in {"sent", "refused"}, HeldRowExists, MarkRow(row)
    PROVE  RowsMoveWell
  <1>1. /\ worker.document \in Document /\ worker.printer \in Printer /\ Targets
    BY Hand DEF IInv, TypeOK, InHand, Phase, Targets
  <1>2. /\ targets[worker.document][worker.printer].status # "succeeded"
        /\ worker.born = targets[worker.document][worker.printer].born
    BY DEF IInv, HandIsTrue, Held, HeldRowExists
  <1>3. \A e \in Document, q \in Printer :
           targets'[e][q] = IF e = worker.document /\ q = worker.printer THEN row
                            ELSE targets[e][q]
    BY <1>1 DEF MarkRow, Targets
  <1> QED
    BY <1>2, <1>3 DEF RowsMoveWell, SettledBySend, StaysPrinted

\* Every step moves the rows as the paper trail allows.
LEMMA RowsMove == ASSUME IInv, Next PROVE RowsMoveWell
  <1>0. Targets /\ retries \in Nat
    BY DEF IInv, TypeOK, Targets
  <1>1. CASE EnqueueForClosedCheck
    <2>1. \A d \in Document, p \in Printer : targets[d][p].status = "none"
      BY <1>1 DEF IInv, QueuedFirst, EnqueueForClosedCheck
    <2> QED
      BY <2>1 DEF RowsMoveWell, SettledBySend, StaysPrinted
  <1>2. ASSUME NEW d \in Document, NEW p \in Printer, Claim(d, p)
        PROVE  RowsMoveWell
    <2> DEFINE row == [targets[d][p] EXCEPT !.status = "processing"]
    <2>1. targets[d][p] \in TargetRow /\ targets[d][p].status = "pending"
      BY <1>0, <1>2 DEF Claim, Due, Targets
    <2>2. row.status = "processing"
      BY <2>1 DEF TargetRow
    <2>3. targets' = [targets EXCEPT ![d] = [targets[d] EXCEPT ![p] = row]]
      BY <1>2 DEF Claim
    <2> HIDE DEF row
    <2>4. RowKeptOpen(d, p, row)
      BY <2>1, <2>2, <2>3 DEF RowKeptOpen
    <2> QED
      BY <1>0, <2>4, RowMoves
  <1>3. CASE MarkPrintJobTargetSucceeded
    BY <1>3, MarkMoves DEF MarkPrintJobTargetSucceeded
  <1>4. CASE RecordTargetAttemptFailure
    BY <1>4, MarkMoves DEF RecordTargetAttemptFailure
  <1>5. ASSUME NEW d \in Document, NEW p \in Printer, BackoffExpires(d, p)
        PROVE  RowsMoveWell
    <2> DEFINE row == [targets[d][p] EXCEPT !.waiting = FALSE]
    <2>1. targets[d][p] \in TargetRow /\ targets[d][p].status = "pending"
      BY <1>0, <1>5 DEF IInv, RowsAreSane, RowIsSane, BackoffExpires, Targets
    <2>2. row.status = "pending"
      BY <2>1 DEF TargetRow
    <2>3. targets' = [targets EXCEPT ![d] = [targets[d] EXCEPT ![p] = row]]
      BY <1>5 DEF BackoffExpires
    <2> HIDE DEF row
    <2>4. RowKeptOpen(d, p, row)
      BY <2>1, <2>2, <2>3 DEF RowKeptOpen
    <2> QED
      BY <1>0, <2>4, RowMoves
  <1>6. ASSUME NEW d \in Document, NEW p \in Printer, RetryPrintJobTarget(d, p)
        PROVE  RowsMoveWell
    <2> DEFINE row == [targets[d][p] EXCEPT !.status = "pending", !.attempts = 0,
                                            !.waiting = FALSE]
    <2>1. targets[d][p] \in TargetRow /\ targets[d][p].status # "succeeded"
      BY <1>0, <1>6 DEF RetryPrintJobTarget, Retryable, Targets
    <2>2. row.status = "pending"
      BY <2>1 DEF TargetRow
    <2>3. targets' = [targets EXCEPT ![d] = [targets[d] EXCEPT ![p] = row]]
      <3>1. targets[d] \in [Printer -> TargetRow]
        BY <1>0 DEF Targets
      <3>2. [targets[d] EXCEPT ![p].status = "pending", ![p].attempts = 0,
                               ![p].waiting = FALSE] = [targets[d] EXCEPT ![p] = row]
        BY <3>1
      <3> QED
        BY <1>6, <3>2 DEF RetryPrintJobTarget
    <2> HIDE DEF row
    <2>4. RowKeptOpen(d, p, row)
      BY <2>1, <2>2, <2>3 DEF RowKeptOpen
    <2> QED
      BY <1>0, <2>4, RowMoves
  <1>7. CASE ResetPrintJob
    <2> SUFFICES ASSUME NEW e \in Document, NEW p \in Printer
                 PROVE  SettledBySend(e, p) /\ StaysPrinted(e, p)
      BY DEF RowsMoveWell
    <2>1. /\ plan.document \in Document /\ plan.document \in retrying
          /\ plan.routes \in [Printer -> Route]
          /\ targets' = [targets EXCEPT ![plan.document] = TargetsFor(plan.routes)]
      BY <1>7, PlanKept DEF ResetPrintJob, PlanRow, IInv, TypeOK
    <2>2. CASE e # plan.document
      <3>1. targets'[e] = targets[e]
        BY <1>0, <2>1, <2>2 DEF Targets
      <3> QED
        BY <3>1 DEF SettledBySend, StaysPrinted
    <2>3. CASE e = plan.document
      <3>1. targets'[e][p] = TargetsFor(plan.routes)[p]
        BY <1>0, <2>1, <2>3 DEF Targets
      <3>2. \/ targets'[e][p] = NoTarget
            \/ targets'[e][p].status = "pending" /\ targets'[e][p].born = retries
        BY <2>1, <3>1, RowsOfRoutes DEF IInv, TypeOK
      <3>3. NoTarget.status = "none"
        BY DEF NoTarget
      <3>4. targets[e][p].status = "succeeded" => targets[e][p].born < retries
        BY <2>1, <2>3 DEF IInv, RebuildsAreYounger
      <3>5. targets[e][p].born \in Nat
        BY <1>0 DEF Targets, TargetRow
      <3> QED
        BY <1>0, <3>2, <3>3, <3>4, <3>5 DEF SettledBySend, StaysPrinted
    <2> QED
      BY <2>2, <2>3
  <1>8. CASE \/ Send \/ Expire \/ MarkVanished \/ ReadJob \/ MarkCheckPrintConfirmedIfReady
             \/ RequestRetry \/ VoidTickets \/ Crash
             \/ \E d \in Document : ReadRoutes(d)
             \/ \E d \in Document, setup \in Setup : ChangeRoute(d, setup)
    <2>1. UNCHANGED targets
      BY <1>8 DEF Send, Expire, MarkVanished, ReadJob, MarkCheckPrintConfirmedIfReady,
                  RequestRetry, VoidTickets, Crash, ReadRoutes, ChangeRoute, databaseVars
    <2> QED
      BY <2>1, RowsRest
  <1> QED
    BY <1>1, <1>2, <1>3, <1>4, <1>5, <1>6, <1>7, <1>8
    DEF Next, RunningStep, WorkerStep, OperatorStep

\* Whatever the operator replaces while a send is under way, only a row's own send settles
\* it: the marks of the worker find their row by its id.
THEOREM SendsSettleTheirOwn == Spec => SettledByItsOwnSend
  <1>1. IInv /\ [Next]_vars => [\A d \in Document, p \in Printer : SettledBySend(d, p)]_vars
    BY RowsMove DEF RowsMoveWell
  <1>2. Spec => [][\A d \in Document, p \in Printer : SettledBySend(d, p)]_vars
    BY <1>1, Invariance, PTL DEF Spec
  <1> QED
    BY <1>2 DEF SettledByItsOwnSend, SettledBySend

\* A printed target is neither sent again nor turned into a failure, until its job is
\* rebuilt.
THEOREM PrintedTargetsStay == Spec => PrintedStaysPrinted
  <1>1. IInv /\ [Next]_vars => [\A d \in Document, p \in Printer : StaysPrinted(d, p)]_vars
    BY RowsMove DEF RowsMoveWell
  <1>2. Spec => [][\A d \in Document, p \in Printer : StaysPrinted(d, p)]_vars
    BY <1>1, Invariance, PTL DEF Spec
  <1> QED
    BY <1>2 DEF PrintedStaysPrinted, StaysPrinted

-----------------------------------------------------------------------------
(* The queue implements PaperTrail.                                        *)

\* A job that has succeeded has a document on paper.
LEMMA SucceededIsOnPaper ==
    ASSUME IInv, NEW d \in Document, jobs[d] = "succeeded" PROVE d \in paper
  <1>1. Complete(targets[d])
    BY FitsEach DEF IInv, TargetsAreInOrder, Fits
  <1>2. PICK p \in Printer : targets[d][p].status = "succeeded"
    BY <1>1 DEF Complete, Required
  <1> QED
    BY <1>2 DEF IInv, RowsAreSane, RowIsSane

\* Every step of the queue is a step of the paper trail, or none of it.
LEMMA StepsAreTrailSteps == ASSUME IInv, Next PROVE [Trail!Next]_(Trail!trailVars)
  <1> USE DEF Trail!trailVars
  <1>1. CASE Send \/ Expire
    <2>1. worker # Idle /\ worker.document \in Document
      BY <1>1, Hand DEF IInv, Send, Expire, InHand, Phase
    <2>2. /\ paper' = paper \/ paper' = paper \cup {worker.document}
          /\ UNCHANGED <<admitting, confirmed>>
      BY <1>1 DEF Send, Expire, databaseVars
    <2> QED
      BY <2>1, <2>2 DEF Trail!Next, Trail!PutOnPaper, Document
  <1>2. CASE MarkCheckPrintConfirmedIfReady
    <2>1. UNCHANGED <<admitting, paper>> /\ confirmed' = (confirmed \/ Ready)
      BY <1>2 DEF MarkCheckPrintConfirmedIfReady
    <2>2. CASE Ready
      <3>1. "check" \in paper /\ admitting \subseteq paper
        BY <2>2, SucceededIsOnPaper DEF Ready, Document, IInv, TypeOK
      <3>2. confirmed' = TRUE
        BY <2>1, <2>2
      <3> QED
        BY <2>1, <3>1, <3>2 DEF Trail!Next, Trail!Confirm
    <2>3. CASE ~Ready
      <3>1. confirmed' = confirmed
        BY <2>1, <2>3 DEF IInv, TypeOK
      <3> QED
        BY <2>1, <3>1
    <2> QED
      BY <2>2, <2>3
  <1>3. CASE VoidTickets
    BY <1>3 DEF VoidTickets, Trail!Next, Trail!Void
  <1>4. CASE EnqueueForClosedCheck \/ MarkPrintJobTargetSucceeded \/ RecordTargetAttemptFailure
    BY <1>4 DEF EnqueueForClosedCheck, MarkPrintJobTargetSucceeded, RecordTargetAttemptFailure
  <1>5. CASE MarkVanished \/ ReadJob \/ Crash \/ RequestRetry \/ ResetPrintJob
    BY <1>5 DEF MarkVanished, ReadJob, Crash, RequestRetry, ResetPrintJob, databaseVars
  <1>6. ASSUME NEW d \in Document, NEW p \in Printer,
               Claim(d, p) \/ BackoffExpires(d, p) \/ RetryPrintJobTarget(d, p)
        PROVE  UNCHANGED Trail!trailVars
    BY <1>6 DEF Claim, BackoffExpires, RetryPrintJobTarget
  <1>7. ASSUME NEW d \in Document, ReadRoutes(d)
        PROVE  UNCHANGED Trail!trailVars
    BY <1>7 DEF ReadRoutes, databaseVars
  <1>8. ASSUME NEW d \in Document, NEW setup \in Setup, ChangeRoute(d, setup)
        PROVE  UNCHANGED Trail!trailVars
    BY <1>8 DEF ChangeRoute
  <1> QED
    BY <1>1, <1>2, <1>3, <1>4, <1>5, <1>6, <1>7, <1>8
    DEF Next, RunningStep, WorkerStep, OperatorStep

\* Whatever the printers, the operator and restarts do, a check counts as printed only once
\* it came out of a printer and so did every ticket that still admits someone.
THEOREM QueueImplementsTrail == Spec => ImplementsPaperTrail
  <1>1. Init => Trail!Init
    BY DEF Init, Trail!Init
  <1>2. IInv /\ [Next]_vars => [Trail!Next]_(Trail!trailVars)
    BY StepsAreTrailSteps DEF vars, databaseVars, Trail!trailVars
  <1> QED
    BY <1>1, <1>2, Invariance, PTL DEF Spec, ImplementsPaperTrail, Trail!Spec
=============================================================================
