------------------------ MODULE EventDeliveryProofs ------------------------
(***************************************************************************)
(* Safety of EventDelivery for any number of rows, batches, requests,      *)
(* attempts, losses and retries, and that it implements EventJournal.      *)
(***************************************************************************)
EXTENDS EventDelivery, SequenceTheorems, TLAPS

-----------------------------------------------------------------------------
(* The table pos_sync_outbox: what its statements do to the rows.             *)

Outbox == outbox \in Seq(OutboxRow) /\ Len(outbox) <= MaxRows

\* The rows written so far are the positions of the outbox.
LEMMA WrittenRows == ASSUME Outbox PROVE
    /\ Len(outbox) \in Nat
    /\ \A r \in Written : r \in Row /\ r \in Nat /\ outbox[r] \in OutboxRow
    /\ DOMAIN outbox = Written
  BY DeliveryAssumption, LenProperties, ElementOfSeq DEF Outbox, Written, Row

\* A statement that maps rows to rows keeps their number.
LEMMA MappedRows ==
    ASSUME Outbox, NEW f \in [Written -> OutboxRow], outbox' = f
    PROVE  Outbox' /\ Written' = Written
  <1> DEFINE n == Len(outbox)
  <1>1. n \in Nat
    BY WrittenRows
  <1>2. f \in [1..n -> OutboxRow]
    BY DEF Written
  <1>3. f \in Seq(OutboxRow)
    BY <1>1, <1>2, SeqDef
  <1>4. DOMAIN f = 1..n /\ Len(f) \in Nat /\ DOMAIN f = 1..Len(f)
    BY <1>2, <1>3, LenProperties
  <1>5. Len(f) = n
    BY <1>1, <1>4
  <1> QED
    BY <1>3, <1>5 DEF Outbox, Written

\* SetRow writes one row and leaves the others.
LEMMA SetRowEffect ==
    ASSUME Outbox, NEW r \in Written, NEW row \in OutboxRow, SetRow(r, row)
    PROVE  /\ Outbox' /\ Written' = Written
           /\ outbox'[r] = row
           /\ \A q \in Written : q # r => outbox'[q] = outbox[q]
  <1>1. outbox' = [outbox EXCEPT ![r] = row] /\ r \in 1..Len(outbox) /\ outbox \in Seq(OutboxRow)
    BY DEF SetRow, Outbox, Written
  <1> QED
    BY <1>1, ExceptSeq, WrittenRows DEF Outbox, Written

\* Which rows are marked how: a row is delivered, or set aside for later.
LEMMA Delivering ==
    ASSUME Outbox, NEW r \in Written, MarkSent(r)
    PROVE  /\ Outbox' /\ Written' = Written
           /\ outbox'[r].status = "sent"
           /\ \A q \in Written : q # r => outbox'[q] = outbox[q]
           /\ stale' = stale \ {r}
  <1> DEFINE row == [outbox[r] EXCEPT !.status = "sent", !.backoff = FALSE]
  <1>1. row \in OutboxRow /\ row.status = "sent"
    BY WrittenRows DEF OutboxRow
  <1>2. SetRow(r, row)
    BY DEF MarkSent
  <1> HIDE DEF row
  <1> QED
    BY <1>1, <1>2, SetRowEffect DEF SetRow

\* A row that is suspended or retried later does not count as delivered.
LEMMA SettingAside ==
    ASSUME Outbox, NEW r \in Written, Suspend(r) \/ MarkRetryableFailure(r),
           outbox[r].attempts <= MaxAttempts \/ ~MarkRetryableFailure(r)
    PROVE  /\ Outbox' /\ Written' = Written
           /\ outbox'[r].status \in {"pending", "suspended"}
           /\ outbox'[r].status = "pending" => outbox'[r].attempts <= MaxAttempts
           /\ \A q \in Written : q # r => outbox'[q] = outbox[q]
           /\ stale' = stale \ {r}
  <1>0. outbox[r] \in OutboxRow /\ MaxAttempts \in Nat
    BY WrittenRows, DeliveryAssumption
  <1>1. CASE Suspend(r)
    <2> DEFINE row == [outbox[r] EXCEPT !.status = "suspended", !.backoff = FALSE]
    <2>1. row \in OutboxRow /\ row.status = "suspended"
      BY <1>0 DEF OutboxRow
    <2>2. SetRow(r, row)
      BY <1>1 DEF Suspend
    <2> HIDE DEF row
    <2> QED
      BY <2>1, <2>2, SetRowEffect DEF SetRow
  <1>2. CASE MarkRetryableFailure(r)
    <2> DEFINE failed == [outbox[r] EXCEPT !.attempts = @ + 1]
               set(status, backoff) == [failed EXCEPT !.status = status, !.backoff = backoff]
    <2>1. /\ outbox[r].attempts + 1 \in 0..(MaxAttempts + 1)
          /\ outbox[r].attempts + 1 > MaxAttempts \/ outbox[r].attempts + 1 <= MaxAttempts
      BY <1>0, <1>2 DEF OutboxRow
    <2>2. failed \in OutboxRow /\ failed.attempts = outbox[r].attempts + 1
      BY <1>0, <2>1 DEF OutboxRow
    <2> HIDE DEF failed
    <2>3. /\ set("suspended", FALSE) \in OutboxRow /\ set("suspended", FALSE).status = "suspended"
          /\ set("pending", TRUE) \in OutboxRow /\ set("pending", TRUE).status = "pending"
          /\ set("pending", TRUE).attempts = failed.attempts
      BY <2>2 DEF OutboxRow
    <2>4. \/ failed.attempts > MaxAttempts /\ SetRow(r, set("suspended", FALSE))
          \/ failed.attempts <= MaxAttempts /\ SetRow(r, set("pending", TRUE))
      BY <1>2, <2>1, <2>2 DEF MarkRetryableFailure, failed
    <2> HIDE DEF set
    <2>5. CASE failed.attempts > MaxAttempts /\ SetRow(r, set("suspended", FALSE))
      BY <2>3, <2>5, SetRowEffect DEF SetRow
    <2>6. CASE failed.attempts <= MaxAttempts /\ SetRow(r, set("pending", TRUE))
      BY <2>3, <2>6, SetRowEffect DEF SetRow
    <2> QED
      BY <2>4, <2>5, <2>6
  <1> QED
    BY <1>1, <1>2

\* A row is marked sent, suspended or pending, and loses its lock.
LEMMA Marks ==
    ASSUME Outbox, NEW r \in Written, MarkSent(r) \/ Suspend(r) \/ MarkRetryableFailure(r),
           outbox[r].attempts <= MaxAttempts \/ ~MarkRetryableFailure(r)
    PROVE  /\ Outbox' /\ Written' = Written
           /\ outbox'[r].status \in {"pending", "sent", "suspended"}
           /\ outbox'[r].status = "pending" => outbox'[r].attempts <= MaxAttempts
           /\ \A q \in Written : q # r => outbox'[q] = outbox[q]
           /\ stale' = stale \ {r}
  BY Delivering, SettingAside

\* Unlocking rows changes nothing but their status.
LEMMA Unlocking ==
    ASSUME Outbox, NEW R, outbox' = Unlock(R)
    PROVE  /\ Outbox' /\ Written' = Written
           /\ \A r \in Written : outbox'[r] = IF r \in R THEN [outbox[r] EXCEPT !.status = "pending"]
                                                         ELSE outbox[r]
  <1>1. \A r \in Written : [outbox[r] EXCEPT !.status = "pending"] \in OutboxRow
    BY WrittenRows DEF OutboxRow
  <1>2. Unlock(R) \in [Written -> OutboxRow]
    BY <1>1, WrittenRows DEF Unlock
  <1> QED
    BY <1>2, MappedRows, Zenon DEF Unlock

\* Claimed rows are locked; the other rows stay as they are.
LEMMA Claiming ==
    ASSUME Outbox, Claim
    PROVE  /\ Outbox' /\ Written' = Written
           /\ \A r \in Written : outbox'[r] = IF r \in ClaimBatch
                                              THEN [outbox[r] EXCEPT !.status = "processing"]
                                              ELSE outbox[r]
  <1> DEFINE f == [r \in Written |-> IF r \in ClaimBatch
                                     THEN [outbox[r] EXCEPT !.status = "processing"]
                                     ELSE outbox[r]]
  <1>1. \A r \in Written : [outbox[r] EXCEPT !.status = "processing"] \in OutboxRow
    BY WrittenRows DEF OutboxRow
  <1>2. f \in [Written -> OutboxRow]
    BY <1>1, WrittenRows
  <1>3. outbox' = f
    BY DEF Claim
  <1> QED
    BY <1>2, <1>3, MappedRows, Zenon

\* A manual retry touches suspended rows only.
LEMMA Retrying ==
    ASSUME Outbox, RetryFailedOutbox
    PROVE  /\ Outbox' /\ Written' = Written
           /\ \A r \in Written :
                 IF outbox[r].status = "suspended"
                 THEN outbox'[r].status = "pending" /\ outbox'[r].attempts = 0
                 ELSE outbox'[r] = outbox[r]
  <1> DEFINE fresh(r) == [outbox[r] EXCEPT !.status = "pending", !.attempts = 0, !.backoff = FALSE]
             f == [r \in Written |-> IF outbox[r].status = "suspended" THEN fresh(r) ELSE outbox[r]]
  <1>1. ASSUME NEW r \in Written
        PROVE  fresh(r) \in OutboxRow /\ fresh(r).status = "pending" /\ fresh(r).attempts = 0
    <2>1. outbox[r] \in OutboxRow /\ 0 \in 0..(MaxAttempts + 1)
      BY WrittenRows, DeliveryAssumption
    <2> QED
      BY <2>1 DEF OutboxRow
  <1>2. f \in [Written -> OutboxRow]
    BY <1>1, WrittenRows
  <1>3. \A r \in Written : outbox[r].status \in {"suspended"} <=> outbox[r].status = "suspended"
    OBVIOUS
  <1>4. outbox' = f
    BY <1>3, Zenon DEF RetryFailedOutbox, Retried
  <1> HIDE DEF fresh
  <1> QED
    BY <1>1, <1>2, <1>4, MappedRows

\* A command appends one pending row.
LEMMA Committing ==
    ASSUME Outbox, NEW kind \in Kind, Commit(kind)
    PROVE  /\ Outbox' /\ Written' = Written \union {Len(outbox) + 1}
           /\ Len(outbox) + 1 \in Row \ Written
           /\ outbox'[Len(outbox) + 1].status = "pending" /\ outbox'[Len(outbox) + 1].attempts = 0
           /\ \A r \in Written : outbox'[r] = outbox[r]
  <1> DEFINE row == [kind |-> kind, status |-> "pending", attempts |-> 0, backoff |-> FALSE]
  <1>1. row \in OutboxRow
    BY DeliveryAssumption DEF OutboxRow
  <1>2. outbox \in Seq(OutboxRow) /\ outbox' = Append(outbox, row) /\ Len(outbox) < MaxRows
    BY DEF Outbox, Commit
  <1> HIDE DEF row
  <1>3. Len(outbox) \in Nat
    BY WrittenRows
  <1>4. /\ outbox' \in Seq(OutboxRow) /\ Len(outbox') = Len(outbox) + 1
        /\ \A i \in 1..Len(outbox) : outbox'[i] = outbox[i]
        /\ outbox'[Len(outbox) + 1] = row
    BY <1>1, <1>2, AppendProperties
  <1>5. row.status = "pending" /\ row.attempts = 0
    BY DEF row
  <1> QED
    BY <1>2, <1>3, <1>4, <1>5, DeliveryAssumption DEF Outbox, Written, Row

\* The end of a backoff changes no status.
LEMMA Expiring ==
    ASSUME Outbox, NEW r \in Row, BackoffExpires(r)
    PROVE  /\ Outbox' /\ Written' = Written
           /\ \A q \in Written : /\ outbox'[q].status = outbox[q].status
                                 /\ outbox'[q].attempts = outbox[q].attempts
  <1> DEFINE row == [outbox[r] EXCEPT !.backoff = FALSE]
  <1>1. r \in Written /\ outbox' = [outbox EXCEPT ![r] = row]
    BY DEF BackoffExpires
  <1>2. row \in OutboxRow /\ row.status = outbox[r].status /\ row.attempts = outbox[r].attempts
    BY <1>1, WrittenRows DEF OutboxRow
  <1> HIDE DEF row
  <1>3. r \in 1..Len(outbox) /\ outbox \in Seq(OutboxRow)
    BY <1>1 DEF Outbox, Written
  <1>4. /\ outbox' \in Seq(OutboxRow) /\ Len(outbox') = Len(outbox)
        /\ \A q \in 1..Len(outbox) : outbox'[q] = IF q = r THEN row ELSE outbox[q]
    BY <1>1, <1>2, <1>3, ExceptSeq
  <1> QED
    BY <1>2, <1>4 DEF Outbox, Written

-----------------------------------------------------------------------------
(* The inductive invariant.                                                   *)

\* A row has attempts left as long as the worker may take it.
AttemptsLeft ==
    \A r \in Written : outbox[r].status \in {"pending", "processing"} => outbox[r].attempts <= MaxAttempts

\* Which rows the worker has in hand in which phase.
PhaseFits ==
    /\ worker.phase \in {"idle", "claiming"} => Held = {}
    /\ worker.phase = "waiting" => worker.todo = {}
    /\ worker.phase \in {"acking", "failing"} => worker.batch = {}
    /\ worker.todo \intersect worker.batch = {}
    /\ stale \intersect Held = {}

\* Nobody says accepted, or is about to say it, of an event without a receipt.
VerdictsAreTrue ==
    /\ \A r \in Row : worker.acks[r] = "accepted" => r \in receipts
    /\ \A x \in Exchange, r \in Row :
          /\ exchanges[x].acks[r] = "accepted" => r \in receipts
          /\ exchanges[x].receipt = "found" /\ Oldest(r, exchanges[x].todo) => r \in receipts

IInv ==
    /\ TypeOK /\ AttemptsLeft /\ PhaseFits /\ VerdictsAreTrue
    /\ CountedOnce /\ HeldRowsStayLocked /\ LostRowsAreNotOvertaken

-----------------------------------------------------------------------------
(* Types.                                                                     *)

\* TypeOK includes the type of the outbox.
LEMMA TypeGivesOutbox == TypeOK => Outbox
  BY DEF TypeOK, Outbox

\* The first state is well typed.
LEMMA TypeInit == Init => TypeOK /\ AttemptsLeft
  <1> SUFFICES ASSUME Init PROVE TypeOK /\ AttemptsLeft
    OBVIOUS
  <1>1. outbox \in Seq(OutboxRow) /\ Len(outbox) = 0 /\ MaxRows \in Nat /\ MaxLosses \in Nat /\ MaxRetries \in Nat
    BY DeliveryAssumption, EmptySeq DEF Init
  <1>2. NoAcks \in Acks
    BY DEF NoAcks, Acks
  <1> QED
    BY <1>1, <1>2 DEF Init, TypeOK, AttemptsLeft, Idle, Unused, Written, WorkerPhase, Processing

\* Taking a row off the loop keeps the iteration typed.
LEMMA HandledType ==
    ASSUME TypeOK, NEW r \in Written
    PROVE  /\ Handled(r) \in [phase : WorkerPhase, todo : SUBSET Written, batch : SUBSET Written,
                              exchange : Exchange \union {"none"}, acks : Acks]
           /\ Handled(r).todo = worker.todo \ {r} /\ Handled(r).batch = worker.batch
           /\ Handled(r).phase = worker.phase /\ Handled(r).acks = worker.acks
           /\ Handled(r).exchange = worker.exchange
  BY DEF TypeOK, Handled

\* Starting a loop over written rows keeps the iteration typed.
LEMMA BeginType ==
    ASSUME TypeOK, NEW phase \in WorkerPhase, NEW rows \in SUBSET Written
    PROVE  /\ Begin(phase, rows) \in [phase : WorkerPhase, todo : SUBSET Written, batch : SUBSET Written,
                                      exchange : Exchange \union {"none"}, acks : Acks]
           /\ Begin(phase, rows).phase = phase /\ Begin(phase, rows).todo = rows
           /\ Begin(phase, rows).batch = worker.batch /\ Begin(phase, rows).acks = worker.acks
  BY DEF TypeOK, Begin

\* The idle iteration is typed.
LEMMA IdleType ==
    /\ Idle \in [phase : WorkerPhase, todo : SUBSET Written, batch : SUBSET Written,
                 exchange : Exchange \union {"none"}, acks : Acks]
    /\ Idle.todo = {} /\ Idle.batch = {} /\ Idle.phase = "idle" /\ Idle.acks = NoAcks
  BY DEF Idle, NoAcks, Acks, WorkerPhase

\* A verdict keeps the request typed.
LEMMA JudgedType ==
    ASSUME TypeOK, NEW x \in Exchange, NEW r \in Written,
           NEW verdict \in {"accepted", "rejected", "retryable"}, Judge(x, r, verdict)
    PROVE  /\ exchanges' \in [Exchange -> [state : {"unused", "running", "answered"},
                                           todo : SUBSET Written,
                                           receipt : {"unread", "found", "absent"}, acks : Acks]]
           /\ exchanges'[x].receipt = "unread"
           /\ \A q \in Row : exchanges'[x].acks[q] = IF q = r THEN verdict ELSE exchanges[x].acks[q]
           /\ \A y \in Exchange : y # x => exchanges'[y] = exchanges[y]
  <1> DEFINE e == exchanges[x]
             acks == [e.acks EXCEPT ![r] = verdict]
             j == [e EXCEPT !.todo = @ \ {r}, !.receipt = "unread", !.acks = [@ EXCEPT ![r] = verdict]]
  <1>1. r \in Row
    BY TypeGivesOutbox, WrittenRows
  <1>2. e \in [state : {"unused", "running", "answered"}, todo : SUBSET Written,
               receipt : {"unread", "found", "absent"}, acks : Acks]
    BY DEF TypeOK
  <1>3. acks \in Acks /\ \A q \in Row : acks[q] = IF q = r THEN verdict ELSE e.acks[q]
    BY <1>1, <1>2 DEF Acks
  <1>4. j = [e EXCEPT !.todo = @ \ {r}, !.receipt = "unread", !.acks = acks]
    OBVIOUS
  <1>5. exchanges' = [exchanges EXCEPT ![x] = j]
    BY DEF Judge
  <1> HIDE DEF acks, j, e
  <1>6. /\ j \in [state : {"unused", "running", "answered"}, todo : SUBSET Written,
                  receipt : {"unread", "found", "absent"}, acks : Acks]
        /\ j.receipt = "unread" /\ j.acks = acks
    BY <1>2, <1>3, <1>4
  <1> QED
    BY <1>3, <1>5, <1>6 DEF TypeOK, e

-----------------------------------------------------------------------------
(* Steps that preserve the invariant, by what they do.                        *)

\* The rows in hand are locked, so they have attempts left and a mark fits them.
LEMMA RowInHand ==
    ASSUME IInv, NEW r \in Held
    PROVE  /\ r \in Written /\ outbox[r].status = "processing"
           /\ outbox[r].attempts <= MaxAttempts
           /\ r \notin stale
  BY DEF IInv, AttemptsLeft, HeldRowsStayLocked, Processing, PhaseFits

\* Triage, AckRow and FailRow: the row leaves the worker's hands and its lock at once.
LEMMA MarkStep ==
    ASSUME IInv, NEW r \in worker.todo, worker' = Handled(r),
           MarkSent(r) \/ Suspend(r) \/ MarkRetryableFailure(r),
           UNCHANGED <<cloudVars, losses, retries>>
    PROVE  IInv'
  <1>1. TypeOK /\ Outbox /\ r \in Held /\ r \in Written /\ outbox[r].attempts <= MaxAttempts
    BY RowInHand, TypeGivesOutbox DEF IInv, Held
  <1>2. /\ Outbox' /\ Written' = Written /\ stale' = stale \ {r}
        /\ outbox'[r].status \in {"pending", "sent", "suspended"}
        /\ outbox'[r].status = "pending" => outbox'[r].attempts <= MaxAttempts
        /\ \A q \in Written : q # r => outbox'[q] = outbox[q]
    BY <1>1, Marks
  <1>3. Processing' = Processing \ {r}
    BY <1>1, <1>2 DEF Processing
  <1>4. /\ Held' = Held \ {r} /\ worker'.phase = worker.phase /\ worker'.acks = worker.acks
        /\ worker'.todo = worker.todo \ {r} /\ worker'.batch = worker.batch
        /\ worker'.exchange = worker.exchange
    BY <1>1, HandledType DEF IInv, PhaseFits, Held
  <1>5. TypeOK'
    BY <1>1, <1>2, <1>3, HandledType DEF TypeOK, Outbox, cloudVars
  <1>6. AttemptsLeft'
    BY <1>1, <1>2 DEF IInv, AttemptsLeft
  <1>7. PhaseFits'
    BY <1>2, <1>4 DEF IInv, PhaseFits
  <1>8. HeldRowsStayLocked' /\ LostRowsAreNotOvertaken'
    BY <1>3, <1>4 DEF IInv, HeldRowsStayLocked, LostRowsAreNotOvertaken
  <1>9. VerdictsAreTrue' /\ CountedOnce'
    BY <1>4 DEF IInv, VerdictsAreTrue, CountedOnce, cloudVars
  <1> QED
    BY <1>5, <1>6, <1>7, <1>8, <1>9 DEF IInv

\* The worker puts everything down; the rows of R, at least the stale ones, are unlocked.
LEMMA PutDownStep ==
    ASSUME IInv, worker' = Idle, UNCHANGED cloudVars,
           \/ outbox' = Unlock(Processing) /\ stale' = {}
           \/ UNCHANGED <<outbox, stale>>,
           losses' \in 0..MaxLosses, retries' = retries
    PROVE  IInv'
  <1>1. TypeOK /\ Outbox
    BY TypeGivesOutbox DEF IInv
  <1>2. /\ Outbox' /\ Written' = Written /\ stale' \subseteq Processing'
        /\ AttemptsLeft'
    <2>1. CASE UNCHANGED <<outbox, stale>>
      BY <1>1, <2>1 DEF IInv, AttemptsLeft, Outbox, Written, TypeOK, Processing
    <2>2. CASE outbox' = Unlock(Processing) /\ stale' = {}
      <3>1. /\ Outbox' /\ Written' = Written
            /\ \A r \in Written : outbox'[r] = IF r \in Processing
                                               THEN [outbox[r] EXCEPT !.status = "pending"] ELSE outbox[r]
        BY <1>1, <2>2, Unlocking
      <3>2. \A r \in Written : outbox'[r].attempts = outbox[r].attempts
                               /\ (outbox'[r].status = outbox[r].status \/ r \in Processing)
        BY <1>1, <3>1, WrittenRows DEF OutboxRow
      <3> QED
        BY <2>2, <3>1, <3>2 DEF IInv, AttemptsLeft, Processing
    <2> QED
      BY <2>1, <2>2
  <1>3. Held' = {} /\ worker'.phase = "idle" /\ worker'.acks = NoAcks
        /\ worker'.todo = {} /\ worker'.batch = {}
    BY IdleType DEF Held
  <1>4. TypeOK'
    BY <1>1, <1>2, IdleType DEF TypeOK, Outbox, cloudVars
  <1>5. PhaseFits' /\ HeldRowsStayLocked' /\ LostRowsAreNotOvertaken'
    BY <1>3 DEF PhaseFits, HeldRowsStayLocked, LostRowsAreNotOvertaken
  <1>6. VerdictsAreTrue' /\ CountedOnce'
    BY <1>3 DEF IInv, VerdictsAreTrue, CountedOnce, cloudVars, NoAcks
  <1> QED
    BY <1>2, <1>4, <1>5, <1>6 DEF IInv

\* The Cloud judges one event of a request.
LEMMA JudgeStep ==
    ASSUME IInv, NEW x \in Exchange, NEW r \in Written,
           NEW verdict \in {"accepted", "rejected", "retryable"}, Judge(x, r, verdict),
           UNCHANGED <<outbox, stale, worker, losses, retries>>,
           \/ UNCHANGED <<receipts, projected>>
           \/ /\ r \notin receipts /\ receipts' = receipts \union {r}
              /\ projected' = [projected EXCEPT ![r] = @ + 1],
           verdict = "accepted" => r \in receipts'
    PROVE  IInv'
  <1>1. TypeOK /\ r \in Row /\ receipts \subseteq receipts' /\ Written' = Written
    BY TypeGivesOutbox, WrittenRows DEF IInv, Written
  <1>2. /\ exchanges' \in [Exchange -> [state : {"unused", "running", "answered"},
                                        todo : SUBSET Written,
                                        receipt : {"unread", "found", "absent"}, acks : Acks]]
        /\ exchanges'[x].receipt = "unread"
        /\ \A q \in Row : exchanges'[x].acks[q] = IF q = r THEN verdict ELSE exchanges[x].acks[q]
        /\ \A y \in Exchange : y # x => exchanges'[y] = exchanges[y]
    BY <1>1, JudgedType
  <1>3. TypeOK'
    BY <1>1, <1>2 DEF TypeOK, Processing
  <1>4. CountedOnce'
    BY <1>1 DEF IInv, CountedOnce, TypeOK
  <1>5. VerdictsAreTrue'
    <2>1. \A q \in Row : worker'.acks[q] = "accepted" => q \in receipts'
      BY <1>1 DEF IInv, VerdictsAreTrue
    <2>2. ASSUME NEW y \in Exchange, NEW q \in Row
          PROVE  /\ exchanges'[y].acks[q] = "accepted" => q \in receipts'
                 /\ exchanges'[y].receipt = "found" /\ Oldest(q, exchanges'[y].todo) => q \in receipts'
      BY <1>1, <1>2 DEF IInv, VerdictsAreTrue
    <2> QED
      BY <2>1, <2>2 DEF VerdictsAreTrue, Oldest
  <1>6. AttemptsLeft' /\ PhaseFits' /\ HeldRowsStayLocked' /\ LostRowsAreNotOvertaken'
    BY <1>1 DEF IInv, AttemptsLeft, PhaseFits, HeldRowsStayLocked, LostRowsAreNotOvertaken, Held, Processing
  <1> QED
    BY <1>3, <1>4, <1>5, <1>6 DEF IInv

-----------------------------------------------------------------------------
(* The initial state, and one lemma for each action.                          *)

\* The invariant holds of the first state.
LEMMA InvInit == Init => IInv
  <1> SUFFICES ASSUME Init PROVE IInv
    OBVIOUS
  <1>1. TypeOK /\ AttemptsLeft
    BY TypeInit
  <1>2. Held = {} /\ stale = {} /\ worker.acks = NoAcks /\ worker.phase = "idle"
        /\ worker.todo = {} /\ worker.batch = {}
    BY IdleType DEF Init, Held
  <1>3. PhaseFits /\ HeldRowsStayLocked /\ LostRowsAreNotOvertaken
    BY <1>2 DEF PhaseFits, HeldRowsStayLocked, LostRowsAreNotOvertaken
  <1>4. VerdictsAreTrue /\ CountedOnce
    BY <1>2 DEF Init, VerdictsAreTrue, CountedOnce, Unused, NoAcks
  <1> QED
    BY <1>1, <1>3, <1>4 DEF IInv

\* Reclaiming unlocks only rows the idle worker does not hold.
LEMMA InvStartIteration == ASSUME IInv, StartIteration PROVE IInv'
  <1>1. TypeOK /\ Outbox /\ "claiming" \in WorkerPhase /\ {} \subseteq Written
    BY TypeGivesOutbox DEF IInv, WorkerPhase
  <1>2. /\ Outbox' /\ Written' = Written
        /\ \A r \in Written : outbox'[r] = IF r \in stale
                                           THEN [outbox[r] EXCEPT !.status = "pending"] ELSE outbox[r]
    BY <1>1, Unlocking DEF StartIteration
  <1>3. \A r \in Written : outbox'[r].attempts = outbox[r].attempts
                           /\ (outbox'[r].status = outbox[r].status \/ r \in stale)
    BY <1>1, <1>2, WrittenRows DEF OutboxRow
  <1>4. /\ Held' = {} /\ worker'.phase = "claiming" /\ worker'.acks = worker.acks /\ stale' = {}
        /\ worker'.todo = {} /\ worker'.batch = {}
    BY <1>1, BeginType DEF StartIteration, IInv, PhaseFits, Held
  <1>5. TypeOK'
    BY <1>1, <1>2, <1>4, BeginType DEF StartIteration, TypeOK, Outbox, cloudVars
  <1>6. AttemptsLeft'
    BY <1>1, <1>2, <1>3 DEF IInv, AttemptsLeft, TypeOK, Processing
  <1>7. PhaseFits' /\ HeldRowsStayLocked' /\ LostRowsAreNotOvertaken'
    BY <1>4 DEF PhaseFits, HeldRowsStayLocked, LostRowsAreNotOvertaken
  <1>8. VerdictsAreTrue' /\ CountedOnce'
    BY <1>4 DEF StartIteration, IInv, VerdictsAreTrue, CountedOnce, cloudVars
  <1> QED
    BY <1>5, <1>6, <1>7, <1>8 DEF IInv

\* A batch holds due rows older than every locked one.
LEMMA InvClaim == ASSUME IInv, Claim PROVE IInv'
  <1>1. TypeOK /\ Outbox /\ "triage" \in WorkerPhase
    BY TypeGivesOutbox DEF IInv, WorkerPhase
  <1>2. /\ ClaimBatch \subseteq Written
        /\ \A r \in ClaimBatch : /\ outbox[r].status = "pending" /\ r \notin Processing
                                 /\ \A q \in Processing : r < q
    BY DEF ClaimBatch, Claimable, Due, BlocksYounger, Processing
  <1>3. /\ Outbox' /\ Written' = Written
        /\ \A r \in Written : outbox'[r] = IF r \in ClaimBatch
                                           THEN [outbox[r] EXCEPT !.status = "processing"] ELSE outbox[r]
    BY <1>1, Claiming
  <1>4. /\ \A r \in Written : outbox'[r].attempts = outbox[r].attempts
        /\ Processing' = Processing \union ClaimBatch
    BY <1>1, <1>2, <1>3, WrittenRows DEF OutboxRow, Processing
  <1>5. /\ worker'.phase = "triage" /\ worker'.acks = worker.acks
        /\ worker'.todo = ClaimBatch /\ worker'.batch = {} /\ Held' = ClaimBatch
        /\ stale' = stale
    BY <1>1, <1>2, BeginType DEF Claim, IInv, PhaseFits, Held
  <1>6. TypeOK'
    BY <1>1, <1>2, <1>3, <1>4, BeginType DEF Claim, TypeOK, Outbox, cloudVars
  <1>7. AttemptsLeft'
    BY <1>2, <1>3, <1>4 DEF IInv, AttemptsLeft
  <1>8. PhaseFits'
    BY <1>1, <1>2, <1>5 DEF PhaseFits, TypeOK
  <1>9. HeldRowsStayLocked' /\ LostRowsAreNotOvertaken'
    BY <1>2, <1>4, <1>5 DEF HeldRowsStayLocked, LostRowsAreNotOvertaken
  <1>10. VerdictsAreTrue' /\ CountedOnce'
    BY <1>5 DEF Claim, IInv, VerdictsAreTrue, CountedOnce, cloudVars
  <1> QED
    BY <1>6, <1>7, <1>8, <1>9, <1>10 DEF IInv

\* A row leaves the hands of the worker when it is marked, or stays to be sent.
LEMMA InvTriage == ASSUME IInv, NEW r \in Written, Triage(r) PROVE IInv'
  <1>1. r \in worker.todo /\ worker.phase = "triage"
    BY DEF Triage, AtRow, Oldest
  <1>2. CASE Suspend(r) /\ worker' = Handled(r)
    BY <1>1, <1>2, MarkStep DEF Triage
  <1>3. CASE MarkRetryableFailure(r) /\ worker' = Handled(r)
    BY <1>1, <1>3, MarkStep DEF Triage
  <1>4. CASE /\ worker' = [Handled(r) EXCEPT !.batch = @ \union {r}]
             /\ UNCHANGED <<outbox, stale>>
    <2>1. TypeOK /\ Written' = Written /\ Processing' = Processing /\ stale' = stale
      BY <1>4 DEF IInv, Written, Processing
    <2>2. /\ worker' \in [phase : WorkerPhase, todo : SUBSET Written, batch : SUBSET Written,
                          exchange : Exchange \union {"none"}, acks : Acks]
          /\ worker'.todo = worker.todo \ {r} /\ worker'.batch = worker.batch \union {r}
          /\ worker'.phase = "triage" /\ worker'.acks = worker.acks
      BY <1>1, <1>4, <2>1, HandledType
    <2>3. Held' = Held
      BY <1>1, <2>2 DEF Held
    <2>4. TypeOK'
      BY <1>4, <2>1, <2>2 DEF Triage, TypeOK, cloudVars
    <2>5. PhaseFits' /\ AttemptsLeft' /\ HeldRowsStayLocked' /\ LostRowsAreNotOvertaken'
      BY <1>4, <2>1, <2>2, <2>3
      DEF IInv, PhaseFits, AttemptsLeft, HeldRowsStayLocked, LostRowsAreNotOvertaken
    <2>6. VerdictsAreTrue' /\ CountedOnce'
      BY <2>2 DEF Triage, IInv, VerdictsAreTrue, CountedOnce, cloudVars
    <2> QED
      BY <2>4, <2>5, <2>6 DEF IInv
  <1> QED
    BY <1>2, <1>3, <1>4 DEF Triage

\* A request carries rows the worker holds.
LEMMA InvSend == ASSUME IInv, NEW x \in Exchange, Send(x) PROVE IInv'
  <1> DEFINE request == [Unused EXCEPT !.state = "running", !.todo = worker.batch]
  <1>1. TypeOK /\ worker.phase = "triage" /\ worker.todo = {} /\ NoAcks \in Acks
    BY DEF IInv, Send, LoopOver, NoAcks, Acks
  <1>2. /\ request \in [state : {"unused", "running", "answered"}, todo : SUBSET Written,
                        receipt : {"unread", "found", "absent"}, acks : Acks]
        /\ request.acks = NoAcks /\ request.receipt = "unread"
    BY <1>1 DEF Unused, TypeOK
  <1>3. exchanges' = [exchanges EXCEPT ![x] = request]
    BY DEF Send
  <1> HIDE DEF request
  <1>4. /\ worker' \in [phase : WorkerPhase, todo : SUBSET Written, batch : SUBSET Written,
                        exchange : Exchange \union {"none"}, acks : Acks]
        /\ worker'.phase = "waiting" /\ worker'.todo = {} /\ worker'.batch = worker.batch
        /\ worker'.acks = worker.acks
    BY <1>1 DEF Send, TypeOK, WorkerPhase
  <1>5. /\ UNCHANGED <<outbox, stale, receipts, projected, losses, retries>>
        /\ Written' = Written /\ Processing' = Processing /\ Held' = Held
    BY <1>1, <1>4 DEF Send, Written, Processing, Held
  <1>6. TypeOK'
    BY <1>1, <1>2, <1>3, <1>4, <1>5 DEF TypeOK
  <1>7. PhaseFits' /\ AttemptsLeft' /\ HeldRowsStayLocked' /\ LostRowsAreNotOvertaken'
    BY <1>4, <1>5 DEF IInv, PhaseFits, AttemptsLeft, HeldRowsStayLocked, LostRowsAreNotOvertaken
  <1>8. VerdictsAreTrue'
    BY <1>1, <1>2, <1>3, <1>4, <1>5 DEF IInv, TypeOK, VerdictsAreTrue, Oldest, NoAcks
  <1> QED
    BY <1>5, <1>6, <1>7, <1>8 DEF IInv, CountedOnce

\* The verdicts the worker takes over are true.
LEMMA InvTakeAnswer == ASSUME IInv, TakeAnswer PROVE IInv'
  <1> DEFINE x == worker.exchange
  <1>1. /\ TypeOK /\ worker.phase = "waiting" /\ x \in Exchange /\ NoAcks \in Acks
        /\ exchanges' = [exchanges EXCEPT ![x] = Unused]
        /\ UNCHANGED <<outbox, stale, receipts, projected, losses, retries>>
    BY DEF IInv, TakeAnswer, NoAcks, Acks
  <1>2. worker' = [phase |-> "acking", todo |-> worker.batch, batch |-> {}, exchange |-> "none",
                   acks |-> exchanges[x].acks]
    BY DEF TakeAnswer
  <1>3. worker.todo = {} /\ worker.batch \subseteq Written /\ exchanges[x].acks \in Acks
    BY <1>1 DEF IInv, PhaseFits, TypeOK
  <1>4. /\ worker' \in [phase : WorkerPhase, todo : SUBSET Written, batch : SUBSET Written,
                        exchange : Exchange \union {"none"}, acks : Acks]
        /\ worker'.phase = "acking" /\ worker'.todo = worker.batch
        /\ worker'.batch = {} /\ worker'.acks = exchanges[x].acks
    BY <1>2, <1>3 DEF WorkerPhase
  <1>5. Written' = Written /\ Processing' = Processing /\ Held' = Held
    BY <1>1, <1>3, <1>4 DEF Written, Processing, Held
  <1>6. Unused \in [state : {"unused", "running", "answered"}, todo : SUBSET Written,
                    receipt : {"unread", "found", "absent"}, acks : Acks]
    BY <1>1 DEF Unused
  <1>7. TypeOK'
    BY <1>1, <1>4, <1>5, <1>6 DEF TypeOK
  <1>8. PhaseFits' /\ AttemptsLeft' /\ HeldRowsStayLocked' /\ LostRowsAreNotOvertaken'
    BY <1>1, <1>4, <1>5 DEF IInv, PhaseFits, AttemptsLeft, HeldRowsStayLocked, LostRowsAreNotOvertaken
  <1>9. VerdictsAreTrue'
    BY <1>1, <1>4 DEF IInv, TypeOK, VerdictsAreTrue, Unused, Oldest, NoAcks
  <1> QED
    BY <1>1, <1>7, <1>8, <1>9 DEF IInv, CountedOnce

\* Without an answer there are no verdicts.
LEMMA InvGiveUp == ASSUME IInv, GiveUp PROVE IInv'
  <1>1. TypeOK /\ worker.todo = {} /\ worker.batch \subseteq Written
    BY DEF IInv, GiveUp, PhaseFits, TypeOK
  <1>2. /\ worker' \in [phase : WorkerPhase, todo : SUBSET Written, batch : SUBSET Written,
                        exchange : Exchange \union {"none"}, acks : Acks]
        /\ worker'.phase = "failing" /\ worker'.todo = worker.batch /\ worker'.batch = {}
        /\ worker'.acks = NoAcks
    BY <1>1, IdleType DEF GiveUp, WorkerPhase
  <1>3. /\ UNCHANGED <<outbox, stale, receipts, projected, exchanges, losses, retries>>
        /\ Written' = Written /\ Processing' = Processing /\ Held' = Held
    BY <1>1, <1>2 DEF GiveUp, cloudVars, Written, Processing, Held
  <1>4. TypeOK'
    BY <1>1, <1>2, <1>3 DEF TypeOK
  <1>5. PhaseFits' /\ AttemptsLeft' /\ HeldRowsStayLocked' /\ LostRowsAreNotOvertaken'
    BY <1>2, <1>3 DEF IInv, PhaseFits, AttemptsLeft, HeldRowsStayLocked, LostRowsAreNotOvertaken
  <1>6. VerdictsAreTrue' /\ CountedOnce'
    BY <1>2, <1>3 DEF IInv, VerdictsAreTrue, CountedOnce, NoAcks
  <1> QED
    BY <1>4, <1>5, <1>6 DEF IInv

\* A row with a verdict is marked and leaves the hands of the worker.
LEMMA InvMarked == ASSUME IInv, NEW r \in Written, AckRow(r) \/ FailRow(r) PROVE IInv'
  BY MarkStep DEF AckRow, FailRow, AtRow, Oldest, MarkVerdict

\* A worker that stops or dies holds nothing.
LEMMA InvPutDown == ASSUME IInv, EndIteration \/ LoseIteration \/ Stop PROVE IInv'
  <1>1. losses \in 0..MaxLosses /\ MaxLosses \in Nat
    BY DeliveryAssumption DEF IInv, TypeOK
  <1>2. CASE EndIteration
    BY <1>1, <1>2, PutDownStep DEF EndIteration
  <1>3. CASE LoseIteration
    BY <1>1, <1>3, PutDownStep DEF LoseIteration
  <1>4. CASE Stop
    BY <1>1, <1>4, PutDownStep DEF Stop
  <1> QED
    BY <1>2, <1>3, <1>4

\* A new row is younger than every other.
LEMMA InvCommit == ASSUME IInv, NEW kind \in Kind, Commit(kind) PROVE IInv'
  <1>1. TypeOK /\ Outbox /\ MaxAttempts \in Nat
    BY TypeGivesOutbox, DeliveryAssumption DEF IInv
  <1>2. /\ Outbox' /\ Written' = Written \union {Len(outbox) + 1}
        /\ Len(outbox) + 1 \notin Written
        /\ outbox'[Len(outbox) + 1].status = "pending" /\ outbox'[Len(outbox) + 1].attempts = 0
        /\ \A r \in Written : outbox'[r] = outbox[r]
    BY <1>1, Committing
  <1>3. /\ UNCHANGED <<stale, worker, exchanges, receipts, projected, losses, retries>>
        /\ Processing' = Processing /\ Held' = Held
    BY <1>2 DEF Commit, cloudVars, Processing, Held
  <1>4. TypeOK'
    <2>1. /\ worker' \in [phase : WorkerPhase, todo : SUBSET Written', batch : SUBSET Written',
                          exchange : Exchange \union {"none"}, acks : Acks]
      BY <1>1, <1>2, <1>3 DEF TypeOK
    <2>2. exchanges' \in [Exchange -> [state : {"unused", "running", "answered"},
                                       todo : SUBSET Written',
                                       receipt : {"unread", "found", "absent"}, acks : Acks]]
      <3>1. ASSUME NEW x \in Exchange
            PROVE  exchanges'[x] \in [state : {"unused", "running", "answered"},
                                      todo : SUBSET Written',
                                      receipt : {"unread", "found", "absent"}, acks : Acks]
        BY <1>1, <1>2, <1>3 DEF TypeOK
      <3> QED
        BY <1>1, <1>3, <3>1 DEF TypeOK
    <2> QED
      BY <1>1, <1>2, <1>3, <2>1, <2>2 DEF TypeOK, Outbox
  <1>5. AttemptsLeft'
    BY <1>1, <1>2 DEF IInv, AttemptsLeft
  <1> QED
    BY <1>3, <1>4, <1>5
    DEF IInv, PhaseFits, HeldRowsStayLocked, LostRowsAreNotOvertaken, VerdictsAreTrue, CountedOnce

\* Time and the operator do not touch what the worker holds.
LEMMA InvAround ==
    ASSUME IInv, \/ RetryFailedOutbox
                 \/ \E r \in Row : BackoffExpires(r) \/ LockAges(r)
    PROVE  IInv'
  <1>1. TypeOK /\ Outbox /\ MaxAttempts \in Nat /\ MaxRetries \in Nat
    BY TypeGivesOutbox, DeliveryAssumption DEF IInv
  <1>2. CASE RetryFailedOutbox
    <2>1. /\ Outbox' /\ Written' = Written
          /\ \A r \in Written : IF outbox[r].status = "suspended"
                                THEN outbox'[r].status = "pending" /\ outbox'[r].attempts = 0
                                ELSE outbox'[r] = outbox[r]
      BY <1>1, <1>2, Retrying
    <2>2. /\ UNCHANGED <<stale, worker, exchanges, receipts, projected, losses>>
          /\ retries' \in 0..MaxRetries
          /\ Processing' = Processing /\ Held' = Held
      BY <1>1, <1>2, <2>1 DEF RetryFailedOutbox, cloudVars, Processing, Held, TypeOK
    <2>3. TypeOK'
      BY <1>1, <2>1, <2>2 DEF TypeOK, Outbox
    <2>4. AttemptsLeft'
      BY <1>1, <2>1 DEF IInv, AttemptsLeft
    <2> QED
      BY <2>2, <2>3, <2>4
      DEF IInv, PhaseFits, HeldRowsStayLocked, LostRowsAreNotOvertaken, VerdictsAreTrue, CountedOnce
  <1>3. ASSUME NEW r \in Row, BackoffExpires(r) PROVE IInv'
    <2>1. /\ Outbox' /\ Written' = Written
          /\ \A q \in Written : /\ outbox'[q].status = outbox[q].status
                                /\ outbox'[q].attempts = outbox[q].attempts
      BY <1>1, <1>3, Expiring
    <2>2. /\ UNCHANGED <<stale, worker, exchanges, receipts, projected, losses, retries>>
          /\ Processing' = Processing /\ Held' = Held
      BY <1>3, <2>1 DEF BackoffExpires, cloudVars, Processing, Held
    <2>3. TypeOK'
      BY <1>1, <2>1, <2>2 DEF TypeOK, Outbox
    <2>4. AttemptsLeft'
      BY <2>1 DEF IInv, AttemptsLeft
    <2> QED
      BY <2>2, <2>3, <2>4
      DEF IInv, PhaseFits, HeldRowsStayLocked, LostRowsAreNotOvertaken, VerdictsAreTrue, CountedOnce
  <1>4. ASSUME NEW r \in Row, LockAges(r) PROVE IInv'
    <2>1. /\ UNCHANGED <<outbox, worker, exchanges, receipts, projected, losses, retries>>
          /\ r \in Processing \ Held /\ stale' = stale \union {r}
          /\ Written' = Written /\ Processing' = Processing /\ Held' = Held
      BY <1>4 DEF LockAges, cloudVars, Written, Processing, Held
    <2>2. TypeOK'
      BY <1>1, <2>1 DEF TypeOK
    <2> QED
      BY <2>1, <2>2
      DEF IInv, AttemptsLeft, PhaseFits, HeldRowsStayLocked, LostRowsAreNotOvertaken,
          VerdictsAreTrue, CountedOnce
  <1> QED
    BY <1>2, <1>3, <1>4

\* The Cloud judges an event accepted only with its receipt there.
LEMMA InvCloudItem ==
    ASSUME IInv, NEW x \in Exchange, NEW r \in Written,
           RejectItem(x, r) \/ AcknowledgeKnownItem(x, r) \/ InsertReceipt(x, r) \/ FailItem(x, r)
    PROVE  IInv'
  <1>1. CASE RejectItem(x, r)
    BY <1>1, JudgeStep DEF RejectItem
  <1>2. CASE AcknowledgeKnownItem(x, r)
    <2>1. r \in receipts
      BY <1>2, TypeGivesOutbox, WrittenRows
      DEF IInv, VerdictsAreTrue, AcknowledgeKnownItem, Receiving
    <2> QED
      BY <1>2, <2>1, JudgeStep DEF AcknowledgeKnownItem
  <1>3. CASE InsertReceipt(x, r)
    BY <1>3, JudgeStep DEF InsertReceipt
  <1>4. CASE FailItem(x, r)
    BY <1>4, JudgeStep DEF FailItem
  <1> QED
    BY <1>1, <1>2, <1>3, <1>4

\* A receipt that was found stays.
LEMMA InvReadReceipt ==
    ASSUME IInv, NEW x \in Exchange, NEW r \in Written, ReadReceipt(x, r)
    PROVE  IInv'
  <1> DEFINE found == IF r \in receipts THEN "found" ELSE "absent"
             e == [exchanges[x] EXCEPT !.receipt = found]
  <1>1. /\ TypeOK /\ Oldest(r, exchanges[x].todo) /\ exchanges' = [exchanges EXCEPT ![x] = e]
        /\ UNCHANGED <<outbox, stale, worker, receipts, projected, losses, retries>>
    BY DEF IInv, ReadReceipt, Receiving
  <1>2. /\ e \in [state : {"unused", "running", "answered"}, todo : SUBSET Written,
                  receipt : {"unread", "found", "absent"}, acks : Acks]
        /\ e.receipt = found /\ e.todo = exchanges[x].todo /\ e.acks = exchanges[x].acks
    BY <1>1 DEF TypeOK
  <1> HIDE DEF e
  <1>3. Written' = Written /\ Processing' = Processing /\ Held' = Held
    BY <1>1 DEF Written, Processing, Held
  <1>4. TypeOK'
    BY <1>1, <1>2, <1>3 DEF TypeOK
  <1>5. VerdictsAreTrue'
    <2>1. ASSUME NEW q \in Row, Oldest(q, exchanges[x].todo) PROVE q = r
      BY <1>1, <2>1, WrittenRows, TypeGivesOutbox DEF Oldest, Row
    <2>2. ASSUME NEW y \in Exchange, NEW q \in Row
          PROVE  /\ exchanges'[y].acks[q] = "accepted" => q \in receipts'
                 /\ exchanges'[y].receipt = "found" /\ Oldest(q, exchanges'[y].todo) => q \in receipts'
      <3>1. CASE y = x
        <4>1. exchanges'[y] = e
          BY <1>1, <3>1 DEF TypeOK
        <4> QED
          BY <1>1, <1>2, <2>1, <4>1 DEF IInv, VerdictsAreTrue
      <3>2. CASE y # x
        BY <1>1, <3>2 DEF IInv, TypeOK, VerdictsAreTrue
      <3> QED
        BY <3>1, <3>2
    <2> QED
      BY <1>1, <2>2 DEF IInv, VerdictsAreTrue, Oldest
  <1> QED
    BY <1>1, <1>3, <1>4, <1>5
    DEF IInv, AttemptsLeft, PhaseFits, HeldRowsStayLocked, LostRowsAreNotOvertaken, CountedOnce

\* An ended request leaves the worker an answer it waits for, or none.
LEMMA InvExchangeEnds ==
    ASSUME IInv, NEW x \in Exchange, Answer(x) \/ AbortExchange(x)
    PROVE  IInv'
  <1>1. TypeOK /\ NoAcks \in Acks
    BY DEF IInv, NoAcks, Acks
  <1>2. PICK e \in {Unused, [exchanges[x] EXCEPT !.state = "answered"]} :
          exchanges' = [exchanges EXCEPT ![x] = e]
    BY DEF Answer, AbortExchange
  <1>3. /\ UNCHANGED <<outbox, stale, receipts, projected, losses, retries>>
        /\ worker' = worker \/ worker' = [worker EXCEPT !.exchange = "none"]
    BY DEF Answer, AbortExchange
  <1>4. /\ Unused \in [state : {"unused", "running", "answered"}, todo : SUBSET Written,
                       receipt : {"unread", "found", "absent"}, acks : Acks]
        /\ Unused.acks = NoAcks /\ Unused.receipt = "unread"
    BY <1>1 DEF Unused
  <1>5. /\ e \in [state : {"unused", "running", "answered"}, todo : SUBSET Written,
                  receipt : {"unread", "found", "absent"}, acks : Acks]
        /\ \/ e.acks = NoAcks /\ e.receipt = "unread"
           \/ /\ e.acks = exchanges[x].acks /\ e.receipt = exchanges[x].receipt
              /\ e.todo = exchanges[x].todo
    <2>1. CASE e = Unused
      BY <1>4, <2>1
    <2>2. CASE e = [exchanges[x] EXCEPT !.state = "answered"]
      BY <1>1, <2>2 DEF TypeOK
    <2> QED
      BY <1>2, <2>1, <2>2
  <1>6. /\ worker' \in [phase : WorkerPhase, todo : SUBSET Written, batch : SUBSET Written,
                        exchange : Exchange \union {"none"}, acks : Acks]
        /\ worker'.phase = worker.phase /\ worker'.todo = worker.todo
        /\ worker'.batch = worker.batch /\ worker'.acks = worker.acks
    BY <1>1, <1>3 DEF TypeOK
  <1>7. Written' = Written /\ Processing' = Processing /\ Held' = Held
    BY <1>3, <1>6 DEF Written, Processing, Held
  <1>8. TypeOK'
    BY <1>1, <1>2, <1>3, <1>5, <1>6, <1>7 DEF TypeOK
  <1>9. VerdictsAreTrue'
    <2>1. ASSUME NEW y \in Exchange, NEW q \in Row
          PROVE  /\ exchanges'[y].acks[q] = "accepted" => q \in receipts
                 /\ exchanges'[y].receipt = "found" /\ Oldest(q, exchanges'[y].todo) => q \in receipts
      <3>1. CASE y = x
        <4>1. exchanges'[y] = e
          BY <1>1, <1>2, <3>1 DEF TypeOK
        <4> QED
          BY <1>5, <3>1, <4>1 DEF IInv, VerdictsAreTrue, NoAcks
      <3>2. CASE y # x
        BY <1>1, <1>2, <3>2 DEF IInv, TypeOK, VerdictsAreTrue
      <3> QED
        BY <3>1, <3>2
    <2> QED
      BY <1>3, <1>6, <2>1 DEF IInv, VerdictsAreTrue, Oldest
  <1> QED
    BY <1>3, <1>6, <1>7, <1>8, <1>9
    DEF IInv, AttemptsLeft, PhaseFits, HeldRowsStayLocked, LostRowsAreNotOvertaken, CountedOnce

\* The invariant depends on the variables only.
LEMMA InvUnchanged == IInv /\ UNCHANGED vars => IInv'
  <1> SUFFICES ASSUME IInv, UNCHANGED vars PROVE IInv'
    OBVIOUS
  <1>1. UNCHANGED <<outbox, stale, worker, exchanges, receipts, projected, losses, retries>>
        /\ Written' = Written /\ Processing' = Processing /\ Held' = Held
    BY DEF vars, cloudVars, Written, Processing, Held
  <1> QED
    BY <1>1 DEF IInv, TypeOK, AttemptsLeft, PhaseFits, VerdictsAreTrue, Oldest,
                HeldRowsStayLocked, LostRowsAreNotOvertaken, CountedOnce

\* Every step of the worker, the Cloud and their surroundings preserves IInv.
THEOREM InvStep == IInv /\ [Next]_vars => IInv'
  <1> SUFFICES ASSUME IInv, [Next]_vars PROVE IInv'
    OBVIOUS
  <1>1. CASE WorkerStep
    BY <1>1, InvStartIteration, InvClaim, InvTakeAnswer, InvGiveUp, InvPutDown, InvTriage,
       InvMarked, InvSend DEF WorkerStep
  <1>2. CASE LoseIteration \/ Stop
    BY <1>2, InvPutDown
  <1>3. CASE \E kind \in Kind : Commit(kind)
    BY <1>3, InvCommit
  <1>4. CASE RetryFailedOutbox \/ \E r \in Row : BackoffExpires(r) \/ LockAges(r)
    BY <1>4, InvAround
  <1>5. ASSUME NEW x \in Exchange, CloudStep(x) PROVE IInv'
    BY <1>5, InvCloudItem, InvReadReceipt, InvExchangeEnds DEF CloudStep
  <1>6. CASE UNCHANGED vars
    BY <1>6, InvUnchanged
  <1> QED
    BY <1>1, <1>2, <1>3, <1>4, <1>5, <1>6 DEF Next

\* IInv holds in every reachable state.
THEOREM Invariance == Spec => []IInv
  BY InvInit, InvStep, PTL DEF Spec

-----------------------------------------------------------------------------
(* What holds in every state.                                                 *)

\* The tables, the worker and the requests keep their types (no row gets past
\* its last attempt, only locked rows have a lock that ages).
THEOREM TypeCorrect == Spec => []TypeOK
  BY Invariance, PTL DEF IInv

\* A received event is counted exactly once in the Cloud, others never.
THEOREM EventsAreCountedOnce == Spec => []CountedOnce
  BY Invariance, PTL DEF IInv

\* What the worker has in hand cannot be handed out a second time.
THEOREM HandsStayLocked == Spec => []HeldRowsStayLocked
  BY Invariance, PTL DEF IInv

\* Rows a lost iteration left locked hold back the younger ones.
THEOREM LostRowsHoldBack == Spec => []LostRowsAreNotOvertaken
  BY Invariance, PTL DEF IInv

-----------------------------------------------------------------------------
(* EventDelivery implements EventJournal.                                     *)

Sent == {r \in Written : outbox[r].status = "sent"}

\* Steps that leave the mapped variables alone.
Stutters == Written' = Written /\ Sent' = Sent /\ projected' = projected

\* Keeping rows, receipts and delivered rows is a stutter of the journal.
LEMMA StutterStep == ASSUME Stutters PROVE UNCHANGED Journal!journalVars
  BY DEF Stutters, Sent, Journal!journalVars

\* Committing a row writes an event to the journal.
LEMMA CommitIsWrite ==
    ASSUME IInv, NEW kind \in Kind, Commit(kind)
    PROVE  Journal!Write(Len(outbox) + 1) /\ Len(outbox) + 1 \in Row
  <1>1. Outbox
    BY TypeGivesOutbox DEF IInv
  <1>2. /\ Written' = Written \union {Len(outbox) + 1} /\ Len(outbox) + 1 \in Row \ Written
        /\ outbox'[Len(outbox) + 1].status = "pending"
        /\ \A r \in Written : outbox'[r] = outbox[r]
    BY <1>1, Committing
  <1>3. Sent' = Sent
    BY <1>2 DEF Sent
  <1>4. projected' = projected
    BY DEF Commit, cloudVars
  <1> QED
    BY <1>2, <1>3, <1>4 DEF Journal!Write, Sent

\* Inserting a receipt books an event.
LEMMA InsertIsBook ==
    ASSUME IInv, NEW x \in Exchange, NEW r \in Written, InsertReceipt(x, r)
    PROVE  Journal!Book(r) /\ r \in Row
  <1>1. r \in Row /\ r \notin receipts /\ projected' = [projected EXCEPT ![r] = @ + 1]
        /\ outbox' = outbox
    BY TypeGivesOutbox, WrittenRows DEF IInv, InsertReceipt
  <1>2. projected[r] = 0
    BY <1>1 DEF IInv, CountedOnce
  <1>4. projected' = [projected EXCEPT ![r] = 1]
    BY <1>1, <1>2
  <1>3. Written' = Written /\ Sent' = Sent
    BY <1>1 DEF Written, Sent
  <1> QED
    BY <1>1, <1>2, <1>3, <1>4 DEF Journal!Book, Sent

\* Marking a row sent on an accepted verdict delivers a booked event.
LEMMA AcceptedIsDeliver ==
    ASSUME IInv, NEW r \in worker.todo, MarkSent(r), r \in receipts, projected' = projected
    PROVE  Journal!Deliver(r) /\ r \in Row
  <1>1. Outbox /\ r \in Written /\ r \in Row
    BY RowInHand, TypeGivesOutbox, WrittenRows DEF IInv, Held
  <1>2. /\ Written' = Written /\ outbox'[r].status = "sent"
        /\ \A q \in Written : q # r => outbox'[q] = outbox[q]
    BY <1>1, Delivering
  <1>3. projected[r] = 1
    BY <1>1 DEF IInv, CountedOnce
  <1>4. Sent' = Sent \union {r}
    BY <1>1, <1>2 DEF Sent
  <1> QED
    BY <1>1, <1>2, <1>3, <1>4 DEF Journal!Deliver, Sent

\* Suspending or retrying a row that was not sent is a stutter.
LEMMA SetAsideStutters ==
    ASSUME IInv, NEW r \in worker.todo, Suspend(r) \/ MarkRetryableFailure(r),
           projected' = projected
    PROVE  Stutters
  <1>1. /\ Outbox /\ r \in Written /\ outbox[r].status = "processing"
        /\ outbox[r].attempts <= MaxAttempts
    BY RowInHand, TypeGivesOutbox DEF IInv, Held
  <1>2. /\ Written' = Written /\ outbox'[r].status # "sent"
        /\ \A q \in Written : q # r => outbox'[q] = outbox[q]
    BY <1>1, SettingAside
  <1> QED
    BY <1>1, <1>2 DEF Stutters, Sent

\* A verdict "accepted" is true: the row it marks as sent is received.
LEMMA VerdictIsDeliverOrStutter ==
    ASSUME IInv, NEW r \in Written, AckRow(r)
    PROVE  Stutters \/ (Journal!Deliver(r) /\ r \in Row)
  <1>1. r \in worker.todo /\ projected' = projected
        /\ MarkVerdict(r, worker.acks[r])
    BY DEF AckRow, AtRow, Oldest, cloudVars
  <1>2. CASE worker.acks[r] = "accepted" /\ MarkSent(r)
    <2>1. r \in receipts
      BY <1>2, TypeGivesOutbox, WrittenRows DEF IInv, VerdictsAreTrue
    <2> QED
      BY <1>1, <1>2, <2>1, AcceptedIsDeliver
  <1>3. CASE Suspend(r) \/ MarkRetryableFailure(r)
    BY <1>1, <1>3, SetAsideStutters
  <1> QED
    BY <1>1, <1>2, <1>3 DEF MarkVerdict

\* Locking and unlocking, waiting and retrying are no concern of the journal.
LEMMA WorkerStutters ==
    ASSUME IInv,
           \/ StartIteration \/ Claim \/ TakeAnswer \/ GiveUp \/ EndIteration
           \/ LoseIteration \/ Stop \/ (\E x \in Exchange : Send(x))
    PROVE  Stutters
  <1>1. Outbox /\ stale \subseteq Processing
    BY TypeGivesOutbox DEF IInv, TypeOK
  <1>2. ASSUME NEW R \in SUBSET Processing, outbox' = Unlock(R)
        PROVE  Written' = Written /\ Sent' = Sent
    <2>1. /\ Written' = Written
          /\ \A r \in Written : outbox'[r] = IF r \in R THEN [outbox[r] EXCEPT !.status = "pending"]
                                                        ELSE outbox[r]
      BY <1>1, <1>2, Unlocking
    <2>2. ASSUME NEW r \in Written
          PROVE  outbox'[r].status = "sent" <=> outbox[r].status = "sent"
      BY <2>1, <1>1, WrittenRows DEF Processing, OutboxRow
    <2> QED
      BY <2>1, <2>2 DEF Sent
  <1>3. CASE StartIteration
    BY <1>1, <1>2, <1>3 DEF StartIteration, Stutters, cloudVars
  <1>4. CASE Stop
    BY <1>1, <1>2, <1>4 DEF Stop, Stutters, cloudVars
  <1>5. CASE Claim
    <2>1. /\ Written' = Written
          /\ \A r \in Written : outbox'[r] = IF r \in ClaimBatch
                                             THEN [outbox[r] EXCEPT !.status = "processing"]
                                             ELSE outbox[r]
      BY <1>1, <1>5, Claiming
    <2>2. ASSUME NEW r \in Written
          PROVE  outbox'[r].status = "sent" <=> outbox[r].status = "sent"
      BY <2>1, <1>1, WrittenRows DEF ClaimBatch, Claimable, Due, OutboxRow
    <2> QED
      BY <1>5, <2>1, <2>2 DEF Stutters, Sent, Claim, cloudVars
  <1>6. CASE TakeAnswer \/ GiveUp \/ EndIteration \/ LoseIteration \/ \E x \in Exchange : Send(x)
    BY <1>6 DEF TakeAnswer, GiveUp, EndIteration, LoseIteration, Send, Stutters, Written, Sent,
                cloudVars
  <1> QED
    BY <1>3, <1>4, <1>5, <1>6

\* A step on one row that marks nothing sent is a stutter.
LEMMA RowStutters ==
    ASSUME IInv, NEW r \in Written, Triage(r) \/ FailRow(r)
    PROVE  Stutters
  <1>1. r \in worker.todo /\ projected' = projected
    BY DEF Triage, FailRow, AtRow, Oldest, cloudVars
  <1>2. CASE Suspend(r) \/ MarkRetryableFailure(r)
    BY <1>1, <1>2, SetAsideStutters
  <1>3. CASE outbox' = outbox
    BY <1>1, <1>3 DEF Stutters, Written, Sent
  <1> QED
    BY <1>2, <1>3 DEF Triage, FailRow

\* Time, locks, retries and losses are stutters of the journal.
LEMMA AroundStutters ==
    ASSUME IInv, RetryFailedOutbox \/ \E r \in Row : BackoffExpires(r) \/ LockAges(r)
    PROVE  Stutters
  <1>1. Outbox
    BY TypeGivesOutbox DEF IInv
  <1>2. CASE RetryFailedOutbox
    <2>1. /\ Written' = Written
          /\ \A r \in Written : outbox'[r].status = "sent" <=> outbox[r].status = "sent"
      BY <1>1, <1>2, Retrying
    <2> QED
      BY <1>2, <2>1 DEF Stutters, Sent, RetryFailedOutbox, cloudVars
  <1>3. ASSUME NEW r \in Row, BackoffExpires(r) PROVE Stutters
    <2>1. /\ Written' = Written
          /\ \A q \in Written : outbox'[q].status = outbox[q].status
      BY <1>1, <1>3, Expiring
    <2> QED
      BY <1>3, <2>1 DEF Stutters, Sent, BackoffExpires, cloudVars
  <1>4. ASSUME NEW r \in Row, LockAges(r) PROVE Stutters
    BY <1>4 DEF LockAges, Stutters, Written, Sent, cloudVars
  <1> QED
    BY <1>2, <1>3, <1>4

\* What the Cloud does besides inserting a receipt is a stutter.
LEMMA CloudStutters ==
    ASSUME NEW x \in Exchange,
           \/ \E r \in Written : RejectItem(x, r) \/ ReadReceipt(x, r)
                                \/ AcknowledgeKnownItem(x, r) \/ FailItem(x, r)
           \/ Answer(x) \/ AbortExchange(x)
    PROVE  Stutters
  <1>1. outbox' = outbox /\ projected' = projected
    BY DEF RejectItem, ReadReceipt, AcknowledgeKnownItem, FailItem, Answer, AbortExchange
  <1> QED
    BY <1>1 DEF Stutters, Written, Sent

\* Every step of the delivery is a step of the journal or none.
LEMMA JournalStep == IInv /\ [Next]_vars => [Journal!Next]_(Journal!journalVars)
  <1> SUFFICES ASSUME IInv, [Next]_vars, ~Stutters
      PROVE  Journal!Next
    BY StutterStep
  <1>1. CASE WorkerStep \/ LoseIteration \/ Stop
    BY <1>1, WorkerStutters, RowStutters, VerdictIsDeliverOrStutter DEF WorkerStep, Journal!Next
  <1>2. CASE \E kind \in Kind : Commit(kind)
    BY <1>2, CommitIsWrite DEF Journal!Next
  <1>3. CASE RetryFailedOutbox \/ \E r \in Row : BackoffExpires(r) \/ LockAges(r)
    BY <1>3, AroundStutters
  <1>4. ASSUME NEW x \in Exchange, CloudStep(x) PROVE Journal!Next
    BY <1>4, CloudStutters, InsertIsBook DEF CloudStep, Journal!Next
  <1>5. CASE UNCHANGED vars
    BY <1>5 DEF vars, cloudVars, Stutters, Written, Sent
  <1> QED
    BY <1>1, <1>2, <1>3, <1>4, <1>5 DEF Next

\* The empty outbox is an empty journal.
LEMMA JournalInit == Init => Journal!Init
  <1> SUFFICES ASSUME Init PROVE Journal!Init
    OBVIOUS
  <1>1. Written = {}
    BY TypeInit, EmptySeq DEF Init, Written
  <1> QED
    BY <1>1 DEF Init, Journal!Init

\* The delivery keeps the journal's promise: an event of the outbox enters the
\* books of the Cloud at most once, and the Edge marks as sent only what did.
THEOREM DeliveryIsJournalled == Spec => ImplementsEventJournal
  BY Invariance, JournalInit, JournalStep, PTL DEF Spec, ImplementsEventJournal, Journal!Spec
=============================================================================
