----------------------------- MODULE CloudBooks -----------------------------
(***************************************************************************)
(* The money of the till as the Cloud sees it: the commands of PosSales    *)
(* with the outbox events they write in their transactions, and the        *)
(* projections cloud-backend/internal/cloudsync keeps of those events.     *)
(*                                                                         *)
(* The way between is EventJournal, which EventDelivery implements: an     *)
(* event is booked in the Cloud at most once, some time after it was       *)
(* written, not always in the order of writing.  Only the events the       *)
(* financial projections read, and those of CancelUnconfirmedOrder, are    *)
(* kept; all of them originate on the Edge device.                         *)
(***************************************************************************)
EXTENDS PosSales, Sequences

CONSTANT MaxEvents      \* bound: events written (large enough for all of them)

ASSUME EventsAssumption ==
    /\ MaxEvents \in Nat
    /\ IsFiniteSet(Shift) /\ IsFiniteSet(Order)

VARIABLES
    events,             \* table pos_sync_outbox, in the order of sequence_no
    booked,             \* 1 for the events the Cloud received
    finance,            \* cloud_projection_shift_finance: shift -> totals
    reported            \* SUM(amount) of cloud_projection_financial_operations

booksVars == <<vars, events, booked, finance, reported>>
cloudVars == <<booked, finance, reported>>

Type == {"PaymentCaptured", "CheckCreated", "CancellationRecorded", "RefundRecorded",
         "CheckPrintUnconfirmedRefunded", "TicketVoided", "OrderCancelled"}
Event == [type : Type, order : Order, shift : Shift, amount : Nat]

\* DirectionForOutbox gives every other type the direction local_only, and
\* blockedDirectionReason suspends its rows in the sender.
CloudBound(e) == e.type \in {"PaymentCaptured", "CheckCreated", "CancellationRecorded", "RefundRecorded"}

NoFinance == [payments |-> 0, checks |-> 0, refunds |-> 0]

BooksInit ==
    /\ Init
    /\ events = <<>>
    /\ booked = [i \in 1..MaxEvents |-> 0]
    /\ finance = [s \in Shift |-> NoFinance]
    /\ reported = [o \in Order |-> EmptyLedger]

-----------------------------------------------------------------------------
(* What the commands write.                                                *)

\* WriteOutbox, called in the transaction of the command.
Write(rows) ==
    /\ Len(events) + Len(rows) <= MaxEvents
    /\ events' = events \o rows
    /\ UNCHANGED cloudVars

WriteOf(type, o, s, a) == [type |-> type, order |-> o, shift |-> s, amount |-> a]

\* Mutant: the event names the waiter's shift.
PaymentEventOfOrderShift(o) ==
    LET p == CHOOSE p \in DOMAIN payments' : p \notin DOMAIN payments
    IN  WriteOf("PaymentCaptured", o, orders[o].shift, payments'[p].amount)

\* The event of the payment that is being recorded; its shift is the one of
\* the cash session, not the one of the order.
PaymentEvent(o) ==
    LET p == CHOOSE p \in DOMAIN payments' : p \notin DOMAIN payments
    IN  WriteOf("PaymentCaptured", o, payments'[p].shift, payments'[p].amount)

CashShift(d) ==
    LET c == CHOOSE c \in DOMAIN sessions : OpenSessionAt(c, d) IN sessions[c].shift

CapturePayment(d, o, v, a) ==
    \/ /\ CapturePartialPayment(d, o, v, a)
       /\ Write(<<PaymentEvent(o)>>)
    \/ /\ CaptureFinalPayment(d, o, v, a)
       /\ Write(<<PaymentEvent(o),
                  WriteOf("CheckCreated", o, CashShift(d), checks'[o].total)>>)

Compensate(d, o, a) ==
    \/ /\ RecordCancellation(d, o, a)
       /\ Write(<<WriteOf("CancellationRecorded", o, CashShift(d), a)>>)
    \/ /\ RecordRefund(d, o, a)
       /\ Write(<<WriteOf("RefundRecorded", o, CashShift(d), a)>>)

\* The compensation, one event per ticket it voids (their number does not
\* matter: one stands for them), and the order.
CancelUnconfirmed(d, o) ==
    /\ CancelUnconfirmedOrder(d, o)
    /\ Write(<<WriteOf("CheckPrintUnconfirmedRefunded", o, CashShift(d), Remaining(o))>>
             \o (IF \E l \in Line : tickets[o][l] = "active"
                 THEN <<WriteOf("TicketVoided", o, CashShift(d), 0)>> ELSE <<>>)
             \o <<WriteOf("OrderCancelled", o, orders[o].shift, 0)>>)

\* Commands whose events no projection of this module reads.
OtherCommand ==
    /\ \/ NextBusinessDate \/ ShiftCommand \/ LineCommand
       \/ \E o \in DOMAIN orders, d \in Device :
             IssuePrecheck(d, o) \/ \E v \in Version : CancelPrecheck(d, o, v)
       \/ \E o \in DOMAIN checks, doc \in Document : PrintDocument(o, doc) \/ ConfirmCheckPrint(o)
    /\ UNCHANGED <<events, cloudVars>>

-----------------------------------------------------------------------------
(* What the Cloud makes of them.                                           *)

\* upsertShiftFinanceProjection: the sums of a shift grow.
UpsertShiftFinance(s, more) ==
    finance' = [finance EXCEPT ![s] = [sum \in DOMAIN @ |-> @[sum] + more[sum]]]

\* applyEventProjections: which sum an event adds to, if any.
ProjectFinance(e) ==
    LET Of(type) == IF e.type = type THEN e.amount ELSE 0
    IN  UpsertShiftFinance(e.shift, [payments |-> Of("PaymentCaptured"),
                                     checks |-> Of("CheckCreated"),
                                     refunds |-> Of("RefundRecorded")])

\* applyFinancialOperationProjection
ProjectOperation(e) ==
    reported' = [reported EXCEPT
        ![e.order].cancellation = IF e.type = "CancellationRecorded" THEN @ + e.amount ELSE @,
        ![e.order].refund = IF e.type = "RefundRecorded" THEN @ + e.amount ELSE @]

Journal == INSTANCE EventJournal WITH
    Events <- 1..MaxEvents, written <- DOMAIN events, delivered <- {}

\* ReceiveEdgeEvent of an event that is new to the Cloud.
ReceiveEvent(i) ==
    /\ i \in DOMAIN events /\ CloudBound(events[i])
    /\ UNCHANGED <<vars, events>>
    /\ Journal!Book(i)
    /\ ProjectFinance(events[i])
    /\ ProjectOperation(events[i])

BooksNext ==
    \/ OtherCommand
    \/ \E o \in DOMAIN orders, d \in Device, v \in Version, a \in Amount : CapturePayment(d, o, v, a)
    \/ \E o \in DOMAIN checks, d \in Device, a \in Amount : Compensate(d, o, a)
    \/ \E o \in DOMAIN checks, d \in Device : CancelUnconfirmed(d, o)
    \/ \E i \in 1..MaxEvents : ReceiveEvent(i)

BooksSpec == BooksInit /\ [][BooksNext]_booksVars

-----------------------------------------------------------------------------
(* Properties.                                                             *)
\* What the events of a type that are still on their way sum up to, written under
\* shift s or about order o.
EventAmount == [i \in DOMAIN events |-> events[i].amount]
Underway(type) == {i \in DOMAIN events : booked[i] = 0 /\ events[i].type = type}
OnTheWay(type, s) == SumFunctionOnSet(EventAmount, {i \in Underway(type) : events[i].shift = s})
OnTheWayOf(type, o) == SumFunctionOnSet(EventAmount, {i \in Underway(type) : events[i].order = o})

\* Shift by shift, the takings the Cloud shows and those still on their way are
\* the payments taken under that shift's cash session, whoever served the
\* order: the books close over partial payments, several cashiers and events
\* that arrive in any order.
BooksMatchTheTill ==
    \A s \in Shift :
       finance[s].payments + OnTheWay("PaymentCaptured", s) =
          Paid({p \in DOMAIN payments : payments[p].shift = s})

\* What the Cloud shows as sold and as refunded, over all shifts, and what is
\* on its way make up the checks and the refunds of the Edge.
BooksMatchTheChecks ==
    /\ SumFunction([s \in Shift |-> finance[s].checks + OnTheWay("CheckCreated", s)]) =
          SumFunction([o \in DOMAIN checks |-> checks[o].total])
    /\ SumFunction([s \in Shift |-> finance[s].refunds + OnTheWay("RefundRecorded", s)]) =
          SumFunction([o \in Order |-> ledger[o].refund])

\* Check by check and kind by kind, the compensations the Cloud reports and
\* those on their way are the ones the Edge recorded, until the order itself is
\* cancelled; then they are at most those.
ReportsMatchTheLedger ==
    \A o \in Order :
       LET cancellation == reported[o].cancellation + OnTheWayOf("CancellationRecorded", o)
           refund == reported[o].refund + OnTheWayOf("RefundRecorded", o)
       IN  /\ refund = ledger[o].refund
           /\ cancellation <= ledger[o].cancellation
           /\ ~(o \in DOMAIN orders /\ orders[o].status = "cancelled") =>
                 cancellation = ledger[o].cancellation

\* The books of the Cloud close: by shift, by check and by kind of operation, whatever
\* arrives in whatever order.
BooksClose == BooksMatchTheTill /\ BooksMatchTheChecks /\ ReportsMatchTheLedger
=============================================================================
