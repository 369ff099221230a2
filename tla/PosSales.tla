------------------------------ MODULE PosSales ------------------------------
(***************************************************************************)
(* The cash-desk core of the POS Edge backend (pos-backend/internal/pos):  *)
(* personal shifts, cash sessions, orders, prechecks, payments, final      *)
(* checks, compensating operations and QR tickets.                         *)
(*                                                                         *)
(* Every command of the backend runs in one BEGIN IMMEDIATE transaction on *)
(* a single SQLite connection, so a command is one atomic action here; the *)
(* variables are the tables it reads and writes.  A command that returns   *)
(* an error rolls back and is no step at all.                              *)
(***************************************************************************)
EXTENDS Integers, FiniteSets, Functions

CONSTANTS
    Employee,       \* operators with a PIN session
    Device,         \* POS node devices: CommandMeta.DeviceID
    Shift,          \* ids of rows of shifts
    Session,        \* ids of rows of cash_sessions
    Order,          \* ids of rows of orders
    Payment,        \* ids of rows of payments
    Line,           \* ids of order lines, per order
    QrLine,         \* the lines whose catalog item has qr_confirmation_enabled
    MaxContent,     \* bound: contents (quantity and modifiers) an order line takes
    MaxVersion,     \* bound: prechecks issued for one order
    MaxDate,        \* bound: business dates
    Amount,         \* amounts a payment or a compensation may name
    Price           \* Price[basket][discounts]: the grand total of Calculate,
                    \* Rejected when an adjustment exceeds its target

Rejected == -1
NoLine == -1
VoidedLine == 0
Content == 1..MaxContent
Basket == [Line -> {NoLine, VoidedLine} \cup Content]
Version == 1..MaxVersion

ASSUME ConstantsAssumption ==
    /\ MaxContent \in Nat /\ MaxVersion \in Nat /\ MaxDate \in Nat \ {0}
    /\ QrLine \subseteq Line
    /\ Amount \subseteq Nat \ {0}

\* An order without active lines costs nothing, whatever its adjustments
\* (Calculate returns before it applies them).
ASSUME PriceAssumption ==
    /\ Price \in [Basket -> [SUBSET Line -> Nat \cup {Rejected}]]
    /\ \A b \in Basket, D \in SUBSET Line :
          (\A l \in Line : b[l] < 1) => Price[b][D] = 0

VARIABLES
    today,          \* current business date of the restaurant
    shifts,         \* table shifts: id -> row
    sessions,       \* table cash_sessions: id -> row
    orders,         \* table orders: id -> row
    lines,          \* table order_lines: order -> basket
    discounts,      \* table order_line_discounts: order -> discounted lines
    prechecks,      \* table prechecks: order -> version -> row
    payments,       \* table payments: id -> row
    checks,         \* table checks, unique by order: order -> row
    ledger,         \* SUM(amount) of financial_operations: order -> type -> total
    tickets,        \* table ticket_units: order -> line -> status
    printed         \* order -> documents whose print job succeeded (how: PrintQueue)

salesVars == <<orders, lines, discounts, prechecks, payments>>
closingVars == <<checks, ledger, tickets, printed>>
vars == <<today, shifts, sessions, salesVars, closingVars>>

ShiftRow == [owner : Employee, device : Device, open : BOOLEAN]
SessionRow == [device : Device, shift : Shift, open : BOOLEAN]
OrderRow == [device : Device, shift : Shift,
             status : {"open", "locked", "closed", "cancelled"}]
PrecheckRow == [status : {"none", "issued", "cancelled", "closed"},
                total : Nat, paid : Nat]
PaymentRow == [order : Order, version : Version, amount : Amount,
               shift : Shift, date : 1..MaxDate]
CheckRow == [total : Nat, date : 1..MaxDate, confirmed : BOOLEAN]
LedgerRow == [cancellation : Nat, refund : Nat]
Document == Line \cup {"check"}

NoPrecheck == [status |-> "none", total |-> 0, paid |-> 0]
EmptyLedger == [cancellation |-> 0, refund |-> 0]

\* A table holds rows under some of the ids of its pool.
IsTable(table, ids, rows) ==
    /\ DOMAIN table \subseteq ids
    /\ table = [id \in DOMAIN table |-> table[id]]
    /\ \A id \in DOMAIN table : table[id] \in rows

Insert(table, id, row) ==
    [x \in DOMAIN table \cup {id} |-> IF x = id THEN row ELSE table[x]]

EmptyTable == [id \in {} |-> 0]

Init ==
    /\ today = 1
    /\ shifts = EmptyTable
    /\ sessions = EmptyTable
    /\ orders = EmptyTable
    /\ lines = [o \in Order |-> [l \in Line |-> NoLine]]
    /\ discounts = [o \in Order |-> {}]
    /\ prechecks = [o \in Order |-> [v \in Version |-> NoPrecheck]]
    /\ payments = EmptyTable
    /\ checks = EmptyTable
    /\ ledger = [o \in Order |-> EmptyLedger]
    /\ tickets = [o \in Order |-> [l \in Line |-> "none"]]
    /\ printed = [o \in Order |-> {}]

-----------------------------------------------------------------------------
(* Queries of the repository that several commands share.                  *)

OpenShiftOf(s, e) == shifts[s].open /\ shifts[s].owner = e
OpenSessionAt(c, d) == sessions[c].open /\ sessions[c].device = d
ActiveLines(o) == {l \in Line : lines[o][l] > 0}
\* The lines IssueForClosedCheck issues a ticket for.
TicketLines(o) == ActiveLines(o) \cap QrLine
HasActivePrecheck(o) == \E v \in Version : prechecks[o][v].status = "issued"
\* Mutant: cancellations are not subtracted.
RemainingAfterRefunds(o) == checks[o].total - ledger[o].refund
Remaining(o) == checks[o].total - ledger[o].refund - ledger[o].cancellation

\* A command reads the clock before it waits for the database, so the date it
\* works with may be the one before.
Clock == {t \in {today - 1, today} : t > 0}

\* Mutant: the order's status and its precheck are not looked at.
EditableAlways(d, o) == o \in DOMAIN orders /\ orders[o].device = d

\* ensureEditableOrder and ensurePricingEditableOrder
Editable(d, o) ==
    /\ o \in DOMAIN orders
    /\ orders[o].device = d
    /\ orders[o].status = "open"
    /\ ~HasActivePrecheck(o)

GrandTotal(o) == Price[lines[o]][discounts[o]]

\* CalculateOrderPricing fails on a discount that exceeds its target and, unless
\* no line is active at all, on a line discount whose line is not active.
PricingSucceeds(o) ==
    /\ ActiveLines(o) = {} \/ discounts[o] \subseteq ActiveLines(o)
    /\ GrandTotal(o) # Rejected

-----------------------------------------------------------------------------
(* Shifts and cash sessions.                                               *)

\* The clock crosses the restaurant's business-date boundary.
NextBusinessDate ==
    /\ today < MaxDate
    /\ today' = today + 1
    /\ UNCHANGED <<shifts, sessions, salesVars, closingVars>>

OpenShift(e, d) ==
    /\ \A s \in DOMAIN shifts : ~OpenShiftOf(s, e)
    /\ \E s \in Shift \ DOMAIN shifts :
          shifts' = Insert(shifts, s, [owner |-> e, device |-> d, open |-> TRUE])
    /\ UNCHANGED <<today, sessions, salesVars, closingVars>>

\* Mutant: a locked order does not hold its shift.
CloseShiftOverLocked(e, s) ==
    /\ OpenShiftOf(s, e)
    /\ \A o \in DOMAIN orders : orders[o].shift = s => orders[o].status # "open"
    /\ \A c \in DOMAIN sessions : ~OpenSessionAt(c, shifts[s].device)
    /\ shifts' = [shifts EXCEPT ![s].open = FALSE]
    /\ UNCHANGED <<today, sessions, salesVars, closingVars>>

CloseShift(e, s) ==
    /\ OpenShiftOf(s, e)
    /\ \A o \in DOMAIN orders :
          orders[o].shift = s => orders[o].status \notin {"open", "locked"}
    /\ \A c \in DOMAIN sessions : ~OpenSessionAt(c, shifts[s].device)
    /\ shifts' = [shifts EXCEPT ![s].open = FALSE]
    /\ UNCHANGED <<today, sessions, salesVars, closingVars>>

\* The guard looks at the command's device, the row takes the device of the
\* operator's shift; the unique index refuses a second open row there.
OpenCashSession(e, d) ==
    \E s \in DOMAIN shifts, c \in Session \ DOMAIN sessions :
       /\ OpenShiftOf(s, e)
       /\ \A x \in DOMAIN sessions :
             ~OpenSessionAt(x, d) /\ ~OpenSessionAt(x, shifts[s].device)
       /\ sessions' = Insert(sessions, c,
                             [device |-> shifts[s].device, shift |-> s, open |-> TRUE])
       /\ UNCHANGED <<today, shifts, salesVars, closingVars>>

CloseCashSession(d, c) ==
    /\ OpenSessionAt(c, d)
    /\ sessions' = [sessions EXCEPT ![c].open = FALSE]
    /\ UNCHANGED <<today, shifts, salesVars, closingVars>>

-----------------------------------------------------------------------------
(* Orders and their lines.                                                 *)

\* The order keeps the command's device and the waiter's shift.
CreateOrder(e, d) ==
    \E s \in DOMAIN shifts, o \in Order \ DOMAIN orders :
       /\ OpenShiftOf(s, e)
       /\ orders' = Insert(orders, o, [device |-> d, shift |-> s, status |-> "open"])
       /\ UNCHANGED <<today, shifts, sessions, lines, discounts, prechecks, payments,
                      closingVars>>

\* Any device may add a line: the handler does not compare devices.
AddOrderLine(o, l, q) ==
    /\ orders[o].status = "open"
    /\ ~HasActivePrecheck(o)
    /\ lines[o][l] = NoLine
    /\ lines' = [lines EXCEPT ![o][l] = q]
    /\ UNCHANGED <<today, shifts, sessions, orders, discounts, prechecks, payments,
                   closingVars>>

\* ChangeOrderLineQuantity and UpdateOrderLineModifiers.
EditOrderLine(d, o, l, q) ==
    /\ Editable(d, o)
    /\ lines[o][l] > 0
    /\ lines' = [lines EXCEPT ![o][l] = q]
    /\ UNCHANGED <<today, shifts, sessions, orders, discounts, prechecks, payments,
                   closingVars>>

VoidOrderLine(d, o, l) ==
    /\ Editable(d, o)
    /\ lines[o][l] > 0
    /\ lines' = [lines EXCEPT ![o][l] = VoidedLine]
    /\ UNCHANGED <<today, shifts, sessions, orders, discounts, prechecks, payments,
                   closingVars>>

\* A line discount, priced with the rest before it is committed.  One per line
\* is a bound of the model: each application_index is used once per order.
AddDiscount(d, o, l) ==
    /\ Editable(d, o)
    /\ l \in ActiveLines(o) \ discounts[o]
    /\ discounts' = [discounts EXCEPT ![o] = @ \cup {l}]
    /\ discounts'[o] \subseteq ActiveLines(o)
    /\ Price[lines[o]][discounts'[o]] # Rejected
    /\ UNCHANGED <<today, shifts, sessions, orders, lines, prechecks, payments,
                   closingVars>>

-----------------------------------------------------------------------------
(* Prechecks and payments.                                                 *)

IssuePrecheck(d, o) ==
    /\ Editable(d, o)
    /\ PricingSucceeds(o)
    /\ \E v \in Version :
          /\ prechecks[o][v].status = "none"
          /\ \A w \in Version : w < v => prechecks[o][w].status # "none"
          /\ prechecks' = [prechecks EXCEPT ![o][v] =
                 [status |-> "issued", total |-> GrandTotal(o), paid |-> 0]]
    /\ orders' = [orders EXCEPT ![o].status = "locked"]
    /\ UNCHANGED <<today, shifts, sessions, lines, discounts, payments, closingVars>>

CancelPrecheck(d, o, v) ==
    /\ orders[o].status = "locked"
    /\ orders[o].device = d
    /\ prechecks[o][v].status = "issued"
    /\ prechecks[o][v].paid = 0
    /\ prechecks' = [prechecks EXCEPT ![o][v].status = "cancelled"]
    /\ orders' = [orders EXCEPT ![o].status = "open"]
    /\ UNCHANGED <<today, shifts, sessions, lines, discounts, payments, closingVars>>

\* Mutant: what is already paid does not bound the next payment.
RecordPaymentUpToTotal(o, v, a, c, now) ==
    /\ prechecks[o][v].status = "issued"
    /\ a <= prechecks[o][v].total
    /\ \E p \in Payment \ DOMAIN payments :
          payments' = Insert(payments, p,
              [order |-> o, version |-> v, amount |-> a,
               shift |-> sessions[c].shift, date |-> now])

\* Mutant: the payment row takes the whole balance.
RecordPaymentOfBalance(o, v, a, c, now) ==
    /\ prechecks[o][v].status = "issued"
    /\ prechecks[o][v].paid + a <= prechecks[o][v].total
    /\ \E p \in Payment \ DOMAIN payments :
          payments' = Insert(payments, p,
              [order |-> o, version |-> v,
               amount |-> prechecks[o][v].total - prechecks[o][v].paid,
               shift |-> sessions[c].shift, date |-> now])

\* The rows a payment of amount a under cash session c writes in any case.
RecordPayment(o, v, a, c, now) ==
    /\ prechecks[o][v].status = "issued"
    /\ prechecks[o][v].paid + a <= prechecks[o][v].total
    /\ \E p \in Payment \ DOMAIN payments :
          payments' = Insert(payments, p,
              [order |-> o, version |-> v, amount |-> a,
               shift |-> sessions[c].shift, date |-> now])

\* The payment leaves a balance: only the precheck's totals change.
CapturePartialPayment(d, o, v, a) ==
    /\ orders[o].device = d
    /\ \E c \in DOMAIN sessions, now \in Clock :
          OpenSessionAt(c, d) /\ RecordPayment(o, v, a, c, now)
    /\ prechecks[o][v].paid + a # prechecks[o][v].total
    /\ prechecks' = [prechecks EXCEPT ![o][v].paid = @ + a]
    /\ UNCHANGED <<today, shifts, sessions, orders, lines, discounts, closingVars>>

\* The payment settles the precheck: the check, the closed order and the QR
\* tickets are written in the same transaction.
CaptureFinalPayment(d, o, v, a) ==
    /\ orders[o].device = d
    /\ \E c \in DOMAIN sessions, now \in Clock :
          /\ OpenSessionAt(c, d)
          /\ RecordPayment(o, v, a, c, now)
          /\ checks' = Insert(checks, o,
                 [total |-> prechecks[o][v].total, date |-> now, confirmed |-> FALSE])
    /\ prechecks[o][v].paid + a = prechecks[o][v].total
    /\ o \notin DOMAIN checks
    /\ ActiveLines(o) # {}
    /\ prechecks' = [prechecks EXCEPT ![o][v].paid = @ + a, ![o][v].status = "closed"]
    /\ orders' = [orders EXCEPT ![o].status = "closed"]
    /\ tickets' = [tickets EXCEPT ![o] =
           [l \in Line |-> IF l \in TicketLines(o) THEN "active" ELSE @[l]]]
    /\ UNCHANGED <<today, shifts, sessions, lines, discounts, ledger, printed>>

\* CloseOrder of POST /orders/{id}/close: the guard under which it would act.
CloseOrderEnabled(o) ==
    /\ orders[o].status = "open"
    /\ o \in DOMAIN checks

-----------------------------------------------------------------------------
(* Compensation of a closed check.                                         *)

\* ensureFinancialBoundary
CancellationAllowed(s, c, o, now) ==
    /\ shifts[s].open
    /\ sessions[c].shift = s
    /\ checks[o].date = now

\* Mutant: any time after the sale will do.
RefundAllowedAnyTime(s, o, now) == s \in DOMAIN shifts /\ checks[o].date <= now

RefundAllowed(s, o, now) == ~shifts[s].open \/ checks[o].date # now

\* recordFinancialOperation but for the boundary check: the open cash session
\* of the order's device and the amount left to compensate.  The client knows
\* the check when it asks, so the clock is not before the check's date.
Compensable(d, o, a, c, now) ==
    /\ orders[o].device = d
    /\ OpenSessionAt(c, d)
    /\ a <= Remaining(o)
    /\ now >= checks[o].date

RecordCancellation(d, o, a) ==
    /\ \E c \in DOMAIN sessions, now \in Clock :
          /\ Compensable(d, o, a, c, now)
          /\ CancellationAllowed(orders[o].shift, c, o, now)
    /\ ledger' = [ledger EXCEPT ![o].cancellation = @ + a]
    /\ UNCHANGED <<today, shifts, sessions, salesVars, checks, tickets, printed>>

RecordRefund(d, o, a) ==
    /\ \E c \in DOMAIN sessions, now \in Clock :
          /\ Compensable(d, o, a, c, now)
          /\ RefundAllowed(orders[o].shift, o, now)
    /\ ledger' = [ledger EXCEPT ![o].refund = @ + a]
    /\ UNCHANGED <<today, shifts, sessions, salesVars, checks, tickets, printed>>

\* The boundary is checked against the shift of the cash session open now.
CancelUnconfirmedOrder(d, o) ==
    /\ orders[o].device = d
    /\ orders[o].status # "cancelled"
    /\ ~checks[o].confirmed
    /\ \E c \in DOMAIN sessions, now \in Clock :
          /\ OpenSessionAt(c, d)
          /\ CancellationAllowed(sessions[c].shift, c, o, now)
    /\ Remaining(o) > 0
    /\ ledger' = [ledger EXCEPT ![o].cancellation = @ + Remaining(o)]
    /\ tickets' = [tickets EXCEPT ![o] =
           [l \in Line |-> IF @[l] = "active" THEN "voided" ELSE @[l]]]
    /\ orders' = [orders EXCEPT ![o].status = "cancelled"]
    /\ UNCHANGED <<today, shifts, sessions, lines, discounts, prechecks, payments,
                   checks, printed>>

\* Mutant: the tickets do not matter.
ReadyWithoutTickets(o, docs) == o \in DOMAIN checks /\ "check" \in docs

\* MarkCheckPrintConfirmedIfReady: only active tickets have to be printed.
ReadyToConfirm(o, docs) ==
    /\ "check" \in docs
    /\ \A l \in Line : tickets[o][l] = "active" => l \in docs

\* MarkPrintJobTargetSucceeded: a job of the check or of one of its tickets is
\* done.  Voiding a ticket does not stop its job.
PrintDocument(o, doc) ==
    /\ doc \in {"check"} \cup {l \in Line : tickets[o][l] # "none"}
    /\ doc \notin printed[o]
    /\ printed' = [printed EXCEPT ![o] = @ \cup {doc}]
    /\ UNCHANGED <<today, shifts, sessions, salesVars, checks, ledger, tickets>>

\* maybeConfirmCheckPrint follows in a transaction of its own: other commands may
\* come between, and when the process dies it does not come at all.
ConfirmCheckPrint(o) ==
    /\ ~checks[o].confirmed
    /\ ReadyToConfirm(o, printed[o])
    /\ checks' = [checks EXCEPT ![o].confirmed = TRUE]
    /\ UNCHANGED <<today, shifts, sessions, salesVars, ledger, tickets, printed>>

-----------------------------------------------------------------------------
ShiftCommand ==
    \/ \E e \in Employee, d \in Device :
          OpenShift(e, d) \/ OpenCashSession(e, d) \/ CreateOrder(e, d)
    \/ \E e \in Employee, s \in DOMAIN shifts : CloseShift(e, s)
    \/ \E d \in Device, c \in DOMAIN sessions : CloseCashSession(d, c)

LineCommand ==
    \E o \in DOMAIN orders, l \in Line :
       \/ \E q \in Content : AddOrderLine(o, l, q)
       \/ \E d \in Device, q \in Content : EditOrderLine(d, o, l, q)
       \/ \E d \in Device : VoidOrderLine(d, o, l)
       \/ \E d \in Device : AddDiscount(d, o, l)

PrecheckCommand ==
    \E o \in DOMAIN orders, d \in Device :
       \/ IssuePrecheck(d, o)
       \/ \E v \in Version : CancelPrecheck(d, o, v)
       \/ \E v \in Version, a \in Amount :
             CapturePartialPayment(d, o, v, a) \/ CaptureFinalPayment(d, o, v, a)

CheckCommand ==
    \E o \in DOMAIN checks :
       \/ \E d \in Device, a \in Amount : RecordCancellation(d, o, a) \/ RecordRefund(d, o, a)
       \/ \E d \in Device : CancelUnconfirmedOrder(d, o)
       \/ \E doc \in Document : PrintDocument(o, doc)
       \/ ConfirmCheckPrint(o)

Next ==
    \/ NextBusinessDate
    \/ ShiftCommand
    \/ LineCommand
    \/ PrecheckCommand
    \/ CheckCommand

Spec == Init /\ [][Next]_vars

-----------------------------------------------------------------------------
(* Properties.                                                             *)

\* Every table holds rows of its schema, and a check refers to its order.
TypeOK ==
    /\ today \in 1..MaxDate
    /\ IsTable(shifts, Shift, ShiftRow)
    /\ IsTable(sessions, Session, SessionRow)
    /\ IsTable(orders, Order, OrderRow)
    /\ lines \in [Order -> Basket]
    /\ discounts \in [Order -> SUBSET Line]
    /\ prechecks \in [Order -> [Version -> PrecheckRow]]
    /\ IsTable(payments, Payment, PaymentRow)
    /\ IsTable(checks, Order, CheckRow)
    /\ DOMAIN checks \subseteq DOMAIN orders
    /\ ledger \in [Order -> LedgerRow]
    /\ tickets \in [Order -> [Line -> {"none", "active", "voided"}]]
    /\ printed \in [Order -> SUBSET Document]

\* No work is left behind a closed shift: the shift of every unfinished order
\* and of every open cash session is open, and the cash session stands on the
\* device of its shift.  CloseShift looks for sessions by device only, and
\* OpenCashSession may be sent from another device than the shift's.
WorkHasOpenShift ==
    /\ \A o \in DOMAIN orders :
          /\ orders[o].shift \in DOMAIN shifts
          /\ orders[o].status \in {"open", "locked"} => shifts[orders[o].shift].open
    /\ \A c \in DOMAIN sessions :
          /\ sessions[c].shift \in DOMAIN shifts
          /\ sessions[c].device = shifts[sessions[c].shift].device
          /\ sessions[c].open => shifts[sessions[c].shift].open

\* The cash session a payment or a compensation finds by device, and the shift
\* a command finds by operator, are the only open ones there are.
OpenRowsAreUnique ==
    /\ \A s, t \in DOMAIN shifts :
          shifts[s].open /\ shifts[t].open /\ shifts[s].owner = shifts[t].owner => s = t
    /\ \A c, x \in DOMAIN sessions :
          sessions[c].open /\ sessions[x].open /\ sessions[c].device = sessions[x].device
              => c = x

NeverIssued(o) == \A v \in Version : prechecks[o][v] = NoPrecheck

\* Version v is the order's last precheck and has status st; those before it
\* were cancelled without money on them.
LastPrecheck(o, v, st) ==
    /\ prechecks[o][v].status = st
    /\ \A w \in Version :
          /\ w < v => prechecks[o][w].status = "cancelled" /\ prechecks[o][w].paid = 0
          /\ w > v => prechecks[o][w] = NoPrecheck

PrechecksFit(o) ==
    /\ o \notin DOMAIN orders => NeverIssued(o)
    /\ o \in DOMAIN orders =>
          /\ orders[o].status = "open" =>
                \/ NeverIssued(o)
                \/ \E v \in Version :
                      LastPrecheck(o, v, "cancelled") /\ prechecks[o][v].paid = 0
          /\ orders[o].status = "locked" =>
                \E v \in Version :
                   /\ LastPrecheck(o, v, "issued")
                   /\ \/ prechecks[o][v].paid < prechecks[o][v].total
                      \/ prechecks[o][v].paid = 0
          /\ orders[o].status \in {"closed", "cancelled"} =>
                \E v \in Version :
                   /\ LastPrecheck(o, v, "closed")
                   /\ prechecks[o][v].paid = prechecks[o][v].total

\* The status of an order and of its prechecks move together over issue,
\* cancel, reissue and payment: a locked order has exactly one issued precheck
\* and a balance left on it (or nothing to pay at all), a finished order a
\* fully paid one, an open order none.
PrecheckFollowsOrder == \A o \in Order : PrechecksFit(o)

\* What the guest is asked to pay, and paid, is the price of the lines and
\* discounts the order has now: nothing changes them behind a live precheck,
\* although AddOrderLine, alone, does not compare devices.
BillMatchesBasket ==
    \A o \in Order, v \in Version :
       prechecks[o][v].status \in {"issued", "closed"} =>
          prechecks[o][v].total = GrandTotal(o)

\* What the payments of a set brought.
Paid(rows) == SumFunctionOnSet([p \in DOMAIN payments |-> payments[p].amount], rows)

\* The money the payments table holds is the money the prechecks claim, payment
\* by payment, and what a finished order collected is the total of its check.
MoneyIsAccounted ==
    /\ \A o \in Order, v \in Version :
          prechecks[o][v].paid =
             Paid({p \in DOMAIN payments : payments[p].order = o /\ payments[p].version = v})
    /\ \A o \in DOMAIN checks :
          checks[o].total = Paid({p \in DOMAIN payments : payments[p].order = o})

\* A final check exists for the finished orders and for no other, and carries
\* the total of the closed precheck.
CheckForFinishedOrder ==
    /\ \A o \in DOMAIN orders :
          o \in DOMAIN checks <=> orders[o].status \in {"closed", "cancelled"}
    /\ \A o \in DOMAIN checks :
          /\ checks[o].date <= today
          /\ \A v \in Version :
                prechecks[o][v].status = "closed" => checks[o].total = prechecks[o][v].total

\* However cancellations, refunds and the cancellation of an unconfirmed check
\* are mixed, they never exceed the check; a cancelled order is compensated in
\* full and none of its tickets admits anyone.
CompensationWithinCheck ==
    \A o \in Order :
       /\ o \notin DOMAIN checks => ledger[o] = EmptyLedger
       /\ o \in DOMAIN checks => ledger[o].refund + ledger[o].cancellation <= checks[o].total
       /\ o \in DOMAIN checks /\ orders[o].status = "cancelled" =>
             /\ ledger[o].refund + ledger[o].cancellation = checks[o].total
             /\ \A l \in Line : tickets[o][l] # "active"

\* Refunds exist only past the financial boundary: once one is recorded, the
\* waiter's shift is closed or the business date of the sale is over, for good.
RefundIsPastBoundary ==
    \A o \in DOMAIN checks :
       ledger[o].refund > 0 => ~shifts[orders[o].shift].open \/ checks[o].date < today

\* Tickets admit exactly the paid QR lines: they exist from the transaction
\* that closes the check, one per active QR line, print only after it, and the check counts as confirmed
\* only when it and every ticket that still admits someone are on paper.
TicketsOfPaidLines ==
    \A o \in Order :
       /\ \A l \in Line :
             tickets[o][l] # "none" <=> o \in DOMAIN checks /\ l \in TicketLines(o)
       /\ printed[o] # {} => o \in DOMAIN checks
       /\ o \in DOMAIN checks /\ checks[o].confirmed =>
             /\ "check" \in printed[o]
             /\ \A l \in Line : tickets[o][l] = "active" => l \in printed[o]

\* POST /orders/{id}/close never finds an order to close: the payment that
\* writes the final check closes the order in the same transaction.
CloseOrderNeverApplies == \A o \in DOMAIN orders : ~CloseOrderEnabled(o)

\* A step keeps the finished sale o.
SaleKept(o) ==
    /\ o \in DOMAIN checks'
    /\ checks'[o].total = checks[o].total /\ checks'[o].date = checks[o].date
    /\ checks[o].confirmed => checks'[o].confirmed
    /\ lines'[o] = lines[o] /\ discounts'[o] = discounts[o]
    /\ prechecks'[o] = prechecks[o]
    /\ \A p \in DOMAIN payments' :
          payments'[p].order = o => p \in DOMAIN payments /\ payments'[p] = payments[p]
    /\ ledger'[o].refund >= ledger[o].refund
    /\ ledger'[o].cancellation >= ledger[o].cancellation
    /\ orders'[o].status \in {orders[o].status, "cancelled"}

\* A finished sale is never rewritten: whatever follows a check leaves its
\* total and date, its basket, prechecks and payments as they were, only adds
\* to the compensations, keeps the print confirmation, and moves the order
\* from closed to cancelled at most.
FinishedSaleIsFinal == [][\A o \in DOMAIN checks : SaleKept(o)]_vars

\* The sale of order o is past its financial boundary: its check may be refunded.  A
\* cancellation may still come, by a command that read the clock before, or by
\* CancelUnconfirmedOrder, which looks at the shift of the session open now.
Late(o) ==
    /\ o \in DOMAIN checks
    /\ ~shifts[orders[o].shift].open \/ checks[o].date < today

\* Order by order, the commands implement the ledger of CheckLedger: the total
\* is set once, both kinds of compensation accumulate within it, and refunds
\* come only past a boundary that is not crossed back.
Ledger(o) ==
    INSTANCE CheckLedger WITH
        total <- IF o \in DOMAIN checks THEN checks[o].total ELSE 0,
        cancelled <- ledger[o].cancellation,
        refunded <- ledger[o].refund,
        late <- Late(o)
ImplementsCheckLedger ==
    /\ \A o \in Order : Ledger(o)!Init
    /\ [][\A o \in Order : Ledger(o)!Next \/ UNCHANGED Ledger(o)!ledgerVars]_vars
=============================================================================
