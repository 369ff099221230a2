------------------------ MODULE FinancialOperations ------------------------
(***************************************************************************)
(* Compensating operations of one final check, item by item                *)
(* (pos-backend/internal/pos/app/check/financial_operations.go and         *)
(* RefundPayment of service.go).  PosSales keeps only the sums this module *)
(* details; the boundary it computes from shifts, cash sessions and dates  *)
(* is one variable here.                                                   *)
(***************************************************************************)
EXTENDS Integers, Sequences, FiniteSets, Functions

CONSTANTS
    LinePrice,      \* lines of the order behind the check -> total_price
    LineQuantity,   \* the same lines -> quantity
    Captured,       \* payments captured for the closed precheck -> amount
    CheckTotal,     \* total of the check
    Client,         \* callers of RefundPayment
    MaxItems        \* bound: items of one operation

ASSUME OperationsAssumption ==
    /\ DOMAIN LineQuantity = DOMAIN LinePrice
    /\ \A l \in DOMAIN LinePrice : LinePrice[l] \in Nat /\ LineQuantity[l] \in Nat \ {0}
    /\ \A p \in DOMAIN Captured : Captured[p] \in Nat \ {0}
    /\ CheckTotal \in Nat /\ CheckTotal = SumFunction(Captured)
    /\ MaxItems \in Nat \ {0}

VARIABLES
    operations,     \* tables financial_operations and financial_operation_items
    boundary,       \* where the sale stands for ensureFinancialBoundary
    refunding       \* RefundPayment calls between their reads and RecordRefund

financialVars == <<operations, boundary, refunding>>

\* The boundary is "own" while the cash session runs under the order's open
\* shift on the business date of the check, "other" while it runs under another
\* shift, and "past" once the shift is closed or the date is over.
Boundary == {"own", "other", "past"}

Amounts == 1..CheckTotal
Quantities(l) == 0..LineQuantity[l]

\* An item names what its scope asks for and nothing else; quantity 0 stands for
\* no quantity; explicit: the caller sends the item's snapshot (on a line, then,
\* without a quantity: a bound).  The scopes
\* without a limit of their own (modifier_line, service_charge and tip, which
\* demand a snapshot) count as whole_check.
Item ==
         [scope : {"whole_check"}, amount : Amounts, explicit : {TRUE}]
    \cup [scope : {"payment"}, payment : DOMAIN Captured, amount : Amounts, explicit : BOOLEAN]
    \cup (UNION {[scope : {"order_line"}, line : {l}, quantity : Quantities(l),
                  amount : Amounts, explicit : {FALSE}] : l \in DOMAIN LinePrice})
    \cup [scope : {"order_line"}, line : DOMAIN LinePrice, quantity : {0},
          amount : Amounts, explicit : {TRUE}]

SumAmounts(items) == SumFunction([k \in DOMAIN items |-> items[k].amount])

\* The lists of items a caller sends; MaxItems and the check bound them.
ItemLists ==
    {items \in UNION {[1..n -> Item] : n \in 1..MaxItems} : SumAmounts(items) <= CheckTotal}

NoCall == [payment |-> "none", kind |-> "none"]

OperationsInit ==
    /\ operations = <<>>
    /\ boundary = "own"
    /\ refunding = [c \in Client |-> NoCall]

-----------------------------------------------------------------------------
(* Sums over the committed rows.                                           *)

OperationAmount == [n \in DOMAIN operations |-> operations[n].amount]
SumByType(type) ==
    SumFunctionOnSet(OperationAmount, {n \in DOMAIN operations : operations[n].type = type})

\* The items of all operations, each at its place in its operation.
Places == UNION {{n} \X (DOMAIN operations[n].items) : n \in DOMAIN operations}
ItemAt(at) == operations[at[1]].items[at[2]]
IsOfLine(i, l) == i.scope = "order_line" /\ i.line = l
IsOfPayment(i, p) == i.scope = "payment" /\ i.payment = p
OfLine(l) == {at \in Places : IsOfLine(ItemAt(at), l)}
OfPayment(p) == {at \in Places : IsOfPayment(ItemAt(at), p)}

ItemAmount == [at \in Places |-> ItemAt(at).amount]
SumByLine(l) == SumFunctionOnSet(ItemAmount, OfLine(l))
QuantityByLine(l) == SumFunction([at \in OfLine(l) |-> ItemAt(at).quantity])
SumByPayment(p) == SumFunctionOnSet(ItemAmount, OfPayment(p))

RemainingCompensable == CheckTotal - SumByType("refund") - SumByType("cancellation")

-----------------------------------------------------------------------------
(* recordFinancialOperation.                                               *)

\* maxLineItemAmount: the price of the selected quantity, rounded half up.
MaxLineItemAmount(l, q) ==
    IF q = 0 \/ q >= LineQuantity[l] THEN LinePrice[l]
    ELSE (LinePrice[l] * q + LineQuantity[l] \div 2) \div LineQuantity[l]

\* Mutant: what was compensated before is not added.
LineItemFitsAlone(i) == i.amount <= MaxLineItemAmount(i.line, i.quantity)

LineItemFits(i) ==
    /\ i.amount <= MaxLineItemAmount(i.line, i.quantity)
    /\ SumByLine(i.line) + i.amount <= LinePrice[i.line]
    /\ QuantityByLine(i.line) + i.quantity <= LineQuantity[i.line]

PaymentItemFits(i) == SumByPayment(i.payment) + i.amount <= Captured[i.payment]

\* operationItemSnapshot: an explicit snapshot is taken as it is; the limits
\* are those of the committed operations.
ItemAccepted(i) ==
    \/ i.explicit
    \/ i.scope = "order_line" /\ LineItemFits(i)
    \/ i.scope = "payment" /\ PaymentItemFits(i)

\* ensureFinancialBoundary
BoundaryAllows(type) ==
    \/ type = "cancellation" /\ boundary = "own"
    \/ type = "refund" /\ boundary = "past"

\* normalizeOperationKind: an empty kind becomes the one that fits...
NormalizedKind(kind, amount) ==
    IF kind # "none" THEN kind
    ELSE IF amount = RemainingCompensable THEN "full" ELSE "partial"

\* ...and a named one must fit.
KindAccepted(kind, amount) ==
    /\ kind = "full" => amount = RemainingCompensable
    /\ kind = "partial" => amount < RemainingCompensable

OperationAllowed(type) == BoundaryAllows(type) /\ RemainingCompensable > 0

ItemsAccepted(kind, items) ==
    /\ SumAmounts(items) <= RemainingCompensable
    /\ KindAccepted(kind, SumAmounts(items))
    /\ \A k \in DOMAIN items : ItemAccepted(items[k])

CreateFinancialOperation(type, kind, items) ==
    operations' = Append(operations,
        [type |-> type, kind |-> NormalizedKind(kind, SumAmounts(items)),
         amount |-> SumAmounts(items), items |-> items])

\* RecordCancellation and RecordRefund with items of the caller's choice; an
\* empty list is one item for the whole remaining check.
RecordFinancialOperation(type) ==
    /\ OperationAllowed(type)
    /\ \E kind \in {"none", "full", "partial"}, items \in ItemLists :
          ItemsAccepted(kind, items) /\ CreateFinancialOperation(type, kind, items)
    /\ UNCHANGED <<boundary, refunding>>

\* RefundPayment reads the sums and decides on the kind outside a transaction...
ReadForRefund(c, p) ==
    /\ refunding[c] = NoCall
    /\ refunding' = [refunding EXCEPT ![c] =
           [payment |-> p,
            kind |-> IF Captured[p] = RemainingCompensable THEN "full" ELSE "partial"]]
    /\ UNCHANGED <<operations, boundary>>

PaymentItems(p) ==
    <<[scope |-> "payment", payment |-> p, amount |-> Captured[p], explicit |-> FALSE]>>

\* ...and records the refund in one: other operations may have come between.
RecordPaymentRefund(c) ==
    /\ refunding[c] # NoCall
    /\ OperationAllowed("refund")
    /\ ItemsAccepted(refunding[c].kind, PaymentItems(refunding[c].payment))
    /\ CreateFinancialOperation("refund", refunding[c].kind, PaymentItems(refunding[c].payment))
    /\ refunding' = [refunding EXCEPT ![c] = NoCall]
    /\ UNCHANGED boundary

\* The transaction rejects the refund: the call ends with an error.
FailPaymentRefund(c) ==
    /\ refunding[c] # NoCall
    /\ ~ /\ OperationAllowed("refund")
         /\ ItemsAccepted(refunding[c].kind, PaymentItems(refunding[c].payment))
    /\ refunding' = [refunding EXCEPT ![c] = NoCall]
    /\ UNCHANGED <<operations, boundary>>

\* The cash session changes shifts, the shift closes, the date changes.
MoveBoundary ==
    /\ boundary # "past"
    /\ boundary' \in Boundary \ {boundary}
    /\ UNCHANGED <<operations, refunding>>

OperationsNext ==
    \/ \E type \in {"cancellation", "refund"} : RecordFinancialOperation(type)
    \/ \E c \in Client, p \in DOMAIN Captured : ReadForRefund(c, p)
    \/ \E c \in Client : RecordPaymentRefund(c) \/ FailPaymentRefund(c)
    \/ MoveBoundary

OperationsSpec == OperationsInit /\ [][OperationsNext]_financialVars

-----------------------------------------------------------------------------
(* Properties.                                                             *)

\* Rows keep their schema; no call is left in an unknown state.
OperationsTypeOK ==
    /\ operations \in Seq([type : {"cancellation", "refund"}, kind : {"full", "partial"},
                           amount : Amounts, items : ItemLists])
    /\ \A n \in DOMAIN operations : operations[n].amount = SumAmounts(operations[n].items)
    /\ boundary \in Boundary
    /\ refunding \in [Client ->
           {NoCall} \cup [payment : DOMAIN Captured, kind : {"full", "partial"}]]

\* The items on which the limits of a line or of a payment were applied one by one:
\* no operation has two of them and none brings a snapshot of its own.
LimitedOneByOne(places) ==
    \A at \in places :
       /\ ~ItemAt(at).explicit
       /\ \A other \in places : other[1] = at[1] => other = at

\* As long as operations name a line or a payment once and without a snapshot
\* of their own, cancellations and refunds of any mix and order never give back
\* more than the line's price, its quantity, or what the payment brought.
LimitsHoldAcrossOperations ==
    /\ \A l \in DOMAIN LinePrice :
          LimitedOneByOne(OfLine(l)) =>
             SumByLine(l) <= LinePrice[l] /\ QuantityByLine(l) <= LineQuantity[l]
    /\ \A p \in DOMAIN Captured :
          LimitedOneByOne(OfPayment(p)) => SumByPayment(p) <= Captured[p]

SumUpTo(n) == SumFunctionOnSet(OperationAmount, 1..n)

\* "full" is said of exactly the operation that leaves nothing of the check,
\* although RefundPayment decides on the kind before its transaction: at most
\* one operation is full, and it is the last.
KindTellsTheTruth ==
    \A n \in DOMAIN operations : operations[n].kind = "full" <=> SumUpTo(n) = CheckTotal

\* What cancellations and refunds of any mix and order give back stays within the price
\* and the quantity of a line and what a payment brought, and their kinds tell which one
\* gave back the rest.
OperationsStayInBounds == LimitsHoldAcrossOperations /\ KindTellsTheTruth

\* The operations of a check implement the ledger of CheckLedger.
LedgerOfCheck ==
    INSTANCE CheckLedger WITH
        total <- CheckTotal,
        cancelled <- SumByType("cancellation"),
        refunded <- SumByType("refund"),
        late <- boundary = "past"
OperationsKeepTheLedger == LedgerOfCheck!Spec
=============================================================================
