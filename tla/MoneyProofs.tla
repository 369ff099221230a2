----------------------------- MODULE MoneyProofs ----------------------------
(***************************************************************************)
(* Proofs about money, for any number of operators, devices, shifts,       *)
(* sessions, orders, payments, operations, items and events and every      *)
(* price list that meets the modules' assumptions.                         *)
(*                                                                         *)
(* PosSales: type correctness, the safety invariants, and that the         *)
(* commands implement, order by order, the ledger of CheckLedger.  None of *)
(* the invariants is inductive alone: a closed check is safe because its   *)
(* order is finished, the order is finished because its precheck is paid,  *)
(* a precheck is paid at the price of lines that only an open order may    *)
(* change.  IInv is their conjunction; its proof has one lemma per action, *)
(* and under it one step per part the action disturbs.                     *)
(*                                                                         *)
(* Then sums: that payments add up to what they pay (PosSales), that       *)
(* compensations of a check stay within it, item by item, and keep its     *)
(* ledger (FinancialOperations), that the books of the Cloud close over    *)
(* whatever is on its way (CloudBooks), and that a bill and its lines      *)
(* agree, however it is discounted, and goes on being priced (Pricing).    *)
(***************************************************************************)
EXTENDS Money, PosSales, SumProofs, SequenceTheorems, FiniteSetTheorems, TLAPS

-----------------------------------------------------------------------------
(* Tables.                                                                 *)

\* A table stays one when a row of its schema is inserted.
LEMMA InsertIntoTable ==
    ASSUME NEW table, NEW ids, NEW schema, IsTable(table, ids, schema),
           NEW id \in ids, NEW row \in schema
    PROVE  /\ IsTable(Insert(table, id, row), ids, schema)
           /\ DOMAIN Insert(table, id, row) = DOMAIN table \cup {id}
           /\ Insert(table, id, row)[id] = row
           /\ \A x \in DOMAIN table : x # id => Insert(table, id, row)[x] = table[x]
  BY DEF IsTable, Insert

\* A table stays one when a row is replaced by another of its schema.
LEMMA UpdateOfTable ==
    ASSUME NEW table, NEW ids, NEW schema, IsTable(table, ids, schema),
           NEW id \in DOMAIN table, NEW row \in schema
    PROVE  IsTable([table EXCEPT ![id] = row], ids, schema)
  BY DEF IsTable

\* The empty table is a table of any schema.
LEMMA EmptyIsTable == \A ids, schema : IsTable(EmptyTable, ids, schema)
  BY DEF IsTable, EmptyTable

-----------------------------------------------------------------------------
(* Type correctness: one lemma for the initial state, one per action.      *)

\* The first state is well typed.
LEMMA TypeInit == Init => TypeOK
  BY ConstantsAssumption, EmptyIsTable
  DEF Init, TypeOK, Basket, NoPrecheck, PrecheckRow, EmptyLedger, LedgerRow, Version

\* The date stays within its bound.
LEMMA TypeNextBusinessDate == TypeOK /\ NextBusinessDate => TypeOK'
  BY ConstantsAssumption
  DEF TypeOK, IsTable, NextBusinessDate, salesVars, closingVars

\* OpenShift inserts a shift row.
LEMMA TypeOpenShift ==
    ASSUME TypeOK, NEW e \in Employee, NEW d \in Device, OpenShift(e, d)
    PROVE  TypeOK'
  <1>1. PICK s \in Shift \ DOMAIN shifts, row \in ShiftRow : shifts' = Insert(shifts, s, row)
    <2>1. [owner |-> e, device |-> d, open |-> TRUE] \in ShiftRow
      BY DEF ShiftRow
    <2> QED BY <2>1 DEF OpenShift
  <1>2. IsTable(shifts, Shift, ShiftRow)'
    BY <1>1, InsertIntoTable DEF TypeOK
  <1> QED BY <1>2 DEF TypeOK, OpenShift, salesVars, closingVars

\* CloseShift changes one column of a shift row.
LEMMA TypeCloseShift ==
    ASSUME TypeOK, NEW e \in Employee, NEW s \in DOMAIN shifts, CloseShift(e, s)
    PROVE  TypeOK'
  <1>1. shifts[s] \in ShiftRow /\ [shifts[s] EXCEPT !.open = FALSE] \in ShiftRow
    BY DEF TypeOK, IsTable, ShiftRow
  <1>2. shifts' = [shifts EXCEPT ![s] = [shifts[s] EXCEPT !.open = FALSE]]
    BY DEF CloseShift
  <1>3. IsTable(shifts, Shift, ShiftRow)'
    BY <1>1, <1>2, UpdateOfTable DEF TypeOK
  <1> QED BY <1>3 DEF TypeOK, CloseShift, salesVars, closingVars

\* OpenCashSession inserts a session row on the shift's device.
LEMMA TypeOpenCashSession ==
    ASSUME TypeOK, NEW e \in Employee, NEW d \in Device, OpenCashSession(e, d)
    PROVE  TypeOK'
  <1>1. PICK s \in DOMAIN shifts, c \in Session \ DOMAIN sessions, row \in SessionRow :
           sessions' = Insert(sessions, c, row)
    <2>1. PICK s \in DOMAIN shifts, c \in Session \ DOMAIN sessions :
             sessions' = Insert(sessions, c,
                           [device |-> shifts[s].device, shift |-> s, open |-> TRUE])
      BY DEF OpenCashSession
    <2>2. [device |-> shifts[s].device, shift |-> s, open |-> TRUE] \in SessionRow
      BY DEF SessionRow, TypeOK, IsTable, ShiftRow
    <2> QED BY <2>1, <2>2
  <1>2. IsTable(sessions, Session, SessionRow)'
    BY <1>1, InsertIntoTable DEF TypeOK
  <1> QED BY <1>2 DEF TypeOK, OpenCashSession, salesVars, closingVars

\* CloseCashSession changes one column of a session row.
LEMMA TypeCloseCashSession ==
    ASSUME TypeOK, NEW d \in Device, NEW c \in DOMAIN sessions, CloseCashSession(d, c)
    PROVE  TypeOK'
  <1>1. sessions[c] \in SessionRow /\ [sessions[c] EXCEPT !.open = FALSE] \in SessionRow
    BY DEF TypeOK, IsTable, SessionRow
  <1>2. sessions' = [sessions EXCEPT ![c] = [sessions[c] EXCEPT !.open = FALSE]]
    BY DEF CloseCashSession
  <1>3. IsTable(sessions, Session, SessionRow)'
    BY <1>1, <1>2, UpdateOfTable DEF TypeOK
  <1> QED BY <1>3 DEF TypeOK, CloseCashSession, salesVars, closingVars

\* CreateOrder inserts an order row.
LEMMA TypeCreateOrder ==
    ASSUME TypeOK, NEW e \in Employee, NEW d \in Device, CreateOrder(e, d)
    PROVE  TypeOK'
  <1>1. PICK o \in Order \ DOMAIN orders, row \in OrderRow : orders' = Insert(orders, o, row)
    <2>1. PICK s \in DOMAIN shifts, o \in Order \ DOMAIN orders :
             orders' = Insert(orders, o, [device |-> d, shift |-> s, status |-> "open"])
      BY DEF CreateOrder
    <2>2. [device |-> d, shift |-> s, status |-> "open"] \in OrderRow
      BY DEF OrderRow, TypeOK, IsTable
    <2> QED BY <2>1, <2>2
  <1>2. IsTable(orders, Order, OrderRow)'
    BY <1>1, InsertIntoTable DEF TypeOK
  <1>3. DOMAIN orders \subseteq DOMAIN orders'
    BY <1>1 DEF Insert
  <1> QED BY <1>2, <1>3 DEF TypeOK, CreateOrder, closingVars

\* Writing a content or a void mark to a line keeps baskets baskets.
LEMMA TypeLines ==
    ASSUME TypeOK, NEW o \in Order, NEW l \in Line, NEW q \in {VoidedLine} \cup Content,
           lines' = [lines EXCEPT ![o][l] = q],
           UNCHANGED <<today, shifts, sessions, orders, discounts, prechecks, payments,
                       closingVars>>
    PROVE  TypeOK'
  <1>1. lines' \in [Order -> Basket]
    BY DEF TypeOK, Basket
  <1> QED BY <1>1 DEF TypeOK, closingVars

\* The line and discount commands keep every table typed.
LEMMA TypeLineCommand ==
    ASSUME TypeOK, NEW o \in DOMAIN orders, NEW l \in Line, NEW d \in Device
    PROVE  /\ \A q \in Content : AddOrderLine(o, l, q) => TypeOK'
           /\ \A q \in Content : EditOrderLine(d, o, l, q) => TypeOK'
           /\ VoidOrderLine(d, o, l) => TypeOK'
           /\ AddDiscount(d, o, l) => TypeOK'
  <1>0. o \in Order
    BY DEF TypeOK, IsTable
  <1>1. ASSUME NEW q \in Content, AddOrderLine(o, l, q) PROVE TypeOK'
    BY <1>0, <1>1, TypeLines DEF AddOrderLine
  <1>2. ASSUME NEW q \in Content, EditOrderLine(d, o, l, q) PROVE TypeOK'
    BY <1>0, <1>2, TypeLines DEF EditOrderLine
  <1>3. ASSUME VoidOrderLine(d, o, l) PROVE TypeOK'
    BY <1>0, <1>3, TypeLines DEF VoidOrderLine
  <1>4. ASSUME AddDiscount(d, o, l) PROVE TypeOK'
    <2>1. discounts' \in [Order -> SUBSET Line]
      BY <1>0, <1>4 DEF AddDiscount, TypeOK
    <2> QED BY <1>4, <2>1 DEF AddDiscount, TypeOK, closingVars
  <1> QED BY <1>1, <1>2, <1>3, <1>4

\* An accepted price is a natural number, so the new precheck is a row.
LEMMA TypeIssuePrecheck ==
    ASSUME TypeOK, NEW d \in Device, NEW o \in DOMAIN orders, IssuePrecheck(d, o)
    PROVE  TypeOK'
  <1>0. o \in Order /\ orders[o] \in OrderRow
    BY DEF TypeOK, IsTable
  <1>1. GrandTotal(o) \in Nat
    BY <1>0, PriceAssumption DEF TypeOK, IssuePrecheck, PricingSucceeds, GrandTotal
  <1>2. [status |-> "issued", total |-> GrandTotal(o), paid |-> 0] \in PrecheckRow
    BY <1>1 DEF PrecheckRow
  <1>3. prechecks' \in [Order -> [Version -> PrecheckRow]]
    BY <1>0, <1>2 DEF TypeOK, IssuePrecheck
  <1>4. orders' = [orders EXCEPT ![o] = [orders[o] EXCEPT !.status = "locked"]]
    BY DEF IssuePrecheck
  <1>5. [orders[o] EXCEPT !.status = "locked"] \in OrderRow
    BY <1>0 DEF OrderRow
  <1>6. IsTable(orders, Order, OrderRow)'
    BY <1>4, <1>5, UpdateOfTable DEF TypeOK
  <1> QED BY <1>3, <1>6 DEF TypeOK, IssuePrecheck, closingVars

\* A precheck row stays one when its status becomes cancelled.
LEMMA CancelledRow ==
    \A r \in PrecheckRow : [r EXCEPT !.status = "cancelled"] \in PrecheckRow
  BY DEF PrecheckRow

\* CancelPrecheck changes the status of a precheck and of its order.
LEMMA TypeCancelPrecheck ==
    ASSUME TypeOK, NEW d \in Device, NEW o \in DOMAIN orders, NEW v \in Version,
           CancelPrecheck(d, o, v)
    PROVE  TypeOK'
  <1>0. o \in Order /\ orders[o] \in OrderRow
    BY DEF TypeOK, IsTable
  <1>1. [prechecks[o][v] EXCEPT !.status = "cancelled"] \in PrecheckRow
    <2>1. prechecks[o][v] \in PrecheckRow
      BY <1>0 DEF TypeOK
    <2> QED BY <2>1, CancelledRow
  <1>2. prechecks' =
          [prechecks EXCEPT ![o][v] = [prechecks[o][v] EXCEPT !.status = "cancelled"]]
    BY DEF CancelPrecheck
  <1>3. prechecks' \in [Order -> [Version -> PrecheckRow]]
    BY <1>0, <1>1, <1>2 DEF TypeOK
  <1>4. orders' = [orders EXCEPT ![o] = [orders[o] EXCEPT !.status = "open"]]
    BY DEF CancelPrecheck
  <1>5. [orders[o] EXCEPT !.status = "open"] \in OrderRow
    BY <1>0 DEF OrderRow
  <1>6. IsTable(orders, Order, OrderRow)'
    BY <1>4, <1>5, UpdateOfTable DEF TypeOK
  <1> QED BY <1>3, <1>6 DEF TypeOK, CancelPrecheck, closingVars

\* The clock never shows a date the restaurant has not reached.
LEMMA ClockInRange ==
    ASSUME TypeOK
    PROVE  \A t \in Clock : t \in 1..MaxDate /\ t <= today
  BY ConstantsAssumption DEF Clock, TypeOK

\* RecordPayment inserts a payment row with the session's shift and a date.
LEMMA TypeRecordPayment ==
    ASSUME TypeOK, NEW o \in Order, NEW v \in Version, NEW a \in Amount,
           NEW c \in DOMAIN sessions, NEW t \in 1..MaxDate, RecordPayment(o, v, a, c, t)
    PROVE  IsTable(payments, Payment, PaymentRow)'
  <1>1. PICK p \in Payment \ DOMAIN payments :
           payments' = Insert(payments, p,
              [order |-> o, version |-> v, amount |-> a,
               shift |-> sessions[c].shift, date |-> t])
    BY DEF RecordPayment
  <1>2. [order |-> o, version |-> v, amount |-> a,
         shift |-> sessions[c].shift, date |-> t] \in PaymentRow
    BY DEF PaymentRow, TypeOK, IsTable, SessionRow
  <1> DEFINE row == [order |-> o, version |-> v, amount |-> a,
                     shift |-> sessions[c].shift, date |-> t]
  <1>3. row \in PaymentRow /\ payments' = Insert(payments, p, row)
    BY <1>1, <1>2
  <1> HIDE DEF row
  <1> QED BY <1>3, InsertIntoTable DEF TypeOK

\* A partial payment adds to the paid sum of a precheck row.
LEMMA TypeCapturePartialPayment ==
    ASSUME TypeOK, NEW d \in Device, NEW o \in DOMAIN orders, NEW v \in Version,
           NEW a \in Amount, CapturePartialPayment(d, o, v, a)
    PROVE  TypeOK'
  <1>0. o \in Order
    BY DEF TypeOK, IsTable
  <1>1. PICK c \in DOMAIN sessions, t \in Clock : RecordPayment(o, v, a, c, t)
    BY DEF CapturePartialPayment
  <1>2. IsTable(payments, Payment, PaymentRow)'
    BY <1>0, <1>1, ClockInRange, TypeRecordPayment
  <1>3. prechecks[o][v] \in PrecheckRow /\ a \in Nat
    BY <1>0, ConstantsAssumption DEF TypeOK
  <1>4. [prechecks[o][v] EXCEPT !.paid = @ + a] \in PrecheckRow
    BY <1>3 DEF PrecheckRow
  <1>5. prechecks' = [prechecks EXCEPT ![o][v] = [prechecks[o][v] EXCEPT !.paid = @ + a]]
    BY DEF CapturePartialPayment
  <1>6. prechecks' \in [Order -> [Version -> PrecheckRow]]
    BY <1>0, <1>4, <1>5 DEF TypeOK
  <1> QED BY <1>2, <1>6 DEF TypeOK, CapturePartialPayment, closingVars

\* A precheck row stays one when it is closed with a larger paid sum.
LEMMA ClosedRow ==
    \A r \in PrecheckRow, a \in Nat :
       r.paid + a = r.total =>
          [[r EXCEPT !.paid = @ + a] EXCEPT !.status = "closed"] =
             [status |-> "closed", total |-> r.total, paid |-> r.total]
  <1> SUFFICES ASSUME NEW r \in PrecheckRow, NEW a \in Nat, r.paid + a = r.total
               PROVE  [[r EXCEPT !.paid = @ + a] EXCEPT !.status = "closed"] =
                         [status |-> "closed", total |-> r.total, paid |-> r.total]
    OBVIOUS
  <1>1. r = [status |-> r.status, total |-> r.total, paid |-> r.paid]
    BY DEF PrecheckRow
  <1>2. [r EXCEPT !.paid = @ + a] =
           [status |-> r.status, total |-> r.total, paid |-> r.total]
    BY <1>1 DEF PrecheckRow
  <1>3. [[status |-> r.status, total |-> r.total, paid |-> r.total]
            EXCEPT !.status = "closed"] =
           [status |-> "closed", total |-> r.total, paid |-> r.total]
    OBVIOUS
  <1> QED BY <1>2, <1>3, Zenon

\* What the closing payment writes to the precheck.
LEMMA ClosedPrecheck ==
    ASSUME TypeOK, NEW d \in Device, NEW o \in DOMAIN orders, NEW v \in Version,
           NEW a \in Amount, CaptureFinalPayment(d, o, v, a)
    PROVE  /\ o \in Order
           /\ prechecks[o][v] \in PrecheckRow
           /\ prechecks' = [prechecks EXCEPT ![o][v] =
                 [status |-> "closed", total |-> prechecks[o][v].total,
                  paid |-> prechecks[o][v].total]]
  <1>0. o \in Order
    BY DEF TypeOK, IsTable
  <1>1. prechecks[o][v] \in PrecheckRow /\ a \in Nat
    BY <1>0, ConstantsAssumption DEF TypeOK
  <1>2. prechecks[o][v].paid + a = prechecks[o][v].total
    BY DEF CaptureFinalPayment
  <1>3. [[prechecks[o][v] EXCEPT !.paid = @ + a] EXCEPT !.status = "closed"] =
          [status |-> "closed", total |-> prechecks[o][v].total,
           paid |-> prechecks[o][v].total]
    BY <1>1, <1>2, ClosedRow
  <1>4. prechecks' = [prechecks EXCEPT ![o][v] =
           [[prechecks[o][v] EXCEPT !.paid = @ + a] EXCEPT !.status = "closed"]]
    BY <1>0 DEF CaptureFinalPayment, TypeOK
  <1> QED BY <1>0, <1>1, <1>3, <1>4

\* The final payment inserts a check row and closes precheck and order.
LEMMA TypeCaptureFinalPayment ==
    ASSUME TypeOK, NEW d \in Device, NEW o \in DOMAIN orders, NEW v \in Version,
           NEW a \in Amount, CaptureFinalPayment(d, o, v, a)
    PROVE  TypeOK'
  <1>0. /\ o \in Order /\ orders[o] \in OrderRow
        /\ prechecks[o][v] \in PrecheckRow
    BY ClosedPrecheck DEF TypeOK, IsTable
  <1>1. PICK c \in DOMAIN sessions, t \in Clock :
          /\ RecordPayment(o, v, a, c, t)
          /\ checks' = Insert(checks, o,
                 [total |-> prechecks[o][v].total, date |-> t, confirmed |-> FALSE])
    BY DEF CaptureFinalPayment
  <1>2. IsTable(payments, Payment, PaymentRow)'
    BY <1>0, <1>1, ClockInRange, TypeRecordPayment
  <1>3. IsTable(checks, Order, CheckRow)'
    <2>1. [total |-> prechecks[o][v].total, date |-> t, confirmed |-> FALSE] \in CheckRow
      BY <1>0, ClockInRange DEF PrecheckRow, CheckRow
    <2> DEFINE row == [total |-> prechecks[o][v].total, date |-> t, confirmed |-> FALSE]
    <2>2. row \in CheckRow /\ checks' = Insert(checks, o, row)
      BY <1>1, <2>1
    <2> HIDE DEF row
    <2> QED BY <1>0, <2>2, InsertIntoTable DEF TypeOK
  <1>4. prechecks' \in [Order -> [Version -> PrecheckRow]]
    <2>1. [status |-> "closed", total |-> prechecks[o][v].total,
           paid |-> prechecks[o][v].total] \in PrecheckRow
      BY <1>0 DEF PrecheckRow
    <2> DEFINE row == [status |-> "closed", total |-> prechecks[o][v].total,
                       paid |-> prechecks[o][v].total]
    <2>2. row \in PrecheckRow /\ prechecks' = [prechecks EXCEPT ![o][v] = row]
      BY <2>1, ClosedPrecheck
    <2> HIDE DEF row
    <2> QED BY <1>0, <2>2 DEF TypeOK
  <1>5. orders' = [orders EXCEPT ![o] = [orders[o] EXCEPT !.status = "closed"]]
    BY DEF CaptureFinalPayment
  <1>6. [orders[o] EXCEPT !.status = "closed"] \in OrderRow
    BY <1>0 DEF OrderRow
  <1>7. IsTable(orders, Order, OrderRow)' /\ DOMAIN orders' = DOMAIN orders
    BY <1>5, <1>6, UpdateOfTable DEF TypeOK
  <1>8. tickets' \in [Order -> [Line -> {"none", "active", "voided"}]]
    BY <1>0 DEF TypeOK, CaptureFinalPayment
  <1>9. DOMAIN checks' = DOMAIN checks \cup {o}
    BY <1>1 DEF Insert
  <1> QED BY <1>2, <1>3, <1>4, <1>7, <1>8, <1>9 DEF TypeOK, CaptureFinalPayment

\* What is compensated is added to the order's ledger row.
LEMMA LedgerRowGrows ==
    \A r \in LedgerRow, a \in Nat :
       /\ [r EXCEPT !.cancellation = @ + a] \in LedgerRow
       /\ [r EXCEPT !.refund = @ + a] \in LedgerRow
  BY DEF LedgerRow

\* A cancellation or refund adds a natural number to the ledger.
LEMMA TypeRecordOperation ==
    ASSUME TypeOK, NEW d \in Device, NEW o \in DOMAIN checks, NEW a \in Amount,
           RecordCancellation(d, o, a) \/ RecordRefund(d, o, a)
    PROVE  TypeOK'
  <1>0. o \in Order /\ ledger[o] \in LedgerRow /\ a \in Nat
    BY ConstantsAssumption DEF TypeOK, IsTable
  <1>1. PICK row \in LedgerRow : ledger' = [ledger EXCEPT ![o] = row]
    <2>1. CASE RecordCancellation(d, o, a)
      <3>1. ledger' = [ledger EXCEPT ![o] = [ledger[o] EXCEPT !.cancellation = @ + a]]
        BY <2>1 DEF RecordCancellation
      <3> QED BY <3>1, <1>0, LedgerRowGrows
    <2>2. CASE RecordRefund(d, o, a)
      <3>1. ledger' = [ledger EXCEPT ![o] = [ledger[o] EXCEPT !.refund = @ + a]]
        BY <2>2 DEF RecordRefund
      <3> QED BY <3>1, <1>0, LedgerRowGrows
    <2> QED BY <2>1, <2>2
  <1>2. ledger' \in [Order -> LedgerRow]
    BY <1>0, <1>1 DEF TypeOK
  <1> QED BY <1>2 DEF TypeOK, RecordCancellation, RecordRefund, salesVars

\* What is left of a check is an integer.
LEMMA RemainingIsInt ==
    ASSUME TypeOK, NEW o \in DOMAIN checks
    PROVE  Remaining(o) \in Int
  BY DEF TypeOK, IsTable, Remaining, CheckRow, LedgerRow

\* Cancelling an order adds the rest of the check to the ledger.
LEMMA TypeCancelUnconfirmedOrder ==
    ASSUME TypeOK, NEW d \in Device, NEW o \in DOMAIN checks,
           CancelUnconfirmedOrder(d, o)
    PROVE  TypeOK'
  <1>0. /\ o \in Order /\ ledger[o] \in LedgerRow /\ orders[o] \in OrderRow
        /\ Remaining(o) \in Nat
    BY RemainingIsInt DEF TypeOK, IsTable, CancelUnconfirmedOrder
  <1>1. ledger' \in [Order -> LedgerRow]
    <2>1. ledger' = [ledger EXCEPT ![o] =
                       [ledger[o] EXCEPT !.cancellation = @ + Remaining(o)]]
      BY DEF CancelUnconfirmedOrder
    <2>2. PICK row \in LedgerRow : ledger' = [ledger EXCEPT ![o] = row]
      BY <1>0, <2>1, LedgerRowGrows
    <2> QED BY <1>0, <2>2 DEF TypeOK
  <1>2. tickets' \in [Order -> [Line -> {"none", "active", "voided"}]]
    BY <1>0 DEF TypeOK, CancelUnconfirmedOrder
  <1>3. IsTable(orders, Order, OrderRow)'
    <2>1. orders' = [orders EXCEPT ![o] = [orders[o] EXCEPT !.status = "cancelled"]]
      BY DEF CancelUnconfirmedOrder
    <2>2. [orders[o] EXCEPT !.status = "cancelled"] \in OrderRow
      BY <1>0 DEF OrderRow
    <2> QED BY <2>1, <2>2, UpdateOfTable DEF TypeOK
  <1> QED BY <1>1, <1>2, <1>3 DEF TypeOK, CancelUnconfirmedOrder

\* A finished print job adds a document.
LEMMA TypePrintDocument ==
    ASSUME TypeOK, NEW o \in DOMAIN checks, NEW doc \in Document, PrintDocument(o, doc)
    PROVE  TypeOK'
  <1>0. o \in Order /\ checks[o] \in CheckRow
    BY DEF TypeOK, IsTable
  <1>1. printed' \in [Order -> SUBSET Document]
    BY <1>0 DEF TypeOK, PrintDocument
  <1> QED BY <1>1 DEF TypeOK, IsTable, PrintDocument, salesVars

\* The confirmation changes one column of a check row.
LEMMA TypeConfirmCheckPrint ==
    ASSUME TypeOK, NEW o \in DOMAIN checks, ConfirmCheckPrint(o)
    PROVE  TypeOK'
  <1>0. o \in Order /\ checks[o] \in CheckRow
    BY DEF TypeOK, IsTable
  <1>1. checks' = [checks EXCEPT ![o] = [checks[o] EXCEPT !.confirmed = TRUE]]
    BY DEF ConfirmCheckPrint
  <1>2. [checks[o] EXCEPT !.confirmed = TRUE] \in CheckRow
    BY <1>0 DEF CheckRow
  <1>3. IsTable(checks, Order, CheckRow)'
    BY <1>1, <1>2, UpdateOfTable DEF TypeOK
  <1>4. UNCHANGED <<today, shifts, sessions, salesVars, ledger, tickets, printed>>
        /\ DOMAIN checks' = DOMAIN checks
    BY <1>1 DEF ConfirmCheckPrint
  <1> QED BY <1>3, <1>4 DEF TypeOK, IsTable, salesVars

-----------------------------------------------------------------------------
\* Every step keeps the tables typed.
LEMMA TypeStep ==
    ASSUME TypeOK, [Next]_vars
    PROVE  TypeOK'
  <1>1. CASE NextBusinessDate
    BY <1>1, TypeNextBusinessDate
  <1>2. CASE ShiftCommand
    BY <1>2, TypeOpenShift, TypeOpenCashSession, TypeCreateOrder, TypeCloseShift,
       TypeCloseCashSession DEF ShiftCommand
  <1>3. CASE LineCommand
    <2>1. PICK o \in DOMAIN orders, l \in Line :
            \/ \E q \in Content : AddOrderLine(o, l, q)
            \/ \E d \in Device, q \in Content : EditOrderLine(d, o, l, q)
            \/ \E d \in Device : VoidOrderLine(d, o, l)
            \/ \E d \in Device : AddDiscount(d, o, l)
      BY <1>3 DEF LineCommand
    <2>2. ASSUME NEW q \in Content, AddOrderLine(o, l, q) PROVE TypeOK'
      <3>1. o \in Order
        BY DEF TypeOK, IsTable
      <3> QED BY <2>2, <3>1, TypeLines DEF AddOrderLine
    <2> QED BY <2>1, <2>2, TypeLineCommand
  <1>4. CASE PrecheckCommand
    BY <1>4, TypeIssuePrecheck, TypeCancelPrecheck, TypeCapturePartialPayment,
       TypeCaptureFinalPayment DEF PrecheckCommand
  <1>5. CASE CheckCommand
    BY <1>5, TypeRecordOperation, TypeCancelUnconfirmedOrder, TypePrintDocument,
       TypeConfirmCheckPrint
    DEF CheckCommand
  <1>6. CASE UNCHANGED vars
    BY <1>6 DEF TypeOK, IsTable, vars, salesVars, closingVars
  <1> QED BY <1>1, <1>2, <1>3, <1>4, <1>5, <1>6 DEF Next

\* The tables of the cash desk always hold rows of their schema, and every check
\* refers to an order that exists.
THEOREM TypeCorrect == Spec => []TypeOK
  <1>1. ASSUME TypeOK, [Next]_vars PROVE TypeOK'
    BY <1>1, TypeStep
  <1> QED BY <1>1, TypeInit, PTL DEF Spec

-----------------------------------------------------------------------------
(* The safety invariants.                                                  *)

IInv ==
    /\ TypeOK
    /\ WorkHasOpenShift
    /\ OpenRowsAreUnique
    /\ PrecheckFollowsOrder
    /\ BillMatchesBasket
    /\ CheckForFinishedOrder
    /\ CompensationWithinCheck
    /\ RefundIsPastBoundary
    /\ TicketsOfPaidLines

-----------------------------------------------------------------------------
(* What each part depends on.                                              *)

\* Only shifts, sessions and orders matter to WorkHasOpenShift.
LEMMA WorkStable ==
    WorkHasOpenShift /\ UNCHANGED <<shifts, sessions, orders>> => WorkHasOpenShift'
  BY DEF WorkHasOpenShift

\* Only shifts and sessions matter to OpenRowsAreUnique.
LEMMA UniqueStable ==
    OpenRowsAreUnique /\ UNCHANGED <<shifts, sessions>> => OpenRowsAreUnique'
  BY DEF OpenRowsAreUnique

\* Only orders and prechecks matter to PrecheckFollowsOrder.
LEMMA PrecheckStable ==
    PrecheckFollowsOrder /\ UNCHANGED <<orders, prechecks>> => PrecheckFollowsOrder'
  BY DEF PrecheckFollowsOrder, PrechecksFit, LastPrecheck, NeverIssued

\* Only the basket, the discounts and the prechecks matter to the bill.
LEMMA BillStable ==
    BillMatchesBasket /\ UNCHANGED <<lines, discounts, prechecks>> => BillMatchesBasket'
  BY DEF BillMatchesBasket, GrandTotal

\* What CheckForFinishedOrder depends on.
LEMMA CheckStable ==
    CheckForFinishedOrder /\ UNCHANGED <<today, checks, orders, prechecks>>
       => CheckForFinishedOrder'
  BY DEF CheckForFinishedOrder

\* What CompensationWithinCheck depends on.
LEMMA CompensationStable ==
    CompensationWithinCheck /\ UNCHANGED <<orders, checks, ledger, tickets>>
       => CompensationWithinCheck'
  BY DEF CompensationWithinCheck

\* What RefundIsPastBoundary depends on.
LEMMA RefundStable ==
    RefundIsPastBoundary /\ UNCHANGED <<today, shifts, orders, checks, ledger>>
       => RefundIsPastBoundary'
  BY DEF RefundIsPastBoundary

\* What TicketsOfPaidLines depends on.
LEMMA TicketsStable ==
    TicketsOfPaidLines /\ UNCHANGED <<lines, checks, tickets, printed>>
       => TicketsOfPaidLines'
  BY DEF TicketsOfPaidLines, TicketLines, ActiveLines

-----------------------------------------------------------------------------
(* Facts about the order and its prechecks.                                *)

\* A change of status leaves the rest of the orders table alone.
LEMMA StatusChange ==
    ASSUME TypeOK, NEW o \in DOMAIN orders, NEW st,
           orders' = [orders EXCEPT ![o].status = st]
    PROVE  /\ DOMAIN orders' = DOMAIN orders
           /\ \A x \in DOMAIN orders :
                 /\ orders'[x].device = orders[x].device
                 /\ orders'[x].shift = orders[x].shift
                 /\ orders'[x].status = IF x = o THEN st ELSE orders[x].status
  BY DEF TypeOK, IsTable, OrderRow

\* The statuses of an order row.
LEMMA OrderStatus ==
    ASSUME TypeOK
    PROVE  \A o \in DOMAIN orders :
              /\ o \in Order
              /\ orders[o].status \in {"open", "locked", "closed", "cancelled"}
  BY DEF TypeOK, IsTable, OrderRow

\* The last precheck decides about all of them.
LEMMA LastPrecheckOnly ==
    ASSUME NEW o, NEW v \in Version, NEW st, LastPrecheck(o, v, st)
    PROVE  \A w \in Version :
              w # v => prechecks[o][w].status \in {"cancelled", "none"}
  BY DEF LastPrecheck, NoPrecheck, Version

\* An issued precheck means a locked order, and is the last one.
LEMMA IssuedIsLocked ==
    ASSUME IInv, NEW o \in DOMAIN orders, NEW v \in Version,
           prechecks[o][v].status = "issued"
    PROVE  /\ orders[o].status = "locked"
           /\ LastPrecheck(o, v, "issued")
           /\ prechecks[o][v].paid < prechecks[o][v].total \/ prechecks[o][v].paid = 0
  <1>1. o \in Order /\ orders[o].status \in {"open", "locked", "closed", "cancelled"}
    BY OrderStatus DEF IInv
  <1>2. ~NeverIssued(o)
    BY DEF NeverIssued, NoPrecheck
  <1>3. \A w \in Version, st \in {"cancelled", "closed"} : ~LastPrecheck(o, w, st)
    <2> SUFFICES ASSUME NEW w \in Version, NEW st \in {"cancelled", "closed"},
                        LastPrecheck(o, w, st)
                 PROVE  FALSE
      OBVIOUS
    <2>1. w = v
      BY LastPrecheckOnly
    <2> QED BY <2>1 DEF LastPrecheck
  <1>4. orders[o].status = "locked"
    BY <1>1, <1>2, <1>3 DEF IInv, PrecheckFollowsOrder, PrechecksFit
  <1>5. PICK w \in Version :
          /\ LastPrecheck(o, w, "issued")
          /\ prechecks[o][w].paid < prechecks[o][w].total \/ prechecks[o][w].paid = 0
    BY <1>1, <1>4 DEF IInv, PrecheckFollowsOrder, PrechecksFit
  <1>6. w = v
    BY <1>5, LastPrecheckOnly
  <1> QED BY <1>4, <1>5, <1>6

\* An open order owes nothing: no precheck of it is issued or closed.
LEMMA OpenOwesNothing ==
    ASSUME IInv, NEW o \in DOMAIN orders, orders[o].status = "open", NEW v \in Version
    PROVE  /\ prechecks[o][v].status \in {"none", "cancelled"}
           /\ o \notin DOMAIN checks
  <1>1. o \in Order
    BY OrderStatus DEF IInv
  <1>2. o \notin DOMAIN checks
    BY DEF IInv, CheckForFinishedOrder
  <1>3. CASE NeverIssued(o)
    BY <1>2, <1>3 DEF NeverIssued, NoPrecheck
  <1>4. CASE \E w \in Version : LastPrecheck(o, w, "cancelled")
    BY <1>2, <1>4, LastPrecheckOnly DEF LastPrecheck
  <1> QED BY <1>1, <1>3, <1>4 DEF IInv, PrecheckFollowsOrder, PrechecksFit

-----------------------------------------------------------------------------
(* The initial state, the clock, shifts and cash sessions.                 *)

\* The invariant holds of the empty tables.
LEMMA InitInvariant == Init => IInv
  <1> SUFFICES ASSUME Init PROVE IInv
    OBVIOUS
  <1>1. TypeOK
    BY TypeInit
  <1>2. DOMAIN shifts = {} /\ DOMAIN sessions = {} /\ DOMAIN orders = {} /\ DOMAIN checks = {}
    BY DEF Init, EmptyTable
  <1>3. WorkHasOpenShift /\ OpenRowsAreUnique /\ CheckForFinishedOrder /\ RefundIsPastBoundary
    BY <1>2 DEF WorkHasOpenShift, OpenRowsAreUnique, CheckForFinishedOrder,
                RefundIsPastBoundary
  <1>4. PrecheckFollowsOrder /\ BillMatchesBasket
    BY <1>2 DEF Init, PrecheckFollowsOrder, PrechecksFit, BillMatchesBasket, NeverIssued, NoPrecheck
  <1>5. CompensationWithinCheck
    BY <1>2 DEF Init, CompensationWithinCheck
  <1>6. TicketsOfPaidLines
    BY <1>2 DEF Init, TicketsOfPaidLines
  <1> QED BY <1>1, <1>3, <1>4, <1>5, <1>6 DEF IInv

\* A later date only widens the boundary.
LEMMA NextBusinessDateStep ==
    ASSUME IInv, NextBusinessDate
    PROVE  IInv'
  <1>1. TypeOK' /\ today \in Int /\ today' = today + 1
    BY TypeNextBusinessDate DEF IInv, TypeOK, NextBusinessDate
  <1>2. CheckForFinishedOrder' /\ RefundIsPastBoundary'
    <2>1. \A o \in DOMAIN checks : checks[o].date \in Int
      BY DEF IInv, TypeOK, IsTable, CheckRow
    <2> QED BY <1>1, <2>1 DEF IInv, NextBusinessDate, CheckForFinishedOrder,
                              RefundIsPastBoundary, salesVars, closingVars
  <1> QED BY <1>1, <1>2, WorkStable, UniqueStable, PrecheckStable, BillStable,
             CompensationStable, TicketsStable
          DEF IInv, NextBusinessDate, salesVars, closingVars

\* A new shift belongs to an employee without one and to no work yet.
LEMMA OpenShiftStep ==
    ASSUME IInv, NEW e \in Employee, NEW d \in Device, OpenShift(e, d)
    PROVE  IInv'
  <1>1. PICK s \in Shift \ DOMAIN shifts :
           shifts' = Insert(shifts, s, [owner |-> e, device |-> d, open |-> TRUE])
    BY DEF OpenShift
  <1>2. /\ DOMAIN shifts' = DOMAIN shifts \cup {s}
        /\ \A x \in DOMAIN shifts : shifts'[x] = shifts[x]
        /\ shifts'[s].owner = e
    BY <1>1 DEF Insert
  <1>3. WorkHasOpenShift'
    BY <1>2 DEF IInv, OpenShift, WorkHasOpenShift, salesVars
  <1>4. OpenRowsAreUnique'
    BY <1>2 DEF IInv, OpenShift, OpenShiftOf, OpenRowsAreUnique
  <1>5. RefundIsPastBoundary'
    <2>1. \A o \in DOMAIN checks : orders[o].shift \in DOMAIN shifts
      BY DEF IInv, TypeOK, WorkHasOpenShift
    <2> QED BY <1>2, <2>1 DEF IInv, OpenShift, RefundIsPastBoundary, salesVars, closingVars
  <1> QED BY <1>3, <1>4, <1>5, TypeOpenShift, PrecheckStable, BillStable, CheckStable,
             CompensationStable, TicketsStable
          DEF IInv, OpenShift, salesVars, closingVars

\* A shift is closed when no unfinished order and no session needs it.
LEMMA CloseShiftStep ==
    ASSUME IInv, NEW e \in Employee, NEW s \in DOMAIN shifts, CloseShift(e, s)
    PROVE  IInv'
  <1>1. /\ DOMAIN shifts' = DOMAIN shifts
        /\ \A x \in DOMAIN shifts :
              /\ shifts'[x].owner = shifts[x].owner
              /\ shifts'[x].device = shifts[x].device
              /\ shifts'[x].open = IF x = s THEN FALSE ELSE shifts[x].open
    BY DEF IInv, TypeOK, IsTable, ShiftRow, CloseShift
  <1>2. WorkHasOpenShift'
    <2>1. \A o \in DOMAIN orders : orders[o].status \in {"open", "locked"} => orders[o].shift # s
      BY DEF CloseShift
    <2>2. \A c \in DOMAIN sessions : sessions[c].open => sessions[c].shift # s
      BY DEF IInv, WorkHasOpenShift, CloseShift, OpenSessionAt
    <2>3. UNCHANGED <<sessions, orders>>
      BY DEF CloseShift, salesVars
    <2> QED BY <1>1, <2>1, <2>2, <2>3 DEF IInv, WorkHasOpenShift
  <1>3. OpenRowsAreUnique'
    BY <1>1 DEF IInv, CloseShift, OpenRowsAreUnique
  <1>4. RefundIsPastBoundary'
    <2>1. \A o \in DOMAIN checks : orders[o].shift \in DOMAIN shifts
      BY DEF IInv, TypeOK, WorkHasOpenShift
    <2> QED BY <1>1, <2>1 DEF IInv, CloseShift, RefundIsPastBoundary, salesVars, closingVars
  <1> QED BY <1>2, <1>3, <1>4, TypeCloseShift, PrecheckStable, BillStable, CheckStable,
             CompensationStable, TicketsStable
          DEF IInv, CloseShift, salesVars, closingVars

\* A new session takes the device of its open shift, where no other is open.
LEMMA OpenCashSessionStep ==
    ASSUME IInv, NEW e \in Employee, NEW d \in Device, OpenCashSession(e, d)
    PROVE  IInv'
  <1>1. PICK s \in DOMAIN shifts, c \in Session \ DOMAIN sessions :
          /\ OpenShiftOf(s, e)
          /\ \A x \in DOMAIN sessions :
                ~OpenSessionAt(x, d) /\ ~OpenSessionAt(x, shifts[s].device)
          /\ sessions' = Insert(sessions, c,
                [device |-> shifts[s].device, shift |-> s, open |-> TRUE])
    BY DEF OpenCashSession
  <1>2. /\ DOMAIN sessions' = DOMAIN sessions \cup {c}
        /\ \A x \in DOMAIN sessions : sessions'[x] = sessions[x]
        /\ sessions'[c].device = shifts[s].device
        /\ sessions'[c].shift = s
        /\ sessions'[c].open
    BY <1>1 DEF Insert
  <1>3. UNCHANGED <<shifts, orders>> /\ shifts[s].open
    BY <1>1 DEF OpenCashSession, OpenShiftOf, salesVars
  <1>4. WorkHasOpenShift'
    BY <1>2, <1>3 DEF IInv, WorkHasOpenShift
  <1>5. OpenRowsAreUnique'
    <2>1. \A x \in DOMAIN sessions : ~(sessions[x].open /\ sessions[x].device = shifts[s].device)
      BY <1>1 DEF OpenSessionAt
    <2> QED BY <1>2, <1>3, <2>1 DEF IInv, OpenRowsAreUnique
  <1> QED BY <1>4, <1>5, TypeOpenCashSession, PrecheckStable, BillStable, CheckStable,
             CompensationStable, RefundStable, TicketsStable
          DEF IInv, OpenCashSession, salesVars, closingVars

\* A closed session needs nothing.
LEMMA CloseCashSessionStep ==
    ASSUME IInv, NEW d \in Device, NEW c \in DOMAIN sessions, CloseCashSession(d, c)
    PROVE  IInv'
  <1>1. /\ DOMAIN sessions' = DOMAIN sessions
        /\ \A x \in DOMAIN sessions :
              /\ sessions'[x].device = sessions[x].device
              /\ sessions'[x].shift = sessions[x].shift
              /\ sessions'[x].open = IF x = c THEN FALSE ELSE sessions[x].open
    BY DEF IInv, TypeOK, IsTable, SessionRow, CloseCashSession
  <1>2. WorkHasOpenShift'
    BY <1>1 DEF IInv, CloseCashSession, WorkHasOpenShift, salesVars
  <1>3. OpenRowsAreUnique'
    BY <1>1 DEF IInv, CloseCashSession, OpenRowsAreUnique
  <1> QED BY <1>2, <1>3, TypeCloseCashSession, PrecheckStable, BillStable, CheckStable,
             CompensationStable, RefundStable, TicketsStable
          DEF IInv, CloseCashSession, salesVars, closingVars

-----------------------------------------------------------------------------
(* Orders and their lines.                                                 *)

\* A new order has an open shift and no precheck, check, ticket or money.
LEMMA CreateOrderStep ==
    ASSUME IInv, NEW e \in Employee, NEW d \in Device, CreateOrder(e, d)
    PROVE  IInv'
  <1>1. PICK s \in DOMAIN shifts, o \in Order \ DOMAIN orders :
          /\ OpenShiftOf(s, e)
          /\ orders' = Insert(orders, o, [device |-> d, shift |-> s, status |-> "open"])
    BY DEF CreateOrder
  <1>2. /\ DOMAIN orders' = DOMAIN orders \cup {o}
        /\ \A x \in DOMAIN orders : orders'[x] = orders[x]
        /\ orders'[o].shift = s
        /\ orders'[o].status = "open"
    BY <1>1 DEF Insert
  <1>3. UNCHANGED <<today, shifts, sessions, lines, discounts, prechecks, payments,
                    checks, ledger, tickets, printed>>
    BY DEF CreateOrder, closingVars
  <1>4. o \notin DOMAIN checks
    BY DEF IInv, TypeOK
  <1>5. WorkHasOpenShift'
    BY <1>1, <1>2, <1>3 DEF IInv, OpenShiftOf, WorkHasOpenShift
  <1>6. PrecheckFollowsOrder'
    <2>1. NeverIssued(o)
      BY DEF IInv, PrecheckFollowsOrder, PrechecksFit
    <2> QED BY <1>2, <1>3, <2>1 DEF IInv, PrecheckFollowsOrder, PrechecksFit, LastPrecheck, NeverIssued
  <1>7. CheckForFinishedOrder'
    BY <1>2, <1>3, <1>4 DEF IInv, CheckForFinishedOrder
  <1>8. CompensationWithinCheck' /\ RefundIsPastBoundary'
    BY <1>2, <1>3, <1>4 DEF IInv, TypeOK, CompensationWithinCheck, RefundIsPastBoundary
  <1> QED BY <1>3, <1>5, <1>6, <1>7, <1>8, TypeCreateOrder, UniqueStable, BillStable,
             TicketsStable
          DEF IInv

\* Lines and discounts change on an open order only, behind which there is
\* neither a bill nor a check.
LEMMA BasketStep ==
    ASSUME IInv, NEW o \in DOMAIN orders, orders[o].status = "open",
           \A x \in Order \ {o} : lines'[x] = lines[x] /\ discounts'[x] = discounts[x],
           UNCHANGED <<today, shifts, sessions, orders, prechecks, payments, closingVars>>,
           TypeOK'
    PROVE  IInv'
  <1>1. /\ \A v \in Version : prechecks[o][v].status \in {"none", "cancelled"}
        /\ o \notin DOMAIN checks
        /\ o \in Order
    BY OpenOwesNothing, OrderStatus, ConstantsAssumption DEF IInv, CheckForFinishedOrder
  <1>2. BillMatchesBasket'
    BY <1>1 DEF IInv, BillMatchesBasket, GrandTotal
  <1>3. TicketsOfPaidLines'
    BY <1>1 DEF IInv, TicketsOfPaidLines, TicketLines, ActiveLines, closingVars
  <1> QED BY <1>2, <1>3, WorkStable, UniqueStable, PrecheckStable, CheckStable,
             CompensationStable, RefundStable
          DEF IInv, closingVars

\* Lines are added to orders without a live precheck only.
LEMMA AddOrderLineStep ==
    ASSUME IInv, NEW o \in DOMAIN orders, NEW l \in Line, NEW q \in Content,
           AddOrderLine(o, l, q)
    PROVE  IInv'
  <1>1. TypeOK'
    BY TypeStep DEF IInv, Next, LineCommand
  <1> QED BY <1>1, BasketStep DEF IInv, TypeOK, AddOrderLine

\* Lines and discounts change on orders without a live precheck only.
LEMMA EditOrderLineStep ==
    ASSUME IInv, NEW d \in Device, NEW o \in DOMAIN orders, NEW l \in Line,
           \/ \E q \in Content : EditOrderLine(d, o, l, q)
           \/ VoidOrderLine(d, o, l)
           \/ AddDiscount(d, o, l)
    PROVE  IInv'
  <1>1. TypeOK'
    BY TypeLineCommand DEF IInv
  <1>2. CASE \E q \in Content : EditOrderLine(d, o, l, q)
    BY <1>1, <1>2, BasketStep DEF IInv, TypeOK, EditOrderLine, Editable
  <1>3. CASE VoidOrderLine(d, o, l)
    BY <1>1, <1>3, BasketStep DEF IInv, TypeOK, VoidOrderLine, Editable
  <1>4. CASE AddDiscount(d, o, l)
    BY <1>1, <1>4, BasketStep DEF IInv, TypeOK, AddDiscount, Editable
  <1> QED BY <1>2, <1>3, <1>4

-----------------------------------------------------------------------------
(* Prechecks and payments.                                                 *)

\* A command that changes only the precheck v of order o leaves what the parts
\* say of the other orders.
LEMMA OtherPrechecksStable ==
    ASSUME PrecheckFollowsOrder, NEW o, DOMAIN orders' = DOMAIN orders,
           \A x \in Order \ {o} : prechecks'[x] = prechecks[x],
           \A x \in DOMAIN orders \ {o} : orders'[x].status = orders[x].status
    PROVE  \A x \in Order \ {o} : PrechecksFit(x)'
  <1> SUFFICES ASSUME NEW x \in Order \ {o} PROVE PrechecksFit(x)'
    OBVIOUS
  <1>1. /\ NeverIssued(x)' = NeverIssued(x)
        /\ \A w \in Version : \A st : LastPrecheck(x, w, st)' <=> LastPrecheck(x, w, st)
    BY DEF NeverIssued, LastPrecheck
  <1> QED BY <1>1 DEF PrecheckFollowsOrder, PrechecksFit

\* A new precheck is the order's last, at the price of its lines.
LEMMA IssuePrecheckStep ==
    ASSUME IInv, NEW d \in Device, NEW o \in DOMAIN orders, IssuePrecheck(d, o)
    PROVE  IInv'
  <1> DEFINE row == [status |-> "issued", total |-> GrandTotal(o), paid |-> 0]
  <1>0. /\ o \in Order /\ orders[o].status = "open"
        /\ orders' = [orders EXCEPT ![o].status = "locked"]
        /\ UNCHANGED <<today, shifts, sessions, lines, discounts, payments, checks, ledger,
                       tickets, printed>>
    BY OrderStatus DEF IInv, IssuePrecheck, Editable, closingVars
  <1>1. PICK v \in Version :
          /\ prechecks[o][v].status = "none"
          /\ \A w \in Version : w < v => prechecks[o][w].status # "none"
          /\ prechecks' = [prechecks EXCEPT ![o][v] = row]
    BY DEF IssuePrecheck
  <1>2. /\ prechecks'[o][v].status = "issued"
        /\ prechecks'[o][v].total = GrandTotal(o)
        /\ prechecks'[o][v].paid = 0
        /\ \A w \in Version \ {v} : prechecks'[o][w] = prechecks[o][w]
        /\ \A x \in Order \ {o} : prechecks'[x] = prechecks[x]
    BY <1>0, <1>1 DEF IInv, TypeOK
  <1>3. /\ DOMAIN orders' = DOMAIN orders
        /\ \A x \in DOMAIN orders :
              /\ orders'[x].shift = orders[x].shift
              /\ orders'[x].status = IF x = o THEN "locked" ELSE orders[x].status
    BY <1>0, StatusChange DEF IInv
  <1>4. o \notin DOMAIN checks
    BY <1>0 DEF IInv, CheckForFinishedOrder
  <1>5. WorkHasOpenShift'
    BY <1>0, <1>3 DEF IInv, WorkHasOpenShift
  <1>6. PrecheckFollowsOrder'
    <2>1. \A w \in Version :
             /\ w < v => prechecks[o][w].status = "cancelled" /\ prechecks[o][w].paid = 0
             /\ w > v => prechecks[o][w] = NoPrecheck
      <3>1. CASE NeverIssued(o)
        BY <1>1, <3>1 DEF NeverIssued, NoPrecheck
      <3>2. CASE \E u \in Version :
                    LastPrecheck(o, u, "cancelled") /\ prechecks[o][u].paid = 0
        <4>1. PICK u \in Version : LastPrecheck(o, u, "cancelled") /\ prechecks[o][u].paid = 0
          BY <3>2
        <4>2. u < v
          BY <1>1, <4>1 DEF LastPrecheck, Version
        <4>3. \A w \in Version : w < v => w <= u
          BY <1>1, <4>1 DEF LastPrecheck, NoPrecheck, Version
        <4> QED BY <4>1, <4>2, <4>3 DEF LastPrecheck, Version
      <3> QED BY <1>0, <3>1, <3>2 DEF IInv, PrecheckFollowsOrder, PrechecksFit
    <2>2. LastPrecheck(o, v, "issued")'
      BY <1>2, <2>1 DEF LastPrecheck, Version
    <2>3. PrechecksFit(o)'
      <3>1. o \in DOMAIN orders' /\ orders'[o].status = "locked"
        BY <1>3
      <3>2. \E w \in Version : LastPrecheck(o, w, "issued")' /\ prechecks'[o][w].paid = 0
        BY <1>2, <2>2
      <3> QED BY <3>1, <3>2 DEF PrechecksFit
    <2> QED BY <1>2, <1>3, <2>3, OtherPrechecksStable DEF IInv, PrecheckFollowsOrder
  <1>7. BillMatchesBasket'
    BY <1>0, <1>2 DEF IInv, BillMatchesBasket, GrandTotal
  <1>8. CheckForFinishedOrder'
    <2>1. \A x \in DOMAIN checks : x \in Order /\ x # o /\ x \in DOMAIN orders
      BY <1>4 DEF IInv, TypeOK, IsTable
    <2> QED BY <1>0, <1>2, <1>3, <1>4, <2>1 DEF IInv, CheckForFinishedOrder
  <1>9. CompensationWithinCheck' /\ RefundIsPastBoundary'
    BY <1>0, <1>3, <1>4 DEF IInv, TypeOK, CompensationWithinCheck, RefundIsPastBoundary
  <1> QED BY <1>0, <1>5, <1>6, <1>7, <1>8, <1>9, TypeIssuePrecheck, UniqueStable, TicketsStable
          DEF IInv

\* A cancelled precheck had no money on it and is the last one.
LEMMA CancelPrecheckStep ==
    ASSUME IInv, NEW d \in Device, NEW o \in DOMAIN orders, NEW v \in Version,
           CancelPrecheck(d, o, v)
    PROVE  IInv'
  <1>0. /\ o \in Order /\ orders[o].status = "locked"
        /\ prechecks[o][v].status = "issued" /\ prechecks[o][v].paid = 0
        /\ orders' = [orders EXCEPT ![o].status = "open"]
        /\ UNCHANGED <<today, shifts, sessions, lines, discounts, payments, checks, ledger,
                       tickets, printed>>
    BY OrderStatus DEF IInv, CancelPrecheck, closingVars
  <1>1. /\ prechecks'[o][v].status = "cancelled"
        /\ prechecks'[o][v].paid = 0
        /\ \A w \in Version \ {v} : prechecks'[o][w] = prechecks[o][w]
        /\ \A x \in Order \ {o} : prechecks'[x] = prechecks[x]
    BY <1>0 DEF IInv, TypeOK, PrecheckRow, CancelPrecheck
  <1>2. /\ DOMAIN orders' = DOMAIN orders
        /\ \A x \in DOMAIN orders :
              /\ orders'[x].shift = orders[x].shift
              /\ orders'[x].status = IF x = o THEN "open" ELSE orders[x].status
    BY <1>0, StatusChange DEF IInv
  <1>3. LastPrecheck(o, v, "issued")
    BY <1>0, IssuedIsLocked
  <1>4. o \notin DOMAIN checks
    BY <1>0 DEF IInv, CheckForFinishedOrder
  <1>5. WorkHasOpenShift'
    BY <1>0, <1>2 DEF IInv, WorkHasOpenShift
  <1>6. PrecheckFollowsOrder'
    <2>1. LastPrecheck(o, v, "cancelled")'
      BY <1>1, <1>3 DEF LastPrecheck, Version
    <2>2. PrechecksFit(o)'
      <3>1. o \in DOMAIN orders' /\ orders'[o].status = "open"
        BY <1>2
      <3>2. \E w \in Version : LastPrecheck(o, w, "cancelled")' /\ prechecks'[o][w].paid = 0
        BY <1>1, <2>1
      <3> QED BY <3>1, <3>2 DEF PrechecksFit
    <2> QED BY <1>1, <1>2, <2>2, OtherPrechecksStable DEF IInv, PrecheckFollowsOrder
  <1>7. BillMatchesBasket'
    BY <1>0, <1>1 DEF IInv, BillMatchesBasket, GrandTotal
  <1>8. CheckForFinishedOrder'
    <2>1. \A x \in DOMAIN checks : x \in Order /\ x # o /\ x \in DOMAIN orders
      BY <1>4 DEF IInv, TypeOK, IsTable
    <2> QED BY <1>0, <1>1, <1>2, <1>4, <2>1 DEF IInv, CheckForFinishedOrder
  <1>9. CompensationWithinCheck' /\ RefundIsPastBoundary'
    BY <1>0, <1>2, <1>4 DEF IInv, TypeOK, CompensationWithinCheck, RefundIsPastBoundary
  <1> QED BY <1>0, <1>5, <1>6, <1>7, <1>8, <1>9, TypeCancelPrecheck, UniqueStable, TicketsStable
          DEF IInv

\* A partial payment leaves a balance.
LEMMA CapturePartialPaymentStep ==
    ASSUME IInv, NEW d \in Device, NEW o \in DOMAIN orders, NEW v \in Version,
           NEW a \in Amount, CapturePartialPayment(d, o, v, a)
    PROVE  IInv'
  <1>0. /\ o \in Order /\ a \in Nat
        /\ prechecks[o][v].status = "issued"
        /\ prechecks[o][v].paid + a <= prechecks[o][v].total
        /\ prechecks[o][v].paid + a # prechecks[o][v].total
        /\ UNCHANGED <<today, shifts, sessions, orders, lines, discounts, checks, ledger,
                       tickets, printed>>
    BY OrderStatus, ConstantsAssumption
    DEF IInv, CapturePartialPayment, RecordPayment, closingVars
  <1>1. /\ prechecks[o][v] \in PrecheckRow
        /\ prechecks'[o][v].status = prechecks[o][v].status
        /\ prechecks'[o][v].total = prechecks[o][v].total
        /\ prechecks'[o][v].paid = prechecks[o][v].paid + a
        /\ \A w \in Version \ {v} : prechecks'[o][w] = prechecks[o][w]
        /\ \A x \in Order \ {o} : prechecks'[x] = prechecks[x]
    BY <1>0 DEF IInv, TypeOK, PrecheckRow, CapturePartialPayment
  <1>2. orders[o].status = "locked" /\ LastPrecheck(o, v, "issued")
    BY <1>0, IssuedIsLocked
  <1>3. PrecheckFollowsOrder'
    <2>1. LastPrecheck(o, v, "issued")'
      BY <1>1, <1>2 DEF LastPrecheck, Version
    <2>2. prechecks'[o][v].paid < prechecks'[o][v].total
      BY <1>0, <1>1 DEF PrecheckRow
    <2>3. PrechecksFit(o)'
      BY <1>0, <1>2, <2>1, <2>2 DEF PrechecksFit
    <2> QED BY <1>0, <1>1, <2>3, OtherPrechecksStable DEF IInv, PrecheckFollowsOrder
  <1>4. BillMatchesBasket'
    BY <1>0, <1>1 DEF IInv, BillMatchesBasket, GrandTotal
  <1>5. CheckForFinishedOrder'
    <2>1. \A x \in DOMAIN checks : x \in Order /\ x # o /\ x \in DOMAIN orders
      BY <1>2 DEF IInv, TypeOK, IsTable, CheckForFinishedOrder
    <2> QED BY <1>0, <1>1, <2>1 DEF IInv, CheckForFinishedOrder
  <1> QED BY <1>0, <1>3, <1>4, <1>5, TypeCapturePartialPayment, WorkStable, UniqueStable,
             CompensationStable, RefundStable, TicketsStable
          DEF IInv

\* The final payment finishes precheck, order, check and tickets together.
LEMMA CaptureFinalPaymentStep ==
    ASSUME IInv, NEW d \in Device, NEW o \in DOMAIN orders, NEW v \in Version,
           NEW a \in Amount, CaptureFinalPayment(d, o, v, a)
    PROVE  IInv'
  <1>0. /\ o \in Order
        /\ o \notin DOMAIN checks
        /\ prechecks[o][v].status = "issued"
        /\ orders' = [orders EXCEPT ![o].status = "closed"]
        /\ UNCHANGED <<today, shifts, sessions, lines, discounts, ledger, printed>>
    BY OrderStatus DEF IInv, CaptureFinalPayment, RecordPayment
  <1>1. PICK t \in Clock : checks' = Insert(checks, o,
           [total |-> prechecks[o][v].total, date |-> t, confirmed |-> FALSE])
    BY DEF CaptureFinalPayment
  <1>2. /\ DOMAIN checks' = DOMAIN checks \cup {o}
        /\ \A x \in DOMAIN checks : checks'[x] = checks[x]
        /\ checks'[o].total = prechecks[o][v].total
        /\ checks'[o].date <= today
        /\ ~checks'[o].confirmed
    BY <1>0, <1>1, ClockInRange DEF Insert, IInv
  <1>3. /\ prechecks[o][v] \in PrecheckRow
        /\ prechecks'[o][v].status = "closed"
        /\ prechecks'[o][v].total = prechecks[o][v].total
        /\ prechecks'[o][v].paid = prechecks[o][v].total
        /\ \A w \in Version \ {v} : prechecks'[o][w] = prechecks[o][w]
        /\ \A x \in Order \ {o} : prechecks'[x] = prechecks[x]
    BY <1>0, ClosedPrecheck DEF IInv, TypeOK
  <1>4. orders[o].status = "locked" /\ LastPrecheck(o, v, "issued")
    BY <1>0, IssuedIsLocked
  <1>5. /\ DOMAIN orders' = DOMAIN orders
        /\ \A x \in DOMAIN orders :
              /\ orders'[x].shift = orders[x].shift
              /\ orders'[x].status = IF x = o THEN "closed" ELSE orders[x].status
    BY <1>0, StatusChange DEF IInv
  <1>6. WorkHasOpenShift'
    BY <1>0, <1>5 DEF IInv, WorkHasOpenShift
  <1>7. LastPrecheck(o, v, "closed")'
    BY <1>3, <1>4 DEF LastPrecheck, Version
  <1>8. PrecheckFollowsOrder'
    <2>1. PrechecksFit(o)'
      BY <1>0, <1>3, <1>5, <1>7 DEF PrechecksFit
    <2> QED BY <1>3, <1>5, <2>1, OtherPrechecksStable DEF IInv, PrecheckFollowsOrder
  <1>9. BillMatchesBasket'
    BY <1>0, <1>3 DEF IInv, BillMatchesBasket, GrandTotal
  <1>10. CheckForFinishedOrder'
    <2>1. \A x \in DOMAIN checks : x \in Order /\ x # o /\ x \in DOMAIN orders
      BY <1>0 DEF IInv, TypeOK, IsTable
    <2>2. \A w \in Version : prechecks'[o][w].status = "closed" => w = v
      BY <1>3, <1>4, LastPrecheckOnly
    <2> QED BY <1>0, <1>2, <1>3, <1>5, <2>1, <2>2 DEF IInv, CheckForFinishedOrder
  <1>11. TicketsOfPaidLines'
    <2>1. /\ \A l \in Line : tickets[o][l] = "none"
          /\ printed[o] = {}
      BY <1>0 DEF IInv, TypeOK, TicketsOfPaidLines
    <2>2. /\ \A x \in Order \ {o} : tickets'[x] = tickets[x]
          /\ \A l \in Line : tickets'[o][l] =
                IF l \in TicketLines(o) THEN "active" ELSE tickets[o][l]
      BY <1>0 DEF IInv, TypeOK, CaptureFinalPayment
    <2> QED BY <1>0, <1>2, <2>1, <2>2 DEF IInv, TicketsOfPaidLines, TicketLines, ActiveLines
  <1>12. ledger[o] = EmptyLedger
    BY <1>0 DEF IInv, CompensationWithinCheck
  <1>13. CompensationWithinCheck'
    <2>1. \A x \in Order \ {o} : tickets'[x] = tickets[x]
      BY <1>0 DEF IInv, TypeOK, CaptureFinalPayment
    <2> QED BY <1>0, <1>2, <1>3, <1>5, <1>12, <2>1
            DEF IInv, TypeOK, CompensationWithinCheck, EmptyLedger, PrecheckRow
  <1>14. RefundIsPastBoundary'
    <2>1. \A x \in DOMAIN checks : x \in DOMAIN orders /\ x # o
      BY <1>0 DEF IInv, TypeOK
    <2> QED BY <1>0, <1>2, <1>5, <1>12, <2>1 DEF IInv, RefundIsPastBoundary, EmptyLedger
  <1> QED BY <1>0, <1>6, <1>8, <1>9, <1>10, <1>11, <1>13, <1>14, TypeCaptureFinalPayment,
             UniqueStable
          DEF IInv

-----------------------------------------------------------------------------
(* Compensation and printing.                                              *)

\* Every recorded amount comes out of what is left of the check.
LEMMA RecordOperationStep ==
    ASSUME IInv, NEW d \in Device, NEW o \in DOMAIN checks, NEW a \in Amount,
           RecordCancellation(d, o, a) \/ RecordRefund(d, o, a)
    PROVE  IInv'
  <1>0. /\ o \in Order /\ o \in DOMAIN orders /\ a \in Nat
        /\ checks[o].total \in Nat /\ checks[o].date \in Int /\ today \in Int
        /\ ledger[o] \in LedgerRow
        /\ orders[o].status \in {"closed", "cancelled"}
    BY ConstantsAssumption DEF IInv, TypeOK, IsTable, CheckRow, CheckForFinishedOrder
  <1>1. PICK t \in Clock, c \in DOMAIN sessions :
          /\ Compensable(d, o, a, c, t)
          /\ RecordRefund(d, o, a) => RefundAllowed(orders[o].shift, o, t)
    BY DEF RecordCancellation, RecordRefund
  <1>2. /\ UNCHANGED <<today, shifts, sessions, orders, lines, discounts, prechecks,
                       payments, checks, tickets, printed>>
        /\ a <= Remaining(o) /\ t >= checks[o].date /\ t \in Int /\ t <= today
    BY <1>1, ClockInRange DEF IInv, RecordCancellation, RecordRefund, salesVars, Compensable
  <1>3. /\ \A x \in Order \ {o} : ledger'[x] = ledger[x]
        /\ \/ /\ ledger'[o].cancellation = ledger[o].cancellation + a
              /\ ledger'[o].refund = ledger[o].refund
           \/ /\ ledger'[o].refund = ledger[o].refund + a
              /\ ledger'[o].cancellation = ledger[o].cancellation
              /\ RecordRefund(d, o, a)
    BY <1>0 DEF IInv, TypeOK, LedgerRow, RecordCancellation, RecordRefund
  <1>4. CompensationWithinCheck'
    <2>1. ledger'[o].refund + ledger'[o].cancellation <= checks[o].total
      BY <1>0, <1>2, <1>3 DEF Remaining, LedgerRow
    <2>2. orders[o].status # "cancelled"
      <3> SUFFICES ASSUME orders[o].status = "cancelled" PROVE FALSE
        OBVIOUS
      <3>1. Remaining(o) = 0
        BY <1>0 DEF IInv, CompensationWithinCheck, Remaining, LedgerRow
      <3> QED BY <1>0, <1>2, <3>1, ConstantsAssumption
    <2> QED BY <1>0, <1>2, <1>3, <2>1, <2>2 DEF IInv, CompensationWithinCheck
  <1>5. RefundIsPastBoundary'
    <2>1. RecordRefund(d, o, a) => ~shifts[orders[o].shift].open \/ checks[o].date < today
      BY <1>0, <1>1, <1>2 DEF RefundAllowed
    <2>2. \A x \in DOMAIN checks : x \in Order
      BY DEF IInv, TypeOK, IsTable
    <2> QED BY <1>0, <1>2, <1>3, <2>1, <2>2 DEF IInv, RefundIsPastBoundary
  <1> QED BY <1>2, <1>4, <1>5, TypeRecordOperation, WorkStable, UniqueStable, PrecheckStable,
             BillStable, CheckStable, TicketsStable
          DEF IInv

\* A cancelled order had a check, is compensated in full, its tickets void.
LEMMA CancelUnconfirmedOrderStep ==
    ASSUME IInv, NEW d \in Device, NEW o \in DOMAIN checks, CancelUnconfirmedOrder(d, o)
    PROVE  IInv'
  <1>0. /\ o \in Order /\ o \in DOMAIN orders
        /\ checks[o].total \in Nat
        /\ ledger[o] \in LedgerRow
        /\ orders[o].status = "closed"
    BY DEF IInv, TypeOK, IsTable, CheckRow, CheckForFinishedOrder, CancelUnconfirmedOrder
  <1>1. /\ UNCHANGED <<today, shifts, sessions, lines, discounts, prechecks, payments, checks,
                       printed>>
        /\ orders' = [orders EXCEPT ![o].status = "cancelled"]
        /\ Remaining(o) \in Nat
    BY RemainingIsInt DEF IInv, CancelUnconfirmedOrder
  <1>2. /\ DOMAIN orders' = DOMAIN orders
        /\ \A x \in DOMAIN orders :
              /\ orders'[x].shift = orders[x].shift
              /\ orders'[x].status = IF x = o THEN "cancelled" ELSE orders[x].status
    BY <1>0, <1>1, StatusChange DEF IInv
  <1>3. /\ \A x \in Order \ {o} : ledger'[x] = ledger[x] /\ tickets'[x] = tickets[x]
        /\ ledger'[o].cancellation = ledger[o].cancellation + Remaining(o)
        /\ ledger'[o].refund = ledger[o].refund
        /\ \A l \in Line : tickets'[o][l] =
              IF tickets[o][l] = "active" THEN "voided" ELSE tickets[o][l]
    BY <1>0 DEF IInv, TypeOK, LedgerRow, CancelUnconfirmedOrder
  <1>4. WorkHasOpenShift'
    BY <1>1, <1>2 DEF IInv, WorkHasOpenShift
  <1>5. PrecheckFollowsOrder'
    <2>1. PrechecksFit(o)'
      <3>1. o \in DOMAIN orders' /\ orders'[o].status = "cancelled"
        BY <1>0, <1>2
      <3>2. \E v \in Version :
               LastPrecheck(o, v, "closed") /\ prechecks[o][v].paid = prechecks[o][v].total
        BY <1>0 DEF IInv, PrecheckFollowsOrder, PrechecksFit
      <3>3. \E v \in Version : LastPrecheck(o, v, "closed")'
                               /\ prechecks'[o][v].paid = prechecks'[o][v].total
        BY <1>1, <3>2 DEF LastPrecheck
      <3> QED BY <3>1, <3>3 DEF PrechecksFit
    <2> QED BY <1>1, <1>2, <2>1, OtherPrechecksStable DEF IInv, PrecheckFollowsOrder
  <1>6. CheckForFinishedOrder'
    BY <1>0, <1>1, <1>2 DEF IInv, TypeOK, CheckForFinishedOrder
  <1>7. CompensationWithinCheck'
    <2>1. ledger'[o].refund + ledger'[o].cancellation = checks[o].total
      BY <1>0, <1>3 DEF Remaining, LedgerRow
    <2>2. \A l \in Line : tickets'[o][l] # "active"
      BY <1>3
    <2>3. \A x \in Order \ {o} : x \in DOMAIN checks => x \in DOMAIN orders
      BY DEF IInv, TypeOK
    <2> QED BY <1>0, <1>1, <1>2, <1>3, <2>1, <2>2, <2>3 DEF IInv, CompensationWithinCheck
  <1>8. RefundIsPastBoundary'
    <2>1. \A x \in DOMAIN checks : x \in Order /\ x \in DOMAIN orders
      BY DEF IInv, TypeOK, IsTable
    <2> QED BY <1>1, <1>2, <1>3, <2>1 DEF IInv, RefundIsPastBoundary
  <1>9. TicketsOfPaidLines'
    BY <1>1, <1>3 DEF IInv, TicketsOfPaidLines, TicketLines, ActiveLines
  <1> QED BY <1>1, <1>4, <1>5, <1>6, <1>7, <1>8, <1>9, TypeCancelUnconfirmedOrder, UniqueStable,
             BillStable
          DEF IInv

\* Documents are printed of finished orders only.
LEMMA PrintDocumentStep ==
    ASSUME IInv, NEW o \in DOMAIN checks, NEW doc \in Document, PrintDocument(o, doc)
    PROVE  IInv'
  <1>0. o \in Order /\ checks[o] \in CheckRow
    BY DEF IInv, TypeOK, IsTable
  <1>1. UNCHANGED <<today, shifts, sessions, orders, lines, discounts, prechecks, payments,
                    checks, ledger, tickets>>
    BY DEF PrintDocument, salesVars
  <1>2. /\ \A x \in Order \ {o} : printed'[x] = printed[x]
        /\ printed'[o] = printed[o] \cup {doc}
    BY <1>0 DEF IInv, TypeOK, PrintDocument
  <1>3. TicketsOfPaidLines'
    BY <1>0, <1>1, <1>2 DEF IInv, TicketsOfPaidLines, TicketLines, ActiveLines
  <1> QED BY <1>1, <1>3, TypePrintDocument, WorkStable, UniqueStable, PrecheckStable,
             BillStable, CheckStable, CompensationStable, RefundStable
          DEF IInv

\* A check is confirmed with its documents on paper.
LEMMA ConfirmCheckPrintStep ==
    ASSUME IInv, NEW o \in DOMAIN checks, ConfirmCheckPrint(o)
    PROVE  IInv'
  <1>0. o \in Order /\ checks[o] \in CheckRow
    BY DEF IInv, TypeOK, IsTable
  <1>1. UNCHANGED <<today, shifts, sessions, orders, lines, discounts, prechecks, payments,
                    ledger, tickets, printed>>
    BY DEF ConfirmCheckPrint, salesVars
  <1>2. /\ DOMAIN checks' = DOMAIN checks
        /\ \A x \in DOMAIN checks :
              checks'[x].total = checks[x].total /\ checks'[x].date = checks[x].date
        /\ \A x \in DOMAIN checks \ {o} : checks'[x].confirmed = checks[x].confirmed
        /\ ReadyToConfirm(o, printed[o])
    BY <1>0 DEF IInv, TypeOK, IsTable, CheckRow, ConfirmCheckPrint
  <1>3. CheckForFinishedOrder' /\ CompensationWithinCheck' /\ RefundIsPastBoundary'
    BY <1>1, <1>2 DEF IInv, CheckForFinishedOrder, CompensationWithinCheck,
                      RefundIsPastBoundary
  <1>4. TicketsOfPaidLines'
    BY <1>0, <1>1, <1>2 DEF IInv, TicketsOfPaidLines, TicketLines, ActiveLines, ReadyToConfirm
  <1> QED BY <1>1, <1>3, <1>4, TypeConfirmCheckPrint, WorkStable, UniqueStable, PrecheckStable,
             BillStable
          DEF IInv

-----------------------------------------------------------------------------
(* The theorems.                                                           *)

\* Every step preserves the invariant.
LEMMA InvariantStep ==
    ASSUME IInv, [Next]_vars
    PROVE  IInv'
  <1>1. CASE NextBusinessDate
    BY <1>1, NextBusinessDateStep
  <1>2. CASE ShiftCommand
    BY <1>2, OpenShiftStep, CloseShiftStep, OpenCashSessionStep, CloseCashSessionStep,
       CreateOrderStep DEF ShiftCommand
  <1>3. CASE LineCommand
    BY <1>3, AddOrderLineStep, EditOrderLineStep DEF LineCommand
  <1>4. CASE PrecheckCommand
    BY <1>4, IssuePrecheckStep, CancelPrecheckStep, CapturePartialPaymentStep,
       CaptureFinalPaymentStep DEF PrecheckCommand
  <1>5. CASE CheckCommand
    BY <1>5, RecordOperationStep, CancelUnconfirmedOrderStep, PrintDocumentStep,
       ConfirmCheckPrintStep
    DEF CheckCommand
  <1>6. CASE UNCHANGED vars
    BY <1>6, TypeStep, WorkStable, UniqueStable, PrecheckStable, BillStable, CheckStable,
       CompensationStable, RefundStable, TicketsStable
    DEF IInv, vars, salesVars, closingVars
  <1> QED BY <1>1, <1>2, <1>3, <1>4, <1>5, <1>6 DEF Next

\* The invariant holds in every reachable state.
THEOREM Invariance == Spec => []IInv
  BY InitInvariant, InvariantStep, PTL DEF Spec

\* An unfinished order and an open cash session always have an open shift.
THEOREM WorkIsNeverOrphaned == Spec => []WorkHasOpenShift
  <1>1. IInv => WorkHasOpenShift
    BY DEF IInv
  <1> QED BY <1>1, Invariance, PTL

\* An operator has one open shift and a device one open cash session.
THEOREM OneOpenRowEach == Spec => []OpenRowsAreUnique
  <1>1. IInv => OpenRowsAreUnique
    BY DEF IInv
  <1> QED BY <1>1, Invariance, PTL

\* Orders and prechecks never disagree about what is issued, paid and settled.
THEOREM OrdersAndPrechecksAgree == Spec => []PrecheckFollowsOrder
  <1>1. IInv => PrecheckFollowsOrder
    BY DEF IInv
  <1> QED BY <1>1, Invariance, PTL

\* The guest pays the price of the basket the order has.
THEOREM BillIsTheBasket == Spec => []BillMatchesBasket
  <1>1. IInv => BillMatchesBasket
    BY DEF IInv
  <1> QED BY <1>1, Invariance, PTL

\* There is a final check for every finished order and for no other.
THEOREM ChecksAreOfFinishedOrders == Spec => []CheckForFinishedOrder
  <1>1. IInv => CheckForFinishedOrder
    BY DEF IInv
  <1> QED BY <1>1, Invariance, PTL

\* Cancellations and refunds together never exceed the check.
THEOREM NeverOverCompensated == Spec => []CompensationWithinCheck
  <1>1. IInv => CompensationWithinCheck
    BY DEF IInv
  <1> QED BY <1>1, Invariance, PTL

\* No refund is recorded before the financial boundary is passed.
THEOREM RefundsComeLate == Spec => []RefundIsPastBoundary
  <1>1. IInv => RefundIsPastBoundary
    BY DEF IInv
  <1> QED BY <1>1, Invariance, PTL

\* Tickets exist for the paid QR lines and for no other.
THEOREM TicketsAreOfPaidLines == Spec => []TicketsOfPaidLines
  <1>1. IInv => TicketsOfPaidLines
    BY DEF IInv
  <1> QED BY <1>1, Invariance, PTL

\* POST /orders/{id}/close can never apply to any order.
THEOREM CloseOrderIsDead == Spec => []CloseOrderNeverApplies
  <1>1. IInv => CloseOrderNeverApplies
    BY DEF IInv, CheckForFinishedOrder, CloseOrderNeverApplies, CloseOrderEnabled
  <1> QED BY <1>1, Invariance, PTL

-----------------------------------------------------------------------------
(* A finished sale is final.                                               *)

\* An order with a check is finished and has no live precheck.
LEMMA FinishedOrder ==
    ASSUME IInv, NEW o \in DOMAIN checks
    PROVE  /\ o \in Order /\ o \in DOMAIN orders
           /\ orders[o].status \in {"closed", "cancelled"}
           /\ \A v \in Version : prechecks[o][v].status # "issued"
           /\ ledger[o].refund \in Nat /\ ledger[o].cancellation \in Nat
  <1>1. /\ o \in Order /\ o \in DOMAIN orders
        /\ orders[o].status \in {"closed", "cancelled"}
        /\ ledger[o].refund \in Nat /\ ledger[o].cancellation \in Nat
    BY DEF IInv, TypeOK, IsTable, LedgerRow, CheckForFinishedOrder
  <1>2. \A v \in Version : prechecks[o][v].status # "issued"
    BY <1>1, IssuedIsLocked
  <1> QED BY <1>1, <1>2

\* Commands on shifts, or on orders without a check, keep a finished sale.
LEMMA KeptByOthers ==
    ASSUME IInv, NEW o \in DOMAIN checks,
           UNCHANGED <<checks, ledger>>,
           lines'[o] = lines[o], discounts'[o] = discounts[o], prechecks'[o] = prechecks[o],
           orders'[o] = orders[o],
           \A p \in DOMAIN payments' :
              payments'[p].order = o => p \in DOMAIN payments /\ payments'[p] = payments[p]
    PROVE  SaleKept(o)
  BY FinishedOrder DEF SaleKept

\* A payment is always for another order than a finished one.
LEMMA KeptByPayment ==
    ASSUME IInv, NEW o \in DOMAIN checks, NEW x \in Order, NEW v \in Version, NEW a, NEW c, NEW t,
           RecordPayment(x, v, a, c, t)
    PROVE  /\ x # o
           /\ \A p \in DOMAIN payments' :
                 payments'[p].order = o => p \in DOMAIN payments /\ payments'[p] = payments[p]
  <1>1. x # o
    BY FinishedOrder DEF RecordPayment
  <1>2. PICK p \in Payment \ DOMAIN payments : payments' = Insert(payments, p,
              [order |-> x, version |-> v, amount |-> a,
               shift |-> sessions[c].shift, date |-> t])
    BY DEF RecordPayment
  <1> QED BY <1>1, <1>2 DEF Insert

\* Every step keeps every finished sale.
LEMMA SaleKeptStep ==
    ASSUME IInv, [Next]_vars, NEW o \in DOMAIN checks
    PROVE  SaleKept(o)
  <1>0. /\ o \in Order /\ o \in DOMAIN orders
        /\ orders[o].status \in {"closed", "cancelled"}
        /\ \A v \in Version : prechecks[o][v].status # "issued"
    BY FinishedOrder
  <1>1. CASE NextBusinessDate \/ UNCHANGED vars
    BY <1>1, KeptByOthers DEF NextBusinessDate, vars, salesVars, closingVars
  <1>2. CASE ShiftCommand
    <2>1. ASSUME NEW e \in Employee, NEW d \in Device, CreateOrder(e, d) PROVE SaleKept(o)
      <3>1. orders'[o] = orders[o]
        BY <1>0, <2>1 DEF CreateOrder, Insert
      <3> QED BY <2>1, <3>1, KeptByOthers DEF CreateOrder, closingVars
    <2> QED BY <1>2, <2>1, KeptByOthers
            DEF ShiftCommand, OpenShift, CloseShift, OpenCashSession, CloseCashSession,
                salesVars, closingVars
  <1>3. CASE LineCommand
    <2>1. PICK x \in DOMAIN orders, l \in Line :
            \/ \E q \in Content : AddOrderLine(x, l, q)
            \/ \E d \in Device, q \in Content : EditOrderLine(d, x, l, q)
            \/ \E d \in Device : VoidOrderLine(d, x, l)
            \/ \E d \in Device : AddDiscount(d, x, l)
      BY <1>3 DEF LineCommand
    <2>2. x # o /\ UNCHANGED <<orders, prechecks, payments, checks, ledger>>
      BY <1>0, <2>1 DEF AddOrderLine, EditOrderLine, VoidOrderLine, AddDiscount, Editable,
                        closingVars
    <2>3. lines'[o] = lines[o] /\ discounts'[o] = discounts[o]
      BY <1>0, <2>1, <2>2 DEF IInv, TypeOK, AddOrderLine, EditOrderLine, VoidOrderLine,
                              AddDiscount
    <2> QED BY <2>2, <2>3, KeptByOthers
  <1>4. CASE PrecheckCommand
    <2>1. PICK x \in DOMAIN orders, d \in Device :
            \/ IssuePrecheck(d, x)
            \/ \E v \in Version : CancelPrecheck(d, x, v)
            \/ \E v \in Version, a \in Amount : CapturePartialPayment(d, x, v, a)
            \/ \E v \in Version, a \in Amount : CaptureFinalPayment(d, x, v, a)
      BY <1>4 DEF PrecheckCommand
    <2>2. x \in Order
      BY DEF IInv, TypeOK, IsTable
    <2>3. CASE IssuePrecheck(d, x)
      <3>1. x # o
        BY <1>0, <2>3 DEF IssuePrecheck, Editable
      <3>2. prechecks'[o] = prechecks[o] /\ orders'[o] = orders[o]
        BY <1>0, <2>2, <2>3, <3>1 DEF IInv, TypeOK, IssuePrecheck
      <3> QED BY <2>3, <3>2, KeptByOthers DEF IssuePrecheck, closingVars
    <2>4. ASSUME NEW v \in Version, CancelPrecheck(d, x, v) PROVE SaleKept(o)
      <3>1. x # o
        BY <1>0, <2>4 DEF CancelPrecheck
      <3>2. prechecks'[o] = prechecks[o] /\ orders'[o] = orders[o]
        BY <1>0, <2>2, <2>4, <3>1 DEF IInv, TypeOK, CancelPrecheck
      <3> QED BY <2>4, <3>2, KeptByOthers DEF CancelPrecheck, closingVars
    <2>5. ASSUME NEW v \in Version, NEW a \in Amount, CapturePartialPayment(d, x, v, a)
          PROVE  SaleKept(o)
      <3>1. PICK c \in DOMAIN sessions, t \in Clock : RecordPayment(x, v, a, c, t)
        BY <2>5 DEF CapturePartialPayment
      <3>2. x # o
        BY <2>2, <3>1, KeptByPayment
      <3>3. prechecks'[o] = prechecks[o]
        BY <1>0, <2>2, <2>5, <3>2 DEF IInv, TypeOK, CapturePartialPayment
      <3> QED BY <2>2, <2>5, <3>1, <3>3, KeptByPayment, KeptByOthers
              DEF CapturePartialPayment, closingVars
    <2>6. ASSUME NEW v \in Version, NEW a \in Amount, CaptureFinalPayment(d, x, v, a)
          PROVE  SaleKept(o)
      <3>1. PICK c \in DOMAIN sessions, t \in Clock :
              /\ RecordPayment(x, v, a, c, t)
              /\ checks' = Insert(checks, x,
                    [total |-> prechecks[x][v].total, date |-> t, confirmed |-> FALSE])
        BY <2>6 DEF CaptureFinalPayment
      <3>2. x # o
        BY <2>2, <3>1, KeptByPayment
      <3>3. prechecks'[o] = prechecks[o] /\ orders'[o] = orders[o]
        BY <1>0, <2>2, <2>6, <3>2 DEF IInv, TypeOK, CaptureFinalPayment
      <3>4. o \in DOMAIN checks' /\ checks'[o] = checks[o]
        BY <3>1, <3>2 DEF Insert
      <3>5. \A p \in DOMAIN payments' :
               payments'[p].order = o => p \in DOMAIN payments /\ payments'[p] = payments[p]
        BY <2>2, <3>1, KeptByPayment
      <3> QED BY <2>6, <3>3, <3>4, <3>5, FinishedOrder DEF CaptureFinalPayment, SaleKept
    <2> QED BY <2>1, <2>3, <2>4, <2>5, <2>6
  <1>5. CASE CheckCommand
    <2>1. PICK x \in DOMAIN checks :
            \/ \E d \in Device, a \in Amount : RecordCancellation(d, x, a) \/ RecordRefund(d, x, a)
            \/ \E d \in Device : CancelUnconfirmedOrder(d, x)
            \/ \E doc \in Document : PrintDocument(x, doc)
            \/ ConfirmCheckPrint(x)
      BY <1>5 DEF CheckCommand
    <2>2. x \in Order /\ x \in DOMAIN orders /\ Remaining(x) \in Int
      BY FinishedOrder, RemainingIsInt DEF IInv
    <2>3. ASSUME NEW d \in Device, NEW a \in Amount,
                 RecordCancellation(d, x, a) \/ RecordRefund(d, x, a)
          PROVE  SaleKept(o)
      <3>1. /\ ledger'[o].refund >= ledger[o].refund
            /\ ledger'[o].cancellation >= ledger[o].cancellation
        <4>1. a \in Nat /\ ledger \in [Order -> LedgerRow]
          BY ConstantsAssumption DEF IInv, TypeOK
        <4>2. CASE RecordCancellation(d, x, a)
          BY <1>0, <2>2, <4>1, <4>2 DEF LedgerRow, RecordCancellation
        <4>3. CASE RecordRefund(d, x, a)
          BY <1>0, <2>2, <4>1, <4>3 DEF LedgerRow, RecordRefund
        <4> QED BY <2>3, <4>2, <4>3
      <3> QED BY <2>3, <3>1 DEF RecordCancellation, RecordRefund, salesVars, SaleKept
    <2>4. ASSUME NEW d \in Device, CancelUnconfirmedOrder(d, x) PROVE SaleKept(o)
      <3>1. /\ ledger'[o].refund >= ledger[o].refund
            /\ ledger'[o].cancellation >= ledger[o].cancellation
        BY <1>0, <2>2, <2>4 DEF IInv, TypeOK, LedgerRow, CancelUnconfirmedOrder
      <3>2. orders'[o].status \in {orders[o].status, "cancelled"}
        BY <1>0, <2>2, <2>4, StatusChange DEF IInv, CancelUnconfirmedOrder
      <3> QED BY <2>4, <3>1, <3>2 DEF CancelUnconfirmedOrder, SaleKept
    <2>5. ASSUME NEW doc \in Document, PrintDocument(x, doc) PROVE SaleKept(o)
      BY <2>5, FinishedOrder DEF PrintDocument, salesVars, SaleKept
    <2>6. ASSUME ConfirmCheckPrint(x) PROVE SaleKept(o)
      <3>1. /\ o \in DOMAIN checks'
            /\ checks'[o].total = checks[o].total /\ checks'[o].date = checks[o].date
            /\ checks[o].confirmed => checks'[o].confirmed
        BY <2>6 DEF IInv, TypeOK, IsTable, CheckRow, ConfirmCheckPrint
      <3> QED BY <2>6, <3>1, FinishedOrder DEF ConfirmCheckPrint, salesVars, SaleKept
    <2> QED BY <2>1, <2>3, <2>4, <2>5, <2>6
  <1> QED BY <1>1, <1>2, <1>3, <1>4, <1>5 DEF Next

\* Once a check exists, its total, date, basket, prechecks and payments never
\* change again and what is compensated never shrinks.
THEOREM FinishedSalesStay == Spec => FinishedSaleIsFinal
  <1>1. IInv /\ [Next]_vars => [\A o \in DOMAIN checks : SaleKept(o)]_vars
    BY SaleKeptStep
  <1> QED BY <1>1, Invariance, PTL DEF Spec, FinishedSaleIsFinal

-----------------------------------------------------------------------------
(* The ledger.  A step does one of four things to the books of an order;   *)
(* each is a step of CheckLedger, or leaves it alone while time passes.    *)

KeepsBooks(o) ==
    /\ ledger'[o] = ledger[o]
    /\ o \in DOMAIN checks <=> o \in DOMAIN checks'
    /\ o \in DOMAIN checks => checks'[o].total = checks[o].total

ClosesCheck(o) ==
    /\ ledger'[o] = ledger[o]
    /\ o \in DOMAIN checks' \ DOMAIN checks
    /\ checks'[o].total \in Nat \ {0}

Compensates(o, cancelled, refunded) ==
    /\ o \in DOMAIN checks /\ checks' = checks
    /\ ledger'[o].cancellation = ledger[o].cancellation + cancelled
    /\ ledger'[o].refund = ledger[o].refund + refunded
    /\ UNCHANGED <<today, shifts>>

Cancels(o) == \E a \in 1..Remaining(o) : Compensates(o, a, 0)
Refunds(o) == Late(o) /\ \E a \in 1..Remaining(o) : Compensates(o, 0, a)

BooksOf(o) == KeepsBooks(o) \/ ClosesCheck(o) \/ Cancels(o) \/ Refunds(o)

\* Only the clock moves the date and only shift commands touch the shifts.
LEMMA TimeAndShifts ==
    ASSUME [Next]_vars
    PROVE  /\ UNCHANGED today \/ NextBusinessDate
           /\ UNCHANGED shifts \/ ShiftCommand
  <1>1. CASE NextBusinessDate \/ UNCHANGED vars
    BY <1>1 DEF NextBusinessDate, vars
  <1>2. CASE ShiftCommand
    BY <1>2 DEF ShiftCommand, OpenShift, CloseShift, OpenCashSession, CloseCashSession, CreateOrder
  <1>3. CASE LineCommand
    BY <1>3 DEF LineCommand, AddOrderLine, EditOrderLine, VoidOrderLine, AddDiscount
  <1>4. CASE PrecheckCommand
    <2>1. \A d \in Device, o \in DOMAIN orders : IssuePrecheck(d, o) => UNCHANGED <<today, shifts>>
      BY DEF IssuePrecheck
    <2>2. \A d \in Device, o \in DOMAIN orders, v \in Version :
             CancelPrecheck(d, o, v) => UNCHANGED <<today, shifts>>
      BY DEF CancelPrecheck
    <2>3. \A d \in Device, o \in DOMAIN orders, v \in Version, a \in Amount :
             CapturePartialPayment(d, o, v, a) \/ CaptureFinalPayment(d, o, v, a)
                => UNCHANGED <<today, shifts>>
      BY DEF CapturePartialPayment, CaptureFinalPayment
    <2> QED BY <1>4, <2>1, <2>2, <2>3 DEF PrecheckCommand
  <1>5. CASE CheckCommand
    BY <1>5 DEF CheckCommand, RecordCancellation, RecordRefund, CancelUnconfirmedOrder,
                PrintDocument, ConfirmCheckPrint
  <1> QED BY <1>1, <1>2, <1>3, <1>4, <1>5 DEF Next

\* The boundary of a sale is not crossed back: closed shifts stay closed, dates
\* only advance, and a sale keeps its shift and date.
LEMMA LateStays ==
    ASSUME IInv, [Next]_vars, NEW o \in DOMAIN checks
    PROVE  /\ o \in DOMAIN checks' /\ checks'[o].date = checks[o].date
           /\ orders'[o].shift = orders[o].shift
           /\ Late(o) => Late(o)'
  <1>0. /\ o \in DOMAIN orders /\ orders[o].shift \in DOMAIN shifts
        /\ today \in Int /\ checks[o].date \in Int
    BY FinishedOrder DEF IInv, TypeOK, IsTable, CheckRow, WorkHasOpenShift
  <1>1. o \in DOMAIN checks' /\ checks'[o].date = checks[o].date
    BY SaleKeptStep DEF SaleKept
  <1>2. today' \in Int /\ today' >= today
    BY <1>0, TimeAndShifts DEF NextBusinessDate
  <1>3. \A s \in DOMAIN shifts : shifts'[s].open => shifts[s].open
    <2>1. CASE ShiftCommand
      <3>1. ASSUME NEW e \in Employee, NEW d \in Device, OpenShift(e, d)
            PROVE  \A s \in DOMAIN shifts : shifts'[s] = shifts[s]
        BY <3>1 DEF OpenShift, Insert
      <3>2. ASSUME NEW e \in Employee, NEW x \in DOMAIN shifts, CloseShift(e, x)
            PROVE  \A s \in DOMAIN shifts : shifts'[s].open => shifts[s].open
        BY <3>2 DEF IInv, TypeOK, IsTable, ShiftRow, CloseShift, OpenShiftOf
      <3> QED BY <2>1, <3>1, <3>2 DEF ShiftCommand, OpenCashSession, CloseCashSession, CreateOrder
    <2> QED BY <2>1, TimeAndShifts
  <1>4. orders'[o].shift = orders[o].shift
    <2>1. CASE ShiftCommand
      BY <1>0, <2>1 DEF ShiftCommand, OpenShift, CloseShift, OpenCashSession, CloseCashSession,
         CreateOrder, Insert, salesVars
    <2>2. CASE PrecheckCommand
      <3>1. \A d \in Device, x \in DOMAIN orders :
               IssuePrecheck(d, x) => orders' = [orders EXCEPT ![x].status = "locked"]
        BY Zenon DEF IssuePrecheck
      <3>2. \A d \in Device, x \in DOMAIN orders, v \in Version :
               CancelPrecheck(d, x, v) => orders' = [orders EXCEPT ![x].status = "open"]
        BY Zenon DEF CancelPrecheck
      <3>3. \A d \in Device, x \in DOMAIN orders, v \in Version, a \in Amount :
               CapturePartialPayment(d, x, v, a) => UNCHANGED orders
        BY DEF CapturePartialPayment
      <3>4. ASSUME NEW d \in Device, NEW x \in DOMAIN orders, NEW v \in Version, NEW a \in Amount,
                   CaptureFinalPayment(d, x, v, a)
            PROVE  orders' = [orders EXCEPT ![x].status = "closed"]
        BY <3>4 DEF CaptureFinalPayment
      <3>5. PICK x \in DOMAIN orders :
              UNCHANGED orders \/ \E st : orders' = [orders EXCEPT ![x].status = st]
        BY <2>2, <3>1, <3>2, <3>3, <3>4, Zenon DEF PrecheckCommand
      <3> QED BY <1>0, <3>5, StatusChange DEF IInv
    <2>3. CASE CheckCommand
      <3>1. \/ UNCHANGED orders
            \/ \E x \in DOMAIN checks : orders' = [orders EXCEPT ![x].status = "cancelled"]
        BY <2>3 DEF CheckCommand, RecordCancellation, RecordRefund, CancelUnconfirmedOrder,
           PrintDocument, ConfirmCheckPrint, salesVars
      <3> QED BY <1>0, <3>1, StatusChange, FinishedOrder DEF IInv
    <2>4. CASE NextBusinessDate \/ LineCommand \/ UNCHANGED vars
      BY <2>4 DEF NextBusinessDate, LineCommand, AddOrderLine, EditOrderLine, VoidOrderLine,
         AddDiscount, vars, salesVars
    <2> QED BY <2>1, <2>2, <2>3, <2>4 DEF Next
  <1> QED BY <1>0, <1>1, <1>2, <1>3, <1>4 DEF Late

\* Prechecks and payments leave the ledger alone or set an order's total.
LEMMA PaymentBooks ==
    ASSUME IInv, NEW o \in Order, PrecheckCommand
    PROVE  BooksOf(o)
  <1>1. ASSUME NEW d \in Device, NEW x \in DOMAIN orders, NEW v \in Version, NEW a \in Amount,
               CaptureFinalPayment(d, x, v, a)
        PROVE  KeepsBooks(o) \/ ClosesCheck(o)
    <2>1. PICK t \in Clock : checks' = Insert(checks, x,
             [total |-> prechecks[x][v].total, date |-> t, confirmed |-> FALSE])
      BY <1>1 DEF CaptureFinalPayment
    <2>2. x \notin DOMAIN checks /\ ledger' = ledger
      BY <1>1 DEF CaptureFinalPayment
    <2>3. prechecks[x][v].total \in Nat \ {0}
      <3>1. x \in Order /\ a \in Nat \ {0} /\ prechecks[x][v] \in PrecheckRow
        BY ConstantsAssumption DEF IInv, TypeOK, IsTable
      <3> QED BY <1>1, <3>1 DEF CaptureFinalPayment, PrecheckRow
    <2> QED BY <2>1, <2>2, <2>3 DEF Insert, KeepsBooks, ClosesCheck
  <1>2. \/ UNCHANGED <<checks, ledger>>
        \/ \E x \in DOMAIN orders, d \in Device, v \in Version, a \in Amount :
              CaptureFinalPayment(d, x, v, a)
    BY DEF PrecheckCommand, IssuePrecheck, CancelPrecheck, CapturePartialPayment, closingVars
  <1>3. UNCHANGED <<checks, ledger>> => KeepsBooks(o)
    BY DEF KeepsBooks
  <1> QED BY <1>1, <1>2, <1>3 DEF BooksOf

\* Compensations add to one side of one order's ledger within its total.
LEMMA CompensationBooks ==
    ASSUME IInv, NEW o \in Order, CheckCommand
    PROVE  BooksOf(o)
  <1>1. ASSUME NEW d \in Device, NEW x \in DOMAIN checks, NEW a \in Amount,
               RecordCancellation(d, x, a)
        PROVE  KeepsBooks(o) \/ Cancels(o)
    <2>1. x \in Order /\ a \in Nat \ {0} /\ Remaining(x) \in Int /\ ledger \in [Order -> LedgerRow]
      BY FinishedOrder, RemainingIsInt, ConstantsAssumption DEF IInv, TypeOK
    <2>2. a \in 1..Remaining(x) /\ UNCHANGED <<today, shifts, checks>>
      BY <1>1, <2>1 DEF RecordCancellation, Compensable
    <2>3. /\ \A y \in Order \ {x} : ledger'[y] = ledger[y]
          /\ ledger'[x].cancellation = ledger[x].cancellation + a
          /\ ledger'[x].refund = ledger[x].refund + 0
      BY <1>1, <2>1 DEF RecordCancellation, LedgerRow
    <2>4. CASE o = x
      BY <2>2, <2>3, <2>4 DEF Cancels, Compensates
    <2>5. CASE o # x
      BY <2>2, <2>3, <2>5 DEF KeepsBooks
    <2> QED BY <2>4, <2>5
  <1>2. ASSUME NEW d \in Device, NEW x \in DOMAIN checks, NEW a \in Amount, RecordRefund(d, x, a)
        PROVE  KeepsBooks(o) \/ Refunds(o)
    <2>1. /\ x \in Order /\ a \in Nat \ {0} /\ Remaining(x) \in Int
          /\ ledger \in [Order -> LedgerRow]
          /\ today \in Int /\ checks[x].date \in Int
      BY FinishedOrder, RemainingIsInt, ConstantsAssumption
      DEF IInv, TypeOK, IsTable, CheckRow
    <2>2. PICK t \in Clock, c \in DOMAIN sessions :
             Compensable(d, x, a, c, t) /\ RefundAllowed(orders[x].shift, x, t)
      BY <1>2 DEF RecordRefund
    <2>3. a \in 1..Remaining(x) /\ UNCHANGED <<today, shifts, checks>>
      BY <1>2, <2>1, <2>2 DEF RecordRefund, Compensable
    <2>4. Late(x)
      <3>1. t \in Int /\ t <= today
        BY ClockInRange DEF IInv
      <3> QED BY <2>1, <2>2, <3>1 DEF Compensable, RefundAllowed, Late
    <2>5. /\ \A y \in Order \ {x} : ledger'[y] = ledger[y]
          /\ ledger'[x].cancellation = ledger[x].cancellation + 0
          /\ ledger'[x].refund = ledger[x].refund + a
      BY <1>2, <2>1 DEF RecordRefund, LedgerRow
    <2>6. CASE o = x
      BY <2>3, <2>4, <2>5, <2>6 DEF Refunds, Compensates
    <2>7. CASE o # x
      BY <2>3, <2>5, <2>7 DEF KeepsBooks
    <2> QED BY <2>6, <2>7
  <1>3. ASSUME NEW d \in Device, NEW x \in DOMAIN checks, CancelUnconfirmedOrder(d, x)
        PROVE  KeepsBooks(o) \/ Cancels(o)
    <2>1. x \in Order /\ Remaining(x) \in Int /\ ledger \in [Order -> LedgerRow]
      BY FinishedOrder, RemainingIsInt DEF IInv, TypeOK
    <2>2. Remaining(x) \in 1..Remaining(x) /\ UNCHANGED <<today, shifts, checks>>
      BY <1>3, <2>1 DEF CancelUnconfirmedOrder
    <2>3. /\ \A y \in Order \ {x} : ledger'[y] = ledger[y]
          /\ ledger'[x].cancellation = ledger[x].cancellation + Remaining(x)
          /\ ledger'[x].refund = ledger[x].refund + 0
      BY <1>3, <2>1 DEF CancelUnconfirmedOrder, LedgerRow
    <2>4. CASE o = x
      BY <2>2, <2>3, <2>4 DEF Cancels, Compensates
    <2>5. CASE o # x
      BY <2>2, <2>3, <2>5 DEF KeepsBooks
    <2> QED BY <2>4, <2>5
  <1>4. ASSUME NEW x \in DOMAIN checks, NEW doc \in Document, PrintDocument(x, doc)
        PROVE  KeepsBooks(o)
    BY <1>4 DEF PrintDocument, KeepsBooks
  <1>5. ASSUME NEW x \in DOMAIN checks, ConfirmCheckPrint(x)
        PROVE  KeepsBooks(o)
    BY <1>5 DEF IInv, TypeOK, IsTable, CheckRow, ConfirmCheckPrint, KeepsBooks
  <1> QED BY <1>1, <1>2, <1>3, <1>4, <1>5 DEF CheckCommand, BooksOf

\* Every step does one thing to an order's ledger, or nothing.
LEMMA BooksStep ==
    ASSUME IInv, [Next]_vars, NEW o \in Order
    PROVE  BooksOf(o)
  <1>1. CASE NextBusinessDate \/ ShiftCommand \/ LineCommand \/ UNCHANGED vars
    BY <1>1 DEF NextBusinessDate, ShiftCommand, LineCommand, OpenShift, CloseShift,
       OpenCashSession, CloseCashSession, CreateOrder, AddOrderLine, EditOrderLine,
       VoidOrderLine, AddDiscount, vars, closingVars, BooksOf, KeepsBooks
  <1> QED BY <1>1, PaymentBooks, CompensationBooks DEF Next

-----------------------------------------------------------------------------
\* The empty tables are an empty ledger.
LEMMA LedgerInit ==
    ASSUME NEW o \in Order, Init PROVE Ledger(o)!Init
  BY DEF Init, EmptyTable, EmptyLedger, Ledger!Init, Late

\* The mapped variable late has a truth value in both states of a step.
LEMMA LateIsBoolean ==
    ASSUME NEW o
    PROVE  /\ Late(o) = TRUE \/ Late(o) = FALSE
           /\ Late(o)' = TRUE \/ Late(o)' = FALSE
  BY Zenon DEF Late

\* Every step is a step of the order's ledger or leaves it unchanged.
LEMMA LedgerStep ==
    ASSUME IInv, [Next]_vars, NEW o \in Order
    PROVE  Ledger(o)!Next \/ UNCHANGED Ledger(o)!ledgerVars
  <1>0. BooksOf(o)
    BY BooksStep
  <1>1. CASE KeepsBooks(o)
    <2>1. CASE o \in DOMAIN checks /\ Late(o)'
      BY <1>1, <2>1 DEF KeepsBooks, Ledger!Next, Ledger!PassBoundary
    <2>2. CASE o \in DOMAIN checks /\ ~Late(o)'
      <3>1. ~Late(o)
        BY <2>2, LateStays
      <3>2. Late(o)' = Late(o)
        BY <2>2, <3>1, LateIsBoolean, Zenon
      <3> QED BY <1>1, <2>2, <3>2 DEF KeepsBooks, Ledger!ledgerVars
    <2>3. CASE o \notin DOMAIN checks
      <3>1. Late(o)' = Late(o)
        BY <1>1, <2>3 DEF KeepsBooks, Late
      <3> QED BY <1>1, <2>3, <3>1 DEF KeepsBooks, Ledger!ledgerVars
    <2> QED BY <2>1, <2>2, <2>3
  <1>2. CASE ClosesCheck(o)
    <2> QED BY <1>2, LateIsBoolean DEF ClosesCheck, Ledger!Next, Ledger!CloseCheck
  <1>3. CASE Cancels(o) \/ Refunds(o)
    <2>0. o \in DOMAIN checks /\ ledger[o].refund \in Nat /\ ledger[o].cancellation \in Nat
      BY <1>3, FinishedOrder DEF Cancels, Refunds, Compensates
    <2>1. UNCHANGED <<today, shifts, checks>> /\ orders'[o].shift = orders[o].shift
      BY <1>3, <2>0, LateStays DEF Cancels, Refunds, Compensates
    <2>2. Late(o)' = Late(o)
      <3>1. Late(o)' => Late(o)
        BY <2>0, <2>1 DEF Late
      <3>2. Late(o) => Late(o)'
        BY <2>0, LateStays
      <3> QED BY <3>1, <3>2, LateIsBoolean, Zenon
    <2>3. Ledger(o)!Uncompensated = Remaining(o)
      BY <2>0, RemainingIsInt DEF IInv, TypeOK, IsTable, CheckRow, Remaining, Ledger!Uncompensated
    <2>4. CASE Cancels(o)
      BY <2>0, <2>1, <2>2, <2>3, <2>4 DEF Cancels, Compensates, Ledger!Next, Ledger!Cancel
    <2>5. CASE Refunds(o)
      BY <2>0, <2>1, <2>2, <2>3, <2>5 DEF Refunds, Compensates, Ledger!Next, Ledger!Refund
    <2> QED BY <1>3, <2>4, <2>5
  <1> QED BY <1>0, <1>1, <1>2, <1>3 DEF BooksOf

\* Whatever commands an order sees, in whatever order and from whichever
\* device, the money of its check follows CheckLedger.
THEOREM LedgerIsKept == Spec => ImplementsCheckLedger
  <1>1. Init => \A o \in Order : Ledger(o)!Init
    BY LedgerInit
  <1>2. IInv /\ [Next]_vars =>
           [\A o \in Order : Ledger(o)!Next \/ UNCHANGED Ledger(o)!ledgerVars]_vars
    BY LedgerStep
  <1> QED BY <1>1, <1>2, Invariance, PTL DEF Spec, ImplementsCheckLedger

-----------------------------------------------------------------------------
(* Payments add up to the prechecks and checks they pay.                   *)

\* The payments add up, precheck by precheck.
PaidRows(o, v) == {p \in DOMAIN payments : payments[p].order = o /\ payments[p].version = v}
PaymentsAdd ==
    /\ IsFiniteSet(DOMAIN payments)
    /\ \A o \in Order, v \in Version : prechecks[o][v].paid = Paid(PaidRows(o, v))

\* Sums of payments are numbers, and payments that bring nothing are none.
LEMMA PaidIsANumber ==
    ASSUME TypeOK, PaymentsAdd, NEW ps \in SUBSET DOMAIN payments
    PROVE  Paid(ps) \in Nat /\ (Paid(ps) = 0 => ps = {})
  <1> DEFINE f == [p \in DOMAIN payments |-> payments[p].amount]
  <1>1. \A p \in DOMAIN payments : f[p] \in Nat /\ f[p] \in Int /\ f[p] > 0
    BY ConstantsAssumption DEF TypeOK, IsTable, PaymentRow
  <1>2. \A R \in SUBSET DOMAIN payments : IsFiniteSet(R)
    BY FS_Subset DEF PaymentsAdd
  <1> HIDE DEF f
  <1>3. \A R \in SUBSET DOMAIN payments : SumFunctionOnSet(f, R) \in Nat
    BY <1>1, <1>2, SumIsANumber
  <1>4. ASSUME NEW p \in ps PROVE SumFunctionOnSet(f, ps) > 0
    <2>1. SumFunctionOnSet(f, ps) = f[p] + SumFunctionOnSet(f, ps \ {p})
      BY <1>1, <1>2, SumIsOfAny
    <2> QED
      BY <1>1, <1>3, <2>1
  <1>5. Paid(ps) = SumFunctionOnSet(f, ps)
    BY DEF Paid, f
  <1> QED
    BY <1>3, <1>4, <1>5

\* What the payments of a precheck that gets none brought stays, and a new one adds to its own.
LEMMA PaymentAdds ==
    ASSUME TypeOK, TypeOK', PaymentsAdd, NEW o \in Order, NEW v \in Version, NEW a \in Amount,
           NEW s, NEW t, NEW p \in Payment \ DOMAIN payments,
           payments' = Insert(payments, p,
              [order |-> o, version |-> v, amount |-> a, shift |-> s, date |-> t])
    PROVE  /\ IsFiniteSet(DOMAIN payments')
           /\ \A x \in Order, w \in Version :
                 Paid(PaidRows(x, w))' =
                    IF x = o /\ w = v THEN Paid(PaidRows(x, w)) + a ELSE Paid(PaidRows(x, w))
  <1> DEFINE f == [q \in DOMAIN payments |-> payments[q].amount]
             e == [q \in DOMAIN payments' |-> payments'[q].amount]
  <1>1. /\ DOMAIN payments' = DOMAIN payments \cup {p}
        /\ payments'[p].order = o /\ payments'[p].version = v /\ payments'[p].amount = a
        /\ \A q \in DOMAIN payments : payments'[q] = payments[q]
    BY DEF Insert
  <1>2. IsFiniteSet(DOMAIN payments')
    BY <1>1, FS_AddElement DEF PaymentsAdd
  <1>3. \A q \in DOMAIN payments' : e[q] \in Int
    BY ConstantsAssumption DEF TypeOK, IsTable, PaymentRow
  <1>4. \A q \in DOMAIN payments : e[q] = f[q]
    BY <1>1
  <1>5. e[p] = a
    BY <1>1
  <1> HIDE DEF e, f
  <1>6. ASSUME NEW x \in Order, NEW w \in Version
        PROVE  Paid(PaidRows(x, w))' =
                  IF x = o /\ w = v THEN Paid(PaidRows(x, w)) + a ELSE Paid(PaidRows(x, w))
    <2> DEFINE R == PaidRows(x, w)
    <2>1. R \subseteq DOMAIN payments /\ p \notin R /\ IsFiniteSet(R)
      BY FS_Subset DEF PaidRows, PaymentsAdd
    <2>2. PaidRows(x, w)' = IF x = o /\ w = v THEN R \cup {p} ELSE R
      BY <1>1 DEF PaidRows
    <2>3. Paid(R) = SumFunctionOnSet(f, R) /\ Paid(R)' = SumFunctionOnSet(e, PaidRows(x, w)')
      BY DEF Paid, e, f
    <2>4. SumFunctionOnSet(e, R) = SumFunctionOnSet(f, R)
      BY <1>4, <2>1, SumOfEquals
    <2>5. SumFunctionOnSet(e, R \cup {p}) = SumFunctionOnSet(e, R) + a
      BY <1>1, <1>3, <1>5, <2>1, SumOfMore
    <2> QED
      BY <2>2, <2>3, <2>4, <2>5
  <1> QED
    BY <1>2, <1>6

\* Nothing but a payment changes what was paid.
LEMMA PaidStays ==
    ASSUME UNCHANGED payments, PaymentsAdd,
           \A o \in Order, v \in Version : prechecks'[o][v].paid = prechecks[o][v].paid
    PROVE  PaymentsAdd'
  BY DEF PaymentsAdd, Paid, PaidRows

\* Every step keeps the sums.
LEMMA PaymentsStep ==
    ASSUME IInv, IInv', PaymentsAdd, [Next]_vars
    PROVE  PaymentsAdd'
  <1>1. ASSUME NEW o \in DOMAIN orders, NEW d \in Device, NEW v \in Version, NEW a \in Amount,
               CapturePartialPayment(d, o, v, a) \/ CaptureFinalPayment(d, o, v, a)
        PROVE  PaymentsAdd'
    <2>1. o \in Order /\ TypeOK /\ TypeOK'
      BY DEF IInv, TypeOK, IsTable
    <2>2. PICK c \in DOMAIN sessions, t \in Clock : RecordPayment(o, v, a, c, t)
      BY <1>1 DEF CapturePartialPayment, CaptureFinalPayment
    <2>3. PICK p \in Payment \ DOMAIN payments :
             payments' = Insert(payments, p,
                [order |-> o, version |-> v, amount |-> a, shift |-> sessions[c].shift,
                 date |-> t])
      BY <2>2 DEF RecordPayment
    <2>4. /\ IsFiniteSet(DOMAIN payments')
          /\ \A x \in Order, w \in Version :
                 Paid(PaidRows(x, w))' =
                    IF x = o /\ w = v THEN Paid(PaidRows(x, w)) + a ELSE Paid(PaidRows(x, w))
      BY <2>1, <2>3, PaymentAdds
    <2>5. /\ prechecks[o][v] \in PrecheckRow
          /\ prechecks'[o][v].paid = prechecks[o][v].paid + a
          /\ \A w \in Version \ {v} : prechecks'[o][w] = prechecks[o][w]
          /\ \A x \in Order \ {o} : prechecks'[x] = prechecks[x]
      BY <1>1, <2>1 DEF TypeOK, PrecheckRow, CapturePartialPayment, CaptureFinalPayment
    <2> QED
      BY <2>4, <2>5 DEF PaymentsAdd
  <1>2. ASSUME NEW o \in DOMAIN orders, NEW d \in Device, IssuePrecheck(d, o) PROVE PaymentsAdd'
    <2>1. o \in Order /\ TypeOK /\ UNCHANGED payments
      BY <1>2 DEF IInv, TypeOK, IsTable, IssuePrecheck
    <2>2. PICK v \in Version : /\ prechecks[o][v].status = "none"
                               /\ \A w \in Version : w < v => prechecks[o][w].status # "none"
                               /\ prechecks' = [prechecks EXCEPT ![o][v] =
                                      [status |-> "issued", total |-> GrandTotal(o), paid |-> 0]]
      BY <1>2 DEF IssuePrecheck
    <2>3. prechecks[o][v].paid = 0
      <3>1. orders[o].status = "open"
        BY <1>2 DEF IssuePrecheck, Editable
      <3>2. CASE NeverIssued(o)
        BY <3>2 DEF NeverIssued, NoPrecheck
      <3>3. ASSUME NEW w \in Version, LastPrecheck(o, w, "cancelled") PROVE prechecks[o][v].paid = 0
        BY <2>2, <3>3 DEF LastPrecheck, NoPrecheck, Version
      <3> QED
        BY <2>1, <3>1, <3>2, <3>3 DEF IInv, PrecheckFollowsOrder, PrechecksFit
    <2> QED
      BY <2>1, <2>2, <2>3, PaidStays DEF TypeOK
  <1>3. ASSUME NEW o \in DOMAIN orders, NEW d \in Device, NEW v \in Version, CancelPrecheck(d, o, v)
        PROVE  PaymentsAdd'
    <2>1. o \in Order /\ TypeOK /\ UNCHANGED payments
      BY <1>3 DEF IInv, TypeOK, IsTable, CancelPrecheck
    <2>2. prechecks' = [prechecks EXCEPT ![o][v].status = "cancelled"]
      BY <1>3 DEF CancelPrecheck
    <2> QED
      BY <2>1, <2>2, PaidStays DEF TypeOK, PrecheckRow
  <1>4. CASE PrecheckCommand
    BY <1>1, <1>2, <1>3, <1>4 DEF PrecheckCommand
  <1>5. CASE UNCHANGED <<prechecks, payments>>
    BY <1>5, PaidStays
  <1>6. CASE ShiftCommand
    BY <1>5, <1>6 DEF ShiftCommand, OpenShift, OpenCashSession, CreateOrder, CloseShift,
       CloseCashSession, salesVars
  <1>7. CASE LineCommand
    BY <1>5, <1>7 DEF LineCommand, AddOrderLine, EditOrderLine, VoidOrderLine, AddDiscount
  <1>8. CASE CheckCommand
    BY <1>5, <1>8 DEF CheckCommand, RecordCancellation, RecordRefund, CancelUnconfirmedOrder,
       PrintDocument, ConfirmCheckPrint, salesVars
  <1> QED
    BY <1>4, <1>5, <1>6, <1>7, <1>8 DEF Next, NextBusinessDate, salesVars, vars

\* A finished order collected its total: its other prechecks have no payments.
LEMMA AccountedByPrecheck ==
    ASSUME IInv, PaymentsAdd
    PROVE  MoneyIsAccounted
  <1>1. ASSUME NEW o \in DOMAIN checks
        PROVE  checks[o].total = Paid({p \in DOMAIN payments : payments[p].order = o})
    <2>1. o \in Order /\ o \in DOMAIN orders
      BY DEF IInv, TypeOK, IsTable
    <2>2. PICK v \in Version :
             /\ LastPrecheck(o, v, "closed") /\ prechecks[o][v].paid = prechecks[o][v].total
      BY <2>1 DEF IInv, CheckForFinishedOrder, PrecheckFollowsOrder, PrechecksFit
    <2>3. checks[o].total = Paid(PaidRows(o, v))
      BY <2>1, <2>2 DEF IInv, CheckForFinishedOrder, LastPrecheck, PaymentsAdd
    <2>4. ASSUME NEW w \in Version, w # v PROVE PaidRows(o, w) = {}
      <3>1. prechecks[o][w].paid = 0
        BY <2>2, <2>4 DEF LastPrecheck, NoPrecheck, Version
      <3>2. Paid(PaidRows(o, w)) = 0
        BY <2>1, <3>1 DEF PaymentsAdd
      <3>3. PaidRows(o, w) \in SUBSET DOMAIN payments
        BY DEF PaidRows
      <3> QED
        BY <3>2, <3>3, PaidIsANumber DEF IInv
    <2>5. {p \in DOMAIN payments : payments[p].order = o} = PaidRows(o, v)
      BY <2>4 DEF IInv, TypeOK, IsTable, PaymentRow, PaidRows
    <2> QED
      BY <2>3, <2>5
  <1> QED
    BY <1>1 DEF PaymentsAdd, PaidRows, MoneyIsAccounted

\* PaymentsAdd
LEMMA PaymentsAlwaysAdd == Spec => []PaymentsAdd
  <1>1. ASSUME Init PROVE PaymentsAdd
    <2>1. DOMAIN payments = {} /\ \A o \in Order, v \in Version : prechecks[o][v].paid = 0
      BY <1>1 DEF Init, EmptyTable, NoPrecheck
    <2>2. \A o, v : PaidRows(o, v) = {}
      BY <2>1 DEF PaidRows
    <2>3. Paid({}) = 0 /\ IsFiniteSet({})
      BY SumIsOfTaken, FS_EmptySet DEF Paid
    <2> QED
      BY <2>1, <2>2, <2>3 DEF PaymentsAdd
  <1>2. Init => PaymentsAdd
    BY <1>1
  <1>3. IInv /\ IInv' /\ PaymentsAdd /\ [Next]_vars => PaymentsAdd'
    BY PaymentsStep
  <1> QED
    BY <1>2, <1>3, Invariance, PTL DEF Spec

\* MoneyIsAccounted: payments make up the prechecks they are for, and a check its payments.
THEOREM MoneyIsAlwaysAccounted == Spec => []MoneyIsAccounted
  <1>1. IInv /\ PaymentsAdd => MoneyIsAccounted
    BY AccountedByPrecheck
  <1> QED
    BY <1>1, Invariance, PaymentsAlwaysAdd, PTL

-----------------------------------------------------------------------------
(* Compensations of one check.                                             *)

\* A row of the operations.
OperationRow ==
    [type : {"cancellation", "refund"}, kind : {"full", "partial"},
     amount : Amounts, items : ItemLists]

\* The sums of both types are what all operations took, which the check had.
SumsAgreeWithTotal ==
    /\ SumByType("cancellation") + SumByType("refund") = SumUpTo(Len(operations))
    /\ SumUpTo(Len(operations)) <= CheckTotal

OperationsInv == OperationsTypeOK /\ SumsAgreeWithTotal /\ OperationsStayInBounds

\* The numbers of the limits, and the columns of an item.
LEMMA ItemColumns ==
    ASSUME NEW i \in Item
    PROVE  /\ i.amount \in Nat /\ i.amount >= 1 /\ i.amount <= CheckTotal
           /\ i.explicit \in BOOLEAN
           /\ i.scope = "order_line" => i.line \in DOMAIN LinePrice /\ i.quantity \in Nat
           /\ i.scope = "payment" => i.payment \in DOMAIN Captured
  <1>1. \A a \in Amounts : a \in Nat /\ a >= 1 /\ a <= CheckTotal
    BY OperationsAssumption DEF Amounts
  <1>2. CASE i \in [scope : {"whole_check"}, amount : Amounts, explicit : {TRUE}]
    <2>1. i.scope = "whole_check" /\ i.amount \in Amounts /\ i.explicit \in BOOLEAN
      BY <1>2
    <2> QED
      BY <1>1, <2>1
  <1>3. CASE i \in [scope : {"payment"}, payment : DOMAIN Captured, amount : Amounts,
                    explicit : BOOLEAN]
    <2>1. /\ i.scope = "payment" /\ i.payment \in DOMAIN Captured
          /\ i.amount \in Amounts /\ i.explicit \in BOOLEAN
      BY <1>3
    <2> QED
      BY <1>1, <2>1
  <1>4. ASSUME NEW l \in DOMAIN LinePrice,
               i \in [scope : {"order_line"}, line : {l}, quantity : Quantities(l),
                      amount : Amounts, explicit : {FALSE}]
        PROVE  /\ i.scope = "order_line" /\ i.line \in DOMAIN LinePrice
               /\ i.amount \in Amounts /\ i.explicit \in BOOLEAN /\ i.quantity \in Nat
    <2>1. \A q \in Quantities(l) : q \in Nat
      BY OperationsAssumption DEF Quantities
    <2>2. i.quantity \in Quantities(l)
      BY <1>4
    <2> QED
      BY <1>4, <2>1, <2>2
  <1>5. CASE i \in [scope : {"order_line"}, line : DOMAIN LinePrice, quantity : {0},
                    amount : Amounts, explicit : {TRUE}]
    <2>1. /\ i.scope = "order_line" /\ i.line \in DOMAIN LinePrice
          /\ i.amount \in Amounts /\ i.explicit \in BOOLEAN /\ i.quantity = 0
      BY <1>5
    <2> QED
      BY <1>1, <2>1
  <1>6. CASE i \in UNION {[scope : {"order_line"}, line : {l}, quantity : Quantities(l),
                           amount : Amounts, explicit : {FALSE}] : l \in DOMAIN LinePrice}
    <2>1. /\ i.scope = "order_line" /\ i.line \in DOMAIN LinePrice
          /\ i.amount \in Amounts /\ i.explicit \in BOOLEAN /\ i.quantity \in Nat
      BY <1>4, <1>6
    <2> QED
      BY <1>1, <2>1
  <1> QED
    BY <1>2, <1>3, <1>5, <1>6 DEF Item

\* A list of items has an amount, of one at least.
LEMMA ListColumns ==
    ASSUME NEW items \in ItemLists
    PROVE  /\ \E n \in 1..MaxItems : DOMAIN items = 1..n
           /\ IsFiniteSet(DOMAIN items)
           /\ \A k \in DOMAIN items : items[k] \in Item
           /\ SumAmounts(items) \in Amounts
  <1>1. PICK n \in 1..MaxItems : items \in [1..n -> Item]
    BY DEF ItemLists
  <1>2. n \in Nat /\ n >= 1
    BY <1>1, OperationsAssumption
  <1>3. DOMAIN items = 1..n /\ \A k \in DOMAIN items : items[k] \in Item
    BY <1>1
  <1>4. IsFiniteSet(DOMAIN items) /\ 1 \in DOMAIN items
    BY <1>2, <1>3, FS_Interval
  <1> DEFINE f == [k \in DOMAIN items |-> items[k].amount]
  <1>5. \A k \in DOMAIN items : f[k] \in Nat /\ f[k] \in Int /\ f[k] >= 1
    BY <1>3, ItemColumns
  <1>6. SumAmounts(items) = SumFunctionOnSet(f, DOMAIN items)
    BY DEF SumAmounts, SumFunction
  <1> HIDE DEF f
  <1>7. SumFunctionOnSet(f, DOMAIN items) = f[1] + SumFunctionOnSet(f, DOMAIN items \ {1})
    BY <1>4, <1>5, SumIsOfAny
  <1>8. SumFunctionOnSet(f, DOMAIN items \ {1}) \in Nat
    BY <1>4, <1>5, FS_Subset, SumIsANumber
  <1>9. SumAmounts(items) \in Nat /\ SumAmounts(items) >= 1
    BY <1>4, <1>5, <1>6, <1>7, <1>8
  <1>10. SumAmounts(items) <= CheckTotal
    BY DEF ItemLists
  <1>11. SumAmounts(items) \in Amounts
    BY <1>9, <1>10, OperationsAssumption DEF Amounts
  <1> QED
    BY <1>3, <1>4, <1>11

\* The operations are rows one after the other.
LEMMA OperationColumns ==
    ASSUME OperationsTypeOK
    PROVE  /\ Len(operations) \in Nat /\ DOMAIN operations = 1..Len(operations)
           /\ IsFiniteSet(DOMAIN operations)
           /\ \A n \in DOMAIN operations :
                 /\ operations[n] \in OperationRow
                 /\ operations[n].amount \in Nat /\ operations[n].amount >= 1
                 /\ operations[n].items \in ItemLists
  <1>1. operations \in Seq(OperationRow)
    BY DEF OperationsTypeOK, OperationRow
  <1>2. /\ Len(operations) \in Nat /\ DOMAIN operations = 1..Len(operations)
        /\ \A n \in DOMAIN operations : operations[n] \in OperationRow
    BY <1>1, LenProperties, ElementOfSeq
  <1>3. IsFiniteSet(1..Len(operations))
    BY <1>2, FS_Interval
  <1> QED
    BY <1>2, <1>3, OperationsAssumption DEF OperationRow, Amounts

\* The places of the items are finitely many, and each has an item.
LEMMA PlaceColumns ==
    ASSUME OperationsTypeOK
    PROVE  /\ IsFiniteSet(Places)
           /\ \A at \in Places : ItemAt(at) \in Item
           /\ \A at \in Places : at[1] \in DOMAIN operations /\ at[2] \in DOMAIN operations[at[1]].items
  <1>1. \A at \in Places :
           /\ at[1] \in DOMAIN operations /\ at[2] \in DOMAIN operations[at[1]].items
           /\ at = <<at[1], at[2]>>
    BY DEF Places
  <1>2. \A at \in Places : ItemAt(at) \in Item
    BY <1>1, OperationColumns, ListColumns DEF ItemAt
  <1>3. Places \subseteq (DOMAIN operations) \X (1..MaxItems)
    <2>1. ASSUME NEW at \in Places PROVE at[2] \in 1..MaxItems
      <3>1. PICK n \in 1..MaxItems : DOMAIN operations[at[1]].items = 1..n
        BY <1>1, OperationColumns, ListColumns
      <3> QED
        BY <1>1, <3>1, OperationsAssumption
    <2> QED
      BY <1>1, <2>1
  <1>4. IsFiniteSet((DOMAIN operations) \X (1..MaxItems))
    <2>1. IsFiniteSet(1..MaxItems)
      <3>1. 1 \in Int /\ MaxItems \in Int
        BY OperationsAssumption
      <3> QED
        BY <3>1, FS_Interval
    <2> QED
      BY <2>1, OperationColumns, FS_Product
  <1>5. IsFiniteSet(Places)
    BY <1>3, <1>4, FS_Subset
  <1> QED
    BY <1>1, <1>2, <1>5

-----------------------------------------------------------------------------
\* What a new operation adds to the sums of its type and of all.
LEMMA OperationAdds ==
    ASSUME OperationsTypeOK, NEW op \in OperationRow, operations' = Append(operations, op)
    PROVE  /\ Len(operations') = Len(operations) + 1
           /\ DOMAIN operations' = 1..(Len(operations) + 1)
           /\ operations'[Len(operations) + 1] = op
           /\ \A n \in DOMAIN operations : operations'[n] = operations[n]
           /\ \A t : /\ SumByType(t) \in Nat
                     /\ SumByType(t)' = SumByType(t) + (IF op.type = t THEN op.amount ELSE 0)
           /\ \A n \in 0..Len(operations) : SumUpTo(n) \in Nat /\ SumUpTo(n)' = SumUpTo(n)
           /\ SumUpTo(Len(operations))' = SumUpTo(Len(operations)) + op.amount
  <1> DEFINE c == Len(operations)
             k == c + 1
             f == OperationAmount
             e == [n \in DOMAIN operations' |-> operations'[n].amount]
  <1>1. operations \in Seq(OperationRow) /\ c \in Nat /\ DOMAIN operations = 1..c
    BY OperationColumns DEF OperationsTypeOK, OperationRow
  <1>2. /\ Len(operations') = k /\ DOMAIN operations' = 1..k
        /\ operations'[k] = op
        /\ \A n \in DOMAIN operations : operations'[n] = operations[n]
    BY <1>1, AppendProperties, LenProperties
  <1>3. 1..k = (1..c) \cup {k} /\ k \notin 1..c
    BY <1>1
  <1>4. /\ \A n \in 1..c : f[n] \in Nat /\ e[n] = f[n]
        /\ e[k] = op.amount /\ op.amount \in Nat
        /\ \A n \in 1..k : e[n] \in Nat /\ e[n] \in Int
    <2>1. op.amount \in Nat
      BY OperationsAssumption DEF OperationRow, Amounts
    <2>2. \A n \in 1..c : f[n] = operations[n].amount /\ e[n] = operations'[n].amount
      BY <1>1, <1>2, <1>3 DEF OperationAmount
    <2>3. e[k] = op.amount
      BY <1>2, <1>3
    <2>4. \A n \in 1..c : f[n] \in Nat /\ e[n] = f[n]
      BY <1>1, <1>2, <2>2, OperationColumns
    <2> HIDE DEF f, e, k, c
    <2>5. \A n \in 1..k : e[n] \in Nat
      BY <1>3, <2>1, <2>3, <2>4
    <2> QED
      BY <2>1, <2>3, <2>4, <2>5
  <1>5. OperationAmount' = e
    BY DEF OperationAmount
  <1> HIDE DEF f, e, k
  <1>6. \A R \in SUBSET (1..c) : IsFiniteSet(R)
    <2>1. IsFiniteSet(1..c)
      BY <1>1, FS_Interval
    <2> QED
      BY <2>1, FS_Subset
  <1>7. ASSUME NEW R \in SUBSET (1..c)
        PROVE  /\ SumFunctionOnSet(f, R) \in Nat
               /\ SumFunctionOnSet(e, R) = SumFunctionOnSet(f, R)
               /\ SumFunctionOnSet(e, R \cup {k}) = SumFunctionOnSet(f, R) + op.amount
    <2>1. SumFunctionOnSet(f, R) \in Nat
      BY <1>4, <1>6, SumIsANumber
    <2>2. SumFunctionOnSet(e, R) = SumFunctionOnSet(f, R)
      BY <1>4, <1>6, SumOfEquals
    <2>3. k \notin R /\ \A n \in R \cup {k} : e[n] \in Int
      BY <1>3, <1>4
    <2>4. SumFunctionOnSet(e, R \cup {k}) = SumFunctionOnSet(e, R) + e[k]
      BY <1>6, <2>3, SumOfMore
    <2> QED
      BY <1>4, <2>1, <2>2, <2>4
  <1>8. ASSUME NEW t
        PROVE  /\ SumByType(t) \in Nat
               /\ SumByType(t)' = SumByType(t) + (IF op.type = t THEN op.amount ELSE 0)
    <2> DEFINE R == {n \in DOMAIN operations : operations[n].type = t}
    <2>1. R \in SUBSET (1..c)
      BY <1>1
    <2>2. {n \in DOMAIN operations' : operations'[n].type = t} =
             IF op.type = t THEN R \cup {k} ELSE R
      BY <1>1, <1>2, <1>3
    <2>3. SumByType(t) = SumFunctionOnSet(f, R)
      BY DEF SumByType, f
    <2>4. SumByType(t)' = SumFunctionOnSet(e, {n \in DOMAIN operations' : operations'[n].type = t})
      BY <1>5 DEF SumByType
    <2> HIDE DEF R
    <2>5. CASE op.type = t
      BY <1>7, <2>1, <2>2, <2>3, <2>4, <2>5
    <2>6. CASE op.type # t
      <3>1. SumByType(t)' = SumByType(t) /\ SumByType(t) \in Nat
        BY <1>7, <2>1, <2>2, <2>3, <2>4, <2>6
      <3> QED
        BY <2>6, <3>1
    <2> QED
      BY <2>5, <2>6
  <1>9. ASSUME NEW n \in 0..c PROVE SumUpTo(n) \in Nat /\ SumUpTo(n)' = SumUpTo(n)
    <2>1. (1..n) \in SUBSET (1..c)
      BY <1>1
    <2>2. SumUpTo(n) = SumFunctionOnSet(f, 1..n) /\ SumUpTo(n)' = SumFunctionOnSet(e, 1..n)
      BY <1>5 DEF SumUpTo, f
    <2> QED
      BY <1>7, <2>1, <2>2
  <1>10. SumUpTo(Len(operations))' = SumUpTo(c) + op.amount
    <2>1. SumUpTo(c) = SumFunctionOnSet(f, 1..c)
      BY DEF SumUpTo, f
    <2>2. SumUpTo(Len(operations))' = SumFunctionOnSet(e, (1..c) \cup {k})
      BY <1>2, <1>3, <1>5 DEF SumUpTo
    <2> QED
      BY <1>7, <2>1, <2>2
  <1> QED
    BY <1>2, <1>8, <1>9, <1>10 DEF k

\* The sums are numbers.
LEMMA SumsAreNumbers ==
    ASSUME OperationsTypeOK, NEW t
    PROVE  SumByType(t) \in Nat
  <1> DEFINE R == {n \in DOMAIN operations : operations[n].type = t}
             f == OperationAmount
  <1>1. IsFiniteSet(R)
    BY OperationColumns, FS_Subset
  <1>2. \A n \in R : f[n] \in Nat
    BY OperationColumns DEF OperationAmount
  <1>3. SumByType(t) = SumFunctionOnSet(f, R)
    BY DEF SumByType
  <1> HIDE DEF f, R
  <1> QED
    BY <1>1, <1>2, <1>3, SumIsANumber

\* The places of a new operation's items, and what is at them.
LEMMA OperationPlaces ==
    ASSUME OperationsTypeOK, NEW op \in OperationRow, operations' = Append(operations, op)
    PROVE  /\ Places' = Places \cup ({Len(operations) + 1} \X (DOMAIN op.items))
           /\ \A at \in Places : ItemAt(at)' = ItemAt(at) /\ at[1] # Len(operations) + 1
           /\ \A at \in {Len(operations) + 1} \X (DOMAIN op.items) : ItemAt(at)' = op.items[at[2]]
  <1> DEFINE k == Len(operations) + 1
  <1>1. /\ DOMAIN operations' = DOMAIN operations \cup {k} /\ k \notin DOMAIN operations
        /\ operations'[k] = op /\ \A n \in DOMAIN operations : operations'[n] = operations[n]
    BY OperationAdds, OperationColumns
  <1> HIDE DEF k
  <1>2. Places' = UNION {{n} \X (DOMAIN operations'[n].items) : n \in DOMAIN operations'}
    BY DEF Places
  <1>3. Places' = Places \cup ({k} \X (DOMAIN op.items))
    BY <1>1, <1>2 DEF Places
  <1>4. \A at \in Places : ItemAt(at)' = ItemAt(at) /\ at[1] # k
    BY <1>1, PlaceColumns DEF ItemAt
  <1>5. \A at \in {k} \X (DOMAIN op.items) : ItemAt(at)' = op.items[at[2]]
    BY <1>1 DEF ItemAt
  <1> QED
    BY <1>3, <1>4, <1>5 DEF k

-----------------------------------------------------------------------------
\* The amounts of the items, before and after a new operation.
LEMMA ItemAmounts ==
    ASSUME OperationsTypeOK, NEW op \in OperationRow, operations' = Append(operations, op)
    PROVE  /\ \A at \in Places : /\ ItemAmount[at] \in Nat
                                 /\ ItemAmount'[at] = ItemAmount[at]
           /\ \A at \in Places' : /\ ItemAmount'[at] = ItemAt(at)'.amount
                                  /\ ItemAmount'[at] \in Nat
                                  /\ ItemAt(at)' \in Item
  <1>1. op.items \in ItemLists
    BY DEF OperationRow
  <1>2. \A at \in Places : ItemAt(at) \in Item /\ ItemAmount[at] = ItemAt(at).amount
    BY PlaceColumns DEF ItemAmount
  <1>3. \A at \in Places' : ItemAmount'[at] = ItemAt(at)'.amount
    BY DEF ItemAmount
  <1>4. \A at \in Places' : ItemAt(at)' \in Item
    <2>1. \A at \in Places : ItemAt(at)' \in Item
      BY <1>2, OperationPlaces
    <2>2. ASSUME NEW at \in {Len(operations) + 1} \X (DOMAIN op.items) PROVE ItemAt(at)' \in Item
      <3>1. at[2] \in DOMAIN op.items
        OBVIOUS
      <3>2. op.items[at[2]] \in Item
        BY <1>1, <3>1, ListColumns
      <3> QED
        BY <3>2, OperationPlaces
    <2> QED
      BY <2>1, <2>2, OperationPlaces
  <1>5. \A at \in Places : at \in Places' /\ ItemAt(at)' = ItemAt(at)
    BY OperationPlaces
  <1> QED
    BY <1>2, <1>3, <1>4, <1>5, ItemColumns

\* Where a new operation's items are.
LEMMA NewPlaces ==
    ASSUME OperationsTypeOK, NEW op \in OperationRow, operations' = Append(operations, op),
           NEW x \in Places', x \notin Places
    PROVE  /\ x[1] = Len(operations) + 1 /\ x[2] \in DOMAIN op.items
           /\ ItemAt(x)' = op.items[x[2]]
  <1>1. x \in {Len(operations) + 1} \X (DOMAIN op.items)
    BY OperationPlaces
  <1> QED
    BY <1>1, OperationPlaces

\* A sum over items stays below its limit if the new item does, and there is one at most.
LEMMA SumStaysBelow ==
    ASSUME OperationsTypeOK, NEW op \in OperationRow, operations' = Append(operations, op),
           NEW O, NEW P, O \subseteq Places, P \subseteq Places',
           \A at \in Places : at \in P <=> at \in O,
           \A at \in P : \A other \in P : other[1] = at[1] => other = at,
           NEW f, NEW e, NEW limit \in Int,
           \A x \in O : f[x] \in Nat /\ e[x] = f[x],
           \A x \in P \ O : e[x] \in Nat /\ SumFunctionOnSet(f, O) + e[x] <= limit,
           SumFunctionOnSet(f, O) <= limit
    PROVE  SumFunctionOnSet(e, P) <= limit
  <1> DEFINE N == P \ O
  <1>1. IsFiniteSet(O)
    BY PlaceColumns, FS_Subset
  <1>2. P = O \cup N /\ N \cap O = {}
    BY OperationPlaces
  <1>3. \A x \in N : x[1] = Len(operations) + 1
    BY NewPlaces
  <1>4. \A x \in N : \A y \in N : x = y
    BY <1>3
  <1>5. \A x \in N : e[x] \in Nat
    OBVIOUS
  <1> HIDE DEF N
  <1>6. /\ N = {} => SumFunctionOnSet(e, O \cup N) = SumFunctionOnSet(f, O)
        /\ \A x \in N : SumFunctionOnSet(e, O \cup N) = SumFunctionOnSet(f, O) + e[x]
    BY <1>1, <1>2, <1>4, <1>5, SumOfOneMore
  <1>7. CASE N = {}
    BY <1>2, <1>6, <1>7
  <1>8. ASSUME NEW x \in N PROVE SumFunctionOnSet(e, P) <= limit
    <2>1. SumFunctionOnSet(e, P) = SumFunctionOnSet(f, O) + e[x]
      BY <1>2, <1>6
    <2>2. SumFunctionOnSet(f, O) + e[x] <= limit
      BY DEF N
    <2> QED
      BY <2>1, <2>2
  <1> QED
    BY <1>7, <1>8

\* The limits of a line hold after a new operation if they did before.
LEMMA LineStaysInBounds ==
    ASSUME OperationsTypeOK, NEW op \in OperationRow, operations' = Append(operations, op),
           \A k \in DOMAIN op.items : ItemAccepted(op.items[k]),
           NEW l \in DOMAIN LinePrice,
           LimitedOneByOne(OfLine(l)) =>
              SumByLine(l) <= LinePrice[l] /\ QuantityByLine(l) <= LineQuantity[l],
           \A at \in OfLine(l)' :
              /\ ~ItemAt(at)'.explicit
              /\ \A other \in OfLine(l)' : other[1] = at[1] => other = at
    PROVE  SumByLine(l)' <= LinePrice[l] /\ QuantityByLine(l)' <= LineQuantity[l]
  <1> DEFINE O == OfLine(l)
             P == OfLine(l)'
             a == ItemAmount
             b == ItemAmount'
             q == [at \in O |-> ItemAt(at).quantity]
             r == [at \in P |-> ItemAt(at)'.quantity]
  <1>1. /\ O \subseteq Places /\ P \subseteq Places' /\ O \subseteq P
        /\ \A at \in O : IsOfLine(ItemAt(at), l) /\ ItemAt(at)' = ItemAt(at)
        /\ \A at \in P : IsOfLine(ItemAt(at)', l)
        /\ \A at \in Places : at \in P <=> at \in O
    <2>1. P = {at \in Places' : IsOfLine(ItemAt(at)', l)}
      BY DEF OfLine, IsOfLine
    <2> QED
      BY <2>1, OperationPlaces DEF OfLine
  <1>2. \A at \in P : \A other \in P : other[1] = at[1] => other = at
    OBVIOUS
  <1>3. SumByLine(l) <= LinePrice[l] /\ QuantityByLine(l) <= LineQuantity[l]
    <2>1. LimitedOneByOne(O)
      BY <1>1 DEF LimitedOneByOne
    <2> QED
      BY <2>1
  <1>4. /\ SumByLine(l) = SumFunctionOnSet(a, O) /\ SumByLine(l)' = SumFunctionOnSet(b, P)
        /\ QuantityByLine(l) = SumFunctionOnSet(q, O)
        /\ QuantityByLine(l)' = SumFunctionOnSet(r, P)
    BY DEF SumByLine, QuantityByLine, SumFunction
  <1>5. /\ \A x \in O : a[x] \in Nat /\ b[x] = a[x]
        /\ \A x \in P : b[x] \in Nat /\ b[x] = ItemAt(x)'.amount
    BY <1>1, ItemAmounts
  <1>6. /\ \A x \in O : q[x] \in Nat /\ r[x] = q[x]
        /\ \A x \in P : r[x] \in Nat /\ r[x] = ItemAt(x)'.quantity
    <2>1. ASSUME NEW x \in P PROVE r[x] \in Nat /\ r[x] = ItemAt(x)'.quantity
      <3>1. ItemAt(x)' \in Item /\ ItemAt(x)'.scope = "order_line"
        BY <1>1, ItemAmounts DEF IsOfLine
      <3>2. ItemAt(x)'.quantity \in Nat
        BY <3>1, ItemColumns
      <3> QED
        BY <3>2
    <2>2. \A x \in O : q[x] = ItemAt(x)'.quantity
      BY <1>1
    <2> QED
      BY <1>1, <2>1, <2>2
  <1>7. ASSUME NEW x \in P \ O
        PROVE  /\ SumByLine(l) + b[x] <= LinePrice[l]
               /\ QuantityByLine(l) + r[x] <= LineQuantity[l]
    <2> DEFINE i == op.items[x[2]]
    <2>1. ItemAccepted(i) /\ ItemAt(x)' = i
      BY <1>1, NewPlaces
    <2>2. ~i.explicit /\ i.scope = "order_line" /\ i.line = l
      BY <1>1, <2>1 DEF IsOfLine
    <2> HIDE DEF i
    <2>3. LineItemFits(i)
      BY <2>1, <2>2 DEF ItemAccepted
    <2>4. b[x] = i.amount /\ r[x] = i.quantity
      BY <1>5, <1>6, <2>1
    <2> QED
      BY <2>2, <2>3, <2>4 DEF LineItemFits
  <1>8. LinePrice[l] \in Int /\ LineQuantity[l] \in Int
    BY OperationsAssumption
  <1> HIDE DEF O, P, a, b, q, r
  <1>9. SumFunctionOnSet(b, P) <= LinePrice[l]
    BY <1>1, <1>2, <1>3, <1>4, <1>5, <1>7, <1>8, SumStaysBelow
  <1>10. SumFunctionOnSet(r, P) <= LineQuantity[l]
    BY <1>1, <1>2, <1>3, <1>4, <1>6, <1>7, <1>8, SumStaysBelow
  <1> QED
    BY <1>4, <1>9, <1>10

\* The limit of a payment holds after a new operation if it did before.
LEMMA PaymentStaysInBounds ==
    ASSUME OperationsTypeOK, NEW op \in OperationRow, operations' = Append(operations, op),
           \A k \in DOMAIN op.items : ItemAccepted(op.items[k]),
           NEW p \in DOMAIN Captured,
           LimitedOneByOne(OfPayment(p)) => SumByPayment(p) <= Captured[p],
           \A at \in OfPayment(p)' :
              /\ ~ItemAt(at)'.explicit
              /\ \A other \in OfPayment(p)' : other[1] = at[1] => other = at
    PROVE  SumByPayment(p)' <= Captured[p]
  <1> DEFINE O == OfPayment(p)
             P == OfPayment(p)'
             a == ItemAmount
             b == ItemAmount'
  <1>1. /\ O \subseteq Places /\ P \subseteq Places' /\ O \subseteq P
        /\ \A at \in O : ItemAt(at)' = ItemAt(at)
        /\ \A at \in P : IsOfPayment(ItemAt(at)', p)
        /\ \A at \in Places : at \in P <=> at \in O
    <2>1. P = {at \in Places' : IsOfPayment(ItemAt(at)', p)}
      BY DEF OfPayment, IsOfPayment
    <2> QED
      BY <2>1, OperationPlaces DEF OfPayment
  <1>2. \A at \in P : \A other \in P : other[1] = at[1] => other = at
    OBVIOUS
  <1>3. SumByPayment(p) <= Captured[p]
    <2>1. LimitedOneByOne(O)
      BY <1>1 DEF LimitedOneByOne
    <2> QED
      BY <2>1
  <1>4. /\ SumByPayment(p) = SumFunctionOnSet(a, O)
        /\ SumByPayment(p)' = SumFunctionOnSet(b, P)
    BY DEF SumByPayment
  <1>5. /\ \A x \in O : a[x] \in Nat /\ b[x] = a[x]
        /\ \A x \in P : b[x] \in Nat /\ b[x] = ItemAt(x)'.amount
    BY <1>1, ItemAmounts
  <1>6. ASSUME NEW x \in P \ O PROVE SumByPayment(p) + b[x] <= Captured[p]
    <2> DEFINE i == op.items[x[2]]
    <2>1. ItemAccepted(i) /\ ItemAt(x)' = i
      BY <1>1, NewPlaces
    <2>2. ~i.explicit /\ i.scope = "payment" /\ i.payment = p
      BY <1>1, <2>1 DEF IsOfPayment
    <2> HIDE DEF i
    <2>3. PaymentItemFits(i)
      BY <2>1, <2>2 DEF ItemAccepted
    <2> QED
      BY <1>5, <2>1, <2>2, <2>3 DEF PaymentItemFits
  <1>7. Captured[p] \in Int
    BY OperationsAssumption
  <1> HIDE DEF O, P, a, b
  <1>8. SumFunctionOnSet(b, P) <= Captured[p]
    BY <1>1, <1>2, <1>3, <1>4, <1>5, <1>6, <1>7, SumStaysBelow
  <1> QED
    BY <1>4, <1>8

-----------------------------------------------------------------------------
\* What recordFinancialOperation keeps, and what it adds to the sums.
LEMMA OperationIsRecorded ==
    ASSUME OperationsInv, NEW type \in {"cancellation", "refund"},
           NEW kind \in {"none", "full", "partial"}, NEW items \in ItemLists,
           ItemsAccepted(kind, items), CreateFinancialOperation(type, kind, items)
    PROVE  /\ operations' \in Seq(OperationRow)
           /\ \A n \in DOMAIN operations' : operations'[n].amount = SumAmounts(operations'[n].items)
           /\ SumsAgreeWithTotal' /\ OperationsStayInBounds'
           /\ SumAmounts(items) \in 1..RemainingCompensable
           /\ \A t : SumByType(t)' = SumByType(t) + (IF type = t THEN SumAmounts(items) ELSE 0)
  <1> DEFINE amount == SumAmounts(items)
             op == [type |-> type, kind |-> NormalizedKind(kind, amount),
                    amount |-> amount, items |-> items]
             c == Len(operations)
  <1>1. amount \in Amounts /\ amount \in Nat /\ amount >= 1
    BY ListColumns, OperationsAssumption DEF Amounts
  <1>2. op \in OperationRow
    BY <1>1 DEF OperationRow, NormalizedKind
  <1>3. operations' = Append(operations, op) /\ OperationsTypeOK
    BY DEF CreateFinancialOperation, OperationsInv
  <1>4. /\ op.type = type /\ op.amount = amount /\ op.items = items
        /\ op.kind = NormalizedKind(kind, amount)
    OBVIOUS
  <1>5. operations \in Seq(OperationRow) /\ operations' \in Seq(OperationRow)
    BY <1>2, <1>3, AppendProperties DEF OperationsTypeOK, OperationRow
  <1> HIDE DEF op, amount
  <1>6. /\ Len(operations') = c + 1 /\ DOMAIN operations' = 1..(c + 1) /\ operations'[c + 1] = op
        /\ \A n \in DOMAIN operations : operations'[n] = operations[n]
        /\ \A t : /\ SumByType(t) \in Nat
                  /\ SumByType(t)' = SumByType(t) + (IF type = t THEN amount ELSE 0)
        /\ \A n \in 0..c : SumUpTo(n) \in Nat /\ SumUpTo(n)' = SumUpTo(n)
        /\ SumUpTo(Len(operations))' = SumUpTo(c) + amount
    <2> HIDE DEF c
    <2> QED
      BY <1>2, <1>3, <1>4, OperationAdds DEF c
  <1>7. c \in Nat /\ DOMAIN operations = 1..c
    BY <1>3, OperationColumns
  <1>8. /\ SumByType("cancellation") + SumByType("refund") = SumUpTo(c)
        /\ RemainingCompensable = CheckTotal - SumUpTo(c)
        /\ amount <= RemainingCompensable
    <2>1. SumByType("cancellation") + SumByType("refund") = SumUpTo(c)
      BY DEF OperationsInv, SumsAgreeWithTotal
    <2>2. CheckTotal \in Nat /\ SumByType("cancellation") \in Nat /\ SumByType("refund") \in Nat
      BY <1>6, OperationsAssumption
    <2>3. amount <= RemainingCompensable
      BY DEF ItemsAccepted, amount
    <2> QED
      BY <2>1, <2>2, <2>3 DEF RemainingCompensable
  <1>9. CheckTotal \in Nat /\ SumUpTo(c) \in Nat
    BY <1>6, <1>7, OperationsAssumption
  <1>10. \A n \in DOMAIN operations' : operations'[n].amount = SumAmounts(operations'[n].items)
    <2>1. \A n \in DOMAIN operations : operations[n].amount = SumAmounts(operations[n].items)
      BY <1>3 DEF OperationsTypeOK
    <2>2. op.amount = SumAmounts(op.items)
      BY <1>4 DEF amount
    <2> QED
      BY <1>6, <1>7, <2>1, <2>2
  <1>11. SumsAgreeWithTotal'
    <2>1. /\ SumByType("cancellation")' + SumByType("refund")' = SumUpTo(c) + amount
          /\ SumUpTo(c) + amount <= CheckTotal
      <3>1. CASE type = "cancellation"
        <4>1. SumByType("cancellation")' = SumByType("cancellation") + amount
          BY <1>6, <3>1
        <4>2. SumByType("refund")' = SumByType("refund")
          BY <1>6, <3>1
        <4> QED
          BY <1>1, <1>6, <1>8, <1>9, <4>1, <4>2 DEF amount
      <3>2. CASE type = "refund"
        <4>1. SumByType("cancellation")' = SumByType("cancellation")
          BY <1>6, <3>2
        <4>2. SumByType("refund")' = SumByType("refund") + amount
          BY <1>6, <3>2
        <4> QED
          BY <1>1, <1>6, <1>8, <1>9, <4>1, <4>2 DEF amount
      <3> QED
        BY <3>1, <3>2
    <2> QED
      BY <1>6, <2>1 DEF SumsAgreeWithTotal
  <1>12. KindTellsTheTruth'
    <2>1. ASSUME NEW n \in DOMAIN operations'
          PROVE  operations'[n].kind = "full" <=> SumUpTo(n)' = CheckTotal
      <3>1. CASE n \in DOMAIN operations
        <4>1. operations'[n] = operations[n] /\ SumUpTo(n)' = SumUpTo(n)
          BY <1>6, <1>7, <3>1
        <4> QED
          BY <3>1, <4>1 DEF OperationsInv, OperationsStayInBounds, KindTellsTheTruth
      <3>2. CASE n = c + 1
        <4>1. operations'[n].kind = NormalizedKind(kind, amount)
          BY <1>4, <1>6, <3>2
        <4>2. SumUpTo(n)' = SumUpTo(c) + amount
          BY <1>6, <3>2
        <4>3. NormalizedKind(kind, amount) = "full" <=> amount = RemainingCompensable
          <5>1. KindAccepted(kind, amount)
            BY DEF ItemsAccepted, amount
          <5>2. RemainingCompensable \in Int /\ amount \in Int
            BY <1>1, <1>8, <1>9 DEF amount
          <5> QED
            BY <5>1, <5>2 DEF KindAccepted, NormalizedKind
        <4> QED
          BY <1>1, <1>8, <1>9, <4>1, <4>2, <4>3 DEF amount
      <3> QED
        BY <1>6, <1>7, <3>1, <3>2
    <2> QED
      BY <2>1 DEF KindTellsTheTruth
  <1>13. LimitsHoldAcrossOperations'
    <2>1. \A k \in DOMAIN op.items : ItemAccepted(op.items[k])
      BY <1>4 DEF ItemsAccepted
    <2>2. ASSUME NEW l \in DOMAIN LinePrice,
                 \A at \in OfLine(l)' :
                    /\ ~ItemAt(at)'.explicit
                    /\ \A other \in OfLine(l)' : other[1] = at[1] => other = at
          PROVE  SumByLine(l)' <= LinePrice[l] /\ QuantityByLine(l)' <= LineQuantity[l]
      <3>1. LimitedOneByOne(OfLine(l)) =>
               SumByLine(l) <= LinePrice[l] /\ QuantityByLine(l) <= LineQuantity[l]
        BY DEF OperationsInv, OperationsStayInBounds, LimitsHoldAcrossOperations
      <3> QED
        BY <1>2, <1>3, <2>1, <2>2, <3>1, LineStaysInBounds
    <2>3. ASSUME NEW p \in DOMAIN Captured,
                 \A at \in OfPayment(p)' :
                    /\ ~ItemAt(at)'.explicit
                    /\ \A other \in OfPayment(p)' : other[1] = at[1] => other = at
          PROVE  SumByPayment(p)' <= Captured[p]
      <3>1. LimitedOneByOne(OfPayment(p)) => SumByPayment(p) <= Captured[p]
        BY DEF OperationsInv, OperationsStayInBounds, LimitsHoldAcrossOperations
      <3> QED
        BY <1>2, <1>3, <2>1, <2>3, <3>1, PaymentStaysInBounds
    <2> QED
      BY <2>2, <2>3 DEF LimitsHoldAcrossOperations, LimitedOneByOne
  <1>14. amount \in 1..RemainingCompensable
    BY <1>1, <1>8, <1>9 DEF amount
  <1> QED
    BY <1>5, <1>6, <1>10, <1>11, <1>12, <1>13, <1>14 DEF OperationsStayInBounds, amount

\* The items of RefundPayment are a list of items.
LEMMA PaymentItemsAreItems ==
    ASSUME OperationsInv, NEW p \in DOMAIN Captured, NEW kind,
           ItemsAccepted(kind, PaymentItems(p))
    PROVE  PaymentItems(p) \in ItemLists
  <1> DEFINE items == PaymentItems(p)
             i == [scope |-> "payment", payment |-> p, amount |-> Captured[p], explicit |-> FALSE]
             f == [k \in DOMAIN items |-> items[k].amount]
  <1>1. items = <<i>> /\ DOMAIN items = {1} /\ items[1] = i
    BY DEF PaymentItems
  <1>2. Captured[p] \in Nat /\ Captured[p] >= 1
    BY OperationsAssumption
  <1>3. SumAmounts(items) = Captured[p]
    <2>1. SumAmounts(items) = SumFunctionOnSet(f, {1}) /\ f[1] = Captured[p]
      BY <1>1 DEF SumAmounts, SumFunction
    <2>2. SumFunctionOnSet(f, {1}) = f[1] + SumFunctionOnSet(f, {1} \ {1})
      <3>1. IsFiniteSet({1})
        BY FS_Singleton
      <3> HIDE DEF f, items
      <3> QED
        BY <1>2, <2>1, <3>1, SumIsOfAny
    <2>3. SumFunctionOnSet(f, {1} \ {1}) = 0
      <3>1. {1} \ {1} = {} /\ IsFiniteSet({})
        BY FS_EmptySet
      <3> HIDE DEF f, items
      <3> QED
        BY <3>1, SumIsOfTaken
    <2> QED
      BY <1>2, <2>1, <2>2, <2>3
  <1>4. Captured[p] <= CheckTotal
    <2>1. Captured[p] <= RemainingCompensable
      BY <1>3 DEF ItemsAccepted
    <2>2. SumByType("cancellation") \in Nat /\ SumByType("refund") \in Nat /\ CheckTotal \in Nat
      BY SumsAreNumbers, OperationsAssumption DEF OperationsInv
    <2> QED
      BY <1>2, <2>1, <2>2 DEF RemainingCompensable
  <1>5. i \in Item
    <2>1. Captured[p] \in Amounts
      BY <1>2, <1>4, OperationsAssumption DEF Amounts
    <2> QED
      BY <2>1 DEF Item
  <1>6. items \in [1..1 -> Item]
    <2>1. items = <<i>>
      BY <1>1
    <2> HIDE DEF i, items
    <2>2. <<i>> \in Seq(Item) /\ Len(<<i>>) = 1
      BY <1>5
    <2>3. <<i>> \in [1..Len(<<i>>) -> Item]
      BY <2>2, LenProperties
    <2> QED
      BY <2>1, <2>2, <2>3
  <1>7. 1 \in 1..MaxItems
    BY OperationsAssumption
  <1> QED
    BY <1>3, <1>4, <1>6, <1>7 DEF ItemLists

\* Nothing changes while the rows stay.
LEMMA OperationsStayed ==
    ASSUME operations' = operations
    PROVE  /\ SumsAgreeWithTotal => SumsAgreeWithTotal'
           /\ OperationsStayInBounds => OperationsStayInBounds'
           /\ \A t : SumByType(t)' = SumByType(t)
  <1>1. OperationAmount' = OperationAmount
    BY DEF OperationAmount
  <1>2. \A t : SumByType(t)' = SumByType(t)
    BY <1>1 DEF SumByType
  <1>3. \A n : SumUpTo(n)' = SumUpTo(n)
    BY <1>1 DEF SumUpTo
  <1>4. SumsAgreeWithTotal => SumsAgreeWithTotal'
    <2>1. SumUpTo(Len(operations))' = SumUpTo(Len(operations))
      BY <1>1 DEF SumUpTo
    <2> QED
      BY <1>2, <2>1 DEF SumsAgreeWithTotal
  <1>5. KindTellsTheTruth => KindTellsTheTruth'
    BY <1>3 DEF KindTellsTheTruth
  <1>6. Places' = Places /\ \A at : ItemAt(at)' = ItemAt(at)
    BY DEF Places, ItemAt
  <1>7. ItemAmount' = ItemAmount
    BY <1>6 DEF ItemAmount
  <1>8. /\ \A l : OfLine(l)' = OfLine(l)
        /\ \A p : OfPayment(p)' = OfPayment(p)
    BY <1>6 DEF OfLine, OfPayment, IsOfLine, IsOfPayment
  <1>9. /\ \A l : SumByLine(l)' = SumByLine(l) /\ QuantityByLine(l)' = QuantityByLine(l)
        /\ \A p : SumByPayment(p)' = SumByPayment(p)
    BY <1>6, <1>7, <1>8 DEF SumByLine, QuantityByLine, SumByPayment
  <1>10. LimitsHoldAcrossOperations => LimitsHoldAcrossOperations'
    BY <1>6, <1>8, <1>9 DEF LimitsHoldAcrossOperations, LimitedOneByOne
  <1> QED
    BY <1>2, <1>4, <1>5, <1>10 DEF OperationsStayInBounds

\* A check begins with nothing given back.
LEMMA OperationsBegin ==
    ASSUME OperationsInit
    PROVE  OperationsInv /\ \A t : SumByType(t) = 0
  <1>1. operations = <<>> /\ DOMAIN operations = {} /\ Len(operations) = 0
    BY DEF OperationsInit
  <1>2. \A f : SumFunctionOnSet(f, {}) = 0
    BY SumIsOfTaken, FS_EmptySet
  <1>3. \A t : SumByType(t) = 0
    <2>1. \A t : {n \in DOMAIN operations : operations[n].type = t} = {}
      BY <1>1
    <2> QED
      BY <1>2, <2>1 DEF SumByType
  <1>4. SumUpTo(0) = 0
    <2>1. 1..0 = {}
      OBVIOUS
    <2> QED
      BY <1>2, <2>1 DEF SumUpTo
  <1>5. SumsAgreeWithTotal
    BY <1>1, <1>3, <1>4, OperationsAssumption DEF SumsAgreeWithTotal
  <1>6. \A l : OfLine(l) = {} /\ \A p : OfPayment(p) = {}
    BY <1>1 DEF OfLine, OfPayment, Places
  <1>7. LimitsHoldAcrossOperations
    <2>1. \A l \in DOMAIN LinePrice : SumByLine(l) = 0 /\ QuantityByLine(l) = 0
      BY <1>2, <1>6 DEF SumByLine, QuantityByLine, SumFunction
    <2>2. \A p \in DOMAIN Captured : SumByPayment(p) = 0
      BY <1>2, <1>6 DEF SumByPayment
    <2> QED
      BY <2>1, <2>2, OperationsAssumption DEF LimitsHoldAcrossOperations
  <1>8. KindTellsTheTruth
    BY <1>1 DEF KindTellsTheTruth
  <1>9. OperationsTypeOK
    <2>1. operations \in Seq([type : {"cancellation", "refund"}, kind : {"full", "partial"},
                              amount : Amounts, items : ItemLists])
      BY <1>1, EmptySeq
    <2>2. refunding \in [Client ->
             {NoCall} \cup [payment : DOMAIN Captured, kind : {"full", "partial"}]]
      BY DEF OperationsInit
    <2> QED
      BY <1>1, <2>1, <2>2 DEF OperationsTypeOK, OperationsInit, Boundary
  <1> QED
    BY <1>3, <1>5, <1>7, <1>8, <1>9 DEF OperationsInv, OperationsStayInBounds

\* Every step keeps the invariant and is one of the ledger of the check.
LEMMA OperationsStep ==
    ASSUME OperationsInv, [OperationsNext]_financialVars
    PROVE  OperationsInv' /\ [LedgerOfCheck!Next]_(LedgerOfCheck!ledgerVars)
  <1> DEFINE cancelled == SumByType("cancellation")
             refunded == SumByType("refund")
  <1>1. /\ cancelled \in Nat /\ refunded \in Nat /\ CheckTotal \in Nat
        /\ RemainingCompensable = CheckTotal - cancelled - refunded
    <2>1. cancelled \in Nat /\ refunded \in Nat /\ CheckTotal \in Nat
      BY SumsAreNumbers, OperationsAssumption DEF OperationsInv
    <2> HIDE DEF cancelled, refunded
    <2> QED
      BY <2>1 DEF RemainingCompensable, cancelled, refunded
  <1>2. ASSUME operations' = operations,
               boundary' \in Boundary,
               refunding' \in [Client ->
                  {NoCall} \cup [payment : DOMAIN Captured, kind : {"full", "partial"}]],
               boundary = "past" => boundary' = "past"
        PROVE  OperationsInv' /\ [LedgerOfCheck!Next]_(LedgerOfCheck!ledgerVars)
    <2>1. OperationsTypeOK'
      BY <1>2 DEF OperationsInv, OperationsTypeOK, OperationRow
    <2>2. OperationsInv'
      BY <1>2, <2>1, OperationsStayed DEF OperationsInv
    <2>3. cancelled' = cancelled /\ refunded' = refunded
      BY <1>2, OperationsStayed
    <2> QED
      BY <1>2, <2>2, <2>3
         DEF LedgerOfCheck!Next, LedgerOfCheck!PassBoundary, LedgerOfCheck!ledgerVars
  <1>3. ASSUME NEW type \in {"cancellation", "refund"},
               NEW kind \in {"none", "full", "partial"}, NEW items \in ItemLists,
               OperationAllowed(type), ItemsAccepted(kind, items),
               CreateFinancialOperation(type, kind, items),
               boundary' = boundary,
               refunding' \in [Client ->
                  {NoCall} \cup [payment : DOMAIN Captured, kind : {"full", "partial"}]]
        PROVE  OperationsInv' /\ [LedgerOfCheck!Next]_(LedgerOfCheck!ledgerVars)
    <2>1. /\ operations' \in Seq(OperationRow)
          /\ \A n \in DOMAIN operations' : operations'[n].amount = SumAmounts(operations'[n].items)
          /\ SumsAgreeWithTotal' /\ OperationsStayInBounds'
          /\ SumAmounts(items) \in 1..RemainingCompensable
          /\ \A t : SumByType(t)' = SumByType(t) + (IF type = t THEN SumAmounts(items) ELSE 0)
      BY <1>3, OperationIsRecorded
    <2>2. OperationsInv'
      BY <1>3, <2>1 DEF OperationsInv, OperationsTypeOK, OperationRow
    <2>3. CASE type = "cancellation"
      <3>1. cancelled' = cancelled + SumAmounts(items) /\ refunded' = refunded + 0
        BY <2>1, <2>3
      <3>2. refunded' = refunded
        BY <1>1, <3>1
      <3>3. LedgerOfCheck!Cancel
        BY <1>1, <1>3, <2>1, <3>1, <3>2 DEF LedgerOfCheck!Cancel, LedgerOfCheck!Uncompensated
      <3> QED
        BY <2>2, <3>3 DEF LedgerOfCheck!Next
    <2>4. CASE type = "refund"
      <3>1. cancelled' = cancelled + 0 /\ refunded' = refunded + SumAmounts(items)
        BY <2>1, <2>4
      <3>2. cancelled' = cancelled
        BY <1>1, <3>1
      <3>3. boundary = "past"
        BY <1>3, <2>4 DEF OperationAllowed, BoundaryAllows
      <3>4. LedgerOfCheck!Refund
        BY <1>1, <1>3, <2>1, <3>1, <3>2, <3>3 DEF LedgerOfCheck!Refund, LedgerOfCheck!Uncompensated
      <3> QED
        BY <2>2, <3>4 DEF LedgerOfCheck!Next
    <2> QED
      BY <2>3, <2>4
  <1>4. /\ boundary \in Boundary
        /\ refunding \in [Client ->
              {NoCall} \cup [payment : DOMAIN Captured, kind : {"full", "partial"}]]
    BY DEF OperationsInv, OperationsTypeOK
  <1>5. CASE UNCHANGED financialVars
    BY <1>2, <1>4, <1>5 DEF financialVars
  <1>6. ASSUME NEW type \in {"cancellation", "refund"}, RecordFinancialOperation(type)
        PROVE  OperationsInv' /\ [LedgerOfCheck!Next]_(LedgerOfCheck!ledgerVars)
    BY <1>3, <1>4, <1>6 DEF RecordFinancialOperation
  <1>7. ASSUME NEW c \in Client, NEW p \in DOMAIN Captured, ReadForRefund(c, p)
        PROVE  OperationsInv' /\ [LedgerOfCheck!Next]_(LedgerOfCheck!ledgerVars)
    BY <1>2, <1>4, <1>7 DEF ReadForRefund
  <1>8. ASSUME NEW c \in Client, RecordPaymentRefund(c)
        PROVE  OperationsInv' /\ [LedgerOfCheck!Next]_(LedgerOfCheck!ledgerVars)
    <2> DEFINE p == refunding[c].payment
    <2>1. /\ refunding[c] \in [payment : DOMAIN Captured, kind : {"full", "partial"}]
          /\ p \in DOMAIN Captured
          /\ refunding[c].kind \in {"none", "full", "partial"}
      BY <1>4, <1>8 DEF RecordPaymentRefund
    <2>2. PaymentItems(p) \in ItemLists
      BY <1>8, <2>1, PaymentItemsAreItems DEF RecordPaymentRefund
    <2>3. /\ boundary' = boundary
          /\ refunding' \in [Client ->
                {NoCall} \cup [payment : DOMAIN Captured, kind : {"full", "partial"}]]
      BY <1>4, <1>8 DEF RecordPaymentRefund
    <2>4. /\ OperationAllowed("refund") /\ ItemsAccepted(refunding[c].kind, PaymentItems(p))
          /\ CreateFinancialOperation("refund", refunding[c].kind, PaymentItems(p))
      BY <1>8 DEF RecordPaymentRefund
    <2> HIDE DEF p
    <2> QED
      BY <1>3, <2>1, <2>2, <2>3, <2>4
  <1>9. ASSUME NEW c \in Client, FailPaymentRefund(c)
        PROVE  OperationsInv' /\ [LedgerOfCheck!Next]_(LedgerOfCheck!ledgerVars)
    BY <1>2, <1>4, <1>9 DEF FailPaymentRefund
  <1>10. CASE MoveBoundary
    BY <1>2, <1>4, <1>10 DEF MoveBoundary, Boundary
  <1> QED
    BY <1>5, <1>6, <1>7, <1>8, <1>9, <1>10 DEF OperationsNext

\* Cancellations and refunds stay within what was sold and paid, in every behaviour.
THEOREM OperationsAlwaysStayInBounds == OperationsSpec => []OperationsStayInBounds
  <1>1. OperationsInit => OperationsInv
    BY OperationsBegin
  <1>2. OperationsInv /\ [OperationsNext]_financialVars => OperationsInv'
    BY OperationsStep
  <1>3. OperationsInv => OperationsStayInBounds
    BY DEF OperationsInv
  <1> QED
    BY <1>1, <1>2, <1>3, PTL DEF OperationsSpec

\* The operations of a check implement its ledger.
THEOREM OperationsImplementTheLedger == OperationsSpec => OperationsKeepTheLedger
  <1>1. OperationsInit => OperationsInv /\ LedgerOfCheck!Init
    BY OperationsBegin, OperationsAssumption DEF LedgerOfCheck!Init
  <1>2. OperationsInv /\ [OperationsNext]_financialVars =>
           OperationsInv' /\ [LedgerOfCheck!Next]_(LedgerOfCheck!ledgerVars)
    BY OperationsStep
  <1> QED
    BY <1>1, <1>2, PTL DEF OperationsSpec, OperationsKeepTheLedger, LedgerOfCheck!Spec

-----------------------------------------------------------------------------
(* The books of the Cloud.                                                 *)

\* What the events es not booked in bk that belong to K sum up to.
WaySum(es, bk, K) ==
    SumFunctionOnSet([i \in DOMAIN es |-> es[i].amount], {i \in DOMAIN es : bk[i] = 0 /\ es[i] \in K})

\* The rows of a list of events.
LEMMA EventColumns ==
    ASSUME NEW es \in Seq(Event)
    PROVE  /\ Len(es) \in Nat /\ DOMAIN es = 1..Len(es) /\ IsFiniteSet(DOMAIN es)
           /\ \A i \in DOMAIN es : es[i] \in Event /\ es[i].amount \in Nat
  <1>1. Len(es) \in Nat /\ DOMAIN es = 1..Len(es)
    BY LenProperties
  <1>2. \A i \in DOMAIN es : es[i] \in Event
    BY ElementOfSeq, <1>1
  <1>3. IsFiniteSet(1..Len(es))
    BY <1>1, FS_Interval
  <1> QED
    BY <1>1, <1>2, <1>3 DEF Event

\* What is on its way is a number.
LEMMA WayIsANumber ==
    ASSUME NEW es \in Seq(Event), NEW bk, NEW K
    PROVE  WaySum(es, bk, K) \in Nat
  <1> DEFINE f == [i \in DOMAIN es |-> es[i].amount]
             R == {i \in DOMAIN es : bk[i] = 0 /\ es[i] \in K}
  <1>1. IsFiniteSet(R)
    BY EventColumns, FS_Subset
  <1>2. \A i \in R : f[i] \in Nat
    BY EventColumns
  <1>3. WaySum(es, bk, K) = SumFunctionOnSet(f, R)
    BY DEF WaySum
  <1> HIDE DEF f, R
  <1> QED
    BY <1>1, <1>2, <1>3, SumIsANumber

\* A new event of K is on its way...
LEMMA WayOfNew ==
    ASSUME NEW es \in Seq(Event), NEW e \in Event, NEW bk, bk[Len(es) + 1] = 0, NEW K
    PROVE  WaySum(Append(es, e), bk, K) = WaySum(es, bk, K) + (IF e \in K THEN e.amount ELSE 0)
  <1> DEFINE c == Len(es)
             ds == Append(es, e)
             f == [i \in DOMAIN es |-> es[i].amount]
             g == [i \in DOMAIN ds |-> ds[i].amount]
             R == {i \in DOMAIN es : bk[i] = 0 /\ es[i] \in K}
             S == {i \in DOMAIN ds : bk[i] = 0 /\ ds[i] \in K}
  <1>1. /\ c \in Nat /\ DOMAIN es = 1..c /\ IsFiniteSet(DOMAIN es)
        /\ \A i \in DOMAIN es : es[i].amount \in Nat
    BY EventColumns
  <1>2. /\ DOMAIN ds = 1..(c + 1) /\ ds[c + 1] = e
        /\ \A i \in DOMAIN es : ds[i] = es[i]
    BY <1>1, AppendProperties
  <1>3. e.amount \in Nat
    BY DEF Event
  <1> HIDE DEF c, ds
  <1>4. 1..(c + 1) = (1..c) \cup {c + 1} /\ c + 1 \notin 1..c
    BY <1>1
  <1>5. S = IF e \in K THEN R \cup {c + 1} ELSE R
    BY <1>1, <1>2, <1>4 DEF c
  <1>6. /\ IsFiniteSet(R) /\ c + 1 \notin R
        /\ \A i \in R : f[i] = g[i] /\ f[i] \in Nat /\ g[i] \in Int
    BY <1>1, <1>2, <1>4, FS_Subset
  <1>7. g[c + 1] = e.amount
    BY <1>2, <1>4
  <1>8. WaySum(es, bk, K) = SumFunctionOnSet(f, R) /\ WaySum(ds, bk, K) = SumFunctionOnSet(g, S)
    BY DEF WaySum
  <1> HIDE DEF f, g, R, S
  <1>9. SumFunctionOnSet(g, R) = SumFunctionOnSet(f, R) /\ SumFunctionOnSet(f, R) \in Nat
    BY <1>6, SumOfEquals, SumIsANumber
  <1>10. SumFunctionOnSet(g, R \cup {c + 1}) = SumFunctionOnSet(g, R) + g[c + 1]
    <2>1. \A i \in R \cup {c + 1} : g[i] \in Int
      BY <1>3, <1>6, <1>7
    <2> QED
      BY <1>6, <2>1, SumOfMore
  <1>11. WaySum(ds, bk, K) = WaySum(es, bk, K) + (IF e \in K THEN e.amount ELSE 0)
    BY <1>3, <1>5, <1>7, <1>8, <1>9, <1>10
  <1> QED
    BY <1>11 DEF ds

\* ...events of other kinds do not matter...
LEMMA WayOfOthers ==
    ASSUME NEW es \in Seq(Event), NEW more \in Seq(Event), NEW bk, NEW K,
           \A i \in DOMAIN more : more[i] \notin K
    PROVE  WaySum(es \o more, bk, K) = WaySum(es, bk, K)
  <1> DEFINE ds == es \o more
             f == [i \in DOMAIN es |-> es[i].amount]
             g == [i \in DOMAIN ds |-> ds[i].amount]
             R == {i \in DOMAIN es : bk[i] = 0 /\ es[i] \in K}
             S == {i \in DOMAIN ds : bk[i] = 0 /\ ds[i] \in K}
  <1>1. /\ Len(es) \in Nat /\ DOMAIN es = 1..Len(es) /\ IsFiniteSet(DOMAIN es)
        /\ Len(more) \in Nat /\ DOMAIN more = 1..Len(more)
    BY EventColumns
  <1>2. /\ DOMAIN ds = 1..(Len(es) + Len(more))
        /\ \A i \in 1..(Len(es) + Len(more)) :
              ds[i] = IF i <= Len(es) THEN es[i] ELSE more[i - Len(es)]
    BY ConcatProperties, LenProperties
  <1> HIDE DEF ds
  <1>3. \A i \in DOMAIN ds : IF i \in DOMAIN es THEN ds[i] = es[i] ELSE ds[i] \notin K
    BY <1>1, <1>2
  <1>4. \A i \in DOMAIN es : i \in DOMAIN ds
    BY <1>1, <1>2
  <1>5. S = R /\ IsFiniteSet(R)
    BY <1>1, <1>3, <1>4, FS_Subset
  <1>6. \A i \in R : f[i] = g[i]
    BY <1>3, <1>4
  <1>7. WaySum(es, bk, K) = SumFunctionOnSet(f, R) /\ WaySum(ds, bk, K) = SumFunctionOnSet(g, S)
    BY DEF WaySum
  <1> HIDE DEF f, g, R, S
  <1>8. WaySum(ds, bk, K) = WaySum(es, bk, K)
    BY <1>5, <1>6, <1>7, SumOfEquals
  <1> QED
    BY <1>8 DEF ds

\* ...and one that is booked has arrived.
LEMMA WayOfBooked ==
    ASSUME NEW es \in Seq(Event), NEW bk, NEW i \in DOMAIN es, bk[i] = 0, NEW bl, NEW K,
           \A j \in DOMAIN es : bl[j] = IF j = i THEN 1 ELSE bk[j]
    PROVE  WaySum(es, bk, K) = WaySum(es, bl, K) + (IF es[i] \in K THEN es[i].amount ELSE 0)
  <1> DEFINE f == [j \in DOMAIN es |-> es[j].amount]
             R == {j \in DOMAIN es : bk[j] = 0 /\ es[j] \in K}
             S == {j \in DOMAIN es : bl[j] = 0 /\ es[j] \in K}
  <1>1. IsFiniteSet(S) /\ \A j \in DOMAIN es : f[j] \in Nat /\ f[j] \in Int
    BY EventColumns, FS_Subset
  <1>2. i \notin S /\ R = IF es[i] \in K THEN S \cup {i} ELSE S
    OBVIOUS
  <1>3. f[i] = es[i].amount /\ \A j \in S \cup {i} : f[j] \in Int
    BY <1>1
  <1>4. WaySum(es, bk, K) = SumFunctionOnSet(f, R) /\ WaySum(es, bl, K) = SumFunctionOnSet(f, S)
    BY DEF WaySum
  <1>5. WaySum(es, bl, K) \in Nat
    BY WayIsANumber
  <1> HIDE DEF f, R, S
  <1>6. SumFunctionOnSet(f, S \cup {i}) = SumFunctionOnSet(f, S) + f[i]
    BY <1>1, <1>2, <1>3, SumOfMore
  <1> QED
    BY <1>2, <1>3, <1>4, <1>5, <1>6

-----------------------------------------------------------------------------
\* The schema of the outbox and of the projections.
FinanceRow == [payments : Nat, checks : Nat, refunds : Nat]
BooksTyped ==
    /\ events \in Seq(Event) /\ Len(events) <= MaxEvents
    /\ booked \in [1..MaxEvents -> {0, 1}]
    /\ \A i \in 1..MaxEvents : i > Len(events) => booked[i] = 0
    /\ finance \in [Shift -> FinanceRow]
    /\ reported \in [Order -> LedgerRow]

BooksInv == BooksTyped /\ BooksClose

OfShift(type, s) == {e \in Event : e.type = type /\ e.shift = s}
OfOrder(type, o) == {e \in Event : e.type = type /\ e.order = o}

\* OnTheWay is a sum of the kind above, before and after a step.
LEMMA WaysAreSums ==
    /\ BooksTyped => \A type, x :
          /\ OnTheWay(type, x) = WaySum(events, booked, OfShift(type, x))
          /\ OnTheWayOf(type, x) = WaySum(events, booked, OfOrder(type, x))
          /\ OnTheWay(type, x) \in Nat /\ OnTheWayOf(type, x) \in Nat
    /\ BooksTyped' => \A type, x :
          /\ OnTheWay(type, x)' = WaySum(events', booked', OfShift(type, x))
          /\ OnTheWayOf(type, x)' = WaySum(events', booked', OfOrder(type, x))
  <1>1. ASSUME BooksTyped, NEW type, NEW x
        PROVE  /\ OnTheWay(type, x) = WaySum(events, booked, OfShift(type, x))
               /\ OnTheWayOf(type, x) = WaySum(events, booked, OfOrder(type, x))
               /\ OnTheWay(type, x) \in Nat /\ OnTheWayOf(type, x) \in Nat
    <2>1. events \in Seq(Event) /\ \A i \in DOMAIN events : events[i] \in Event
      BY <1>1, EventColumns DEF BooksTyped
    <2>2. /\ {i \in Underway(type) : events[i].shift = x} =
                {i \in DOMAIN events : booked[i] = 0 /\ events[i] \in OfShift(type, x)}
          /\ {i \in Underway(type) : events[i].order = x} =
                {i \in DOMAIN events : booked[i] = 0 /\ events[i] \in OfOrder(type, x)}
      BY <2>1 DEF Underway, OfShift, OfOrder
    <2>3. /\ OnTheWay(type, x) = WaySum(events, booked, OfShift(type, x))
          /\ OnTheWayOf(type, x) = WaySum(events, booked, OfOrder(type, x))
      BY <2>2 DEF OnTheWay, OnTheWayOf, EventAmount, WaySum
    <2> QED
      BY <2>1, <2>3, WayIsANumber
  <1>2. ASSUME BooksTyped', NEW type, NEW x
        PROVE  /\ OnTheWay(type, x)' = WaySum(events', booked', OfShift(type, x))
               /\ OnTheWayOf(type, x)' = WaySum(events', booked', OfOrder(type, x))
    <2>1. \A i \in DOMAIN events' : events'[i] \in Event
      <3>1. events' \in Seq(Event)
        BY <1>2 DEF BooksTyped
      <3> QED
        BY <3>1, EventColumns
    <2>2. /\ {i \in Underway(type)' : events'[i].shift = x} =
                {i \in DOMAIN events' : booked'[i] = 0 /\ events'[i] \in OfShift(type, x)}
          /\ {i \in Underway(type)' : events'[i].order = x} =
                {i \in DOMAIN events' : booked'[i] = 0 /\ events'[i] \in OfOrder(type, x)}
      BY <2>1 DEF Underway, OfShift, OfOrder
    <2> QED
      BY <2>2 DEF OnTheWay, OnTheWayOf, EventAmount, WaySum
  <1> QED
    BY <1>1, <1>2

\* Writing keeps the schema.
LEMMA WrittenTyped ==
    ASSUME BooksTyped, NEW more \in Seq(Event), Write(more)
    PROVE  /\ BooksTyped' /\ events' = events \o more
           /\ booked' = booked /\ finance' = finance /\ reported' = reported
           /\ Len(events') = Len(events) + Len(more)
  <1>1. events' = events \o more /\ UNCHANGED cloudVars /\ Len(events) + Len(more) <= MaxEvents
    BY DEF Write
  <1>2. /\ events' \in Seq(Event) /\ Len(events') = Len(events) + Len(more)
        /\ Len(events) \in Nat /\ Len(more) \in Nat
    BY <1>1, ConcatProperties, LenProperties DEF BooksTyped
  <1> QED
    BY <1>1, <1>2, EventsAssumption DEF BooksTyped, cloudVars

\* A sum of events that a written one adds to.
Adds(e, type, s) == IF e.type = type /\ e.shift = s THEN e.amount ELSE 0
AddsOf(e, type, o) == IF e.type = type /\ e.order = o THEN e.amount ELSE 0

\* One written event is on its way.
LEMMA WriteOne ==
    ASSUME BooksTyped, NEW e \in Event, Write(<<e>>)
    PROVE  /\ BooksTyped'
           /\ finance' = finance /\ reported' = reported
           /\ \A type, x : /\ OnTheWay(type, x)' = OnTheWay(type, x) + Adds(e, type, x)
                           /\ OnTheWayOf(type, x)' = OnTheWayOf(type, x) + AddsOf(e, type, x)
  <1>1. <<e>> \in Seq(Event) /\ Len(<<e>>) = 1
    OBVIOUS
  <1>2. /\ BooksTyped' /\ events' = events \o <<e>>
        /\ booked' = booked /\ finance' = finance /\ reported' = reported
        /\ Len(events') = Len(events) + 1
    BY <1>1, WrittenTyped
  <1>3. events \in Seq(Event) /\ Len(events) \in Nat /\ Len(events) + 1 <= MaxEvents
    BY <1>2, LenProperties DEF BooksTyped
  <1>4. events' = Append(events, e) /\ booked[Len(events) + 1] = 0
    <2>1. events \o <<e>> = Append(events, e)
      BY <1>3
    <2>2. Len(events) + 1 \in 1..MaxEvents
      BY <1>3, EventsAssumption
    <2> QED
      BY <1>2, <1>3, <2>1, <2>2 DEF BooksTyped
  <1>5. ASSUME NEW K
        PROVE  WaySum(events', booked', K) =
                  WaySum(events, booked, K) + (IF e \in K THEN e.amount ELSE 0)
    <2>1. WaySum(Append(events, e), booked, K) =
             WaySum(events, booked, K) + (IF e \in K THEN e.amount ELSE 0)
      BY <1>3, <1>4, WayOfNew
    <2> QED
      BY <1>2, <1>4, <2>1
  <1>6. ASSUME NEW type, NEW x
        PROVE  /\ OnTheWay(type, x)' = OnTheWay(type, x) + Adds(e, type, x)
               /\ OnTheWayOf(type, x)' = OnTheWayOf(type, x) + AddsOf(e, type, x)
    <2>1. /\ Adds(e, type, x) = IF e \in OfShift(type, x) THEN e.amount ELSE 0
          /\ AddsOf(e, type, x) = IF e \in OfOrder(type, x) THEN e.amount ELSE 0
      BY DEF Adds, AddsOf, OfShift, OfOrder
    <2>2. /\ OnTheWay(type, x) = WaySum(events, booked, OfShift(type, x))
          /\ OnTheWayOf(type, x) = WaySum(events, booked, OfOrder(type, x))
          /\ OnTheWay(type, x)' = WaySum(events', booked', OfShift(type, x))
          /\ OnTheWayOf(type, x)' = WaySum(events', booked', OfOrder(type, x))
      BY <1>2, WaysAreSums
    <2> QED
      BY <1>5, <2>1, <2>2
  <1> QED
    BY <1>2, <1>6

\* Two written events are.
LEMMA WriteTwo ==
    ASSUME BooksTyped, NEW d \in Event, NEW e \in Event, Write(<<d, e>>)
    PROVE  /\ BooksTyped'
           /\ finance' = finance /\ reported' = reported
           /\ \A type, x : /\ OnTheWay(type, x)' =
                                 OnTheWay(type, x) + Adds(d, type, x) + Adds(e, type, x)
                           /\ OnTheWayOf(type, x)' =
                                 OnTheWayOf(type, x) + AddsOf(d, type, x) + AddsOf(e, type, x)
  <1>1. <<d, e>> \in Seq(Event) /\ Len(<<d, e>>) = 2
    OBVIOUS
  <1>2. /\ BooksTyped' /\ events' = events \o <<d, e>>
        /\ booked' = booked /\ finance' = finance /\ reported' = reported
        /\ Len(events') = Len(events) + 2
    BY <1>1, WrittenTyped
  <1>3. events \in Seq(Event) /\ Len(events) \in Nat /\ Len(events) + 2 <= MaxEvents
    BY <1>2, LenProperties DEF BooksTyped
  <1> DEFINE once == Append(events, d)
  <1>4. /\ once \in Seq(Event) /\ Len(once) = Len(events) + 1
        /\ events' = Append(once, e)
        /\ booked[Len(events) + 1] = 0 /\ booked[Len(once) + 1] = 0
    <2>1. events \o <<d, e>> = Append(Append(events, d), e)
      BY <1>3
    <2>2. Len(events) + 1 \in 1..MaxEvents /\ Len(events) + 2 \in 1..MaxEvents
      BY <1>3, EventsAssumption
    <2>3. once \in Seq(Event) /\ Len(once) = Len(events) + 1
      BY <1>3, AppendProperties
    <2>4. booked[Len(events) + 1] = 0 /\ booked[Len(events) + 2] = 0
      BY <1>3, <2>2 DEF BooksTyped
    <2>5. Len(once) + 1 = Len(events) + 2
      BY <1>3, <2>3
    <2> HIDE DEF once
    <2> QED
      BY <1>2, <2>1, <2>3, <2>4, <2>5 DEF once
  <1> HIDE DEF once
  <1>5. ASSUME NEW K
        PROVE  WaySum(events', booked', K) =
                  WaySum(events, booked, K) + (IF d \in K THEN d.amount ELSE 0)
                                            + (IF e \in K THEN e.amount ELSE 0)
    <2>1. WaySum(once, booked, K) = WaySum(events, booked, K) + (IF d \in K THEN d.amount ELSE 0)
      BY <1>3, <1>4, WayOfNew DEF once
    <2>2. WaySum(events', booked, K) = WaySum(once, booked, K) + (IF e \in K THEN e.amount ELSE 0)
      BY <1>4, WayOfNew
    <2> QED
      BY <1>2, <2>1, <2>2
  <1>6. ASSUME NEW type, NEW x
        PROVE  /\ OnTheWay(type, x)' = OnTheWay(type, x) + Adds(d, type, x) + Adds(e, type, x)
               /\ OnTheWayOf(type, x)' =
                     OnTheWayOf(type, x) + AddsOf(d, type, x) + AddsOf(e, type, x)
    <2>1. /\ Adds(d, type, x) = IF d \in OfShift(type, x) THEN d.amount ELSE 0
          /\ AddsOf(d, type, x) = IF d \in OfOrder(type, x) THEN d.amount ELSE 0
          /\ Adds(e, type, x) = IF e \in OfShift(type, x) THEN e.amount ELSE 0
          /\ AddsOf(e, type, x) = IF e \in OfOrder(type, x) THEN e.amount ELSE 0
      BY DEF Adds, AddsOf, OfShift, OfOrder
    <2>2. /\ OnTheWay(type, x) = WaySum(events, booked, OfShift(type, x))
          /\ OnTheWayOf(type, x) = WaySum(events, booked, OfOrder(type, x))
          /\ OnTheWay(type, x)' = WaySum(events', booked', OfShift(type, x))
          /\ OnTheWayOf(type, x)' = WaySum(events', booked', OfOrder(type, x))
      BY <1>2, WaysAreSums
    <2> QED
      BY <1>5, <2>1, <2>2
  <1> QED
    BY <1>2, <1>6

\* Events no projection reads change nothing of what is on its way.
LEMMA WriteOthers ==
    ASSUME BooksTyped, NEW more \in Seq(Event), Write(more), NEW types,
           \A i \in DOMAIN more : more[i].type \notin types
    PROVE  /\ BooksTyped'
           /\ finance' = finance /\ reported' = reported
           /\ \A type \in types : \A x : /\ OnTheWay(type, x)' = OnTheWay(type, x)
                                         /\ OnTheWayOf(type, x)' = OnTheWayOf(type, x)
  <1>1. /\ BooksTyped' /\ events' = events \o more
        /\ booked' = booked /\ finance' = finance /\ reported' = reported
    BY WrittenTyped
  <1>2. events \in Seq(Event)
    BY DEF BooksTyped
  <1>3. ASSUME NEW K, \A i \in DOMAIN more : more[i] \notin K
        PROVE  WaySum(events', booked', K) = WaySum(events, booked, K)
    BY <1>1, <1>2, <1>3, WayOfOthers
  <1>4. \A type \in types : \A x : \A i \in DOMAIN more :
           more[i] \notin OfShift(type, x) /\ more[i] \notin OfOrder(type, x)
    BY DEF OfShift, OfOrder
  <1> QED
    BY <1>1, <1>3, <1>4, WaysAreSums

-----------------------------------------------------------------------------
\* The two sides of every balance.
TillOf(s) == Paid({p \in DOMAIN payments : payments[p].shift = s})
ShownChecks == [s \in Shift |-> finance[s].checks + OnTheWay("CheckCreated", s)]
ShownRefunds == [s \in Shift |-> finance[s].refunds + OnTheWay("RefundRecorded", s)]
Sold == [o \in DOMAIN checks |-> checks[o].total]
RefundOf == [o \in Order |-> ledger[o].refund]
IsCancelled(o) == o \in DOMAIN orders /\ orders[o].status = "cancelled"

\* The balances that make up BooksClose.
SoldMatches == SumFunction(ShownChecks) = SumFunction(Sold)
RefundsMatch == SumFunction(ShownRefunds) = SumFunction(RefundOf)

\* BooksClose is the conjunction of its balances, before and after a step.
LEMMA BooksCloseInParts ==
    /\ BooksClose <=> BooksMatchTheTill /\ SoldMatches /\ RefundsMatch /\ ReportsMatchTheLedger
    /\ BooksClose' <=>
          BooksMatchTheTill' /\ SoldMatches' /\ RefundsMatch' /\ ReportsMatchTheLedger'
  BY DEF BooksClose, BooksMatchTheChecks, SoldMatches, RefundsMatch, ShownChecks, ShownRefunds,
         Sold, RefundOf

\* A balance stays when both its sides do.
LEMMA BalanceStays ==
    ASSUME finance' = finance, reported' = reported
    PROVE  /\ BooksMatchTheTill /\ payments' = payments
              /\ (\A s : OnTheWay("PaymentCaptured", s)' = OnTheWay("PaymentCaptured", s))
              => BooksMatchTheTill'
           /\ SoldMatches /\ Sold' = Sold
              /\ (\A s : OnTheWay("CheckCreated", s)' = OnTheWay("CheckCreated", s))
              => SoldMatches'
           /\ RefundsMatch /\ (\A o \in Order : ledger'[o].refund = ledger[o].refund)
              /\ (\A s : OnTheWay("RefundRecorded", s)' = OnTheWay("RefundRecorded", s))
              => RefundsMatch'
           /\ ReportsMatchTheLedger /\ ledger' = ledger
              /\ (\A o : /\ OnTheWayOf("CancellationRecorded", o)' =
                               OnTheWayOf("CancellationRecorded", o)
                         /\ OnTheWayOf("RefundRecorded", o)' = OnTheWayOf("RefundRecorded", o))
              /\ (\A o \in Order : IsCancelled(o) => IsCancelled(o)')
              => ReportsMatchTheLedger'
  <1>1. ASSUME BooksMatchTheTill, payments' = payments,
               \A s : OnTheWay("PaymentCaptured", s)' = OnTheWay("PaymentCaptured", s)
        PROVE  BooksMatchTheTill'
    BY <1>1 DEF BooksMatchTheTill, Paid
  <1>2. ASSUME SoldMatches, Sold' = Sold,
               \A s : OnTheWay("CheckCreated", s)' = OnTheWay("CheckCreated", s)
        PROVE  SoldMatches'
    <2>1. ShownChecks' = ShownChecks
      BY <1>2 DEF ShownChecks
    <2> QED
      BY <1>2, <2>1 DEF SoldMatches
  <1>3. ASSUME RefundsMatch, \A o \in Order : ledger'[o].refund = ledger[o].refund,
               \A s : OnTheWay("RefundRecorded", s)' = OnTheWay("RefundRecorded", s)
        PROVE  RefundsMatch'
    <2>1. ShownRefunds' = ShownRefunds /\ RefundOf' = RefundOf
      BY <1>3 DEF ShownRefunds, RefundOf
    <2> QED
      BY <1>3, <2>1 DEF RefundsMatch
  <1>4. ASSUME ReportsMatchTheLedger, ledger' = ledger,
               \A o : /\ OnTheWayOf("CancellationRecorded", o)' = OnTheWayOf("CancellationRecorded", o)
                      /\ OnTheWayOf("RefundRecorded", o)' = OnTheWayOf("RefundRecorded", o),
               \A o \in Order : IsCancelled(o) => IsCancelled(o)'
        PROVE  ReportsMatchTheLedger'
    BY <1>4 DEF ReportsMatchTheLedger, IsCancelled
  <1> QED
    BY <1>1, <1>2, <1>3, <1>4

\* Commands the projections do not hear of.
LEMMA QuietBooks ==
    ASSUME IInv, BooksInv, OtherCommand \/ UNCHANGED booksVars
    PROVE  BooksInv'
  <1>1. /\ UNCHANGED <<events, cloudVars, payments, ledger>>
        /\ Sold' = Sold
        /\ \A o \in Order : IsCancelled(o) => IsCancelled(o)'
    <2>1. CASE UNCHANGED booksVars
      BY <2>1 DEF booksVars, cloudVars, vars, salesVars, closingVars, Sold, IsCancelled
    <2>2. CASE NextBusinessDate /\ UNCHANGED <<events, cloudVars>>
      BY <2>2 DEF NextBusinessDate, salesVars, closingVars, Sold, IsCancelled
    <2>3. CASE ShiftCommand /\ UNCHANGED <<events, cloudVars>>
      <3>1. UNCHANGED <<payments, ledger, checks>>
        BY <2>3 DEF ShiftCommand, OpenShift, OpenCashSession, CreateOrder, CloseShift,
           CloseCashSession, salesVars, closingVars
      <3>2. \/ orders' = orders
            \/ \E row : \E o \in Order \ DOMAIN orders : orders' = Insert(orders, o, row)
        BY <2>3 DEF ShiftCommand, OpenShift, OpenCashSession, CreateOrder, CloseShift,
           CloseCashSession, salesVars
      <3> QED
        BY <2>3, <3>1, <3>2 DEF Sold, IsCancelled, Insert
    <2>4. CASE LineCommand /\ UNCHANGED <<events, cloudVars>>
      BY <2>4 DEF LineCommand, AddOrderLine, EditOrderLine, VoidOrderLine, AddDiscount,
         closingVars, Sold, IsCancelled
    <2>5. ASSUME NEW o \in DOMAIN orders, NEW d \in Device, UNCHANGED <<events, cloudVars>>,
                 IssuePrecheck(d, o) \/ \E v \in Version : CancelPrecheck(d, o, v)
          PROVE  /\ UNCHANGED <<events, cloudVars, payments, ledger>>
                 /\ Sold' = Sold
                 /\ \A x \in Order : IsCancelled(x) => IsCancelled(x)'
      <3>1. UNCHANGED <<payments, ledger, checks>>
        BY <2>5 DEF IssuePrecheck, CancelPrecheck, closingVars
      <3>2. /\ orders[o].status \in {"open", "locked"}
            /\ \E st : orders' = [orders EXCEPT ![o].status = st]
        BY <2>5 DEF IssuePrecheck, CancelPrecheck, Editable
      <3> QED
        BY <2>5, <3>1, <3>2 DEF Sold, IsCancelled
    <2>6. ASSUME NEW o \in DOMAIN checks, NEW doc \in Document, UNCHANGED <<events, cloudVars>>,
                 PrintDocument(o, doc) \/ ConfirmCheckPrint(o)
          PROVE  /\ UNCHANGED <<events, cloudVars, payments, ledger>>
                 /\ Sold' = Sold
                 /\ \A x \in Order : IsCancelled(x) => IsCancelled(x)'
      <3>1. UNCHANGED <<payments, ledger, orders>>
        BY <2>6 DEF PrintDocument, ConfirmCheckPrint, salesVars
      <3>2. DOMAIN checks' = DOMAIN checks /\ \A x \in DOMAIN checks : checks'[x].total = checks[x].total
        <4>1. \A x \in DOMAIN checks : checks[x] \in CheckRow
          BY DEF IInv, TypeOK, IsTable
        <4>2. checks' = checks \/ checks' = [checks EXCEPT ![o].confirmed = TRUE]
          BY <2>6 DEF PrintDocument, ConfirmCheckPrint
        <4> QED
          BY <4>1, <4>2 DEF CheckRow
      <3> QED
        BY <2>6, <3>1, <3>2 DEF Sold, IsCancelled
    <2>7. CASE OtherCommand
      BY <2>2, <2>3, <2>4, <2>5, <2>6, <2>7 DEF OtherCommand
    <2> QED
      BY <2>1, <2>7
  <1>2. finance' = finance /\ reported' = reported
    BY <1>1 DEF cloudVars
  <1>3. BooksTyped'
    BY <1>1 DEF BooksInv, BooksTyped, cloudVars
  <1>4. \A type, x : OnTheWay(type, x)' = OnTheWay(type, x) /\ OnTheWayOf(type, x)' = OnTheWayOf(type, x)
    BY <1>1 DEF OnTheWay, OnTheWayOf, Underway, EventAmount, cloudVars
  <1> QED
    BY <1>1, <1>2, <1>3, <1>4, BalanceStays, BooksCloseInParts DEF BooksInv

\* The event of a payment tells what its row does, and the till gets what it brought.
LEMMA PaymentIsWritten ==
    ASSUME IInv, IInv', PaymentsAdd, NEW o \in Order, NEW v \in Version, NEW a \in Amount,
           NEW c \in DOMAIN sessions, NEW now, RecordPayment(o, v, a, c, now)
    PROVE  /\ sessions[c].shift \in Shift
           /\ PaymentEvent(o) = WriteOf("PaymentCaptured", o, sessions[c].shift, a)
           /\ PaymentEvent(o) \in Event
           /\ \A s : /\ TillOf(s) \in Nat
                     /\ TillOf(s)' = TillOf(s) + (IF s = sessions[c].shift THEN a ELSE 0)
  <1> DEFINE t == sessions[c].shift
             f == [q \in DOMAIN payments |-> payments[q].amount]
             e == [q \in DOMAIN payments' |-> payments'[q].amount]
  <1>1. t \in Shift /\ a \in Nat
    BY ConstantsAssumption DEF IInv, TypeOK, IsTable, SessionRow
  <1>2. PICK p \in Payment \ DOMAIN payments :
           payments' = Insert(payments, p,
              [order |-> o, version |-> v, amount |-> a, shift |-> sessions[c].shift, date |-> now])
    BY DEF RecordPayment
  <1> HIDE DEF t
  <1>3. /\ DOMAIN payments' = DOMAIN payments \cup {p} /\ p \notin DOMAIN payments
        /\ payments'[p].amount = a /\ payments'[p].shift = t
        /\ \A q \in DOMAIN payments : payments'[q] = payments[q]
    BY <1>2 DEF Insert, t
  <1>4. PaymentEvent(o) = WriteOf("PaymentCaptured", o, t, a)
    <2>1. (CHOOSE q \in DOMAIN payments' : q \notin DOMAIN payments) = p
      BY <1>3
    <2> QED
      BY <1>3, <2>1 DEF PaymentEvent
  <1>5. PaymentEvent(o) \in Event
    BY <1>1, <1>4 DEF WriteOf, Event, Type
  <1>6. /\ \A q \in DOMAIN payments' : e[q] \in Int
        /\ \A q \in DOMAIN payments : e[q] = f[q] /\ f[q] \in Nat
        /\ e[p] = a
    <2>1. \A q \in DOMAIN payments : payments[q].amount \in Nat
      BY ConstantsAssumption DEF IInv, TypeOK, IsTable, PaymentRow
    <2> QED
      BY <1>1, <1>3, <2>1
  <1> HIDE DEF e, f
  <1>7. ASSUME NEW s
        PROVE  TillOf(s) \in Nat /\ TillOf(s)' = TillOf(s) + (IF s = t THEN a ELSE 0)
    <2> DEFINE R == {q \in DOMAIN payments : payments[q].shift = s}
    <2>1. R \subseteq DOMAIN payments /\ p \notin R /\ IsFiniteSet(R)
      BY <1>3, FS_Subset DEF PaymentsAdd
    <2>2. {q \in DOMAIN payments' : payments'[q].shift = s} = IF s = t THEN R \cup {p} ELSE R
      BY <1>3
    <2>3. /\ TillOf(s) = SumFunctionOnSet(f, R)
          /\ TillOf(s)' = SumFunctionOnSet(e, {q \in DOMAIN payments' : payments'[q].shift = s})
      BY DEF TillOf, Paid, e, f
    <2> HIDE DEF R
    <2>4. SumFunctionOnSet(e, R) = SumFunctionOnSet(f, R) /\ SumFunctionOnSet(f, R) \in Nat
      BY <1>6, <2>1, SumOfEquals, SumIsANumber
    <2>5. SumFunctionOnSet(e, R \cup {p}) = SumFunctionOnSet(e, R) + a
      BY <1>3, <1>6, <2>1, SumOfMore
    <2>6. CASE s = t
      BY <2>2, <2>3, <2>4, <2>5, <2>6
    <2>7. CASE s # t
      <3>1. TillOf(s)' = TillOf(s) /\ TillOf(s) \in Nat
        BY <2>2, <2>3, <2>4, <2>7
      <3> QED
        BY <2>7, <3>1
    <2> QED
      BY <2>6, <2>7
  <1> QED
    BY <1>1, <1>4, <1>5, <1>7 DEF t

\* The till and its books grow by the same payment.
LEMMA TillGrows ==
    ASSUME BooksMatchTheTill, BooksTyped, finance' = finance, NEW t, NEW a \in Nat,
           \A s : OnTheWay("PaymentCaptured", s)' =
                     OnTheWay("PaymentCaptured", s) + (IF s = t THEN a ELSE 0),
           \A s : TillOf(s) \in Nat /\ TillOf(s)' = TillOf(s) + (IF s = t THEN a ELSE 0)
    PROVE  BooksMatchTheTill'
  <1>1. ASSUME NEW s \in Shift
        PROVE  finance'[s].payments + OnTheWay("PaymentCaptured", s)' = TillOf(s)'
    <2>1. finance[s].payments + OnTheWay("PaymentCaptured", s) = TillOf(s)
      BY DEF BooksMatchTheTill, TillOf
    <2>2. finance[s].payments \in Nat /\ OnTheWay("PaymentCaptured", s) \in Nat
      BY WaysAreSums DEF BooksTyped, FinanceRow
    <2> QED
      BY <2>1, <2>2
  <1> QED
    BY <1>1 DEF BooksMatchTheTill, TillOf

\* A payment that leaves a balance.
LEMMA PartialPaymentBooks ==
    ASSUME IInv, IInv', PaymentsAdd, BooksInv, NEW o \in DOMAIN orders, NEW d \in Device,
           NEW v \in Version, NEW a \in Amount,
           CapturePartialPayment(d, o, v, a), Write(<<PaymentEvent(o)>>)
    PROVE  BooksInv'
  <1>1. o \in Order /\ a \in Nat
    BY ConstantsAssumption DEF IInv, TypeOK, IsTable
  <1>2. PICK c \in DOMAIN sessions, now \in Clock : RecordPayment(o, v, a, c, now)
    BY DEF CapturePartialPayment
  <1> DEFINE e == PaymentEvent(o)
             t == sessions[c].shift
  <1>3. /\ t \in Shift /\ e = WriteOf("PaymentCaptured", o, t, a) /\ e \in Event
        /\ \A s : TillOf(s) \in Nat /\ TillOf(s)' = TillOf(s) + (IF s = t THEN a ELSE 0)
    BY <1>1, <1>2, PaymentIsWritten
  <1> HIDE DEF e, t
  <1>4. /\ BooksTyped' /\ finance' = finance /\ reported' = reported
        /\ \A type, x : /\ OnTheWay(type, x)' = OnTheWay(type, x) + Adds(e, type, x)
                        /\ OnTheWayOf(type, x)' = OnTheWayOf(type, x) + AddsOf(e, type, x)
        /\ \A type, x : OnTheWay(type, x) \in Nat /\ OnTheWayOf(type, x) \in Nat
    <2>1. Write(<<e>>)
      BY DEF e
    <2> QED
      BY <1>3, <2>1, WriteOne, WaysAreSums DEF BooksInv
  <1>5. /\ \A s : OnTheWay("PaymentCaptured", s)' =
                     OnTheWay("PaymentCaptured", s) + (IF s = t THEN a ELSE 0)
        /\ \A type, x : type # "PaymentCaptured" =>
              OnTheWay(type, x)' = OnTheWay(type, x) /\ OnTheWayOf(type, x)' = OnTheWayOf(type, x)
    BY <1>3, <1>4 DEF Adds, AddsOf, WriteOf
  <1>6. BooksMatchTheTill'
    BY <1>1, <1>3, <1>4, <1>5, TillGrows DEF BooksInv, BooksClose
  <1>7. Sold' = Sold /\ ledger' = ledger /\ \A x \in Order : IsCancelled(x) => IsCancelled(x)'
    BY DEF CapturePartialPayment, closingVars, Sold, IsCancelled
  <1> QED
    BY <1>4, <1>5, <1>6, <1>7, BalanceStays, BooksCloseInParts DEF BooksInv

\* The shift of the cash session a command finds is one.
LEMMA CashShiftIsAShift ==
    ASSUME IInv, NEW d \in Device, \E c \in DOMAIN sessions : OpenSessionAt(c, d)
    PROVE  CashShift(d) \in Shift
  BY DEF CashShift, IInv, TypeOK, IsTable, SessionRow

\* Finitely many checks, with a total each.
LEMMA ChecksAreFinite ==
    ASSUME IInv
    PROVE  /\ IsFiniteSet(DOMAIN checks) /\ DOMAIN checks \subseteq Order
           /\ \A o \in DOMAIN checks : checks[o].total \in Nat
  <1>1. DOMAIN checks \subseteq Order
    BY DEF IInv, TypeOK, IsTable
  <1>2. IsFiniteSet(DOMAIN checks)
    BY <1>1, EventsAssumption, FS_Subset
  <1> QED
    BY <1>1, <1>2 DEF IInv, TypeOK, IsTable, CheckRow

\* The payment that settles the precheck.
LEMMA FinalPaymentBooks ==
    ASSUME IInv, IInv', PaymentsAdd, BooksInv, NEW o \in DOMAIN orders, NEW d \in Device,
           NEW v \in Version, NEW a \in Amount,
           CaptureFinalPayment(d, o, v, a),
           Write(<<PaymentEvent(o), WriteOf("CheckCreated", o, CashShift(d), checks'[o].total)>>)
    PROVE  BooksInv'
  <1>1. o \in Order /\ a \in Nat
    BY ConstantsAssumption DEF IInv, TypeOK, IsTable
  <1>2. PICK c \in DOMAIN sessions, now \in Clock :
           /\ OpenSessionAt(c, d)
           /\ RecordPayment(o, v, a, c, now)
           /\ checks' = Insert(checks, o,
                 [total |-> prechecks[o][v].total, date |-> now, confirmed |-> FALSE])
    BY DEF CaptureFinalPayment
  <1> DEFINE e == PaymentEvent(o)
             t == sessions[c].shift
             u == CashShift(d)
             sum == checks'[o].total
             k == WriteOf("CheckCreated", o, u, sum)
  <1>3. /\ t \in Shift /\ e = WriteOf("PaymentCaptured", o, t, a) /\ e \in Event
        /\ \A s : TillOf(s) \in Nat /\ TillOf(s)' = TillOf(s) + (IF s = t THEN a ELSE 0)
    BY <1>1, <1>2, PaymentIsWritten
  <1>4. /\ o \notin DOMAIN checks /\ DOMAIN checks' = DOMAIN checks \cup {o}
        /\ \A x \in DOMAIN checks : checks'[x] = checks[x]
        /\ sum \in Nat
    <2>1. o \notin DOMAIN checks
      BY DEF CaptureFinalPayment
    <2>2. prechecks[o][v].total \in Nat
      BY <1>1 DEF IInv, TypeOK, PrecheckRow
    <2> QED
      BY <1>2, <2>1, <2>2 DEF Insert
  <1>5. u \in Shift
    BY <1>2, CashShiftIsAShift
  <1>6. Write(<<e, k>>)
    OBVIOUS
  <1> HIDE DEF e, t, u, sum
  <1>7. k \in Event /\ k = WriteOf("CheckCreated", o, u, sum)
    BY <1>1, <1>4, <1>5 DEF WriteOf, Event, Type
  <1> HIDE DEF k
  <1>8. /\ BooksTyped' /\ finance' = finance /\ reported' = reported
        /\ \A type, x : /\ OnTheWay(type, x)' =
                              OnTheWay(type, x) + Adds(e, type, x) + Adds(k, type, x)
                        /\ OnTheWayOf(type, x)' =
                              OnTheWayOf(type, x) + AddsOf(e, type, x) + AddsOf(k, type, x)
        /\ \A type, x : OnTheWay(type, x) \in Nat /\ OnTheWayOf(type, x) \in Nat
    BY <1>3, <1>6, <1>7, WriteTwo, WaysAreSums DEF BooksInv
  <1>9. /\ \A s : OnTheWay("PaymentCaptured", s)' =
                     OnTheWay("PaymentCaptured", s) + (IF s = t THEN a ELSE 0)
        /\ \A s : OnTheWay("CheckCreated", s)' =
                     OnTheWay("CheckCreated", s) + (IF s = u THEN sum ELSE 0)
        /\ \A type, x : type \notin {"PaymentCaptured", "CheckCreated"} =>
              OnTheWay(type, x)' = OnTheWay(type, x) /\ OnTheWayOf(type, x)' = OnTheWayOf(type, x)
    <2>1. /\ \A type, s : Adds(e, type, s) = IF type = "PaymentCaptured" /\ s = t THEN a ELSE 0
          /\ \A type, s : Adds(k, type, s) = IF type = "CheckCreated" /\ s = u THEN sum ELSE 0
          /\ \A type, x : type \notin {"PaymentCaptured", "CheckCreated"} =>
                AddsOf(e, type, x) = 0 /\ AddsOf(k, type, x) = 0
      BY <1>3, <1>7 DEF Adds, AddsOf, WriteOf
    <2> QED
      BY <1>1, <1>4, <1>8, <2>1
  <1>10. BooksMatchTheTill'
    BY <1>1, <1>3, <1>8, <1>9, TillGrows DEF BooksInv, BooksClose
  <1>11. SoldMatches'
    <2>1. SoldMatches
      BY BooksCloseInParts DEF BooksInv
    <2> DEFINE f == ShownChecks
               g == ShownChecks'
    <2>2. /\ DOMAIN f = Shift /\ DOMAIN g = Shift
          /\ \A s \in Shift : f[s] \in Nat
          /\ \A s \in Shift : s # u => g[s] = f[s]
          /\ g[u] = f[u] + sum
      <3>1. ASSUME NEW s \in Shift
            PROVE  f[s] \in Nat /\ g[s] = f[s] + (IF s = u THEN sum ELSE 0)
        <4>1. finance[s].checks \in Nat
          BY DEF BooksInv, BooksTyped, FinanceRow
        <4>2. /\ f[s] = finance[s].checks + OnTheWay("CheckCreated", s)
              /\ g[s] = finance[s].checks + OnTheWay("CheckCreated", s)'
          BY <1>8 DEF ShownChecks
        <4> QED
          BY <1>4, <1>8, <1>9, <4>1, <4>2
      <3>2. DOMAIN f = Shift /\ DOMAIN g = Shift
        BY DEF ShownChecks
      <3> HIDE DEF f, g
      <3> QED
        BY <1>4, <1>5, <3>1, <3>2
    <2> HIDE DEF f, g
    <2>3. SumFunction(g) = SumFunction(f) + sum
      <3>1. IsFiniteSet(Shift) /\ u \in Shift /\ sum \in Nat
        BY <1>4, <1>5, EventsAssumption
      <3> QED
        BY <2>2, <3>1, SumGrows
    <2> DEFINE b == Sold
               h == Sold'
    <2>4. /\ DOMAIN b = DOMAIN checks /\ DOMAIN h = DOMAIN checks \cup {o}
          /\ \A x \in DOMAIN checks : b[x] \in Nat /\ h[x] = b[x]
          /\ h[o] = sum
      BY <1>4, ChecksAreFinite DEF Sold, sum
    <2> HIDE DEF b, h
    <2>5. SumFunctionOnSet(h, DOMAIN checks) = SumFunctionOnSet(b, DOMAIN checks)
      BY <2>4, ChecksAreFinite, SumOfEquals
    <2>6. SumFunctionOnSet(h, DOMAIN checks \cup {o}) = SumFunctionOnSet(h, DOMAIN checks) + h[o]
      <3>1. \A x \in DOMAIN checks \cup {o} : h[x] \in Int
        BY <1>4, <2>4
      <3> QED
        BY <1>4, <3>1, ChecksAreFinite, SumOfMore
    <2>7. SumFunction(h) = SumFunction(b) + sum
      BY <2>4, <2>5, <2>6 DEF SumFunction
    <2> QED
      BY <2>1, <2>3, <2>7 DEF SoldMatches, f, g, b, h
  <1>12. ledger' = ledger /\ \A x \in Order : IsCancelled(x) => IsCancelled(x)'
    <2>1. orders[o].status # "cancelled"
      BY <1>4 DEF IInv, CheckForFinishedOrder
    <2> QED
      BY <2>1 DEF CaptureFinalPayment, IsCancelled
  <1> QED
    BY <1>8, <1>9, <1>10, <1>11, <1>12, BalanceStays, BooksCloseInParts DEF BooksInv

\* The reports of one kind grow with the ledger.
LEMMA ReportsGrow ==
    ASSUME BooksInv, TypeOK, reported' = reported, NEW o \in Order, NEW a \in Nat,
           \A x \in Order : IsCancelled(x) => IsCancelled(x)',
           NEW kind \in {"cancellation", "refund"},
           ledger' = IF kind = "refund" THEN [ledger EXCEPT ![o].refund = @ + a]
                                        ELSE [ledger EXCEPT ![o].cancellation = @ + a],
           \A x : /\ OnTheWayOf("CancellationRecorded", x)' = OnTheWayOf("CancellationRecorded", x)
                        + (IF kind = "cancellation" /\ x = o THEN a ELSE 0)
                  /\ OnTheWayOf("RefundRecorded", x)' = OnTheWayOf("RefundRecorded", x)
                        + (IF kind = "refund" /\ x = o THEN a ELSE 0)
    PROVE  ReportsMatchTheLedger'
  <1>1. ASSUME NEW x \in Order
        PROVE  LET cancellation == reported'[x].cancellation + OnTheWayOf("CancellationRecorded", x)'
                   refund == reported'[x].refund + OnTheWayOf("RefundRecorded", x)'
               IN  /\ refund = ledger'[x].refund
                   /\ cancellation <= ledger'[x].cancellation
                   /\ ~IsCancelled(x)' => cancellation = ledger'[x].cancellation
    <2>1. /\ reported[x].cancellation \in Nat /\ reported[x].refund \in Nat
          /\ ledger[x].cancellation \in Nat /\ ledger[x].refund \in Nat
          /\ OnTheWayOf("CancellationRecorded", x) \in Nat /\ OnTheWayOf("RefundRecorded", x) \in Nat
      BY WaysAreSums DEF BooksInv, BooksTyped, TypeOK, LedgerRow
    <2>2. /\ reported[x].refund + OnTheWayOf("RefundRecorded", x) = ledger[x].refund
          /\ reported[x].cancellation + OnTheWayOf("CancellationRecorded", x) <= ledger[x].cancellation
          /\ ~IsCancelled(x) => reported[x].cancellation + OnTheWayOf("CancellationRecorded", x) =
                                   ledger[x].cancellation
      BY DEF BooksInv, BooksClose, ReportsMatchTheLedger, IsCancelled
    <2>3. /\ ledger'[x].cancellation =
                ledger[x].cancellation + (IF kind = "cancellation" /\ x = o THEN a ELSE 0)
          /\ ledger'[x].refund = ledger[x].refund + (IF kind = "refund" /\ x = o THEN a ELSE 0)
      <3>1. ledger \in [Order -> LedgerRow]
        BY DEF TypeOK
      <3> QED
        BY <2>1, <3>1 DEF LedgerRow
    <2> QED
      BY <2>1, <2>2, <2>3
  <1> QED
    BY <1>1 DEF ReportsMatchTheLedger, IsCancelled

\* A cancellation.
LEMMA CancellationBooks ==
    ASSUME IInv, BooksInv, NEW o \in DOMAIN checks, NEW d \in Device, NEW a \in Amount,
           RecordCancellation(d, o, a),
           Write(<<WriteOf("CancellationRecorded", o, CashShift(d), a)>>)
    PROVE  BooksInv'
  <1>1. o \in Order /\ a \in Nat
    BY ConstantsAssumption DEF IInv, TypeOK, IsTable
  <1> DEFINE e == WriteOf("CancellationRecorded", o, CashShift(d), a)
  <1>2. e \in Event
    <2>1. CashShift(d) \in Shift
      BY CashShiftIsAShift DEF RecordCancellation, Compensable
    <2> QED
      BY <1>1, <2>1 DEF WriteOf, Event, Type
  <1>3. /\ BooksTyped' /\ finance' = finance /\ reported' = reported
        /\ \A type, x : /\ OnTheWay(type, x)' = OnTheWay(type, x) + Adds(e, type, x)
                        /\ OnTheWayOf(type, x)' = OnTheWayOf(type, x) + AddsOf(e, type, x)
        /\ \A type, x : OnTheWay(type, x) \in Nat /\ OnTheWayOf(type, x) \in Nat
    <2> HIDE DEF e
    <2>1. Write(<<e>>)
      BY DEF e
    <2> QED
      BY <1>2, <2>1, WriteOne, WaysAreSums DEF BooksInv
  <1>4. /\ \A x : OnTheWayOf("CancellationRecorded", x)' =
                     OnTheWayOf("CancellationRecorded", x) + (IF x = o THEN a ELSE 0)
        /\ \A type, x : type # "CancellationRecorded" =>
              OnTheWay(type, x)' = OnTheWay(type, x) /\ OnTheWayOf(type, x)' = OnTheWayOf(type, x)
    BY <1>3 DEF Adds, AddsOf, WriteOf
  <1>5. /\ UNCHANGED payments /\ Sold' = Sold /\ \A x \in Order : IsCancelled(x) => IsCancelled(x)'
        /\ ledger' = [ledger EXCEPT ![o].cancellation = @ + a]
    BY DEF RecordCancellation, salesVars, Sold, IsCancelled
  <1>6. \A x \in Order : ledger'[x].refund = ledger[x].refund
    BY <1>1, <1>5 DEF IInv, TypeOK, LedgerRow
  <1>7. ReportsMatchTheLedger'
    <2>1. \A x : OnTheWayOf("RefundRecorded", x)' = OnTheWayOf("RefundRecorded", x) + 0
      BY <1>3, <1>4
    <2> QED
      BY <1>1, <1>3, <1>4, <1>5, <2>1, ReportsGrow DEF IInv
  <1> QED
    BY <1>3, <1>4, <1>5, <1>6, <1>7, BalanceStays, BooksCloseInParts DEF BooksInv

\* A refund.
LEMMA RefundBooks ==
    ASSUME IInv, BooksInv, NEW o \in DOMAIN checks, NEW d \in Device, NEW a \in Amount,
           RecordRefund(d, o, a),
           Write(<<WriteOf("RefundRecorded", o, CashShift(d), a)>>)
    PROVE  BooksInv'
  <1>1. o \in Order /\ a \in Nat
    BY ConstantsAssumption DEF IInv, TypeOK, IsTable
  <1> DEFINE u == CashShift(d)
             e == WriteOf("RefundRecorded", o, u, a)
  <1>2. u \in Shift
    BY CashShiftIsAShift DEF RecordRefund, Compensable
  <1>3. Write(<<e>>)
    OBVIOUS
  <1> HIDE DEF u
  <1>4. e \in Event
    BY <1>1, <1>2 DEF WriteOf, Event, Type
  <1>5. /\ BooksTyped' /\ finance' = finance /\ reported' = reported
        /\ \A type, x : /\ OnTheWay(type, x)' = OnTheWay(type, x) + Adds(e, type, x)
                        /\ OnTheWayOf(type, x)' = OnTheWayOf(type, x) + AddsOf(e, type, x)
        /\ \A type, x : OnTheWay(type, x) \in Nat /\ OnTheWayOf(type, x) \in Nat
    <2> HIDE DEF e
    <2> QED
      BY <1>3, <1>4, WriteOne, WaysAreSums DEF BooksInv
  <1>6. /\ \A x : OnTheWayOf("RefundRecorded", x)' =
                     OnTheWayOf("RefundRecorded", x) + (IF x = o THEN a ELSE 0)
        /\ \A s : OnTheWay("RefundRecorded", s)' =
                     OnTheWay("RefundRecorded", s) + (IF s = u THEN a ELSE 0)
        /\ \A type, x : type # "RefundRecorded" =>
              OnTheWay(type, x)' = OnTheWay(type, x) /\ OnTheWayOf(type, x)' = OnTheWayOf(type, x)
    BY <1>5 DEF Adds, AddsOf, WriteOf
  <1>7. /\ UNCHANGED payments /\ Sold' = Sold /\ \A x \in Order : IsCancelled(x) => IsCancelled(x)'
        /\ ledger' = [ledger EXCEPT ![o].refund = @ + a]
    BY DEF RecordRefund, salesVars, Sold, IsCancelled
  <1>8. ReportsMatchTheLedger'
    <2>1. \A x : OnTheWayOf("CancellationRecorded", x)' = OnTheWayOf("CancellationRecorded", x) + 0
      BY <1>5, <1>6
    <2> QED
      BY <1>1, <1>5, <1>6, <1>7, <2>1, ReportsGrow DEF IInv
  <1>9. RefundsMatch'
    <2>1. RefundsMatch
      BY BooksCloseInParts DEF BooksInv
    <2> DEFINE f == ShownRefunds
               g == ShownRefunds'
               b == RefundOf
               h == RefundOf'
    <2>2. ASSUME NEW s \in Shift
          PROVE  f[s] \in Nat /\ g[s] = f[s] + (IF s = u THEN a ELSE 0)
      <3>1. finance[s].refunds \in Nat
        BY DEF BooksInv, BooksTyped, FinanceRow
      <3>2. /\ f[s] = finance[s].refunds + OnTheWay("RefundRecorded", s)
            /\ g[s] = finance[s].refunds + OnTheWay("RefundRecorded", s)'
        BY <1>5 DEF ShownRefunds
      <3> QED
        BY <1>1, <1>5, <1>6, <3>1, <3>2
    <2>3. ASSUME NEW x \in Order
          PROVE  b[x] \in Nat /\ h[x] = b[x] + (IF x = o THEN a ELSE 0)
      <3>1. ledger \in [Order -> LedgerRow]
        BY DEF IInv, TypeOK
      <3>2. b[x] = ledger[x].refund /\ h[x] = ledger'[x].refund
        BY DEF RefundOf
      <3> HIDE DEF b, h
      <3> QED
        BY <1>1, <1>7, <3>1, <3>2 DEF LedgerRow
    <2>4. /\ DOMAIN f = Shift /\ DOMAIN g = Shift /\ DOMAIN b = Order /\ DOMAIN h = Order
          /\ IsFiniteSet(Shift) /\ IsFiniteSet(Order)
      BY EventsAssumption DEF ShownRefunds, RefundOf
    <2> HIDE DEF f, g, b, h
    <2>5. SumFunction(g) = SumFunction(f) + a
      <3>1. /\ \A s \in Shift : f[s] \in Nat
            /\ \A s \in Shift : s # u => g[s] = f[s]
            /\ g[u] = f[u] + a
        BY <1>1, <1>2, <2>2
      <3> QED
        BY <1>1, <1>2, <2>4, <3>1, SumGrows
    <2>6. SumFunction(h) = SumFunction(b) + a
      <3>1. /\ \A x \in Order : b[x] \in Nat
            /\ \A x \in Order : x # o => h[x] = b[x]
            /\ h[o] = b[o] + a
        BY <1>1, <2>3
      <3> QED
        BY <1>1, <2>4, <3>1, SumGrows
    <2> QED
      BY <2>1, <2>5, <2>6 DEF RefundsMatch, f, g, b, h
  <1> QED
    BY <1>5, <1>6, <1>7, <1>8, <1>9, BalanceStays, BooksCloseInParts DEF BooksInv

\* What CancelUnconfirmedOrder writes goes to no projection; the order's reports stop.
LEMMA UnconfirmedBooks ==
    ASSUME IInv, BooksInv, NEW o \in DOMAIN checks, NEW d \in Device, CancelUnconfirmed(d, o)
    PROVE  BooksInv'
  <1> DEFINE types == {"PaymentCaptured", "CheckCreated", "CancellationRecorded", "RefundRecorded"}
             left == Remaining(o)
             a == WriteOf("CheckPrintUnconfirmedRefunded", o, CashShift(d), left)
             b == WriteOf("TicketVoided", o, CashShift(d), 0)
             c == WriteOf("OrderCancelled", o, orders[o].shift, 0)
             voided == IF \E l \in Line : tickets[o][l] = "active" THEN <<b>> ELSE <<>>
             more == <<a>> \o voided \o <<c>>
  <1>1. /\ CancelUnconfirmedOrder(d, o) /\ Write(more)
        /\ left > 0
        /\ ledger' = [ledger EXCEPT ![o].cancellation = @ + left]
        /\ orders' = [orders EXCEPT ![o].status = "cancelled"]
        /\ UNCHANGED <<payments, checks>>
    BY DEF CancelUnconfirmed, CancelUnconfirmedOrder
  <1>2. /\ o \in Order /\ o \in DOMAIN orders /\ orders[o].shift \in Shift
        /\ ledger \in [Order -> LedgerRow] /\ checks[o].total \in Nat
    BY DEF IInv, TypeOK, IsTable, OrderRow, CheckRow
  <1>3. left \in Nat
    BY <1>1, <1>2 DEF Remaining, LedgerRow
  <1>4. CashShift(d) \in Shift
    BY <1>1, CashShiftIsAShift DEF CancelUnconfirmedOrder
  <1>5. /\ a \in Event /\ b \in Event /\ c \in Event
        /\ a.type \notin types /\ b.type \notin types /\ c.type \notin types
    BY <1>2, <1>3, <1>4 DEF WriteOf, Event, Type
  <1> HIDE DEF a, b, c, types, left
  <1>6. more \in Seq(Event) /\ \A i \in DOMAIN more : more[i].type \notin types
    <2> DEFINE quiet == {e \in Event : e.type \notin types}
    <2>1. <<a>> \in Seq(quiet) /\ voided \in Seq(quiet) /\ <<c>> \in Seq(quiet)
      <3>1. <<a>> \in Seq(quiet) /\ <<b>> \in Seq(quiet) /\ <<c>> \in Seq(quiet)
        BY <1>5
      <3> HIDE DEF quiet
      <3> QED
        BY <3>1, EmptySeq
    <2> HIDE DEF voided, quiet
    <2>2. more \in Seq(quiet)
      <3>1. <<a>> \o voided \in Seq(quiet)
        BY <2>1, ConcatProperties
      <3> QED
        BY <2>1, <3>1, ConcatProperties
    <2> HIDE DEF more
    <2>3. \A i \in DOMAIN more : more[i] \in quiet
      BY <2>2, LenProperties, ElementOfSeq
    <2>4. quiet \subseteq Event /\ \A e \in quiet : e.type \notin types
      BY DEF quiet
    <2>5. more \in Seq(Event)
      BY <2>2, <2>4, SeqMonotonic
    <2> QED
      BY <2>3, <2>4, <2>5
  <1> HIDE DEF voided, more
  <1>7. /\ BooksTyped' /\ finance' = finance /\ reported' = reported
        /\ \A type \in types : \A x : /\ OnTheWay(type, x)' = OnTheWay(type, x)
                                      /\ OnTheWayOf(type, x)' = OnTheWayOf(type, x)
    BY <1>1, <1>6, WriteOthers DEF BooksInv
  <1>8. /\ \A x \in Order : ledger'[x].refund = ledger[x].refund
        /\ \A x \in Order : x # o => ledger'[x].cancellation = ledger[x].cancellation
        /\ ledger'[o].cancellation >= ledger[o].cancellation
    BY <1>1, <1>2, <1>3 DEF LedgerRow
  <1>9. /\ Sold' = Sold /\ IsCancelled(o)'
        /\ \A x \in Order : x # o /\ IsCancelled(x) => IsCancelled(x)'
    <2>1. orders[o] \in OrderRow
      BY <1>2 DEF IInv, TypeOK, IsTable
    <2>2. /\ DOMAIN orders' = DOMAIN orders /\ orders'[o].status = "cancelled"
          /\ \A x \in DOMAIN orders : x # o => orders'[x] = orders[x]
      BY <1>1, <1>2, <2>1 DEF OrderRow
    <2>3. Sold' = Sold
      BY <1>1 DEF Sold
    <2> QED
      BY <1>2, <2>2, <2>3 DEF IsCancelled
  <1>10. ReportsMatchTheLedger'
    <2>1. ASSUME NEW x \in Order
          PROVE  LET cancellation == reported'[x].cancellation + OnTheWayOf("CancellationRecorded", x)'
                     refund == reported'[x].refund + OnTheWayOf("RefundRecorded", x)'
                 IN  /\ refund = ledger'[x].refund
                     /\ cancellation <= ledger'[x].cancellation
                     /\ ~IsCancelled(x)' => cancellation = ledger'[x].cancellation
      <3>1. /\ reported[x].cancellation \in Nat /\ ledger[x].cancellation \in Nat
            /\ ledger'[x].cancellation \in Int
            /\ OnTheWayOf("CancellationRecorded", x) \in Nat
        BY <1>1, <1>2, <1>3, WaysAreSums DEF BooksInv, BooksTyped, LedgerRow
      <3>2. /\ reported[x].refund + OnTheWayOf("RefundRecorded", x) = ledger[x].refund
            /\ reported[x].cancellation + OnTheWayOf("CancellationRecorded", x) <=
                  ledger[x].cancellation
            /\ ~IsCancelled(x) => reported[x].cancellation + OnTheWayOf("CancellationRecorded", x) =
                                     ledger[x].cancellation
        BY DEF BooksInv, BooksClose, ReportsMatchTheLedger, IsCancelled
      <3>3. /\ OnTheWayOf("CancellationRecorded", x)' = OnTheWayOf("CancellationRecorded", x)
            /\ OnTheWayOf("RefundRecorded", x)' = OnTheWayOf("RefundRecorded", x)
        BY <1>7 DEF types
      <3>4. CASE x = o
        BY <1>7, <1>8, <1>9, <3>1, <3>2, <3>3, <3>4
      <3>5. CASE x # o
        BY <1>7, <1>8, <1>9, <3>1, <3>2, <3>3, <3>5
      <3> QED
        BY <3>4, <3>5
    <2> QED
      BY <2>1 DEF ReportsMatchTheLedger, IsCancelled
  <1>11. /\ \A s : OnTheWay("PaymentCaptured", s)' = OnTheWay("PaymentCaptured", s)
         /\ \A s : OnTheWay("CheckCreated", s)' = OnTheWay("CheckCreated", s)
         /\ \A s : OnTheWay("RefundRecorded", s)' = OnTheWay("RefundRecorded", s)
    BY <1>7 DEF types
  <1> QED
    BY <1>1, <1>7, <1>8, <1>9, <1>10, <1>11, BalanceStays, BooksCloseInParts DEF BooksInv

\* What a booked event brings arrives at the projection it was on the way to.
LEMMA ReceivedBooks ==
    ASSUME IInv, BooksInv, NEW i \in 1..MaxEvents, ReceiveEvent(i)
    PROVE  BooksInv'
  <1> DEFINE e == events[i]
             s0 == e.shift
  <1>1. /\ i \in DOMAIN events /\ UNCHANGED <<vars, events>>
        /\ booked[i] = 0 /\ booked' = [booked EXCEPT ![i] = 1]
        /\ ProjectFinance(e) /\ ProjectOperation(e)
    BY DEF ReceiveEvent, Journal!Book
  <1>2. /\ events \in Seq(Event) /\ Len(events) \in Nat /\ DOMAIN events = 1..Len(events)
        /\ Len(events) <= MaxEvents
    BY EventColumns DEF BooksInv, BooksTyped
  <1>3. /\ e \in Event /\ e.shift \in Shift /\ e.order \in Order /\ e.amount \in Nat
    BY <1>1, <1>2, EventColumns DEF Event
  <1> HIDE DEF e
  <1>4. /\ finance \in [Shift -> FinanceRow] /\ reported \in [Order -> LedgerRow]
        /\ booked \in [1..MaxEvents -> {0, 1}]
    BY DEF BooksInv, BooksTyped
  <1>5. /\ finance' \in [Shift -> FinanceRow]
        /\ \A s \in Shift :
              /\ finance'[s].payments = finance[s].payments + Adds(e, "PaymentCaptured", s)
              /\ finance'[s].checks = finance[s].checks + Adds(e, "CheckCreated", s)
              /\ finance'[s].refunds = finance[s].refunds + Adds(e, "RefundRecorded", s)
    <2> DEFINE Of(type) == IF e.type = type THEN e.amount ELSE 0
               more == [payments |-> Of("PaymentCaptured"), checks |-> Of("CheckCreated"),
                        refunds |-> Of("RefundRecorded")]
               row == [sum \in DOMAIN finance[s0] |-> finance[s0][sum] + more[sum]]
    <2>1. finance' = [finance EXCEPT ![s0] = row]
      BY <1>1 DEF ProjectFinance, UpsertShiftFinance
    <2>2. \A type : Of(type) \in Nat
      BY <1>3
    <2>3. finance[s0] \in FinanceRow
      BY <1>3, <1>4
    <2>4. /\ row \in FinanceRow
          /\ row.payments = finance[s0].payments + Of("PaymentCaptured")
          /\ row.checks = finance[s0].checks + Of("CheckCreated")
          /\ row.refunds = finance[s0].refunds + Of("RefundRecorded")
      <3>1. /\ more.payments = Of("PaymentCaptured") /\ more.checks = Of("CheckCreated")
            /\ more.refunds = Of("RefundRecorded")
        OBVIOUS
      <3>2. DOMAIN finance[s0] = {"payments", "checks", "refunds"}
        BY <2>3 DEF FinanceRow
      <3>3. /\ finance[s0].payments \in Nat /\ finance[s0].checks \in Nat /\ finance[s0].refunds \in Nat
        BY <2>3 DEF FinanceRow
      <3> HIDE DEF Of, more, s0
      <3>4. /\ row = [sum \in {"payments", "checks", "refunds"} |-> finance[s0][sum] + more[sum]]
        BY <3>2
      <3>5. /\ row.payments = finance[s0].payments + Of("PaymentCaptured")
            /\ row.checks = finance[s0].checks + Of("CheckCreated")
            /\ row.refunds = finance[s0].refunds + Of("RefundRecorded")
        BY <3>1, <3>4
      <3>6. row \in FinanceRow
        <4>1. row = [payments |-> row.payments, checks |-> row.checks, refunds |-> row.refunds]
          BY <3>4
        <4>2. row.payments \in Nat /\ row.checks \in Nat /\ row.refunds \in Nat
          BY <2>2, <3>3, <3>5
        <4> HIDE DEF row
        <4> QED
          BY <4>1, <4>2 DEF FinanceRow
      <3> QED
        BY <3>5, <3>6
    <2> HIDE DEF row, more
    <2>5. finance' \in [Shift -> FinanceRow]
      BY <1>4, <2>1, <2>4
    <2>6. ASSUME NEW s \in Shift
          PROVE  /\ finance'[s].payments = finance[s].payments + Adds(e, "PaymentCaptured", s)
                 /\ finance'[s].checks = finance[s].checks + Adds(e, "CheckCreated", s)
                 /\ finance'[s].refunds = finance[s].refunds + Adds(e, "RefundRecorded", s)
      <3>1. CASE s = s0
        BY <1>3, <1>4, <2>1, <2>4, <3>1 DEF Adds
      <3>2. CASE s # s0
        <4>1. finance'[s] = finance[s]
          BY <1>4, <2>1, <3>2
        <4>2. finance[s] \in FinanceRow /\ \A type : Adds(e, type, s) = 0
          BY <1>4, <3>2 DEF Adds
        <4> QED
          BY <4>1, <4>2 DEF FinanceRow
      <3> QED
        BY <3>1, <3>2
    <2> QED
      BY <2>5, <2>6
  <1>6. /\ reported' \in [Order -> LedgerRow]
        /\ \A o \in Order :
              /\ reported'[o].cancellation =
                    reported[o].cancellation + AddsOf(e, "CancellationRecorded", o)
              /\ reported'[o].refund = reported[o].refund + AddsOf(e, "RefundRecorded", o)
    BY <1>1, <1>3, <1>4 DEF ProjectOperation, AddsOf, LedgerRow
  <1>7. BooksTyped'
    <2>1. /\ booked' \in [1..MaxEvents -> {0, 1}]
          /\ \A j \in 1..MaxEvents : j > Len(events) => booked'[j] = 0
      BY <1>1, <1>2, <1>4, EventsAssumption DEF BooksInv, BooksTyped
    <2> QED
      BY <1>1, <1>5, <1>6, <2>1 DEF BooksInv, BooksTyped
  <1>8. ASSUME NEW K
        PROVE  WaySum(events, booked, K) =
                  WaySum(events', booked', K) + (IF e \in K THEN e.amount ELSE 0)
    <2>1. \A j \in DOMAIN events : booked'[j] = IF j = i THEN 1 ELSE booked[j]
      BY <1>1, <1>2, <1>4, EventsAssumption
    <2>2. WaySum(events, booked, K) =
             WaySum(events, booked', K) + (IF events[i] \in K THEN events[i].amount ELSE 0)
      <3>1. i \in DOMAIN events /\ booked[i] = 0 /\ events \in Seq(Event)
        BY <1>1, <1>2
      <3> QED
        BY <2>1, <3>1, WayOfBooked
    <2> QED
      BY <1>1, <2>2 DEF e
  <1>9. ASSUME NEW type, NEW x
        PROVE  /\ OnTheWay(type, x) = OnTheWay(type, x)' + Adds(e, type, x)
               /\ OnTheWayOf(type, x) = OnTheWayOf(type, x)' + AddsOf(e, type, x)
               /\ OnTheWay(type, x)' \in Nat /\ OnTheWayOf(type, x)' \in Nat
    <2>1. /\ Adds(e, type, x) = IF e \in OfShift(type, x) THEN e.amount ELSE 0
          /\ AddsOf(e, type, x) = IF e \in OfOrder(type, x) THEN e.amount ELSE 0
      BY <1>3 DEF Adds, AddsOf, OfShift, OfOrder
    <2>2. /\ OnTheWay(type, x) = WaySum(events, booked, OfShift(type, x))
          /\ OnTheWayOf(type, x) = WaySum(events, booked, OfOrder(type, x))
          /\ OnTheWay(type, x)' = WaySum(events', booked', OfShift(type, x))
          /\ OnTheWayOf(type, x)' = WaySum(events', booked', OfOrder(type, x))
      BY <1>7, WaysAreSums DEF BooksInv
    <2>3. \A K : WaySum(events', booked', K) \in Nat
      BY <1>1, <1>2, WayIsANumber
    <2> QED
      BY <1>8, <2>1, <2>2, <2>3
  <1>10. \A type, x : Adds(e, type, x) \in Nat /\ AddsOf(e, type, x) \in Nat
    BY <1>3 DEF Adds, AddsOf
  <1>11. /\ Sold' = Sold /\ RefundOf' = RefundOf
         /\ payments' = payments /\ ledger' = ledger /\ orders' = orders
    BY <1>1 DEF vars, salesVars, closingVars, Sold, RefundOf
  <1>12. BooksMatchTheTill'
    <2>1. ASSUME NEW s \in Shift
          PROVE  finance'[s].payments + OnTheWay("PaymentCaptured", s)' =
                    finance[s].payments + OnTheWay("PaymentCaptured", s)
      <3>1. finance[s].payments \in Nat
        BY <1>4 DEF FinanceRow
      <3> QED
        BY <1>5, <1>9, <1>10, <3>1
    <2>2. \A s \in Shift : Paid({p \in DOMAIN payments : payments[p].shift = s})' =
                              Paid({p \in DOMAIN payments : payments[p].shift = s})
      BY <1>11 DEF Paid
    <2> QED
      BY <2>1, <2>2 DEF BooksInv, BooksClose, BooksMatchTheTill
  <1>13. ShownChecks' = ShownChecks /\ ShownRefunds' = ShownRefunds
    <2>1. ASSUME NEW s \in Shift
          PROVE  /\ finance'[s].checks + OnTheWay("CheckCreated", s)' =
                       finance[s].checks + OnTheWay("CheckCreated", s)
                 /\ finance'[s].refunds + OnTheWay("RefundRecorded", s)' =
                       finance[s].refunds + OnTheWay("RefundRecorded", s)
      <3>1. finance[s].checks \in Nat /\ finance[s].refunds \in Nat
        BY <1>4 DEF FinanceRow
      <3> QED
        BY <1>5, <1>9, <1>10, <3>1
    <2> QED
      BY <2>1 DEF ShownChecks, ShownRefunds
  <1>14. SoldMatches' /\ RefundsMatch'
    BY <1>11, <1>13, BooksCloseInParts DEF BooksInv, SoldMatches, RefundsMatch
  <1>15. ReportsMatchTheLedger'
    <2>1. ASSUME NEW o \in Order
          PROVE  /\ reported'[o].cancellation + OnTheWayOf("CancellationRecorded", o)' =
                       reported[o].cancellation + OnTheWayOf("CancellationRecorded", o)
                 /\ reported'[o].refund + OnTheWayOf("RefundRecorded", o)' =
                       reported[o].refund + OnTheWayOf("RefundRecorded", o)
      <3>1. reported[o].cancellation \in Nat /\ reported[o].refund \in Nat
        BY <1>4 DEF LedgerRow
      <3> QED
        BY <1>6, <1>9, <1>10, <3>1
    <2> QED
      BY <1>11, <2>1 DEF BooksInv, BooksClose, ReportsMatchTheLedger
  <1> QED
    BY <1>7, <1>12, <1>14, <1>15, BooksCloseInParts DEF BooksInv

\* Nothing is written and nothing is shown in the beginning.
LEMMA BooksBegin ==
    ASSUME BooksInit
    PROVE  BooksInv
  <1>1. /\ events = <<>> /\ DOMAIN events = {} /\ Len(events) = 0
        /\ DOMAIN payments = {} /\ DOMAIN checks = {} /\ DOMAIN orders = {}
        /\ \A o \in Order : ledger[o] = EmptyLedger /\ reported[o] = EmptyLedger
        /\ \A s \in Shift : finance[s] = NoFinance
    BY DEF BooksInit, Init, EmptyTable
  <1>2. \A f : SumFunctionOnSet(f, {}) = 0
    BY SumIsOfTaken, FS_EmptySet
  <1>3. BooksTyped
    <2>1. events \in Seq(Event) /\ Len(events) <= MaxEvents
      BY <1>1, EmptySeq, EventsAssumption
    <2> QED
      BY <2>1 DEF BooksInit, BooksTyped, NoFinance, FinanceRow, EmptyLedger, LedgerRow
  <1>4. \A type, x : OnTheWay(type, x) = 0 /\ OnTheWayOf(type, x) = 0
    <2>1. \A type : Underway(type) = {}
      BY <1>1 DEF Underway
    <2> QED
      BY <1>2, <2>1 DEF OnTheWay, OnTheWayOf
  <1>5. BooksMatchTheTill
    <2>1. \A s : {p \in DOMAIN payments : payments[p].shift = s} = {}
      BY <1>1
    <2> QED
      BY <1>1, <1>2, <1>4, <2>1 DEF BooksMatchTheTill, Paid, NoFinance
  <1>6. \A S, f : IsFiniteSet(S) /\ f = [x \in S |-> 0] => SumFunction(f) = 0
    BY SumOfZeros DEF SumFunction
  <1>7. SoldMatches
    <2>1. ShownChecks = [s \in Shift |-> 0]
      BY <1>1, <1>4 DEF ShownChecks, NoFinance
    <2>2. SumFunction(ShownChecks) = 0
      BY <1>6, <2>1, EventsAssumption
    <2>3. SumFunction(Sold) = 0
      BY <1>1, <1>2 DEF SumFunction, Sold
    <2> QED
      BY <2>2, <2>3 DEF SoldMatches
  <1>8. RefundsMatch
    <2>1. ShownRefunds = [s \in Shift |-> 0]
      BY <1>1, <1>4 DEF ShownRefunds, NoFinance
    <2>2. RefundOf = [o \in Order |-> 0]
      BY <1>1 DEF RefundOf, EmptyLedger
    <2>3. SumFunction(ShownRefunds) = 0
      BY <1>6, <2>1, EventsAssumption
    <2>4. SumFunction(RefundOf) = 0
      BY <1>6, <2>2, EventsAssumption
    <2> QED
      BY <2>3, <2>4 DEF RefundsMatch
  <1>9. ReportsMatchTheLedger
    BY <1>1, <1>4 DEF ReportsMatchTheLedger, EmptyLedger
  <1> QED
    BY <1>3, <1>5, <1>7, <1>8, <1>9, BooksCloseInParts DEF BooksInv

\* The commands with their events are the commands of PosSales.
LEMMA BooksAreSales == BooksSpec => Spec
  <1>1. BooksInit => Init
    BY DEF BooksInit
  <1>2. [BooksNext]_booksVars => [Next]_vars
    <2>1. UNCHANGED booksVars => UNCHANGED vars
      BY DEF booksVars
    <2>2. OtherCommand => Next
      <3>1. ASSUME NEW o \in DOMAIN orders, NEW d \in Device,
                   IssuePrecheck(d, o) \/ \E v \in Version : CancelPrecheck(d, o, v)
            PROVE  PrecheckCommand
        BY <3>1 DEF PrecheckCommand
      <3>2. ASSUME NEW o \in DOMAIN checks, NEW doc \in Document,
                   PrintDocument(o, doc) \/ ConfirmCheckPrint(o)
            PROVE  CheckCommand
        BY <3>2 DEF CheckCommand
      <3> QED
        BY <3>1, <3>2 DEF OtherCommand, Next
    <2>3. ASSUME NEW o \in DOMAIN orders, NEW d \in Device, NEW v \in Version, NEW a \in Amount,
                 CapturePayment(d, o, v, a)
          PROVE  Next
      BY <2>3 DEF CapturePayment, PrecheckCommand, Next
    <2>4. ASSUME NEW o \in DOMAIN checks, NEW d \in Device, NEW a \in Amount, Compensate(d, o, a)
          PROVE  Next
      BY <2>4 DEF Compensate, CheckCommand, Next
    <2>5. ASSUME NEW o \in DOMAIN checks, NEW d \in Device, CancelUnconfirmed(d, o) PROVE Next
      BY <2>5 DEF CancelUnconfirmed, CheckCommand, Next
    <2>6. ASSUME NEW i \in 1..MaxEvents, ReceiveEvent(i) PROVE UNCHANGED vars
      BY <2>6 DEF ReceiveEvent
    <2> QED
      BY <2>1, <2>2, <2>3, <2>4, <2>5, <2>6 DEF BooksNext
  <1> QED
    BY <1>1, <1>2, PTL DEF BooksSpec, Spec

\* BooksClose: by shift, by check and by kind of operation.
THEOREM BooksAlwaysClose == BooksSpec => []BooksClose
  <1>1. BooksInit => BooksInv
    BY BooksBegin
  <1>2. IInv /\ IInv' /\ PaymentsAdd /\ BooksInv /\ [BooksNext]_booksVars => BooksInv'
    <2> SUFFICES ASSUME IInv, IInv', PaymentsAdd, BooksInv, [BooksNext]_booksVars PROVE BooksInv'
      OBVIOUS
    <2>1. CASE OtherCommand \/ UNCHANGED booksVars
      BY <2>1, QuietBooks
    <2>2. ASSUME NEW o \in DOMAIN orders, NEW d \in Device, NEW v \in Version, NEW a \in Amount,
                 CapturePayment(d, o, v, a)
          PROVE  BooksInv'
      BY <2>2, PartialPaymentBooks, FinalPaymentBooks DEF CapturePayment
    <2>3. ASSUME NEW o \in DOMAIN checks, NEW d \in Device, NEW a \in Amount, Compensate(d, o, a)
          PROVE  BooksInv'
      BY <2>3, CancellationBooks, RefundBooks DEF Compensate
    <2>4. ASSUME NEW o \in DOMAIN checks, NEW d \in Device, CancelUnconfirmed(d, o) PROVE BooksInv'
      BY <2>4, UnconfirmedBooks
    <2>5. ASSUME NEW i \in 1..MaxEvents, ReceiveEvent(i) PROVE BooksInv'
      BY <2>5, ReceivedBooks
    <2> QED
      BY <2>1, <2>2, <2>3, <2>4, <2>5 DEF BooksNext
  <1>3. BooksInv => BooksClose
    BY DEF BooksInv
  <1> QED
    BY <1>1, <1>2, <1>3, BooksAreSales, Invariance, PaymentsAlwaysAdd, PTL DEF BooksSpec

-----------------------------------------------------------------------------
(* What an order costs: arithmetic.                                        *)

\* Numbers are multiplied to numbers.
LEMMA Products ==
    ASSUME NEW a \in Nat, NEW b \in Nat PROVE a * b \in Nat
  OBVIOUS

\* The greater, the more.
LEMMA ProductsGrow ==
    ASSUME NEW a \in Int, NEW b \in Int, NEW w \in Nat, a <= b
    PROVE  a * w <= b * w
  OBVIOUS

\* What division does.
LEMMA Division ==
    ASSUME NEW a \in Nat, NEW w \in Nat \ {0}
    PROVE  /\ a \div w \in Nat /\ a % w \in 0..(w - 1)
           /\ a = w * (a \div w) + (a % w)
  <1>1. w \in Nat /\ w > 0
    OBVIOUS
  <1>2. a = w * (a \div w) + (a % w)
    BY <1>1, SMTT(30)
  <1> QED
    BY <1>2

\* f itself.
LEMMA TabledIs == ASSUME NEW f PROVE Tabled(f) = f
  BY DEF Tabled

-----------------------------------------------------------------------------
(* The units that are left over.                                           *)

\* Of the first k lines by what is left over for them there are k.
LEMMA FirstAreCounted ==
    ASSUME NEW P \in SUBSET Int, IsFiniteSet(P), NEW r \in [P -> Int],
           NEW k \in 0..Cardinality(P)
    PROVE  Cardinality({s \in P : Cardinality(Ahead(s, r)) < k}) = k
  <1> DEFINE Place(s) == Cardinality(Ahead(s, r))
             First(n) == {s \in P : Place(s) < n}
             G == {n \in 0..Cardinality(P) : Cardinality(First(n)) = n}
  <1>1. \A s \in P : Ahead(s, r) \in SUBSET P /\ IsFiniteSet(Ahead(s, r)) /\ Place(s) \in Nat
    <2>1. \A s \in P : Ahead(s, r) \in SUBSET P
      BY DEF Ahead
    <2> QED
      BY <2>1, FS_Subset, FS_CardinalityType
  <1>2. \A s, t \in P : s # t => (t \in Ahead(s, r) <=> s \notin Ahead(t, r))
    <2> SUFFICES ASSUME NEW s \in P, NEW t \in P, s # t
                 PROVE  t \in Ahead(s, r) <=> s \notin Ahead(t, r)
      OBVIOUS
    <2>1. r[s] \in Int /\ r[t] \in Int /\ s \in Int /\ t \in Int
      OBVIOUS
    <2> QED
      BY <2>1 DEF Ahead
  <1>3. ASSUME NEW s \in P, NEW t \in Ahead(s, r) PROVE Place(t) < Place(s)
    <2>1. t \in P
      BY <1>1
    <2>2. Ahead(t, r) \in SUBSET Ahead(s, r)
      <3> SUFFICES ASSUME NEW u \in Ahead(t, r) PROVE u \in Ahead(s, r)
        OBVIOUS
      <3>1. u \in P
        BY <1>1, <2>1
      <3>2. /\ r[s] \in Int /\ r[t] \in Int /\ r[u] \in Int /\ s \in Int /\ t \in Int /\ u \in Int
        BY <2>1, <3>1
      <3> QED
        BY <2>1, <3>1, <3>2 DEF Ahead
    <2>3. t \notin Ahead(t, r)
      <3>1. r[t] \in Int /\ t \in Int
        BY <2>1
      <3> QED
        BY <3>1 DEF Ahead
    <2>4. Ahead(t, r) # Ahead(s, r)
      BY <2>3
    <2>5. /\ Cardinality(Ahead(t, r)) <= Cardinality(Ahead(s, r))
          /\ Cardinality(Ahead(t, r)) # Cardinality(Ahead(s, r))
      BY <1>1, <2>2, <2>4, FS_Subset
    <2> QED
      BY <1>1, <2>1, <2>5
  <1>4. Cardinality(P) \in Nat
    BY FS_CardinalityType
  <1>5. 0 \in G
    <2>1. First(0) = {}
      <3>1. \A s \in P : ~(Place(s) < 0)
        <4> HIDE DEF Place
        <4> QED
          BY <1>1
      <3> QED
        BY <3>1
    <2> QED
      BY <1>4, <2>1, FS_EmptySet
  <1>6. ASSUME NEW n \in 1..Cardinality(P), n - 1 \in G PROVE n \in G
    <2> DEFINE rest == P \ First(n - 1)
               places == {Place(s) : s \in rest}
    <2>1. n \in Nat /\ n - 1 \in Nat /\ n <= Cardinality(P) /\ n \in 0..Cardinality(P)
      BY <1>4
    <2>2. Cardinality(First(n - 1)) = n - 1
      BY <1>6
    <2>3. rest # {}
      <3>1. rest = {} => First(n - 1) = P
        OBVIOUS
      <3> HIDE DEF rest, First
      <3> QED
        BY <1>4, <2>1, <2>2, <3>1
    <2>4. PICK p \in places : \A q \in places : p <= q
      <3>1. places \in SUBSET Nat /\ places # {}
        BY <1>1, <2>3
      <3> HIDE DEF places
      <3> QED
        BY <3>1, LeastOfNumbers
    <2>5. PICK m \in rest : p = Place(m)
      BY <2>4
    <2>6. m \in P /\ m \notin First(n - 1) /\ \A s \in rest : Place(m) <= Place(s)
      BY <2>4, <2>5
    <2>7. Ahead(m, r) \subseteq First(n - 1)
      <3> SUFFICES ASSUME NEW t \in Ahead(m, r), t \notin First(n - 1) PROVE FALSE
        OBVIOUS
      <3>1. t \in P /\ t \in rest
        BY <1>1, <2>6
      <3>2. Place(t) < Place(m) /\ Place(m) <= Place(t)
        BY <1>3, <2>6, <3>1
      <3>3. Place(t) \in Nat /\ Place(m) \in Nat
        BY <1>1, <2>6, <3>1
      <3> HIDE DEF Place
      <3> QED
        BY <3>2, <3>3
    <2>8. First(n - 1) \subseteq Ahead(m, r)
      <3> SUFFICES ASSUME NEW t \in First(n - 1), t \notin Ahead(m, r) PROVE FALSE
        OBVIOUS
      <3>1. t \in P /\ t # m /\ Place(t) < n - 1
        BY <2>6
      <3>2. m \in Ahead(t, r)
        BY <1>2, <2>6, <3>1
      <3>3. Place(m) < Place(t)
        BY <1>3, <3>1, <3>2
      <3>4. Place(t) \in Nat /\ Place(m) \in Nat
        BY <1>1, <2>6, <3>1
      <3>5. Place(m) < n - 1
        <4> HIDE DEF Place
        <4> QED
          BY <2>1, <3>1, <3>3, <3>4
      <3> QED
        BY <2>6, <3>5
    <2>9. Place(m) = n - 1
      <3>1. Ahead(m, r) = First(n - 1)
        BY <2>7, <2>8
      <3> QED
        BY <2>2, <3>1
    <2>10. First(n) = First(n - 1) \cup {m}
      <3>1. ASSUME NEW s \in First(n), s \notin First(n - 1), s # m PROVE FALSE
        <4>1. s \in P /\ Place(s) \in Nat /\ Place(s) < n /\ ~(Place(s) < n - 1)
          BY <1>1, <3>1
        <4>2. s \in Ahead(m, r) \/ m \in Ahead(s, r)
          BY <1>2, <2>6, <3>1, <4>1
        <4>3. Place(s) < Place(m) \/ Place(m) < Place(s)
          BY <1>3, <2>6, <4>1, <4>2
        <4> HIDE DEF Place
        <4> QED
          BY <2>1, <2>9, <4>1, <4>3
      <3>2. ASSUME NEW s \in First(n - 1) \cup {m} PROVE s \in First(n)
        <4>1. s \in P /\ Place(s) \in Nat
          BY <1>1, <2>6
        <4>2. Place(s) < n - 1 \/ Place(s) = n - 1
          BY <2>9
        <4>3. Place(s) < n
          <5> HIDE DEF Place
          <5> QED
            BY <2>1, <4>1, <4>2
        <4> QED
          BY <4>1, <4>3
      <3> HIDE DEF First
      <3> QED
        BY <3>1, <3>2
    <2>11. Cardinality(First(n)) = n
      <3>1. IsFiniteSet(First(n - 1))
        BY FS_Subset
      <3>2. Cardinality(First(n - 1) \cup {m}) = Cardinality(First(n - 1)) + 1
        BY <2>6, <3>1, FS_AddElement
      <3> HIDE DEF First
      <3> QED
        BY <2>1, <2>2, <2>10, <3>2
    <2> QED
      BY <2>1, <2>11
  <1> HIDE DEF G
  <1>7. k \in G
    <2>1. k \in Nat /\ \A n \in 1..k : n \in 1..Cardinality(P)
      BY <1>4
    <2> QED
      BY <1>5, <1>6, <2>1, UptoInduction
  <1> QED
    BY <1>7 DEF G

-----------------------------------------------------------------------------
(* allocateProportionally.                                                 *)

\* What lines have of an amount in whole units, and what is left over for them.
IsDivided(amount, bases, whole, share, left, S) ==
    \A s \in S : /\ share[s] \in Nat /\ left[s] \in 0..(whole - 1)
                 /\ amount * bases[s] = whole * share[s] + left[s]

\* What is left over is in whole units, no more than there are lines with a remainder.
LEMMA LeftOverUnits ==
    ASSUME NEW S, IsFiniteSet(S), NEW bases \in [S -> Nat], NEW amount \in Nat,
           NEW whole \in Nat \ {0}, whole = SumFunctionOnSet(bases, S),
           NEW share, NEW left, NEW P, P = {s \in S : left[s] > 0},
           IsDivided(amount, bases, whole, share, left, S)
    PROVE  /\ SumFunctionOnSet(share, S) \in Nat
           /\ amount - SumFunctionOnSet(share, S) \in 0..Cardinality(P)
  <1> DEFINE n == Cardinality(P)
             sharing == SumFunctionOnSet(share, S)
             leaving == SumFunctionOnSet(left, S)
             multiple == [s \in S |-> amount * bases[s]]
             even == [s \in S |-> whole * share[s]]
             one == [s \in S |-> 1]
             most == [s \in S |-> (whole - 1) * one[s]]
             rest == amount - sharing
  <1> USE DEF IsDivided
  <1>1. IsFiniteSet(P) /\ P \in SUBSET S /\ n \in Nat /\ IsFiniteSet(S \ P)
    BY FS_Subset, FS_CardinalityType
  <1>2. sharing \in Nat /\ leaving \in Nat
    <2>1. \A s \in S : share[s] \in Nat /\ left[s] \in Nat
      OBVIOUS
    <2> QED
      BY <2>1, SumIsANumber
  <1>3. SumFunctionOnSet(multiple, S) = amount * whole
    <2>1. \A s \in S : bases[s] \in Int /\ multiple[s] = amount * bases[s]
      OBVIOUS
    <2>2. amount \in Int
      OBVIOUS
    <2> HIDE DEF multiple
    <2> QED
      BY <2>1, <2>2, SumOfMultiples
  <1>4. SumFunctionOnSet(even, S) = whole * sharing
    <2>1. \A s \in S : share[s] \in Int /\ even[s] = whole * share[s]
      OBVIOUS
    <2>2. whole \in Int
      OBVIOUS
    <2> HIDE DEF even
    <2> QED
      BY <2>1, <2>2, SumOfMultiples
  <1>5. amount * whole = whole * sharing + leaving
    <2>1. \A s \in S : /\ even[s] = whole * share[s] /\ multiple[s] = amount * bases[s]
                       /\ share[s] \in Nat /\ left[s] \in Int
                       /\ amount * bases[s] = whole * share[s] + left[s]
      OBVIOUS
    <2>2. \A s \in S : even[s] \in Int
      <3> HIDE DEF even, multiple
      <3> QED
        BY <2>1
    <2>3. SumFunctionOnSet(multiple, S) = SumFunctionOnSet(even, S) + leaving
      <3> HIDE DEF even, multiple
      <3> QED
        BY <2>1, <2>2, SumOfSums
    <2> QED
      BY <1>3, <1>4, <2>3
  <1>6. leaving <= (whole - 1) * n
    <2>1. SumFunctionOnSet(one, P) = n
      <3>1. \A s \in P : one[s] = 1
        OBVIOUS
      <3> HIDE DEF one
      <3> QED
        BY <1>1, <3>1, SumOfOnes
    <2>2. SumFunctionOnSet(most, P) = (whole - 1) * n
      <3>1. \A s \in P : one[s] \in Int /\ most[s] = (whole - 1) * one[s]
        OBVIOUS
      <3>2. whole - 1 \in Int
        OBVIOUS
      <3> HIDE DEF one, most
      <3> QED
        BY <1>1, <2>1, <3>1, <3>2, SumOfMultiples
    <2>3. SumFunctionOnSet(left, P) <= SumFunctionOnSet(most, P)
      <3>1. \A s \in P : most[s] = whole - 1
        OBVIOUS
      <3>2. \A s \in P : left[s] \in Int /\ most[s] \in Int /\ left[s] <= most[s]
        <4> HIDE DEF most
        <4> QED
          BY <3>1
      <3> HIDE DEF most
      <3> QED
        BY <1>1, <3>2, SumIsMonotone
    <2>4. SumFunctionOnSet(left, S \ P) = 0
      <3>1. \A s \in S \ P : left[s] = 0
        OBVIOUS
      <3> QED
        BY <1>1, <3>1, SumOfZeros
    <2>5. leaving = SumFunctionOnSet(left, P) + SumFunctionOnSet(left, S \ P)
      <3>1. \A s \in S : left[s] \in Int
        OBVIOUS
      <3> QED
        BY <1>1, <3>1, SumOfParts
    <2>6. SumFunctionOnSet(left, P) \in Nat
      <3>1. \A s \in P : left[s] \in Nat
        OBVIOUS
      <3> QED
        BY <1>1, <3>1, SumIsANumber
    <2> HIDE DEF leaving, most, n
    <2> QED
      BY <2>2, <2>3, <2>4, <2>5, <2>6
  <1>7. leaving = rest * whole /\ rest \in Int
    <2> HIDE DEF sharing, leaving
    <2>1. (amount - sharing) * whole = amount * whole - whole * sharing
      BY <1>2
    <2>2. amount * whole \in Int /\ whole * sharing \in Int
      BY <1>2
    <2> QED
      BY <1>2, <1>5, <2>1, <2>2
  <1> HIDE DEF sharing, leaving, n, rest
  <1>8. rest >= 0
    <2>1. CASE rest <= -1
      <3>1. rest * whole <= (-1) * whole
        BY <1>7, <2>1, ProductsGrow
      <3> QED
        BY <1>2, <1>7, <3>1
    <2> QED
      BY <1>7, <2>1
  <1>9. rest <= n
    <2>1. CASE n + 1 <= rest
      <3>1. (n + 1) * whole <= rest * whole
        BY <1>1, <1>7, <2>1, ProductsGrow
      <3>2. (n + 1) * whole = n * whole + whole /\ (whole - 1) * n = n * whole - n
        BY <1>1
      <3>3. n * whole \in Int
        BY <1>1
      <3> QED
        BY <1>1, <1>6, <1>7, <3>1, <3>2, <3>3
    <2> QED
      BY <1>1, <1>7, <2>1
  <1> QED
    BY <1>1, <1>2, <1>7, <1>8, <1>9 DEF rest, n, sharing

\* All of the amount is given to the lines, if they amount to anything; none is a whole unit
\* away from its part, nor has more than it amounts to unless all have.
LEMMA AllIsAllocated ==
    ASSUME NEW S \in SUBSET Int, IsFiniteSet(S), NEW bases \in [S -> Nat], NEW amount \in Nat,
           NEW whole, whole = SumFunction(bases),
           NEW out, out = AllocateProportionally(amount, bases)
    PROVE  /\ out \in [S -> Nat] /\ whole \in Nat
           /\ whole = 0 => SumFunction(out) = 0
           /\ whole # 0 => SumFunction(out) = amount
           /\ whole # 0 => \A s \in S : out[s] * whole - amount * bases[s]
                                            \in (1 - whole)..(whole - 1)
           /\ amount <= whole => \A s \in S : out[s] <= bases[s]
  <1> DEFINE Q == {s \in S : bases[s] > 0}
             share == Share(amount, bases)
             left == [s \in S |-> (amount * bases[s]) % whole]
             remainder == Remainder(amount, bases)
             rest == amount - SumFunctionOnSet(share, S)
             Place(s) == Cardinality(Ahead(s, remainder))
             given == {s \in Q : Place(s) < rest}
             unit == [s \in S |-> IF s \in given THEN 1 ELSE 0]
             P == {s \in S : left[s] > 0}
  <1>1. whole \in Nat /\ DOMAIN bases = S /\ whole = SumFunctionOnSet(bases, S)
    <2>1. DOMAIN bases = S /\ whole = SumFunctionOnSet(bases, S)
      BY DEF SumFunction
    <2> QED
      BY <2>1, SumIsANumber
  <1>2. CASE whole = 0
    <2>1. out = [s \in S |-> 0]
      BY <1>1, <1>2 DEF AllocateProportionally
    <2>2. SumFunction(out) = 0
      BY <2>1, SumOfZeros DEF SumFunction
    <2> QED
      BY <1>2, <2>1, <2>2
  <1>3. CASE whole # 0
    <2>1. \A s \in S : /\ share[s] \in Nat /\ left[s] \in 0..(whole - 1)
                       /\ amount * bases[s] = whole * share[s] + left[s]
      <3> SUFFICES ASSUME NEW s \in S
                   PROVE  /\ share[s] \in Nat /\ left[s] \in 0..(whole - 1)
                          /\ amount * bases[s] = whole * share[s] + left[s]
        OBVIOUS
      <3>1. amount * bases[s] \in Nat
        BY Products
      <3>2. share[s] = (amount * bases[s]) \div whole
        BY <1>1, TabledIs DEF Share
      <3>3. left[s] = (amount * bases[s]) % whole
        OBVIOUS
      <3> HIDE DEF share, left
      <3> QED
        BY <1>1, <1>3, <3>1, <3>2, <3>3, Division
    <2>2. rest \in 0..Cardinality(P) /\ SumFunctionOnSet(share, S) \in Nat
      <3>1. whole \in Nat \ {0}
        BY <1>1, <1>3
      <3>3. P = {s \in S : left[s] > 0}
        OBVIOUS
      <3>4. /\ SumFunctionOnSet(share, S) \in Nat
            /\ amount - SumFunctionOnSet(share, S) \in 0..Cardinality(P)
        <4> HIDE DEF share, left, P
        <4>1. IsDivided(amount, bases, whole, share, left, S)
          BY <2>1 DEF IsDivided
        <4> QED
          BY <1>1, <3>1, <3>3, <4>1, LeftOverUnits
      <3> QED
        BY <3>4
    <2>3. DOMAIN remainder = Q /\ \A s \in Q : remainder[s] = left[s]
      <3>1. remainder = [s \in {t \in S : bases[t] > 0} |->
                            (amount * bases[s]) % SumFunction(bases)]
        BY <1>1, TabledIs DEF Remainder
      <3> QED
        BY <3>1
    <2>4. P \subseteq Q
      <3> SUFFICES ASSUME NEW s \in P, s \notin Q PROVE FALSE
        OBVIOUS
      <3>0. s \in S /\ bases[s] = 0 /\ left[s] = (amount * bases[s]) % whole /\ left[s] > 0
        OBVIOUS
      <3>1. amount * bases[s] = 0
        BY <3>0
      <3>2. 0 % whole = 0
        BY <1>1, <1>3
      <3> HIDE DEF left
      <3> QED
        BY <3>0, <3>1, <3>2
    <2>5. /\ IsFiniteSet(Q) /\ IsFiniteSet(P) /\ Q \in SUBSET S
          /\ Cardinality(Q) \in Nat /\ Cardinality(P) <= Cardinality(Q)
          /\ Cardinality(P) \in Nat
      <3>1. IsFiniteSet(Q)
        BY FS_Subset
      <3> QED
        BY <2>4, <3>1, FS_Subset, FS_CardinalityType
    <2>6. out = [s \in S |-> IF s \in given THEN share[s] + 1 ELSE share[s]]
      <3>1. out = [s \in S |-> IF bases[s] > 0 /\ Cardinality(Ahead(s, remainder)) < rest
                               THEN share[s] + 1 ELSE share[s]]
        <4>1. DOMAIN share = S
          BY <1>1, TabledIs DEF Share
        <4>2. SumFunction(share) = SumFunctionOnSet(share, S)
          BY <4>1 DEF SumFunction
        <4> HIDE DEF share, remainder
        <4>3. out = Tabled([s \in S |-> IF bases[s] > 0 /\ Cardinality(Ahead(s, remainder)) < rest
                                        THEN share[s] + 1 ELSE share[s]])
          BY <1>1, <1>3, <4>2 DEF AllocateProportionally, share, remainder
        <4> QED
          BY <4>3, TabledIs
      <3> QED
        BY <3>1
    <2>7. Cardinality(given) = rest
      <3>1. remainder \in [Q -> Int] /\ Q \in SUBSET Int
        <4>1. \A s \in Q : remainder[s] \in Int
          BY <2>1, <2>3
        <4>2. remainder = [s \in Q |-> remainder[s]]
          BY TabledIs DEF Remainder
        <4> HIDE DEF remainder
        <4> QED
          BY <4>1, <4>2
      <3>2. rest \in 0..Cardinality(Q)
        <4> HIDE DEF rest, P, Q
        <4> QED
          BY <2>2, <2>5
      <3> HIDE DEF rest, remainder, Q
      <3> QED
        BY <2>5, <3>1, <3>2, FirstAreCounted
    <2>8. SumFunction(out) = amount
      <3>1. SumFunctionOnSet(unit, given) = Cardinality(given)
        <4>1. IsFiniteSet(given) /\ \A s \in given : unit[s] = 1
          BY <2>5, FS_Subset
        <4> HIDE DEF given, unit
        <4> QED
          BY <4>1, SumOfOnes
      <3>2. SumFunctionOnSet(unit, S \ given) = 0
        <4>1. IsFiniteSet(S \ given) /\ \A s \in S \ given : unit[s] = 0
          BY FS_Subset
        <4> HIDE DEF given, unit
        <4> QED
          BY <4>1, SumOfZeros
      <3>3. SumFunctionOnSet(unit, S) = rest
        <4>1. (\A s \in S : unit[s] \in Int) /\ given \in SUBSET S
          OBVIOUS
        <4>2. SumFunctionOnSet(unit, S) =
                 SumFunctionOnSet(unit, given) + SumFunctionOnSet(unit, S \ given)
          <5> HIDE DEF given, unit
          <5> QED
            BY <4>1, SumOfParts
        <4> HIDE DEF given, unit, rest, P
        <4> QED
          BY <2>2, <2>7, <3>1, <3>2, <4>2
      <3>4. \A s \in S : share[s] \in Int /\ unit[s] \in Int /\ out[s] = share[s] + unit[s]
        <4> SUFFICES ASSUME NEW s \in S
                     PROVE  share[s] \in Int /\ unit[s] \in Int /\ out[s] = share[s] + unit[s]
          OBVIOUS
        <4>1. share[s] \in Nat /\ unit[s] = (IF s \in given THEN 1 ELSE 0)
          BY <2>1
        <4>2. out[s] = IF s \in given THEN share[s] + 1 ELSE share[s]
          BY <2>6
        <4> HIDE DEF share, unit, given
        <4> QED
          BY <4>1, <4>2
      <3>5. SumFunctionOnSet(out, S) = SumFunctionOnSet(share, S) + SumFunctionOnSet(unit, S)
        <4>1. \A f, g, h :
                 (\A s \in S : f[s] \in Int /\ g[s] \in Int /\ h[s] = f[s] + g[s]) =>
                    SumFunctionOnSet(h, S) = SumFunctionOnSet(f, S) + SumFunctionOnSet(g, S)
          BY SumOfSums
        <4> HIDE DEF share, unit, given, rest
        <4> QED
          BY <3>4, <4>1, Zenon
      <3>6. DOMAIN out = S
        BY <2>6
      <3> HIDE DEF unit, share
      <3> QED
        BY <2>2, <3>3, <3>5, <3>6 DEF SumFunction
    <2>9. ASSUME NEW s \in given PROVE left[s] > 0
      <3> SUFFICES ASSUME left[s] = 0 PROVE FALSE
        BY <2>1
      <3>1. s \in Q /\ Place(s) < rest /\ remainder[s] = 0
        BY <2>3
      <3>2. P \subseteq Ahead(s, remainder)
        <4> SUFFICES ASSUME NEW t \in P PROVE t \in Ahead(s, remainder)
          OBVIOUS
        <4>1. t \in Q /\ remainder[t] > 0 /\ t \in DOMAIN remainder
          BY <2>3, <2>4
        <4>2. remainder[s] = 0
          BY <3>1
        <4> HIDE DEF remainder, Q, P
        <4> QED
          BY <4>1, <4>2 DEF Ahead
      <3>3. Ahead(s, remainder) \in SUBSET Q
        <4> HIDE DEF remainder, Q
        <4> QED
          BY <2>3 DEF Ahead
      <3>4. Cardinality(P) <= Place(s) /\ Place(s) \in Nat
        <4>1. IsFiniteSet(Ahead(s, remainder))
          BY <2>5, <3>3, FS_Subset
        <4> QED
          BY <3>2, <4>1, FS_Subset, FS_CardinalityType
      <3> HIDE DEF rest, P, Place
      <3> QED
        BY <2>2, <2>5, <3>1, <3>4
    <2>10. ASSUME NEW s \in S
           PROVE  /\ out[s] \in Nat
                  /\ out[s] * whole - amount * bases[s] \in (1 - whole)..(whole - 1)
      <3>1. /\ share[s] \in Nat /\ left[s] \in 0..(whole - 1)
            /\ amount * bases[s] = whole * share[s] + left[s]
        BY <2>1
      <3>2. CASE s \in given
        <4>1. out[s] = share[s] + 1 /\ left[s] > 0
          BY <2>6, <2>9, <3>2
        <4> HIDE DEF share, left
        <4>2. out[s] * whole = whole * share[s] + whole
          BY <1>1, <3>1, <4>1
        <4>3. whole * share[s] \in Int
          BY <1>1, <3>1
        <4> QED
          BY <1>1, <1>3, <3>1, <4>1, <4>2, <4>3
      <3>3. CASE s \notin given
        <4>1. out[s] = share[s]
          BY <2>6, <3>3
        <4> HIDE DEF share, left
        <4>2. out[s] * whole = whole * share[s] /\ whole * share[s] \in Int
          BY <1>1, <3>1, <4>1
        <4> QED
          BY <1>1, <1>3, <3>1, <4>1, <4>2
      <3> QED
        BY <3>2, <3>3
    <2>11. ASSUME NEW s \in S, amount <= whole PROVE out[s] <= bases[s]
      <3>1. out[s] \in Nat /\ bases[s] \in Nat
        BY <2>10
      <3>2. CASE bases[s] + 1 <= out[s]
        <4>1. (bases[s] + 1) * whole <= out[s] * whole
          BY <1>1, <3>1, <3>2, ProductsGrow
        <4>2. amount * bases[s] <= whole * bases[s]
          BY <1>1, <2>11, <3>1, ProductsGrow
        <4>3. (bases[s] + 1) * whole = whole * bases[s] + whole /\ whole * bases[s] \in Int
          BY <1>1, <3>1
        <4>4. out[s] * whole \in Int /\ amount * bases[s] \in Int
          BY <1>1, <3>1
        <4>5. out[s] * whole - amount * bases[s] \in (1 - whole)..(whole - 1)
          BY <2>10
        <4> QED
          BY <1>1, <4>1, <4>2, <4>3, <4>4, <4>5
      <3> QED
        BY <3>1, <3>2
    <2>12. out \in [S -> Nat]
      <3>1. DOMAIN out = S /\ out = [s \in S |-> out[s]]
        BY <2>6
      <3> QED
        BY <2>10, <3>1
    <2> QED
      BY <1>1, <1>3, <2>8, <2>10, <2>11, <2>12
  <1> QED
    BY <1>2, <1>3

\* The bills of a set of lines while adjustments are applied, and what they may be: typed,
\* with every discount on some line, and every surcharge, unless a fixed one found nothing
\* to be shared by.
BillOf(S) ==
    [ok : BOOLEAN, subtotal : [S -> Nat], discount : [S -> Nat], surcharge : [S -> Nat],
     discountTotal : Nat, surchargeTotal : Nat]
AdjustmentOfOrder ==
    [type : {"discount", "surcharge"}, line : Slot \cup {0}, index : 0..MaxIndex,
     kind : {"fixed", "percentage"}, value : Nat]
IsFixedSurcharge(a) == a.type = "surcharge" /\ a.kind = "fixed"
Balanced(bill, applied) ==
    /\ bill.discountTotal = SumFunction(bill.discount)
    /\ \/ bill.surchargeTotal = SumFunction(bill.surcharge)
       \/ /\ \E a \in applied : IsFixedSurcharge(a)
          /\ SumFunction(bill.subtotal) <= SumFunction(bill.discount)

-----------------------------------------------------------------------------
(* Rounding.                                                               *)

\* What rounding half up does.
LEMMA Rounding ==
    ASSUME NEW x \in Nat, NEW v \in Nat, NEW d \in Nat \ {0},
           NEW q, q = RoundRatioHalfUp(x, v, d)
    PROVE  /\ q \in Nat
           /\ d * q <= x * v + (d \div 2) /\ x * v + (d \div 2) < d * q + d
           /\ x * v \in Nat /\ d \div 2 \in Nat
  <1>1. x * v \in Nat
    BY Products
  <1>2. d \div 2 \in Nat
    BY Division
  <1> DEFINE a == x * v + (d \div 2)
  <1>3. a \in Nat /\ q = a \div d
    BY <1>1, <1>2 DEF RoundRatioHalfUp
  <1> HIDE DEF a
  <1>4. q \in Nat /\ a % d \in 0..(d - 1) /\ a = d * q + (a % d)
    BY <1>3, Division
  <1>5. d * q \in Nat
    BY <1>4, Products
  <1>6. d * q <= a /\ a < d * q + d
    BY <1>4, <1>5
  <1> QED
    BY <1>1, <1>2, <1>4, <1>6 DEF a

\* At most all of an amount is taken off it, and of a greater one there remains no less.
LEMMA PercentagesLeaveMore ==
    ASSUME NEW x \in Nat, NEW y \in Nat, x <= y, NEW v \in Nat, v <= BasisPointDenominator,
           NEW p, p = RoundRatioHalfUp(x, v, BasisPointDenominator),
           NEW q, q = RoundRatioHalfUp(y, v, BasisPointDenominator)
    PROVE  p \in Nat /\ q \in Nat /\ p <= x /\ x - p <= y - q
  <1>1. BasisPointDenominator = 10000
    BY DEF BasisPointDenominator
  <1>2. /\ p \in Nat /\ 10000 * p <= x * v + (10000 \div 2)
        /\ x * v + (10000 \div 2) < 10000 * p + 10000
        /\ x * v \in Nat
    BY <1>1, Rounding
  <1>3. /\ q \in Nat /\ 10000 * q <= y * v + (10000 \div 2)
        /\ y * v \in Nat
    BY <1>1, Rounding
  <1>4. 10000 \div 2 = 5000
    OBVIOUS
  <1>5. v * x <= 10000 * x /\ v * (y - x) <= 10000 * (y - x)
    BY <1>1, ProductsGrow
  <1>6. v * (y - x) = y * v - x * v /\ v * x = x * v
    OBVIOUS
  <1>7. p <= x
    BY <1>2, <1>4, <1>5, <1>6
  <1>8. q < p + 1 + (y - x)
    BY <1>2, <1>3, <1>4, <1>5, <1>6
  <1> QED
    BY <1>2, <1>3, <1>7, <1>8

\* adjustmentAmount
LEMMA AmountsAreNumbers ==
    ASSUME NEW a \in AdjustmentOfOrder, NEW x \in Nat
    PROVE  /\ AmountOf(a, x) \in Nat
           /\ a.kind # "fixed" /\ x = 0 => AmountOf(a, x) = 0
  <1>1. a.value \in Nat
    BY DEF AdjustmentOfOrder
  <1>2. BasisPointDenominator = 10000
    BY DEF BasisPointDenominator
  <1>3. CASE a.kind = "fixed"
    BY <1>1, <1>3 DEF AmountOf
  <1>4. CASE a.kind # "fixed"
    <2> DEFINE q == RoundRatioHalfUp(x, a.value, 10000)
    <2>1. AmountOf(a, x) = q
      BY <1>2, <1>4 DEF AmountOf
    <2>2. q \in Nat /\ 10000 * q <= x * a.value + (10000 \div 2)
      BY <1>1, Rounding
    <2>3. 10000 \div 2 = 5000
      OBVIOUS
    <2> HIDE DEF q
    <2>4. ASSUME x = 0 PROVE q = 0
      <3>1. x * a.value = 0
        BY <1>1, <2>4
      <3> QED
        BY <2>2, <2>3, <3>1
    <2> QED
      BY <2>1, <2>2, <2>4
  <1> QED
    BY <1>3, <1>4

\* What a bill amounts to, what an adjustment is then, and what of it lines have.
WholeBill(bill) == SumFunction(CurrentLineAmounts(bill))
AmountOfOrder(a, bill) == AmountOf(a, WholeBill(bill))
Allocated(a, bill) == AllocateProportionally(AmountOfOrder(a, bill), CurrentLineAmounts(bill))
AmountOfLine(a, bill) == AmountOf(a, CurrentLineAmounts(bill)[a.line])
WithDiscount(a, bill) == [bill.discount EXCEPT ![a.line] = @ + AmountOfLine(a, bill)]

\* What lines amount to.
LEMMA AmountsOfLines ==
    ASSUME NEW S, NEW bill \in BillOf(S)
    PROVE  /\ DOMAIN CurrentLineAmounts(bill) = S
           /\ \A s \in S : CurrentLineAmounts(bill)[s] =
                              bill.subtotal[s] - bill.discount[s] + bill.surcharge[s]
           /\ LinesAreCovered(bill) <=> \A s \in S : bill.discount[s] <= bill.subtotal[s]
           /\ LinesAreCovered(bill) => CurrentLineAmounts(bill) \in [S -> Nat]
  <1>1. /\ bill.subtotal \in [S -> Nat] /\ bill.discount \in [S -> Nat]
        /\ bill.surcharge \in [S -> Nat] /\ DOMAIN bill.subtotal = S
    BY DEF BillOf
  <1>2. CurrentLineAmounts(bill) =
           [s \in S |-> bill.subtotal[s] - bill.discount[s] + bill.surcharge[s]]
    BY <1>1, TabledIs DEF CurrentLineAmounts
  <1>3. LinesAreCovered(bill) <=> \A s \in S : bill.discount[s] <= bill.subtotal[s]
    BY <1>1 DEF LinesAreCovered
  <1>4. ASSUME LinesAreCovered(bill), NEW s \in S
        PROVE  bill.subtotal[s] - bill.discount[s] + bill.surcharge[s] \in Nat
    <2>1. /\ bill.subtotal[s] \in Nat /\ bill.discount[s] \in Nat /\ bill.surcharge[s] \in Nat
          /\ bill.discount[s] <= bill.subtotal[s]
      BY <1>1, <1>3, <1>4
    <2> QED
      BY <2>1
  <1> QED
    BY <1>2, <1>3, <1>4

\* Functions are added value by value, and so are their sums.
LEMMA PlusAdds ==
    ASSUME NEW S, IsFiniteSet(S), NEW f \in [S -> Nat], NEW g \in [S -> Nat]
    PROVE  /\ Plus(f, g) \in [S -> Nat]
           /\ \A s \in S : Plus(f, g)[s] = f[s] + g[s]
           /\ SumFunction(f) \in Nat /\ SumFunction(g) \in Nat
           /\ SumFunction(Plus(f, g)) = SumFunction(f) + SumFunction(g)
  <1> DEFINE h == Plus(f, g)
  <1>1. h = [s \in S |-> f[s] + g[s]]
    BY TabledIs DEF Plus
  <1>2. DOMAIN h = S /\ \A s \in S : f[s] \in Nat /\ g[s] \in Nat /\ h[s] = f[s] + g[s]
    BY <1>1
  <1>3. h \in [S -> Nat]
    BY <1>1
  <1> HIDE DEF h
  <1>4. SumFunctionOnSet(h, S) = SumFunctionOnSet(f, S) + SumFunctionOnSet(g, S)
    <2>1. \A s \in S : f[s] \in Int /\ g[s] \in Int /\ h[s] = f[s] + g[s]
      BY <1>2
    <2> QED
      BY <2>1, SumOfSums
  <1>5. SumFunctionOnSet(f, S) \in Nat /\ SumFunctionOnSet(g, S) \in Nat
    BY <1>2, SumIsANumber
  <1>6. DOMAIN f = S /\ DOMAIN g = S
    OBVIOUS
  <1>7. /\ SumFunction(f) = SumFunctionOnSet(f, S) /\ SumFunction(g) = SumFunctionOnSet(g, S)
        /\ SumFunction(h) = SumFunctionOnSet(h, S)
    BY <1>2, <1>6 DEF SumFunction
  <1>8. SumFunction(h) = SumFunction(f) + SumFunction(g)
    BY <1>4, <1>7
  <1> QED
    BY <1>2, <1>3, <1>5, <1>7, <1>8 DEF h

\* All lines amount to the subtotal without discounts and with surcharges.
LEMMA WholeOfLines ==
    ASSUME NEW S, IsFiniteSet(S), NEW bill \in BillOf(S), LinesAreCovered(bill)
    PROVE  /\ SumFunction(CurrentLineAmounts(bill)) =
                 SumFunction(bill.subtotal) - SumFunction(bill.discount)
                    + SumFunction(bill.surcharge)
           /\ SumFunction(CurrentLineAmounts(bill)) \in Nat
           /\ SumFunction(bill.subtotal) \in Nat /\ SumFunction(bill.discount) \in Nat
           /\ SumFunction(bill.surcharge) \in Nat
  <1> DEFINE now == CurrentLineAmounts(bill)
             all == Plus(bill.subtotal, bill.surcharge)
             same == Plus(now, bill.discount)
  <1>1. /\ bill.subtotal \in [S -> Nat] /\ bill.discount \in [S -> Nat]
        /\ bill.surcharge \in [S -> Nat]
    BY DEF BillOf
  <1>2. /\ now \in [S -> Nat]
        /\ \A s \in S : now[s] = bill.subtotal[s] - bill.discount[s] + bill.surcharge[s]
    BY AmountsOfLines
  <1> HIDE DEF now
  <1>3. /\ all \in [S -> Nat] /\ \A s \in S : all[s] = bill.subtotal[s] + bill.surcharge[s]
        /\ SumFunction(all) = SumFunction(bill.subtotal) + SumFunction(bill.surcharge)
        /\ SumFunction(bill.subtotal) \in Nat /\ SumFunction(bill.surcharge) \in Nat
    BY <1>1, PlusAdds
  <1>4. /\ same \in [S -> Nat] /\ \A s \in S : same[s] = now[s] + bill.discount[s]
        /\ SumFunction(same) = SumFunction(now) + SumFunction(bill.discount)
        /\ SumFunction(now) \in Nat /\ SumFunction(bill.discount) \in Nat
    BY <1>1, <1>2, PlusAdds
  <1> HIDE DEF all, same
  <1>5. all = same
    <2>1. ASSUME NEW s \in S PROVE all[s] = same[s]
      <3>1. /\ bill.subtotal[s] \in Nat /\ bill.discount[s] \in Nat
            /\ bill.surcharge[s] \in Nat
        BY <1>1
      <3> QED
        BY <1>2, <1>3, <1>4, <3>1
    <2> QED
      BY <1>3, <1>4, <2>1
  <1> QED
    BY <1>3, <1>4, <1>5 DEF now

-----------------------------------------------------------------------------
(* What one adjustment makes of a bill.                                    *)

\* Where the calculation has failed, it stays so.
LEMMA RefusedIsRefused ==
    ASSUME NEW S, NEW bill \in BillOf(S), NEW a, ~bill.ok \/ ~LinesAreCovered(bill)
    PROVE  Apply(a, bill) \in BillOf(S) /\ Apply(a, bill) = Refused(bill)
  <1>1. Apply(a, bill) = Refused(bill)
    BY DEF Apply
  <1> QED
    BY <1>1 DEF Refused, BillOf

\* applySurcharge: the lines get it by what they amount to, if anything.
LEMMA SurchargeIsApplied ==
    ASSUME NEW S \in SUBSET Int, IsFiniteSet(S), NEW bill \in BillOf(S), bill.ok,
           LinesAreCovered(bill), NEW a \in AdjustmentOfOrder, a.type = "surcharge"
    PROVE  /\ Apply(a, bill) = [bill EXCEPT !.surcharge = Plus(@, Allocated(a, bill)),
                                            !.surchargeTotal = @ + AmountOfOrder(a, bill)]
           /\ Apply(a, bill) \in BillOf(S)
           /\ Allocated(a, bill) \in [S -> Nat]
           /\ AmountOfOrder(a, bill) \in Nat /\ WholeBill(bill) \in Nat
           /\ SumFunction(Allocated(a, bill)) =
                 IF WholeBill(bill) = 0 THEN 0 ELSE AmountOfOrder(a, bill)
           /\ WholeBill(bill) # 0 =>
                 \A s \in S : Allocated(a, bill)[s] * WholeBill(bill)
                                 - AmountOfOrder(a, bill) * CurrentLineAmounts(bill)[s]
                                    \in (1 - WholeBill(bill))..(WholeBill(bill) - 1)
  <1> DEFINE amounts == CurrentLineAmounts(bill)
             whole == WholeBill(bill)
             amount == AmountOfOrder(a, bill)
             out == Allocated(a, bill)
  <1>0. /\ amounts = CurrentLineAmounts(bill) /\ whole = SumFunction(amounts)
        /\ amount = AmountOf(a, whole) /\ out = AllocateProportionally(amount, amounts)
    BY DEF WholeBill, AmountOfOrder, Allocated
  <1> HIDE DEF amounts, whole, amount, out
  <1>1. amounts \in [S -> Nat]
    BY <1>0, AmountsOfLines
  <1>2. whole \in Nat
    BY <1>0, WholeOfLines
  <1>3. amount \in Nat
    BY <1>0, <1>2, AmountsAreNumbers
  <1>4. /\ out \in [S -> Nat]
        /\ SumFunction(out) = IF whole = 0 THEN 0 ELSE amount
        /\ whole # 0 => \A s \in S : out[s] * whole - amount * amounts[s]
                                            \in (1 - whole)..(whole - 1)
    BY <1>0, <1>1, <1>3, AllIsAllocated
  <1>5. Apply(a, bill) = ApplySurcharge(a, bill)
    BY DEF Apply
  <1>6. ApplySurcharge(a, bill) = [bill EXCEPT !.surcharge = Plus(@, out),
                                               !.surchargeTotal = @ + amount]
    BY <1>0 DEF ApplySurcharge
  <1>7. bill.surcharge \in [S -> Nat] /\ bill.surchargeTotal \in Nat
    BY DEF BillOf
  <1>8. Plus(bill.surcharge, out) \in [S -> Nat] /\ bill.surchargeTotal + amount \in Nat
    <2>1. Plus(bill.surcharge, out) \in [S -> Nat]
      BY <1>4, <1>7, PlusAdds
    <2> QED
      BY <1>3, <1>7, <2>1
  <1>9. Apply(a, bill) \in BillOf(S)
    <2> DEFINE more == Plus(bill.surcharge, out)
               total == bill.surchargeTotal + amount
    <2>1. Apply(a, bill) = [bill EXCEPT !.surcharge = more, !.surchargeTotal = total]
      BY <1>5, <1>6
    <2>2. more \in [S -> Nat] /\ total \in Nat
      BY <1>8
    <2> HIDE DEF more, total
    <2> QED
      BY <2>1, <2>2 DEF BillOf
  <1> QED
    BY <1>2, <1>3, <1>4, <1>5, <1>6, <1>9 DEF amounts, whole, amount, out

\* applyDiscount on an order: refused where it exceeds what the lines amount to, or shared
\* by them, none of which gives more than it amounts to.
LEMMA OrderDiscountIsApplied ==
    ASSUME NEW S \in SUBSET Int, IsFiniteSet(S), NEW bill \in BillOf(S), bill.ok,
           LinesAreCovered(bill), NEW a \in AdjustmentOfOrder, a.type = "discount",
           a.line = 0
    PROVE  /\ Apply(a, bill) = IF AmountOfOrder(a, bill) > WholeBill(bill) THEN Refused(bill)
                               ELSE [bill EXCEPT !.discount = Plus(@, Allocated(a, bill)),
                                                 !.discountTotal = @ + AmountOfOrder(a, bill)]
           /\ Apply(a, bill) \in BillOf(S)
           /\ Allocated(a, bill) \in [S -> Nat]
           /\ AmountOfOrder(a, bill) \in Nat /\ WholeBill(bill) \in Nat
           /\ AmountOfOrder(a, bill) <= WholeBill(bill) =>
                 /\ SumFunction(Allocated(a, bill)) = AmountOfOrder(a, bill)
                 /\ \A s \in S : Allocated(a, bill)[s] <= CurrentLineAmounts(bill)[s]
           /\ WholeBill(bill) # 0 =>
                 \A s \in S : Allocated(a, bill)[s] * WholeBill(bill)
                                 - AmountOfOrder(a, bill) * CurrentLineAmounts(bill)[s]
                                    \in (1 - WholeBill(bill))..(WholeBill(bill) - 1)
  <1> DEFINE amounts == CurrentLineAmounts(bill)
             whole == WholeBill(bill)
             amount == AmountOfOrder(a, bill)
             out == Allocated(a, bill)
  <1>0. /\ amounts = CurrentLineAmounts(bill) /\ whole = SumFunction(amounts)
        /\ amount = AmountOf(a, whole) /\ out = AllocateProportionally(amount, amounts)
    BY DEF WholeBill, AmountOfOrder, Allocated
  <1> HIDE DEF amounts, whole, amount, out
  <1>1. amounts \in [S -> Nat]
    BY <1>0, AmountsOfLines
  <1>2. whole \in Nat
    BY <1>0, WholeOfLines
  <1>3. amount \in Nat
    BY <1>0, <1>2, AmountsAreNumbers
  <1>4. /\ out \in [S -> Nat]
        /\ SumFunction(out) = IF whole = 0 THEN 0 ELSE amount
        /\ whole # 0 => \A s \in S : out[s] * whole - amount * amounts[s]
                                            \in (1 - whole)..(whole - 1)
        /\ amount <= whole => \A s \in S : out[s] <= amounts[s]
    BY <1>0, <1>1, <1>3, AllIsAllocated
  <1>5. amount <= whole => SumFunction(out) = amount
    BY <1>2, <1>3, <1>4
  <1>6. Apply(a, bill) = ApplyOrderDiscount(a, bill)
    BY DEF Apply
  <1>7. ApplyOrderDiscount(a, bill) =
           IF amount > whole THEN Refused(bill)
           ELSE [bill EXCEPT !.discount = Plus(@, out), !.discountTotal = @ + amount]
    BY <1>0 DEF ApplyOrderDiscount
  <1>8. bill.discount \in [S -> Nat] /\ bill.discountTotal \in Nat
    BY DEF BillOf
  <1>9. Plus(bill.discount, out) \in [S -> Nat] /\ bill.discountTotal + amount \in Nat
    <2>1. Plus(bill.discount, out) \in [S -> Nat]
      BY <1>4, <1>8, PlusAdds
    <2> QED
      BY <1>3, <1>8, <2>1
  <1>10. Apply(a, bill) \in BillOf(S)
    <2> DEFINE more == Plus(bill.discount, out)
               total == bill.discountTotal + amount
    <2>1. Apply(a, bill) = IF amount > whole THEN Refused(bill)
                           ELSE [bill EXCEPT !.discount = more, !.discountTotal = total]
      BY <1>6, <1>7
    <2>2. more \in [S -> Nat] /\ total \in Nat
      BY <1>9
    <2> HIDE DEF more, total
    <2>3. CASE amount > whole
      BY <2>1, <2>3 DEF Refused, BillOf
    <2>4. CASE ~(amount > whole)
      BY <2>1, <2>2, <2>4 DEF BillOf
    <2> QED
      BY <2>3, <2>4
  <1> QED
    BY <1>2, <1>3, <1>4, <1>5, <1>6, <1>7, <1>10 DEF amounts, whole, amount, out


\* applyDiscount on a line: refused where it is not one of the bill, or amounts to less.
LEMMA LineDiscountIsApplied ==
    ASSUME NEW S \in SUBSET Int, IsFiniteSet(S), NEW bill \in BillOf(S), bill.ok,
           LinesAreCovered(bill), NEW a \in AdjustmentOfOrder, a.type = "discount",
           a.line # 0
    PROVE  /\ Apply(a, bill) =
                 IF a.line \notin S \/ AmountOfLine(a, bill) > CurrentLineAmounts(bill)[a.line]
                 THEN Refused(bill)
                 ELSE [bill EXCEPT !.discount = WithDiscount(a, bill),
                                   !.discountTotal = @ + AmountOfLine(a, bill)]
           /\ Apply(a, bill) \in BillOf(S)
           /\ a.line \in S => /\ AmountOfLine(a, bill) \in Nat
                              /\ CurrentLineAmounts(bill)[a.line] \in Nat
  <1> DEFINE target == CurrentLineAmounts(bill)[a.line]
             amount == AmountOfLine(a, bill)
             more == WithDiscount(a, bill)
  <1>0. /\ target = CurrentLineAmounts(bill)[a.line]
        /\ amount = AmountOf(a, target)
        /\ more = [bill.discount EXCEPT ![a.line] = @ + amount]
    BY DEF AmountOfLine, WithDiscount
  <1> HIDE DEF target, amount, more
  <1>1. ASSUME a.line \in S PROVE amount \in Nat /\ target \in Nat
    <2>1. target \in Nat
      BY <1>0, <1>1, AmountsOfLines
    <2> QED
      BY <1>0, <2>1, AmountsAreNumbers
  <1>2. /\ bill.subtotal \in [S -> Nat] /\ bill.discount \in [S -> Nat]
        /\ bill.discountTotal \in Nat /\ DOMAIN bill.subtotal = S
    BY DEF BillOf
  <1>3. Apply(a, bill) = ApplyLineDiscount(a, bill)
    BY DEF Apply
  <1>4. ApplyLineDiscount(a, bill) =
           IF a.line \notin S \/ amount > target THEN Refused(bill)
           ELSE [bill EXCEPT !.discount = more,
                             !.discountTotal = @ + amount]
    <2>1. CASE a.line \notin S
      BY <1>0, <1>2, <2>1 DEF ApplyLineDiscount
    <2>2. CASE a.line \in S
      <3>1. ApplyLineDiscount(a, bill) =
               IF amount > target THEN Refused(bill)
               ELSE [bill EXCEPT !.discount[a.line] = @ + amount,
                                 !.discountTotal = @ + amount]
        BY <1>0, <1>2, <2>2 DEF ApplyLineDiscount
      <3>2. [bill EXCEPT !.discount[a.line] = @ + amount, !.discountTotal = @ + amount] =
               [bill EXCEPT !.discount = more,
                            !.discountTotal = @ + amount]
        BY <1>0, <1>2, <2>2
      <3> QED
        BY <2>2, <3>1, <3>2
    <2> QED
      BY <2>1, <2>2
  <1>5. Apply(a, bill) \in BillOf(S)
    <2> DEFINE total == bill.discountTotal + amount
    <2>1. Apply(a, bill) = IF a.line \notin S \/ amount > target THEN Refused(bill)
                           ELSE [bill EXCEPT !.discount = more, !.discountTotal = total]
      BY <1>3, <1>4
    <2>2. CASE a.line \notin S \/ amount > target
      BY <2>1, <2>2 DEF Refused, BillOf
    <2>3. CASE ~(a.line \notin S \/ amount > target)
      <3>1. more \in [S -> Nat] /\ total \in Nat
        <4>1. \A s \in S : bill.discount[s] \in Nat
          BY <1>2
        <4>2. bill.discount[a.line] + amount \in Nat /\ bill.discountTotal + amount \in Nat
          <5>1. a.line \in S
            BY <2>3
          <5>2. bill.discount[a.line] \in Nat /\ amount \in Nat
            BY <1>1, <4>1, <5>1
          <5> QED
            BY <1>2, <5>2
        <4> QED
          BY <1>0, <1>2, <4>2
      <3> HIDE DEF total
      <3> QED
        BY <2>1, <2>3, <3>1 DEF BillOf
    <2> QED
      BY <2>2, <2>3
  <1> QED
    BY <1>1, <1>3, <1>4, <1>5 DEF target, amount, more

\* applyModifiers: what is taken off and added is on the lines, whatever is applied.
LEMMA ApplyKeepsBalance ==
    ASSUME NEW S \in SUBSET Int, IsFiniteSet(S), NEW bill \in BillOf(S),
           NEW applied, NEW a \in applied, a \in AdjustmentOfOrder, Balanced(bill, applied)
    PROVE  /\ Apply(a, bill) \in BillOf(S) /\ Balanced(Apply(a, bill), applied)
           /\ Apply(a, bill).subtotal = bill.subtotal
           /\ Apply(a, bill).ok => bill.ok /\ LinesAreCovered(bill)
  <1>1. CASE ~bill.ok \/ ~LinesAreCovered(bill)
    <2>1. Apply(a, bill) \in BillOf(S) /\ Apply(a, bill) = [bill EXCEPT !.ok = FALSE]
      BY <1>1, RefusedIsRefused DEF Refused
    <2> QED
      BY <2>1 DEF Balanced, BillOf
  <1>2. CASE bill.ok /\ LinesAreCovered(bill)
    <2> DEFINE amounts == CurrentLineAmounts(bill)
               whole == WholeBill(bill)
               amount == AmountOfOrder(a, bill)
               out == Allocated(a, bill)
               next == Apply(a, bill)
    <2>0. /\ whole = SumFunction(amounts) /\ amounts = CurrentLineAmounts(bill)
          /\ amount = AmountOf(a, whole) /\ next = Apply(a, bill)
      BY DEF WholeBill, AmountOfOrder
    <2> HIDE DEF amounts, whole, amount, out, next
    <2>1. /\ bill.subtotal \in [S -> Nat] /\ bill.discount \in [S -> Nat]
          /\ bill.surcharge \in [S -> Nat]
          /\ bill.discountTotal \in Nat /\ bill.surchargeTotal \in Nat
      BY DEF BillOf
    <2>2. a.type \in {"discount", "surcharge"}
      BY DEF AdjustmentOfOrder
    <2>3. /\ whole = SumFunction(bill.subtotal) - SumFunction(bill.discount)
                        + SumFunction(bill.surcharge)
          /\ whole \in Nat /\ SumFunction(bill.subtotal) \in Nat
          /\ SumFunction(bill.discount) \in Nat /\ SumFunction(bill.surcharge) \in Nat
      BY <1>2, <2>0, WholeOfLines
    <2>4. CASE a.type = "surcharge"
      <3>1. /\ next = [bill EXCEPT !.surcharge = Plus(@, out), !.surchargeTotal = @ + amount]
            /\ next \in BillOf(S) /\ out \in [S -> Nat] /\ amount \in Nat
            /\ SumFunction(out) = IF whole = 0 THEN 0 ELSE amount
        BY <1>2, <2>4, SurchargeIsApplied DEF amounts, whole, amount, out, next
      <3>2. /\ next.surcharge = Plus(bill.surcharge, out) /\ next.discount = bill.discount
            /\ next.surchargeTotal = bill.surchargeTotal + amount
            /\ next.discountTotal = bill.discountTotal /\ next.subtotal = bill.subtotal
        BY <3>1 DEF BillOf
      <3>3. SumFunction(next.surcharge) = SumFunction(bill.surcharge) + SumFunction(out)
        BY <2>1, <3>1, <3>2, PlusAdds
      <3>4. CASE whole # 0 \/ amount = 0
        <4>1. SumFunction(out) = amount
          BY <3>1, <3>4
        <4>2. bill.surchargeTotal = SumFunction(bill.surcharge) =>
                 next.surchargeTotal = SumFunction(next.surcharge)
          BY <3>2, <3>3, <4>1
        <4>3. Balanced(next, applied)
          BY <3>2, <4>2 DEF Balanced
        <4> QED
          BY <1>2, <3>1, <3>2, <4>3, <2>0
      <3>5. CASE whole = 0 /\ amount # 0
        <4>1. IsFixedSurcharge(a)
          <5>1. amount = AmountOf(a, 0)
            BY <2>0, <3>5
          <5>2. a.kind = "fixed"
            BY <3>5, <5>1, AmountsAreNumbers
          <5> QED
            BY <2>4, <5>2 DEF IsFixedSurcharge
        <4>2. SumFunction(bill.subtotal) <= SumFunction(bill.discount)
          BY <2>3, <3>5
        <4>3. Balanced(next, applied)
          BY <3>2, <4>1, <4>2 DEF Balanced
        <4> QED
          BY <1>2, <3>1, <3>2, <4>3, <2>0
      <3> QED
        BY <3>4, <3>5
    <2>5. CASE a.type = "discount" /\ a.line = 0
      <3>1. /\ next = IF amount > whole THEN Refused(bill)
                      ELSE [bill EXCEPT !.discount = Plus(@, out), !.discountTotal = @ + amount]
            /\ next \in BillOf(S) /\ out \in [S -> Nat] /\ amount \in Nat
            /\ amount <= whole => SumFunction(out) = amount
        BY <1>2, <2>5, OrderDiscountIsApplied DEF amounts, whole, amount, out, next
      <3>2. CASE amount > whole
        <4>1. next = [bill EXCEPT !.ok = FALSE]
          BY <3>1, <3>2 DEF Refused
        <4>2. next.subtotal = bill.subtotal /\ Balanced(next, applied)
          BY <4>1 DEF Balanced, BillOf
        <4> QED
          BY <1>2, <3>1, <4>2, <2>0
      <3>3. CASE ~(amount > whole)
        <4>1. /\ next.discount = Plus(bill.discount, out) /\ next.surcharge = bill.surcharge
              /\ next.discountTotal = bill.discountTotal + amount
              /\ next.surchargeTotal = bill.surchargeTotal /\ next.subtotal = bill.subtotal
          BY <3>1, <3>3 DEF BillOf
        <4>2. SumFunction(next.discount) = SumFunction(bill.discount) + amount
          BY <2>1, <2>3, <3>1, <3>3, <4>1, PlusAdds
        <4>3. Balanced(next, applied)
          BY <2>3, <3>1, <4>1, <4>2 DEF Balanced
        <4> QED
          BY <1>2, <3>1, <4>1, <4>3, <2>0
      <3> QED
        BY <3>2, <3>3
    <2>6. CASE a.type = "discount" /\ a.line # 0
      <3> DEFINE target == CurrentLineAmounts(bill)[a.line]
                 off == AmountOfLine(a, bill)
                 withOff == WithDiscount(a, bill)
      <3>0. withOff = [bill.discount EXCEPT ![a.line] = @ + off]
        BY DEF WithDiscount
      <3> HIDE DEF target, off, withOff
      <3>1. /\ next = IF a.line \notin S \/ off > target THEN Refused(bill)
                      ELSE [bill EXCEPT !.discount = withOff, !.discountTotal = @ + off]
            /\ next \in BillOf(S)
            /\ a.line \in S => off \in Nat
        BY <1>2, <2>6, LineDiscountIsApplied DEF target, off, withOff, next
      <3>2. CASE a.line \notin S \/ off > target
        <4>1. next = [bill EXCEPT !.ok = FALSE]
          BY <3>1, <3>2 DEF Refused
        <4>2. next.subtotal = bill.subtotal /\ Balanced(next, applied)
          BY <4>1 DEF Balanced, BillOf
        <4> QED
          BY <1>2, <3>1, <4>2, <2>0
      <3>3. CASE ~(a.line \notin S \/ off > target)
        <4>1. SumFunction(withOff) = SumFunction(bill.discount) + off
          <5>1. /\ DOMAIN bill.discount = S /\ DOMAIN withOff = S /\ a.line \in S
                /\ off \in Nat /\ \A s \in S : bill.discount[s] \in Nat
                /\ \A s \in S : s # a.line => withOff[s] = bill.discount[s]
                /\ withOff[a.line] = bill.discount[a.line] + off
            BY <2>1, <3>0, <3>1, <3>3
          <5> DEFINE old == bill.discount
          <5>2. /\ DOMAIN old = S /\ \A s \in S : old[s] \in Nat
                /\ \A s \in S : s # a.line => withOff[s] = old[s]
                /\ withOff[a.line] = old[a.line] + off
            BY <5>1
          <5> HIDE DEF old
          <5>3. SumFunction(withOff) = SumFunction(old) + off
            BY <5>1, <5>2, SumGrows
          <5> QED
            BY <5>3 DEF old
        <4>2. /\ next.discount = withOff /\ next.surcharge = bill.surcharge
              /\ next.discountTotal = bill.discountTotal + off
              /\ next.surchargeTotal = bill.surchargeTotal /\ next.subtotal = bill.subtotal
          BY <3>1, <3>3 DEF BillOf
        <4>3. off \in Nat
          BY <3>1, <3>3
        <4>4. Balanced(next, applied)
          BY <2>3, <4>1, <4>2, <4>3 DEF Balanced
        <4> QED
          BY <1>2, <3>1, <4>2, <4>4, <2>0
      <3> QED
        BY <3>2, <3>3
    <2> QED
      BY <2>2, <2>4, <2>5, <2>6
  <1> QED
    BY <1>1, <1>2 DEF BillOf

-----------------------------------------------------------------------------
(* One adjustment after the other.                                         *)

IsAfter(applied, plain, after) ==
    after = [n \in 0..MaxIndex |->
                IF n = 0 THEN plain ELSE AppliedAt(n, applied, after[n - 1])]
After(applied, plain) == CHOOSE after : IsAfter(applied, plain, after)

\* The bills after each of the indices exist.
LEMMA BillsExist ==
    ASSUME NEW applied, NEW plain
    PROVE  IsAfter(applied, plain, After(applied, plain))
  <1> DEFINE At(f, n) == IF n = 0 THEN plain ELSE AppliedAt(n, applied, f[n - 1])
             Upto(n, f) == f = [m \in 0..n |-> At(f, m)]
             G == {n \in 0..MaxIndex : \E f : Upto(n, f)}
  <1>1. MaxIndex \in Nat
    BY PricingAssumption
  <1>2. 0 \in G
    <2> DEFINE f == [m \in 0..0 |-> plain]
    <2>1. \A m \in 0..0 : m = 0
      OBVIOUS
    <2>2. Upto(0, f)
      BY <2>1
    <2>3. \E g : Upto(0, g)
      BY <2>2
    <2> QED
      BY <1>1, <2>3
  <1>3. ASSUME NEW n \in 1..MaxIndex, n - 1 \in G PROVE n \in G
    <2>1. n \in 0..MaxIndex /\ n \in Nat /\ n # 0 /\ n - 1 \in Nat
      BY <1>1
    <2>2. PICK f : Upto(n - 1, f)
      BY <1>3
    <2> DEFINE g == [m \in 0..n |-> At(f, m)]
    <2>3. ASSUME NEW m \in 0..(n - 1) PROVE g[m] = f[m]
      <3>1. m \in 0..n
        BY <2>1
      <3>2. f[m] = At(f, m)
        BY <2>2
      <3> QED
        BY <3>1, <3>2
    <2>4. ASSUME NEW m \in 0..n PROVE At(f, m) = At(g, m)
      <3>1. CASE m = 0
        BY <3>1
      <3>2. CASE m # 0
        <4>1. m - 1 \in 0..(n - 1)
          BY <2>1, <3>2
        <4>2. g[m - 1] = f[m - 1]
          BY <2>3, <4>1
        <4> HIDE DEF g
        <4> QED
          BY <3>2, <4>2
      <3> QED
        BY <3>1, <3>2
    <2>5. Upto(n, g)
      <3>1. g = [m \in 0..n |-> At(g, m)]
        BY <2>4
      <3> QED
        BY <3>1
    <2>6. \E h : Upto(n, h)
      BY <2>5
    <2> QED
      BY <2>1, <2>6
  <1>4. MaxIndex \in G
    <2> HIDE DEF G
    <2> QED
      BY <1>1, <1>2, <1>3, UptoInduction
  <1>5. PICK f : Upto(MaxIndex, f)
    BY <1>4
  <1>6. IsAfter(applied, plain, f)
    BY <1>5 DEF IsAfter
  <1> QED
    BY <1>6 DEF After

\* Adjusted is the last of them; each is the one before with what has its index.
LEMMA BillsFollow ==
    ASSUME NEW applied, NEW plain, NEW after, after = After(applied, plain)
    PROVE  /\ after[0] = plain
           /\ \A n \in 1..MaxIndex : after[n] = AppliedAt(n, applied, after[n - 1])
           /\ Adjusted(applied, plain) = after[MaxIndex]
  <1>1. MaxIndex \in Nat
    BY PricingAssumption
  <1>2. after = [n \in 0..MaxIndex |->
                    IF n = 0 THEN plain ELSE AppliedAt(n, applied, after[n - 1])]
    BY BillsExist DEF IsAfter
  <1>3. 0 \in 0..MaxIndex /\ \A n \in 1..MaxIndex : n \in 0..MaxIndex /\ n # 0
    BY <1>1
  <1>4. after[0] = plain
    BY <1>2, <1>3
  <1>5. \A n \in 1..MaxIndex : after[n] = AppliedAt(n, applied, after[n - 1])
    BY <1>2, <1>3
  <1>6. Adjusted(applied, plain) = after[MaxIndex]
    BY DEF Adjusted, After, IsAfter
  <1> QED
    BY <1>4, <1>5, <1>6

-----------------------------------------------------------------------------
(* Taxes.                                                                  *)

TaxOfLine == [all : Nat, added : Nat]
NoTax == [all |-> 0, added |-> 0]
IsTaxed(s, base, tax) ==
    tax = [n \in 0..Len(TaxRules(s)) |->
              IF n = 0 THEN NoTax ELSE TaxedBy(TaxRules(s)[n], base, tax[n - 1])]

\* A rule only adds to a tax.
LEMMA RuleAddsTax ==
    ASSUME NEW s \in Slot, NEW base \in Nat, NEW n \in 1..Len(TaxRules(s)),
           NEW tax \in TaxOfLine
    PROVE  TaxedBy(TaxRules(s)[n], base, tax) \in TaxOfLine /\ Len(TaxRules(s)) \in Nat
  <1> DEFINE Rule == [mode : {"inclusive", "exclusive"}, value : Nat,
                      kind : {"fixed", "percentage"}, compound : BOOLEAN, active : BOOLEAN]
             rule == TaxRules(s)[n]
             sum == IF rule.compound THEN base + tax.added ELSE base
             amount == TaxAmount(rule, sum)
  <1>1. TaxRules(s) \in Seq(Rule)
    <2>1. TaxProfile[s].rules \in Seq(Rule)
      BY PricingAssumption
    <2> HIDE DEF Rule
    <2>2. <<>> \in Seq(Rule)
      OBVIOUS
    <2> QED
      BY <2>1, <2>2 DEF TaxRules
  <1>2. rule \in Rule /\ Len(TaxRules(s)) \in Nat
    <2> HIDE DEF Rule
    <2> QED
      BY <1>1
  <1>3. rule.value \in Nat /\ tax.all \in Nat /\ tax.added \in Nat
    BY <1>2 DEF TaxOfLine
  <1>4. sum \in Nat
    BY <1>3
  <1>5. amount \in Nat
    <2> HIDE DEF sum, rule
    <2>1. CASE rule.kind = "fixed"
      BY <1>3, <2>1 DEF TaxAmount
    <2>2. CASE rule.kind # "fixed"
      <3> DEFINE d == BasisPointDenominator + (IF rule.mode = "inclusive" THEN rule.value ELSE 0)
      <3>1. d \in Nat \ {0}
        BY <1>3 DEF BasisPointDenominator
      <3>2. amount = RoundRatioHalfUp(sum, rule.value, d)
        BY <2>2 DEF TaxAmount
      <3> HIDE DEF d, amount
      <3> QED
        BY <1>3, <1>4, <3>1, <3>2, Rounding
    <2> QED
      BY <2>1, <2>2
  <1>6. TaxedBy(rule, base, tax) =
           IF ~rule.active THEN tax
           ELSE [all |-> tax.all + amount,
                 added |-> IF rule.mode = "exclusive" THEN tax.added + amount ELSE tax.added]
    BY DEF TaxedBy
  <1> HIDE DEF amount, sum, rule
  <1>7. TaxedBy(rule, base, tax) \in TaxOfLine
    BY <1>3, <1>5, <1>6 DEF TaxOfLine
  <1> QED
    BY <1>2, <1>7 DEF rule

\* What the rules make of the tax one after the other exists.
LEMMA TaxesExist ==
    ASSUME NEW s, Len(TaxRules(s)) \in Nat, NEW base
    PROVE  \E tax : IsTaxed(s, base, tax)
  <1> DEFINE N == Len(TaxRules(s))
             At(f, n) == IF n = 0 THEN NoTax ELSE TaxedBy(TaxRules(s)[n], base, f[n - 1])
             Upto(n, f) == f = [m \in 0..n |-> At(f, m)]
             G == {n \in 0..N : \E f : Upto(n, f)}
  <1>1. N \in Nat
    OBVIOUS
  <1>2. 0 \in G
    <2> DEFINE f == [m \in 0..0 |-> NoTax]
    <2>1. \A m \in 0..0 : m = 0
      OBVIOUS
    <2>2. Upto(0, f)
      BY <2>1
    <2>3. \E g : Upto(0, g)
      BY <2>2
    <2> QED
      BY <1>1, <2>3
  <1>3. ASSUME NEW n \in 1..N, n - 1 \in G PROVE n \in G
    <2>1. n \in 0..N /\ n \in Nat /\ n # 0 /\ n - 1 \in Nat
      BY <1>1
    <2>2. PICK f : Upto(n - 1, f)
      BY <1>3
    <2> DEFINE g == [m \in 0..n |-> At(f, m)]
    <2>3. ASSUME NEW m \in 0..(n - 1) PROVE g[m] = f[m]
      <3>1. m \in 0..n
        BY <2>1
      <3>2. f[m] = At(f, m)
        BY <2>2
      <3> QED
        BY <3>1, <3>2
    <2>4. ASSUME NEW m \in 0..n PROVE At(f, m) = At(g, m)
      <3>1. CASE m = 0
        BY <3>1
      <3>2. CASE m # 0
        <4>1. m - 1 \in 0..(n - 1)
          BY <2>1, <3>2
        <4>2. g[m - 1] = f[m - 1]
          BY <2>3, <4>1
        <4> HIDE DEF g
        <4> QED
          BY <3>2, <4>2
      <3> QED
        BY <3>1, <3>2
    <2>5. Upto(n, g)
      <3>1. g = [m \in 0..n |-> At(g, m)]
        BY <2>4
      <3> QED
        BY <3>1
    <2>6. \E h : Upto(n, h)
      BY <2>5
    <2> QED
      BY <2>1, <2>6
  <1>4. N \in G
    <2> HIDE DEF G, N
    <2> QED
      BY <1>1, <1>2, <1>3, UptoInduction
  <1>5. PICK f : Upto(N, f)
    BY <1>4
  <1>6. IsTaxed(s, base, f)
    BY <1>5 DEF IsTaxed
  <1> QED
    BY <1>6

\* applyTaxes: a line is never taxed by less than nothing.
LEMMA TaxesAreNumbers ==
    ASSUME NEW s \in Slot, NEW base \in Nat
    PROVE  Taxes(s, base) \in TaxOfLine
  <1> DEFINE tax == CHOOSE f : IsTaxed(s, base, f)
             N == Len(TaxRules(s))
             G == {n \in 0..N : tax[n] \in TaxOfLine}
  <1>1. N \in Nat
    <2>1. TaxProfile[s].rules \in Seq([mode : {"inclusive", "exclusive"}, value : Nat,
                                       kind : {"fixed", "percentage"}, compound : BOOLEAN,
                                       active : BOOLEAN])
      BY PricingAssumption
    <2>2. Len(<<>>) = 0
      OBVIOUS
    <2> QED
      BY <2>1, <2>2 DEF TaxRules
  <1>2. IsTaxed(s, base, tax)
    BY <1>1, TaxesExist
  <1>3. Taxes(s, base) = tax[N]
    BY DEF Taxes, IsTaxed, NoTax
  <1> HIDE DEF tax
  <1>4. 0 \in G
    <2>1. tax[0] = NoTax
      BY <1>1, <1>2 DEF IsTaxed
    <2> QED
      BY <1>1, <2>1 DEF NoTax, TaxOfLine
  <1>5. ASSUME NEW n \in 1..N, n - 1 \in G PROVE n \in G
    <2>1. n \in 0..N /\ n # 0
      BY <1>1
    <2>2. tax[n] = TaxedBy(TaxRules(s)[n], base, tax[n - 1])
      BY <1>2, <2>1 DEF IsTaxed
    <2>3. tax[n - 1] \in TaxOfLine
      BY <1>5
    <2> QED
      BY <2>1, <2>2, <2>3, RuleAddsTax
  <1>6. N \in G
    <2> HIDE DEF G, N
    <2> QED
      BY <1>1, <1>4, <1>5, UptoInduction
  <1> QED
    BY <1>3, <1>6

-----------------------------------------------------------------------------
(* Orders.                                                                 *)

RowOfOrder ==
    [status : {"absent", "active", "voided"}, quantity : Nat, price : Nat, options : Nat,
     option : Nat, total : Nat]
RowsAreSold(orderRows) ==
    /\ orderRows \in [Slot -> RowOfOrder]
    /\ \A s \in Lines(orderRows) : ValidLine(orderRows[s])
AdjustmentsAreSound(applied) ==
    /\ applied \subseteq AdjustmentOfOrder
    /\ \A a \in applied : a.type = "surcharge" => a.line = 0
    /\ IndicesAreSound(applied)
PricingInv ==
    /\ dish.price \in Nat /\ dish.option \in Nat
    /\ RowsAreSold(rows)
    /\ AdjustmentsAreSound(adjustments)

\* The row of a dish with options.
LEMMA SelectedRows ==
    ASSUME NEW row \in RowOfOrder, row.quantity > 0, NEW options \in Nat,
           dish.price \in Nat, dish.option \in Nat
    PROVE  /\ Selected(row, options) \in RowOfOrder /\ ValidLine(Selected(row, options))
           /\ Selected(row, options).status = row.status
  <1>1. /\ row.price \in Nat /\ row.quantity \in Nat
        /\ row.price * row.quantity \in Nat /\ dish.option * options \in Nat
    <2>1. row.price \in Nat /\ row.quantity \in Nat
      BY DEF RowOfOrder
    <2> QED
      BY <2>1, Products
  <1> DEFINE total == row.price * row.quantity + dish.option * options
             new == Selected(row, options)
  <1>2. total \in Nat
    BY <1>1
  <1>3. new = [row EXCEPT !.options = options, !.option = dish.option, !.total = total]
    BY DEF Selected
  <1>4. /\ new \in RowOfOrder /\ new.status = row.status /\ new.quantity = row.quantity
        /\ new.total = total /\ new.price = row.price /\ new.option = dish.option
        /\ new.options = options
    <2> HIDE DEF total, new
    <2> QED
      BY <1>2, <1>3 DEF RowOfOrder
  <1> HIDE DEF new
  <1>5. ValidLine(new)
    BY <1>4 DEF ValidLine
  <1> QED
    BY <1>4, <1>5 DEF new

\* One row changes.
LEMMA RowsStaySold ==
    ASSUME NEW old, RowsAreSold(old), NEW s \in Slot, NEW row \in RowOfOrder,
           row.status = "active" => ValidLine(row), NEW new, new = [old EXCEPT ![s] = row]
    PROVE  RowsAreSold(new)
  <1>1. old \in [Slot -> RowOfOrder]
    BY DEF RowsAreSold
  <1>2. new \in [Slot -> RowOfOrder] /\ new[s] = row /\ \A t \in Slot : t # s => new[t] = old[t]
    BY <1>1
  <1>3. ASSUME NEW t \in Lines(new) PROVE ValidLine(new[t])
    <2>1. t \in Slot /\ new[t].status = "active"
      BY <1>3 DEF Lines
    <2>2. CASE t = s
      BY <1>2, <2>1, <2>2
    <2>3. CASE t # s
      BY <1>2, <2>1, <2>3 DEF Lines, RowsAreSold
    <2> QED
      BY <2>2, <2>3
  <1> QED
    BY <1>2, <1>3 DEF RowsAreSold

\* A row that is added or that a command wants is typed.
LEMMA WantedAreTyped ==
    ASSUME NEW line \in Slot \cup {0}, NEW type \in {"discount", "surcharge"},
           type = "surcharge" => line = 0,
           NEW hasRight, NEW a \in Wanted(type, line, hasRight)
    PROVE  a \in AdjustmentOfOrder /\ a.type = type /\ a.line = line
  <1>1. CASE a \in Adjustment /\ a.type = type /\ a.line = line
    <2>1. /\ a \in [type : {"discount", "surcharge"}, line : Slot \cup {0}, index : 0..MaxIndex,
                   kind : {"fixed", "percentage"},
                   value : Value["fixed"] \cup Value["percentage"]]
          /\ Value["fixed"] \subseteq Nat /\ Value["percentage"] \subseteq Nat
      BY <1>1, PricingAssumption DEF Adjustment
    <2> QED
      BY <1>1, <2>1 DEF AdjustmentOfOrder
  <1>2. CASE ~(a \in Adjustment /\ a.type = type /\ a.line = line)
    <2>1. PICK policy \in Policy : /\ PolicyAllows(policy, type, hasRight)
                                   /\ a = [policy.adjustment EXCEPT !.line = line]
      <3> DEFINE Chosen(policy) == [policy.adjustment EXCEPT !.line = line]
                 Allowed == {p \in Policy : /\ PolicyAllows(p, type, hasRight)
                                            /\ p.adjustment.line = 0 <=> line = 0}
      <3>1. a \in {Chosen(policy) : policy \in Allowed}
        BY <1>2, Zenon DEF Wanted
      <3>2. PICK policy \in Allowed : a = Chosen(policy)
        <4> HIDE DEF Chosen, Allowed
        <4> QED
          BY <3>1
      <3>3. policy \in Policy /\ PolicyAllows(policy, type, hasRight)
        OBVIOUS
      <3>4. a = [policy.adjustment EXCEPT !.line = line]
        BY <3>2
      <3> HIDE DEF Chosen, Allowed
      <3> QED
        BY <3>3, <3>4, Zenon
    <2>2. policy.adjustment \in AdjustmentOfOrder /\ policy.adjustment.type = type
      BY <2>1, PricingAssumption DEF AdjustmentOfOrder, PolicyAllows
    <2> QED
      BY <2>1, <2>2 DEF AdjustmentOfOrder
  <1> QED
    BY <1>1, <1>2

\* An adjustment is added.
LEMMA AddedAdjustments ==
    ASSUME AdjustmentsAreSound(adjustments), NEW a \in AdjustmentOfOrder, a.index > 0,
           a.type = "surcharge" => a.line = 0, Add(a)
    PROVE  AdjustmentsAreSound(adjustments')
  <1>1. adjustments' = adjustments \cup {a} /\ \A b \in adjustments : b.index # a.index
    BY DEF Add, IndexIsFree
  <1> QED
    BY <1>1 DEF AdjustmentsAreSound, IndicesAreSound

\* PricingInv holds at first and is kept.
LEMMA PricingInvAtFirst == PricingInit => PricingInv
  <1> SUFFICES ASSUME PricingInit PROVE PricingInv
    OBVIOUS
  <1>1. dish.price \in Nat /\ dish.option \in Nat
    BY PricingAssumption DEF PricingInit
  <1>2. Absent \in RowOfOrder
    BY DEF Absent, RowOfOrder
  <1>3. Lines(rows) = {} /\ rows \in [Slot -> RowOfOrder]
    BY <1>2 DEF PricingInit, Lines, Absent
  <1>4. adjustments = {}
    BY DEF PricingInit
  <1> QED
    BY <1>1, <1>3, <1>4 DEF PricingInv, RowsAreSold, AdjustmentsAreSound, IndicesAreSound

\* What a command that changes lines does to them.
LEMMA LinesStaySold ==
    ASSUME PricingInv, NEW s \in Slot,
           AddLine(s) \/ ChangeQuantity(s) \/ ChangeOptions(s) \/ VoidLine(s)
    PROVE  RowsAreSold(rows')
  <1>1. /\ rows \in [Slot -> RowOfOrder] /\ rows[s] \in RowOfOrder /\ RowsAreSold(rows)
        /\ dish.price \in Nat /\ dish.option \in Nat
    BY DEF PricingInv, RowsAreSold
  <1>2. MaxQuantity \in Nat
    BY PricingAssumption
  <1>3. CASE AddLine(s)
    <2>1. PICK quantity \in 1..MaxQuantity, options \in 0..MaxQuantity :
             rows' = [rows EXCEPT ![s] =
                        Selected([Absent EXCEPT !.status = "active", !.quantity = quantity,
                                                !.price = dish.price], options)]
      BY <1>3 DEF AddLine
    <2> DEFINE row == [Absent EXCEPT !.status = "active", !.quantity = quantity,
                                     !.price = dish.price]
               new == Selected(row, options)
    <2>2. row \in RowOfOrder /\ row.quantity > 0 /\ options \in Nat
      <3>1. quantity \in Nat /\ quantity > 0 /\ options \in Nat
        BY <1>2
      <3>2. Absent \in RowOfOrder
        BY DEF Absent, RowOfOrder
      <3> QED
        BY <1>1, <3>1, <3>2 DEF RowOfOrder
    <2>3. rows' = [rows EXCEPT ![s] = new]
      BY <2>1
    <2>4. new \in RowOfOrder /\ ValidLine(new)
      <3> HIDE DEF row
      <3> QED
        BY <1>1, <2>2, SelectedRows
    <2> HIDE DEF new
    <2> QED
      BY <1>1, <2>3, <2>4, RowsStaySold
  <1>4. CASE ChangeQuantity(s)
    <2>1. PICK quantity \in 1..MaxQuantity :
             rows' = [rows EXCEPT ![s].quantity = quantity,
                        ![s].total = rows[s].price * quantity
                                        + rows[s].option * rows[s].options]
      BY <1>4 DEF ChangeQuantity
    <2> DEFINE total == rows[s].price * quantity + rows[s].option * rows[s].options
               new == [rows[s] EXCEPT !.quantity = quantity, !.total = total]
    <2>2. quantity \in Nat /\ quantity > 0
      BY <1>2
    <2>3. total \in Nat
      <3>1. rows[s].price \in Nat /\ rows[s].option \in Nat /\ rows[s].options \in Nat
        BY <1>1 DEF RowOfOrder
      <3>2. /\ rows[s].price * quantity \in Nat
            /\ rows[s].option * rows[s].options \in Nat
        BY <2>2, <3>1, Products
      <3> QED
        BY <3>2
    <2>4. rows' = [rows EXCEPT ![s] = new]
      <3> HIDE DEF total
      <3>1. rows' = [rows EXCEPT ![s].quantity = quantity, ![s].total = total]
        BY <2>1 DEF total
      <3> QED
        BY <1>1, <3>1
    <2>5. new \in RowOfOrder /\ ValidLine(new)
      <3> DEFINE old == rows[s]
      <3>1. total = old.price * quantity + old.option * old.options
        OBVIOUS
      <3>2. old \in RowOfOrder
        BY <1>1
      <3> HIDE DEF total, old
      <3>3. [old EXCEPT !.quantity = quantity, !.total = total] \in RowOfOrder
        BY <2>2, <2>3, <3>2 DEF RowOfOrder
      <3>4. ValidLine([old EXCEPT !.quantity = quantity, !.total = total])
        BY <2>2, <3>1, <3>2 DEF ValidLine, RowOfOrder
      <3> QED
        BY <3>3, <3>4 DEF old
    <2> HIDE DEF new
    <2> QED
      BY <1>1, <2>4, <2>5, RowsStaySold
  <1>5. CASE ChangeOptions(s)
    <2>1. PICK options \in 0..MaxQuantity :
             rows' = [rows EXCEPT ![s] = Selected(rows[s], options)]
      BY <1>5 DEF ChangeOptions
    <2>2. rows[s].quantity > 0 /\ options \in Nat
      <3>1. ValidLine(rows[s])
        BY <1>1, <1>5 DEF ChangeOptions, RowsAreSold, Lines
      <3> QED
        BY <1>2, <3>1 DEF ValidLine
    <2> DEFINE new == Selected(rows[s], options)
    <2>3. new \in RowOfOrder /\ ValidLine(new)
      <3> DEFINE old == rows[s]
      <3>1. old \in RowOfOrder /\ old.quantity > 0
        BY <1>1, <2>2
      <3> HIDE DEF old
      <3>2. Selected(old, options) \in RowOfOrder /\ ValidLine(Selected(old, options))
        BY <1>1, <2>2, <3>1, SelectedRows
      <3> QED
        BY <3>2 DEF old
    <2>4. rows' = [rows EXCEPT ![s] = new]
      BY <2>1
    <2> HIDE DEF new
    <2> QED
      BY <1>1, <2>3, <2>4, RowsStaySold
  <1>6. CASE VoidLine(s)
    <2> DEFINE new == [rows[s] EXCEPT !.status = "voided"]
    <2>1. rows' = [rows EXCEPT ![s] = new]
      BY <1>1, <1>6 DEF VoidLine
    <2>2. new \in RowOfOrder /\ new.status # "active"
      BY <1>1 DEF RowOfOrder
    <2> HIDE DEF new
    <2> QED
      BY <1>1, <2>1, <2>2, RowsStaySold
  <1> QED
    BY <1>3, <1>4, <1>5, <1>6

\* Every step keeps it.
LEMMA PricingInvIsKept == PricingInv /\ [PricingNext]_pricingVars => PricingInv'
  <1> SUFFICES ASSUME PricingInv, [PricingNext]_pricingVars PROVE PricingInv'
    OBVIOUS
  <1>1. ASSUME NEW s \in Slot,
               AddLine(s) \/ ChangeQuantity(s) \/ ChangeOptions(s) \/ VoidLine(s)
        PROVE  PricingInv'
    <2>1. UNCHANGED <<dish, adjustments>>
      BY <1>1 DEF AddLine, ChangeQuantity, ChangeOptions, VoidLine
    <2>2. RowsAreSold(rows')
      BY <1>1, LinesStaySold
    <2> QED
      BY <2>1, <2>2 DEF PricingInv
  <1>2. CASE AddDiscountRow
    <2>1. PICK s \in Slot \cup {0}, hasRight \in BOOLEAN :
             \E a \in Wanted("discount", s, hasRight) : a.index > 0 /\ Add(a)
      BY <1>2 DEF AddDiscountRow
    <2>2. PICK a \in Wanted("discount", s, hasRight) : a.index > 0 /\ Add(a)
      BY <2>1
    <2>3. a \in AdjustmentOfOrder /\ a.type = "discount"
      BY WantedAreTyped
    <2>4. AdjustmentsAreSound(adjustments')
      BY <2>2, <2>3, AddedAdjustments DEF PricingInv
    <2>5. UNCHANGED <<dish, rows>>
      BY <2>2 DEF Add
    <2> QED
      BY <2>4, <2>5 DEF PricingInv
  <1>3. CASE AddSurchargeRow
    <2>1. PICK hasRight \in BOOLEAN :
             \E a \in Wanted("surcharge", 0, hasRight) : a.index > 0 /\ Add(a)
      BY <1>3 DEF AddSurchargeRow
    <2>2. PICK a \in Wanted("surcharge", 0, hasRight) : a.index > 0 /\ Add(a)
      BY <2>1
    <2>3. a \in AdjustmentOfOrder /\ a.line = 0
      BY WantedAreTyped
    <2>4. AdjustmentsAreSound(adjustments')
      BY <2>2, <2>3, AddedAdjustments DEF PricingInv
    <2>5. UNCHANGED <<dish, rows>>
      BY <2>2 DEF Add
    <2> QED
      BY <2>4, <2>5 DEF PricingInv
  <1>4. CASE SyncMenu
    <2>1. /\ dish'.price \in Nat /\ dish'.option \in Nat
          /\ rows' = rows /\ adjustments' = adjustments
      BY <1>4, PricingAssumption DEF SyncMenu
    <2> QED
      BY <2>1 DEF PricingInv
  <1>5. CASE UNCHANGED pricingVars
    BY <1>5 DEF pricingVars, PricingInv
  <1> QED
    BY <1>1, <1>2, <1>3, <1>4, <1>5 DEF PricingNext

-----------------------------------------------------------------------------
(* The bill of an order.                                                   *)

\* The bill before it is taxed.
Adjusting(orderRows, applied) ==
    IF Lines(orderRows) = {} THEN Plain(orderRows)
    ELSE IF ~IndicesAreSound(applied) THEN Refused(Plain(orderRows))
    ELSE Adjusted(applied, Plain(orderRows))

\* The lines of an order.
LEMMA LinesAreSlots ==
    ASSUME NEW orderRows
    PROVE  /\ Lines(orderRows) \in SUBSET Slot /\ Lines(orderRows) \in SUBSET Int
           /\ 0 \notin Lines(orderRows) /\ IsFiniteSet(Lines(orderRows))
  <1>1. Lines(orderRows) \in SUBSET Slot
    BY DEF Lines
  <1>2. Slot \subseteq Nat \ {0} /\ IsFiniteSet(Slot)
    BY PricingAssumption
  <1>3. IsFiniteSet(Lines(orderRows))
    BY <1>1, <1>2, FS_Subset
  <1>4. 0 \notin Lines(orderRows) /\ Lines(orderRows) \in SUBSET Int
    <2>1. ASSUME NEW s \in Lines(orderRows) PROVE s \in Int /\ s # 0
      <3>1. s \in Slot
        BY <1>1
      <3>2. s \in Nat \ {0}
        BY <1>2, <3>1
      <3> QED
        BY <3>2
    <2> QED
      BY <2>1
  <1> QED
    BY <1>1, <1>3, <1>4

\* The bill to begin with.
LEMMA PlainBill ==
    ASSUME NEW orderRows, RowsAreSold(orderRows), NEW applied
    PROVE  /\ Plain(orderRows) \in BillOf(Lines(orderRows)) /\ Plain(orderRows).ok
           /\ Balanced(Plain(orderRows), applied)
           /\ \A s \in Lines(orderRows) : /\ Plain(orderRows).subtotal[s] = orderRows[s].total
                                          /\ Plain(orderRows).discount[s] = 0
                                          /\ Plain(orderRows).surcharge[s] = 0
           /\ Plain(orderRows).discountTotal = 0 /\ Plain(orderRows).surchargeTotal = 0
           /\ LinesAreCovered(Plain(orderRows))
  <1> DEFINE S == Lines(orderRows)
             nothing == [s \in S |-> 0]
             totals == [s \in S |-> orderRows[s].total]
             bill == Plain(orderRows)
  <1>1. orderRows \in [Slot -> RowOfOrder] /\ S \in SUBSET Slot /\ IsFiniteSet(S)
    BY LinesAreSlots DEF RowsAreSold
  <1>2. nothing \in [S -> Nat] /\ totals \in [S -> Nat]
    <2>1. \A s \in S : orderRows[s].total \in Nat
      BY <1>1 DEF RowOfOrder
    <2> QED
      BY <2>1
  <1>3. \A s \in S : ValidLine(orderRows[s])
    BY DEF RowsAreSold
  <1>4. bill = [ok |-> TRUE, subtotal |-> totals, discount |-> nothing, surcharge |-> nothing,
                discountTotal |-> 0, surchargeTotal |-> 0]
    <2>1. bill = [ok |-> \A s \in S : ValidLine(orderRows[s]), subtotal |-> totals,
                  discount |-> nothing, surcharge |-> nothing,
                  discountTotal |-> 0, surchargeTotal |-> 0]
      BY DEF Plain
    <2>2. (\A s \in S : ValidLine(orderRows[s])) = TRUE
      BY <1>3
    <2> HIDE DEF S, nothing, totals, bill
    <2> QED
      BY <2>1, <2>2
  <1>5. SumFunction(nothing) = 0
    <2>1. DOMAIN nothing = S /\ \A s \in S : nothing[s] = 0
      OBVIOUS
    <2> HIDE DEF nothing
    <2> QED
      BY <1>1, <2>1, SumOfZeros DEF SumFunction
  <1>6. \A s \in S : totals[s] = orderRows[s].total /\ nothing[s] = 0
    OBVIOUS
  <1> HIDE DEF S, nothing, totals, bill
  <1>7. bill \in BillOf(S) /\ bill.ok
    BY <1>2, <1>4 DEF BillOf
  <1>8. Balanced(bill, applied)
    BY <1>4, <1>5 DEF Balanced
  <1>9. LinesAreCovered(bill)
    <2>1. \A s \in S : bill.discount[s] = 0 /\ bill.subtotal[s] \in Nat
      BY <1>2, <1>4, <1>6
    <2>2. \A s \in S : bill.discount[s] <= bill.subtotal[s]
      BY <2>1
    <2> QED
      BY <1>7, <2>2, AmountsOfLines
  <1> QED
    BY <1>4, <1>6, <1>7, <1>8, <1>9 DEF S, bill

\* What is applied at an index.
LEMMA AppliedOnce ==
    ASSUME NEW applied, AdjustmentsAreSound(applied), NEW n
    PROVE  \/ /\ \A a \in applied : a.index # n
              /\ \A bill : AppliedAt(n, applied, bill) = bill
           \/ \E a \in applied : /\ a.index = n
                                 /\ \A bill : AppliedAt(n, applied, bill) = Apply(a, bill)
  <1>1. CASE \A a \in applied : a.index # n
    BY <1>1 DEF AppliedAt
  <1>2. CASE \E a \in applied : a.index = n
    <2> DEFINE a == CHOOSE b \in applied : b.index = n
    <2>1. a \in applied /\ a.index = n
      BY <1>2
    <2>2. \A bill : AppliedAt(n, applied, bill) = Apply(a, bill)
      BY <1>2 DEF AppliedAt
    <2> HIDE DEF a
    <2> QED
      BY <2>1, <2>2
  <1> QED
    BY <1>1, <1>2

\* The bills after each of the indices are typed, balanced and about the same lines; one
\* that is refused stays so.
LEMMA BillsAreBalanced ==
    ASSUME NEW S \in SUBSET Int, IsFiniteSet(S), NEW plain \in BillOf(S),
           NEW applied, AdjustmentsAreSound(applied), Balanced(plain, applied),
           NEW after, after = After(applied, plain)
    PROVE  /\ \A n \in 0..MaxIndex : /\ after[n] \in BillOf(S) /\ Balanced(after[n], applied)
                                     /\ after[n].subtotal = plain.subtotal
           /\ \A n \in 1..MaxIndex : after[n].ok => after[n - 1].ok
  <1>1. MaxIndex \in Nat
    BY PricingAssumption
  <1>2. /\ after[0] = plain
        /\ \A n \in 1..MaxIndex : after[n] = AppliedAt(n, applied, after[n - 1])
    BY BillsFollow
  <1> DEFINE Good(n) == /\ after[n] \in BillOf(S) /\ Balanced(after[n], applied)
                        /\ after[n].subtotal = plain.subtotal
  <1>3. ASSUME NEW n \in 1..MaxIndex, Good(n - 1)
        PROVE  Good(n) /\ (after[n].ok => after[n - 1].ok)
    <2>1. CASE after[n] = after[n - 1]
      BY <1>3, <2>1
    <2>2. CASE \E a \in applied : after[n] = Apply(a, after[n - 1])
      <3>1. PICK a \in applied : after[n] = Apply(a, after[n - 1])
        BY <2>2
      <3>2. a \in AdjustmentOfOrder
        BY DEF AdjustmentsAreSound
      <3> QED
        BY <1>3, <3>1, <3>2, ApplyKeepsBalance
    <2> QED
      BY <1>2, <2>1, <2>2, AppliedOnce
  <1> DEFINE G == {n \in 0..MaxIndex : \A m \in 0..n : Good(m)}
  <1> HIDE DEF Good
  <1>4. 0 \in G
    <2>1. Good(0)
      BY <1>2 DEF Good
    <2>2. \A m \in 0..0 : m = 0
      OBVIOUS
    <2> QED
      BY <1>1, <2>1, <2>2
  <1>5. ASSUME NEW n \in 1..MaxIndex, n - 1 \in G PROVE n \in G
    <2>1. n \in 0..MaxIndex /\ n - 1 \in 0..(n - 1) /\ \A m \in 0..n : m = n \/ m \in 0..(n - 1)
      BY <1>1
    <2>2. Good(n)
      BY <1>3, <1>5, <2>1
    <2> QED
      BY <1>5, <2>1, <2>2
  <1>6. MaxIndex \in G
    <2> HIDE DEF G
    <2> QED
      BY <1>1, <1>4, <1>5, UptoInduction
  <1>7. \A n \in 0..MaxIndex : Good(n)
    BY <1>6
  <1>8. \A n \in 1..MaxIndex : n - 1 \in 0..MaxIndex
    BY <1>1
  <1> QED
    BY <1>3, <1>7, <1>8 DEF Good

\* So is the bill before it is taxed.
LEMMA AdjustingIsBalanced ==
    ASSUME NEW orderRows, RowsAreSold(orderRows), NEW applied, AdjustmentsAreSound(applied)
    PROVE  /\ Adjusting(orderRows, applied) \in BillOf(Lines(orderRows))
           /\ Balanced(Adjusting(orderRows, applied), applied)
           /\ Adjusting(orderRows, applied).subtotal = Plain(orderRows).subtotal
  <1> DEFINE S == Lines(orderRows)
             plain == Plain(orderRows)
             after == After(applied, plain)
  <1>1. plain \in BillOf(S) /\ Balanced(plain, applied)
    BY PlainBill
  <1>2. S \in SUBSET Int /\ IsFiniteSet(S)
    BY LinesAreSlots
  <1>3. CASE S = {}
    BY <1>1, <1>3 DEF Adjusting
  <1>4. CASE S # {}
    <2>1. Adjusting(orderRows, applied) = Adjusted(applied, plain)
      BY <1>4 DEF Adjusting, AdjustmentsAreSound
    <2>2. Adjusted(applied, plain) = after[MaxIndex]
      BY BillsFollow
    <2>3. MaxIndex \in 0..MaxIndex
      BY PricingAssumption
    <2>4. /\ after[MaxIndex] \in BillOf(S) /\ Balanced(after[MaxIndex], applied)
          /\ after[MaxIndex].subtotal = plain.subtotal
      <3>1. after = After(applied, plain)
        OBVIOUS
      <3> HIDE DEF S, plain, after
      <3> QED
        BY <1>1, <1>2, <2>3, <3>1, BillsAreBalanced
    <2> QED
      BY <2>1, <2>2, <2>4
  <1> QED
    BY <1>3, <1>4

\* A bill is taxed.
LEMMA TaxedBill ==
    ASSUME NEW S \in SUBSET Slot, IsFiniteSet(S), NEW plain \in BillOf(S),
           LinesAreCovered(plain), NEW bill, bill = Priced(plain),
           NEW amounts, amounts = CurrentLineAmounts(plain)
    PROVE  /\ bill.ok <=> plain.ok
           /\ bill.subtotal = plain.subtotal /\ bill.discount = plain.discount
           /\ bill.surcharge = plain.surcharge
           /\ bill.discountTotal = plain.discountTotal
           /\ bill.surchargeTotal = plain.surchargeTotal
           /\ CurrentLineAmounts(bill) = amounts
           /\ DOMAIN bill.line = S
           /\ \A s \in S : 0 <= amounts[s] /\ amounts[s] <= bill.line[s]
           /\ bill.surchargeTotal = SumFunction(bill.surcharge)
              /\ bill.discountTotal = SumFunction(bill.discount) =>
                    bill.grand = SumFunction(bill.line)
  <1> DEFINE tax == Tabled([s \in DOMAIN amounts |-> Taxes(s, amounts[s])])
             added == [s \in DOMAIN amounts |-> tax[s].added]
             line == Plus(amounts, added)
             grand == SumFunction(plain.subtotal) - plain.discountTotal
                         + plain.surchargeTotal + SumFunction(added)
  <1>1. amounts \in [S -> Nat] /\ DOMAIN amounts = S
    BY AmountsOfLines
  <1>2. added \in [S -> Nat]
    <2>1. tax = [s \in S |-> Taxes(s, amounts[s])]
      BY <1>1, TabledIs
    <2>2. ASSUME NEW s \in S PROVE tax[s].added \in Nat
      <3>1. Taxes(s, amounts[s]) \in TaxOfLine
        BY <1>1, TaxesAreNumbers
      <3> HIDE DEF tax
      <3> QED
        BY <2>1, <3>1 DEF TaxOfLine
    <2> HIDE DEF tax
    <2> QED
      BY <1>1, <2>2
  <1>3. bill = [ok |-> plain.ok /\ LinesAreCovered(plain), subtotal |-> plain.subtotal,
                discount |-> plain.discount, surcharge |-> plain.surcharge,
                discountTotal |-> plain.discountTotal,
                surchargeTotal |-> plain.surchargeTotal,
                tax |-> tax, line |-> line, grand |-> grand]
    BY DEF Priced
  <1> HIDE DEF tax, added, grand, line
  <1>4. /\ bill.subtotal = plain.subtotal /\ bill.discount = plain.discount
        /\ bill.surcharge = plain.surcharge /\ bill.discountTotal = plain.discountTotal
        /\ bill.surchargeTotal = plain.surchargeTotal
        /\ bill.line = line /\ bill.grand = grand
    BY <1>3
  <1>5. bill.ok <=> plain.ok
    <2>1. bill.ok = (plain.ok /\ LinesAreCovered(plain))
      BY <1>3
    <2>2. (plain.ok /\ LinesAreCovered(plain)) = plain.ok
      <3>1. plain.ok \in BOOLEAN
        BY DEF BillOf
      <3> QED
        BY <3>1
    <2> QED
      BY <2>1, <2>2
  <1>6. CurrentLineAmounts(bill) = amounts
    BY <1>4 DEF CurrentLineAmounts
  <1>7. /\ line \in [S -> Nat] /\ \A s \in S : line[s] = amounts[s] + added[s]
        /\ SumFunction(amounts) \in Nat /\ SumFunction(added) \in Nat
        /\ SumFunction(line) = SumFunction(amounts) + SumFunction(added)
    BY <1>1, <1>2, PlusAdds DEF line
  <1>8. ASSUME NEW s \in S PROVE 0 <= amounts[s] /\ amounts[s] <= line[s]
    <2>1. amounts[s] \in Nat /\ added[s] \in Nat /\ line[s] = amounts[s] + added[s]
      BY <1>1, <1>2, <1>7
    <2> QED
      BY <2>1
  <1>9. ASSUME bill.surchargeTotal = SumFunction(bill.surcharge),
               bill.discountTotal = SumFunction(bill.discount)
        PROVE  grand = SumFunction(line)
    <2>1. /\ SumFunction(amounts) = SumFunction(plain.subtotal) - SumFunction(plain.discount)
                                       + SumFunction(plain.surcharge)
          /\ SumFunction(plain.subtotal) \in Nat /\ SumFunction(plain.discount) \in Nat
          /\ SumFunction(plain.surcharge) \in Nat
      BY WholeOfLines
    <2>2. grand = SumFunction(plain.subtotal) - SumFunction(plain.discount)
                     + SumFunction(plain.surcharge) + SumFunction(added)
      BY <1>4, <1>9 DEF grand
    <2> QED
      BY <1>7, <2>1, <2>2
  <1> QED
    BY <1>4, <1>5, <1>6, <1>7, <1>8, <1>9

\* What an adjustment of the order is shared by, where it is the only one.
LEMMA OneIsShared ==
    ASSUME PricingInv, NEW a, adjustments = {a}, a.line = 0, Lines(rows) # {},
           NEW bill, bill = Adjusting(rows, adjustments), bill.ok
    PROVE  bill = Apply(a, Plain(rows))
  <1> DEFINE plain == Plain(rows)
             after == After(adjustments, plain)
             i == a.index
  <1>1. a \in AdjustmentOfOrder /\ i > 0
    BY DEF PricingInv, AdjustmentsAreSound, IndicesAreSound
  <1>2. MaxIndex \in Nat /\ i \in 1..MaxIndex /\ MaxIndex \in 0..MaxIndex
    BY <1>1, PricingAssumption DEF AdjustmentOfOrder
  <1>3. /\ after[0] = plain
        /\ \A n \in 1..MaxIndex : after[n] = AppliedAt(n, adjustments, after[n - 1])
        /\ Adjusted(adjustments, plain) = after[MaxIndex]
    BY BillsFollow
  <1>4. bill = after[MaxIndex]
    BY <1>3 DEF Adjusting, PricingInv, AdjustmentsAreSound
  <1> HIDE DEF after, plain, i
  <1>5. ASSUME NEW n \in 1..MaxIndex
        PROVE  after[n] = IF n = i THEN Apply(a, after[n - 1]) ELSE after[n - 1]
    <2>1. CASE n = i
      <3>1. AppliedAt(n, adjustments, after[n - 1]) = Apply(a, after[n - 1])
        BY <2>1 DEF AppliedAt, i
      <3> QED
        BY <1>3, <2>1, <3>1
    <2>2. CASE n # i
      <3>1. AppliedAt(n, adjustments, after[n - 1]) = after[n - 1]
        BY <2>2 DEF AppliedAt, i
      <3> QED
        BY <1>3, <2>2, <3>1
    <2> QED
      BY <2>1, <2>2
  <1> DEFINE G == {n \in 0..MaxIndex :
                     after[n] = IF n < i THEN plain ELSE Apply(a, plain)}
  <1>6. 0 \in G
    BY <1>2, <1>3
  <1>7. ASSUME NEW n \in 1..MaxIndex, n - 1 \in G PROVE n \in G
    <2>1. /\ n \in 0..MaxIndex /\ n \in Nat /\ i \in Nat
          /\ after[n - 1] = IF n - 1 < i THEN plain ELSE Apply(a, plain)
      BY <1>2, <1>7
    <2>2. CASE n = i
      BY <1>5, <2>1, <2>2
    <2>3. CASE n < i
      BY <1>5, <2>1, <2>3
    <2>4. CASE i < n
      BY <1>5, <2>1, <2>4
    <2> QED
      BY <2>1, <2>2, <2>3, <2>4
  <1>8. MaxIndex \in G
    <2> HIDE DEF G
    <2> QED
      BY <1>2, <1>6, <1>7, UptoInduction
  <1> QED
    BY <1>2, <1>4, <1>8 DEF plain

\* Where lines have nothing taken off and nothing added, they amount to what they cost.
LEMMA PlainAmounts ==
    ASSUME NEW orderRows, RowsAreSold(orderRows)
    PROVE  CurrentLineAmounts(Plain(orderRows)) = Plain(orderRows).subtotal
  <1> DEFINE S == Lines(orderRows)
             plain == Plain(orderRows)
             amounts == CurrentLineAmounts(plain)
  <1>1. /\ plain \in BillOf(S) /\ LinesAreCovered(plain)
        /\ \A s \in S : plain.discount[s] = 0 /\ plain.surcharge[s] = 0
    BY PlainBill
  <1> HIDE DEF plain
  <1>2. plain.subtotal \in [S -> Nat]
    BY <1>1 DEF BillOf
  <1>3. /\ amounts \in [S -> Nat]
        /\ \A s \in S : amounts[s] = plain.subtotal[s] - plain.discount[s] + plain.surcharge[s]
    BY <1>1, AmountsOfLines
  <1> HIDE DEF amounts, S
  <1>4. \A s \in S : amounts[s] = plain.subtotal[s]
    <2>1. ASSUME NEW s \in S PROVE amounts[s] = plain.subtotal[s]
      <3>1. plain.subtotal[s] \in Nat
        BY <1>2
      <3> QED
        BY <1>1, <1>3, <3>1
    <2> QED
      BY <2>1
  <1> QED
    BY <1>2, <1>3, <1>4 DEF amounts, plain

\* One adjustment of the order is shared by what the lines cost.
LEMMA OneIsFair ==
    ASSUME PricingInv, NEW a, adjustments = {a}, a.line = 0, Lines(rows) # {},
           NEW bill, bill = Adjusting(rows, adjustments), bill.ok,
           NEW whole, whole = SumFunction(bill.subtotal), whole # 0, NEW s \in Lines(rows)
    PROVE  (bill.discount[s] + bill.surcharge[s]) * whole
              - (bill.discountTotal + bill.surchargeTotal) * bill.subtotal[s]
                 \in (1 - whole)..(whole - 1)
  <1> DEFINE S == Lines(rows)
             plain == Plain(rows)
             out == Allocated(a, plain)
             amount == AmountOfOrder(a, plain)
  <1>1. bill = Apply(a, plain)
    BY OneIsShared
  <1>2. a \in AdjustmentOfOrder /\ RowsAreSold(rows) /\ AdjustmentsAreSound(adjustments)
    BY DEF PricingInv, AdjustmentsAreSound
  <1>3. /\ plain \in BillOf(S) /\ plain.ok /\ LinesAreCovered(plain)
        /\ plain.discount[s] = 0 /\ plain.surcharge[s] = 0
        /\ plain.discountTotal = 0 /\ plain.surchargeTotal = 0
    BY <1>2, PlainBill
  <1>4. S \in SUBSET Int /\ IsFiniteSet(S)
    BY LinesAreSlots
  <1>5. CurrentLineAmounts(plain) = plain.subtotal
    BY <1>2, PlainAmounts
  <1>6. bill.subtotal = plain.subtotal
    BY <1>2, AdjustingIsBalanced
  <1>7. WholeBill(plain) = whole
    BY <1>5, <1>6 DEF WholeBill
  <1>8. a.type = "surcharge" \/ a.type = "discount"
    BY <1>2 DEF AdjustmentOfOrder
  <1> HIDE DEF plain, S, out, amount
  <1>9. /\ plain.discount \in [S -> Nat] /\ plain.surcharge \in [S -> Nat]
        /\ s \in S
    BY <1>3 DEF BillOf, S
  <1>10. /\ out \in [S -> Nat] /\ amount \in Nat
         /\ out[s] * whole - amount * plain.subtotal[s] \in (1 - whole)..(whole - 1)
         /\ bill.discount[s] + bill.surcharge[s] = out[s]
         /\ bill.discountTotal + bill.surchargeTotal = amount
    <2>1. CASE a.type = "surcharge"
      <3>1. /\ bill = [plain EXCEPT !.surcharge = Plus(@, out), !.surchargeTotal = @ + amount]
            /\ out \in [S -> Nat] /\ amount \in Nat
            /\ \A t \in S : out[t] * whole - amount * plain.subtotal[t]
                                \in (1 - whole)..(whole - 1)
        BY <1>1, <1>2, <1>3, <1>4, <1>5, <1>7, <2>1, SurchargeIsApplied DEF out, amount
      <3>2. /\ bill.surcharge = Plus(plain.surcharge, out) /\ bill.discount = plain.discount
            /\ bill.surchargeTotal = plain.surchargeTotal + amount
            /\ bill.discountTotal = plain.discountTotal
        BY <1>3, <3>1 DEF BillOf
      <3>3. bill.surcharge[s] = plain.surcharge[s] + out[s]
        <4>1. \A t \in S : Plus(plain.surcharge, out)[t] = plain.surcharge[t] + out[t]
          BY <1>4, <1>9, <3>1, PlusAdds
        <4> QED
          BY <1>9, <3>2, <4>1
      <3>4. out[s] \in Nat
        BY <1>9, <3>1
      <3>5. out[s] * whole - amount * plain.subtotal[s] \in (1 - whole)..(whole - 1)
        BY <1>9, <3>1
      <3>6. bill.discount[s] + bill.surcharge[s] = out[s]
        BY <1>3, <3>2, <3>3, <3>4
      <3>7. bill.discountTotal + bill.surchargeTotal = amount
        BY <1>3, <3>1, <3>2
      <3> QED
        BY <3>1, <3>5, <3>6, <3>7
    <2>2. CASE a.type = "discount"
      <3>0. /\ WholeBill(plain) = whole /\ CurrentLineAmounts(plain) = plain.subtotal
            /\ AmountOfOrder(a, plain) = amount /\ Allocated(a, plain) = out
            /\ Apply(a, plain) = bill
        BY <1>1, <1>5, <1>7 DEF out, amount
      <3>1. /\ Apply(a, plain) =
                  IF AmountOfOrder(a, plain) > WholeBill(plain) THEN Refused(plain)
                  ELSE [plain EXCEPT !.discount = Plus(@, Allocated(a, plain)),
                                     !.discountTotal = @ + AmountOfOrder(a, plain)]
            /\ Allocated(a, plain) \in [S -> Nat] /\ AmountOfOrder(a, plain) \in Nat
            /\ WholeBill(plain) # 0 =>
                  \A t \in S : Allocated(a, plain)[t] * WholeBill(plain)
                                  - AmountOfOrder(a, plain) * CurrentLineAmounts(plain)[t]
                                     \in (1 - WholeBill(plain))..(WholeBill(plain) - 1)
        BY <1>2, <1>3, <1>4, <2>2, OrderDiscountIsApplied
      <3>2. /\ bill = IF amount > whole THEN Refused(plain)
                      ELSE [plain EXCEPT !.discount = Plus(@, out),
                                         !.discountTotal = @ + amount]
            /\ out \in [S -> Nat] /\ amount \in Nat
            /\ \A t \in S : out[t] * whole - amount * plain.subtotal[t]
                                \in (1 - whole)..(whole - 1)
        BY <3>0, <3>1
      <3>3. ~(amount > whole)
        BY <1>3, <3>2 DEF Refused, BillOf
      <3>4. /\ bill.discount = Plus(plain.discount, out) /\ bill.surcharge = plain.surcharge
            /\ bill.discountTotal = plain.discountTotal + amount
            /\ bill.surchargeTotal = plain.surchargeTotal
        BY <1>3, <3>2, <3>3 DEF BillOf
      <3>5. bill.discount[s] = plain.discount[s] + out[s]
        <4>1. \A t \in S : Plus(plain.discount, out)[t] = plain.discount[t] + out[t]
          BY <1>4, <1>9, <3>2, PlusAdds
        <4> QED
          BY <1>9, <3>4, <4>1
      <3>6. out[s] \in Nat
        BY <1>9, <3>2
      <3>7. out[s] * whole - amount * plain.subtotal[s] \in (1 - whole)..(whole - 1)
        BY <1>9, <3>2
      <3>8. bill.discount[s] + bill.surcharge[s] = out[s]
        BY <1>3, <3>4, <3>5, <3>6
      <3>9. bill.discountTotal + bill.surchargeTotal = amount
        BY <1>3, <3>2, <3>4
      <3> QED
        BY <3>2, <3>7, <3>8, <3>9
    <2> QED
      BY <1>8, <2>1, <2>2
  <1> QED
    BY <1>6, <1>10

\* The bill of an order adds up.
LEMMA BillIsAddedUp == PricingInv => BillAddsUp
  <1> SUFFICES ASSUME PricingInv, Bill.ok PROVE AddsUp(Bill, CurrentLineAmounts(Bill))
    BY DEF BillAddsUp, BillIsSound
  <1> DEFINE S == Lines(rows)
             plain == Adjusting(rows, adjustments)
             bill == Bill
             amounts == CurrentLineAmounts(plain)
  <1>1. RowsAreSold(rows) /\ AdjustmentsAreSound(adjustments)
    BY DEF PricingInv
  <1>2. plain \in BillOf(S) /\ Balanced(plain, adjustments)
    BY <1>1, AdjustingIsBalanced
  <1>3. S \in SUBSET Slot /\ IsFiniteSet(S)
    BY LinesAreSlots
  <1>4. bill = Priced(plain)
    BY DEF Bill, Calculate, Adjusting
  <1>5. plain.ok /\ LinesAreCovered(plain)
    <2>1. bill.ok = (plain.ok /\ LinesAreCovered(plain))
      BY <1>4 DEF Priced
    <2> QED
      BY <2>1
  <1>6. /\ bill.subtotal = plain.subtotal /\ bill.discount = plain.discount
        /\ bill.surcharge = plain.surcharge
        /\ bill.discountTotal = plain.discountTotal
        /\ bill.surchargeTotal = plain.surchargeTotal
        /\ CurrentLineAmounts(bill) = amounts
        /\ DOMAIN bill.line = S
        /\ \A s \in S : 0 <= amounts[s] /\ amounts[s] <= bill.line[s]
        /\ bill.surchargeTotal = SumFunction(bill.surcharge)
           /\ bill.discountTotal = SumFunction(bill.discount) =>
                 bill.grand = SumFunction(bill.line)
    BY <1>2, <1>3, <1>4, <1>5, TaxedBill
  <1> HIDE DEF S, plain, bill, amounts
  <1>7. bill.discountTotal = SumFunction(bill.discount)
    BY <1>2, <1>6 DEF Balanced
  <1>8. SharesAreFair(bill)
    <2> SUFFICES ASSUME NEW a \in adjustments, adjustments = {a}, a.line = 0,
                        NEW s \in DOMAIN bill.subtotal, SumFunction(bill.subtotal) # 0
                 PROVE  (bill.discount[s] + bill.surcharge[s]) * SumFunction(bill.subtotal)
                           - (bill.discountTotal + bill.surchargeTotal) * bill.subtotal[s]
                              \in (1 - SumFunction(bill.subtotal))..(SumFunction(bill.subtotal) - 1)
      BY DEF SharesAreFair
    <2>1. s \in Lines(rows)
      BY <1>2, <1>6 DEF BillOf, S
    <2>2. (plain.discount[s] + plain.surcharge[s]) * SumFunction(plain.subtotal)
             - (plain.discountTotal + plain.surchargeTotal) * plain.subtotal[s]
                \in (1 - SumFunction(plain.subtotal))..(SumFunction(plain.subtotal) - 1)
      <3>1. Lines(rows) # {} /\ SumFunction(plain.subtotal) # 0
        BY <1>6, <2>1
      <3> QED
        BY <1>5, <2>1, <3>1, OneIsFair DEF plain
    <2> QED
      BY <1>6, <2>2
  <1>9. ASSUME ~SurchargeOnNothing(bill) PROVE bill.surchargeTotal = SumFunction(bill.surcharge)
    <2>1. SUFFICES ASSUME \E a \in adjustments : IsFixedSurcharge(a),
                          SumFunction(plain.subtotal) <= SumFunction(plain.discount)
                   PROVE  SurchargeOnNothing(bill)
      BY <1>2, <1>6, <1>9 DEF Balanced
    <2>2. SumFunction(plain.discount) <= SumFunction(plain.subtotal)
      <3>1. /\ plain.discount \in [S -> Nat] /\ plain.subtotal \in [S -> Nat]
            /\ \A s \in S : plain.discount[s] <= plain.subtotal[s]
        BY <1>2, <1>5, AmountsOfLines DEF BillOf
      <3> DEFINE d == plain.discount
                 t == plain.subtotal
      <3>2. /\ DOMAIN d = S /\ DOMAIN t = S
            /\ \A s \in S : d[s] \in Int /\ t[s] \in Int /\ d[s] <= t[s]
        BY <3>1
      <3> HIDE DEF d, t
      <3>3. SumFunctionOnSet(d, S) <= SumFunctionOnSet(t, S)
        BY <1>3, <3>2, SumIsMonotone
      <3>4. SumFunction(d) <= SumFunction(t)
        BY <3>2, <3>3 DEF SumFunction
      <3> QED
        BY <3>4 DEF d, t
    <2>3. SumFunction(plain.discount) \in Nat /\ SumFunction(plain.subtotal) \in Nat
      BY <1>2, <1>3, <1>5, WholeOfLines
    <2> QED
      BY <1>6, <1>7, <2>1, <2>2, <2>3 DEF SurchargeOnNothing, IsFixedSurcharge
  <1>10. AddsUp(bill, amounts)
    <2>1. \A s \in DOMAIN bill.line : 0 <= amounts[s] /\ amounts[s] <= bill.line[s]
      BY <1>6
    <2>2. ~SurchargeOnNothing(bill) => /\ bill.surchargeTotal = SumFunction(bill.surcharge)
                                       /\ bill.grand = SumFunction(bill.line)
      BY <1>6, <1>7, <1>9
    <2> QED
      BY <1>7, <1>8, <2>1, <2>2 DEF AddsUp
  <1> QED
    BY <1>6, <1>10 DEF bill

-----------------------------------------------------------------------------
(* Discounts on an order that grows.                                       *)

\* A discount that is no more than all there is leaves no less of a greater amount.
LEMMA AmountsLeaveRoom ==
    ASSUME NEW a \in AdjustmentOfOrder, ~IsMoreThanAll(a), NEW x \in Nat, NEW y \in Nat
    PROVE  /\ a.kind = "percentage" => AmountOf(a, y) <= y
           /\ x <= y /\ AmountOf(a, x) <= x =>
                 AmountOf(a, y) <= y /\ x - AmountOf(a, x) <= y - AmountOf(a, y)
  <1>1. a.value \in Nat /\ (a.kind = "fixed" \/ a.kind = "percentage")
    BY DEF AdjustmentOfOrder
  <1>2. CASE a.kind = "fixed"
    <2>1. AmountOf(a, x) = a.value /\ AmountOf(a, y) = a.value /\ a.kind # "percentage"
      BY <1>2 DEF AmountOf
    <2> QED
      BY <1>1, <2>1
  <1>3. CASE a.kind = "percentage"
    <2> DEFINE p == RoundRatioHalfUp(x, a.value, BasisPointDenominator)
               q == RoundRatioHalfUp(y, a.value, BasisPointDenominator)
    <2>1. AmountOf(a, x) = p /\ AmountOf(a, y) = q
      BY <1>3 DEF AmountOf
    <2>2. a.value <= BasisPointDenominator
      BY <1>1, <1>3 DEF IsMoreThanAll, BasisPointDenominator
    <2>3. q <= y
      BY <1>1, <2>2, PercentagesLeaveMore
    <2>4. x <= y => x - p <= y - q
      BY <1>1, <2>2, PercentagesLeaveMore
    <2> HIDE DEF p, q
    <2> QED
      BY <2>1, <2>3, <2>4
  <1> QED
    BY <1>1, <1>2, <1>3

\* A discount on a line that amounts to no less.
LEMMA LineDiscountTakes ==
    ASSUME NEW S \in SUBSET Int, IsFiniteSet(S), NEW bill \in BillOf(S), bill.ok,
           LinesAreCovered(bill), NEW a \in AdjustmentOfOrder, a.type = "discount",
           a.line # 0, a.line \in S,
           AmountOfLine(a, bill) <= CurrentLineAmounts(bill)[a.line]
    PROVE  /\ Apply(a, bill).ok /\ Apply(a, bill).surcharge = bill.surcharge
           /\ \A s \in S : CurrentLineAmounts(Apply(a, bill))[s] =
                  CurrentLineAmounts(bill)[s] - IF s = a.line THEN AmountOfLine(a, bill) ELSE 0
           /\ (\A s \in S : bill.surcharge[s] = 0) => LinesAreCovered(Apply(a, bill))
  <1> DEFINE amounts == CurrentLineAmounts(bill)
             off == AmountOfLine(a, bill)
             more == WithDiscount(a, bill)
             next == Apply(a, bill)
  <1>0. more = [bill.discount EXCEPT ![a.line] = @ + off]
    BY DEF WithDiscount
  <1>1. /\ next = IF a.line \notin S \/ off > amounts[a.line] THEN Refused(bill)
                  ELSE [bill EXCEPT !.discount = more, !.discountTotal = @ + off]
        /\ next \in BillOf(S)
        /\ off \in Nat /\ amounts[a.line] \in Nat
    BY LineDiscountIsApplied
  <1>2. /\ \A s \in S : amounts[s] = bill.subtotal[s] - bill.discount[s] + bill.surcharge[s]
        /\ LinesAreCovered(bill) <=> \A s \in S : bill.discount[s] <= bill.subtotal[s]
    BY AmountsOfLines
  <1> HIDE DEF amounts, off, more, next
  <1>3. /\ \A s \in S : CurrentLineAmounts(next)[s] =
                            next.subtotal[s] - next.discount[s] + next.surcharge[s]
        /\ LinesAreCovered(next) <=> \A s \in S : next.discount[s] <= next.subtotal[s]
    BY <1>1, AmountsOfLines
  <1>4. /\ bill.subtotal \in [S -> Nat] /\ bill.discount \in [S -> Nat]
        /\ bill.surcharge \in [S -> Nat]
    BY DEF BillOf
  <1>5. off <= amounts[a.line]
    BY DEF off, amounts
  <1>6. next = [bill EXCEPT !.discount = more, !.discountTotal = @ + off]
    BY <1>1, <1>5
  <1>7. /\ next.ok = bill.ok /\ next.subtotal = bill.subtotal
        /\ next.surcharge = bill.surcharge /\ next.discount = more
    BY <1>6 DEF BillOf
  <1>8. \A s \in S : more[s] = bill.discount[s] + IF s = a.line THEN off ELSE 0
    BY <1>0, <1>1, <1>4
  <1>9. ASSUME NEW s \in S
        PROVE  /\ CurrentLineAmounts(next)[s] = amounts[s] - IF s = a.line THEN off ELSE 0
               /\ bill.surcharge[s] = 0 => next.discount[s] <= next.subtotal[s]
    <2>1. bill.subtotal[s] \in Nat /\ bill.discount[s] \in Nat /\ bill.surcharge[s] \in Nat
      BY <1>4
    <2>2. /\ amounts[s] = bill.subtotal[s] - bill.discount[s] + bill.surcharge[s]
          /\ bill.discount[s] <= bill.subtotal[s]
      BY <1>2
    <2>3. next.discount[s] = bill.discount[s] + IF s = a.line THEN off ELSE 0
      BY <1>7, <1>8
    <2>4. CurrentLineAmounts(next)[s] = bill.subtotal[s] - next.discount[s] + bill.surcharge[s]
      BY <1>3, <1>7
    <2>5. s = a.line => off <= amounts[s]
      BY <1>5
    <2> QED
      BY <1>1, <1>7, <2>1, <2>2, <2>3, <2>4, <2>5
  <1> QED
    BY <1>3, <1>7, <1>9 DEF amounts, off, next

\* A discount on an order that amounts to no less.
LEMMA OrderDiscountTakes ==
    ASSUME NEW S \in SUBSET Int, IsFiniteSet(S), NEW bill \in BillOf(S), bill.ok,
           LinesAreCovered(bill), NEW a \in AdjustmentOfOrder, a.type = "discount",
           a.line = 0, AmountOfOrder(a, bill) <= WholeBill(bill)
    PROVE  /\ Apply(a, bill).ok /\ Apply(a, bill).surcharge = bill.surcharge
           /\ LinesAreCovered(Apply(a, bill)) =>
                 WholeBill(Apply(a, bill)) = WholeBill(bill) - AmountOfOrder(a, bill)
           /\ (\A s \in S : bill.surcharge[s] = 0) => LinesAreCovered(Apply(a, bill))
  <1> DEFINE amounts == CurrentLineAmounts(bill)
             whole == WholeBill(bill)
             amount == AmountOfOrder(a, bill)
             out == Allocated(a, bill)
             next == Apply(a, bill)
  <1>1. /\ next = IF amount > whole THEN Refused(bill)
                  ELSE [bill EXCEPT !.discount = Plus(@, out), !.discountTotal = @ + amount]
        /\ next \in BillOf(S)
        /\ out \in [S -> Nat] /\ amount \in Nat /\ whole \in Nat
        /\ amount <= whole => SumFunction(out) = amount /\ \A s \in S : out[s] <= amounts[s]
    BY OrderDiscountIsApplied
  <1>2. /\ \A s \in S : amounts[s] = bill.subtotal[s] - bill.discount[s] + bill.surcharge[s]
        /\ LinesAreCovered(bill) <=> \A s \in S : bill.discount[s] <= bill.subtotal[s]
    BY AmountsOfLines
  <1>3. /\ whole = SumFunction(bill.subtotal) - SumFunction(bill.discount)
                      + SumFunction(bill.surcharge)
        /\ SumFunction(bill.subtotal) \in Nat /\ SumFunction(bill.discount) \in Nat
        /\ SumFunction(bill.surcharge) \in Nat
    BY WholeOfLines DEF WholeBill
  <1>4. amount <= whole
    OBVIOUS
  <1> HIDE DEF amounts, whole, amount, out, next
  <1>5. /\ bill.subtotal \in [S -> Nat] /\ bill.discount \in [S -> Nat]
        /\ bill.surcharge \in [S -> Nat]
    BY DEF BillOf
  <1>6. next = [bill EXCEPT !.discount = Plus(@, out), !.discountTotal = @ + amount]
    BY <1>1, <1>4
  <1>7. /\ next.ok = bill.ok /\ next.subtotal = bill.subtotal
        /\ next.surcharge = bill.surcharge /\ next.discount = Plus(bill.discount, out)
    BY <1>6 DEF BillOf
  <1> DEFINE old == bill.discount
  <1>8. /\ \A s \in S : Plus(old, out)[s] = old[s] + out[s]
        /\ SumFunction(Plus(old, out)) = SumFunction(old) + SumFunction(out)
    <2>1. old \in [S -> Nat]
      BY <1>5
    <2> HIDE DEF old
    <2> QED
      BY <1>1, <2>1, PlusAdds
  <1>9. ASSUME \A s \in S : bill.surcharge[s] = 0 PROVE LinesAreCovered(next)
    <2>1. ASSUME NEW s \in S PROVE next.discount[s] <= next.subtotal[s]
      <3>1. /\ bill.subtotal[s] \in Nat /\ bill.discount[s] \in Nat /\ bill.surcharge[s] = 0
            /\ out[s] \in Nat
        BY <1>1, <1>5, <1>9
      <3>2. out[s] <= amounts[s] /\ amounts[s] = bill.subtotal[s] - bill.discount[s]
        BY <1>1, <1>2, <1>4, <3>1
      <3>3. next.discount[s] = bill.discount[s] + out[s] /\ next.subtotal = bill.subtotal
        BY <1>7, <1>8
      <3> QED
        BY <3>1, <3>2, <3>3
    <2> QED
      BY <1>1, <2>1, AmountsOfLines
  <1>10. ASSUME LinesAreCovered(next) PROVE WholeBill(next) = whole - amount
    <2>1. WholeBill(next) = SumFunction(next.subtotal) - SumFunction(next.discount)
                           + SumFunction(next.surcharge)
      BY <1>1, <1>10, WholeOfLines DEF WholeBill
    <2>2. SumFunction(next.discount) = SumFunction(bill.discount) + amount
      BY <1>1, <1>4, <1>7, <1>8
    <2> QED
      BY <1>1, <1>3, <1>7, <2>1, <2>2
  <1> QED
    BY <1>7, <1>9, <1>10 DEF whole, amount, next

\* What has been applied up to an index: no surcharge; nothing but discounts on lines; no
\* discount on a line after one on the order.
NoSurchargeUpto(n) == \A a \in adjustments : a.type = "surcharge" => a.index > n
OnLinesUpto(n) == \A a \in adjustments : a.line = 0 => a.index > n
LinesFirstUpto(n) ==
    \A b, c \in Discounts :
       ~(b.line = 0 /\ c.line # 0 /\ b.index < c.index /\ c.index <= n)

\* The bill y of more lines, S among them, has the room that the bill x of S has.
KeepsUp(n, S, x, T, y) ==
    /\ y.ok /\ LinesAreCovered(y)
    /\ NoSurchargeUpto(n) => \A s \in T : y.surcharge[s] = 0
    /\ OnLinesUpto(n) => \A s \in S : CurrentLineAmounts(x)[s] <= CurrentLineAmounts(y)[s]
    /\ NoSurchargeUpto(n) /\ LinesFirstUpto(n) => WholeBill(x) <= WholeBill(y)

\* What has not been applied up to an index was not before.
LEMMA UptoLess ==
    ASSUME AdjustmentsAreSound(adjustments), NEW n \in Nat \ {0}
    PROVE  /\ NoSurchargeUpto(n) => NoSurchargeUpto(n - 1)
           /\ OnLinesUpto(n) => OnLinesUpto(n - 1) /\ NoSurchargeUpto(n)
           /\ LinesFirstUpto(n) => LinesFirstUpto(n - 1)
  <1>1. \A a \in adjustments : /\ a.index \in Int
                               /\ a.type = "surcharge" => a.line = 0
    BY PricingAssumption DEF AdjustmentsAreSound, AdjustmentOfOrder
  <1>2. \A k \in Int : (k > n => k > n - 1) /\ (k <= n - 1 => k <= n)
    OBVIOUS
  <1>3. \A a \in Discounts : a \in adjustments
    BY DEF Discounts
  <1>4. NoSurchargeUpto(n) => NoSurchargeUpto(n - 1)
    BY <1>1, <1>2 DEF NoSurchargeUpto
  <1>5. OnLinesUpto(n) => OnLinesUpto(n - 1) /\ NoSurchargeUpto(n)
    BY <1>1, <1>2 DEF NoSurchargeUpto, OnLinesUpto
  <1>6. LinesFirstUpto(n) => LinesFirstUpto(n - 1)
    BY <1>1, <1>2, <1>3 DEF LinesFirstUpto
  <1> QED
    BY <1>4, <1>5, <1>6

\* Where lines that are no less are all there are or more, they amount to no less.
LEMMA WholeIsMonotone ==
    ASSUME NEW T, IsFiniteSet(T), NEW S \in SUBSET T, NEW x \in BillOf(S), NEW y \in BillOf(T),
           LinesAreCovered(x), LinesAreCovered(y),
           \A s \in S : CurrentLineAmounts(x)[s] <= CurrentLineAmounts(y)[s]
    PROVE  WholeBill(x) <= WholeBill(y)
  <1> DEFINE f == CurrentLineAmounts(x)
             g == CurrentLineAmounts(y)
  <1>1. f \in [S -> Nat] /\ g \in [T -> Nat] /\ \A s \in S : f[s] <= g[s]
    BY AmountsOfLines
  <1>2. /\ DOMAIN f = S /\ DOMAIN g = T
        /\ \A s \in S : f[s] \in Int /\ g[s] \in Int /\ f[s] <= g[s]
        /\ \A s \in T \ S : g[s] \in Nat
    <2> HIDE DEF f, g
    <2>1. /\ DOMAIN f = S /\ DOMAIN g = T
          /\ \A s \in S : f[s] \in Nat
          /\ \A s \in T : g[s] \in Nat
      BY <1>1
    <2> QED
      BY <1>1, <2>1
  <1> HIDE DEF f, g
  <1>3. SumFunctionOnSet(f, S) <= SumFunctionOnSet(g, T)
    BY <1>2, SumIsMonotone
  <1>4. SumFunction(f) <= SumFunction(g)
    BY <1>2, <1>3 DEF SumFunction
  <1> QED
    BY <1>4 DEF f, g, WholeBill

\* A surcharge takes no room that is needed later.
LEMMA SurchargeKeepsUp ==
    ASSUME NEW T \in SUBSET Int, IsFiniteSet(T), NEW S, NEW x,
           NEW y \in BillOf(T), AdjustmentsAreSound(adjustments), NEW n \in Nat \ {0},
           NEW a \in adjustments, a.index = n, a.type = "surcharge",
           KeepsUp(n - 1, S, x, T, y)
    PROVE  KeepsUp(n, S, Apply(a, x), T, Apply(a, y))
  <1> DEFINE next == Apply(a, y)
             out == Allocated(a, y)
             amount == AmountOfOrder(a, y)
  <1>1. a \in AdjustmentOfOrder /\ a.line = 0
    BY DEF AdjustmentsAreSound
  <1>2. ~NoSurchargeUpto(n) /\ ~OnLinesUpto(n)
    BY <1>1 DEF NoSurchargeUpto, OnLinesUpto
  <1>3. y.ok /\ LinesAreCovered(y)
    BY DEF KeepsUp
  <1>4. /\ next = [y EXCEPT !.surcharge = Plus(@, out), !.surchargeTotal = @ + amount]
        /\ next \in BillOf(T)
    BY <1>1, <1>3, SurchargeIsApplied
  <1> HIDE DEF next, out, amount
  <1>5. next.ok = y.ok /\ next.subtotal = y.subtotal /\ next.discount = y.discount
    BY <1>4 DEF BillOf
  <1>6. LinesAreCovered(next)
    BY <1>3, <1>5 DEF LinesAreCovered
  <1> QED
    BY <1>2, <1>3, <1>5, <1>6 DEF KeepsUp, next

\* A discount that is applied to a line finds it, and room on it.
LEMMA LineDiscountIsNotRefused ==
    ASSUME NEW S \in SUBSET Int, IsFiniteSet(S), NEW bill \in BillOf(S), bill.ok,
           LinesAreCovered(bill), NEW a \in AdjustmentOfOrder, a.type = "discount",
           a.line # 0, Apply(a, bill).ok
    PROVE  /\ a.line \in S /\ AmountOfLine(a, bill) <= CurrentLineAmounts(bill)[a.line]
           /\ AmountOfLine(a, bill) \in Nat /\ CurrentLineAmounts(bill)[a.line] \in Nat
  <1>1. /\ Apply(a, bill) =
              IF a.line \notin S \/ AmountOfLine(a, bill) > CurrentLineAmounts(bill)[a.line]
              THEN Refused(bill)
              ELSE [bill EXCEPT !.discount = WithDiscount(a, bill),
                                !.discountTotal = @ + AmountOfLine(a, bill)]
        /\ a.line \in S => /\ AmountOfLine(a, bill) \in Nat
                           /\ CurrentLineAmounts(bill)[a.line] \in Nat
    BY LineDiscountIsApplied
  <1> DEFINE off == AmountOfLine(a, bill)
             target == CurrentLineAmounts(bill)[a.line]
  <1>2. ~Refused(bill).ok
    BY DEF Refused, BillOf
  <1> HIDE DEF off, target
  <1>3. ~(a.line \notin S \/ off > target)
    BY <1>1, <1>2 DEF off, target
  <1>4. a.line \in S /\ off \in Nat /\ target \in Nat /\ off <= target
    BY <1>1, <1>3 DEF off, target
  <1> QED
    BY <1>4 DEF off, target

\* Nor does a discount on a line: there is as much room for it.
LEMMA LineDiscountKeepsUp ==
    ASSUME NEW T \in SUBSET Int, IsFiniteSet(T), NEW S \in SUBSET T,
           NEW x \in BillOf(S), x.ok, LinesAreCovered(x), NEW y \in BillOf(T),
           AdjustmentsAreSound(adjustments), ~RoomMayShrink, NEW n \in Nat \ {0},
           NEW a \in adjustments, a.index = n, a.type = "discount", a.line # 0,
           Apply(a, x).ok, LinesAreCovered(Apply(a, x)), KeepsUp(n - 1, S, x, T, y)
    PROVE  KeepsUp(n, S, Apply(a, x), T, Apply(a, y))
  <1> DEFINE p == AmountOfLine(a, x)
             q == AmountOfLine(a, y)
             f == CurrentLineAmounts(x)
             g == CurrentLineAmounts(y)
  <1>1. a \in AdjustmentOfOrder /\ a \in Discounts /\ IsFiniteSet(S) /\ S \in SUBSET Int
    BY FS_Subset DEF AdjustmentsAreSound, Discounts
  <1>2. ~IsMoreThanAll(a) /\ ~TakesFromSurcharge(a) /\ ~DependsOnShares(a)
    BY <1>1 DEF RoomMayShrink
  <1>3. \A b \in adjustments : b.index \in Int
    BY PricingAssumption DEF AdjustmentsAreSound, AdjustmentOfOrder
  <1>4. NoSurchargeUpto(n - 1)
    BY <1>2, <1>3 DEF TakesFromSurcharge, NoSurchargeUpto
  <1>5. y.ok /\ LinesAreCovered(y) /\ \A s \in T : y.surcharge[s] = 0
    BY <1>4 DEF KeepsUp
  <1>6. a.line \in S /\ a.line \in T /\ p <= f[a.line] /\ p \in Nat /\ f[a.line] \in Nat
    BY <1>1, LineDiscountIsNotRefused
  <1>7. q \in Nat /\ g[a.line] \in Nat
    BY <1>1, <1>5, <1>6, LineDiscountIsApplied
  <1>8. f \in [S -> Nat] /\ g \in [T -> Nat]
    BY <1>5, AmountsOfLines
  <1>9. p = AmountOf(a, f[a.line]) /\ q = AmountOf(a, g[a.line])
    BY DEF AmountOfLine
  <1>10. OnLinesUpto(n - 1) => \A s \in S : f[s] <= g[s]
    BY DEF KeepsUp
  <1>11. OnLinesUpto(n - 1) \/ a.kind = "percentage"
    <2> SUFFICES ASSUME a.kind = "fixed" PROVE OnLinesUpto(n - 1)
      BY <1>1 DEF AdjustmentOfOrder
    <2>1. \A b \in Discounts : ~(b.line = 0 /\ b.index < a.index)
      BY <1>2 DEF DependsOnShares
    <2>2. ASSUME NEW b \in adjustments, b.line = 0 PROVE b.index > n - 1
      <3>1. b.type = "surcharge" \/ b \in Discounts
        BY DEF AdjustmentsAreSound, AdjustmentOfOrder, Discounts
      <3>2. ~(b.index < a.index)
        BY <1>2, <2>1, <2>2, <3>1 DEF TakesFromSurcharge
      <3> QED
        BY <1>3, <3>2
    <2> QED
      BY <2>2 DEF OnLinesUpto
  <1> HIDE DEF p, q, f, g
  <1>12. q <= g[a.line]
    <2>1. CASE OnLinesUpto(n - 1)
      <3>1. f[a.line] <= g[a.line]
        BY <1>6, <1>10, <2>1
      <3> QED
        BY <1>1, <1>2, <1>6, <1>7, <1>9, <3>1, AmountsLeaveRoom
    <2>2. CASE a.kind = "percentage"
      BY <1>1, <1>2, <1>6, <1>7, <1>9, <2>2, AmountsLeaveRoom
    <2> QED
      BY <1>11, <2>1, <2>2
  <1>13. /\ Apply(a, y).ok /\ Apply(a, y).surcharge = y.surcharge
         /\ \A s \in T : CurrentLineAmounts(Apply(a, y))[s] = g[s] - IF s = a.line THEN q ELSE 0
         /\ LinesAreCovered(Apply(a, y))
    BY <1>1, <1>5, <1>6, <1>12, LineDiscountTakes DEF q, g
  <1>14. \A s \in S : CurrentLineAmounts(Apply(a, x))[s] = f[s] - IF s = a.line THEN p ELSE 0
    BY <1>1, <1>6, LineDiscountTakes DEF p, f
  <1>15. ASSUME OnLinesUpto(n)
         PROVE  \A s \in S : CurrentLineAmounts(Apply(a, x))[s] <= CurrentLineAmounts(Apply(a, y))[s]
    <2>1. \A s \in S : f[s] <= g[s]
      BY <1>10, <1>15, UptoLess
    <2>2. f[a.line] - p <= g[a.line] - q
      <3>1. f[a.line] <= g[a.line]
        BY <1>6, <2>1
      <3> QED
        BY <1>1, <1>2, <1>6, <1>7, <1>9, <3>1, AmountsLeaveRoom
    <2>3. ASSUME NEW s \in S
          PROVE  CurrentLineAmounts(Apply(a, x))[s] <= CurrentLineAmounts(Apply(a, y))[s]
      <3>1. /\ CurrentLineAmounts(Apply(a, x))[s] = f[s] - IF s = a.line THEN p ELSE 0
            /\ CurrentLineAmounts(Apply(a, y))[s] = g[s] - IF s = a.line THEN q ELSE 0
        BY <1>13, <1>14
      <3>2. f[s] \in Nat /\ g[s] \in Nat /\ f[s] <= g[s]
        BY <1>8, <2>1
      <3>3. CASE s = a.line
        BY <2>2, <3>1, <3>3
      <3>4. CASE s # a.line
        BY <3>1, <3>2, <3>4
      <3> QED
        BY <3>3, <3>4
    <2> QED
      BY <2>3
  <1>16. ASSUME NoSurchargeUpto(n), LinesFirstUpto(n) PROVE OnLinesUpto(n)
    <2>1. ASSUME NEW b \in adjustments, b.line = 0 PROVE b.index > n
      <3>1. b.type = "surcharge" \/ b \in Discounts
        BY DEF AdjustmentsAreSound, AdjustmentOfOrder, Discounts
      <3>2. CASE b.type = "surcharge"
        BY <1>16, <3>2 DEF NoSurchargeUpto
      <3>3. CASE b \in Discounts
        <4>1. ~(b.index < n)
          BY <1>1, <1>16, <2>1, <3>3 DEF LinesFirstUpto
        <4>2. b.index # n
          BY <2>1 DEF AdjustmentsAreSound, IndicesAreSound
        <4> QED
          BY <1>3, <4>1, <4>2
      <3> QED
        BY <3>1, <3>2, <3>3
    <2> QED
      BY <2>1 DEF OnLinesUpto
  <1>17. Apply(a, x) \in BillOf(S) /\ Apply(a, y) \in BillOf(T)
    BY <1>1, <1>5, LineDiscountIsApplied
  <1>18. ASSUME NoSurchargeUpto(n), LinesFirstUpto(n)
         PROVE  WholeBill(Apply(a, x)) <= WholeBill(Apply(a, y))
    <2>1. \A s \in S : CurrentLineAmounts(Apply(a, x))[s] <= CurrentLineAmounts(Apply(a, y))[s]
      BY <1>15, <1>16, <1>18
    <2> DEFINE u == Apply(a, x)
               v == Apply(a, y)
    <2> HIDE DEF u, v
    <2>2. /\ u \in BillOf(S) /\ v \in BillOf(T) /\ LinesAreCovered(u) /\ LinesAreCovered(v)
          /\ \A s \in S : CurrentLineAmounts(u)[s] <= CurrentLineAmounts(v)[s]
      BY <1>13, <1>17, <2>1 DEF u, v
    <2>3. WholeBill(u) <= WholeBill(v)
      BY <2>2, WholeIsMonotone
    <2> QED
      BY <2>3 DEF u, v
  <1> QED
    BY <1>5, <1>13, <1>15, <1>18 DEF KeepsUp

\* Nor does one on the order.
LEMMA OrderDiscountKeepsUp ==
    ASSUME NEW T \in SUBSET Int, IsFiniteSet(T), NEW S \in SUBSET T,
           NEW x \in BillOf(S), x.ok, LinesAreCovered(x), NEW y \in BillOf(T),
           AdjustmentsAreSound(adjustments), ~RoomMayShrink, NEW n \in Nat \ {0},
           NEW a \in adjustments, a.index = n, a.type = "discount", a.line = 0,
           Apply(a, x).ok, LinesAreCovered(Apply(a, x)), KeepsUp(n - 1, S, x, T, y)
    PROVE  KeepsUp(n, S, Apply(a, x), T, Apply(a, y))
  <1> DEFINE p == AmountOfOrder(a, x)
             q == AmountOfOrder(a, y)
             f == WholeBill(x)
             g == WholeBill(y)
  <1>1. a \in AdjustmentOfOrder /\ a \in Discounts /\ IsFiniteSet(S) /\ S \in SUBSET Int
    BY FS_Subset DEF AdjustmentsAreSound, Discounts
  <1>2. ~IsMoreThanAll(a) /\ ~TakesFromSurcharge(a) /\ ~DependsOnShares(a)
    BY <1>1 DEF RoomMayShrink
  <1>3. \A b \in adjustments : b.index \in Int
    BY PricingAssumption DEF AdjustmentsAreSound, AdjustmentOfOrder
  <1>4. NoSurchargeUpto(n - 1)
    BY <1>2, <1>3 DEF TakesFromSurcharge, NoSurchargeUpto
  <1>5. y.ok /\ LinesAreCovered(y) /\ \A s \in T : y.surcharge[s] = 0
    BY <1>4 DEF KeepsUp
  <1>6. p <= f /\ p \in Nat /\ f \in Nat
    <2>1. /\ Apply(a, x) = IF p > f THEN Refused(x)
                           ELSE [x EXCEPT !.discount = Plus(@, Allocated(a, x)),
                                          !.discountTotal = @ + p]
          /\ p \in Nat /\ f \in Nat
      BY <1>1, OrderDiscountIsApplied
    <2> HIDE DEF p, f
    <2>2. ~(p > f)
      BY <2>1 DEF Refused, BillOf
    <2> QED
      BY <2>1, <2>2
  <1>7. q \in Nat /\ g \in Nat
    BY <1>1, <1>5, OrderDiscountIsApplied
  <1>8. p = AmountOf(a, f) /\ q = AmountOf(a, g)
    BY DEF AmountOfOrder
  <1>9. LinesFirstUpto(n - 1) => f <= g
    BY <1>4 DEF KeepsUp
  <1>10. LinesFirstUpto(n - 1) \/ a.kind = "percentage"
    <2> SUFFICES ASSUME a.kind = "fixed" PROVE LinesFirstUpto(n - 1)
      BY <1>1 DEF AdjustmentOfOrder
    <2>1. \A b, c \in Discounts :
             ~(b.line = 0 /\ b.index < n /\ c.line # 0 /\ b.index < c.index /\ c.index < n)
      BY <1>2 DEF DependsOnShares
    <2>2. ASSUME NEW b \in Discounts, NEW c \in Discounts, b.line = 0, c.line # 0,
                 b.index < c.index, c.index <= n - 1
          PROVE  FALSE
      <3>1. b.index \in Int /\ c.index \in Int
        BY <1>3 DEF Discounts
      <3>2. b.index < n /\ c.index < n
        BY <2>2, <3>1
      <3> QED
        BY <2>1, <2>2, <3>2
    <2> QED
      BY <2>2 DEF LinesFirstUpto
  <1> HIDE DEF p, q, f, g
  <1>11. q <= g
    <2>1. CASE LinesFirstUpto(n - 1)
      <3>1. f <= g
        BY <1>9, <2>1
      <3> QED
        BY <1>1, <1>2, <1>6, <1>7, <1>8, <3>1, AmountsLeaveRoom
    <2>2. CASE a.kind = "percentage"
      BY <1>1, <1>2, <1>6, <1>7, <1>8, <2>2, AmountsLeaveRoom
    <2> QED
      BY <1>10, <2>1, <2>2
  <1>12. /\ Apply(a, y).ok /\ Apply(a, y).surcharge = y.surcharge
         /\ LinesAreCovered(Apply(a, y)) /\ WholeBill(Apply(a, y)) = g - q
    BY <1>1, <1>5, <1>11, OrderDiscountTakes DEF q, g
  <1>13. WholeBill(Apply(a, x)) = f - p
    BY <1>1, <1>6, OrderDiscountTakes DEF p, f
  <1>14. ~OnLinesUpto(n)
    BY DEF OnLinesUpto
  <1>15. ASSUME LinesFirstUpto(n) PROVE WholeBill(Apply(a, x)) <= WholeBill(Apply(a, y))
    <2>1. f <= g
      BY <1>9, <1>15, UptoLess
    <2>2. f - p <= g - q
      BY <1>1, <1>2, <1>6, <1>7, <1>8, <2>1, AmountsLeaveRoom
    <2> QED
      BY <1>12, <1>13, <2>2
  <1> QED
    BY <1>5, <1>12, <1>14, <1>15 DEF KeepsUp

\* Where a bill of more lines has the room of another at first, it has it to the end.
LEMMA MoreLinesKeepUp ==
    ASSUME NEW T \in SUBSET Int, IsFiniteSet(T), NEW S \in SUBSET T,
           NEW x \in BillOf(S), NEW y \in BillOf(T), AdjustmentsAreSound(adjustments),
           Balanced(x, adjustments), Balanced(y, adjustments), ~RoomMayShrink,
           KeepsUp(0, S, x, T, y),
           Adjusted(adjustments, x).ok, LinesAreCovered(Adjusted(adjustments, x))
    PROVE  Adjusted(adjustments, y).ok /\ LinesAreCovered(Adjusted(adjustments, y))
  <1> DEFINE u == After(adjustments, x)
             v == After(adjustments, y)
             Fine(n) == u[n].ok /\ LinesAreCovered(u[n])
             G == {n \in 0..MaxIndex : Fine(n) => KeepsUp(n, S, u[n], T, v[n])}
  <1>1. MaxIndex \in Nat /\ IsFiniteSet(S) /\ S \in SUBSET Int
    BY PricingAssumption, FS_Subset
  <1>2. /\ u[0] = x /\ Adjusted(adjustments, x) = u[MaxIndex]
        /\ \A n \in 1..MaxIndex : u[n] = AppliedAt(n, adjustments, u[n - 1])
    BY BillsFollow
  <1>3. /\ v[0] = y /\ Adjusted(adjustments, y) = v[MaxIndex]
        /\ \A n \in 1..MaxIndex : v[n] = AppliedAt(n, adjustments, v[n - 1])
    BY BillsFollow
  <1>4. \A n \in 0..MaxIndex : /\ u[n] \in BillOf(S) /\ Balanced(u[n], adjustments)
                               /\ v[n] \in BillOf(T)
    <2>1. u = After(adjustments, x) /\ v = After(adjustments, y)
      OBVIOUS
    <2> HIDE DEF u, v
    <2>2. \A n \in 0..MaxIndex : u[n] \in BillOf(S) /\ Balanced(u[n], adjustments)
      BY <1>1, <2>1, BillsAreBalanced
    <2>3. \A n \in 0..MaxIndex : v[n] \in BillOf(T)
      BY <1>1, <2>1, BillsAreBalanced
    <2> QED
      BY <2>2, <2>3
  <1> HIDE DEF u, v
  <1>5. 0 \in G
    BY <1>1, <1>2, <1>3
  <1>6. ASSUME NEW n \in 1..MaxIndex, n - 1 \in G PROVE n \in G
    <2> DEFINE f == u[n - 1]
               g == v[n - 1]
    <2>1. n \in Nat \ {0} /\ n \in 0..MaxIndex /\ n - 1 \in 0..MaxIndex
      BY <1>1
    <2>2. f \in BillOf(S) /\ Balanced(f, adjustments) /\ g \in BillOf(T)
      BY <1>4, <2>1
    <2>3. f.ok /\ LinesAreCovered(f) => KeepsUp(n - 1, S, f, T, g)
      BY <1>6
    <2>4. SUFFICES ASSUME Fine(n) PROVE KeepsUp(n, S, u[n], T, v[n])
      BY <2>1
    <2>5. u[n] = AppliedAt(n, adjustments, f) /\ v[n] = AppliedAt(n, adjustments, g)
      BY <1>2, <1>3
    <2> HIDE DEF f, g, G
    <2>6. CASE /\ \A a \in adjustments : a.index # n
               /\ \A bill : AppliedAt(n, adjustments, bill) = bill
      <3>1. u[n] = f /\ v[n] = g
        BY <2>5, <2>6
      <3>2. KeepsUp(n - 1, S, f, T, g)
        BY <2>3, <2>4, <3>1
      <3>3. /\ NoSurchargeUpto(n) => NoSurchargeUpto(n - 1)
            /\ OnLinesUpto(n) => OnLinesUpto(n - 1)
            /\ LinesFirstUpto(n) => LinesFirstUpto(n - 1)
        BY <2>1, UptoLess
      <3> QED
        BY <3>1, <3>2, <3>3 DEF KeepsUp
    <2>7. CASE \E a \in adjustments :
                  /\ a.index = n
                  /\ \A bill : AppliedAt(n, adjustments, bill) = Apply(a, bill)
      <3>1. PICK a \in adjustments :
                  /\ a.index = n
                  /\ \A bill : AppliedAt(n, adjustments, bill) = Apply(a, bill)
        BY <2>7
      <3>2. a \in AdjustmentOfOrder
        BY DEF AdjustmentsAreSound
      <3>3. u[n] = Apply(a, f) /\ v[n] = Apply(a, g)
        BY <2>5, <3>1
      <3>4. Apply(a, f).ok /\ LinesAreCovered(Apply(a, f))
        BY <2>4, <3>3
      <3>5. f.ok /\ LinesAreCovered(f)
        BY <1>1, <2>2, <3>2, <3>4, ApplyKeepsBalance
      <3>6. KeepsUp(n - 1, S, f, T, g)
        BY <2>3, <3>5
      <3>7. CASE a.type = "surcharge"
        BY <2>1, <2>2, <3>1, <3>3, <3>6, <3>7, SurchargeKeepsUp
      <3>8. CASE a.type = "discount" /\ a.line = 0
        BY <2>1, <2>2, <3>1, <3>3, <3>4, <3>5, <3>6, <3>8, OrderDiscountKeepsUp
      <3>9. CASE a.type = "discount" /\ a.line # 0
        BY <2>1, <2>2, <3>1, <3>3, <3>4, <3>5, <3>6, <3>9, LineDiscountKeepsUp
      <3> QED
        BY <3>2, <3>7, <3>8, <3>9 DEF AdjustmentOfOrder
    <2> QED
      BY <2>6, <2>7, AppliedOnce
  <1>7. MaxIndex \in G
    <2> HIDE DEF G
    <2> QED
      BY <1>1, <1>5, <1>6, UptoInduction
  <1>8. KeepsUp(MaxIndex, S, u[MaxIndex], T, v[MaxIndex])
    BY <1>2, <1>7
  <1> QED
    BY <1>3, <1>8 DEF KeepsUp

\* Where nothing is taken off, there is nothing to be refused.
LEMMA SurchargesGoOn ==
    ASSUME NEW T \in SUBSET Int, IsFiniteSet(T), NEW y \in BillOf(T),
           NEW applied, AdjustmentsAreSound(applied), Balanced(y, applied), y.ok,
           \A s \in T : y.discount[s] = 0, \A a \in applied : a.type # "discount"
    PROVE  Adjusted(applied, y).ok /\ LinesAreCovered(Adjusted(applied, y))
  <1> DEFINE v == After(applied, y)
             Fine(n) == v[n].ok /\ \A s \in T : v[n].discount[s] = 0
             G == {n \in 0..MaxIndex : Fine(n)}
  <1>1. MaxIndex \in Nat
    BY PricingAssumption
  <1>2. /\ v[0] = y /\ Adjusted(applied, y) = v[MaxIndex]
        /\ \A n \in 1..MaxIndex : v[n] = AppliedAt(n, applied, v[n - 1])
    BY BillsFollow
  <1>3. \A n \in 0..MaxIndex : v[n] \in BillOf(T)
    <2>1. v = After(applied, y)
      OBVIOUS
    <2> HIDE DEF v
    <2> QED
      BY <2>1, BillsAreBalanced
  <1> HIDE DEF v
  <1>4. ASSUME NEW n \in 0..MaxIndex, Fine(n) PROVE LinesAreCovered(v[n])
    <2>1. v[n] \in BillOf(T)
      BY <1>3
    <2>2. \A s \in T : v[n].discount[s] = 0 /\ v[n].subtotal[s] \in Nat
      BY <1>4, <2>1 DEF BillOf
    <2>3. \A s \in T : v[n].discount[s] <= v[n].subtotal[s]
      BY <2>2
    <2> QED
      BY <2>1, <2>3, AmountsOfLines
  <1>5. 0 \in G
    BY <1>1, <1>2
  <1>6. ASSUME NEW n \in 1..MaxIndex, n - 1 \in G PROVE n \in G
    <2> DEFINE g == v[n - 1]
    <2>1. n \in 0..MaxIndex /\ n - 1 \in 0..MaxIndex
      BY <1>1
    <2>2. g \in BillOf(T) /\ Fine(n - 1) /\ LinesAreCovered(g)
      BY <1>3, <1>4, <1>6, <2>1
    <2>3. v[n] = AppliedAt(n, applied, g)
      BY <1>2
    <2>4. CASE AppliedAt(n, applied, g) = g
      BY <2>1, <2>2, <2>3, <2>4
    <2>5. CASE \E a \in applied : AppliedAt(n, applied, g) = Apply(a, g)
      <3>1. PICK a \in applied : AppliedAt(n, applied, g) = Apply(a, g)
        BY <2>5
      <3>2. a \in AdjustmentOfOrder /\ a.type = "surcharge"
        BY DEF AdjustmentsAreSound, AdjustmentOfOrder
      <3> HIDE DEF g
      <3>3. /\ Apply(a, g) = [g EXCEPT !.surcharge = Plus(@, Allocated(a, g)),
                                       !.surchargeTotal = @ + AmountOfOrder(a, g)]
            /\ g.ok
        <4>1. g.ok
          BY <2>2 DEF g
        <4> QED
          BY <2>2, <3>2, <4>1, SurchargeIsApplied
      <3>4. Apply(a, g).ok = g.ok /\ Apply(a, g).discount = g.discount
        BY <2>2, <3>3 DEF BillOf
      <3>5. Fine(n)
        BY <2>2, <2>3, <3>1, <3>3, <3>4 DEF g
      <3> QED
        BY <2>1, <3>5
    <2> QED
      BY <2>4, <2>5, AppliedOnce
  <1>7. MaxIndex \in G
    <2> HIDE DEF G
    <2> QED
      BY <1>1, <1>5, <1>6, UptoInduction
  <1>8. MaxIndex \in 0..MaxIndex /\ Fine(MaxIndex)
    BY <1>7
  <1> QED
    BY <1>2, <1>4, <1>8

\* The rows of an order, and more of them.
LEMMA RowsKeepUp ==
    ASSUME NEW less, NEW more, RowsAreSold(less), RowsAreSold(more),
           AdjustmentsAreSound(adjustments),
           \A s \in Lines(less) : s \in Lines(more) /\ ~(more[s].total < less[s].total)
    PROVE  KeepsUp(0, Lines(less), Plain(less), Lines(more), Plain(more))
  <1> DEFINE S == Lines(less)
             T == Lines(more)
             x == Plain(less)
             y == Plain(more)
  <1>1. S \in SUBSET T /\ IsFiniteSet(T)
    BY LinesAreSlots
  <1>2. /\ x \in BillOf(S) /\ LinesAreCovered(x)
        /\ \A s \in S : x.subtotal[s] = less[s].total
    BY PlainBill
  <1>3. /\ y \in BillOf(T) /\ LinesAreCovered(y) /\ y.ok
        /\ \A s \in T : y.subtotal[s] = more[s].total /\ y.surcharge[s] = 0
    BY PlainBill
  <1>4. CurrentLineAmounts(x) = x.subtotal /\ CurrentLineAmounts(y) = y.subtotal
    BY PlainAmounts
  <1> HIDE DEF S, T, x, y
  <1>5. \A s \in S : CurrentLineAmounts(x)[s] <= CurrentLineAmounts(y)[s]
    <2>1. ASSUME NEW s \in S PROVE CurrentLineAmounts(x)[s] <= CurrentLineAmounts(y)[s]
      <3>1. s \in T /\ ~(more[s].total < less[s].total)
        BY DEF S, T
      <3>2. x.subtotal[s] \in Nat /\ y.subtotal[s] \in Nat
        BY <1>2, <1>3, <3>1 DEF BillOf
      <3>3. x.subtotal[s] = less[s].total /\ y.subtotal[s] = more[s].total
        BY <1>2, <1>3, <3>1
      <3> QED
        BY <1>4, <3>1, <3>2, <3>3
    <2> QED
      BY <2>1
  <1>6. WholeBill(x) <= WholeBill(y)
    BY <1>1, <1>2, <1>3, <1>5, WholeIsMonotone
  <1>7. KeepsUp(0, S, x, T, y)
    BY <1>3, <1>5, <1>6 DEF KeepsUp
  <1> QED
    BY <1>7 DEF S, T, x, y

\* An order of which nothing is taken away that a discount was given on.
LEMMA MoreIsPriced ==
    ASSUME PricingInv, Lines(rows) # {}, ~RoomMayShrink, Bill.ok,
           NEW more, RowsAreSold(more),
           (\E a \in adjustments : a.type = "discount") =>
              \A s \in Lines(rows) : s \in Lines(more) /\ ~(more[s].total < rows[s].total)
    PROVE  Calculate(more, adjustments).ok
  <1> DEFINE S == Lines(rows)
             T == Lines(more)
             x == Plain(rows)
             y == Plain(more)
             Final(orderRows) == Adjusting(orderRows, adjustments)
  <1>1. RowsAreSold(rows) /\ AdjustmentsAreSound(adjustments)
    BY DEF PricingInv
  <1>2. /\ x \in BillOf(S) /\ Balanced(x, adjustments)
        /\ y \in BillOf(T) /\ Balanced(y, adjustments) /\ y.ok /\ LinesAreCovered(y)
        /\ \A s \in T : y.discount[s] = 0
    BY <1>1, PlainBill
  <1>3. S \in SUBSET Int /\ IsFiniteSet(S) /\ T \in SUBSET Int /\ IsFiniteSet(T)
    BY LinesAreSlots
  <1>4. ASSUME NEW orderRows
        PROVE  Calculate(orderRows, adjustments).ok =
                  (Final(orderRows).ok /\ LinesAreCovered(Final(orderRows)))
    <2>1. Calculate(orderRows, adjustments) = Priced(Final(orderRows))
      BY DEF Calculate, Adjusting
    <2> HIDE DEF Final
    <2> QED
      BY <2>1 DEF Priced
  <1>5. SUFFICES Final(more).ok /\ LinesAreCovered(Final(more))
    BY <1>4
  <1>6. CASE T = {}
    <2>1. Final(more) = y
      BY <1>6 DEF Adjusting
    <2> QED
      BY <1>2, <2>1
  <1>7. CASE T # {}
    <2>1. Final(more) = Adjusted(adjustments, y) /\ Final(rows) = Adjusted(adjustments, x)
      BY <1>1, <1>7 DEF Adjusting, AdjustmentsAreSound
    <2>2. Final(rows).ok /\ LinesAreCovered(Final(rows))
      BY <1>4 DEF Bill
    <2>3. CASE \A a \in adjustments : a.type # "discount"
      <3> HIDE DEF S, T, x, y, Final
      <3> QED
        BY <1>1, <1>2, <1>3, <2>1, <2>3, SurchargesGoOn
    <2>4. CASE \E a \in adjustments : a.type = "discount"
      <3>1. S \in SUBSET T
        BY <2>4
      <3>2. KeepsUp(0, S, x, T, y)
        BY <1>1, <2>4, RowsKeepUp
      <3> HIDE DEF S, T, x, y, Final
      <3> QED
        BY <1>1, <1>2, <1>3, <2>1, <2>2, <3>1, <3>2, MoreLinesKeepUp
    <2> QED
      BY <2>3, <2>4
  <1> QED
    BY <1>6, <1>7

\* A step of an order leaves it as it can be priced.
LEMMA PricingStepGoesOn == PricingInv /\ [PricingNext]_pricingVars => PricingGoesOn
  <1> SUFFICES ASSUME PricingInv, [PricingNext]_pricingVars,
                      Lines(rows) # {}, ~TakesAwayDiscounted, ~RoomMayShrink, Bill.ok
               PROVE  Calculate(rows', adjustments').ok
    BY DEF PricingGoesOn
  <1>1. ASSUME NEW more, more = rows', adjustments' = adjustments, RowsAreSold(more)
        PROVE  Calculate(rows', adjustments').ok
    <2>1. (\E a \in adjustments : a.type = "discount") =>
             \A s \in Lines(rows) : s \in Lines(more) /\ ~(more[s].total < rows[s].total)
      BY <1>1 DEF TakesAwayDiscounted
    <2>2. Calculate(more, adjustments).ok
      BY <1>1, <2>1, MoreIsPriced
    <2> QED
      BY <1>1, <2>2
  <1>2. ASSUME NEW s \in Slot,
               AddLine(s) \/ ChangeQuantity(s) \/ ChangeOptions(s) \/ VoidLine(s)
        PROVE  Calculate(rows', adjustments').ok
    <2>1. adjustments' = adjustments
      BY <1>2 DEF AddLine, ChangeQuantity, ChangeOptions, VoidLine
    <2>2. RowsAreSold(rows')
      BY <1>2, LinesStaySold
    <2> QED
      BY <1>1, <2>1, <2>2
  <1>3. CASE UNCHANGED <<rows, adjustments>>
    BY <1>3 DEF Bill
  <1>4. ASSUME NEW a, Add(a) PROVE Calculate(rows', adjustments').ok
    BY <1>4 DEF Add
  <1>5. CASE AddDiscountRow
    BY <1>4, <1>5 DEF AddDiscountRow
  <1>6. CASE AddSurchargeRow
    BY <1>4, <1>6 DEF AddSurchargeRow
  <1>7. SyncMenu \/ UNCHANGED pricingVars => UNCHANGED <<rows, adjustments>>
    BY DEF SyncMenu, pricingVars
  <1> QED
    BY <1>2, <1>3, <1>5, <1>6, <1>7 DEF PricingNext

-----------------------------------------------------------------------------
(* Money.                                                                  *)

\* Money puts its parts side by side and changes none of them.
LEMMA MoneyIsOfItsParts == MoneySpec => BooksSpec /\ OperationsSpec /\ PricingSpec
  <1>1. MoneyInit => BooksInit /\ OperationsInit /\ PricingInit
    BY DEF MoneyInit
  <1>2. [MoneyNext]_moneyVars =>
           [BooksNext]_booksVars /\ [OperationsNext]_financialVars /\ [PricingNext]_pricingVars
    BY DEF MoneyNext, moneyVars
  <1> QED
    BY <1>1, <1>2, PTL DEF MoneySpec, BooksSpec, OperationsSpec, PricingSpec

\* LedgersAreKept: the commands of the till keep the ledger of every check, also while the
\* Cloud books their events, and the operations of a check keep its own.
THEOREM LedgersAreAlwaysKept == MoneySpec => LedgersAreKept
  BY MoneyIsOfItsParts, BooksAreSales, LedgerIsKept, OperationsImplementTheLedger
  DEF LedgersAreKept

\* OrdersCanBeBilled: whatever is sold, taken off and added, in which order, and however it
\* is taxed, a bill and its lines agree; and an order that can be priced only stops being
\* so where something is taken away, or a discount may find less room.
THEOREM OrdersCanAlwaysBeBilled == MoneySpec => OrdersCanBeBilled
  <1>1. PricingInit => PricingInv
    BY PricingInvAtFirst
  <1>2. PricingInv /\ [PricingNext]_pricingVars => PricingInv'
    BY PricingInvIsKept
  <1>3. PricingInv => BillAddsUp
    BY BillIsAddedUp
  <1>4. PricingInv /\ [PricingNext]_pricingVars => [PricingGoesOn]_pricingVars
    BY PricingStepGoesOn
  <1>5. PricingSpec => OrdersCanBeBilled
    BY <1>1, <1>2, <1>3, <1>4, PTL DEF PricingSpec, OrdersCanBeBilled
  <1> QED
    BY <1>5, MoneyIsOfItsParts
=============================================================================
