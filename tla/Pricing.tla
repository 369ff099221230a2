------------------------------- MODULE Pricing -------------------------------
(***************************************************************************)
(* What one order costs while its lines, discounts and surcharges change:  *)
(* the calculator (pos/domain/pricing) and the commands that call it       *)
(* (pos/app/pricing/service.go) or leave its input behind                  *)
(* (pos/app/order/service.go).  PosSales has the life of the order around  *)
(* it and takes the total from a table; here is the total.                 *)
(*                                                                         *)
(* Amounts stay far below 2^63, so that no sum overflows.  The order is    *)
(* open and has no precheck, and the currency is that of the restaurant.   *)
(***************************************************************************)
EXTENDS Integers, Sequences, FiniteSets, Functions

CONSTANTS
    Slot,           \* the lines an order may get, numbered in the order of their ids
    Menu,           \* what the Cloud may ask for a dish: [price, option, offered]
    Group,          \* the modifier group of the dish: [required, min, max]
    Policy,         \* policies the Edge has: [adjustment, active, manual, right, own]
    TaxProfile,     \* slot -> [exempt, rules], the rules in order of priority:
                    \* [mode, kind, value, compound, active]
    Value,          \* amount kind -> the values that adjustments have
    MaxQuantity,    \* bound: portions and options of a line
    MaxIndex        \* bound: application indices, and so adjustments

ASSUME PricingAssumption ==
    /\ Slot \subseteq Nat \ {0} /\ IsFiniteSet(Slot)
    /\ MaxQuantity \in Nat /\ MaxIndex \in Nat
    /\ \A kind \in {"fixed", "percentage"} : Value[kind] \subseteq Nat
    /\ \A d \in Menu : d.price \in Nat /\ d.option \in Nat
    /\ \A policy \in Policy :
          policy.adjustment \in [type : {"discount", "surcharge"}, line : Slot \cup {0},
                                index : 0..MaxIndex, kind : {"fixed", "percentage"},
                                value : Nat]
    /\ \A s \in Slot :
          TaxProfile[s].rules \in Seq([mode : {"inclusive", "exclusive"}, value : Nat,
                                      kind : {"fixed", "percentage"}, compound : BOOLEAN,
                                      active : BOOLEAN])

VARIABLES
    dish,           \* the menu item and its modifier option as they cost now, and whether
                    \* the group is active and linked with it
    rows,           \* order_lines and order_line_modifiers
    adjustments     \* order_line_discounts and order_surcharges

pricingVars == <<dish, rows, adjustments>>

BasisPointDenominator == 10000

\* An adjustment takes off or adds, to a line (0: to the order), a fixed amount or a
\* percentage in basis points.
Adjustment ==
    {a \in [type : {"discount", "surcharge"}, line : Slot \cup {0}, index : 0..MaxIndex,
            kind : {"fixed", "percentage"}, value : Value["fixed"] \cup Value["percentage"]] :
        a.value \in Value[a.kind] /\ (a.type = "surcharge" => a.line = 0)}

Absent == [status |-> "absent", quantity |-> 0, price |-> 0, options |-> 0, option |-> 0,
           total |-> 0]

PricingInit ==
    /\ dish \in Menu
    /\ rows = [s \in Slot |-> Absent]
    /\ adjustments = {}

-----------------------------------------------------------------------------
(* The calculator.                                                         *)

\* f itself; it makes TLC work out its values once.
Tabled(f) == CHOOSE g \in {f} : g = f

Plus(f, g) == Tabled([s \in DOMAIN f |-> f[s] + g[s]])

\* RoundRatioHalfUp
RoundRatioHalfUp(amount, numerator, denominator) ==
    (amount * numerator + denominator \div 2) \div denominator

\* validateLine: the line's total is what its portions and options cost.
ValidLine(row) ==
    /\ row.quantity > 0
    /\ row.total = row.price * row.quantity + row.option * row.options

\* allocateProportionally: by the lines' amounts, rounded down; what is left over goes in
\* units to the lines with the largest remainders, the first of equal ones.
Share(amount, bases) ==
    Tabled([s \in DOMAIN bases |-> (amount * bases[s]) \div SumFunction(bases)])
Remainder(amount, bases) ==
    Tabled([s \in {t \in DOMAIN bases : bases[t] > 0} |->
                (amount * bases[s]) % SumFunction(bases)])
Ahead(s, remainder) ==
    {t \in DOMAIN remainder :
        remainder[t] > remainder[s] \/ (remainder[t] = remainder[s] /\ t < s)}
AllocateProportionally(amount, bases) ==
    LET share == Share(amount, bases)
        remainder == Remainder(amount, bases)
        rest == amount - SumFunction(share)
    IN  IF SumFunction(bases) = 0 THEN [s \in DOMAIN bases |-> 0]
        ELSE Tabled([s \in DOMAIN bases |->
                IF bases[s] > 0 /\ Cardinality(Ahead(s, remainder)) < rest
                THEN share[s] + 1 ELSE share[s]])

\* currentLineAmounts, where nothing is taken off a line that is not its own price: what
\* was added to a line cannot be given back.
CurrentLineAmounts(bill) ==
    Tabled([s \in DOMAIN bill.subtotal |->
        bill.subtotal[s] - bill.discount[s] + bill.surcharge[s]])
LinesAreCovered(bill) ==
    \A s \in DOMAIN bill.subtotal : bill.discount[s] <= bill.subtotal[s]

\* adjustmentAmount
AmountOf(a, target) ==
    IF a.kind = "fixed" THEN a.value
    ELSE RoundRatioHalfUp(target, a.value, BasisPointDenominator)

Refused(bill) == [bill EXCEPT !.ok = FALSE]

\* applyDiscount, on one line or on all
ApplyLineDiscount(a, bill) ==
    IF a.line \notin DOMAIN bill.subtotal THEN Refused(bill)
    ELSE LET target == CurrentLineAmounts(bill)[a.line]
             amount == AmountOf(a, target)
         IN  IF amount > target THEN Refused(bill)
             ELSE [bill EXCEPT !.discount[a.line] = @ + amount, !.discountTotal = @ + amount]
ApplyOrderDiscount(a, bill) ==
    LET bases == CurrentLineAmounts(bill)
        amount == AmountOf(a, SumFunction(bases))
    IN  IF amount > SumFunction(bases) THEN Refused(bill)
        ELSE [bill EXCEPT !.discount = Plus(@, AllocateProportionally(amount, bases)),
                          !.discountTotal = @ + amount]
\* applySurcharge
ApplySurcharge(a, bill) ==
    LET bases == CurrentLineAmounts(bill)
        amount == AmountOf(a, SumFunction(bases))
    IN  [bill EXCEPT !.surcharge = Plus(@, AllocateProportionally(amount, bases)),
                     !.surchargeTotal = @ + amount]

\* applyModifiers
Apply(a, bill) ==
    IF ~bill.ok \/ ~LinesAreCovered(bill) THEN Refused(bill)
    ELSE IF a.type = "surcharge" THEN ApplySurcharge(a, bill)
    ELSE IF a.line = 0 THEN ApplyOrderDiscount(a, bill)
    ELSE ApplyLineDiscount(a, bill)

\* registerApplicationIndex: no index twice.
IndicesAreSound(applied) ==
    /\ \A a \in applied : a.index > 0
    /\ \A a, b \in applied : a.index = b.index => a = b

\* buildOrderedModifiers: discounts and surcharges are applied in one order.
AppliedAt(n, applied, bill) ==
    IF \E a \in applied : a.index = n THEN Apply(CHOOSE a \in applied : a.index = n, bill)
    ELSE bill
Adjusted(applied, plain) ==
    LET after[n \in 0..MaxIndex] ==
            IF n = 0 THEN plain ELSE AppliedAt(n, applied, after[n - 1])
    IN  after[MaxIndex]

\* taxAmount
TaxAmount(rule, base) ==
    IF rule.kind = "fixed" THEN rule.value
    ELSE RoundRatioHalfUp(base, rule.value,
            BasisPointDenominator + (IF rule.mode = "inclusive" THEN rule.value ELSE 0))

\* The rules that a line's profile has for it.
TaxRules(s) == IF TaxProfile[s].exempt THEN <<>> ELSE TaxProfile[s].rules

\* applyTaxes on one line: a compound rule also taxes what was added before it.
TaxedBy(rule, base, tax) ==
    LET amount == TaxAmount(rule, IF rule.compound THEN base + tax.added ELSE base)
    IN  IF ~rule.active THEN tax
        ELSE [all |-> tax.all + amount,
              added |-> IF rule.mode = "exclusive" THEN tax.added + amount ELSE tax.added]
Taxes(s, base) ==
    LET tax[n \in 0..Len(TaxRules(s))] ==
            IF n = 0 THEN [all |-> 0, added |-> 0]
            ELSE TaxedBy(TaxRules(s)[n], base, tax[n - 1])
    IN  tax[Len(TaxRules(s))]

\* ListOrderLines, without those that are voided.
Lines(orderRows) == {s \in Slot : orderRows[s].status = "active"}

\* The end of Calculate: what the lines amount to is taxed line by line.
Priced(bill) ==
    LET amounts == CurrentLineAmounts(bill)
        tax == Tabled([s \in DOMAIN amounts |-> Taxes(s, amounts[s])])
        added == [s \in DOMAIN amounts |-> tax[s].added]
    IN  [ok |-> bill.ok /\ LinesAreCovered(bill), subtotal |-> bill.subtotal,
         discount |-> bill.discount, surcharge |-> bill.surcharge,
         discountTotal |-> bill.discountTotal, surchargeTotal |-> bill.surchargeTotal,
         tax |-> tax, line |-> Plus(amounts, added),
         grand |-> SumFunction(bill.subtotal) - bill.discountTotal + bill.surchargeTotal
                      + SumFunction(added)]

\* Calculate: nothing is applied to a bill of no lines.
Plain(orderRows) ==
    LET nothing == [s \in Lines(orderRows) |-> 0]
    IN  [ok |-> \A s \in Lines(orderRows) : ValidLine(orderRows[s]),
         subtotal |-> [s \in Lines(orderRows) |-> orderRows[s].total],
         discount |-> nothing, surcharge |-> nothing,
         discountTotal |-> 0, surchargeTotal |-> 0]
Calculate(orderRows, applied) ==
    Priced(IF Lines(orderRows) = {} THEN Plain(orderRows)
           ELSE IF ~IndicesAreSound(applied) THEN Refused(Plain(orderRows))
           ELSE Adjusted(applied, Plain(orderRows)))

\* CalculateOrderPricing
Bill == Calculate(rows, adjustments)

-----------------------------------------------------------------------------
(* The commands.                                                           *)

\* validateSelectedModifiers: options of the dish's group, as many as it asks for.
SelectionAccepted(options) ==
    IF ~dish.offered THEN options = 0 ELSE
    /\ Group.required => options > 0
    /\ options >= Group.min
    /\ Group.max > 0 => options <= Group.max

\* buildSelectedModifiers: options cost what they cost now.
Selected(row, options) ==
    [row EXCEPT !.options = options, !.option = dish.option,
                !.total = row.price * row.quantity + dish.option * options]

\* AddOrderLine
AddLine(s) ==
    /\ rows[s] = Absent /\ \A t \in Slot : t < s => rows[t] # Absent
    /\ \E quantity \in 1..MaxQuantity, options \in 0..MaxQuantity :
          LET row == [Absent EXCEPT !.status = "active", !.quantity = quantity,
                                    !.price = dish.price]
          IN  /\ SelectionAccepted(options)
              /\ rows' = [rows EXCEPT ![s] = Selected(row, options)]
    /\ UNCHANGED <<dish, adjustments>>

\* Mutant: the line keeps its total.
ChangeQuantityAlone(s) ==
    /\ rows[s].status = "active"
    /\ \E quantity \in 1..MaxQuantity : rows' = [rows EXCEPT ![s].quantity = quantity]
    /\ UNCHANGED <<dish, adjustments>>
\* ChangeOrderLineQuantity: the line keeps the prices it was sold at.
ChangeQuantity(s) ==
    /\ rows[s].status = "active"
    /\ \E quantity \in 1..MaxQuantity :
          rows' = [rows EXCEPT ![s].quantity = quantity,
                     ![s].total = rows[s].price * quantity + rows[s].option * rows[s].options]
    /\ UNCHANGED <<dish, adjustments>>

\* UpdateOrderLineModifiers: the options are sold anew.
ChangeOptions(s) ==
    /\ rows[s].status = "active"
    /\ \E options \in 0..MaxQuantity :
          /\ SelectionAccepted(options)
          /\ rows' = [rows EXCEPT ![s] = Selected(rows[s], options)]
    /\ UNCHANGED <<dish, adjustments>>

\* VoidOrderLine
VoidLine(s) ==
    /\ rows[s].status = "active"
    /\ rows' = [rows EXCEPT ![s].status = "voided"]
    /\ UNCHANGED <<dish, adjustments>>

\* validatePolicyForOrder
PolicyAllows(policy, type, hasRight) ==
    /\ policy.own /\ policy.active /\ ~policy.manual
    /\ policy.adjustment.type = type
    /\ policy.right => hasRight

\* The fields of the command, or those of a policy and none of the command's; a policy
\* for a line takes the line from the command.
Wanted(type, line, hasRight) ==
    {a \in Adjustment : a.type = type /\ a.line = line}
        \cup {[policy.adjustment EXCEPT !.line = line] :
                 policy \in {p \in Policy : /\ PolicyAllows(p, type, hasRight)
                                            /\ p.adjustment.line = 0 <=> line = 0}}

\* ensureApplicationIndexAvailable
IndexIsFree(a) == \A b \in adjustments : b.index # a.index

\* The transaction of AddDiscount and AddSurcharge: the order is calculated with the new
\* row, and without it again when that fails.
Add(a) ==
    /\ IndexIsFree(a)
    /\ Calculate(rows, adjustments \cup {a}).ok
    /\ adjustments' = adjustments \cup {a}
    /\ UNCHANGED <<dish, rows>>

AddDiscountRow ==
    \E s \in Slot \cup {0}, hasRight \in BOOLEAN :
       /\ s # 0 => rows[s].status = "active"
       /\ \E a \in Wanted("discount", s, hasRight) : a.index > 0 /\ Add(a)
AddSurchargeRow ==
    \E hasRight \in BOOLEAN :
       \E a \in Wanted("surcharge", 0, hasRight) : a.index > 0 /\ Add(a)

-----------------------------------------------------------------------------
(* The Cloud's packages: the dish costs something else.                    *)

SyncMenu ==
    /\ dish' \in Menu \ {dish}
    /\ UNCHANGED <<rows, adjustments>>

PricingNext ==
    \/ \E s \in Slot : AddLine(s) \/ ChangeQuantity(s) \/ ChangeOptions(s) \/ VoidLine(s)
    \/ AddDiscountRow \/ AddSurchargeRow
    \/ SyncMenu

PricingSpec == PricingInit /\ [][PricingNext]_pricingVars

-----------------------------------------------------------------------------
(* Properties.                                                             *)

\* What is taken off the whole order is shared by the lines' amounts: none is a whole unit
\* away from its proportion.
SharesAreFair(bill) ==
    LET whole == SumFunction(bill.subtotal)
        amount == bill.discountTotal + bill.surchargeTotal
    IN  (\E a \in adjustments : adjustments = {a} /\ a.line = 0) =>
            \A s \in DOMAIN bill.subtotal :
               whole = 0 \/ (bill.discount[s] + bill.surcharge[s]) * whole
                                - amount * bill.subtotal[s] \in (1 - whole)..(whole - 1)

\* Where a fixed surcharge finds nothing to be shared by, the lines do not have it.
SurchargeOnNothing(bill) ==
    /\ \E a \in adjustments : a.type = "surcharge" /\ a.kind = "fixed"
    /\ SumFunction(bill.subtotal) = bill.discountTotal

\* The bill and its lines agree whatever was taken off and added in which order, with
\* every unit on some line, no line below zero, and taxes that are part of the price
\* taken from no one twice.
AddsUp(bill, amounts) ==
    /\ SharesAreFair(bill)
    /\ bill.discountTotal = SumFunction(bill.discount)
    /\ \A s \in DOMAIN bill.line : 0 <= amounts[s] /\ amounts[s] <= bill.line[s]
    /\ ~SurchargeOnNothing(bill) => /\ bill.surchargeTotal = SumFunction(bill.surcharge)
                                    /\ bill.grand = SumFunction(bill.line)
BillIsSound(bill) == bill.ok => AddsUp(bill, CurrentLineAmounts(bill))
BillAddsUp == BillIsSound(Bill)

\* A line, or a part of its price, is taken away that a discount was given on.
TakesAwayDiscounted ==
    /\ \E a \in adjustments : a.type = "discount"
    /\ \E s \in Lines(rows) : s \notin Lines(rows') \/ rows'[s].total < rows[s].total
\* Discounts that may find less room though the order grows: more than all there is; after
\* a surcharge, whose part no line can give back; and a fixed one that depends on how an
\* order's discount was shared, being on a line itself or after a line's.
Discounts == {a \in adjustments : a.type = "discount"}
IsMoreThanAll(a) == a.kind = "percentage" /\ a.value > BasisPointDenominator
TakesFromSurcharge(a) == \E b \in adjustments : b.type = "surcharge" /\ b.index < a.index
DependsOnShares(a) ==
    /\ a.kind = "fixed"
    /\ \E b \in Discounts :
          /\ b.line = 0 /\ b.index < a.index
          /\ \/ a.line # 0
             \/ \E c \in Discounts : c.line # 0 /\ b.index < c.index /\ c.index < a.index
RoomMayShrink ==
    \E a \in Discounts : IsMoreThanAll(a) \/ TakesFromSurcharge(a) \/ DependsOnShares(a)

\* An order of lines that can be priced only stops being so when something is taken away
\* that a discount was given on, or where a discount may find less room: but for that,
\* selling more, and adjusting, never does it.
PricingGoesOn ==
    /\ Lines(rows) # {} /\ ~TakesAwayDiscounted /\ ~RoomMayShrink
    /\ Bill.ok
    => Calculate(rows', adjustments').ok

\* Bills add up, and orders stay as they can be billed.
OrdersCanBeBilled == []BillAddsUp /\ [][PricingGoesOn]_pricingVars
=============================================================================
