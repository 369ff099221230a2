------------------------------- MODULE Money --------------------------------
(***************************************************************************)
(* The money of sales followed in three ways, each in behaviours of its    *)
(* own: through the events of the till into the books of the Cloud, item   *)
(* by item through the operations that compensate one check, and line by   *)
(* line through what an order costs.                                       *)
(***************************************************************************)
EXTENDS CloudBooks, FinancialOperations, Pricing

VARIABLE area            \* which of the three the behaviour follows

moneyVars == <<area, booksVars, financialVars, pricingVars>>

MoneyInit ==
    /\ area \in {"books", "check", "bill"}
    /\ BooksInit /\ OperationsInit /\ PricingInit
    /\ area # "bill" => dish = CHOOSE d \in Menu : TRUE

MoneyNext ==
    \/ area = "books" /\ BooksNext /\ UNCHANGED <<area, financialVars, pricingVars>>
    \/ area = "check" /\ OperationsNext /\ UNCHANGED <<area, booksVars, pricingVars>>
    \/ area = "bill" /\ PricingNext /\ UNCHANGED <<area, booksVars, financialVars>>

MoneySpec == MoneyInit /\ [][MoneyNext]_moneyVars

-----------------------------------------------------------------------------
(* Properties.                                                             *)

\* The ledger of CheckLedger is kept at the till, where refunds and cancellations are
\* sums, and by the operations of a check item by item, where a refund decides on its
\* kind before its transaction.
LedgersAreKept == ImplementsCheckLedger /\ OperationsKeepTheLedger
=============================================================================
