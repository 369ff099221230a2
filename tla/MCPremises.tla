----------------------------- MODULE MCPremises -----------------------------
(***************************************************************************)
(* Premises on a small instance: an ordinary sale, one with QR tickets and *)
(* a refund of the first; one archive; two overlapping logins; a worker    *)
(* and an operator who pair an Edge with two codes.                        *)
(***************************************************************************)
EXTENDS Premises

MCCheck == {"sale", "tickets"}
MCTicketCheck == {"tickets"}
MCOperation == {"refund"}
MCTarget == [o \in MCOperation |-> "sale"]
MCArchive == {"archive"}
MCRequest == {"login", "again"}
MCFlow == {"worker", "operator"}
MCCode == {"code", "newCode"}

MCOrderOf == [l \in Line |-> "order"]

\* An item that may be produced, and a dish without a recipe or a warehouse.
MCReferences ==
    {[type |-> "semi_finished", active |-> TRUE, recipe |-> TRUE, warehouse |-> TRUE],
     [type |-> "dish", active |-> TRUE, recipe |-> FALSE, warehouse |-> FALSE]}

\* Tickets alone, requests beside a few steps of a ticket, and packages beside requests.
MCBudgets == {[steps |-> 9, requests |-> 0, packages |-> 0],
              [steps |-> 2, requests |-> 2, packages |-> 0],
              [steps |-> 0, requests |-> 3, packages |-> 1]}
=============================================================================
