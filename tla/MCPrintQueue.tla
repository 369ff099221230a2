---------------------------- MODULE MCPrintQueue ----------------------------
(* Print routes for the instances of PrintQueue.                              *)
EXTENDS PrintQueue

Goes(one, two) == [p \in Printer |-> IF p = 1 THEN one ELSE two]
Layout(check, ticket) == [d \in Document |-> IF d = "check" THEN check ELSE ticket]

\* Check and ticket share a printer; or the check goes to both printers and
\* nobody set up a route for tickets.
MCRoutes == {Layout(Goes("required", "none"), Goes("required", "none")),
             Layout(Goes("required", "optional"), Goes("none", "none"))}

\* A document's routes are removed, or set up again on the first printer.
MCSetup == {Goes("none", "none"), Goes("required", "none")}
=============================================================================
