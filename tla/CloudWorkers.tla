---------------------------- MODULE CloudWorkers ----------------------------
(***************************************************************************)
(* The workers cmd/cloud-api starts beside the HTTP server: the inventory  *)
(* worker, and the forwarders and the backfill worker of OLAP.  A          *)
(* behaviour is about one of these areas, chosen at the start.  The rows   *)
(* of stock_ledger the forwarders read are modelled in Olap as they see    *)
(* them: committed, and with costs that change.                            *)
(***************************************************************************)
EXTENDS CloudInventory, Olap

VARIABLE area

vars == <<area, inventoryVars, olapVars>>

\* What varies in an area is chosen only in a behaviour that is about it.
Init ==
    /\ area \in {"inventory", "olap"}
    /\ InventoryInit /\ OlapInit
    /\ area # "inventory" => fact = (CHOOSE s \in Scenarios : TRUE).facts
    /\ area # "inventory" => faults = (CHOOSE s \in Scenarios : TRUE).faults
    /\ area # "olap" => scene = CHOOSE s \in Scenes : TRUE

InInventory(action) == area = "inventory" /\ action /\ UNCHANGED <<area, olapVars>>
InOlap(action) == area = "olap" /\ action /\ UNCHANGED <<area, inventoryVars>>

Next == InInventory(InventoryNext) \/ InOlap(OlapNext)

\* The loops go on: of the inventory worker, of a forwarder in every process, and of the
\* backfill worker.  Locks and back-offs run out.
Fairness ==
    /\ WF_vars(InInventory(Work))
    /\ \A f \in Forwarder : WF_vars(InOlap(f \in scene.forwarders /\ RunForwarder(f)))
    /\ WF_vars(InOlap(RunBackfill))
    /\ WF_vars(InOlap(RetryIsDue))
    /\ \A r \in Entry : WF_vars(InOlap(~Held(r) /\ LockExpires(r)))

Spec == Init /\ [][Next]_vars /\ Fairness

-----------------------------------------------------------------------------
(* Properties.                                                             *)

\* The workers leave no event unprocessed and no row out of the archive for good.
WorkersFinish == EventsAreProcessed /\ EveryRowIsArchived
=============================================================================
