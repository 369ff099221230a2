------------------------------ MODULE Premises ------------------------------
(***************************************************************************)
(* What an Edge does on the premises besides selling: it is paired with    *)
(* the Cloud, lets employees in by PIN, serves the kitchen, and archives   *)
(* old business days.                                                      *)
(* A behaviour is about one of these areas, chosen at the start; they      *)
(* share no rows but the ones modelled where they are used.                *)
(***************************************************************************)
EXTENDS Storage, Access, Pairing, Kitchen

VARIABLE area

vars == <<area, storageVars, accessVars, pairingVars, kitchenVars>>

\* What varies in an area is chosen only in a behaviour that is about it.
Init ==
    /\ area \in {"storage", "access", "pairing", "kitchen"}
    /\ StorageInit /\ AccessInit /\ PairingInit /\ KitchenInit
    /\ area # "kitchen" => left = (CHOOSE b \in Budgets : TRUE)
    /\ area # "kitchen" => reference = (CHOOSE r \in References : TRUE)

InStorage(action) ==
    /\ area = "storage" /\ action
    /\ UNCHANGED <<area, accessVars, pairingVars, kitchenVars>>
InAccess(action) ==
    /\ area = "access" /\ action
    /\ UNCHANGED <<area, storageVars, pairingVars, kitchenVars>>
InPairing(action) ==
    /\ area = "pairing" /\ action
    /\ UNCHANGED <<area, storageVars, accessVars, kitchenVars>>
InKitchen(action) ==
    /\ area = "kitchen" /\ action
    /\ UNCHANGED <<area, storageVars, accessVars, pairingVars>>

Next ==
    \/ InStorage(StorageNext) \/ InAccess(AccessNext)
    \/ InPairing(PairingNext) \/ InKitchen(KitchenNext)

\* The worker of main.go begins again every three seconds, and a handler that has begun
\* goes on: its calls answer or time out.
Fairness ==
    /\ WF_vars(InPairing(MaintainCloudProvisioning))
    /\ \A f \in Flow : WF_vars(InPairing(FlowNext(f)))

Spec == Init /\ [][Next]_vars /\ Fairness
=============================================================================
