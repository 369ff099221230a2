----------------------------- MODULE MasterData -----------------------------
(***************************************************************************)
(* The master data of a tenant, area by area: what the managers write in   *)
(* the Cloud, how it reaches a restaurant, and what its Edge takes.  A     *)
(* behaviour is about one area, chosen at the start; the commands of the   *)
(* areas do not touch each other's rows, but for the catalog, which the    *)
(* recipes are made of.                                                    *)
(***************************************************************************)
EXTENDS CloudFloor, CloudStaff, CloudRecipes, CloudPrint, MasterDelivery,
        Ingest

vars == <<tenant, floor, staff, catalog, recipes, print, deliveryVars, ingestVars>>

Init ==
    /\ TenantInit /\ FloorInit /\ StaffInit /\ CatalogInit /\ RecipesInit /\ DeliveryInit
    /\ PrintInit
    /\ IngestInit
    /\ area # "messages" => talk = 1

\* The handlers of the areas name what they leave alone of their own area only.
InFloor(action) ==
    /\ area = "floor" /\ action
    /\ UNCHANGED <<staff, catalog, recipes, print, deliveryVars, ingestVars>>
InStaff(action) ==
    /\ area = "staff" /\ action
    /\ UNCHANGED <<floor, catalog, recipes, print, deliveryVars, ingestVars>>
InCatalog(action) ==
    /\ area = "catalog" /\ action
    /\ UNCHANGED <<floor, staff, recipes, print, deliveryVars, ingestVars>>
InRecipes(action) ==
    /\ area = "recipes" /\ action
    /\ UNCHANGED <<floor, staff, print, deliveryVars, ingestVars>>
InDelivery(action) ==
    /\ area = "delivery" /\ action
    /\ UNCHANGED <<floor, staff, catalog, recipes, print, ingestVars>>
InMessages(action) ==
    /\ Command("messages") /\ action
    /\ UNCHANGED <<restaurants, floor, staff, catalog, recipes, print, deliveryVars>>
InPrint(action) ==
    /\ area = "print" /\ action
    /\ UNCHANGED <<floor, staff, catalog, recipes, deliveryVars, ingestVars>>

Next ==
    \/ InFloor(FloorNext)
    \/ InStaff(StaffNext)
    \/ InCatalog(CatalogNext)
    \/ InRecipes(RecipesNext)
    \/ InPrint(PrintNext)
    \/ InDelivery(DeliveryNext)
    \/ InMessages(IngestNext)

\* The Cloud goes on with an exchange it has begun, and so does the Edge's worker, which
\* asks anew after every exchange.  Nothing makes a manager's handler go on.
Fairness ==
    /\ WF_vars(InDelivery(RefreshNext(Retry)))
    /\ WF_vars(InDelivery(ExchangeNext))

Spec == Init /\ [][Next]_vars /\ Fairness

-----------------------------------------------------------------------------
(* Properties.                                                             *)

\* Whatever the managers write, the Edge takes the rows: each merged row the Cloud keeps
\* passes the checks of mastersync/service.go, since one that does not would hold up its
\* stream from then on.
PackagesAreValid ==
    /\ ValidSections /\ ValidTables /\ ValidPoints
    /\ CatalogPackagesAreValid
    /\ RecipePackagesAreValid
    /\ ValidPrinters

\* No command takes away what other commands rely on, but one that was overtaken between
\* its check and its write: a restaurant that can sell goes on being able to, and an
\* employee keeps a place to work, or has a role for all of them.
NobodyIsLeftOut == AlwaysAPlaceToSell /\ AlwaysAPlaceToWork
=============================================================================
