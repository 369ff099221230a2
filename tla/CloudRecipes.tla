---------------------------- MODULE CloudRecipes ----------------------------
(***************************************************************************)
(* Recipes and stop lists in the Cloud, and the reviews by which a manager *)
(* answers what the kitchens propose (masterdata/app/service.go).          *)
(*                                                                         *)
(* A review is answered in several transactions: the row is read, its      *)
(* effects are written one by one, and only then the answer is, as a whole *)
(* row.  Each is a step of its own here, the steps of two managers mix,    *)
(* and a call may stop after any of them.                                  *)
(***************************************************************************)
EXTENDS CloudCatalog

CONSTANTS
    Version,        \* ids of recipe versions; a version is reviewed under its own id
    Review,         \* ids of what the kitchens propose
    Asks,           \* what each of them asks for
    FirstVersions,  \* the versions that exist at the start; none is under review
    Portion,        \* bound: the lines of recipes, [component, quantity, loss]
    Manager,
    CommandId       \* ids of the commands that assign a review

RecipeLine == [component : Item, quantity : Int, loss : Int]
FirstRows == {v \in Version : Exists(FirstVersions[v])}

\* What the tables of recipe versions take (001_init.sql), with the numbers
\* CreateRecipeVersionDraft gives; a kitchen's quantity is not negative
\* (cloudsync/contracts/types.go).
ASSUME CloudRecipesAssumption ==
    /\ Version \cap Review = {} /\ Portion \subseteq RecipeLine
    /\ \A r \in Review :
          \/ Asks[r].kind \in {"create", "update"} /\ Asks[r].item \in Item
          \/ /\ Asks[r].kind = "stop_list" /\ Asks[r].item \in Item
             /\ Asks[r].quantity \in Nat
          \/ /\ Asks[r].kind = "change" /\ Asks[r].owner \in Item
             /\ Asks[r].changes \in Seq(RecipeLine)
    /\ IsFiniteSet(FirstRows)
    /\ FirstVersions \in [Version -> {None} \cup
          [status : {"draft", "active", "archived"}, owner : Item,
           lines : SUBSET RecipeLine, number : 1..Cardinality(FirstRows)]]
    /\ \A v \in FirstRows :
          /\ \A line \in FirstVersions[v].lines : line.quantity > 0 /\ line.loss \in 0..100
          /\ \A line, other \in FirstVersions[v].lines :
                line.component = other.component => line = other
    /\ \A v, w \in FirstRows : v # w /\ FirstVersions[v].owner = FirstVersions[w].owner =>
          /\ FirstVersions[v].number # FirstVersions[w].number
          /\ ~(FirstVersions[v].status = "active" /\ FirstVersions[w].status = "active")

VARIABLES
    recipeItems,    \* cloud_recipe_items, by owner and component
    versions,       \* cloud_recipe_versions with their lines
    stops,          \* stop_lists
    reviews,        \* cloud_catalog_suggestions, cloud_recipe_suggestions and
                    \* cloud_projection_stop_list_updates
    audit,          \* cloud_review_assignment_audit_events
    calls,          \* the handler each manager is in, between two transactions
    activated       \* the versions that have been the recipe at some time

recipes == <<recipeItems, versions, stops, reviews, audit, calls, activated>>

Idle == [op |-> "idle"]

RecipesInit ==
    /\ recipeItems = [pair \in Item \X Item |-> None]
    /\ versions = FirstVersions
    /\ stops = [i \in Item |-> None]
    /\ reviews = [r \in Review \cup Version |-> None]
    /\ audit = {}
    /\ calls = [m \in Manager |-> Idle]
    /\ activated = {v \in Version : versions[v].status = "active"}

\* A manager who is in no handler gives a command about recipes.
Begin(m) == Command("recipes") /\ calls[m] = Idle /\ UNCHANGED restaurants
\* A manager's handler goes on.
Continue(m, op) == calls[m].op = op /\ UNCHANGED tenant
End(m) == calls' = [calls EXCEPT ![m] = Idle]
Enter(m, call) == calls' = [calls EXCEPT ![m] = call]

-----------------------------------------------------------------------------
(* Recipes and stop lists.                                                 *)

\* ensureCatalogItemKind
OfKind(i, kinds) == CatalogItemAvailable(i) /\ items[i].kind \in kinds
RecipeOwner(i) == OfKind(i, {"dish", "semi_finished"})
RecipeComponent(i) == OfKind(i, {"good", "semi_finished"})

ValidPortion(line) == line.quantity > 0 /\ line.loss >= 0 /\ line.loss <= 100

\* What the table takes: an ingredient once, rows the items of which exist.
StoresRecipeItem(owner, line) ==
    /\ Exists(items[owner]) /\ Exists(items[line.component])
    /\ ~Exists(recipeItems[<<owner, line.component>>]) /\ ValidPortion(line)
WithRecipeItem(owner, line) ==
    [recipeItems EXCEPT ![<<owner, line.component>>] =
        [status |-> "kept", quantity |-> line.quantity, loss |-> line.loss]]

CreateRecipeItem(m) ==
    /\ Begin(m) /\ Open(Place)
    /\ \E owner \in Item, line \in Portion :
          /\ RecipeOwner(owner) /\ RecipeComponent(line.component)
          /\ StoresRecipeItem(owner, line)
          /\ recipeItems' = WithRecipeItem(owner, line)
    /\ UNCHANGED <<catalog, versions, stops, reviews, audit, calls, activated>>

\* UpdateRecipeItem: the kinds of the items are not asked for again.
UpdateRecipeItem(m) ==
    /\ Begin(m)
    /\ \E owner \in Item, line \in Portion :
          /\ Exists(recipeItems[<<owner, line.component>>]) /\ ValidPortion(line)
          /\ recipeItems' = WithRecipeItem(owner, line)
    /\ UNCHANGED <<catalog, versions, stops, reviews, audit, calls, activated>>

\* validateRecipeVersionLines
ValidLines(owner, lines) ==
    /\ lines # {}
    /\ \A line \in lines : ValidPortion(line) /\ line.component # owner
                           /\ RecipeComponent(line.component)
    /\ \A one, other \in lines : one.component = other.component => one = other

VersionsOf(owner) == {v \in Version : Exists(versions[v]) /\ versions[v].owner = owner}

CreateRecipeVersionDraft(m) ==
    /\ Begin(m) /\ Open(Place)
    /\ \E v \in Version, owner \in Item, lines \in SUBSET Portion :
          /\ ~Exists(versions[v]) /\ RecipeOwner(owner) /\ ValidLines(owner, lines)
          /\ versions' = [versions EXCEPT ![v] =
                [status |-> "draft", owner |-> owner, lines |-> lines,
                 number |-> Max({0} \cup {versions[w].number : w \in VersionsOf(owner)})
                            + 1]]
    /\ UNCHANGED <<catalog, recipeItems, stops, reviews, audit, calls, activated>>

NewReview == [status |-> "pending", assigned |-> FALSE]

\* SubmitRecipeVersion reads the version and puts it into the queue of reviews; one that
\* is there already stays as it is.
SubmitRecipeVersion(m) ==
    /\ Begin(m)
    /\ \E v \in Version :
          /\ versions[v].status \in {"draft", "review_pending"}
          /\ reviews' = IF Exists(reviews[v]) THEN reviews
                        ELSE [reviews EXCEPT ![v] = NewReview]
          /\ Enter(m, [op |-> "submit", version |-> v])
    /\ UNCHANGED <<catalog, recipeItems, versions, stops, audit, activated>>

\* ... and then writes the row it has read with the new status.
MarkSubmitted(m) ==
    /\ Continue(m, "submit")
    /\ versions' = [versions EXCEPT ![calls[m].version].status = "review_pending"]
    /\ End(m)
    /\ UNCHANGED <<catalog, recipeItems, stops, reviews, audit, activated>>

\* UpsertStopListEntry asks for an open restaurant and an item that is not archived,
\* UpdateStopListEntry only for the row.
UpsertStopListEntry(m) ==
    /\ Begin(m)
    /\ \E i \in Item, quantity \in Amount, active \in BOOLEAN :
          /\ Exists(stops[i]) \/ (Open(Place) /\ CatalogItemAvailable(i))
          /\ quantity >= 0
          /\ stops' = [stops EXCEPT ![i] = [status |-> "kept", active |-> active,
                                            quantity |-> quantity]]
    /\ UNCHANGED <<catalog, recipeItems, versions, reviews, audit, calls, activated>>

-----------------------------------------------------------------------------
(* Reviews.                                                                *)

\* What a review asks for; that of a version asks to publish it.
Kind(r) == IF r \in Version THEN "publish" ELSE Asks[r].kind

\* upsertSuggestionQueues and the stop-list projection: an event of the Edge is noted
\* once, whatever is sent again.
SuggestionArrives ==
    /\ Command("recipes") /\ UNCHANGED restaurants
    /\ \E r \in Review : /\ ~Exists(reviews[r])
                         /\ reviews' = [reviews EXCEPT ![r] = NewReview]
    /\ UNCHANGED <<catalog, recipeItems, versions, stops, audit, calls, activated>>

\* The transactions an approval writes: applyCatalogSuggestion, applyRecipeSuggestion and
\* the entry of the stop list.
Effects(r) ==
    CASE Kind(r) = "publish" -> <<[write |-> "version", version |-> r]>>
      [] Kind(r) = "create" -> <<[write |-> "item", item |-> Asks[r].item]>>
      [] Kind(r) = "update" -> <<[write |-> "name", item |-> Asks[r].item]>>
      [] Kind(r) = "stop_list" ->
            <<[write |-> "stop", item |-> Asks[r].item, active |-> Asks[r].active,
               quantity |-> Asks[r].quantity]>>
      [] Kind(r) = "change" ->
            [n \in 1..Len(Asks[r].changes) |->
                [write |-> "line", owner |-> Asks[r].owner, line |-> Asks[r].changes[n]]]

\* ApproveCatalogSuggestion, ApproveRecipeSuggestion and ApproveStopListUpdateReview; only
\* the last looks at the answer given before.
Approve(m) ==
    /\ Begin(m)
    /\ \E r \in Review \cup Version :
          /\ Exists(reviews[r])
          /\ Kind(r) = "stop_list" => reviews[r].status = "pending"
          /\ Enter(m, [op |-> "approve", review |-> r, row |-> reviews[r],
                       todo |-> Effects(r)])
    /\ UNCHANGED <<catalog, recipeItems, versions, stops, reviews, audit, activated>>

\* Does the database take a write?  The item of a suggestion has the code of the
\* suggestion, which is there once; ActivateRecipeVersion takes a version of any status.
Takes(e) ==
    CASE e.write = "item" -> ~Exists(items[e.item])
      [] e.write = "name" -> Exists(items[e.item])
      [] e.write = "line" -> StoresRecipeItem(e.owner, e.line)
      [] e.write \in {"version", "stop"} -> TRUE

\* The recipe of an owner becomes a version, and the one before it is put away.
ActivateRecipeVersion(v) ==
    versions' = [w \in Version |->
        CASE w = v -> [versions[w] EXCEPT !.status = "active"]
          [] w # v /\ w \in VersionsOf(versions[v].owner)
                   /\ versions[w].status = "active" ->
                [versions[w] EXCEPT !.status = "archived"]
          [] OTHER -> versions[w]]

Write(e) ==
    /\ items' = IF e.write = "item"
                THEN [items EXCEPT ![e.item] = [status |-> "published", kind |-> "dish",
                                                folder |-> "none", ticket |-> NoTicket]]
                ELSE items
    /\ recipeItems' = IF e.write = "line" THEN WithRecipeItem(e.owner, e.line)
                      ELSE recipeItems
    /\ IF e.write = "version"
       THEN ActivateRecipeVersion(e.version) /\ activated' = activated \cup {e.version}
       ELSE UNCHANGED <<versions, activated>>
    /\ stops' = IF e.write = "stop"
                THEN [stops EXCEPT ![e.item] = [status |-> "kept", active |-> e.active,
                                                quantity |-> e.quantity]]
                ELSE stops

\* The next effect of an approval; a write the database refuses ends the call, and what
\* was written before it stays.
ApplyNext(m) ==
    /\ Continue(m, "approve") /\ calls[m].todo # <<>>
    /\ LET e == Head(calls[m].todo)
       IN  IF Takes(e)
           THEN Write(e) /\ Enter(m, [calls[m] EXCEPT !.todo = Tail(@)])
           ELSE End(m) /\ UNCHANGED <<items, recipeItems, versions, activated, stops>>
    /\ UNCHANGED <<shelf, tagged, groups, options, bindings, policies, menu,
                   reviews, audit>>

\* Mutant: the answer is written before its effects.
StoreApprovalFirst(m) ==
    /\ Continue(m, "approve")
    /\ reviews' = [reviews EXCEPT ![calls[m].review] =
                      [calls[m].row EXCEPT !.status = "approved"]]
    /\ End(m)
    /\ UNCHANGED <<catalog, recipeItems, versions, stops, audit, activated>>
\* The answer, in the row as it was read.
StoreApproval(m) ==
    /\ Continue(m, "approve") /\ calls[m].todo = <<>>
    /\ reviews' = [reviews EXCEPT ![calls[m].review] =
                      [calls[m].row EXCEPT !.status = "approved"]]
    /\ End(m)
    /\ UNCHANGED <<catalog, recipeItems, versions, stops, audit, activated>>

\* reviewCatalogSuggestion, reviewRecipeSuggestion and reviewStopListUpdate
Turn(m) ==
    /\ Begin(m)
    /\ \E r \in Review \cup Version, status \in {"rejected", "changes_requested"} :
          /\ Exists(reviews[r])
          /\ Kind(r) = "stop_list" => reviews[r].status = "pending"
          /\ Enter(m, [op |-> "store", review |-> r,
                       row |-> [reviews[r] EXCEPT !.status = status]])
    /\ UNCHANGED <<catalog, recipeItems, versions, stops, reviews, audit, activated>>

StoreReview(m) ==
    /\ Continue(m, "store")
    /\ reviews' = [reviews EXCEPT ![calls[m].review] = calls[m].row]
    /\ End(m)
    /\ UNCHANGED <<catalog, recipeItems, versions, stops, audit, activated>>

\* AssignReviewItem and UnassignReviewItem, of stop-list reviews only; a command the audit
\* knows is answered from it.
Assign(m) ==
    /\ Begin(m)
    /\ \E r \in Review, command \in CommandId, assigned \in BOOLEAN :
          /\ Kind(r) = "stop_list"
          /\ command \notin audit
          /\ reviews[r].status \in {"pending", "changes_requested"}
          /\ Enter(m, [op |-> "assign", review |-> r, command |-> command,
                       row |-> [reviews[r] EXCEPT !.assigned = assigned]])
    /\ UNCHANGED <<catalog, recipeItems, versions, stops, reviews, audit, activated>>

StoreAssignment(m) ==
    /\ Continue(m, "assign")
    /\ reviews' = [reviews EXCEPT ![calls[m].review] = calls[m].row]
    /\ Enter(m, [op |-> "note", command |-> calls[m].command])
    /\ UNCHANGED <<catalog, recipeItems, versions, stops, audit, activated>>

\* appendReviewAssignmentAudit
AppendAudit(m) ==
    /\ Continue(m, "note")
    /\ audit' = audit \cup {calls[m].command}
    /\ End(m)
    /\ UNCHANGED <<catalog, recipeItems, versions, stops, reviews, activated>>

\* A call stops between two of its transactions.
CallStops(m) ==
    /\ calls[m] # Idle /\ End(m)
    /\ UNCHANGED <<tenant, catalog, recipeItems, versions, stops, reviews, audit,
                   activated>>

RecipesNext ==
    \/ ArchiveCatalogItem("recipes") /\ UNCHANGED recipes
    \/ SuggestionArrives
    \/ \E m \in Manager :
          \/ CreateRecipeItem(m) \/ UpdateRecipeItem(m)
          \/ CreateRecipeVersionDraft(m) \/ SubmitRecipeVersion(m) \/ MarkSubmitted(m)
          \/ UpsertStopListEntry(m)
          \/ Approve(m) \/ ApplyNext(m) \/ StoreApproval(m)
          \/ Turn(m) \/ StoreReview(m)
          \/ Assign(m) \/ StoreAssignment(m) \/ AppendAudit(m)
          \/ CallStops(m)

-----------------------------------------------------------------------------
(* What the Edge asks of the streams recipes, inventory_reference and      *)
(* proposal_feedback.                                                      *)

\* edgeRecipeVersions: drafts and versions under review stay in the Cloud.
DeliveredVersions == {v \in Version : versions[v].status \in {"active", "archived"}}

\* edgeRecipes: the ingredients of an owner that has no such version make one.
LegacyOwners ==
    {o \in Item : /\ \E c \in Item : Exists(recipeItems[<<o, c>>])
                  /\ \A v \in DeliveredVersions : versions[v].owner # o}

\* mapProposalFeedbackStatus
EdgeValidFeedback(r) ==
    reviews[r].status \in {"pending", "approved", "rejected", "changes_requested"}
EdgeValidStopListEntry(i) == stops[i].quantity >= 0

\* validateRecipeVersion and validateRecipeLine, and the keys of the Edge's tables
EdgeValidVersion(v) ==
    /\ versions[v].number > 0
    /\ \A line \in versions[v].lines :
          line.quantity > 0 /\ line.loss >= 0 /\ line.loss <= 100
    /\ \A line, other \in versions[v].lines :
          line.component = other.component => line = other
    /\ \A w \in DeliveredVersions \ {v} :
          versions[w].owner = versions[v].owner =>
              /\ versions[w].number # versions[v].number
              /\ ~(versions[w].status = "active" /\ versions[v].status = "active")

RecipePackagesAreValid ==
    /\ \A v \in DeliveredVersions : EdgeValidVersion(v)
    /\ \A o \in LegacyOwners, c \in Item : Exists(recipeItems[<<o, c>>]) =>
          recipeItems[<<o, c>>].quantity > 0 /\ recipeItems[<<o, c>>].loss \in 0..100
    /\ \A i \in Item : Exists(stops[i]) => EdgeValidStopListEntry(i)
    /\ \A r \in Review \cup Version : Exists(reviews[r]) => EdgeValidFeedback(r)

-----------------------------------------------------------------------------
(* Properties.                                                             *)

\* What a review asks for has been done.
Applied(r) ==
    CASE Kind(r) = "publish" -> r \in activated
      [] Kind(r) \in {"create", "update"} -> Exists(items[Asks[r].item])
      [] Kind(r) = "stop_list" -> Exists(stops[Asks[r].item])
      [] Kind(r) = "change" ->
            \A n \in DOMAIN Asks[r].changes :
                Exists(recipeItems[<<Asks[r].owner, Asks[r].changes[n].component>>])

\* The kitchen is told that a proposal is approved only when the whole of it was written,
\* whichever step the call that approved it stopped at, and whoever answered the review
\* meanwhile (ApproveCatalogSuggestion, ApproveRecipeSuggestion,
\* ApproveStopListUpdateReview).
ApprovedReviewsAreApplied ==
    \A r \in Review \cup Version : reviews[r].status = "approved" => Applied(r)
=============================================================================
