------------------------------ MODULE Kitchen ------------------------------
(***************************************************************************)
(* The kitchen of the POS Edge (app/kitchen): the tickets of the ordered   *)
(* lines and their way from new to served, the stock documents, stop-list  *)
(* entries and suggestions the kitchen sends, and what all of them leave   *)
(* in pos_sync_outbox.                                                     *)
(*                                                                         *)
(* The screens of the kitchen repeat a command they got no answer to, with *)
(* the same command_id and at any later time.  Every request is one        *)
(* transaction; one that is refused, or recognised as a repetition, writes *)
(* nothing.                                                                *)
(***************************************************************************)
EXTENDS Integers, FiniteSets, Sequences, FiniteSetsExt

CONSTANTS
    Line,           \* the lines that are ordered
    OrderOf,        \* the order of each line
    Suggestion,     \* suggestion_ids
    References,     \* what master data may say of the item the requests are about
    Budgets         \* bound: how many changes of status, requests and packages there
                    \* may be, in each of the scenarios

ItemType == {"dish", "good", "semi_finished", "service"}
\* One catalog item, whether it has an active recipe version, and whether the
\* restaurant has the warehouse the request names (or a default one).
Reference ==
    [type : ItemType, active : BOOLEAN, recipe : BOOLEAN, warehouse : BOOLEAN]

ASSUME KitchenAssumption ==
    /\ DOMAIN OrderOf = Line
    /\ References \subseteq Reference
    /\ Budgets \subseteq [steps : Nat, requests : Nat, packages : Nat]

VARIABLES
    status,         \* kitchen_tickets.status by line, "none" before the line is ordered
    changes,         \* kitchen_ticket_events in the order of occurred_at
    outbox,         \* the rows WriteOutbox wrote, in the order of sequence_no
    proposals,      \* kitchen_proposals
    stop,           \* the stop_lists row of the item
    reference,      \* the item, its recipe and the warehouse as last received
    left            \* what is left of the scenario's budget

kitchenVars == <<status, changes, outbox, proposals, stop, reference, left>>

TicketStatus ==
    {"new", "accepted", "in_progress", "hold", "ready", "served", "recall", "cancelled"}
Action == {"accept", "start", "hold", "ready", "serve", "recall", "cancel"}
StockEvent ==
    {"StockReceiptCaptured", "InventoryCountCaptured", "StockWriteOffCaptured",
     "ProductionCompleted"}
ReviewStatus == {"pending", "approved", "rejected", "changes_requested"}
Command == 1..Max({b.steps + b.requests : b \in Budgets})
NoProposal == [kind |-> "none", status |-> "none", command |-> 0]

\* active blocks sales; cloud stands for cloud_version IS NOT NULL.
StopEntry == [active : BOOLEAN, cloud : BOOLEAN]

KitchenInit ==
    /\ status = [l \in Line |-> "none"]
    /\ changes = <<>> /\ outbox = <<>>
    /\ proposals = [s \in Suggestion |-> NoProposal]
    /\ stop = [active |-> FALSE, cloud |-> FALSE]
    /\ reference \in References
    /\ left \in Budgets

-----------------------------------------------------------------------------
(* Commands.                                                               *)

Used == {outbox[i].command : i \in DOMAIN outbox}

\* A command_id is a new one or one that was already used.
Arrives(c) == c \in Used \/ c = Cardinality(Used) + 1

\* Mutant: nobody asks whether the command was processed.
Unchecked(c) == c \in Command
\* GetOutboxByCommandID finds nothing.  Otherwise the request is a repetition, or its
\* command_id belongs to another one: EnsureCommandNotProcessed refuses both.
Unprocessed(c) == c \notin Used

OutboxRow(c, type, aggregate, content) ==
    [command |-> c, type |-> type, aggregate |-> aggregate, content |-> content]

-----------------------------------------------------------------------------
(* Tickets.                                                                *)

\* ensureSaleAvailable; the lines are of the item the stop list is about.
SaleAvailable == ~stop.active

\* AddOrderLine writes the ticket of a line that is not a service.
AddOrderLine(l) ==
    /\ status[l] = "none"
    /\ SaleAvailable
    /\ status' = [status EXCEPT ![l] = "new"]
    /\ UNCHANGED <<changes, outbox, proposals, stop, reference, left>>

\* nextStatus: what an action makes of a ticket; an action that is not listed is refused.
Transitions ==
    {<<"new", "accept", "accepted">>, <<"new", "cancel", "cancelled">>,
     <<"accepted", "start", "in_progress">>, <<"accepted", "hold", "hold">>,
     <<"accepted", "cancel", "cancelled">>,
     <<"in_progress", "hold", "hold">>, <<"in_progress", "ready", "ready">>,
     <<"in_progress", "cancel", "cancelled">>,
     <<"hold", "start", "in_progress">>, <<"hold", "cancel", "cancelled">>,
     <<"ready", "serve", "served">>, <<"ready", "recall", "recall">>,
     <<"served", "recall", "recall">>,
     <<"recall", "start", "in_progress">>, <<"recall", "cancel", "cancelled">>}

ServedEvents(l) == {i \in DOMAIN changes : changes[i].ticket = l /\ changes[i].to = "served"}

\* CountKitchenServedEvents
CountServed(l) == Cardinality(ServedEvents(l))

\* GetLatestKitchenServedEvent, 0 for ErrNotFound.
LatestServed(l) == IF ServedEvents(l) = {} THEN 0 ELSE Max(ServedEvents(l))

\* The event, which is at the end of changes, as it goes into the outbox.
Changed(c, l, to) ==
    OutboxRow(c, "KitchenTicketStatusChanged", l,
        [event |-> Len(changes) + 1, from |-> status[l], to |-> to])
Served(c, l) ==
    OutboxRow(c, "ItemServed", l,
        [event |-> Len(changes) + 1, sequence |-> CountServed(l) + 1,
         supersedes |-> LatestServed(l)])

\* What ChangeTicketStatus writes once it knows the next status.
MoveTicket(c, l, to) ==
    /\ changes' = Append(changes, [ticket |-> l, from |-> status[l], to |-> to, command |-> c])
    /\ status' = [status EXCEPT ![l] = to]
    /\ outbox' = IF to = "served" THEN outbox \o <<Changed(c, l, to), Served(c, l)>>
                 ELSE Append(outbox, Changed(c, l, to))

\* A repetition is known by its event and answered with the ticket as it is now.
ChangeTicketStatus(c, l, action) ==
    /\ left.steps > 0 /\ left' = [left EXCEPT !.steps = @ - 1]
    /\ \A i \in DOMAIN changes : changes[i].command # c
    /\ Unprocessed(c)
    /\ \E to \in TicketStatus :
          /\ <<status[l], action, to>> \in Transitions
          /\ MoveTicket(c, l, to)
    /\ UNCHANGED <<proposals, stop, reference>>

-----------------------------------------------------------------------------
(* Documents: a row in the outbox and nothing else.                        *)

\* resolveWarehouseID finds the warehouse.
WarehouseKnown == reference.warehouse
\* ensureStockCatalogItem
KeepsStock == reference.active /\ reference.type # "service"
\* stockReceiptPayload, inventoryCountPayload and stockWriteOffPayload take a document
\* whose items can be kept in stock.
ReceiptAccepted == KeepsStock
CountAccepted == KeepsStock
WriteOffAccepted == KeepsStock
\* productionPayload
ProductionAccepted == reference.active /\ reference.type = "semi_finished" /\ reference.recipe

\* WriteOutbox with a new aggregate id; the request itself is well formed.
Capture(c, type) ==
    /\ left.requests > 0 /\ left' = [left EXCEPT !.requests = @ - 1]
    /\ Unprocessed(c)
    /\ WarehouseKnown
    /\ outbox' = Append(outbox, OutboxRow(c, type, Len(outbox) + 1, "document"))
    /\ UNCHANGED <<status, changes, proposals, stop, reference>>

CaptureStockReceipt(c) == ReceiptAccepted /\ Capture(c, "StockReceiptCaptured")
CaptureInventoryCount(c) == CountAccepted /\ Capture(c, "InventoryCountCaptured")
CaptureStockWriteOff(c) == WriteOffAccepted /\ Capture(c, "StockWriteOffCaptured")
CompleteProduction(c) == ProductionAccepted /\ Capture(c, "ProductionCompleted")

-----------------------------------------------------------------------------
(* The stop list.                                                          *)

\* UpsertLocalStopListEntry: a block of the Cloud is not lifted here; anything else
\* the kitchen writes replaces the entry and makes it a local one.
LocalEntry(active) ==
    IF stop.active /\ stop.cloud /\ ~active THEN stop
    ELSE [active |-> active, cloud |-> FALSE]

UpdateStopList(c, active) ==
    /\ left.requests > 0 /\ left' = [left EXCEPT !.requests = @ - 1]
    /\ Unprocessed(c)
    /\ WarehouseKnown
    /\ stop' = LocalEntry(active)
    /\ outbox' = Append(outbox, OutboxRow(c, "StopListUpdated", Len(outbox) + 1, active))
    /\ UNCHANGED <<status, changes, proposals, reference>>

\* UpsertMasterStopListEntry: a package of the Cloud replaces the entry.
ApplyStopList(active) ==
    /\ left.packages > 0 /\ left' = [left EXCEPT !.packages = @ - 1]
    /\ stop' = [active |-> active, cloud |-> TRUE]
    /\ UNCHANGED <<status, changes, outbox, proposals, reference>>

-----------------------------------------------------------------------------
(* Suggestions.                                                            *)

\* replayedProposalCommand: no proposal has the command, nor has the outbox.
Unsuggested(c) == Unprocessed(c) /\ \A r \in Suggestion : proposals[r].command # c

\* The suggestion_id is the key of kitchen_proposals.
Suggest(c, s, kind, type) ==
    /\ left.requests > 0 /\ left' = [left EXCEPT !.requests = @ - 1]
    /\ Unsuggested(c)
    /\ proposals[s] = NoProposal
    /\ proposals' = [proposals EXCEPT
           ![s] = [kind |-> kind, status |-> "pending_sync", command |-> c]]
    /\ outbox' = Append(outbox, OutboxRow(c, type, s, kind))
    /\ UNCHANGED <<status, changes, stop, reference>>

CreateCatalogSuggestion(c, s) ==
    Suggest(c, s, "catalog", "CatalogItemChangeSuggested")

\* validateRecipeSuggestion: a new recipe is for a dish or a semi-finished item, a
\* change is for an active recipe version.
RecipeMayBeSuggested(action) ==
    IF action = "create_recipe"
    THEN reference.active /\ reference.type \in {"dish", "semi_finished"}
    ELSE reference.recipe

CreateRecipeSuggestion(c, s, action) ==
    /\ RecipeMayBeSuggested(action)
    /\ Suggest(c, s, "recipe", "RecipeChangeSuggested")

\* mapProposalFeedbackStatus
FeedbackStatus(review) == IF review = "pending" THEN "synced" ELSE review

\* ApplyKitchenProposalFeedback: by id and kind, nothing when there is no such row.
ApplyFeedback(s, kind, review) ==
    /\ left.packages > 0 /\ left' = [left EXCEPT !.packages = @ - 1]
    /\ proposals' = [proposals EXCEPT ![s].status =
           IF proposals[s].kind = kind THEN FeedbackStatus(review) ELSE @]
    /\ UNCHANGED <<status, changes, outbox, stop, reference>>

\* The catalog, recipes and inventory packages replace what the Edge knew.
ApplyReference(r) ==
    /\ left.packages > 0 /\ left' = [left EXCEPT !.packages = @ - 1]
    /\ reference' = r
    /\ UNCHANGED <<status, changes, outbox, proposals, stop>>

-----------------------------------------------------------------------------
(* The queue the kitchen sees.                                             *)

Order == {OrderOf[l] : l \in Line}
TicketsOf(o) == {l \in Line : OrderOf[l] = o /\ status[l] # "none"}
Having(tickets, statuses) == {l \in tickets : status[l] \in statuses}

\* computeOrderStatus
OrderStatus(tickets) ==
    LET active == Having(tickets, TicketStatus \ {"cancelled"})
        In(s) == Having(active, {s})
    IN  IF active = {} THEN "cancelled"
        ELSE IF In("served") = active THEN "served"
        ELSE IF In("served") # {} THEN "partially_served"
        ELSE IF In("ready") = active THEN "ready"
        ELSE IF In("ready") # {} THEN "partially_ready"
        ELSE IF In("hold") \cup In("recall") # {} THEN "mixed"
        ELSE IF In("in_progress") # {} THEN "in_progress"
        ELSE IF In("accepted") # {} THEN "accepted"
        ELSE "queued"

\* buildOrderQueue without a filter: the orders with tickets, less those that are done.
OrderQueue ==
    {o \in Order : TicketsOf(o) # {} /\ OrderStatus(TicketsOf(o)) \notin {"served", "cancelled"}}

-----------------------------------------------------------------------------
CommandStep(c) ==
    \/ \E l \in Line, action \in Action : ChangeTicketStatus(c, l, action)
    \/ CaptureStockReceipt(c)
    \/ CaptureInventoryCount(c)
    \/ CaptureStockWriteOff(c)
    \/ CompleteProduction(c)
    \/ \E active \in BOOLEAN : UpdateStopList(c, active)
    \/ \E s \in Suggestion :
          \/ CreateCatalogSuggestion(c, s)
          \/ \E action \in {"create_recipe", "change_quantity"} :
                CreateRecipeSuggestion(c, s, action)

KitchenNext ==
    \/ \E c \in Command : Arrives(c) /\ CommandStep(c)
    \/ \E l \in Line : AddOrderLine(l)
    \/ \E active \in BOOLEAN : ApplyStopList(active)
    \/ \E s \in Suggestion, kind \in {"catalog", "recipe"}, review \in ReviewStatus :
          ApplyFeedback(s, kind, review)
    \/ \E r \in References : ApplyReference(r)

-----------------------------------------------------------------------------
(* Properties.                                                             *)

\* The rows of kitchen_ticket_events.
Change == [ticket : Line, from : TicketStatus, to : TicketStatus, command : Command]
EventType ==
    {"KitchenTicketStatusChanged", "ItemServed", "StopListUpdated",
     "CatalogItemChangeSuggested", "RecipeChangeSuggested"} \cup StockEvent

\* Every variable holds values its columns admit (the CHECKs of kitchen_tickets,
\* kitchen_ticket_events and kitchen_proposals).
KitchenTypeOK ==
    /\ status \in [Line -> TicketStatus \cup {"none"}]
    /\ changes \in Seq(Change)
    /\ \A i \in DOMAIN outbox :
          outbox[i].command \in Command /\ outbox[i].type \in EventType
    /\ proposals \in [Suggestion ->
           [kind : {"none", "catalog", "recipe"},
            status : {"none", "pending_sync", "synced"} \cup (ReviewStatus \ {"pending"}),
            command : Command \cup {0}]]
    /\ stop \in StopEntry /\ reference \in Reference

\* The ItemServed rows of a ticket, which the Cloud takes stock from, form one chain:
\* numbered without gaps, each but the first superseding its predecessor, so that
\* exactly one of them is superseded by none (recall and serve again).
ServesFormOneChain ==
    \A l \in Line :
        LET rows == {i \in DOMAIN outbox :
                        outbox[i].type = "ItemServed" /\ outbox[i].aggregate = l}
            Content(i) == outbox[i].content
        IN  /\ {Content(i).sequence : i \in rows} = 1..Cardinality(rows)
            /\ \A i \in rows :
                  IF Content(i).sequence = 1 THEN Content(i).supersedes = 0
                  ELSE \E j \in rows : /\ j < i
                                       /\ Content(j).sequence = Content(i).sequence - 1
                                       /\ Content(j).event = Content(i).supersedes

\* A command has one effect, however often and with whatever request its id comes
\* again: its rows are about one aggregate, and there is one of a type.
OneEffectPerCommand ==
    \A i, j \in DOMAIN outbox :
        i < j /\ outbox[i].command = outbox[j].command =>
            /\ outbox[i].type = "KitchenTicketStatusChanged" /\ outbox[j].type = "ItemServed"
            /\ outbox[i].aggregate = outbox[j].aggregate /\ j = i + 1

\* Repetitions, recalls and serves leave the Cloud what it can take stock from.
OutboxTellsTheServes == ServesFormOneChain /\ OneEffectPerCommand

\* An order leaves the queue of the kitchen exactly when none of its tickets needs the
\* kitchen any more, whatever mix of statuses its other tickets are in.
QueueShowsUnfinishedOrders ==
    OrderQueue = {OrderOf[l] : l \in Having(Line, TicketStatus \ {"served", "cancelled"})}

\* The kitchen and those who hear of it agree: the Cloud by the outbox, the cooks by the
\* queue.
KitchenIsHeard == OutboxTellsTheServes /\ QueueShowsUnfinishedOrders
=============================================================================
