--------------------------- MODULE CloudInventory ---------------------------
(***************************************************************************)
(* The Cloud's inventory worker (cloud-backend/internal/inventory): the    *)
(* queue of events the intake fills, the stock documents made of them, the *)
(* ledger with its balances, the state of the documents of the Edge, and   *)
(* the jobs that price the ledger again after a late document.             *)
(*                                                                         *)
(* One worker runs beside the HTTP server (cmd/cloud-api): it claims a     *)
(* batch, takes its events one by one, each in several transactions, and   *)
(* then runs one job.  Any call of the database may fail, and the process  *)
(* may stop anywhere; events arrive all the while.                         *)
(***************************************************************************)
EXTENDS Integers, FiniteSets, Sequences, Functions

CONSTANTS
    Event,          \* event_ids
    Scenarios,      \* bound: what the events say and what may go wrong
    Warehouse,      \* warehouses as numbers in their order, 0 for none
    Item,           \* catalog items
    Version,        \* the lines of an item's active recipe version, <<>> for none
    Legacy,         \* its recipe items of before there were versions
    Limit           \* Config.BatchSize

SaleEvent ==
    {"CheckClosed", "ItemServed", "FinancialOperation", "StopListUpdated"}
\* isDocumentProcessingStateEvent: the documents of the Edge, whose state is kept.
DocumentEvent ==
    {"StockReceiptCaptured", "InventoryCountCaptured", "StockWriteOffCaptured",
     "ProductionCompleted"}
\* occurred_at orders the events; all are of one business day.  line is "none" for what
\* is not about an order line, supersedes and linked (the catalog item a chosen modifier
\* is linked to) are "none" for nothing.  disposition is the inventory_disposition of a
\* financial operation and the conflict_policy of a stop-list update, scope that of the
\* operation's item.
Fact == [type : SaleEvent \cup DocumentEvent, at : Nat, warehouse : Warehouse,
         item : Item, line : STRING, quantity : Nat, cost : Nat,
         linked : Item \cup {"none"}, supersedes : Event \cup {"none"},
         disposition : STRING, scope : STRING]

\* bound: how often a call fails, a commit succeeds although the worker is told that it
\* failed, and the process stops.
Fault == [calls : Nat, answers : Nat, stops : Nat]

ASSUME CloudInventoryAssumption ==
    /\ "none" \notin Event
    /\ Scenarios \subseteq [facts : [Event -> Fact], faults : Fault]
    /\ {Version, Legacy} \subseteq [Item -> Seq([component : Item, amount : Nat \ {0}])]
    /\ Limit \in Nat \ {0}

VARIABLES
    fact,           \* the events of the Edge
    queue,          \* inventory_event_queue.status, "none" before the event arrives
    batch,          \* the claimed events the worker has not taken yet
    task,           \* the event in hand and the documents still to be written
    turn,           \* which half of the worker's loop is next
    ledger,         \* stock_ledger in the order of creation
    balance,        \* inventory_stock_balances.quantity_on_hand
    valuation,      \* inventory_stock_balances.costing_status, "none" without a row
    state,          \* inventory_document_processing_state.status by event
    jobs,           \* stock_recalculation_jobs and their items by trigger event
    overlay,        \* the event whose entry stop_lists holds
    run,            \* the job in hand and the ledger rows it still has to price
    faults          \* what may still go wrong

inventoryVars == <<fact, queue, batch, task, turn, ledger, balance, valuation, state, jobs,
          overlay, run, faults>>
stock == <<ledger, balance, valuation, state, jobs, overlay>>

NoTask == [event |-> "none", documents |-> <<>>, job |-> FALSE]
NoJob == [status |-> "none", keys |-> {}, cyclic |-> FALSE]
NoRun == [event |-> "none", rows |-> {}]
Key == Warehouse \X Item

InventoryInit ==
    /\ \E s \in Scenarios : fact = s.facts /\ faults = s.faults
    /\ queue = [e \in Event |-> "none"]
    /\ batch = {} /\ task = NoTask /\ run = NoRun /\ turn = "events"
    /\ ledger = <<>> /\ balance = [k \in Key |-> 0] /\ valuation = [k \in Key |-> "none"]
    /\ state = [e \in Event |-> "none"] /\ jobs = [e \in Event |-> NoJob]
    /\ overlay = "none"

-----------------------------------------------------------------------------
(* The queue.                                                              *)

\* ShouldEnqueueInventoryEvent
Relevant(e) ==
    fact[e].type = "FinancialOperation" => fact[e].disposition # "no_stock_effect"

\* InsertEvent puts the event into the inbox and, with it, into the queue.  Events come in
\* any order: the Edge defers, retries and sets aside the rows of its outbox one by one.
Receive(e) ==
    /\ queue[e] = "none"
    /\ queue' = [queue EXCEPT ![e] = IF Relevant(e) THEN "pending" ELSE "processed"]
    /\ UNCHANGED <<fact, batch, task, turn, stock, run, faults>>

Idle == batch = {} /\ task = NoTask /\ run = NoRun

\* No other event of the warehouse is in processing.
Ready ==
    {e \in Event : /\ queue[e] \in {"pending", "failed"}
                   /\ \A f \in Event \ {e} : queue[f] = "processing" =>
                         fact[f].warehouse # fact[e].warehouse}
Earlier(e, f) ==
    \/ fact[e].warehouse < fact[f].warehouse
    \/ fact[e].warehouse = fact[f].warehouse /\ fact[e].at < fact[f].at

\* Mutant: one event less than the limit.
PickedLess == {e \in Ready : Cardinality({f \in Ready : Earlier(f, e)}) < Limit - 1}
\* The ids the claim picks: what failed before is as good as what is new.
Picked == {e \in Ready : Cardinality({f \in Ready : Earlier(f, e)}) < Limit}

\* ClaimPending; RETURNING promises no order, so the batch is a set.
ClaimPending ==
    /\ Idle /\ turn = "events"
    /\ batch' = Picked
    /\ queue' = [e \in Event |-> IF e \in Picked THEN "processing" ELSE queue[e]]
    /\ turn' = IF Picked = {} THEN "jobs" ELSE turn
    /\ UNCHANGED <<fact, task, stock, run, faults>>

-----------------------------------------------------------------------------
(* The documents of an event.                                              *)

Row(e, source, item, line, movement, quantity, cost) ==
    [event |-> e, source |-> source, key |-> <<fact[e].warehouse, item>>, line |-> line,
     movement |-> movement, quantity |-> quantity, cost |-> cost, at |-> fact[e].at,
     costing |-> IF movement = "IN" /\ cost > 0 THEN "final" ELSE "estimated"]

\* The quantities of some of the rows.
SumOf(rows, some) == SumFunctionOnSet([i \in DOMAIN rows |-> rows[i].quantity], some)

RowsOfLine(line, source, movement) ==
    {i \in DOMAIN ledger : /\ ledger[i].line = line /\ ledger[i].source = source
                           /\ ledger[i].movement = movement}

\* ListServedOrderLineQuantities: what the served events took from stock for the line,
\* whatever items it was.
Served(line) ==
    SumOf(ledger, RowsOfLine(line, "ItemServed", "OUT"))
    - SumOf(ledger, RowsOfLine(line, "ItemServedCompensation", "IN"))

\* ListActiveRecipeLines: the recipe items count only where there is no active version.
RecipeOf(item) == IF Version[item] # <<>> THEN Version[item] ELSE Legacy[item]

\* expandRecipeItems: the item itself when it has no recipe.
Expand(e, source, movement, quantity) ==
    LET f == fact[e]
        recipe == RecipeOf(f.item)
    IN  IF recipe = <<>>
        THEN <<Row(e, source, f.item, f.line, movement, quantity, f.cost)>>
        ELSE [i \in DOMAIN recipe |->
                Row(e, source, recipe[i].component, f.line, movement,
                    quantity * recipe[i].amount, 0)]

\* modifierItemsFromItems: as many of the linked item as of the line itself.
Modifiers(e, source, movement, quantity) ==
    IF fact[e].linked = "none" THEN <<>>
    ELSE <<Row(e, source, fact[e].linked, "none", movement, quantity, 0)>>

\* subtractQuantity
Subtract(total, consumed) ==
    IF total > 0 /\ consumed < total THEN total - consumed ELSE 0
\* checkClosedDeltaItems
DeltaQuantity(e) == Subtract(fact[e].quantity, Served(fact[e].line))

\* checkClosedDocument: what was not served yet.
CheckClosedDocuments(e) ==
    LET rest == DeltaQuantity(e)
    IN  IF rest = 0 THEN <<>>
        ELSE <<Expand(e, "CheckClosed", "OUT", rest)
               \o Modifiers(e, "CheckClosed", "OUT", rest)>>

\* HasSupersedingServedEvent looks into the inbox.
Superseded(e) == \E f \in Event : fact[f].supersedes = e /\ queue[f] # "none"

\* One document of a positive quantity, else none.
Positive(e, source, movement, quantity) ==
    IF quantity > 0 THEN <<Expand(e, source, movement, quantity)>> ELSE <<>>

\* supersedingItemServedDocuments: what was served before goes back first.
SupersedingDocuments(e) ==
    Positive(e, "ItemServedCompensation", "IN", Served(fact[e].line))
    \o Positive(e, "ItemServed", "OUT", fact[e].quantity)

\* effectiveServedQuantity
EffectiveQuantity(e) == Subtract(fact[e].quantity, Served(fact[e].line))

\* Mutant: a serve that supersedes another one is written off beside it.
ServedAgain(e) == <<Expand(e, "ItemServed", "OUT", fact[e].quantity)>>
\* itemServedDocuments
ItemServedDocuments(e) ==
    IF Superseded(e) THEN <<>>
    ELSE IF fact[e].supersedes # "none" THEN SupersedingDocuments(e)
    ELSE Positive(e, "ItemServed", "OUT", EffectiveQuantity(e))

Plain(e, movement) ==
    LET f == fact[e]
    IN  <<<<Row(e, f.type, f.item, "none", movement, f.quantity, f.cost)>>>>

\* GetCurrentQuantity
OnHand(e) == balance[<<fact[e].warehouse, fact[e].item>>]
\* inventoryCountAdjustmentDocument: one row in the direction of the difference.
CountAdjustment(e, difference) ==
    IF difference < 0
    THEN <<Row(e, fact[e].type, fact[e].item, "none", "OUT", -difference, 0)>>
    ELSE <<Row(e, fact[e].type, fact[e].item, "none", "IN", difference, 0)>>
\* inventoryCountDocument: the difference to the balance, if there is one.
CountDocuments(e) ==
    LET difference == fact[e].quantity - OnHand(e)
    IN  IF difference = 0 THEN <<>> ELSE <<CountAdjustment(e, difference)>>

\* productionDocument: the item comes in, the components of its recipe go out.
ProductionDocuments(e) ==
    <<Plain(e, "IN")[1]
      \o (IF RecipeOf(fact[e].item) = <<>> THEN <<>>
          ELSE Expand(e, fact[e].type, "OUT", fact[e].quantity))>>

\* financialOperationInventoryItems: money alone moves no stock.
MovesStock(e) == fact[e].scope \notin {"service_charge", "tip", "payment"}

\* financialOperationDocument
OperationDocuments(e) ==
    LET movement == IF fact[e].disposition = "return_to_stock" THEN "IN" ELSE "OUT"
    IN  IF ~MovesStock(e) \/ fact[e].quantity = 0 THEN <<>>
        ELSE <<Expand(e, fact[e].type, movement, fact[e].quantity)
               \o Modifiers(e, fact[e].type, movement, fact[e].quantity)>>

\* documentsFromEvent; StopListUpdated goes to a projection of its own.
Documents(e) ==
    CASE fact[e].type = "CheckClosed" -> CheckClosedDocuments(e)
      [] fact[e].type = "ItemServed" -> ItemServedDocuments(e)
      [] fact[e].type = "FinancialOperation" -> OperationDocuments(e)
      [] fact[e].type = "StopListUpdated" -> <<>>
      [] fact[e].type = "StockReceiptCaptured" -> Plain(e, "IN")
      [] fact[e].type = "StockWriteOffCaptured" -> Plain(e, "OUT")
      [] fact[e].type = "InventoryCountCaptured" -> CountDocuments(e)
      [] fact[e].type = "ProductionCompleted" -> ProductionDocuments(e)

\* What no retry can change: a disposition a person has to decide, or a document none
\* of whose quantities is positive.
Hopeless(e) ==
    \/ fact[e].type = "FinancialOperation" /\ fact[e].disposition = "manual_review"
    \/ /\ fact[e].type \in DocumentEvent \ {"InventoryCountCaptured"}
       /\ fact[e].quantity = 0

-----------------------------------------------------------------------------
(* One event.                                                              *)

Take(e) == e \in batch /\ task = NoTask /\ batch' = batch \ {e}

\* The half of the loop that works on events ends with the batch.
TurnAfter(rest) == IF rest = {} THEN "jobs" ELSE turn

IsDocument(e) == fact[e].type \in DocumentEvent
\* A document whose state says that nothing is left to do.
Settled(e) == IsDocument(e) /\ state[e] \in {"posted", "failed"}

\* ApplyStopListUpdate: the policy of the update decides whether it replaces the entry
\* of the Cloud, even if that is of a later update.
Overlays(e) ==
    fact[e].type = "StopListUpdated"
    /\ fact[e].disposition = "edge_overlay_until_next_publication"

\* CompleteProcessingState: a document without rows is posted at once.
StateOf(documents) == IF documents = <<>> THEN "posted" ELSE "accepted"

\* What processEvent does before it writes.  A document of the Edge gets its state.
Prepare(e) ==
    /\ Take(e) /\ (Settled(e) \/ ~Hopeless(e))
    /\ \E documents \in {IF Settled(e) THEN <<>> ELSE Documents(e)} :
          /\ task' = [event |-> e, documents |-> documents, job |-> FALSE]
          /\ state' = IF Settled(e) \/ ~IsDocument(e) THEN state
                      ELSE [state EXCEPT ![e] = StateOf(documents)]
    /\ overlay' = IF Overlays(e) THEN e ELSE overlay
    /\ UNCHANGED <<fact, queue, turn, ledger, balance, valuation, jobs, run, faults>>

\* An error while the documents of a document of the Edge are put together: it is failed
\* for good (FailProcessingState).
FailDocument(e) ==
    /\ Take(e) /\ IsDocument(e) /\ ~Settled(e)
    /\ state' = [state EXCEPT ![e] = "failed"]
    /\ task' = [event |-> e, documents |-> <<>>, job |-> FALSE]
    /\ UNCHANGED <<fact, queue, turn, ledger, balance, valuation, jobs, overlay, run>>

\* BeginProcessingState
Begun(e) ==
    IF IsDocument(e) /\ state[e] = "none" THEN [state EXCEPT ![e] = "accepted"] ELSE state
\* Any other error before a document is written: the event is to be retried (MarkFailed),
\* with or without the state that was begun.
Postpone(e) ==
    /\ Take(e)
    /\ queue' = [queue EXCEPT ![e] = "failed"] /\ turn' = TurnAfter(batch')
    /\ state' \in {state, Begun(e)}
    /\ UNCHANGED <<fact, task, ledger, balance, valuation, jobs, overlay, run>>

RefuseHopeless(e) ==
    /\ Hopeless(e) /\ UNCHANGED faults
    /\ IF IsDocument(e) THEN FailDocument(e) ELSE Postpone(e)
\* A call fails, also for a document that is in order.
FailToPrepare(e) ==
    /\ faults.calls > 0 /\ faults' = [faults EXCEPT !.calls = @ - 1]
    /\ FailDocument(e) \/ Postpone(e)

\* ORDER BY occurred_at, id
Before(rows, i, j) ==
    rows[i].at < rows[j].at \/ (rows[i].at = rows[j].at /\ i < j)
Latest(rows, some) == CHOOSE i \in some : \A j \in some : ~Before(rows, i, j)

\* The costing status of a balance: that of the worst of its rows, and if all are priced,
\* of the latest.
Aggregate(rows, k) ==
    LET of == {i \in DOMAIN rows : rows[i].key = k}
        has == {rows[i].costing : i \in of}
    IN  IF "needs_recalculation" \in has THEN "needs_recalculation"
        ELSE IF "estimated" \in has THEN "estimated"
        ELSE rows[Latest(rows, of)].costing
\* refreshStockBalanceCosting
RefreshStockBalanceCosting(rows, keys) ==
    valuation' = [k \in Key |-> IF k \in keys THEN Aggregate(rows, k) ELSE valuation[k]]

Moving(rows, k, movement) ==
    {i \in DOMAIN rows : rows[i].key = k /\ rows[i].movement = movement}
\* upsertStockBalance for every row of the document.
Moved(rows) ==
    [k \in Key |-> balance[k] + SumOf(rows, Moving(rows, k, "IN"))
                             - SumOf(rows, Moving(rows, k, "OUT"))]

\* stock_documents(source_event_id, source_event_type) is unique.
Posted(rows) ==
    \E i \in DOMAIN ledger :
        ledger[i].event = rows[1].event /\ ledger[i].source = rows[1].source

\* CreateStockDocument: nothing when the document exists, else its rows, the balances
\* and the state of the document in one transaction.
WriteDocument(rows) ==
    /\ IF Posted(rows) THEN UNCHANGED <<ledger, balance, valuation>>
       ELSE /\ ledger' = ledger \o rows /\ balance' = Moved(rows)
            /\ RefreshStockBalanceCosting(ledger', {rows[i].key : i \in DOMAIN rows})
    /\ state' = IF IsDocument(task.event) THEN [state EXCEPT ![task.event] = "posted"]
                ELSE state

CreateStockDocument ==
    /\ task.documents # <<>> /\ ~task.job
    /\ WriteDocument(Head(task.documents))
    /\ task' = IF IsDocument(task.event) THEN [task EXCEPT !.job = TRUE]
               ELSE [task EXCEPT !.documents = Tail(@)]
    /\ UNCHANGED <<fact, queue, batch, turn, jobs, overlay, run, faults>>

\* recipeDependencyClosure: the items and what is made of them, as far as recipes of
\* recipes go.  Recipe items count even where a version has replaced them.
Dependents(items) ==
    {i \in Item : \E line \in Range(Version[i]) \cup Range(Legacy[i]) :
                    line.component \in items}
MadeOf ==
    LET closure[items \in SUBSET Item] ==
            IF Dependents(items) \subseteq items THEN items
            ELSE closure[items \cup Dependents(items)]
    IN  [i \in Item |-> closure[{i}]]
AffectedItems(items) == UNION {MadeOf[i] : i \in items}

\* The items and warehouses that moved after the document.
MovedLater(e, items) ==
    {ledger[i].key : i \in {j \in DOMAIN ledger : /\ ledger[j].at > fact[e].at
                                                  /\ ledger[j].key[2] \in items}}

\* A recipe that needs what it makes (the edges ValidateRecalculationDAG looks at).
Cyclic(items) == \E i \in AffectedItems(items) : i \in AffectedItems(Dependents({i}))

\* CreateRecalculationJob, once per trigger event: what is affected is marked.
CreateRecalculationJob ==
    /\ task.job
    /\ LET e == task.event
           rows == Head(task.documents)
           items == {rows[i].key[2] : i \in DOMAIN rows}
           keys == MovedLater(e, AffectedItems(items))
       IN  IF keys = {} \/ jobs[e] # NoJob THEN UNCHANGED <<jobs, ledger, valuation>>
           ELSE /\ jobs' = [jobs EXCEPT ![e] =
                      [status |-> "queued", keys |-> keys, cyclic |-> Cyclic(items)]]
                /\ ledger' = [i \in DOMAIN ledger |->
                      IF ledger[i].key \in keys
                      THEN [ledger[i] EXCEPT !.costing = "needs_recalculation"]
                      ELSE ledger[i]]
                /\ RefreshStockBalanceCosting(ledger', keys)
    /\ task' = [task EXCEPT !.documents = <<>>, !.job = FALSE]
    /\ UNCHANGED <<fact, queue, batch, turn, balance, state, overlay, run, faults>>

MarkProcessed ==
    /\ task # NoTask /\ task.documents = <<>>
    /\ queue' = [queue EXCEPT ![task.event] = "processed"]
    /\ task' = NoTask /\ turn' = TurnAfter(batch)
    /\ UNCHANGED <<fact, batch, stock, run, faults>>

MarkFailed ==
    /\ queue' = [queue EXCEPT ![task.event] = "failed"]
    /\ task' = NoTask /\ turn' = TurnAfter(batch)
    /\ UNCHANGED <<fact, batch, jobs, overlay, run>>

\* One of the two transactions fails, or the document is written and the worker is told
\* that it is not: either way the event is to be retried.
FailToWrite ==
    /\ task.documents # <<>>
    /\ faults.calls > 0 /\ faults' = [faults EXCEPT !.calls = @ - 1]
    /\ UNCHANGED <<ledger, balance, valuation, state>>
    /\ MarkFailed
LoseAnswer ==
    /\ task.documents # <<>> /\ ~task.job
    /\ faults.answers > 0 /\ faults' = [faults EXCEPT !.answers = @ - 1]
    /\ WriteDocument(Head(task.documents))
    /\ MarkFailed

-----------------------------------------------------------------------------
(* Recalculation.                                                          *)

\* ListRecalculationLedgerRows; RecalculateRow takes them in the order they occurred.
RowsToPrice(keys) == {i \in DOMAIN ledger : ledger[i].key \in keys}

\* ClaimRecalculationJob and ValidateRecalculationDAG
StartRecalculation(e) ==
    /\ Idle /\ turn = "jobs"
    /\ jobs[e].status = "queued"
    /\ IF jobs[e].cyclic
       THEN jobs' = [jobs EXCEPT ![e].status = "failed"] /\ UNCHANGED run
       ELSE /\ jobs' = [jobs EXCEPT ![e].status = "running"]
            /\ run' = [event |-> e, rows |-> RowsToPrice(jobs[e].keys)]
    /\ turn' = "events"
    /\ UNCHANGED <<fact, queue, batch, task, ledger, balance, valuation, state, overlay,
                   faults>>

NothingToRecalculate ==
    /\ Idle /\ turn = "jobs"
    /\ \A e \in Event : jobs[e].status # "queued"
    /\ turn' = "events"
    /\ UNCHANGED <<fact, queue, batch, task, stock, run, faults>>

Receipts(k) ==
    {j \in DOMAIN ledger : /\ ledger[j].key = k
                           /\ ledger[j].movement = "IN" /\ ledger[j].cost > 0}
\* Mutant: priced receipts that came after the row count as well.
PricedEver(i) == Receipts(ledger[i].key)
\* LatestCostBasis: the priced receipts before the row; the last of them counts.
Priced(i) == {j \in Receipts(ledger[i].key) : Before(ledger, j, i)}
CostBasis(i) == ledger[Latest(ledger, Priced(i))].cost

\* recalculatedCost: a priced receipt keeps its cost.
Recalculated(i) ==
    IF ledger[i].movement = "IN" /\ ledger[i].cost > 0
    THEN [ledger[i] EXCEPT !.costing = "recalculated"]
    ELSE IF Priced(i) = {}
    THEN [ledger[i] EXCEPT !.cost = 0, !.costing = "needs_recalculation"]
    ELSE [ledger[i] EXCEPT !.cost = CostBasis(i), !.costing = "recalculated"]

\* UpdateRecalculationLedgerRow, one transaction per row.
RecalculateRow ==
    /\ \E i \in run.rows :
          /\ \A j \in run.rows : ~Before(ledger, j, i)
          /\ ledger' = [ledger EXCEPT ![i] = Recalculated(i)]
          /\ RefreshStockBalanceCosting(ledger', {ledger[i].key})
          /\ run' = [run EXCEPT !.rows = @ \ {i}]
    /\ UNCHANGED <<fact, queue, batch, task, turn, balance, state, jobs, overlay,
                   faults>>

CompleteRecalculation ==
    /\ run # NoRun /\ run.rows = {}
    /\ jobs' = [jobs EXCEPT ![run.event].status = "completed"]
    /\ run' = NoRun
    /\ UNCHANGED <<fact, queue, batch, task, turn, ledger, balance, valuation, state,
                   overlay, faults>>

\* A read of the job fails: FailRecalculationJob.
FailRecalculation ==
    /\ run.rows # {}
    /\ faults.calls > 0 /\ faults' = [faults EXCEPT !.calls = @ - 1]
    /\ jobs' = [jobs EXCEPT ![run.event].status = "failed"]
    /\ run' = NoRun
    /\ UNCHANGED <<fact, queue, batch, task, turn, ledger, balance, valuation, state,
                   overlay>>

-----------------------------------------------------------------------------
\* The process stops, or an event or a job cannot be marked (RunOnce returns): what was
\* in hand keeps its status, and nobody takes it up again.
Stop ==
    /\ ~Idle
    /\ faults.stops > 0 /\ faults' = [faults EXCEPT !.stops = @ - 1]
    /\ batch' = {} /\ task' = NoTask /\ run' = NoRun /\ turn' = "events"
    /\ UNCHANGED <<fact, queue, stock>>

Work ==
    \/ ClaimPending
    \/ \E e \in batch : Prepare(e) \/ RefuseHopeless(e)
    \/ CreateStockDocument
    \/ CreateRecalculationJob
    \/ MarkProcessed
    \/ \E e \in Event : StartRecalculation(e)
    \/ NothingToRecalculate
    \/ RecalculateRow
    \/ CompleteRecalculation
Trouble ==
    \/ \E e \in batch : FailToPrepare(e)
    \/ FailToWrite
    \/ LoseAnswer
    \/ FailRecalculation
    \/ Stop

InventoryNext == (\E e \in Event : Receive(e)) \/ Work \/ Trouble

-----------------------------------------------------------------------------
(* Properties.                                                             *)

\* What an event says of stock by itself happens once or not at all, whole: not when its
\* document is failed, and when the event is processed and not failed, it did.
SaysItself(e) == fact[e].type \notin {"CheckClosed", "ItemServed", "InventoryCountCaptured"}
MovedBy(e) == SumOf(ledger, {i \in DOMAIN ledger : ledger[i].event = e})
Said(e) ==
    IF Hopeless(e) \/ Documents(e) = <<>> THEN 0
    ELSE SumOf(Documents(e)[1], DOMAIN Documents(e)[1])
DocumentsMoveStockOnce ==
    \A e \in Event : SaysItself(e) =>
        /\ MovedBy(e) \in {0, Said(e)}
        /\ state[e] = "failed" => MovedBy(e) = 0
        /\ queue[e] = "processed" /\ Relevant(e) /\ state[e] # "failed" =>
              MovedBy(e) = Said(e)

Line == {fact[e].line : e \in Event} \ {"none"}
EventsOf(l, type) == {e \in Event : fact[e].line = l /\ fact[e].type = type}
Received(l, type) == {e \in EventsOf(l, type) : queue[e] # "none"}
AllProcessed(events) == \A e \in events : queue[e] = "processed"

\* Every serve of the line is of something and supersedes the one before it, as those of
\* one ticket do.
ServedNext(l, e, f) ==
    LET serves == EventsOf(l, "ItemServed")
    IN  /\ {e, f} \subseteq serves /\ fact[e].at < fact[f].at
        /\ \A g \in serves : fact[g].at <= fact[e].at \/ fact[f].at <= fact[g].at
ServedInTurn(l) ==
    /\ \A e \in EventsOf(l, "ItemServed") : fact[e].quantity > 0
    /\ \A e, f \in EventsOf(l, "ItemServed") : fact[e].at = fact[f].at => e = f
    /\ \A e, f \in Event :
          {e, f} \cap EventsOf(l, "ItemServed") # {} =>
             (fact[f].supersedes = e <=> ServedNext(l, e, f))
\* A check has one line for a line, and there is one check.
ClosedOnce(l) == \A c, d \in EventsOf(l, "CheckClosed") : c = d
OneUnit(item) ==
    RecipeOf(item) = <<>> \/ (Len(RecipeOf(item)) = 1 /\ RecipeOf(item)[1].amount = 1)
OfOneUnit(l) == \A e \in Event : fact[e].line = l => OneUnit(fact[e].item)
SameQuantity(l) ==
    \A e, f \in EventsOf(l, "ItemServed") : fact[e].quantity = fact[f].quantity
QuantityOf(events) ==
    IF events = {} THEN 0 ELSE fact[CHOOSE e \in events : TRUE].quantity

\* No serve of the line wrote behind a later one.
WrittenInTurn(l) ==
    \A i, j \in DOMAIN ledger :
        i < j /\ {ledger[i].event, ledger[j].event} \subseteq EventsOf(l, "ItemServed") =>
           fact[ledger[i].event].at <= fact[ledger[j].event].at

\* The last of the serves, and one that was written off before it gave back what it found.
Lasting(l) ==
    LET serves == Received(l, "ItemServed")
    IN  {e \in serves : \A f \in serves : fact[f].at <= fact[e].at}
GaveBack(e) ==
    \E i, j \in DOMAIN ledger :
        /\ j < i /\ ledger[i].event = e /\ ledger[j].event = e
        /\ ledger[j].source = "ItemServed"
        /\ ledger[i].source = "ItemServedCompensation"

\* Recalled and served again, a line takes from stock what was served the last time and
\* nothing else, once every serve that was received is processed: superseded serves are
\* passed over or given back, in whatever order the serves come and are tried, and however
\* often.  And if the check is processed after the serves, it adds only what was not
\* served.  This holds for items that are one unit of stock, as the quantities of
\* different components are added up; unless the last serve gave back what it took itself,
\* after an answer that was lost; and unless a serve wrote behind a later one, as it does
\* when the serve that supersedes it has not come and the later one has.
LinesAreWrittenOffOnce ==
    \A l \in Line : ServedInTurn(l) /\ OfOneUnit(l) /\ WrittenInTurn(l) =>
        LET serves == Received(l, "ItemServed")
            closes == Received(l, "CheckClosed")
            last == QuantityOf(Lasting(l))
            settled == /\ AllProcessed(serves)
                       /\ \A e \in Lasting(l) : ~GaveBack(e)
            closing == RowsOfLine(l, "CheckClosed", "OUT")
            inOrder == \A i \in closing, j \in DOMAIN ledger :
                          ledger[j].event \in serves => j < i
        IN  /\ settled => Served(l) = last
            /\ /\ settled /\ AllProcessed(closes) /\ inOrder
               /\ SameQuantity(l) /\ ClosedOnce(l)
               => Served(l) + SumOf(ledger, closing) =
                     last + Subtract(QuantityOf(closes), last)

\* What is shown of an item is what its rows add up to, and it is shown as priced only
\* if they all are: between documents that come late, the jobs they cause, and jobs that
\* overlap, fail or stop half way.
BalancesTellTheLedger ==
    \A k \in Key :
        LET rows == {i \in DOMAIN ledger : ledger[i].key = k}
            Unpriced(i) == ledger[i].costing \in {"estimated", "needs_recalculation"}
        IN  /\ balance[k] = SumOf(ledger, Moving(ledger, k, "IN"))
                               - SumOf(ledger, Moving(ledger, k, "OUT"))
            /\ valuation[k] \in {"final", "recalculated"} <=>
                  rows # {} /\ \A i \in rows : ~Unpriced(i)

\* A job that is completed leaves every row it covers, but for priced receipts, at the
\* cost of the last priced receipt before it, or marked where there is none.
PricedAsBefore(i) ==
    LET receipts == Receipts(ledger[i].key)
    IN  \/ /\ \A j \in receipts : ~Before(ledger, j, i)
           /\ ledger[i].costing = "needs_recalculation"
        \/ \E j \in receipts :
              /\ Before(ledger, j, i) /\ ledger[i].cost = ledger[j].cost
              /\ \A other \in receipts :
                    ~(Before(ledger, j, other) /\ Before(ledger, other, i))
Completes(e) == jobs[e].status = "running" /\ jobs'[e].status = "completed"
CompletedJobsPriceTheirRows ==
    \A e \in Event : Completes(e) =>
        \A k \in jobs[e].keys : \A i \in DOMAIN ledger :
            ledger[i].key = k /\ i \notin Receipts(k) => PricedAsBefore(i)

\* Stock moves once for what documents and operations say, balances and what is shown as
\* priced follow the rows, and the rows the receipts.
StockIsAccounted ==
    /\ [](DocumentsMoveStockOnce /\ BalancesTellTheLedger)
    /\ [][CompletedJobsPriceTheirRows]_inventoryVars

\* An event that needs no decision is processed in the end, beside events that fail
\* forever, unless its warehouse is held by what the worker left in processing, or the
\* claim is full of such events: a batch is of the oldest that are ready, and an event
\* that failed is ready again at once.
InHand(e) == e \in batch \/ task.event = e
FailsForever(e) == fact[e].type = "FinancialOperation" /\ Hopeless(e)
CrowdedOut(e) ==
    Limit <= Cardinality({f \in Event : /\ queue[f] # "none" /\ FailsForever(f)
                                        /\ Earlier(f, e)})
EventsAreProcessed ==
    \A e \in Event :
        queue[e] = "pending" /\ ~FailsForever(e) ~>
            \/ queue[e] = "processed"
            \/ \E f \in Event : /\ queue[f] = "processing" /\ ~InHand(f)
                                /\ fact[f].warehouse = fact[e].warehouse
            \/ CrowdedOut(e)
=============================================================================
