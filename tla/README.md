# A verification development of mh-pos

mh-pos is a restaurant point-of-sale system: a POS Edge backend per restaurant
(`pos-backend`, Go, one SQLite file, no dependence on the network while it sells),
a Cloud backend (`cloud-backend`, Go, PostgreSQL) that keeps the master data, receives
the events of all Edges, moves stock and feeds ClickHouse, a licence server, packages
they share (`shared/platform`) and web clients. This directory holds TLA+ specifications
of what these processes do, TLC configurations that check them on small instances, and
proofs checked by TLAPS.

    tlc -config PosSalesBills.cfg MCPosSales      # one run, see the table in section 3
    tlapm MoneyProofs.tla                         # one proof module

`PROJECT.json` lists the components, the hazards of the code line by line with the
properties that guard them, the runs, a mutant for every property, and the lines of the
source that every definition stands for.

## 1. The system

| Part | State | Operations | Interacts with | What is hard | Module |
|---|---|---|---|---|---|
| Shifts, cash sessions (`app/shift`, `app/cash`) | `shifts`, `cash_sessions` | open, close | a payment finds its session by device, an order its shift by waiter | guards by device on one side, by shift on the other | PosSales |
| Orders (`app/order`) | `orders`, `order_lines` | create, add, edit, void, close | prechecks lock them, payments close them | which device may write when | PosSales |
| Pricing (`app/pricing`, `domain/pricing`) | discounts, surcharges, policies | add, calculate | prices an order for its precheck | rounding, order of adjustments, adjustments that outlive their target | Pricing |
| Prechecks (`app/precheck`) | `prechecks` | issue, cancel | freeze price and order | cancel and reissue with payments under way | PosSales |
| Payments and checks (`app/check/service.go`) | `payments`, `checks` | capture, refund | closes order, issues tickets, queues prints | partial and final payment, date read before the transaction | PosSales |
| Financial operations (`financial_operations.go`) | operations and items | cancellation, refund | draw on the check | mixes of both by check, line and payment; the financial boundary | FinancialOperations |
| Unconfirmed checks (`cancel_unconfirmed.go`) | several of the above | cancel the order of a check the printer never confirmed | tickets, ledger, order, outbox | races with the printer | PosSales |
| Print queue (`app/print`) | `print_jobs`, targets | enqueue, claim, send, retry, rebuild | confirms checks | crash between paper and database | PrintQueue |
| Receipts (`shared/platform/receipt`) | a parser's stack | parse, render, lay out | Edge prints, Cloud previews | wrappers over lines, scopes | Receipts |
| Kitchen (`app/kitchen`) | tickets, their events, proposals, stop list | statuses, stock commands, suggestions, feedback | orders, outbox, Cloud inventory | repeated commands, recall and serve again | Kitchen |
| Outbox and sender (`outbox.go`, `syncsender`) | `pos_sync_outbox` | write, claim, exchange, mark, retry, reclaim | Cloud intake | everything a network and a dying process can do | EventDelivery |
| Cloud intake and books (`cloudsync`) | receipts, inbox, projections | exchange, receive, project | sender, inventory queue | duplicates, overlapping requests, any order | EventDelivery, CloudBooks |
| Cloud inventory (`inventory`) | queue, ledger, balances, jobs | process event, recalculate | intake, master data | retries of half-done work | CloudInventory |
| OLAP (`olap`) | export marks, checkpoint, backfill job | claim, insert, mark, back off | ledger, ClickHouse | several forwarders, one archive | Olap |
| Cloud master data (`masterdata`) | the tenant's rows, reviews, packages | ~90 commands of managers | Edges | one command leaves what another relies on | CloudTenant, CloudFloor, CloudStaff, CloudCatalog, CloudRecipes, CloudPrint |
| Delivery of master data (`masterdata`, `cloudsync`, Edge `app/service.go`) | publications, packages, checkpoints | assemble, ask, answer, apply | all that reads master data | handlers side by side, lost exchanges | MasterDelivery |
| Intake of master data (`app/mastersync`) | the Edge's copy | take a package or a snapshot | Edge tables and their foreign keys | order, repetition, partial snapshots | Ingest |
| Authentication (`app/auth`) | sessions, limiter | login, logout | all commands | windows, lockouts, overlapping requests | Access |
| Provisioning (`app/provisioning`, Cloud `provisioning`) | tokens, codes, state row | register, assign, poll, pair | licence server, delivery | tokens shown once, stale copies | Pairing |
| Storage (`app/storage`) | archives, manifests | export, verify, apply | sales, outbox | what is read between transactions | Storage |
| Licences (`licensegate`, `license-server`) | snapshots, cache | put, require | gates commands, streams, events | shared cache, grace, fallbacks | Licence |
| Migrations (`platform/sqlite`, `platform/postgres`) | marks, version, lock | start, back up, migrate | every process | several versions start at once, backups named by the second | Upgrade |

Every Edge command is one `BEGIN IMMEDIATE` transaction on the only SQLite connection
(`platform/sqlite/tx.go`), so two commands never interleave inside. What does interleave:
the clock, which commands read before they wait for that connection; workers, whose
iterations are sequences of transactions; reads made before a transaction
(`RefundPayment`, `ResetPrintJob`, archive plans); handlers of the Cloud, whose commands
are sequences of transactions, too; several processes over one PostgreSQL. What fails: the
process between two transactions or within a backup, the network, a call of the database or of ClickHouse,
the licence server, the printer.

What makes the parts correct, in short: work never outlives its shift; order, prechecks,
check and tickets agree; what is paid is what was asked and what was asked is what the
lines cost, to the unit; compensation never exceeds the check; a finished sale is never
rewritten, nor archived before it is over; an event is counted once in the Cloud whatever
happens on its way; stock moves once for what was served, and the books agree with the
till; what the managers write reaches an Edge whole and in order, and the Edge takes it;
a check counts as printed only if it is on paper; a node keeps its token; a revoked
licence is obeyed; a database says truly how far it was migrated.

## 2. Modules

    CheckLedger   what the compensations of one check promise (abstract)
      ^ implemented by   FinancialOperations (one check), PosSales (every order)
    EventJournal  what delivery promises (abstract)
      ^ implemented by   EventDelivery;   used by   CloudBooks
    PaperTrail    what a print confirmation promises (abstract)
      ^ implemented by   PrintQueue
    MasterCopy    what a restaurant's copy of a stream promises (abstract)
      ^ implemented by   MasterDelivery

    Money        = CloudBooks (extends PosSales) | FinancialOperations | Pricing
    MasterData   = CloudFloor | CloudStaff | CloudCatalog | CloudRecipes | CloudPrint
                   | MasterDelivery | Ingest, over CloudTenant
    Premises     = Pairing | Access | Kitchen | Storage
    CloudWorkers = CloudInventory | Olap
    MCFoundations = Upgrade | Licence | Receipts

The last five put components side by side: a behaviour is about one *area*, chosen at the
start, and the components of the others rest. They share a run because what they share in
the program (a tenant's rows, a process, the premises) is modelled in each where it is
used. MC modules give TLC its instances; `...Proofs` hold proofs. "One
command is one step" holds for every module unless its paragraph says else.

### The till

**PosSales** is the cash desk. A variable is a table, an action a command; a command that
returns an error rolls back and is no step. Ids are drawn from finite pools. The content
of a line is a number (quantity and modifiers together), `Price` a constant function of
the basket and the discounted lines, so the properties hold for *any* calculator that
charges nothing for an empty basket; `Rejected` is its error. `ledger` keeps the two sums
of `financial_operations`. `Clock` is the date of a command that waited: it may be
yesterday's. `PrintDocument` and `ConfirmCheckPrint` are the two transactions at the end
of a print job; nothing obliges the second to follow.

**CheckLedger** has a total set once, two accumulating sums within it, and a flag without
which no refund is added. It says nothing of late cancellations: the code lets a command
that waited over midnight cancel, and `CancelUnconfirmedOrder` under a later shift. **FinancialOperations** details one check: items by scope,
the limits per line amount, quantity and payment, kinds, and calls of `RefundPayment` that
choose the kind from sums read outside their transaction. The boundary of
`ensureFinancialBoundary` is one variable. Explicit snapshots on lines carry no quantity
(a bound); the scopes without limits of their own are one.

**Pricing** is the calculator (`domain/pricing`) and the commands that feed it: lines with
quantities and options of a menu whose prices change, line and order discounts and
surcharges, fixed or percentage, in their application order, policies, rounding half up,
the allocation of an order discount by largest remainder, exclusive, inclusive and
compound taxes. What a surcharge added to a line cannot be taken off it again: the
calculator fails when a line's discounts exceed the line's own price (`currentLineAmount`),
though the discount itself was compared with the price and the surcharge. Tax profiles are constant, there is one currency, amounts are far below
2^63.

**CloudBooks** extends PosSales: each command writes its events in its own step, and the
Cloud books them one at a time, in any order, as EventJournal allows; booking applies the
two projections. Only the events that those projections read and the three of
`CancelUnconfirmedOrder` are kept.

**PrintQueue** is the print queue of one closed check and its tickets. `born` stands for
the `created_at` and id of a row, so that a row and its replacement differ. `worker` is
what `ProcessNextPrintJob` has in hand, one phase per transaction or send. `Expire` is the
context of `RunOnce`, whose `SendTimeout` spans the iteration. `Crash` restarts the
process; rows in `processing` stay. A rebuild reads the routes (`ReadRoutes`) before the
transaction that replaces the targets (`ResetPrintJob`). `paper` is what came out of a
printer, whatever was recorded. PaperTrail says what the confirmation may conclude from it.

**Receipts** is the receipt template language: the parser's stack of open wrappers line by
line, the engine's scopes, and the widths of columns. A line is a sequence of pieces
(wrapper opened or closed, text with a field). Style directives, codes, images, money
formatting, code pages and the bytes of a printer are left out.

### The premises

**Kitchen** has the tickets of ordered lines and their events, the outbox rows of serves
with their sequence and what they supersede, stock documents, the stop list that refuses
new lines, suggestions and their feedback, and the deduplication of repeated commands. The
scenario's budget bounds requests, ticket steps and packages.

**Storage** exports the closed sales of old business days to an archive, one query at a
time, verifies it, and applies it in one transaction, while the till sells, refunds and
sends, the business date passes, files are damaged and the process stops. A check stands
for its whole sale, a shift and its session for one till. VACUUM is left out; status, dry
run, plans and lookups only read.

**Access** is `PinLogin`: overlapping requests read the clock, ask the limiter, wait for
the database, fail or succeed. **Pairing** is provisioning: a worker and an operator's
handler hold a copy of the row `edge_provisioning_state` and write it back whole; the
Cloud makes tokens and keeps their hash; a code is found through the licence server and
consumed once. One Edge, one restaurant.

### Events in the Cloud

**EventDelivery** is one Edge and the Cloud. Each transaction is one action. An iteration
(`worker`) claims, triages row by row, sends a request, takes the answer or gives up,
marks row by row. Up to `Exchange` requests run in the Cloud at once; those the worker gave
up on go on. The licence authority answers Edge and Cloud independently. `ReclaimAfter`
(5 minutes) is far longer than an iteration, hence rows in hand never become stale. Left
out: the single-message path used before the node has a token, the purge of sent rows (it
is in Storage), exchanges without events.

**CloudInventory** is the inventory worker: a batch is claimed, each event processed in
several transactions (document, ledger rows, balance, state, job), then one recalculation
job is run row by row. Events arrive in any order, since the Edge defers, retries and sets
aside its rows one by one. Calls fail, an answer may be lost after its commit, and the
process stops anywhere. A call that fails before anything is written either leaves the event
to be retried or fails the document for good (`FailToPrepare`): which one depends on the
call, and the model allows both for each. A recipe has an active version or legacy items; the closure of a
recalculation reads both tables, as the code does. Quantities are small numbers, one
business day; a document's own costing status is left out.

**Olap** has the forwarder of raw events (locks and marks row by row), that of stock moves
(a checkpoint), the operator's retry and the backfill job. Instead of a clock there is the
order in which the runs under way have read it, as a set of pairs, never two in one
millisecond: ties would let the older costs be shown. ClickHouse is external and shows the version stamped last.

### Master data

**CloudTenant** has what the areas share: restaurants, row lifecycles, the managers'
budget. **CloudFloor**, **CloudStaff**, **CloudCatalog**, **CloudRecipes** and
**CloudPrint** are the commands of `masterdata/app`, one action each with its guards, and
the checks by which the Edge would refuse a row. Names, codes and their uniqueness, units
and sort orders are left out. The rights of a role are `organization.manage`.
A command reads through the pool, checks, and writes one row whole with an `UPDATE` that
asks for nothing but the id. In CloudFloor and CloudStaff, where the checks are about other
rows, these are two steps: a command settles on the row it is going to write (`Settle`,
`SettleStaff`), up to `Overlap` commands do so at once, and `WriteFloor` and `WriteStaff`
write it later, whatever others have written meanwhile; `missed` remembers which rows those
were. In the other areas a command checks its own row and is one step, so races of two
managers on one row are not covered there, except for reviews, whose effects are
transactions of their own (CloudRecipes).

**MasterDelivery** assembles packages (`refreshDeliveryPackages`): a publication is
numbered, then read stream by stream while other handlers commit; the Edge's exchange asks
with its checkpoints, gets at most `MaxPackages` changed packages (3 in the code), applies
them one by one and reports. The rows of a stream are a count of changes, so contents that
return to an earlier value (equal fingerprints) do not occur. **MasterCopy** promises that
a copy was the Cloud's at some time and never goes back.

**Ingest** is `mastersync/service.go`: a message of one stream or a snapshot of many is
validated, written table by table in the code's order under foreign keys, and what a
snapshot leaves out is suspended. A row is its key, the keys it names, its restaurant and
whether it is sound; tables are written in the order of `WriteOrder`, rows of one table as
they come in the message, and of two rows of one key the later stays. Unique names, modes of
sections and active flags are left out.

### Below all of them

**Upgrade** is the start of processes of several versions on SQLite or PostgreSQL:
inspection, decisions before the lock, backup, lock, files one by one, verification,
version. Files only add to the schema. A backup is named after its versions and the second
it is begun in. PostgreSQL's is emptied when it is opened and written table by table
(`OpenPostgres`, `BackupPostgres`), so a restart or a twin in the same second writes over a
good copy. SQLite's is refused when it exists, made whole, and removed when it fails
(`FailSqlite`), though it may be another process's by then; who still writes it writes a
file without a name (`unlinked`). `reused` remembers that a name was begun twice, `hasty`
that a process went on which one of *another* version had overtaken. The clock stands still
after `LastSecond`, and nothing stops in its last second. In the run, to keep it small, only
a database of SQLite may be of before there were versions. **Licence** is `Client.Require` step by step for
requests that share a cache and a grace flag, the authority with its fallbacks, and
operators whose check and save are apart. One module is followed; accounts are left out.

## 3. Runs

| Run | Instance | Shows |
|---|---|---|
| PosSalesBills | 1 device, 2 employees, 1 order, 2 lines with contents 1..2, 2 prechecks, 2 payments, 2 dates | PrecheckFollowsOrder, BillMatchesBasket, MoneyIsAccounted, TicketsOfPaidLines |
| PosSalesTills | 2 devices, 2 employees, 1 content | WorkHasOpenShift, RefundIsPastBoundary, FinishedSaleIsFinal |
| Money | books: 2 employees with shifts, 1 order, 2 payments, 2 dates; check: total 3, one line of 2 portions, payments of 2 and 1, items up to 2; bills: 2 lines, 2 adjustments of 3 units or 50 %, a policy of 100 %, a dish for 1 or 8 with an option for 1 | BooksClose, OperationsStayInBounds, LedgersAreKept (CheckLedger, twice), OrdersCanBeBilled |
| PrintQueue | check and 1 ticket, 2 printers, 2 layouts of routes, 2 attempts, 1 retry, 1 route change | TargetsAreInOrder, SettledByItsOwnSend, ImplementsPaperTrail, EveryTargetSettles (liveness) |
| EventDeliveryBatches | 2 rows, batches of 2, 1 attempt beyond the first, 1 loss, 1 manual retry | HeldRowsStayLocked, LostRowsAreNotOvertaken, EveryRowSettles (liveness) |
| EventDeliveryOverlap | 1 row, 3 requests at once, all kinds, 2 losses | ImplementsEventJournal |
| CloudWorkers | inventory: six scenarios of four events in any order of arrival (a line served three times and closed; one served four times; late documents; counts; returns and stop lists; as many undecided operations as a batch takes), batches of 2, up to 2 failing calls, 1 lost answer, 1 stop; OLAP: 2 rows, 2 forwarders or 1 and a backfill, 1 fault | StockIsAccounted, LinesAreWrittenOffOnce, MarksTellTheArchive, WorkersFinish (liveness) |
| MasterData | 3 to 5 commands per area on 2 restaurants, 2 at once between check and write; recipes answered by 2 managers; delivery of 3 streams by 2 handlers, 1 fault, 2 packages an answer; 3 messages out of 17 to 26 | PackagesAreValid, NobodyIsLeftOut, ApprovedReviewsAreApplied, DocumentsHaveTheirTemplate, CheckpointTellsTheRows, ImplementsMasterCopy, PackagesArrive (liveness), MessagesAreTaken |
| Premises | pairing: 2 codes, a worker and an operator's handler, 1 fault; logins: 2 requests, limit 3, window 4, lockout 6, patience 2, 9 moments; kitchen: 2 lines, 3 budgets; storage: 2 sales, 1 refund, 2 days, 1 damage | TokensAgree, AssignedEdgesPair (liveness), FailuresAreBounded, KitchenIsHeard, ArchivingIsSafe |
| Foundations | upgrades: 3 processes of 2 versions, 2 files, 2 tables, both engines, 2 seconds, 1 stop; licences: 2 checks, 2 operators, 1 lost call, expiry 1, grace 1, clock 0..2; templates of up to 3 lines of 2 pieces, up to 3 columns | UpgradesAreSafe, UpgradesFinish (liveness), ChecksFollowTheAuthority, ReceiptsReadAsWritten |
| StaffPins, OlapBackfill | as MasterData, CloudWorkers | the violations of section 6 |

Properties are conjunctions where a question has several sides: BooksClose is the till, the
checks and the reports; KitchenIsHeard the chain of serves, one effect per command and the
queue; StockIsAccounted documents, balances and the jobs that complete; NobodyIsLeftOut places
and people.

*Why the bounds are enough to matter.* Two lines let one be voided beside another; two
prechecks give cancel and reissue; two payments partial and final; two dates the stale
clock and both sides of the boundary; two devices and employees every mismatch of device
and shift. One order suffices because orders only share shifts and sessions, and the
theorems cover any number. Two outbox rows are the least that can overtake, three requests
give two late ones beside a live one; `MaxAttempts` is 1 or 2 instead of 20, which only
shortens the path to suspension. A check and a ticket on one printer compete for it, one
retry gives a rebuild under a send, one route change a rebuild from routes already
replaced. Three serves give a superseded one whose successor is superseded; two units and
a check of three give a remainder. Four serves, a failed call and a late third one take a
line from stock twice (`WrittenInTurn` excepts it); two undecided operations before a batch
of two starve what is behind them (`CrowdedOut`). Two handlers give a publication numbered before and read
after another; two packages for three streams, one of them unlicensed, give a stream that
waits. Floor commands need five steps to build a point and take its table away, a role's
loss four; two commands between check and write are what it takes to switch off two points
at once. Two seconds give backups of one name and of two, and a twin in both. A limiter of three failures, a window of four moments and a request that waits
for two give a forgotten window, one begun in the past and a third within one span, and
lockouts that end inside the clock; the bound of FailuresAreBounded is met. (`Patience` is
at most half a window; in the code `busy_timeout`, five seconds, against ten minutes. A
request that waited longer could begin a window during a lockout.) Three processes of two versions give a twin that
waits for the lock and an older one that decided before. Three adjustments add no pair
of kinds that two do not have; what takes three of them (a fixed discount on the order after
one on a line after one on the order) is proved.

*Deadlock* is checked in EventDelivery. Elsewhere ids, dates or budgets run out, or there
is nothing left to do, as each cfg says.

*Fairness.* EventDelivery (`FairSpec`): the worker's loop takes its next step, a request in
the Cloud ends somehow, retry times pass, locks age; no step of success is fair, the
property holds because attempts run out. PrintQueue: the worker's transactions end and
backoff passes; neither the printer's success nor the operator's retry is fair, nor that a
send returns, because `escpos.WriteRaw` sets no write deadline, so EveryTargetSettles
assumes `SendsReturn` and excepts a printer blocked by a row in `processing` that nobody
holds. MasterData: the retry of a refresh that an exchange causes, and the Edge's exchange
loop, go on; managers need not. PackagesArrive assumes that whole packages exist in the end
and excepts streams that unlicensed or refused ones keep out of the answer. Premises: the
Edge's maintenance loop and a handler under way go on; nobody has to assign. CloudWorkers:
the inventory worker's loop, the forwarders and the backfill worker run, retries come due
and locks expire. Foundations: a start that has begun goes on, processes of the latest
version are started again (`restart: unless-stopped` of the compose files), and time passes.
In WorkersFinish an event may wait for ever behind as many operations nobody decides as a
batch takes, or behind rows a stopped worker left in `processing`: the property names both.

*Mutants.* Every property of a passing run has one: a mapped definition replaced by a
plausible bug ("Mutant:" in the comments), under which TLC finds that property violated.

## 4. Proofs

All theorems hold for every value of the constants under the assumptions each module
names (`ASSUME ...Assumption`): pools of ids are finite where the proof counts them,
limits and bounds are numbers, amounts are positive, an empty basket costs nothing, what
marks "nobody" is nobody's name. TLC checks them on every run. In each proof module an
invariant is the conjunction of named parts, most of them not inductive alone; a lemma
per action says what the action disturbs, and TLC has found the whole invariant to hold
on the run's instance before it was proved. Type correctness is part of each of them and
proved with it, as are one open row per key, CheckForFinishedOrder and CountedOnce, which
no run lists.

*PosSales* (MoneyProofs). A check is safe because its order is finished; the order is finished because
its last precheck is paid; a precheck is paid at the price of the lines because only an
open order without a live precheck is edited; and `CancelUnconfirmedOrder` finds its
order closed because a check exists. The strengthening that carries this is
`PrechecksFit`: the last precheck has the status that fits the order and all before it
were cancelled without money. Of PriceAssumption the proofs use only that an accepted
price is a natural number. FinishedSalesStay (an action property) and LedgerIsKept
(PosSales implements CheckLedger, order by order) follow from the invariant.

*Sums* (SumProofs, which has no variables). A sum over rows is `SumFunctionOnSet` of the community modules, a
recursive function on finite sets that takes away the element CHOOSE picks. Induction is
out of the prover's reach, a least counterexample is not: if some set broke a law, one of
least cardinality would, and the set without its chosen element would not. So sums exist,
do not depend on what is taken away first, agree where the functions do, grow by what is
added or changed, and count zeros for nothing.

*Payments* (MoneyProofs). `PaymentsAdd`, over all prechecks with the paid rows of each,
is inductive next to PosSales' invariant; of a closed precheck the total is what was paid,
so a check is made up of its payments.

*Operations of a check* (MoneyProofs, OperationsSpec). The invariant adds that the two
sums of operations are the sum of all and within the total. Items are places in
operations, so an item's sum grows at the places an operation brings. `LimitedOneByOne`
says when these are at most one, and then the limits that were read hold after the commit.
A call that decided on its kind before its transaction is checked again against what
remains, therefore `full` stays true, and every operation is a step of CheckLedger.

*The books* (MoneyProofs, BooksSpec). Both sides of every balance change by the amount of
the event: writing it adds to the till's rows and to what is on the way, booking it moves
the amount from there to the projection. What is hard is to say that a command writes only
the events of its rows and under the shift of its cash session. BooksSpec implements
PosSales' Spec, so PosSales' invariant is there to use. That ids of shifts and orders are
finite sets (EventsAssumption) is what makes the sums over them numbers.

*Bills* (MoneyProofs, PricingSpec). `PricingInv` is about the rows: every active line costs
what its portions and options cost, and no two adjustments have one index. The rest is
arithmetic of one calculation. A division leaves a remainder on every line that has an
amount; what is left over in all is the sum of the remainders divided by the whole, so less
than the number of these lines, and just as many come first in the order of remainders
(`FirstAreCounted`). So every unit is allocated, no line is a unit away from its share, and
none gives more than it has. By induction over the indices each bill on the way is
`Balanced`: what is taken off is on the lines, and what is added is too, unless a fixed
surcharge found nothing to be shared by. That an order goes on being priced compares the
calculation before a step with the one after it, index by index (`KeepsUp`): until an
order's discount is shared, every line has the room it had; until a line's discount follows
one, the order as a whole has; and once something is added no discount may follow. A
percentage of up to all leaves no less of a greater amount, rounded or not. Where one of
these relations ends, `RoomMayShrink` says so, which is why it has its three parts.
The proof found an error of the model: a misplaced bullet let a policy of a line be used
without being active or permitted. TLC could not, as no property is about that; and
overlapping arms of a CASE, which the prover cannot decide between, became IFs.

*EventDelivery.* The strengthening is: a row that may still be taken has attempts
left; what the worker holds fits its phase; nobody says `accepted`, or is about to,
of an event without a receipt (`VerdictsAreTrue`). The last one makes marking a row
sent a `Deliver` step of EventJournal; the unique key makes the receipt a `Book`
step; all else stutters. DeliveryIsJournalled states the implementation.

*PrintQueue.* The worker settles what it holds by key, and a rebuild may have replaced
that row while it was sending. The proof rests on `born`: rows about to be replaced, and
what a hand holds, are older than the rebuild (`RebuildsAreYounger`, `HandIsTrue`), so a
hand finds its own row or none. A job is what its targets add up to (`AggregateFits`); a
check is confirmed only when its job has succeeded, a target succeeds only after its send,
so what PaperTrail is told is on paper.

*MasterDelivery.* A publication takes its number before it reads, so one that still holds
the next number read nothing older than any publication before it
(`MasterDataProofs`). Packages are therefore truthful and in order, the checkpoint of a
stream names the package whose rows the Edge has, and every step is one of MasterCopy or
none.

*What the managers write* (MasterDataProofs). A review is approved by a call that first
writes its effects, one transaction each; the invariant (`ReviewInv`) says of every call
that each effect of its review is written or still on its list, and that the rows written
back by the calls that store or assign a review never say `approved`. Nothing an effect
wrote is taken away again, only replaced (`TablesGrow`); that a version was in use is kept
by `activated`, since another version may follow it. For the rows the Edge takes,
`PackagesInv` is one part per table: what a command checks stays true when *other* commands
change the rows it looked at, so references never lose their row, the versions of an owner
differ by their numbers and one of them is in use (`SoundVersions`; numbers are drawn as
the greatest so far plus one), and a call that will write a version has one to write
(`SoundCall`). A command between check and write promises as
long as nobody writes what it relied on: that there is another active point (a set of more
than one has one), that the employee it writes has a place, that nobody relies on the role
(`KeepsAPlace`, `SoundStaffCall`). The write of another command keeps the promise or is
missed by this one, and only a command that missed something may leave somebody out. The assumptions on constants are what the
database holds before: versions numbered apart, stop lists and reviews about items of the
tenant, lines of known recipes.

*Messages* (MasterDataProofs). `IngestInv` says of every message taken before that it still
fits and that all its rows name is there, and that no row names one of the two tables a
message may clear. A row of a message finds what it names, because tables that name others
come later in `WriteOrder`, or the earlier rows stay; the pairs for which neither holds are
the exceptions of `ComesTooEarly`. The proof failed four times against an earlier form of
the property, each time for a message the service does refuse: folders named before they
come, a printer or template that comes twice, an empty message of printers while one has a
route, and a snapshot of menu links only, which `payloadRowCount` counts as empty. They are
named in the property now. TalksAssumption says only that messages are sequences of rows.

*Kitchen.* Serves of a line in the outbox form a chain: each names the one before, and its
end is the line's latest serve, whatever was recalled between. Commands are used once, so
a repeated one writes nothing.

*Storage.* A file begun on a day has every check made before that day, and sales of a day
that is over get no more rows. If then the counts agree, what was counted is what the file
has. `archiveCountsEqual` (`app/storage/service.go:1040`) compares only numbers of rows, so
of a file of a day that is *not* over this is false: rows may be deleted by another archive
and as many others come. An earlier form of the property overlooked this; the attempt to
prove it showed it, and it now says what holds. Deleted operations cannot come back by a
repeated command because their sale never does.

*Access.* A span of a window's length is told what it has seen so far (`Tallied`): the rest
of a window that began before it; the rest of a second one, which may begin in the past
when the first is forgotten while a request let in before still waits; and one that begins
in it. A full window locks the device for longer than the span (`LocksAreLong`), so what
may follow are the requests that wait. An earlier form of the property, twice the limit
less one plus the overlapping requests, held for a limit of three and failed this proof at
the second window: with a limit of four, two requests and a wait of two moments TLC finds
one failure more. The bound stated now is met, by one request that waits across the end of
a window (with the code's limit of 5 and two requests at once, 12 failures in ten minutes).

*Pairing.* As long as no two holders of the row overlapped, the one at work has the row as
it is and knows the last token that was made; assignment and token reach the Edge in one
answer.

*Stock* (CloudWorkersProofs). `InventoryInv` says of an event whose documents say all it does
that its rows are in the ledger all at once and add up to what it says (`StockFollows`); the
event in hand has all its documents still to write or none (`TaskFollows`), whatever failed
before it was taken again. Prices that change keep rows and quantities, so balances stay true
key by key, and a valuation is settled after every row by the worst of its rows. A job goes
through its rows in the order they occurred: what it has yet to price comes after all it has
priced (`RunFollows`), so no later price reaches back. Nothing is written meanwhile, because
the one worker has no event in hand while it has a job. The proof found that an earlier form
of the model gave a document of no rows, where the code gives none, for a quantity of zero.

*Lines* (CloudWorkersProofs). What is served of a line is at all times nothing or the quantity
of one serve (`ServesStand`), though a serve is written in two documents, either of which may
be written without the worker knowing, and serves arrive in any order. A serve *leads* while
no later one has written: of it the invariant says what its rows amount to and what it has in
hand when it is tried again (`InHandOf`), and that leads to its quantity, or to a serve that
gave back what it took itself. A serve that writes behind a later one ends `WrittenInTurn`,
and the property with it. The last serve received is not superseded by one that was received,
so it is written when it is processed. The check adds what was not served when it was written
and adds nothing later (`CloseStands`). To know that rows are of the event they name, the
proof says what every row tells of its event (`RowsTell`), and sees every step of the worker
as one of five shapes: an event arrives, is taken, writes a document, is processed, or leaves
rows and lines alone (`InventoryShapes`). The conditions of the property are those the proof
needs: items of one unit of stock (`OfOneUnit`), as quantities of different components are
added up; a last serve that gives back its own quantity after a lost answer is excepted
(`GaveBack`, section 6); serves of a positive quantity that each supersede the one before
(`ServedInTurn`), as those of one ticket do; about the check, only where serves agree on the
quantity, since a check that finds nothing left writes nothing that a later serve could be
compared with.

*OLAP.* The runs under way are ordered by the clocks they read, and what a row's newer
version says is newer in every run that read later. A row that the worker or a forwarder
still holds keeps the promise made for it: what will be written is no older. Marks,
checkpoint and cursor are moved only after that, so what they promise of the archive is
there, or a later stamp is. The last row of a batch is found by counting, so finite sets of
numbers and their greatest elements are lemmas (`FirstOfIsInitial`, `LastOfIsLast`).

*Upgrade and Licence* are proved as specifications of their own, UpgradeSpec and
LicenceSpec (FoundationsProofs); MCFoundations puts them beside the receipts, whose
recursive operators the prover cannot be near. A database is secured, `Secured`, from the
moment anyone may change it: the schema of the last version is in a file that nobody is
writing. A process nobody has overtaken decided on what the last version left, copied that
table by table as long as nothing changed, or found it secured by another one
(`StartIsSound`); it needs no backup only where nothing is there or nothing is pending. While
no name is used twice, a file that is written is its writer's alone (`FilesAreApart`), so a
copy that is finished stays; that is where an earlier form, in which backups only
accumulated, said too much. A
check of a licence carries what it saw of the authority; the only ways past it are an
answer seen while it ran, or the cache when some server was not heard, or none has anything.

Only model-checked: liveness (EveryRowSettles, EveryTargetSettles, PackagesArrive,
AssignedEdgesPair, WorkersFinish, UpgradesFinish), which is out of the prover's reach;
and ReceiptsReadAsWritten, which is recursive.

## 5. Not modelled

* Reprints, cash drawer events, guests and courses, audit rows, PIN overrides: they write
  rows no property is about, next to a command that is modelled.
* Read models of Edge and Cloud, kitchen screens, OLAP summaries, storage lookups: single
  queries without effects.
* HTTP routing, decoding, web clients, the installer, scripts: no state of the system;
  what a route decides (licence filter, direct intake of messages) is with its module.
* The bytes of documents (styles, code pages, ESC/POS, SVG), PIN hashing, encryption of
  pairing requests, archive compression: conversions of data whose meaning is constant.
* Names, codes and SKUs with their uniqueness, where the Edge is stricter than the Cloud
  (section 6), overflow of 64-bit amounts, other currencies.
* The single-message path of the sender, master data created on the Edge, moving an Edge
  to another restaurant, the list of servers a licence server has seen, operators' sessions.
* Races of two managers within one command of the Cloud in the catalog, on recipes,
  printers and templates, except for reviews and packages.
* Kitchen: all ordered lines are of the item the stop list is about, and a line's quantity
  does not change while it is cooked. Storage: one till, and no command of it is repeated
  after its outbox row was purged.
  Access: one client device. Olap: equal timestamps. MasterDelivery: contents that return
  to an earlier value.

What could come next: races of two managers with names and their uniqueness, and commands
repeated after the purge.

## 6. Findings

Shown by a run:

* **StaffPins**: `CLOUD-BACKEND-SPEC.md:448` says a PIN is unique among the employees who
  are active or suspended. A PIN of an archived employee may be given to another one, and
  `ActivateEmployee` brings the first back without asking.
* **OlapBackfill**: `CLOUD-BACKEND-SPEC.md:639` says the backfill worker runs its jobs and
  exports the range again. A job whose first batch is not empty stays `running`, and only
  `queued` jobs are claimed.

Met while reading, not shown by a run of their own (some are the exceptions a property
names). Paths are below `src/pos-backend/internal/pos` (Edge) and
`src/cloud-backend/internal` (Cloud).

*The till.*
* `VoidOrderLine` (Edge `app/order/service.go:351`) leaves the line's discounts behind;
  pricing treats such a discount as an error, and no command removes one.
* A discount that comes after a surcharge is compared with what the lines amount to with
  it (`domain/pricing/calculator.go:227`), but a line must cover its discounts without it
  (`calculator.go:315`). One portion more may leave an order that cannot be priced: two
  portions for 1 with 2 off, 2 added and 50 % off amount to nothing; of three, 1 is left,
  3 with what is added, and the half of it, 2, makes discounts of 4 on a line of 3.
* Items of one operation are compared with committed operations only, so a payment named
  twice in one is exceeded (`financial_operations.go:287`, against
  `POS-BACKEND-SPEC.md:275`); the operation stays within the check.
* CounterPayment's comment says "atomically", but precheck and payment are two
  transactions (`app/service.go:645`).
* `POST /orders/{id}/close` never finds an order to close (proved, CloseOrderIsDead). A
  precheck with total zero can never be paid (`precheck.go:111`). On the day of the sale,
  with the cash session of another shift, neither cancellation nor refund is allowed
  (`financial_operations.go:400`).
* A fixed surcharge on an order that amounts to zero is in the total and on no line; an
  order discount given to an order without lines breaks pricing later; the Cloud may change
  a restaurant's currency, after which open orders cannot be priced.
* A failed send that lasts until `SendTimeout` leaves its target in `processing`
  (`RECEIPT-PRINT-SPEC.md:435` knows succeeded, pending and failed). The retry of a
  confirmation skips jobs without targets (`app/service.go:562`).
* Templates: `{if:}` or `{each:}` after a text is printed as it stands, while a `{/if}` at
  the end of that line closes an outer wrapper; the Cloud does not parse a template when it
  is saved; fixed columns wider than the paper overflow the line.

*Events.*
* The three events of a cancelled unconfirmed order are local only
  (`domain/shared/sync_boundary.go:60`, against
  `ALPHA-LAUNCH-CODEGEN-ITERATIONS.md:871`), so the Cloud keeps reporting the sale.
* Rows of a module without a licence stay retryable when the Edge sees it, but are
  suspended when the Cloud does (`cloudsync/api/router.go:634`, against
  `LICENSE-ENTITLEMENTS.md:108`); rows deferred for a licence are overtaken by younger ones.
* Inventory: a superseding serve that found nothing to give back, and whose commit is
  reported failed, gives back its own quantity when it is tried again and is never written
  off (`worker.go:605`, `INVENTORY-COSTING-SPEC.md:480`); quantities of different components
  are added up for a line; a transient read error fails a document for good; a stop between
  document and job loses the job; rows left in `processing` are never reclaimed; operations that need a decision are tried
  again at once and first (`repository.go:34`, `MarkFailed` sets no `next_retry_at`), so 25 of
  them keep the worker from everything behind them; a serve that comes late, behind the one
  after next, takes its line from stock a second time; a replaced
  recipe's items still count in the closure of a recalculation (`repository.go:426`).
* OLAP: stock moves committed out of the order of their ids are skipped; costs recalculated
  after the export never reach ClickHouse; one bad row fails its whole batch each time;
  progress and failure of a backfill overwrite its cancellation.

*Master data.*
* Printers: the Cloud takes a TCP printer without address or port, and the Edge refuses the
  whole stream; a printer with a route or a print target can never be replaced on the Edge
  (foreign keys of `print_routes` and `print_job_targets`, `001_init.sql:1130`, `1249`). A
  restaurant's own template that is no default hides the tenant's default.
* `cloud.templates.manage` is unknown to the Edge's permission catalogue, so a role that
  has it makes the Edge refuse every staff package.
* Uniqueness: names the Cloud keeps apart only among active rows are unique among all rows
  on the Edge (halls, tables, roles); swaps of two values in one package fail. A legacy
  recipe and the first published version have the same number, which the Edge's unique key
  refuses for good.
* Packages: the streams of sections and sales points are never requested though tables
  refer to sections; three changed but unlicensed packages starve all others; tenant-level
  catalog rows are not refreshed; two refreshes that take one number lose one silently.
* Intake: sections that come with a new hall precede it; a snapshot of sections and sales
  points only counts as empty, as does a menu snapshot of links only (`service.go:749`); the
  direct route compares no versions; a folder may follow its grandchild after a move in the
  Cloud.
* Reviews: approving a change to an existing ingredient fails for good (unique key), as
  does the retry of a half-applied approval; catalog and recipe suggestions may be answered
  twice; `SubmitRecipeVersion` may demote a version approved meanwhile.
* Commands: two managers who switch off the last two sales points at once leave none active,
  and a role may lose its right to all restaurants while an employee is given it
  (`masterdata/app/service.go:2336`, `859`); stale rows are written back whole.
  `UpdateRole` never refreshes the employees' permission snapshots; an archived
  restaurant stays active on its Edge; reactivating a sales point does not look at its table
  (`service.go:2320`, `EDGE-PRINT-ROUTING-SPEC.md:87`).

*The premises and below.*
* Storage: tickets with QR codes (`ticket_units`) are neither archived nor deleted, so a
  day with some can never be applied although readiness says ready; two tables are deleted
  but not exported; the purged outbox ends deduplication; the cutoff is compared with the
  UTC date.
* Provisioning: a lost answer leaves a paired Edge without a token, and maintenance stops
  once it is paired; a handler with a stale row may wipe the token; the loser of two Edges
  that use one code is assigned as well; the licence server's MarkConsumed is never called.
* Licences: a fresh "expired" may be let through because another request set the shared
  grace flag (`licensegate.go:203`, `216`), and an older answer that comes late may replace
  a revocation; a lost answer of the primary falls through to a fallback.
* Migrations: an older version started at the same time may write its version over a newer
  one, or put its checksums back and stop, after which the newer one is refused
  (`hasty` in Upgrade); a backup of PostgreSQL is not one snapshot, and one begun in the same
  second under the same name empties a good one (`postgres.go:590`); SQLite's failed copy may
  remove another process's file (`sqlite.go:927`).
* The limiter reads the clock before it waits, so a late failure may move the end of a
  lockout back, or begin a window in the past: ten minutes may see not 5 failures but 8 of
  one request at a time (the rest of a window and a full one), 12 of two that overlap.
