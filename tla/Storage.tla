------------------------------ MODULE Storage ------------------------------
(***************************************************************************)
(* The storage lifecycle of the Edge (pos/app/storage and                  *)
(* infra/sqlite/storage_repository.go): the manager exports the closed     *)
(* orders of old business days to a file, and applies the file, which      *)
(* deletes them from the active database.                                  *)
(*                                                                         *)
(* The database has one connection, so that the commands of the tills run  *)
(* between two queries of an export or of a plan; only the deletion is one *)
(* transaction.  A check stands for its whole sale, the order, the         *)
(* precheck, the payments and the check, whose rows do not change any more;*)
(* one event row stands for the rows of an aggregate in local_event_log    *)
(* and in pos_sync_outbox.  The shift and the cash session are one till.   *)
(***************************************************************************)
EXTENDS Integers, FiniteSets

CONSTANTS
    Check,          \* sales that may be made
    TicketCheck,    \* those that may be of QR tickets
    Operation,      \* commands of cancellations and refunds
    Target,         \* the check each of them is about
    Archive,        \* ids of archives
    LastDay,        \* bound: days the clocks reach
    MaxDamages      \* bound: crashes, and archives damaged on the disk

ASSUME StorageAssumption ==
    /\ TicketCheck \subseteq Check /\ Check \cap Operation = {}
    /\ Target \in [Operation -> Check]
    /\ LastDay \in Nat \ {0} /\ MaxDamages \in Nat

NoDay == -1
Day == 0..LastDay
Cutoff == 1..LastDay   \* nothing is older than day 0
Aggregate == Check \cup Operation

VARIABLES
    today,        \* the date of the service's clock, which is UTC
    businessDate, \* the business date of the restaurant: its zone and its boundary hour
    shift,        \* business date of the open shift and cash session, or NoDay
    checks,       \* business_date_local of the sales in the active database, or NoDay
    operations,   \* the financial operations in the active database
    events,       \* state of the aggregates' outbox rows
    units,        \* sales whose tickets are in ticket_units
    archives,     \* the files of each archive, or none
    export,       \* what ExportArchive has read so far
    plan,         \* how far BuildArchiveApplyPlan is
    damages,      \* crashes and damaged files so far
    gone,         \* history: the rows deleted, and what was known of them
    effects       \* history: how often each command has recorded an operation

storageRows == <<shift, checks, operations, events, units, effects>>
storageVars ==
    <<today, businessDate, storageRows, archives, export, plan, damages, gone>>

Idle == [phase |-> "idle"]
NoArchive == [file |-> FALSE]

StorageTypeOK ==
    /\ today \in Day /\ businessDate \in Day /\ shift \in Day \cup {NoDay}
    /\ checks \in [Check -> Day \cup {NoDay}]
    /\ operations \subseteq Operation
    /\ events \in [Aggregate -> {"none", "pending", "sent"}]
    /\ units \subseteq TicketCheck
    /\ damages \in 0..MaxDamages

StorageInit ==
    /\ today = 0 /\ businessDate = 0 /\ shift = NoDay
    /\ checks = [c \in Check |-> NoDay]
    /\ operations = {}
    /\ events = [x \in Aggregate |-> "none"]
    /\ units = {}
    /\ archives = [a \in Archive |-> NoArchive]
    /\ export = Idle /\ plan = Idle
    /\ damages = 0 /\ gone = {}
    /\ effects = [o \in Operation |-> 0]

-----------------------------------------------------------------------------
(* The days and the tills.                                                 *)

\* BusinessDateLocal: the zone and the boundary hour put the business date up to a day
\* before or after the date of the clock.
BusinessDay ==
    /\ \/ /\ today < LastDay /\ today <= businessDate /\ today' = today + 1
          /\ UNCHANGED businessDate
       \/ /\ businessDate < LastDay /\ businessDate <= today
          /\ businessDate' = businessDate + 1 /\ UNCHANGED today
    /\ UNCHANGED <<storageRows, archives, export, plan, damages, gone>>

OpenShift ==
    /\ shift = NoDay /\ shift' = businessDate
    /\ UNCHANGED <<checks, operations, events, units, effects>>

CloseShift ==
    /\ shift # NoDay /\ shift' = NoDay
    /\ UNCHANGED <<checks, operations, events, units, effects>>

\* CapturePayment: the payment that closes an order dates its check by the clock.
Sell(c) ==
    /\ shift # NoDay
    /\ checks[c] = NoDay /\ \A g \in gone : g.row # c
    /\ checks' = [checks EXCEPT ![c] = businessDate]
    /\ events' = [events EXCEPT ![c] = "pending"]
    /\ units' \in {units, units \cup ({c} \cap TicketCheck)}
    /\ UNCHANGED <<shift, operations, effects>>

\* EnsureCommandNotProcessed: the outbox is all that remembers a command.
EnsureCommandNotProcessed(o) == events[o] = "none"

\* RecordFinancialOperation, which a till may repeat when it missed the answer.
Record(o) ==
    /\ EnsureCommandNotProcessed(o)
    /\ shift # NoDay /\ checks[Target[o]] # NoDay
    /\ operations' = operations \cup {o}
    /\ events' = [events EXCEPT ![o] = "pending"]
    /\ effects' = [effects EXCEPT ![o] = @ + 1]
    /\ UNCHANGED <<shift, checks, units>>

\* The Cloud has acknowledged the rows of an aggregate.
Send(x) ==
    /\ events[x] = "pending"
    /\ events' = [events EXCEPT ![x] = "sent"]
    /\ UNCHANGED <<shift, checks, operations, units, effects>>

\* The commands of the tills.
TillNext ==
    /\ \/ OpenShift \/ CloseShift
       \/ \E c \in Check : Sell(c)
       \/ \E o \in Operation : Record(o)
       \/ \E x \in Aggregate : Send(x)
    /\ UNCHANGED <<today, businessDate, archives, export, plan, damages, gone>>

-----------------------------------------------------------------------------
(* The queries of storage_repository.go.                                   *)

\* eligibleOrdersSQL
EligibleOrders(cutoff) == {c \in Check : checks[c] # NoDay /\ checks[c] < cutoff}
EligibleOperations(cutoff) == {o \in operations : Target[o] \in EligibleOrders(cutoff)}

\* eligibleArchiveRefsSQL
EligibleRefs(cutoff) == EligibleOrders(cutoff) \cup EligibleOperations(cutoff)

\* archiveLocalEventsSQL and archiveOutboxSQL
EligibleEvents(cutoff) == {x \in EligibleRefs(cutoff) : events[x] # "none"}

BlockingOutboxMessages(cutoff) == \E x \in EligibleRefs(cutoff) : events[x] = "pending"

OpenOperationalBoundaries(cutoff) == shift # NoDay /\ shift < cutoff

\* validateCutoff and planCutoff
ValidCutoff(cutoff) == cutoff <= today

-----------------------------------------------------------------------------
(* ExportArchive: the tables are read one after another, whatever blocks.  *)

ExportChecks(cutoff) ==
    /\ export = Idle /\ ValidCutoff(cutoff)
    /\ export' = [phase |-> "operations", cutoff |-> cutoff,
                  checks |-> EligibleOrders(cutoff), asOf |-> businessDate]
    /\ UNCHANGED archives

ExportOperations ==
    /\ export.phase = "operations"
    /\ export' = [phase |-> "events", cutoff |-> export.cutoff, checks |-> export.checks,
                  operations |-> EligibleOperations(export.cutoff), asOf |-> export.asOf]
    /\ UNCHANGED archives

\* writeArchiveJSONL: the rows are hashed as they are written to a new file.
WriteArchive(a) ==
    /\ export.phase = "events" /\ archives[a] = NoArchive
    /\ archives' = [archives EXCEPT ![a] =
            [file |-> TRUE, whole |-> TRUE, manifest |-> FALSE, cutoff |-> export.cutoff,
             checks |-> export.checks, operations |-> export.operations,
             events |-> EligibleEvents(export.cutoff), asOf |-> export.asOf]]
    /\ export' = [phase |-> "manifest", archive |-> a]

WriteManifest ==
    /\ export.phase = "manifest"
    /\ archives' = [archives EXCEPT ![export.archive].manifest = TRUE]
    /\ export' = Idle

ExportNext ==
    /\ \/ \E cutoff \in Cutoff : ExportChecks(cutoff)
       \/ ExportOperations
       \/ \E a \in Archive : WriteArchive(a)
       \/ WriteManifest
    /\ UNCHANGED <<today, businessDate, storageRows, plan, damages, gone>>

-----------------------------------------------------------------------------
(* BuildArchiveApplyPlan.                                                  *)

\* verifyArchiveJSONL: the rows read back are those that were hashed and counted.
VerifyArchiveJSONL(archive) == archive.whole

\* verifyArchive: a file without its manifest is refused.
VerifyArchive(archive) ==
    archive.file /\ archive.manifest /\ VerifyArchiveJSONL(archive)

\* Mutant: what was done to the checks is not compared.
ArchiveChecksEqual(archive, counts) == Cardinality(archive.checks) = counts.checks

\* archiveCountsEqual
ArchiveCountsEqual(archive, counts) ==
    /\ Cardinality(archive.checks) = counts.checks
    /\ Cardinality(archive.operations) = counts.operations
    /\ Cardinality(archive.events) = counts.events

\* archiveEligibleCounts: the tables are counted first, the references to events last.
CountRows(a, cutoff) ==
    /\ plan = Idle /\ ValidCutoff(cutoff) /\ archives[a] # NoArchive
    /\ plan' = [phase |-> "evaluate", archive |-> a, cutoff |-> cutoff,
                checks |-> Cardinality(EligibleOrders(cutoff)),
                operations |-> Cardinality(EligibleOperations(cutoff)),
                seen |-> EligibleRefs(cutoff)]
    /\ UNCHANGED <<storageRows, gone>>

\* evaluateArchiveApplyPlan: the plan is blocked, or goes on to the deletion.
Evaluate ==
    /\ plan.phase = "evaluate"
    /\ LET archive == archives[plan.archive]
           counts == [checks |-> plan.checks, operations |-> plan.operations,
                      events |-> Cardinality(EligibleEvents(plan.cutoff))]
           ready == /\ ~BlockingOutboxMessages(plan.cutoff)
                    /\ ~OpenOperationalBoundaries(plan.cutoff)
                    /\ VerifyArchive(archive)
                    /\ archive.cutoff = plan.cutoff
                    /\ ArchiveCountsEqual(archive, counts)
       IN  plan' = IF ready
                   THEN [phase |-> "delete", archive |-> plan.archive,
                         cutoff |-> plan.cutoff, seen |-> plan.seen]
                   ELSE Idle
    /\ UNCHANGED <<storageRows, gone>>

\* BuildArchiveApplyReadiness: the evaluation was only asked for.
AnswerReadiness ==
    /\ plan.phase = "evaluate" /\ plan' = Idle
    /\ UNCHANGED <<storageRows, gone>>

\* ensureStorageArchiveDestructiveSafety, inside the transaction that deletes.
DestructiveSafety(cutoff) ==
    ~BlockingOutboxMessages(cutoff) /\ ~OpenOperationalBoundaries(cutoff)

\* The outbox rows the deletion removes.
PurgedEvents(cutoff) == EligibleEvents(cutoff)

\* deleteStorageArchiveScope: whatever is eligible by now goes.
DeleteScope(cutoff, archive) ==
    LET scope == EligibleRefs(cutoff)
    IN  /\ checks' = [c \in Check |-> IF c \in scope THEN NoDay ELSE checks[c]]
        /\ operations' = operations \ scope
        /\ events' = [x \in Aggregate |->
                IF x \in PurgedEvents(cutoff) THEN "none" ELSE events[x]]
        /\ gone' = gone \cup
            {[row |-> x, sent |-> events[x] = "sent",
              kept |-> x \in archive.checks \cup archive.operations,
              seen |-> x \in plan.seen,
              over |-> IF x \in Check THEN checks[x] < archive.asOf
                       ELSE cutoff <= archive.asOf] : x \in scope}

\* ApplyStorageArchiveDestructive.  ticket_units refers to the checks and is not deleted,
\* so that the foreign keys refuse a scope with tickets.
Delete ==
    /\ plan.phase = "delete"
    /\ IF DestructiveSafety(plan.cutoff) /\ EligibleRefs(plan.cutoff) \cap units = {}
       THEN DeleteScope(plan.cutoff, archives[plan.archive])
       ELSE UNCHANGED <<checks, operations, events, gone>>
    /\ plan' = Idle
    /\ UNCHANGED <<shift, units, effects>>

ApplyNext ==
    /\ \/ \E a \in Archive, cutoff \in Cutoff : CountRows(a, cutoff)
       \/ Evaluate \/ AnswerReadiness
       \/ Delete
    /\ UNCHANGED <<today, businessDate, archives, export, damages>>

-----------------------------------------------------------------------------
(* Faults.                                                                 *)

\* The service stops; what it had read is lost, a file without a manifest stays.
StorageCrash ==
    /\ export # Idle \/ plan # Idle
    /\ export' = Idle /\ plan' = Idle
    /\ UNCHANGED archives

\* A file loses its end while nobody verifies it.
DamageArchive(a) ==
    /\ archives[a] # NoArchive /\ archives[a].whole /\ plan = Idle
    /\ archives' = [archives EXCEPT ![a].whole = FALSE,
                                    ![a].checks = {}, ![a].operations = {}]
    /\ UNCHANGED <<export, plan>>

FaultNext ==
    /\ damages < MaxDamages /\ damages' = damages + 1
    /\ StorageCrash \/ \E a \in Archive : DamageArchive(a)
    /\ UNCHANGED <<today, businessDate, storageRows, gone>>

StorageNext == BusinessDay \/ TillNext \/ ExportNext \/ ApplyNext \/ FaultNext

-----------------------------------------------------------------------------
(* Properties.                                                             *)

\* What the deletion takes from the database is in the archive it was verified against,
\* but for two windows the code leaves open: operations recorded after the plan counted
\* the rows, and business days that were not over when the file was written.  As rows are
\* counted and not compared, a file of such a day may be short of a sale of that day, and
\* of operations of any sale.  Either way the Cloud has acknowledged the rows.
NothingIsLost ==
    \A g \in gone : g.sent /\ (g.kept \/ ~g.over \/ (g.row \in Operation /\ ~g.seen))

\* A command that a till repeats after its rows were archived records nothing again,
\* although the outbox, which detects repetitions, was purged.
CommandsCountOnce == \A o \in Operation : effects[o] <= 1

\* Archiving takes nothing away that is still needed: not the only copy of a sale, and not
\* what tells a repeated command from a new one.
ArchivingIsSafe == NothingIsLost /\ CommandsCountOnce
=============================================================================
