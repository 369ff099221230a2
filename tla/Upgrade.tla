------------------------------ MODULE Upgrade -------------------------------
(***************************************************************************)
(* What an Edge or a Cloud process does with its database before it runs   *)
(* (platform/sqlite, platform/postgres: MigrateDirWithPolicy).  It reads   *)
(* how far the database is, makes a backup where there is something to     *)
(* lose, takes the migration lock, applies the files it ships, verifies    *)
(* the schema and writes its version.  Several processes may start at      *)
(* once, of several versions, and each may be stopped anywhere.            *)
(*                                                                         *)
(* SQLite does all of it that changes anything in one transaction;         *)
(* PostgreSQL applies each file in a transaction of its own, under an      *)
(* advisory lock that ends with the connection.  The files only add to a   *)
(* schema and may be applied again: the schema is how far each file got.   *)
(***************************************************************************)
EXTENDS Integers, FiniteSets, FiniteSetsExt

CONSTANTS
    Instance,       \* processes that share a database
    VersionOf,      \* the version of each, from 1
    MigrationFile,  \* names of files in their order, as numbers from 1
    Revision,       \* by version and file: what its checksum stands for, 0 without it
    MaxStops,       \* bound: processes that stop, calls that fail
    LastSecond      \* bound: the second of the clock time ends with

Version == 1..Cardinality(DOMAIN Revision)
Extent == [MigrationFile -> Nat]

ASSUME UpgradeAssumption ==
    /\ VersionOf \in [Instance -> Version] /\ 1 \in Version
    /\ {MaxStops, LastSecond} \subseteq Nat
    /\ "nobody" \notin Instance
    /\ IsFiniteSet(MigrationFile) /\ MigrationFile \subseteq Nat \ {0}
    /\ Revision \in [Version -> Extent]
    /\ \A v, w \in Version, f \in MigrationFile : v < w => Revision[v][f] <= Revision[w][f]

VARIABLES
    engine,         \* sqlite or postgres
    recorded,       \* module_version of db_runtime_versions, 0 for none
    versioned,      \* that table exists
    marks,          \* schema_migrations: the checksum of each file, or how it lacks one
    extent,         \* what the schema has of each file
    instances,      \* how far the start of each process is, and what it decided
    lock,           \* who holds the advisory lock
    backups,        \* the files of backups by name
    second,         \* the clock, as names of backups tell it
    stops,
    base,           \* history: the schema when a version was written last
    hasty,          \* history: a process went on that another version had overtaken
    reused          \* history: a backup was begun under the name of another one

upgradeVars == <<engine, recorded, versioned, marks, extent, instances, lock, backups,
                 second, stops, base, hasty, reused>>
database == <<recorded, versioned, marks, extent, base, hasty>>
disk == <<backups, second, reused>>

Unmarked == 0
Unchecked == -1     \* a mark without a checksum, as early versions left it
Nobody == "nobody"
Empty == [f \in MigrationFile |-> 0]
Down == [phase |-> "down", versioned |-> FALSE, tables |-> FALSE, allow |-> FALSE,
         overtaken |-> FALSE, pending |-> {}, previous |-> 0, stamp |-> 0]

\* An empty database, one of before there were versions, and one of version 1.
UpgradeInit ==
    /\ engine \in {"sqlite", "postgres"}
    /\ \/ recorded = 0 /\ versioned = FALSE /\ extent = Empty /\ marks = Empty
       \/ /\ recorded = 0 /\ versioned = FALSE
          /\ extent = [Empty EXCEPT ![1] = 1]
          /\ marks \in {Empty, [Empty EXCEPT ![1] = Unchecked]}
       \/ /\ recorded = 1 /\ versioned = TRUE
          /\ extent = Revision[1] /\ marks = Revision[1]
    /\ instances = [p \in Instance |-> Down]
    /\ lock = Nobody /\ backups = [name \in {} |-> Empty] /\ second = 0 /\ stops = 0
    /\ base = extent /\ hasty = FALSE /\ reused = FALSE

Shipped(v) == {f \in MigrationFile : Revision[v][f] > 0}
At(p, phase) == instances[p].phase = phase
Exit(p) == instances' = [instances EXCEPT ![p] = Down]

-----------------------------------------------------------------------------
(* Decisions, which are made without the lock.                             *)

\* The first queries: is there a table of versions, are there any tables.
Inspect(p) ==
    /\ At(p, "down")
    /\ instances' = [instances EXCEPT ![p] =
          [Down EXCEPT !.phase = "decide", !.versioned = versioned,
                       !.tables = extent # Empty]]
    /\ UNCHANGED <<engine, database, disk, lock, stops>>

\* pendingMigrations: a file without a mark, without a checksum, or with another one,
\* which is an error unless the version may change it.  (SQLite adopts a mark without a
\* checksum where it may not; there are none in a database with versions.)
Pending(v) == {f \in Shipped(v) : marks[f] # Revision[v][f]}
Mismatch(v, allow) ==
    ~allow /\ \E f \in Pending(v) : marks[f] \notin {Unmarked, Unchecked}

NeedsBackup(p, previous) ==
    /\ instances[p].tables
    /\ previous < VersionOf[p] \/ Pending(VersionOf[p]) # {}

\* shouldUpgradeVersion, allowManagedChecksumUpgrade: a process refuses a database of a
\* later version.
Decide(p) ==
    LET v == VersionOf[p]
        previous == IF instances[p].versioned THEN recorded ELSE 0
        allow == previous < v \/ ~instances[p].versioned
    IN  /\ At(p, "decide")
        /\ IF previous > v \/ Mismatch(v, allow) THEN Exit(p)
           ELSE instances' = [instances EXCEPT ![p] =
                    [Down EXCEPT !.phase = IF NeedsBackup(p, previous) THEN "backup"
                                           ELSE "wait",
                                 !.allow = allow, !.previous = previous,
                                 !.overtaken = instances[p].overtaken]]
        /\ UNCHANGED <<engine, database, disk, lock, stops>>

-----------------------------------------------------------------------------
(* The backup.                                                             *)

\* Its name: module, versions, and the second it was named in.
BackupFile(p) == <<instances[p].previous, VersionOf[p], instances[p].stamp>>
\* Nothing was written yet.
Blank == [f \in MigrationFile |-> -1]
Written(name, content) ==
    [n \in DOMAIN backups \cup {name} |-> IF n = name THEN content ELSE backups[n]]
Backing(p) == instances[p].phase \in {"open", "copy"}
\* Its name is of no use any more.
EndBackup(p) ==
    instances' = [instances EXCEPT ![p] =
        [Down EXCEPT !.phase = "wait", !.allow = instances[p].allow,
                     !.overtaken = instances[p].overtaken]]

\* PostgreSQL's file is named and opened, and emptied if it exists (O_TRUNC).
OpenPostgres(p) ==
    LET name == <<instances[p].previous, VersionOf[p], second>>
    IN  /\ engine = "postgres" /\ At(p, "backup")
        /\ instances' = [instances EXCEPT ![p].phase = "copy", ![p].stamp = second,
                                          ![p].pending = MigrationFile]
        /\ backups' = Written(name, Blank)
        /\ reused' = (reused \/ name \in DOMAIN backups)
        /\ UNCHANGED <<engine, database, second, lock, stops>>

\* Mutant: it ends with the first table.
FirstTable(p, f) == {}
RestOfTables(p, f) == instances[p].pending \ {f}

\* The tables are read, and written, one after the other.
BackupPostgres(p, f) ==
    LET name == BackupFile(p)
        rest == RestOfTables(p, f)
    IN  /\ engine = "postgres" /\ At(p, "copy")
        /\ f \in instances[p].pending /\ \A g \in instances[p].pending : f <= g
        /\ backups' = Written(name, [backups[name] EXCEPT ![f] = extent[f]])
        /\ IF rest = {} THEN EndBackup(p)
           ELSE instances' = [instances EXCEPT ![p].pending = rest]
        /\ UNCHANGED <<engine, database, second, reused, lock, stops>>

\* For SQLite a name that exists is an error.
NameSqlite(p) ==
    LET name == <<instances[p].previous, VersionOf[p], second>>
        others == {q \in Instance : Backing(q) /\ BackupFile(q) = name}
    IN  /\ engine = "sqlite" /\ At(p, "backup")
        /\ IF name \in DOMAIN backups THEN Exit(p) /\ UNCHANGED reused
           ELSE /\ instances' = [instances EXCEPT ![p].phase = "open",
                                                  ![p].stamp = second]
                /\ reused' = (reused \/ others # {})
        /\ UNCHANGED <<engine, database, backups, second, lock, stops>>

\* What is there meanwhile is taken as it is.
OpenSqlite(p) ==
    LET name == BackupFile(p)
    IN  /\ engine = "sqlite" /\ At(p, "open")
        /\ backups' = IF name \in DOMAIN backups THEN backups ELSE Written(name, Blank)
        /\ instances' = [instances EXCEPT ![p].phase = "copy"]
        /\ UNCHANGED <<engine, database, second, reused, lock, stops>>

\* The backup API of SQLite starts again when another process writes, so its copy is of
\* one moment.
BackupSqlite(p) ==
    /\ engine = "sqlite" /\ At(p, "copy")
    /\ backups' = Written(BackupFile(p), extent)
    /\ EndBackup(p)
    /\ UNCHANGED <<engine, database, second, reused, lock, stops>>

\* It fails, as it does while another one copies into the same file, and removes the
\* file: what the other writes from then on has no name any more.
FailSqlite(p) ==
    LET others == {q \in Instance \ {p} : At(q, "copy") /\ BackupFile(q) = BackupFile(p)}
    IN  /\ engine = "sqlite" /\ Backing(p)
        /\ others # {} \/ stops < MaxStops
        /\ stops' = IF others # {} THEN stops ELSE stops + 1
        /\ backups' = [n \in DOMAIN backups \ {BackupFile(p)} |-> backups[n]]
        /\ instances' = [q \in Instance |->
              IF q = p THEN Down
              ELSE IF q \in others THEN [instances[q] EXCEPT !.phase = "unlinked"]
              ELSE instances[q]]
        /\ UNCHANGED <<engine, database, second, reused, lock>>
FinishUnlinked(p) ==
    /\ At(p, "unlinked")
    /\ EndBackup(p)
    /\ UNCHANGED <<engine, database, disk, lock, stops>>

-----------------------------------------------------------------------------
(* What happens under the lock.                                            *)

\* The schema once the files are applied; VerifySchema asks for what the version needs.
Applied(files, v) ==
    [f \in MigrationFile |->
        IF f \in files THEN Max({extent[f], Revision[v][f]}) ELSE extent[f]]
Marked(files, v) ==
    [f \in MigrationFile |-> IF f \in files THEN Revision[v][f] ELSE marks[f]]
VerifySchema(v, schema) == \A f \in Shipped(v) : schema[f] >= Revision[v][f]

\* writeRuntimeVersion, and the process runs.  Those of other versions that look, have
\* decided or make a backup are overtaken.
WriteRuntimeVersion(p) ==
    /\ recorded' = VersionOf[p]
    /\ instances' = [q \in Instance |->
          IF q = p THEN [Down EXCEPT !.phase = "running"]
          ELSE IF /\ instances[q].phase \notin {"down", "apply", "running"}
                  /\ VersionOf[q] # VersionOf[p]
               THEN [instances[q] EXCEPT !.overtaken = TRUE]
          ELSE instances[q]]
    /\ base' = extent'

\* All of it or nothing.
MigrateSqlite(p) ==
    LET v == VersionOf[p]
        files == Pending(v)
    IN  /\ engine = "sqlite" /\ At(p, "wait")
        /\ IF Mismatch(v, instances[p].allow) \/ ~VerifySchema(v, Applied(files, v))
           THEN Exit(p) /\ UNCHANGED database
           ELSE /\ versioned' = TRUE
                /\ extent' = Applied(files, v) /\ marks' = Marked(files, v)
                /\ hasty' = (hasty \/ instances[p].overtaken)
                /\ WriteRuntimeVersion(p)
        /\ UNCHANGED <<engine, disk, lock, stops>>

\* The lock is taken, the tables of the migration are there, the plan is made again.
LockPostgres(p) ==
    LET v == VersionOf[p]
    IN  /\ engine = "postgres" /\ At(p, "wait") /\ lock = Nobody
        /\ versioned' = TRUE
        /\ IF Mismatch(v, instances[p].allow) THEN Exit(p) /\ UNCHANGED <<lock, hasty>>
           ELSE /\ lock' = p
                /\ hasty' = (hasty \/ instances[p].overtaken)
                /\ instances' = [instances EXCEPT ![p].phase = "apply",
                                                  ![p].pending = Pending(v)]
        /\ UNCHANGED <<engine, recorded, marks, extent, base, disk, stops>>

\* One file and its mark are one transaction.
ApplyFile(p, f) ==
    /\ At(p, "apply")
    /\ f \in instances[p].pending /\ \A g \in instances[p].pending : f <= g
    /\ extent' = Applied({f}, VersionOf[p]) /\ marks' = Marked({f}, VersionOf[p])
    /\ instances' = [instances EXCEPT ![p].pending = @ \ {f}]
    /\ UNCHANGED <<engine, recorded, versioned, base, hasty, disk, lock, stops>>

FinishPostgres(p) ==
    /\ At(p, "apply") /\ instances[p].pending = {}
    /\ lock' = Nobody
    /\ UNCHANGED extent
    /\ IF VerifySchema(VersionOf[p], extent) THEN WriteRuntimeVersion(p)
       ELSE Exit(p) /\ UNCHANGED <<recorded, base>>
    /\ UNCHANGED <<engine, versioned, marks, hasty, disk, stops>>

\* Mutant: the lock is a row, which outlives the process.
LockKept(p) == lock
LockLeft(p) == IF lock = p THEN Nobody ELSE lock

\* The process stops, or a call fails and it exits.  Its transaction and its lock are
\* gone, the file it was writing stays.  (bound: in the last second nothing stops, as a
\* start after it would be in the same second for ever.)
StopInstance(p) ==
    /\ ~At(p, "down") /\ stops < MaxStops /\ second < LastSecond
    /\ stops' = stops + 1
    /\ Exit(p)
    /\ lock' = LockLeft(p)
    /\ UNCHANGED <<engine, database, disk>>

PassSecond ==
    /\ second < LastSecond /\ second' = second + 1
    /\ UNCHANGED <<engine, database, instances, lock, backups, reused, stops>>

Latest(p) == \A q \in Instance : VersionOf[q] <= VersionOf[p]
Startup(p) ==
    \/ Inspect(p) \/ Decide(p)
    \/ NameSqlite(p) \/ OpenSqlite(p) \/ BackupSqlite(p) \/ FinishUnlinked(p)
    \/ OpenPostgres(p) \/ \E f \in MigrationFile : BackupPostgres(p, f)
    \/ MigrateSqlite(p)
    \/ LockPostgres(p) \/ FinishPostgres(p) \/ \E f \in MigrationFile : ApplyFile(p, f)

UpgradeNext ==
    (\E p \in Instance : Startup(p) \/ FailSqlite(p) \/ StopInstance(p)) \/ PassSecond

UpgradeSpec == UpgradeInit /\ [][UpgradeNext]_upgradeVars

-----------------------------------------------------------------------------
(* Properties.                                                             *)

\* What the database says of itself is true at any moment, between the files of an
\* upgrade and after a crash, too: of the files it marks, of the version it names, and
\* for every process that runs.  And what an upgrade has begun to change is in a file as
\* it was before, whatever was begun, stopped or failed beside it; unless a process went
\* on with what it had decided before one of another version wrote its own, or a backup
\* was begun under the name, which is of a second, of one that was finished, was left, or
\* was under way.
UpgradesAreSafe ==
    /\ \A f \in MigrationFile : marks[f] <= extent[f]
    /\ recorded > 0 => VerifySchema(recorded, extent)
    /\ \A p \in Instance : At(p, "running") => VerifySchema(VersionOf[p], extent)
    /\ \/ extent = base \/ base = Empty
       \/ \E name \in DOMAIN backups : backups[name] = base
       \/ hasty \/ reused

\* Whatever stops half way, once a process was started the database is upgraded in the
\* end: the processes of the latest version, which are started again and again, run.
\* (A process that goes on with what it had decided before one of another version wrote
\* its own may leave its own checksums behind and stop: then every later start is refused.)
UpgradesFinish ==
    (\E q \in Instance : ~At(q, "down")) ~>
        [](hasty \/ \A p \in Instance : Latest(p) => At(p, "running"))
=============================================================================
