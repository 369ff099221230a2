------------------------- MODULE FoundationsProofs --------------------------
(***************************************************************************)
(* Proofs about what the processes of the platform share: an upgrade of a  *)
(* database never loses what was there before, and never says more of the  *)
(* schema than is true; a check of a licence never goes beyond what the    *)
(* authority said.                                                         *)
(*                                                                         *)
(* MCFoundations composes both with the receipts; a behaviour of it that   *)
(* is about upgrades is one of UpgradeSpec, one about licences of          *)
(* LicenceSpec.                                                            *)
(***************************************************************************)
EXTENDS Upgrade, Licence, SequenceTheorems, TLAPS

-----------------------------------------------------------------------------
(* The upgrade: the invariant.                                             *)

StartPhase == {"down", "decide", "backup", "open", "copy", "unlinked", "wait", "apply",
               "running"}
Start == [phase : StartPhase, versioned : BOOLEAN, tables : BOOLEAN, allow : BOOLEAN,
          overtaken : BOOLEAN, pending : SUBSET MigrationFile, previous : Nat, stamp : Nat]
Mark == [MigrationFile -> Int]

UpgradeTypeOK ==
    /\ engine \in {"sqlite", "postgres"}
    /\ recorded \in {0} \cup Version /\ versioned \in BOOLEAN
    /\ marks \in Mark /\ extent \in Extent /\ base \in Extent
    /\ instances \in [Instance -> Start]
    /\ lock \in Instance \cup {Nobody}
    /\ \A n \in DOMAIN backups : backups[n] \in Mark
    /\ second \in Nat /\ stops \in Nat /\ hasty \in BOOLEAN /\ reused \in BOOLEAN

\* No mark, and no version, says more than the schema has.
MarksAreHonest == \A f \in MigrationFile : marks[f] <= extent[f]
VersionsAreThere ==
    /\ recorded > 0 => VerifySchema(recorded, extent)
    /\ \A p \in Instance : At(p, "running") => VerifySchema(VersionOf[p], extent)

\* The schema of the last version is in a file nobody is writing, or there is nothing to
\* restore, or somebody was overtaken, or a name was used again.
Secured ==
    \/ base = Empty \/ hasty \/ reused
    \/ \E n \in DOMAIN backups :
          backups[n] = base /\ \A q \in Instance : At(q, "copy") => BackupFile(q) # n
SchemaIsSecured ==
    /\ \A f \in MigrationFile : base[f] <= extent[f]
    /\ engine = "sqlite" => extent = base
    /\ extent = base \/ Secured

\* For PostgreSQL no two processes write one file, if no name was used again.
FilesAreApart ==
    engine = "postgres" => \A q \in Instance :
        /\ instances[q].phase \notin {"open", "unlinked"}
        /\ At(q, "copy") =>
              /\ BackupFile(q) \in DOMAIN backups
              /\ \/ reused
                 \/ \A r \in Instance \ {q} : At(r, "copy") => BackupFile(r) # BackupFile(q)

\* What a process that no other version has overtaken has seen or copied is what the last
\* version left, and where it needs no backup it has nothing to change.
Rested(p) == Secured \/ Pending(VersionOf[p]) = {}
StartIsSound(p) ==
    /\ At(p, "decide") => instances[p].tables \/ Rested(p)
    /\ At(p, "backup") => extent = base \/ Rested(p)
    /\ At(p, "copy") =>
          \/ Rested(p)
          \/ /\ extent = base
             /\ \A f \in MigrationFile \ instances[p].pending :
                   backups[BackupFile(p)][f] = base[f]
    /\ At(p, "wait") => Rested(p)
StartsAreSound ==
    engine = "postgres" => \A p \in Instance : instances[p].overtaken \/ StartIsSound(p)

\* Whoever applies files holds the lock, and changes nothing that is not secured.
AppliedUnderLock ==
    \A p \in Instance : At(p, "apply") =>
        /\ engine = "postgres" /\ lock = p
        /\ Pending(VersionOf[p]) \subseteq instances[p].pending
        /\ instances[p].pending = {} \/ Secured

UpgradeInv ==
    /\ UpgradeTypeOK /\ MarksAreHonest /\ VersionsAreThere /\ SchemaIsSecured
    /\ FilesAreApart /\ StartsAreSound /\ AppliedUnderLock

-----------------------------------------------------------------------------
(* The licence: the invariant.                                             *)

Snapshot == [server : ServerId, version : Nat \ {0}, active : BOOLEAN,
             granted : BOOLEAN, expires : Nat]
Answer == Snapshot \cup {None}
Authority == [ServerId -> Answer]
CheckPhase ==
    {"idle", "ask", "answered", "lookUp", "useCached", "decide", "allowed", "done"}
Check == [phase : CheckPhase, endpoint : 0..Len(ServerIds) + 1, snapshot : Answer,
          seen : SUBSET Authority, failed : BOOLEAN, shared : BOOLEAN, lookedUp : Nat,
          newest : Nat, at : Nat]

LicenceTypeOK ==
    /\ authority \in Authority /\ terms \in Terms
    /\ puts \in [Operator -> Answer]
    /\ cached \in Answer /\ usingGrace \in BOOLEAN
    /\ checks \in [Request -> Check]
    /\ clock \in Nat /\ failures \in Nat
    /\ newest \in [ServerId -> Nat] /\ late \in BOOLEAN

\* The cache has the latest the client has taken of its server, or an older one came after.
CacheIsLatest == cached = None \/ late \/ cached.version = newest[cached.server]

\* A check under way has seen what the authority says now, and before the endpoint it is
\* at nobody had anything, if no answer was lost.
UnderWay(check) == check.phase \notin {"idle", "allowed", "done"}
NothingBefore(check, n) ==
    check.failed \/ \A i \in 1..n - 1 : \E a \in check.seen : a[ServerIds[i]] = None
EndpointIsReached(check) ==
    /\ check.phase = "ask" => check.endpoint \in DOMAIN ServerIds
    /\ check.phase = "ask" => NothingBefore(check, check.endpoint)
    /\ check.phase = "lookUp" => check.failed \/ check.endpoint = Len(ServerIds) + 1
    /\ check.phase = "lookUp" => Unanswered(check)

\* Where the snapshot is from that a check goes by: from the authority, or, without an
\* answer, from the cache.
FromAuthority(check) == check.snapshot # None /\ check.snapshot \in Answers(check)
FromCache(check, overtaken) ==
    /\ Unanswered(check)
    /\ check.snapshot.active /\ check.lookedUp < check.snapshot.expires + Grace
    /\ check.snapshot.version = check.newest \/ overtaken
SnapshotIsGood(check, grace, overtaken) ==
    /\ check.phase = "answered" => FromAuthority(check)
    /\ check.phase = "useCached" => FromCache(check, overtaken)
    /\ check.phase = "decide" =>
          \/ FromAuthority(check) /\ (grace => check.shared)
          \/ FromCache(check, overtaken)

\* What ChecksFollowTheAuthority says of one check.
DecidedWell(check, overtaken) ==
    /\ check.phase = "allowed" =>
          \/ \E a \in Answers(check) : Grants(a) /\ (check.shared \/ check.at < a.expires)
          \/ FromCache(check, overtaken) /\ check.snapshot.granted
    /\ check.phase = "done" /\ ~check.failed =>
          \E a \in Answers(check) : ~Valid(a, check.at)

CheckIsSound(check, now, grace, overtaken) ==
    /\ UnderWay(check) => now \in check.seen
    /\ EndpointIsReached(check)
    /\ SnapshotIsGood(check, grace, overtaken)
    /\ DecidedWell(check, overtaken)

LicenceInv ==
    /\ LicenceTypeOK /\ CacheIsLatest
    /\ \A r \in Request : CheckIsSound(checks[r], authority, usingGrace, late)

-----------------------------------------------------------------------------
(* The upgrade: the invariant holds.                                       *)

\* Of two numbers the greater.
LEMMA MaxOfTwo ==
    ASSUME NEW a \in Int, NEW b \in Int PROVE Max({a, b}) = IF a >= b THEN a ELSE b
  BY DEF Max

\* What is assumed of the versions and the processes.
LEMMA Versions == /\ VersionOf \in [Instance -> Version] /\ Version \subseteq Nat \ {0}
                  /\ Revision \in [Version -> Extent] /\ 1 \in Version
                  /\ Nobody \notin Instance /\ MaxStops \in Nat
  BY UpgradeAssumption DEF Version, Nobody

\* The files of a version only add to the schema, and what is applied is there.
LEMMA AppliedAdds ==
    ASSUME extent \in Extent, NEW v \in Version, NEW files \in SUBSET MigrationFile
    PROVE  /\ Applied(files, v) \in Extent
           /\ \A f \in MigrationFile : extent[f] <= Applied(files, v)[f]
           /\ \A f \in files : Revision[v][f] <= Applied(files, v)[f]
  <1> DEFINE R(f) == Revision[v][f]
             M(f) == Max({extent[f], R(f)})
  <1>1. ASSUME NEW f \in MigrationFile
        PROVE  extent[f] \in Nat /\ R(f) \in Nat /\ extent[f] \in Int /\ R(f) \in Int
    BY Versions DEF Extent
  <1>2. ASSUME NEW f \in MigrationFile
        PROVE  M(f) \in Nat /\ extent[f] <= M(f) /\ R(f) <= M(f)
    <2>1. M(f) = IF extent[f] >= R(f) THEN extent[f] ELSE R(f)
      BY <1>1, MaxOfTwo
    <2> QED
      BY <1>1, <2>1
  <1>3. Applied(files, v) =
            [f \in MigrationFile |-> IF f \in files THEN M(f) ELSE extent[f]]
    BY DEF Applied
  <1> HIDE DEF M, R
  <1>4. \A f \in MigrationFile : extent[f] <= Applied(files, v)[f]
    BY <1>1, <1>2, <1>3
  <1>5. \A f \in files : R(f) <= Applied(files, v)[f]
    BY <1>1, <1>2, <1>3
  <1>6. Applied(files, v) \in Extent
    BY <1>1, <1>2, <1>3 DEF Extent
  <1> QED
    BY <1>4, <1>5, <1>6 DEF R

\* What was enough for a version is enough as the schema grows.
LEMMA VerifiedStays ==
    ASSUME NEW old \in Extent, NEW new \in Extent, NEW v \in Version,
           \A f \in MigrationFile : old[f] <= new[f], VerifySchema(v, old)
    PROVE  VerifySchema(v, new)
  <1>1. \A f \in MigrationFile : Revision[v][f] \in Nat
    BY Versions DEF Extent
  <1> QED
    BY <1>1 DEF VerifySchema, Shipped, Extent

\* The start of one process goes on while the database stays as it is.
Goes(p, start) == instances' = [instances EXCEPT ![p] = start]
Rest == UNCHANGED <<engine, recorded, marks, extent, base>>
Typed ==
    /\ versioned' \in BOOLEAN /\ lock' \in Instance \cup {Nobody}
    /\ second' \in Nat /\ stops' \in Nat /\ hasty' \in BOOLEAN /\ reused' \in BOOLEAN
    /\ \A n \in DOMAIN backups' : backups'[n] \in Mark

\* One record changes and the others do not.
LEMMA OneGoes ==
    ASSUME UpgradeInv, NEW p \in Instance, NEW start \in Start, Goes(p, start)
    PROVE  /\ instances' \in [Instance -> Start] /\ instances'[p] = start
           /\ \A q \in Instance \ {p} :
                 instances'[q] = instances[q] /\ BackupFile(q)' = BackupFile(q)
  <1>1. /\ instances' \in [Instance -> Start] /\ instances'[p] = start
        /\ \A q \in Instance \ {p} : instances'[q] = instances[q]
    BY DEF UpgradeInv, UpgradeTypeOK, Goes
  <1> QED
    BY <1>1 DEF BackupFile

\* Where the database rests, so do its types and what it says of itself.
LEMMA DatabaseRests ==
    ASSUME UpgradeInv, Rest, Typed, instances' \in [Instance -> Start],
           \A q \in Instance : At(q, "running")' => VerifySchema(VersionOf[q], extent)
    PROVE  /\ UpgradeTypeOK' /\ MarksAreHonest' /\ VersionsAreThere'
           /\ \A v : Pending(v)' = Pending(v)
  <1>1. UpgradeTypeOK'
    BY DEF UpgradeInv, UpgradeTypeOK, Rest, Typed
  <1>2. MarksAreHonest'
    BY DEF UpgradeInv, MarksAreHonest, Rest
  <1>3. VersionsAreThere'
    BY DEF UpgradeInv, VersionsAreThere, VerifySchema, Rest
  <1>4. \A v : Pending(v)' = Pending(v)
    BY DEF Pending, Rest
  <1> QED
    BY <1>1, <1>2, <1>3, <1>4

\* What is to be shown of a step of SQLite that does not touch the database.
LEMMA SqliteRests ==
    ASSUME UpgradeInv, engine = "sqlite", Rest, Typed, instances' \in [Instance -> Start],
           \A q \in Instance : instances'[q].phase # "apply",
           \A q \in Instance : At(q, "running")' => At(q, "running")
    PROVE  UpgradeInv'
  <1>1. engine' = "sqlite" /\ extent' = base' /\ \A f \in MigrationFile : base'[f] <= extent'[f]
    BY DEF UpgradeInv, SchemaIsSecured, Rest
  <1>2. SchemaIsSecured' /\ FilesAreApart' /\ StartsAreSound' /\ AppliedUnderLock'
    BY <1>1 DEF SchemaIsSecured, FilesAreApart, StartsAreSound, AppliedUnderLock, At
  <1>3. \A q \in Instance : At(q, "running")' => VerifySchema(VersionOf[q], extent)
    BY DEF UpgradeInv, VersionsAreThere
  <1>4. UpgradeTypeOK' /\ MarksAreHonest' /\ VersionsAreThere'
    BY <1>3, DatabaseRests
  <1> QED
    BY <1>2, <1>4 DEF UpgradeInv

\* What is to be shown of a step that only moves a start on, and of the files.
LEMMA StartGoes ==
    ASSUME UpgradeInv, NEW p \in Instance, NEW start \in Start, Goes(p, start), Rest, Typed,
           Secured => Secured', FilesAreApart',
           \A q \in Instance \ {p} : At(q, "copy") =>
              Secured' \/ backups'[BackupFile(q)] = backups[BackupFile(q)],
           \A q \in Instance \ {p} : lock = q => lock' = q,
           start.phase = "running" => VerifySchema(VersionOf[p], extent),
           engine = "postgres" => start.overtaken \/ StartIsSound(p)',
           start.phase = "apply" =>
              /\ engine = "postgres" /\ lock' = p
              /\ Pending(VersionOf[p]) \subseteq start.pending
              /\ start.pending = {} \/ Secured'
    PROVE  UpgradeInv'
  <1>1. /\ instances' \in [Instance -> Start] /\ instances'[p] = start
        /\ \A q \in Instance \ {p} :
              instances'[q] = instances[q] /\ BackupFile(q)' = BackupFile(q)
    BY OneGoes
  <1>2. \A q \in Instance : At(q, "running")' => VerifySchema(VersionOf[q], extent)
    BY <1>1 DEF UpgradeInv, VersionsAreThere, At
  <1>3. /\ UpgradeTypeOK' /\ MarksAreHonest' /\ VersionsAreThere'
        /\ \A v : Pending(v)' = Pending(v)
    BY <1>1, <1>2, DatabaseRests
  <1>4. SchemaIsSecured'
    BY DEF UpgradeInv, SchemaIsSecured, Rest
  <1>5. ASSUME NEW q \in Instance \ {p}, StartIsSound(q) PROVE StartIsSound(q)'
    <2>1. Rested(q) => Rested(q)'
      BY <1>3 DEF Rested
    <2>2. At(q, "copy") => Secured' \/ (backups[BackupFile(q)])' = backups[BackupFile(q)]
      BY <1>1
    <2>3. Secured' => Rested(q)'
      BY DEF Rested
    <2>4. At(q, "copy")' =>
              (\/ Rested(q)
               \/ /\ extent = base
                  /\ \A f \in MigrationFile \ instances[q].pending :
                        backups[BackupFile(q)][f] = base[f])'
      BY <1>1, <1>5, <2>1, <2>2, <2>3 DEF StartIsSound, At, Rest
    <2>5. /\ At(q, "decide")' => (instances[q].tables \/ Rested(q))'
          /\ At(q, "backup")' => (extent = base \/ Rested(q))'
          /\ At(q, "wait")' => Rested(q)'
      BY <1>1, <1>5, <2>1 DEF StartIsSound, At, Rest
    <2> QED
      BY <2>4, <2>5 DEF StartIsSound
  <1>6. StartsAreSound'
    BY <1>1, <1>5 DEF UpgradeInv, StartsAreSound, Rest
  <1>7. AppliedUnderLock'
    BY <1>1, <1>3 DEF UpgradeInv, AppliedUnderLock, At, Rest
  <1> QED
    BY <1>3, <1>4, <1>6, <1>7 DEF UpgradeInv

\* A step that leaves the files alone leaves apart and secured what was.
LEMMA FilesRest ==
    ASSUME UpgradeInv, NEW p \in Instance, NEW start \in Start, Goes(p, start), Rest,
           start.phase \notin {"open", "copy", "unlinked"}, backups' = backups,
           reused' = reused, hasty => hasty'
    PROVE  /\ Secured => Secured'
           /\ FilesAreApart'
           /\ \A q \in Instance : backups'[BackupFile(q)] = backups[BackupFile(q)]
  <1>1. /\ instances'[p] = start
        /\ \A q \in Instance \ {p} :
              instances'[q] = instances[q] /\ BackupFile(q)' = BackupFile(q)
    BY OneGoes
  <1>2. Secured => Secured'
    BY <1>1 DEF Secured, At, Rest
  <1>3. ASSUME engine = "postgres", NEW q \in Instance, At(q, "copy")'
        PROVE  /\ BackupFile(q)' \in DOMAIN backups'
               /\ \/ reused'
                  \/ \A r \in Instance \ {q} : At(r, "copy")' => BackupFile(r)' # BackupFile(q)'
    <2>1. q # p /\ At(q, "copy")
      BY <1>1, <1>3 DEF At
    <2>2. /\ BackupFile(q) \in DOMAIN backups
          /\ \/ reused
             \/ \A r \in Instance \ {q} : At(r, "copy") => BackupFile(r) # BackupFile(q)
      BY <1>3, <2>1 DEF UpgradeInv, FilesAreApart
    <2>3. ASSUME NEW r \in Instance \ {q}, At(r, "copy")' PROVE r # p /\ At(r, "copy")
      BY <1>1, <2>3 DEF At
    <2> QED
      BY <1>1, <2>1, <2>2, <2>3
  <1>4. ASSUME engine = "postgres", NEW q \in Instance
        PROVE  instances'[q].phase \notin {"open", "unlinked"}
    BY <1>1, <1>4 DEF UpgradeInv, FilesAreApart
  <1>5. FilesAreApart'
    BY <1>3, <1>4 DEF FilesAreApart, Rest
  <1> QED
    BY <1>2, <1>5

\* A process that is down has decided nothing.
LEMMA DownIsAStart == Down \in Start /\ Down.phase = "down" /\ Empty \in Extent
  BY DEF Down, Start, StartPhase, Empty, Extent

\* What a start is that waits for the lock.
Waiting(old) ==
    [Down EXCEPT !.phase = "wait", !.allow = old.allow, !.overtaken = old.overtaken]
\* It remembers little.
LEMMA WaitingFields ==
    ASSUME NEW old \in Start
    PROVE  /\ Waiting(old) \in Start /\ Waiting(old).phase = "wait"
           /\ Waiting(old).overtaken = old.overtaken
  BY DEF Waiting, Down, Start, StartPhase

\* A process that exits leaves the database as it is.
LEMMA ExitKeeps ==
    ASSUME UpgradeInv, NEW p \in Instance, Exit(p), Rest, Typed,
           backups' = backups, reused' = reused, hasty' = hasty,
           \A q \in Instance \ {p} : lock = q => lock' = q
    PROVE  UpgradeInv'
  <1>1. Goes(p, Down)
    BY DEF Exit, Goes
  <1>2. instances'[p] = Down
    BY <1>1, OneGoes, DownIsAStart
  <1>3. StartIsSound(p)'
    BY <1>2, DownIsAStart DEF StartIsSound, At
  <1>4. /\ Secured => Secured'
        /\ FilesAreApart'
        /\ \A q \in Instance : backups'[BackupFile(q)] = backups[BackupFile(q)]
    BY <1>1, FilesRest, DownIsAStart
  <1> QED
    BY <1>1, <1>3, <1>4, StartGoes, DownIsAStart

\* What a process sees first is what the last version left, or nothing.
LEMMA InspectKeeps ==
    ASSUME UpgradeInv, NEW p \in Instance, Inspect(p) PROVE UpgradeInv'
  <1> DEFINE start == [Down EXCEPT !.phase = "decide", !.versioned = versioned,
                                   !.tables = extent # Empty]
  <1>1. Goes(p, start) /\ UNCHANGED <<engine, database, disk, lock, stops>>
    BY DEF Inspect, Goes
  <1>2. /\ start \in Start /\ start.phase = "decide"
        /\ start.tables <=> extent # Empty
    BY DownIsAStart DEF UpgradeInv, UpgradeTypeOK, Start, StartPhase, Down
  <1>3. extent = Empty => base = Empty
    BY DEF UpgradeInv, UpgradeTypeOK, SchemaIsSecured, Extent, Empty
  <1> HIDE DEF start
  <1>4. instances'[p] = start
    BY <1>1, <1>2, OneGoes
  <1>5. Rest /\ Typed /\ backups' = backups /\ reused' = reused /\ hasty' = hasty
    BY <1>1 DEF Rest, Typed, database, disk, UpgradeInv, UpgradeTypeOK
  <1>6. StartIsSound(p)'
    BY <1>2, <1>3, <1>4, <1>5 DEF StartIsSound, At, Rested, Secured, Rest
  <1>7. /\ Secured => Secured'
        /\ FilesAreApart'
        /\ \A q \in Instance : backups'[BackupFile(q)] = backups[BackupFile(q)]
    BY <1>1, <1>2, <1>5, FilesRest
  <1> QED
    BY <1>1, <1>2, <1>5, <1>6, <1>7, StartGoes

\* It goes on without a backup only if nothing is there, or nothing is to be changed.
LEMMA DecideKeeps ==
    ASSUME UpgradeInv, NEW p \in Instance, Decide(p) PROVE UpgradeInv'
  <1> DEFINE previous == IF instances[p].versioned THEN recorded ELSE 0
             allow == previous < VersionOf[p] \/ ~instances[p].versioned
             phase == IF NeedsBackup(p, previous) THEN "backup" ELSE "wait"
             start == [Down EXCEPT !.phase = phase,
                                   !.allow = allow, !.previous = previous,
                                   !.overtaken = instances[p].overtaken]
  <1>1. /\ At(p, "decide") /\ UNCHANGED <<engine, database, disk, lock, stops>>
        /\ Exit(p) \/ Goes(p, start)
    BY DEF Decide, Goes
  <1>2. Rest /\ Typed /\ backups' = backups /\ reused' = reused /\ hasty' = hasty
    BY <1>1 DEF Rest, Typed, database, disk, UpgradeInv, UpgradeTypeOK
  <1>3. CASE Exit(p)
    BY <1>1, <1>2, <1>3, ExitKeeps
  <1>4. CASE Goes(p, start)
    <2>1. previous \in Nat /\ allow \in BOOLEAN
      BY Versions DEF UpgradeInv, UpgradeTypeOK, Start
    <2>2. /\ start \in Start /\ start.phase \in {"backup", "wait"}
          /\ start.overtaken = instances[p].overtaken
          /\ start.phase = phase
      <3> HIDE DEF previous, allow
      <3> QED
        BY <2>1, DownIsAStart DEF UpgradeInv, UpgradeTypeOK, Start, StartPhase, Down
    <2>3. phase = "wait" => ~instances[p].tables \/ Pending(VersionOf[p]) = {}
      BY DEF NeedsBackup
    <2> HIDE DEF previous, allow, phase, start
    <2>4. instances'[p] = start
      BY <1>4, <2>2, OneGoes
    <2>5. /\ Secured => Secured'
          /\ FilesAreApart'
          /\ \A q \in Instance : backups'[BackupFile(q)] = backups[BackupFile(q)]
      BY <1>2, <1>4, <2>2, FilesRest
    <2>6. ASSUME engine = "postgres", ~instances[p].overtaken PROVE StartIsSound(p)'
      <3>1. instances[p].tables \/ Rested(p)
        BY <1>1, <2>6 DEF UpgradeInv, StartsAreSound, StartIsSound
      <3>2. Rested(p) => Rested(p)'
        BY <1>2, <2>5 DEF Rested, Pending, Rest
      <3>3. phase = "wait" => Rested(p)'
        BY <1>2, <2>3, <3>1, <3>2 DEF Rested, Pending, Rest
      <3>4. extent' = base' \/ Rested(p)'
        BY <1>2, <2>5 DEF UpgradeInv, SchemaIsSecured, Rested, Rest
      <3> QED
        BY <2>2, <2>4, <3>3, <3>4 DEF StartIsSound, At
    <2>7. engine = "postgres" => start.overtaken \/ StartIsSound(p)'
      BY <2>2, <2>6
    <2> QED
      BY <1>1, <1>2, <1>4, <2>2, <2>5, <2>7, StartGoes
  <1> QED
    BY <1>1, <1>3, <1>4

\* The name of a backup is of two versions and a second.
LEMMA NamesAreNatural ==
    ASSUME UpgradeInv, NEW p \in Instance, NEW content \in Mark, NEW name,
           backups' = Written(name, content)
    PROVE  /\ DOMAIN backups' = DOMAIN backups \cup {name} /\ backups'[name] = content
           /\ \A n \in DOMAIN backups : n # name => backups'[n] = backups[n]
           /\ \A n \in DOMAIN backups' : backups'[n] \in Mark
  BY DEF Written, UpgradeInv, UpgradeTypeOK

\* PostgreSQL's file is a new one, or the name was used again.
LEMMA OpenPostgresKeeps ==
    ASSUME UpgradeInv, NEW p \in Instance, OpenPostgres(p) PROVE UpgradeInv'
  <1> DEFINE old == instances[p]
             name == <<old.previous, VersionOf[p], second>>
             start == [old EXCEPT !.phase = "copy", !.stamp = second,
                                  !.pending = MigrationFile]
  <1>1. /\ engine = "postgres" /\ At(p, "backup") /\ Goes(p, start)
        /\ backups' = Written(name, Blank) /\ reused' = (reused \/ name \in DOMAIN backups)
        /\ UNCHANGED <<engine, database, second, lock, stops>>
    BY DEF OpenPostgres, Goes
  <1>2. Blank \in Mark
    BY DEF Blank, Mark
  <1>3. /\ DOMAIN backups' = DOMAIN backups \cup {name}
        /\ \A n \in DOMAIN backups : n # name => backups'[n] = backups[n]
        /\ \A n \in DOMAIN backups' : backups'[n] \in Mark
    <2> HIDE DEF name
    <2> QED
      BY <1>1, <1>2, NamesAreNatural
  <1>4. /\ start \in Start /\ start.phase = "copy" /\ start.pending = MigrationFile
        /\ start.previous = old.previous /\ start.stamp = second
        /\ start.overtaken = old.overtaken
    BY DEF UpgradeInv, UpgradeTypeOK, Start, StartPhase
  <1> HIDE DEF start
  <1>5. /\ instances'[p] = start
        /\ \A q \in Instance \ {p} :
              instances'[q] = instances[q] /\ BackupFile(q)' = BackupFile(q)
    BY <1>1, <1>4, OneGoes
  <1>6. BackupFile(p)' = name
    BY <1>4, <1>5 DEF BackupFile
  <1>7. Rest /\ Typed /\ hasty' = hasty
    BY <1>1, <1>3 DEF Rest, Typed, database, UpgradeInv, UpgradeTypeOK
  <1> HIDE DEF name, old
  <1>8. ASSUME NEW q \in Instance \ {p}, At(q, "copy")
        PROVE  /\ BackupFile(q) \in DOMAIN backups
               /\ \/ reused
                  \/ \A r \in Instance \ {q} : At(r, "copy") => BackupFile(r) # BackupFile(q)
    BY <1>1, <1>8 DEF UpgradeInv, FilesAreApart
  <1>9. FilesAreApart'
    <2>1. ASSUME NEW q \in Instance PROVE instances'[q].phase \notin {"open", "unlinked"}
      BY <1>1, <1>4, <1>5 DEF UpgradeInv, FilesAreApart
    <2>2. ASSUME NEW q \in Instance \ {p}, At(q, "copy")'
          PROVE  /\ BackupFile(q)' \in DOMAIN backups'
                 /\ \/ reused'
                    \/ /\ BackupFile(q)' # name
                       /\ \A r \in Instance \ {p, q} :
                             At(r, "copy")' => BackupFile(r)' # BackupFile(q)'
      <3>1. At(q, "copy") /\ BackupFile(q)' = BackupFile(q)
        BY <1>5, <2>2 DEF At
      <3>2. \A r \in Instance \ {p, q} :
               /\ At(r, "copy")' => At(r, "copy")
               /\ BackupFile(r)' = BackupFile(r)
        BY <1>5 DEF At
      <3>3. BackupFile(q) \in DOMAIN backups
        BY <1>8, <3>1
      <3>4. reused \/ \A r \in Instance \ {q} : At(r, "copy") => BackupFile(r) # BackupFile(q)
        BY <1>8, <3>1
      <3>5. BackupFile(q) = name => reused'
        BY <1>1, <3>3
      <3>6. reused => reused'
        BY <1>1
      <3> QED
        BY <1>3, <3>1, <3>2, <3>3, <3>4, <3>5, <3>6
    <2>3. ASSUME NEW q \in Instance, At(q, "copy")'
          PROVE  /\ BackupFile(q)' \in DOMAIN backups'
                 /\ \/ reused'
                    \/ \A r \in Instance \ {q} :
                          At(r, "copy")' => BackupFile(r)' # BackupFile(q)'
      BY <1>3, <1>6, <2>2, <2>3
    <2> QED
      BY <2>1, <2>3 DEF FilesAreApart
  <1>10. Secured => Secured'
    <2>1. ASSUME ~reused', NEW n \in DOMAIN backups, backups[n] = base,
                 \A q \in Instance : At(q, "copy") => BackupFile(q) # n
          PROVE  Secured'
      <3>1. n # name /\ n \in DOMAIN backups' /\ backups'[n] = base'
        BY <1>1, <1>3, <1>7, <2>1 DEF Rest
      <3>2. \A q \in Instance : At(q, "copy")' => BackupFile(q)' # n
        BY <1>5, <1>6, <2>1, <3>1 DEF At
      <3> QED
        BY <3>1, <3>2 DEF Secured
    <2>2. ASSUME base = Empty \/ hasty \/ reused PROVE Secured'
      BY <1>1, <1>7, <2>2 DEF Secured, Rest
    <2>3. reused' => Secured'
      BY DEF Secured
    <2> QED
      BY <2>1, <2>2, <2>3 DEF Secured
  <1>11. ASSUME NEW q \in Instance \ {p}, At(q, "copy")
         PROVE  Secured' \/ backups'[BackupFile(q)] = backups[BackupFile(q)]
    <2>1. BackupFile(q) = name => Secured'
      BY <1>1, <1>8, <1>11 DEF Secured
    <2> QED
      BY <1>3, <1>8, <1>11, <2>1
  <1>12. start.overtaken \/ StartIsSound(p)'
    <2>1. ASSUME ~old.overtaken PROVE extent' = base' \/ Rested(p)'
      <3>1. extent = base \/ Rested(p)
        BY <1>1, <2>1 DEF UpgradeInv, StartsAreSound, StartIsSound, old
      <3> QED
        BY <1>7, <1>10, <3>1 DEF Rested, Pending, Rest
    <2> QED
      BY <1>4, <1>5, <2>1 DEF StartIsSound, At
  <1> QED
    BY <1>1, <1>4, <1>7, <1>9, <1>10, <1>11, <1>12, StartGoes

\* It has the schema in the end, unless another process overtakes.
LEMMA BackupPostgresKeeps ==
    ASSUME UpgradeInv, NEW p \in Instance, NEW f \in MigrationFile, BackupPostgres(p, f)
    PROVE  UpgradeInv'
  <1> DEFINE old == instances[p]
             name == BackupFile(p)
             rest == old.pending \ {f}
             content == [backups[name] EXCEPT ![f] = extent[f]]
             start == IF rest = {} THEN Waiting(old) ELSE [old EXCEPT !.pending = rest]
  <1>1. /\ engine = "postgres" /\ At(p, "copy") /\ Goes(p, start)
        /\ backups' = Written(name, content)
        /\ UNCHANGED <<engine, database, second, reused, lock, stops>>
    BY DEF BackupPostgres, RestOfTables, EndBackup, Goes, Waiting
  <1>2. /\ name \in DOMAIN backups /\ backups[name] \in Mark /\ content \in Mark
        /\ \A g \in MigrationFile : content[g] = IF g = f THEN extent[f] ELSE backups[name][g]
    BY <1>1 DEF UpgradeInv, UpgradeTypeOK, FilesAreApart, Mark, Extent
  <1>3. ASSUME NEW q \in Instance \ {p}, At(q, "copy")
        PROVE  BackupFile(q) \in DOMAIN backups /\ (reused \/ BackupFile(q) # name)
    BY <1>1, <1>3 DEF UpgradeInv, FilesAreApart
  <1>4. /\ start \in Start /\ start.overtaken = old.overtaken
        /\ rest = {} => start.phase = "wait"
        /\ rest # {} => /\ start.phase = "copy" /\ start.pending = rest
                        /\ start.previous = old.previous /\ start.stamp = old.stamp
    <2>1. old \in Start
      BY DEF UpgradeInv, UpgradeTypeOK
    <2>2. CASE rest = {}
      BY <2>1, <2>2, WaitingFields
    <2>3. CASE rest # {}
      BY <1>1, <2>1, <2>3 DEF Start, At
    <2> QED
      BY <2>2, <2>3
  <1> HIDE DEF start, content
  <1>5. /\ DOMAIN backups' = DOMAIN backups /\ backups'[name] = content
        /\ \A n \in DOMAIN backups : n # name => backups'[n] = backups[n]
        /\ \A n \in DOMAIN backups' : backups'[n] \in Mark
    <2> HIDE DEF name
    <2>1. /\ DOMAIN backups' = DOMAIN backups \cup {name} /\ backups'[name] = content
          /\ \A n \in DOMAIN backups : n # name => backups'[n] = backups[n]
          /\ \A n \in DOMAIN backups' : backups'[n] \in Mark
      BY <1>1, <1>2, NamesAreNatural
    <2> QED
      BY <1>2, <2>1
  <1>6. /\ instances'[p] = start
        /\ \A q \in Instance \ {p} :
              instances'[q] = instances[q] /\ BackupFile(q)' = BackupFile(q)
    BY <1>1, <1>4, OneGoes
  <1>7. At(p, "copy")' => rest # {} /\ BackupFile(p)' = name
    BY <1>4, <1>6 DEF At, BackupFile
  <1>8. Rest /\ Typed /\ hasty' = hasty /\ reused' = reused
    BY <1>1, <1>5 DEF Rest, Typed, database, UpgradeInv, UpgradeTypeOK
  <1> HIDE DEF name
  <1>9. FilesAreApart'
    <2>1. ASSUME NEW q \in Instance PROVE instances'[q].phase \notin {"open", "unlinked"}
      BY <1>1, <1>4, <1>6 DEF UpgradeInv, FilesAreApart
    <2>2. ASSUME NEW q \in Instance, At(q, "copy")'
          PROVE  At(q, "copy") /\ BackupFile(q)' = BackupFile(q)
      BY <1>1, <1>6, <1>7, <2>2 DEF At, name
    <2>3. ASSUME NEW q \in Instance, At(q, "copy")
          PROVE  /\ BackupFile(q) \in DOMAIN backups
                 /\ \/ reused
                    \/ \A r \in Instance \ {q} :
                          At(r, "copy") => BackupFile(r) # BackupFile(q)
      BY <1>1, <2>3 DEF UpgradeInv, FilesAreApart
    <2>4. ASSUME NEW q \in Instance, At(q, "copy")'
          PROVE  /\ BackupFile(q)' \in DOMAIN backups'
                 /\ \/ reused'
                    \/ \A r \in Instance \ {q} :
                          At(r, "copy")' => BackupFile(r)' # BackupFile(q)'
      BY <1>5, <1>8, <2>2, <2>3, <2>4
    <2> QED
      BY <2>1, <2>4 DEF FilesAreApart
  <1>10. ASSUME Secured PROVE Secured'
    <2>1. ASSUME NEW n \in DOMAIN backups, backups[n] = base,
                 \A q \in Instance : At(q, "copy") => BackupFile(q) # n
          PROVE  Secured'
      <3>1. n # name /\ n \in DOMAIN backups' /\ backups'[n] = base'
        BY <1>1, <1>5, <1>8, <2>1 DEF Rest, name
      <3>2. \A q \in Instance : At(q, "copy")' => BackupFile(q)' # n
        BY <1>6, <1>7, <2>1, <3>1 DEF At
      <3> QED
        BY <3>1, <3>2 DEF Secured
    <2>2. ASSUME base = Empty \/ hasty \/ reused PROVE Secured'
      BY <1>8, <2>2 DEF Secured, Rest
    <2> QED
      BY <1>10, <2>1, <2>2 DEF Secured
  <1>11. ASSUME NEW q \in Instance \ {p}, At(q, "copy")
         PROVE  Secured' \/ backups'[BackupFile(q)] = backups[BackupFile(q)]
    <2>1. reused => Secured'
      BY <1>8 DEF Secured
    <2> QED
      BY <1>3, <1>5, <1>11, <2>1
  <1>12. ASSUME ~old.overtaken PROVE StartIsSound(p)'
    <2>1. \/ Rested(p)
          \/ /\ extent = base
             /\ \A g \in MigrationFile \ old.pending : backups[name][g] = base[g]
      BY <1>1, <1>12 DEF UpgradeInv, StartsAreSound, StartIsSound, name
    <2>2. CASE Rested(p)
      <3>1. Rested(p)'
        BY <1>8, <1>10, <2>2 DEF Rested, Pending, Rest
      <3> QED
        BY <1>4, <1>6, <3>1 DEF StartIsSound, At
    <2>3. CASE /\ extent = base
               /\ \A g \in MigrationFile \ old.pending : backups[name][g] = base[g]
      <3>1. \A g \in MigrationFile \ rest : content[g] = base[g]
        BY <1>2, <2>3
      <3>2. CASE rest = {}
        <4>1. content = base
          BY <1>2, <3>1, <3>2 DEF UpgradeInv, UpgradeTypeOK, Extent, Mark
        <4>2. ~reused => \A q \in Instance : At(q, "copy")' => BackupFile(q)' # name
          BY <1>3, <1>6, <1>7, <3>2 DEF At
        <4>3. Secured'
          BY <1>2, <1>5, <1>8, <4>1, <4>2 DEF Secured, Rest
        <4> QED
          BY <1>4, <1>6, <3>2, <4>3 DEF StartIsSound, At, Rested
      <3>3. CASE rest # {}
        <4>1. instances'[p].phase = "copy" /\ instances'[p].pending = rest
          BY <1>4, <1>6, <3>3
        <4>2. backups'[BackupFile(p)'] = content /\ extent' = base' /\ base' = base
          BY <1>5, <1>7, <1>8, <2>3, <4>1 DEF At, Rest
        <4> HIDE DEF rest, old
        <4> QED
          BY <3>1, <4>1, <4>2 DEF StartIsSound, At
      <3> QED
        BY <3>2, <3>3
    <2> QED
      BY <2>1, <2>2, <2>3
  <1>13. start.phase \notin {"running", "apply"}
    BY <1>4
  <1>14. engine = "postgres" => start.overtaken \/ StartIsSound(p)'
    BY <1>4, <1>12
  <1> HIDE DEF rest, old
  <1> QED
    BY <1>1, <1>4, <1>8, <1>9, <1>10, <1>11, <1>13, <1>14, StartGoes

\* The backups of SQLite, which fail or not, leave the database alone.
LEMMA BackupOfSqliteKeeps ==
    ASSUME UpgradeInv, NEW p \in Instance,
           NameSqlite(p) \/ OpenSqlite(p) \/ BackupSqlite(p) \/ FailSqlite(p)
    PROVE  UpgradeInv'
  <1>1. /\ engine = "sqlite" /\ UNCHANGED <<engine, database, second, lock>>
        /\ reused' \in BOOLEAN /\ stops' \in Nat
    <2>1. reused \in BOOLEAN /\ stops \in Nat
      BY DEF UpgradeInv, UpgradeTypeOK
    <2>2. CASE NameSqlite(p)
      BY <2>1, <2>2 DEF NameSqlite
    <2>3. CASE OpenSqlite(p)
      BY <2>1, <2>3 DEF OpenSqlite
    <2>4. CASE BackupSqlite(p)
      BY <2>1, <2>4 DEF BackupSqlite
    <2>5. CASE FailSqlite(p)
      BY <2>1, <2>5 DEF FailSqlite
    <2> QED
      BY <2>2, <2>3, <2>4, <2>5
  <1>2. Blank \in Mark /\ extent \in Mark
    BY DEF Blank, Mark, UpgradeInv, UpgradeTypeOK, Extent
  <1>3. \A n \in DOMAIN backups' : backups'[n] \in Mark
    <2>1. \A n \in DOMAIN backups : backups[n] \in Mark
      BY DEF UpgradeInv, UpgradeTypeOK
    <2>2. CASE NameSqlite(p)
      BY <2>1, <2>2 DEF NameSqlite
    <2>3. CASE OpenSqlite(p)
      BY <1>2, <2>1, <2>3, NamesAreNatural DEF OpenSqlite
    <2>4. CASE BackupSqlite(p)
      BY <1>2, <2>1, <2>4, NamesAreNatural DEF BackupSqlite
    <2>5. CASE FailSqlite(p)
      BY <2>1, <2>5 DEF FailSqlite
    <2> QED
      BY <2>2, <2>3, <2>4, <2>5
  <1>4. Rest /\ Typed
    BY <1>1, <1>3 DEF Rest, Typed, database, UpgradeInv, UpgradeTypeOK
  <1>5. ASSUME NEW q \in Instance
        PROVE  /\ instances[q] \in Start /\ instances[q].phase # "apply"
               /\ [instances[q] EXCEPT !.phase = "unlinked"] \in Start
               /\ [instances[q] EXCEPT !.phase = "copy"] \in Start
               /\ [instances[q] EXCEPT !.phase = "open", !.stamp = second] \in Start
               /\ Waiting(instances[q]) \in Start
    <2>1. instances[q] \in Start /\ second \in Nat
      BY DEF UpgradeInv, UpgradeTypeOK
    <2>2. instances[q].phase # "apply"
      BY <1>1 DEF UpgradeInv, AppliedUnderLock, At
    <2> QED
      BY <2>1, <2>2, WaitingFields DEF Start, StartPhase
  <1>6. ASSUME NEW start \in Start, start.phase \notin {"apply", "running"}, Goes(p, start)
        PROVE  UpgradeInv'
    <2>1. /\ instances' \in [Instance -> Start] /\ instances'[p] = start
          /\ \A q \in Instance \ {p} : instances'[q] = instances[q]
      BY <1>6, OneGoes
    <2> QED
      BY <1>1, <1>4, <1>5, <1>6, <2>1, SqliteRests DEF At
  <1>7. Exit(p) => UpgradeInv'
    BY <1>6, DownIsAStart DEF Exit, Goes
  <1>8. CASE NameSqlite(p)
    <2> DEFINE start == [instances[p] EXCEPT !.phase = "open", !.stamp = second]
    <2>1. Exit(p) \/ Goes(p, start)
      BY <1>8 DEF NameSqlite, Goes
    <2>2. start \in Start /\ start.phase = "open"
      BY <1>5 DEF Start
    <2> HIDE DEF start
    <2> QED
      BY <1>6, <1>7, <2>1, <2>2
  <1>9. CASE OpenSqlite(p)
    <2> DEFINE start == [instances[p] EXCEPT !.phase = "copy"]
    <2>1. Goes(p, start)
      BY <1>9 DEF OpenSqlite, Goes
    <2>2. start \in Start /\ start.phase = "copy"
      BY <1>5 DEF Start
    <2> HIDE DEF start
    <2> QED
      BY <1>6, <2>1, <2>2
  <1>10. CASE BackupSqlite(p)
    <2>1. Goes(p, Waiting(instances[p]))
      BY <1>10 DEF BackupSqlite, EndBackup, Goes, Waiting
    <2> QED
      BY <1>5, <1>6, <2>1, WaitingFields
  <1>11. CASE FailSqlite(p)
    <2> DEFINE others == {q \in Instance \ {p} : At(q, "copy") /\ BackupFile(q) = BackupFile(p)}
               Next(q) == IF q = p THEN Down
                          ELSE IF q \in others THEN [instances[q] EXCEPT !.phase = "unlinked"]
                          ELSE instances[q]
    <2>1. instances' = [q \in Instance |-> Next(q)]
      BY <1>11 DEF FailSqlite
    <2>2. ASSUME NEW q \in Instance
          PROVE  /\ Next(q) \in Start /\ Next(q).phase # "apply"
                 /\ Next(q).phase = "running" => instances[q].phase = "running"
      <3>1. [instances[q] EXCEPT !.phase = "unlinked"].phase = "unlinked"
        BY <1>5 DEF Start
      <3> HIDE DEF others
      <3> QED
        BY <1>5, <3>1, DownIsAStart
    <2> HIDE DEF Next
    <2>3. /\ instances' \in [Instance -> Start]
          /\ \A q \in Instance : instances'[q] = Next(q)
      BY <2>1, <2>2
    <2> QED
      BY <1>1, <1>4, <2>2, <2>3, SqliteRests DEF At
  <1> QED
    BY <1>8, <1>9, <1>10, <1>11

\* A copy without a name is one of SQLite.
LEMMA FinishUnlinkedKeeps ==
    ASSUME UpgradeInv, NEW p \in Instance, FinishUnlinked(p) PROVE UpgradeInv'
  <1>1. /\ At(p, "unlinked") /\ Goes(p, Waiting(instances[p]))
        /\ UNCHANGED <<engine, database, disk, lock, stops>>
    BY DEF FinishUnlinked, EndBackup, Goes, Waiting
  <1>2. Waiting(instances[p]) \in Start /\ Waiting(instances[p]).phase = "wait"
    BY WaitingFields DEF UpgradeInv, UpgradeTypeOK
  <1>3. engine = "sqlite"
    BY <1>1 DEF UpgradeInv, UpgradeTypeOK, FilesAreApart, At
  <1>4. Rest /\ Typed
    BY <1>1 DEF Rest, Typed, database, disk, UpgradeInv, UpgradeTypeOK
  <1>5. \A q \in Instance : instances[q].phase # "apply"
    BY <1>3 DEF UpgradeInv, AppliedUnderLock, At
  <1>6. /\ instances' \in [Instance -> Start] /\ instances'[p] = Waiting(instances[p])
        /\ \A q \in Instance \ {p} : instances'[q] = instances[q]
    BY <1>1, <1>2, OneGoes
  <1> QED
    BY <1>2, <1>3, <1>4, <1>5, <1>6, SqliteRests DEF At

\* A process that stops gives its lock back and changes nothing.
LEMMA StopInstanceKeeps ==
    ASSUME UpgradeInv, NEW p \in Instance, StopInstance(p) PROVE UpgradeInv'
  <1>1. /\ Exit(p) /\ lock' = LockLeft(p) /\ stops' = stops + 1
        /\ UNCHANGED <<engine, database, disk>>
    BY DEF StopInstance
  <1>2. /\ lock' \in Instance \cup {Nobody} /\ stops' \in Nat
        /\ \A q \in Instance \ {p} : lock = q => lock' = q
    BY <1>1 DEF UpgradeInv, UpgradeTypeOK, LockLeft
  <1>3. Rest /\ Typed /\ backups' = backups /\ reused' = reused /\ hasty' = hasty
    BY <1>1, <1>2 DEF Rest, Typed, database, disk, UpgradeInv, UpgradeTypeOK
  <1> QED
    BY <1>1, <1>2, <1>3, ExitKeeps

\* The clock touches nothing.
LEMMA PassSecondKeeps == ASSUME UpgradeInv, PassSecond PROVE UpgradeInv'
  <1>1. /\ second' \in Nat
        /\ UNCHANGED <<engine, database, instances, lock, backups, reused, stops>>
    BY DEF PassSecond, UpgradeInv, UpgradeTypeOK
  <1>2. UpgradeTypeOK' /\ MarksAreHonest' /\ VersionsAreThere'
    BY <1>1 DEF UpgradeInv, UpgradeTypeOK, MarksAreHonest, VersionsAreThere, VerifySchema,
                At, database
  <1>3. \A p \in Instance : BackupFile(p)' = BackupFile(p)
    BY <1>1 DEF BackupFile
  <1>4. (Secured => Secured') /\ \A v : Pending(v)' = Pending(v)
    BY <1>1, <1>3 DEF Secured, At, Pending, database
  <1>5. SchemaIsSecured' /\ FilesAreApart'
    BY <1>1, <1>3, <1>4 DEF UpgradeInv, SchemaIsSecured, FilesAreApart, At, database
  <1>6. ASSUME NEW p \in Instance, StartIsSound(p) PROVE StartIsSound(p)'
    BY <1>1, <1>3, <1>4, <1>6 DEF StartIsSound, Rested, At, database
  <1>7. StartsAreSound' /\ AppliedUnderLock'
    BY <1>1, <1>4, <1>6 DEF UpgradeInv, StartsAreSound, AppliedUnderLock, At
  <1> QED
    BY <1>2, <1>5, <1>7 DEF UpgradeInv

\* Whoever takes the lock has what it is about to change in a backup, or was overtaken.
LEMMA LockPostgresKeeps ==
    ASSUME UpgradeInv, NEW p \in Instance, LockPostgres(p) PROVE UpgradeInv'
  <1> DEFINE start == [instances[p] EXCEPT !.phase = "apply",
                                           !.pending = Pending(VersionOf[p])]
  <1>1. /\ engine = "postgres" /\ At(p, "wait") /\ lock = Nobody /\ versioned' = TRUE
        /\ UNCHANGED <<engine, recorded, marks, extent, base, disk, stops>>
        /\ \/ Exit(p) /\ UNCHANGED <<lock, hasty>>
           \/ /\ lock' = p /\ hasty' = (hasty \/ instances[p].overtaken)
              /\ Goes(p, start)
    BY DEF LockPostgres, Goes
  <1>2. Pending(VersionOf[p]) \in SUBSET MigrationFile
    BY DEF Pending, Shipped
  <1>3. start \in Start /\ start.phase = "apply" /\ start.pending = Pending(VersionOf[p])
    BY <1>2 DEF UpgradeInv, UpgradeTypeOK, Start, StartPhase
  <1>4. CASE lock' = p /\ hasty' = (hasty \/ instances[p].overtaken) /\ Goes(p, start)
    <2>1. hasty' \in BOOLEAN /\ (hasty => hasty')
      BY <1>4 DEF UpgradeInv, UpgradeTypeOK, Start
    <2>2. Rest /\ Typed /\ backups' = backups /\ reused' = reused
      BY <1>1, <1>4, <2>1 DEF Rest, Typed, disk, UpgradeInv, UpgradeTypeOK
    <2> HIDE DEF start
    <2>3. /\ Secured => Secured'
          /\ FilesAreApart'
          /\ \A q \in Instance : backups'[BackupFile(q)] = backups[BackupFile(q)]
      BY <1>3, <1>4, <2>1, <2>2, FilesRest
    <2>4. Pending(VersionOf[p]) = {} \/ Secured'
      BY <1>1, <1>4, <2>3 DEF UpgradeInv, StartsAreSound, StartIsSound, Rested, Secured
    <2>5. \A q \in Instance : lock # q
      BY <1>1, Versions
    <2>6. StartIsSound(p)'
      BY <1>3, <1>4, OneGoes DEF StartIsSound, At
    <2> QED
      BY <1>1, <1>3, <1>4, <2>2, <2>3, <2>4, <2>5, <2>6, StartGoes
  <1>5. CASE Exit(p) /\ UNCHANGED <<lock, hasty>>
    <2>1. Rest /\ Typed /\ backups' = backups /\ reused' = reused
      BY <1>1, <1>5 DEF Rest, Typed, disk, UpgradeInv, UpgradeTypeOK
    <2> QED
      BY <1>1, <1>5, <2>1, ExitKeeps
  <1> QED
    BY <1>1, <1>4, <1>5

\* A file is applied under the lock, where what it changes is secured.
LEMMA ApplyFileKeeps ==
    ASSUME UpgradeInv, NEW p \in Instance, NEW f \in MigrationFile, ApplyFile(p, f)
    PROVE  UpgradeInv'
  <1> DEFINE v == VersionOf[p]
             rest == instances[p].pending \ {f}
             start == [instances[p] EXCEPT !.pending = rest]
  <1>1. /\ At(p, "apply") /\ f \in instances[p].pending
        /\ extent' = Applied({f}, v) /\ marks' = Marked({f}, v)
        /\ instances' = [instances EXCEPT ![p] = start]
        /\ UNCHANGED <<engine, recorded, versioned, base, hasty, disk, lock, stops>>
    BY DEF ApplyFile
  <1>2. Secured /\ engine = "postgres" /\ lock = p
    BY <1>1 DEF UpgradeInv, AppliedUnderLock
  <1>3. v \in Version /\ \A g \in MigrationFile : Revision[v][g] \in Nat
    BY Versions DEF Extent
  <1>4. /\ extent' \in Extent /\ \A g \in MigrationFile : extent[g] <= extent'[g]
        /\ Revision[v][f] <= extent'[f]
    BY <1>1, <1>3, AppliedAdds DEF UpgradeInv, UpgradeTypeOK
  <1>5. /\ start \in Start /\ start.phase = "apply" /\ start.pending = rest
    BY <1>1 DEF UpgradeInv, UpgradeTypeOK, Start, At
  <1> HIDE DEF v, start
  <1>6. /\ instances' \in [Instance -> Start] /\ instances'[p] = start
        /\ \A q \in Instance \ {p} : instances'[q] = instances[q]
    BY <1>1, <1>5 DEF UpgradeInv, UpgradeTypeOK
  <1>7. /\ marks' \in Mark
        /\ \A g \in MigrationFile : marks'[g] = IF g = f THEN Revision[v][f] ELSE marks[g]
    BY <1>1, <1>3 DEF UpgradeInv, UpgradeTypeOK, Mark, Marked
  <1>8. UpgradeTypeOK'
    BY <1>1, <1>4, <1>6, <1>7 DEF UpgradeInv, UpgradeTypeOK, disk
  <1>9. MarksAreHonest'
    <2> SUFFICES ASSUME NEW g \in MigrationFile PROVE marks'[g] <= extent'[g]
      BY DEF MarksAreHonest
    <2>1. marks[g] <= extent[g] /\ marks[g] \in Int /\ extent[g] \in Nat /\ extent'[g] \in Nat
      BY <1>4 DEF UpgradeInv, UpgradeTypeOK, MarksAreHonest, Mark, Extent
    <2> QED
      BY <1>3, <1>4, <1>7, <2>1
  <1>10. ASSUME NEW w \in Version, VerifySchema(w, extent) PROVE VerifySchema(w, extent')
    BY <1>4, <1>10, VerifiedStays DEF UpgradeInv, UpgradeTypeOK
  <1>11. VersionsAreThere'
    <2>1. recorded > 0 => VerifySchema(recorded, extent')
      BY <1>10, Versions DEF UpgradeInv, UpgradeTypeOK, VersionsAreThere
    <2>2. ASSUME NEW q \in Instance, At(q, "running")' PROVE VerifySchema(VersionOf[q], extent')
      BY <1>5, <1>6, <1>10, <2>2, Versions DEF UpgradeInv, VersionsAreThere, At
    <2> QED
      BY <1>1, <2>1, <2>2 DEF VersionsAreThere, VerifySchema
  <1>12. /\ \A q \in Instance : At(q, "copy")' <=> At(q, "copy")
         /\ \A q \in Instance : At(q, "copy") => BackupFile(q)' = BackupFile(q)
    <2>1. ~At(p, "copy") /\ ~At(p, "copy")'
      BY <1>1, <1>5, <1>6 DEF At
    <2> QED
      BY <1>6, <2>1 DEF At, BackupFile
  <1>13. Secured'
    BY <1>1, <1>2, <1>12 DEF Secured, disk
  <1>14. SchemaIsSecured'
    <2>1. ASSUME NEW g \in MigrationFile PROVE base'[g] <= extent'[g]
      <3>1. base[g] \in Nat /\ extent[g] \in Nat /\ extent'[g] \in Nat
        BY <1>4 DEF UpgradeInv, UpgradeTypeOK, Extent
      <3>2. base[g] <= extent[g] /\ extent[g] <= extent'[g]
        BY <1>4 DEF UpgradeInv, SchemaIsSecured
      <3> QED
        BY <1>1, <3>1, <3>2
    <2> QED
      BY <1>1, <1>2, <1>13, <2>1 DEF SchemaIsSecured
  <1>15. FilesAreApart'
    <2>1. ASSUME NEW q \in Instance PROVE instances'[q].phase \notin {"open", "unlinked"}
      BY <1>2, <1>5, <1>6 DEF UpgradeInv, FilesAreApart
    <2> QED
      BY <1>1, <1>2, <1>12, <2>1 DEF UpgradeInv, FilesAreApart, disk
  <1>16. StartsAreSound'
    BY <1>13 DEF StartsAreSound, StartIsSound, Rested
  <1>17. AppliedUnderLock'
    <2>1. ASSUME NEW q \in Instance, At(q, "apply")' PROVE q = p
      BY <1>1, <1>2, <1>6, <2>1 DEF UpgradeInv, AppliedUnderLock, At
    <2>2. Pending(VersionOf[p]) \subseteq instances[p].pending
      BY <1>1 DEF UpgradeInv, AppliedUnderLock
    <2>3. Pending(VersionOf[p])' \subseteq Pending(VersionOf[p]) \ {f}
      BY <1>7 DEF Pending, Shipped, v
    <2>4. Pending(VersionOf[p])' \subseteq instances'[p].pending
      BY <1>5, <1>6, <2>2, <2>3
    <2> QED
      BY <1>1, <1>2, <1>13, <2>1, <2>4 DEF AppliedUnderLock
  <1> QED
    BY <1>8, <1>9, <1>11, <1>14, <1>15, <1>16, <1>17 DEF UpgradeInv

\* The records after a version is written.
LEMMA WritingRecords ==
    ASSUME UpgradeInv, NEW p \in Instance, WriteRuntimeVersion(p)
    PROVE  /\ instances' \in [Instance -> Start] /\ instances'[p].phase = "running"
           /\ \A q \in Instance \ {p} :
                 /\ instances'[q].phase = instances[q].phase
                 /\ instances'[q].pending = instances[q].pending
                 /\ BackupFile(q)' = BackupFile(q)
                 /\ \/ instances[q].phase \in {"down", "apply", "running"}
                    \/ VersionOf[q] = VersionOf[p] \/ instances'[q].overtaken
  <1> DEFINE running == [Down EXCEPT !.phase = "running"]
             Overtaken(q) == [instances[q] EXCEPT !.overtaken = TRUE]
             Late(q) == /\ instances[q].phase \notin {"down", "apply", "running"}
                        /\ VersionOf[q] # VersionOf[p]
             Next(q) == IF q = p THEN running
                        ELSE IF Late(q) THEN Overtaken(q) ELSE instances[q]
  <1>1. instances' = [q \in Instance |-> Next(q)]
    BY DEF WriteRuntimeVersion
  <1>2. running \in Start /\ running.phase = "running"
    BY DownIsAStart DEF Start, StartPhase, Down
  <1>3. ASSUME NEW q \in Instance
        PROVE  /\ instances[q] \in Start /\ Overtaken(q) \in Start
               /\ Overtaken(q).phase = instances[q].phase
               /\ Overtaken(q).previous = instances[q].previous
               /\ Overtaken(q).stamp = instances[q].stamp
               /\ Overtaken(q).pending = instances[q].pending /\ Overtaken(q).overtaken
    BY DEF UpgradeInv, UpgradeTypeOK, Start
  <1>4. Late(p) \in BOOLEAN /\ \A q \in Instance :
           ~Late(q) => \/ instances[q].phase \in {"down", "apply", "running"}
                       \/ VersionOf[q] = VersionOf[p]
    OBVIOUS
  <1> HIDE DEF running, Overtaken, Late
  <1>5. /\ instances' \in [Instance -> Start] /\ instances'[p].phase = "running"
        /\ \A q \in Instance \ {p} :
              \/ Late(q) /\ instances'[q] = Overtaken(q)
              \/ ~Late(q) /\ instances'[q] = instances[q]
    BY <1>1, <1>2, <1>3
  <1>6. ASSUME NEW q \in Instance \ {p} PROVE BackupFile(q)' = BackupFile(q)
    BY <1>3, <1>5 DEF BackupFile
  <1> QED
    BY <1>3, <1>4, <1>5, <1>6

\* A version is written where its schema is there, and nobody else is applying files.
LEMMA WritingKeeps ==
    ASSUME UpgradeInv, NEW p \in Instance, WriteRuntimeVersion(p),
           \A q \in Instance \ {p} : ~At(q, "apply"),
           extent' \in Extent, \A f \in MigrationFile : extent[f] <= extent'[f],
           marks' \in Mark, MarksAreHonest', VerifySchema(VersionOf[p], extent'),
           Pending(VersionOf[p])' = {} \/ engine = "sqlite",
           versioned' \in BOOLEAN, lock' \in Instance \cup {Nobody}, hasty' \in BOOLEAN,
           UNCHANGED <<engine, disk, stops>>
    PROVE  UpgradeInv'
  <1>1. recorded' = VersionOf[p] /\ base' = extent'
    BY DEF WriteRuntimeVersion
  <1>2. UpgradeTypeOK'
    BY <1>1, WritingRecords, Versions DEF UpgradeInv, UpgradeTypeOK, disk
  <1>3. VersionsAreThere'
    <2>1. ASSUME NEW q \in Instance \ {p}, At(q, "running")'
          PROVE  VerifySchema(VersionOf[q], extent')
      BY <2>1, WritingRecords, VerifiedStays, Versions
         DEF At, UpgradeInv, UpgradeTypeOK, VersionsAreThere
    <2> QED
      BY <1>1, <2>1 DEF VersionsAreThere, VerifySchema
  <1>4. SchemaIsSecured'
    BY <1>1 DEF SchemaIsSecured, Extent
  <1>5. FilesAreApart'
    <2>1. ASSUME NEW q \in Instance, engine = "postgres"
          PROVE  instances'[q].phase \notin {"open", "unlinked"}
      BY <2>1, WritingRecords DEF UpgradeInv, FilesAreApart
    <2>2. ASSUME NEW q \in Instance, At(q, "copy")'
          PROVE  At(q, "copy") /\ BackupFile(q)' = BackupFile(q)
      BY <2>2, WritingRecords DEF At
    <2> QED
      BY <2>1, <2>2 DEF UpgradeInv, FilesAreApart, disk
  <1>6. StartsAreSound'
    <2>1. ASSUME NEW q \in Instance, engine = "postgres", ~instances'[q].overtaken
          PROVE  StartIsSound(q)'
      <3>1. CASE VersionOf[q] = VersionOf[p]
        <4>1. Rested(q)'
          BY <2>1, <3>1 DEF Rested
        <4> QED
          BY <4>1 DEF StartIsSound
      <3>2. CASE VersionOf[q] # VersionOf[p]
        <4>1. instances'[q].phase \in {"down", "apply", "running"}
          BY <2>1, <3>2, WritingRecords
        <4> QED
          BY <4>1 DEF StartIsSound, At
      <3> QED
        BY <3>1, <3>2
    <2> QED
      BY <2>1 DEF StartsAreSound
  <1>7. AppliedUnderLock'
    BY WritingRecords DEF AppliedUnderLock, At
  <1> QED
    BY <1>2, <1>3, <1>4, <1>5, <1>6, <1>7 DEF UpgradeInv

\* What is marked is what was applied.
LEMMA MarkedIsHonest ==
    ASSUME UpgradeInv, NEW v \in Version, NEW files \in SUBSET MigrationFile,
           extent' = Applied(files, v), marks' = Marked(files, v)
    PROVE  marks' \in Mark /\ MarksAreHonest'
  <1>1. /\ \A f \in MigrationFile : Revision[v][f] \in Int
        /\ \A f \in MigrationFile : marks[f] \in Int /\ marks[f] <= extent[f]
        /\ \A f \in MigrationFile : extent[f] \in Int
    BY Versions DEF UpgradeInv, UpgradeTypeOK, MarksAreHonest, Mark, Extent
  <1>2. /\ marks' \in Mark
        /\ \A f \in MigrationFile :
              marks'[f] = IF f \in files THEN Revision[v][f] ELSE marks[f]
    BY <1>1 DEF Marked, Mark
  <1>3. /\ extent' \in Extent /\ \A f \in MigrationFile : extent[f] <= extent'[f]
        /\ \A f \in files : Revision[v][f] <= extent'[f]
    BY AppliedAdds DEF UpgradeInv, UpgradeTypeOK
  <1>4. ASSUME NEW f \in MigrationFile PROVE marks'[f] <= extent'[f]
    <2>1. extent'[f] \in Int /\ extent[f] <= extent'[f]
      BY <1>3 DEF Extent
    <2> QED
      BY <1>1, <1>2, <1>3, <2>1
  <1> QED
    BY <1>2, <1>4 DEF MarksAreHonest

\* SQLite upgrades in one transaction, after which nobody's decision counts.
LEMMA MigrateSqliteKeeps ==
    ASSUME UpgradeInv, NEW p \in Instance, MigrateSqlite(p) PROVE UpgradeInv'
  <1> DEFINE v == VersionOf[p]
             files == Pending(v)
  <1>1. engine = "sqlite" /\ UNCHANGED <<engine, disk, lock, stops>>
    BY DEF MigrateSqlite
  <1>2. CASE Exit(p) /\ UNCHANGED database
    <2>1. Rest /\ Typed /\ backups' = backups /\ reused' = reused /\ hasty' = hasty
      BY <1>1, <1>2 DEF Rest, Typed, database, disk, UpgradeInv, UpgradeTypeOK
    <2> QED
      BY <1>1, <1>2, <2>1, ExitKeeps
  <1>3. CASE /\ VerifySchema(v, Applied(files, v)) /\ versioned' = TRUE
             /\ extent' = Applied(files, v) /\ marks' = Marked(files, v)
             /\ hasty' = (hasty \/ instances[p].overtaken)
             /\ WriteRuntimeVersion(p)
    <2>1. v \in Version /\ files \in SUBSET MigrationFile
      BY Versions DEF Pending, Shipped
    <2>2. /\ extent' \in Extent /\ \A f \in MigrationFile : extent[f] <= extent'[f]
      BY <1>3, <2>1, AppliedAdds DEF UpgradeInv, UpgradeTypeOK
    <2>3. marks' \in Mark /\ MarksAreHonest'
      BY <1>3, <2>1, MarkedIsHonest
    <2>4. hasty' \in BOOLEAN
      BY <1>3 DEF UpgradeInv, UpgradeTypeOK, Start
    <2>5. \A q \in Instance : ~At(q, "apply")
      BY <1>1 DEF UpgradeInv, AppliedUnderLock
    <2>6. lock' \in Instance \cup {Nobody}
      BY <1>1 DEF UpgradeInv, UpgradeTypeOK
    <2> HIDE DEF v, files
    <2>7. VerifySchema(VersionOf[p], extent')
      BY <1>3 DEF v
    <2> QED
      BY <1>1, <1>3, <2>2, <2>3, <2>4, <2>5, <2>6, <2>7, WritingKeeps
  <1> QED
    BY <1>2, <1>3 DEF MigrateSqlite

\* PostgreSQL writes the version when every file is applied, and gives the lock back.
LEMMA FinishPostgresKeeps ==
    ASSUME UpgradeInv, NEW p \in Instance, FinishPostgres(p) PROVE UpgradeInv'
  <1>1. /\ At(p, "apply") /\ instances[p].pending = {} /\ lock' = Nobody
        /\ UNCHANGED <<engine, versioned, marks, extent, hasty, disk, stops>>
    BY DEF FinishPostgres
  <1>2. lock = p /\ lock' \in Instance \cup {Nobody}
    BY <1>1 DEF UpgradeInv, AppliedUnderLock
  <1>3. CASE VerifySchema(VersionOf[p], extent) /\ WriteRuntimeVersion(p)
    <2>1. \A q \in Instance \ {p} : ~At(q, "apply")
      BY <1>2 DEF UpgradeInv, AppliedUnderLock
    <2>2. /\ extent' \in Extent /\ \A f \in MigrationFile : extent[f] <= extent'[f]
          /\ marks' \in Mark /\ MarksAreHonest'
      BY <1>1 DEF UpgradeInv, UpgradeTypeOK, MarksAreHonest, Extent
    <2>3. VerifySchema(VersionOf[p], extent')
      BY <1>1, <1>3 DEF VerifySchema
    <2>4. versioned' \in BOOLEAN /\ hasty' \in BOOLEAN
      BY <1>1 DEF UpgradeInv, UpgradeTypeOK
    <2>5. Pending(VersionOf[p])' = {}
      <3>1. Pending(VersionOf[p]) = {}
        BY <1>1 DEF UpgradeInv, AppliedUnderLock
      <3> QED
        BY <1>1, <3>1 DEF Pending
    <2> QED
      BY <1>1, <1>2, <1>3, <2>1, <2>2, <2>3, <2>4, <2>5, WritingKeeps
  <1>4. CASE Exit(p) /\ UNCHANGED <<recorded, base>>
    <2>1. Rest /\ Typed /\ backups' = backups /\ reused' = reused
      BY <1>1, <1>2, <1>4 DEF Rest, Typed, disk, UpgradeInv, UpgradeTypeOK
    <2> QED
      BY <1>1, <1>2, <1>4, <2>1, ExitKeeps
  <1> QED
    BY <1>3, <1>4 DEF FinishPostgres

\* The three databases an upgrade may start with say nothing that is not true.
LEMMA UpgradeStarts == UpgradeInit => UpgradeInv
  <1> SUFFICES ASSUME UpgradeInit PROVE UpgradeInv
    OBVIOUS
  <1>1. \A p \in Instance : instances[p] = Down
    BY DEF UpgradeInit
  <1>2. /\ instances \in [Instance -> Start]
        /\ \A p \in Instance : instances[p].phase = "down"
    BY DownIsAStart DEF UpgradeInit
  <1>3. /\ Revision[1] \in Extent /\ VerifySchema(1, Revision[1])
        /\ \A v \in Version : v # 0
    BY Versions DEF VerifySchema, Shipped, Extent
  <1>4. /\ extent \in Extent /\ marks \in Mark /\ MarksAreHonest
        /\ recorded \in {0, 1} /\ (recorded > 0 => VerifySchema(recorded, extent))
    <2>1. CASE recorded = 0 /\ extent = Empty /\ marks = Empty
      BY <2>1 DEF Empty, Extent, Mark, MarksAreHonest
    <2>2. CASE /\ recorded = 0 /\ extent = [Empty EXCEPT ![1] = 1]
               /\ marks \in {Empty, [Empty EXCEPT ![1] = Unchecked]}
      <3>1. /\ extent \in Extent
            /\ \A f \in MigrationFile : extent[f] = IF f = 1 THEN 1 ELSE 0
        BY <2>2 DEF Empty, Extent
      <3>2. marks = Empty \/ marks = [Empty EXCEPT ![1] = -1]
        BY <2>2 DEF Unchecked
      <3>3. /\ marks \in Mark
            /\ \A f \in MigrationFile : marks[f] \in {0, -1}
        BY <3>2 DEF Empty, Mark
      <3> QED
        BY <2>2, <3>1, <3>3 DEF MarksAreHonest
    <2>3. CASE recorded = 1 /\ extent = Revision[1] /\ marks = Revision[1]
      BY <1>3, <2>3 DEF Extent, Mark, MarksAreHonest
    <2>4. \/ recorded = 0 /\ extent = Empty /\ marks = Empty
          \/ /\ recorded = 0 /\ extent = [Empty EXCEPT ![1] = 1]
             /\ marks \in {Empty, [Empty EXCEPT ![1] = Unchecked]}
          \/ recorded = 1 /\ extent = Revision[1] /\ marks = Revision[1]
      BY DEF UpgradeInit
    <2> QED
      BY <2>1, <2>2, <2>3, <2>4
  <1>5. UpgradeTypeOK
    BY <1>2, <1>4, Versions DEF UpgradeInit, UpgradeTypeOK
  <1>6. VersionsAreThere /\ FilesAreApart /\ StartsAreSound /\ AppliedUnderLock
    BY <1>2, <1>4 DEF VersionsAreThere, FilesAreApart, StartsAreSound, StartIsSound,
                      AppliedUnderLock, At
  <1>7. SchemaIsSecured
    BY <1>4 DEF UpgradeInit, SchemaIsSecured, Extent
  <1> QED
    BY <1>4, <1>5, <1>6, <1>7 DEF UpgradeInv

\* Every step of a start keeps the invariant.
LEMMA UpgradeSteps == ASSUME UpgradeInv, [UpgradeNext]_upgradeVars PROVE UpgradeInv'
  <1>1. CASE UNCHANGED upgradeVars
    <2>1. \A p \in Instance : BackupFile(p)' = BackupFile(p)
      BY <1>1 DEF upgradeVars, BackupFile
    <2>2. (Secured => Secured') /\ \A v : Pending(v)' = Pending(v)
      BY <1>1, <2>1 DEF upgradeVars, Secured, At, Pending
    <2>3. UpgradeTypeOK' /\ MarksAreHonest' /\ VersionsAreThere' /\ SchemaIsSecured'
      BY <1>1, <2>2 DEF upgradeVars, UpgradeInv, UpgradeTypeOK, MarksAreHonest,
                        VersionsAreThere, SchemaIsSecured, At, VerifySchema
    <2>4. FilesAreApart' /\ AppliedUnderLock'
      BY <1>1, <2>1, <2>2 DEF upgradeVars, UpgradeInv, FilesAreApart, AppliedUnderLock, At
    <2>5. ASSUME NEW p \in Instance, StartIsSound(p) PROVE StartIsSound(p)'
      BY <1>1, <2>1, <2>2, <2>5 DEF upgradeVars, StartIsSound, Rested, At
    <2>6. StartsAreSound'
      BY <1>1, <2>5 DEF upgradeVars, UpgradeInv, StartsAreSound
    <2> QED
      BY <2>3, <2>4, <2>6 DEF UpgradeInv
  <1>2. ASSUME NEW p \in Instance, Startup(p) PROVE UpgradeInv'
    BY <1>2, InspectKeeps, DecideKeeps, BackupOfSqliteKeeps, FinishUnlinkedKeeps,
       OpenPostgresKeeps, BackupPostgresKeeps, MigrateSqliteKeeps, LockPostgresKeeps,
       ApplyFileKeeps, FinishPostgresKeeps DEF Startup
  <1> QED
    BY <1>1, <1>2, BackupOfSqliteKeeps, StopInstanceKeeps, PassSecondKeeps DEF UpgradeNext

\* What the database says of itself is true at any moment, between the files of an upgrade
\* and after a process was stopped, however many processes of whatever versions start; and
\* what an upgrade changes is in a file, unless one that another version had overtaken
\* went on, or a backup was begun under the name of another one.
THEOREM UpgradesAlwaysSafe == UpgradeSpec => []UpgradesAreSafe
  <1>1. UpgradeInv => UpgradesAreSafe
    BY DEF UpgradeInv, MarksAreHonest, VersionsAreThere, SchemaIsSecured, Secured,
           UpgradesAreSafe
  <1> QED
    BY <1>1, UpgradeStarts, UpgradeSteps, PTL DEF UpgradeSpec

-----------------------------------------------------------------------------
(* The licence: the invariant holds.                                       *)

\* What is assumed of the servers and of what operators put.
LEMMA Servers ==
    /\ Len(ServerIds) \in Nat \ {0} /\ DOMAIN ServerIds = 1..Len(ServerIds)
    /\ ServerId = {ServerIds[i] : i \in 1..Len(ServerIds)}
    /\ \A t \in Terms : t.offers \subseteq Snapshot
    /\ \A t \in Terms : t.operators \subseteq Operator /\ t.requests \subseteq Request
    /\ Grace \in Nat /\ None.active = FALSE /\ None.version = 0
    /\ None \notin Snapshot
  <1>1. Len(ServerIds) \in Nat /\ DOMAIN ServerIds = 1..Len(ServerIds) /\ ServerIds # <<>>
    BY LicenceAssumption
  <1>2. Len(ServerIds) # 0
    BY <1>1, EmptySeq, LenProperties, LicenceAssumption
  <1>3. ServerId = {ServerIds[i] : i \in 1..Len(ServerIds)}
    BY <1>1 DEF ServerId
  <1>4. \A t \in Terms : t.offers \subseteq Snapshot
    BY LicenceAssumption DEF Snapshot, ServerId
  <1>5. None.active = FALSE /\ None.version = 0 /\ None \notin Snapshot
    BY DEF None, Snapshot
  <1> QED
    BY <1>1, <1>2, <1>3, <1>4, <1>5, LicenceAssumption

\* What a check makes of its record.
Asking(now) == [Idle EXCEPT !.phase = "ask", !.endpoint = 1, !.seen = {now}]
Moved(old, phase, endpoint) == [old EXCEPT !.phase = phase, !.endpoint = endpoint]
Answered(old, snapshot) == [old EXCEPT !.phase = "answered", !.snapshot = snapshot]
Failing(old, phase) == [old EXCEPT !.phase = phase, !.failed = TRUE]
LookingUp(old, snapshot, time, version) ==
    [old EXCEPT !.phase = "useCached", !.snapshot = snapshot, !.lookedUp = time,
                !.newest = version]
Ended(old, phase, time) == [old EXCEPT !.phase = phase, !.at = time]
Sharing(old) == [old EXCEPT !.shared = TRUE]
Seeing(old, now) == [old EXCEPT !.seen = old.seen \cup {now}]

\* What stays when a check goes on.
Same(old, new) ==
    /\ new.seen = old.seen /\ new.shared = old.shared /\ new.failed = old.failed
    /\ new.snapshot = old.snapshot /\ new.lookedUp = old.lookedUp
    /\ new.newest = old.newest

\* A check at another step, or at another endpoint.
LEMMA MovedFields ==
    ASSUME NEW old \in Check, NEW phase \in CheckPhase,
           NEW endpoint \in 0..Len(ServerIds) + 1
    PROVE  /\ Moved(old, phase, endpoint) \in Check
           /\ Moved(old, phase, endpoint).phase = phase
           /\ Moved(old, phase, endpoint).endpoint = endpoint
           /\ Same(old, Moved(old, phase, endpoint))
  BY DEF Check, Moved, Same
\* A check with its answer.
LEMMA AnsweredFields ==
    ASSUME NEW old \in Check, NEW snapshot \in Answer
    PROVE  /\ Answered(old, snapshot) \in Check
           /\ Answered(old, snapshot).phase = "answered"
           /\ Answered(old, snapshot).snapshot = snapshot
           /\ Answered(old, snapshot).seen = old.seen
           /\ Answered(old, snapshot).failed = old.failed
  BY DEF Check, CheckPhase, Answered
\* A check whose question failed.
LEMMA FailingFields ==
    ASSUME NEW old \in Check, NEW phase \in CheckPhase
    PROVE  /\ Failing(old, phase) \in Check /\ Failing(old, phase).phase = phase
           /\ Failing(old, phase).failed /\ Failing(old, phase).seen = old.seen
           /\ Failing(old, phase).endpoint = old.endpoint
  BY DEF Check, Failing
\* A check that has decided.
LEMMA EndedFields ==
    ASSUME NEW old \in Check, NEW phase \in CheckPhase, NEW time \in Nat
    PROVE  /\ Ended(old, phase, time) \in Check /\ Ended(old, phase, time).phase = phase
           /\ Ended(old, phase, time).at = time /\ Same(old, Ended(old, phase, time))
  BY DEF Check, Ended, Same
\* A check that sees the flag of another one.
LEMMA SharingFields ==
    ASSUME NEW old \in Check
    PROVE  /\ Sharing(old) \in Check /\ Sharing(old).phase = old.phase
           /\ Sharing(old).seen = old.seen /\ Sharing(old).failed = old.failed
           /\ Sharing(old).snapshot = old.snapshot /\ Sharing(old).newest = old.newest
           /\ Sharing(old).lookedUp = old.lookedUp /\ Sharing(old).shared
  BY DEF Check, Sharing
\* A check that turns to the cache.
LEMMA LookingFields ==
    ASSUME NEW old \in Check, NEW snapshot \in Answer, NEW time \in Nat,
           NEW version \in Nat
    PROVE  /\ LookingUp(old, snapshot, time, version) \in Check
           /\ LookingUp(old, snapshot, time, version).phase = "useCached"
           /\ LookingUp(old, snapshot, time, version).snapshot = snapshot
           /\ LookingUp(old, snapshot, time, version).lookedUp = time
           /\ LookingUp(old, snapshot, time, version).newest = version
           /\ LookingUp(old, snapshot, time, version).seen = old.seen
           /\ LookingUp(old, snapshot, time, version).failed = old.failed
  BY DEF Check, CheckPhase, LookingUp

\* A check while which the authority changes.
LEMMA SeeingFields ==
    ASSUME NEW old \in Check, NEW now \in Authority
    PROVE  /\ Seeing(old, now) \in Check
           /\ Seeing(old, now).phase = old.phase /\ Seeing(old, now).endpoint = old.endpoint
           /\ Seeing(old, now).seen = old.seen \cup {now}
           /\ Seeing(old, now).shared = old.shared /\ Seeing(old, now).failed = old.failed
           /\ Seeing(old, now).snapshot = old.snapshot
           /\ Seeing(old, now).lookedUp = old.lookedUp
           /\ Seeing(old, now).newest = old.newest
  BY DEF Check, Seeing

\* A check that begins.
LEMMA AskingFields ==
    ASSUME NEW now \in Authority
    PROVE  /\ Asking(now) \in Check /\ Asking(now).phase = "ask"
           /\ Asking(now).endpoint = 1 /\ Asking(now).seen = {now}
  <1>1. 0 \in 0..Len(ServerIds) + 1 /\ 1 \in 0..Len(ServerIds) + 1
    BY Servers
  <1>2. Idle \in Check
    BY <1>1 DEF Idle, Check, CheckPhase, Answer
  <1> QED
    BY <1>1, <1>2 DEF Asking, Check, CheckPhase

\* The more a check has seen, the more the authority may have said to it.
LEMMA MoreAnswers ==
    ASSUME NEW old, NEW new, old.seen \subseteq new.seen, old.failed => new.failed
    PROVE  /\ Answers(old) \subseteq Answers(new)
           /\ Unanswered(old) => Unanswered(new)
           /\ \A n \in Nat : NothingBefore(old, n) => NothingBefore(new, n)
  <1>1. Unanswered(old) => Unanswered(new)
    BY DEF Unanswered
  <1>2. \A n \in Nat : NothingBefore(old, n) => NothingBefore(new, n)
    BY DEF NothingBefore
  <1>3. Answers(old) \subseteq Answers(new)
    BY DEF Answers
  <1> QED
    BY <1>1, <1>2, <1>3

\* One check goes on; the answers of the authority and the cache may only get better.
LEMMA CheckGoesOn ==
    ASSUME LicenceInv, NEW r \in Request, NEW check \in Check,
           checks' = [checks EXCEPT ![r] = check],
           UNCHANGED <<authority, terms, puts, clock>>, failures' \in Nat,
           cached' \in Answer, usingGrace' \in BOOLEAN, newest' \in [ServerId -> Nat],
           late' \in BOOLEAN, late => late', usingGrace' => usingGrace, CacheIsLatest',
           CheckIsSound(check, authority, usingGrace', late')
    PROVE  LicenceInv'
  <1>1. LicenceTypeOK'
    BY DEF LicenceInv, LicenceTypeOK
  <1>2. /\ checks'[r] = check
        /\ \A q \in Request \ {r} : checks'[q] = checks[q]
    BY DEF LicenceInv, LicenceTypeOK
  <1>3. ASSUME NEW q \in Request \ {r}
        PROVE  CheckIsSound(checks[q], authority, usingGrace', late')
    BY DEF LicenceInv, CheckIsSound, SnapshotIsGood, DecidedWell, FromCache
  <1>4. ASSUME NEW q \in Request
        PROVE  CheckIsSound(checks'[q], authority', usingGrace', late')
    BY <1>2, <1>3
  <1>5. (\A q \in Request : CheckIsSound(checks[q], authority, usingGrace, late))'
    BY <1>4
  <1> QED
    BY <1>1, <1>5 DEF LicenceInv

\* Behind an endpoint that had nothing, or did not answer, comes the next or the cache.
LEMMA NextIsReached ==
    ASSUME NEW old \in Check, NEW new \in Check, old.endpoint <= Len(ServerIds),
           new.phase = NextEndpoint(old).phase, new.endpoint = NextEndpoint(old).endpoint,
           NothingBefore(new, old.endpoint + 1)
    PROVE  new.phase \in {"ask", "lookUp"} /\ EndpointIsReached(new)
  <1>1. /\ old.endpoint \in Nat
        /\ Len(ServerIds) \in Nat \ {0} /\ DOMAIN ServerIds = 1..Len(ServerIds)
        /\ ServerId = {ServerIds[i] : i \in 1..Len(ServerIds)}
    BY Servers DEF Check
  <1>2. CASE old.endpoint < Len(ServerIds)
    <2>1. new.phase = "ask" /\ new.endpoint = old.endpoint + 1
      BY <1>2 DEF NextEndpoint, Check
    <2> QED
      BY <1>1, <1>2, <2>1 DEF EndpointIsReached
  <1>3. CASE ~(old.endpoint < Len(ServerIds))
    <2>1. new.phase = "lookUp" /\ new.endpoint = Len(ServerIds) + 1
      BY <1>3 DEF NextEndpoint, Check
    <2>2. old.endpoint = Len(ServerIds)
      BY <1>1, <1>3
    <2>3. (old.endpoint + 1) - 1 = Len(ServerIds)
      BY <1>1, <2>2
    <2>4. new.failed \/ \A i \in 1..Len(ServerIds) :
                            \E a \in new.seen : a[ServerIds[i]] = None
      BY <2>3 DEF NothingBefore
    <2>5. Unanswered(new)
      BY <1>1, <2>4 DEF Unanswered
    <2> QED
      BY <2>1, <2>5 DEF EndpointIsReached
  <1> QED
    BY <1>2, <1>3

\* What NextEndpoint makes of a check.
LEMMA NextFields ==
    ASSUME NEW old \in Check, old.endpoint <= Len(ServerIds)
    PROVE  /\ NextEndpoint(old) \in Check /\ Same(old, NextEndpoint(old))
           /\ NextEndpoint(old).phase \in {"ask", "lookUp"}
  <1> DEFINE n == old.endpoint
  <1>1. n \in 0..Len(ServerIds) + 1 /\ Len(ServerIds) \in Nat
    BY Servers DEF Check
  <1>2. CASE n < Len(ServerIds)
    <2>1. n + 1 \in 0..Len(ServerIds) + 1 /\ "ask" \in CheckPhase
      BY <1>1, <1>2 DEF CheckPhase
    <2>2. NextEndpoint(old) = Moved(old, "ask", n + 1)
      BY <1>2 DEF NextEndpoint, Moved, Check
    <2> QED
      BY <2>1, <2>2 DEF Check, Moved, Same
  <1>3. CASE ~(n < Len(ServerIds))
    <2>1. Len(ServerIds) + 1 \in 0..Len(ServerIds) + 1 /\ "lookUp" \in CheckPhase
      BY <1>1 DEF CheckPhase
    <2>2. NextEndpoint(old) = Moved(old, "lookUp", Len(ServerIds) + 1)
      BY <1>3 DEF NextEndpoint, Moved, Check
    <2> QED
      BY <2>1, <2>2 DEF Check, Moved, Same
  <1> QED
    BY <1>2, <1>3

\* A check that is under way, and not yet at a decision, is sound once its endpoint is.
LEMMA OnItsWay ==
    ASSUME NEW check \in Check, NEW grace, NEW overtaken, check.phase \in {"ask", "lookUp"},
           authority \in check.seen, EndpointIsReached(check)
    PROVE  CheckIsSound(check, authority, grace, overtaken)
  BY DEF CheckIsSound, SnapshotIsGood, DecidedWell

\* The flag, the cache and the history stay as they are.
LEMMA ClientRests ==
    ASSUME LicenceInv, UNCHANGED clientVars
    PROVE  /\ cached' \in Answer /\ usingGrace' \in BOOLEAN
           /\ newest' \in [ServerId -> Nat] /\ late' \in BOOLEAN /\ (late => late')
           /\ (usingGrace' => usingGrace) /\ CacheIsLatest'
           /\ usingGrace' = usingGrace /\ late' = late
  BY DEF LicenceInv, LicenceTypeOK, clientVars, CacheIsLatest

\* What is known of a check.
LEMMA CheckKnown ==
    ASSUME LicenceInv, NEW r \in Request
    PROVE  /\ checks[r] \in Check /\ authority \in Authority
           /\ CheckIsSound(checks[r], authority, usingGrace, late)
           /\ clock \in Nat /\ failures \in Nat
  BY DEF LicenceInv, LicenceTypeOK

\* A check begins with what the authority says now.
LEMMA RequireKeeps ==
    ASSUME LicenceInv, NEW r \in Request, Require(r) PROVE LicenceInv'
  <1> DEFINE check == Asking(authority)
  <1>1. /\ checks' = [checks EXCEPT ![r] = check]
        /\ UNCHANGED <<authorityVars, clientVars, clock, failures>>
    BY DEF Require, Asking
  <1>2. /\ check \in Check /\ check.phase = "ask" /\ check.endpoint = 1
        /\ check.seen = {authority}
    BY AskingFields, CheckKnown
  <1> HIDE DEF check
  <1>3. EndpointIsReached(check)
    BY <1>2, Servers DEF EndpointIsReached, NothingBefore
  <1>4. CheckIsSound(check, authority, usingGrace', late')
    BY <1>2, <1>3, OnItsWay
  <1> QED
    BY <1>1, <1>2, <1>4, ClientRests, CheckKnown, CheckGoesOn DEF authorityVars

\* An answer is what the authority says, and no answer leads on.
LEMMA AskKeeps ==
    ASSUME LicenceInv, NEW r \in Request, Ask(r) PROVE LicenceInv'
  <1> DEFINE old == checks[r]
             snapshot == authority[ServerIds[old.endpoint]]
             check == IF snapshot = None THEN NextEndpoint(old) ELSE Answered(old, snapshot)
  <1>1. /\ checks' = [checks EXCEPT ![r] = check] /\ old.phase = "ask"
        /\ UNCHANGED <<authorityVars, clientVars, clock, failures>>
    BY DEF Ask, Answered, Is
  <1>2. /\ old \in Check /\ authority \in old.seen
        /\ old.endpoint \in 1..Len(ServerIds) /\ NothingBefore(old, old.endpoint)
        /\ authority \in Authority
    BY <1>1, CheckKnown, Servers DEF CheckIsSound, EndpointIsReached, UnderWay
  <1>3. snapshot \in Answer
    BY <1>2, Servers DEF Authority
  <1> HIDE DEF old, snapshot
  <1>4. CASE snapshot = None
    <2>1. /\ check = NextEndpoint(old) /\ check \in Check /\ Same(old, check)
      BY <1>2, <1>4, NextFields, Servers
    <2> HIDE DEF check
    <2>2. NothingBefore(check, old.endpoint + 1)
      BY <1>2, <1>4, <2>1, Servers DEF NothingBefore, Same, snapshot
    <2>3. check.phase \in {"ask", "lookUp"} /\ EndpointIsReached(check)
      BY <1>2, <2>1, <2>2, NextIsReached, Servers
    <2>4. CheckIsSound(check, authority, usingGrace', late')
      BY <1>2, <2>1, <2>3, OnItsWay DEF Same
    <2> QED
      BY <1>1, <2>1, <2>4, ClientRests, CheckKnown, CheckGoesOn DEF authorityVars
  <1>5. CASE snapshot # None
    <2>1. /\ check \in Check /\ check.phase = "answered" /\ check.snapshot = snapshot
          /\ check.seen = old.seen /\ check.failed = old.failed
      BY <1>2, <1>3, <1>5, AnsweredFields
    <2> HIDE DEF check
    <2>2. FromAuthority(check)
      <3>1. snapshot \in {a[ServerIds[old.endpoint]] : a \in check.seen}
        BY <1>2, <2>1 DEF snapshot
      <3>2. check.failed \/ \A j \in 1..old.endpoint - 1 :
                               \E a \in check.seen : a[ServerIds[j]] = None
        BY <1>2, <2>1 DEF NothingBefore
      <3> QED
        BY <1>2, <1>5, <2>1, <3>1, <3>2, Servers DEF FromAuthority, Answers
    <2>3. CheckIsSound(check, authority, usingGrace', late')
      BY <1>2, <2>1, <2>2
         DEF CheckIsSound, EndpointIsReached, SnapshotIsGood, DecidedWell
    <2> QED
      BY <1>1, <2>1, <2>3, ClientRests, CheckKnown, CheckGoesOn DEF authorityVars
  <1> QED
    BY <1>4, <1>5

\* An answer that is lost leads on as well, and is remembered.
LEMMA LoseAnswerKeeps ==
    ASSUME LicenceInv, NEW r \in Request, LoseAnswer(r) PROVE LicenceInv'
  <1> DEFINE old == checks[r]
             next == NextEndpoint(old)
             check == [next EXCEPT !.failed = TRUE]
  <1>1. /\ checks' = [checks EXCEPT ![r] = check] /\ old.phase = "ask"
        /\ failures' = failures + 1 /\ UNCHANGED <<authorityVars, clientVars, clock>>
    BY DEF LoseAnswer, Is
  <1>2. /\ old \in Check /\ authority \in old.seen
        /\ old.endpoint \in 1..Len(ServerIds)
    BY <1>1, CheckKnown, Servers DEF CheckIsSound, EndpointIsReached, UnderWay
  <1>3. next \in Check /\ Same(old, next)
    BY <1>2, NextFields, Servers
  <1>4. /\ check \in Check /\ check.failed /\ check.seen = old.seen
        /\ check.phase = next.phase /\ check.endpoint = next.endpoint
    BY <1>3 DEF Check, Same
  <1> HIDE DEF check
  <1>5. NothingBefore(check, old.endpoint + 1)
    BY <1>4 DEF NothingBefore
  <1>6. check.phase \in {"ask", "lookUp"} /\ EndpointIsReached(check)
    BY <1>2, <1>4, <1>5, NextIsReached, Servers
  <1>7. CheckIsSound(check, authority, usingGrace', late')
    BY <1>2, <1>4, <1>6, OnItsWay
  <1>8. failures' \in Nat
    BY <1>1, CheckKnown
  <1> HIDE DEF old
  <1> QED
    BY <1>1, <1>4, <1>7, <1>8, ClientRests, CheckGoesOn DEF authorityVars

\* An answer that is refused leads to the cache, and is remembered.
LEMMA RefuseAnswerKeeps ==
    ASSUME LicenceInv, NEW r \in Request, RefuseAnswer(r) PROVE LicenceInv'
  <1> DEFINE old == checks[r]
             check == Failing(old, "lookUp")
  <1>1. /\ checks' = [checks EXCEPT ![r] = check] /\ old.phase = "ask"
        /\ failures' = failures + 1 /\ UNCHANGED <<authorityVars, clientVars, clock>>
    BY DEF RefuseAnswer, Is, Failing
  <1>2. old \in Check /\ authority \in old.seen
    BY <1>1, CheckKnown DEF CheckIsSound, UnderWay
  <1>3. /\ check \in Check /\ check.phase = "lookUp" /\ check.failed
        /\ check.seen = old.seen
    BY <1>2, FailingFields DEF CheckPhase
  <1> HIDE DEF check
  <1>4. EndpointIsReached(check)
    BY <1>3 DEF EndpointIsReached, Unanswered
  <1>5. CheckIsSound(check, authority, usingGrace', late')
    BY <1>2, <1>3, <1>4, OnItsWay
  <1>8. failures' \in Nat
    BY <1>1, CheckKnown
  <1> HIDE DEF old
  <1> QED
    BY <1>1, <1>3, <1>5, <1>8, ClientRests, CheckGoesOn DEF authorityVars

\* The answers of a check that has not ended are those it had a step before.
LEMMA SameAnswers ==
    ASSUME NEW old, NEW new, Same(old, new)
    PROVE  /\ Answers(new) = Answers(old) /\ (Unanswered(new) <=> Unanswered(old))
           /\ (FromAuthority(new) <=> FromAuthority(old))
           /\ \A overtaken : FromCache(new, overtaken) <=> FromCache(old, overtaken)
  BY DEF Same, Answers, Unanswered, FromAuthority, FromCache

\* An answer goes into the cache, and the flag is taken back.
LEMMA TakeAnswerKeeps ==
    ASSUME LicenceInv, NEW r \in Request, TakeAnswer(r) PROVE LicenceInv'
  <1> DEFINE old == checks[r]
             s == old.snapshot
             check == Moved(old, "decide", old.endpoint)
  <1>1. /\ old.phase = "answered" /\ cached' = s /\ usingGrace' = FALSE
        /\ newest' = [newest EXCEPT ![s.server] = Max({newest[s.server], s.version})]
        /\ late' = (late \/ s.version < newest[s.server])
        /\ checks' = [checks EXCEPT ![r].phase = "decide"]
        /\ UNCHANGED <<authorityVars, clock, failures>>
    BY DEF TakeAnswer, Is, GoOn, Kept
  <1>2. /\ old \in Check /\ authority \in old.seen /\ FromAuthority(old)
    BY <1>1, CheckKnown DEF CheckIsSound, UnderWay, SnapshotIsGood
  <1>3. checks' = [checks EXCEPT ![r] = check]
    <2>1. check = [old EXCEPT !.phase = "decide"]
      BY <1>2 DEF Moved, Check
    <2> QED
      BY <1>1, <2>1 DEF LicenceInv, LicenceTypeOK
  <1>4. /\ check \in Check /\ check.phase = "decide" /\ Same(old, check)
    <2>1. old.endpoint \in 0..Len(ServerIds) + 1 /\ "decide" \in CheckPhase
      BY <1>2 DEF Check, CheckPhase
    <2> HIDE DEF old
    <2> QED
      BY <1>2, <2>1, MovedFields
  <1>5. s \in Snapshot /\ s.server \in ServerId /\ s.version \in Nat
    BY <1>2 DEF FromAuthority, Check, Answer, Snapshot
  <1> HIDE DEF check
  <1>6. newest[s.server] \in Nat /\ newest \in [ServerId -> Nat] /\ late \in BOOLEAN
    BY <1>5 DEF LicenceInv, LicenceTypeOK
  <1>7. Max({newest[s.server], s.version}) =
           IF newest[s.server] >= s.version THEN newest[s.server] ELSE s.version
    BY <1>5, <1>6, MaxOfTwo
  <1>8. /\ newest' \in [ServerId -> Nat] /\ late' \in BOOLEAN /\ (late => late')
        /\ late' \/ newest'[s.server] = s.version
    <2> DEFINE m == Max({newest[s.server], s.version})
    <2>1. m \in Nat /\ (s.version < newest[s.server] \/ m = s.version)
      BY <1>5, <1>6, <1>7
    <2> HIDE DEF m
    <2>2. newest' = [newest EXCEPT ![s.server] = m]
      BY <1>1 DEF m
    <2> HIDE DEF s
    <2>3. newest' \in [ServerId -> Nat] /\ newest'[s.server] = m
      BY <1>5, <1>6, <2>1, <2>2
    <2>4. late' \in BOOLEAN /\ (late => late') /\ (s.version < newest[s.server] => late')
      BY <1>1, <1>6
    <2> QED
      BY <2>1, <2>3, <2>4
  <1>9. CacheIsLatest' /\ cached' \in Answer
    BY <1>1, <1>5, <1>8 DEF CacheIsLatest, Answer
  <1>10. CheckIsSound(check, authority, usingGrace', late')
    <2>1. FromAuthority(check) /\ authority \in check.seen
      BY <1>2, <1>4, SameAnswers DEF Same
    <2> QED
      BY <1>1, <1>4, <2>1
         DEF CheckIsSound, EndpointIsReached, SnapshotIsGood, DecidedWell
  <1> QED
    BY <1>1, <1>3, <1>4, <1>8, <1>9, <1>10, CheckKnown, CheckGoesOn DEF authorityVars

\* What the cache has is good for a check that has no answer, within the grace.
LEMMA LookUpKeeps ==
    ASSUME LicenceInv, NEW r \in Request, LookUp(r) PROVE LicenceInv'
  <1> DEFINE old == checks[r]
             version == newest[cached.server]
             check == LookingUp(old, cached, clock, version)
  <1>1. /\ old.phase = "lookUp" /\ cached.active /\ clock < cached.expires + Grace
        /\ checks' = [checks EXCEPT ![r] = check]
        /\ UNCHANGED <<authorityVars, clientVars, clock, failures>>
    BY DEF LookUp, Is, LookingUp
  <1>2. /\ old \in Check /\ authority \in old.seen /\ Unanswered(old)
    BY <1>1, CheckKnown DEF CheckIsSound, UnderWay, EndpointIsReached
  <1>3. cached # None
    BY <1>1 DEF None
  <1>4. /\ cached \in Answer /\ version \in Nat /\ clock \in Nat
        /\ late \/ cached.version = version
    BY <1>3 DEF LicenceInv, LicenceTypeOK, CacheIsLatest, Answer, Snapshot
  <1>5. /\ check \in Check /\ check.phase = "useCached" /\ check.snapshot = cached
        /\ check.lookedUp = clock /\ check.newest = version
        /\ check.seen = old.seen /\ check.failed = old.failed
    <2> HIDE DEF old, version
    <2> QED
      BY <1>2, <1>4, LookingFields
  <1> HIDE DEF check
  <1>6. FromCache(check, late)
    BY <1>1, <1>2, <1>4, <1>5 DEF FromCache, Unanswered
  <1>7. CheckIsSound(check, authority, usingGrace', late')
    BY <1>2, <1>5, <1>6, ClientRests, <1>1
       DEF CheckIsSound, EndpointIsReached, SnapshotIsGood, DecidedWell
  <1> QED
    BY <1>1, <1>5, <1>7, ClientRests, CheckKnown, CheckGoesOn DEF authorityVars

\* Without an answer, some server has nothing, and the first may have been asked: to refuse
\* is never wrong.
LEMMA RefusalIsRight ==
    ASSUME NEW check, NEW time, Unanswered(check), ~check.failed
    PROVE  \E a \in Answers(check) : ~Valid(a, time)
  <1>1. PICK a \in check.seen : a[ServerIds[1]] = None
    BY Servers DEF Unanswered
  <1>2. None \in {b[ServerIds[1]] : b \in check.seen}
    BY <1>1
  <1>3. 1 \in DOMAIN ServerIds /\ \A j \in 1..1 - 1 : FALSE
    BY Servers
  <1>4. None \in Answers(check)
    BY <1>2, <1>3 DEF Answers
  <1> QED
    BY <1>4 DEF Valid, Grants, None

\* A check the cache does not help goes on, or ends without being let through.
LEMMA LookInVainKeeps ==
    ASSUME LicenceInv, NEW r \in Request, LookInVain(r) PROVE LicenceInv'
  <1> DEFINE old == checks[r]
             end == Len(ServerIds) + 1
             ended == Ended(old, "done", clock)
             last == Moved(old, old.phase, end)
  <1>1. /\ old.phase = "lookUp" /\ UNCHANGED <<authorityVars, clientVars, clock, failures>>
        /\ \/ old.endpoint > Len(ServerIds) /\ checks' = [checks EXCEPT ![r] = ended]
           \/ /\ ~(old.endpoint > Len(ServerIds))
              /\ \/ checks' = [checks EXCEPT ![r] = NextEndpoint(old)]
                 \/ checks' = [checks EXCEPT ![r].endpoint = end]
    BY DEF LookInVain, Is, Ended
  <1>2. /\ old \in Check /\ authority \in old.seen /\ Unanswered(old)
        /\ old.failed \/ old.endpoint = end
    BY <1>1, CheckKnown DEF CheckIsSound, UnderWay, EndpointIsReached
  <1>3. old.endpoint \in Nat /\ Len(ServerIds) \in Nat /\ old.phase \in CheckPhase
    BY <1>2, Servers DEF Check
  <1>4. CASE checks' = [checks EXCEPT ![r] = ended]
    <2>1. ended \in Check /\ ended.phase = "done" /\ Same(old, ended)
      <3>1. "done" \in CheckPhase /\ clock \in Nat
        BY CheckKnown DEF CheckPhase
      <3> HIDE DEF old
      <3> QED
        BY <1>2, <3>1, EndedFields
    <2>2. Unanswered(ended)
      BY <1>2, <2>1, SameAnswers
    <2> HIDE DEF ended
    <2>3. ~ended.failed => \E a \in Answers(ended) : ~Valid(a, ended.at)
      BY <2>2, RefusalIsRight
    <2>4. CheckIsSound(ended, authority, usingGrace', late')
      BY <2>1, <2>3
         DEF CheckIsSound, UnderWay, EndpointIsReached, SnapshotIsGood, DecidedWell
    <2> QED
      BY <1>1, <1>4, <2>1, <2>4, ClientRests, CheckKnown, CheckGoesOn DEF authorityVars
  <1>5. CASE /\ ~(old.endpoint > Len(ServerIds))
             /\ checks' = [checks EXCEPT ![r] = NextEndpoint(old)]
    <2> DEFINE check == NextEndpoint(old)
    <2>1. old.failed /\ old.endpoint <= Len(ServerIds)
      BY <1>2, <1>3, <1>5
    <2>2. check \in Check /\ Same(old, check)
      BY <1>2, <2>1, NextFields
    <2>3. NothingBefore(check, old.endpoint + 1)
      BY <2>1, <2>2 DEF NothingBefore, Same
    <2>4. check.phase \in {"ask", "lookUp"} /\ EndpointIsReached(check)
      BY <1>2, <2>1, <2>2, <2>3, NextIsReached
    <2> HIDE DEF check
    <2>5. CheckIsSound(check, authority, usingGrace', late')
      BY <1>2, <2>2, <2>4, OnItsWay DEF Same
    <2>6. checks' = [checks EXCEPT ![r] = check]
      BY <1>5 DEF check
    <2> QED
      BY <1>1, <2>2, <2>5, <2>6, ClientRests, CheckKnown, CheckGoesOn DEF authorityVars
  <1>6. CASE checks' = [checks EXCEPT ![r].endpoint = end]
    <2>1. checks' = [checks EXCEPT ![r] = last]
      <3>1. last = [old EXCEPT !.endpoint = end]
        BY <1>2 DEF Moved, Check
      <3> QED
        BY <1>6, <3>1 DEF LicenceInv, LicenceTypeOK
    <2>2. last \in Check /\ last.phase = "lookUp" /\ last.endpoint = end /\ Same(old, last)
      <3>1. end \in 0..Len(ServerIds) + 1
        BY <1>3
      <3> HIDE DEF old, end
      <3> QED
        BY <1>1, <1>2, <1>3, <3>1, MovedFields DEF old
    <2>3. Unanswered(last)
      BY <1>2, <2>2, SameAnswers
    <2> HIDE DEF last
    <2>4. EndpointIsReached(last)
      BY <2>2, <2>3 DEF EndpointIsReached
    <2>5. CheckIsSound(last, authority, usingGrace', late')
      BY <1>2, <2>2, <2>4, OnItsWay DEF Same
    <2> QED
      BY <1>1, <2>1, <2>2, <2>5, ClientRests, CheckKnown, CheckGoesOn DEF authorityVars
  <1> QED
    BY <1>1, <1>4, <1>5, <1>6

\* The flag that is set for one check is seen by all that are about to decide.
LEMMA UseCachedKeeps ==
    ASSUME LicenceInv, NEW r \in Request, UseCached(r) PROVE LicenceInv'
  <1> DEFINE New(q) == IF q = r THEN Moved(checks[q], "decide", checks[q].endpoint)
                       ELSE IF checks[q].phase = "decide" THEN Sharing(checks[q])
                       ELSE checks[q]
  <1>1. /\ checks[r].phase = "useCached" /\ usingGrace' = TRUE
        /\ UNCHANGED <<authorityVars, cached, newest, late, clock, failures>>
    BY DEF UseCached, Is
  <1>2. /\ Moved(checks[r], "decide", checks[r].endpoint) \in Check
        /\ Moved(checks[r], "decide", checks[r].endpoint).phase = "decide"
        /\ Same(checks[r], Moved(checks[r], "decide", checks[r].endpoint))
    <2>1. /\ checks[r].endpoint \in 0..Len(ServerIds) + 1 /\ "decide" \in CheckPhase
          /\ checks[r] \in Check
      BY CheckKnown DEF Check, CheckPhase
    <2> QED
      BY <2>1, MovedFields
  <1>3. checks' = [q \in Request |-> New(q)]
    <2>1. [checks[r] EXCEPT !.phase = "decide"]
             = Moved(checks[r], "decide", checks[r].endpoint)
      BY CheckKnown DEF Moved, Check
    <2> QED
      BY <2>1 DEF UseCached, Sharing
  <1>4. ASSUME NEW q \in Request
        PROVE  New(q) \in Check /\ CheckIsSound(New(q), authority, TRUE, late)
    <2>1. checks[q] \in Check /\ CheckIsSound(checks[q], authority, usingGrace, late)
      BY CheckKnown
    <2>2. CASE q = r
      <3> DEFINE check == Moved(checks[q], "decide", checks[q].endpoint)
      <3>1. New(q) = check
        BY <2>2
      <3>2. FromCache(checks[q], late) /\ authority \in checks[q].seen
        BY <1>1, <2>1, <2>2 DEF CheckIsSound, SnapshotIsGood, UnderWay
      <3>3. FromCache(check, late) /\ authority \in check.seen
        BY <1>2, <2>2, <3>2, SameAnswers DEF Same
      <3>4. check \in Check /\ check.phase = "decide"
        BY <1>2, <2>2
      <3> HIDE DEF check, New
      <3>5. CheckIsSound(check, authority, TRUE, late)
        BY <3>3, <3>4
           DEF CheckIsSound, EndpointIsReached, SnapshotIsGood, DecidedWell
      <3> QED
        BY <3>1, <3>4, <3>5
    <2>3. CASE q # r /\ checks[q].phase = "decide"
      <3> DEFINE check == Sharing(checks[q])
      <3>1. New(q) = check
        BY <2>3
      <3>2. /\ check \in Check /\ check.phase = "decide" /\ check.seen = checks[q].seen
            /\ check.failed = checks[q].failed /\ check.snapshot = checks[q].snapshot
            /\ check.newest = checks[q].newest /\ check.lookedUp = checks[q].lookedUp
            /\ check.shared
        BY <2>1, <2>3, SharingFields
      <3> HIDE DEF check, New
      <3>3. /\ Answers(check) = Answers(checks[q])
            /\ Unanswered(check) <=> Unanswered(checks[q])
        BY <3>2 DEF Answers, Unanswered
      <3>4. FromAuthority(check) \/ FromCache(check, late)
        BY <2>1, <2>3, <3>2, <3>3 DEF CheckIsSound, SnapshotIsGood, FromAuthority, FromCache
      <3>5. authority \in check.seen
        BY <2>1, <2>3, <3>2 DEF CheckIsSound, UnderWay
      <3>6. CheckIsSound(check, authority, TRUE, late)
        BY <3>2, <3>4, <3>5
           DEF CheckIsSound, EndpointIsReached, SnapshotIsGood, DecidedWell
      <3> QED
        BY <3>1, <3>2, <3>6
    <2>4. CASE q # r /\ checks[q].phase # "decide"
      <3>1. New(q) = checks[q]
        BY <2>4
      <3> HIDE DEF New
      <3> QED
        BY <2>1, <2>4, <3>1 DEF CheckIsSound, SnapshotIsGood
    <2> QED
      BY <2>2, <2>3, <2>4
  <1> HIDE DEF New
  <1>5. checks' \in [Request -> Check] /\ \A q \in Request : checks'[q] = New(q)
    BY <1>3, <1>4
  <1>6. LicenceTypeOK' /\ CacheIsLatest'
    BY <1>1, <1>5 DEF LicenceInv, LicenceTypeOK, CacheIsLatest, authorityVars
  <1>7. (\A q \in Request : CheckIsSound(checks[q], authority, usingGrace, late))'
    BY <1>1, <1>4, <1>5 DEF authorityVars
  <1> QED
    BY <1>6, <1>7 DEF LicenceInv

\* What a check goes by decides.
LEMMA LetThroughKeeps ==
    ASSUME LicenceInv, NEW r \in Request, LetThrough(r) PROVE LicenceInv'
  <1> DEFINE old == checks[r]
             s == old.snapshot
             allowed == s.active /\ s.granted /\ (usingGrace \/ clock < s.expires)
             phase == IF allowed THEN "allowed" ELSE "done"
             check == Ended(old, phase, clock)
  <1>1. /\ old.phase = "decide" /\ checks' = [checks EXCEPT ![r] = check]
        /\ UNCHANGED <<authorityVars, clientVars, clock, failures>>
    BY DEF LetThrough, Is, Ended
  <1>2. /\ old \in Check /\ clock \in Nat
        /\ \/ FromAuthority(old) /\ (usingGrace => old.shared)
           \/ FromCache(old, late)
    BY <1>1, CheckKnown DEF CheckIsSound, SnapshotIsGood
  <1>3. phase \in CheckPhase /\ (phase = "allowed" <=> allowed) /\ phase \in {"allowed", "done"}
    BY DEF CheckPhase
  <1> HIDE DEF phase
  <1>4. /\ check \in Check /\ check.phase = phase /\ check.at = clock /\ Same(old, check)
    <2> HIDE DEF old
    <2> QED
      BY <1>2, <1>3, EndedFields
  <1> HIDE DEF check
  <1>5. /\ check.snapshot = s /\ check.shared = old.shared
        /\ \/ FromAuthority(check) /\ (usingGrace => check.shared)
           \/ FromCache(check, late)
    BY <1>2, <1>4, SameAnswers DEF Same
  <1>6. ASSUME phase = "allowed"
        PROVE  \/ \E a \in Answers(check) : Grants(a) /\ (check.shared \/ check.at < a.expires)
               \/ FromCache(check, late) /\ check.snapshot.granted
    BY <1>3, <1>4, <1>5, <1>6 DEF FromAuthority, Grants
  <1>7. ASSUME phase = "done", ~check.failed
        PROVE  \E a \in Answers(check) : ~Valid(a, check.at)
    <2>1. CASE FromAuthority(check)
      BY <1>3, <1>4, <1>5, <1>7, <2>1 DEF FromAuthority, Valid, Grants
    <2>2. CASE FromCache(check, late)
      BY <1>7, <2>2, RefusalIsRight DEF FromCache
    <2> QED
      BY <1>5, <2>1, <2>2
  <1>8. CheckIsSound(check, authority, usingGrace', late')
    <2>1. UNCHANGED <<usingGrace, late>>
      BY <1>1 DEF clientVars
    <2> HIDE DEF s, old, allowed
    <2> QED
      BY <1>3, <1>4, <1>6, <1>7, <2>1
         DEF CheckIsSound, UnderWay, EndpointIsReached, SnapshotIsGood, DecidedWell
  <1> QED
    BY <1>1, <1>4, <1>8, ClientRests, CheckKnown, CheckGoesOn DEF authorityVars

\* What operators do not save changes nothing for the checks, nor does the clock.
LEMMA ChecksRest ==
    ASSUME LicenceInv, UNCHANGED <<authority, terms, checks, clientVars>>,
           puts' \in [Operator -> Answer], clock' \in Nat, failures' \in Nat
    PROVE  LicenceInv'
  <1>1. LicenceTypeOK' /\ CacheIsLatest'
    BY DEF LicenceInv, LicenceTypeOK, CacheIsLatest, clientVars
  <1>2. (\A r \in Request : CheckIsSound(checks[r], authority, usingGrace, late))'
    BY DEF LicenceInv, clientVars
  <1> QED
    BY <1>1, <1>2 DEF LicenceInv

\* An operator holds what it is about to save.
LEMMA PutEntitlementsKeeps ==
    ASSUME LicenceInv, NEW o \in terms.operators, NEW s \in terms.offers,
           PutEntitlements(o, s)
    PROVE  LicenceInv'
  <1>1. o \in Operator /\ s \in Answer
    BY Servers DEF LicenceInv, LicenceTypeOK, Answer
  <1>2. puts' \in [Operator -> Answer]
    BY <1>1 DEF PutEntitlements, LicenceInv, LicenceTypeOK
  <1> QED
    BY <1>2, ChecksRest DEF PutEntitlements, LicenceInv, LicenceTypeOK

\* Time passes without changing what was decided.
LEMMA TickKeeps == ASSUME LicenceInv, Tick PROVE LicenceInv'
  <1>1. clock' \in Nat
    BY DEF Tick, LicenceInv, LicenceTypeOK
  <1> QED
    BY <1>1, ChecksRest DEF Tick, authorityVars, LicenceInv, LicenceTypeOK

\* A check that is under way sees what is saved, and what it knew stays true.
LEMMA SeeingIsSound ==
    ASSUME NEW old \in Check, NEW now \in Authority, NEW before \in Authority,
           NEW grace, NEW overtaken, UnderWay(old), CheckIsSound(old, before, grace, overtaken)
    PROVE  CheckIsSound(Seeing(old, now), now, grace, overtaken)
  <1> DEFINE check == Seeing(old, now)
  <1>1. /\ check.phase = old.phase /\ check.endpoint = old.endpoint
        /\ check.seen = old.seen \cup {now}
        /\ check.shared = old.shared /\ check.failed = old.failed
        /\ check.snapshot = old.snapshot /\ check.lookedUp = old.lookedUp
        /\ check.newest = old.newest
    BY SeeingFields
  <1> HIDE DEF check
  <1>2. /\ Answers(old) \subseteq Answers(check)
        /\ Unanswered(old) => Unanswered(check)
        /\ \A n \in Nat : NothingBefore(old, n) => NothingBefore(check, n)
    BY <1>1, MoreAnswers
  <1>3. old.endpoint \in Nat
    BY Servers DEF Check
  <1>4. EndpointIsReached(check)
    BY <1>1, <1>2, <1>3 DEF CheckIsSound, EndpointIsReached
  <1>5. /\ FromAuthority(old) => FromAuthority(check)
        /\ FromCache(old, overtaken) => FromCache(check, overtaken)
    BY <1>1, <1>2 DEF FromAuthority, FromCache
  <1>6. SnapshotIsGood(check, grace, overtaken)
    BY <1>1, <1>5 DEF CheckIsSound, SnapshotIsGood
  <1>7. DecidedWell(check, overtaken)
    BY <1>1 DEF UnderWay, DecidedWell
  <1>8. now \in check.seen
    BY <1>1
  <1>9. CheckIsSound(check, now, grace, overtaken)
    BY <1>4, <1>6, <1>7, <1>8 DEF CheckIsSound
  <1> QED
    BY <1>9 DEF check

\* What an operator saves is seen by every check under way.
LEMMA SaveEntitlementsKeeps ==
    ASSUME LicenceInv, NEW o \in terms.operators, SaveEntitlements(o) PROVE LicenceInv'
  <1> DEFINE now == [authority EXCEPT ![puts[o].server] = puts[o]]
             New(r) == IF checks[r].phase \in {"idle", "allowed", "done"} THEN checks[r]
                       ELSE Seeing(checks[r], now)
  <1>1. /\ puts[o] # None /\ authority' = now /\ puts' = [puts EXCEPT ![o] = None]
        /\ UNCHANGED <<terms, clientVars, clock, failures>>
        /\ checks' = [r \in Request |-> New(r)]
    BY DEF SaveEntitlements, Seeing
  <1>2. o \in Operator
    BY Servers DEF LicenceInv, LicenceTypeOK
  <1>3. now \in Authority /\ puts' \in [Operator -> Answer]
    BY <1>1, <1>2 DEF LicenceInv, LicenceTypeOK, Authority, Answer
  <1> HIDE DEF now
  <1>4. ASSUME NEW r \in Request
        PROVE  New(r) \in Check /\ CheckIsSound(New(r), now, usingGrace, late)
    <2>1. checks[r] \in Check /\ CheckIsSound(checks[r], authority, usingGrace, late)
      BY CheckKnown
    <2>2. CASE checks[r].phase \in {"idle", "allowed", "done"}
      <3>1. New(r) = checks[r]
        BY <2>2
      <3> HIDE DEF New
      <3> QED
        BY <2>1, <2>2, <3>1 DEF CheckIsSound, UnderWay
    <2>3. CASE checks[r].phase \notin {"idle", "allowed", "done"}
      <3>1. New(r) = Seeing(checks[r], now)
        BY <2>3
      <3> HIDE DEF New
      <3>2. UnderWay(checks[r])
        BY <2>3 DEF UnderWay
      <3>3. Seeing(checks[r], now) \in Check
        BY <1>3, <2>1, SeeingFields
      <3> QED
        BY <1>3, <2>1, <3>1, <3>2, <3>3, SeeingIsSound, CheckKnown
    <2> QED
      BY <2>2, <2>3
  <1> HIDE DEF New
  <1>5. checks' \in [Request -> Check] /\ \A r \in Request : checks'[r] = New(r)
    BY <1>1, <1>4
  <1>6. LicenceTypeOK' /\ CacheIsLatest'
    BY <1>1, <1>3, <1>5 DEF LicenceInv, LicenceTypeOK, CacheIsLatest, clientVars
  <1>7. (\A r \in Request : CheckIsSound(checks[r], authority, usingGrace, late))'
    BY <1>1, <1>4, <1>5 DEF clientVars
  <1> QED
    BY <1>6, <1>7 DEF LicenceInv

\* At the start nothing is checked and nothing is known.
LEMMA LicenceStarts == LicenceInit => LicenceInv
  <1> SUFFICES ASSUME LicenceInit PROVE LicenceInv
    OBVIOUS
  <1>1. Idle \in Check /\ Idle.phase = "idle"
    BY Servers DEF Idle, Check, CheckPhase, Answer
  <1>2. LicenceTypeOK
    BY <1>1 DEF LicenceInit, LicenceTypeOK, Authority, Answer
  <1>3. ASSUME NEW r \in Request PROVE CheckIsSound(checks[r], authority, usingGrace, late)
    BY <1>1 DEF LicenceInit, CheckIsSound, UnderWay, EndpointIsReached, SnapshotIsGood,
                DecidedWell
  <1>4. CacheIsLatest
    BY DEF LicenceInit, CacheIsLatest
  <1> QED
    BY <1>2, <1>3, <1>4 DEF LicenceInv

\* Every step of an operator, of a check or of the clock keeps the invariant.
LEMMA LicenceSteps == ASSUME LicenceInv, [LicenceNext]_licenceVars PROVE LicenceInv'
  <1>1. CASE UNCHANGED licenceVars
    BY <1>1, ChecksRest DEF licenceVars, clientVars, LicenceInv, LicenceTypeOK
  <1>2. ASSUME NEW o \in terms.operators,
               SaveEntitlements(o) \/ \E s \in terms.offers : PutEntitlements(o, s)
        PROVE  LicenceInv'
    BY <1>2, SaveEntitlementsKeeps, PutEntitlementsKeeps
  <1>3. ASSUME NEW r \in terms.requests,
               \/ Require(r) \/ Ask(r) \/ LoseAnswer(r) \/ RefuseAnswer(r) \/ TakeAnswer(r)
               \/ LookUp(r) \/ LookInVain(r) \/ UseCached(r) \/ LetThrough(r)
        PROVE  LicenceInv'
    <2>1. r \in Request
      BY Servers DEF LicenceInv, LicenceTypeOK
    <2> QED
      BY <1>3, <2>1, RequireKeeps, AskKeeps, LoseAnswerKeeps, RefuseAnswerKeeps,
         TakeAnswerKeeps, LookUpKeeps, LookInVainKeeps, UseCachedKeeps, LetThroughKeeps
  <1> QED
    BY <1>1, <1>2, <1>3, TickKeeps DEF LicenceNext

\* A request passes only if the authority said so while it was checked, or, where nobody
\* answered, by the latest the client knows and within the grace; and it is refused only
\* if the authority said so: for any servers, requests, operators and failures.
THEOREM ChecksAlwaysFollow == LicenceSpec => []ChecksFollowTheAuthority
  <1>1. LicenceInv => ChecksFollowTheAuthority
    <2> SUFFICES ASSUME LicenceInv, NEW r \in Request
                 PROVE  LET check == checks[r]
                            s == check.snapshot
                        IN  /\ Is(r, "allowed") =>
                                  \/ \E a \in Answers(check) :
                                        Grants(a) /\ (check.shared \/ check.at < a.expires)
                                  \/ /\ Unanswered(check)
                                     /\ Grants(s) /\ check.lookedUp < s.expires + Grace
                                     /\ s.version = check.newest \/ late
                            /\ Is(r, "done") /\ ~check.failed =>
                                  \E a \in Answers(check) : ~Valid(a, check.at)
      BY DEF ChecksFollowTheAuthority
    <2>1. DecidedWell(checks[r], late)
      BY CheckKnown DEF CheckIsSound
    <2> QED
      BY <2>1 DEF DecidedWell, FromCache, Grants, Is
  <1> QED
    BY <1>1, LicenceStarts, LicenceSteps, PTL DEF LicenceSpec
=============================================================================
