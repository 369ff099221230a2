--------------------------- MODULE MasterDelivery ---------------------------
(***************************************************************************)
(* How the Cloud's master data reaches a restaurant: after every command   *)
(* the handler assembles the packages of the restaurant's Edge again       *)
(* (masterdata/app/service.go), the Edge's worker asks for those it has    *)
(* not (cloudsync/app/service.go), and applies them stream by stream       *)
(* (pos/app/service.go, pos/app/mastersync/service.go).                    *)
(*                                                                         *)
(* The rows of a stream are a count of the changes made to them.  A package*)
(* is read stream by stream while other commands commit, so it may name    *)
(* rows of another stream that its own package of that stream has not yet. *)
(***************************************************************************)
EXTENDS CloudTenant

CONSTANTS
    Streams,        \* the streams in the order the Edge asks for them
    Refers,         \* Refers[s]: the streams whose rows the rows of s refer to
    Unlicensed,     \* streams of modules the restaurant has no licence for
    MaxPackages,    \* MaxCloudPackagesPerExchange
    Handler,        \* command handlers of the Cloud
    MaxFaults       \* bound: failed assemblies, stopped handlers, lost exchanges

Stream == Range(Streams)

ASSUME MasterDeliveryAssumption ==
    /\ MaxPackages \in Nat \ {0} /\ MaxFaults \in Nat
    /\ Unlicensed \subseteq Stream
    /\ Refers \in [Stream -> SUBSET Stream]

VARIABLES
    rows,           \* the Cloud's rows of each stream
    refreshes,      \* where each handler is in refreshDeliveryPackages
    publications,   \* cloud_master_data_publications: rows by version
    packages,       \* cloud_master_data_packages of the Edge
    delivery,       \* cloud_master_data_delivery_states of the Edge
    exchange,       \* the exchange the Edge's worker is in
    edge,           \* by stream: the checkpoint and the rows the Edge has
    faults

cloudSide == <<rows, refreshes, publications, packages, delivery>>
edgeSide == <<exchange, edge>>
deliveryVars == <<cloudSide, edgeSide, faults>>

Done == [phase |-> "done"]
\* What a package names: how many rows, and which rows of other streams they refer to.
NoRows == [rows |-> 0, refs |-> [d \in {} |-> 0]]
Package(s, version, packet) ==
    [stream |-> s, version |-> version, rows |-> packet.rows, refs |-> packet.refs]
\* The handler of the exchange repeats a refresh that failed.
Retry == "retry"
Refresher == Handler \cup {Retry}

DeliveryInit ==
    /\ rows = [s \in Stream |-> 1]
    /\ refreshes = [h \in Refresher |-> Done]
    /\ publications = <<>>
    /\ packages = [s \in Stream |-> Package(s, 0, NoRows)]
    /\ delivery = [status |-> "pending", fingerprint |-> <<>>, version |-> 0, ack |-> 0]
    /\ exchange = [phase |-> "idle"]
    /\ edge = [s \in Stream |-> [version |-> 0, rows |-> 0, failed |-> FALSE]]
    /\ faults = 0

Fault == faults < MaxFaults /\ faults' = faults + 1

-----------------------------------------------------------------------------
(* The Cloud: refreshDeliveryPackages.                                     *)

At(h, phase) == refreshes[h].phase = phase /\ UNCHANGED <<tenant, rows, edgeSide>>
Step(h, to) == refreshes' = [refreshes EXCEPT ![h] = to]

\* Handlers are alike: a command goes to one that is free.
Free == IF \A h \in Handler : refreshes[h] # Done THEN Retry
        ELSE CHOOSE h \in Handler : refreshes[h] = Done

\* A command commits, and its handler goes on to refresh (afterRestaurantCommit,
\* afterTenantCommit); an Edge that is assigned has its packages assembled the same way
\* (RefreshDeliveryPackagesForNode).
Commit(h) ==
    /\ Command("delivery") /\ h = Free
    /\ \E s \in Stream : rows' = [rows EXCEPT ![s] = @ + 1]
    /\ Step(h, [phase |-> "look"])
    /\ UNCHANGED <<restaurants, publications, packages, delivery, edgeSide, faults>>
AssignEdge(h) ==
    /\ Command("delivery") /\ h = Free
    /\ Step(h, [phase |-> "look"])
    /\ UNCHANGED <<restaurants, rows, publications, packages, delivery, edgeSide, faults>>

\* The packages are assembled once to see whether they differ from those delivered.
Look(h) ==
    /\ At(h, "look")
    /\ Step(h, IF delivery.fingerprint = rows /\ delivery.status # "error" THEN Done
               ELSE [phase |-> "number", fingerprint |-> rows, ack |-> delivery.ack])
    /\ UNCHANGED <<publications, packages, delivery, faults>>

\* The refresh has its number and reads the packages anew.
Numbered(looked, version, built) ==
    [phase |-> "build", fingerprint |-> looked.fingerprint, ack |-> looked.ack,
     version |-> version, built |-> built]

\* Mutant: the packages are those that were looked at, from before the number.
NextPublicationVersionLooked(h) ==
    /\ At(h, "number")
    /\ LET looked == refreshes[h].fingerprint
           built == [s \in Stream |-> [rows |-> looked[s],
                                       refs |-> [d \in Refers[s] |-> looked[d]]]]
       IN  Step(h, [Numbered(refreshes[h], Len(publications) + 1, built)
                       EXCEPT !.phase = "save"])
    /\ UNCHANGED <<publications, packages, delivery, faults>>
\* NextPublicationVersion
NextPublicationVersion(h) ==
    /\ At(h, "number")
    /\ Step(h, Numbered(refreshes[h], Len(publications) + 1, <<>>))
    /\ UNCHANGED <<publications, packages, delivery, faults>>

\* streamPackages: what the package of a stream names now.
Packaged(s) == [rows |-> rows[s], refs |-> [d \in Refers[s] |-> rows[d]]]

\* buildPacket reads the tables one after the other.
BuildPacket(h) ==
    /\ At(h, "build")
    /\ \E n \in DOMAIN Streams :
          LET built == refreshes[h].built
              s == Streams[n]
              more == [t \in DOMAIN built \cup {s} |->
                          IF t = s THEN Packaged(s) ELSE built[t]]
          IN  /\ s \notin DOMAIN built
              /\ \A m \in 1..(n - 1) : Streams[m] \in DOMAIN built
              /\ Step(h, [refreshes[h] EXCEPT
                      !.built = more, !.phase = IF DOMAIN more = Stream THEN "save" ELSE @])
    /\ UNCHANGED <<publications, packages, delivery, faults>>

\* SavePublication: one transaction; the number of another publication is refused, and the
\* refresh is then only logged.
SavePublication(h) ==
    /\ At(h, "save")
    /\ LET mine == refreshes[h]
       IN  IF mine.version # Len(publications) + 1
           THEN UNCHANGED <<publications, packages, delivery>>
           ELSE /\ publications' = Append(publications,
                                          [s \in Stream |-> mine.built[s].rows])
                /\ packages' = [s \in Stream |->
                                  Package(s, mine.version, mine.built[s])]
                /\ delivery' = [status |-> "pending", fingerprint |-> mine.fingerprint,
                                version |-> mine.version, ack |-> mine.ack]
    /\ Step(h, Done)
    /\ UNCHANGED faults

\* The packages cannot be assembled, and the Edge is marked for another try
\* (markDeliveryErrors, MarkDeliveryError).
AssemblyFails(h) ==
    /\ At(h, "look") \/ At(h, "build")
    /\ Fault
    /\ delivery' = [delivery EXCEPT !.status = "error"]
    /\ Step(h, Done)
    /\ UNCHANGED <<publications, packages>>

\* A handler stops before its refresh is done.
HandlerStops(h) ==
    /\ refreshes[h] # Done /\ Fault /\ Step(h, Done)
    /\ UNCHANGED <<tenant, rows, publications, packages, delivery, edgeSide>>

-----------------------------------------------------------------------------
(* The exchange.                                                           *)

Exchange(phase) ==
    /\ exchange.phase = phase
    /\ UNCHANGED <<tenant, rows, publications, packages>>

\* GetSyncExchangeState: the checkpoints the Edge has.
SyncExchangeState == [s \in Stream |-> edge[s].version]

\* sendExchange
Ask ==
    /\ Exchange("idle")
    /\ exchange' = [phase |-> "asked", known |-> SyncExchangeState]
    /\ UNCHANGED <<refreshes, delivery, edge, faults>>

\* RetryDeliveryForNode: a failed assembly is repeated before the Edge is answered.
RetryDeliveryForNode ==
    /\ Exchange("asked") /\ refreshes[Retry] = Done
    /\ exchange' = [phase |-> "retried", known |-> exchange.known, changed |-> <<>>, at |-> 1]
    /\ IF delivery.status = "error" THEN Step(Retry, [phase |-> "look"])
       ELSE UNCHANGED refreshes
    /\ UNCHANGED <<delivery, edge, faults>>

\* Mutant: a stream the Edge has up to date counts as changed.
ReadPackageAgain ==
    /\ Exchange("retried") /\ refreshes[Retry] = Done
    /\ exchange.at \in DOMAIN Streams
    /\ LET s == Streams[exchange.at]
       IN  exchange' = [exchange EXCEPT !.at = @ + 1,
              !.changed = IF exchange.known[s] <= packages[s].version
                          THEN Append(@, packages[s]) ELSE @]
    /\ UNCHANGED <<refreshes, delivery, edge, faults>>
\* GetMasterDataPackage of the next stream; the packages may be published anew meanwhile.
ReadPackage ==
    /\ Exchange("retried") /\ refreshes[Retry] = Done
    /\ exchange.at \in DOMAIN Streams
    /\ LET s == Streams[exchange.at]
       IN  exchange' = [exchange EXCEPT !.at = @ + 1,
              !.changed = IF exchange.known[s] < packages[s].version
                          THEN Append(@, packages[s]) ELSE @]
    /\ UNCHANGED <<refreshes, delivery, edge, faults>>

\* RecordDeliveryExchange: the Edge is taken to have what its furthest stream has.
AckVersion(known) == Max({known[s] : s \in Stream})

\* licensedCloudPackages
Licensed(pkg) == pkg.stream \notin Unlicensed

\* Exchange answers with the first packages of those that changed, of which those without
\* a licence are then left out; todo holds the places of those that are not.
Answer ==
    /\ Exchange("retried") /\ exchange.at = Len(Streams) + 1
    /\ LET ack == Max({delivery.ack, AckVersion(exchange.known)})
           answered == {n \in DOMAIN exchange.changed :
                           n <= MaxPackages /\ Licensed(exchange.changed[n])}
       IN  /\ delivery' = [delivery EXCEPT !.ack = ack,
                             !.status = IF @ = "error" THEN @
                                        ELSE IF ack >= delivery.version THEN "synced"
                                        ELSE "pending"]
           /\ exchange' = [phase |-> "answered", packages |-> exchange.changed,
                           todo |-> answered]
    /\ UNCHANGED <<refreshes, edge, faults>>

\* applyStream: the Edge takes rows only with the rows they refer to (the keys of its
\* database).
Applicable(pkg) == \A d \in Refers[pkg.stream] : pkg.refs[d] <= edge[d].rows

\* ApplyMasterData writes the rows and the checkpoint in one transaction.
Renewed(pkg) == [version |-> pkg.version, rows |-> pkg.rows, failed |-> FALSE]

\* recordSyncExchangePackageProblem notes the failure, and leaves the checkpoint.
Noted(pkg) == [edge[pkg.stream] EXCEPT !.failed = TRUE]

\* Mutant: a package that failed moves the checkpoint as well.
ApplyPackageCounted ==
    /\ Exchange("answered")
    /\ \E n \in exchange.todo :
          /\ \A m \in exchange.todo : n <= m
          /\ LET pkg == exchange.packages[n]
             IN  edge' = [edge EXCEPT ![pkg.stream] =
                    CASE @.version >= pkg.version -> @
                      [] @.version < pkg.version /\ Applicable(pkg) -> Renewed(pkg)
                      [] OTHER -> [Noted(pkg) EXCEPT !.version = pkg.version]]
          /\ exchange' = [exchange EXCEPT !.todo = @ \ {n}]
    /\ UNCHANGED <<refreshes, delivery, faults>>
\* ApplySyncExchangeCloudPackages: a package at a time; one that is not newer is passed
\* over, and one that is refused does not keep the next from being tried.
ApplyPackage ==
    /\ Exchange("answered")
    /\ \E n \in exchange.todo :
          /\ \A m \in exchange.todo : n <= m
          /\ LET pkg == exchange.packages[n]
             IN  edge' = [edge EXCEPT ![pkg.stream] =
                    CASE @.version >= pkg.version -> @
                      [] @.version < pkg.version /\ Applicable(pkg) -> Renewed(pkg)
                      [] OTHER -> Noted(pkg)]
          /\ exchange' = [exchange EXCEPT !.todo = @ \ {n}]
    /\ UNCHANGED <<refreshes, delivery, faults>>

EndExchange ==
    /\ Exchange("answered") /\ exchange.todo = {}
    /\ exchange' = [phase |-> "idle"]
    /\ UNCHANGED <<refreshes, delivery, edge, faults>>

\* The request or the answer is lost, takes too long, or the Edge starts anew.
ExchangeIsLost ==
    /\ exchange.phase # "idle" /\ Fault
    /\ exchange' = [phase |-> "idle"]
    /\ UNCHANGED <<tenant, cloudSide, edge>>

RefreshNext(h) ==
    \/ Look(h) \/ NextPublicationVersion(h) \/ BuildPacket(h) \/ SavePublication(h)
ExchangeNext ==
    Ask \/ RetryDeliveryForNode \/ ReadPackage \/ Answer \/ ApplyPackage \/ EndExchange

DeliveryNext ==
    \/ \E h \in Handler : Commit(h) \/ AssignEdge(h)
    \/ \E h \in Refresher : RefreshNext(h) \/ AssemblyFails(h) \/ HandlerStops(h)
    \/ ExchangeNext
    \/ ExchangeIsLost

-----------------------------------------------------------------------------
(* Properties.                                                             *)

Copy == INSTANCE MasterCopy WITH
    original <- rows, copy <- [s \in Stream |-> edge[s].rows]

\* Whatever handlers assemble packages side by side, and however often an exchange is
\* lost, a restaurant's copy of a stream was the Cloud's and never goes back
\* (refreshDeliveryPackages numbers a publication before it reads it).
ImplementsMasterCopy == Copy!Spec

\* The checkpoint the Edge sends says which publication its rows are of: what the Cloud
\* leaves out because of it the Edge has (recordSyncExchangePackageProblem keeps it).
CheckpointTellsTheRows ==
    \A s \in Stream : edge[s].rows =
        IF edge[s].version = 0 THEN 0 ELSE publications[edge[s].version][s]

\* The streams that can never be applied: those without a licence, and those that refer to
\* one of them.
Blocked ==
    LET blocked[n \in 0..Len(Streams)] ==
            IF n = 0 THEN {}
            ELSE IF Streams[n] \in Unlicensed \/ Refers[Streams[n]] \cap blocked[n - 1] # {}
                 THEN blocked[n - 1] \cup {Streams[n]}
                 ELSE blocked[n - 1]
    IN  blocked[Len(Streams)]

\* The streams that find a place in an answer although those before them stay in it.
Reached ==
    {Streams[n] : n \in {m \in DOMAIN Streams :
        /\ Streams[m] \notin Blocked
        /\ Cardinality({k \in 1..(m - 1) : Streams[k] \in Blocked}) < MaxPackages}}

\* The packages refer to no row that is newer than themselves.
Whole == \A s \in Stream : packages[s].version > 0 =>
            \A d \in Refers[s] : packages[s].refs[d] <= packages[d].rows

\* The last packages arrive: as long as a package is left that the Edge can take it is
\* sent again, whatever fails beside it, unless unlicensed or refused streams take up
\* every place of the answer.
LastPackagesArrive ==
    <>[]Whole => \A s \in Reached : <>[](edge[s].version = packages[s].version)

\* A restaurant whose packages could not be assembled is not forgotten
\* (RetryDeliveryForNode).
FailedAssembliesAreRepeated == delivery.status = "error" ~> delivery.status # "error"

\* Nothing the managers wrote is left behind on its way to the Edge.
PackagesArrive == LastPackagesArrive /\ FailedAssembliesAreRepeated
=============================================================================
