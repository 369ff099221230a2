-------------------------- MODULE MasterDataProofs --------------------------
(***************************************************************************)
(* Safety of the delivery of master data, for any streams, handlers,       *)
(* commands and faults, in a tenant whose managers write everything else;  *)
(* and of what the managers write: the reviews and their effects, who may  *)
(* work where, the templates of documents, and the rows the Edge takes;    *)
(* and of the Edge's copy under any messages, in any order.                *)
(***************************************************************************)
EXTENDS MasterData, SequenceTheorems, FiniteSetTheorems, WellFoundedInduction, TLAPS

-----------------------------------------------------------------------------
(* The inductive invariant.                                                *)

RowCounts == [Stream -> Nat]
Packet == [rows : Nat, refs : UNION {[D -> Nat] : D \in SUBSET Stream}]
Packets == UNION {[S -> Packet] : S \in SUBSET Stream}
CloudPackage == [stream : Stream, version : Nat, rows : Nat,
                 refs : UNION {[D -> Nat] : D \in SUBSET Stream}]

\* What was published is what the Cloud had, and later publications are not behind.
Published ==
    /\ rows \in RowCounts
    /\ publications \in Seq(RowCounts)
    /\ \A v \in 1..Len(publications), s \in Stream : publications[v][s] <= rows[s]
    /\ \A v, w \in 1..Len(publications) :
          v <= w => \A s \in Stream : publications[v][s] <= publications[w][s]

\* The packages of a refresh that may still be saved are not behind those published: it has
\* its number from before it began to read.
InTime(r, cloud, published) ==
    /\ r.version \in 1..(Len(published) + 1)
    /\ r.phase = "save" => DOMAIN r.built = Stream
    /\ \A s \in DOMAIN r.built : r.built[s].rows <= cloud[s]
    /\ r.version = Len(published) + 1 =>
          \A v \in 1..Len(published), s \in DOMAIN r.built :
              published[v][s] <= r.built[s].rows
IsRefresh(r, cloud, published) ==
    \/ r \in [phase : {"done", "look"}]
    \/ \E looked, ack : r \in [phase : {"number"}, fingerprint : {looked}, ack : {ack}]
    \/ /\ \E looked, ack :
             r \in [phase : {"build", "save"}, fingerprint : {looked}, ack : {ack},
                    version : Nat, built : Packets]
       /\ InTime(r, cloud, published)
Refreshing ==
    /\ DOMAIN refreshes = Refresher
    /\ \A h \in Refresher : IsRefresh(refreshes[h], rows, publications)

\* A package has the rows of its publication, wherever it is.
Truthful(pkg, published) ==
    pkg.version \in 1..Len(published) /\ pkg.rows = published[pkg.version][pkg.stream]
Packaging ==
    /\ packages \in [Stream -> CloudPackage]
    /\ \A s \in Stream : packages[s].stream = s
    /\ \A s \in Stream : packages[s].version > 0 => Truthful(packages[s], publications)
AllTruthful(pkgs, published) == \A n \in DOMAIN pkgs : Truthful(pkgs[n], published)
Exchanging ==
    \/ exchange \in [phase : {"idle"}]
    \/ exchange \in [phase : {"asked"}, known : RowCounts]
    \/ /\ exchange \in [phase : {"retried"}, known : RowCounts, changed : Seq(CloudPackage),
                        at : Nat]
       /\ AllTruthful(exchange.changed, publications)
    \/ /\ exchange \in [phase : {"answered"}, packages : Seq(CloudPackage),
                        todo : SUBSET Nat]
       /\ exchange.todo \subseteq DOMAIN exchange.packages
       /\ AllTruthful(exchange.packages, publications)

\* What the Edge has was published.
Copied ==
    /\ edge \in [Stream -> [version : Nat, rows : Nat, failed : BOOLEAN]]
    /\ \A s \in Stream : edge[s].version <= Len(publications)
    /\ CheckpointTellsTheRows

DeliveryInv == Published /\ Refreshing /\ Packaging /\ Exchanging /\ Copied

-----------------------------------------------------------------------------
(* The publications only grow.                                             *)

\* What was published stays.
PublishedStays ==
    /\ Len(publications) \in Nat /\ Len(publications)' \in Nat
    /\ Len(publications) <= Len(publications')
    /\ \A v \in 1..Len(publications) : publications'[v] = publications[v]

\* A step that publishes nothing.
LEMMA SameStays == ASSUME Published, UNCHANGED publications PROVE PublishedStays
  BY LenProperties DEF Published, PublishedStays

\* A truthful package stays one.
LEMMA TruthStays == ASSUME PublishedStays, NEW pkg, Truthful(pkg, publications)
    PROVE  Truthful(pkg, publications')
  <1>1. pkg.version \in 1..Len(publications)'
    BY DEF Truthful, PublishedStays
  <1> QED
    BY <1>1 DEF Truthful, PublishedStays

\* What is on its way to the Edge was published, and stays so.
LEMMA ExchangingStays ==
    ASSUME Exchanging, PublishedStays, UNCHANGED exchange
    PROVE  Exchanging'
  BY TruthStays DEF Exchanging, AllTruthful

\* So does what the Edge has.
LEMMA CopiedStays ==
    ASSUME Copied, PublishedStays, UNCHANGED edge
    PROVE  Copied'
  BY DEF Copied, CheckpointTellsTheRows, PublishedStays

\* So do the packages in the Cloud.
LEMMA PackagingStays ==
    ASSUME Packaging, PublishedStays, UNCHANGED packages
    PROVE  Packaging'
  BY TruthStays DEF Packaging

-----------------------------------------------------------------------------
(* The handlers of the Cloud.                                              *)

\* The rows only grow as well.
Growing ==
    /\ PublishedStays
    /\ rows' \in RowCounts
    /\ \A s \in Stream : rows[s] <= rows'[s]

\* A step that writes no rows and publishes nothing.
LEMMA SameGrows == ASSUME Published, UNCHANGED <<rows, publications>> PROVE Growing
  <1>1. PublishedStays
    BY SameStays
  <1> QED
    BY <1>1 DEF Growing, Published, RowCounts

\* Rows that grow leave what was published behind.
LEMMA PublishedGrows ==
    ASSUME Published, Growing, UNCHANGED publications
    PROVE  Published'
  <1>1. \A v \in 1..Len(publications) : publications[v] \in RowCounts
    BY ElementOfSeq DEF Published
  <1>2. \A v \in 1..Len(publications), s \in Stream : publications[v][s] <= rows'[s]
    BY <1>1 DEF Published, Growing, RowCounts
  <1> QED
    BY <1>2 DEF Published, Growing

\* A refresh that may be saved goes on being in time, as long as it is not overtaken.
LEMMA RefreshStays ==
    ASSUME Published, Growing, NEW r, IsRefresh(r, rows, publications)
    PROVE  IsRefresh(r, rows', publications')
  <1>1. CASE r \in [phase : {"done", "look"}]
    BY <1>1 DEF IsRefresh
  <1>2. CASE \E looked, ack :
                r \in [phase : {"number"}, fingerprint : {looked}, ack : {ack}]
    BY <1>2 DEF IsRefresh
  <1>3. CASE /\ \E looked, ack :
                   r \in [phase : {"build", "save"}, fingerprint : {looked}, ack : {ack},
                          version : Nat, built : Packets]
             /\ InTime(r, rows, publications)
    <2>1. r.version \in 1..(Len(publications)' + 1)
      BY <1>3 DEF InTime, Growing, PublishedStays
    <2>2. \A s \in DOMAIN r.built : s \in Stream /\ r.built[s].rows \in Nat
      BY <1>3 DEF Packets, Packet
    <2>3. \A s \in DOMAIN r.built : r.built[s].rows <= rows'[s]
      BY <1>3, <2>2 DEF InTime, Growing, RowCounts, Published
    <2>4. ASSUME r.version = Len(publications)' + 1
          PROVE  \A v \in 1..Len(publications)', s \in DOMAIN r.built :
                     publications'[v][s] <= r.built[s].rows
      <3>1. Len(publications)' = Len(publications) /\ r.version = Len(publications) + 1
        BY <1>3, <2>4 DEF InTime, Growing, PublishedStays
      <3> QED
        BY <1>3, <3>1 DEF InTime, Growing, PublishedStays
    <2>5. InTime(r, rows', publications')
      BY <1>3, <2>1, <2>3, <2>4 DEF InTime
    <2> QED
      BY <1>3, <2>5 DEF IsRefresh
  <1> QED
    BY <1>1, <1>2, <1>3 DEF IsRefresh

\* One refresh goes on, the others stay in time.
LEMMA StepRefreshes ==
    ASSUME Published, Growing, Refreshing, NEW h \in Refresher, NEW to,
           IsRefresh(to, rows', publications'), Step(h, to)
    PROVE  Refreshing'
  <1>1. DOMAIN refreshes' = Refresher
    BY DEF Step, Refreshing
  <1>2. \A g \in Refresher : refreshes'[g] = IF g = h THEN to ELSE refreshes[g]
    BY DEF Step, Refreshing
  <1>3. ASSUME NEW g \in Refresher PROVE IsRefresh(refreshes'[g], rows', publications')
    <2>1. IsRefresh(refreshes[g], rows', publications')
      BY RefreshStays DEF Refreshing
    <2> QED
      BY <1>2, <2>1
  <1> QED
    BY <1>1, <1>3 DEF Refreshing

\* All of them stay in time.
LEMMA RefreshingStays ==
    ASSUME Published, Growing, Refreshing, UNCHANGED refreshes
    PROVE  Refreshing'
  <1>1. ASSUME NEW g \in Refresher PROVE IsRefresh(refreshes'[g], rows', publications')
    BY RefreshStays DEF Refreshing
  <1> QED
    BY <1>1 DEF Refreshing

\* The Edge and what is on its way to it keep while the Cloud goes on.
LEMMA EdgeSideStays ==
    ASSUME DeliveryInv, PublishedStays, UNCHANGED <<exchange, edge>>
    PROVE  Exchanging' /\ Copied'
  BY ExchangingStays, CopiedStays DEF DeliveryInv

\* A handler that goes on without saving anything, while rows may be written.
LEMMA HandlerGoesOn ==
    ASSUME DeliveryInv, Growing, NEW h \in Refresher, NEW to,
           IsRefresh(to, rows', publications'), Step(h, to),
           UNCHANGED <<publications, packages, exchange, edge>>
    PROVE  DeliveryInv'
  <1>1. PublishedStays /\ Published /\ Refreshing /\ Packaging
    BY DEF DeliveryInv, Growing
  <1>2. Published'
    BY <1>1, PublishedGrows
  <1>3. Refreshing'
    BY <1>1, StepRefreshes
  <1>4. Packaging'
    BY <1>1, PackagingStays
  <1>5. Exchanging' /\ Copied'
    BY <1>1, EdgeSideStays
  <1> QED
    BY <1>2, <1>3, <1>4, <1>5 DEF DeliveryInv

\* A refresh that is over, or has just begun, has nothing yet that could be late.
LEMMA FreshRefresh ==
    ASSUME NEW p \in {"done", "look"}
    PROVE  IsRefresh([phase |-> p], rows', publications')
  BY DEF IsRefresh

\* A command writes rows, and its handler begins a refresh.
LEMMA CommitStep ==
    ASSUME DeliveryInv, NEW h \in Handler, Commit(h)
    PROVE  DeliveryInv'
  <1>1. Growing
    <2>1. PICK s \in Stream : rows' = [rows EXCEPT ![s] = @ + 1]
      BY DEF Commit
    <2>2. PublishedStays
      BY SameStays DEF Commit, DeliveryInv
    <2> QED
      BY <2>1, <2>2 DEF Growing, DeliveryInv, Published, RowCounts
  <1>2. Step(h, [phase |-> "look"]) /\ h \in Refresher
    BY DEF Commit, Refresher
  <1> QED
    BY <1>1, <1>2, FreshRefresh, HandlerGoesOn DEF Commit, edgeSide

\* An assigned Edge begins a refresh.
LEMMA AssignEdgeStep ==
    ASSUME DeliveryInv, NEW h \in Handler, AssignEdge(h)
    PROVE  DeliveryInv'
  <1>1. Growing
    BY SameGrows DEF AssignEdge, DeliveryInv
  <1>2. Step(h, [phase |-> "look"]) /\ h \in Refresher
    BY DEF AssignEdge, Refresher
  <1> QED
    BY <1>1, <1>2, FreshRefresh, HandlerGoesOn DEF AssignEdge, edgeSide

\* A refresh that has looked at the rows ends, or asks for a number.
LEMMA LookStep == ASSUME DeliveryInv, NEW h \in Refresher, Look(h) PROVE DeliveryInv'
  <1> DEFINE number == [phase |-> "number", fingerprint |-> rows, ack |-> delivery.ack]
  <1>1. Growing /\ UNCHANGED <<publications, packages, exchange, edge>>
    BY SameGrows DEF Look, At, edgeSide, DeliveryInv
  <1>2. IsRefresh(number, rows', publications')
    BY DEF IsRefresh
  <1>3. Step(h, Done) \/ Step(h, number)
    BY DEF Look
  <1> HIDE DEF number
  <1> QED
    BY <1>1, <1>2, <1>3, FreshRefresh, HandlerGoesOn DEF Done

\* A refresh that gets its number has read nothing yet.
LEMMA NumberStep ==
    ASSUME DeliveryInv, NEW h \in Refresher, NextPublicationVersion(h)
    PROVE  DeliveryInv'
  <1> DEFINE to == Numbered(refreshes[h], Len(publications) + 1, <<>>)
  <1>1. Growing /\ UNCHANGED <<publications, packages, exchange, edge>>
    BY SameGrows DEF NextPublicationVersion, At, edgeSide, DeliveryInv
  <1>2. IsRefresh(to, rows', publications')
    <2>1. <<>> \in Packets /\ DOMAIN <<>> = {}
      <3>1. <<>> \in Seq(Packet) /\ Len(<<>>) = 0
        BY EmptySeq
      <3>2. <<>> \in [1..0 -> Packet] /\ 1..0 = {}
        BY <3>1, LenProperties
      <3> QED
        BY <3>2 DEF Packets
    <2>2. to \in [phase : {"build", "save"}, fingerprint : {refreshes[h].fingerprint},
                  ack : {refreshes[h].ack}, version : Nat, built : Packets]
      BY <1>1, <2>1 DEF Numbered, Growing, PublishedStays
    <2>3. InTime(to, rows', publications')
      BY <1>1, <2>1 DEF Numbered, InTime, Growing, PublishedStays
    <2> HIDE DEF to
    <2> QED
      BY <2>2, <2>3 DEF IsRefresh
  <1>3. Step(h, to)
    BY DEF NextPublicationVersion
  <1> HIDE DEF to
  <1> QED
    BY <1>1, <1>2, <1>3, HandlerGoesOn

\* A stream is read after the number was given, so its rows are not behind.
LEMMA BuildStep ==
    ASSUME DeliveryInv, NEW h \in Refresher, BuildPacket(h)
    PROVE  DeliveryInv'
  <1> DEFINE r == refreshes[h]
  <1>1. Growing /\ UNCHANGED <<publications, packages, exchange, edge, rows>>
    BY SameGrows DEF BuildPacket, At, edgeSide, DeliveryInv
  <1>2. PICK looked, ack :
           r \in [phase : {"build", "save"}, fingerprint : {looked}, ack : {ack},
                 version : Nat, built : Packets]
    BY DEF DeliveryInv, Refreshing, IsRefresh, BuildPacket, At
  <1>3. InTime(r, rows, publications)
    BY DEF DeliveryInv, Refreshing, IsRefresh, BuildPacket, At
  <1>4. PICK n \in DOMAIN Streams :
           LET s == Streams[n]
               more == [t \in DOMAIN r.built \cup {s} |->
                           IF t = s THEN Packaged(s) ELSE r.built[t]]
           IN  Step(h, [r EXCEPT !.built = more,
                                 !.phase = IF DOMAIN more = Stream THEN "save" ELSE @])
    BY DEF BuildPacket
  <1> DEFINE s == Streams[n]
             more == [t \in DOMAIN r.built \cup {s} |->
                         IF t = s THEN Packaged(s) ELSE r.built[t]]
             phase == IF DOMAIN more = Stream THEN "save" ELSE r.phase
             to == [r EXCEPT !.built = more, !.phase = phase]
  <1>5. s \in Stream /\ Packaged(s) \in Packet /\ Packaged(s).rows = rows[s]
    <2>1. s \in Stream
      BY DEF Stream, Range
    <2>2. Refers[s] \in SUBSET Stream /\ rows \in [Stream -> Nat]
      BY <2>1, MasterDeliveryAssumption DEF DeliveryInv, Published, RowCounts
    <2>3. [d \in Refers[s] |-> rows[d]] \in [Refers[s] -> Nat]
      BY <2>2
    <2> HIDE DEF s
    <2>4. [d \in Refers[s] |-> rows[d]] \in UNION {[D -> Nat] : D \in SUBSET Stream}
      BY <2>2, <2>3
    <2> QED
      BY <2>1, <2>2, <2>4 DEF Packaged, Packet
  <1>6. /\ more \in Packets /\ DOMAIN more = DOMAIN r.built \cup {s}
        /\ \A t \in DOMAIN more : more[t].rows = IF t = s THEN rows[s] ELSE r.built[t].rows
    <2>1. r.built \in Packets
      BY <1>2
    <2>2. PICK S \in SUBSET Stream : r.built \in [S -> Packet]
      BY <2>1 DEF Packets
    <2>3. more \in [S \cup {s} -> Packet] /\ S \cup {s} \in SUBSET Stream
      BY <2>2, <1>5
    <2> QED
      BY <2>2, <2>3, <1>5 DEF Packets
  <1> HIDE DEF more, s
  <1>7. /\ to \in [phase : {"build", "save"}, fingerprint : {looked}, ack : {ack},
                   version : Nat, built : Packets]
        /\ to.version = r.version /\ to.built = more
        /\ to.phase = "save" => r.phase = "save" \/ DOMAIN more = Stream
    BY <1>2, <1>6
  <1>8. InTime(to, rows', publications')
    <2>1. r.phase = "build"
      BY DEF BuildPacket, At
    <2>2. \A v \in 1..Len(publications) : publications[v][s] <= rows[s]
      BY <1>5 DEF DeliveryInv, Published
    <2>3. \A t \in DOMAIN r.built : r.built[t].rows <= rows[t]
      BY <1>3 DEF InTime
    <2>4. rows[s] \in Nat
      BY <1>5 DEF DeliveryInv, Published, RowCounts
    <2> HIDE DEF to, r
    <2> QED
      BY <1>1, <1>3, <1>6, <1>7, <2>1, <2>2, <2>3, <2>4 DEF InTime
  <1>9. Step(h, to) /\ IsRefresh(to, rows', publications')
    BY <1>4, <1>7, <1>8 DEF IsRefresh, more, s
  <1> HIDE DEF to
  <1> QED
    BY <1>1, <1>9, HandlerGoesOn

\* A publication is appended: what it names is what the Cloud had after those before it.
LEMMA PublicationIsAppended ==
    ASSUME DeliveryInv, NEW made \in RowCounts,
           \A s \in Stream : made[s] <= rows[s],
           \A v \in 1..Len(publications), s \in Stream : publications[v][s] <= made[s],
           UNCHANGED rows, publications' = Append(publications, made)
    PROVE  /\ Published' /\ Growing
           /\ Len(publications)' = Len(publications) + 1
           /\ publications'[Len(publications) + 1] = made
  <1>1. publications \in Seq(RowCounts) /\ rows \in RowCounts /\ Len(publications) \in Nat
    BY LenProperties DEF DeliveryInv, Published
  <1>2. /\ publications' \in Seq(RowCounts)
        /\ Len(publications)' = Len(publications) + 1
        /\ \A v \in 1..Len(publications) : publications'[v] = publications[v]
        /\ publications'[Len(publications) + 1] = made
    BY <1>1, AppendProperties
  <1>3. PublishedStays /\ Growing
    BY <1>1, <1>2 DEF PublishedStays, Growing, RowCounts
  <1>4. \A v \in 1..Len(publications)', s \in Stream : publications'[v][s] <= rows'[s]
    BY <1>1, <1>2 DEF DeliveryInv, Published
  <1>5. ASSUME NEW v \in 1..Len(publications)', NEW w \in 1..Len(publications)', v <= w,
               NEW s \in Stream
        PROVE  publications'[v][s] <= publications'[w][s]
    <2>1. CASE w \in 1..Len(publications)
      BY <1>1, <1>2, <1>5, <2>1 DEF DeliveryInv, Published
    <2>2. CASE w = Len(publications) + 1 /\ v \in 1..Len(publications)
      BY <1>1, <1>2, <1>5, <2>2
    <2>3. CASE w = Len(publications) + 1 /\ v = Len(publications) + 1
      <3>1. made[s] \in Nat
        BY DEF RowCounts
      <3> QED
        BY <1>1, <1>2, <2>3, <3>1
    <2> QED
      BY <1>1, <1>2, <1>5, <2>1, <2>2, <2>3
  <1> QED
    BY <1>1, <1>2, <1>3, <1>4, <1>5 DEF Published

\* A publication whose number is still the next one is not behind the last one.
LEMMA SaveStep ==
    ASSUME DeliveryInv, NEW h \in Refresher, SavePublication(h)
    PROVE  DeliveryInv'
  <1> DEFINE r == refreshes[h]
  <1>1. UNCHANGED <<exchange, edge, rows>> /\ Step(h, Done)
    BY DEF SavePublication, At, edgeSide
  <1>2. r.phase = "save"
    BY DEF SavePublication, At
  <1>3. CASE UNCHANGED <<publications, packages>>
    <2>1. Growing
      BY <1>1, <1>3, SameGrows DEF DeliveryInv
    <2> QED
      BY <1>1, <1>3, <2>1, FreshRefresh, HandlerGoesOn DEF Done
  <1>4. CASE /\ r.version = Len(publications) + 1
             /\ publications' = Append(publications, [s \in Stream |-> r.built[s].rows])
             /\ packages' = [s \in Stream |-> Package(s, r.version, r.built[s])]
    <2> DEFINE made == [s \in Stream |-> r.built[s].rows]
    <2>1. r.built \in Packets /\ InTime(r, rows, publications)
      BY <1>2 DEF DeliveryInv, Refreshing, IsRefresh
    <2>2. DOMAIN r.built = Stream
      BY <1>2, <2>1 DEF InTime
    <2>3. \A s \in Stream : r.built[s] \in Packet
      BY <2>1, <2>2 DEF Packets
    <2>4. /\ made \in RowCounts
          /\ \A s \in Stream : made[s] <= rows[s]
          /\ \A v \in 1..Len(publications), s \in Stream : publications[v][s] <= made[s]
      BY <1>4, <2>1, <2>2, <2>3 DEF InTime, Packet, RowCounts
    <2>5. publications' = Append(publications, made)
      BY <1>4
    <2> HIDE DEF made
    <2>6. /\ Published' /\ Growing
          /\ Len(publications)' = Len(publications) + 1
          /\ publications'[Len(publications) + 1] = made
      BY <1>1, <2>4, <2>5, PublicationIsAppended
    <2>7. Packaging'
      <3>1. Len(publications) \in Nat
        BY <2>6 DEF Growing, PublishedStays
      <3>2. \A s \in Stream : /\ packages'[s] \in CloudPackage
                              /\ packages'[s].stream = s
                              /\ packages'[s].version = Len(publications) + 1
                              /\ packages'[s].rows = made[s]
        BY <1>4, <2>3, <3>1 DEF Package, Packet, CloudPackage, made
      <3>3. packages' \in [Stream -> CloudPackage]
        BY <1>4, <3>2
      <3> QED
        BY <2>6, <3>1, <3>2, <3>3 DEF Packaging, Truthful
    <2>8. Refreshing'
      <3>1. Published /\ Refreshing
        BY DEF DeliveryInv
      <3> QED
        BY <1>1, <2>6, <3>1, FreshRefresh, StepRefreshes DEF Done
    <2>9. Exchanging' /\ Copied'
      <3>1. PublishedStays
        BY <2>6 DEF Growing
      <3> QED
        BY <1>1, <3>1, EdgeSideStays
    <2> QED
      BY <2>6, <2>7, <2>8, <2>9 DEF DeliveryInv
  <1> QED
    BY <1>3, <1>4 DEF SavePublication

\* The steps that end a refresh, or begin one, and leave everything else of the proof alone.
LEMMA RefreshEnds ==
    ASSUME DeliveryInv, NEW h \in Refresher, AssemblyFails(h) \/ HandlerStops(h)
    PROVE  DeliveryInv'
  <1>1. /\ Step(h, Done)
        /\ UNCHANGED <<rows, publications, packages, exchange, edge>>
    BY DEF AssemblyFails, HandlerStops, At, edgeSide
  <1>2. Growing
    BY <1>1, SameGrows DEF DeliveryInv
  <1> QED
    BY <1>1, <1>2, FreshRefresh, HandlerGoesOn DEF Done

-----------------------------------------------------------------------------
(* The exchange.                                                           *)

\* The Cloud waits while the exchange goes on.
LEMMA ExchangeGoesOn ==
    ASSUME DeliveryInv, UNCHANGED <<rows, publications, packages>>, Refreshing',
           Exchanging', Copied'
    PROVE  DeliveryInv'
  <1>1. Growing /\ PublishedStays
    BY SameGrows DEF DeliveryInv, Growing
  <1> QED
    BY <1>1, PublishedGrows, PackagingStays DEF DeliveryInv

\* The refreshes wait as well.
LEMMA CloudWaits ==
    ASSUME DeliveryInv, UNCHANGED <<rows, refreshes, publications>>
    PROVE  Refreshing' /\ PublishedStays
  <1>1. Growing
    BY SameGrows DEF DeliveryInv
  <1> QED
    BY <1>1, RefreshingStays DEF DeliveryInv, Growing

\* The Edge asks with the versions it has.
LEMMA AskStep == ASSUME DeliveryInv, Ask PROVE DeliveryInv'
  <1>1. /\ UNCHANGED <<rows, publications, packages, refreshes, edge>>
        /\ exchange' = [phase |-> "asked", known |-> [s \in Stream |-> edge[s].version]]
    BY DEF Ask, Exchange, SyncExchangeState
  <1>2. Exchanging'
    BY <1>1 DEF Exchanging, RowCounts, DeliveryInv, Copied
  <1>3. Refreshing' /\ Copied'
    BY <1>1, CloudWaits, CopiedStays DEF DeliveryInv
  <1> QED
    BY <1>1, <1>2, <1>3, ExchangeGoesOn

\* A failed assembly may begin again before the Edge is answered.
LEMMA RetryStep == ASSUME DeliveryInv, RetryDeliveryForNode PROVE DeliveryInv'
  <1>1. /\ UNCHANGED <<rows, publications, packages, edge>>
        /\ exchange.phase = "asked"
        /\ exchange' = [phase |-> "retried", known |-> exchange.known,
                        changed |-> <<>>, at |-> 1]
    BY DEF RetryDeliveryForNode, Exchange
  <1>2. Exchanging'
    <2>1. exchange.known \in RowCounts
      BY <1>1 DEF DeliveryInv, Exchanging
    <2>2. <<>> \in Seq(CloudPackage) /\ DOMAIN <<>> = {}
      <3>1. <<>> \in Seq(CloudPackage) /\ Len(<<>>) = 0
        BY EmptySeq
      <3> QED
        BY <3>1, LenProperties
    <2> QED
      BY <1>1, <2>1, <2>2 DEF Exchanging, AllTruthful
  <1>3. Growing
    BY <1>1, SameGrows DEF DeliveryInv
  <1>4. Copied'
    BY <1>1, <1>3, CopiedStays DEF DeliveryInv, Growing
  <1>5. Refreshing'
    <2>1. Published /\ Refreshing /\ Retry \in Refresher
      BY DEF DeliveryInv, Refresher
    <2>2. Step(Retry, [phase |-> "look"]) \/ UNCHANGED refreshes
      BY DEF RetryDeliveryForNode
    <2> QED
      BY <1>3, <2>1, <2>2, FreshRefresh, StepRefreshes, RefreshingStays
  <1> QED
    BY <1>1, <1>2, <1>4, <1>5, ExchangeGoesOn

\* A truthful package is added to those that changed.
LEMMA TruthfulAppend ==
    ASSUME NEW changed \in Seq(CloudPackage), NEW pkg \in CloudPackage,
           AllTruthful(changed, publications), Truthful(pkg, publications)
    PROVE  /\ Append(changed, pkg) \in Seq(CloudPackage)
           /\ AllTruthful(Append(changed, pkg), publications)
  <1>1. /\ Len(changed) \in Nat /\ DOMAIN changed = 1..Len(changed)
        /\ Append(changed, pkg) \in Seq(CloudPackage)
        /\ Len(Append(changed, pkg)) = Len(changed) + 1
        /\ \A n \in 1..Len(changed) : Append(changed, pkg)[n] = changed[n]
        /\ Append(changed, pkg)[Len(changed) + 1] = pkg
    BY LenProperties, AppendProperties
  <1>2. DOMAIN Append(changed, pkg) = 1..(Len(changed) + 1)
    BY <1>1, LenProperties
  <1> QED
    BY <1>1, <1>2 DEF AllTruthful

\* The next package that the Edge has not is put into the answer.
LEMMA ReadStep == ASSUME DeliveryInv, ReadPackage PROVE DeliveryInv'
  <1> DEFINE s == Streams[exchange.at]
             changed == IF exchange.known[s] < packages[s].version
                        THEN Append(exchange.changed, packages[s]) ELSE exchange.changed
  <1>1. /\ UNCHANGED <<rows, publications, packages, refreshes, edge>>
        /\ exchange.phase = "retried"
        /\ s \in Stream
        /\ exchange' = [exchange EXCEPT !.at = @ + 1, !.changed = changed]
    BY DEF ReadPackage, Exchange, Stream, Range
  <1>2. /\ exchange \in [phase : {"retried"}, known : RowCounts, changed : Seq(CloudPackage),
                          at : Nat]
        /\ AllTruthful(exchange.changed, publications)
    BY <1>1 DEF DeliveryInv, Exchanging
  <1>3. changed \in Seq(CloudPackage) /\ AllTruthful(changed, publications)
    <2>1. CASE exchange.known[s] < packages[s].version
      <3>1. packages[s] \in CloudPackage /\ exchange.known[s] \in Nat
        BY <1>1, <1>2 DEF DeliveryInv, Packaging, RowCounts
      <3>2. packages[s].version > 0
        BY <2>1, <3>1 DEF CloudPackage
      <3>3. Truthful(packages[s], publications)
        BY <1>1, <3>2 DEF DeliveryInv, Packaging
      <3> QED
        BY <1>2, <2>1, <3>1, <3>3, TruthfulAppend
    <2>2. CASE ~(exchange.known[s] < packages[s].version)
      BY <1>2, <2>2
    <2> QED
      BY <2>1, <2>2
  <1> HIDE DEF changed, s
  <1>4. Exchanging'
    <2>1. /\ exchange' \in [phase : {"retried"}, known : RowCounts, changed : Seq(CloudPackage),
                             at : Nat]
          /\ exchange'.changed = changed
      <3>1. exchange.at + 1 \in Nat /\ changed \in Seq(CloudPackage)
        BY <1>2, <1>3
      <3> QED
        BY <1>1, <1>2, <3>1
    <2>2. AllTruthful(exchange'.changed, publications')
      BY <1>1, <1>3, <2>1
    <2> QED
      BY <2>1, <2>2 DEF Exchanging
  <1>5. Refreshing' /\ Copied'
    BY <1>1, CloudWaits, CopiedStays DEF DeliveryInv
  <1> QED
    BY <1>1, <1>4, <1>5, ExchangeGoesOn

\* The answer is made of packages that were read.
LEMMA AnswerStep == ASSUME DeliveryInv, Answer PROVE DeliveryInv'
  <1> DEFINE answered == {n \in DOMAIN exchange.changed :
                             n <= MaxPackages /\ Licensed(exchange.changed[n])}
  <1>1. /\ UNCHANGED <<rows, publications, packages, refreshes, edge>>
        /\ exchange.phase = "retried"
        /\ exchange' = [phase |-> "answered", packages |-> exchange.changed,
                        todo |-> answered]
    BY DEF Answer, Exchange
  <1>2. /\ exchange.changed \in Seq(CloudPackage)
        /\ AllTruthful(exchange.changed, publications)
    BY <1>1 DEF DeliveryInv, Exchanging
  <1>3. answered \subseteq DOMAIN exchange.changed /\ answered \in SUBSET Nat
    BY <1>2, LenProperties
  <1> HIDE DEF answered
  <1>4. Exchanging'
    BY <1>1, <1>2, <1>3 DEF Exchanging
  <1>5. Refreshing' /\ Copied'
    BY <1>1, CloudWaits, CopiedStays DEF DeliveryInv
  <1> QED
    BY <1>1, <1>4, <1>5, ExchangeGoesOn

\* Either the package's rows are taken with their version, or what the Edge has stays.
LEMMA ApplyEffect ==
    ASSUME DeliveryInv, ApplyPackage
    PROVE  \E pkg \in CloudPackage :
              /\ Truthful(pkg, publications)
              /\ \E checkpoint \in [version : Nat, rows : Nat, failed : BOOLEAN] :
                    /\ edge' = [edge EXCEPT ![pkg.stream] = checkpoint]
                    /\ \/ /\ edge[pkg.stream].version < pkg.version
                          /\ checkpoint.version = pkg.version /\ checkpoint.rows = pkg.rows
                       \/ /\ checkpoint.version = edge[pkg.stream].version
                          /\ checkpoint.rows = edge[pkg.stream].rows
  <1>1. PICK n \in exchange.todo :
           LET pkg == exchange.packages[n]
           IN  edge' = [edge EXCEPT ![pkg.stream] =
                    CASE @.version >= pkg.version -> @
                      [] @.version < pkg.version /\ Applicable(pkg) -> Renewed(pkg)
                      [] OTHER -> Noted(pkg)]
    BY DEF ApplyPackage
  <1> DEFINE pkg == exchange.packages[n]
             old == edge[pkg.stream]
  <1>2. /\ exchange.packages \in Seq(CloudPackage)
        /\ exchange.todo \subseteq DOMAIN exchange.packages
        /\ AllTruthful(exchange.packages, publications)
    BY DEF DeliveryInv, Exchanging, ApplyPackage, Exchange
  <1>3. pkg \in CloudPackage /\ Truthful(pkg, publications)
    BY <1>2, ElementOfSeq, LenProperties DEF AllTruthful
  <1>4. pkg.stream \in Stream /\ pkg.version \in Nat /\ pkg.rows \in Nat
    BY <1>3 DEF CloudPackage
  <1>5. old \in [version : Nat, rows : Nat, failed : BOOLEAN]
    BY <1>4 DEF DeliveryInv, Copied
  <1>6. CASE old.version >= pkg.version
    <2>1. (CASE old.version >= pkg.version -> old
             [] old.version < pkg.version /\ Applicable(pkg) -> Renewed(pkg)
             [] OTHER -> Noted(pkg)) = old
      BY <1>4, <1>5, <1>6
    <2>2. edge' = [edge EXCEPT ![pkg.stream] = old]
      BY <1>1, <2>1
    <2> QED
      BY <1>3, <1>5, <2>2
  <1>7. CASE old.version < pkg.version /\ Applicable(pkg)
    <2>1. ~(old.version >= pkg.version)
      BY <1>4, <1>5, <1>7
    <2>2. edge' = [edge EXCEPT ![pkg.stream] = Renewed(pkg)]
      BY <1>1, <1>7, <2>1
    <2>3. /\ Renewed(pkg) \in [version : Nat, rows : Nat, failed : BOOLEAN]
          /\ Renewed(pkg).version = pkg.version /\ Renewed(pkg).rows = pkg.rows
      BY <1>4 DEF Renewed
    <2> QED
      BY <1>3, <1>7, <2>2, <2>3
  <1>8. CASE old.version < pkg.version /\ ~Applicable(pkg)
    <2>1. ~(old.version >= pkg.version)
      BY <1>4, <1>5, <1>8
    <2>2. edge' = [edge EXCEPT ![pkg.stream] = Noted(pkg)]
      BY <1>1, <1>8, <2>1
    <2>3. /\ Noted(pkg) \in [version : Nat, rows : Nat, failed : BOOLEAN]
          /\ Noted(pkg).version = old.version /\ Noted(pkg).rows = old.rows
      BY <1>5 DEF Noted
    <2> QED
      BY <1>3, <2>2, <2>3
  <1> QED
    BY <1>4, <1>5, <1>6, <1>7, <1>8

\* What the Edge applies is of a publication.
LEMMA ApplyStep == ASSUME DeliveryInv, ApplyPackage PROVE DeliveryInv'
  <1>1. UNCHANGED <<rows, publications, packages, refreshes>>
    BY DEF ApplyPackage, Exchange
  <1>2. Exchanging'
    <2>1. PICK n \in exchange.todo : exchange' = [exchange EXCEPT !.todo = @ \ {n}]
      BY DEF ApplyPackage
    <2>2. /\ exchange \in [phase : {"answered"}, packages : Seq(CloudPackage),
                            todo : SUBSET Nat]
          /\ exchange.todo \subseteq DOMAIN exchange.packages
          /\ AllTruthful(exchange.packages, publications)
      BY DEF DeliveryInv, Exchanging, ApplyPackage, Exchange
    <2>3. /\ exchange' \in [phase : {"answered"}, packages : Seq(CloudPackage),
                             todo : SUBSET Nat]
          /\ exchange'.packages = exchange.packages
          /\ exchange'.todo \subseteq exchange.todo
      BY <2>1, <2>2
    <2>4. AllTruthful(exchange'.packages, publications')
      BY <1>1, <2>2, <2>3
    <2> QED
      BY <2>2, <2>3, <2>4 DEF Exchanging
  <1>3. Copied'
    <2>1. PICK pkg \in CloudPackage,
               checkpoint \in [version : Nat, rows : Nat, failed : BOOLEAN] :
             /\ Truthful(pkg, publications)
             /\ edge' = [edge EXCEPT ![pkg.stream] = checkpoint]
             /\ \/ checkpoint.version = pkg.version /\ checkpoint.rows = pkg.rows
                \/ /\ checkpoint.version = edge[pkg.stream].version
                   /\ checkpoint.rows = edge[pkg.stream].rows
      BY ApplyEffect
    <2>2. pkg.stream \in Stream
      BY DEF CloudPackage
    <2>3. edge \in [Stream -> [version : Nat, rows : Nat, failed : BOOLEAN]]
      BY DEF DeliveryInv, Copied
    <2>4. /\ edge' \in [Stream -> [version : Nat, rows : Nat, failed : BOOLEAN]]
          /\ \A s \in Stream : edge'[s] = IF s = pkg.stream THEN checkpoint ELSE edge[s]
      BY <2>1, <2>2, <2>3
    <2>5. Len(publications) \in Nat
      BY LenProperties DEF DeliveryInv, Published
    <2>6. /\ checkpoint.version <= Len(publications)
          /\ checkpoint.rows = IF checkpoint.version = 0 THEN 0
                               ELSE publications[checkpoint.version][pkg.stream]
      BY <2>1, <2>2, <2>5 DEF DeliveryInv, Copied, CheckpointTellsTheRows, Truthful
    <2> QED
      BY <1>1, <2>4, <2>6 DEF DeliveryInv, Copied, CheckpointTellsTheRows
  <1>4. Refreshing'
    BY <1>1, CloudWaits
  <1> QED
    BY <1>1, <1>2, <1>3, <1>4, ExchangeGoesOn

\* An exchange that is over or lost leaves nothing behind.
LEMMA ExchangeEnds == ASSUME DeliveryInv, EndExchange \/ ExchangeIsLost PROVE DeliveryInv'
  <1>1. /\ UNCHANGED <<rows, publications, packages, refreshes, edge>>
        /\ exchange' = [phase |-> "idle"]
    BY DEF EndExchange, ExchangeIsLost, Exchange, cloudSide
  <1>2. Exchanging'
    BY <1>1 DEF Exchanging
  <1>3. Refreshing' /\ Copied'
    BY <1>1, CloudWaits, CopiedStays DEF DeliveryInv
  <1> QED
    BY <1>1, <1>2, <1>3, ExchangeGoesOn

-----------------------------------------------------------------------------
(* The tenant.                                                             *)

\* Before the first publication nothing is delivered.
LEMMA DeliveryStarts == ASSUME Init PROVE DeliveryInv
  <1>1. DeliveryInit
    BY DEF Init
  <1>2. publications \in Seq(RowCounts) /\ Len(publications) = 0 /\ 1..0 = {}
    BY <1>1, EmptySeq DEF DeliveryInit
  <1>3. Published
    BY <1>1, <1>2 DEF Published, DeliveryInit, RowCounts
  <1>4. Refreshing
    BY <1>1 DEF Refreshing, IsRefresh, DeliveryInit, Done
  <1>5. Packaging
    <2>1. NoRows.refs \in [{} -> Nat] /\ NoRows.rows = 0
      BY DEF NoRows
    <2>2. \A s \in Stream : /\ Package(s, 0, NoRows) \in CloudPackage
                            /\ Package(s, 0, NoRows).stream = s
                            /\ Package(s, 0, NoRows).version = 0
      BY <2>1 DEF Package, CloudPackage
    <2> QED
      BY <1>1, <2>2 DEF Packaging, DeliveryInit
  <1>6. Exchanging
    BY <1>1 DEF Exchanging, DeliveryInit
  <1>7. Copied
    BY <1>1, <1>2 DEF Copied, CheckpointTellsTheRows, DeliveryInit
  <1> QED
    BY <1>3, <1>4, <1>5, <1>6, <1>7 DEF DeliveryInv

\* Every step of the delivery keeps the invariant.
LEMMA DeliveryStep == ASSUME DeliveryInv, DeliveryNext PROVE DeliveryInv'
  BY CommitStep, AssignEdgeStep, LookStep, NumberStep, BuildStep, SaveStep, RefreshEnds,
     AskStep, RetryStep, ReadStep, AnswerStep, ApplyStep, ExchangeEnds
  DEF DeliveryNext, RefreshNext, ExchangeNext

\* The other areas of master data leave the delivery alone.
LEMMA DeliveryOrNot == ASSUME [Next]_vars PROVE DeliveryNext \/ UNCHANGED deliveryVars
  BY DEF Next, vars, InFloor, InStaff, InCatalog, InRecipes, InPrint, InDelivery, InMessages

\* Every step of the tenant keeps the invariant.
LEMMA DeliveryKeeps == ASSUME DeliveryInv, [Next]_vars PROVE DeliveryInv'
  <1>1. CASE DeliveryNext
    BY <1>1, DeliveryStep
  <1>2. CASE UNCHANGED deliveryVars
    <2>1. UNCHANGED <<rows, refreshes, publications, packages, exchange, edge>>
      BY <1>2 DEF deliveryVars, cloudSide, edgeSide
    <2> QED
      BY <2>1 DEF DeliveryInv, Published, Refreshing, Packaging, Exchanging, Copied,
                  CheckpointTellsTheRows
  <1> QED
    BY <1>1, <1>2, DeliveryOrNot

\* The invariant of the delivery.
LEMMA DeliveryInvariance == Spec => []DeliveryInv
  BY DeliveryStarts, DeliveryKeeps, PTL DEF Spec

\* The checkpoint the Edge sends says which publication its rows are of, through refreshes
\* that overlap, packages that are refused, and exchanges that are lost.
THEOREM CheckpointsAreTrue == Spec => []CheckpointTellsTheRows
  BY DeliveryInvariance, PTL DEF DeliveryInv, Copied

-----------------------------------------------------------------------------
(* The delivery implements MasterCopy.                                     *)

Mirror == [s \in Stream |-> edge[s].rows]

\* Only a command changes the Cloud's rows, and only a package the Edge's.
LEMMA OnlyThese ==
    ASSUME [Next]_vars
    PROVE  \/ \E h \in Handler : Commit(h)
           \/ ApplyPackage
           \/ UNCHANGED <<rows, edge>>
  <1>1. CASE UNCHANGED deliveryVars
    BY <1>1 DEF deliveryVars, cloudSide, edgeSide
  <1>2. ASSUME NEW h \in Handler, AssignEdge(h) PROVE UNCHANGED <<rows, edge>>
    BY <1>2 DEF AssignEdge, edgeSide
  <1>3. ASSUME NEW h \in Refresher, RefreshNext(h) \/ AssemblyFails(h) \/ HandlerStops(h)
        PROVE  UNCHANGED <<rows, edge>>
    BY <1>3 DEF RefreshNext, Look, NextPublicationVersion, BuildPacket, SavePublication,
                AssemblyFails, HandlerStops, At, edgeSide
  <1>4. ASSUME Ask \/ RetryDeliveryForNode \/ ReadPackage \/ Answer \/ EndExchange
        PROVE  UNCHANGED <<rows, edge>>
    BY <1>4 DEF Ask, RetryDeliveryForNode, ReadPackage, Answer, EndExchange, Exchange
  <1>5. ASSUME ExchangeIsLost PROVE UNCHANGED <<rows, edge>>
    BY <1>5 DEF ExchangeIsLost, cloudSide
  <1> QED
    BY <1>1, <1>2, <1>3, <1>4, <1>5, DeliveryOrNot DEF DeliveryNext, ExchangeNext

\* A command changes the original.
LEMMA CommitIsChange ==
    ASSUME DeliveryInv, NEW h \in Handler, Commit(h)
    PROVE  Copy!Change
  <1>1. \E s \in Stream : rows' = [rows EXCEPT ![s] = @ + 1]
    BY DEF Commit
  <1>2. UNCHANGED Mirror
    BY DEF Commit, edgeSide, Mirror
  <1> QED
    BY <1>1, <1>2 DEF Copy!Change, Mirror

\* A package renews the copy, or leaves it.
LEMMA ApplyIsRenewal ==
    ASSUME DeliveryInv, ApplyPackage
    PROVE  Copy!Renew \/ UNCHANGED <<rows, Mirror>>
  <1>1. PICK pkg \in CloudPackage,
             checkpoint \in [version : Nat, rows : Nat, failed : BOOLEAN] :
           /\ Truthful(pkg, publications)
           /\ edge' = [edge EXCEPT ![pkg.stream] = checkpoint]
           /\ \/ /\ edge[pkg.stream].version < pkg.version
                 /\ checkpoint.version = pkg.version /\ checkpoint.rows = pkg.rows
              \/ /\ checkpoint.version = edge[pkg.stream].version
                 /\ checkpoint.rows = edge[pkg.stream].rows
    BY ApplyEffect
  <1> DEFINE s == pkg.stream
  <1>2. UNCHANGED rows
    BY DEF ApplyPackage, Exchange
  <1>3. s \in Stream /\ edge \in [Stream -> [version : Nat, rows : Nat, failed : BOOLEAN]]
    BY DEF CloudPackage, DeliveryInv, Copied
  <1>4. Mirror' = [Mirror EXCEPT ![s] = checkpoint.rows]
    BY <1>1, <1>3 DEF Mirror
  <1>5. CASE checkpoint.rows = edge[s].rows
    <2>1. Mirror' = Mirror
      BY <1>3, <1>4, <1>5 DEF Mirror
    <2> QED
      BY <1>2, <2>1
  <1>6. CASE edge[s].version < pkg.version /\ checkpoint.rows = pkg.rows
    <2>1. /\ pkg.version \in 1..Len(publications) /\ Len(publications) \in Nat
          /\ pkg.rows = publications[pkg.version][s]
          /\ edge[s].version \in Nat /\ pkg.rows \in Nat /\ rows[s] \in Nat
      BY <1>1, <1>3, LenProperties
      DEF Truthful, DeliveryInv, Published, RowCounts, CloudPackage
    <2>2. pkg.rows <= rows[s]
      BY <1>3, <2>1 DEF DeliveryInv, Published
    <2>3. edge[s].rows <= pkg.rows
      <3>1. CASE edge[s].version = 0
        BY <1>3, <2>1, <3>1 DEF DeliveryInv, Copied, CheckpointTellsTheRows
      <3>2. CASE edge[s].version # 0
        <4>1. edge[s].rows = publications[edge[s].version][s]
          BY <1>3, <3>2 DEF DeliveryInv, Copied, CheckpointTellsTheRows
        <4>2. edge[s].version \in 1..Len(publications) /\ edge[s].version <= pkg.version
          BY <1>6, <2>1, <3>2
        <4> QED
          BY <1>3, <2>1, <4>1, <4>2 DEF DeliveryInv, Published
      <3> QED
        BY <3>1, <3>2
    <2>4. Mirror[s] = edge[s].rows /\ edge[s].rows \in Nat
      BY <1>3 DEF Mirror
    <2>5. checkpoint.rows \in Mirror[s]..rows[s]
      BY <1>6, <2>1, <2>2, <2>3, <2>4
    <2> QED
      BY <1>2, <1>3, <1>4, <2>5 DEF Copy!Renew, Mirror
  <1> QED
    BY <1>1, <1>5, <1>6

\* A restaurant's copy of a stream was the Cloud's and never goes back, whatever handlers
\* assemble packages side by side, and however often an exchange is lost.
THEOREM DeliveryImplementsCopy == Spec => ImplementsMasterCopy
  <1>1. ASSUME Init PROVE Copy!Init
    BY <1>1 DEF Init, DeliveryInit, Copy!Init
  <1>2. ASSUME DeliveryInv, [Next]_vars PROVE [Copy!Next]_<<rows, Mirror>>
    <2>1. CASE UNCHANGED <<rows, edge>>
      BY <2>1 DEF Mirror
    <2> QED
      BY <1>2, <2>1, OnlyThese, CommitIsChange, ApplyIsRenewal DEF Copy!Next
  <1> QED
    BY <1>1, <1>2, DeliveryInvariance, PTL DEF Spec, ImplementsMasterCopy, Copy!Spec, Mirror

-----------------------------------------------------------------------------
(* Reviews: what the kitchen is told of was written.                       *)

\* Every row has a status.
HasStatus(table) == \A id \in DOMAIN table : "status" \in DOMAIN table[id]

\* The tables the reviews write to.
TablesStand ==
    /\ DOMAIN items = Item /\ HasStatus(items)
    /\ DOMAIN recipeItems = Item \X Item
    /\ DOMAIN stops = Item

ReviewRow == [status : {"none"}] \cup
    [status : {"pending", "approved", "rejected", "changes_requested"}, assigned : BOOLEAN]

\* An effect of an approval, and what it leaves.
IsEffect(e) ==
    \/ e.write \in {"item", "name"} /\ e.item \in Item
    \/ e.write = "stop" /\ e.item \in Item /\ e.quantity \in Nat
    \/ e.write = "version"
    \/ e.write = "line" /\ e.owner \in Item /\ e.line \in RecipeLine
Effect == UNION {Range(Effects(r)) : r \in Review \cup Version}
Effected(e, itemsNow, linesNow, stopsNow, activatedNow) ==
    CASE e.write = "version" -> e.version \in activatedNow
      [] e.write \in {"item", "name"} -> Exists(itemsNow[e.item])
      [] e.write = "stop" -> Exists(stopsNow[e.item])
      [] e.write = "line" -> Exists(linesNow[<<e.owner, e.line.component>>])

\* All of a review was written.
AllWritten(r, itemsNow, linesNow, stopsNow, activatedNow) ==
    \A n \in DOMAIN Effects(r) :
        Effected(Effects(r)[n], itemsNow, linesNow, stopsNow, activatedNow)

\* A call that approves has done what it has no longer to do; the rows other calls write
\* back approve nothing.
CallKeepsItsWord(call, itemsNow, linesNow, stopsNow, activatedNow) ==
    /\ call.op = "approve" =>
          /\ call \in [op : {"approve"}, review : Review \cup Version, row : ReviewRow,
                       todo : Seq(Effect)]
          /\ Exists(call.row)
          /\ \A n \in DOMAIN Effects(call.review) :
                \/ Effected(Effects(call.review)[n], itemsNow, linesNow, stopsNow, activatedNow)
                \/ \E k \in DOMAIN call.todo : call.todo[k] = Effects(call.review)[n]
    /\ call.op \in {"store", "assign"} =>
          /\ call.review \in Review \cup Version /\ call.row \in ReviewRow
          /\ call.row.status # "approved"

ReviewsKeepTheirWord(itemsNow, linesNow, stopsNow, activatedNow) ==
    \A r \in Review \cup Version :
        reviews[r].status = "approved" => AllWritten(r, itemsNow, linesNow, stopsNow, activatedNow)

ReviewInv ==
    /\ TablesStand
    /\ reviews \in [Review \cup Version -> ReviewRow]
    /\ DOMAIN calls = Manager
    /\ ReviewsKeepTheirWord(items, recipeItems, stops, activated)
    /\ \A m \in Manager : CallKeepsItsWord(calls[m], items, recipeItems, stops, activated)

\* The tables stand as before, and what is in them stays.
TablesGrow ==
    /\ TablesStand'
    /\ \A i \in Item : Exists(items[i]) => Exists(items'[i])
    /\ \A pair \in Item \X Item : Exists(recipeItems[pair]) => Exists(recipeItems'[pair])
    /\ \A i \in Item : Exists(stops[i]) => Exists(stops'[i])
    /\ activated \subseteq activated'

\* What was written stays.
LEMMA WrittenStays ==
    ASSUME TablesGrow, NEW e, IsEffect(e),
           Effected(e, items, recipeItems, stops, activated)
    PROVE  Effected(e, items', recipeItems', stops', activated')
  <1>1. CASE e.write \in {"item", "name"} /\ e.item \in Item
    BY <1>1 DEF Effected, TablesGrow
  <1>2. CASE e.write = "stop" /\ e.item \in Item
    BY <1>2 DEF Effected, TablesGrow
  <1>3. CASE e.write = "version"
    BY <1>3 DEF Effected, TablesGrow
  <1>4. CASE e.write = "line" /\ e.owner \in Item /\ e.line.component \in Item
    BY <1>4 DEF Effected, TablesGrow
  <1> QED
    BY <1>1, <1>2, <1>3, <1>4 DEF IsEffect, RecipeLine

\* The effects of a review are effects, of rows there may be.
LEMMA EffectsAreSound ==
    ASSUME NEW r \in Review \cup Version
    PROVE  /\ Effects(r) \in Seq(Effect)
           /\ \A n \in DOMAIN Effects(r) : IsEffect(Effects(r)[n])
  <1>1. CASE Kind(r) = "change"
    <2>1. /\ r \in Review /\ Asks[r].owner \in Item
          /\ Asks[r].changes \in Seq(RecipeLine)
      BY <1>1, CloudRecipesAssumption DEF Kind
    <2> DEFINE changes == Asks[r].changes
    <2>2. Len(changes) \in Nat /\ DOMAIN changes = 1..Len(changes)
      BY <2>1, LenProperties
    <2>3. Effects(r) = [n \in 1..Len(changes) |->
              [write |-> "line", owner |-> Asks[r].owner, line |-> changes[n]]]
      BY <1>1 DEF Effects
    <2>4. ASSUME NEW n \in 1..Len(changes)
          PROVE  IsEffect(Effects(r)[n]) /\ Effects(r)[n] \in Effect
      <3>1. changes[n] \in RecipeLine
        BY <2>1, ElementOfSeq
      <3> DEFINE e == [write |-> "line", owner |-> Asks[r].owner, line |-> changes[n]]
      <3>2. Effects(r)[n] = e /\ n \in DOMAIN Effects(r)
        BY <2>3
      <3>3. e.write = "line" /\ e.owner \in Item /\ e.line \in RecipeLine
        BY <2>1, <3>1
      <3> HIDE DEF e
      <3>4. e \in Effect
        BY <3>2 DEF Effect, Range
      <3> QED
        BY <3>2, <3>3, <3>4 DEF IsEffect
    <2>5. Effects(r) \in Seq(Effect)
      <3>1. Effects(r) \in [1..Len(changes) -> Effect]
        BY <2>3, <2>4
      <3> QED
        BY <2>2, <3>1, SeqDef
    <2> QED
      BY <2>3, <2>4, <2>5
  <1>2. CASE Kind(r) # "change"
    <2>1. PICK e : Effects(r) = <<e>> /\ IsEffect(e)
      <3>1. CASE r \in Version
        BY <3>1 DEF Effects, Kind, IsEffect
      <3>2. CASE r \in Review \ Version
        <4>1. /\ Kind(r) \in {"create", "update", "stop_list"} /\ Asks[r].item \in Item
              /\ Kind(r) = "stop_list" => Asks[r].quantity \in Nat
          BY <1>2, <3>2, CloudRecipesAssumption DEF Kind
        <4>2. CASE Kind(r) = "create"
          BY <4>1, <4>2 DEF Effects, IsEffect
        <4>3. CASE Kind(r) = "update"
          BY <4>1, <4>3 DEF Effects, IsEffect
        <4>4. CASE Kind(r) = "stop_list"
          BY <4>1, <4>4 DEF Effects, IsEffect
        <4> QED
          BY <4>1, <4>2, <4>3, <4>4
      <3> QED
        BY <3>1, <3>2
    <2>2. e \in Effect
      BY <2>1 DEF Effect, Range
    <2> QED
      BY <2>1, <2>2
  <1> QED
    BY <1>1, <1>2

\* A review all of which was written has been applied.
LEMMA WrittenIsApplied ==
    ASSUME NEW r \in Review \cup Version,
           AllWritten(r, items, recipeItems, stops, activated)
    PROVE  Applied(r)
  <1>1. CASE Kind(r) = "change"
    <2>1. r \in Review /\ Asks[r].changes \in
              Seq(RecipeLine)
      BY <1>1, CloudRecipesAssumption DEF Kind
    <2>2. DOMAIN Asks[r].changes = 1..Len(Asks[r].changes)
      BY <2>1, LenProperties
    <2>3. Effects(r) = [n \in 1..Len(Asks[r].changes) |->
              [write |-> "line", owner |-> Asks[r].owner, line |-> Asks[r].changes[n]]]
      BY <1>1 DEF Effects
    <2>4. ASSUME NEW n \in DOMAIN Asks[r].changes
          PROVE  Exists(recipeItems[<<Asks[r].owner, Asks[r].changes[n].component>>])
      <3> DEFINE e == [write |-> "line", owner |-> Asks[r].owner, line |-> Asks[r].changes[n]]
      <3>1. Effects(r)[n] = e /\ n \in DOMAIN Effects(r)
        BY <2>2, <2>3
      <3>2. /\ e.write = "line" /\ e.owner = Asks[r].owner
            /\ e.line.component = Asks[r].changes[n].component
        OBVIOUS
      <3> HIDE DEF e
      <3>3. Effected(e, items, recipeItems, stops, activated)
        BY <3>1 DEF AllWritten
      <3> QED
        BY <3>2, <3>3 DEF Effected
    <2> QED
      BY <1>1, <2>4 DEF Applied
  <1>2. CASE Kind(r) # "change"
    <2>1. Effects(r)[1] = Effects(r)[1] /\ (Len(Effects(r)) = 1 => 1 \in DOMAIN Effects(r))
      BY EffectsAreSound, LenProperties
    <2>2. CASE r \in Version
      <3>1. Kind(r) = "publish" /\ Effects(r) = <<[write |-> "version", version |-> r]>>
        BY <2>2 DEF Kind, Effects
      <3>2. Effected([write |-> "version", version |-> r], items, recipeItems, stops, activated)
        BY <3>1 DEF AllWritten
      <3> QED
        BY <3>1, <3>2 DEF Effected, Applied
    <2>3. CASE r \in Review \ Version
      <3>1. Kind(r) \in {"create", "update", "stop_list"}
        BY <1>2, <2>3, CloudRecipesAssumption DEF Kind
      <3>2. CASE Kind(r) = "create"
        <4>1. Effects(r) = <<[write |-> "item", item |-> Asks[r].item]>>
          BY <3>2 DEF Effects
        <4>2. Effected([write |-> "item", item |-> Asks[r].item],
                      items, recipeItems, stops, activated)
          BY <4>1 DEF AllWritten
        <4> QED
          BY <3>2, <4>2 DEF Effected, Applied
      <3>3. CASE Kind(r) = "update"
        <4>1. Effects(r) = <<[write |-> "name", item |-> Asks[r].item]>>
          BY <3>3 DEF Effects
        <4>2. Effected([write |-> "name", item |-> Asks[r].item],
                      items, recipeItems, stops, activated)
          BY <4>1 DEF AllWritten
        <4> QED
          BY <3>3, <4>2 DEF Effected, Applied
      <3>4. CASE Kind(r) = "stop_list"
        <4> DEFINE e == [write |-> "stop", item |-> Asks[r].item,
                         active |-> Asks[r].active, quantity |-> Asks[r].quantity]
        <4>1. Effects(r) = <<e>>
          BY <3>4 DEF Effects
        <4>2. Effected(e, items, recipeItems, stops, activated)
          BY <4>1 DEF AllWritten
        <4> QED
          BY <3>4, <4>2 DEF Effected, Applied
      <3> QED
        BY <3>1, <3>2, <3>3, <3>4
    <2> QED
      BY <2>2, <2>3
  <1> QED
    BY <1>1, <1>2

\* All of a review stays written.
LEMMA AllWrittenStays ==
    ASSUME TablesGrow, NEW r \in Review \cup Version,
           AllWritten(r, items, recipeItems, stops, activated)
    PROVE  AllWritten(r, items', recipeItems', stops', activated')
  BY EffectsAreSound, WrittenStays DEF AllWritten

\* A call keeps its word while others write.
LEMMA CallStays ==
    ASSUME TablesGrow, NEW call,
           CallKeepsItsWord(call, items, recipeItems, stops, activated)
    PROVE  CallKeepsItsWord(call, items', recipeItems', stops', activated')
  <1>1. ASSUME call.op = "approve", NEW n \in DOMAIN Effects(call.review)
        PROVE  \/ Effected(Effects(call.review)[n], items', recipeItems', stops', activated')
               \/ \E k \in DOMAIN call.todo : call.todo[k] = Effects(call.review)[n]
    <2>1. call.review \in Review \cup Version
      BY <1>1 DEF CallKeepsItsWord
    <2>2. IsEffect(Effects(call.review)[n])
      BY <1>1, <2>1, EffectsAreSound
    <2> QED
      BY <1>1, <2>2, WrittenStays DEF CallKeepsItsWord
  <1> QED
    BY <1>1 DEF CallKeepsItsWord

\* What a step must show: answers it writes are of what was written, and so are the calls
\* it changes.
LEMMA ReviewsStep ==
    ASSUME ReviewInv, TablesGrow,
           reviews' \in [Review \cup Version -> ReviewRow],
           \A r \in Review \cup Version : reviews'[r].status = "approved" =>
               \/ reviews[r].status = "approved"
               \/ AllWritten(r, items', recipeItems', stops', activated'),
           DOMAIN calls' = Manager,
           \A m \in Manager :
               \/ calls'[m] = calls[m]
               \/ CallKeepsItsWord(calls'[m], items', recipeItems', stops', activated')
    PROVE  ReviewInv'
  <1>1. ReviewsKeepTheirWord(items, recipeItems, stops, activated)'
    BY AllWrittenStays DEF ReviewInv, ReviewsKeepTheirWord
  <1>2. ASSUME NEW m \in Manager
        PROVE  CallKeepsItsWord(calls'[m], items', recipeItems', stops', activated')
    BY CallStays DEF ReviewInv
  <1> QED
    BY <1>1, <1>2 DEF ReviewInv, TablesGrow

\* A step that answers and calls nothing.
LEMMA ReviewsLeft ==
    ASSUME ReviewInv, TablesGrow, UNCHANGED <<reviews, calls>>
    PROVE  ReviewInv'
  BY ReviewsStep DEF ReviewInv

\* A step that writes one item.
LEMMA ItemsGrow ==
    ASSUME TablesStand, UNCHANGED <<recipeItems, stops, activated>>,
           NEW i \in Item, NEW row, "status" \in DOMAIN row, Exists(row),
           items' = [items EXCEPT ![i] = row]
    PROVE  TablesGrow
  <1>1. DOMAIN items' = Item /\ \A j \in Item : items'[j] = IF j = i THEN row ELSE items[j]
    BY DEF TablesStand
  <1>2. HasStatus(items)'
    BY <1>1 DEF HasStatus, TablesStand
  <1> QED
    BY <1>1, <1>2 DEF TablesGrow, TablesStand

\* A step that writes to none of the tables.
LEMMA TablesLeft ==
    ASSUME TablesStand, UNCHANGED <<items, recipeItems, stops, activated>>
    PROVE  TablesGrow
  BY DEF TablesGrow, TablesStand, HasStatus

\* An item that is archived.
LEMMA ArchiveGrows ==
    ASSUME TablesStand, UNCHANGED <<recipeItems, stops, activated>>,
           NEW a, ArchiveCatalogItem(a)
    PROVE  TablesGrow
  <1>1. PICK i \in Item : items' = [items EXCEPT ![i] = [items[i] EXCEPT !.status = "archived"]]
    BY DEF ArchiveCatalogItem, WriteItem
  <1> DEFINE row == [items[i] EXCEPT !.status = "archived"]
  <1>2. "status" \in DOMAIN row /\ row.status = "archived"
    BY DEF TablesStand, HasStatus
  <1> QED
    BY <1>1, <1>2, ItemsGrow DEF Exists

\* The catalog loses no item.
LEMMA CatalogGrows ==
    ASSUME TablesStand, UNCHANGED <<recipeItems, stops, activated>>, CatalogNext
    PROVE  TablesGrow
  <1>1. CASE CreateCatalogItem \/ UpdateCatalogItem
    <2>1. PICK i \in Item, kind \in Kinds, status \in Status,
               folder \in Folder \cup {"none"}, ticket \in Tickets :
             items' = [items EXCEPT ![i] = [status |-> status, kind |-> kind,
                                            folder |-> folder, ticket |-> ticket]]
      BY <1>1 DEF CreateCatalogItem, UpdateCatalogItem, WriteItem, Status
    <2>2. Exists([status |-> status, kind |-> kind, folder |-> folder, ticket |-> ticket])
      BY DEF Exists, Status
    <2> QED
      BY <2>1, <2>2, ItemsGrow
  <1>2. CASE ArchiveCatalogItem("catalog")
    BY <1>2, ArchiveGrows
  <1>3. ASSUME \/ UpdateRestaurant("catalog") /\ UNCHANGED catalog
               \/ CreateCatalogFolder \/ UpdateCatalogFolder
               \/ CreateFolderParameter \/ UpdateFolderParameter
               \/ CreateCatalogTag \/ UpdateCatalogTag \/ AssignCatalogItemTag
               \/ CreateCategory \/ UpdateCategory
        PROVE  UNCHANGED items
    BY <1>3 DEF catalog, CreateCatalogFolder, UpdateCatalogFolder, CreateFolderParameter,
       UpdateFolderParameter, CreateCatalogTag, UpdateCatalogTag, AssignCatalogItemTag,
       CreateCategory, UpdateCategory, Shelve
  <1>4. ASSUME \/ CreateModifierGroup \/ UpdateModifierGroup
               \/ CreateModifierOption \/ UpdateModifierOption
               \/ CreateModifierGroupBinding \/ UpdateModifierGroupBinding
               \/ CreatePricingPolicy \/ UpdatePricingPolicy
               \/ CreateMenuItem \/ UpdateMenuItem
        PROVE  UNCHANGED items
    BY <1>4 DEF CreateModifierGroup, UpdateModifierGroup, CreateModifierOption,
       UpdateModifierOption, CreateModifierGroupBinding, UpdateModifierGroupBinding,
       CreatePricingPolicy, UpdatePricingPolicy, CreateMenuItem, UpdateMenuItem,
       WriteGroup, WriteOption, WriteBinding, WritePolicy, WriteMenuItem
  <1> QED
    BY <1>1, <1>2, <1>3, <1>4, TablesLeft DEF CatalogNext

\* A call that neither approves nor writes a row back has no word to keep.
LEMMA OtherCall ==
    ASSUME NEW call, call.op \notin {"approve", "store", "assign"},
           NEW itemsNow, NEW linesNow, NEW stopsNow, NEW activatedNow
    PROVE  CallKeepsItsWord(call, itemsNow, linesNow, stopsNow, activatedNow)
  BY DEF CallKeepsItsWord

\* A step of one manager, who answers nothing.
LEMMA OneCall ==
    ASSUME ReviewInv, TablesGrow, UNCHANGED reviews,
           NEW m \in Manager, NEW call, calls' = [calls EXCEPT ![m] = call],
           CallKeepsItsWord(call, items', recipeItems', stops', activated')
    PROVE  ReviewInv'
  BY ReviewsStep DEF ReviewInv

\* A step of one manager, who writes an answer.
LEMMA OneAnswer ==
    ASSUME ReviewInv, UNCHANGED <<items, recipeItems, stops, activated>>,
           NEW r \in Review \cup Version, NEW row \in ReviewRow,
           reviews' = [reviews EXCEPT ![r] = row],
           row.status = "approved" => AllWritten(r, items, recipeItems, stops, activated),
           NEW m \in Manager, NEW call, calls' = [calls EXCEPT ![m] = call],
           call.op \notin {"approve", "store", "assign"}
    PROVE  ReviewInv'
  <1>1. TablesGrow
    BY TablesLeft DEF ReviewInv
  <1>2. CallKeepsItsWord(call, items', recipeItems', stops', activated')
    BY OtherCall
  <1> QED
    BY <1>1, <1>2, ReviewsStep, AllWrittenStays DEF ReviewInv

\* A recipe line that is written.
LEMMA LinesGrow ==
    ASSUME TablesStand, UNCHANGED <<items, stops, activated>>,
           NEW owner, NEW line, recipeItems' = WithRecipeItem(owner, line)
    PROVE  TablesGrow
  BY DEF TablesGrow, TablesStand, HasStatus, WithRecipeItem, Exists

\* An entry of the stop list that is written.
LEMMA StopsGrow ==
    ASSUME TablesStand, UNCHANGED <<items, recipeItems, activated>>,
           NEW i, NEW active, NEW quantity,
           stops' = [stops EXCEPT ![i] = [status |-> "kept", active |-> active,
                                          quantity |-> quantity]]
    PROVE  TablesGrow
  BY DEF TablesGrow, TablesStand, HasStatus, Exists

\* The commands that write recipes and stop lists.
LEMMA RecipeSteps ==
    ASSUME ReviewInv, NEW m \in Manager,
           \/ CreateRecipeItem(m) \/ UpdateRecipeItem(m) \/ CreateRecipeVersionDraft(m)
           \/ UpsertStopListEntry(m)
    PROVE  ReviewInv'
  <1> USE DEF ReviewInv
  <1>1. CASE CreateRecipeItem(m)
    <2>1. UNCHANGED <<items, stops, activated, reviews, calls>>
      BY <1>1 DEF CreateRecipeItem, catalog
    <2>2. \E owner, line : recipeItems' = WithRecipeItem(owner, line)
      BY <1>1 DEF CreateRecipeItem
    <2> QED
      BY <2>1, <2>2, LinesGrow, ReviewsLeft
  <1>2. CASE UpdateRecipeItem(m)
    <2>1. UNCHANGED <<items, stops, activated, reviews, calls>>
      BY <1>2 DEF UpdateRecipeItem, catalog
    <2>2. \E owner, line : recipeItems' = WithRecipeItem(owner, line)
      BY <1>2 DEF UpdateRecipeItem
    <2> QED
      BY <2>1, <2>2, LinesGrow, ReviewsLeft
  <1>3. CASE CreateRecipeVersionDraft(m)
    <2>1. UNCHANGED <<items, recipeItems, stops, activated, reviews, calls>>
      BY <1>3 DEF CreateRecipeVersionDraft, catalog
    <2> QED
      BY <2>1, TablesLeft, ReviewsLeft
  <1>4. CASE UpsertStopListEntry(m)
    <2>1. UNCHANGED <<items, recipeItems, activated, reviews, calls>>
      BY <1>4 DEF UpsertStopListEntry, catalog
    <2>2. PICK i \in Item, quantity \in Amount, active \in BOOLEAN :
             stops' = [stops EXCEPT ![i] = [status |-> "kept", active |-> active,
                                            quantity |-> quantity]]
      BY <1>4 DEF UpsertStopListEntry
    <2> QED
      BY <2>1, <2>2, StopsGrow, ReviewsLeft
  <1> QED
    BY <1>1, <1>2, <1>3, <1>4

\* A review that comes into the queue is pending.
LEMMA NewReviewIsPending == NewReview \in ReviewRow /\ NewReview.status = "pending"
  BY DEF NewReview, ReviewRow

\* What comes into the queue, from a kitchen or with a version, is not approved.
LEMMA QueueSteps ==
    ASSUME ReviewInv,
           \/ SuggestionArrives
           \/ \E m \in Manager : SubmitRecipeVersion(m) \/ MarkSubmitted(m)
    PROVE  ReviewInv'
  <1> USE DEF ReviewInv
  <1>1. UNCHANGED <<items, recipeItems, stops, activated>>
    BY DEF SuggestionArrives, SubmitRecipeVersion, MarkSubmitted, catalog
  <1>2. TablesGrow
    BY <1>1, TablesLeft
  <1>3. CASE SuggestionArrives
    <2>1. PICK r \in Review : reviews' = [reviews EXCEPT ![r] = NewReview]
      BY <1>3 DEF SuggestionArrives
    <2>2. UNCHANGED calls
      BY <1>3 DEF SuggestionArrives
    <2>3. /\ reviews' \in [Review \cup Version -> ReviewRow]
          /\ \A q \in Review \cup Version :
                reviews'[q].status = "approved" => reviews[q].status = "approved"
      BY <2>1, NewReviewIsPending
    <2> QED
      BY <1>2, <2>2, <2>3, ReviewsStep
  <1>4. ASSUME NEW m \in Manager, SubmitRecipeVersion(m) PROVE ReviewInv'
    <2>1. PICK v \in Version :
             /\ reviews' = IF Exists(reviews[v]) THEN reviews
                           ELSE [reviews EXCEPT ![v] = NewReview]
             /\ calls' = [calls EXCEPT ![m] = [op |-> "submit", version |-> v]]
      BY <1>4 DEF SubmitRecipeVersion, Enter
    <2>2. /\ reviews' \in [Review \cup Version -> ReviewRow]
          /\ \A q \in Review \cup Version :
                reviews'[q].status = "approved" => reviews[q].status = "approved"
      BY <2>1, NewReviewIsPending
    <2>3. CallKeepsItsWord([op |-> "submit", version |-> v],
                           items', recipeItems', stops', activated')
      BY OtherCall
    <2>4. /\ DOMAIN calls' = Manager
          /\ \A n \in Manager : n # m => calls'[n] = calls[n]
          /\ calls'[m] = [op |-> "submit", version |-> v]
      BY <2>1
    <2> QED
      BY <1>2, <2>2, <2>3, <2>4, ReviewsStep
  <1>5. ASSUME NEW m \in Manager, MarkSubmitted(m) PROVE ReviewInv'
    <2>1. UNCHANGED reviews /\ calls' = [calls EXCEPT ![m] = Idle]
      BY <1>5 DEF MarkSubmitted, End
    <2>2. CallKeepsItsWord(Idle, items', recipeItems', stops', activated')
      BY OtherCall DEF Idle
    <2> QED
      BY <1>2, <2>1, <2>2, OneCall
  <1> QED
    BY <1>3, <1>4, <1>5

\* An approval begins with all of its effects to write.
LEMMA ApproveStep ==
    ASSUME ReviewInv, NEW m \in Manager, Approve(m)
    PROVE  ReviewInv'
  <1> USE DEF ReviewInv
  <1>1. UNCHANGED <<items, recipeItems, stops, activated, reviews>>
    BY DEF Approve, catalog
  <1>2. PICK r \in Review \cup Version :
           /\ Exists(reviews[r])
           /\ calls' = [calls EXCEPT ![m] = [op |-> "approve", review |-> r,
                                             row |-> reviews[r], todo |-> Effects(r)]]
    BY DEF Approve, Enter
  <1> DEFINE call == [op |-> "approve", review |-> r, row |-> reviews[r],
                      todo |-> Effects(r)]
  <1>3. CallKeepsItsWord(call, items', recipeItems', stops', activated')
    <2>1. call \in [op : {"approve"}, review : Review \cup Version, row : ReviewRow,
                    todo : Seq(Effect)]
      BY EffectsAreSound
    <2>2. call.op = "approve" /\ call.review = r /\ call.todo = Effects(r)
          /\ call.row = reviews[r]
      OBVIOUS
    <2> HIDE DEF call
    <2> QED
      BY <1>2, <2>1, <2>2 DEF CallKeepsItsWord
  <1> HIDE DEF call
  <1> QED
    BY <1>1, <1>2, <1>3, TablesLeft, OneCall DEF call

\* A refusal and an assignment have a row to write that approves nothing.
LEMMA TurnSteps ==
    ASSUME ReviewInv, NEW m \in Manager, Turn(m) \/ Assign(m)
    PROVE  ReviewInv'
  <1> USE DEF ReviewInv
  <1>1. UNCHANGED <<items, recipeItems, stops, activated, reviews>>
    BY DEF Turn, Assign, catalog
  <1>2. CASE Turn(m)
    <2>1. PICK r \in Review \cup Version, status \in {"rejected", "changes_requested"} :
             /\ Exists(reviews[r])
             /\ calls' = [calls EXCEPT ![m] = [op |-> "store", review |-> r,
                             row |-> [reviews[r] EXCEPT !.status = status]]]
      BY <1>2 DEF Turn, Enter
    <2> DEFINE row == [reviews[r] EXCEPT !.status = status]
               call == [op |-> "store", review |-> r, row |-> row]
    <2>2. row \in ReviewRow /\ row.status # "approved"
      BY <2>1 DEF ReviewRow, Exists
    <2>3. call.op = "store" /\ call.review = r /\ call.row = row
      OBVIOUS
    <2> HIDE DEF row, call
    <2>4. CallKeepsItsWord(call, items', recipeItems', stops', activated')
      BY <2>2, <2>3 DEF CallKeepsItsWord
    <2> QED
      BY <1>1, <2>1, <2>4, TablesLeft, OneCall DEF call, row
  <1>3. CASE Assign(m)
    <2>1. PICK r \in Review, command \in CommandId, assigned \in BOOLEAN :
             /\ reviews[r].status \in {"pending", "changes_requested"}
             /\ calls' = [calls EXCEPT ![m] =
                            [op |-> "assign", review |-> r, command |-> command,
                             row |-> [reviews[r] EXCEPT !.assigned = assigned]]]
      BY <1>3 DEF Assign, Enter
    <2> DEFINE row == [reviews[r] EXCEPT !.assigned = assigned]
               call == [op |-> "assign", review |-> r, command |-> command, row |-> row]
    <2>2. row \in ReviewRow /\ row.status # "approved"
      BY <2>1 DEF ReviewRow
    <2>3. call.op = "assign" /\ call.review = r /\ call.row = row
      OBVIOUS
    <2> HIDE DEF row, call
    <2>4. CallKeepsItsWord(call, items', recipeItems', stops', activated')
      BY <2>2, <2>3 DEF CallKeepsItsWord
    <2> QED
      BY <1>1, <2>1, <2>4, TablesLeft, OneCall DEF call, row
  <1> QED
    BY <1>2, <1>3

\* The row of a refusal or of an assignment is written, the assignment is noted, or a call
\* stops.
LEMMA StoreSteps ==
    ASSUME ReviewInv, NEW m \in Manager,
           StoreReview(m) \/ StoreAssignment(m) \/ AppendAudit(m) \/ CallStops(m)
    PROVE  ReviewInv'
  <1> USE DEF ReviewInv
  <1>1. UNCHANGED <<items, recipeItems, stops, activated>>
    BY DEF StoreReview, StoreAssignment, AppendAudit, CallStops, catalog
  <1> DEFINE r == calls[m].review
             row == calls[m].row
  <1>2. CASE StoreReview(m) \/ StoreAssignment(m)
    <2>1. calls[m].op \in {"store", "assign"}
      BY <1>2 DEF StoreReview, StoreAssignment, Continue
    <2>2. r \in Review \cup Version /\ row \in ReviewRow /\ row.status # "approved"
      BY <2>1 DEF CallKeepsItsWord
    <2>3. reviews' = [reviews EXCEPT ![r] = row]
      BY <1>2 DEF StoreReview, StoreAssignment
    <2>4. \E call : /\ calls' = [calls EXCEPT ![m] = call]
                    /\ call.op \notin {"approve", "store", "assign"}
      BY <1>2 DEF StoreReview, StoreAssignment, Enter, End, Idle
    <2> HIDE DEF r, row
    <2> QED
      BY <1>1, <2>2, <2>3, <2>4, OneAnswer
  <1>3. CASE AppendAudit(m) \/ CallStops(m)
    <2>1. UNCHANGED reviews /\ calls' = [calls EXCEPT ![m] = Idle]
      BY <1>3 DEF AppendAudit, CallStops, End
    <2>2. CallKeepsItsWord(Idle, items', recipeItems', stops', activated')
      BY OtherCall DEF Idle
    <2> QED
      BY <1>1, <2>1, <2>2, TablesLeft, OneCall
  <1> QED
    BY <1>2, <1>3

\* The answer is written when nothing is left to do.
LEMMA StoreApprovalStep ==
    ASSUME ReviewInv, NEW m \in Manager, StoreApproval(m)
    PROVE  ReviewInv'
  <1> USE DEF ReviewInv
  <1> DEFINE call == calls[m]
             row == [call.row EXCEPT !.status = "approved"]
  <1>1. call.op = "approve" /\ call.todo = <<>>
    BY DEF StoreApproval, Continue
  <1>2. call \in [op : {"approve"}, review : Review \cup Version, row : ReviewRow,
                  todo : Seq(Effect)] /\ Exists(call.row)
    BY <1>1 DEF CallKeepsItsWord
  <1>3. AllWritten(call.review, items, recipeItems, stops, activated)
    BY <1>1 DEF CallKeepsItsWord, AllWritten
  <1>4. row \in ReviewRow /\ call.review \in Review \cup Version
    BY <1>2 DEF ReviewRow, Exists
  <1>5. /\ UNCHANGED <<items, recipeItems, stops, activated>>
        /\ reviews' = [reviews EXCEPT ![call.review] = row]
        /\ calls' = [calls EXCEPT ![m] = Idle]
    BY DEF StoreApproval, End, catalog
  <1>6. Idle.op \notin {"approve", "store", "assign"}
    BY DEF Idle
  <1> HIDE DEF row, call
  <1> QED
    BY <1>3, <1>4, <1>5, <1>6, OneAnswer

\* An effect the database takes is written.
LEMMA WriteWrites ==
    ASSUME ReviewInv, NEW e, IsEffect(e), Takes(e), Write(e)
    PROVE  TablesGrow /\ Effected(e, items', recipeItems', stops', activated')
  <1> USE DEF ReviewInv
  <1>1. CASE e.write = "item" /\ e.item \in Item
    <2> DEFINE row == [status |-> "published", kind |-> "dish", folder |-> "none",
                       ticket |-> NoTicket]
    <2>1. /\ items' = [items EXCEPT ![e.item] = row]
          /\ UNCHANGED <<recipeItems, stops, activated>>
      BY <1>1 DEF Write
    <2>2. "status" \in DOMAIN row /\ Exists(row)
      BY DEF Exists
    <2> HIDE DEF row
    <2>3. TablesGrow
      BY <1>1, <2>1, <2>2, ItemsGrow
    <2>4. Exists(items'[e.item])
      BY <1>1, <2>1, <2>2 DEF TablesStand
    <2> QED
      BY <1>1, <2>3, <2>4 DEF Effected
  <1>2. CASE e.write = "name" /\ e.item \in Item
    <2>1. UNCHANGED <<items, recipeItems, stops, activated>>
      BY <1>2 DEF Write
    <2>2. Exists(items[e.item])
      BY <1>2 DEF Takes
    <2> QED
      BY <1>2, <2>1, <2>2, TablesLeft DEF Effected
  <1>3. CASE e.write = "stop" /\ e.item \in Item
    <2>1. /\ UNCHANGED <<items, recipeItems, activated>>
          /\ stops' = [stops EXCEPT ![e.item] = [status |-> "kept", active |-> e.active,
                                                 quantity |-> e.quantity]]
      BY <1>3 DEF Write
    <2>2. Exists(stops'[e.item])
      BY <1>3, <2>1 DEF Exists, TablesStand
    <2> QED
      BY <1>3, <2>1, <2>2, StopsGrow DEF Effected
  <1>4. CASE e.write = "version"
    <2>1. /\ UNCHANGED <<items, recipeItems, stops>>
          /\ activated' = activated \cup {e.version}
      BY <1>4 DEF Write
    <2> QED
      BY <1>4, <2>1 DEF Effected, TablesGrow, TablesStand, HasStatus
  <1>5. CASE e.write = "line" /\ e.owner \in Item /\ e.line.component \in Item
    <2>1. /\ UNCHANGED <<items, stops, activated>>
          /\ recipeItems' = WithRecipeItem(e.owner, e.line)
      BY <1>5 DEF Write
    <2>2. Exists(recipeItems'[<<e.owner, e.line.component>>])
      BY <1>5, <2>1 DEF Exists, TablesStand, WithRecipeItem
    <2> QED
      BY <1>5, <2>1, <2>2, LinesGrow DEF Effected
  <1> QED
    BY <1>1, <1>2, <1>3, <1>4, <1>5 DEF IsEffect, RecipeLine

\* What is in a sequence is its head or in its tail.
LEMMA HeadOrTail ==
    ASSUME NEW S, NEW todo \in Seq(S), todo # <<>>
    PROVE  /\ Head(todo) \in S /\ Tail(todo) \in Seq(S)
           /\ \E k \in DOMAIN todo : todo[k] = Head(todo)
           /\ \A k \in DOMAIN todo : \/ todo[k] = Head(todo)
                                     \/ \E j \in DOMAIN Tail(todo) : Tail(todo)[j] = todo[k]
           /\ \A j \in DOMAIN Tail(todo) : \E k \in DOMAIN todo : todo[k] = Tail(todo)[j]
  <1>1. Len(todo) \in Nat /\ Len(todo) > 0 /\ DOMAIN todo = 1..Len(todo)
    BY EmptySeq, LenProperties
  <1>2. /\ Head(todo) = todo[1] /\ Tail(todo) \in Seq(S)
        /\ Len(Tail(todo)) = Len(todo) - 1
        /\ \A j \in 1..(Len(todo) - 1) : Tail(todo)[j] = todo[j + 1]
    BY <1>1, HeadTailProperties
  <1>3. DOMAIN Tail(todo) = 1..(Len(todo) - 1)
    BY <1>2, LenProperties
  <1>4. todo[1] \in S
    BY <1>1, ElementOfSeq
  <1>5. ASSUME NEW k \in DOMAIN todo, k # 1
        PROVE  \E j \in DOMAIN Tail(todo) : Tail(todo)[j] = todo[k]
    <2>1. k - 1 \in 1..(Len(todo) - 1) /\ (k - 1) + 1 = k
      BY <1>1, <1>5
    <2> QED
      BY <1>2, <1>3, <2>1
  <1>6. ASSUME NEW j \in DOMAIN Tail(todo)
        PROVE  \E k \in DOMAIN todo : todo[k] = Tail(todo)[j]
    <2>1. j + 1 \in DOMAIN todo
      BY <1>1, <1>3
    <2> QED
      BY <1>2, <1>3, <2>1
  <1>7. 1 \in DOMAIN todo
    BY <1>1
  <1> QED
    BY <1>2, <1>4, <1>5, <1>6, <1>7

\* The next effect of an approval is one, and is written if the database takes it.
LEMMA NextEffect ==
    ASSUME ReviewInv, NEW m \in Manager, ApplyNext(m)
    PROVE  LET e == Head(calls[m].todo)
           IN  /\ calls[m].op = "approve" /\ calls[m].todo # <<>>
               /\ calls[m].todo \in Seq(Effect) /\ IsEffect(e)
               /\ \/ UNCHANGED <<items, recipeItems, versions, activated, stops>> /\ End(m)
                  \/ /\ Takes(e) /\ Write(e)
                     /\ Enter(m, [calls[m] EXCEPT !.todo = Tail(@)])
  <1> DEFINE e == Head(calls[m].todo)
  <1>1. calls[m].op = "approve" /\ calls[m].todo # <<>>
    BY DEF ApplyNext, Continue
  <1>2. calls[m].todo \in Seq(Effect)
    BY <1>1 DEF ReviewInv, CallKeepsItsWord
  <1>3. IsEffect(e)
    <2>1. e \in Effect
      BY <1>1, <1>2, HeadOrTail
    <2>2. PICK r \in Review \cup Version : e \in Range(Effects(r))
      BY <2>1 DEF Effect
    <2> QED
      BY <2>2, EffectsAreSound DEF Range
  <1>4. \/ UNCHANGED <<items, recipeItems, versions, activated, stops>> /\ End(m)
        \/ Takes(e) /\ Write(e) /\ Enter(m, [calls[m] EXCEPT !.todo = Tail(@)])
    BY DEF ApplyNext
  <1> QED
    BY <1>1, <1>2, <1>3, <1>4

\* An effect is written, and the call has the rest to do; or it ends where it is refused.
LEMMA ApplyNextStep ==
    ASSUME ReviewInv, NEW m \in Manager, ApplyNext(m)
    PROVE  ReviewInv'
  <1> USE DEF ReviewInv
  <1> DEFINE call == calls[m]
             e == Head(call.todo)
             next == [call EXCEPT !.todo = Tail(@)]
  <1>1. call.op = "approve" /\ call.todo # <<>> /\ UNCHANGED reviews
    BY DEF ApplyNext, Continue
  <1>2. CASE ~Takes(e)
    <2>1. UNCHANGED <<items, recipeItems, stops, activated>>
      BY <1>2 DEF ApplyNext
    <2>2. calls' = [calls EXCEPT ![m] = Idle]
      BY <1>2 DEF ApplyNext, End
    <2>3. CallKeepsItsWord(Idle, items', recipeItems', stops', activated')
      BY OtherCall DEF Idle
    <2> QED
      BY <1>1, <2>1, <2>2, <2>3, TablesLeft, OneCall
  <1>3. CASE Takes(e)
    <2>1. Write(e) /\ calls' = [calls EXCEPT ![m] = next]
      BY <1>3 DEF ApplyNext, Enter
    <2>2. /\ call \in [op : {"approve"}, review : Review \cup Version, row : ReviewRow,
                       todo : Seq(Effect)]
          /\ Exists(call.row)
      BY <1>1 DEF CallKeepsItsWord
    <2>3. Tail(call.todo) \in Seq(Effect)
      BY <1>1, <2>2, HeadOrTail
    <2>4. IsEffect(e)
      BY NextEffect
    <2>5. TablesGrow /\ Effected(e, items', recipeItems', stops', activated')
      BY <1>3, <2>1, <2>4, WriteWrites
    <2>6. /\ next \in [op : {"approve"}, review : Review \cup Version, row : ReviewRow,
                       todo : Seq(Effect)]
          /\ next.review = call.review /\ next.row = call.row
          /\ next.todo = Tail(call.todo) /\ next.op = "approve"
      BY <2>2, <2>3
    <2>7. ASSUME NEW n \in DOMAIN Effects(call.review)
          PROVE  \/ Effected(Effects(call.review)[n], items', recipeItems', stops', activated')
                 \/ \E k \in DOMAIN next.todo : next.todo[k] = Effects(call.review)[n]
      <3>1. IsEffect(Effects(call.review)[n])
        BY <2>2, EffectsAreSound
      <3>2. CASE Effected(Effects(call.review)[n], items, recipeItems, stops, activated)
        BY <2>5, <3>1, <3>2, WrittenStays
      <3>3. CASE \E k \in DOMAIN call.todo : call.todo[k] = Effects(call.review)[n]
        <4>1. PICK k \in DOMAIN call.todo : call.todo[k] = Effects(call.review)[n]
          BY <3>3
        <4>2. \/ call.todo[k] = e
              \/ \E j \in DOMAIN Tail(call.todo) : Tail(call.todo)[j] = call.todo[k]
          BY <1>1, <2>2, HeadOrTail
        <4> QED
          BY <2>5, <2>6, <4>1, <4>2
      <3> QED
        BY <1>1, <3>2, <3>3 DEF CallKeepsItsWord
    <2> HIDE DEF next, call, e
    <2>8. CallKeepsItsWord(next, items', recipeItems', stops', activated')
      BY <2>2, <2>6, <2>7 DEF CallKeepsItsWord
    <2> QED
      BY <1>1, <2>1, <2>5, <2>8, OneCall
  <1> QED
    BY <1>2, <1>3

\* Every step of the area of recipes keeps the invariant.
LEMMA RecipesStep == ASSUME ReviewInv, RecipesNext PROVE ReviewInv'
  <1>1. CASE ArchiveCatalogItem("recipes") /\ UNCHANGED recipes
    <2>1. UNCHANGED <<recipeItems, stops, activated, reviews, calls>>
      BY <1>1 DEF recipes
    <2> QED
      BY <1>1, <2>1, ArchiveGrows, ReviewsLeft DEF ReviewInv
  <1>2. CASE SuggestionArrives
    BY <1>2, QueueSteps
  <1>3. ASSUME NEW m \in Manager,
               \/ CreateRecipeItem(m) \/ UpdateRecipeItem(m)
               \/ CreateRecipeVersionDraft(m) \/ SubmitRecipeVersion(m) \/ MarkSubmitted(m)
               \/ UpsertStopListEntry(m)
               \/ Approve(m) \/ ApplyNext(m) \/ StoreApproval(m)
               \/ Turn(m) \/ StoreReview(m)
               \/ Assign(m) \/ StoreAssignment(m) \/ AppendAudit(m)
               \/ CallStops(m)
        PROVE  ReviewInv'
    BY <1>3, RecipeSteps, QueueSteps, ApproveStep, ApplyNextStep, StoreApprovalStep,
       TurnSteps, StoreSteps
  <1> QED
    BY <1>1, <1>2, <1>3 DEF RecipesNext

\* So does every step of the tenant.
LEMMA ReviewsKeep == ASSUME ReviewInv, [Next]_vars PROVE ReviewInv'
  <1>1. CASE InRecipes(RecipesNext)
    BY <1>1, RecipesStep DEF InRecipes
  <1>2. CASE InCatalog(CatalogNext)
    <2>1. UNCHANGED <<recipeItems, stops, activated, reviews, calls>>
      BY <1>2 DEF InCatalog, recipes
    <2> QED
      BY <1>2, <2>1, CatalogGrows, ReviewsLeft DEF InCatalog, ReviewInv
  <1>3. ASSUME UNCHANGED <<catalog, recipes>> PROVE ReviewInv'
    <2>1. UNCHANGED <<items, recipeItems, stops, activated, reviews, calls>>
      BY <1>3 DEF catalog, recipes
    <2> QED
      BY <2>1, TablesLeft, ReviewsLeft DEF ReviewInv
  <1> QED
    BY <1>1, <1>2, <1>3
    DEF Next, vars, InFloor, InStaff, InPrint, InDelivery, InMessages

\* It holds before anything is proposed.
LEMMA ReviewsStart == ASSUME Init PROVE ReviewInv
  <1>1. /\ items = [i \in Item |->
                      IF FirstItems[i] = "none" THEN None
                      ELSE [status |-> "published", kind |-> FirstItems[i],
                            folder |-> "none", ticket |-> NoTicket]]
        /\ recipeItems = [pair \in Item \X Item |-> None]
        /\ stops = [i \in Item |-> None]
        /\ reviews = [r \in Review \cup Version |-> None]
        /\ calls = [m \in Manager |-> Idle]
    BY DEF Init, CatalogInit, RecipesInit
  <1>2. TablesStand
    BY <1>1 DEF TablesStand, HasStatus, None
  <1>3. None \in ReviewRow /\ None.status # "approved"
    BY DEF None, ReviewRow
  <1>4. CallKeepsItsWord(Idle, items, recipeItems, stops, activated)
    BY OtherCall DEF Idle
  <1> QED
    BY <1>1, <1>2, <1>3, <1>4 DEF ReviewInv, ReviewsKeepTheirWord

\* The kitchen is told that a proposal is approved only when the whole of it was written,
\* whoever answers a review at the same time, and wherever a call stops.
THEOREM ApprovedIsApplied == Spec => []ApprovedReviewsAreApplied
  <1>1. ASSUME ReviewInv PROVE ApprovedReviewsAreApplied
    BY <1>1, WrittenIsApplied DEF ReviewInv, ReviewsKeepTheirWord, ApprovedReviewsAreApplied
  <1> QED
    BY <1>1, ReviewsStart, ReviewsKeep, PTL DEF Spec

-----------------------------------------------------------------------------
(* The floor: rows as the Edge takes them, and a place to sell.            *)

SectionRow ==
    {None} \cup
    [status : {"kept"}, mode : {"hall_section", "kitchen_workshop"},
     hall : Hall \cup {"none"}, routed : BOOLEAN, default : BOOLEAN, active : BOOLEAN]
TableRow ==
    {None} \cup
    [status : Status, hall : Hall \cup {"none"}, section : Section, default : BOOLEAN]
KeptPoint == [status : {"kept"}, table : Table, active : BOOLEAN]
PointRow == {None} \cup KeptPoint

\* What a command of the floor may be going to write.
FloorTable == {"halls", "sections", "tables", "points"}
FloorId == Hall \cup Section \cup Table \cup Point
FloorCall ==
    [table : FloorTable, id : FloorId, row : Status \cup SectionRow \cup TableRow \cup PointRow,
     missed : SUBSET (FloorTable \X FloorId)]
\* A call that has missed no sales point leaves one to sell at, if there is one.
KeepsAPlace(c) ==
    MissedPoints(c) = {} /\ ActivePoints # {} =>
        c.row.active \/ \E p \in ActivePoints : p # c.id
SoundFloorCall(c) ==
    /\ c \in FloorCall
    /\ c.table = "sections" =>
          c.id \in Section /\ c.row \in SectionRow /\ StoredSection(c.row)
    /\ c.table = "tables" => c.id \in Table /\ c.row \in TableRow
    /\ c.table = "points" => c.id \in Point /\ c.row \in KeptPoint /\ KeepsAPlace(c)

FloorInv ==
    /\ sections \in [Section -> SectionRow]
    /\ \A s \in Section : Exists(sections[s]) => StoredSection(sections[s])
    /\ tables \in [Table -> TableRow]
    /\ points \in [Point -> PointRow]
    /\ \A c \in floorCalls : SoundFloorCall(c)

\* A row that is there has all of its columns.
LEMMA FloorColumns ==
    /\ \A row \in SectionRow : Exists(row) =>
          row \in [status : {"kept"}, mode : {"hall_section", "kitchen_workshop"},
                   hall : Hall \cup {"none"}, routed : BOOLEAN, default : BOOLEAN,
                   active : BOOLEAN]
    /\ \A row \in TableRow : Exists(row) =>
          row \in [status : Status, hall : Hall \cup {"none"}, section : Section,
                   default : BOOLEAN]
    /\ \A row \in PointRow : Exists(row) => row \in KeptPoint
  BY DEF SectionRow, TableRow, PointRow, KeptPoint, Exists, None

\* A set with more than one member has another one.
LEMMA AnotherOne ==
    ASSUME NEW S, Cardinality(S) > 1, NEW x
    PROVE  \E y \in S : y # x
  <1>1. SUFFICES ASSUME \A y \in S : y = x PROVE FALSE
    OBVIOUS
  <1>2. S = {} \/ S = {x}
    BY <1>1
  <1>3. Cardinality({}) = 0 /\ Cardinality({x}) = 1
    BY FS_EmptySet, FS_Singleton
  <1> QED
    BY <1>2, <1>3

\* Calls are as sound as they were while the sales points stay.
LEMMA SoundFloorCallStays ==
    ASSUME NEW c, SoundFloorCall(c), UNCHANGED points PROVE SoundFloorCall(c)'
  <1>1. ActivePoints' = ActivePoints
    BY DEF ActivePoints
  <1> QED
    BY <1>1 DEF SoundFloorCall, KeepsAPlace

\* A command settles on a row.
LEMMA FloorSettles ==
    ASSUME FloorInv, NEW table, NEW id, NEW row, Settle(table, id, row),
           SoundFloorCall(Intent(table, id, row))
    PROVE  FloorInv'
  <1>1. UNCHANGED <<sections, tables, points>>
    BY DEF Settle
  <1>2. ASSUME NEW c \in floorCalls' PROVE SoundFloorCall(c)'
    BY <1>1, <1>2, SoundFloorCallStays DEF Settle, FloorInv
  <1> QED
    BY <1>1, <1>2 DEF FloorInv

\* The columns of what a command is going to write, which has missed nothing yet.
LEMMA IntentColumns ==
    ASSUME NEW table \in FloorTable, NEW id \in FloorId,
           NEW row \in Status \cup SectionRow \cup TableRow \cup PointRow
    PROVE  /\ Intent(table, id, row) \in FloorCall
           /\ Intent(table, id, row).table = table /\ Intent(table, id, row).id = id
           /\ Intent(table, id, row).row = row /\ Intent(table, id, row).missed = {}
  BY DEF Intent, FloorCall

\* A command settles on a hall.
LEMMA SettledHall ==
    ASSUME FloorInv, NEW h \in Hall, NEW row \in Status, Settle("halls", h, row)
    PROVE  FloorInv'
  BY IntentColumns, FloorSettles DEF SoundFloorCall, FloorTable, FloorId
\* A section, if the database takes the row.
LEMMA SettledSection ==
    ASSUME FloorInv, NEW s \in Section, NEW row \in SectionRow, SettleSection(s, row)
    PROVE  FloorInv'
  BY IntentColumns, FloorSettles DEF SettleSection, SoundFloorCall, FloorTable, FloorId
\* A table.
LEMMA SettledTable ==
    ASSUME FloorInv, NEW t \in Table, NEW row \in TableRow, Settle("tables", t, row)
    PROVE  FloorInv'
  BY IntentColumns, FloorSettles DEF SoundFloorCall, FloorTable, FloorId
\* A sales point that is active, or not the only one that is.
LEMMA SettledPoint ==
    ASSUME FloorInv, NEW p \in Point, NEW row \in KeptPoint, Settle("points", p, row),
           ActivePoints # {} => row.active \/ \E q \in ActivePoints : q # p
    PROVE  FloorInv'
  <1>1. SoundFloorCall(Intent("points", p, row))
    BY IntentColumns DEF SoundFloorCall, KeepsAPlace, FloorTable, FloorId, PointRow
  <1> QED
    BY <1>1, FloorSettles

\* A call that is left behind is the call it was, and has missed the row.
LEMMA BehindIs ==
    ASSUME NEW call, NEW c \in LeftBehind(floorCalls, call), FloorInv, call \in floorCalls
    PROVE  \E b \in floorCalls :
              /\ c \in FloorCall
              /\ c.table = b.table /\ c.id = b.id /\ c.row = b.row
              /\ c.missed = b.missed \cup {<<call.table, call.id>>}
  <1>1. PICK b \in floorCalls :
           c = [b EXCEPT !.missed = b.missed \cup {<<call.table, call.id>>}]
    BY DEF LeftBehind
  <1>2. b \in FloorCall /\ call \in FloorCall
    BY DEF FloorInv, SoundFloorCall
  <1>3. <<call.table, call.id>> \in FloorTable \X FloorId
    BY <1>2 DEF FloorCall
  <1> QED
    BY <1>1, <1>2, <1>3 DEF FloorCall

\* A row is written: the calls that are left behind stay sound, since those that rely on a
\* sales point have missed the one that was written.
LEMMA FloorWrites ==
    ASSUME FloorInv, NEW call \in floorCalls, WriteFloor(call)
    PROVE  /\ FloorInv'
           /\ ActivePoints # {} /\ ActivePoints' = {} => MissedPoints(call) # {}
  <1>1. SoundFloorCall(call) /\ call \in FloorCall
    BY DEF FloorInv, SoundFloorCall
  <1>2. /\ sections' \in [Section -> SectionRow]
        /\ \A s \in Section : Exists(sections'[s]) => StoredSection(sections'[s])
    BY <1>1 DEF WriteFloor, FloorInv, SoundFloorCall
  <1>3. tables' \in [Table -> TableRow]
    BY <1>1 DEF WriteFloor, FloorInv, SoundFloorCall
  <1>4. points' \in [Point -> PointRow]
    BY <1>1 DEF WriteFloor, FloorInv, SoundFloorCall, PointRow
  <1>5. ASSUME NEW c \in floorCalls' PROVE SoundFloorCall(c)'
    <2>1. PICK b \in floorCalls :
             /\ c \in FloorCall
             /\ c.table = b.table /\ c.id = b.id /\ c.row = b.row
             /\ c.missed = b.missed \cup {<<call.table, call.id>>}
      BY BehindIs DEF WriteFloor
    <2>2. SoundFloorCall(b)
      BY DEF FloorInv
    <2>3. ASSUME c.table = "points" PROVE KeepsAPlace(c)'
      <3>1. CASE call.table = "points"
        <4>1. call.id \in Point /\ <<"points", call.id>> \in c.missed
          BY <1>1, <2>1, <3>1 DEF SoundFloorCall
        <4> QED
          BY <4>1 DEF KeepsAPlace, MissedPoints
      <3>2. CASE call.table # "points"
        <4>1. ActivePoints' = ActivePoints
          BY <3>2 DEF WriteFloor, ActivePoints
        <4>2. MissedPoints(c) = {} => MissedPoints(b) = {}
          BY <2>1 DEF MissedPoints
        <4> QED
          BY <2>1, <2>2, <2>3, <4>1, <4>2 DEF KeepsAPlace, SoundFloorCall
      <3> QED
        BY <3>1, <3>2
    <2> QED
      BY <2>1, <2>2, <2>3 DEF SoundFloorCall
  <1>6. ASSUME ActivePoints # {}, ActivePoints' = {} PROVE MissedPoints(call) # {}
    <2>1. call.table = "points" /\ points' = [points EXCEPT ![call.id] = call.row]
      BY <1>6 DEF WriteFloor, ActivePoints
    <2>2. call.id \in Point /\ call.row \in KeptPoint /\ KeepsAPlace(call)
      BY <1>1, <2>1 DEF SoundFloorCall
    <2>3. ~call.row.active
      BY <1>6, <2>1, <2>2 DEF ActivePoints, KeptPoint, Exists, FloorInv
    <2>4. \A q \in ActivePoints : q = call.id
      BY <1>6, <2>1 DEF ActivePoints, FloorInv
    <2> QED
      BY <1>6, <2>2, <2>3, <2>4 DEF KeepsAPlace
  <1> QED
    BY <1>2, <1>3, <1>4, <1>5, <1>6 DEF FloorInv

\* The restaurant comes with a section and a table, or without.
LEMMA RestaurantStep == ASSUME FloorInv, CreateRestaurant PROVE FloorInv'
  <1> DEFINE section == [status |-> "kept", mode |-> "hall_section", hall |-> "none",
                         routed |-> FALSE, default |-> TRUE, active |-> TRUE]
             table == [status |-> "published", hall |-> "none", section |-> FirstSection,
                       default |-> TRUE]
  <1>1. PICK written \in 0..2 :
           /\ sections' = IF written = 0 THEN sections
                          ELSE [sections EXCEPT ![FirstSection] = section]
           /\ tables' = IF written < 2 THEN tables
                        ELSE [tables EXCEPT ![FirstTable] = table]
    BY DEF CreateRestaurant
  <1>2. section \in SectionRow /\ StoredSection(section)
    BY DEF SectionRow, StoredSection
  <1>3. table \in TableRow
    BY CloudFloorAssumption DEF TableRow, Status
  <1> HIDE DEF section, table
  <1>4. sections' = sections \/ sections' = [sections EXCEPT ![FirstSection] = section]
    BY <1>1
  <1>5. tables' = tables \/ tables' = [tables EXCEPT ![FirstTable] = table]
    BY <1>1
  <1>6. /\ sections' \in [Section -> SectionRow]
        /\ \A s \in Section : Exists(sections'[s]) => StoredSection(sections'[s])
    BY <1>2, <1>4, CloudFloorAssumption DEF FloorInv
  <1>7. tables' \in [Table -> TableRow]
    BY <1>3, <1>5, CloudFloorAssumption DEF FloorInv
  <1>8. UNCHANGED <<points, floorCalls>>
    BY DEF CreateRestaurant
  <1> QED
    BY <1>6, <1>7, <1>8, SoundFloorCallStays DEF FloorInv

\* A hall is made or changed.
LEMMA HallSteps == ASSUME FloorInv, CreateHall \/ UpdateHall PROVE FloorInv'
  BY SettledHall DEF CreateHall, UpdateHall, Status

\* A section is made or changed.
LEMMA SectionSteps ==
    ASSUME FloorInv, CreateRestaurantSection \/ UpdateRestaurantSection
    PROVE  FloorInv'
  <1>0. OfferedHalls \subseteq Hall
    BY DEF OfferedHalls
  <1>1. CASE CreateRestaurantSection
    <2>1. PICK s \in Section \ {FirstSection}, mode \in {"hall_section", "kitchen_workshop"},
               h \in OfferedHalls \cup {"none"}, known \in BOOLEAN :
             SettleSection(s, [status |-> "kept", mode |-> mode, hall |-> h,
                               routed |-> known, default |-> FALSE, active |-> FALSE])
      BY <1>1 DEF CreateRestaurantSection
    <2>2. [status |-> "kept", mode |-> mode, hall |-> h, routed |-> known,
           default |-> FALSE, active |-> FALSE] \in SectionRow
      BY <1>0 DEF SectionRow
    <2> QED
      BY <2>1, <2>2, SettledSection
  <1>2. CASE UpdateRestaurantSection
    <2>1. PICK s \in Section : /\ Exists(sections[s])
             /\ \E mode \in {"hall_section", "kitchen_workshop"},
                   h \in OfferedHalls \cup {"none", sections[s].hall}, known \in BOOLEAN,
                   given \in {<<>>, <<TRUE>>, <<FALSE>>} :
                   LET row == [sections[s] EXCEPT !.mode = mode, !.hall = h,
                                  !.routed = known,
                                  !.active = IF given = <<>> THEN @ ELSE given[1]]
                   IN  /\ given = <<FALSE>> =>
                             ~row.default /\ ~SectionUsedBySalesPoint(s)
                       /\ given = <<TRUE>> /\ mode = "hall_section" =>
                             SectionHasActiveTable(s)
                       /\ SettleSection(s, row)
      BY <1>2 DEF UpdateRestaurantSection
    <2>2. PICK mode \in {"hall_section", "kitchen_workshop"},
               h \in OfferedHalls \cup {"none", sections[s].hall}, known \in BOOLEAN,
               given \in {<<>>, <<TRUE>>, <<FALSE>>} :
             SettleSection(s, [sections[s] EXCEPT !.mode = mode, !.hall = h,
                                  !.routed = known,
                                  !.active = IF given = <<>> THEN @ ELSE given[1]])
      BY <2>1
    <2>3. sections[s] \in
              [status : {"kept"}, mode : {"hall_section", "kitchen_workshop"},
               hall : Hall \cup {"none"}, routed : BOOLEAN, default : BOOLEAN,
               active : BOOLEAN]
      BY <2>1, FloorColumns DEF FloorInv
    <2> DEFINE active == IF given = <<>> THEN sections[s].active ELSE given[1]
    <2>4. active \in BOOLEAN
      <3>1. CASE given = <<>>
        BY <2>3, <3>1
      <3>2. CASE given = <<TRUE>>
        BY <3>2
      <3>3. CASE given = <<FALSE>>
        BY <3>3
      <3> QED
        BY <3>1, <3>2, <3>3
    <2> DEFINE row == [sections[s] EXCEPT !.mode = mode, !.hall = h, !.routed = known,
                                          !.active = active]
    <2>5. SettleSection(s, row)
      BY <2>2
    <2> HIDE DEF active
    <2>6. row \in [status : {"kept"}, mode : {"hall_section", "kitchen_workshop"},
                   hall : Hall \cup {"none"}, routed : BOOLEAN, default : BOOLEAN,
                   active : BOOLEAN]
      BY <1>0, <2>3, <2>4
    <2> HIDE DEF row
    <2> QED
      BY <2>5, <2>6, SettledSection DEF SectionRow
  <1> QED
    BY <1>1, <1>2

\* A table is made or changed.
LEMMA TableSteps == ASSUME FloorInv, CreateTable \/ UpdateTable PROVE FloorInv'
  <1>0. OfferedHalls \subseteq Hall /\ OfferedSections \subseteq Section
    BY DEF OfferedHalls, OfferedSections
  <1>1. CASE CreateTable
    <2>1. PICK t \in Table, h \in OfferedHalls \cup {"none"}, s \in OfferedSections :
             Settle("tables", t, [status |-> "published", hall |-> h, section |-> s,
                                  default |-> FALSE])
      BY <1>1 DEF CreateTable
    <2>2. [status |-> "published", hall |-> h, section |-> s, default |-> FALSE] \in TableRow
      BY <1>0 DEF TableRow, Status
    <2> QED
      BY <2>1, <2>2, SettledTable
  <1>2. CASE UpdateTable
    <2>1. PICK t \in Table : /\ Exists(tables[t])
             /\ \E h \in OfferedHalls \cup {tables[t].hall},
                   s \in OfferedSections \cup {tables[t].section}, status \in Status :
                   Settle("tables", t, [tables[t] EXCEPT !.hall = h, !.section = s,
                                                        !.status = status])
      BY <1>2 DEF UpdateTable
    <2>2. tables[t] \in [status : Status, hall : Hall \cup {"none"}, section : Section,
                         default : BOOLEAN]
      BY <2>1, FloorColumns DEF FloorInv
    <2>3. PICK h \in OfferedHalls \cup {tables[t].hall},
               s \in OfferedSections \cup {tables[t].section}, status \in Status :
             Settle("tables", t,
                    [tables[t] EXCEPT !.hall = h, !.section = s, !.status = status])
      BY <2>1
    <2>4. [tables[t] EXCEPT !.hall = h, !.section = s, !.status = status] \in TableRow
      BY <1>0, <2>2 DEF TableRow
    <2> QED
      BY <2>3, <2>4, SettledTable
  <1> QED
    BY <1>1, <1>2

\* A point is made active, or changed while another one is active.
LEMMA PointSteps == ASSUME FloorInv, CreateSalesPoint \/ UpdateSalesPoint PROVE FloorInv'
  <1>1. OfferedTables \subseteq Table
    BY DEF OfferedTables
  <1>2. CASE CreateSalesPoint
    <2>1. PICK p \in Point, t \in OfferedTables :
             Settle("points", p, [status |-> "kept", table |-> t, active |-> TRUE])
      BY <1>2 DEF CreateSalesPoint
    <2> DEFINE row == [status |-> "kept", table |-> t, active |-> TRUE]
    <2>2. row \in KeptPoint /\ row.active
      BY <1>1 DEF KeptPoint
    <2> HIDE DEF row
    <2> QED
      BY <2>1, <2>2, SettledPoint DEF row
  <1>3. CASE UpdateSalesPoint
    <2>1. PICK p \in Point : /\ Exists(points[p])
             /\ \E t \in OfferedTables \cup {points[p].table}, active \in BOOLEAN :
                   /\ points[p].active /\ ~active => Cardinality(ActivePoints) > 1
                   /\ Settle("points", p,
                             [points[p] EXCEPT !.table = t, !.active = active])
      BY <1>3 DEF UpdateSalesPoint
    <2>2. PICK t \in OfferedTables \cup {points[p].table}, active \in BOOLEAN :
             /\ points[p].active /\ ~active => Cardinality(ActivePoints) > 1
             /\ Settle("points", p, [points[p] EXCEPT !.table = t, !.active = active])
      BY <2>1
    <2>3. points[p] \in KeptPoint
      BY <2>1, FloorColumns DEF FloorInv
    <2> DEFINE row == [points[p] EXCEPT !.table = t, !.active = active]
    <2>4. row \in KeptPoint /\ row.active = active
      BY <1>1, <2>3 DEF KeptPoint
    <2>5. ASSUME ~active, ActivePoints # {} PROVE \E q \in ActivePoints : q # p
      <3>1. CASE points[p].active
        BY <2>2, <2>5, <3>1, AnotherOne
      <3>2. CASE ~points[p].active
        BY <2>5, <3>2 DEF ActivePoints
      <3> QED
        BY <3>1, <3>2
    <2>6. Settle("points", p, row)
      BY <2>2
    <2> HIDE DEF row
    <2> QED
      BY <2>4, <2>5, <2>6, SettledPoint
  <1> QED
    BY <1>2, <1>3

\* Every step of the tenant keeps the floor; and the last place to sell goes only with a
\* call that has missed a sales point.
LEMMA FloorKeeps ==
    ASSUME FloorInv, [Next]_vars
    PROVE  /\ FloorInv'
           /\ ActivePoints # {} /\ ActivePoints' = {} =>
                 \E call \in floorCalls : WriteFloor(call) /\ MissedPoints(call) # {}
  <1>1. ASSUME UNCHANGED floor PROVE FloorInv'
    BY <1>1, SoundFloorCallStays DEF FloorInv, floor
  <1>2. CASE \E call \in floorCalls : WriteFloor(call)
    BY <1>2, FloorWrites
  <1>3. ASSUME FloorNext, ~\E call \in floorCalls : WriteFloor(call)
        PROVE  FloorInv'
    BY <1>1, <1>3, RestaurantStep, HallSteps, SectionSteps, TableSteps, PointSteps
    DEF FloorNext
  <1>4. ASSUME FloorNext, ~\E call \in floorCalls : WriteFloor(call)
        PROVE  UNCHANGED points
    <2>1. ASSUME NEW t, NEW i, NEW row, Settle(t, i, row) PROVE UNCHANGED points
      BY <2>1 DEF Settle
    <2>2. CreateHall \/ UpdateHall => \E t, i, row : Settle(t, i, row)
      BY Zenon DEF CreateHall, UpdateHall
    <2>3. CreateTable \/ UpdateTable => \E t, i, row : Settle(t, i, row)
      BY Zenon DEF CreateTable, UpdateTable
    <2>4. CreateRestaurantSection => \E t, i, row : Settle(t, i, row)
      BY Zenon DEF CreateRestaurantSection, SettleSection
    <2>5. UpdateRestaurantSection => \E t, i, row : Settle(t, i, row)
      BY Zenon DEF UpdateRestaurantSection, SettleSection
    <2>6. CreateSalesPoint \/ UpdateSalesPoint => \E t, i, row : Settle(t, i, row)
      BY Zenon DEF CreateSalesPoint, UpdateSalesPoint
    <2>7. CreateRestaurant => UNCHANGED points
      BY DEF CreateRestaurant
    <2> QED
      BY <1>4, <2>1, <2>2, <2>3, <2>4, <2>5, <2>6, <2>7 DEF FloorNext, floor
  <1>5. UNCHANGED points => ActivePoints' = ActivePoints
    BY DEF ActivePoints
  <1>6. FloorNext \/ UNCHANGED floor
    BY DEF Next, vars, InFloor, InStaff, InCatalog, InRecipes, InPrint, InDelivery, InMessages
  <1>7. UNCHANGED floor => UNCHANGED points
    BY DEF floor
  <1> QED
    BY <1>1, <1>2, <1>3, <1>4, <1>5, <1>6, <1>7

-----------------------------------------------------------------------------
(* The staff: a place to work.                                             *)

KeptRole == [status : {"active", "archived"}, manages : BOOLEAN]
RoleRow == {None} \cup KeptRole
KeptEmployee ==
    [status : {"active", "suspended", "archived"}, role : Role, at : SUBSET Restaurant,
     pin : Pin]
EmployeeRow == {None} \cup KeptEmployee

StaffTable == {"roles", "employees"}
StaffCall ==
    [table : StaffTable, id : Role \cup Employee, row : KeptRole \cup KeptEmployee,
     missed : SUBSET (StaffTable \X (Role \cup Employee))]
\* A role that does not manage has nobody without a restaurant, but those the call missed.
RoleIsFree(c) ==
    c.row.manages \/ \A e \in Unbound(c.id) : <<"employees", e>> \in c.missed
\* The row has a scope, or the employee has none as it is, but for what the call missed.
RowHasScope(c) ==
    \/ <<"employees", c.id>> \in c.missed \/ <<"roles", c.row.role>> \in c.missed
    \/ c.row.status = "archived" \/ c.row.at # {} \/ roles[c.row.role].manages
    \/ c.id \in Stranded /\ employees[c.id].role = c.row.role
SoundStaffCall(c) ==
    /\ c \in StaffCall
    /\ c.table = "roles" =>
          c.id \in Role /\ c.row \in KeptRole /\ Exists(roles[c.id]) /\ RoleIsFree(c)
    /\ c.table = "employees" =>
          /\ c.id \in Employee /\ c.row \in KeptEmployee
          /\ Exists(roles[c.row.role]) /\ RowHasScope(c)

\* Every employee has a role that is there.
StaffInv ==
    /\ roles \in [Role -> RoleRow]
    /\ employees \in [Employee -> EmployeeRow]
    /\ \A e \in Employee : Exists(employees[e]) => Exists(roles[employees[e].role])
    /\ \A c \in staffCalls : SoundStaffCall(c)

\* What a step that leaves somebody stranded has to show.
StrandsOnlyWhoWasMissed ==
    \A e \in Stranded' \ Stranded : \E call \in staffCalls :
        /\ WriteStaff(call)
        /\ \/ <<"employees", e>> \in call.missed
           \/ <<"roles", employees'[e].role>> \in call.missed

\* Rows that are there have all of their columns.
LEMMA StaffColumns ==
    /\ \A row \in RoleRow : Exists(row) => row \in KeptRole
    /\ \A row \in EmployeeRow : Exists(row) => row \in KeptEmployee
    /\ \A row \in KeptRole \cup KeptEmployee : Exists(row)
  BY DEF RoleRow, EmployeeRow, KeptRole, KeptEmployee, Exists, None

\* Nothing is written: everybody is where he was.
LEMMA NobodyMoves ==
    ASSUME UNCHANGED <<roles, employees>>
    PROVE  /\ Stranded' = Stranded
           /\ \A r : Unbound(r)' = Unbound(r)
           /\ \A c : SoundStaffCall(c) => SoundStaffCall(c)'
  <1>1. Stranded' = Stranded
    BY DEF Stranded
  <1>2. ASSUME NEW r PROVE Unbound(r)' = Unbound(r)
    BY DEF Unbound
  <1>3. ASSUME NEW c, SoundStaffCall(c) PROVE SoundStaffCall(c)'
    BY <1>1, <1>2, <1>3 DEF SoundStaffCall, RoleIsFree, RowHasScope
  <1> QED
    BY <1>1, <1>2, <1>3

\* A command settles on a row.
LEMMA StaffSettles ==
    ASSUME StaffInv, NEW table, NEW id, NEW row, SettleStaff(table, id, row),
           SoundStaffCall(Intent(table, id, row))
    PROVE  StaffInv' /\ StrandsOnlyWhoWasMissed
  <1>1. UNCHANGED <<roles, employees>>
    BY DEF SettleStaff
  <1>2. ASSUME NEW c \in staffCalls' PROVE SoundStaffCall(c)'
    BY <1>1, <1>2, NobodyMoves DEF SettleStaff, StaffInv
  <1> QED
    BY <1>1, <1>2, NobodyMoves DEF StaffInv, StrandsOnlyWhoWasMissed

\* The columns of what a command is going to write.
LEMMA StaffIntent ==
    ASSUME NEW table \in StaffTable, NEW id \in Role \cup Employee,
           NEW row \in KeptRole \cup KeptEmployee
    PROVE  /\ Intent(table, id, row) \in StaffCall
           /\ Intent(table, id, row).table = table /\ Intent(table, id, row).id = id
           /\ Intent(table, id, row).row = row /\ Intent(table, id, row).missed = {}
  BY DEF Intent, StaffCall

\* A role may be written that manages, or that nobody without a restaurant has.
LEMMA SettledRole ==
    ASSUME StaffInv, NEW r \in Role, NEW row \in KeptRole, SettleStaff("roles", r, row),
           Exists(roles[r]), row.manages \/ Unbound(r) = {}
    PROVE  StaffInv' /\ StrandsOnlyWhoWasMissed
  <1>1. SoundStaffCall(Intent("roles", r, row))
    BY StaffIntent DEF SoundStaffCall, RoleIsFree, StaffTable
  <1> QED
    BY <1>1, StaffSettles

\* An employee may be written whose row has a scope, or who has none already.
LEMMA SettledEmployee ==
    ASSUME StaffInv, NEW e \in Employee, NEW row \in KeptEmployee,
           SettleStaff("employees", e, row), Exists(roles[row.role]),
           \/ row.status = "archived" \/ row.at # {} \/ roles[row.role].manages
           \/ e \in Stranded /\ employees[e].role = row.role
    PROVE  StaffInv' /\ StrandsOnlyWhoWasMissed
  <1>1. SoundStaffCall(Intent("employees", e, row))
    BY StaffIntent DEF SoundStaffCall, RowHasScope, StaffTable
  <1> QED
    BY <1>1, StaffSettles

\* A role is made: it was nobody's.
LEMMA RoleIsMade ==
    ASSUME StaffInv, CreateRole PROVE StaffInv' /\ StrandsOnlyWhoWasMissed
  <1>1. PICK r \in Role, manages \in BOOLEAN :
           /\ ~Exists(roles[r])
           /\ roles' = [roles EXCEPT ![r] = [status |-> "active", manages |-> manages]]
    BY DEF CreateRole
  <1>2. UNCHANGED <<employees, staffCalls>>
    BY DEF CreateRole
  <1>3. roles' \in [Role -> RoleRow]
    BY <1>1 DEF StaffInv, RoleRow, KeptRole
  <1>4. \A q \in Role : Exists(roles[q]) => roles'[q] = roles[q]
    BY <1>1 DEF StaffInv
  <1>5. \A e \in Employee : Exists(employees[e]) => employees[e].role \in Role
    BY StaffColumns DEF StaffInv, KeptEmployee
  <1>6. Stranded' = Stranded
    BY <1>2, <1>4, <1>5 DEF Stranded, StaffInv
  <1>7. ASSUME NEW c \in staffCalls PROVE SoundStaffCall(c)'
    <2>1. SoundStaffCall(c)
      BY DEF StaffInv
    <2>2. Unbound(c.id)' = Unbound(c.id)
      BY <1>2 DEF Unbound
    <2>3. c.table = "employees" => c.row.role \in Role
      BY <2>1 DEF SoundStaffCall, KeptEmployee
    <2> QED
      BY <1>2, <1>4, <1>6, <2>1, <2>2, <2>3 DEF SoundStaffCall, RoleIsFree, RowHasScope
  <1> QED
    BY <1>2, <1>3, <1>4, <1>5, <1>6, <1>7 DEF StaffInv, StrandsOnlyWhoWasMissed

\* A call that is left behind is the call it was, and has missed the row.
LEMMA StaffBehindIs ==
    ASSUME StaffInv, NEW call \in staffCalls, NEW c \in LeftBehind(staffCalls, call)
    PROVE  \E b \in staffCalls :
              /\ c \in StaffCall
              /\ c.table = b.table /\ c.id = b.id /\ c.row = b.row
              /\ c.missed = b.missed \cup {<<call.table, call.id>>}
  <1>1. PICK b \in staffCalls :
           c = [b EXCEPT !.missed = b.missed \cup {<<call.table, call.id>>}]
    BY DEF LeftBehind
  <1>2. b \in StaffCall /\ call \in StaffCall
    BY DEF StaffInv, SoundStaffCall
  <1>3. <<call.table, call.id>> \in StaffTable \X (Role \cup Employee)
    BY <1>2 DEF StaffCall
  <1> QED
    BY <1>1, <1>2, <1>3 DEF StaffCall

\* A role is written.
LEMMA RoleIsWritten ==
    ASSUME StaffInv, NEW call \in staffCalls, WriteStaff(call), call.table = "roles"
    PROVE  StaffInv' /\ StrandsOnlyWhoWasMissed
  <1>1. /\ call.id \in Role /\ call.row \in KeptRole /\ Exists(roles[call.id])
        /\ RoleIsFree(call)
    BY DEF StaffInv, SoundStaffCall
  <1>2. roles' = [roles EXCEPT ![call.id] = call.row] /\ UNCHANGED employees
    BY DEF WriteStaff
  <1>3. roles' \in [Role -> RoleRow]
    BY <1>1, <1>2 DEF StaffInv, RoleRow
  <1>4. \A q \in Role : Exists(roles[q]) => Exists(roles'[q])
    BY <1>1, <1>2, StaffColumns DEF StaffInv
  <1>5. \A e \in Employee : Exists(employees[e]) => employees[e].role \in Role
    BY StaffColumns DEF StaffInv, KeptEmployee
  <1>6. ASSUME NEW e \in Stranded' \ Stranded PROVE <<"employees", e>> \in call.missed
    <2>1. e \in Employee /\ Exists(employees[e]) /\ employees[e].role = call.id
      BY <1>2, <1>5, <1>6 DEF Stranded, StaffInv
    <2>2. ~call.row.manages /\ e \in Unbound(call.id)
      BY <1>1, <1>2, <1>6, <2>1 DEF Stranded, Unbound, StaffInv
    <2> QED
      BY <1>1, <2>2 DEF RoleIsFree
  <1>7. ASSUME NEW c \in staffCalls' PROVE SoundStaffCall(c)'
    <2>1. PICK b \in staffCalls :
             /\ c \in StaffCall
             /\ c.table = b.table /\ c.id = b.id /\ c.row = b.row
             /\ c.missed = b.missed \cup {<<call.table, call.id>>}
      BY StaffBehindIs DEF WriteStaff
    <2>2. SoundStaffCall(b)
      BY DEF StaffInv
    <2>3. CASE c.table = "roles"
      <3>1. Unbound(c.id)' = Unbound(b.id)
        BY <1>2, <2>1 DEF Unbound
      <3> QED
        BY <1>4, <2>1, <2>2, <2>3, <3>1 DEF SoundStaffCall, RoleIsFree
    <2>4. CASE c.table = "employees"
      <3>1. /\ c.id \in Employee /\ c.row \in KeptEmployee
            /\ Exists(roles[c.row.role]) /\ RowHasScope(b) /\ c.row.role \in Role
        BY <2>1, <2>2, <2>4 DEF SoundStaffCall, KeptEmployee
      <3>2. CASE c.row.role = call.id
        <4>1. <<"roles", c.row.role>> \in c.missed
          BY <2>1, <3>2
        <4> QED
          BY <1>4, <2>1, <2>4, <3>1, <4>1 DEF SoundStaffCall, RowHasScope
      <3>3. CASE c.row.role # call.id
        <4>1. roles'[c.row.role] = roles[c.row.role]
          BY <1>2, <3>1, <3>3 DEF StaffInv
        <4>2. c.id \in Stranded /\ employees[c.id].role = c.row.role => c.id \in Stranded'
          BY <1>2, <4>1 DEF Stranded
        <4>3. RowHasScope(c)'
          BY <1>2, <2>1, <3>1, <4>1, <4>2 DEF RowHasScope
        <4> QED
          BY <2>1, <2>4, <3>1, <4>1, <4>3 DEF SoundStaffCall
      <3> QED
        BY <3>2, <3>3
    <2>5. c.table \in StaffTable
      BY <2>1 DEF StaffCall
    <2> QED
      BY <2>3, <2>4, <2>5 DEF StaffTable
  <1> QED
    BY <1>2, <1>3, <1>4, <1>5, <1>6, <1>7 DEF StaffInv, StrandsOnlyWhoWasMissed

\* An employee is written.
LEMMA EmployeeIsWritten ==
    ASSUME StaffInv, NEW call \in staffCalls, WriteStaff(call), call.table = "employees"
    PROVE  StaffInv' /\ StrandsOnlyWhoWasMissed
  <1>1. /\ call.id \in Employee /\ call.row \in KeptEmployee /\ Exists(roles[call.row.role])
        /\ RowHasScope(call)
    BY DEF StaffInv, SoundStaffCall
  <1>2. employees' = [employees EXCEPT ![call.id] = call.row] /\ UNCHANGED roles
    BY DEF WriteStaff
  <1>3. employees' \in [Employee -> EmployeeRow]
    BY <1>1, <1>2 DEF StaffInv, EmployeeRow
  <1>4. \A e \in Employee : Exists(employees'[e]) => Exists(roles[employees'[e].role])
    BY <1>1, <1>2 DEF StaffInv
  <1>5. ASSUME NEW e \in Stranded' \ Stranded
        PROVE  \/ <<"employees", e>> \in call.missed
               \/ <<"roles", employees'[e].role>> \in call.missed
    <2>1. e = call.id /\ employees'[e] = call.row
      BY <1>1, <1>2, <1>5 DEF Stranded, StaffInv
    <2>2. call.row.status # "archived" /\ call.row.at = {} /\ ~roles[call.row.role].manages
      BY <1>2, <1>5, <2>1 DEF Stranded
    <2> QED
      BY <1>1, <1>5, <2>1, <2>2 DEF RowHasScope
  <1>6. ASSUME NEW c \in staffCalls' PROVE SoundStaffCall(c)'
    <2>1. PICK b \in staffCalls :
             /\ c \in StaffCall
             /\ c.table = b.table /\ c.id = b.id /\ c.row = b.row
             /\ c.missed = b.missed \cup {<<"employees", call.id>>}
      BY StaffBehindIs DEF WriteStaff
    <2>2. SoundStaffCall(b)
      BY DEF StaffInv
    <2>3. CASE c.table = "roles"
      <3>1. \A e \in Unbound(c.id)' : e = call.id \/ e \in Unbound(b.id)
        BY <1>2, <2>1 DEF Unbound, StaffInv
      <3> QED
        BY <1>2, <2>1, <2>2, <2>3, <3>1 DEF SoundStaffCall, RoleIsFree
    <2>4. CASE c.table = "employees"
      <3>1. /\ c.id \in Employee /\ c.row \in KeptEmployee
            /\ Exists(roles[c.row.role]) /\ RowHasScope(b)
        BY <2>1, <2>2, <2>4 DEF SoundStaffCall
      <3>2. CASE c.id = call.id
        BY <1>2, <2>1, <2>4, <3>1, <3>2 DEF SoundStaffCall, RowHasScope
      <3>3. CASE c.id # call.id
        <4>1. employees'[c.id] = employees[c.id] /\ (c.id \in Stranded => c.id \in Stranded')
          BY <1>2, <3>1, <3>3 DEF StaffInv, Stranded
        <4>2. RowHasScope(c)'
          BY <1>2, <2>1, <3>1, <4>1 DEF RowHasScope
        <4> QED
          BY <1>2, <2>1, <2>4, <3>1, <4>2 DEF SoundStaffCall
      <3> QED
        BY <3>2, <3>3
    <2>5. c.table \in StaffTable
      BY <2>1 DEF StaffCall
    <2> QED
      BY <2>3, <2>4, <2>5 DEF StaffTable
  <1> QED
    BY <1>2, <1>3, <1>4, <1>5, <1>6 DEF StaffInv, StrandsOnlyWhoWasMissed

\* normalizeEmployeeScope leaves nobody without a place.
LEMMA ScopesAreScopes ==
    ASSUME StaffInv, NEW role \in Role, NEW asked \in SUBSET Restaurant,
           NEW at \in Scopes(role, asked)
    PROVE  at \in SUBSET Restaurant /\ (at # {} \/ roles[role].manages)
  BY DEF Scopes

\* A role is changed, as far as the call can see.
LEMMA RoleStep ==
    ASSUME StaffInv, UpdateRole PROVE StaffInv' /\ StrandsOnlyWhoWasMissed
  <1>1. PICK r \in Role, status \in {"active", "archived"}, manages \in BOOLEAN :
           /\ Exists(roles[r]) /\ (manages \/ Unbound(r) = {})
           /\ SettleStaff("roles", r, [status |-> status, manages |-> manages])
    BY DEF UpdateRole
  <1> DEFINE row == [status |-> status, manages |-> manages]
  <1>2. row \in KeptRole /\ row.manages = manages
    BY DEF KeptRole
  <1> HIDE DEF row
  <1> QED
    BY <1>1, <1>2, SettledRole DEF row

\* An employee is made or changed, as far as the call can see.
LEMMA EmployeeStep ==
    ASSUME StaffInv, CreateEmployee \/ UpdateEmployee \/ RotateEmployeePIN
    PROVE  StaffInv' /\ StrandsOnlyWhoWasMissed
  <1>1. CASE CreateEmployee
    <2>1. PICK e \in Employee, role \in Role, asked \in SUBSET Restaurant, pin \in Pin :
             /\ roles[role].status = "active"
             /\ \E at \in Scopes(role, asked) :
                   SettleStaff("employees", e, [status |-> "active", role |-> role,
                                                at |-> at, pin |-> pin])
      BY <1>1 DEF CreateEmployee
    <2>2. PICK at \in Scopes(role, asked) :
             SettleStaff("employees", e, [status |-> "active", role |-> role, at |-> at,
                                          pin |-> pin])
      BY <2>1
    <2>3. Exists(roles[role])
      BY <2>1 DEF Exists
    <2>4. at \in SUBSET Restaurant /\ (at # {} \/ roles[role].manages)
      BY ScopesAreScopes
    <2> DEFINE row == [status |-> "active", role |-> role, at |-> at, pin |-> pin]
    <2>5. row \in KeptEmployee /\ row.role = role /\ row.at = at
      BY <2>4 DEF KeptEmployee
    <2> HIDE DEF row
    <2> QED
      BY <2>2, <2>3, <2>4, <2>5, SettledEmployee DEF row
  <1>2. CASE UpdateEmployee
    <2>1. PICK e \in Employee : /\ Exists(employees[e])
             /\ \E status \in {"active", "suspended", "archived"},
                   role \in {r \in Role : roles[r].status = "active"} \cup {employees[e].role},
                   asked \in (SUBSET Restaurant) \cup {employees[e].at} :
                   \E at \in Scopes(role, asked) :
                       SettleStaff("employees", e, [employees[e] EXCEPT
                           !.status = status, !.role = role, !.at = at])
      BY <1>2 DEF UpdateEmployee
    <2>2. employees[e] \in KeptEmployee /\ Exists(roles[employees[e].role])
      BY <2>1, StaffColumns DEF StaffInv
    <2>3. PICK status \in {"active", "suspended", "archived"},
               role \in {r \in Role : roles[r].status = "active"} \cup {employees[e].role},
               asked \in (SUBSET Restaurant) \cup {employees[e].at} :
               \E at \in Scopes(role, asked) :
                   SettleStaff("employees", e, [employees[e] EXCEPT
                       !.status = status, !.role = role, !.at = at])
      BY <2>1
    <2>4. PICK at \in Scopes(role, asked) :
             SettleStaff("employees", e,
                 [employees[e] EXCEPT !.status = status, !.role = role, !.at = at])
      BY <2>3
    <2>5. role \in Role /\ Exists(roles[role]) /\ asked \in SUBSET Restaurant
      BY <2>2 DEF Exists, KeptEmployee
    <2>6. at \in SUBSET Restaurant /\ (at # {} \/ roles[role].manages)
      BY <2>5, ScopesAreScopes
    <2> DEFINE row == [employees[e] EXCEPT !.status = status, !.role = role, !.at = at]
    <2>7. row \in KeptEmployee /\ row.role = role /\ row.at = at
      BY <2>2, <2>5, <2>6 DEF KeptEmployee
    <2>8. SettleStaff("employees", e, row)
      BY <2>4
    <2> HIDE DEF row
    <2> QED
      BY <2>5, <2>6, <2>7, <2>8, SettledEmployee
  <1>3. CASE RotateEmployeePIN
    <2>1. PICK e \in Employee, pin \in Pin :
             /\ Exists(employees[e])
             /\ SettleStaff("employees", e, [employees[e] EXCEPT !.pin = pin])
      BY <1>3 DEF RotateEmployeePIN
    <2>2. employees[e] \in KeptEmployee /\ Exists(roles[employees[e].role])
      BY <2>1, StaffColumns DEF StaffInv
    <2> DEFINE row == [employees[e] EXCEPT !.pin = pin]
    <2>3. /\ row \in KeptEmployee /\ row.role = employees[e].role
          /\ row.at = employees[e].at /\ row.status = employees[e].status
      BY <2>2 DEF KeptEmployee
    <2>4. \/ row.status = "archived" \/ row.at # {} \/ roles[row.role].manages
          \/ e \in Stranded
      BY <2>1, <2>3 DEF Stranded
    <2>5. SettleStaff("employees", e, row)
      BY <2>1
    <2> HIDE DEF row
    <2> QED
      BY <2>2, <2>3, <2>4, <2>5, SettledEmployee
  <1> QED
    BY <1>1, <1>2, <1>3

\* Every step of the tenant keeps the staff in order, and strands only who was missed.
LEMMA StaffKeeps ==
    ASSUME StaffInv, [Next]_vars PROVE StaffInv' /\ StrandsOnlyWhoWasMissed
  <1>1. CASE UNCHANGED staff
    <2>1. Stranded' = Stranded
      BY <1>1, NobodyMoves DEF staff
    <2> QED
      BY <1>1, <2>1, NobodyMoves DEF StaffInv, staff, StrandsOnlyWhoWasMissed
  <1>2. ASSUME NEW call \in staffCalls, WriteStaff(call)
        PROVE  StaffInv' /\ StrandsOnlyWhoWasMissed
    BY <1>2, RoleIsWritten, EmployeeIsWritten DEF WriteStaff
  <1>3. CASE StaffNext
    BY <1>1, <1>2, <1>3, RoleIsMade, RoleStep, EmployeeStep DEF StaffNext
  <1>4. StaffNext \/ UNCHANGED staff
    BY DEF Next, vars, InFloor, InStaff, InCatalog, InRecipes, InPrint, InDelivery, InMessages
  <1> QED
    BY <1>1, <1>3, <1>4

\* A restaurant that can sell loses its last place to sell, and an employee the place to
\* work, only by a command that was overtaken: another wrote a sales point, or the very
\* employee or role, after it had read them.
THEOREM NobodyIsEverLeftOut == Spec => NobodyIsLeftOut
  <1>1. ASSUME Init PROVE FloorInv /\ StaffInv
    <2>1. /\ sections = [s \in Section |-> None] /\ tables = [t \in Table |-> None]
          /\ points = [p \in Point |-> None] /\ floorCalls = {}
          /\ roles = [r \in Role |-> None] /\ employees = [e \in Employee |-> None]
          /\ staffCalls = {}
      BY <1>1 DEF Init, FloorInit, StaffInit
    <2>2. ~Exists(None)
      BY DEF Exists, None
    <2> QED
      BY <2>1, <2>2 DEF FloorInv, SectionRow, TableRow, PointRow, StaffInv, RoleRow, EmployeeRow
  <1>2. ASSUME FloorInv, [Next]_vars
        PROVE  [ActivePoints # {} /\ ActivePoints' = {} => \E call \in floorCalls :
                    WriteFloor(call) /\ MissedPoints(call) # {}]_floor
    BY <1>2, FloorKeeps
  <1>3. ASSUME StaffInv, [Next]_vars
        PROVE  [\A e \in Stranded' \ Stranded : \E call \in staffCalls :
                    /\ WriteStaff(call)
                    /\ \/ <<"employees", e>> \in call.missed
                       \/ <<"roles", employees'[e].role>> \in call.missed]_staff
    BY <1>3, StaffKeeps DEF StrandsOnlyWhoWasMissed
  <1>4. FloorInv /\ [Next]_vars => FloorInv'
    BY FloorKeeps
  <1>5. StaffInv /\ [Next]_vars => StaffInv'
    BY StaffKeeps
  <1> QED
    BY <1>1, <1>2, <1>3, <1>4, <1>5, PTL
    DEF Spec, NobodyIsLeftOut, AlwaysAPlaceToSell, AlwaysAPlaceToWork

-----------------------------------------------------------------------------
(* A document is printed with the one template meant for it.               *)

TemplateRow ==
    {None} \cup [status : {"active", "off"}, at : Restaurant \cup {Tenant},
                 document : Document, default : BOOLEAN]
TemplatesInv == templates \in [Template -> TemplateRow] /\ OneDefault(templates)

\* Templates are written one by one, and the table keeps one default of a kind.
LEMMA TemplatesStep ==
    ASSUME TemplatesInv,
           CreateReceiptTemplate \/ UpdateReceiptTemplate \/ DeactivateReceiptTemplate
    PROVE  TemplatesInv'
  <1>1. \E t \in Template, row \in TemplateRow :
            templates' = [templates EXCEPT ![t] = row] /\ OneDefault(templates')
    <2>1. CASE CreateReceiptTemplate
      BY <2>1 DEF CreateReceiptTemplate, WriteTemplate, TemplateRow
    <2>2. CASE UpdateReceiptTemplate
      <3>1. PICK t \in Template, document \in Document, default \in BOOLEAN :
               /\ Exists(templates[t])
               /\ WriteTemplate(t, [templates[t] EXCEPT !.document = document,
                                                        !.default = default])
        BY <2>2 DEF UpdateReceiptTemplate
      <3>2. templates[t] \in [status : {"active", "off"}, at : Restaurant \cup {Tenant},
                              document : Document, default : BOOLEAN]
        BY <3>1 DEF TemplatesInv, TemplateRow, Exists, None
      <3>3. [templates[t] EXCEPT !.document = document, !.default = default] \in TemplateRow
        BY <3>2 DEF TemplateRow
      <3> QED
        BY <3>1, <3>3 DEF WriteTemplate
    <2>3. CASE DeactivateReceiptTemplate
      <3>1. PICK t \in Template :
               /\ templates[t].status = "active"
               /\ WriteTemplate(t, [templates[t] EXCEPT !.status = "off", !.default = FALSE])
        BY <2>3 DEF DeactivateReceiptTemplate
      <3>2. templates[t] \in [status : {"active", "off"}, at : Restaurant \cup {Tenant},
                              document : Document, default : BOOLEAN]
        BY <3>1 DEF TemplatesInv, TemplateRow, None
      <3>3. [templates[t] EXCEPT !.status = "off", !.default = FALSE] \in TemplateRow
        BY <3>2 DEF TemplateRow
      <3> QED
        BY <3>1, <3>3 DEF WriteTemplate
    <2> QED
      BY <2>1, <2>2, <2>3
  <1> QED
    BY <1>1 DEF TemplatesInv

\* Every step of the tenant keeps the templates in order.
LEMMA TemplatesKeep == ASSUME TemplatesInv, [Next]_vars PROVE TemplatesInv'
  <1>1. CASE UNCHANGED templates
    BY <1>1 DEF TemplatesInv, OneDefault
  <1>2. ASSUME PrintNext
        PROVE  \/ CreateReceiptTemplate \/ UpdateReceiptTemplate \/ DeactivateReceiptTemplate
               \/ UNCHANGED templates
    BY <1>2 DEF PrintNext, CreatePrinter, UpdatePrinter, DeactivatePrinter, WritePrinter
  <1>3. PrintNext \/ UNCHANGED templates
    BY DEF Next, vars, print, InFloor, InStaff, InCatalog, InRecipes, InPrint, InDelivery,
       InMessages
  <1> QED
    BY <1>1, <1>2, <1>3, TemplatesStep

\* A set without two members has one at most.
LEMMA OneAtMost ==
    ASSUME NEW S, \A x, y \in S : x = y
    PROVE  Cardinality(S) <= 1
  <1>1. S = {} \/ \E x : S = {x}
    OBVIOUS
  <1>2. CASE S = {}
    BY <1>2, FS_EmptySet
  <1>3. ASSUME NEW x, S = {x} PROVE Cardinality(S) = 1
    BY <1>3, FS_Singleton
  <1>4. Cardinality(S) \in {0, 1}
    BY <1>1, <1>2, <1>3, FS_EmptySet
  <1> QED
    BY <1>4

\* A kind of document has one default of a restaurant, and one of the tenant.
LEMMA DefaultsAreOne ==
    ASSUME TemplatesInv, NEW at, NEW document
    PROVE  Cardinality(Defaults(at, document)) <= 1
  <1>1. \A t, u \in Defaults(at, document) : t = u
    BY DEF Defaults, TemplatesInv, OneDefault
  <1> QED
    BY <1>1, OneAtMost

\* What the Edge chooses among what it was sent.
LEMMA ChosenTemplate ==
    ASSUME TemplatesInv, NEW r \in Restaurant, NEW document \in Document,
           ~HidesTheDefault(r, document)
    PROVE  Lookup(EffectiveTemplates(r), r, document) =
               IF Defaults(r, document) # {} THEN Defaults(r, document)
               ELSE Defaults(Tenant, document)
  <1> DEFINE sent == EffectiveTemplates(r)
             meant == {t \in sent : templates[t].default /\ templates[t].document = document}
             own == {t \in meant : templates[t].at = r}
             tenants == {t \in meant : templates[t].at = Tenant}
  <1>1. r # Tenant
    BY CloudPrintAssumption DEF Tenant
  <1>2. own = Defaults(r, document)
    BY <1>1 DEF EffectiveTemplates, TemplatesOf, Defaults
  <1>3. \A t \in meant : templates[t].at \in {r, Tenant}
    BY DEF EffectiveTemplates, TemplatesOf
  <1>4. CASE Defaults(r, document) # {}
    BY <1>2, <1>4 DEF Lookup
  <1>5. CASE Defaults(r, document) = {}
    <2>1. ~Covered(r, document)
      BY <1>5 DEF HidesTheDefault, Covered, TemplatesOf
    <2>2. tenants = Defaults(Tenant, document)
      BY <2>1 DEF EffectiveTemplates, TemplatesOf, Defaults
    <2>3. tenants = {} => meant = {}
      BY <1>2, <1>3, <1>5
    <2>4. Lookup(sent, r, document) =
              IF own # {} THEN own ELSE IF tenants # {} THEN tenants ELSE meant
      BY DEF Lookup
    <2> HIDE DEF sent, meant, own, tenants
    <2> QED
      BY <1>2, <1>5, <2>2, <2>3, <2>4 DEF sent
  <1> QED
    BY <1>4, <1>5

\* An Edge prints a document with the restaurant's own default, else the tenant's, and
\* there is one such at most, whatever templates are made, changed and switched off.
THEOREM DocumentsAlwaysHaveTheirTemplate == Spec => []DocumentsHaveTheirTemplate
  <1>1. ASSUME Init PROVE TemplatesInv
    <2>1. templates = [t \in Template |-> None]
      BY <1>1 DEF Init, PrintInit
    <2> QED
      BY <2>1 DEF TemplatesInv, TemplateRow, OneDefault, None
  <1>2. ASSUME TemplatesInv PROVE DocumentsHaveTheirTemplate
    BY <1>2, ChosenTemplate, DefaultsAreOne DEF DocumentsHaveTheirTemplate
  <1> QED
    BY <1>1, <1>2, TemplatesKeep, PTL DEF Spec

-----------------------------------------------------------------------------
(* The Edge takes what the managers write: what the rows of each area are. *)

PrinterRow ==
    {None} \cup
    [status : {"active", "off"}, at : Restaurant, type : {"tcp", "usb"}, address : BOOLEAN,
     port : BOOLEAN, documents : {list \in Lists : ProperList(list)}]
PrintersInv == printers \in [Printer -> PrinterRow]

\* What the Edge asks of an item, an option and the like the Cloud has asked before.
SoundItem(row) ==
    Exists(row) => {"status", "ticket"} \subseteq DOMAIN row /\ ValidQRConfig(row.ticket)
SoundPolicy(row) ==
    Exists(row) => \E kind \in {"discount", "surcharge"} : row \in PolicyRows(kind)
GroupRow == {None} \cup [status : Status, min : Amount, max : Amount]
OptionRow ==
    {None} \cup
    [status : Status, group : Group, linked : Item \cup {"none"}, price : Amount]
MenuRow == {None} \cup [status : Status, item : Item, price : Amount]
CatalogInv ==
    /\ DOMAIN items = Item /\ \A i \in Item : SoundItem(items[i])
    /\ groups \in [Group -> GroupRow]
    /\ \A g \in Group : Exists(groups[g]) => ValidCounts(groups[g].min, groups[g].max)
    /\ options \in [Option -> OptionRow]
    /\ \A o \in Option : Exists(options[o]) => options[o].price >= 0
    /\ DOMAIN policies = Policy /\ \A p \in Policy : SoundPolicy(policies[p])
    /\ menu \in [MenuItem -> MenuRow]
    /\ \A m \in MenuItem : Exists(menu[m]) =>
          menu[m].price >= 0 /\ Exists(items[menu[m].item])

LineRow == {None} \cup [status : {"kept"}, quantity : Nat \ {0}, loss : 0..100]
VersionRow ==
    {None} \cup
    [status : {"draft", "review_pending", "active", "archived"}, owner : Item,
     lines : SUBSET RecipeLine, number : Nat \ {0}]
SoundLines(lines) ==
    /\ \A line \in lines : line.quantity > 0 /\ line.loss \in 0..100
    /\ \A line, other \in lines : line.component = other.component => line = other
\* The versions of an owner are told apart by their numbers, and one is in use.
SoundVersions(rowsNow) ==
    /\ rowsNow \in [Version -> VersionRow]
    /\ \A v \in Version : Exists(rowsNow[v]) => SoundLines(rowsNow[v].lines)
    /\ \A v, w \in Version :
          v # w /\ Exists(rowsNow[v]) /\ Exists(rowsNow[w])
          /\ rowsNow[v].owner = rowsNow[w].owner =>
              /\ rowsNow[v].number # rowsNow[w].number
              /\ ~(rowsNow[v].status = "active" /\ rowsNow[w].status = "active")
    /\ \E bound \in Nat : \A v \in Version :
          Exists(rowsNow[v]) => rowsNow[v].number <= bound
\* A call that will write a version has one to write.
SoundCall(call, rowsNow) ==
    /\ call.op = "submit" => call.version \in Version /\ Exists(rowsNow[call.version])
    /\ call.op \in {"approve", "store", "assign"} /\ call.review \in Version =>
          Exists(rowsNow[call.review])
    /\ call.op = "approve" => \A k \in DOMAIN call.todo :
          call.todo[k].write = "version" =>
              call.todo[k].version \in Version /\ Exists(rowsNow[call.todo[k].version])
RecipesInv ==
    /\ recipeItems \in [Item \X Item -> LineRow]
    /\ \A i \in Item : Exists(stops[i]) => stops[i].quantity \in Nat
    /\ SoundVersions(versions)
    /\ \A v \in Version : Exists(reviews[v]) => Exists(versions[v])
    /\ \A m \in Manager : SoundCall(calls[m], versions)
PackagesInv == FloorInv /\ PrintersInv /\ CatalogInv /\ RecipesInv /\ ReviewInv

-----------------------------------------------------------------------------
(* The printers.                                                           *)

\* A printer that is there has all of its columns.
LEMMA PrinterColumns ==
    ASSUME NEW row \in PrinterRow, Exists(row)
    PROVE  row \in [status : {"active", "off"}, at : Restaurant, type : {"tcp", "usb"},
                    address : BOOLEAN, port : BOOLEAN,
                    documents : {list \in Lists : ProperList(list)}]
  BY DEF PrinterRow, Exists, None

\* A printer without an address is a printer.
LEMMA WiredIsPrinter ==
    ASSUME NEW row \in [status : {"active", "off"}, at : Restaurant, type : {"tcp", "usb"},
                        address : BOOLEAN, port : BOOLEAN,
                        documents : {list \in Lists : ProperList(list)}]
    PROVE  Wired(row) \in PrinterRow
  BY DEF Wired, PrinterRow

\* A printer is written.
LEMMA PrinterSteps ==
    ASSUME PrintersInv, CreatePrinter \/ UpdatePrinter \/ DeactivatePrinter
    PROVE  PrintersInv'
  <1> DEFINE Full == [status : {"active", "off"}, at : Restaurant, type : {"tcp", "usb"},
                      address : BOOLEAN, port : BOOLEAN,
                      documents : {list \in Lists : ProperList(list)}]
  <1>0. ASSUME NEW p \in Printer, NEW row \in PrinterRow, WritePrinter(p, row)
        PROVE  PrintersInv'
    BY <1>0 DEF WritePrinter, PrintersInv
  <1>1. CASE CreatePrinter
    <2>1. PICK p \in Printer, r \in Restaurant, type \in {"tcp", "usb"}, list \in Lists,
               address, port \in BOOLEAN :
             /\ ProperList(list)
             /\ WritePrinter(p, Wired([status |-> "active", at |-> r, type |-> type,
                   address |-> address, port |-> port, documents |-> list]))
      BY <1>1 DEF CreatePrinter
    <2> DEFINE row == [status |-> "active", at |-> r, type |-> type,
                       address |-> address, port |-> port, documents |-> list]
    <2>2. row \in Full
      BY <2>1
    <2> HIDE DEF row
    <2> QED
      BY <1>0, <2>1, <2>2, WiredIsPrinter DEF row
  <1>2. CASE UpdatePrinter
    <2>1. PICK p \in Printer, type \in {"tcp", "usb"}, list \in Lists :
             /\ Exists(printers[p])
             /\ list # <<>> => ProperList(list)
             /\ \E address, port \in BOOLEAN :
                   WritePrinter(p, Wired([printers[p] EXCEPT
                       !.type = type, !.address = address, !.port = port,
                       !.documents = IF list = <<>> THEN @ ELSE list]))
      BY <1>2 DEF UpdatePrinter
    <2>2. printers[p] \in Full
      BY <2>1, PrinterColumns DEF PrintersInv
    <2>3. PICK address, port \in BOOLEAN :
             WritePrinter(p, Wired([printers[p] EXCEPT
                 !.type = type, !.address = address, !.port = port,
                 !.documents = IF list = <<>> THEN @ ELSE list]))
      BY <2>1
    <2> DEFINE kept == IF list = <<>> THEN printers[p].documents ELSE list
               row == [printers[p] EXCEPT !.type = type, !.address = address, !.port = port,
                                          !.documents = kept]
    <2>4. WritePrinter(p, Wired(row))
      BY <2>3
    <2>5. kept \in {named \in Lists : ProperList(named)}
      BY <2>1, <2>2
    <2> HIDE DEF kept
    <2>6. row \in Full
      BY <2>2, <2>5
    <2> HIDE DEF row
    <2> QED
      BY <1>0, <2>4, <2>6, WiredIsPrinter
  <1>3. CASE DeactivatePrinter
    <2>1. PICK p \in Printer : /\ printers[p].status = "active"
                               /\ WritePrinter(p, [printers[p] EXCEPT !.status = "off"])
      BY <1>3 DEF DeactivatePrinter
    <2>2. printers[p] \in Full
      BY <2>1, PrinterColumns DEF PrintersInv, Exists
    <2>3. [printers[p] EXCEPT !.status = "off"] \in PrinterRow
      BY <2>2 DEF PrinterRow
    <2> QED
      BY <1>0, <2>1, <2>3
  <1> QED
    BY <1>1, <1>2, <1>3

\* Every step of the tenant keeps the printers.
LEMMA PrintersKeep == ASSUME PrintersInv, [Next]_vars PROVE PrintersInv'
  <1>1. ASSUME UNCHANGED printers PROVE PrintersInv'
    BY <1>1 DEF PrintersInv
  <1>2. ASSUME PrintNext
        PROVE  \/ CreatePrinter \/ UpdatePrinter \/ DeactivatePrinter \/ UNCHANGED printers
    BY <1>2 DEF PrintNext, CreateReceiptTemplate, UpdateReceiptTemplate,
       DeactivateReceiptTemplate, WriteTemplate
  <1>3. PrintNext \/ UNCHANGED printers
    BY DEF Next, vars, print, InFloor, InStaff, InCatalog, InRecipes, InPrint, InDelivery,
       InMessages
  <1> QED
    BY <1>1, <1>2, <1>3, PrinterSteps

-----------------------------------------------------------------------------
(* The catalog.                                                            *)

\* Items change, and none is lost.
ItemsRemain ==
    /\ DOMAIN items' = Item /\ \A i \in Item : SoundItem(items'[i])
    /\ \A i \in Item : Exists(items[i]) => Exists(items'[i])

\* A step that changes items alone.
LEMMA CatalogItems ==
    ASSUME CatalogInv, ItemsRemain, UNCHANGED <<groups, options, policies, menu>>
    PROVE  CatalogInv'
  <1>1. \A m \in MenuItem : Exists(menu[m]) => menu[m].item \in Item
    BY DEF CatalogInv, MenuRow, Exists, None
  <1> QED
    BY <1>1 DEF CatalogInv, ItemsRemain

\* An item is written, one the Edge takes.
LEMMA ItemWritten ==
    ASSUME CatalogInv, NEW i \in Item, NEW row, Exists(row), SoundItem(row),
           items' = [items EXCEPT ![i] = row]
    PROVE  ItemsRemain
  BY DEF ItemsRemain, CatalogInv

\* An item is made or changed.
LEMMA ItemSteps ==
    ASSUME CatalogInv, CreateCatalogItem \/ UpdateCatalogItem
    PROVE  ItemsRemain
  <1>1. PICK i \in Item, kind \in Kinds, status \in Status, folder \in Folder \cup {"none"},
             ticket \in Tickets :
           /\ ValidQRConfig(ticket)
           /\ items' = [items EXCEPT ![i] = [status |-> status, kind |-> kind,
                                             folder |-> folder, ticket |-> ticket]]
    BY DEF CreateCatalogItem, UpdateCatalogItem, WriteItem, Status
  <1> DEFINE row == [status |-> status, kind |-> kind, folder |-> folder, ticket |-> ticket]
  <1>2. Exists(row) /\ {"status", "ticket"} \subseteq DOMAIN row /\ row.ticket = ticket
    BY DEF Exists, Status
  <1> HIDE DEF row
  <1>3. SoundItem(row)
    BY <1>1, <1>2 DEF SoundItem
  <1> QED
    BY <1>1, <1>2, <1>3, ItemWritten DEF row

\* An item is archived.
LEMMA ArchiveStep ==
    ASSUME CatalogInv, NEW a, ArchiveCatalogItem(a)
    PROVE  ItemsRemain
  <1>1. PICK i \in Item : /\ Exists(items[i])
                          /\ items' = [items EXCEPT ![i] =
                                          [items[i] EXCEPT !.status = "archived"]]
    BY DEF ArchiveCatalogItem, WriteItem
  <1> DEFINE row == [items[i] EXCEPT !.status = "archived"]
  <1>2. {"status", "ticket"} \subseteq DOMAIN items[i] /\ ValidQRConfig(items[i].ticket)
    BY <1>1 DEF CatalogInv, SoundItem
  <1>3. DOMAIN row = DOMAIN items[i] /\ row.status = "archived"
        /\ row.ticket = items[i].ticket
    BY <1>2
  <1> HIDE DEF row
  <1>4. Exists(row) /\ SoundItem(row)
    BY <1>2, <1>3 DEF Exists, SoundItem
  <1> QED
    BY <1>1, <1>4, ItemWritten DEF row

\* A group is written.
LEMMA GroupSteps ==
    ASSUME CatalogInv, CreateModifierGroup \/ UpdateModifierGroup
    PROVE  CatalogInv'
  <1>1. PICK g \in Group, min \in Amount, max \in Amount, status \in Status :
           /\ ValidCounts(min, max)
           /\ WriteGroup(g, [status |-> status, min |-> min, max |-> max])
    BY DEF CreateModifierGroup, UpdateModifierGroup, Status
  <1> DEFINE row == [status |-> status, min |-> min, max |-> max]
  <1>2. row \in GroupRow /\ ValidCounts(row.min, row.max)
    BY <1>1 DEF GroupRow
  <1> HIDE DEF row
  <1>3. /\ groups' = [groups EXCEPT ![g] = row]
        /\ UNCHANGED <<items, options, policies, menu>>
    BY <1>1 DEF WriteGroup, row
  <1> QED
    BY <1>2, <1>3 DEF CatalogInv

\* An option is written.
LEMMA OptionSteps ==
    ASSUME CatalogInv, CreateModifierOption \/ UpdateModifierOption
    PROVE  CatalogInv'
  <1>0. Linkable \subseteq Item \cup {"none"}
    BY DEF Linkable
  <1>1. \E o \in Option, row \in OptionRow : row.price >= 0 /\ WriteOption(o, row)
    <2>1. CASE CreateModifierOption
      <3>1. PICK o \in Option, g \in Group, i \in Linkable, price \in Amount :
               /\ price >= 0
               /\ WriteOption(o, [status |-> "published", group |-> g, linked |-> i,
                                  price |-> price])
        BY <2>1 DEF CreateModifierOption
      <3>2. [status |-> "published", group |-> g, linked |-> i, price |-> price] \in OptionRow
        BY <1>0 DEF OptionRow, Status
      <3> QED
        BY <3>1, <3>2
    <2>2. CASE UpdateModifierOption
      <3>1. PICK o \in Option :
               /\ Exists(options[o])
               /\ \E i \in Linkable \cup {options[o].linked}, price \in Amount, s \in Status :
                     /\ price >= 0
                     /\ WriteOption(o, [options[o] EXCEPT !.status = s, !.linked = i,
                                                         !.price = price])
        BY <2>2 DEF UpdateModifierOption
      <3>2. options[o] \in [status : Status, group : Group, linked : Item \cup {"none"},
                            price : Amount]
        BY <3>1 DEF CatalogInv, OptionRow, Exists, None
      <3>3. PICK i \in Linkable \cup {options[o].linked}, price \in Amount, s \in Status :
               /\ price >= 0
               /\ WriteOption(o, [options[o] EXCEPT !.status = s, !.linked = i,
                                                   !.price = price])
        BY <3>1
      <3> DEFINE row == [options[o] EXCEPT !.status = s, !.linked = i, !.price = price]
      <3>4. row \in OptionRow /\ row.price = price
        BY <1>0, <3>2 DEF OptionRow
      <3> HIDE DEF row
      <3> QED
        BY <3>3, <3>4 DEF row
    <2> QED
      BY <2>1, <2>2
  <1>2. PICK o \in Option, row \in OptionRow : row.price >= 0 /\ WriteOption(o, row)
    BY <1>1
  <1> QED
    BY <1>2 DEF WriteOption, CatalogInv

\* A pricing policy is written.
LEMMA PolicySteps ==
    ASSUME CatalogInv, CreatePricingPolicy \/ UpdatePricingPolicy
    PROVE  CatalogInv'
  <1>1. PICK p \in Policy, kind \in {"discount", "surcharge"} :
           \E row \in PolicyRows(kind) : WritePolicy(p, row)
    <2>1. CASE CreatePricingPolicy
      BY <2>1 DEF CreatePricingPolicy
    <2>2. CASE UpdatePricingPolicy
      <3>1. PICK p \in Policy : /\ Exists(policies[p])
                                /\ \E row \in PolicyRows(policies[p].kind) : WritePolicy(p, row)
        BY <2>2 DEF UpdatePricingPolicy
      <3>2. PICK kind \in {"discount", "surcharge"} : policies[p] \in PolicyRows(kind)
        BY <3>1 DEF CatalogInv, SoundPolicy
      <3>3. policies[p].kind = kind
        BY <3>2 DEF PolicyRows
      <3> QED
        BY <3>1, <3>3
    <2> QED
      BY <2>1, <2>2
  <1>2. PICK row \in PolicyRows(kind) : WritePolicy(p, row)
    BY <1>1
  <1>3. SoundPolicy(row)
    BY <1>2 DEF SoundPolicy
  <1>4. policies' = [policies EXCEPT ![p] = row] /\ UNCHANGED <<items, groups, options, menu>>
    BY <1>2 DEF WritePolicy
  <1> QED
    BY <1>3, <1>4 DEF CatalogInv

\* An item of the menu is written.
LEMMA MenuSteps ==
    ASSUME CatalogInv, CreateMenuItem \/ UpdateMenuItem
    PROVE  CatalogInv'
  <1>1. PICK m \in MenuItem, i \in Item, price \in Amount, s \in Status :
           /\ price >= 0 /\ Exists(items[i])
           /\ WriteMenuItem(m, [status |-> s, item |-> i, price |-> price])
    <2>1. CASE CreateMenuItem
      BY <2>1 DEF CreateMenuItem, CatalogItemAvailable, Exists, Status
    <2>2. CASE UpdateMenuItem
      <3>1. PICK m \in MenuItem, i \in Item, price \in Amount, s \in Status :
               /\ Exists(menu[m])
               /\ i # menu[m].item \/ s = "published" => CatalogItemAvailable(i)
               /\ price >= 0
               /\ WriteMenuItem(m, [status |-> s, item |-> i, price |-> price])
        BY <2>2 DEF UpdateMenuItem
      <3>2. Exists(items[menu[m].item])
        BY <3>1 DEF CatalogInv
      <3>3. Exists(items[i])
        BY <3>1, <3>2 DEF CatalogItemAvailable, Exists
      <3> QED
        BY <3>1, <3>3
    <2> QED
      BY <2>1, <2>2
  <1> DEFINE row == [status |-> s, item |-> i, price |-> price]
  <1>2. row \in MenuRow /\ row.price = price /\ row.item = i
    BY DEF MenuRow
  <1> HIDE DEF row
  <1>3. menu' = [menu EXCEPT ![m] = row] /\ UNCHANGED <<items, groups, options, policies>>
    BY <1>1 DEF WriteMenuItem, row
  <1> QED
    BY <1>1, <1>2, <1>3 DEF CatalogInv

\* Every step of the area keeps the catalog.
LEMMA CatalogStep == ASSUME CatalogInv, CatalogNext PROVE CatalogInv'
  <1>1. CASE CreateCatalogItem \/ UpdateCatalogItem
    BY <1>1, ItemSteps, CatalogItems DEF CreateCatalogItem, UpdateCatalogItem, WriteItem
  <1>2. CASE ArchiveCatalogItem("catalog")
    BY <1>2, ArchiveStep, CatalogItems DEF ArchiveCatalogItem, WriteItem
  <1>3. ASSUME \/ UpdateRestaurant("catalog") /\ UNCHANGED catalog
               \/ CreateCatalogFolder \/ UpdateCatalogFolder
               \/ CreateFolderParameter \/ UpdateFolderParameter
               \/ CreateCatalogTag \/ UpdateCatalogTag \/ AssignCatalogItemTag
               \/ CreateCategory \/ UpdateCategory
               \/ CreateModifierGroupBinding \/ UpdateModifierGroupBinding
        PROVE  UNCHANGED <<items, groups, options, policies, menu>>
    BY <1>3 DEF catalog, CreateCatalogFolder, UpdateCatalogFolder, CreateFolderParameter,
       UpdateFolderParameter, CreateCatalogTag, UpdateCatalogTag, AssignCatalogItemTag,
       CreateCategory, UpdateCategory, Shelve, CreateModifierGroupBinding,
       UpdateModifierGroupBinding, WriteBinding
  <1>4. ASSUME UNCHANGED <<items, groups, options, policies, menu>> PROVE CatalogInv'
    BY <1>4 DEF CatalogInv
  <1> QED
    BY <1>1, <1>2, <1>3, <1>4, GroupSteps, OptionSteps, PolicySteps, MenuSteps
    DEF CatalogNext

\* What the Edge asks of the catalog.
LEMMA CatalogIsValid == ASSUME CatalogInv PROVE CatalogPackagesAreValid
  <1>1. ASSUME NEW i \in Item, Exists(items[i]) PROVE EdgeValidCatalogItem(i)
    BY <1>1 DEF CatalogInv, SoundItem, ValidQRConfig, EdgeValidCatalogItem
  <1>2. ASSUME NEW g \in Group, Exists(groups[g]) PROVE EdgeValidModifierGroup(g)
    <2>0. groups[g] \in [status : Status, min : Amount, max : Amount]
      <3>1. groups[g] \in GroupRow
        BY DEF CatalogInv
      <3> QED
        BY <1>2, <3>1 DEF GroupRow, Exists, None
    <2>1. groups[g].min \in Int /\ groups[g].max \in Int
      BY <2>0, CloudCatalogAssumption
    <2>2. ValidCounts(groups[g].min, groups[g].max)
      BY <1>2 DEF CatalogInv
    <2> QED
      BY <2>1, <2>2 DEF ValidCounts, EdgeValidModifierGroup
  <1>3. ASSUME NEW o \in Option, Exists(options[o]) PROVE EdgeValidModifierOption(o)
    BY <1>3 DEF CatalogInv, EdgeValidModifierOption
  <1>4. ASSUME NEW p \in Policy, Exists(policies[p]) PROVE EdgeValidPricingPolicy(p)
    <2>1. PICK kind \in {"discount", "surcharge"} : policies[p] \in PolicyRows(kind)
      BY <1>4 DEF CatalogInv, SoundPolicy
    <2>2. /\ policies[p].scope \in {"line", "order"}
          /\ policies[p].amount \in {"fixed", "percentage"} /\ policies[p].index > 0
          /\ ValidPolicyScope(policies[p].kind, policies[p].scope)
          /\ ValidPolicyAmount(policies[p].amount, policies[p].minor, policies[p].points)
      BY <2>1 DEF PolicyRows
    <2> QED
      BY <2>2 DEF EdgeValidPricingPolicy, ValidPolicyScope, ValidPolicyAmount
  <1>5. ASSUME NEW m \in MenuItem, Exists(menu[m]) PROVE EdgeValidMenuItem(m)
    BY <1>5 DEF CatalogInv, EdgeValidMenuItem
  <1>6. ASSUME NEW link \in MenuItemModifierGroups
        PROVE  Exists(groups[link[2]]) /\ Exists(items[menu[link[1]].item])
    <2>1. link[1] \in MenuItem /\ Exists(menu[link[1]]) /\ groups[link[2]].status = "published"
      BY <1>6 DEF MenuItemModifierGroups
    <2> QED
      BY <2>1 DEF CatalogInv, Exists
  <1> QED
    BY <1>1, <1>2, <1>3, <1>4, <1>5, <1>6 DEF CatalogPackagesAreValid

-----------------------------------------------------------------------------
(* The recipes.                                                            *)

\* A set of numbers has a least one.
LEMMA SmallestNumber ==
    ASSUME NEW T \in SUBSET Nat, T # {}
    PROVE  \E n \in T : \A m \in T : n <= m
  <1>1. PICK n \in T : \A m \in T : ~(<<m, n>> \in OpToRel(<, Nat))
    BY NatLessThanWellFounded, WFMin
  <1>2. ASSUME NEW m \in T PROVE n <= m
    <2>1. ~(<<m, n>> \in OpToRel(<, Nat))
      BY <1>1
    <2>2. ~(m < n)
      BY <2>1 DEF OpToRel
    <2> QED
      BY <2>2
  <1> QED
    BY <1>2

\* A set of numbers that has a bound has a greatest one.
LEMMA GreatestNumber ==
    ASSUME NEW S \in SUBSET Nat, 0 \in S, NEW bound \in Nat, \A x \in S : x <= bound
    PROVE  Max(S) \in S /\ \A x \in S : x <= Max(S)
  <1> DEFINE Bounds == {n \in Nat : \A x \in S : x <= n}
  <1>1. PICK n \in Bounds : \A m \in Bounds : n <= m
    <2>1. bound \in Bounds
      OBVIOUS
    <2> HIDE DEF Bounds
    <2>2. Bounds \in SUBSET Nat
      BY DEF Bounds
    <2> QED
      BY <2>1, <2>2, SmallestNumber
  <1>2. n \in S
    <2>1. SUFFICES ASSUME n \notin S PROVE FALSE
      OBVIOUS
    <2>2. n \in Nat /\ n # 0
      BY <2>1
    <2>3. \A x \in S : x <= n - 1
      BY <2>1, <2>2
    <2>4. n - 1 \in Bounds
      BY <2>2, <2>3
    <2> QED
      BY <1>1, <2>2, <2>4
  <1>3. \E x \in S : \A y \in S : x >= y
    BY <1>2
  <1> QED
    BY <1>3 DEF Max

\* A row that is there has all of its columns.
LEMMA VersionColumns ==
    ASSUME NEW row \in VersionRow, Exists(row)
    PROVE  row \in [status : {"draft", "review_pending", "active", "archived"}, owner : Item,
                    lines : SUBSET RecipeLine, number : Nat \ {0}]
  BY DEF VersionRow, Exists, None

\* Versions change, and none is lost.
VersionsRemain ==
    /\ SoundVersions(versions')
    /\ \A v \in Version : Exists(versions[v]) => Exists(versions'[v])

\* A step that writes no version.
LEMMA VersionsSame == ASSUME RecipesInv, UNCHANGED versions PROVE VersionsRemain
  BY DEF RecipesInv, VersionsRemain

\* A call still has a version to write.
LEMMA SoundCallStays ==
    ASSUME VersionsRemain, NEW call, SoundCall(call, versions)
    PROVE  SoundCall(call, versions')
  BY DEF VersionsRemain, SoundCall

\* What a step must show.
LEMMA RecipesRemain ==
    ASSUME RecipesInv, VersionsRemain, recipeItems' \in [Item \X Item -> LineRow],
           \A i \in Item : Exists(stops'[i]) => stops'[i].quantity \in Nat,
           \A v \in Version :
               Exists(reviews'[v]) => Exists(reviews[v]) \/ Exists(versions[v]),
           \A m \in Manager : calls'[m] = calls[m] \/ SoundCall(calls'[m], versions')
    PROVE  RecipesInv'
  <1>1. \A v \in Version : Exists(reviews'[v]) => Exists(versions'[v])
    BY DEF RecipesInv, VersionsRemain
  <1>2. \A m \in Manager : SoundCall(calls'[m], versions')
    BY SoundCallStays DEF RecipesInv
  <1> QED
    BY <1>1, <1>2 DEF RecipesInv, VersionsRemain

\* A draft gets a number of its own.
LEMMA DraftStep ==
    ASSUME RecipesInv, NEW m \in Manager, CreateRecipeVersionDraft(m)
    PROVE  VersionsRemain
  <1>1. PICK v \in Version, owner \in Item, lines \in SUBSET Portion :
           /\ ~Exists(versions[v]) /\ ValidLines(owner, lines)
           /\ versions' = [versions EXCEPT ![v] =
                 [status |-> "draft", owner |-> owner, lines |-> lines,
                  number |-> Max({0} \cup {versions[w].number : w \in VersionsOf(owner)})
                             + 1]]
    BY DEF CreateRecipeVersionDraft
  <1> DEFINE numbers == {0} \cup {versions[w].number : w \in VersionsOf(owner)}
             top == Max(numbers)
             number == top + 1
             row == [status |-> "draft", owner |-> owner, lines |-> lines, number |-> number]
  <1>2. versions \in [Version -> VersionRow]
    BY DEF RecipesInv, SoundVersions
  <1>3. \A w \in Version : Exists(versions[w]) => versions[w].number \in Nat
    BY <1>2, VersionColumns
  <1>4. PICK bound \in Nat : \A w \in Version :
            Exists(versions[w]) => versions[w].number <= bound
    BY DEF RecipesInv, SoundVersions
  <1>5. numbers \in SUBSET Nat /\ 0 \in numbers /\ \A x \in numbers : x <= bound
    BY <1>3, <1>4 DEF VersionsOf
  <1>6. top \in numbers /\ \A x \in numbers : x <= top
    <2> HIDE DEF numbers
    <2> QED
      BY <1>5, GreatestNumber
  <1>7. number \in Nat \ {0}
    <2> HIDE DEF numbers, top
    <2> QED
      BY <1>5, <1>6
  <1>8. \A w \in VersionsOf(owner) : versions[w].number < number
    <2>1. ASSUME NEW w \in VersionsOf(owner) PROVE versions[w].number < number
      <3>1. versions[w].number \in numbers
        OBVIOUS
      <3> HIDE DEF numbers, top
      <3>2. versions[w].number \in Nat /\ top \in Nat
        BY <1>5, <1>6, <3>1
      <3>3. versions[w].number <= top
        BY <1>6, <3>1
      <3> QED
        BY <3>2, <3>3
    <2> QED
      BY <2>1
  <1> HIDE DEF number
  <1>9. lines \in SUBSET RecipeLine /\ SoundLines(lines)
    <2>1. lines \in SUBSET RecipeLine
      BY CloudRecipesAssumption
    <2> QED
      BY <1>1, <2>1 DEF ValidLines, ValidPortion, SoundLines, RecipeLine
  <1>10. /\ row \in VersionRow /\ Exists(row) /\ row.lines = lines /\ row.owner = owner
         /\ row.number = number /\ row.status = "draft"
    BY <1>7, <1>9 DEF VersionRow, Exists
  <1>11. versions' = [versions EXCEPT ![v] = row]
    BY <1>1 DEF number
  <1> HIDE DEF row
  <1>12. versions' \in [Version -> VersionRow]
    BY <1>2, <1>10, <1>11
  <1>13. \A w \in Version : versions'[w] = IF w = v THEN row ELSE versions[w]
    BY <1>2, <1>11
  <1>14. \A w \in Version : Exists(versions'[w]) => SoundLines(versions'[w].lines)
    BY <1>9, <1>10, <1>13 DEF RecipesInv, SoundVersions
  <1>15. ASSUME NEW w \in Version, NEW x \in Version, w # x, Exists(versions'[w]),
                Exists(versions'[x]), versions'[w].owner = versions'[x].owner
         PROVE  /\ versions'[w].number # versions'[x].number
                /\ ~(versions'[w].status = "active" /\ versions'[x].status = "active")
    <2>1. CASE w # v /\ x # v
      BY <1>13, <1>15, <2>1 DEF RecipesInv, SoundVersions
    <2>2. CASE w = v
      <3>1. x \in VersionsOf(owner)
        BY <1>10, <1>13, <1>15, <2>2 DEF VersionsOf
      <3>2. versions[x].number < number /\ versions[x].number \in Nat
        BY <1>3, <1>8, <3>1 DEF VersionsOf
      <3> QED
        BY <1>7, <1>10, <1>13, <1>15, <2>2, <3>2
    <2>3. CASE x = v
      <3>1. w \in VersionsOf(owner)
        BY <1>10, <1>13, <1>15, <2>3 DEF VersionsOf
      <3>2. versions[w].number < number /\ versions[w].number \in Nat
        BY <1>3, <1>8, <3>1 DEF VersionsOf
      <3> QED
        BY <1>7, <1>10, <1>13, <1>15, <2>3, <3>2
    <2> QED
      BY <2>1, <2>2, <2>3
  <1>16. \A w \in Version : Exists(versions'[w]) => versions'[w].number <= bound + number
    BY <1>3, <1>4, <1>7, <1>10, <1>13
  <1>17. bound + number \in Nat
    BY <1>7
  <1>18. SoundVersions(versions')
    BY <1>12, <1>14, <1>15, <1>16, <1>17 DEF SoundVersions
  <1> QED
    BY <1>10, <1>13, <1>18 DEF VersionsRemain

\* Versions that keep all but their status, with one in use of each owner.
LEMMA StatusStep ==
    ASSUME RecipesInv, versions' \in [Version -> VersionRow],
           \A v \in Version :
              \/ versions'[v] = versions[v]
              \/ /\ Exists(versions[v]) /\ Exists(versions'[v])
                 /\ versions'[v].owner = versions[v].owner
                 /\ versions'[v].lines = versions[v].lines
                 /\ versions'[v].number = versions[v].number,
           \A v, w \in Version :
              v # w /\ Exists(versions[v]) /\ Exists(versions[w])
              /\ versions[v].owner = versions[w].owner =>
                  ~(versions'[v].status = "active" /\ versions'[w].status = "active")
    PROVE  VersionsRemain
  <1>1. \A v \in Version : Exists(versions'[v]) <=> Exists(versions[v])
    OBVIOUS
  <1>2. \A v \in Version : Exists(versions'[v]) => SoundLines(versions'[v].lines)
    BY <1>1 DEF RecipesInv, SoundVersions
  <1>3. ASSUME NEW v \in Version, NEW w \in Version, v # w, Exists(versions'[v]),
               Exists(versions'[w]), versions'[v].owner = versions'[w].owner
        PROVE  /\ versions'[v].number # versions'[w].number
               /\ ~(versions'[v].status = "active" /\ versions'[w].status = "active")
    <2>1. /\ versions[v].owner = versions[w].owner
          /\ Exists(versions[v]) /\ Exists(versions[w])
      BY <1>1, <1>3
    <2>2. versions[v].number # versions[w].number
      BY <1>3, <2>1 DEF RecipesInv, SoundVersions
    <2>3. /\ versions'[v].number = versions[v].number
          /\ versions'[w].number = versions[w].number
      OBVIOUS
    <2> QED
      BY <1>3, <2>1, <2>2, <2>3
  <1>4. PICK bound \in Nat : \A v \in Version :
            Exists(versions[v]) => versions[v].number <= bound
    BY DEF RecipesInv, SoundVersions
  <1>5. \A v \in Version : Exists(versions'[v]) => versions'[v].number <= bound
    BY <1>1, <1>4
  <1>6. SoundVersions(versions')
    BY <1>2, <1>3, <1>5 DEF SoundVersions
  <1> QED
    BY <1>1, <1>6 DEF VersionsRemain

\* A version with another status is a version.
LEMMA StatusRow ==
    ASSUME NEW row \in VersionRow, Exists(row),
           NEW status \in {"draft", "review_pending", "active", "archived"}
    PROVE  LET other == [row EXCEPT !.status = status]
           IN  /\ other \in VersionRow /\ Exists(other) /\ other.status = status
               /\ other.owner = row.owner /\ other.lines = row.lines
               /\ other.number = row.number
  <1>1. row \in [status : {"draft", "review_pending", "active", "archived"}, owner : Item,
                 lines : SUBSET RecipeLine, number : Nat \ {0}]
    BY VersionColumns
  <1> QED
    BY <1>1 DEF VersionRow, Exists

\* A version is submitted.
LEMMA SubmittedStep ==
    ASSUME RecipesInv, NEW m \in Manager, MarkSubmitted(m)
    PROVE  VersionsRemain
  <1> DEFINE v == calls[m].version
             row == [versions[v] EXCEPT !.status = "review_pending"]
  <1>1. v \in Version /\ Exists(versions[v])
    BY DEF MarkSubmitted, Continue, RecipesInv, SoundCall
  <1>2. versions \in [Version -> VersionRow]
    BY DEF RecipesInv, SoundVersions
  <1>3. versions' = [versions EXCEPT ![v] = row]
    BY DEF MarkSubmitted
  <1>4. /\ row \in VersionRow /\ Exists(row) /\ row.status = "review_pending"
        /\ row.owner = versions[v].owner /\ row.lines = versions[v].lines
        /\ row.number = versions[v].number
    BY <1>1, <1>2, StatusRow
  <1> HIDE DEF v, row
  <1>5. /\ versions' \in [Version -> VersionRow]
        /\ \A w \in Version : versions'[w] = IF w = v THEN row ELSE versions[w]
    BY <1>1, <1>2, <1>3, <1>4
  <1>6. ASSUME NEW w \in Version, NEW x \in Version, w # x, Exists(versions[w]),
               Exists(versions[x]), versions[w].owner = versions[x].owner
        PROVE  ~(versions'[w].status = "active" /\ versions'[x].status = "active")
    <2>1. ~(versions[w].status = "active" /\ versions[x].status = "active")
      BY <1>6 DEF RecipesInv, SoundVersions
    <2> QED
      BY <1>4, <1>5, <2>1
  <1> QED
    BY <1>1, <1>4, <1>5, <1>6, StatusStep

\* A version comes into use, and the one before it is put away.
LEMMA ActivatedStep ==
    ASSUME RecipesInv, NEW v \in Version, Exists(versions[v]), ActivateRecipeVersion(v)
    PROVE  VersionsRemain
  <1>1. versions \in [Version -> VersionRow]
    BY DEF RecipesInv, SoundVersions
  <1> DEFINE PutAway(w) == /\ w # v /\ w \in VersionsOf(versions[v].owner)
                           /\ versions[w].status = "active"
  <1>2. DOMAIN versions' = Version
    BY DEF ActivateRecipeVersion
  <1>3. versions'[v] = [versions[v] EXCEPT !.status = "active"]
    BY DEF ActivateRecipeVersion
  <1>4. \A w \in Version : PutAway(w) =>
            versions'[w] = [versions[w] EXCEPT !.status = "archived"]
    BY DEF ActivateRecipeVersion
  <1>5. \A w \in Version : w # v /\ ~PutAway(w) => versions'[w] = versions[w]
    BY DEF ActivateRecipeVersion
  <1>6. \A w \in Version : PutAway(w) => Exists(versions[w])
    BY DEF VersionsOf
  <1>7. versions' = [w \in Version |-> versions'[w]]
    BY DEF ActivateRecipeVersion
  <1> HIDE DEF PutAway
  <1>8. /\ versions'[v] \in VersionRow /\ Exists(versions'[v])
        /\ versions'[v].owner = versions[v].owner /\ versions'[v].lines = versions[v].lines
        /\ versions'[v].number = versions[v].number
    <2> DEFINE used == [versions[v] EXCEPT !.status = "active"]
    <2>1. /\ used \in VersionRow /\ Exists(used)
          /\ used.owner = versions[v].owner /\ used.lines = versions[v].lines
          /\ used.number = versions[v].number
      BY <1>1, StatusRow
    <2>2. versions'[v] = used
      BY <1>3
    <2> HIDE DEF used
    <2> QED
      BY <2>1, <2>2
  <1>9. ASSUME NEW w \in Version, PutAway(w)
        PROVE  /\ versions'[w] \in VersionRow /\ Exists(versions'[w])
               /\ versions'[w].status = "archived"
               /\ versions'[w].owner = versions[w].owner
               /\ versions'[w].lines = versions[w].lines
               /\ versions'[w].number = versions[w].number
    <2> DEFINE old == [versions[w] EXCEPT !.status = "archived"]
    <2>1. /\ old \in VersionRow /\ Exists(old) /\ old.status = "archived"
          /\ old.owner = versions[w].owner /\ old.lines = versions[w].lines
          /\ old.number = versions[w].number
      BY <1>1, <1>6, <1>9, StatusRow
    <2>2. versions'[w] = old
      BY <1>4, <1>9
    <2> HIDE DEF old
    <2> QED
      BY <2>1, <2>2
  <1>10. versions' \in [Version -> VersionRow]
    <2>1. \A w \in Version : versions'[w] \in VersionRow
      BY <1>1, <1>5, <1>8, <1>9
    <2> QED
      BY <1>7, <2>1
  <1>11. ASSUME NEW w \in Version, NEW x \in Version, w # x, Exists(versions[w]),
                Exists(versions[x]), versions[w].owner = versions[x].owner
         PROVE  ~(versions'[w].status = "active" /\ versions'[x].status = "active")
    <2>1. ~(versions[w].status = "active" /\ versions[x].status = "active")
      BY <1>11 DEF RecipesInv, SoundVersions
    <2>2. ASSUME NEW y \in Version, y # v, Exists(versions[y]),
                 versions[y].owner = versions[v].owner
          PROVE  versions'[y].status # "active"
      <3>1. CASE versions[y].status = "active"
        BY <1>9, <2>2, <3>1 DEF PutAway, VersionsOf
      <3>2. CASE versions[y].status # "active"
        BY <1>5, <2>2, <3>2 DEF PutAway
      <3> QED
        BY <3>1, <3>2
    <2>3. CASE w = v \/ x = v
      BY <1>11, <2>2, <2>3
    <2>4. CASE w # v /\ x # v
      <3>1. \A y \in {w, x} : versions'[y].status = "active" => versions[y].status = "active"
        BY <1>5, <1>9, <2>4
      <3> QED
        BY <2>1, <3>1
    <2> QED
      BY <2>3, <2>4
  <1>12. \A w \in Version :
             \/ versions'[w] = versions[w]
             \/ /\ Exists(versions[w]) /\ Exists(versions'[w])
                /\ versions'[w].owner = versions[w].owner
                /\ versions'[w].lines = versions[w].lines
                /\ versions'[w].number = versions[w].number
    BY <1>5, <1>6, <1>8, <1>9
  <1> QED
    BY <1>10, <1>11, <1>12, StatusStep

\* A recipe line that is written is one the Edge takes.
LEMMA LineWritten ==
    ASSUME RecipesInv, NEW owner, NEW line \in RecipeLine, ValidPortion(line),
           recipeItems' = WithRecipeItem(owner, line)
    PROVE  recipeItems' \in [Item \X Item -> LineRow]
  <1> DEFINE row == [status |-> "kept", quantity |-> line.quantity, loss |-> line.loss]
  <1>1. line.quantity \in Nat \ {0} /\ line.loss \in 0..100
    BY DEF RecipeLine, ValidPortion
  <1>2. row \in LineRow
    BY <1>1 DEF LineRow
  <1> HIDE DEF row
  <1>3. recipeItems' = [recipeItems EXCEPT ![<<owner, line.component>>] = row]
    BY DEF WithRecipeItem, row
  <1> QED
    BY <1>2, <1>3 DEF RecipesInv

\* The commands of the managers.
LEMMA RecipeCommands ==
    ASSUME RecipesInv, NEW m \in Manager,
           \/ CreateRecipeItem(m) \/ UpdateRecipeItem(m) \/ CreateRecipeVersionDraft(m)
           \/ UpsertStopListEntry(m)
    PROVE  RecipesInv' /\ UNCHANGED catalog
  <1>0. Portion \subseteq RecipeLine
    BY CloudRecipesAssumption
  <1>1. CASE CreateRecipeItem(m) \/ UpdateRecipeItem(m)
    <2>1. UNCHANGED <<catalog, versions, stops, reviews, calls>>
      BY <1>1 DEF CreateRecipeItem, UpdateRecipeItem
    <2>2. PICK owner \in Item, line \in Portion :
             ValidPortion(line) /\ recipeItems' = WithRecipeItem(owner, line)
      BY <1>1 DEF CreateRecipeItem, UpdateRecipeItem, StoresRecipeItem
    <2>3. recipeItems' \in [Item \X Item -> LineRow]
      BY <1>0, <2>2, LineWritten
    <2> QED
      BY <2>1, <2>3, VersionsSame, RecipesRemain DEF RecipesInv
  <1>2. CASE CreateRecipeVersionDraft(m)
    <2>1. UNCHANGED <<catalog, recipeItems, stops, reviews, calls>>
      BY <1>2 DEF CreateRecipeVersionDraft
    <2> QED
      BY <1>2, <2>1, DraftStep, RecipesRemain DEF RecipesInv
  <1>3. CASE UpsertStopListEntry(m)
    <2>1. UNCHANGED <<catalog, recipeItems, versions, reviews, calls>>
      BY <1>3 DEF UpsertStopListEntry
    <2>2. PICK i \in Item, quantity \in Amount, active \in BOOLEAN :
             /\ quantity >= 0
             /\ stops' = [stops EXCEPT ![i] = [status |-> "kept", active |-> active,
                                               quantity |-> quantity]]
      BY <1>3 DEF UpsertStopListEntry
    <2>3. quantity \in Nat
      BY <2>2, CloudCatalogAssumption
    <2>4. \A j \in Item : Exists(stops'[j]) => stops'[j].quantity \in Nat
      <3> DEFINE row == [status |-> "kept", active |-> active, quantity |-> quantity]
      <3>1. row.quantity \in Nat
        BY <2>3
      <3> HIDE DEF row
      <3>2. stops' = [stops EXCEPT ![i] = row]
        BY <2>2 DEF row
      <3> QED
        BY <3>1, <3>2 DEF RecipesInv
    <2> QED
      BY <2>1, <2>4, VersionsSame, RecipesRemain DEF RecipesInv
  <1> QED
    BY <1>1, <1>2, <1>3

\* A call that writes no version.
LEMMA OtherSoundCall ==
    ASSUME NEW call, call.op \notin {"submit", "approve", "store", "assign"}, NEW rowsNow
    PROVE  SoundCall(call, rowsNow)
  BY DEF SoundCall

\* A manager's call goes on, and no recipe is written.
LEMMA OnlyCall ==
    ASSUME RecipesInv, UNCHANGED <<recipeItems, versions, stops>>,
           \A v \in Version :
               Exists(reviews'[v]) => Exists(reviews[v]) \/ Exists(versions[v]),
           DOMAIN calls = Manager, NEW m \in Manager, NEW call,
           calls' = [calls EXCEPT ![m] = call], SoundCall(call, versions)
    PROVE  RecipesInv'
  <1>1. \A n \in Manager : calls'[n] = calls[n] \/ SoundCall(calls'[n], versions')
    OBVIOUS
  <1> QED
    BY <1>1, VersionsSame, RecipesRemain DEF RecipesInv

\* What is put into the queue of reviews, and what is submitted.
LEMMA QueueKeeps ==
    ASSUME RecipesInv, ReviewInv,
           \/ SuggestionArrives
           \/ \E m \in Manager : SubmitRecipeVersion(m) \/ MarkSubmitted(m)
    PROVE  RecipesInv' /\ UNCHANGED catalog
  <1>0. DOMAIN calls = Manager /\ DOMAIN reviews = Review \cup Version
    BY DEF ReviewInv
  <1>1. CASE SuggestionArrives
    <2>1. UNCHANGED <<catalog, recipeItems, versions, stops, calls>>
      BY <1>1 DEF SuggestionArrives
    <2>2. PICK r \in Review : reviews' = [reviews EXCEPT ![r] = NewReview]
      BY <1>1 DEF SuggestionArrives
    <2>3. \A v \in Version : reviews'[v] = reviews[v]
      BY <1>0, <2>2, CloudRecipesAssumption
    <2> QED
      BY <2>1, <2>3, VersionsSame, RecipesRemain DEF RecipesInv
  <1>2. ASSUME NEW m \in Manager, SubmitRecipeVersion(m) PROVE RecipesInv' /\ UNCHANGED catalog
    <2>1. UNCHANGED <<catalog, recipeItems, versions, stops>>
      BY <1>2 DEF SubmitRecipeVersion
    <2>2. PICK v \in Version :
             /\ versions[v].status \in {"draft", "review_pending"}
             /\ reviews' = IF Exists(reviews[v]) THEN reviews
                           ELSE [reviews EXCEPT ![v] = NewReview]
             /\ calls' = [calls EXCEPT ![m] = [op |-> "submit", version |-> v]]
      BY <1>2 DEF SubmitRecipeVersion, Enter
    <2>3. Exists(versions[v])
      BY <2>2 DEF Exists
    <2>4. \A w \in Version : Exists(reviews'[w]) => Exists(reviews[w]) \/ Exists(versions[w])
      BY <1>0, <2>2, <2>3
    <2>5. SoundCall([op |-> "submit", version |-> v], versions)
      BY <2>3 DEF SoundCall
    <2> QED
      BY <1>0, <2>1, <2>2, <2>4, <2>5, OnlyCall
  <1>3. ASSUME NEW m \in Manager, MarkSubmitted(m) PROVE RecipesInv' /\ UNCHANGED catalog
    <2>1. UNCHANGED <<catalog, recipeItems, stops, reviews>>
      BY <1>3 DEF MarkSubmitted
    <2>2. calls' = [calls EXCEPT ![m] = Idle]
      BY <1>3 DEF MarkSubmitted, End
    <2>3. SoundCall(Idle, versions')
      BY OtherSoundCall DEF Idle
    <2>4. \A n \in Manager : calls'[n] = calls[n] \/ SoundCall(calls'[n], versions')
      BY <1>0, <2>2, <2>3
    <2> QED
      BY <1>3, <2>1, <2>4, SubmittedStep, RecipesRemain DEF RecipesInv
  <1> QED
    BY <1>1, <1>2, <1>3

\* An approval begins with the version it is of, if it is of one.
LEMMA ApproveKeeps ==
    ASSUME RecipesInv, ReviewInv, NEW m \in Manager, Approve(m)
    PROVE  RecipesInv' /\ UNCHANGED catalog
  <1>1. UNCHANGED <<catalog, recipeItems, versions, stops, reviews>>
    BY DEF Approve
  <1>2. PICK r \in Review \cup Version :
           /\ Exists(reviews[r])
           /\ calls' = [calls EXCEPT ![m] = [op |-> "approve", review |-> r,
                                             row |-> reviews[r], todo |-> Effects(r)]]
    BY DEF Approve, Enter
  <1> DEFINE call == [op |-> "approve", review |-> r, row |-> reviews[r],
                      todo |-> Effects(r)]
  <1>3. ASSUME NEW n \in DOMAIN Effects(r), Effects(r)[n].write = "version"
        PROVE  Effects(r)[n].version \in Version /\ Exists(versions[Effects(r)[n].version])
    <2>1. CASE r \in Version
      <3>1. Effects(r) = <<[write |-> "version", version |-> r]>>
        BY <2>1 DEF Effects, Kind
      <3>2. Effects(r)[n].version = r
        BY <1>3, <3>1
      <3> QED
        BY <1>2, <2>1, <3>2 DEF RecipesInv
    <2>2. CASE r \in Review \ Version
      <3>1. Kind(r) \in {"create", "update", "stop_list", "change"}
        BY <2>2, CloudRecipesAssumption DEF Kind
      <3>2. Effects(r)[n].write # "version"
        <4>1. CASE Kind(r) = "create"
          BY <1>3, <4>1 DEF Effects
        <4>2. CASE Kind(r) = "update"
          BY <1>3, <4>2 DEF Effects
        <4>3. CASE Kind(r) = "stop_list"
          BY <1>3, <4>3 DEF Effects
        <4>4. CASE Kind(r) = "change"
          BY <1>3, <4>4 DEF Effects
        <4> QED
          BY <3>1, <4>1, <4>2, <4>3, <4>4
      <3> QED
        BY <1>3, <3>2
    <2> QED
      BY <2>1, <2>2
  <1>4. call.op = "approve" /\ call.review = r /\ call.todo = Effects(r)
    OBVIOUS
  <1> HIDE DEF call
  <1>5. SoundCall(call, versions)
    BY <1>2, <1>3, <1>4 DEF SoundCall, RecipesInv
  <1> QED
    BY <1>1, <1>2, <1>5, OnlyCall DEF ReviewInv, call

\* A refusal and an assignment begin with the version they are of, if they are of one.
LEMMA TurnKeeps ==
    ASSUME RecipesInv, ReviewInv, NEW m \in Manager, Turn(m) \/ Assign(m)
    PROVE  RecipesInv' /\ UNCHANGED catalog
  <1>1. UNCHANGED <<catalog, recipeItems, versions, stops, reviews>>
    BY DEF Turn, Assign
  <1>2. CASE Turn(m)
    <2>1. PICK r \in Review \cup Version, status \in {"rejected", "changes_requested"} :
             /\ Exists(reviews[r])
             /\ calls' = [calls EXCEPT ![m] = [op |-> "store", review |-> r,
                             row |-> [reviews[r] EXCEPT !.status = status]]]
      BY <1>2 DEF Turn, Enter
    <2> DEFINE call == [op |-> "store", review |-> r,
                        row |-> [reviews[r] EXCEPT !.status = status]]
    <2>2. call.op = "store" /\ call.review = r
      OBVIOUS
    <2> HIDE DEF call
    <2>3. SoundCall(call, versions)
      BY <2>1, <2>2 DEF SoundCall, RecipesInv
    <2> QED
      BY <1>1, <2>1, <2>3, OnlyCall DEF ReviewInv, call
  <1>3. CASE Assign(m)
    <2>1. PICK r \in Review, command \in CommandId, assigned \in BOOLEAN :
             calls' = [calls EXCEPT ![m] =
                         [op |-> "assign", review |-> r, command |-> command,
                          row |-> [reviews[r] EXCEPT !.assigned = assigned]]]
      BY <1>3 DEF Assign, Enter
    <2> DEFINE call == [op |-> "assign", review |-> r, command |-> command,
                        row |-> [reviews[r] EXCEPT !.assigned = assigned]]
    <2>2. call.op = "assign" /\ call.review = r /\ r \notin Version
      BY CloudRecipesAssumption
    <2> HIDE DEF call
    <2>3. SoundCall(call, versions)
      BY <2>2 DEF SoundCall
    <2> QED
      BY <1>1, <2>1, <2>3, OnlyCall DEF ReviewInv, call
  <1> QED
    BY <1>2, <1>3

\* An answer is written to the review it was read from.
LEMMA AnswerKeeps ==
    ASSUME RecipesInv, ReviewInv, NEW m \in Manager,
           \/ StoreApproval(m) \/ StoreReview(m) \/ StoreAssignment(m)
           \/ AppendAudit(m) \/ CallStops(m)
    PROVE  RecipesInv' /\ UNCHANGED catalog
  <1>1. UNCHANGED <<catalog, recipeItems, versions, stops>>
    BY DEF StoreApproval, StoreReview, StoreAssignment, AppendAudit, CallStops
  <1>2. PICK call : /\ calls' = [calls EXCEPT ![m] = call]
                    /\ call.op \notin {"submit", "approve", "store", "assign"}
    <2>1. CASE StoreApproval(m) \/ StoreReview(m) \/ AppendAudit(m) \/ CallStops(m)
      <3>1. Idle.op \notin {"submit", "approve", "store", "assign"}
        BY DEF Idle
      <3> QED
        BY <2>1, <3>1 DEF StoreApproval, StoreReview, AppendAudit, CallStops, End
    <2>2. CASE StoreAssignment(m)
      <3> DEFINE note == [op |-> "note", command |-> calls[m].command]
      <3>1. calls' = [calls EXCEPT ![m] = note] /\ note.op = "note"
        BY <2>2 DEF StoreAssignment, Enter
      <3> HIDE DEF note
      <3> QED
        BY <3>1
    <2> QED
      BY <2>1, <2>2
  <1>3. \A v \in Version : Exists(reviews'[v]) => Exists(reviews[v]) \/ Exists(versions[v])
    <2>1. CASE AppendAudit(m) \/ CallStops(m)
      BY <2>1 DEF AppendAudit, CallStops
    <2>2. CASE StoreApproval(m) \/ StoreReview(m) \/ StoreAssignment(m)
      <3>1. /\ calls[m].op \in {"approve", "store", "assign"}
            /\ \E row : reviews' = [reviews EXCEPT ![calls[m].review] = row]
        BY <2>2 DEF StoreApproval, StoreReview, StoreAssignment, Continue
      <3>2. calls[m].review \in Version => Exists(versions[calls[m].review])
        BY <3>1 DEF RecipesInv, SoundCall
      <3> QED
        BY <3>1, <3>2 DEF ReviewInv
    <2> QED
      BY <2>1, <2>2
  <1>4. SoundCall(call, versions)
    BY <1>2, OtherSoundCall
  <1> QED
    BY <1>1, <1>2, <1>3, <1>4, OnlyCall DEF ReviewInv

\* The next effect of an approval is of a version there is, of a line or of an entry the
\* Edge takes.
LEMMA ApplyNextKeeps ==
    ASSUME RecipesInv, CatalogInv, ReviewInv, NEW m \in Manager, ApplyNext(m)
    PROVE  RecipesInv' /\ CatalogInv'
  <1> DEFINE todo == calls[m].todo
             e == Head(todo)
             next == [calls[m] EXCEPT !.todo = Tail(@)]
  <1>1. /\ UNCHANGED <<groups, options, policies, menu, reviews>>
        /\ calls[m].op = "approve" /\ DOMAIN calls = Manager
    BY DEF ApplyNext, Continue, ReviewInv
  <1>2. /\ todo # <<>> /\ todo \in Seq(Effect) /\ IsEffect(e)
        /\ \/ UNCHANGED <<items, recipeItems, versions, activated, stops>> /\ End(m)
           \/ Takes(e) /\ Write(e) /\ Enter(m, next)
    BY NextEffect
  <1>3. CASE UNCHANGED <<items, recipeItems, versions, activated, stops>> /\ End(m)
    <2>1. SoundCall(Idle, versions)
      BY OtherSoundCall DEF Idle
    <2>2. calls' = [calls EXCEPT ![m] = Idle]
      BY <1>3 DEF End
    <2>3. RecipesInv'
      BY <1>1, <1>3, <2>1, <2>2, OnlyCall
    <2> QED
      BY <1>1, <1>3, <2>3 DEF CatalogInv
  <1>4. CASE Takes(e) /\ Write(e) /\ Enter(m, next)
    <2>1. \A j \in DOMAIN Tail(todo) : \E k \in DOMAIN todo : todo[k] = Tail(todo)[j]
      BY <1>2, HeadOrTail
    <2>2. /\ calls[m].review \in Version => Exists(versions[calls[m].review])
          /\ \A k \in DOMAIN todo : todo[k].write = "version" =>
                todo[k].version \in Version /\ Exists(versions[todo[k].version])
      BY <1>1 DEF RecipesInv, SoundCall
    <2>3. calls[m] \in [op : {"approve"}, review : Review \cup Version, row : ReviewRow,
                        todo : Seq(Effect)]
      BY <1>1 DEF ReviewInv, CallKeepsItsWord
    <2>4. next.op = "approve" /\ next.review = calls[m].review /\ next.todo = Tail(todo)
      BY <2>3
    <2>5. e.write = "version" => e.version \in Version /\ Exists(versions[e.version])
      <3>1. \E k \in DOMAIN todo : todo[k] = e
        BY <1>2, HeadOrTail
      <3> QED
        BY <2>2, <3>1
    <2>6. calls' = [calls EXCEPT ![m] = next]
      BY <1>4 DEF Enter
    <2> HIDE DEF next, e
    <2>7. SoundCall(next, versions)
      <3>1. ASSUME NEW j \in DOMAIN next.todo, next.todo[j].write = "version"
            PROVE  /\ next.todo[j].version \in Version
                   /\ Exists(versions[next.todo[j].version])
        <4>1. PICK k \in DOMAIN todo : todo[k] = next.todo[j]
          BY <2>1, <2>4
        <4> QED
          BY <2>2, <3>1, <4>1
      <3> QED
        BY <2>2, <2>4, <3>1 DEF SoundCall
    <2>8. /\ VersionsRemain /\ recipeItems' \in [Item \X Item -> LineRow]
          /\ \A i \in Item : Exists(stops'[i]) => stops'[i].quantity \in Nat
          /\ CatalogInv'
      <3>1. CASE e.write = "item" /\ e.item \in Item
        <4> DEFINE row == [status |-> "published", kind |-> "dish", folder |-> "none",
                           ticket |-> NoTicket]
        <4>1. /\ items' = [items EXCEPT ![e.item] = row]
              /\ UNCHANGED <<recipeItems, versions, stops>>
          BY <1>4, <3>1 DEF Write
        <4>2. Exists(row) /\ SoundItem(row)
          BY DEF Exists, SoundItem, ValidQRConfig, NoTicket
        <4> HIDE DEF row
        <4>3. ItemsRemain
          BY <3>1, <4>1, <4>2, ItemWritten
        <4> QED
          BY <1>1, <4>1, <4>3, CatalogItems, VersionsSame DEF RecipesInv
      <3>2. CASE e.write = "name"
        <4>1. UNCHANGED <<items, recipeItems, versions, stops>>
          BY <1>4, <3>2 DEF Write
        <4> QED
          BY <1>1, <4>1, VersionsSame DEF RecipesInv, CatalogInv
      <3>3. CASE e.write = "stop" /\ e.item \in Item /\ e.quantity \in Nat
        <4> DEFINE row == [status |-> "kept", active |-> e.active, quantity |-> e.quantity]
        <4>1. /\ UNCHANGED <<items, recipeItems, versions>>
              /\ stops' = [stops EXCEPT ![e.item] = row]
          BY <1>4, <3>3 DEF Write
        <4>2. row.quantity \in Nat
          BY <3>3
        <4> HIDE DEF row
        <4>3. \A i \in Item : Exists(stops'[i]) => stops'[i].quantity \in Nat
          BY <4>1, <4>2 DEF RecipesInv
        <4> QED
          BY <1>1, <4>1, <4>3, VersionsSame DEF RecipesInv, CatalogInv
      <3>4. CASE e.write = "version"
        <4>1. UNCHANGED <<items, recipeItems, stops>> /\ ActivateRecipeVersion(e.version)
          BY <1>4, <3>4 DEF Write
        <4>2. VersionsRemain
          BY <2>5, <3>4, <4>1, ActivatedStep
        <4> QED
          BY <1>1, <4>1, <4>2 DEF RecipesInv, CatalogInv
      <3>5. CASE e.write = "line" /\ e.owner \in Item /\ e.line \in RecipeLine
        <4>1. /\ UNCHANGED <<items, versions, stops>>
              /\ recipeItems' = WithRecipeItem(e.owner, e.line)
          BY <1>4, <3>5 DEF Write
        <4>2. ValidPortion(e.line)
          BY <1>4, <3>5 DEF Takes, StoresRecipeItem
        <4>3. recipeItems' \in [Item \X Item -> LineRow]
          BY <3>5, <4>1, <4>2, LineWritten
        <4> QED
          BY <1>1, <4>1, <4>3, VersionsSame DEF RecipesInv, CatalogInv
      <3> QED
        BY <1>2, <3>1, <3>2, <3>3, <3>4, <3>5 DEF IsEffect
    <2>9. \A n \in Manager : calls'[n] = calls[n] \/ SoundCall(calls'[n], versions')
      <3>1. SoundCall(next, versions')
        BY <2>7, <2>8, SoundCallStays
      <3> QED
        BY <1>1, <2>6, <3>1
    <2>10. \A v \in Version :
              Exists(reviews'[v]) => Exists(reviews[v]) \/ Exists(versions[v])
      BY <1>1
    <2> QED
      BY <2>8, <2>9, <2>10, RecipesRemain
  <1> QED
    BY <1>2, <1>3, <1>4

\* Every step of the tenant keeps the recipes and the catalog.
LEMMA RecipesKeep ==
    ASSUME RecipesInv, CatalogInv, ReviewInv, [Next]_vars
    PROVE  RecipesInv' /\ CatalogInv'
  <1>1. ASSUME UNCHANGED recipes PROVE RecipesInv'
    BY <1>1 DEF recipes, RecipesInv
  <1>2. ASSUME UNCHANGED catalog PROVE CatalogInv'
    BY <1>2 DEF catalog, CatalogInv
  <1>3. CASE InRecipes(RecipesNext)
    <2>1. CASE ArchiveCatalogItem("recipes") /\ UNCHANGED recipes
      BY <1>1, <2>1, ArchiveStep, CatalogItems DEF ArchiveCatalogItem, WriteItem
    <2>2. CASE SuggestionArrives
      BY <1>2, <2>2, QueueKeeps
    <2>3. ASSUME NEW m \in Manager,
                 \/ CreateRecipeItem(m) \/ UpdateRecipeItem(m)
                 \/ CreateRecipeVersionDraft(m) \/ UpsertStopListEntry(m)
          PROVE  RecipesInv' /\ CatalogInv'
      BY <1>2, <2>3, RecipeCommands
    <2>4. ASSUME NEW m \in Manager,
                 \/ SubmitRecipeVersion(m) \/ MarkSubmitted(m) \/ Approve(m)
                 \/ StoreApproval(m) \/ Turn(m) \/ StoreReview(m)
                 \/ Assign(m) \/ StoreAssignment(m) \/ AppendAudit(m) \/ CallStops(m)
          PROVE  RecipesInv' /\ CatalogInv'
      BY <1>2, <2>4, QueueKeeps, ApproveKeeps, TurnKeeps, AnswerKeeps
    <2> QED
      BY <1>3, <2>1, <2>2, <2>3, <2>4, ApplyNextKeeps DEF InRecipes, RecipesNext
  <1>4. CASE InCatalog(CatalogNext)
    BY <1>1, <1>4, CatalogStep DEF InCatalog
  <1>5. CASE UNCHANGED <<catalog, recipes>>
    BY <1>1, <1>2, <1>5
  <1> QED
    BY <1>3, <1>4, <1>5
    DEF Next, vars, InFloor, InStaff, InPrint, InDelivery, InMessages

\* The catalog and the recipes a tenant starts with.
LEMMA CatalogStarts == ASSUME Init PROVE CatalogInv
  <1>1. /\ items = [i \in Item |->
                      IF FirstItems[i] = "none" THEN None
                      ELSE [status |-> "published", kind |-> FirstItems[i],
                            folder |-> "none", ticket |-> NoTicket]]
        /\ groups = [g \in Group |-> None] /\ options = [o \in Option |-> None]
        /\ policies = [p \in Policy |-> None] /\ menu = [m \in MenuItem |-> None]
    BY DEF Init, CatalogInit
  <1>2. ~Exists(None)
    BY DEF Exists, None
  <1>3. ASSUME NEW i \in Item PROVE SoundItem(items[i])
    <2> DEFINE row == [status |-> "published", kind |-> FirstItems[i], folder |-> "none",
                       ticket |-> NoTicket]
    <2>1. SoundItem(row)
      BY DEF SoundItem, ValidQRConfig, NoTicket
    <2>2. SoundItem(None)
      BY <1>2 DEF SoundItem
    <2>3. items[i] = None \/ items[i] = row
      BY <1>1
    <2> HIDE DEF row
    <2> QED
      BY <2>1, <2>2, <2>3
  <1> QED
    BY <1>1, <1>2, <1>3 DEF CatalogInv, GroupRow, OptionRow, MenuRow, SoundPolicy

\* It holds of the versions that are there at first.
LEMMA RecipesStart == ASSUME Init PROVE RecipesInv
  <1>1. /\ recipeItems = [pair \in Item \X Item |-> None] /\ versions = FirstVersions
        /\ stops = [i \in Item |-> None] /\ reviews = [r \in Review \cup Version |-> None]
        /\ calls = [m \in Manager |-> Idle]
    BY DEF Init, RecipesInit
  <1>2. ~Exists(None)
    BY DEF Exists, None
  <1> DEFINE count == Cardinality(FirstRows)
             FirstRow == [status : {"draft", "active", "archived"}, owner : Item,
                          lines : SUBSET RecipeLine, number : 1..count]
  <1>3. count \in Nat
    BY CloudRecipesAssumption, FS_CardinalityType
  <1>4. FirstVersions \in [Version -> {None} \cup FirstRow]
    BY CloudRecipesAssumption
  <1>5. \A v \in FirstRows :
           /\ SoundLines(FirstVersions[v].lines)
           /\ \A w \in FirstRows : v # w /\ FirstVersions[v].owner = FirstVersions[w].owner =>
                 /\ FirstVersions[v].number # FirstVersions[w].number
                 /\ ~(FirstVersions[v].status = "active" /\ FirstVersions[w].status = "active")
    BY CloudRecipesAssumption DEF SoundLines
  <1> HIDE DEF count
  <1>6. FirstRow \subseteq VersionRow
    BY <1>3 DEF VersionRow
  <1>7. \A v \in Version : Exists(FirstVersions[v]) =>
           v \in FirstRows /\ FirstVersions[v] \in FirstRow
    BY <1>2, <1>4 DEF FirstRows
  <1>8. \A v \in Version : Exists(FirstVersions[v]) => FirstVersions[v].number <= count
    BY <1>3, <1>7
  <1>9. FirstVersions \in [Version -> VersionRow]
    <2>1. None \in VersionRow
      BY DEF VersionRow
    <2> HIDE DEF FirstRow
    <2> QED
      BY <1>4, <1>6, <2>1
  <1> HIDE DEF FirstRow
  <1>10. SoundVersions(versions)
    BY <1>1, <1>3, <1>5, <1>7, <1>8, <1>9 DEF SoundVersions
  <1>11. SoundCall(Idle, versions)
    BY OtherSoundCall DEF Idle
  <1> QED
    BY <1>1, <1>2, <1>10, <1>11 DEF RecipesInv, LineRow

\* What the Cloud keeps of recipes is what the Edge takes.
LEMMA RecipesAreValid ==
    ASSUME RecipesInv, ReviewInv
    PROVE  RecipePackagesAreValid
  <1>1. /\ versions \in [Version -> VersionRow]
        /\ \A v \in Version : Exists(versions[v]) => SoundLines(versions[v].lines)
        /\ \A v, w \in Version :
              v # w /\ Exists(versions[v]) /\ Exists(versions[w])
              /\ versions[v].owner = versions[w].owner =>
                  /\ versions[v].number # versions[w].number
                  /\ ~(versions[v].status = "active" /\ versions[w].status = "active")
    BY DEF RecipesInv, SoundVersions
  <1>2. ASSUME NEW v \in DeliveredVersions PROVE EdgeValidVersion(v)
    <2>1. v \in Version /\ Exists(versions[v])
      BY DEF DeliveredVersions, Exists
    <2>2. versions[v].number \in Nat \ {0}
      BY <1>1, <2>1, VersionColumns
    <2>3. /\ \A line \in versions[v].lines : line.quantity > 0 /\ line.loss \in 0..100
          /\ \A line, other \in versions[v].lines :
                line.component = other.component => line = other
      BY <1>1, <2>1 DEF SoundLines
    <2>4. \A line \in versions[v].lines :
             line.quantity > 0 /\ line.loss >= 0 /\ line.loss <= 100
      BY <2>3
    <2>5. ASSUME NEW w \in DeliveredVersions \ {v}, versions[w].owner = versions[v].owner
          PROVE  /\ versions[w].number # versions[v].number
                 /\ ~(versions[w].status = "active" /\ versions[v].status = "active")
      <3>1. w \in Version /\ Exists(versions[w]) /\ w # v
        BY DEF DeliveredVersions, Exists
      <3> QED
        BY <1>1, <2>1, <2>5, <3>1
    <2> QED
      BY <2>2, <2>3, <2>4, <2>5 DEF EdgeValidVersion
  <1>3. ASSUME NEW o \in Item, NEW c \in Item, Exists(recipeItems[<<o, c>>])
        PROVE  recipeItems[<<o, c>>].quantity > 0 /\ recipeItems[<<o, c>>].loss \in 0..100
    <2>1. recipeItems[<<o, c>>] \in LineRow
      BY DEF RecipesInv
    <2>2. recipeItems[<<o, c>>] \in [status : {"kept"}, quantity : Nat \ {0}, loss : 0..100]
      BY <1>3, <2>1 DEF LineRow, Exists, None
    <2> QED
      BY <2>2
  <1>4. ASSUME NEW i \in Item, Exists(stops[i]) PROVE EdgeValidStopListEntry(i)
    <2>1. stops[i].quantity \in Nat
      BY <1>4 DEF RecipesInv
    <2> QED
      BY <2>1 DEF EdgeValidStopListEntry
  <1>5. ASSUME NEW r \in Review \cup Version, Exists(reviews[r]) PROVE EdgeValidFeedback(r)
    <2>1. reviews[r] \in ReviewRow
      BY DEF ReviewInv
    <2> QED
      BY <1>5, <2>1 DEF ReviewRow, Exists, EdgeValidFeedback
  <1>6. LegacyOwners \subseteq Item
    BY DEF LegacyOwners
  <1> QED
    BY <1>2, <1>3, <1>4, <1>5, <1>6 DEF RecipePackagesAreValid

\* And so are the plan of the hall and the printers.
LEMMA FloorIsValid ==
    ASSUME FloorInv
    PROVE  ValidSections /\ ValidTables /\ ValidPoints
  <1>1. ASSUME NEW s \in Section, Exists(sections[s])
        PROVE  CASE sections[s].mode = "hall_section" -> ~sections[s].routed
                 [] sections[s].mode = "kitchen_workshop" -> sections[s].hall = "none"
    <2>1. sections[s].mode \in {"hall_section", "kitchen_workshop"}
      BY <1>1, FloorColumns DEF FloorInv
    <2>2. StoredSection(sections[s])
      BY <1>1 DEF FloorInv
    <2> QED
      BY <2>1, <2>2 DEF StoredSection
  <1>2. ASSUME NEW t \in Table, Exists(tables[t]) PROVE tables[t].section \in Section
    BY <1>2, FloorColumns DEF FloorInv
  <1>3. ASSUME NEW p \in Point, Exists(points[p]) PROVE points[p].table \in Table
    BY <1>3, FloorColumns DEF FloorInv, KeptPoint
  <1> QED
    BY <1>1, <1>2, <1>3 DEF ValidSections, ValidTables, ValidPoints

\* Printers that keep to the invariant are what the Edge takes.
LEMMA PrintersAreValid == ASSUME PrintersInv PROVE ValidPrinters
  <1>1. ASSUME NEW r \in Restaurant, NEW p \in PrintersOf(r)
        PROVE  Unreachable(printers[p]) \/ EdgeTakesPrinter(printers[p])
    <2>1. p \in Printer /\ Exists(printers[p])
      BY DEF PrintersOf, Exists
    <2>2. printers[p] \in [status : {"active", "off"}, at : Restaurant, type : {"tcp", "usb"},
                           address : BOOLEAN, port : BOOLEAN,
                           documents : {list \in Lists : ProperList(list)}]
      BY <2>1, PrinterColumns DEF PrintersInv
    <2>3. ProperList(printers[p].documents)
      BY <2>2
    <2> QED
      BY <2>2, <2>3 DEF Unreachable, EdgeTakesPrinter, ProperList
  <1> QED
    BY <1>1 DEF ValidPrinters

\* Whatever the managers write and in whatever order, each row the Cloud keeps and delivers
\* is one the Edge takes, so that none holds up its stream.
THEOREM PackagesAreAlwaysValid == Spec => []PackagesAreValid
  <1>1. ASSUME Init PROVE PackagesInv
    <2>1. /\ sections = [s \in Section |-> None] /\ tables = [t \in Table |-> None]
          /\ points = [p \in Point |-> None] /\ floorCalls = {}
          /\ printers = [p \in Printer |-> None]
      BY <1>1 DEF Init, FloorInit, PrintInit
    <2>2. ~Exists(None)
      BY DEF Exists, None
    <2>3. FloorInv /\ PrintersInv
      BY <2>1, <2>2 DEF FloorInv, SectionRow, TableRow, PointRow, PrintersInv, PrinterRow
    <2> QED
      BY <1>1, <2>3, CatalogStarts, RecipesStart, ReviewsStart DEF PackagesInv
  <1>2. ASSUME PackagesInv, [Next]_vars PROVE PackagesInv'
    BY <1>2, FloorKeeps, PrintersKeep, RecipesKeep, ReviewsKeep DEF PackagesInv
  <1>3. ASSUME PackagesInv PROVE PackagesAreValid
    BY <1>3, FloorIsValid, PrintersAreValid, CatalogIsValid, RecipesAreValid
    DEF PackagesInv, PackagesAreValid
  <1> QED
    BY <1>1, <1>2, <1>3, PTL DEF Spec

-----------------------------------------------------------------------------
(* Messages of master data: the order in which tables are written.         *)

\* The tables are written at different places.
LEMMA OrderIsInjective ==
    /\ DOMAIN WriteOrder = 1..30
    /\ \A i, j \in 1..30 : WriteOrder[i] = WriteOrder[j] => i = j
  BY DEF WriteOrder, Links

\* A table is written where the order has it.
LEMMA PlaceIs == ASSUME NEW n \in 1..30 PROVE PlaceOf(WriteOrder[n]) = n
  BY OrderIsInjective DEF PlaceOf

\* So a table has its place.
LEMMA TablesHavePlaces == ASSUME NEW t \in MasterTable PROVE PlaceOf(t) \in 1..30
  BY OrderIsInjective, PlaceIs DEF MasterTable, Range

\* The places of the tables that name others or are named.
LEMMA Places ==
    /\ PlaceOf("restaurants") = 1 /\ PlaceOf("devices") = 2 /\ PlaceOf("roles") = 3
    /\ PlaceOf("employees") = 4 /\ PlaceOf("restaurant_sections") = 5
    /\ PlaceOf("halls") = 6 /\ PlaceOf("tables") = 7 /\ PlaceOf("folders") = 8
    /\ PlaceOf("folder_parameters") = 9 /\ PlaceOf("tags") = 10
    /\ PlaceOf("catalog_items") = 11 /\ PlaceOf("item_tags") = 12
    /\ PlaceOf("modifier_groups") = 13 /\ PlaceOf("modifier_options") = 14
    /\ PlaceOf("modifier_bindings") = 15 /\ PlaceOf("menu_items") = 16
    /\ PlaceOf(Links) = 17 /\ PlaceOf("tax_profiles") = 18
    /\ PlaceOf("tax_rules") = 19 /\ PlaceOf("service_charge_rules") = 20
    /\ PlaceOf("pricing_policies") = 21 /\ PlaceOf("recipe_versions") = 22
    /\ PlaceOf("recipe_lines") = 23 /\ PlaceOf("sales_points") = 30
  <1>1. \A n \in 1..30 : PlaceOf(WriteOrder[n]) = n
    BY PlaceIs
  <1>2. /\ WriteOrder[1] = "restaurants" /\ WriteOrder[2] = "devices"
        /\ WriteOrder[3] = "roles" /\ WriteOrder[4] = "employees"
        /\ WriteOrder[5] = "restaurant_sections" /\ WriteOrder[6] = "halls"
        /\ WriteOrder[7] = "tables" /\ WriteOrder[8] = "folders"
        /\ WriteOrder[9] = "folder_parameters" /\ WriteOrder[10] = "tags"
        /\ WriteOrder[11] = "catalog_items" /\ WriteOrder[12] = "item_tags"
        /\ WriteOrder[13] = "modifier_groups" /\ WriteOrder[14] = "modifier_options"
        /\ WriteOrder[15] = "modifier_bindings" /\ WriteOrder[16] = "menu_items"
        /\ WriteOrder[17] = Links /\ WriteOrder[18] = "tax_profiles"
        /\ WriteOrder[19] = "tax_rules" /\ WriteOrder[20] = "service_charge_rules"
        /\ WriteOrder[21] = "pricing_policies" /\ WriteOrder[22] = "recipe_versions"
        /\ WriteOrder[23] = "recipe_lines" /\ WriteOrder[30] = "sales_points"
    BY DEF WriteOrder
  <1> QED
    BY <1>1, <1>2

\* What a row names is written before it, but for halls, tax profiles and folders.
LEMMA ReferencesGoBack ==
    ASSUME NEW a, NEW b, <<a, b>> \in References,
           <<a, b>> \notin {<<"restaurant_sections", "halls">>,
                            <<"menu_items", "tax_profiles">>, <<"folders", "folders">>}
    PROVE  PlaceOf(b) < PlaceOf(a)
  <1>1. CASE b = "restaurants"
    <2>1. a \in {"devices", "employees", "halls", "tables", "service_charge_rules",
                 "pricing_policies"}
      BY <1>1 DEF References, Links
    <2> QED
      BY <1>1, <2>1, Places
  <1>2. CASE b # "restaurants"
    <2>1. <<a, b>> \in
              {<<"employees", "roles">>, <<"tables", "halls">>,
               <<"tables", "restaurant_sections">>, <<"sales_points", "tables">>,
               <<"folder_parameters", "folders">>, <<"item_tags", "catalog_items">>,
               <<"item_tags", "tags">>, <<"modifier_options", "modifier_groups">>,
               <<"modifier_bindings", "modifier_groups">>, <<Links, "menu_items">>,
               <<Links, "modifier_groups">>, <<"menu_items", "catalog_items">>,
               <<"tax_rules", "tax_profiles">>, <<"recipe_versions", "catalog_items">>,
               <<"recipe_lines", "recipe_versions">>, <<"recipe_lines", "catalog_items">>}
      BY <1>2 DEF References
    <2> HIDE <1>2
    <2> QED
      BY <2>1, Places
  <1> QED
    BY <1>1, <1>2

\* Nothing names a printer, a template or a proposal.
LEMMA ReferencesAreUpserted ==
    ASSUME NEW a, NEW b, <<a, b>> \in References
    PROVE  b \notin {"printers", "receipt_templates"} \cup FeedbackTables
  BY DEF References, FeedbackTables, Links

\* A table belongs to a stream, or links menu items.
LEMMA TablesHaveStreams ==
    ASSUME NEW t \in MasterTable, t # Links
    PROVE  \E s \in Supported : t \in TablesOf(s)
  <1>1. t \in {"restaurants", "devices", "roles", "employees", "restaurant_sections", "halls",
      "tables", "folders", "folder_parameters", "tags", "catalog_items", "item_tags",
      "modifier_groups", "modifier_options", "modifier_bindings", "menu_items",
      "tax_profiles", "tax_rules", "service_charge_rules", "pricing_policies",
      "recipe_versions", "recipe_lines", "warehouses", "stop_lists",
      "catalog_suggestions", "recipe_suggestions", "receipt_templates", "printers",
      "sales_points"}
    <2>1. PICK n \in 1..30 : t = WriteOrder[n]
      BY OrderIsInjective DEF MasterTable, Range
    <2> QED
      BY <2>1 DEF WriteOrder
  <1>2. CASE t \in {"restaurants", "devices", "restaurant_sections", "receipt_templates",
                    "printers", "sales_points"}
    <2>1. t \in Supported /\ t \in TablesOf(t)
      BY <1>2 DEF Supported, TablesOf
    <2> QED
      BY <2>1
  <1>3. CASE t \in {"roles", "employees"}
    BY <1>3 DEF Supported, TablesOf
  <1>4. CASE t \in {"halls", "tables"}
    <2>1. "floor" \in Supported /\ TablesOf("floor") = {"halls", "tables"}
      BY DEF Supported, TablesOf
    <2> QED
      BY <1>4, <2>1
  <1>5. CASE t \in CatalogTables
    <2>1. "catalog" \in Supported /\ TablesOf("catalog") = CatalogTables
      BY DEF Supported, TablesOf
    <2> QED
      BY <1>5, <2>1
  <1>6. CASE t = "menu_items"
    <2>1. "menu" \in Supported /\ TablesOf("menu") = {"menu_items"}
      BY DEF Supported, TablesOf
    <2> QED
      BY <1>6, <2>1
  <1>7. CASE t \in PricingTables
    <2>1. "pricing" \in Supported /\ TablesOf("pricing") = PricingTables
      BY DEF Supported, TablesOf
    <2> QED
      BY <1>7, <2>1
  <1>8. CASE t \in RecipeTables
    <2>1. "recipes" \in Supported /\ TablesOf("recipes") = RecipeTables
      BY DEF Supported, TablesOf
    <2> QED
      BY <1>8, <2>1
  <1>9. CASE t \in InventoryTables
    <2>1. "inventory" \in Supported /\ TablesOf("inventory") = InventoryTables
      BY DEF Supported, TablesOf
    <2> QED
      BY <1>9, <2>1
  <1>10. CASE t \in FeedbackTables
    <2>1. "proposal_feedback" \in Supported /\ TablesOf("proposal_feedback") = FeedbackTables
      BY DEF Supported, TablesOf
    <2> QED
      BY <1>10, <2>1
  <1> QED
    BY <1>1, <1>2, <1>3, <1>4, <1>5, <1>6, <1>7, <1>8, <1>9, <1>10
    DEF CatalogTables, PricingTables, RecipeTables, InventoryTables, FeedbackTables

\* The rows of a message.
LEMMA RowsTyped ==
    ASSUME NEW m \in MasterMessage
    PROVE  /\ Len(m.rows) \in Nat /\ DOMAIN m.rows = 1..Len(m.rows)
           /\ \A i \in DOMAIN m.rows : m.rows[i] \in MasterRow /\ i \in Nat
  <1>1. m.rows \in Seq(MasterRow)
    BY DEF MasterMessage
  <1> HIDE DEF MasterMessage
  <1>2. Len(m.rows) \in Nat /\ DOMAIN m.rows = 1..Len(m.rows)
    BY <1>1, LenProperties
  <1>3. \A i \in 1..Len(m.rows) : m.rows[i] \in MasterRow
    BY <1>1, ElementOfSeq
  <1> QED
    BY <1>2, <1>3

\* What a message is about is what is written of it.
LEMMA AboutIsWritten ==
    ASSUME NEW m \in MasterMessage, m.stream \in {""} \cup Supported,
           NEW i \in DOMAIN m.rows
    PROVE  IsAbout(m, m.rows[i]) <=> i \in Written(m)
  <1>1. m.rows[i].table \in MasterTable
    BY RowsTyped DEF MasterRow
  <1>2. "" \notin Supported /\ "catalog" \in Supported
    BY DEF Supported
  <1>3. CASE m.stream # ""
    <2>1. StreamsToApply(m) = {m.stream}
      BY <1>3 DEF StreamsToApply
    <2> QED
      BY <1>3, <2>1 DEF Written, IsAbout, LinksAreWritten
  <1>4. CASE m.stream = ""
    <2>1. IsAbout(m, m.rows[i])
      BY <1>4 DEF IsAbout
    <2>2. CASE m.rows[i].table = Links
      BY <1>4, <2>1, <2>2 DEF Written, LinksAreWritten
    <2>3. CASE m.rows[i].table # Links
      <3>1. PICK s \in Supported : m.rows[i].table \in TablesOf(s)
        BY <1>1, <2>3, TablesHaveStreams
      <3>2. s \in StreamsToApply(m)
        BY <1>4, <3>1 DEF StreamsToApply, Has
      <3> QED
        BY <2>1, <3>1, <3>2 DEF Written
    <2> QED
      BY <2>2, <2>3
  <1> QED
    BY <1>3, <1>4

\* A message that fits is for a stream there is, or for any.
LEMMA FitsNamesStreams ==
    ASSUME NEW m, Fits(m) PROVE m.stream \in {""} \cup Supported
  BY DEF Fits, StreamsToApply

\* The rows a message is about, by their places.
LEMMA AboutRows ==
    ASSUME NEW m \in MasterMessage, m.stream \in {""} \cup Supported
    PROVE  About(m) = {m.rows[i] : i \in Written(m)}
  <1>1. \A i \in DOMAIN m.rows : IsAbout(m, m.rows[i]) <=> i \in Written(m)
    BY AboutIsWritten
  <1>2. Written(m) \subseteq DOMAIN m.rows
    BY DEF Written
  <1> QED
    BY <1>1, <1>2 DEF About, Range

\* Rows of one table are written as they come.
LEMMA SameTable ==
    ASSUME NEW m, NEW j \in Nat, NEW k \in Nat, m.rows[j].table = m.rows[k].table,
           m.rows[j].table \in MasterTable
    PROVE  Precedes(m, j, k) <=> j < k
  <1>1. PlaceOf(m.rows[j].table) \in 1..30
    BY TablesHavePlaces
  <1>2. PlaceOf(m.rows[j].table) = PlaceOf(m.rows[k].table)
    OBVIOUS
  <1>3. ~(PlaceOf(m.rows[j].table) < PlaceOf(m.rows[k].table))
    BY <1>1, <1>2
  <1> QED
    BY <1>2, <1>3 DEF Precedes

\* Of two numbers one is less.
LEMMA OneIsFirst == ASSUME NEW a \in Nat, NEW b \in Nat, a # b, ~(b < a) PROVE a < b
  OBVIOUS

\* Of the rows with a key, one is written last.
LEMMA KeysLast ==
    ASSUME NEW m \in MasterMessage, NEW i \in Written(m),
           m.rows[i].table \notin FeedbackTables
    PROVE  \E j \in Lasting(m) : Key(m.rows[j]) = Key(m.rows[i])
  <1> DEFINE same == {j \in Written(m) : Key(m.rows[j]) = Key(m.rows[i])}
             lengths == {Len(m.rows) - j : j \in same}
  <1>1. Len(m.rows) \in Nat /\ Written(m) \subseteq 1..Len(m.rows)
    BY RowsTyped DEF Written
  <1>2. lengths \subseteq Nat /\ Len(m.rows) - i \in lengths
    BY <1>1
  <1>3. PICK n \in lengths : \A k \in lengths : n <= k
    BY <1>2, SmallestNumber
  <1>4. PICK j \in same : n = Len(m.rows) - j
    BY <1>3
  <1>5. \A k \in same : k <= j
    <2> SUFFICES ASSUME NEW k \in same PROVE k <= j
      OBVIOUS
    <2>1. n <= Len(m.rows) - k
      BY <1>3
    <2> QED
      BY <1>1, <1>4, <2>1
  <1>6. \A k \in same : ~Precedes(m, j, k)
    <2> SUFFICES ASSUME NEW k \in same PROVE ~Precedes(m, j, k)
      OBVIOUS
    <2>1. m.rows[k].table = m.rows[j].table
      BY DEF Key
    <2>2. m.rows[j].table \in MasterTable
      BY <1>4, RowsTyped DEF MasterRow, Written
    <2>3. k <= j /\ k \in Nat /\ j \in Nat
      BY <1>1, <1>5
    <2> QED
      BY <2>1, <2>2, <2>3, SameTable
  <1> QED
    BY <1>4, <1>6 DEF Lasting, Key

-----------------------------------------------------------------------------
(* The Edge's copy under messages.                                         *)

\* The keys there are before a row of a message is written.
KeysBefore(m, i) ==
    Keys(copy \ Cleared(m))
        \cup {Key(m.rows[j]) : j \in {k \in Written(m) : Precedes(m, k, i)}}
\* A message is in order when each row finds what it names.
LEMMA InOrderIs ==
    ASSUME NEW m
    PROVE  InOrder(m) <=> \A i \in Written(m) :
                              /\ Checked(m.rows[i]) \subseteq KeysBefore(m, i) \cup {Key(m.rows[i])}
                              /\ Inserted(m.rows[i]) => Key(m.rows[i]) \notin KeysBefore(m, i)
  BY Zenon DEF InOrder, KeysBefore
\* What the Edge has refers to what it has.
Closed(kept) == \A row \in kept : Checked(row) \subseteq Keys(kept)
\* A message that was taken: it fits, and all it names is there.
Held(m, kept) == Fits(m) /\ \A i \in Written(m) : Checked(m.rows[i]) \subseteq Keys(kept)
IngestInv ==
    /\ talk \in DOMAIN Talks
    /\ heard \in Seq(DOMAIN Talks[talk])
    /\ \A n \in DOMAIN heard : Held(Talks[talk][heard[n]], copy)
    /\ MessagesAreTaken

\* A row that gets its restaurant keeps all else.
LEMMA NormalizedRow ==
    ASSUME NEW m, NEW row \in MasterRow
    PROVE  /\ Key(Normalized(row, m)) = Key(row)
           /\ Checked(Normalized(row, m)) = Checked(row)
           /\ row.table \notin {"printers", "warehouses", "stop_lists"} =>
                 Normalized(row, m) = row
  <1>1. /\ Normalized(row, m).table = row.table /\ Normalized(row, m).id = row.id
        /\ Normalized(row, m).names = row.names
    BY DEF Normalized, MasterRow
  <1> QED
    BY <1>1 DEF Key, Checked, Normalized

\* A key is there for a row.
LEMMA KeyIsThere == ASSUME NEW S, NEW row \in S PROVE Key(row) \in Keys(S)
  BY DEF Keys

\* What is cleared is printers and templates, which nothing names.
LEMMA ClearedKeys ==
    ASSUME NEW m, NEW k \in Keys(copy), k[1] \notin {"printers", "receipt_templates"}
    PROVE  k \in Keys(copy \ Cleared(m))
  <1>1. PICK row \in copy : k = Key(row)
    BY DEF Keys
  <1>2. row.table = k[1]
    BY <1>1 DEF Key
  <1>3. row \in copy \ Cleared(m)
    BY <1>2 DEF Cleared
  <1> QED
    BY <1>1, <1>3, KeyIsThere

\* What is not cleared is there afterwards, in this form or as the message has it.
LEMMA KeptKeys ==
    ASSUME NEW m, NEW k \in Keys(copy \ Cleared(m))
    PROVE  k \in Keys(Upserted(m))
  <1> DEFINE written == {Normalized(m.rows[i], m) : i \in Lasting(m)}
  <1>1. PICK row \in copy \ Cleared(m) : k = Key(row)
    BY DEF Keys
  <1>2. CASE k \in Keys(written)
    <2>1. PICK new \in written : k = Key(new)
      BY <1>2 DEF Keys
    <2>2. new \in Upserted(m)
      BY <2>1 DEF Upserted
    <2> QED
      BY <2>1, <2>2, KeyIsThere
  <1>3. CASE k \notin Keys(written)
    <2>1. row \in Upserted(m)
      BY <1>1, <1>3 DEF Upserted
    <2> QED
      BY <1>1, <2>1, KeyIsThere
  <1> QED
    BY <1>2, <1>3

\* Every row that is written has its key there afterwards, but for proposals.
LEMMA WrittenKeys ==
    ASSUME NEW m \in MasterMessage, NEW i \in Written(m),
           m.rows[i].table \notin FeedbackTables
    PROVE  Key(m.rows[i]) \in Keys(Upserted(m))
  <1>1. PICK j \in Lasting(m) : Key(m.rows[j]) = Key(m.rows[i])
    BY KeysLast
  <1>2. j \in DOMAIN m.rows
    BY <1>1 DEF Lasting, Written
  <1>3. Key(Normalized(m.rows[j], m)) = Key(m.rows[j])
    BY <1>2, RowsTyped, NormalizedRow
  <1>4. Normalized(m.rows[j], m) \in Upserted(m)
    BY <1>1 DEF Upserted
  <1> QED
    BY <1>1, <1>3, <1>4, KeyIsThere

\* What a row names stays there.
LEMMA NamesStay ==
    ASSUME NEW m, NEW row, Checked(row) \subseteq Keys(copy)
    PROVE  /\ Checked(row) \subseteq Keys(copy \ Cleared(m))
           /\ Checked(row) \subseteq Keys(Upserted(m))
  <1> SUFFICES ASSUME NEW k \in Checked(row)
               PROVE  k \in Keys(copy \ Cleared(m)) /\ k \in Keys(Upserted(m))
    OBVIOUS
  <1>1. <<row.table, k[1]>> \in References
    BY DEF Checked
  <1>2. k[1] \notin {"printers", "receipt_templates"}
    BY <1>1, ReferencesAreUpserted
  <1>3. k \in Keys(copy \ Cleared(m))
    BY <1>2, ClearedKeys
  <1> QED
    BY <1>3, KeptKeys

\* What a row that is written names is there afterwards.
LEMMA WrittenNames ==
    ASSUME NEW m \in MasterMessage, InOrder(m), NEW i \in Written(m)
    PROVE  Checked(m.rows[i]) \subseteq Keys(Upserted(m))
  <1> SUFFICES ASSUME NEW k \in Checked(m.rows[i]) PROVE k \in Keys(Upserted(m))
    OBVIOUS
  <1>1. \/ k \in Keys(copy \ Cleared(m))
        \/ \E j \in Written(m) : k = Key(m.rows[j])
    BY DEF InOrder, KeysBefore
  <1>2. ASSUME NEW j \in Written(m), k = Key(m.rows[j]) PROVE k \in Keys(Upserted(m))
    <2>1. <<m.rows[i].table, k[1]>> \in References
      BY DEF Checked
    <2>2. k[1] \notin FeedbackTables
      BY <2>1, ReferencesAreUpserted
    <2>3. m.rows[j].table \notin FeedbackTables
      BY <1>2, <2>2 DEF Key
    <2> QED
      BY <1>2, <2>3, WrittenKeys
  <1> QED
    BY <1>1, <1>2, KeptKeys

\* After a message as before it, all that is named is there.
LEMMA UpsertedIsClosed ==
    ASSUME NEW m \in MasterMessage, InOrder(m), Closed(copy)
    PROVE  Closed(Upserted(m))
  <1> SUFFICES ASSUME NEW row \in Upserted(m) PROVE Checked(row) \subseteq Keys(Upserted(m))
    BY DEF Closed
  <1>1. CASE row \in copy
    BY <1>1, NamesStay DEF Closed
  <1>2. CASE row \notin copy
    <2>1. PICK i \in Lasting(m) : row = Normalized(m.rows[i], m)
      BY <1>2 DEF Upserted
    <2>2. i \in Written(m) /\ i \in DOMAIN m.rows
      BY <2>1 DEF Lasting, Written
    <2>3. Checked(row) = Checked(m.rows[i])
      BY <2>1, <2>2, RowsTyped, NormalizedRow
    <2> QED
      BY <2>2, <2>3, WrittenNames
  <1> QED
    BY <1>1, <1>2

\* The message of a step.
LEMMA MessageTyped ==
    ASSUME NEW t \in DOMAIN Talks, NEW n \in DOMAIN Talks[t]
    PROVE  Talks[t][n] \in MasterMessage
  <1>1. Talks[t] \in Seq(MasterMessage)
    BY TalksAssumption, ElementOfSeq, LenProperties
  <1> QED
    BY <1>1, ElementOfSeq, LenProperties

\* An employee that a message of the staff leaves out is suspended, one that is active is
\* one of the message or was active before.
LEMMA ActiveAfterwards ==
    ASSUME NEW m \in MasterMessage, m.stream \in {""} \cup Supported,
           NEW e \in Upserted(m), e.table = "employees", e.id \notin Suspended(m),
           Key(e) \notin Keys(About(m))
    PROVE  /\ e \in copy /\ e.id \notin suspended
           /\ m.restaurant = e.restaurant =>
                 \A row \in About(m) : row.table \notin {"roles", "employees"}
  <1>1. About(m) = {m.rows[i] : i \in Written(m)}
    BY AboutRows
  <1>2. e \in copy
    <2>1. SUFFICES ASSUME e \notin copy PROVE FALSE
      OBVIOUS
    <2>2. PICK i \in Lasting(m) : e = Normalized(m.rows[i], m)
      BY <2>1 DEF Upserted
    <2>3. i \in Written(m) /\ i \in DOMAIN m.rows
      BY <2>2 DEF Lasting, Written
    <2>4. Key(e) = Key(m.rows[i])
      BY <2>2, <2>3, RowsTyped, NormalizedRow
    <2> QED
      BY <1>1, <2>3, <2>4, KeyIsThere
  <1>3. "staff" \in StreamsToApply(m) =>
            \A i \in DOMAIN m.rows : m.rows[i].table = "employees" => m.rows[i].id # e.id
    <2> SUFFICES ASSUME "staff" \in StreamsToApply(m), NEW i \in DOMAIN m.rows,
                        m.rows[i].table = "employees", m.rows[i].id = e.id
                 PROVE  FALSE
      OBVIOUS
    <2>1. "employees" \in TablesOf("staff")
      BY DEF TablesOf
    <2>2. i \in Written(m)
      BY <2>1 DEF Written
    <2>3. Key(m.rows[i]) = Key(e)
      BY DEF Key
    <2> QED
      BY <1>1, <2>2, <2>3, KeyIsThere
  <1>4. e.id \notin suspended
    BY <1>3 DEF Suspended
  <1>5. ASSUME m.restaurant = e.restaurant, NEW row \in About(m),
               row.table \in {"roles", "employees"}
        PROVE  FALSE
    <2>1. PICK i \in DOMAIN m.rows : row = m.rows[i] /\ i \in Written(m)
      BY <1>1, <1>5 DEF Written
    <2>2. "staff" \in StreamsToApply(m)
      <3>1. PICK s \in StreamsToApply(m) : row.table \in TablesOf(s)
        BY <1>5, <2>1 DEF Written, Links
      <3>2. s \in Supported
        BY <3>1 DEF StreamsToApply
      <3>3. s = "staff"
        BY <1>5, <3>1, <3>2 DEF Supported, TablesOf, CatalogTables, PricingTables, RecipeTables,
                               InventoryTables, FeedbackTables
      <3> QED
        BY <3>1, <3>3
    <2> QED
      BY <1>2, <1>3, <1>5, <2>2 DEF Suspended
  <1> QED
    BY <1>2, <1>4, <1>5

-----------------------------------------------------------------------------
(* Why a message is refused.                                               *)

\* A printer or a template is written for its own stream.
LEMMA OwnStream ==
    ASSUME NEW m, NEW i \in Written(m), Inserted(m.rows[i])
    PROVE  m.rows[i].table \in StreamsToApply(m)
  <1>1. PICK s \in StreamsToApply(m) : m.rows[i].table \in TablesOf(s)
    BY DEF Written, Inserted, Links
  <1>2. s \in Supported
    BY <1>1 DEF StreamsToApply
  <1>3. s = m.rows[i].table
    BY <1>1, <1>2 DEF Inserted, Supported, TablesOf, CatalogTables, PricingTables,
                      RecipeTables, InventoryTables, FeedbackTables
  <1> QED
    BY <1>1, <1>3

\* A printer that cannot be cleared is in use.
LEMMA NotCleared ==
    ASSUME NEW m \in MasterMessage, m.stream \in {""} \cup Supported,
           NEW row \in Cleared(m), ~Clearable(row)
    PROVE  PrinterInUse(m)
  <1>1. /\ row \in copy /\ row.table = "printers" /\ row.restaurant = m.restaurant
        /\ "printers" \in StreamsToApply(m)
    BY DEF Cleared, Clearable
  <1>2. m.stream = "printers" \/ \E other \in About(m) : other.table = "printers"
    <2>1. CASE m.stream # ""
      BY <1>1, <2>1 DEF StreamsToApply
    <2>2. CASE m.stream = ""
      <3>1. TablesOf("printers") = {"printers"}
        BY DEF TablesOf
      <3>2. PICK i \in DOMAIN m.rows : m.rows[i].table = "printers"
        BY <1>1, <2>2, <3>1 DEF StreamsToApply, Has
      <3>3. m.rows[i] \in About(m)
        BY <2>2, <3>2 DEF About, IsAbout, Range
      <3> QED
        BY <3>2, <3>3
    <2> QED
      BY <2>1, <2>2
  <1> QED
    BY <1>1, <1>2 DEF PrinterInUse

\* A row that names what is not there yet comes too early.
LEMMA NamedTooEarly ==
    ASSUME NEW m \in MasterMessage, m.stream \in {""} \cup Supported,
           NEW i \in Written(m), NEW k \in Checked(m.rows[i]),
           k \in Keys(copy) \cup Keys(About(m)), k \notin KeysBefore(m, i),
           k # Key(m.rows[i])
    PROVE  ComesTooEarly(m)
  <1>1. <<m.rows[i].table, k[1]>> \in References /\ k \in m.rows[i].names
    BY DEF Checked
  <1>2. k \notin Keys(copy)
    <2>1. k[1] \notin {"printers", "receipt_templates"}
      BY <1>1, ReferencesAreUpserted
    <2> QED
      BY <2>1, ClearedKeys DEF KeysBefore
  <1>3. PICK j \in Written(m) : k = Key(m.rows[j])
    BY <1>2, AboutRows DEF Keys
  <1>4. /\ i \in DOMAIN m.rows /\ j \in DOMAIN m.rows /\ i \in Nat /\ j \in Nat
        /\ m.rows[i] \in MasterRow /\ m.rows[j] \in MasterRow
        /\ {m.rows[i], m.rows[j]} \subseteq About(m)
    BY RowsTyped, AboutRows DEF Written
  <1>5. ~Precedes(m, j, i) /\ i # j
    BY <1>3 DEF KeysBefore
  <1>6. m.rows[j].table = k[1]
    BY <1>3 DEF Key
  <1>7. <<m.rows[i].table, k[1]>> \in {<<"restaurant_sections", "halls">>,
                            <<"menu_items", "tax_profiles">>, <<"folders", "folders">>}
    <2>1. SUFFICES ASSUME <<m.rows[i].table, k[1]>> \notin {<<"restaurant_sections", "halls">>,
                            <<"menu_items", "tax_profiles">>, <<"folders", "folders">>}
                   PROVE  FALSE
      OBVIOUS
    <2>2. PlaceOf(k[1]) < PlaceOf(m.rows[i].table)
      BY <1>1, <2>1, ReferencesGoBack
    <2> QED
      BY <1>5, <1>6, <2>2 DEF Precedes
  <1>8. <<m.rows[i].table, k[1]>> = <<"folders", "folders">> => i < j
    <2> SUFFICES ASSUME m.rows[i].table = "folders", k[1] = "folders" PROVE i < j
      OBVIOUS
    <2>1. m.rows[j].table \in MasterTable
      BY <1>4 DEF MasterRow
    <2>2. ~(j < i)
      BY <1>4, <1>5, <1>6, <2>1, SameTable
    <2>3. i \in Nat /\ j \in Nat /\ i # j
      BY <1>4, <1>5
    <2> QED
      BY <2>2, <2>3, OneIsFirst
  <1> QED
    BY <1>1, <1>2, <1>3, <1>4, <1>7, <1>8 DEF ComesTooEarly

\* A printer or a template whose id is taken.
LEMMA IdIsTaken ==
    ASSUME NEW m \in MasterMessage, m.stream \in {""} \cup Supported,
           NEW i \in Written(m), Inserted(m.rows[i]), Key(m.rows[i]) \in KeysBefore(m, i)
    PROVE  PrinterElsewhere(m) \/ ComesTwice(m)
  <1>1. /\ i \in DOMAIN m.rows /\ m.rows[i] \in About(m) /\ i \in Nat
        /\ m.rows[i].table \in StreamsToApply(m) /\ IsAbout(m, m.rows[i])
        /\ m.rows[i].table \in {"receipt_templates", "printers"}
    BY RowsTyped, AboutRows, AboutIsWritten, OwnStream DEF Written, Inserted
  <1>2. CASE Key(m.rows[i]) \in Keys(copy \ Cleared(m))
    <2>1. PICK other \in copy \ Cleared(m) : Key(m.rows[i]) = Key(other)
      BY <1>2 DEF Keys
    <2>2. other.table = m.rows[i].table
      BY <2>1 DEF Key
    <2>3. other.table = "printers" /\ other.restaurant # m.restaurant
      BY <1>1, <2>2 DEF Cleared
    <2> QED
      BY <1>1, <2>1, <2>2, <2>3 DEF PrinterElsewhere
  <1>3. CASE Key(m.rows[i]) \notin Keys(copy \ Cleared(m))
    <2>1. PICK j \in Written(m) : Precedes(m, j, i) /\ Key(m.rows[i]) = Key(m.rows[j])
      BY <1>3 DEF KeysBefore
    <2>2. j \in DOMAIN m.rows /\ j \in Nat /\ m.rows[j] \in MasterRow
      BY RowsTyped DEF Written
    <2>3. m.rows[j].table = m.rows[i].table /\ m.rows[j].table \in MasterTable
      BY <2>1, <2>2 DEF Key, MasterRow
    <2>4. j < i
      BY <1>1, <2>1, <2>2, <2>3, SameTable
    <2>5. IsAbout(m, m.rows[j])
      BY <2>2, AboutIsWritten
    <2> QED
      BY <1>1, <2>1, <2>2, <2>3, <2>4, <2>5 DEF ComesTwice
  <1> QED
    BY <1>2, <1>3

\* Why the database does not let a message through that is in order.
LEMMA WhyItDoesNotLand ==
    ASSUME NEW m \in MasterMessage, m.stream \in {""} \cup Supported, ~Lands(m),
           \A i \in Written(m) : Checked(m.rows[i]) \subseteq Keys(copy) \cup Keys(About(m))
    PROVE  ComesTooEarly(m) \/ PrinterElsewhere(m) \/ ComesTwice(m) \/ PrinterInUse(m)
  <1>1. CASE \E row \in Cleared(m) : ~Clearable(row)
    BY <1>1, NotCleared
  <1>2. CASE ~InOrder(m)
    <2>1. PICK i \in Written(m) :
             \/ ~(Checked(m.rows[i]) \subseteq KeysBefore(m, i) \cup {Key(m.rows[i])})
             \/ Inserted(m.rows[i]) /\ Key(m.rows[i]) \in KeysBefore(m, i)
      BY <1>2, InOrderIs
    <2> QED
      BY <2>1, NamedTooEarly, IdIsTaken
  <1> QED
    BY <1>1, <1>2 DEF Lands

\* A proper message fits, unless it counts as empty.
LEMMA WhyItDoesNotFit ==
    ASSUME NEW m \in MasterMessage, Proper(m), ~Fits(m)
    PROVE  CountsAsEmpty(m)
  <1>1. m.stream \in {""} \cup Supported /\ m.version >= 0
    BY DEF Proper
  <1>2. About(m) = {m.rows[i] : i \in Written(m)}
    BY <1>1, AboutRows
  <1>3. StreamsToApply(m) # {}
    <2>1. CASE m.stream # ""
      BY <1>1, <2>1 DEF StreamsToApply
    <2>2. CASE m.stream = ""
      <3>1. m.rows # <<>> /\ m.rows \in Seq(MasterRow)
        BY <2>2 DEF Proper, MasterMessage
      <3>2. 1 \in DOMAIN m.rows
        BY <3>1, EmptySeq, LenProperties
      <3>3. m.rows[1].table \in MasterTable
        BY <3>2, RowsTyped DEF MasterRow
      <3>4. CASE m.rows[1].table = Links
        <4>1. "catalog" \in StreamsToApply(m)
          BY <2>2, <3>2, <3>4 DEF StreamsToApply, Has, Supported
        <4> QED
          BY <4>1
      <3>5. CASE m.rows[1].table # Links
        <4>1. PICK s \in Supported : m.rows[1].table \in TablesOf(s)
          BY <3>3, <3>5, TablesHaveStreams
        <4>2. s \in StreamsToApply(m)
          BY <2>2, <3>2, <4>1 DEF StreamsToApply, Has
        <4> QED
          BY <4>2
      <3> QED
        BY <3>4, <3>5
    <2> QED
      BY <2>1, <2>2
  <1>4. Sound(m)
    BY <1>2 DEF Sound, Proper
  <1>5. m.mode = "full_snapshot" /\ m.reason \in Reasons /\ ~Counts(m)
    BY <1>1, <1>3, <1>4 DEF Fits, Proper
  <1>6. ASSUME NEW row \in About(m)
        PROVE  \/ row.table \in {"restaurant_sections", "sales_points"}
               \/ row.table = Links /\ m.stream = "menu"
    <2>1. PICK i \in Written(m) : row = m.rows[i]
      BY <1>2
    <2>2. i \in DOMAIN m.rows
      BY DEF Written
    <2>3. ASSUME NEW s \in StreamsToApply(m), row.table \in TablesOf(s)
          PROVE  row.table \in {"restaurant_sections", "sales_points"}
      <3>1. s \in {"restaurant_sections", "sales_points"}
        BY <1>5, <2>1, <2>2, <2>3 DEF Counts, Has
      <3> QED
        BY <2>3, <3>1 DEF TablesOf
    <2>4. ASSUME row.table = Links, m.stream \in {"", "catalog"} PROVE FALSE
      <3>1. "catalog" \in StreamsToApply(m) /\ Has(m, Links)
        BY <2>1, <2>2, <2>4 DEF StreamsToApply, Has, Supported
      <3> QED
        BY <1>5, <3>1 DEF Counts
    <2> QED
      BY <2>1, <2>3, <2>4 DEF Written, LinksAreWritten
  <1> QED
    BY <1>5, <1>6 DEF CountsAsEmpty

-----------------------------------------------------------------------------
(* The steps of the Edge.                                                  *)

\* What messages are about, and whether they fit, does not change.
LEMMA MessagesStay ==
    ASSUME NEW m
    PROVE  /\ About(m)' = About(m) /\ Written(m)' = Written(m) /\ Fits(m)' = Fits(m)
  BY DEF About, IsAbout, Written, Fits

\* A message is refused for a reason, and the reason stays.
LEMMA RefusedForAReason ==
    ASSUME IngestInv, NEW n \in DOMAIN Talks[talk], ~(Fits(Talks[talk][n]) /\ Lands(Talks[talk][n]))
    PROVE  LET m == Talks[talk][n] IN
           \/ ~Proper(m) /\ n \notin Range(heard)
           \/ ComesTooEarly(m)
           \/ CountsAsEmpty(m)
           \/ PrinterElsewhere(m)
           \/ ComesTwice(m)
           \/ PrinterInUse(m)
  <1> DEFINE m == Talks[talk][n]
  <1>1. m \in MasterMessage
    BY MessageTyped DEF IngestInv
  <1>2. CASE n \in Range(heard)
    <2>1. PICK k \in DOMAIN heard : heard[k] = n
      BY <1>2 DEF Range
    <2>2. Held(m, copy)
      BY <2>1 DEF IngestInv
    <2> HIDE DEF m
    <2>3. ~Lands(m) /\ m.stream \in {""} \cup Supported
      BY <2>2, FitsNamesStreams DEF Held, m
    <2>4. \A i \in Written(m) : Checked(m.rows[i]) \subseteq Keys(copy) \cup Keys(About(m))
      BY <2>2 DEF Held
    <2>5. ComesTooEarly(m) \/ PrinterElsewhere(m) \/ ComesTwice(m) \/ PrinterInUse(m)
      BY <1>1, <2>3, <2>4, WhyItDoesNotLand
    <2> QED
      BY <2>5 DEF m
  <1>3. CASE Proper(m) /\ ~Fits(m)
    BY <1>1, <1>3, WhyItDoesNotFit
  <1>4. CASE Proper(m) /\ Fits(m)
    <2> HIDE DEF m
    <2>1. ~Lands(m) /\ m.stream \in {""} \cup Supported
      BY <1>4, FitsNamesStreams DEF m
    <2>2. About(m) = {m.rows[i] : i \in Written(m)}
      BY <1>1, <2>1, AboutRows
    <2>3. \A i \in Written(m) : Checked(m.rows[i]) \subseteq Keys(copy) \cup Keys(About(m))
      BY <1>4, <2>2 DEF Proper
    <2>4. ComesTooEarly(m) \/ PrinterElsewhere(m) \/ ComesTwice(m) \/ PrinterInUse(m)
      BY <1>1, <2>1, <2>3, WhyItDoesNotLand
    <2> QED
      BY <2>4 DEF m
  <1> QED
    BY <1>2, <1>3, <1>4

\* A reason that holds goes on holding while rows stay and routes are added.
LEMMA ReasonStays ==
    ASSUME UNCHANGED <<copy, heard>>, routed \subseteq routed', NEW m, NEW n,
           \/ ~Proper(m) /\ n \notin Range(heard)
           \/ ComesTooEarly(m)
           \/ CountsAsEmpty(m)
           \/ PrinterElsewhere(m)
           \/ ComesTwice(m)
           \/ PrinterInUse(m)
    PROVE  \/ ~Proper(m)' /\ n \notin Range(heard)'
           \/ ComesTooEarly(m)'
           \/ CountsAsEmpty(m)'
           \/ PrinterElsewhere(m)'
           \/ ComesTwice(m)'
           \/ PrinterInUse(m)'
  <1>1. /\ Proper(m)' <=> Proper(m)
        /\ n \in Range(heard)' <=> n \in Range(heard)
        /\ ComesTooEarly(m)' <=> ComesTooEarly(m)
        /\ CountsAsEmpty(m)' <=> CountsAsEmpty(m)
        /\ PrinterElsewhere(m)' <=> PrinterElsewhere(m)
        /\ ComesTwice(m)' <=> ComesTwice(m)
    BY DEF Proper, Range, ComesTooEarly, CountsAsEmpty, PrinterElsewhere, ComesTwice
  <1>2. PrinterInUse(m) => PrinterInUse(m)'
    BY DEF PrinterInUse, Clearable
  <1> QED
    BY <1>1, <1>2

\* Where the messages taken and the rows stay, all of the invariant does but what is said of
\* the answer.
LEMMA NothingTaken ==
    ASSUME IngestInv, UNCHANGED <<talk, copy, suspended, heard>>,
           ProperMessagesAreTaken',
           answer'.outcome = "taken" => answer' = answer
    PROVE  IngestInv'
  <1>1. /\ talk' \in DOMAIN Talks /\ heard' \in Seq(DOMAIN Talks[talk'])
        /\ \A k \in DOMAIN heard' : Held(Talks[talk'][heard'[k]], copy')
    BY DEF IngestInv
  <1>2. LeftOutAreSuspended'
    BY DEF IngestInv, MessagesAreTaken, LeftOutAreSuspended
  <1>3. TakenRowsAreThere'
    BY DEF IngestInv, MessagesAreTaken, TakenRowsAreThere
  <1> QED
    BY <1>1, <1>2, <1>3 DEF IngestInv, MessagesAreTaken, Held

\* A message that is refused changes nothing, and there is a reason.
LEMMA RefuseStep ==
    ASSUME IngestInv, NEW n \in DOMAIN Talks[talk], Refuse(n)
    PROVE  IngestInv'
  <1> DEFINE m == Talks[talk][n]
  <1>1. /\ ~(Fits(m) /\ Lands(m)) /\ answer' = [message |-> n, outcome |-> "refused"]
        /\ UNCHANGED <<talk, copy, suspended, heard, routed>>
    BY DEF Refuse, Answered, NothingWritten
  <1> HIDE DEF m
  <1>2. \/ ~Proper(m) /\ n \notin Range(heard)
        \/ ComesTooEarly(m)
        \/ CountsAsEmpty(m)
        \/ PrinterElsewhere(m)
        \/ ComesTwice(m)
        \/ PrinterInUse(m)
    BY <1>1, RefusedForAReason DEF m
  <1>3. PICK c : c = m
    OBVIOUS
  <1>4. \/ ~Proper(c)' /\ n \notin Range(heard)'
        \/ ComesTooEarly(c)'
        \/ CountsAsEmpty(c)'
        \/ PrinterElsewhere(c)'
        \/ ComesTwice(c)'
        \/ PrinterInUse(c)'
    BY <1>1, <1>2, <1>3, ReasonStays
  <1>5. Talks[talk'][answer'.message] = c /\ answer'.message = n
    BY <1>1, <1>3 DEF m
  <1>6. ProperMessagesAreTaken'
    BY <1>4, <1>5 DEF ProperMessagesAreTaken
  <1>7. answer'.outcome # "taken"
    BY <1>1
  <1> QED
    BY <1>1, <1>6, <1>7, NothingTaken

\* Without a backup nothing is written.
LEMMA BackUpInVainStep ==
    ASSUME IngestInv, NEW n \in DOMAIN Talks[talk], BackUpInVain(n)
    PROVE  IngestInv'
  <1>1. /\ answer'.outcome = "no_backup"
        /\ UNCHANGED <<talk, copy, suspended, heard>>
    BY DEF BackUpInVain, Answered, NothingWritten
  <1>2. ProperMessagesAreTaken'
    BY <1>1 DEF ProperMessagesAreTaken
  <1> QED
    BY <1>1, <1>2, NothingTaken

\* Operators only add routes, which takes no reason away.
LEMMA OnlyRoutes ==
    ASSUME IngestInv, routed \subseteq routed',
           UNCHANGED <<talk, copy, suspended, heard, answer>>
    PROVE  IngestInv'
  <1>1. routed \subseteq routed' /\ UNCHANGED <<talk, copy, suspended, heard, answer>>
    OBVIOUS
  <1>2. ASSUME answer.outcome = "refused" PROVE ProperMessagesAreTaken'
    <2>1. PICK m : m = Talks[talk][answer.message]
      OBVIOUS
    <2>2. PICK n : n = answer.message
      OBVIOUS
    <2>3. \/ ~Proper(m) /\ n \notin Range(heard)
          \/ ComesTooEarly(m)
          \/ CountsAsEmpty(m)
          \/ PrinterElsewhere(m)
          \/ ComesTwice(m)
          \/ PrinterInUse(m)
      BY <1>2, <2>1, <2>2 DEF IngestInv, MessagesAreTaken, ProperMessagesAreTaken
    <2>4. \/ ~Proper(m)' /\ n \notin Range(heard)'
          \/ ComesTooEarly(m)'
          \/ CountsAsEmpty(m)'
          \/ PrinterElsewhere(m)'
          \/ ComesTwice(m)'
          \/ PrinterInUse(m)'
      BY <1>1, <2>3, ReasonStays
    <2>5. Talks[talk'][answer'.message] = m /\ answer'.message = n
      BY <1>1, <2>1, <2>2
    <2> QED
      BY <2>4, <2>5 DEF ProperMessagesAreTaken
  <1>3. ASSUME answer.outcome # "refused" PROVE ProperMessagesAreTaken'
    BY <1>1, <1>3 DEF ProperMessagesAreTaken
  <1> QED
    BY <1>1, <1>2, <1>3, NothingTaken

\* A message that is taken is there whole, with all it names, and suspends whom it leaves out.
LEMMA TakeStep ==
    ASSUME IngestInv, NEW n \in DOMAIN Talks[talk], Take(n)
    PROVE  IngestInv'
  <1>1. PICK m : m = Talks[talk][n]
    OBVIOUS
  <1>2. /\ Fits(m) /\ InOrder(m)
        /\ copy' = Upserted(m) /\ suspended' = Suspended(m)
        /\ heard' = Append(heard, n) /\ answer' = [message |-> n, outcome |-> "taken"]
        /\ talk' = talk
    BY <1>1 DEF Take, Lands, Answered
  <1>3. m \in MasterMessage /\ m.stream \in {""} \cup Supported
    BY <1>1, <1>2, MessageTyped, FitsNamesStreams DEF IngestInv
  <1>4. About(m) = {m.rows[i] : i \in Written(m)}
    BY <1>3, AboutRows
  <1>5. /\ heard' \in Seq(DOMAIN Talks[talk']) /\ Len(heard) \in Nat
        /\ Len(heard') = Len(heard) + 1 /\ DOMAIN heard' = 1..(Len(heard) + 1)
        /\ DOMAIN heard = 1..Len(heard)
        /\ \A k \in DOMAIN heard : heard'[k] = heard[k]
        /\ heard'[Len(heard) + 1] = n
    BY <1>2, AppendProperties, LenProperties DEF IngestInv
  <1>6. ASSUME NEW k \in DOMAIN heard' PROVE Held(Talks[talk'][heard'[k]], copy')
    <2>1. CASE k \in DOMAIN heard
      <3>1. PICK old : old = Talks[talk][heard[k]]
        OBVIOUS
      <3>2. Held(old, copy) /\ Talks[talk'][heard'[k]] = old
        BY <1>2, <1>5, <2>1, <3>1 DEF IngestInv
      <3>3. \A i \in Written(old) : Checked(old.rows[i]) \subseteq Keys(Upserted(m))
        BY <3>2, NamesStay DEF Held
      <3>4. Held(old, Upserted(m))
        BY <3>2, <3>3 DEF Held
      <3> QED
        BY <1>2, <3>2, <3>4
    <2>2. CASE k = Len(heard) + 1
      <3>1. Talks[talk'][heard'[k]] = m
        BY <1>1, <1>2, <1>5, <2>2
      <3>2. \A i \in Written(m) : Checked(m.rows[i]) \subseteq Keys(Upserted(m))
        BY <1>2, <1>3, WrittenNames
      <3>3. Held(m, Upserted(m))
        BY <1>2, <3>2 DEF Held
      <3> QED
        BY <1>2, <3>1, <3>3
    <2> QED
      BY <1>5, <2>1, <2>2
  <1>7. TakenRowsAreThere'
    <2>1. \A row \in copy' : Checked(row) \subseteq Keys(copy')
      <3>1. Closed(copy)
        BY DEF IngestInv, MessagesAreTaken, TakenRowsAreThere, Closed
      <3>2. Closed(Upserted(m))
        BY <1>2, <1>3, <3>1, UpsertedIsClosed
      <3> QED
        BY <1>2, <3>2 DEF Closed
    <2>2. \A row \in About(m) : row.table \in FeedbackTables \/ Key(row) \in Keys(copy')
      BY <1>2, <1>3, <1>4, WrittenKeys
    <2>3. Talks[talk'][answer'.message] = m
      BY <1>1, <1>2
    <2> QED
      BY <2>1, <2>2, <2>3 DEF TakenRowsAreThere
  <1>8. LeftOutAreSuspended'
    <2> SUFFICES ASSUME NEW e \in copy', e.table = "employees", e.id \notin suspended',
                        NEW k \in DOMAIN heard',
                        Talks[talk'][heard'[k]].restaurant = e.restaurant,
                        \E row \in About(Talks[talk'][heard'[k]]) :
                            row.table \in {"roles", "employees"}
                 PROVE  \E l \in k..Len(heard') :
                            Key(e) \in Keys(About(Talks[talk'][heard'[l]]))
      BY DEF LeftOutAreSuspended
    <2>1. Talks[talk'][heard'[Len(heard')]] = m /\ Len(heard') \in k..Len(heard')
      BY <1>1, <1>2, <1>5
    <2>2. CASE Key(e) \in Keys(About(m))
      BY <2>1, <2>2
    <2>3. CASE Key(e) \notin Keys(About(m))
      <3>1. /\ e \in copy /\ e.id \notin suspended
            /\ m.restaurant = e.restaurant =>
                  \A row \in About(m) : row.table \notin {"roles", "employees"}
        BY <1>2, <1>3, <2>3, ActiveAfterwards
      <3>2. k # Len(heard')
        BY <2>1, <3>1
      <3>3. k \in DOMAIN heard
        BY <1>5, <3>2
      <3>4. PICK l \in k..Len(heard) : Key(e) \in Keys(About(Talks[talk][heard[l]]))
        BY <1>2, <1>5, <3>1, <3>3 DEF IngestInv, MessagesAreTaken, LeftOutAreSuspended
      <3>5. l \in DOMAIN heard /\ l \in k..Len(heard')
        BY <1>5, <3>3
      <3>6. Talks[talk'][heard'[l]] = Talks[talk][heard[l]]
        BY <1>2, <1>5, <3>5
      <3> QED
        BY <3>4, <3>5, <3>6
    <2> QED
      BY <2>2, <2>3
  <1>9. ProperMessagesAreTaken'
    BY <1>2 DEF ProperMessagesAreTaken
  <1> QED
    BY <1>2, <1>5, <1>6, <1>7, <1>8, <1>9 DEF IngestInv, MessagesAreTaken, Held

\* At first the Edge has nothing.
LEMMA IngestStarts == ASSUME Init PROVE IngestInv
  <1>1. /\ talk \in DOMAIN Talks /\ heard = <<>> /\ copy = {} /\ answer.outcome = "none"
    BY DEF Init, IngestInit
  <1>2. heard \in Seq(DOMAIN Talks[talk]) /\ DOMAIN heard = {}
    BY <1>1, EmptySeq, LenProperties
  <1> QED
    BY <1>1, <1>2 DEF IngestInv, MessagesAreTaken, ProperMessagesAreTaken, TakenRowsAreThere,
                      LeftOutAreSuspended

\* No step breaks the invariant; other areas leave the Edge's rows alone.
LEMMA IngestKeeps == ASSUME IngestInv, [Next]_vars PROVE IngestInv'
  <1>1. CASE UNCHANGED ingestVars
    BY <1>1, OnlyRoutes DEF ingestVars
  <1>2. CASE IngestNext
    BY <1>2, TakeStep, RefuseStep, BackUpInVainStep, OnlyRoutes DEF IngestNext, CreatePrintRoute
  <1> QED
    BY <1>1, <1>2 DEF Next, InFloor, InStaff, InCatalog, InRecipes, InPrint, InDelivery,
                      InMessages, vars

\* Whatever messages come, in whatever order and again: a proper one is taken, whole, and
\* so is one that was taken before, but for the reasons named; what the Edge has names only
\* what it has; and no one is active whom the last message about his staff left out
\* (ApplyMasterData, DeactivateMissingMasterEmployees).
THEOREM MessagesAreAlwaysTaken == Spec => []MessagesAreTaken
  <1>1. IngestInv => MessagesAreTaken
    BY DEF IngestInv
  <1> QED
    BY <1>1, IngestStarts, IngestKeeps, PTL DEF Spec
=============================================================================
