------------------------- MODULE CloudWorkersProofs -------------------------
(***************************************************************************)
(* Safety of the workers of the Cloud: what PostgreSQL says of ClickHouse  *)
(* is true, for any rows, forwarders, streams, batch sizes and failures;   *)
(* stock moves once for what documents say, with balances and prices that  *)
(* follow the ledger, and once for what was served of a line, in whatever  *)
(* order its serves and its check are tried, for any events, recipes,      *)
(* warehouses and failures.                                                *)
(***************************************************************************)
EXTENDS CloudWorkers, SumProofs, SequenceTheorems, FiniteSetTheorems, TLAPS

-----------------------------------------------------------------------------
(* OLAP: types.                                                            *)

\* Costs read of some rows.
Costs == UNION {[rows -> Nat] : rows \in SUBSET Entry}
ExportPhase == {"idle", "claim", "load", "insert", "done", "error"}
Hand == [phase : ExportPhase, batch : Costs, newer : SUBSET Entry, since : Costs]
ExportRow ==
    [status : {"pending", "processing", "processed", "failed"}, processed : BOOLEAN,
     stale : BOOLEAN, due : BOOLEAN]
JobStatus == {"none", "queued", "running", "completed", "failed", "cancelled"}
Ranges == {{}} \cup UNION {s.ranges : s \in Scenes}
Backfill == [status : JobStatus, cursor : Nat, range : Ranges, since : Costs]

OlapTypeOK ==
    /\ scene \in Scenes
    /\ source \subseteq Entry /\ late \subseteq source
    /\ costing \in [Entry -> Nat] /\ archive \in [Entry -> Nat \cup {None}]
    /\ export \in [Entry -> ExportRow]
    /\ checkpoint \in [last : Nat, blocked : BOOLEAN]
    /\ hand \in [Runner -> Hand]
    /\ job \in Backfill

RowsOf(f) == DOMAIN hand[f].batch

\* A run that holds rows read them when they were committed; what it has inserted, and
\* what others show instead, is in the archive.
HandsAreHonest ==
    \A f \in Runner :
        /\ hand[f].phase = "idle" => hand[f] = NoExport
        /\ hand[f].phase \in {"claim", "load"} => RowsOf(f) = {}
        /\ RowsOf(f) \subseteq source
        /\ \A r \in hand[f].newer : archive[r] # None
        /\ hand[f].phase = "done" => \A r \in RowsOf(f) : archive[r] # None
        /\ f # Worker /\ hand[f].phase \in {"insert", "done", "error"} => RowsOf(f) # {}

MarksAreTrue ==
    /\ \A r \in Entry : export[r].processed => archive[r] # None
    /\ checkpoint.last \in {0} \cup source
    /\ \A r \in source \ late : r <= checkpoint.last => archive[r] # None

\* A forwarder of stock moves passes over nothing but what came late.
BatchesHaveNoGaps ==
    \A f \in Forwarder : ~Raw =>
        \A s \in RowsOf(f), r \in source \ late :
            r <= s => r \in RowsOf(f) \/ archive[r] # None

\* The runs under way are in the order of their clocks, and what is newer than a run is
\* newer than those before it.
ClocksAreOrdered ==
    /\ \A p \in order : /\ p \in Runner \X Runner
                        /\ hand[p[1]].phase # "idle" /\ hand[p[2]].phase # "idle"
    /\ \A f, g \in Runner :
          f # g /\ hand[f].phase # "idle" /\ hand[g].phase # "idle" =>
              ReadBefore(f, g) \/ ReadBefore(g, f)
    /\ \A f \in Runner : ~ReadBefore(f, f)
    /\ \A f, g, h \in Runner : ReadBefore(f, g) /\ ReadBefore(g, h) => ReadBefore(f, h)
    /\ \A f, g \in Runner : ReadBefore(f, g) => hand[g].newer \subseteq hand[f].newer

\* The costs the job promises, from when the worker has read the clock.
Promise == IF hand[Worker].phase = "claim" THEN hand[Worker].since ELSE job.since
Keeps(costs, promise) == \A r \in DOMAIN costs \cap DOMAIN promise : costs[r] >= promise[r]

JobIsSane ==
    /\ job.status = "none" => job = NoBackfill
    /\ job.status \in {"none", "queued"} => job.cursor = 0
    /\ job.cursor \in {0} \cup source
    /\ job.cursor # 0 => DOMAIN job.since = Entry
    /\ hand[Worker].phase = "claim" => DOMAIN hand[Worker].since = Entry
    /\ hand[Worker].phase \in {"load", "insert", "done", "error"} =>
          DOMAIN job.since = Entry /\ job.status \notin {"none", "queued"}
    /\ Keeps(costing, job.since) /\ Keeps(costing, hand[Worker].since)
    /\ \A s \in RowsOf(Worker), r \in (source \cap job.range) \ late :
          r <= s => r \in RowsOf(Worker) \/ r <= job.cursor

\* What the worker, and who reads the clock after it, has in hand is not older than what
\* the job promises; nor is what is newer than the worker.
LaterRunsKeep ==
    hand[Worker].phase # "idle" =>
        /\ Keeps(hand[Worker].batch, Promise)
        /\ \A g \in Runner : ReadBefore(Worker, g) => Keeps(hand[g].batch, Promise)
        /\ \A r \in hand[Worker].newer \cap DOMAIN Promise : archive[r] >= Promise[r]

\* What the job has gone past, and what the worker has just inserted.
Passed(r) ==
    \/ r \in (source \cap job.range) \ late /\ r <= job.cursor
    \/ hand[Worker].phase = "done" /\ r \in RowsOf(Worker)
\* It is shown with the costs the job promises, and no run under way will change that.
Secure(r) ==
    /\ archive[r] >= job.since[r]
    /\ \A g \in Runner : r \in RowsOf(g) =>
          r \in hand[g].newer \/ hand[g].batch[r] >= job.since[r]
PassedStays == \A r \in Entry : Passed(r) => Secure(r)

OlapInv ==
    /\ OlapTypeOK /\ HandsAreHonest /\ MarksAreTrue /\ BatchesHaveNoGaps
    /\ ClocksAreOrdered /\ JobIsSane /\ LaterRunsKeep /\ PassedStays
-----------------------------------------------------------------------------
(* OLAP: batches.                                                          *)

\* The last row of a batch, which becomes the checkpoint.
LEMMA LastOfIsLast ==
    ASSUME NEW rows \in SUBSET Nat, IsFiniteSet(rows), rows # {}
    PROVE  LastOf(rows) \in rows /\ \A s \in rows : s <= LastOf(rows)
  <1> DEFINE Above(r) == {s \in rows : s > r}
             counts == {Cardinality(Above(r)) : r \in rows}
  <1>1. \A r \in rows : IsFiniteSet(Above(r)) /\ Cardinality(Above(r)) \in Nat
    BY FS_Subset, FS_CardinalityType
  <1>2. PICK n \in counts : \A m \in counts : n <= m
    <2>1. counts \in SUBSET Nat /\ counts # {}
      BY <1>1
    <2> HIDE DEF counts
    <2> QED
      BY <2>1, LeastOfNumbers
  <1>3. PICK r \in rows : n = Cardinality(Above(r))
    BY <1>2
  <1>4. ASSUME NEW s \in rows, s > r PROVE FALSE
    <2>1. r \in Nat /\ s \in Nat /\ \A q \in rows : q \in Nat
      OBVIOUS
    <2>2. Above(s) \in SUBSET Above(r)
      <3>1. ASSUME NEW q \in rows, q > s PROVE q > r
        BY <1>4, <2>1, <3>1
      <3> QED
        BY <3>1
    <2>3. s \in Above(r) /\ s \notin Above(s)
      BY <1>4, <2>1
    <2>4. /\ Cardinality(Above(s)) <= Cardinality(Above(r))
          /\ Cardinality(Above(s)) # Cardinality(Above(r))
      <3> HIDE DEF Above
      <3> QED
        BY <1>1, <2>2, <2>3, FS_Subset
    <2>5. Cardinality(Above(r)) <= Cardinality(Above(s))
      BY <1>2, <1>3
    <2> QED
      BY <1>1, <2>4, <2>5
  <1>5. \A s \in rows : s <= r
    BY <1>4
  <1> QED
    BY <1>5 DEF LastOf

\* ORDER BY id LIMIT n leaves out nothing that is before what it returns.
LEMMA FirstOfIsInitial ==
    ASSUME NEW rows \in SUBSET Nat, IsFiniteSet(rows), NEW n \in Nat,
           NEW s \in FirstOf(rows, n), NEW r \in rows, r <= s
    PROVE  r \in FirstOf(rows, n)
  <1> DEFINE Below(x) == {y \in rows : y < x}
  <1>1. s \in rows /\ s \in Nat /\ r \in Nat /\ \A q \in rows : q \in Nat
    BY DEF FirstOf
  <1>2. Below(r) \in SUBSET Below(s)
    <2>1. ASSUME NEW q \in rows, q < r PROVE q < s
      BY <1>1, <2>1
    <2> QED
      BY <2>1
  <1>3. \A x \in rows : IsFiniteSet(Below(x)) /\ Cardinality(Below(x)) \in Nat
    BY FS_Subset, FS_CardinalityType
  <1>4. Cardinality(Below(r)) <= Cardinality(Below(s))
    <2> HIDE DEF Below
    <2> QED
      BY <1>1, <1>2, <1>3, FS_Subset
  <1>5. Cardinality(Below(s)) < n
    BY DEF FirstOf
  <1>6. Cardinality(Below(r)) < n
    BY <1>1, <1>3, <1>4, <1>5
  <1> QED
    BY <1>6 DEF FirstOf

\* Costs are numbers by row; there are none without rows.
LEMMA CostsAreNumbers ==
    /\ \A c \in Costs : DOMAIN c \subseteq Entry /\ c \in [DOMAIN c -> Nat]
    /\ NoCosts \in Costs /\ DOMAIN NoCosts = {}
  <1>1. ASSUME NEW c \in Costs PROVE DOMAIN c \subseteq Entry /\ c \in [DOMAIN c -> Nat]
    <2>1. PICK rows \in SUBSET Entry : c \in [rows -> Nat]
      BY DEF Costs
    <2> QED
      BY <2>1
  <1>2. NoCosts \in [{} -> Nat] /\ DOMAIN NoCosts = {}
    BY DEF NoCosts
  <1> QED
    BY <1>1, <1>2 DEF Costs

\* Costs read of rows are costs.
LEMMA ReadCosts ==
    ASSUME NEW rows \in SUBSET Entry, costing \in [Entry -> Nat]
    PROVE  /\ [r \in rows |-> costing[r]] \in Costs
           /\ DOMAIN [r \in rows |-> costing[r]] = rows
           /\ \A r \in rows : [q \in rows |-> costing[q]][r] = costing[r]
  BY DEF Costs

\* The clock and the table of the runs under way keep their order when one reads it.
LEMMA ReadingIsOrdered ==
    ASSUME OlapInv, NEW f \in Runner, hand[f].phase = "idle", ReadClock(f),
           NEW begun \in Hand, begun.phase # "idle", begun.newer = {},
           hand' = [hand EXCEPT ![f] = begun]
    PROVE  ClocksAreOrdered'
  <1>1. /\ hand'[f] = begun /\ \A g \in Runner \ {f} : hand'[g] = hand[g]
    BY DEF OlapInv, OlapTypeOK
  <1>2. \A p \in order : p[1] # f /\ p[2] # f
    BY DEF OlapInv, ClocksAreOrdered
  <1>3. \A g, h \in Runner : ReadBefore(g, h)' <=>
            ReadBefore(g, h) \/ (h = f /\ hand[g].phase # "idle")
    BY DEF ReadClock, ReadBefore
  <1>4. \A g, h \in Runner : ReadBefore(g, h) =>
            g # f /\ h # f /\ hand[g].phase # "idle" /\ hand[h].phase # "idle"
    BY <1>2 DEF OlapInv, ClocksAreOrdered, ReadBefore
  <1>5. \A p \in order' : /\ p \in Runner \X Runner
                          /\ hand'[p[1]].phase # "idle" /\ hand'[p[2]].phase # "idle"
    BY <1>1, <1>2 DEF ReadClock, OlapInv, ClocksAreOrdered
  <1>6. \A g, h \in Runner :
          g # h /\ hand'[g].phase # "idle" /\ hand'[h].phase # "idle" =>
              ReadBefore(g, h)' \/ ReadBefore(h, g)'
    BY <1>1, <1>3 DEF OlapInv, ClocksAreOrdered
  <1>7. \A g \in Runner : ~ReadBefore(g, g)'
    BY <1>3 DEF OlapInv, ClocksAreOrdered
  <1>8. \A g, h, k \in Runner :
          ReadBefore(g, h)' /\ ReadBefore(h, k)' => ReadBefore(g, k)'
    BY <1>3, <1>4 DEF OlapInv, ClocksAreOrdered
  <1>9. \A g, h \in Runner : ReadBefore(g, h)' => hand'[h].newer \subseteq hand'[g].newer
    BY <1>1, <1>3, <1>4 DEF OlapInv, ClocksAreOrdered
  <1> QED
    BY <1>5, <1>6, <1>7, <1>8, <1>9 DEF ClocksAreOrdered

\* They keep it when one of them ends.
LEMMA EndingIsOrdered ==
    ASSUME OlapInv, NEW f \in Runner, End(f)
    PROVE  /\ ClocksAreOrdered' /\ hand' \in [Runner -> Hand]
           /\ hand'[f] = NoExport /\ \A g \in Runner \ {f} : hand'[g] = hand[g]
           /\ \A g, h \in Runner :
                 ReadBefore(g, h)' <=> ReadBefore(g, h) /\ g # f /\ h # f
  <1>1. NoExport \in Hand
    BY CostsAreNumbers DEF NoExport, Hand, ExportPhase
  <1>2. /\ hand' \in [Runner -> Hand]
        /\ hand'[f] = NoExport /\ \A g \in Runner \ {f} : hand'[g] = hand[g]
    BY <1>1 DEF End, OlapInv, OlapTypeOK
  <1>3. order' = {p \in order : p[1] # f /\ p[2] # f}
    BY DEF End
  <1>4. \A g, h \in Runner : ReadBefore(g, h)' <=> ReadBefore(g, h) /\ g # f /\ h # f
    BY <1>3 DEF ReadBefore
  <1>5. NoExport.phase = "idle"
    BY DEF NoExport
  <1>6. \A p \in order' : /\ p \in Runner \X Runner
                          /\ hand'[p[1]].phase # "idle" /\ hand'[p[2]].phase # "idle"
    BY <1>2, <1>3 DEF OlapInv, ClocksAreOrdered
  <1>7. \A g, h \in Runner :
          g # h /\ hand'[g].phase # "idle" /\ hand'[h].phase # "idle" =>
              ReadBefore(g, h)' \/ ReadBefore(h, g)'
    BY <1>2, <1>4, <1>5 DEF OlapInv, ClocksAreOrdered
  <1>8. \A g, h \in Runner : ReadBefore(g, h)' => hand'[h].newer \subseteq hand'[g].newer
    BY <1>2, <1>4 DEF OlapInv, ClocksAreOrdered
  <1>9. /\ \A g \in Runner : ~ReadBefore(g, g)'
        /\ \A g, h, k \in Runner :
              ReadBefore(g, h)' /\ ReadBefore(h, k)' => ReadBefore(g, k)'
    BY <1>4 DEF OlapInv, ClocksAreOrdered
  <1> QED
    BY <1>2, <1>4, <1>6, <1>7, <1>8, <1>9 DEF ClocksAreOrdered

\* A run that is not under way has nothing in hand.
LEMMA NothingInHand ==
    /\ NoExport.phase = "idle" /\ NoExport.batch = NoCosts /\ NoExport.newer = {}
    /\ NoExport.since = NoCosts /\ DOMAIN NoExport.batch = {} /\ DOMAIN NoExport.since = {}
  BY CostsAreNumbers DEF NoExport

\* What the types say of costs.
LEMMA Numbers ==
    ASSUME OlapTypeOK
    PROVE  /\ \A f \in Runner : /\ RowsOf(f) \subseteq Entry
                                /\ \A r \in RowsOf(f) : hand[f].batch[r] \in Nat
                                /\ hand[f].newer \subseteq Entry
           /\ DOMAIN job.since \subseteq Entry
           /\ \A r \in DOMAIN job.since : job.since[r] \in Nat
           /\ DOMAIN hand[Worker].since \subseteq Entry
           /\ \A r \in DOMAIN hand[Worker].since : hand[Worker].since[r] \in Nat
           /\ \A r \in Entry : r \in Nat /\ costing[r] \in Nat /\ archive[r] \in Nat \cup {None}
           /\ job.cursor \in Nat /\ checkpoint.last \in Nat
           /\ Worker \in Runner /\ Forwarder \subseteq Runner /\ Worker \notin Forwarder
  <1>1. ASSUME NEW f \in Runner
        PROVE  hand[f].batch \in Costs /\ hand[f].since \in Costs /\ hand[f].newer \subseteq Entry
    BY DEF OlapTypeOK, Hand
  <1>2. job.since \in Costs /\ job.cursor \in Nat /\ checkpoint.last \in Nat
    BY DEF OlapTypeOK, Backfill
  <1>3. \A c \in Costs : DOMAIN c \subseteq Entry /\ \A r \in DOMAIN c : c[r] \in Nat
    BY CostsAreNumbers
  <1>4. Worker \in Runner /\ Forwarder \subseteq Runner /\ Worker \notin Forwarder
    BY OlapAssumption DEF Runner
  <1>5. \A r \in Entry : r \in Nat /\ costing[r] \in Nat /\ archive[r] \in Nat \cup {None}
    BY OlapAssumption DEF OlapTypeOK
  <1> QED
    BY <1>1, <1>2, <1>3, <1>4, <1>5 DEF RowsOf

\* A forwarder that ends, however it does, disturbs nobody.
LEMMA ForwarderEnds ==
    ASSUME OlapInv, NEW f \in Forwarder, End(f),
           UNCHANGED <<scene, source, late, costing, archive, job>>
    PROVE  /\ HandsAreHonest' /\ BatchesHaveNoGaps' /\ ClocksAreOrdered' /\ JobIsSane'
           /\ LaterRunsKeep' /\ PassedStays' /\ hand' \in [Runner -> Hand]
  <1>1. f \in Runner /\ f # Worker /\ Worker \in Runner /\ Forwarder \subseteq Runner
    BY Numbers DEF OlapInv
  <1>2. /\ ClocksAreOrdered' /\ hand' \in [Runner -> Hand]
        /\ hand'[f] = NoExport /\ \A g \in Runner \ {f} : hand'[g] = hand[g]
        /\ \A g, h \in Runner :
              ReadBefore(g, h)' <=> ReadBefore(g, h) /\ g # f /\ h # f
    BY <1>1, EndingIsOrdered
  <1>3. hand'[Worker] = hand[Worker]
    BY <1>1, <1>2
  <1>4. HandsAreHonest'
    BY <1>2, NothingInHand DEF OlapInv, HandsAreHonest, RowsOf
  <1>5. BatchesHaveNoGaps'
    BY <1>1, <1>2, NothingInHand DEF OlapInv, BatchesHaveNoGaps, RowsOf, Raw
  <1>6. JobIsSane'
    BY <1>3 DEF OlapInv, JobIsSane, RowsOf, Keeps
  <1>7. LaterRunsKeep'
    <2>1. Promise' = Promise
      BY <1>3 DEF Promise
    <2>2. \A g \in Runner : ReadBefore(Worker, g)' =>
              ReadBefore(Worker, g) /\ hand'[g] = hand[g]
      BY <1>1, <1>2
    <2> QED
      BY <1>3, <2>1, <2>2 DEF OlapInv, LaterRunsKeep, Keeps
  <1>8. PassedStays'
    <2>1. \A r \in Entry : Passed(r)' => Passed(r)
      BY <1>3 DEF Passed, RowsOf
    <2>2. \A g \in Runner : RowsOf(g)' # {} => g # f
      BY <1>2, NothingInHand DEF RowsOf
    <2>3. \A r \in Entry : Secure(r) => Secure(r)'
      BY <1>2, <2>2 DEF Secure, RowsOf
    <2> QED
      BY <2>1, <2>3 DEF OlapInv, PassedStays
  <1> QED
    BY <1>2, <1>4, <1>5, <1>6, <1>7, <1>8

\* A row that is committed is late if it is before one that others may have read.
LEMMA CommitKeeps == ASSUME OlapInv, NEW r \in Entry, Commit(r) PROVE OlapInv'
  <1>1. /\ r \notin source /\ source' = source \cup {r} /\ late \subseteq late'
        /\ UNCHANGED <<scene, costing, export, checkpoint, archive, hand, order, job>>
    BY DEF Commit
  <1>2. \A q \in source' \ late' : q \in source \ late \/ (q = r /\ \A s \in source : ~(s > r))
    BY DEF Commit
  <1>3. \A s \in source : s \in Nat /\ r \in Nat /\ s # r
    BY <1>1, OlapAssumption DEF OlapInv, OlapTypeOK
  <1>4. \A q \in source' \ late', s \in source : q <= s => q \in source \ late
    BY <1>2, <1>3
  <1>5. OlapTypeOK'
    BY <1>1 DEF Commit, OlapInv, OlapTypeOK
  <1>6. HandsAreHonest'
    BY <1>1 DEF OlapInv, HandsAreHonest, RowsOf
  <1>7. MarksAreTrue'
    BY <1>1, <1>3, <1>4, OlapAssumption DEF OlapInv, MarksAreTrue
  <1>8. BatchesHaveNoGaps'
    BY <1>1, <1>4, Numbers DEF OlapInv, BatchesHaveNoGaps, RowsOf, Raw, HandsAreHonest
  <1>9. ClocksAreOrdered'
    BY <1>1 DEF OlapInv, ClocksAreOrdered, ReadBefore
  <1>10. JobIsSane'
    BY <1>1, <1>4, Numbers DEF OlapInv, JobIsSane, RowsOf, Keeps, HandsAreHonest
  <1>11. LaterRunsKeep'
    BY <1>1 DEF OlapInv, LaterRunsKeep, Promise, Keeps, ReadBefore
  <1>12. PassedStays'
    <2>1. \A q \in Entry : Passed(q)' => Passed(q)
      BY <1>1, <1>3, <1>4, OlapAssumption DEF Passed, RowsOf, OlapInv, JobIsSane
    <2> QED
      BY <1>1, <2>1 DEF OlapInv, PassedStays, Secure, RowsOf
  <1> QED
    BY <1>5, <1>6, <1>7, <1>8, <1>9, <1>10, <1>11, <1>12 DEF OlapInv

\* Costs that are recalculated are above what was promised.
LEMMA RecalculationKeeps ==
    ASSUME OlapInv, NEW r \in Entry, UpdateRecalculationLedgerRow(r) PROVE OlapInv'
  <1>1. /\ costing' = [costing EXCEPT ![r] = @ + 1]
        /\ UNCHANGED <<scene, source, late, export, checkpoint, archive, hand, order, job>>
    BY DEF UpdateRecalculationLedgerRow
  <1>2. OlapTypeOK'
    BY <1>1 DEF OlapInv, OlapTypeOK
  <1>3. \A q \in Entry : costing'[q] >= costing[q]
    BY <1>1 DEF OlapInv, OlapTypeOK
  <1>4. /\ HandsAreHonest' /\ MarksAreTrue' /\ BatchesHaveNoGaps' /\ ClocksAreOrdered'
        /\ LaterRunsKeep' /\ PassedStays'
    BY <1>1 DEF OlapInv, HandsAreHonest, MarksAreTrue, BatchesHaveNoGaps, ClocksAreOrdered,
       LaterRunsKeep, PassedStays, RowsOf, Raw, ReadBefore, Promise, Passed, Secure, Keeps
  <1>5. Keeps(costing', job.since) /\ Keeps(costing', hand[Worker].since)
    <2>1. /\ DOMAIN costing = Entry /\ DOMAIN costing' = Entry
          /\ \A q \in Entry : costing[q] \in Nat /\ costing'[q] \in Nat
      BY <1>2 DEF OlapInv, OlapTypeOK
    <2>2. Keeps(costing, job.since) /\ Keeps(costing, hand[Worker].since)
      BY DEF OlapInv, JobIsSane
    <2> QED
      BY <1>3, <2>1, <2>2, Numbers DEF Keeps, OlapInv
  <1>6. JobIsSane'
    BY <1>1, <1>5 DEF OlapInv, JobIsSane, RowsOf
  <1> QED
    BY <1>2, <1>4, <1>6 DEF OlapInv

\* What changes only marks, and marks nothing as exported.
LEMMA MarksChange ==
    ASSUME OlapInv, UNCHANGED <<scene, source, late, costing, archive, hand, order, job>>,
           export' \in [Entry -> ExportRow],
           \A r \in Entry : export'[r].processed => export[r].processed,
           checkpoint' \in [last : Nat, blocked : BOOLEAN], checkpoint'.last = checkpoint.last
    PROVE  OlapInv'
  <1>1. OlapTypeOK'
    BY DEF OlapInv, OlapTypeOK
  <1>2. MarksAreTrue'
    BY DEF OlapInv, MarksAreTrue
  <1>3. /\ HandsAreHonest' /\ BatchesHaveNoGaps' /\ ClocksAreOrdered'
        /\ JobIsSane' /\ LaterRunsKeep' /\ PassedStays'
    BY DEF OlapInv, HandsAreHonest, BatchesHaveNoGaps, ClocksAreOrdered, JobIsSane,
       LaterRunsKeep, PassedStays, RowsOf, Raw, ReadBefore, Promise, Passed, Secure, Keeps
  <1> QED
    BY <1>1, <1>2, <1>3 DEF OlapInv

-----------------------------------------------------------------------------
(* OLAP: the forwarders.                                                   *)

\* A forwarder that reads the clock is behind all that are under way.
LEMMA BeginForwardKeeps ==
    ASSUME OlapInv, NEW f \in Forwarder, BeginForward(f) PROVE OlapInv'
  <1> DEFINE begun == [hand[f] EXCEPT !.phase = "claim"]
  <1>1. f \in Runner /\ f # Worker /\ Worker \in Runner
    BY Numbers DEF OlapInv
  <1>2. /\ hand[f].phase = "idle" /\ ReadClock(f) /\ hand' = [hand EXCEPT ![f] = begun]
        /\ UNCHANGED <<scene, source, late, costing, export, checkpoint, archive, job>>
    BY DEF BeginForward
  <1>3. hand[f] \in Hand /\ hand[f] = NoExport
    BY <1>1, <1>2 DEF OlapInv, OlapTypeOK, HandsAreHonest
  <1>4. /\ begun \in Hand /\ begun.phase = "claim" /\ begun.newer = {}
        /\ begun.batch = NoCosts /\ DOMAIN begun.batch = {}
    BY <1>3, NothingInHand DEF Hand, ExportPhase
  <1> HIDE DEF begun
  <1>5. /\ hand'[f] = begun /\ \A g \in Runner \ {f} : hand'[g] = hand[g]
        /\ hand' \in [Runner -> Hand] /\ hand'[Worker] = hand[Worker]
    BY <1>1, <1>2, <1>4 DEF OlapInv, OlapTypeOK
  <1>6. ClocksAreOrdered'
    BY <1>1, <1>2, <1>4, ReadingIsOrdered
  <1>7. OlapTypeOK' /\ MarksAreTrue'
    BY <1>2, <1>5 DEF OlapInv, OlapTypeOK, MarksAreTrue
  <1>8. HandsAreHonest' /\ BatchesHaveNoGaps'
    BY <1>2, <1>4, <1>5 DEF OlapInv, HandsAreHonest, BatchesHaveNoGaps, RowsOf, Raw
  <1>9. JobIsSane'
    BY <1>2, <1>5 DEF OlapInv, JobIsSane, RowsOf
  <1>10. LaterRunsKeep'
    <2>1. Promise' = Promise
      BY <1>2, <1>5 DEF Promise
    <2>2. \A g \in Runner : ReadBefore(Worker, g)' =>
             (ReadBefore(Worker, g) /\ hand'[g].batch = hand[g].batch) \/ hand'[g].batch = NoCosts
      BY <1>1, <1>2, <1>4, <1>5 DEF ReadClock, ReadBefore
    <2> QED
      BY <1>2, <1>5, <2>1, <2>2, CostsAreNumbers DEF OlapInv, LaterRunsKeep, Keeps
  <1>11. PassedStays'
    <2>1. \A r \in Entry : Passed(r)' => Passed(r)
      BY <1>2, <1>5 DEF Passed, RowsOf
    <2>2. \A g \in Runner : RowsOf(g)' # {} => g # f
      BY <1>4, <1>5 DEF RowsOf
    <2>3. \A r \in Entry : Secure(r) => Secure(r)'
      BY <1>2, <1>5, <2>2 DEF Secure, RowsOf
    <2> QED
      BY <2>1, <2>3 DEF OlapInv, PassedStays
  <1> QED
    BY <1>6, <1>7, <1>8, <1>9, <1>10, <1>11 DEF OlapInv

\* A hand that holds what it has read.
Reading(old, phase, read) == [old EXCEPT !.phase = phase, !.batch = read]
\* What a hand has read is in the record it was read into, whatever else changes there.
LEMMA HandRead ==
    ASSUME NEW old \in Hand, NEW phase \in ExportPhase, NEW read \in Costs
    PROVE  /\ Reading(old, phase, read) \in Hand
           /\ Reading(old, phase, read).phase = phase
           /\ Reading(old, phase, read).batch = read
           /\ Reading(old, phase, read).newer = old.newer
           /\ Reading(old, phase, read).since = old.since
  BY DEF Hand, Reading

\* Where the job has passed, it has promised something.
LEMMA PassedIsPromised ==
    ASSUME OlapInv, NEW r \in Entry, Passed(r)
    PROVE  DOMAIN job.since = Entry /\ r \in DOMAIN job.since /\ job.since[r] \in Nat
  <1>1. r \in Nat \ {0} /\ Worker \in Runner
    BY Numbers, OlapAssumption DEF OlapInv
  <1>2. CASE r <= job.cursor
    BY <1>1, <1>2, Numbers DEF OlapInv, JobIsSane
  <1>3. CASE hand[Worker].phase = "done"
    BY <1>1, <1>3, Numbers DEF OlapInv, JobIsSane
  <1> QED
    BY <1>2, <1>3 DEF Passed

\* What a run reads has the costs of now, which keep every promise.
LEMMA ReadingKeeps ==
    ASSUME OlapInv, NEW f \in Runner, NEW rows \in SUBSET source, NEW phase \in ExportPhase,
           hand[f].phase \in {"claim", "load"},
           phase \in {"insert", "done"}, phase = "done" => rows = {}, f # Worker => rows # {},
           hand' = [hand EXCEPT ![f].phase = phase,
                                ![f].batch = [r \in rows |-> costing[r]]],
           UNCHANGED <<scene, source, late, costing, archive, order, job>>,
           f = Worker => hand[f].phase = "load",
           f = Worker => \A s \in rows, r \in (source \cap job.range) \ late :
                             r <= s => r \in rows \/ r <= job.cursor,
           f # Worker /\ ~Raw => \A s \in rows, r \in source \ late :
                             r <= s => r \in rows \/ archive[r] # None
    PROVE  /\ HandsAreHonest' /\ BatchesHaveNoGaps' /\ ClocksAreOrdered' /\ JobIsSane'
           /\ LaterRunsKeep' /\ PassedStays' /\ hand' \in [Runner -> Hand]
  <1> DEFINE read == [r \in rows |-> costing[r]]
  <1>1. /\ read \in Costs /\ DOMAIN read = rows /\ rows \subseteq Entry
        /\ \A r \in rows : read[r] = costing[r]
    BY ReadCosts DEF OlapInv, OlapTypeOK
  <1> HIDE DEF read
  <1>2. hand' = [hand EXCEPT ![f].phase = phase, ![f].batch = read]
    BY DEF read
  <1>3. hand \in [Runner -> Hand] /\ hand[f] \in Hand
    BY DEF OlapInv, OlapTypeOK
  <1>4. /\ hand'[f].phase = phase /\ hand'[f].batch = read
        /\ hand'[f].newer = hand[f].newer /\ hand'[f].since = hand[f].since
        /\ hand'[f] \in Hand
        /\ \A g \in Runner \ {f} : hand'[g] = hand[g]
        /\ hand' \in [Runner -> Hand]
    <2>1. /\ \A g \in Runner \ {f} : hand'[g] = hand[g]
          /\ hand'[f] = Reading(hand[f], phase, read)
      BY <1>2, <1>3 DEF Reading
    <2>2. /\ hand'[f] \in Hand /\ hand'[f].phase = phase /\ hand'[f].batch = read
          /\ hand'[f].newer = hand[f].newer /\ hand'[f].since = hand[f].since
      <3> DEFINE now == Reading(hand[f], phase, read)
      <3>1. /\ now \in Hand /\ now.phase = phase /\ now.batch = read
            /\ now.newer = hand[f].newer /\ now.since = hand[f].since
        BY <1>1, <1>3, HandRead
      <3> HIDE DEF now
      <3>2. hand'[f] = now
        BY <2>1 DEF now
      <3> QED
        BY <3>1, <3>2
    <2>3. hand' = [g \in Runner |-> hand'[g]]
      BY <1>2, <1>3
    <2>4. hand' \in [Runner -> Hand]
      BY <1>3, <2>1, <2>2, <2>3
    <2> QED
      BY <2>1, <2>2, <2>4
  <1>5. /\ \A g \in Runner : hand'[g].newer = hand[g].newer
        /\ \A g \in Runner : hand'[g].phase = "idle" <=> hand[g].phase = "idle"
        /\ RowsOf(f)' = rows /\ \A g \in Runner \ {f} : RowsOf(g)' = RowsOf(g)
    BY <1>1, <1>4 DEF RowsOf
  <1>6. HandsAreHonest'
    BY <1>4, <1>5 DEF OlapInv, HandsAreHonest
  <1>7. BatchesHaveNoGaps'
    BY <1>5, Numbers DEF OlapInv, BatchesHaveNoGaps, Raw
  <1>8. ClocksAreOrdered'
    <2>1. \A g, h \in Runner : ReadBefore(g, h)' <=> ReadBefore(g, h)
      BY DEF ReadBefore
    <2>2. \A p \in order' : /\ p \in Runner \X Runner
                            /\ hand'[p[1]].phase # "idle" /\ hand'[p[2]].phase # "idle"
      BY <1>5 DEF OlapInv, ClocksAreOrdered
    <2> QED
      BY <1>5, <2>1, <2>2 DEF OlapInv, ClocksAreOrdered
  <1>9. JobIsSane'
    BY <1>4, <1>5, Numbers DEF OlapInv, JobIsSane
  <1>10. /\ \A r \in Entry : costing[r] \in Nat
         /\ \A r \in DOMAIN job.since : r \in Entry /\ costing[r] >= job.since[r]
         /\ \A r \in DOMAIN hand[Worker].since :
               r \in Entry /\ costing[r] >= hand[Worker].since[r]
    <2>1. DOMAIN costing = Entry /\ Keeps(costing, job.since) /\ Keeps(costing, hand[Worker].since)
      BY DEF OlapInv, JobIsSane, OlapTypeOK
    <2> QED
      BY <2>1, Numbers DEF Keeps, OlapInv
  <1>11. LaterRunsKeep'
    <2>1. CASE f = Worker
      <3>1. Promise' = job.since /\ Promise = job.since
        BY <1>4, <2>1 DEF Promise
      <3>2. Keeps(read, job.since)
        BY <1>1, <1>10 DEF Keeps
      <3>3. \A g \in Runner : ReadBefore(Worker, g) => g # Worker
        BY DEF OlapInv, ClocksAreOrdered
      <3>4. hand[Worker].phase # "idle"
        BY <2>1
      <3>5. \A g \in Runner : ReadBefore(Worker, g)' => Keeps(hand'[g].batch, job.since)
        BY <1>4, <2>1, <3>1, <3>3, <3>4 DEF OlapInv, LaterRunsKeep, ReadBefore
      <3>6. \A r \in hand'[Worker].newer \cap DOMAIN job.since : archive'[r] >= job.since[r]
        BY <1>4, <2>1, <3>1, <3>4 DEF OlapInv, LaterRunsKeep
      <3> QED
        BY <1>4, <2>1, <3>1, <3>2, <3>5, <3>6 DEF LaterRunsKeep
    <2>2. CASE f # Worker
      <3>1. hand'[Worker] = hand[Worker] /\ Promise' = Promise
        BY <1>4, <2>2, Numbers DEF Promise, OlapInv
      <3>2. Keeps(read, Promise)
        BY <1>1, <1>10 DEF Keeps, Promise
      <3>3. \A g \in Runner : ReadBefore(Worker, g)' /\ hand'[Worker].phase # "idle" =>
                Keeps(hand'[g].batch, Promise)
        BY <1>4, <3>1, <3>2 DEF OlapInv, LaterRunsKeep, ReadBefore
      <3> QED
        BY <3>1, <3>3 DEF OlapInv, LaterRunsKeep
    <2> QED
      BY <2>1, <2>2
  <1>12. PassedStays'
    <2>1. ASSUME NEW r \in Entry, Passed(r)' PROVE Passed(r) /\ r \in DOMAIN job.since
      <3>1. Passed(r)
        <4>1. CASE f = Worker
          BY <1>4, <1>5, <2>1, <4>1 DEF Passed
        <4>2. CASE f # Worker
          <5>1. hand'[Worker] = hand[Worker]
            BY <1>4, <4>2, Numbers DEF OlapInv
          <5> QED
            BY <2>1, <5>1 DEF Passed, RowsOf
        <4> QED
          BY <4>1, <4>2
      <3> QED
        BY <3>1, PassedIsPromised
    <2>2. ASSUME NEW r \in Entry, Secure(r), r \in DOMAIN job.since PROVE Secure(r)'
      <3>1. ASSUME NEW g \in Runner, r \in RowsOf(g)'
            PROVE  r \in hand'[g].newer \/ hand'[g].batch[r] >= job'.since[r]
        <4>1. CASE g = f
          BY <1>1, <1>4, <1>5, <1>10, <2>2, <3>1, <4>1
        <4>2. CASE g # f
          BY <1>4, <1>5, <2>2, <3>1, <4>2 DEF Secure
        <4> QED
          BY <4>1, <4>2
      <3> QED
        BY <2>2, <3>1 DEF Secure
    <2> QED
      BY <2>1, <2>2 DEF OlapInv, PassedStays
  <1> QED
    BY <1>4, <1>6, <1>7, <1>8, <1>9, <1>11, <1>12

\* What a claim returns are rows of the table, without gaps behind the checkpoint.
LEMMA ClaimedRows ==
    ASSUME OlapInv
    PROVE  LET rows == FirstOf(Unclaimed, BatchSize)
           IN  /\ rows \in SUBSET source
               /\ ~Raw => \A s \in rows, r \in source \ late :
                              r <= s => r \in rows \/ archive[r] # None
  <1> DEFINE rows == FirstOf(Unclaimed, BatchSize)
  <1>1. rows \in SUBSET source /\ rows \subseteq Unclaimed
    BY DEF FirstOf, Unclaimed
  <1>2. ASSUME ~Raw, NEW s \in rows, NEW r \in source \ late, r <= s
        PROVE  r \in rows \/ archive[r] # None
    <2>1. CASE r <= checkpoint.last
      BY <2>1 DEF OlapInv, MarksAreTrue
    <2>2. CASE ~(r <= checkpoint.last)
      <3>1. ~checkpoint.blocked
        BY <1>2, <1>1 DEF Unclaimed
      <3>2. Unclaimed = {q \in source : q > checkpoint.last}
        BY <1>2, <3>1 DEF Unclaimed
      <3>3. source \subseteq Entry /\ Entry \subseteq Nat /\ IsFiniteSet(Entry)
        BY OlapAssumption DEF OlapInv, OlapTypeOK
      <3>4. Unclaimed \in SUBSET Nat /\ IsFiniteSet(Unclaimed)
        BY <3>2, <3>3, FS_Subset
      <3>5. r \in Unclaimed
        BY <1>2, <2>2, <3>2, <3>3, Numbers DEF OlapInv
      <3> QED
        BY <1>2, <3>4, <3>5, FirstOfIsInitial, OlapAssumption
    <2> QED
      BY <2>1, <2>2
  <1> QED
    BY <1>1, <1>2

\* A claim takes rows that are due and makes what it takes its own.
LEMMA ClaimExportsKeeps ==
    ASSUME OlapInv, NEW f \in Forwarder, ClaimExports(f) PROVE OlapInv'
  <1> DEFINE rows == FirstOf(Unclaimed, BatchSize)
  <1>1. f \in Runner /\ f # Worker
    BY Numbers DEF OlapInv
  <1>2. /\ hand[f].phase = "claim"
        /\ UNCHANGED <<scene, source, late, costing, checkpoint, archive, job>>
        /\ export' = [r \in Entry |->
              IF Raw /\ r \in rows
              THEN [export[r] EXCEPT !.status = "processing", !.stale = FALSE]
              ELSE export[r]]
        /\ IF rows = {} THEN End(f)
           ELSE /\ hand' = [hand EXCEPT ![f].phase = "insert",
                                        ![f].batch = [r \in rows |-> costing[r]]]
                /\ UNCHANGED order
    BY DEF ClaimExports
  <1>3. /\ rows \in SUBSET source
        /\ ~Raw => \A s \in rows, r \in source \ late :
                       r <= s => r \in rows \/ archive[r] # None
    BY ClaimedRows
  <1> HIDE DEF rows
  <1>4. /\ HandsAreHonest' /\ BatchesHaveNoGaps' /\ ClocksAreOrdered' /\ JobIsSane'
        /\ LaterRunsKeep' /\ PassedStays' /\ hand' \in [Runner -> Hand]
    <2>1. CASE rows = {}
      BY <1>2, <2>1, ForwarderEnds
    <2>2. CASE rows # {}
      <3>1. "insert" \in ExportPhase
        BY DEF ExportPhase
      <3> QED
        BY <1>1, <1>2, <1>3, <2>2, <3>1, ReadingKeeps
    <2> QED
      BY <2>1, <2>2
  <1>5. ASSUME NEW r \in Entry
        PROVE  export'[r] \in ExportRow /\ (export'[r].processed => export[r].processed)
    <2>1. export[r] \in ExportRow
      BY DEF OlapInv, OlapTypeOK
    <2>2. [export[r] EXCEPT !.status = "processing", !.stale = FALSE] \in ExportRow
      BY <2>1 DEF ExportRow
    <2>3. [export[r] EXCEPT !.status = "processing", !.stale = FALSE].processed
             = export[r].processed
      BY <2>1 DEF ExportRow
    <2> QED
      BY <1>2, <2>1, <2>2, <2>3
  <1>6. OlapTypeOK'
    BY <1>2, <1>4, <1>5 DEF OlapInv, OlapTypeOK
  <1>7. MarksAreTrue'
    BY <1>2, <1>5 DEF OlapInv, MarksAreTrue
  <1> QED
    BY <1>4, <1>6, <1>7 DEF OlapInv

\* What an insertion changes: the runs that read the clock before learn that their rows
\* are shown as of later, and what is archived stays archived.
LEMMA InsertFacts ==
    ASSUME OlapInv, NEW f \in Runner, NEW answer \in {"ok", "lost", "failed"},
           Insert(f, answer)
    PROVE  LET rows == IF answer = "failed" THEN {} ELSE RowsOf(f)
           IN  /\ hand' \in [Runner -> Hand] /\ archive' \in [Entry -> Nat \cup {None}]
               /\ \A g \in Runner :
                     /\ hand'[g].batch = hand[g].batch /\ hand'[g].since = hand[g].since
                     /\ g # f => hand'[g].phase = hand[g].phase
                     /\ g # f /\ ReadBefore(g, f) =>
                           hand'[g].newer = hand[g].newer \cup rows
                     /\ g = f \/ ~ReadBefore(g, f) => hand'[g].newer = hand[g].newer
                     /\ hand[g].newer \subseteq hand'[g].newer
                     /\ g # f /\ ~ReadBefore(g, f) => hand'[g] = hand[g]
               /\ hand[f].phase = "insert" /\ hand'[f].phase \in {"done", "error"}
               /\ hand'[f].phase = "done" <=> answer = "ok"
               /\ \A r \in Entry : archive'[r] =
                     IF r \in rows \ hand[f].newer THEN hand[f].batch[r] ELSE archive[r]
               /\ \A r \in Entry : archive[r] # None => archive'[r] # None
               /\ \A r \in rows : archive'[r] # None
  <1> DEFINE rows == IF answer = "failed" THEN {} ELSE RowsOf(f)
             phase == IF answer = "ok" THEN "done" ELSE "error"
  <1>1. rows \subseteq RowsOf(f) /\ rows \subseteq Entry /\ RowsOf(f) \subseteq Entry
    BY Numbers DEF OlapInv
  <1>2. /\ hand' = [g \in Runner |->
              IF g = f THEN [hand[f] EXCEPT !.phase = phase]
              ELSE IF ReadBefore(g, f) THEN [hand[g] EXCEPT !.newer = @ \cup rows]
              ELSE hand[g]]
        /\ archive' = [r \in Entry |-> IF r \in rows \ hand[f].newer THEN hand[f].batch[r]
                                       ELSE archive[r]]
        /\ hand[f].phase = "insert"
    BY DEF Insert, Shown, RowsOf
  <1>3. phase \in ExportPhase /\ phase \in {"done", "error"} /\ (phase = "done" <=> answer = "ok")
    BY DEF ExportPhase
  <1> HIDE DEF rows, phase
  <1>4. \A g \in Runner : hand[g] \in Hand
    BY DEF OlapInv, OlapTypeOK
  <1>5. ASSUME NEW g \in Runner
        PROVE  /\ hand'[g] \in Hand
               /\ hand'[g].batch = hand[g].batch /\ hand'[g].since = hand[g].since
               /\ g # f => hand'[g].phase = hand[g].phase
               /\ g = f => hand'[g].phase = phase
               /\ g # f /\ ReadBefore(g, f) => hand'[g].newer = hand[g].newer \cup rows
               /\ g = f \/ ~ReadBefore(g, f) => hand'[g].newer = hand[g].newer
               /\ hand[g].newer \subseteq hand'[g].newer
               /\ g # f /\ ~ReadBefore(g, f) => hand'[g] = hand[g]
    <2>1. CASE g = f
      <3>1. hand'[g] = [hand[f] EXCEPT !.phase = phase]
        BY <1>2, <2>1
      <3> QED
        BY <1>3, <1>4, <2>1, <3>1 DEF Hand
    <2>2. CASE g # f /\ ReadBefore(g, f)
      <3>1. hand'[g] = [hand[g] EXCEPT !.newer = @ \cup rows]
        BY <1>2, <2>2
      <3> QED
        BY <1>1, <1>4, <2>2, <3>1 DEF Hand
    <2>3. CASE g # f /\ ~ReadBefore(g, f)
      BY <1>2, <1>4, <2>3
    <2> QED
      BY <2>1, <2>2, <2>3
  <1>6. hand' \in [Runner -> Hand]
    BY <1>2, <1>5
  <1>7. \A r \in Entry : archive'[r] =
            IF r \in rows \ hand[f].newer THEN hand[f].batch[r] ELSE archive[r]
    BY <1>2
  <1>8. \A r \in rows : r \in Entry /\ hand[f].batch[r] \in Nat
    BY <1>1, Numbers DEF OlapInv
  <1>9. archive' \in [Entry -> Nat \cup {None}]
    BY <1>2, <1>8 DEF OlapInv, OlapTypeOK
  <1>10. \A r \in Entry : archive[r] # None => archive'[r] # None
    BY <1>7, <1>8 DEF None
  <1>11. \A r \in rows : archive'[r] # None
    <2>1. \A r \in hand[f].newer : archive[r] # None
      BY DEF OlapInv, HandsAreHonest
    <2> QED
      BY <1>7, <1>8, <2>1 DEF None
  <1>12. /\ hand'[f].phase = phase /\ hand[f].phase = "insert"
    BY <1>2, <1>5
  <1> QED
    BY <1>3, <1>5, <1>6, <1>7, <1>9, <1>10, <1>11, <1>12 DEF rows

\* An insertion breaks no promise: the versions of later runs stand, and they are newer.
LEMMA ForwardKeeps ==
    ASSUME OlapInv, NEW f \in Runner, NEW answer \in {"ok", "lost", "failed"},
           Forward(f, answer)
    PROVE  OlapInv'
  <1> DEFINE rows == IF answer = "failed" THEN {} ELSE RowsOf(f)
  <1>1. /\ hand' \in [Runner -> Hand] /\ archive' \in [Entry -> Nat \cup {None}]
        /\ hand[f].phase = "insert" /\ hand'[f].phase \in {"done", "error"}
        /\ hand'[f].phase = "done" <=> answer = "ok"
        /\ \A g \in Runner : /\ hand'[g].batch = hand[g].batch
                             /\ hand'[g].since = hand[g].since
                             /\ g # f => hand'[g].phase = hand[g].phase
                             /\ hand[g].newer \subseteq hand'[g].newer
    BY InsertFacts DEF Forward
  <1>2. \A g \in Runner :
           /\ g # f /\ ReadBefore(g, f) => hand'[g].newer = hand[g].newer \cup rows
           /\ g = f \/ ~ReadBefore(g, f) => hand'[g].newer = hand[g].newer
           /\ g # f /\ ~ReadBefore(g, f) => hand'[g] = hand[g]
    BY InsertFacts DEF Forward
  <1>3. /\ \A r \in Entry : archive'[r] =
              IF r \in rows \ hand[f].newer THEN hand[f].batch[r] ELSE archive[r]
        /\ \A r \in Entry : archive[r] # None => archive'[r] # None
        /\ \A r \in rows : archive'[r] # None
    BY InsertFacts DEF Forward
  <1>4. UNCHANGED <<scene, source, late, costing, export, checkpoint, order, job>>
    BY DEF Forward
  <1>5. rows \subseteq RowsOf(f) /\ (answer = "ok" => rows = RowsOf(f))
    OBVIOUS
  <1> HIDE DEF rows
  <1>6. /\ \A g \in Runner : RowsOf(g)' = RowsOf(g) /\ RowsOf(g) \subseteq Entry
        /\ \A g \in Runner : \A r \in RowsOf(g) : hand[g].batch[r] \in Nat
        /\ \A g, h \in Runner : ReadBefore(g, h)' <=> ReadBefore(g, h)
        /\ Worker \in Runner /\ source \subseteq Entry
    BY <1>1, <1>4, Numbers DEF RowsOf, ReadBefore, OlapInv, OlapTypeOK
  <1>7. OlapTypeOK'
    BY <1>1, <1>4 DEF OlapInv, OlapTypeOK
  <1>8. MarksAreTrue'
    BY <1>3, <1>4, <1>6 DEF OlapInv, MarksAreTrue
  <1>9. BatchesHaveNoGaps'
    BY <1>3, <1>4, <1>6, Numbers DEF OlapInv, BatchesHaveNoGaps, Raw
  <1>10. HandsAreHonest'
    <2>1. ASSUME NEW g \in Runner, NEW r \in hand'[g].newer PROVE archive'[r] # None
      <3>1. CASE r \in hand[g].newer
        BY <1>3, <3>1, Numbers DEF OlapInv, HandsAreHonest
      <3>2. CASE r \notin hand[g].newer
        BY <1>2, <1>3, <2>1, <3>2
      <3> QED
        BY <3>1, <3>2
    <2>2. ASSUME NEW g \in Runner, hand'[g].phase = "done", NEW r \in RowsOf(g)
          PROVE  archive'[r] # None
      <3>1. CASE g = f
        BY <1>1, <1>3, <1>5, <2>2, <3>1
      <3>2. CASE g # f
        BY <1>1, <1>3, <1>6, <2>2, <3>2 DEF OlapInv, HandsAreHonest
      <3> QED
        BY <3>1, <3>2
    <2>3. ASSUME NEW g \in Runner
          PROVE  /\ hand'[g].phase = "idle" => hand'[g] = NoExport
                 /\ hand'[g].phase \in {"claim", "load"} => RowsOf(g) = {}
                 /\ RowsOf(g) \subseteq source
                 /\ g # Worker /\ hand'[g].phase \in {"insert", "done", "error"} =>
                       RowsOf(g) # {}
      <3>1. ~(g # f /\ hand[g].phase = "idle" /\ ReadBefore(g, f))
        BY DEF OlapInv, ClocksAreOrdered, ReadBefore
      <3>2. hand'[g].phase = "idle" => hand'[g] = NoExport
        BY <1>1, <1>2, <3>1 DEF OlapInv, HandsAreHonest
      <3>3. hand'[g].phase = hand[g].phase \/ g = f
        BY <1>1
      <3> QED
        BY <1>1, <3>2, <3>3 DEF OlapInv, HandsAreHonest
    <2> QED
      BY <1>4, <1>6, <2>1, <2>2, <2>3 DEF HandsAreHonest
  <1>11. ClocksAreOrdered'
    <2>1. \A g \in Runner : hand'[g].phase = "idle" <=> hand[g].phase = "idle"
      BY <1>1
    <2>2. \A p \in order' : /\ p \in Runner \X Runner
                            /\ hand'[p[1]].phase # "idle" /\ hand'[p[2]].phase # "idle"
      BY <1>4, <2>1 DEF OlapInv, ClocksAreOrdered
    <2>3. ASSUME NEW g \in Runner, NEW h \in Runner, ReadBefore(g, h)
          PROVE  hand'[h].newer \subseteq hand'[g].newer
      <3>1. hand[h].newer \subseteq hand[g].newer
        BY <2>3 DEF OlapInv, ClocksAreOrdered
      <3>2. CASE h # f /\ ReadBefore(h, f)
        <4>1. ReadBefore(g, f) /\ ~ReadBefore(f, f)
          BY <2>3, <3>2 DEF OlapInv, ClocksAreOrdered
        <4>2. g # f
          BY <2>3, <3>2, <4>1 DEF OlapInv, ClocksAreOrdered
        <4> QED
          BY <1>2, <3>1, <3>2, <4>1, <4>2
      <3>3. CASE h = f \/ ~ReadBefore(h, f)
        BY <1>1, <1>2, <3>1, <3>3
      <3> QED
        BY <3>2, <3>3
    <2> QED
      BY <1>6, <2>1, <2>2, <2>3 DEF OlapInv, ClocksAreOrdered
  <1>12. Promise' = Promise /\ (hand'[Worker].phase = "idle" <=> hand[Worker].phase = "idle")
    BY <1>1, <1>4, <1>6 DEF Promise
  <1>13. JobIsSane'
    BY <1>1, <1>4, <1>6 DEF OlapInv, JobIsSane
  <1>14. LaterRunsKeep'
    <2> SUFFICES ASSUME hand[Worker].phase # "idle"
                 PROVE  /\ Keeps(hand[Worker].batch, Promise)
                        /\ \A g \in Runner :
                              ReadBefore(Worker, g) => Keeps(hand[g].batch, Promise)
                        /\ \A r \in hand'[Worker].newer \cap DOMAIN Promise :
                              archive'[r] >= Promise[r]
      BY <1>1, <1>6, <1>12 DEF LaterRunsKeep
    <2>1. /\ Keeps(hand[Worker].batch, Promise)
          /\ \A g \in Runner : ReadBefore(Worker, g) => Keeps(hand[g].batch, Promise)
          /\ \A r \in hand[Worker].newer \cap DOMAIN Promise : archive[r] >= Promise[r]
      BY DEF OlapInv, LaterRunsKeep
    <2>2. ASSUME NEW r \in hand'[Worker].newer, r \in DOMAIN Promise
          PROVE  archive'[r] >= Promise[r]
      <3>1. r \in Entry
        BY <1>1, <1>6, <2>2, Numbers DEF OlapInv, Hand, Promise
      <3>2. CASE r \in rows \ hand[f].newer /\ ReadBefore(Worker, f)
        <4>1. Keeps(hand[f].batch, Promise)
          BY <2>1, <3>2
        <4>2. r \in DOMAIN hand[f].batch
          BY <1>5, <3>2 DEF RowsOf
        <4>3. hand[f].batch[r] >= Promise[r]
          BY <2>2, <4>1, <4>2 DEF Keeps
        <4> QED
          BY <1>3, <3>1, <3>2, <4>3
      <3>3. CASE r \notin rows \ hand[f].newer
        <4>1. archive'[r] = archive[r]
          BY <1>3, <3>1, <3>3
        <4>2. r \in hand[Worker].newer
          <5>1. CASE Worker # f /\ ReadBefore(Worker, f)
            <6>1. hand[f].newer \subseteq hand[Worker].newer
              BY <1>6, <5>1 DEF OlapInv, ClocksAreOrdered
            <6> QED
              BY <1>2, <1>6, <2>2, <3>3, <5>1, <6>1
          <5>2. CASE Worker = f \/ ~ReadBefore(Worker, f)
            BY <1>2, <1>6, <2>2, <5>2
          <5> QED
            BY <5>1, <5>2
        <4> QED
          BY <2>1, <2>2, <4>1, <4>2
      <3>4. CASE r \in rows \ hand[f].newer /\ ~ReadBefore(Worker, f)
        <4>1. r \in hand[Worker].newer
          BY <1>2, <1>6, <2>2, <3>4
        <4>2. Worker # f
          BY <3>4, <4>1
        <4>3. ReadBefore(f, Worker)
          BY <1>1, <1>6, <3>4, <4>2 DEF OlapInv, ClocksAreOrdered
        <4>4. hand[Worker].newer \subseteq hand[f].newer
          BY <1>6, <4>3 DEF OlapInv, ClocksAreOrdered
        <4> QED
          BY <3>4, <4>1, <4>4
      <3> QED
        BY <3>2, <3>3, <3>4
    <2> QED
      BY <2>1, <2>2
  <1>15. PassedStays'
    <2>1. ASSUME NEW r \in Entry, Passed(r)' PROVE Secure(r)'
      <3>1. CASE Passed(r)
        <4>1. Secure(r)
          BY <2>1, <3>1 DEF OlapInv, PassedStays
        <4>2. archive'[r] >= job.since[r]
          <5>1. CASE r \in rows \ hand[f].newer
            <6>1. hand[f].batch[r] >= job.since[r]
              BY <1>5, <4>1, <5>1 DEF Secure
            <6> QED
              BY <1>3, <5>1, <6>1
          <5>2. CASE r \notin rows \ hand[f].newer
            BY <1>3, <4>1, <5>2 DEF Secure
          <5> QED
            BY <5>1, <5>2
        <4> QED
          BY <1>1, <1>4, <1>6, <4>1, <4>2 DEF Secure
      <3>2. CASE ~Passed(r)
        <4>1. f = Worker /\ answer = "ok" /\ r \in RowsOf(Worker) /\ rows = RowsOf(Worker)
          BY <1>1, <1>4, <1>5, <1>6, <2>1, <3>2 DEF Passed
        <4>2. Promise = job.since /\ DOMAIN job.since = Entry /\ hand[Worker].phase # "idle"
          BY <1>1, <4>1 DEF Promise, OlapInv, JobIsSane
        <4>3. archive'[r] >= job.since[r]
          <5>1. CASE r \in hand[Worker].newer
            BY <1>3, <2>1, <4>1, <4>2, <5>1 DEF OlapInv, LaterRunsKeep
          <5>2. CASE r \notin hand[Worker].newer
            <6>1. Keeps(hand[Worker].batch, job.since)
              BY <4>2 DEF OlapInv, LaterRunsKeep
            <6>2. hand[Worker].batch[r] >= job.since[r]
              BY <2>1, <4>1, <4>2, <6>1 DEF Keeps, RowsOf
            <6> QED
              BY <1>3, <2>1, <4>1, <5>2, <6>2
          <5> QED
            BY <5>1, <5>2
        <4>4. ASSUME NEW g \in Runner, r \in RowsOf(g)
              PROVE  r \in hand'[g].newer \/ hand[g].batch[r] >= job.since[r]
          <5>1. CASE g # f /\ ReadBefore(g, f)
            BY <1>2, <4>1, <5>1
          <5>2. CASE g = f
            <6>1. Keeps(hand[g].batch, job.since)
              BY <4>1, <4>2, <5>2 DEF OlapInv, LaterRunsKeep
            <6> QED
              BY <2>1, <4>2, <4>4, <6>1 DEF Keeps, RowsOf
          <5>3. CASE g # f /\ ~ReadBefore(g, f)
            <6>1. hand[g].phase # "idle"
              BY <4>4, NothingInHand DEF OlapInv, HandsAreHonest, RowsOf
            <6>2. ReadBefore(Worker, g)
              BY <1>1, <4>1, <5>3, <6>1 DEF OlapInv, ClocksAreOrdered
            <6>3. Keeps(hand[g].batch, job.since)
              BY <4>2, <6>2 DEF OlapInv, LaterRunsKeep
            <6> QED
              BY <2>1, <4>2, <4>4, <6>3 DEF Keeps, RowsOf
          <5> QED
            BY <5>1, <5>2, <5>3
        <4> QED
          BY <1>1, <1>4, <1>6, <4>3, <4>4 DEF Secure
      <3> QED
        BY <3>1, <3>2
    <2> QED
      BY <2>1 DEF PassedStays
  <1> QED
    BY <1>7, <1>8, <1>9, <1>10, <1>11, <1>13, <1>14, <1>15 DEF OlapInv

\* Marking what was inserted is true, and a failure marks nothing as exported.
LEMMA MarkExportedKeeps ==
    ASSUME OlapInv, NEW f \in Forwarder, MarkExported(f) PROVE OlapInv'
  <1> DEFINE rows == RowsOf(f)
  <1>1. /\ hand[f].phase = "done" /\ End(f)
        /\ UNCHANGED <<scene, source, late, costing, archive, job>>
        /\ IF Raw THEN export' = Processed(rows) /\ UNCHANGED checkpoint
           ELSE checkpoint' = CheckpointAfter(rows) /\ UNCHANGED export
    BY DEF MarkExported, RowsOf
  <1>2. /\ HandsAreHonest' /\ BatchesHaveNoGaps' /\ ClocksAreOrdered' /\ JobIsSane'
        /\ LaterRunsKeep' /\ PassedStays' /\ hand' \in [Runner -> Hand]
    BY <1>1, ForwarderEnds
  <1>3. /\ rows \subseteq source /\ rows # {} /\ \A r \in rows : archive[r] # None
        /\ source \subseteq Entry /\ f \in Runner
    BY <1>1, Numbers DEF OlapInv, HandsAreHonest, OlapTypeOK
  <1>4. CASE Raw
    <2>1. \A r \in Entry : export'[r] = IF r \in rows THEN
              [status |-> "processed", processed |-> TRUE, stale |-> FALSE, due |-> TRUE]
              ELSE export[r]
      BY <1>1, <1>4 DEF Processed
    <2>2. export' \in [Entry -> ExportRow]
      <3>1. [status |-> "processed", processed |-> TRUE, stale |-> FALSE, due |-> TRUE]
               \in ExportRow
        BY DEF ExportRow
      <3>2. \A r \in Entry : export'[r] \in ExportRow
        BY <2>1, <3>1 DEF OlapInv, OlapTypeOK
      <3> QED
        BY <1>1, <1>4, <3>2 DEF Processed
    <2>3. \A r \in Entry : export'[r].processed => r \in rows \/ export[r].processed
      BY <2>1
    <2>4. OlapTypeOK'
      BY <1>1, <1>2, <1>4, <2>2 DEF OlapInv, OlapTypeOK
    <2>5. MarksAreTrue'
      BY <1>1, <1>3, <1>4, <2>3 DEF OlapInv, MarksAreTrue
    <2> QED
      BY <1>2, <2>4, <2>5 DEF OlapInv
  <1>5. CASE ~Raw
    <2>1. rows \in SUBSET Nat /\ IsFiniteSet(rows)
      BY <1>3, OlapAssumption, FS_Subset
    <2>2. LastOf(rows) \in rows /\ LastOf(rows) \in Nat
      BY <1>3, <2>1, LastOfIsLast
    <2>3. /\ checkpoint' = [last |-> LastOf(rows), blocked |-> FALSE]
          /\ checkpoint'.last = LastOf(rows)
      BY <1>1, <1>5 DEF CheckpointAfter
    <2>4. OlapTypeOK'
      BY <1>1, <1>2, <1>5, <2>2, <2>3 DEF OlapInv, OlapTypeOK
    <2>5. \A r \in source \ late : r <= LastOf(rows) => r \in rows \/ archive[r] # None
      BY <1>5, <2>2 DEF OlapInv, BatchesHaveNoGaps
    <2>6. MarksAreTrue'
      BY <1>1, <1>3, <1>5, <2>2, <2>3, <2>5 DEF OlapInv, MarksAreTrue
    <2> QED
      BY <1>2, <2>4, <2>6 DEF OlapInv
  <1> QED
    BY <1>4, <1>5

\* What changes of the marks when a forwarder ends without an export.
LEMMA EndKeeps ==
    ASSUME OlapInv, NEW f \in Forwarder, End(f),
           UNCHANGED <<scene, source, late, costing, archive, job>>,
           export' \in [Entry -> ExportRow],
           \A r \in Entry : export'[r].processed => export[r].processed,
           checkpoint' \in [last : Nat, blocked : BOOLEAN], checkpoint'.last = checkpoint.last
    PROVE  OlapInv'
  <1>1. /\ HandsAreHonest' /\ BatchesHaveNoGaps' /\ ClocksAreOrdered' /\ JobIsSane'
        /\ LaterRunsKeep' /\ PassedStays' /\ hand' \in [Runner -> Hand]
    BY ForwarderEnds
  <1>2. OlapTypeOK'
    BY <1>1 DEF OlapInv, OlapTypeOK
  <1>3. MarksAreTrue'
    BY DEF OlapInv, MarksAreTrue
  <1> QED
    BY <1>1, <1>2, <1>3 DEF OlapInv

\* Rows of the export table whose status, lock or back-off changes.
LEMMA ExportRows ==
    ASSUME NEW old \in ExportRow
    PROVE  /\ [old EXCEPT !.status = "failed", !.stale = FALSE, !.due = FALSE] \in ExportRow
           /\ [old EXCEPT !.status = "failed", !.stale = FALSE, !.due = FALSE].processed
                 = old.processed
           /\ [old EXCEPT !.stale = TRUE] \in ExportRow
           /\ [old EXCEPT !.stale = TRUE].processed = old.processed
           /\ [old EXCEPT !.due = TRUE] \in ExportRow
           /\ [old EXCEPT !.due = TRUE].processed = old.processed
           /\ Pending \in ExportRow /\ ~Pending.processed
  BY DEF ExportRow, Pending

\* The row of the checkpoint, blocked or not.
LEMMA CheckpointRows ==
    ASSUME NEW old \in [last : Nat, blocked : BOOLEAN], NEW b \in BOOLEAN
    PROVE  /\ [old EXCEPT !.blocked = b] \in [last : Nat, blocked : BOOLEAN]
           /\ [old EXCEPT !.blocked = b].last = old.last
  OBVIOUS

\* A failed export goes back to wait for its next try; the archive stays as it is.
LEMMA MarkExportFailedKeeps ==
    ASSUME OlapInv, NEW f \in Forwarder, MarkExportFailed(f) PROVE OlapInv'
  <1>1. /\ End(f) /\ UNCHANGED <<scene, source, late, costing, archive, job>>
    BY DEF MarkExportFailed
  <1>2. /\ export \in [Entry -> ExportRow]
        /\ checkpoint \in [last : Nat, blocked : BOOLEAN]
    BY DEF OlapInv, OlapTypeOK
  <1>3. /\ export' \in [Entry -> ExportRow]
        /\ \A r \in Entry : export'[r].processed => export[r].processed
    <2>1. CASE Raw
      <3>1. export' = [r \in Entry |->
                  IF r \in DOMAIN hand[f].batch
                  THEN [export[r] EXCEPT !.status = "failed", !.stale = FALSE, !.due = FALSE]
                  ELSE export[r]]
        BY <2>1 DEF MarkExportFailed
      <3>2. ASSUME NEW r \in Entry
            PROVE  export'[r] \in ExportRow /\ export'[r].processed = export[r].processed
        BY <1>2, <3>1, ExportRows
      <3> QED
        BY <3>1, <3>2
    <2>2. CASE ~Raw
      BY <1>2, <2>2 DEF MarkExportFailed
    <2> QED
      BY <2>1, <2>2
  <1>4. checkpoint' \in [last : Nat, blocked : BOOLEAN] /\ checkpoint'.last = checkpoint.last
    BY <1>2, CheckpointRows DEF MarkExportFailed
  <1> QED
    BY <1>1, <1>3, <1>4, EndKeeps

\* A forwarder that stops leaves its rows locked, and its hand is empty.
LEMMA StopForwarderKeeps ==
    ASSUME OlapInv, NEW f \in Forwarder, StopForwarder(f) PROVE OlapInv'
  <1>1. /\ export \in [Entry -> ExportRow]
        /\ checkpoint \in [last : Nat, blocked : BOOLEAN]
    BY DEF OlapInv, OlapTypeOK
  <1>2. /\ End(f)
        /\ UNCHANGED <<scene, source, late, costing, export, checkpoint, archive, job>>
    BY DEF StopForwarder
  <1> QED
    BY <1>1, <1>2, EndKeeps

\* Locks that expire, back-offs that end or are lifted.
LEMMA LocksKeep ==
    ASSUME OlapInv,
           \/ \E r \in Entry : LockExpires(r)
           \/ RetryIsDue
           \/ \E c \in scene.commands, resume \in BOOLEAN : RequestExportRetry(c, resume)
    PROVE  OlapInv'
  <1>1. /\ export \in [Entry -> ExportRow]
        /\ checkpoint \in [last : Nat, blocked : BOOLEAN]
    BY DEF OlapInv, OlapTypeOK
  <1>2. UNCHANGED <<scene, source, late, costing, archive, hand, order, job>>
    BY DEF LockExpires, RetryIsDue, RequestExportRetry
  <1>3. checkpoint' \in [last : Nat, blocked : BOOLEAN] /\ checkpoint'.last = checkpoint.last
    BY <1>1, CheckpointRows DEF LockExpires, RetryIsDue, RequestExportRetry, ApplyExportRetry
  <1>4. /\ export' \in [Entry -> ExportRow]
        /\ \A r \in Entry : export'[r].processed => export[r].processed
    <2>1. ASSUME NEW r \in Entry, LockExpires(r)
          PROVE  /\ export' \in [Entry -> ExportRow]
                 /\ \A q \in Entry : export'[q].processed => export[q].processed
      <3>1. export' = [export EXCEPT ![r] = [export[r] EXCEPT !.stale = TRUE]]
        BY <2>1 DEF LockExpires
      <3>2. \A q \in Entry : export'[q] = IF q = r THEN [export[r] EXCEPT !.stale = TRUE]
                                          ELSE export[q]
        BY <1>1, <3>1
      <3>3. /\ [export[r] EXCEPT !.stale = TRUE] \in ExportRow
            /\ [export[r] EXCEPT !.stale = TRUE].processed = export[r].processed
        BY <1>1, ExportRows
      <3>4. \A q \in Entry : export'[q].processed = export[q].processed
        BY <3>2, <3>3
      <3> QED
        BY <1>1, <3>1, <3>3, <3>4
    <2>2. ASSUME RetryIsDue
          PROVE  /\ export' \in [Entry -> ExportRow]
                 /\ \A q \in Entry : export'[q].processed => export[q].processed
      <3>1. export' = [r \in Entry |-> [export[r] EXCEPT !.due = TRUE]]
        BY <2>2 DEF RetryIsDue
      <3>2. ASSUME NEW q \in Entry
            PROVE  export'[q] \in ExportRow /\ export'[q].processed = export[q].processed
        BY <1>1, <3>1, ExportRows
      <3> QED
        BY <3>1, <3>2
    <2>3. ASSUME NEW c \in scene.commands, NEW resume \in BOOLEAN, RequestExportRetry(c, resume)
          PROVE  /\ export' \in [Entry -> ExportRow]
                 /\ \A q \in Entry : export'[q].processed => export[q].processed
      <3> DEFINE statuses == IF resume THEN {"failed", "processing"} ELSE {"failed"}
      <3>1. export' = [r \in Entry |->
                IF Raw /\ ~export[r].processed /\ export[r].status \in statuses
                THEN Pending ELSE export[r]]
        BY <2>3 DEF RequestExportRetry, ApplyExportRetry
      <3> HIDE DEF statuses
      <3>2. Pending \in ExportRow /\ ~Pending.processed
        BY DEF ExportRow, Pending
      <3>3. ASSUME NEW q \in Entry
            PROVE  export'[q] \in ExportRow /\ (export'[q].processed => export[q].processed)
        BY <1>1, <3>1, <3>2
      <3> QED
        BY <3>1, <3>3
    <2> QED
      BY <2>1, <2>2, <2>3
  <1> QED
    BY <1>2, <1>3, <1>4, MarksChange

-----------------------------------------------------------------------------
(* OLAP: the backfill.                                                     *)

\* A job that is created, or cancelled, has the cursor it had.
LEMMA JobRows ==
    ASSUME OlapInv, hand' = hand, UNCHANGED <<scene, source, late, costing, export,
               checkpoint, archive, order>>,
           job' \in Backfill, job'.cursor = job.cursor, job'.since = job.since,
           job'.range = job.range \/ (job.cursor = 0 /\ RowsOf(Worker) = {}),
           job'.status # "none",
           job'.status = "queued" => job.cursor = 0 /\ hand[Worker].phase \in {"idle", "claim"}
    PROVE  OlapInv'
  <1>1. Worker \in Runner /\ \A r \in Entry : r \in Nat \ {0}
    BY Numbers, OlapAssumption DEF OlapInv
  <1>2. OlapTypeOK' /\ MarksAreTrue' /\ ClocksAreOrdered'
    BY DEF OlapInv, OlapTypeOK, MarksAreTrue, ClocksAreOrdered, ReadBefore
  <1>3. HandsAreHonest' /\ BatchesHaveNoGaps'
    BY DEF OlapInv, HandsAreHonest, BatchesHaveNoGaps, RowsOf, Raw
  <1>4. JobIsSane'
    <2>1. \A s \in RowsOf(Worker), r \in (source \cap job'.range) \ late :
              r <= s => r \in RowsOf(Worker) \/ r <= job.cursor
      BY DEF OlapInv, JobIsSane
    <2> QED
      BY <2>1 DEF OlapInv, JobIsSane, RowsOf
  <1>5. LaterRunsKeep'
    BY DEF OlapInv, LaterRunsKeep, ReadBefore, Promise
  <1>6. PassedStays'
    <2>1. \A r \in Entry : Passed(r)' => Passed(r)
      BY <1>1 DEF Passed, RowsOf, OlapInv, OlapTypeOK
    <2>2. \A r \in Entry : Secure(r) => Secure(r)'
      BY DEF Secure, RowsOf
    <2> QED
      BY <2>1, <2>2 DEF OlapInv, PassedStays
  <1> QED
    BY <1>2, <1>3, <1>4, <1>5, <1>6 DEF OlapInv

\* A new job has read nothing and passed nothing.
LEMMA CreateKeeps ==
    ASSUME OlapInv, NEW range \in scene.ranges, CreateBackfillJob(range) PROVE OlapInv'
  <1>1. /\ job.status = "none"
        /\ job' = [NoBackfill EXCEPT !.status = "queued", !.range = range]
        /\ UNCHANGED <<scene, source, late, costing, export, checkpoint, archive, hand, order>>
    BY DEF CreateBackfillJob
  <1>2. job = NoBackfill /\ hand[Worker].phase \in {"idle", "claim"} /\ RowsOf(Worker) = {}
    <2>1. job = NoBackfill /\ hand[Worker].phase \notin {"load", "insert", "done", "error"}
      BY <1>1 DEF OlapInv, JobIsSane
    <2>2. Worker \in Runner /\ hand[Worker] \in Hand
      BY Numbers DEF OlapInv, OlapTypeOK
    <2>3. hand[Worker].phase \in {"idle", "claim"}
      BY <2>1, <2>2 DEF Hand, ExportPhase
    <2>4. RowsOf(Worker) = {}
      BY <2>2, <2>3, NothingInHand DEF OlapInv, HandsAreHonest, RowsOf
    <2> QED
      BY <2>1, <2>3, <2>4
  <1>3. /\ job' = [status |-> "queued", cursor |-> 0, range |-> range, since |-> NoCosts]
        /\ job.cursor = 0 /\ job.since = NoCosts
    BY <1>1, <1>2 DEF NoBackfill
  <1>4. range \in Ranges
    BY DEF Ranges, OlapInv, OlapTypeOK
  <1>5. job' \in Backfill
    BY <1>3, <1>4, CostsAreNumbers DEF Backfill, JobStatus
  <1> QED
    BY <1>1, <1>2, <1>3, <1>5, JobRows

\* A cancelled job keeps what it had archived.
LEMMA CancelKeeps == ASSUME OlapInv, CancelBackfillJob PROVE OlapInv'
  <1>1. /\ job \in Backfill /\ job' = [job EXCEPT !.status = "cancelled"]
        /\ UNCHANGED <<scene, source, late, costing, export, checkpoint, archive, hand, order>>
    BY DEF CancelBackfillJob, OlapInv, OlapTypeOK
  <1>2. /\ job' \in Backfill /\ job'.cursor = job.cursor /\ job'.since = job.since
        /\ job'.range = job.range /\ job'.status = "cancelled"
    BY <1>1 DEF Backfill, JobStatus
  <1> QED
    BY <1>1, <1>2, JobRows

\* The worker takes the costs of this moment as what it will promise.
LEMMA BeginBackfillKeeps == ASSUME OlapInv, BeginBackfill PROVE OlapInv'
  <1> DEFINE begun == [NoExport EXCEPT !.phase = "claim", !.since = costing]
  <1>1. /\ hand[Worker].phase = "idle" /\ job.status = "queued" /\ ReadClock(Worker)
        /\ UNCHANGED <<scene, source, late, costing, export, checkpoint, archive, job>>
        /\ hand' = [hand EXCEPT ![Worker] = begun]
    BY DEF BeginBackfill
  <1>2. costing \in [Entry -> Nat] /\ costing \in Costs /\ DOMAIN costing = Entry
    BY DEF OlapInv, OlapTypeOK, Costs
  <1>3. /\ begun \in Hand /\ begun.phase = "claim" /\ begun.newer = {}
        /\ begun.batch = NoCosts /\ DOMAIN begun.batch = {} /\ begun.since = costing
    <2>1. NoExport \in Hand
      BY CostsAreNumbers DEF NoExport, Hand, ExportPhase
    <2> QED
      BY <1>2, <2>1, NothingInHand, CostsAreNumbers DEF Hand, ExportPhase
  <1> HIDE DEF begun
  <1>4. Worker \in Runner /\ hand \in [Runner -> Hand] /\ \A r \in Entry : r \in Nat \ {0}
    BY Numbers, OlapAssumption DEF OlapInv, OlapTypeOK
  <1>5. /\ hand'[Worker] = begun /\ \A g \in Runner \ {Worker} : hand'[g] = hand[g]
        /\ hand' \in [Runner -> Hand]
    BY <1>1, <1>3, <1>4
  <1>6. ClocksAreOrdered'
    BY <1>1, <1>3, <1>4, ReadingIsOrdered
  <1>7. OlapTypeOK' /\ MarksAreTrue'
    BY <1>1, <1>5 DEF OlapInv, OlapTypeOK, MarksAreTrue
  <1>8. HandsAreHonest' /\ BatchesHaveNoGaps'
    BY <1>1, <1>3, <1>5, Numbers DEF OlapInv, HandsAreHonest, BatchesHaveNoGaps, RowsOf, Raw
  <1>9. JobIsSane'
    <2>1. Keeps(costing, costing)
      BY <1>2 DEF Keeps
    <2> QED
      BY <1>1, <1>2, <1>3, <1>5, <2>1 DEF OlapInv, JobIsSane, RowsOf
  <1>10. LaterRunsKeep'
    <2>1. \A g \in Runner : ~ReadBefore(Worker, g)'
      BY <1>1, <1>4 DEF ReadClock, ReadBefore, OlapInv, ClocksAreOrdered
    <2> QED
      BY <1>3, <1>5, <2>1, CostsAreNumbers DEF LaterRunsKeep, Keeps
  <1>11. PassedStays'
    <2>1. job.cursor = 0
      BY <1>1 DEF OlapInv, JobIsSane
    <2>2. \A r \in Entry : ~(Passed(r)')
      BY <1>1, <1>3, <1>4, <1>5, <2>1 DEF Passed
    <2> QED
      BY <2>2 DEF PassedStays
  <1> QED
    BY <1>6, <1>7, <1>8, <1>9, <1>10, <1>11 DEF OlapInv

\* The worker ends, and what the job has gone past was inserted.
LEMMA WorkerEnds ==
    ASSUME OlapInv, End(Worker),
           UNCHANGED <<scene, source, late, costing, export, checkpoint, archive>>,
           job' \in Backfill, job'.since = job.since, job'.range = job.range,
           job' = job \/ job'.status \notin {"none", "queued"},
           job'.cursor \in {0} \cup source,
           job'.cursor # 0 => DOMAIN job.since = Entry,
           \A r \in (source \cap job.range) \ late : r <= job'.cursor => Passed(r)
    PROVE  OlapInv'
  <1>1. Worker \in Runner /\ source \subseteq Entry
    BY Numbers DEF OlapInv, OlapTypeOK
  <1>2. /\ ClocksAreOrdered' /\ hand' \in [Runner -> Hand]
        /\ hand'[Worker] = NoExport /\ \A g \in Runner \ {Worker} : hand'[g] = hand[g]
    BY <1>1, EndingIsOrdered
  <1>3. OlapTypeOK' /\ MarksAreTrue'
    BY <1>2 DEF OlapInv, OlapTypeOK, MarksAreTrue
  <1>4. HandsAreHonest'
    BY <1>2, NothingInHand DEF OlapInv, HandsAreHonest, RowsOf
  <1>5. BatchesHaveNoGaps'
    BY <1>2, Numbers DEF OlapInv, BatchesHaveNoGaps, RowsOf, Raw
  <1>6. JobIsSane'
    <2>1. RowsOf(Worker)' = {} /\ hand'[Worker].phase = "idle" /\ hand'[Worker].since = NoCosts
      BY <1>2, NothingInHand DEF RowsOf
    <2>2. Keeps(costing, NoCosts)
      BY CostsAreNumbers DEF Keeps
    <2> QED
      BY <2>1, <2>2 DEF OlapInv, JobIsSane
  <1>7. LaterRunsKeep'
    BY <1>2, NothingInHand DEF LaterRunsKeep
  <1>8. PassedStays'
    <2>1. hand'[Worker].phase # "done"
      BY <1>2, NothingInHand
    <2>2. \A r \in Entry : Passed(r)' => Passed(r)
      BY <2>1 DEF Passed
    <2>3. \A g \in Runner : RowsOf(g)' # {} => g # Worker
      BY <1>2, NothingInHand DEF RowsOf
    <2>4. \A r \in Entry : Secure(r) => Secure(r)'
      BY <1>2, <2>3 DEF Secure, RowsOf
    <2> QED
      BY <2>2, <2>4 DEF OlapInv, PassedStays
  <1> QED
    BY <1>2, <1>3, <1>4, <1>5, <1>6, <1>7, <1>8 DEF OlapInv

\* A job that fails keeps what it had archived.
LEMMA MarkBackfillFailedKeeps == ASSUME OlapInv, MarkBackfillFailed PROVE OlapInv'
  <1>1. /\ job \in Backfill /\ job' = [job EXCEPT !.status = "failed"] /\ End(Worker)
        /\ UNCHANGED <<scene, source, late, costing, export, checkpoint, archive>>
    BY DEF MarkBackfillFailed, OlapInv, OlapTypeOK
  <1>2. /\ job' \in Backfill /\ job'.cursor = job.cursor /\ job'.since = job.since
        /\ job'.range = job.range /\ job'.status = "failed"
    BY <1>1 DEF Backfill, JobStatus
  <1>3. \A r \in (source \cap job.range) \ late : r <= job'.cursor => Passed(r)
    BY <1>2 DEF Passed
  <1>4. job'.cursor \in {0} \cup source /\ (job'.cursor # 0 => DOMAIN job.since = Entry)
    BY <1>2 DEF OlapInv, JobIsSane
  <1> QED
    BY <1>1, <1>2, <1>3, <1>4, WorkerEnds

\* A job's row with another status and cursor.
Advanced(old, status, cursor) == [old EXCEPT !.status = status, !.cursor = cursor]
\* What a batch that is written off changes in its job.
LEMMA JobAdvances ==
    ASSUME NEW old \in Backfill, NEW status \in JobStatus, NEW cursor \in Nat
    PROVE  /\ Advanced(old, status, cursor) \in Backfill
           /\ Advanced(old, status, cursor).status = status
           /\ Advanced(old, status, cursor).cursor = cursor
           /\ Advanced(old, status, cursor).since = old.since
           /\ Advanced(old, status, cursor).range = old.range
  BY DEF Backfill, Advanced

\* The job passes the rows of its batch only after the archive has taken them.
LEMMA MarkBackfillProgressKeeps == ASSUME OlapInv, MarkBackfillProgress PROVE OlapInv'
  <1> DEFINE rows == RowsOf(Worker)
  <1>1. /\ hand[Worker].phase = "done" /\ End(Worker)
        /\ UNCHANGED <<scene, source, late, costing, export, checkpoint, archive>>
        /\ job' = IF rows = {} THEN [job EXCEPT !.status = "completed"]
                  ELSE [job EXCEPT !.status = "running", !.cursor = LastOf(rows)]
    BY DEF MarkBackfillProgress, RowsOf
  <1>2. /\ job \in Backfill /\ rows \subseteq source /\ source \subseteq Entry
        /\ DOMAIN job.since = Entry /\ job.cursor \in {0} \cup source
    BY <1>1, Numbers DEF OlapInv, OlapTypeOK, HandsAreHonest, JobIsSane
  <1>3. CASE rows = {}
    <2>1. /\ job' \in Backfill /\ job'.cursor = job.cursor /\ job'.since = job.since
          /\ job'.range = job.range /\ job'.status = "completed"
      BY <1>1, <1>2, <1>3 DEF Backfill, JobStatus
    <2>2. \A r \in (source \cap job.range) \ late : r <= job'.cursor => Passed(r)
      BY <2>1 DEF Passed
    <2> QED
      BY <1>1, <1>2, <2>1, <2>2, WorkerEnds
  <1>4. CASE rows # {}
    <2>1. rows \in SUBSET Nat /\ IsFiniteSet(rows)
      BY <1>2, OlapAssumption, FS_Subset
    <2>2. LastOf(rows) \in rows /\ LastOf(rows) \in Nat
      BY <1>4, <2>1, LastOfIsLast
    <2>3. job' = Advanced(job, "running", LastOf(rows)) /\ "running" \in JobStatus
      BY <1>1, <1>4 DEF Advanced, JobStatus
    <2> HIDE DEF rows
    <2>4. /\ job' \in Backfill /\ job'.cursor = LastOf(rows) /\ job'.since = job.since
          /\ job'.range = job.range /\ job'.status = "running"
      BY <1>2, <2>2, <2>3, JobAdvances
    <2>5. \A r \in (source \cap job.range) \ late : r <= LastOf(rows) => Passed(r)
      <3>1. \A r \in (source \cap job.range) \ late :
                r <= LastOf(rows) => r \in rows \/ r <= job.cursor
        BY <2>2 DEF OlapInv, JobIsSane, rows
      <3> QED
        BY <1>1, <3>1 DEF Passed, rows
    <2> QED
      BY <1>1, <1>2, <2>2, <2>4, <2>5, WorkerEnds
  <1> QED
    BY <1>3, <1>4

\* The claimed job promises what the worker has seen.
LEMMA ClaimBackfillKeeps == ASSUME OlapInv, ClaimBackfillJob PROVE OlapInv'
  <1>1. /\ hand[Worker].phase = "claim"
        /\ UNCHANGED <<scene, source, late, costing, export, checkpoint, archive>>
    BY DEF ClaimBackfillJob
  <1>2. /\ Worker \in Runner /\ hand \in [Runner -> Hand] /\ hand[Worker] \in Hand
        /\ job \in Backfill /\ \A r \in Entry : r \in Nat \ {0}
    BY Numbers, OlapAssumption DEF OlapInv, OlapTypeOK
  <1>3. CASE job.status # "queued"
    <2>1. End(Worker) /\ job' = job
      BY <1>3 DEF ClaimBackfillJob
    <2>2. \A r \in (source \cap job.range) \ late : r <= job'.cursor => Passed(r)
      BY <2>1 DEF Passed
    <2>3. job.cursor \in {0} \cup source /\ (job.cursor # 0 => DOMAIN job.since = Entry)
      BY DEF OlapInv, JobIsSane
    <2> QED
      BY <1>1, <1>2, <2>1, <2>2, <2>3, WorkerEnds
  <1>4. CASE job.status = "queued"
    <2> DEFINE since == hand[Worker].since
               claimed == [job EXCEPT !.status = "running", !.since = since]
               taken == [hand[Worker] EXCEPT !.phase = "load", !.since = NoCosts]
    <2>1. job' = claimed /\ hand' = [hand EXCEPT ![Worker] = taken] /\ order' = order
      <3>1. /\ job' = claimed /\ order' = order
            /\ hand' = [hand EXCEPT ![Worker].phase = "load", ![Worker].since = NoCosts]
        BY <1>4 DEF ClaimBackfillJob
      <3> QED
        BY <1>2, <3>1
    <2>2. since \in Costs /\ DOMAIN since = Entry /\ RowsOf(Worker) = {} /\ job.cursor = 0
      BY <1>1, <1>2, <1>4 DEF Hand, OlapInv, JobIsSane, HandsAreHonest
    <2> HIDE DEF since
    <2>3. /\ claimed \in Backfill /\ claimed.status = "running" /\ claimed.cursor = 0
          /\ claimed.since = since /\ claimed.range = job.range
      BY <1>2, <2>2 DEF Backfill, JobStatus
    <2>4. /\ taken \in Hand /\ taken.phase = "load" /\ taken.batch = hand[Worker].batch
          /\ taken.newer = hand[Worker].newer /\ taken.since = NoCosts
      BY <1>2, CostsAreNumbers DEF Hand, ExportPhase
    <2> HIDE DEF claimed, taken
    <2>5. /\ hand'[Worker] = taken /\ \A g \in Runner \ {Worker} : hand'[g] = hand[g]
          /\ hand' \in [Runner -> Hand]
      BY <1>2, <2>1, <2>4
    <2>6. /\ \A g \in Runner : RowsOf(g)' = RowsOf(g) /\ hand'[g].newer = hand[g].newer
          /\ \A g \in Runner : hand'[g].batch = hand[g].batch
          /\ \A g \in Runner : hand'[g].phase = "idle" <=> hand[g].phase = "idle"
      BY <1>1, <2>4, <2>5 DEF RowsOf
    <2>7. OlapTypeOK' /\ MarksAreTrue'
      BY <1>1, <2>1, <2>3, <2>5 DEF OlapInv, OlapTypeOK, MarksAreTrue
    <2>8. HandsAreHonest'
      BY <1>1, <2>2, <2>4, <2>5, <2>6 DEF OlapInv, HandsAreHonest
    <2>9. BatchesHaveNoGaps'
      BY <1>1, <2>6, Numbers DEF OlapInv, BatchesHaveNoGaps, Raw
    <2>10. ClocksAreOrdered'
      <3>1. \A g, h \in Runner : ReadBefore(g, h)' <=> ReadBefore(g, h)
        BY <2>1 DEF ReadBefore
      <3>2. \A p \in order' : /\ p \in Runner \X Runner
                              /\ hand'[p[1]].phase # "idle" /\ hand'[p[2]].phase # "idle"
        BY <2>1, <2>6 DEF OlapInv, ClocksAreOrdered
      <3> QED
        BY <2>6, <3>1, <3>2 DEF OlapInv, ClocksAreOrdered
    <2>11. JobIsSane'
      <3>1. Keeps(costing, since) /\ Keeps(costing, NoCosts)
        BY CostsAreNumbers DEF OlapInv, JobIsSane, Keeps, since
      <3> QED
        BY <1>1, <2>1, <2>2, <2>3, <2>4, <2>5, <2>6, <3>1 DEF JobIsSane
    <2>12. LaterRunsKeep'
      <3>1. Promise' = since /\ Promise = since
        BY <1>1, <2>1, <2>3, <2>4, <2>5 DEF Promise, since
      <3>2. hand[Worker].phase # "idle"
        BY <1>1
      <3>3. /\ Keeps(hand[Worker].batch, since)
            /\ \A g \in Runner : ReadBefore(Worker, g) => Keeps(hand[g].batch, since)
            /\ \A r \in hand[Worker].newer \cap DOMAIN since : archive[r] >= since[r]
        BY <3>1, <3>2 DEF OlapInv, LaterRunsKeep
      <3> QED
        BY <1>1, <1>2, <2>1, <2>6, <3>1, <3>3 DEF LaterRunsKeep, ReadBefore
    <2>13. PassedStays'
      <3>1. \A r \in Entry : ~(Passed(r)')
        BY <1>1, <1>2, <2>1, <2>3, <2>4, <2>5 DEF Passed
      <3> QED
        BY <3>1 DEF PassedStays
    <2> QED
      BY <2>7, <2>8, <2>9, <2>10, <2>11, <2>12, <2>13 DEF OlapInv
  <1> QED
    BY <1>3, <1>4

\* A batch of the range goes on from the cursor.
LEMMA LoadBackfillKeeps == ASSUME OlapInv, LoadBackfillBatch PROVE OlapInv'
  <1> DEFINE pending == {r \in source \cap job.range : r > job.cursor}
             rows == FirstOf(pending, BatchSize)
             phase == IF rows = {} THEN "done" ELSE "insert"
  <1>1. /\ hand[Worker].phase = "load"
        /\ hand' = [hand EXCEPT ![Worker].phase = phase,
                                ![Worker].batch = [r \in rows |-> costing[r]]]
        /\ UNCHANGED <<scene, source, late, costing, export, checkpoint, archive, order, job>>
    BY DEF LoadBackfillBatch
  <1>2. /\ Worker \in Runner /\ source \subseteq Entry /\ Entry \subseteq Nat
        /\ IsFiniteSet(Entry) /\ job.cursor \in Nat /\ BatchSize \in Nat
    BY Numbers, OlapAssumption DEF OlapInv, OlapTypeOK
  <1>3. pending \in SUBSET Nat /\ IsFiniteSet(pending) /\ pending \subseteq source
    BY <1>2, FS_Subset
  <1>4. rows \in SUBSET source
    BY <1>3 DEF FirstOf
  <1>5. \A s \in rows, r \in (source \cap job.range) \ late :
            r <= s => r \in rows \/ r <= job.cursor
    <2> SUFFICES ASSUME NEW s \in rows, NEW r \in (source \cap job.range) \ late, r <= s,
                        ~(r <= job.cursor)
                 PROVE  r \in rows
      OBVIOUS
    <2>1. r \in pending
      BY <1>2
    <2> HIDE DEF pending
    <2> QED
      BY <1>2, <1>3, <2>1, FirstOfIsInitial
  <1>6. /\ phase \in ExportPhase /\ phase \in {"insert", "done"}
        /\ phase = "done" => rows = {}
    BY DEF ExportPhase
  <1> HIDE DEF rows, phase, pending
  <1>7. /\ HandsAreHonest' /\ BatchesHaveNoGaps' /\ ClocksAreOrdered' /\ JobIsSane'
        /\ LaterRunsKeep' /\ PassedStays' /\ hand' \in [Runner -> Hand]
    BY <1>1, <1>2, <1>4, <1>5, <1>6, ReadingKeeps
  <1>8. OlapTypeOK' /\ MarksAreTrue'
    BY <1>1, <1>7 DEF OlapInv, OlapTypeOK, MarksAreTrue
  <1> QED
    BY <1>7, <1>8 DEF OlapInv

-----------------------------------------------------------------------------
(* OLAP: the theorem.                                                      *)

\* Every step of a forwarder, of the operator and of the backfill keeps the invariant.
LEMMA OlapKeeps == ASSUME OlapInv, OlapNext PROVE OlapInv'
  <1>1. scene.forwarders \subseteq Forwarder /\ Forwarder \subseteq Runner /\ Worker \in Runner
    BY Numbers, OlapAssumption DEF OlapInv, OlapTypeOK
  <1>2. CASE \E r \in Entry : Commit(r) \/ UpdateRecalculationLedgerRow(r) \/ LockExpires(r)
    BY <1>2, CommitKeeps, RecalculationKeeps, LocksKeep
  <1>3. CASE RetryIsDue
    BY <1>3, LocksKeep
  <1>4. CASE \E f \in scene.forwarders : RunForwarder(f) \/ StopForwarder(f)
    <2> SUFFICES ASSUME NEW f \in Forwarder, RunForwarder(f) \/ StopForwarder(f)
                 PROVE  OlapInv'
      BY <1>1, <1>4
    <2>1. CASE BeginForward(f)
      BY <2>1, BeginForwardKeeps
    <2>2. CASE ClaimExports(f)
      BY <2>2, ClaimExportsKeeps
    <2>3. CASE MarkExported(f)
      BY <2>3, MarkExportedKeeps
    <2>4. CASE MarkExportFailed(f)
      BY <2>4, MarkExportFailedKeeps
    <2>5. CASE \E answer \in {"ok", "lost", "failed"} : Forward(f, answer)
      BY <1>1, <2>5, ForwardKeeps
    <2>6. CASE StopForwarder(f)
      BY <2>6, StopForwarderKeeps
    <2> QED
      BY <2>1, <2>2, <2>3, <2>4, <2>5, <2>6 DEF RunForwarder
  <1>5. CASE \E c \in scene.commands, resume \in BOOLEAN : RequestExportRetry(c, resume)
    BY <1>5, LocksKeep
  <1>6. CASE \E range \in scene.ranges : CreateBackfillJob(range)
    BY <1>6, CreateKeeps
  <1>7. CASE CancelBackfillJob
    BY <1>7, CancelKeeps
  <1>8. CASE RunBackfill
    <2>1. CASE \E answer \in {"ok", "lost", "failed"} : Forward(Worker, answer)
      BY <1>1, <2>1, ForwardKeeps
    <2> QED
      BY <1>8, <2>1, BeginBackfillKeeps, ClaimBackfillKeeps, LoadBackfillKeeps,
         MarkBackfillProgressKeeps, MarkBackfillFailedKeeps DEF RunBackfill
  <1> QED
    BY <1>2, <1>3, <1>4, <1>5, <1>6, <1>7, <1>8 DEF OlapNext

\* The invariant holds at the start.
LEMMA OlapStarts == ASSUME OlapInit PROVE OlapInv
  <1>1. /\ Worker \in Runner /\ Forwarder \subseteq Runner /\ \A r \in Entry : r \in Nat \ {0}
    BY OlapAssumption DEF Runner
  <1>2. \A f \in Runner : hand[f] = NoExport
    BY DEF OlapInit
  <1>3. \A f \in Runner : hand[f].phase = "idle" /\ RowsOf(f) = {} /\ hand[f].newer = {}
    BY <1>2, NothingInHand DEF RowsOf
  <1>4. NoExport \in Hand /\ Pending \in ExportRow /\ NoBackfill \in Backfill
    BY CostsAreNumbers
    DEF NoExport, Hand, ExportPhase, Pending, ExportRow, NoBackfill, Backfill, JobStatus, Ranges
  <1>5. OlapTypeOK
    BY <1>4 DEF OlapInit, OlapTypeOK, None
  <1>6. HandsAreHonest /\ MarksAreTrue /\ BatchesHaveNoGaps
    BY <1>1, <1>2, <1>3 DEF OlapInit, HandsAreHonest, MarksAreTrue, BatchesHaveNoGaps, Pending
  <1>7. ClocksAreOrdered
    BY <1>3 DEF OlapInit, ClocksAreOrdered, ReadBefore
  <1>8. job = NoBackfill /\ job.cursor = 0 /\ job.status = "none" /\ job.since = NoCosts
    BY DEF OlapInit, NoBackfill
  <1>9. JobIsSane
    <2>1. Keeps(costing, NoCosts) /\ hand[Worker].since = NoCosts
      BY <1>1, <1>2, CostsAreNumbers, NothingInHand DEF Keeps
    <2> QED
      BY <1>1, <1>3, <1>8, <2>1 DEF JobIsSane
  <1>10. LaterRunsKeep /\ PassedStays
    BY <1>1, <1>3, <1>8 DEF LaterRunsKeep, PassedStays, Passed
  <1> QED
    BY <1>5, <1>6, <1>7, <1>9, <1>10 DEF OlapInv

\* What the invariant says of the marks.
LEMMA OlapInvTells == ASSUME OlapInv PROVE MarksTellTheArchive
  <1>1. \A r \in Entry : Archived(r) <=> archive[r] # None
    BY DEF Archived, ListRawBusinessEvents, ListStockMoves
  <1>2. \A r \in Entry : archive[r] # None => ListStockMoves[r] = archive[r]
    BY DEF ListStockMoves
  <1>3. source \subseteq Entry
    BY DEF OlapInv, OlapTypeOK
  <1>4. ASSUME NEW r \in (source \cap job.range) \ late, r <= job.cursor
        PROVE  Archived(r) /\ (~Raw => ListStockMoves[r] >= job.since[r])
    <2>1. r \in Entry /\ Passed(r)
      BY <1>3, <1>4 DEF Passed
    <2>2. archive[r] >= job.since[r] /\ job.since[r] \in Nat
      BY <2>1, PassedIsPromised DEF OlapInv, PassedStays, Secure
    <2>3. archive[r] # None
      BY <2>1, <2>2 DEF None
    <2> QED
      BY <1>1, <1>2, <2>1, <2>2, <2>3
  <1> QED
    BY <1>1, <1>3, <1>4 DEF OlapInv, MarksAreTrue, MarksTellTheArchive

\* The invariant of the OLAP workers.
LEMMA OlapAlways == Spec => []OlapInv
  <1>1. Init => OlapInv
    BY OlapStarts DEF Init
  <1>2. OlapInv /\ [Next]_vars => OlapInv'
    <2> SUFFICES ASSUME OlapInv, [Next]_vars PROVE OlapInv'
      OBVIOUS
    <2>1. CASE InOlap(OlapNext)
      BY <2>1, OlapKeeps DEF InOlap
    <2>2. CASE UNCHANGED olapVars
      <3>1. UNCHANGED <<scene, source, late, costing, export, checkpoint, archive, hand,
                        order, job>>
        BY <2>2 DEF olapVars
      <3>2. /\ export \in [Entry -> ExportRow]
            /\ checkpoint \in [last : Nat, blocked : BOOLEAN]
        BY DEF OlapInv, OlapTypeOK
      <3> QED
        BY <3>1, <3>2, MarksChange
    <2> QED
      BY <2>1, <2>2 DEF Next, InInventory, vars
  <1> QED
    BY <1>1, <1>2, PTL DEF Spec

\* Whatever forwarders, retries, faults and a backfill do side by side, a row marked as
\* exported or behind the checkpoint is in ClickHouse, unless it was committed late, and
\* what a job has gone past is shown with costs no older than when the job was taken up
\* (ClaimPending, MarkProcessed, MarkStockMovesExported, MarkBackfillProgress).
THEOREM MarksAlwaysTell == Spec => []MarksTellTheArchive
  <1>1. OlapInv => MarksTellTheArchive
    BY OlapInvTells
  <1> QED
    BY <1>1, OlapAlways, PTL

-----------------------------------------------------------------------------
(* Inventory: types.                                                       *)

Movement == {"IN", "OUT"}
Costing == {"final", "estimated", "needs_recalculation", "recalculated"}
Source == SaleEvent \cup DocumentEvent \cup {"ItemServedCompensation"}
OrderLine == STRING \cup {"none"}
LedgerRow ==
    [event : Event, source : Source, key : Key, line : OrderLine, movement : Movement,
     quantity : Nat, cost : Nat, at : Nat, costing : Costing]
Job == [status : {"none", "queued", "running", "completed", "failed"}, keys : SUBSET Key,
        cyclic : BOOLEAN]

\* A document of an event; what says itself has one source.
IsDocumentOf(rows, e) ==
    /\ rows \in Seq(LedgerRow) /\ rows # <<>>
    /\ \A i \in DOMAIN rows :
          /\ rows[i].event = e
          /\ SaysItself(e) => rows[i].source = fact[e].type

\* The same of a task and of the ledger, for the facts there are.
ByItself(type) == type \notin {"CheckClosed", "ItemServed", "InventoryCountCaptured"}
IsTask(t, facts) ==
    /\ t \in [event : Event, documents : Seq(Seq(LedgerRow)), job : BOOLEAN]
    /\ \A n \in DOMAIN t.documents :
          /\ t.documents[n] # <<>>
          /\ \A i \in DOMAIN t.documents[n] :
                /\ t.documents[n][i].event = t.event
                /\ ByItself(facts[t.event].type) =>
                      t.documents[n][i].source = facts[t.event].type
SourcesFit(rows, facts) ==
    \A i \in DOMAIN rows :
        ByItself(facts[rows[i].event].type) => rows[i].source = facts[rows[i].event].type

InventoryTypeOK ==
    /\ fact \in [Event -> Fact]
    /\ queue \in [Event -> {"none", "pending", "processing", "processed", "failed"}]
    /\ batch \subseteq Event
    /\ task = NoTask \/ IsTask(task, fact)
    /\ ledger \in Seq(LedgerRow) /\ SourcesFit(ledger, fact)
    /\ balance \in [Key -> Int]
    /\ valuation \in [Key -> {"none"} \cup Costing]
    /\ state \in [Event -> {"none", "accepted", "posted", "failed"}]
    /\ jobs \in [Event -> Job]
    /\ run = NoRun \/ run \in [event : Event, rows : SUBSET (DOMAIN ledger)]

-----------------------------------------------------------------------------
(* Inventory: rows, sums and orders.                                       *)

\* Rows of the ledger have the columns of the table.
LEMMA RowColumns ==
    ASSUME NEW rows \in Seq(LedgerRow)
    PROVE  /\ DOMAIN rows = 1..Len(rows) /\ Len(rows) \in Nat /\ IsFiniteSet(DOMAIN rows)
           /\ \A i \in DOMAIN rows :
                 /\ rows[i] \in LedgerRow
                 /\ rows[i].event \in Event /\ rows[i].key \in Key /\ rows[i].at \in Nat
                 /\ rows[i].quantity \in Nat /\ rows[i].cost \in Nat
                 /\ rows[i].movement \in Movement /\ rows[i].costing \in Costing
  <1>1. DOMAIN rows = 1..Len(rows) /\ Len(rows) \in Nat
    OBVIOUS
  <1>2. IsFiniteSet(DOMAIN rows)
    <2>1. 1 \in Int /\ Len(rows) \in Int
      BY <1>1
    <2>2. IsFiniteSet(1..Len(rows))
      BY <2>1, FS_Interval
    <2> QED
      BY <1>1, <2>2
  <1>3. \A i \in DOMAIN rows : rows[i] \in LedgerRow
    BY <1>1
  <1> QED
    BY <1>1, <1>2, <1>3 DEF LedgerRow

\* A sum over rows is a number.
LEMMA SumOfRows ==
    ASSUME NEW rows \in Seq(LedgerRow), NEW some \in SUBSET DOMAIN rows
    PROVE  SumOf(rows, some) \in Nat
  <1> DEFINE f == [i \in DOMAIN rows |-> rows[i].quantity]
  <1>1. IsFiniteSet(some) /\ \A i \in some : f[i] \in Nat
    BY RowColumns, FS_Subset
  <1> HIDE DEF f
  <1>2. SumFunctionOnSet(f, some) \in Nat
    BY <1>1, SumIsANumber
  <1> QED
    BY <1>2 DEF f, SumOf

\* A sum over rows depends on their quantities only.
LEMMA SumOfSame ==
    ASSUME NEW rows, NEW others, DOMAIN rows = DOMAIN others,
           \A i \in DOMAIN rows : rows[i].quantity = others[i].quantity, NEW some
    PROVE  SumOf(rows, some) = SumOf(others, some)
  <1>1. [i \in DOMAIN rows |-> rows[i].quantity] = [i \in DOMAIN others |-> others[i].quantity]
    OBVIOUS
  <1> QED
    BY <1>1 DEF SumOf

\* No rows have no quantity.
LEMMA SumOfNone == ASSUME NEW rows PROVE SumOf(rows, {}) = 0
  BY SumIsOfTaken, FS_EmptySet DEF SumOf

Shifted(n, T) == {n + i : i \in T}

\* What is appended adds its quantities.
LEMMA SumOfAppended ==
    ASSUME NEW rows \in Seq(LedgerRow), NEW more \in Seq(LedgerRow),
           NEW S \in SUBSET DOMAIN rows, NEW T \in SUBSET DOMAIN more
    PROVE  SumOf(rows \o more, S \cup Shifted(Len(rows), T)) = SumOf(rows, S) + SumOf(more, T)
  <1> DEFINE n == Len(rows)
             all == rows \o more
             f == [i \in DOMAIN all |-> all[i].quantity]
             g == [i \in DOMAIN rows |-> rows[i].quantity]
             h == [i \in DOMAIN more |-> more[i].quantity]
             Sum(t) == SumFunctionOnSet(f, S \cup Shifted(n, t))
             B == {t \in SUBSET T : Sum(t) # SumFunctionOnSet(g, S) + SumFunctionOnSet(h, t)}
  <1>1. /\ n \in Nat /\ DOMAIN rows = 1..n /\ DOMAIN more = 1..Len(more) /\ Len(more) \in Nat
        /\ DOMAIN all = 1..(n + Len(more))
        /\ \A i \in DOMAIN rows : all[i] = rows[i]
        /\ \A i \in DOMAIN more : n + i \in DOMAIN all /\ all[n + i] = more[i]
    <2>1. n \in Nat /\ DOMAIN rows = 1..n /\ DOMAIN more = 1..Len(more) /\ Len(more) \in Nat
      OBVIOUS
    <2>2. all \in Seq(LedgerRow) /\ Len(all) = n + Len(more)
      OBVIOUS
    <2>3. \A i \in 1..n : all[i] = rows[i]
      OBVIOUS
    <2>4. \A i \in 1..Len(more) : all[n + i] = more[i]
      OBVIOUS
    <2> HIDE DEF all
    <2> QED
      BY <2>1, <2>2, <2>3, <2>4
  <1>2. /\ \A i \in S : i \in 1..n /\ f[i] = g[i] /\ g[i] \in Nat
        /\ \A i \in T : f[n + i] = h[i] /\ h[i] \in Nat /\ n + i \notin S
    <2> HIDE DEF all
    <2> QED
      BY <1>1, RowColumns
  <1>3. IsFiniteSet(S) /\ IsFiniteSet(T)
    BY RowColumns, FS_Subset
  <1>4. SUFFICES B = {}
    BY DEF SumOf
  <1>5. SUFFICES ASSUME B # {} PROVE FALSE
    OBVIOUS
  <1>6. PICK t \in B : \A u \in SUBSET t : u # t => u \notin B
    <2>1. B \in SUBSET (SUBSET T)
      OBVIOUS
    <2> HIDE DEF B
    <2> QED
      BY <1>3, <1>5, <2>1, SmallestSet
  <1>7. t \in SUBSET T /\ IsFiniteSet(t)
    BY <1>3, FS_Subset
  <1> HIDE DEF f, g, h, n, all
  <1>8. SumFunctionOnSet(f, S) = SumFunctionOnSet(g, S)
    <2>1. \A i \in S : f[i] = g[i]
      BY <1>2
    <2> QED
      BY <1>3, <2>1, SumOfEquals
  <1>9. t # {}
    <2>1. S \cup Shifted(n, {}) = S
      BY DEF Shifted
    <2>2. SumFunctionOnSet(h, {}) = 0
      BY <1>3, SumIsOfTaken
    <2>3. SumFunctionOnSet(g, S) \in Nat
      BY <1>2, <1>3, SumIsANumber
    <2>4. Sum({}) = SumFunctionOnSet(g, S)
      BY <1>8, <2>1
    <2>5. Sum({}) = SumFunctionOnSet(g, S) + SumFunctionOnSet(h, {})
      <3> HIDE DEF Sum
      <3> QED
        BY <2>2, <2>3, <2>4
    <2> QED
      BY <1>6, <2>5
  <1>10. PICK x \in t : TRUE
    BY <1>9
  <1> DEFINE u == t \ {x}
  <1>11. Sum(u) = SumFunctionOnSet(g, S) + SumFunctionOnSet(h, u)
    <2>1. u \in SUBSET T /\ u \in SUBSET t /\ u # t
      BY <1>7, <1>10
    <2>2. u \notin B
      BY <1>6, <2>1
    <2> QED
      BY <2>1, <2>2
  <1>12. SumFunctionOnSet(h, t) = h[x] + SumFunctionOnSet(h, u)
    <2>1. \A i \in t : h[i] \in Int
      BY <1>2, <1>7
    <2> QED
      BY <1>7, <1>10, <2>1, SumIsOfAny
  <1>13. Sum(t) = Sum(u) + f[n + x]
    <2> DEFINE U == S \cup Shifted(n, u)
    <2>1. S \cup Shifted(n, t) = U \cup {n + x}
      BY <1>10 DEF Shifted
    <2>2. n + x \notin U
      <3>1. \A i \in u : i \in Nat /\ i # x
        BY <1>1, <1>7
      <3>2. x \in Nat /\ n \in Nat
        BY <1>1, <1>7, <1>10
      <3>3. n + x \notin S
        BY <1>2, <1>7, <1>10
      <3>4. \A i \in u : n + i # n + x
        BY <3>1, <3>2
      <3>5. n + x \notin Shifted(n, u)
        BY <3>4 DEF Shifted
      <3> QED
        BY <3>3, <3>5
    <2>3. IsFiniteSet(U)
      <3>1. Shifted(n, u) \subseteq 1..(n + Len(more))
        BY <1>1, <1>7 DEF Shifted
      <3>2. IsFiniteSet(Shifted(n, u))
        <4>1. 1 \in Int /\ n + Len(more) \in Int
          BY <1>1
        <4>2. IsFiniteSet(1..(n + Len(more)))
          BY <4>1, FS_Interval
        <4> QED
          BY <3>1, <4>2, FS_Subset
      <3> QED
        BY <1>3, <3>2, FS_Union
    <2>4. \A y \in U \cup {n + x} : f[y] \in Int
      BY <1>2, <1>7, <1>10 DEF Shifted
    <2> HIDE DEF U
    <2>5. SumFunctionOnSet(f, U \cup {n + x}) = SumFunctionOnSet(f, U) + f[n + x]
      BY <2>2, <2>3, <2>4, SumOfMore
    <2> QED
      BY <2>1, <2>5 DEF U
  <1>14. /\ SumFunctionOnSet(g, S) \in Nat /\ SumFunctionOnSet(h, u) \in Nat
         /\ h[x] \in Nat /\ f[n + x] = h[x]
    <2>1. IsFiniteSet(u) /\ \A i \in u : h[i] \in Nat
      BY <1>2, <1>7, FS_Subset
    <2>2. SumFunctionOnSet(h, u) \in Nat
      BY <2>1, SumIsANumber
    <2>3. SumFunctionOnSet(g, S) \in Nat
      BY <1>2, <1>3, SumIsANumber
    <2> QED
      BY <1>2, <1>7, <1>10, <2>2, <2>3
  <1> HIDE DEF u
  <1> QED
    BY <1>6, <1>11, <1>12, <1>13, <1>14

\* Rows are in a total order.
LEMMA BeforeIsOrder ==
    ASSUME NEW rows, NEW x \in Nat, NEW y \in Nat, NEW z \in Nat,
           rows[x].at \in Nat, rows[y].at \in Nat, rows[z].at \in Nat
    PROVE  /\ ~Before(rows, x, x)
           /\ Before(rows, x, y) \/ x = y \/ Before(rows, y, x)
           /\ ~(Before(rows, x, y) /\ Before(rows, y, x))
           /\ Before(rows, x, y) /\ Before(rows, y, z) => Before(rows, x, z)
  <1>1. PICK a \in Nat, b \in Nat, c \in Nat :
           a = rows[x].at /\ b = rows[y].at /\ c = rows[z].at
    OBVIOUS
  <1>2. /\ Before(rows, x, x) <=> a < a \/ (a = a /\ x < x)
        /\ Before(rows, x, y) <=> a < b \/ (a = b /\ x < y)
        /\ Before(rows, y, x) <=> b < a \/ (b = a /\ y < x)
        /\ Before(rows, y, z) <=> b < c \/ (b = c /\ y < z)
        /\ Before(rows, x, z) <=> a < c \/ (a = c /\ x < z)
    BY <1>1 DEF Before
  <1> QED
    BY <1>2

\* Some rows have a latest one.
LEMMA LatestIsLatest ==
    ASSUME NEW rows \in Seq(LedgerRow), NEW S \in SUBSET DOMAIN rows, S # {}
    PROVE  Latest(rows, S) \in S /\ \A j \in S : ~Before(rows, Latest(rows, S), j)
  <1> DEFINE B == {s \in SUBSET S : s # {} /\ ~\E i \in s : \A j \in s : ~Before(rows, i, j)}
  <1>1. \A i \in S : i \in Nat /\ rows[i].at \in Nat
    BY RowColumns
  <1>2. B = {}
    <2>1. SUFFICES ASSUME B # {} PROVE FALSE
      OBVIOUS
    <2>2. PICK s \in B : \A t \in SUBSET s : t # s => t \notin B
      <3>1. B \in SUBSET (SUBSET S) /\ IsFiniteSet(S)
        BY RowColumns, FS_Subset
      <3> HIDE DEF B
      <3> QED
        BY <2>1, <3>1, SmallestSet
    <2>3. PICK x \in s : TRUE
      OBVIOUS
    <2>4. s \ {x} \notin B
      BY <2>2, <2>3
    <2>5. CASE s \ {x} = {}
      <3>1. \A j \in s : ~Before(rows, x, j)
        BY <1>1, <2>5 DEF Before
      <3> QED
        BY <2>3, <3>1
    <2>6. CASE s \ {x} # {}
      <3>1. PICK y \in s \ {x} : \A j \in s \ {x} : ~Before(rows, y, j)
        BY <2>4, <2>6
      <3>2. x \in S /\ y \in S /\ s \subseteq S
        BY <2>3, <3>1
      <3>3. CASE Before(rows, y, x)
        <4>1. ASSUME NEW j \in s PROVE ~Before(rows, x, j)
          <5>1. j = x \/ ~Before(rows, y, j)
            BY <3>1
          <5>2. j \in S
            BY <3>2
          <5>3. /\ rows[x].at \in Nat /\ rows[y].at \in Nat /\ rows[j].at \in Nat
                /\ x \in Nat /\ y \in Nat /\ j \in Nat
            BY <1>1, <3>2, <5>2
          <5> QED
            BY <3>3, <5>1, <5>3, BeforeIsOrder
        <4> QED
          BY <2>3, <4>1
      <3>4. CASE ~Before(rows, y, x)
        <4>1. \A j \in s : ~Before(rows, y, j)
          BY <3>1, <3>4
        <4> QED
          BY <3>1, <4>1
      <3> QED
        BY <3>3, <3>4
    <2> QED
      BY <2>5, <2>6
  <1>3. \E i \in S : \A j \in S : ~Before(rows, i, j)
    BY <1>2
  <1> QED
    BY <1>3 DEF Latest

-----------------------------------------------------------------------------
(* Inventory: documents.                                                   *)

RowsOfEvent(rows, e, origin) ==
    /\ rows \in Seq(LedgerRow)
    /\ \A i \in DOMAIN rows : rows[i].event = e /\ rows[i].source = origin
AllAreDocuments(documents, e) ==
    /\ documents \in Seq(Seq(LedgerRow))
    /\ \A n \in DOMAIN documents : IsDocumentOf(documents[n], e)

\* What an event says.
LEMMA FactColumns ==
    ASSUME InventoryTypeOK, NEW e \in Event
    PROVE  /\ fact[e] \in Fact /\ fact[e].type \in SaleEvent \cup DocumentEvent
           /\ fact[e].at \in Nat /\ fact[e].warehouse \in Warehouse /\ fact[e].item \in Item
           /\ fact[e].line \in OrderLine /\ fact[e].quantity \in Nat /\ fact[e].cost \in Nat
           /\ fact[e].linked \in Item \cup {"none"}
  BY DEF InventoryTypeOK, Fact, OrderLine

\* A row of a document of an event.
LEMMA RowTyped ==
    ASSUME InventoryTypeOK, NEW e \in Event, NEW origin \in Source, NEW item \in Item,
           NEW line \in OrderLine, NEW movement \in Movement, NEW quantity \in Nat,
           NEW cost \in Nat
    PROVE  /\ Row(e, origin, item, line, movement, quantity, cost) \in LedgerRow
           /\ Row(e, origin, item, line, movement, quantity, cost).event = e
           /\ Row(e, origin, item, line, movement, quantity, cost).source = origin
  BY FactColumns DEF Row, LedgerRow, Key, Costing, Movement

\* A document of one row.
LEMMA OneRow ==
    ASSUME NEW e, NEW origin, NEW row \in LedgerRow, row.event = e, row.source = origin
    PROVE  RowsOfEvent(<<row>>, e, origin) /\ <<row>> # <<>>
  <1>1. <<row>> \in Seq(LedgerRow) /\ <<row>> # <<>>
    OBVIOUS
  <1>2. \A i \in DOMAIN <<row>> : <<row>>[i] = row
    OBVIOUS
  <1> QED
    BY <1>1, <1>2 DEF RowsOfEvent

\* What a sequence holds.
LEMMA HeldBySequence ==
    ASSUME NEW S, NEW s \in Seq(S), NEW i \in DOMAIN s
    PROVE  s[i] \in S
  OBVIOUS

RecipeLine == [component : Item, amount : Nat \ {0}]

\* The lines of a recipe are components with their amounts.
LEMMA RecipeColumns ==
    ASSUME NEW item \in Item
    PROVE  /\ RecipeOf(item) \in Seq(RecipeLine)
           /\ \A i \in DOMAIN RecipeOf(item) :
                 RecipeOf(item)[i].component \in Item /\ RecipeOf(item)[i].amount \in Nat
  <1>1. Version \in [Item -> Seq(RecipeLine)] /\ Legacy \in [Item -> Seq(RecipeLine)]
    BY CloudInventoryAssumption DEF RecipeLine
  <1>2. RecipeOf(item) \in Seq(RecipeLine)
    BY <1>1 DEF RecipeOf
  <1>3. \A i \in DOMAIN RecipeOf(item) : RecipeOf(item)[i] \in RecipeLine
    BY <1>2, HeldBySequence
  <1> QED
    BY <1>2, <1>3 DEF RecipeLine

\* What is made of a recipe is a document.
LEMMA ExpandTyped ==
    ASSUME InventoryTypeOK, NEW e \in Event, NEW origin \in Source,
           NEW movement \in Movement, NEW quantity \in Nat
    PROVE  /\ RowsOfEvent(Expand(e, origin, movement, quantity), e, origin)
           /\ Expand(e, origin, movement, quantity) # <<>>
  <1> DEFINE rows == Expand(e, origin, movement, quantity)
             recipe == RecipeOf(fact[e].item)
  <1>1. /\ recipe \in Seq(RecipeLine)
        /\ \A i \in DOMAIN recipe : recipe[i].component \in Item /\ recipe[i].amount \in Nat
    BY FactColumns, RecipeColumns
  <1>2. CASE recipe = <<>>
    <2> DEFINE row == Row(e, origin, fact[e].item, fact[e].line, movement, quantity, fact[e].cost)
    <2>1. rows = <<row>>
      BY <1>2 DEF Expand
    <2>2. row \in LedgerRow /\ row.event = e /\ row.source = origin
      <3>1. fact[e].item \in Item /\ fact[e].line \in OrderLine /\ fact[e].cost \in Nat
        BY FactColumns
      <3> QED
        BY <3>1, RowTyped
    <2> HIDE DEF rows, row
    <2>3. RowsOfEvent(rows, e, origin) /\ rows # <<>>
      BY <2>1, <2>2, OneRow
    <2> QED
      BY <2>3 DEF rows
  <1>3. CASE recipe # <<>>
    <2> DEFINE row(i) == Row(e, origin, recipe[i].component, fact[e].line, movement,
                             quantity * recipe[i].amount, 0)
    <2>1. rows = [i \in DOMAIN recipe |-> row(i)]
      BY <1>3 DEF Expand
    <2> DEFINE n == Len(recipe)
    <2>2. DOMAIN recipe = 1..n /\ n \in Nat \ {0}
      <3> HIDE DEF recipe
      <3> QED
        BY <1>1, <1>3
    <2>3. ASSUME NEW i \in DOMAIN recipe
          PROVE  row(i) \in LedgerRow /\ row(i).event = e /\ row(i).source = origin
      <3> DEFINE amount == recipe[i].amount
                 component == recipe[i].component
                 total == quantity * amount
      <3>1. component \in Item /\ amount \in Nat
        BY <1>1
      <3>2. total \in Nat
        <4> HIDE DEF amount
        <4> QED
          BY <3>1
      <3>3. fact[e].line \in OrderLine /\ 0 \in Nat
        BY FactColumns
      <3> HIDE DEF total, component
      <3>4. /\ Row(e, origin, component, fact[e].line, movement, total, 0) \in LedgerRow
            /\ Row(e, origin, component, fact[e].line, movement, total, 0).event = e
            /\ Row(e, origin, component, fact[e].line, movement, total, 0).source = origin
        BY <3>1, <3>2, <3>3, RowTyped
      <3> QED
        BY <3>4 DEF total, component
    <2> HIDE DEF row, rows, recipe, n
    <2>4. rows \in [1..n -> LedgerRow] /\ \A i \in DOMAIN rows : rows[i] = row(i) /\ i \in DOMAIN recipe
      BY <2>1, <2>2, <2>3
    <2>5. rows \in Seq(LedgerRow)
      BY <2>2, <2>4
    <2>6. RowsOfEvent(rows, e, origin)
      BY <2>3, <2>4, <2>5 DEF RowsOfEvent
    <2>7. rows # <<>>
      <3>1. DOMAIN rows = 1..n /\ 1 \in 1..n
        BY <2>2, <2>4
      <3>2. DOMAIN <<>> = {}
        OBVIOUS
      <3> QED
        BY <3>1, <3>2
    <2> QED
      BY <2>6, <2>7 DEF rows
  <1> QED
    BY <1>2, <1>3

\* Rows of an event beside each other.
LEMMA RowsJoin ==
    ASSUME NEW e, NEW origin, NEW a, NEW b, RowsOfEvent(a, e, origin), RowsOfEvent(b, e, origin)
    PROVE  /\ RowsOfEvent(a \o b, e, origin)
           /\ a # <<>> => a \o b # <<>>
  <1>1. /\ a \in Seq(LedgerRow) /\ b \in Seq(LedgerRow) /\ a \o b \in Seq(LedgerRow)
        /\ Len(a \o b) = Len(a) + Len(b) /\ Len(a) \in Nat /\ Len(b) \in Nat
        /\ DOMAIN (a \o b) = 1..(Len(a) + Len(b))
        /\ DOMAIN a = 1..Len(a) /\ DOMAIN b = 1..Len(b)
    BY DEF RowsOfEvent
  <1>2. ASSUME NEW i \in DOMAIN (a \o b)
        PROVE  (a \o b)[i].event = e /\ (a \o b)[i].source = origin
    <2>1. i \in 1..(Len(a) + Len(b))
      BY <1>1
    <2>2. CASE i <= Len(a)
      <3>1. i \in DOMAIN a /\ (a \o b)[i] = a[i]
        BY <1>1, <2>1, <2>2
      <3> QED
        BY <3>1 DEF RowsOfEvent
    <2>3. CASE i > Len(a)
      <3>1. i - Len(a) \in DOMAIN b /\ (a \o b)[i] = b[i - Len(a)]
        BY <1>1, <2>1, <2>3
      <3> QED
        BY <3>1 DEF RowsOfEvent
    <2> QED
      BY <1>1, <2>1, <2>2, <2>3
  <1>3. a # <<>> => a \o b # <<>>
    BY <1>1
  <1> QED
    BY <1>1, <1>2, <1>3 DEF RowsOfEvent

\* No rows are rows of every event.
LEMMA NoRowsOfEvent == ASSUME NEW e, NEW origin PROVE RowsOfEvent(<<>>, e, origin)
  BY DEF RowsOfEvent

\* A modifier adds rows of the event.
LEMMA ModifiersTyped ==
    ASSUME InventoryTypeOK, NEW e \in Event, NEW origin \in Source,
           NEW movement \in Movement, NEW quantity \in Nat
    PROVE  RowsOfEvent(Modifiers(e, origin, movement, quantity), e, origin)
  <1>1. CASE fact[e].linked = "none"
    BY <1>1, NoRowsOfEvent DEF Modifiers
  <1>2. CASE fact[e].linked # "none"
    <2> DEFINE row == Row(e, origin, fact[e].linked, "none", movement, quantity, 0)
    <2>1. fact[e].linked \in Item /\ "none" \in OrderLine /\ 0 \in Nat
      BY <1>2, FactColumns DEF OrderLine
    <2>2. row \in LedgerRow /\ row.event = e /\ row.source = origin
      <3>1. PICK item \in Item, line \in OrderLine, cost \in Nat :
               item = fact[e].linked /\ line = "none" /\ cost = 0
        BY <2>1
      <3>2. /\ Row(e, origin, item, line, movement, quantity, cost) \in LedgerRow
            /\ Row(e, origin, item, line, movement, quantity, cost).event = e
            /\ Row(e, origin, item, line, movement, quantity, cost).source = origin
        BY RowTyped
      <3> QED
        BY <3>1, <3>2
    <2> HIDE DEF row
    <2>3. RowsOfEvent(<<row>>, e, origin)
      BY <2>2, OneRow
    <2> QED
      BY <1>2, <2>3 DEF Modifiers, row
  <1> QED
    BY <1>1, <1>2

\* One document, or none.
LEMMA OneDocument ==
    ASSUME NEW e, NEW origin, NEW rows, RowsOfEvent(rows, e, origin), rows # <<>>,
           SaysItself(e) => origin = fact[e].type
    PROVE  AllAreDocuments(<<rows>>, e) /\ IsDocumentOf(rows, e)
  <1>1. IsDocumentOf(rows, e)
    BY DEF IsDocumentOf, RowsOfEvent
  <1>2. <<rows>> \in Seq(Seq(LedgerRow)) /\ \A n \in DOMAIN <<rows>> : <<rows>>[n] = rows
    BY DEF RowsOfEvent
  <1> QED
    BY <1>1, <1>2 DEF AllAreDocuments

\* Documents of an event one after the other.
LEMMA DocumentsJoin ==
    ASSUME NEW e, NEW a, NEW b, AllAreDocuments(a, e), AllAreDocuments(b, e)
    PROVE  AllAreDocuments(a \o b, e)
  <1>1. /\ a \in Seq(Seq(LedgerRow)) /\ b \in Seq(Seq(LedgerRow))
        /\ a \o b \in Seq(Seq(LedgerRow))
        /\ Len(a \o b) = Len(a) + Len(b) /\ Len(a) \in Nat /\ Len(b) \in Nat
        /\ DOMAIN (a \o b) = 1..(Len(a) + Len(b))
        /\ DOMAIN a = 1..Len(a) /\ DOMAIN b = 1..Len(b)
    BY DEF AllAreDocuments
  <1>2. ASSUME NEW i \in DOMAIN (a \o b) PROVE IsDocumentOf((a \o b)[i], e)
    <2>1. i \in 1..(Len(a) + Len(b))
      BY <1>1
    <2>2. CASE i <= Len(a)
      <3>1. i \in DOMAIN a /\ (a \o b)[i] = a[i]
        BY <1>1, <2>1, <2>2
      <3> QED
        BY <3>1 DEF AllAreDocuments
    <2>3. CASE i > Len(a)
      <3>1. i - Len(a) \in DOMAIN b /\ (a \o b)[i] = b[i - Len(a)]
        BY <1>1, <2>1, <2>3
      <3> QED
        BY <3>1 DEF AllAreDocuments
    <2> QED
      BY <1>1, <2>1, <2>2, <2>3
  <1> QED
    BY <1>1, <1>2 DEF AllAreDocuments

\* No documents are documents of every event.
LEMMA NoDocuments == ASSUME NEW e PROVE AllAreDocuments(<<>>, e)
  BY DEF AllAreDocuments

\* What was served of a line is a number, and a negative one may come of a recipe.
LEMMA ServedIsANumber ==
    ASSUME InventoryTypeOK, NEW line
    PROVE  Served(line) \in Int
  <1> DEFINE a == RowsOfLine(line, "ItemServed", "OUT")
             b == RowsOfLine(line, "ItemServedCompensation", "IN")
  <1>1. a \in SUBSET DOMAIN ledger /\ b \in SUBSET DOMAIN ledger /\ ledger \in Seq(LedgerRow)
    BY DEF RowsOfLine, InventoryTypeOK
  <1> HIDE DEF a, b
  <1>2. SumOf(ledger, a) \in Nat /\ SumOf(ledger, b) \in Nat
    BY <1>1, SumOfRows
  <1>3. SumOf(ledger, a) - SumOf(ledger, b) \in Int
    BY <1>2
  <1> QED
    BY <1>3 DEF Served, a, b

\* What is left is not less than nothing.
LEMMA SubtractTyped ==
    ASSUME NEW total \in Nat, NEW consumed \in Int
    PROVE  Subtract(total, consumed) \in Nat
  BY DEF Subtract

\* A document of a positive quantity, or none.
LEMMA PositiveTyped ==
    ASSUME InventoryTypeOK, NEW e \in Event, NEW origin \in Source,
           NEW movement \in Movement, NEW quantity \in Int,
           SaysItself(e) => origin = fact[e].type
    PROVE  AllAreDocuments(Positive(e, origin, movement, quantity), e)
  <1>1. CASE quantity > 0
    <2>1. quantity \in Nat
      BY <1>1
    <2>2. /\ RowsOfEvent(Expand(e, origin, movement, quantity), e, origin)
          /\ Expand(e, origin, movement, quantity) # <<>>
      BY <2>1, ExpandTyped
    <2>3. AllAreDocuments(<<Expand(e, origin, movement, quantity)>>, e)
      BY <2>2, OneDocument
    <2> QED
      BY <1>1, <2>3 DEF Positive
  <1>2. CASE ~(quantity > 0)
    BY <1>2, NoDocuments DEF Positive
  <1> QED
    BY <1>1, <1>2

\* The document of a receipt, a write-off or a production.
LEMMA PlainTyped ==
    ASSUME InventoryTypeOK, NEW e \in Event, NEW movement \in Movement
    PROVE  \E rows : /\ Plain(e, movement) = <<rows>> /\ Plain(e, movement)[1] = rows
                     /\ RowsOfEvent(rows, e, fact[e].type) /\ rows # <<>>
  <1> DEFINE row == Row(e, fact[e].type, fact[e].item, "none", movement, fact[e].quantity,
                        fact[e].cost)
  <1>1. fact[e].type \in Source /\ "none" \in OrderLine
    BY FactColumns DEF Source, OrderLine
  <1>2. row \in LedgerRow /\ row.event = e /\ row.source = fact[e].type
    BY <1>1, FactColumns, RowTyped
  <1>3. Plain(e, movement) = <<<<row>>>>
    BY DEF Plain
  <1> HIDE DEF row
  <1>4. RowsOfEvent(<<row>>, e, fact[e].type) /\ <<row>> # <<>>
    BY <1>2, OneRow
  <1> QED
    BY <1>3, <1>4

\* What an event says of stock are documents of it.
LEMMA DocumentsTyped ==
    ASSUME InventoryTypeOK, NEW e \in Event
    PROVE  AllAreDocuments(Documents(e), e)
  <1>1. CASE fact[e].type = "CheckClosed"
    <2> DEFINE rest == DeltaQuantity(e)
               a == Expand(e, "CheckClosed", "OUT", rest)
               b == Modifiers(e, "CheckClosed", "OUT", rest)
    <2>1. rest \in Nat
      BY FactColumns, ServedIsANumber, SubtractTyped DEF DeltaQuantity
    <2>2. Documents(e) = IF rest = 0 THEN <<>> ELSE <<a \o b>>
      BY <1>1 DEF Documents, CheckClosedDocuments
    <2> HIDE DEF rest
    <2>3. "CheckClosed" \in Source /\ "OUT" \in Movement /\ ~SaysItself(e)
      BY <1>1 DEF Source, SaleEvent, Movement, SaysItself
    <2>4. RowsOfEvent(a, e, "CheckClosed") /\ a # <<>> /\ RowsOfEvent(b, e, "CheckClosed")
      BY <2>1, <2>3, ExpandTyped, ModifiersTyped
    <2> HIDE DEF a, b
    <2>5. RowsOfEvent(a \o b, e, "CheckClosed") /\ a \o b # <<>>
      BY <2>4, RowsJoin
    <2>6. AllAreDocuments(<<a \o b>>, e)
      BY <2>3, <2>5, OneDocument
    <2> QED
      BY <2>2, <2>6, NoDocuments
  <1>2. CASE fact[e].type = "ItemServed"
    <2>1. /\ "ItemServed" \in Source /\ "ItemServedCompensation" \in Source
          /\ "OUT" \in Movement /\ "IN" \in Movement /\ ~SaysItself(e)
      BY <1>2 DEF Source, SaleEvent, Movement, SaysItself
    <2> DEFINE a == Positive(e, "ItemServedCompensation", "IN", Served(fact[e].line))
               b == Positive(e, "ItemServed", "OUT", fact[e].quantity)
               c == Positive(e, "ItemServed", "OUT", EffectiveQuantity(e))
    <2>2. /\ Served(fact[e].line) \in Int /\ fact[e].quantity \in Int
          /\ EffectiveQuantity(e) \in Int
      BY FactColumns, ServedIsANumber, SubtractTyped DEF EffectiveQuantity
    <2>3. AllAreDocuments(a, e) /\ AllAreDocuments(b, e) /\ AllAreDocuments(c, e)
      BY <2>1, <2>2, PositiveTyped
    <2>4. Documents(e) \in {<<>>, a \o b, c}
      BY <1>2 DEF Documents, ItemServedDocuments, SupersedingDocuments
    <2> HIDE DEF a, b, c
    <2>5. AllAreDocuments(a \o b, e)
      BY <2>3, DocumentsJoin
    <2> QED
      BY <2>3, <2>4, <2>5, NoDocuments
  <1>3. CASE fact[e].type = "FinancialOperation"
    <2> DEFINE movement == IF fact[e].disposition = "return_to_stock" THEN "IN" ELSE "OUT"
               a == Expand(e, fact[e].type, movement, fact[e].quantity)
               b == Modifiers(e, fact[e].type, movement, fact[e].quantity)
    <2>1. fact[e].type \in Source /\ movement \in Movement /\ fact[e].quantity \in Nat
      BY FactColumns DEF Source, Movement
    <2>2. Documents(e) \in {<<>>, <<a \o b>>}
      BY <1>3 DEF Documents, OperationDocuments
    <2> HIDE DEF movement
    <2>3. RowsOfEvent(a, e, fact[e].type) /\ a # <<>> /\ RowsOfEvent(b, e, fact[e].type)
      BY <2>1, ExpandTyped, ModifiersTyped
    <2> HIDE DEF a, b
    <2>4. RowsOfEvent(a \o b, e, fact[e].type) /\ a \o b # <<>>
      BY <2>3, RowsJoin
    <2>5. AllAreDocuments(<<a \o b>>, e)
      BY <2>4, OneDocument
    <2> QED
      BY <2>2, <2>5, NoDocuments
  <1>4. CASE fact[e].type = "StopListUpdated"
    <2>1. Documents(e) = <<>>
      BY <1>4 DEF Documents
    <2> QED
      BY <2>1, NoDocuments
  <1>5. CASE fact[e].type \in {"StockReceiptCaptured", "StockWriteOffCaptured"}
    <2>1. PICK movement \in Movement : Documents(e) = Plain(e, movement)
      BY <1>5 DEF Documents, Movement
    <2>2. PICK rows : /\ Plain(e, movement) = <<rows>>
                      /\ RowsOfEvent(rows, e, fact[e].type) /\ rows # <<>>
      BY PlainTyped
    <2>3. AllAreDocuments(<<rows>>, e)
      BY <2>2, OneDocument
    <2> QED
      BY <2>1, <2>2, <2>3
  <1>6. CASE fact[e].type = "InventoryCountCaptured"
    <2> DEFINE difference == fact[e].quantity - OnHand(e)
               out == Row(e, fact[e].type, fact[e].item, "none", "OUT", -difference, 0)
               in == Row(e, fact[e].type, fact[e].item, "none", "IN", difference, 0)
    <2>1. Documents(e) \in {<<>>, <<CountAdjustment(e, difference)>>}
      BY <1>6 DEF Documents, CountDocuments
    <2>2. difference \in Int
      <3>1. <<fact[e].warehouse, fact[e].item>> \in Key
        BY FactColumns DEF Key
      <3>2. OnHand(e) \in Int /\ fact[e].quantity \in Int
        BY <3>1, FactColumns DEF OnHand, InventoryTypeOK
      <3> QED
        BY <3>2
    <2>3. CountAdjustment(e, difference) = IF difference < 0 THEN <<out>> ELSE <<in>>
      BY DEF CountAdjustment
    <2> HIDE DEF difference
    <2>4. /\ fact[e].type \in Source /\ "none" \in OrderLine /\ 0 \in Nat /\ fact[e].item \in Item
          /\ "IN" \in Movement /\ "OUT" \in Movement
      BY FactColumns DEF Source, Movement, OrderLine
    <2>5. difference < 0 => out \in LedgerRow /\ out.event = e /\ out.source = fact[e].type
      <3>1. difference < 0 => -difference \in Nat
        BY <2>2
      <3> QED
        BY <2>4, <3>1, RowTyped
    <2>6. ~(difference < 0) => in \in LedgerRow /\ in.event = e /\ in.source = fact[e].type
      <3>1. ~(difference < 0) => difference \in Nat
        BY <2>2
      <3> QED
        BY <2>4, <3>1, RowTyped
    <2> HIDE DEF in, out
    <2> DEFINE rows == CountAdjustment(e, difference)
    <2>7. RowsOfEvent(rows, e, fact[e].type) /\ rows # <<>>
      BY <2>3, <2>5, <2>6, OneRow
    <2> HIDE DEF rows
    <2>8. AllAreDocuments(<<rows>>, e)
      BY <2>7, OneDocument
    <2> QED
      BY <2>1, <2>8, NoDocuments DEF rows
  <1>7. CASE fact[e].type = "ProductionCompleted"
    <2> DEFINE a == Plain(e, "IN")[1]
               b == Expand(e, fact[e].type, "OUT", fact[e].quantity)
    <2>1. fact[e].type \in Source /\ "OUT" \in Movement /\ "IN" \in Movement
      BY FactColumns DEF Source, Movement
    <2>2. RowsOfEvent(a, e, fact[e].type) /\ a # <<>>
      BY <2>1, PlainTyped
    <2>3. RowsOfEvent(b, e, fact[e].type)
      BY <2>1, FactColumns, ExpandTyped
    <2>4. Documents(e) \in {<<a \o <<>>>>, <<a \o b>>}
      BY <1>7 DEF Documents, ProductionDocuments
    <2> HIDE DEF a, b
    <2>5. ASSUME NEW c \in {<<>>, b} PROVE AllAreDocuments(<<a \o c>>, e)
      <3>1. RowsOfEvent(c, e, fact[e].type)
        BY <2>3, NoRowsOfEvent
      <3>2. RowsOfEvent(a \o c, e, fact[e].type) /\ a \o c # <<>>
        BY <2>2, <3>1, RowsJoin
      <3> DEFINE rows == a \o c
      <3> HIDE DEF rows
      <3>3. AllAreDocuments(<<rows>>, e)
        BY <3>2, OneDocument DEF rows
      <3> QED
        BY <3>3 DEF rows
    <2> QED
      BY <2>4, <2>5
  <1> QED
    BY <1>1, <1>2, <1>3, <1>4, <1>5, <1>6, <1>7, FactColumns DEF SaleEvent, DocumentEvent

-----------------------------------------------------------------------------
(* Inventory: balances.                                                    *)

\* Rows that are appended come after the rows there are.
LEMMA Appended ==
    ASSUME NEW rows \in Seq(LedgerRow), NEW more \in Seq(LedgerRow)
    PROVE  /\ rows \o more \in Seq(LedgerRow)
           /\ DOMAIN rows \subseteq DOMAIN (rows \o more)
           /\ \A i \in DOMAIN rows : (rows \o more)[i] = rows[i]
           /\ \A j \in DOMAIN more : /\ Len(rows) + j \in DOMAIN (rows \o more)
                                     /\ (rows \o more)[Len(rows) + j] = more[j]
           /\ \A i \in DOMAIN (rows \o more) :
                 i \in DOMAIN rows \/ \E j \in DOMAIN more : i = Len(rows) + j
  <1> DEFINE n == Len(rows)
             m == Len(more)
             all == rows \o more
  <1>1. n \in Nat /\ m \in Nat /\ DOMAIN rows = 1..n /\ DOMAIN more = 1..m
    OBVIOUS
  <1>2. all \in Seq(LedgerRow) /\ Len(all) = n + m
    OBVIOUS
  <1>3. \A i \in 1..n : all[i] = rows[i]
    OBVIOUS
  <1>4. \A i \in 1..m : all[n + i] = more[i]
    OBVIOUS
  <1> HIDE DEF all, n, m
  <1>5. DOMAIN all = 1..(n + m)
    BY <1>2
  <1>6. \A j \in 1..m : n + j \in 1..(n + m)
    BY <1>1
  <1>7. \A i \in 1..(n + m) : i \in 1..n \/ (i - n \in 1..m /\ i = n + (i - n))
    BY <1>1
  <1>8. 1..n \subseteq 1..(n + m)
    BY <1>1
  <1>9. \A i \in 1..(n + m) : i \in 1..n \/ \E j \in 1..m : i = n + j
    BY <1>7
  <1> QED
    BY <1>1, <1>2, <1>3, <1>4, <1>5, <1>6, <1>8, <1>9 DEF all, n, m

\* The rows of one movement among those that are appended to.
LEMMA MovingAppended ==
    ASSUME NEW rows \in Seq(LedgerRow), NEW more \in Seq(LedgerRow), NEW k, NEW movement
    PROVE  Moving(rows \o more, k, movement) =
              Moving(rows, k, movement) \cup Shifted(Len(rows), Moving(more, k, movement))
  <1> DEFINE all == rows \o more
             n == Len(rows)
  <1>1. /\ DOMAIN rows \subseteq DOMAIN all
        /\ \A i \in DOMAIN rows : all[i] = rows[i]
        /\ \A j \in DOMAIN more : n + j \in DOMAIN all /\ all[n + j] = more[j]
        /\ \A i \in DOMAIN all : i \in DOMAIN rows \/ \E j \in DOMAIN more : i = n + j
    BY Appended
  <1> HIDE DEF all, n
  <1>2. Moving(all, k, movement) = Moving(rows, k, movement) \cup Shifted(n, Moving(more, k, movement))
    BY <1>1 DEF Moving, Shifted
  <1> QED
    BY <1>2 DEF all, n

RowsOfKey(rows, k) == {i \in DOMAIN rows : rows[i].key = k}
NotPriced(rows, i) == rows[i].costing \in {"estimated", "needs_recalculation"}
\* What is shown of a key tells its rows.
SumsUp(rows, quantity, k) ==
    quantity = SumOf(rows, Moving(rows, k, "IN")) - SumOf(rows, Moving(rows, k, "OUT"))
Shows(rows, costs, k) ==
    costs \in {"final", "recalculated"} <=>
        RowsOfKey(rows, k) # {} /\ \A i \in RowsOfKey(rows, k) : ~NotPriced(rows, i)

\* The invariant, key by key.
LEMMA BalancesTell ==
    BalancesTellTheLedger <=>
        \A k \in Key : SumsUp(ledger, balance[k], k) /\ Shows(ledger, valuation[k], k)
  BY DEF BalancesTellTheLedger, SumsUp, Shows, RowsOfKey, NotPriced

\* The costing status that is computed for a key tells its rows.
LEMMA AggregateShows ==
    ASSUME NEW rows \in Seq(LedgerRow), NEW k, RowsOfKey(rows, k) # {}
    PROVE  Aggregate(rows, k) \in Costing /\ Shows(rows, Aggregate(rows, k), k)
  <1> DEFINE of == RowsOfKey(rows, k)
             has == {rows[i].costing : i \in of}
             last == rows[Latest(rows, of)].costing
  <1>1. Aggregate(rows, k) = IF "needs_recalculation" \in has THEN "needs_recalculation"
                             ELSE IF "estimated" \in has THEN "estimated" ELSE last
    BY DEF Aggregate, RowsOfKey
  <1>2. of \in SUBSET DOMAIN rows /\ of # {} /\ \A i \in of : rows[i].costing \in Costing
    BY RowColumns DEF RowsOfKey
  <1>3. Latest(rows, of) \in of
    BY <1>2, LatestIsLatest
  <1>4. last \in has /\ last \in Costing
    BY <1>2, <1>3
  <1>5. (\A i \in of : ~NotPriced(rows, i)) <=>
           "needs_recalculation" \notin has /\ "estimated" \notin has
    BY DEF NotPriced
  <1> HIDE DEF last, has
  <1> QED
    BY <1>1, <1>2, <1>4, <1>5 DEF Shows, Costing

\* The quantity of a key with a document more.
LEMMA SumsUpAppended ==
    ASSUME NEW rows \in Seq(LedgerRow), NEW more \in Seq(LedgerRow), NEW k,
           NEW quantity \in Int, SumsUp(rows, quantity, k)
    PROVE  SumsUp(rows \o more, quantity + SumOf(more, Moving(more, k, "IN"))
                                          - SumOf(more, Moving(more, k, "OUT")), k)
  <1> DEFINE all == rows \o more
             in == SumOf(rows, Moving(rows, k, "IN"))
             out == SumOf(rows, Moving(rows, k, "OUT"))
             newIn == SumOf(more, Moving(more, k, "IN"))
             newOut == SumOf(more, Moving(more, k, "OUT"))
  <1>1. ASSUME NEW movement
        PROVE  SumOf(all, Moving(all, k, movement)) =
                  SumOf(rows, Moving(rows, k, movement)) + SumOf(more, Moving(more, k, movement))
    <2>1. /\ Moving(rows, k, movement) \in SUBSET DOMAIN rows
          /\ Moving(more, k, movement) \in SUBSET DOMAIN more
      BY DEF Moving
    <2>2. Moving(all, k, movement) =
             Moving(rows, k, movement) \cup Shifted(Len(rows), Moving(more, k, movement))
      BY MovingAppended
    <2> QED
      BY <2>1, <2>2, SumOfAppended
  <1>2. /\ SumOf(all, Moving(all, k, "IN")) = in + newIn
        /\ SumOf(all, Moving(all, k, "OUT")) = out + newOut
    BY <1>1
  <1>3. in \in Nat /\ out \in Nat /\ newIn \in Nat /\ newOut \in Nat
    <2>1. ASSUME NEW movement
          PROVE  /\ Moving(rows, k, movement) \in SUBSET DOMAIN rows
                 /\ Moving(more, k, movement) \in SUBSET DOMAIN more
      BY DEF Moving
    <2> QED
      BY <2>1, SumOfRows
  <1>4. quantity = in - out
    BY DEF SumsUp
  <1> HIDE DEF in, out, newIn, newOut
  <1>5. quantity + newIn - newOut = (in + newIn) - (out + newOut)
    BY <1>3, <1>4
  <1> QED
    BY <1>2, <1>5 DEF SumsUp, newIn, newOut

\* The costing status of a key no row of the document is of.
LEMMA ShowsAppended ==
    ASSUME NEW rows \in Seq(LedgerRow), NEW more \in Seq(LedgerRow), NEW k, NEW costs,
           Shows(rows, costs, k), \A i \in DOMAIN more : more[i].key # k
    PROVE  Shows(rows \o more, costs, k)
  <1> DEFINE all == rows \o more
             n == Len(rows)
  <1>1. /\ DOMAIN rows \subseteq DOMAIN all
        /\ \A i \in DOMAIN rows : all[i] = rows[i]
        /\ \A j \in DOMAIN more : n + j \in DOMAIN all /\ all[n + j] = more[j]
        /\ \A i \in DOMAIN all : i \in DOMAIN rows \/ \E j \in DOMAIN more : i = n + j
    BY Appended
  <1> HIDE DEF all, n
  <1>2. RowsOfKey(all, k) = RowsOfKey(rows, k)
    BY <1>1 DEF RowsOfKey
  <1>3. \A i \in RowsOfKey(rows, k) : NotPriced(all, i) <=> NotPriced(rows, i)
    BY <1>1 DEF RowsOfKey, NotPriced
  <1>4. Shows(all, costs, k)
    BY <1>2, <1>3 DEF Shows
  <1> QED
    BY <1>4 DEF all

\* A change of costs keeps the quantities.
LEMMA SumsUpPriced ==
    ASSUME NEW rows, NEW others, DOMAIN others = DOMAIN rows,
           \A i \in DOMAIN rows : /\ others[i].key = rows[i].key
                                  /\ others[i].movement = rows[i].movement
                                  /\ others[i].quantity = rows[i].quantity,
           NEW k, NEW quantity, SumsUp(rows, quantity, k)
    PROVE  SumsUp(others, quantity, k)
  <1>1. \A movement : Moving(others, k, movement) = Moving(rows, k, movement)
    BY DEF Moving
  <1>2. \A some : SumOf(others, some) = SumOf(rows, some)
    BY SumOfSame
  <1> QED
    BY <1>1, <1>2 DEF SumsUp

\* And the costing status of the keys it does not touch.
LEMMA ShowsPriced ==
    ASSUME NEW rows, NEW others, DOMAIN others = DOMAIN rows, NEW k,
           \A i \in DOMAIN rows : others[i].key = rows[i].key,
           \A i \in RowsOfKey(rows, k) : others[i].costing = rows[i].costing,
           NEW costs, Shows(rows, costs, k)
    PROVE  Shows(others, costs, k)
  <1>1. RowsOfKey(others, k) = RowsOfKey(rows, k)
    BY DEF RowsOfKey
  <1>2. \A i \in RowsOfKey(rows, k) : NotPriced(others, i) <=> NotPriced(rows, i)
    BY DEF RowsOfKey, NotPriced
  <1> QED
    BY <1>1, <1>2 DEF Shows

\* The invariant after a step.
LEMMA BalancesTellNext ==
    BalancesTellTheLedger' <=>
        \A k \in Key : SumsUp(ledger', balance'[k], k) /\ Shows(ledger', valuation'[k], k)
  BY DEF BalancesTellTheLedger, SumsUp, Shows, RowsOfKey, NotPriced

\* The types after a step.
LEMMA TypesNext ==
    InventoryTypeOK' <=>
        /\ fact' \in [Event -> Fact]
        /\ queue' \in [Event -> {"none", "pending", "processing", "processed", "failed"}]
        /\ batch' \subseteq Event
        /\ task' = NoTask \/ IsTask(task', fact')
        /\ ledger' \in Seq(LedgerRow) /\ SourcesFit(ledger', fact')
        /\ balance' \in [Key -> Int]
        /\ valuation' \in [Key -> {"none"} \cup Costing]
        /\ state' \in [Event -> {"none", "accepted", "posted", "failed"}]
        /\ jobs' \in [Event -> Job]
        /\ run' = NoRun \/ run' \in [event : Event, rows : SUBSET (DOMAIN ledger')]
  BY DEF InventoryTypeOK, IsTask, SourcesFit, NoTask, NoRun

\* A document that is written moves balances by what its rows say.
LEMMA WriteKeepsBooks ==
    ASSUME InventoryTypeOK, BalancesTellTheLedger, NEW rows, IsDocumentOf(rows, task.event),
           WriteDocument(rows), ~Posted(rows)
    PROVE  /\ ledger' = ledger \o rows /\ ledger' \in Seq(LedgerRow) /\ SourcesFit(ledger', fact)
           /\ balance' \in [Key -> Int] /\ valuation' \in [Key -> {"none"} \cup Costing]
           /\ BalancesTellTheLedger'
  <1> DEFINE all == ledger \o rows
             keys == {rows[i].key : i \in DOMAIN rows}
  <1>1. /\ ledger' = all /\ balance' = Moved(rows)
        /\ valuation' = [k \in Key |-> IF k \in keys THEN Aggregate(all, k) ELSE valuation[k]]
    BY DEF WriteDocument, RefreshStockBalanceCosting
  <1>2. /\ ledger \in Seq(LedgerRow) /\ rows \in Seq(LedgerRow) /\ balance \in [Key -> Int]
        /\ valuation \in [Key -> {"none"} \cup Costing] /\ SourcesFit(ledger, fact)
        /\ \A i \in DOMAIN rows : /\ rows[i].event = task.event
                                  /\ SaysItself(task.event) => rows[i].source = fact[task.event].type
    BY DEF InventoryTypeOK, IsDocumentOf
  <1>3. /\ all \in Seq(LedgerRow)
        /\ DOMAIN ledger \subseteq DOMAIN all
        /\ \A i \in DOMAIN ledger : all[i] = ledger[i]
        /\ \A j \in DOMAIN rows : Len(ledger) + j \in DOMAIN all /\ all[Len(ledger) + j] = rows[j]
        /\ \A i \in DOMAIN all : i \in DOMAIN ledger \/ \E j \in DOMAIN rows : i = Len(ledger) + j
    BY <1>2, Appended
  <1>4. SourcesFit(all, fact)
    <2> HIDE DEF all
    <2> SUFFICES ASSUME NEW i \in DOMAIN all, ByItself(fact[all[i].event].type)
                 PROVE  all[i].source = fact[all[i].event].type
      BY DEF SourcesFit
    <2>1. CASE i \in DOMAIN ledger
      <3>1. all[i] = ledger[i]
        BY <1>3, <2>1
      <3> QED
        BY <1>2, <2>1, <3>1 DEF SourcesFit
    <2>2. CASE i \notin DOMAIN ledger
      <3>1. PICK j \in DOMAIN rows : i = Len(ledger) + j
        BY <1>3, <2>2
      <3>2. all[i] = rows[j]
        BY <1>3, <3>1
      <3>3. all[i].event = task.event
        BY <1>2, <3>2
      <3> QED
        BY <1>2, <3>2, <3>3 DEF SaysItself, ByItself
    <2> QED
      BY <2>1, <2>2
  <1>5. ASSUME NEW k \in Key
        PROVE  /\ balance'[k] \in Int /\ SumsUp(all, balance'[k], k)
               /\ valuation'[k] \in {"none"} \cup Costing /\ Shows(all, valuation'[k], k)
    <2>1. SumsUp(ledger, balance[k], k) /\ Shows(ledger, valuation[k], k)
      BY BalancesTell
    <2>2. balance[k] \in Int /\ valuation[k] \in {"none"} \cup Costing
      BY <1>2
    <2> DEFINE in == SumOf(rows, Moving(rows, k, "IN"))
               out == SumOf(rows, Moving(rows, k, "OUT"))
    <2>3. balance'[k] = balance[k] + in - out
      BY <1>1 DEF Moved
    <2>4. in \in Nat /\ out \in Nat
      <3>1. ASSUME NEW movement PROVE Moving(rows, k, movement) \in SUBSET DOMAIN rows
        BY DEF Moving
      <3> QED
        BY <1>2, <3>1, SumOfRows
    <2>5. SumsUp(all, balance[k] + in - out, k)
      BY <1>2, <2>1, <2>2, SumsUpAppended
    <2> HIDE DEF in, out, all
    <2>6. balance[k] + in - out \in Int
      BY <2>2, <2>4
    <2>7. CASE k \in keys
      <3>1. RowsOfKey(all, k) # {}
        BY <1>3, <2>7 DEF RowsOfKey
      <3>2. Aggregate(all, k) \in Costing /\ Shows(all, Aggregate(all, k), k)
        BY <1>3, <3>1, AggregateShows
      <3> QED
        BY <1>1, <2>3, <2>5, <2>6, <2>7, <3>2
    <2>8. CASE k \notin keys
      <3>1. \A i \in DOMAIN rows : rows[i].key # k
        BY <2>8
      <3>2. Shows(all, valuation[k], k)
        BY <1>2, <2>1, <3>1, ShowsAppended DEF all
      <3> QED
        BY <1>1, <2>2, <2>3, <2>5, <2>6, <2>8, <3>2
    <2> QED
      BY <2>7, <2>8
  <1>6. balance' \in [Key -> Int] /\ valuation' \in [Key -> {"none"} \cup Costing]
    <2>1. balance' = [k \in Key |-> balance'[k]] /\ valuation' = [k \in Key |-> valuation'[k]]
      BY <1>1 DEF Moved
    <2> QED
      BY <1>5, <2>1
  <1>7. BalancesTellTheLedger'
    BY <1>1, <1>5, BalancesTellNext
  <1> QED
    BY <1>1, <1>3, <1>4, <1>6, <1>7

\* So do costs that change, when the keys they change of are shown again.
LEMMA PricingKeepsBooks ==
    ASSUME InventoryTypeOK, BalancesTellTheLedger, NEW keys,
           ledger' \in Seq(LedgerRow), DOMAIN ledger' = DOMAIN ledger, balance' = balance,
           \A i \in DOMAIN ledger : /\ ledger'[i].key = ledger[i].key
                                    /\ ledger'[i].movement = ledger[i].movement
                                    /\ ledger'[i].quantity = ledger[i].quantity,
           \A i \in DOMAIN ledger : ledger[i].key \notin keys => ledger'[i].costing = ledger[i].costing,
           \A k \in keys : RowsOfKey(ledger, k) # {},
           RefreshStockBalanceCosting(ledger', keys)
    PROVE  valuation' \in [Key -> {"none"} \cup Costing] /\ BalancesTellTheLedger'
  <1>1. valuation' = [k \in Key |-> IF k \in keys THEN Aggregate(ledger', k) ELSE valuation[k]]
    BY DEF RefreshStockBalanceCosting
  <1>2. valuation \in [Key -> {"none"} \cup Costing]
    BY DEF InventoryTypeOK
  <1>3. ASSUME NEW k \in Key
        PROVE  /\ SumsUp(ledger', balance'[k], k) /\ Shows(ledger', valuation'[k], k)
               /\ valuation'[k] \in {"none"} \cup Costing
    <2>1. SumsUp(ledger, balance[k], k) /\ Shows(ledger, valuation[k], k)
      BY BalancesTell
    <2>2. SumsUp(ledger', balance'[k], k)
      BY <2>1, SumsUpPriced
    <2>3. CASE k \in keys
      <3>1. RowsOfKey(ledger', k) # {}
        BY <2>3 DEF RowsOfKey
      <3>2. Aggregate(ledger', k) \in Costing /\ Shows(ledger', Aggregate(ledger', k), k)
        BY <3>1, AggregateShows
      <3> QED
        BY <1>1, <2>2, <2>3, <3>2
    <2>4. CASE k \notin keys
      <3>1. \A i \in RowsOfKey(ledger, k) : ledger'[i].costing = ledger[i].costing
        BY <2>4 DEF RowsOfKey
      <3>2. \A i \in DOMAIN ledger : ledger'[i].key = ledger[i].key
        OBVIOUS
      <3>3. Shows(ledger', valuation[k], k)
        BY <2>1, <3>1, <3>2, ShowsPriced
      <3> QED
        BY <1>1, <1>2, <2>2, <2>4, <3>3
    <2> QED
      BY <2>3, <2>4
  <1>4. valuation' = [k \in Key |-> valuation'[k]]
    BY <1>1
  <1> QED
    BY <1>3, <1>4, BalancesTellNext

-----------------------------------------------------------------------------
(* Inventory: what events say.                                             *)

\* The rows of an event.
Written(rows, e) == {i \in DOMAIN rows : rows[i].event = e}
Whole(e) == MovedBy(e) = Said(e)

\* What the rows, the state and the queue say of an event that says itself what it does:
\* its rows are in the ledger all at once, and its document is posted then.
RowsFollow(e) ==
    /\ Written(ledger, e) # {} => ~Hopeless(e) /\ Documents(e) # <<>> /\ Whole(e)
    /\ IsDocument(e) /\ Written(ledger, e) # {} => state[e] = "posted"
    /\ state[e] = "posted" => Whole(e)
    /\ ~IsDocument(e) => state[e] = "none"
    /\ queue[e] = "processed" /\ Relevant(e) => Whole(e) \/ state[e] = "failed"
StockFollows == \A e \in Event : SaysItself(e) => RowsFollow(e)

\* The event in hand: its documents are all still to be written, or all written.
TaskOf(e) ==
    /\ task.documents \in {<<>>, Documents(e)}
    /\ task.documents # <<>> => ~Hopeless(e)
    /\ task.job => task.documents # <<>>
    /\ task.documents = <<>> \/ task.job => Whole(e) \/ state[e] = "failed"
TaskFollows ==
    \A e \in Event : task # NoTask /\ task.event = e /\ SaysItself(e) => TaskOf(e)

\* What an event says stays as it is.
LEMMA EventsStay ==
    ASSUME fact' = fact, NEW e
    PROVE  /\ SaysItself(e)' <=> SaysItself(e)
           /\ Hopeless(e)' <=> Hopeless(e)
           /\ IsDocument(e)' <=> IsDocument(e)
           /\ Relevant(e)' <=> Relevant(e)
  BY DEF SaysItself, Hopeless, IsDocument, Relevant

\* So do the documents of an event that says itself what it does.
LEMMA DocumentsStay ==
    ASSUME InventoryTypeOK, fact' = fact, NEW e \in Event, SaysItself(e)
    PROVE  Documents(e)' = Documents(e)
  <1>1. fact[e].type \in {"FinancialOperation", "StopListUpdated", "StockReceiptCaptured",
                          "StockWriteOffCaptured", "ProductionCompleted"}
    BY FactColumns DEF SaysItself, SaleEvent, DocumentEvent
  <1>2. CASE fact[e].type = "FinancialOperation"
    BY <1>2 DEF Documents, OperationDocuments, MovesStock, Expand, Modifiers, Row
  <1>3. CASE fact[e].type = "StopListUpdated"
    BY <1>3 DEF Documents
  <1>4. CASE fact[e].type \in {"StockReceiptCaptured", "StockWriteOffCaptured"}
    BY <1>4 DEF Documents, Plain, Row
  <1>5. CASE fact[e].type = "ProductionCompleted"
    BY <1>5 DEF Documents, ProductionDocuments, Plain, Expand, Row
  <1> QED
    BY <1>1, <1>2, <1>3, <1>4, <1>5

\* And the quantity it says.
LEMMA SaidStays ==
    ASSUME InventoryTypeOK, fact' = fact, NEW e \in Event, SaysItself(e)
    PROVE  Said(e)' = Said(e)
  <1>1. Documents(e)' = Documents(e)
    BY DocumentsStay
  <1>2. Hopeless(e)' <=> Hopeless(e)
    BY EventsStay
  <1> QED
    BY <1>1, <1>2 DEF Said, SumOf

\* One document is all an event says that says itself what it does.
LEMMA SaidInOneDocument ==
    ASSUME InventoryTypeOK, NEW e \in Event, SaysItself(e)
    PROVE  Documents(e) = <<>> \/ \E rows : Documents(e) = <<rows>>
  <1>1. fact[e].type \in {"FinancialOperation", "StopListUpdated", "StockReceiptCaptured",
                          "StockWriteOffCaptured", "ProductionCompleted"}
    BY FactColumns DEF SaysItself, SaleEvent, DocumentEvent
  <1>2. CASE fact[e].type = "FinancialOperation"
    BY <1>2 DEF Documents, OperationDocuments
  <1>3. CASE fact[e].type = "StopListUpdated"
    BY <1>3 DEF Documents
  <1>4. CASE fact[e].type \in {"StockReceiptCaptured", "StockWriteOffCaptured"}
    BY <1>4 DEF Documents, Plain
  <1>5. CASE fact[e].type = "ProductionCompleted"
    BY <1>5 DEF Documents, ProductionDocuments
  <1> QED
    BY <1>1, <1>2, <1>3, <1>4, <1>5

\* An event that wrote nothing moved nothing.
LEMMA NothingWritten ==
    ASSUME NEW e, Written(ledger, e) = {}
    PROVE  MovedBy(e) = 0
  BY SumOfNone DEF MovedBy, Written

\* What a step keeps of an event: its rows, its state, and that it is not processed yet.
LEMMA FollowsKept ==
    ASSUME InventoryTypeOK, fact' = fact, NEW e \in Event, SaysItself(e), RowsFollow(e),
           Written(ledger', e) = Written(ledger, e), MovedBy(e)' = MovedBy(e),
           state'[e] = state[e],
           queue'[e] = "processed" => \/ queue[e] = "processed" \/ ~Relevant(e)
                                      \/ Whole(e) \/ state[e] = "failed"
    PROVE  RowsFollow(e)'
  <1>1. /\ Documents(e)' = Documents(e) /\ Said(e)' = Said(e)
        /\ Hopeless(e)' <=> Hopeless(e)
        /\ IsDocument(e)' <=> IsDocument(e)
        /\ Relevant(e)' <=> Relevant(e)
    BY DocumentsStay, SaidStays, EventsStay
  <1>2. Whole(e)' <=> Whole(e)
    BY <1>1 DEF Whole
  <1> QED
    BY <1>1, <1>2 DEF RowsFollow, Written

\* Prices that change keep the rows and quantities of every event.
LEMMA WrittenPriced ==
    ASSUME NEW e, DOMAIN ledger' = DOMAIN ledger,
           \A i \in DOMAIN ledger : /\ ledger'[i].event = ledger[i].event
                                    /\ ledger'[i].quantity = ledger[i].quantity
    PROVE  Written(ledger', e) = Written(ledger, e) /\ MovedBy(e)' = MovedBy(e)
  <1>1. Written(ledger', e) = Written(ledger, e)
    BY DEF Written
  <1>2. SumOf(ledger', Written(ledger', e)) = SumOf(ledger, Written(ledger, e))
    BY <1>1, SumOfSame
  <1>3. MovedBy(e)' = SumOf(ledger', Written(ledger', e))
    BY DEF MovedBy, Written, SumOf
  <1>4. MovedBy(e) = SumOf(ledger, Written(ledger, e))
    BY DEF MovedBy, Written
  <1> QED
    BY <1>1, <1>2, <1>3, <1>4

\* The rows of an event with a document more.
LEMMA WrittenAppended ==
    ASSUME NEW rows \in Seq(LedgerRow), NEW more \in Seq(LedgerRow), NEW e
    PROVE  Written(rows \o more, e) = Written(rows, e) \cup Shifted(Len(rows), Written(more, e))
  <1> DEFINE all == rows \o more
             n == Len(rows)
  <1>1. /\ DOMAIN rows \subseteq DOMAIN all
        /\ \A i \in DOMAIN rows : all[i] = rows[i]
        /\ \A j \in DOMAIN more : n + j \in DOMAIN all /\ all[n + j] = more[j]
        /\ \A i \in DOMAIN all : i \in DOMAIN rows \/ \E j \in DOMAIN more : i = n + j
    BY Appended
  <1> HIDE DEF all, n
  <1>2. Written(all, e) = Written(rows, e) \cup Shifted(n, Written(more, e))
    BY <1>1 DEF Written, Shifted
  <1> QED
    BY <1>2 DEF all, n

\* What an event moved with a document more.
LEMMA MovedAppended ==
    ASSUME InventoryTypeOK, NEW rows \in Seq(LedgerRow), ledger' = ledger \o rows, NEW e
    PROVE  /\ MovedBy(e)' = MovedBy(e) + SumOf(rows, Written(rows, e))
           /\ Written(ledger', e) = {} <=> Written(ledger, e) = {} /\ Written(rows, e) = {}
           /\ MovedBy(e) \in Nat
  <1>1. ledger \in Seq(LedgerRow)
    BY DEF InventoryTypeOK
  <1>2. Written(ledger, e) \in SUBSET DOMAIN ledger /\ Written(rows, e) \in SUBSET DOMAIN rows
    BY DEF Written
  <1>3. Written(ledger', e) = Written(ledger, e) \cup Shifted(Len(ledger), Written(rows, e))
    BY <1>1, WrittenAppended
  <1>4. SumOf(ledger', Written(ledger', e)) =
           SumOf(ledger, Written(ledger, e)) + SumOf(rows, Written(rows, e))
    <2> DEFINE S == Written(ledger, e)
               T == Written(rows, e)
               all == S \cup Shifted(Len(ledger), T)
    <2>1. S \in SUBSET DOMAIN ledger /\ T \in SUBSET DOMAIN rows
      BY <1>2
    <2> HIDE DEF S, T
    <2>2. SumOf(ledger \o rows, all) = SumOf(ledger, S) + SumOf(rows, T)
      BY <1>1, <2>1, SumOfAppended
    <2>3. Written(ledger', e) = all
      BY <1>3 DEF S, T
    <2> HIDE DEF all
    <2>4. SumOf(ledger', Written(ledger', e)) = SumOf(ledger \o rows, all)
      BY <2>3
    <2> QED
      BY <2>2, <2>4 DEF S, T
  <1>5. MovedBy(e)' = SumOf(ledger', Written(ledger', e))
    BY DEF MovedBy, Written, SumOf
  <1>6. MovedBy(e) = SumOf(ledger, Written(ledger, e))
    BY DEF MovedBy, Written
  <1>7. MovedBy(e) \in Nat
    BY <1>1, <1>2, <1>6, SumOfRows
  <1>8. Shifted(Len(ledger), Written(rows, e)) = {} <=> Written(rows, e) = {}
    BY DEF Shifted
  <1> QED
    BY <1>3, <1>4, <1>5, <1>6, <1>7, <1>8

\* A task that has documents is one of an event.
LEMMA TaskTyped ==
    ASSUME InventoryTypeOK, task # NoTask
    PROVE  /\ task \in [event : Event, documents : Seq(Seq(LedgerRow)), job : BOOLEAN]
           /\ task.event \in Event /\ task.documents \in Seq(Seq(LedgerRow)) /\ task.job \in BOOLEAN
           /\ task.documents # <<>> =>
                 /\ IsDocumentOf(Head(task.documents), task.event)
                 /\ Head(task.documents) = task.documents[1]
                 /\ Tail(task.documents) \in Seq(Seq(LedgerRow))
                 /\ \A n \in DOMAIN Tail(task.documents) :
                       IsDocumentOf(Tail(task.documents)[n], task.event)
  <1>1. /\ task \in [event : Event, documents : Seq(Seq(LedgerRow)), job : BOOLEAN]
        /\ \A n \in DOMAIN task.documents : IsDocumentOf(task.documents[n], task.event)
    <2>1. IsTask(task, fact)
      BY DEF InventoryTypeOK
    <2>2. task \in [event : Event, documents : Seq(Seq(LedgerRow)), job : BOOLEAN]
      BY <2>1 DEF IsTask
    <2>3. task.documents \in Seq(Seq(LedgerRow))
      BY <2>2
    <2>4. \A n \in DOMAIN task.documents : task.documents[n] \in Seq(LedgerRow)
      BY <2>3, HeldBySequence
    <2> QED
      BY <2>1, <2>2, <2>4 DEF IsTask, IsDocumentOf, SaysItself, ByItself
  <1> DEFINE documents == task.documents
  <1>2. task.event \in Event /\ documents \in Seq(Seq(LedgerRow)) /\ task.job \in BOOLEAN
    BY <1>1
  <1>3. ASSUME documents # <<>>
        PROVE  /\ 1 \in DOMAIN documents /\ Head(documents) = documents[1]
               /\ Tail(documents) \in Seq(Seq(LedgerRow))
               /\ \A n \in DOMAIN Tail(documents) :
                     n + 1 \in DOMAIN documents /\ Tail(documents)[n] = documents[n + 1]
    <2> HIDE DEF documents
    <2>1. /\ Len(documents) \in Nat /\ Len(documents) # 0 /\ DOMAIN documents = 1..Len(documents)
          /\ Head(documents) = documents[1]
      BY <1>2, <1>3
    <2>2. /\ Tail(documents) \in Seq(Seq(LedgerRow)) /\ Len(Tail(documents)) = Len(documents) - 1
          /\ \A n \in 1..Len(Tail(documents)) : Tail(documents)[n] = documents[n + 1]
      BY <1>2, <1>3, HeadTailProperties
    <2>3. DOMAIN Tail(documents) = 1..Len(Tail(documents))
      BY <2>2
    <2> QED
      BY <2>1, <2>2, <2>3
  <1>4. ASSUME documents # <<>>, NEW n \in DOMAIN Tail(documents)
        PROVE  IsDocumentOf(Tail(documents)[n], task.event)
    BY <1>1, <1>3, <1>4
  <1>5. documents # <<>> => IsDocumentOf(Head(documents), task.event)
    BY <1>1, <1>3
  <1> QED
    BY <1>1, <1>2, <1>3, <1>4, <1>5

\* What is written is all its event says.
LEMMA WriteIsWhole ==
    ASSUME InventoryTypeOK, StockFollows, TaskFollows, task # NoTask, task.documents # <<>>,
           fact' = fact, WriteDocument(Head(task.documents)),
           NEW e \in Event, e = task.event, SaysItself(e)
    PROVE  /\ Written(ledger', e) # {}
           /\ ~Hopeless(e) /\ Documents(e) # <<>> /\ Whole(e)'
  <1> DEFINE rows == Head(task.documents)
  <1>1. e \in Event /\ IsDocumentOf(rows, e) /\ rows = task.documents[1]
    BY TaskTyped
  <1>2. task.documents = Documents(e) /\ ~Hopeless(e) /\ Documents(e) # <<>>
    BY DEF TaskFollows, TaskOf
  <1>3. RowsFollow(e) /\ Said(e)' = Said(e)
    BY <1>1, SaidStays DEF StockFollows
  <1>4. /\ rows \in Seq(LedgerRow) /\ rows # <<>> /\ 1 \in DOMAIN rows
        /\ \A i \in DOMAIN rows : rows[i].event = e /\ rows[i].source = fact[e].type
    <2>1. rows \in Seq(LedgerRow) /\ rows # <<>>
      BY <1>1 DEF IsDocumentOf
    <2>2. 1 \in DOMAIN rows
      <3> HIDE DEF rows
      <3> QED
        BY <2>1
    <2> QED
      BY <1>1, <2>1, <2>2 DEF IsDocumentOf
  <1>5. Said(e) = SumOf(rows, DOMAIN rows)
    BY <1>1, <1>2 DEF Said
  <1> HIDE DEF rows
  <1>6. CASE Posted(rows)
    <2>1. Written(ledger, e) # {}
      <3>1. PICK i \in DOMAIN ledger : ledger[i].event = rows[1].event
        BY <1>6 DEF Posted
      <3>2. ledger[i].event = e
        BY <1>4, <3>1
      <3> QED
        BY <3>2 DEF Written
    <2>2. Whole(e)
      BY <1>3, <2>1 DEF RowsFollow
    <2>3. ledger' = ledger
      BY <1>6 DEF WriteDocument, rows
    <2>4. MovedBy(e)' = MovedBy(e)
      BY <2>3 DEF MovedBy, SumOf
    <2>5. Whole(e)'
      BY <1>3, <2>2, <2>4 DEF Whole
    <2> QED
      BY <1>2, <2>1, <2>3, <2>5 DEF Written
  <1>7. CASE ~Posted(rows)
    <2>1. ledger' = ledger \o rows
      BY <1>7 DEF WriteDocument, rows
    <2>2. Written(ledger, e) = {}
      <3>1. ASSUME NEW i \in DOMAIN ledger, ledger[i].event = e PROVE FALSE
        <4>1. ledger[i].source = fact[e].type
          BY <3>1 DEF InventoryTypeOK, SourcesFit, SaysItself, ByItself
        <4> QED
          BY <1>4, <1>7, <3>1, <4>1 DEF Posted
      <3> QED
        BY <3>1 DEF Written
    <2>3. MovedBy(e) = 0
      BY <2>2, NothingWritten
    <2>4. Written(rows, e) = DOMAIN rows
      BY <1>4 DEF Written
    <2>5. /\ MovedBy(e)' = MovedBy(e) + SumOf(rows, Written(rows, e))
          /\ Written(ledger', e) = {} <=> Written(ledger, e) = {} /\ Written(rows, e) = {}
      BY <1>4, <2>1, MovedAppended
    <2>6. SumOf(rows, DOMAIN rows) \in Nat
      BY <1>4, SumOfRows
    <2>7. MovedBy(e)' = Said(e)
      BY <1>5, <2>3, <2>4, <2>5, <2>6
    <2>8. Whole(e)'
      BY <1>3, <2>7 DEF Whole
    <2> QED
      BY <1>2, <1>4, <2>4, <2>5, <2>8
  <1> QED
    BY <1>6, <1>7

\* A document is written of its own event only.
LEMMA WriteOfOthers ==
    ASSUME InventoryTypeOK, task # NoTask, task.documents # <<>>,
           WriteDocument(Head(task.documents)), NEW f \in Event, f # task.event
    PROVE  /\ Written(ledger', f) = Written(ledger, f) /\ MovedBy(f)' = MovedBy(f)
           /\ state'[f] = state[f]
  <1> DEFINE rows == Head(task.documents)
  <1>1. state'[f] = state[f]
    BY TaskTyped DEF WriteDocument, InventoryTypeOK
  <1>2. CASE Posted(rows)
    <2>1. ledger' = ledger
      BY <1>2 DEF WriteDocument
    <2> QED
      BY <1>1, <2>1 DEF Written, MovedBy, SumOf
  <1>3. CASE ~Posted(rows)
    <2>1. ledger' = ledger \o rows
      BY <1>3 DEF WriteDocument
    <2>2. rows \in Seq(LedgerRow) /\ \A i \in DOMAIN rows : rows[i].event = task.event
      BY TaskTyped DEF IsDocumentOf
    <2> HIDE DEF rows
    <2>3. Written(rows, f) = {}
      BY <2>2 DEF Written
    <2>4. MovedBy(f)' = MovedBy(f) + SumOf(rows, Written(rows, f)) /\ MovedBy(f) \in Nat
      BY <2>1, <2>2, MovedAppended
    <2>5. SumOf(rows, Written(rows, f)) = 0
      BY <2>3, SumOfNone
    <2>6. MovedBy(f)' = MovedBy(f)
      BY <2>4, <2>5
    <2>7. ledger \in Seq(LedgerRow)
      BY DEF InventoryTypeOK
    <2>8. Written(ledger', f) = Written(ledger, f) \cup Shifted(Len(ledger), Written(rows, f))
      BY <2>1, <2>2, <2>7, WrittenAppended
    <2>9. Shifted(Len(ledger), {}) = {}
      BY DEF Shifted
    <2> QED
      BY <1>1, <2>3, <2>6, <2>8, <2>9
  <1> QED
    BY <1>2, <1>3

\* What is written of an event leaves what all events say as it is.
LEMMA WriteKeepsEvents ==
    ASSUME InventoryTypeOK, StockFollows, TaskFollows, task # NoTask, task.documents # <<>>,
           fact' = fact, WriteDocument(Head(task.documents)),
           \A f \in Event : f # task.event => queue'[f] = queue[f]
    PROVE  StockFollows'
  <1> SUFFICES ASSUME NEW f \in Event, SaysItself(f)' PROVE RowsFollow(f)'
    BY DEF StockFollows
  <1>1. SaysItself(f) /\ RowsFollow(f)
    BY EventsStay DEF StockFollows
  <1>2. CASE f # task.event
    <2>1. /\ Written(ledger', f) = Written(ledger, f) /\ MovedBy(f)' = MovedBy(f)
          /\ state'[f] = state[f] /\ queue'[f] = queue[f]
      BY <1>2, WriteOfOthers
    <2> QED
      BY <1>1, <2>1, FollowsKept
  <1>3. CASE f = task.event
    <2>1. /\ Written(ledger', f) # {} /\ ~Hopeless(f) /\ Documents(f) # <<>> /\ Whole(f)'
      BY <1>1, <1>3, WriteIsWhole
    <2>2. state'[f] = IF IsDocument(f) THEN "posted" ELSE state[f]
      BY <1>3 DEF WriteDocument, InventoryTypeOK
    <2>3. /\ Hopeless(f)' <=> Hopeless(f)
          /\ IsDocument(f)' <=> IsDocument(f)
          /\ Documents(f)' = Documents(f)
      BY <1>1, EventsStay, DocumentsStay
    <2>4. ~IsDocument(f) => state[f] = "none"
      BY <1>1 DEF RowsFollow
    <2> QED
      BY <2>1, <2>2, <2>3, <2>4 DEF RowsFollow, Written
  <1> QED
    BY <1>2, <1>3

-----------------------------------------------------------------------------
(* Inventory: jobs.                                                        *)

ReceiptsIn(rows, k) ==
    {j \in DOMAIN rows : rows[j].key = k /\ rows[j].movement = "IN" /\ rows[j].cost > 0}
PricedRows(rows, i) == {j \in ReceiptsIn(rows, rows[i].key) : Before(rows, j, i)}
\* The parts of PricedAsBefore.
Unpriceable(rows, i) ==
    /\ \A j \in ReceiptsIn(rows, rows[i].key) : ~Before(rows, j, i)
    /\ rows[i].costing = "needs_recalculation"
PricedBy(rows, i, j) ==
    /\ j \in ReceiptsIn(rows, rows[i].key)
    /\ Before(rows, j, i) /\ rows[i].cost = rows[j].cost
    /\ \A other \in ReceiptsIn(rows, rows[i].key) :
          ~(Before(rows, j, other) /\ Before(rows, other, i))
IsPriced(rows, i) ==
    \/ i \in ReceiptsIn(rows, rows[i].key)
    \/ Unpriceable(rows, i)
    \/ \E j \in DOMAIN rows : PricedBy(rows, i, j)

\* A job is at its place: what it has left comes after what it has priced.
AtItsPlace(rows, left, keys) ==
    /\ left \subseteq DOMAIN rows
    /\ \A i \in DOMAIN rows : rows[i].key \in keys /\ i \notin left =>
          IsPriced(rows, i) /\ \A j \in left : Before(rows, i, j)

\* What the price of a row becomes.
IsRepriced(rows, others, i) ==
    /\ others \in Seq(LedgerRow) /\ DOMAIN others = DOMAIN rows
    /\ \A j \in DOMAIN rows : /\ j # i => others[j] = rows[j]
                              /\ others[j].event = rows[j].event
                              /\ others[j].source = rows[j].source
                              /\ others[j].key = rows[j].key
                              /\ others[j].movement = rows[j].movement
                              /\ others[j].quantity = rows[j].quantity
                              /\ others[j].at = rows[j].at
    /\ \/ i \in ReceiptsIn(rows, rows[i].key) /\ others[i].cost = rows[i].cost
       \/ /\ i \notin ReceiptsIn(rows, rows[i].key) /\ PricedRows(rows, i) = {}
          /\ others[i].costing = "needs_recalculation"
       \/ /\ i \notin ReceiptsIn(rows, rows[i].key) /\ PricedRows(rows, i) # {}
          /\ others[i].cost = rows[Latest(rows, PricedRows(rows, i))].cost

\* The order of the rows of a ledger.
LEMMA OrderOfRows ==
    ASSUME NEW rows \in Seq(LedgerRow)
    PROVE  \A x, y \in DOMAIN rows :
              /\ ~Before(rows, x, x)
              /\ x # y => Before(rows, x, y) \/ Before(rows, y, x)
              /\ ~(Before(rows, x, y) /\ Before(rows, y, x))
  <1> SUFFICES ASSUME NEW x \in DOMAIN rows, NEW y \in DOMAIN rows
               PROVE  /\ ~Before(rows, x, x)
                      /\ x # y => Before(rows, x, y) \/ Before(rows, y, x)
                      /\ ~(Before(rows, x, y) /\ Before(rows, y, x))
    OBVIOUS
  <1>1. x \in Nat /\ y \in Nat /\ rows[x].at \in Nat /\ rows[y].at \in Nat
    BY RowColumns
  <1> QED
    BY <1>1, BeforeIsOrder

\* The earliest row that is left is priced as those before it: nothing that is priced
\* before a row changes what it was priced by.
LEMMA RepricedInOrder ==
    ASSUME NEW rows \in Seq(LedgerRow), NEW others, NEW left, NEW keys,
           AtItsPlace(rows, left, keys), NEW i \in left, \A j \in left : ~Before(rows, j, i),
           IsRepriced(rows, others, i)
    PROVE  AtItsPlace(others, left \ {i}, keys)
  <1>1. /\ i \in DOMAIN rows /\ left \subseteq DOMAIN rows /\ DOMAIN others = DOMAIN rows
        /\ \A x \in DOMAIN rows : /\ others[x].key = rows[x].key
                                  /\ x # i => others[x] = rows[x]
    BY DEF AtItsPlace, IsRepriced
  <1>2. \A x, y \in DOMAIN rows : Before(others, x, y) <=> Before(rows, x, y)
    BY DEF IsRepriced, Before
  <1>3. \A k, x : x # i => (x \in ReceiptsIn(others, k) <=> x \in ReceiptsIn(rows, k))
    BY <1>1 DEF ReceiptsIn
  <1>4. \A k : ReceiptsIn(rows, k) \subseteq DOMAIN rows /\ ReceiptsIn(others, k) \subseteq DOMAIN rows
    BY <1>1 DEF ReceiptsIn
  <1>5. \A x, y \in DOMAIN rows : /\ ~Before(rows, x, x)
                                  /\ x # y => Before(rows, x, y) \/ Before(rows, y, x)
                                  /\ ~(Before(rows, x, y) /\ Before(rows, y, x))
    BY OrderOfRows
  <1>6. IsPriced(others, i)
    <2> DEFINE k == rows[i].key
    <2>1. others[i].key = k
      BY <1>1
    <2>2. CASE i \in ReceiptsIn(rows, k)
      <3>1. others[i].cost = rows[i].cost /\ others[i].movement = rows[i].movement
        BY <1>1, <2>2 DEF IsRepriced
      <3>2. i \in ReceiptsIn(others, k)
        BY <1>1, <2>1, <2>2, <3>1 DEF ReceiptsIn
      <3> QED
        BY <2>1, <3>2 DEF IsPriced
    <2>3. CASE i \notin ReceiptsIn(rows, k) /\ PricedRows(rows, i) = {}
      <3>1. others[i].costing = "needs_recalculation"
        BY <2>3 DEF IsRepriced
      <3>2. ASSUME NEW j \in ReceiptsIn(others, k) PROVE ~Before(others, j, i)
        <4>1. j \in DOMAIN rows
          BY <1>4
        <4>2. CASE j = i
          BY <1>1, <1>2, <1>5, <4>2
        <4>3. CASE j # i
          <5>1. j \in ReceiptsIn(rows, k)
            BY <1>3, <4>3
          <5>2. ~Before(rows, j, i)
            BY <2>3, <5>1 DEF PricedRows
          <5> QED
            BY <1>1, <1>2, <4>1, <5>2
        <4> QED
          BY <4>2, <4>3
      <3> QED
        BY <2>1, <3>1, <3>2 DEF IsPriced, Unpriceable
    <2>4. CASE i \notin ReceiptsIn(rows, k) /\ PricedRows(rows, i) # {}
      <3> DEFINE priced == PricedRows(rows, i)
                 j == Latest(rows, priced)
      <3>1. others[i].cost = rows[j].cost
        BY <2>4 DEF IsRepriced
      <3>2. priced \in SUBSET DOMAIN rows /\ priced # {}
        BY <1>4, <2>4 DEF PricedRows
      <3>3. j \in priced /\ \A other \in priced : ~Before(rows, j, other)
        BY <3>2, LatestIsLatest
      <3>4. j \in ReceiptsIn(rows, k) /\ Before(rows, j, i) /\ j \in DOMAIN rows
        BY <3>2, <3>3 DEF PricedRows
      <3> HIDE DEF j
      <3>5. j # i /\ j \in ReceiptsIn(others, k) /\ others[j].cost = rows[j].cost
        BY <1>1, <1>3, <1>5, <3>4
      <3>6. ASSUME NEW other \in ReceiptsIn(others, k)
            PROVE  ~(Before(others, j, other) /\ Before(others, other, i))
        <4>1. other \in DOMAIN rows
          BY <1>4
        <4>2. CASE other = i
          BY <1>1, <1>2, <1>5, <4>2
        <4>3. CASE other # i
          <5>1. other \in ReceiptsIn(rows, k)
            BY <1>3, <4>3
          <5>2. Before(rows, other, i) => other \in priced
            BY <5>1 DEF PricedRows
          <5> HIDE DEF priced
          <5> QED
            BY <1>1, <1>2, <3>3, <3>4, <4>1, <5>2
        <4> QED
          BY <4>2, <4>3
      <3>7. PricedBy(others, i, j)
        BY <1>1, <1>2, <2>1, <3>1, <3>4, <3>5, <3>6 DEF PricedBy
      <3> QED
        BY <1>1, <3>4, <3>7 DEF IsPriced
    <2> QED
      BY <2>2, <2>3, <2>4
  <1>7. ASSUME NEW x \in DOMAIN rows, x # i, IsPriced(rows, x), Before(rows, x, i)
        PROVE  IsPriced(others, x)
    <2> DEFINE k == rows[x].key
    <2>1. others[x] = rows[x] /\ ~Before(rows, i, x)
      BY <1>1, <1>5, <1>7
    <2>2. CASE x \in ReceiptsIn(rows, k)
      <3>1. x \in ReceiptsIn(others, k)
        BY <1>3, <1>7, <2>2
      <3> QED
        BY <2>1, <3>1 DEF IsPriced
    <2>3. CASE Unpriceable(rows, x)
      <3>1. ASSUME NEW j \in ReceiptsIn(others, k) PROVE ~Before(others, j, x)
        <4>1. j = i \/ j \in ReceiptsIn(rows, k)
          BY <1>3
        <4>2. ~Before(rows, j, x)
          BY <2>1, <2>3, <4>1 DEF Unpriceable
        <4> QED
          BY <1>2, <1>4, <4>2
      <3> QED
        BY <2>1, <2>3, <3>1 DEF IsPriced, Unpriceable
    <2>4. ASSUME NEW j \in DOMAIN rows, PricedBy(rows, x, j) PROVE IsPriced(others, x)
      <3>1. j \in ReceiptsIn(rows, k) /\ Before(rows, j, x) /\ rows[x].cost = rows[j].cost
        BY <2>4 DEF PricedBy
      <3>2. j # i /\ others[j] = rows[j] /\ j \in ReceiptsIn(others, k)
        BY <1>1, <1>3, <2>1, <3>1
      <3>3. ASSUME NEW other \in ReceiptsIn(others, k)
            PROVE  ~(Before(others, j, other) /\ Before(others, other, x))
        <4>1. other = i \/ other \in ReceiptsIn(rows, k)
          BY <1>3
        <4>2. ~(Before(rows, j, other) /\ Before(rows, other, x))
          BY <2>1, <2>4, <4>1 DEF PricedBy
        <4>3. other \in DOMAIN rows
          BY <1>4
        <4> QED
          BY <1>2, <2>4, <4>2, <4>3
      <3>4. PricedBy(others, x, j)
        BY <1>2, <2>1, <2>4, <3>1, <3>2, <3>3 DEF PricedBy
      <3> QED
        BY <1>1, <2>4, <3>4 DEF IsPriced
    <2> QED
      BY <1>7, <2>2, <2>3, <2>4 DEF IsPriced
  <1>8. ASSUME NEW x \in DOMAIN rows, rows[x].key \in keys, x \notin left \ {i}
        PROVE  IsPriced(others, x) /\ \A j \in left \ {i} : Before(others, x, j)
    <2>1. CASE x = i
      <3>1. \A j \in left \ {i} : Before(rows, i, j)
        BY <1>1, <1>5
      <3> QED
        BY <1>1, <1>2, <1>6, <2>1, <3>1
    <2>2. CASE x # i
      <3>1. IsPriced(rows, x) /\ \A j \in left : Before(rows, x, j)
        BY <1>8, <2>2 DEF AtItsPlace
      <3>2. IsPriced(others, x)
        BY <1>7, <2>2, <3>1
      <3> QED
        BY <1>1, <1>2, <3>1, <3>2
    <2> QED
      BY <2>1, <2>2
  <1>9. \A x \in DOMAIN others : others[x].key = rows[x].key
    BY <1>1
  <1> QED
    BY <1>1, <1>8, <1>9 DEF AtItsPlace

-----------------------------------------------------------------------------
(* Inventory: every step.                                                  *)

\* While a job is run there is nothing else in hand, and the job is at its place.
RunFollows ==
    run # NoRun =>
        /\ batch = {} /\ task = NoTask
        /\ AtItsPlace(ledger, run.rows, jobs[run.event].keys)

InventoryInv ==
    /\ InventoryTypeOK /\ BalancesTellTheLedger
    /\ StockFollows /\ TaskFollows /\ RunFollows

\* The job after a step.
LEMMA RunNext ==
    RunFollows' <=>
        (run' # NoRun => /\ batch' = {} /\ task' = NoTask
                         /\ AtItsPlace(ledger', run'.rows, jobs'[run'.event].keys))
  BY DEF RunFollows, NoRun, NoTask, AtItsPlace, IsPriced, Unpriceable, PricedBy, ReceiptsIn, Before

\* Where no row is written, balances stay true.
LEMMA BooksKept ==
    ASSUME BalancesTellTheLedger, UNCHANGED <<ledger, balance, valuation>>
    PROVE  BalancesTellTheLedger'
  BY BalancesTell, BalancesTellNext

\* Where no row is written, what is in hand stays as it is.
LEMMA EventsKept ==
    ASSUME InventoryTypeOK, StockFollows, UNCHANGED <<fact, ledger, state>>,
           \A e \in Event :
              SaysItself(e) /\ queue'[e] = "processed" =>
                 queue[e] = "processed" \/ ~Relevant(e) \/ Whole(e) \/ state[e] = "failed"
    PROVE  StockFollows'
  <1> SUFFICES ASSUME NEW e \in Event, SaysItself(e)' PROVE RowsFollow(e)'
    BY DEF StockFollows
  <1>1. SaysItself(e) /\ RowsFollow(e)
    BY EventsStay DEF StockFollows
  <1>2. Written(ledger', e) = Written(ledger, e) /\ MovedBy(e)' = MovedBy(e)
    BY DEF Written, MovedBy, SumOf
  <1> QED
    BY <1>1, <1>2, FollowsKept

\* What is said of the event in hand depends on its rows and its state.
LEMMA WholeKept ==
    ASSUME InventoryTypeOK, UNCHANGED <<fact, ledger>>, NEW e \in Event, SaysItself(e)
    PROVE  Whole(e)' <=> Whole(e)
  <1>1. Said(e)' = Said(e)
    BY SaidStays
  <1>2. MovedBy(e)' = MovedBy(e)
    BY DEF MovedBy, SumOf
  <1> QED
    BY <1>1, <1>2 DEF Whole

\* Neither does the event in hand change.
LEMMA TaskKept ==
    ASSUME InventoryTypeOK, TaskFollows, UNCHANGED <<fact, ledger, state, task>>
    PROVE  TaskFollows'
  <1> SUFFICES ASSUME NEW e \in Event, (task # NoTask /\ task.event = e /\ SaysItself(e))'
               PROVE  TaskOf(e)'
    BY DEF TaskFollows
  <1>1. SaysItself(e) /\ TaskOf(e)
    BY EventsStay DEF TaskFollows, NoTask
  <1>2. /\ Whole(e)' <=> Whole(e)
        /\ Hopeless(e)' <=> Hopeless(e)
        /\ Documents(e)' = Documents(e)
    BY <1>1, WholeKept, EventsStay, DocumentsStay
  <1> QED
    BY <1>1, <1>2 DEF TaskOf

\* With no event in hand there is nothing to say of it.
LEMMA NoTaskFollows == ASSUME task' = NoTask PROVE TaskFollows'
  BY DEF TaskFollows, NoTask

\* An event that arrives.
LEMMA ReceiveKeeps ==
    ASSUME InventoryInv, NEW e \in Event, Receive(e)
    PROVE  InventoryInv'
  <1>1. InventoryTypeOK /\ UNCHANGED <<fact, ledger, balance, valuation, state, task, batch, run, jobs>>
    BY DEF InventoryInv, Receive, stock
  <1>2. /\ queue \in [Event -> {"none", "pending", "processing", "processed", "failed"}]
        /\ queue' = [queue EXCEPT ![e] = IF Relevant(e) THEN "pending" ELSE "processed"]
    BY <1>1 DEF Receive, InventoryTypeOK
  <1>3. InventoryTypeOK'
    BY <1>1, <1>2, TypesNext DEF InventoryTypeOK
  <1>4. \A f \in Event : queue'[f] = "processed" => queue[f] = "processed" \/ ~Relevant(f)
    BY <1>2
  <1>5. StockFollows' /\ TaskFollows' /\ BalancesTellTheLedger'
    BY <1>1, <1>4, EventsKept, TaskKept, BooksKept DEF InventoryInv
  <1>6. RunFollows'
    BY <1>1, RunNext DEF InventoryInv, RunFollows
  <1> QED
    BY <1>3, <1>5, <1>6 DEF InventoryInv

\* A batch that is claimed.
LEMMA ClaimKeeps ==
    ASSUME InventoryInv, ClaimPending
    PROVE  InventoryInv'
  <1>1. InventoryTypeOK /\ UNCHANGED <<fact, ledger, balance, valuation, state, task, run, jobs>>
    BY DEF InventoryInv, ClaimPending, stock
  <1>2. /\ queue \in [Event -> {"none", "pending", "processing", "processed", "failed"}]
        /\ queue' = [e \in Event |-> IF e \in Picked THEN "processing" ELSE queue[e]]
        /\ batch' \subseteq Event /\ run = NoRun
    BY <1>1 DEF ClaimPending, InventoryTypeOK, Picked, Ready, Idle
  <1>3. InventoryTypeOK'
    BY <1>1, <1>2, TypesNext DEF InventoryTypeOK
  <1>4. \A f \in Event : queue'[f] = "processed" => queue[f] = "processed"
    BY <1>2
  <1>5. StockFollows' /\ TaskFollows' /\ BalancesTellTheLedger'
    BY <1>1, <1>4, EventsKept, TaskKept, BooksKept DEF InventoryInv
  <1>6. RunFollows'
    BY <1>1, <1>2, RunNext DEF NoRun
  <1> QED
    BY <1>3, <1>5, <1>6 DEF InventoryInv

\* A task made of documents of an event.
LEMMA TaskOfDocuments ==
    ASSUME NEW e \in Event, NEW documents, AllAreDocuments(documents, e),
           NEW after \in BOOLEAN, NEW t, t = [event |-> e, documents |-> documents, job |-> after]
    PROVE  IsTask(t, fact)
  <1>1. documents \in Seq(Seq(LedgerRow)) /\ \A n \in DOMAIN documents : IsDocumentOf(documents[n], e)
    BY DEF AllAreDocuments
  <1>2. /\ t \in [event : Event, documents : Seq(Seq(LedgerRow)), job : BOOLEAN]
        /\ t.event = e /\ t.documents = documents
    BY <1>1
  <1> QED
    BY <1>1, <1>2 DEF IsTask, IsDocumentOf, SaysItself, ByItself

\* An event that says nothing moves nothing.
LEMMA NothingSaid ==
    ASSUME NEW e, Documents(e) = <<>>, RowsFollow(e)
    PROVE  Whole(e)
  <1>1. Written(ledger, e) = {}
    BY DEF RowsFollow
  <1>2. Said(e) = 0 /\ MovedBy(e) = 0
    BY <1>1, NothingWritten DEF Said
  <1> QED
    BY <1>2 DEF Whole

\* An event taken of the batch.
LEMMA TakeKeeps ==
    ASSUME InventoryInv, NEW e \in Event, Take(e)
    PROVE  /\ e \in batch /\ task = NoTask /\ run = NoRun
           /\ batch' \subseteq Event
  BY DEF InventoryInv, InventoryTypeOK, RunFollows, Take

\* An event whose documents are put together.
LEMMA PrepareKeeps ==
    ASSUME InventoryInv, NEW e \in Event, Prepare(e)
    PROVE  InventoryInv'
  <1>1. /\ InventoryTypeOK /\ StockFollows
        /\ UNCHANGED <<fact, queue, ledger, balance, valuation, run, jobs>>
        /\ task = NoTask /\ run = NoRun /\ batch' \subseteq Event
        /\ Settled(e) \/ ~Hopeless(e)
    BY TakeKeeps DEF InventoryInv, Prepare
  <1> DEFINE documents == IF Settled(e) THEN <<>> ELSE Documents(e)
  <1>2. /\ task' = [event |-> e, documents |-> documents, job |-> FALSE]
        /\ state' = IF Settled(e) \/ ~IsDocument(e) THEN state
                    ELSE [state EXCEPT ![e] = StateOf(documents)]
    BY DEF Prepare
  <1>3. AllAreDocuments(documents, e)
    BY <1>1, DocumentsTyped, NoDocuments
  <1>4. /\ state \in [Event -> {"none", "accepted", "posted", "failed"}]
        /\ StateOf(documents) \in {"posted", "accepted"}
        /\ StateOf(documents) = "posted" => documents = <<>>
        /\ Settled(e) => documents = <<>>
        /\ ~Settled(e) => documents = Documents(e)
    BY <1>1 DEF InventoryTypeOK, StateOf
  <1> HIDE DEF documents
  <1>5. state' \in [Event -> {"none", "accepted", "posted", "failed"}]
    BY <1>2, <1>4
  <1>6. IsTask(task', fact)
    BY <1>2, <1>3, TaskOfDocuments
  <1>7. InventoryTypeOK'
    BY <1>1, <1>5, <1>6, TypesNext DEF InventoryTypeOK
  <1>8. BalancesTellTheLedger' /\ RunFollows'
    BY <1>1, BooksKept, RunNext DEF InventoryInv
  <1>9. ASSUME NEW f \in Event, SaysItself(f)
        PROVE  /\ RowsFollow(f) /\ Written(ledger', f) = Written(ledger, f) /\ MovedBy(f)' = MovedBy(f)
               /\ Documents(f)' = Documents(f) /\ Said(f)' = Said(f)
               /\ Whole(f)' <=> Whole(f)
               /\ Hopeless(f)' <=> Hopeless(f)
               /\ IsDocument(f)' <=> IsDocument(f)
               /\ Relevant(f)' <=> Relevant(f)
    <2>1. Written(ledger', f) = Written(ledger, f) /\ MovedBy(f)' = MovedBy(f)
      BY <1>1 DEF Written, MovedBy, SumOf
    <2> QED
      BY <1>1, <1>9, <2>1, DocumentsStay, SaidStays, EventsStay, WholeKept DEF StockFollows
  <1>10. ASSUME SaysItself(e), IsDocument(e), ~Settled(e)
         PROVE  /\ Written(ledger, e) = {} /\ state[e] \notin {"posted", "failed"}
    BY <1>9, <1>10 DEF RowsFollow, Settled
  <1>11. StockFollows'
    <2> SUFFICES ASSUME NEW f \in Event, SaysItself(f)' PROVE RowsFollow(f)'
      BY DEF StockFollows
    <2>1. SaysItself(f)
      BY <1>1, EventsStay
    <2>2. CASE f # e \/ Settled(e) \/ ~IsDocument(e)
      <3>1. state'[f] = state[f] /\ queue'[f] = queue[f]
        BY <1>1, <1>2, <1>4, <2>2
      <3> QED
        BY <1>1, <1>9, <2>1, <3>1, FollowsKept
    <2>3. CASE f = e /\ ~Settled(e) /\ IsDocument(e)
      <3>1. Written(ledger', e) = {} /\ state[e] \notin {"posted", "failed"}
        BY <1>9, <1>10, <2>1, <2>3
      <3>2. state'[e] = StateOf(documents) /\ queue'[e] = queue[e]
        BY <1>1, <1>2, <1>4, <2>3
      <3>3. state'[e] = "posted" => Whole(e)
        BY <1>4, <1>9, <2>1, <2>3, <3>2, NothingSaid
      <3>4. queue[e] = "processed" /\ Relevant(e) => Whole(e)
        BY <1>9, <2>1, <2>3, <3>1 DEF RowsFollow
      <3>5. RowsFollow(e)'
        BY <1>9, <2>1, <2>3, <3>1, <3>2, <3>3, <3>4 DEF RowsFollow, Written
      <3> QED
        BY <2>3, <3>5
    <2> QED
      BY <2>2, <2>3
  <1>12. TaskFollows'
    <2> SUFFICES ASSUME NEW f \in Event, (task # NoTask /\ task.event = f /\ SaysItself(f))'
                 PROVE  TaskOf(f)'
      BY DEF TaskFollows
    <2>1. f = e /\ SaysItself(e) /\ task'.documents = documents /\ task'.job = FALSE
      BY <1>1, <1>2, EventsStay
    <2>2. documents \in {<<>>, Documents(e)} /\ (documents # <<>> => ~Hopeless(e))
      BY <1>1, <1>4
    <2>3. documents = <<>> => Whole(e) \/ state'[e] = "failed"
      <3>1. CASE Settled(e)
        BY <1>2, <1>9, <2>1, <3>1 DEF Settled, RowsFollow
      <3>2. CASE ~Settled(e)
        BY <1>4, <1>9, <2>1, <3>2, NothingSaid
      <3> QED
        BY <3>1, <3>2
    <2>4. TaskOf(e)'
      BY <1>9, <2>1, <2>2, <2>3 DEF TaskOf
    <2> QED
      BY <2>1, <2>4
  <1> QED
    BY <1>7, <1>8, <1>11, <1>12 DEF InventoryInv

\* A document nothing is written of.
LEMMA FailDocumentKeeps ==
    ASSUME InventoryInv, NEW e \in Event, FailDocument(e)
    PROVE  InventoryInv'
  <1>1. /\ InventoryTypeOK /\ StockFollows
        /\ UNCHANGED <<fact, ledger, balance, valuation, run, jobs>>
        /\ task = NoTask /\ run = NoRun /\ batch' \subseteq Event
        /\ ~Settled(e) /\ IsDocument(e)
    BY TakeKeeps DEF InventoryInv, FailDocument
  <1>2. BalancesTellTheLedger' /\ RunFollows'
    BY <1>1, BooksKept, RunNext DEF InventoryInv
  <1>3. /\ state \in [Event -> {"none", "accepted", "posted", "failed"}]
        /\ queue \in [Event -> {"none", "pending", "processing", "processed", "failed"}]
    BY <1>1 DEF InventoryTypeOK
  <1>4. /\ state' = [state EXCEPT ![e] = "failed"] /\ queue' = queue
        /\ task' = [event |-> e, documents |-> <<>>, job |-> FALSE]
    BY DEF FailDocument
  <1>5. InventoryTypeOK'
    <2>1. IsTask(task', fact)
      BY <1>4, NoDocuments, TaskOfDocuments
    <2> QED
      BY <1>1, <1>3, <1>4, <2>1, TypesNext DEF InventoryTypeOK
  <1>6. StockFollows'
    <2> SUFFICES ASSUME NEW f \in Event, SaysItself(f)' PROVE RowsFollow(f)'
      BY DEF StockFollows
    <2>1. /\ SaysItself(f) /\ RowsFollow(f)
          /\ Written(ledger', f) = Written(ledger, f) /\ MovedBy(f)' = MovedBy(f)
      BY <1>1, EventsStay DEF StockFollows, Written, MovedBy, SumOf
    <2>2. CASE f # e
      <3>1. state'[f] = state[f] /\ queue'[f] = queue[f]
        BY <1>3, <1>4, <2>2
      <3> QED
        BY <1>1, <2>1, <3>1, FollowsKept
    <2>3. CASE f = e
      <3>1. Written(ledger, e) = {}
        BY <1>1, <2>1, <2>3 DEF RowsFollow, Settled
      <3>2. state'[e] = "failed" /\ Written(ledger', e) = {}
        BY <1>3, <1>4, <2>1, <2>3, <3>1
      <3>3. IsDocument(e)'
        BY <1>1, EventsStay
      <3>4. RowsFollow(e)'
        BY <3>2, <3>3 DEF RowsFollow, Written
      <3> QED
        BY <2>3, <3>4
    <2> QED
      BY <2>2, <2>3
  <1>7. TaskFollows'
    <2> SUFFICES ASSUME NEW f \in Event, (task # NoTask /\ task.event = f /\ SaysItself(f))'
                 PROVE  TaskOf(f)'
      BY DEF TaskFollows
    <2>1. f = e /\ task'.documents = <<>> /\ task'.job = FALSE /\ state'[e] = "failed"
      BY <1>3, <1>4
    <2> QED
      BY <2>1 DEF TaskOf
  <1> QED
    BY <1>2, <1>5, <1>6, <1>7 DEF InventoryInv

\* An event that is to be retried before anything of it is written.
LEMMA PostponeKeeps ==
    ASSUME InventoryInv, NEW e \in Event, Postpone(e)
    PROVE  InventoryInv'
  <1>1. /\ InventoryTypeOK /\ StockFollows
        /\ UNCHANGED <<fact, ledger, balance, valuation, run, jobs>>
        /\ task = NoTask /\ task' = NoTask /\ run = NoRun /\ batch' \subseteq Event
    BY TakeKeeps DEF InventoryInv, Postpone
  <1>2. BalancesTellTheLedger' /\ RunFollows'
    BY <1>1, BooksKept, RunNext DEF InventoryInv
  <1>3. /\ state \in [Event -> {"none", "accepted", "posted", "failed"}]
        /\ queue \in [Event -> {"none", "pending", "processing", "processed", "failed"}]
    BY <1>1 DEF InventoryTypeOK
  <1>4. queue' = [queue EXCEPT ![e] = "failed"] /\ UNCHANGED task
    BY DEF Postpone
  <1>5. /\ state' \in [Event -> {"none", "accepted", "posted", "failed"}]
        /\ \A f \in Event :
              \/ state'[f] = state[f]
              \/ f = e /\ IsDocument(e) /\ state[e] = "none" /\ state'[e] = "accepted"
    BY <1>3 DEF Postpone, Begun
  <1>6. InventoryTypeOK'
    BY <1>1, <1>3, <1>4, <1>5, TypesNext DEF InventoryTypeOK
  <1>7. \A f \in Event : queue'[f] = "processed" => queue[f] = "processed"
    BY <1>3, <1>4
  <1>8. StockFollows'
    <2> SUFFICES ASSUME NEW f \in Event, SaysItself(f)' PROVE RowsFollow(f)'
      BY DEF StockFollows
    <2>1. /\ SaysItself(f) /\ RowsFollow(f)
          /\ Written(ledger', f) = Written(ledger, f) /\ MovedBy(f)' = MovedBy(f)
      BY <1>1, EventsStay DEF StockFollows, Written, MovedBy, SumOf
    <2>2. CASE state'[f] = state[f]
      BY <1>1, <1>7, <2>1, <2>2, FollowsKept
    <2>3. CASE f = e /\ IsDocument(e) /\ state[e] = "none" /\ state'[e] = "accepted"
      <3>1. Written(ledger', e) = {} /\ queue'[e] = "failed"
        BY <1>3, <1>4, <2>1, <2>3 DEF RowsFollow
      <3>2. IsDocument(e)'
        BY <1>1, <2>3, EventsStay
      <3>3. RowsFollow(e)'
        BY <2>3, <3>1, <3>2 DEF RowsFollow, Written
      <3> QED
        BY <2>3, <3>3
    <2> QED
      BY <1>5, <2>2, <2>3
  <1>9. TaskFollows'
    BY <1>1, NoTaskFollows
  <1> QED
    BY <1>2, <1>6, <1>8, <1>9 DEF InventoryInv

\* A document that is written.
LEMMA WriteKeeps ==
    ASSUME InventoryInv, task.documents # <<>>, WriteDocument(Head(task.documents)),
           UNCHANGED <<fact, jobs, run>>,
           \A f \in Event : f # task.event => queue'[f] = queue[f]
    PROVE  /\ InventoryTypeOK /\ task # NoTask /\ task.event \in Event /\ run = NoRun
           /\ ledger' \in Seq(LedgerRow) /\ SourcesFit(ledger', fact)
           /\ balance' \in [Key -> Int] /\ valuation' \in [Key -> {"none"} \cup Costing]
           /\ state' \in [Event -> {"none", "accepted", "posted", "failed"}]
           /\ BalancesTellTheLedger' /\ StockFollows' /\ RunFollows'
  <1> DEFINE rows == Head(task.documents)
  <1>1. InventoryTypeOK /\ task # NoTask /\ BalancesTellTheLedger /\ StockFollows /\ TaskFollows
    BY DEF InventoryInv, NoTask
  <1>2. task.event \in Event /\ IsDocumentOf(rows, task.event)
    BY <1>1, TaskTyped
  <1>3. run = NoRun /\ RunFollows'
    BY <1>1, RunNext DEF InventoryInv, RunFollows
  <1>4. state' \in [Event -> {"none", "accepted", "posted", "failed"}]
    <2>1. state \in [Event -> {"none", "accepted", "posted", "failed"}]
      BY <1>1 DEF InventoryTypeOK
    <2>2. state' \in {state, [state EXCEPT ![task.event] = "posted"]}
      BY DEF WriteDocument
    <2> QED
      BY <2>1, <2>2
  <1>5. StockFollows'
    BY <1>1, WriteKeepsEvents
  <1>6. CASE Posted(rows)
    <2>1. UNCHANGED <<ledger, balance, valuation>>
      BY <1>6 DEF WriteDocument
    <2> QED
      BY <1>1, <1>2, <1>3, <1>4, <1>5, <2>1, BooksKept DEF InventoryTypeOK
  <1>7. CASE ~Posted(rows)
    BY <1>1, <1>2, <1>3, <1>4, <1>5, <1>7, WriteKeepsBooks
  <1> QED
    BY <1>6, <1>7

\* What changes one column of a task leaves the others.
LEMMA TaskChanged ==
    ASSUME NEW E, NEW D, NEW t \in [event : E, documents : D, job : BOOLEAN], NEW rest
    PROVE  /\ [t EXCEPT !.job = TRUE] =
                 [event |-> t.event, documents |-> t.documents, job |-> TRUE]
           /\ [t EXCEPT !.documents = rest] =
                 [event |-> t.event, documents |-> rest, job |-> t.job]
  <1> DEFINE a == [t EXCEPT !.job = TRUE]
             b == [t EXCEPT !.documents = rest]
  <1>1. /\ a \in [event : E, documents : D, job : BOOLEAN]
        /\ a.event = t.event /\ a.documents = t.documents /\ a.job = TRUE
    OBVIOUS
  <1>2. /\ b \in [event : E, documents : {rest}, job : BOOLEAN]
        /\ b.event = t.event /\ b.documents = rest /\ b.job = t.job
    OBVIOUS
  <1>3. a = [event |-> a.event, documents |-> a.documents, job |-> a.job]
    <2> HIDE DEF a
    <2> QED
      BY <1>1
  <1>4. b = [event |-> b.event, documents |-> b.documents, job |-> b.job]
    <2> HIDE DEF b
    <2> QED
      BY <1>2
  <1> HIDE DEF a, b
  <1>5. a = [event |-> t.event, documents |-> t.documents, job |-> TRUE]
    BY <1>1, <1>3
  <1>6. b = [event |-> t.event, documents |-> rest, job |-> t.job]
    BY <1>2, <1>4
  <1> QED
    BY <1>5, <1>6 DEF a, b

\* One document of an event written.
LEMMA CreateStockDocumentKeeps ==
    ASSUME InventoryInv, CreateStockDocument
    PROVE  InventoryInv'
  <1>1. /\ task.documents # <<>> /\ ~task.job /\ WriteDocument(Head(task.documents))
        /\ UNCHANGED <<fact, queue, batch, turn, jobs, run>>
    BY DEF CreateStockDocument
  <1>2. /\ InventoryTypeOK /\ task # NoTask /\ task.event \in Event /\ run = NoRun
        /\ ledger' \in Seq(LedgerRow) /\ SourcesFit(ledger', fact)
        /\ balance' \in [Key -> Int] /\ valuation' \in [Key -> {"none"} \cup Costing]
        /\ state' \in [Event -> {"none", "accepted", "posted", "failed"}]
        /\ BalancesTellTheLedger' /\ StockFollows' /\ RunFollows'
    BY <1>1, WriteKeeps
  <1>3. PICK e \in Event, documents \in Seq(Seq(LedgerRow)) :
           /\ e = task.event /\ documents = task.documents /\ documents # <<>>
           /\ task = [event |-> e, documents |-> documents, job |-> FALSE]
           /\ AllAreDocuments(documents, e)
           /\ AllAreDocuments(Tail(documents), e)
    <2>1. /\ task \in [event : Event, documents : Seq(Seq(LedgerRow)), job : BOOLEAN]
          /\ task.documents \in Seq(Seq(LedgerRow)) /\ task.job = FALSE
          /\ Tail(task.documents) \in Seq(Seq(LedgerRow))
          /\ \A n \in DOMAIN Tail(task.documents) :
                IsDocumentOf(Tail(task.documents)[n], task.event)
      BY <1>1, <1>2, TaskTyped
    <2>2. IsTask(task, fact)
      BY <1>2 DEF InventoryTypeOK
    <2>3. \A n \in DOMAIN task.documents : task.documents[n] \in Seq(LedgerRow)
      BY <2>1, HeldBySequence
    <2>4. \A n \in DOMAIN task.documents : IsDocumentOf(task.documents[n], task.event)
      BY <2>2, <2>3 DEF IsTask, IsDocumentOf, SaysItself, ByItself
    <2>5. task = [event |-> task.event, documents |-> task.documents, job |-> FALSE]
      BY <2>1
    <2> QED
      BY <1>1, <1>2, <2>1, <2>4, <2>5 DEF AllAreDocuments
  <1>4. task' = IF IsDocument(e) THEN [event |-> e, documents |-> documents, job |-> TRUE]
                ELSE [event |-> e, documents |-> Tail(documents), job |-> FALSE]
    <2>1. task' = IF IsDocument(task.event) THEN [task EXCEPT !.job = TRUE]
                  ELSE [task EXCEPT !.documents = Tail(@)]
      BY DEF CreateStockDocument
    <2>2. IsDocument(task.event) <=> IsDocument(e)
      BY <1>3
    <2>3. task = [event |-> e, documents |-> documents, job |-> FALSE]
      BY <1>3
    <2>4. task \in [event : Event, documents : Seq(Seq(LedgerRow)), job : BOOLEAN]
      BY <1>2, TaskTyped
    <2>5. /\ [task EXCEPT !.job = TRUE] =
                [event |-> task.event, documents |-> task.documents, job |-> TRUE]
          /\ [task EXCEPT !.documents = Tail(task.documents)] =
                [event |-> task.event, documents |-> Tail(task.documents), job |-> task.job]
      BY <2>4, TaskChanged
    <2>6. [task EXCEPT !.documents = Tail(@)] = [task EXCEPT !.documents = Tail(task.documents)]
      OBVIOUS
    <2>7. task.documents = documents
      BY <1>3
    <2>8. task.job = FALSE
      BY <1>1, <2>4
    <2> QED
      BY <1>3, <2>1, <2>2, <2>5, <2>6, <2>7, <2>8
  <1>5. IsTask(task', fact)
    BY <1>3, <1>4, TaskOfDocuments
  <1>6. InventoryTypeOK'
    BY <1>1, <1>2, <1>5, TypesNext DEF InventoryTypeOK
  <1>7. TaskFollows'
    <2> SUFFICES ASSUME NEW f \in Event, (task # NoTask /\ task.event = f /\ SaysItself(f))'
                 PROVE  TaskOf(f)'
      BY DEF TaskFollows
    <2>1. f = e /\ SaysItself(e)
      BY <1>1, <1>4, EventsStay
    <2>2. ~Hopeless(e) /\ Whole(e)'
      BY <1>1, <1>2, <1>3, <2>1, WriteIsWhole DEF InventoryInv
    <2>3. documents = Documents(e)
      BY <1>2, <1>3, <2>1 DEF InventoryInv, TaskFollows, TaskOf
    <2>4. /\ Hopeless(e)' <=> Hopeless(e)
          /\ Documents(e)' = Documents(e)
      BY <1>1, <1>2, <2>1, EventsStay, DocumentsStay
    <2>5. Tail(documents) = <<>>
      <3>1. PICK rows : documents = <<rows>>
        BY <1>2, <1>3, <2>1, <2>3, SaidInOneDocument
      <3> QED
        BY <3>1
    <2>6. /\ task'.documents \in {<<>>, Documents(e)} /\ (task'.job => task'.documents # <<>>)
      BY <1>3, <1>4, <2>3, <2>5
    <2>7. TaskOf(e)'
      BY <2>2, <2>4, <2>6 DEF TaskOf
    <2> QED
      BY <2>1, <2>7
  <1> QED
    BY <1>2, <1>6, <1>7 DEF InventoryInv

\* An event that is to be retried, whether its document was written or not.
LEMMA FailToWriteKeeps ==
    ASSUME InventoryInv, FailToWrite
    PROVE  InventoryInv'
  <1>1. /\ InventoryTypeOK /\ StockFollows /\ task # NoTask
        /\ UNCHANGED <<fact, ledger, balance, valuation, state, batch, jobs, run>>
        /\ queue' = [queue EXCEPT ![task.event] = "failed"] /\ task' = NoTask
    BY DEF InventoryInv, FailToWrite, MarkFailed, NoTask
  <1>2. queue \in [Event -> {"none", "pending", "processing", "processed", "failed"}]
    BY <1>1 DEF InventoryTypeOK
  <1>3. InventoryTypeOK'
    BY <1>1, <1>2, TypesNext DEF InventoryTypeOK
  <1>4. \A f \in Event : queue'[f] = "processed" => queue[f] = "processed"
    BY <1>1, <1>2
  <1>5. StockFollows' /\ TaskFollows' /\ BalancesTellTheLedger'
    BY <1>1, <1>4, EventsKept, NoTaskFollows, BooksKept DEF InventoryInv
  <1>6. RunFollows'
    BY <1>1, RunNext DEF InventoryInv, RunFollows
  <1> QED
    BY <1>3, <1>5, <1>6 DEF InventoryInv

\* A document that is written although the worker is told that it is not.
LEMMA LoseAnswerKeeps ==
    ASSUME InventoryInv, LoseAnswer
    PROVE  InventoryInv'
  <1>1. /\ task.documents # <<>> /\ WriteDocument(Head(task.documents))
        /\ UNCHANGED <<fact, batch, jobs, run>>
        /\ queue' = [queue EXCEPT ![task.event] = "failed"] /\ task' = NoTask
    BY DEF LoseAnswer, MarkFailed
  <1>2. queue \in [Event -> {"none", "pending", "processing", "processed", "failed"}]
    BY DEF InventoryInv, InventoryTypeOK
  <1>3. \A f \in Event : f # task.event => queue'[f] = queue[f]
    BY <1>1, <1>2
  <1>4. /\ InventoryTypeOK /\ ledger' \in Seq(LedgerRow) /\ SourcesFit(ledger', fact)
        /\ balance' \in [Key -> Int] /\ valuation' \in [Key -> {"none"} \cup Costing]
        /\ state' \in [Event -> {"none", "accepted", "posted", "failed"}] /\ run = NoRun
        /\ BalancesTellTheLedger' /\ StockFollows' /\ RunFollows'
    BY <1>1, <1>3, WriteKeeps
  <1>5. InventoryTypeOK'
    BY <1>1, <1>2, <1>4, TypesNext DEF InventoryTypeOK
  <1> QED
    BY <1>1, <1>4, <1>5, NoTaskFollows DEF InventoryInv

\* An event that is processed.
LEMMA MarkProcessedKeeps ==
    ASSUME InventoryInv, MarkProcessed
    PROVE  InventoryInv'
  <1>1. /\ InventoryTypeOK /\ StockFollows /\ task # NoTask /\ task.documents = <<>>
        /\ UNCHANGED <<fact, ledger, balance, valuation, state, batch, jobs, run>>
        /\ queue' = [queue EXCEPT ![task.event] = "processed"] /\ task' = NoTask
    BY DEF InventoryInv, MarkProcessed, stock
  <1>2. queue \in [Event -> {"none", "pending", "processing", "processed", "failed"}]
    BY <1>1 DEF InventoryTypeOK
  <1>3. InventoryTypeOK'
    BY <1>1, <1>2, TypesNext DEF InventoryTypeOK
  <1>4. ASSUME NEW f \in Event, SaysItself(f), queue'[f] = "processed"
        PROVE  queue[f] = "processed" \/ Whole(f) \/ state[f] = "failed"
    <2>1. CASE f = task.event
      BY <1>1, <1>4, <2>1 DEF InventoryInv, TaskFollows, TaskOf
    <2>2. CASE f # task.event
      BY <1>1, <1>2, <1>4, <2>2
    <2> QED
      BY <2>1, <2>2
  <1>5. StockFollows' /\ TaskFollows' /\ BalancesTellTheLedger'
    BY <1>1, <1>4, EventsKept, NoTaskFollows, BooksKept DEF InventoryInv
  <1>6. RunFollows'
    BY <1>1, RunNext DEF InventoryInv, RunFollows
  <1> QED
    BY <1>3, <1>5, <1>6 DEF InventoryInv

\* A row with another costing status.
LEMMA RowMarked ==
    ASSUME NEW row \in LedgerRow, NEW status \in Costing, NEW other,
           other = [row EXCEPT !.costing = status]
    PROVE  /\ other \in LedgerRow
           /\ other.event = row.event /\ other.source = row.source /\ other.key = row.key
           /\ other.movement = row.movement /\ other.quantity = row.quantity
           /\ other.at = row.at /\ other.cost = row.cost /\ other.costing = status
  BY DEF LedgerRow

\* Costs that change, with the balances computed again.
LEMMA CostsKeep ==
    ASSUME InventoryInv, UNCHANGED <<fact, queue, balance, state>>,
           ledger' \in Seq(LedgerRow), DOMAIN ledger' = DOMAIN ledger,
           \A i \in DOMAIN ledger : /\ ledger'[i].event = ledger[i].event
                                    /\ ledger'[i].source = ledger[i].source
                                    /\ ledger'[i].key = ledger[i].key
                                    /\ ledger'[i].movement = ledger[i].movement
                                    /\ ledger'[i].quantity = ledger[i].quantity,
           NEW keys, \A k \in keys : RowsOfKey(ledger, k) # {},
           \A i \in DOMAIN ledger : ledger[i].key \notin keys => ledger'[i].costing = ledger[i].costing,
           RefreshStockBalanceCosting(ledger', keys)
    PROVE  /\ SourcesFit(ledger', fact) /\ valuation' \in [Key -> {"none"} \cup Costing]
           /\ BalancesTellTheLedger' /\ StockFollows'
           /\ \A e \in Event : SaysItself(e) => (Whole(e)' <=> Whole(e))
  <1>1. InventoryTypeOK /\ BalancesTellTheLedger /\ StockFollows /\ SourcesFit(ledger, fact)
    BY DEF InventoryInv, InventoryTypeOK
  <1>2. SourcesFit(ledger', fact)
    BY <1>1 DEF SourcesFit
  <1>3. valuation' \in [Key -> {"none"} \cup Costing] /\ BalancesTellTheLedger'
    BY <1>1, PricingKeepsBooks
  <1>4. ASSUME NEW e \in Event
        PROVE  Written(ledger', e) = Written(ledger, e) /\ MovedBy(e)' = MovedBy(e)
    BY WrittenPriced
  <1>5. StockFollows'
    <2> SUFFICES ASSUME NEW e \in Event, SaysItself(e)' PROVE RowsFollow(e)'
      BY DEF StockFollows
    <2>1. SaysItself(e) /\ RowsFollow(e)
      BY <1>1, EventsStay DEF StockFollows
    <2> QED
      BY <1>1, <1>4, <2>1, FollowsKept
  <1>6. ASSUME NEW e \in Event, SaysItself(e)
        PROVE  Whole(e)' <=> Whole(e)
    BY <1>1, <1>4, <1>6, SaidStays DEF Whole
  <1> QED
    BY <1>2, <1>3, <1>5, <1>6

\* A job that is caused, or not, by a document.
LEMMA CreateRecalculationJobKeeps ==
    ASSUME InventoryInv, CreateRecalculationJob
    PROVE  InventoryInv'
  <1>1. /\ task.job /\ task # NoTask
        /\ UNCHANGED <<fact, queue, batch, balance, state, run>>
        /\ task' = [task EXCEPT !.documents = <<>>, !.job = FALSE]
        /\ InventoryTypeOK /\ run = NoRun
    BY DEF CreateRecalculationJob, NoTask, InventoryInv, RunFollows
  <1>2. PICK e, items, keys :
           /\ e = task.event /\ keys = MovedLater(e, AffectedItems(items))
           /\ IF keys = {} \/ jobs[e] # NoJob THEN UNCHANGED <<jobs, ledger, valuation>>
              ELSE /\ jobs' = [jobs EXCEPT ![e] =
                         [status |-> "queued", keys |-> keys, cyclic |-> Cyclic(items)]]
                   /\ ledger' = [i \in DOMAIN ledger |->
                         IF ledger[i].key \in keys
                         THEN [ledger[i] EXCEPT !.costing = "needs_recalculation"]
                         ELSE ledger[i]]
                   /\ RefreshStockBalanceCosting(ledger', keys)
    BY DEF CreateRecalculationJob
  <1>3. e \in Event /\ ledger \in Seq(LedgerRow) /\ jobs \in [Event -> Job]
    BY <1>1, <1>2, TaskTyped DEF InventoryTypeOK
  <1>4. keys \in SUBSET Key /\ \A k \in keys : RowsOfKey(ledger, k) # {}
    BY <1>2, <1>3, RowColumns DEF MovedLater, RowsOfKey
  <1>5. /\ jobs' \in [Event -> Job] /\ ledger' \in Seq(LedgerRow) /\ SourcesFit(ledger', fact)
        /\ valuation' \in [Key -> {"none"} \cup Costing]
        /\ BalancesTellTheLedger' /\ StockFollows'
        /\ \A f \in Event : SaysItself(f) => (Whole(f)' <=> Whole(f))
    <2>1. CASE keys = {} \/ jobs[e] # NoJob
      <3>1. UNCHANGED <<jobs, ledger, valuation>>
        BY <1>2, <2>1
      <3>2. BalancesTellTheLedger' /\ StockFollows'
        BY <1>1, <3>1, BooksKept, EventsKept DEF InventoryInv
      <3>3. \A f \in Event : SaysItself(f) => (Whole(f)' <=> Whole(f))
        BY <1>1, <3>1, WholeKept
      <3> QED
        BY <1>1, <1>3, <3>1, <3>2, <3>3 DEF InventoryTypeOK
    <2>2. CASE ~(keys = {} \/ jobs[e] # NoJob)
      <3>1. /\ jobs' = [jobs EXCEPT ![e] =
                  [status |-> "queued", keys |-> keys, cyclic |-> Cyclic(items)]]
            /\ ledger' = [i \in DOMAIN ledger |->
                  IF ledger[i].key \in keys
                  THEN [ledger[i] EXCEPT !.costing = "needs_recalculation"] ELSE ledger[i]]
            /\ RefreshStockBalanceCosting(ledger', keys)
        BY <1>2, <2>2
      <3>2. Cyclic(items) \in BOOLEAN
        BY DEF Cyclic
      <3>3. jobs' \in [Event -> Job]
        BY <1>3, <1>4, <3>1, <3>2 DEF Job
      <3>4. ASSUME NEW i \in DOMAIN ledger
            PROVE  /\ ledger'[i] \in LedgerRow
                   /\ ledger'[i].event = ledger[i].event /\ ledger'[i].source = ledger[i].source
                   /\ ledger'[i].key = ledger[i].key
                   /\ ledger'[i].movement = ledger[i].movement
                   /\ ledger'[i].quantity = ledger[i].quantity
                   /\ ledger[i].key \notin keys => ledger'[i].costing = ledger[i].costing
        <4>1. ledger[i] \in LedgerRow /\ "needs_recalculation" \in Costing /\ 0 \in Nat
          BY <1>3, RowColumns DEF Costing
        <4>2. CASE ledger[i].key \in keys
          <5>1. ledger'[i] = [ledger[i] EXCEPT !.costing = "needs_recalculation"]
            BY <3>1, <4>2
          <5> QED
            BY <4>1, <4>2, <5>1, RowMarked
        <4>3. CASE ledger[i].key \notin keys
          BY <3>1, <4>1, <4>3
        <4> QED
          BY <4>2, <4>3
      <3>5. DOMAIN ledger' = DOMAIN ledger /\ ledger' \in Seq(LedgerRow)
        <4>1. DOMAIN ledger' = DOMAIN ledger /\ ledger' = [i \in DOMAIN ledger |-> ledger'[i]]
          BY <3>1
        <4>2. DOMAIN ledger = 1..Len(ledger) /\ Len(ledger) \in Nat
          BY <1>3, RowColumns
        <4>3. ledger' \in [1..Len(ledger) -> LedgerRow]
          BY <3>4, <4>1, <4>2
        <4> QED
          BY <4>1, <4>2, <4>3, SeqDef
      <3>6. /\ SourcesFit(ledger', fact) /\ valuation' \in [Key -> {"none"} \cup Costing]
            /\ BalancesTellTheLedger' /\ StockFollows'
            /\ \A f \in Event : SaysItself(f) => (Whole(f)' <=> Whole(f))
        BY <1>1, <1>4, <3>1, <3>4, <3>5, CostsKeep
      <3> QED
        BY <3>3, <3>5, <3>6
    <2> QED
      BY <2>1, <2>2
  <1>6. task' = [event |-> e, documents |-> <<>>, job |-> FALSE]
    <2> DEFINE t == [task EXCEPT !.documents = <<>>, !.job = FALSE]
    <2>1. task \in [event : Event, documents : Seq(Seq(LedgerRow)), job : BOOLEAN]
      BY <1>1, TaskTyped
    <2>2. /\ t \in [event : Event, documents : {<<>>}, job : BOOLEAN]
          /\ t.event = task.event /\ t.documents = <<>> /\ t.job = FALSE
      BY <2>1
    <2>3. t = [event |-> t.event, documents |-> t.documents, job |-> t.job]
      <3> HIDE DEF t
      <3> QED
        BY <2>2
    <2> HIDE DEF t
    <2>4. t = [event |-> e, documents |-> <<>>, job |-> FALSE]
      BY <1>2, <2>2, <2>3
    <2> QED
      BY <1>1, <2>4 DEF t
  <1>7. IsTask(task', fact)
    BY <1>3, <1>6, NoDocuments, TaskOfDocuments
  <1>8. InventoryTypeOK'
    BY <1>1, <1>5, <1>7, TypesNext DEF InventoryTypeOK
  <1>9. TaskFollows'
    <2> SUFFICES ASSUME NEW f \in Event, (task # NoTask /\ task.event = f /\ SaysItself(f))'
                 PROVE  TaskOf(f)'
      BY DEF TaskFollows
    <2>1. f = e /\ SaysItself(e)
      <3>1. task'.event = f /\ task'.event = e
        BY <1>6
      <3>2. SaysItself(f)
        BY <1>1, EventsStay
      <3> QED
        BY <3>1, <3>2
    <2>2. Whole(e) \/ state[e] = "failed"
      BY <1>1, <1>2, <1>3, <2>1 DEF InventoryInv, TaskFollows, TaskOf
    <2>3. Whole(e)' \/ state'[e] = "failed"
      BY <1>1, <1>3, <1>5, <2>1, <2>2
    <2>4. task'.documents = <<>> /\ ~task'.job
      BY <1>6
    <2> QED
      BY <2>1, <2>3, <2>4 DEF TaskOf
  <1>10. RunFollows'
    BY <1>1, RunNext
  <1> QED
    BY <1>5, <1>8, <1>9, <1>10 DEF InventoryInv

\* Where only the work in hand changes, the books stay as they are.
LEMMA OthersKept ==
    ASSUME InventoryInv, UNCHANGED <<fact, queue, ledger, balance, valuation, state>>,
           batch' \subseteq Event, task' = NoTask \/ task' = task, jobs' \in [Event -> Job],
           run' = NoRun \/ run' \in [event : Event, rows : SUBSET DOMAIN ledger], RunFollows'
    PROVE  InventoryInv'
  <1>1. InventoryTypeOK'
    BY TypesNext DEF InventoryInv, InventoryTypeOK
  <1>2. StockFollows' /\ BalancesTellTheLedger'
    BY EventsKept, BooksKept DEF InventoryInv
  <1>3. TaskFollows'
    BY NoTaskFollows, TaskKept DEF InventoryInv
  <1> QED
    BY <1>1, <1>2, <1>3 DEF InventoryInv

\* A job that is started, with all its rows left, or failed at once.
LEMMA StartRecalculationKeeps ==
    ASSUME InventoryInv, NEW e \in Event, StartRecalculation(e)
    PROVE  InventoryInv'
  <1>1. /\ UNCHANGED <<fact, queue, batch, task, ledger, balance, valuation, state>>
        /\ batch = {} /\ task = NoTask /\ run = NoRun /\ batch' \subseteq Event
    BY DEF StartRecalculation, Idle
  <1>2. jobs \in [Event -> Job] /\ jobs[e] \in Job
    BY DEF InventoryInv, InventoryTypeOK
  <1>3. CASE jobs[e].cyclic
    <2>1. jobs' = [jobs EXCEPT ![e].status = "failed"] /\ run' = run
      BY <1>3 DEF StartRecalculation
    <2>2. jobs' \in [Event -> Job]
      BY <1>2, <2>1 DEF Job
    <2> QED
      BY <1>1, <2>1, <2>2, RunNext, OthersKept
  <1>4. CASE ~jobs[e].cyclic
    <2>1. /\ jobs' = [jobs EXCEPT ![e].status = "running"]
          /\ run' = [event |-> e, rows |-> RowsToPrice(jobs[e].keys)]
      BY <1>4 DEF StartRecalculation
    <2>2. jobs' \in [Event -> Job] /\ jobs'[e].keys = jobs[e].keys
      BY <1>2, <2>1 DEF Job
    <2>3. run' \in [event : Event, rows : SUBSET DOMAIN ledger]
      BY <2>1 DEF RowsToPrice
    <2>4. AtItsPlace(ledger', run'.rows, jobs'[run'.event].keys)
      BY <1>1, <2>1, <2>2 DEF AtItsPlace, RowsToPrice
    <2>5. RunFollows'
      BY <1>1, <2>4, RunNext
    <2> QED
      BY <1>1, <2>2, <2>3, <2>5, OthersKept
  <1> QED
    BY <1>3, <1>4

\* No job.
LEMMA NothingToRecalculateKeeps ==
    ASSUME InventoryInv, NothingToRecalculate
    PROVE  InventoryInv'
  <1>1. /\ UNCHANGED <<fact, queue, batch, task, ledger, balance, valuation, state, jobs, run>>
        /\ batch' \subseteq Event
    BY DEF NothingToRecalculate, stock, InventoryInv, InventoryTypeOK
  <1>2. RunFollows'
    BY <1>1, RunNext DEF InventoryInv, RunFollows
  <1> QED
    BY <1>1, <1>2, OthersKept DEF InventoryInv, InventoryTypeOK

\* The price a row gets.
LEMMA RecalculatedIsRepriced ==
    ASSUME ledger \in Seq(LedgerRow), NEW i \in DOMAIN ledger, NEW others,
           others = [ledger EXCEPT ![i] = Recalculated(i)]
    PROVE  IsRepriced(ledger, others, i)
  <1> DEFINE row == ledger[i]
             new == Recalculated(i)
             receipt == i \in ReceiptsIn(ledger, row.key)
  <1>1. row \in LedgerRow /\ row.cost \in Nat
    BY RowColumns
  <1>2. receipt <=> row.movement = "IN" /\ row.cost > 0
    BY DEF ReceiptsIn
  <1>3. Priced(i) = PricedRows(ledger, i)
    BY DEF Priced, PricedRows, Receipts, ReceiptsIn
  <1>4. /\ new \in LedgerRow /\ new.event = row.event /\ new.source = row.source
        /\ new.key = row.key /\ new.movement = row.movement
        /\ new.quantity = row.quantity /\ new.at = row.at
        /\ \/ receipt /\ new.cost = row.cost
           \/ ~receipt /\ PricedRows(ledger, i) = {} /\ new.costing = "needs_recalculation"
           \/ /\ ~receipt /\ PricedRows(ledger, i) # {}
              /\ new.cost = ledger[Latest(ledger, PricedRows(ledger, i))].cost
    <2>1. {"recalculated", "needs_recalculation"} \subseteq Costing /\ 0 \in Nat
      BY DEF Costing
    <2>2. CASE receipt
      <3>1. new = [row EXCEPT !.costing = "recalculated"]
        BY <1>2, <2>2 DEF Recalculated
      <3> HIDE DEF new, row, receipt
      <3> QED
        BY <1>1, <2>1, <2>2, <3>1, RowMarked
    <2>3. CASE ~receipt /\ PricedRows(ledger, i) = {}
      <3>1. new = [row EXCEPT !.cost = 0, !.costing = "needs_recalculation"]
        BY <1>2, <1>3, <2>3 DEF Recalculated
      <3>2. 0 \in Nat /\ "needs_recalculation" \in Costing
        BY <2>1
      <3> HIDE DEF new, row, receipt
      <3>3. /\ new \in LedgerRow /\ new.event = row.event /\ new.source = row.source
            /\ new.key = row.key /\ new.movement = row.movement
            /\ new.quantity = row.quantity /\ new.at = row.at
            /\ new.costing = "needs_recalculation"
        BY <1>1, <3>1, <3>2 DEF LedgerRow
      <3> QED
        BY <2>3, <3>3
    <2>4. CASE ~receipt /\ PricedRows(ledger, i) # {}
      <3> DEFINE basis == ledger[Latest(ledger, PricedRows(ledger, i))].cost
      <3>1. new = [row EXCEPT !.cost = basis, !.costing = "recalculated"]
        BY <1>2, <1>3, <2>4 DEF Recalculated, CostBasis
      <3>2. PricedRows(ledger, i) \in SUBSET DOMAIN ledger
        BY DEF PricedRows, ReceiptsIn
      <3>3. basis \in Nat
        BY <2>4, <3>2, LatestIsLatest, RowColumns
      <3>4. "recalculated" \in Costing
        BY <2>1
      <3> HIDE DEF new, row, receipt, basis
      <3>5. /\ new \in LedgerRow /\ new.event = row.event /\ new.source = row.source
            /\ new.key = row.key /\ new.movement = row.movement
            /\ new.quantity = row.quantity /\ new.at = row.at /\ new.cost = basis
        BY <1>1, <3>1, <3>3, <3>4 DEF LedgerRow
      <3> QED
        BY <2>4, <3>5 DEF basis
    <2> QED
      BY <2>2, <2>3, <2>4
  <1> HIDE DEF new
  <1>5. /\ others \in Seq(LedgerRow) /\ DOMAIN others = DOMAIN ledger /\ others[i] = new
        /\ \A j \in DOMAIN ledger : j # i => others[j] = ledger[j]
    <2>1. others = [ledger EXCEPT ![i] = new]
      BY DEF new
    <2> QED
      BY <1>4, <2>1
  <1> HIDE DEF receipt
  <1>6. \A j \in DOMAIN ledger : /\ others[j].event = ledger[j].event
                                 /\ others[j].source = ledger[j].source
                                 /\ others[j].key = ledger[j].key
                                 /\ others[j].movement = ledger[j].movement
                                 /\ others[j].quantity = ledger[j].quantity
                                 /\ others[j].at = ledger[j].at
    BY <1>4, <1>5
  <1> QED
    BY <1>4, <1>5, <1>6 DEF IsRepriced, receipt

\* A row that is priced again.
LEMMA RecalculateRowKeeps ==
    ASSUME InventoryInv, RecalculateRow
    PROVE  InventoryInv'
  <1>1. UNCHANGED <<fact, queue, batch, task, balance, state, jobs>>
    BY DEF RecalculateRow
  <1>2. PICK i \in run.rows :
           /\ \A j \in run.rows : ~Before(ledger, j, i)
           /\ ledger' = [ledger EXCEPT ![i] = Recalculated(i)]
           /\ RefreshStockBalanceCosting(ledger', {ledger[i].key})
           /\ run' = [run EXCEPT !.rows = @ \ {i}]
    BY DEF RecalculateRow
  <1>3. InventoryTypeOK /\ run # NoRun
    BY <1>2 DEF InventoryInv, NoRun
  <1>4. /\ run \in [event : Event, rows : SUBSET DOMAIN ledger] /\ i \in DOMAIN ledger
        /\ ledger \in Seq(LedgerRow) /\ batch = {} /\ task = NoTask
        /\ AtItsPlace(ledger, run.rows, jobs[run.event].keys)
    BY <1>2, <1>3 DEF InventoryTypeOK, InventoryInv, RunFollows
  <1>5. IsRepriced(ledger, ledger', i)
    BY <1>2, <1>4, RecalculatedIsRepriced
  <1>6. /\ ledger' \in Seq(LedgerRow) /\ DOMAIN ledger' = DOMAIN ledger
        /\ \A j \in DOMAIN ledger : /\ j # i => ledger'[j] = ledger[j]
                                    /\ ledger'[j].event = ledger[j].event
                                    /\ ledger'[j].source = ledger[j].source
                                    /\ ledger'[j].key = ledger[j].key
                                    /\ ledger'[j].movement = ledger[j].movement
                                    /\ ledger'[j].quantity = ledger[j].quantity
    BY <1>5 DEF IsRepriced
  <1>7. /\ \A k \in {ledger[i].key} : RowsOfKey(ledger, k) # {}
        /\ \A j \in DOMAIN ledger :
              ledger[j].key \notin {ledger[i].key} => ledger'[j].costing = ledger[j].costing
    BY <1>4, <1>6 DEF RowsOfKey
  <1>8. /\ SourcesFit(ledger', fact) /\ valuation' \in [Key -> {"none"} \cup Costing]
        /\ BalancesTellTheLedger' /\ StockFollows'
    BY <1>1, <1>2, <1>6, <1>7, CostsKeep
  <1>9. /\ run' \in [event : Event, rows : SUBSET DOMAIN ledger]
        /\ run'.event = run.event /\ run'.rows = run.rows \ {i}
    BY <1>2, <1>4
  <1>10. InventoryTypeOK'
    BY <1>1, <1>3, <1>4, <1>6, <1>8, <1>9, TypesNext DEF InventoryTypeOK
  <1>11. AtItsPlace(ledger', run.rows \ {i}, jobs[run.event].keys)
    BY <1>2, <1>4, <1>5, RepricedInOrder
  <1>12. RunFollows'
    BY <1>1, <1>4, <1>9, <1>11, RunNext
  <1>13. TaskFollows'
    BY <1>1, <1>4, NoTaskFollows
  <1> QED
    BY <1>8, <1>10, <1>12, <1>13 DEF InventoryInv

\* A job that is completed.
LEMMA CompleteRecalculationKeeps ==
    ASSUME InventoryInv, CompleteRecalculation
    PROVE  InventoryInv'
  <1>1. /\ UNCHANGED <<fact, queue, batch, task, ledger, balance, valuation, state>>
        /\ run # NoRun /\ run' = NoRun
        /\ jobs' = [jobs EXCEPT ![run.event].status = "completed"]
    BY DEF CompleteRecalculation
  <1>2. run.event \in Event /\ jobs \in [Event -> Job] /\ batch' \subseteq Event
    BY <1>1 DEF InventoryInv, InventoryTypeOK
  <1>3. jobs' \in [Event -> Job]
    BY <1>1, <1>2 DEF Job
  <1> QED
    BY <1>1, <1>2, <1>3, RunNext, OthersKept

\* And one that is failed.
LEMMA FailRecalculationKeeps ==
    ASSUME InventoryInv, FailRecalculation
    PROVE  InventoryInv'
  <1>1. /\ UNCHANGED <<fact, queue, batch, task, ledger, balance, valuation, state>>
        /\ run # NoRun /\ run' = NoRun
        /\ jobs' = [jobs EXCEPT ![run.event].status = "failed"]
    BY DEF FailRecalculation, NoRun
  <1>2. run.event \in Event /\ jobs \in [Event -> Job] /\ batch' \subseteq Event
    BY <1>1 DEF InventoryInv, InventoryTypeOK
  <1>3. jobs' \in [Event -> Job]
    BY <1>1, <1>2 DEF Job
  <1> QED
    BY <1>1, <1>2, <1>3, RunNext, OthersKept

\* The process that stops.
LEMMA StopKeeps ==
    ASSUME InventoryInv, Stop
    PROVE  InventoryInv'
  <1>1. /\ UNCHANGED <<fact, queue, ledger, balance, valuation, state, jobs>>
        /\ batch' = {} /\ task' = NoTask /\ run' = NoRun
    BY DEF Stop, stock
  <1> QED
    BY <1>1, RunNext, OthersKept DEF InventoryInv, InventoryTypeOK

-----------------------------------------------------------------------------
(* Inventory: the theorem.                                                 *)

\* Nothing is written, in hand or priced at the start.
LEMMA InventoryStarts == ASSUME InventoryInit PROVE InventoryInv
  <1>1. /\ fact \in [Event -> Fact]
        /\ queue = [e \in Event |-> "none"] /\ batch = {} /\ task = NoTask /\ run = NoRun
        /\ ledger = <<>> /\ balance = [k \in Key |-> 0] /\ valuation = [k \in Key |-> "none"]
        /\ state = [e \in Event |-> "none"] /\ jobs = [e \in Event |-> NoJob]
    BY CloudInventoryAssumption DEF InventoryInit
  <1>2. DOMAIN ledger = {} /\ ledger \in Seq(LedgerRow)
    BY <1>1
  <1>3. InventoryTypeOK
    <2>1. NoJob \in Job
      BY DEF NoJob, Job
    <2> QED
      BY <1>1, <1>2, <2>1 DEF InventoryTypeOK, SourcesFit
  <1>4. \A k \in Key : SumsUp(ledger, balance[k], k) /\ Shows(ledger, valuation[k], k)
    <2> TAKE k \in Key
    <2>1. balance[k] = 0 /\ valuation[k] = "none"
      BY <1>1
    <2>2. Moving(ledger, k, "IN") = {} /\ Moving(ledger, k, "OUT") = {} /\ RowsOfKey(ledger, k) = {}
      BY <1>2 DEF Moving, RowsOfKey
    <2>3. SumOf(ledger, {}) = 0
      BY SumOfNone
    <2> QED
      BY <2>1, <2>2, <2>3 DEF SumsUp, Shows
  <1>5. StockFollows
    <2> SUFFICES ASSUME NEW e \in Event PROVE RowsFollow(e)
      BY DEF StockFollows
    <2>1. Written(ledger, e) = {} /\ state[e] = "none" /\ queue[e] = "none"
      BY <1>1, <1>2 DEF Written
    <2> QED
      BY <2>1 DEF RowsFollow
  <1>6. TaskFollows /\ RunFollows
    BY <1>1 DEF TaskFollows, RunFollows
  <1> QED
    BY <1>3, <1>4, <1>5, <1>6, BalancesTell DEF InventoryInv

\* What no step of the inventory touches.
LEMMA InventoryUntouched ==
    ASSUME InventoryInv, UNCHANGED inventoryVars
    PROVE  InventoryInv'
  <1>1. /\ UNCHANGED <<fact, queue, ledger, balance, valuation, state, batch, task, jobs, run>>
        /\ InventoryTypeOK
    BY DEF inventoryVars, InventoryInv
  <1>2. RunFollows'
    BY <1>1, RunNext DEF InventoryInv, RunFollows
  <1> QED
    BY <1>1, <1>2, OthersKept DEF InventoryTypeOK

\* Every step of the inventory keeps the invariant.
LEMMA InventoryStep ==
    ASSUME InventoryInv, InventoryNext
    PROVE  InventoryInv'
  <1>1. batch \subseteq Event
    BY DEF InventoryInv, InventoryTypeOK
  <1>2. CASE \E e \in Event : Receive(e)
    BY <1>2, ReceiveKeeps
  <1>3. CASE \E e \in batch : Prepare(e) \/ RefuseHopeless(e) \/ FailToPrepare(e)
    BY <1>1, <1>3, PrepareKeeps, FailDocumentKeeps, PostponeKeeps DEF RefuseHopeless, FailToPrepare
  <1>4. CASE ClaimPending \/ CreateStockDocument \/ CreateRecalculationJob \/ MarkProcessed
    BY <1>4, ClaimKeeps, CreateStockDocumentKeeps, CreateRecalculationJobKeeps, MarkProcessedKeeps
  <1>5. CASE (\E e \in Event : StartRecalculation(e)) \/ NothingToRecalculate \/ RecalculateRow
             \/ CompleteRecalculation
    BY <1>5, StartRecalculationKeeps, NothingToRecalculateKeeps, RecalculateRowKeeps,
       CompleteRecalculationKeeps
  <1>6. CASE FailToWrite \/ LoseAnswer \/ FailRecalculation \/ Stop
    BY <1>6, FailToWriteKeeps, LoseAnswerKeeps, FailRecalculationKeeps, StopKeeps
  <1> QED
    BY <1>2, <1>3, <1>4, <1>5, <1>6 DEF InventoryNext, Work, Trouble

\* What the rows say of documents is what the invariant says of them.
LEMMA StockMovesOnceAtMost == ASSUME InventoryInv PROVE DocumentsMoveStockOnce
  <1> SUFFICES ASSUME NEW e \in Event, SaysItself(e)
               PROVE  /\ MovedBy(e) \in {0, Said(e)}
                      /\ state[e] = "failed" => MovedBy(e) = 0
                      /\ queue[e] = "processed" /\ Relevant(e) /\ state[e] # "failed" =>
                            MovedBy(e) = Said(e)
    BY DEF DocumentsMoveStockOnce
  <1>1. RowsFollow(e)
    BY DEF InventoryInv, StockFollows
  <1>2. CASE Written(ledger, e) = {}
    BY <1>1, <1>2, NothingWritten DEF RowsFollow, Whole
  <1>3. CASE Written(ledger, e) # {}
    BY <1>1, <1>3 DEF RowsFollow, Whole
  <1> QED
    BY <1>2, <1>3

\* A job that is completed has nothing left, and so its rows are priced.
LEMMA CompletedJobsPrice ==
    ASSUME InventoryInv, InventoryNext \/ UNCHANGED inventoryVars
    PROVE  CompletedJobsPriceTheirRows
  <1> SUFFICES ASSUME NEW e \in Event, Completes(e), NEW k \in jobs[e].keys,
                      NEW i \in DOMAIN ledger, ledger[i].key = k, i \notin Receipts(k)
               PROVE  PricedAsBefore(i)
    BY DEF CompletedJobsPriceTheirRows
  <1>1. jobs \in [Event -> Job] /\ jobs[e].status = "running" /\ jobs'[e].status = "completed"
    BY DEF Completes, InventoryInv, InventoryTypeOK
  <1>2. CompleteRecalculation
    <2>1. ASSUME UNCHANGED jobs PROVE FALSE
      BY <1>1, <2>1
    <2>2. ASSUME CreateRecalculationJob PROVE FALSE
      <3>1. PICK f, keys, cyclic :
               \/ UNCHANGED jobs
               \/ jobs' = [jobs EXCEPT ![f] = [status |-> "queued", keys |-> keys, cyclic |-> cyclic]]
        BY <2>2 DEF CreateRecalculationJob
      <3>2. CASE jobs' = jobs
        BY <1>1, <3>2
      <3>3. CASE jobs' = [jobs EXCEPT ![f] =
                            [status |-> "queued", keys |-> keys, cyclic |-> cyclic]]
        <4>1. jobs'[e] \in {jobs[e], [status |-> "queued", keys |-> keys, cyclic |-> cyclic]}
          BY <1>1, <3>3
        <4> QED
          BY <1>1, <4>1
      <3> QED
        BY <3>1, <3>2, <3>3
    <2>3. ASSUME NEW f \in Event, StartRecalculation(f) PROVE FALSE
      <3>1. \/ jobs' = [jobs EXCEPT ![f].status = "failed"]
            \/ jobs' = [jobs EXCEPT ![f].status = "running"]
        BY <2>3 DEF StartRecalculation
      <3>2. jobs'[e] = jobs[e] \/ jobs'[e].status \in {"failed", "running"}
        BY <1>1, <3>1 DEF Job
      <3> QED
        BY <1>1, <3>2
    <2>4. ASSUME FailRecalculation PROVE FALSE
      BY <1>1, <2>4 DEF FailRecalculation
    <2>5. ASSUME NEW f, Receive(f) \/ Prepare(f) \/ RefuseHopeless(f) \/ FailToPrepare(f)
          PROVE  FALSE
      BY <2>1, <2>5 DEF Receive, Prepare, RefuseHopeless, FailToPrepare, FailDocument,
         Postpone, stock
    <2>6. ASSUME \/ ClaimPending \/ CreateStockDocument \/ MarkProcessed \/ NothingToRecalculate
                 \/ RecalculateRow \/ FailToWrite \/ LoseAnswer \/ Stop
          PROVE  FALSE
      BY <2>1, <2>6 DEF ClaimPending, CreateStockDocument, MarkProcessed, NothingToRecalculate,
         RecalculateRow, FailToWrite, LoseAnswer, MarkFailed, Stop, stock
    <2>7. ASSUME UNCHANGED inventoryVars PROVE FALSE
      BY <2>1, <2>7 DEF inventoryVars
    <2> QED
      BY <2>2, <2>3, <2>4, <2>5, <2>6, <2>7 DEF InventoryNext, Work, Trouble
  <1>3. e = run.event /\ run # NoRun /\ run.rows = {}
    BY <1>1, <1>2 DEF CompleteRecalculation
  <1>4. AtItsPlace(ledger, {}, jobs[e].keys)
    BY <1>3 DEF InventoryInv, RunFollows
  <1>5. IsPriced(ledger, i)
    BY <1>4 DEF AtItsPlace
  <1>6. Receipts(k) = ReceiptsIn(ledger, ledger[i].key)
    BY DEF Receipts, ReceiptsIn
  <1> QED
    BY <1>5, <1>6 DEF IsPriced, Unpriceable, PricedBy, PricedAsBefore

\* Whatever fails, comes late or stops half way, what documents and operations say moves
\* stock once, the balances are the sums of the rows and are shown as priced only if all
\* of their rows are, and a completed job leaves its rows at the cost of the last priced
\* receipt before them (CreateStockDocument, CreateRecalculationJob and RecalculateRow of
\* the inventory worker).
THEOREM StockIsAlwaysAccounted == Spec => StockIsAccounted
  <1>1. Init => InventoryInv
    BY InventoryStarts DEF Init
  <1>2. InventoryInv /\ [Next]_vars => InventoryInv' /\ [CompletedJobsPriceTheirRows]_inventoryVars
    <2> SUFFICES ASSUME InventoryInv, [Next]_vars
                 PROVE  InventoryInv' /\ [CompletedJobsPriceTheirRows]_inventoryVars
      OBVIOUS
    <2>1. InventoryNext \/ UNCHANGED inventoryVars
      BY DEF Next, InInventory, InOlap, vars
    <2>2. InventoryInv'
      BY <2>1, InventoryStep, InventoryUntouched
    <2>3. CompletedJobsPriceTheirRows
      BY <2>1, CompletedJobsPrice
    <2> QED
      BY <2>2, <2>3
  <1>3. InventoryInv => DocumentsMoveStockOnce /\ BalancesTellTheLedger
    BY StockMovesOnceAtMost DEF InventoryInv
  <1> QED
    BY <1>1, <1>2, <1>3, PTL DEF Spec, StockIsAccounted

-----------------------------------------------------------------------------
(* Inventory: the rows of a line.                                          *)

\* The rows of a line, what was served of it, and whether an event wrote a document.
OfLine(rows, l, origin, movement) ==
    {i \in DOMAIN rows : /\ rows[i].line = l /\ rows[i].source = origin
                         /\ rows[i].movement = movement}
ServedIn(rows, l) ==
    SumOf(rows, OfLine(rows, l, "ItemServed", "OUT"))
    - SumOf(rows, OfLine(rows, l, "ItemServedCompensation", "IN"))
Wrote(rows, e, origin) == \E i \in DOMAIN rows : rows[i].event = e /\ rows[i].source = origin
TookFirst(rows, e) ==
    \E i, j \in DOMAIN rows :
        /\ j < i /\ rows[i].event = e /\ rows[j].event = e
        /\ rows[j].source = "ItemServed" /\ rows[i].source = "ItemServedCompensation"

\* A serve of a quantity that has nothing left to write.
Done(rows, l, e, quantity) ==
    /\ Wrote(rows, e, "ItemServed")
    /\ ServedIn(rows, l) = quantity \/ TookFirst(rows, e)

\* A document of one row.
Single(rows, l, e, origin, movement, quantity) ==
    /\ Len(rows) = 1
    /\ rows[1].event = e /\ rows[1].source = origin /\ rows[1].line = l
    /\ rows[1].movement = movement /\ rows[1].quantity = quantity
Taking(rows, l, e, quantity) == Single(rows, l, e, "ItemServed", "OUT", quantity)
Giving(rows, l, e, quantity) == Single(rows, l, e, "ItemServedCompensation", "IN", quantity)

\* The documents a serve of a quantity has in hand: what it found goes back, what it says
\* goes out, and what it wrote before it was tried again is not written again.
TakesOnly(rows, l, e, quantity, documents) ==
    /\ Len(documents) = 1 /\ Taking(documents[1], l, e, quantity)
    /\ \/ ServedIn(rows, l) = 0 /\ (~Wrote(rows, e, "ItemServed") \/ TookFirst(rows, e))
       \/ /\ ServedIn(rows, l) = quantity /\ Wrote(rows, e, "ItemServed")
          /\ Wrote(rows, e, "ItemServedCompensation")
GivesAndTakes(rows, l, e, quantity, prior, documents) ==
    /\ prior # "none" /\ Len(documents) = 2
    /\ Giving(documents[1], l, e, ServedIn(rows, l)) /\ Taking(documents[2], l, e, quantity)
    /\ \/ ~Wrote(rows, e, "ItemServedCompensation") /\ ~Wrote(rows, e, "ItemServed")
       \/ ServedIn(rows, l) = quantity /\ Wrote(rows, e, "ItemServed")
InHandOf(rows, l, e, quantity, prior, documents) ==
    \/ TakesOnly(rows, l, e, quantity, documents)
    \/ GivesAndTakes(rows, l, e, quantity, prior, documents)

\* What the rows say of the serve of a line that wrote last, which supersedes none if it is
\* the first.
Stands(rows, l, e, quantity, prior) ==
    /\ Wrote(rows, e, "ItemServed") => Done(rows, l, e, quantity)
    /\ Wrote(rows, e, "ItemServedCompensation") /\ ~Wrote(rows, e, "ItemServed") =>
          ServedIn(rows, l) = 0
    /\ TookFirst(rows, e) => ServedIn(rows, l) = 0
    /\ prior = "none" /\ ~Wrote(rows, e, "ItemServed") => ServedIn(rows, l) = 0

\* The rows of a line with a document more.
LEMMA OfLineAppended ==
    ASSUME NEW rows \in Seq(LedgerRow), NEW more \in Seq(LedgerRow), NEW l, NEW origin,
           NEW movement
    PROVE  /\ OfLine(rows \o more, l, origin, movement) =
                 OfLine(rows, l, origin, movement)
                 \cup Shifted(Len(rows), OfLine(more, l, origin, movement))
           /\ SumOf(rows \o more, OfLine(rows \o more, l, origin, movement)) =
                 SumOf(rows, OfLine(rows, l, origin, movement))
                 + SumOf(more, OfLine(more, l, origin, movement))
           /\ SumOf(rows, OfLine(rows, l, origin, movement)) \in Nat
           /\ SumOf(more, OfLine(more, l, origin, movement)) \in Nat
  <1> DEFINE all == rows \o more
             n == Len(rows)
             S == OfLine(rows, l, origin, movement)
             T == OfLine(more, l, origin, movement)
  <1>1. /\ DOMAIN rows \subseteq DOMAIN all
        /\ \A i \in DOMAIN rows : all[i] = rows[i]
        /\ \A j \in DOMAIN more : n + j \in DOMAIN all /\ all[n + j] = more[j]
        /\ \A i \in DOMAIN all : i \in DOMAIN rows \/ \E j \in DOMAIN more : i = n + j
    BY Appended
  <1>2. OfLine(all, l, origin, movement) = S \cup Shifted(n, T)
    <2> HIDE DEF all, n
    <2> QED
      BY <1>1 DEF OfLine, Shifted
  <1>3. S \in SUBSET DOMAIN rows /\ T \in SUBSET DOMAIN more
    BY DEF OfLine
  <1> HIDE DEF S, T
  <1>4. SumOf(rows \o more, S \cup Shifted(Len(rows), T)) = SumOf(rows, S) + SumOf(more, T)
    BY <1>3, SumOfAppended
  <1>5. SumOf(rows, S) \in Nat /\ SumOf(more, T) \in Nat
    BY <1>3, SumOfRows
  <1> QED
    BY <1>2, <1>4, <1>5 DEF S, T

\* What was served with a document more.
LEMMA ServedAppended ==
    ASSUME NEW rows \in Seq(LedgerRow), NEW more \in Seq(LedgerRow), NEW l
    PROVE  /\ ServedIn(rows \o more, l) = ServedIn(rows, l) + ServedIn(more, l)
           /\ ServedIn(rows, l) \in Int /\ ServedIn(more, l) \in Int
  <1> DEFINE Out(r) == SumOf(r, OfLine(r, l, "ItemServed", "OUT"))
             In(r) == SumOf(r, OfLine(r, l, "ItemServedCompensation", "IN"))
  <1>1. Out(rows \o more) = Out(rows) + Out(more) /\ Out(rows) \in Nat /\ Out(more) \in Nat
    BY OfLineAppended
  <1>2. In(rows \o more) = In(rows) + In(more) /\ In(rows) \in Nat /\ In(more) \in Nat
    BY OfLineAppended
  <1>3. \A r : ServedIn(r, l) = Out(r) - In(r)
    BY DEF ServedIn
  <1> HIDE DEF Out, In
  <1>4. PICK a \in Nat, b \in Nat, c \in Nat, d \in Nat :
           /\ Out(rows) = a /\ Out(more) = b /\ Out(rows \o more) = a + b
           /\ In(rows) = c /\ In(more) = d /\ In(rows \o more) = c + d
    BY <1>1, <1>2
  <1>5. /\ ServedIn(rows \o more, l) = (a + b) - (c + d)
        /\ ServedIn(rows, l) = a - c /\ ServedIn(more, l) = b - d
    BY <1>3, <1>4
  <1> QED
    BY <1>5

\* A document of one row has one row.
LEMMA OneRowSum ==
    ASSUME NEW rows \in Seq(LedgerRow), Len(rows) = 1
    PROVE  SumOf(rows, {1}) = rows[1].quantity /\ DOMAIN rows = {1}
  <1> DEFINE f == [i \in DOMAIN rows |-> rows[i].quantity]
  <1>1. DOMAIN rows = {1} /\ rows[1].quantity \in Nat
    <2>1. DOMAIN rows = 1..1 /\ 1..1 = {1}
      OBVIOUS
    <2> QED
      BY <2>1, RowColumns
  <1>2. f[1] = rows[1].quantity
    BY <1>1
  <1> HIDE DEF f
  <1>3. SumFunctionOnSet(f, {} \cup {1}) = SumFunctionOnSet(f, {}) + f[1]
    <2>1. IsFiniteSet({}) /\ 1 \notin {} /\ \A y \in {} \cup {1} : f[y] \in Int
      BY <1>1, <1>2, FS_EmptySet
    <2> QED
      BY <2>1, SumOfMore
  <1>4. SumFunctionOnSet(f, {}) = 0
    BY SumIsOfTaken, FS_EmptySet
  <1>5. SumFunctionOnSet(f, {1}) = f[1]
    <2>1. {} \cup {1} = {1} /\ f[1] \in Nat
      BY <1>1, <1>2
    <2> QED
      BY <1>3, <1>4, <2>1
  <1> QED
    BY <1>1, <1>2, <1>5 DEF SumOf, f

\* What one row takes or gives back.
LEMMA ServedInSingle ==
    ASSUME NEW rows \in Seq(LedgerRow), NEW l, NEW e, NEW quantity
    PROVE  /\ Taking(rows, l, e, quantity) => ServedIn(rows, l) = quantity /\ quantity \in Nat
           /\ Giving(rows, l, e, quantity) => ServedIn(rows, l) = -quantity /\ quantity \in Nat
  <1>1. ASSUME NEW origin, NEW movement, Single(rows, l, e, origin, movement, quantity)
        PROVE  SumOf(rows, {1}) = quantity /\ DOMAIN rows = {1} /\ quantity \in Nat
    <2>1. Len(rows) = 1 /\ rows[1].quantity = quantity
      BY <1>1 DEF Single
    <2> QED
      BY <2>1, OneRowSum, RowColumns
  <1>2. SumOf(rows, {}) = 0
    BY SumOfNone
  <1>3. ASSUME Taking(rows, l, e, quantity)
        PROVE  ServedIn(rows, l) = quantity /\ quantity \in Nat
    <2>1. /\ SumOf(rows, {1}) = quantity /\ DOMAIN rows = {1} /\ quantity \in Nat
          /\ rows[1].source = "ItemServed" /\ rows[1].line = l /\ rows[1].movement = "OUT"
      BY <1>1, <1>3 DEF Taking, Single
    <2>2. OfLine(rows, l, "ItemServed", "OUT") = {1}
      BY <2>1 DEF OfLine
    <2>3. OfLine(rows, l, "ItemServedCompensation", "IN") = {}
      BY <2>1 DEF OfLine
    <2>4. ServedIn(rows, l) = SumOf(rows, {1}) - SumOf(rows, {})
      BY <2>2, <2>3 DEF ServedIn
    <2>5. ServedIn(rows, l) = quantity - 0
      BY <1>2, <2>1, <2>4
    <2> QED
      BY <2>1, <2>5
  <1>4. ASSUME Giving(rows, l, e, quantity)
        PROVE  ServedIn(rows, l) = -quantity /\ quantity \in Nat
    <2>1. /\ SumOf(rows, {1}) = quantity /\ DOMAIN rows = {1} /\ quantity \in Nat
          /\ rows[1].source = "ItemServedCompensation" /\ rows[1].line = l
          /\ rows[1].movement = "IN"
      BY <1>1, <1>4 DEF Giving, Single
    <2>2. OfLine(rows, l, "ItemServed", "OUT") = {}
      BY <2>1 DEF OfLine
    <2>3. OfLine(rows, l, "ItemServedCompensation", "IN") = {1}
      BY <2>1 DEF OfLine
    <2>4. ServedIn(rows, l) = SumOf(rows, {}) - SumOf(rows, {1})
      BY <2>2, <2>3 DEF ServedIn
    <2>5. ServedIn(rows, l) = 0 - quantity
      BY <1>2, <2>1, <2>4
    <2> QED
      BY <2>1, <2>5
  <1> QED
    BY <1>3, <1>4

\* What an event wrote with a document more.
LEMMA WroteAppended ==
    ASSUME NEW rows \in Seq(LedgerRow), NEW more \in Seq(LedgerRow), NEW e, NEW origin
    PROVE  Wrote(rows \o more, e, origin) <=> Wrote(rows, e, origin) \/ Wrote(more, e, origin)
  <1> DEFINE all == rows \o more
             n == Len(rows)
  <1>1. /\ DOMAIN rows \subseteq DOMAIN all
        /\ \A i \in DOMAIN rows : all[i] = rows[i]
        /\ \A j \in DOMAIN more : n + j \in DOMAIN all /\ all[n + j] = more[j]
        /\ \A i \in DOMAIN all : i \in DOMAIN rows \/ \E j \in DOMAIN more : i = n + j
    BY Appended
  <1> HIDE DEF all, n
  <1>2. Wrote(all, e, origin) <=> Wrote(rows, e, origin) \/ Wrote(more, e, origin)
    BY <1>1 DEF Wrote
  <1> QED
    BY <1>2 DEF all

\* An event has taken before it gives back if it gives back after it has taken.
LEMMA TookFirstAppended ==
    ASSUME NEW rows \in Seq(LedgerRow), NEW more \in Seq(LedgerRow), NEW l, NEW e, NEW origin,
           NEW movement, NEW quantity, Single(more, l, e, origin, movement, quantity)
    PROVE  /\ TookFirst(rows \o more, e) <=>
                 \/ TookFirst(rows, e)
                 \/ origin = "ItemServedCompensation" /\ Wrote(rows, e, "ItemServed")
           /\ Wrote(rows \o more, e, origin)
           /\ \A other : other # origin =>
                 (Wrote(rows \o more, e, other) <=> Wrote(rows, e, other))
           /\ Len(rows \o more) = Len(rows) + 1 /\ Len(rows) \in Nat
  <1> DEFINE all == rows \o more
             n == Len(rows)
  <1>1. n \in Nat /\ Len(all) = n + 1 /\ DOMAIN rows = 1..n /\ DOMAIN all = 1..(n + 1)
    <2>1. Len(more) = 1
      BY DEF Single
    <2>2. n \in Nat /\ DOMAIN rows = 1..n /\ all \in Seq(LedgerRow) /\ Len(all) = n + Len(more)
      OBVIOUS
    <2> HIDE DEF all, n
    <2> QED
      BY <2>1, <2>2
  <1>2. all[n + 1] = more[1] /\ \A i \in 1..n : all[i] = rows[i]
    <2>1. 1 \in DOMAIN more
      BY DEF Single
    <2> QED
      BY <1>1, <2>1, Appended
  <1>3. more[1].event = e /\ more[1].source = origin
    BY DEF Single
  <1> HIDE DEF all, n
  <1>4. ASSUME TookFirst(all, e)
        PROVE  TookFirst(rows, e) \/ (origin = "ItemServedCompensation" /\ Wrote(rows, e, "ItemServed"))
    <2>1. PICK i \in 1..(n + 1), j \in 1..(n + 1) :
             /\ j < i /\ all[i].event = e /\ all[j].event = e
             /\ all[j].source = "ItemServed" /\ all[i].source = "ItemServedCompensation"
      BY <1>1, <1>4 DEF TookFirst
    <2>2. j \in 1..n /\ all[j] = rows[j]
      BY <1>1, <1>2, <2>1
    <2>3. CASE i = n + 1
      BY <1>1, <1>2, <1>3, <2>1, <2>2, <2>3 DEF Wrote
    <2>4. CASE i \in 1..n
      BY <1>1, <1>2, <2>1, <2>2, <2>4 DEF TookFirst
    <2> QED
      BY <1>1, <2>1, <2>3, <2>4
  <1>5. ASSUME TookFirst(rows, e) PROVE TookFirst(all, e)
    <2>1. PICK i \in 1..n, j \in 1..n :
             /\ j < i /\ rows[i].event = e /\ rows[j].event = e
             /\ rows[j].source = "ItemServed" /\ rows[i].source = "ItemServedCompensation"
      BY <1>1, <1>5 DEF TookFirst
    <2>2. i \in 1..(n + 1) /\ j \in 1..(n + 1) /\ all[i] = rows[i] /\ all[j] = rows[j]
      BY <1>1, <1>2
    <2> QED
      BY <1>1, <2>1, <2>2 DEF TookFirst
  <1>6. ASSUME origin = "ItemServedCompensation", Wrote(rows, e, "ItemServed")
        PROVE  TookFirst(all, e)
    <2>1. PICK j \in 1..n : rows[j].event = e /\ rows[j].source = "ItemServed"
      BY <1>1, <1>6 DEF Wrote
    <2>2. j \in 1..(n + 1) /\ n + 1 \in 1..(n + 1) /\ j < n + 1 /\ all[j] = rows[j]
      BY <1>1, <1>2
    <2> QED
      BY <1>1, <1>2, <1>3, <1>6, <2>1, <2>2 DEF TookFirst
  <1>7. Wrote(more, e, origin) /\ \A other : other # origin => ~Wrote(more, e, other)
    <2>1. DOMAIN more = {1}
      BY OneRowSum DEF Single
    <2> QED
      BY <1>3, <2>1 DEF Wrote
  <1> QED
    BY <1>1, <1>4, <1>5, <1>6, <1>7, WroteAppended DEF all, n

\* What took before it gave back wrote both.
LEMMA TookFirstWrote ==
    ASSUME NEW rows, NEW e, TookFirst(rows, e)
    PROVE  Wrote(rows, e, "ItemServed") /\ Wrote(rows, e, "ItemServedCompensation")
  BY DEF TookFirst, Wrote

\* A row of what goes back: nothing is left as served.
LEMMA GivenBack ==
    ASSUME NEW rows \in Seq(LedgerRow), NEW more \in Seq(LedgerRow), NEW l, NEW e,
           Giving(more, l, e, ServedIn(rows, l))
    PROVE  /\ ServedIn(rows \o more, l) = 0
           /\ Wrote(rows \o more, e, "ItemServedCompensation")
           /\ Wrote(rows \o more, e, "ItemServed") <=> Wrote(rows, e, "ItemServed")
           /\ TookFirst(rows \o more, e) <=> TookFirst(rows, e) \/ Wrote(rows, e, "ItemServed")
           /\ more[1].event = e /\ more[1].source = "ItemServedCompensation"
  <1> DEFINE n == ServedIn(rows, l)
  <1>1. ServedIn(more, l) = -n /\ n \in Nat
    BY ServedInSingle
  <1>2. ServedIn(rows \o more, l) = n + ServedIn(more, l)
    BY ServedAppended
  <1>3. Single(more, l, e, "ItemServedCompensation", "IN", n)
    BY DEF Giving
  <1> HIDE DEF n
  <1>4. ServedIn(rows \o more, l) = 0
    BY <1>1, <1>2
  <1> QED
    BY <1>3, <1>4, TookFirstAppended DEF Single

\* A row of what goes out: what is served is more by its quantity.
LEMMA TakenOut ==
    ASSUME NEW rows \in Seq(LedgerRow), NEW more \in Seq(LedgerRow), NEW l, NEW e, NEW quantity,
           Taking(more, l, e, quantity)
    PROVE  /\ ServedIn(rows, l) = 0 => ServedIn(rows \o more, l) = quantity
           /\ Wrote(rows \o more, e, "ItemServed")
           /\ Wrote(rows \o more, e, "ItemServedCompensation")
                 <=> Wrote(rows, e, "ItemServedCompensation")
           /\ TookFirst(rows \o more, e) <=> TookFirst(rows, e)
           /\ more[1].event = e /\ more[1].source = "ItemServed"
  <1>1. ServedIn(more, l) = quantity /\ quantity \in Nat
    BY ServedInSingle
  <1>2. ServedIn(rows \o more, l) = ServedIn(rows, l) + ServedIn(more, l)
    BY ServedAppended
  <1>3. Single(more, l, e, "ItemServed", "OUT", quantity)
    BY DEF Taking
  <1> QED
    BY <1>1, <1>2, <1>3, TookFirstAppended DEF Single

\* What the rows are once a document is written.
WithDocument(rows, more) ==
    IF Wrote(rows, more[1].event, more[1].source) THEN rows ELSE rows \o more

\* A serve goes on with its documents until it has nothing left to write, and what the
\* rows say of the last serve stands.
LEMMA ServeIsWritten ==
    ASSUME NEW rows \in Seq(LedgerRow), NEW l, NEW e, NEW quantity \in Nat,
           NEW prior, NEW documents \in Seq(Seq(LedgerRow)),
           InHandOf(rows, l, e, quantity, prior, documents)
    PROVE  /\ IF Len(documents) = 1 THEN Done(WithDocument(rows, documents[1]), l, e, quantity)
              ELSE InHandOf(WithDocument(rows, documents[1]), l, e, quantity, prior, Tail(documents))
           /\ Len(documents) = 1 => Tail(documents) = <<>>
           /\ Len(documents) # 1 => Tail(documents) # <<>>
           /\ ServedIn(WithDocument(rows, documents[1]), l) \in {ServedIn(rows, l), 0, quantity}
           /\ Wrote(WithDocument(rows, documents[1]), e, "ItemServedCompensation") =>
                 Wrote(rows, e, "ItemServedCompensation") \/ prior # "none"
           /\ Stands(rows, l, e, quantity, prior) =>
                 Stands(WithDocument(rows, documents[1]), l, e, quantity, prior)
  <1> DEFINE more == documents[1]
             after == WithDocument(rows, more)
             out == Wrote(rows, e, "ItemServed")
             in == Wrote(rows, e, "ItemServedCompensation")
             took == TookFirst(rows, e)
             served == ServedIn(rows, l)
  <1>1. Len(documents) \in {1, 2}
    BY DEF InHandOf, TakesOnly, GivesAndTakes
  <1>2. /\ documents # <<>> /\ more \in Seq(LedgerRow)
        /\ Len(documents) = 1 => Tail(documents) = <<>>
        /\ Len(documents) = 2 => /\ Tail(documents) # <<>> /\ Len(Tail(documents)) = 1
                                 /\ Tail(documents)[1] = documents[2]
    <2>1. documents # <<>> /\ 1 \in DOMAIN documents
      BY <1>1
    <2> DEFINE t == Tail(documents)
    <2>2. /\ t \in Seq(Seq(LedgerRow)) /\ Len(t) = Len(documents) - 1
          /\ \A n \in 1..Len(t) : t[n] = documents[n + 1]
      BY <2>1, HeadTailProperties
    <2>3. more \in Seq(LedgerRow)
      BY <2>1, HeldBySequence
    <2>4. Len(documents) = 1 => t = <<>>
      <3> HIDE DEF t
      <3> QED
        BY <2>2
    <2>5. ASSUME Len(documents) = 2
          PROVE  t # <<>> /\ Len(t) = 1 /\ t[1] = documents[2]
      <3> HIDE DEF t
      <3>1. Len(t) = 1 /\ 1 \in 1..Len(t)
        BY <2>2, <2>5
      <3>2. t[1] = documents[2]
        BY <2>2, <3>1
      <3>3. 1 \in DOMAIN t
        BY <2>2, <3>1
      <3>4. t # <<>>
        BY <3>3
      <3> QED
        BY <3>1, <3>2, <3>4
    <2> QED
      BY <2>1, <2>3, <2>4, <2>5
  <1>3. took => out /\ in
    BY TookFirstWrote
  <1>4. CASE TakesOnly(rows, l, e, quantity, documents)
    <2>1. /\ Taking(more, l, e, quantity) /\ Len(documents) = 1
          /\ \/ served = 0 /\ (~out \/ took)
             \/ served = quantity /\ out /\ in
      BY <1>4 DEF TakesOnly
    <2>2. more[1].event = e /\ more[1].source = "ItemServed"
      BY <2>1 DEF Taking, Single
    <2>3. CASE out
      <3>1. after = rows
        BY <2>2, <2>3 DEF WithDocument
      <3>2. Done(rows, l, e, quantity)
        BY <2>1, <2>3 DEF Done
      <3> QED
        BY <1>2, <2>1, <2>2, <3>1, <3>2
    <2>4. CASE ~out
      <3>1. after = rows \o more
        BY <2>2, <2>4 DEF WithDocument
      <3>2. /\ ServedIn(after, l) = quantity /\ Wrote(after, e, "ItemServed")
            /\ Wrote(after, e, "ItemServedCompensation") <=> in
            /\ TookFirst(after, e) <=> took
        BY <1>2, <2>1, <2>4, <3>1, TakenOut
      <3> QED
        BY <1>2, <1>3, <2>1, <2>2, <2>4, <3>2 DEF Done, Stands
    <2> QED
      BY <2>3, <2>4
  <1>5. CASE GivesAndTakes(rows, l, e, quantity, prior, documents)
    <2>1. /\ Giving(more, l, e, served) /\ Taking(Tail(documents)[1], l, e, quantity) /\ prior # "none"
          /\ Len(documents) = 2 /\ Len(Tail(documents)) = 1
          /\ \/ ~in /\ ~out
             \/ served = quantity /\ out
      BY <1>2, <1>5 DEF GivesAndTakes
    <2>2. more[1].event = e /\ more[1].source = "ItemServedCompensation"
      BY <2>1 DEF Giving, Single
    <2>3. CASE in
      <3>1. after = rows
        BY <2>2, <2>3 DEF WithDocument
      <3>2. TakesOnly(after, l, e, quantity, Tail(documents))
        BY <2>1, <2>3, <3>1 DEF TakesOnly
      <3> QED
        BY <1>2, <2>1, <2>2, <3>1, <3>2 DEF InHandOf
    <2>4. CASE ~in
      <3>1. after = rows \o more
        BY <2>2, <2>4 DEF WithDocument
      <3>2. /\ ServedIn(after, l) = 0 /\ Wrote(after, e, "ItemServedCompensation")
            /\ Wrote(after, e, "ItemServed") <=> out
            /\ TookFirst(after, e) <=> took \/ out
        BY <1>2, <2>1, <3>1, GivenBack
      <3>3. TakesOnly(after, l, e, quantity, Tail(documents))
        BY <2>1, <3>2 DEF TakesOnly
      <3>4. Stands(after, l, e, quantity, prior)
        BY <2>1, <3>2 DEF Stands, Done
      <3> QED
        BY <1>2, <2>1, <2>2, <3>2, <3>3, <3>4 DEF InHandOf
    <2> QED
      BY <2>3, <2>4
  <1> QED
    BY <1>4, <1>5 DEF InHandOf

-----------------------------------------------------------------------------
(* Inventory: what lines are written off for.                              *)

Serves(l) == EventsOf(l, "ItemServed")
Closes(l) == EventsOf(l, "CheckClosed")
Arrived(l) == Received(l, "ItemServed")
First(e) == fact[e].supersedes = "none"
\* The last serve that was received.
IsLast(l, e) ==
    e \in Arrived(l) /\ \A f \in Arrived(l) : f = e \/ fact[f].at < fact[e].at
\* No later serve wrote anything.
Leads(l, e) ==
    \A f \in Serves(l) : fact[e].at < fact[f].at => Written(ledger, f) = {}

\* What rows say of the event they are of.
RowTells(row) ==
    /\ row.source \in {"ItemServed", "ItemServedCompensation"} =>
          row.event \in Serves(row.line)
    /\ row.source = "CheckClosed" /\ row.line # "none" => row.event \in Closes(row.line)
Tell(rows) == \A i \in DOMAIN rows : RowTells(rows[i])
\* What is claimed and in hand is in processing, and its documents tell.
HandTells ==
    /\ \A e \in batch : queue[e] = "processing"
    /\ task # NoTask =>
          /\ queue[task.event] = "processing" /\ task.event \notin batch
          /\ task.job => IsDocument(task.event)
          /\ \A n \in DOMAIN task.documents : Tell(task.documents[n])
RowsTell ==
    HandTells /\ Tell(ledger) /\ \A i \in DOMAIN ledger : queue[ledger[i].event] # "none"

\* What is served of a line is nothing or the quantity of a serve; what the serve that
\* leads wrote, and has in hand, stands; and the last serve, once it is processed, has
\* nothing left to write.
ServesStand(l) ==
    /\ Arrived(l) = {} \/ \E e \in Arrived(l) : IsLast(l, e)
    /\ ServedIn(ledger, l) = 0 \/ \E e \in Arrived(l) : ServedIn(ledger, l) = fact[e].quantity
    /\ \A e \in Serves(l) : Wrote(ledger, e, "ItemServedCompensation") => ~First(e)
    /\ \A e \in Arrived(l) :
          /\ Leads(l, e) => Stands(ledger, l, e, fact[e].quantity, fact[e].supersedes)
          /\ IsLast(l, e) /\ queue[e] = "processed" => Done(ledger, l, e, fact[e].quantity)
    /\ \A e \in Serves(l) : task # NoTask /\ task.event = e =>
          IF task.documents = <<>> THEN IsLast(l, e) => Done(ledger, l, e, fact[e].quantity)
          ELSE Leads(l, e) => InHandOf(ledger, l, e, fact[e].quantity, fact[e].supersedes,
                                       task.documents)

\* What the check of a line adds to its serves.
Closing(rows, l) == OfLine(rows, l, "CheckClosed", "OUT")
Adds(rows, l, c, quantity) ==
    /\ \A i \in DOMAIN rows : rows[i].event = c /\ rows[i].source = "CheckClosed"
    /\ Closing(rows, l) # {} /\ SumOf(rows, Closing(rows, l)) = quantity
AfterServes(l) ==
    \A i \in Closing(ledger, l), j \in DOMAIN ledger :
        ledger[j].event \in Arrived(l) => j < i
NothingLeft(l, c) ==
    \/ fact[c].quantity = 0
    \/ /\ Arrived(l) # {}
       /\ \A e \in Serves(l) : Subtract(fact[c].quantity, fact[e].quantity) = 0
CloseStands(l) ==
    \A c \in Closes(l) :
        /\ Wrote(ledger, c, "CheckClosed") => Closing(ledger, l) # {}
        /\ Closing(ledger, l) # {} /\ AfterServes(l) =>
              SumOf(ledger, Closing(ledger, l)) = Subtract(fact[c].quantity, ServedIn(ledger, l))
        /\ SameQuantity(l) /\ queue[c] = "processed" =>
              Closing(ledger, l) # {} \/ NothingLeft(l, c)
        /\ task # NoTask /\ task.event = c =>
              IF task.documents = <<>>
              THEN SameQuantity(l) => Closing(ledger, l) # {} \/ NothingLeft(l, c)
              ELSE /\ Len(task.documents) = 1
                   /\ Adds(task.documents[1], l, c, Subtract(fact[c].quantity, ServedIn(ledger, l)))

LinesFollow ==
    \A l \in Line : ServedInTurn(l) /\ OfOneUnit(l) /\ WrittenInTurn(l) =>
        ServesStand(l) /\ (ClosedOnce(l) => CloseStands(l))

\* What events say of lines stays as it is.
LEMMA LinesStay ==
    ASSUME fact' = fact
    PROVE  /\ Line' = Line
           /\ \A l : /\ Serves(l)' = Serves(l) /\ Closes(l)' = Closes(l)
                     /\ ServedInTurn(l)' <=> ServedInTurn(l)
                     /\ OfOneUnit(l)' <=> OfOneUnit(l)
                     /\ ClosedOnce(l)' <=> ClosedOnce(l)
                     /\ SameQuantity(l)' <=> SameQuantity(l)
           /\ \A e : First(e)' <=> First(e)
           /\ \A rows : Tell(rows)' <=> Tell(rows)
  <1>1. \A l : Serves(l)' = Serves(l) /\ Closes(l)' = Closes(l)
    BY DEF Serves, Closes, EventsOf
  <1>2. Line' = Line
    BY DEF Line
  <1>3. \A l : ServedInTurn(l)' <=> ServedInTurn(l)
    BY DEF ServedInTurn, ServedNext, EventsOf
  <1>4. \A l : /\ OfOneUnit(l)' <=> OfOneUnit(l)
               /\ ClosedOnce(l)' <=> ClosedOnce(l)
               /\ SameQuantity(l)' <=> SameQuantity(l)
    BY DEF OfOneUnit, ClosedOnce, SameQuantity, EventsOf
  <1>5. \A e : First(e)' <=> First(e)
    BY DEF First
  <1>6. \A rows : Tell(rows)' <=> Tell(rows)
    BY DEF Tell, RowTells, Serves, Closes, EventsOf
  <1> QED
    BY <1>1, <1>2, <1>3, <1>4, <1>5, <1>6

\* The rows that are made of a recipe are of the line of the event.
LEMMA ExpandRows ==
    ASSUME InventoryTypeOK, NEW e \in Event, NEW origin, NEW movement, NEW quantity,
           NEW rows, rows = Expand(e, origin, movement, quantity), NEW i \in DOMAIN rows
    PROVE  /\ rows[i].event = e /\ rows[i].source = origin /\ rows[i].line = fact[e].line
           /\ rows[i].movement = movement
  <1> DEFINE recipe == RecipeOf(fact[e].item)
  <1>1. CASE recipe = <<>>
    <2> DEFINE row == Row(e, origin, fact[e].item, fact[e].line, movement, quantity, fact[e].cost)
    <2>1. rows = <<row>>
      BY <1>1 DEF Expand
    <2>2. /\ row.event = e /\ row.source = origin /\ row.line = fact[e].line
          /\ row.movement = movement
      BY DEF Row
    <2> HIDE DEF row
    <2>3. i = 1 /\ rows[1] = row
      BY <2>1
    <2> QED
      BY <2>2, <2>3
  <1>2. CASE recipe # <<>>
    <2> DEFINE row(j) == Row(e, origin, recipe[j].component, fact[e].line, movement,
                             quantity * recipe[j].amount, 0)
    <2>1. rows = [j \in DOMAIN recipe |-> row(j)]
      BY <1>2 DEF Expand
    <2>2. /\ row(i).event = e /\ row(i).source = origin /\ row(i).line = fact[e].line
          /\ row(i).movement = movement
      BY DEF Row
    <2> HIDE DEF row, recipe
    <2>3. rows[i] = row(i)
      BY <2>1
    <2> QED
      BY <2>2, <2>3
  <1> QED
    BY <1>1, <1>2

\* Those of a modifier are of no line.
LEMMA ModifierRows ==
    ASSUME NEW e \in Event, NEW origin, NEW movement, NEW quantity,
           NEW rows, rows = Modifiers(e, origin, movement, quantity), NEW i \in DOMAIN rows
    PROVE  rows[i].event = e /\ rows[i].source = origin /\ rows[i].line = "none"
  <1> DEFINE row == Row(e, origin, fact[e].linked, "none", movement, quantity, 0)
  <1>1. rows \in {<<>>, <<row>>}
    BY DEF Modifiers
  <1>2. row.event = e /\ row.source = origin /\ row.line = "none"
    BY DEF Row
  <1> HIDE DEF row
  <1>3. i = 1 /\ rows[1] = row
    BY <1>1
  <1> QED
    BY <1>2, <1>3

\* Of an item of one unit, one row is made, of the quantity.
LEMMA ExpandSingle ==
    ASSUME InventoryTypeOK, NEW e \in Event, NEW origin \in Source, NEW movement \in Movement,
           NEW quantity \in Nat, OneUnit(fact[e].item)
    PROVE  /\ Single(Expand(e, origin, movement, quantity), fact[e].line, e, origin, movement,
                     quantity)
           /\ Expand(e, origin, movement, quantity) \in Seq(LedgerRow)
  <1> DEFINE rows == Expand(e, origin, movement, quantity)
             recipe == RecipeOf(fact[e].item)
  <1>1. rows \in Seq(LedgerRow)
    BY ExpandTyped DEF RowsOfEvent
  <1>2. Len(rows) = 1 /\ rows[1].quantity = quantity
    <2>1. CASE recipe = <<>>
      <3> DEFINE row == Row(e, origin, fact[e].item, fact[e].line, movement, quantity,
                            fact[e].cost)
      <3>1. rows = <<row>>
        BY <2>1 DEF Expand
      <3>2. row.quantity = quantity
        BY DEF Row
      <3> HIDE DEF row, rows
      <3> QED
        BY <3>1, <3>2
    <2>2. CASE recipe # <<>>
      <3> DEFINE row(j) == Row(e, origin, recipe[j].component, fact[e].line, movement,
                               quantity * recipe[j].amount, 0)
      <3>1. rows = [j \in DOMAIN recipe |-> row(j)]
        BY <2>2 DEF Expand
      <3>2. Len(recipe) = 1 /\ recipe[1].amount = 1
        BY <2>2 DEF OneUnit
      <3>3. recipe \in Seq(RecipeLine)
        BY FactColumns, RecipeColumns
      <3>4. row(1).quantity = quantity * recipe[1].amount
        BY DEF Row
      <3> HIDE DEF row, rows, recipe
      <3>5. DOMAIN recipe = 1..1
        BY <3>2, <3>3
      <3>6. rows[1] = row(1) /\ DOMAIN rows = 1..1
        BY <3>1, <3>5
      <3>7. Len(rows) = 1
        BY <1>1, <3>6
      <3>8. quantity * 1 = quantity
        OBVIOUS
      <3> QED
        BY <3>2, <3>4, <3>6, <3>7, <3>8
    <2> QED
      BY <2>1, <2>2
  <1> HIDE DEF rows
  <1>3. 1 \in DOMAIN rows
    BY <1>1, <1>2
  <1>4. /\ rows[1].event = e /\ rows[1].source = origin /\ rows[1].line = fact[e].line
        /\ rows[1].movement = movement
    BY <1>3, ExpandRows DEF rows
  <1> QED
    BY <1>1, <1>2, <1>4 DEF Single, rows

\* Rows tell beside each other, and none tell.
LEMMA TellJoin ==
    ASSUME NEW rows \in Seq(LedgerRow), NEW more \in Seq(LedgerRow)
    PROVE  Tell(rows \o more) <=> Tell(rows) /\ Tell(more)
  <1> DEFINE all == rows \o more
             n == Len(rows)
  <1>1. /\ DOMAIN rows \subseteq DOMAIN all
        /\ \A i \in DOMAIN rows : all[i] = rows[i]
        /\ \A j \in DOMAIN more : n + j \in DOMAIN all /\ all[n + j] = more[j]
        /\ \A i \in DOMAIN all : i \in DOMAIN rows \/ \E j \in DOMAIN more : i = n + j
    BY Appended
  <1> HIDE DEF all, n
  <1>2. Tell(all) <=> Tell(rows) /\ Tell(more)
    BY <1>1 DEF Tell
  <1> QED
    BY <1>2 DEF all

\* The rows of an event that is no serve and no check tell.
LEMMA OthersTell ==
    ASSUME NEW e, NEW rows, RowsOfEvent(rows, e, fact[e].type),
           fact[e].type \notin {"ItemServed", "CheckClosed", "ItemServedCompensation"}
    PROVE  Tell(rows)
  BY DEF RowsOfEvent, Tell, RowTells

\* Rows of the line of a serve, or of a check, tell.
LEMMA ExpandTells ==
    ASSUME InventoryTypeOK, NEW e \in Event, NEW movement, NEW quantity, NEW origin,
           \/ fact[e].type = "ItemServed" /\ origin \in {"ItemServed", "ItemServedCompensation"}
           \/ fact[e].type = "CheckClosed" /\ origin = "CheckClosed"
    PROVE  Tell(Expand(e, origin, movement, quantity))
  <1> DEFINE rows == Expand(e, origin, movement, quantity)
  <1> SUFFICES ASSUME NEW i \in DOMAIN rows PROVE RowTells(rows[i])
    BY DEF Tell
  <1>1. rows[i].event = e /\ rows[i].source = origin /\ rows[i].line = fact[e].line
    BY ExpandRows
  <1> HIDE DEF rows
  <1> QED
    BY <1>1 DEF RowTells, Serves, Closes, EventsOf

\* One document tells if its rows do.
LEMMA OneTells ==
    ASSUME NEW rows, Tell(rows)
    PROVE  \A n \in DOMAIN <<rows>> : Tell(<<rows>>[n])
  OBVIOUS

\* Documents of a positive quantity tell.
LEMMA PositiveTells ==
    ASSUME InventoryTypeOK, NEW e \in Event, NEW movement, NEW quantity, NEW origin,
           fact[e].type = "ItemServed", origin \in {"ItemServed", "ItemServedCompensation"}
    PROVE  \A n \in DOMAIN Positive(e, origin, movement, quantity) :
              Tell(Positive(e, origin, movement, quantity)[n])
  <1>1. Tell(Expand(e, origin, movement, quantity))
    BY ExpandTells
  <1>2. Positive(e, origin, movement, quantity) \in {<<>>, <<Expand(e, origin, movement, quantity)>>}
    BY DEF Positive
  <1> QED
    BY <1>1, <1>2, OneTells

\* The documents of every event tell.
LEMMA DocumentsTell ==
    ASSUME InventoryTypeOK, NEW e \in Event
    PROVE  \A n \in DOMAIN Documents(e) : Tell(Documents(e)[n])
  <1>1. CASE fact[e].type = "CheckClosed"
    <2> DEFINE rest == DeltaQuantity(e)
               a == Expand(e, "CheckClosed", "OUT", rest)
               b == Modifiers(e, "CheckClosed", "OUT", rest)
    <2>1. Documents(e) = IF rest = 0 THEN <<>> ELSE <<a \o b>>
      BY <1>1 DEF Documents, CheckClosedDocuments
    <2>2. rest \in Nat
      BY FactColumns, ServedIsANumber, SubtractTyped DEF DeltaQuantity
    <2>3. a \in Seq(LedgerRow) /\ b \in Seq(LedgerRow)
      <3>1. "CheckClosed" \in Source /\ "OUT" \in Movement
        BY DEF Source, SaleEvent, Movement
      <3> QED
        BY <2>2, <3>1, ExpandTyped, ModifiersTyped DEF RowsOfEvent
    <2>4. Tell(a)
      BY <1>1, ExpandTells
    <2>5. Tell(b)
      <3> SUFFICES ASSUME NEW i \in DOMAIN b PROVE RowTells(b[i])
        BY DEF Tell
      <3>1. b[i].source = "CheckClosed" /\ b[i].line = "none"
        BY ModifierRows
      <3> HIDE DEF b
      <3> QED
        BY <3>1 DEF RowTells
    <2> HIDE DEF a, b, rest
    <2>6. Tell(a \o b)
      BY <2>3, <2>4, <2>5, TellJoin
    <2> DEFINE rows == a \o b
    <2>7. Documents(e) = <<>> \/ Documents(e) = <<rows>>
      BY <2>1
    <2> HIDE DEF rows
    <2>8. \A n \in DOMAIN <<rows>> : Tell(<<rows>>[n])
      BY <2>6, OneTells DEF rows
    <2> QED
      BY <2>7, <2>8
  <1>2. CASE fact[e].type = "ItemServed"
    <2> DEFINE a == Positive(e, "ItemServedCompensation", "IN", Served(fact[e].line))
               b == Positive(e, "ItemServed", "OUT", fact[e].quantity)
               c == Positive(e, "ItemServed", "OUT", EffectiveQuantity(e))
    <2>1. Documents(e) \in {<<>>, a \o b, c}
      BY <1>2 DEF Documents, ItemServedDocuments, SupersedingDocuments
    <2>2. /\ \A n \in DOMAIN a : Tell(a[n])
          /\ \A n \in DOMAIN b : Tell(b[n])
          /\ \A n \in DOMAIN c : Tell(c[n])
      BY <1>2, PositiveTells
    <2>3. a \in Seq(Seq(LedgerRow)) /\ b \in Seq(Seq(LedgerRow))
      <3>1. Served(fact[e].line) \in Int /\ fact[e].quantity \in Int /\ ~SaysItself(e)
        BY <1>2, FactColumns, ServedIsANumber DEF SaysItself
      <3>2. /\ "ItemServed" \in Source /\ "ItemServedCompensation" \in Source
            /\ "OUT" \in Movement /\ "IN" \in Movement
        BY DEF Source, SaleEvent, Movement
      <3> QED
        BY <3>1, <3>2, PositiveTyped DEF AllAreDocuments
    <2> HIDE DEF a, b, c
    <2>4. \A n \in DOMAIN (a \o b) : Tell((a \o b)[n])
      <3> TAKE n \in DOMAIN (a \o b)
      <3>1. /\ Len(a) \in Nat /\ Len(b) \in Nat /\ DOMAIN a = 1..Len(a) /\ DOMAIN b = 1..Len(b)
            /\ n \in 1..(Len(a) + Len(b))
        BY <2>3
      <3>2. CASE n <= Len(a)
        <4>1. n \in DOMAIN a /\ (a \o b)[n] = a[n]
          BY <2>3, <3>1, <3>2
        <4> QED
          BY <2>2, <4>1
      <3>3. CASE n > Len(a)
        <4>1. n - Len(a) \in DOMAIN b /\ (a \o b)[n] = b[n - Len(a)]
          BY <2>3, <3>1, <3>3
        <4> QED
          BY <2>2, <4>1
      <3> QED
        BY <3>1, <3>2, <3>3
    <2> QED
      BY <2>1, <2>2, <2>4
  <1>3. CASE fact[e].type = "InventoryCountCaptured"
    <2> DEFINE difference == fact[e].quantity - OnHand(e)
               out == Row(e, fact[e].type, fact[e].item, "none", "OUT", -difference, 0)
               in == Row(e, fact[e].type, fact[e].item, "none", "IN", difference, 0)
               rows == CountAdjustment(e, difference)
    <2>1. Documents(e) \in {<<>>, <<rows>>}
      BY <1>3 DEF Documents, CountDocuments
    <2>2. rows \in {<<out>>, <<in>>}
      BY DEF CountAdjustment
    <2>3. out.source = fact[e].type /\ in.source = fact[e].type
      BY DEF Row
    <2> HIDE DEF out, in, difference, rows
    <2>4. Tell(rows)
      BY <1>3, <2>2, <2>3 DEF Tell, RowTells
    <2> QED
      BY <2>1, <2>4, OneTells
  <1>4. CASE fact[e].type \notin {"CheckClosed", "ItemServed", "InventoryCountCaptured"}
    <2>1. SaysItself(e)
      BY <1>4 DEF SaysItself
    <2>2. fact[e].type \in SaleEvent \cup DocumentEvent
      BY FactColumns
    <2>3. fact[e].type \notin {"ItemServed", "CheckClosed", "ItemServedCompensation"}
      BY <1>4, <2>2 DEF SaleEvent, DocumentEvent
    <2> TAKE n \in DOMAIN Documents(e)
    <2>4. IsDocumentOf(Documents(e)[n], e)
      BY DocumentsTyped DEF AllAreDocuments
    <2>5. RowsOfEvent(Documents(e)[n], e, fact[e].type)
      BY <2>1, <2>4 DEF IsDocumentOf, RowsOfEvent
    <2> QED
      BY <2>3, <2>5, OthersTell
  <1> QED
    BY <1>1, <1>2, <1>3, <1>4

\* Rows that are priced again are the same in everything else.
Repriced(rows, others) ==
    /\ others \in Seq(LedgerRow) /\ DOMAIN others = DOMAIN rows
    /\ \A i \in DOMAIN rows : /\ others[i].event = rows[i].event
                              /\ others[i].source = rows[i].source
                              /\ others[i].line = rows[i].line
                              /\ others[i].movement = rows[i].movement
                              /\ others[i].quantity = rows[i].quantity

\* What they say of lines is the same.
LEMMA RepricedSame ==
    ASSUME NEW rows, NEW others, Repriced(rows, others)
    PROVE  /\ \A l : ServedIn(others, l) = ServedIn(rows, l)
           /\ \A l : Closing(others, l) = Closing(rows, l)
           /\ \A l : SumOf(others, Closing(others, l)) = SumOf(rows, Closing(rows, l))
           /\ \A e, origin : Wrote(others, e, origin) <=> Wrote(rows, e, origin)
           /\ \A e : TookFirst(others, e) <=> TookFirst(rows, e)
           /\ \A e : Written(others, e) = Written(rows, e)
           /\ Tell(others) <=> Tell(rows)
  <1>1. \A l, origin, movement : OfLine(others, l, origin, movement) = OfLine(rows, l, origin, movement)
    BY DEF Repriced, OfLine
  <1>2. \A some : SumOf(others, some) = SumOf(rows, some)
    BY SumOfSame DEF Repriced
  <1>3. \A l : ServedIn(others, l) = ServedIn(rows, l)
    BY <1>1, <1>2 DEF ServedIn
  <1>4. \A l : Closing(others, l) = Closing(rows, l)
    BY <1>1 DEF Closing
  <1>5. \A e, origin : Wrote(others, e, origin) <=> Wrote(rows, e, origin)
    BY DEF Repriced, Wrote
  <1>6. \A e : TookFirst(others, e) <=> TookFirst(rows, e)
    BY DEF Repriced, TookFirst
  <1>7. \A e : Written(others, e) = Written(rows, e)
    BY DEF Repriced, Written
  <1>8. Tell(others) <=> Tell(rows)
    BY DEF Repriced, Tell, RowTells
  <1> QED
    BY <1>2, <1>3, <1>4, <1>5, <1>6, <1>7, <1>8

\* A row with another cost keeps its line.
LEMMA RowKept ==
    ASSUME NEW row \in LedgerRow, NEW other,
           \/ other = row
           \/ \E priced : other = [row EXCEPT !.costing = priced]
           \/ \E cost, priced : other = [row EXCEPT !.cost = cost, !.costing = priced]
    PROVE  /\ other.event = row.event /\ other.source = row.source /\ other.line = row.line
           /\ other.movement = row.movement /\ other.quantity = row.quantity
  BY DEF LedgerRow

\* A job marks rows, and prices them.
LEMMA JobReprices ==
    ASSUME InventoryInv, CreateRecalculationJob
    PROVE  Repriced(ledger, ledger')
  <1>1. InventoryTypeOK /\ InventoryTypeOK' /\ ledger \in Seq(LedgerRow) /\ ledger' \in Seq(LedgerRow)
    BY CreateRecalculationJobKeeps DEF InventoryInv, InventoryTypeOK
  <1>2. PICK keys :
           \/ ledger' = ledger
           \/ ledger' = [i \in DOMAIN ledger |->
                  IF ledger[i].key \in keys
                  THEN [ledger[i] EXCEPT !.costing = "needs_recalculation"] ELSE ledger[i]]
    BY DEF CreateRecalculationJob
  <1>3. DOMAIN ledger' = DOMAIN ledger
    BY <1>2
  <1>4. ASSUME NEW i \in DOMAIN ledger
        PROVE  /\ ledger'[i].event = ledger[i].event /\ ledger'[i].source = ledger[i].source
               /\ ledger'[i].line = ledger[i].line /\ ledger'[i].movement = ledger[i].movement
               /\ ledger'[i].quantity = ledger[i].quantity
    <2>1. ledger'[i] \in {ledger[i], [ledger[i] EXCEPT !.costing = "needs_recalculation"]}
      BY <1>2
    <2>2. ledger[i] \in LedgerRow
      BY <1>1, RowColumns
    <2> DEFINE other == ledger'[i]
    <2>3. \/ other = ledger[i]
          \/ \E priced : other = [ledger[i] EXCEPT !.costing = priced]
      BY <2>1
    <2> HIDE DEF other
    <2>4. /\ other.event = ledger[i].event /\ other.source = ledger[i].source
          /\ other.line = ledger[i].line /\ other.movement = ledger[i].movement
          /\ other.quantity = ledger[i].quantity
      BY <2>2, <2>3, RowKept
    <2> QED
      BY <2>4 DEF other
  <1> QED
    BY <1>1, <1>3, <1>4 DEF Repriced

\* A row that is priced keeps its line as well.
LEMMA RowReprices ==
    ASSUME InventoryInv, RecalculateRow
    PROVE  Repriced(ledger, ledger')
  <1>1. InventoryTypeOK /\ InventoryTypeOK' /\ ledger \in Seq(LedgerRow) /\ ledger' \in Seq(LedgerRow)
    BY RecalculateRowKeeps DEF InventoryInv, InventoryTypeOK
  <1>2. PICK i : ledger' = [ledger EXCEPT ![i] = Recalculated(i)]
    BY DEF RecalculateRow
  <1>3. DOMAIN ledger' = DOMAIN ledger
    BY <1>2
  <1>4. ASSUME NEW j \in DOMAIN ledger
        PROVE  /\ ledger'[j].event = ledger[j].event /\ ledger'[j].source = ledger[j].source
               /\ ledger'[j].line = ledger[j].line /\ ledger'[j].movement = ledger[j].movement
               /\ ledger'[j].quantity = ledger[j].quantity
    <2>1. ledger[j] \in LedgerRow
      BY <1>1, RowColumns
    <2>2. CASE j # i
      BY <1>2, <2>2
    <2>3. CASE j = i
      <3>1. ledger'[j] = Recalculated(j)
        BY <1>2, <2>3
      <3> DEFINE other == Recalculated(j)
      <3>2. \/ \E priced : other = [ledger[j] EXCEPT !.costing = priced]
            \/ \E cost, priced : other = [ledger[j] EXCEPT !.cost = cost, !.costing = priced]
        BY DEF Recalculated
      <3> HIDE DEF other
      <3>3. /\ other.event = ledger[j].event /\ other.source = ledger[j].source
            /\ other.line = ledger[j].line /\ other.movement = ledger[j].movement
            /\ other.quantity = ledger[j].quantity
        BY <2>1, <3>2, RowKept
      <3> QED
        BY <3>1, <3>3 DEF other
    <2> QED
      BY <2>2, <2>3
  <1> QED
    BY <1>1, <1>3, <1>4 DEF Repriced

\* Nothing is priced where nothing is written.
LEMMA NothingRepriced ==
    ASSUME InventoryInv, ledger' = ledger
    PROVE  Repriced(ledger, ledger')
  BY DEF InventoryInv, InventoryTypeOK, Repriced

-----------------------------------------------------------------------------
(* Inventory: the steps a line sees.                                       *)

\* What a step does to lines: an event is taken and its documents are put together, a
\* document is written, an event is processed, or rows are priced and events fail, are
\* claimed or given up.
Begins(e) ==
    /\ e \in batch /\ task = NoTask /\ task' # NoTask /\ task'.event = e
    /\ ~IsDocument(e) => task'.documents = Documents(e)
    /\ UNCHANGED <<fact, queue, ledger>>
Writes ==
    /\ task # NoTask /\ task.documents # <<>> /\ UNCHANGED fact
    /\ ledger' = WithDocument(ledger, task.documents[1])
    /\ \/ /\ queue' = queue /\ task' # NoTask /\ task'.event = task.event
          /\ ~IsDocument(task.event) => task'.documents = Tail(task.documents)
       \/ queue' = [queue EXCEPT ![task.event] = "failed"] /\ task' = NoTask
Ends ==
    /\ task # NoTask /\ task.documents = <<>> /\ task' = NoTask
    /\ queue' = [queue EXCEPT ![task.event] = "processed"]
    /\ UNCHANGED <<fact, ledger>>
Waits ==
    /\ UNCHANGED fact /\ Repriced(ledger, ledger')
    /\ \A e \in Event : \/ queue'[e] = queue[e]
                        \/ queue[e] # "none" /\ queue'[e] \in {"processing", "failed"}
    /\ task' # NoTask => task'.event \in Event /\ IsDocument(task'.event)

\* The same after a step.
LEMMA HandNext ==
    ASSUME fact' = fact
    PROVE  HandTells' <=>
              /\ \A e \in batch' : queue'[e] = "processing"
              /\ task' # NoTask =>
                    /\ queue'[task'.event] = "processing" /\ task'.event \notin batch'
                    /\ task'.job => IsDocument(task'.event)
                    /\ \A n \in DOMAIN task'.documents : Tell(task'.documents[n])
  <1>1. \A rows : Tell(rows)' <=> Tell(rows)
    BY LinesStay
  <1>2. \A e : IsDocument(e)' <=> IsDocument(e)
    BY EventsStay
  <1> QED
    BY <1>1, <1>2 DEF HandTells, NoTask, IsDocument

\* An event that is received is not in hand.
LEMMA ReceivesTell ==
    ASSUME InventoryInv, HandTells, NEW e \in Event, Receive(e)
    PROVE  HandTells' /\ UNCHANGED <<fact, ledger, task, batch>>
  <1>1. /\ UNCHANGED <<fact, ledger, task, batch>> /\ queue[e] = "none"
        /\ queue \in [Event -> {"none", "pending", "processing", "processed", "failed"}]
        /\ queue' = [queue EXCEPT ![e] = IF Relevant(e) THEN "pending" ELSE "processed"]
    BY DEF Receive, stock, InventoryInv, InventoryTypeOK
  <1>2. \A f : queue[f] = "processing" => queue'[f] = queue[f]
    BY <1>1
  <1>3. /\ \A f \in batch' : queue'[f] = "processing"
        /\ task' # NoTask =>
              /\ queue'[task'.event] = "processing" /\ task'.event \notin batch'
              /\ task'.job => IsDocument(task'.event)
              /\ \A n \in DOMAIN task'.documents : Tell(task'.documents[n])
    BY <1>1, <1>2 DEF HandTells
  <1> QED
    BY <1>1, <1>3, HandNext

\* An event that is taken and whose documents are put together.
LEMMA PreparesBegin ==
    ASSUME InventoryInv, HandTells, NEW e \in batch, Prepare(e)
    PROVE  HandTells' /\ Begins(e) /\ e \in Event
  <1>1. /\ InventoryTypeOK /\ e \in Event /\ task = NoTask /\ batch' = batch \ {e}
        /\ UNCHANGED <<fact, queue, ledger>>
    BY DEF InventoryInv, InventoryTypeOK, Prepare, Take
  <1>2. PICK documents \in {IF Settled(e) THEN <<>> ELSE Documents(e)} :
           task' = [event |-> e, documents |-> documents, job |-> FALSE]
    BY DEF Prepare
  <1>3. task'.event = e /\ task'.documents = documents /\ task' # NoTask /\ ~task'.job
    BY <1>1, <1>2, CloudInventoryAssumption DEF NoTask
  <1>4. ~IsDocument(e) => documents = Documents(e)
    BY <1>2 DEF Settled
  <1>5. \A n \in DOMAIN documents : Tell(documents[n])
    <2>1. CASE documents = <<>>
      BY <2>1
    <2>2. CASE documents = Documents(e)
      BY <1>1, <2>2, DocumentsTell
    <2> QED
      BY <1>2, <2>1, <2>2
  <1>6. HandTells'
    BY <1>1, <1>3, <1>5, HandNext DEF HandTells
  <1> QED
    BY <1>1, <1>3, <1>4, <1>6 DEF Begins

\* An event whose documents cannot be put together.
LEMMA GivingUpWaits ==
    ASSUME InventoryInv, HandTells, NEW e \in batch, FailDocument(e) \/ Postpone(e)
    PROVE  HandTells' /\ Waits
  <1>1. /\ InventoryTypeOK /\ e \in Event /\ task = NoTask /\ batch' = batch \ {e}
        /\ UNCHANGED <<fact, ledger>> /\ queue[e] = "processing"
        /\ queue \in [Event -> {"none", "pending", "processing", "processed", "failed"}]
    BY DEF InventoryInv, InventoryTypeOK, FailDocument, Postpone, Take, HandTells
  <1>2. Repriced(ledger, ledger')
    BY <1>1, NothingRepriced
  <1>3. CASE FailDocument(e)
    <2>1. /\ queue' = queue /\ IsDocument(e)
          /\ task' = [event |-> e, documents |-> <<>>, job |-> FALSE]
      BY <1>3 DEF FailDocument
    <2>2. task'.event = e /\ task'.documents = <<>> /\ ~task'.job
      BY <2>1
    <2>3. HandTells'
      BY <1>1, <2>1, <2>2, HandNext DEF HandTells
    <2> QED
      BY <1>1, <1>2, <2>1, <2>2, <2>3 DEF Waits
  <1>4. CASE Postpone(e)
    <2>1. queue' = [queue EXCEPT ![e] = "failed"] /\ task' = task
      BY <1>4 DEF Postpone
    <2>2. \A f \in Event : f # e => queue'[f] = queue[f]
      BY <1>1, <2>1
    <2>3. HandTells'
      BY <1>1, <2>1, <2>2, HandNext DEF HandTells, InventoryTypeOK
    <2> QED
      BY <1>1, <1>2, <2>1, <2>2, <2>3 DEF Waits
  <1> QED
    BY <1>3, <1>4

\* What is claimed is in processing.
LEMMA ClaimWaits ==
    ASSUME InventoryInv, HandTells, ClaimPending
    PROVE  HandTells' /\ Waits
  <1>1. /\ UNCHANGED <<fact, ledger, task>> /\ task = NoTask /\ batch' = Picked
        /\ queue' = [e \in Event |-> IF e \in Picked THEN "processing" ELSE queue[e]]
        /\ \A e \in Picked : e \in Event /\ queue[e] # "none"
    BY DEF ClaimPending, stock, Idle, Picked, Ready
  <1>2. Repriced(ledger, ledger')
    BY <1>1, NothingRepriced
  <1>3. HandTells'
    BY <1>1, HandNext
  <1> QED
    BY <1>1, <1>2, <1>3 DEF Waits

\* A document that is written.
LEMMA DocumentIsWritten ==
    ASSUME InventoryInv, task # NoTask, task.documents # <<>>,
           WriteDocument(Head(task.documents))
    PROVE  ledger' = WithDocument(ledger, task.documents[1])
  <1>1. InventoryTypeOK /\ Head(task.documents) = task.documents[1]
    BY TaskTyped DEF InventoryInv
  <1>2. Posted(task.documents[1]) <=>
           Wrote(ledger, task.documents[1][1].event, task.documents[1][1].source)
    BY DEF Posted, Wrote
  <1> QED
    BY <1>1, <1>2 DEF WriteDocument, WithDocument

\* The document in hand is written, and the worker is told.
LEMMA CreateWrites ==
    ASSUME InventoryInv, HandTells, CreateStockDocument
    PROVE  HandTells' /\ Writes
  <1>1. /\ InventoryTypeOK /\ task.documents # <<>> /\ UNCHANGED <<fact, queue, batch>>
        /\ WriteDocument(Head(task.documents))
        /\ task' = IF IsDocument(task.event) THEN [task EXCEPT !.job = TRUE]
                   ELSE [task EXCEPT !.documents = Tail(@)]
    BY DEF InventoryInv, CreateStockDocument
  <1>2. task # NoTask
    BY <1>1 DEF NoTask
  <1>3. /\ task \in [event : Event, documents : Seq(Seq(LedgerRow)), job : BOOLEAN]
        /\ task.event \in Event /\ task.documents \in Seq(Seq(LedgerRow))
    BY <1>1, <1>2, TaskTyped
  <1>4. ledger' = WithDocument(ledger, task.documents[1])
    BY <1>1, <1>2, DocumentIsWritten
  <1>5. /\ task'.event = task.event
        /\ task'.documents = IF IsDocument(task.event) THEN task.documents
                             ELSE Tail(task.documents)
        /\ task'.job = IF IsDocument(task.event) THEN TRUE ELSE task.job
    BY <1>1, <1>3
  <1>6. task' # NoTask
    BY <1>3, <1>5, CloudInventoryAssumption DEF NoTask
  <1>7. \A n \in DOMAIN task'.documents : Tell(task'.documents[n])
    <2>1. \A n \in DOMAIN task.documents : Tell(task.documents[n])
      BY <1>2 DEF HandTells
    <2> DEFINE documents == task.documents
               t == Tail(documents)
    <2>2. /\ t \in Seq(Seq(LedgerRow)) /\ Len(t) = Len(documents) - 1
          /\ \A n \in 1..Len(t) : t[n] = documents[n + 1]
          /\ Len(documents) \in Nat /\ DOMAIN documents = 1..Len(documents)
          /\ DOMAIN t = 1..Len(t) /\ Len(t) \in Nat
      BY <1>1, <1>3, HeadTailProperties
    <2> HIDE DEF t, documents
    <2>3. ASSUME NEW n \in DOMAIN t PROVE n + 1 \in DOMAIN documents /\ t[n] = documents[n + 1]
      BY <2>2, <2>3
    <2>4. \A n \in DOMAIN t : Tell(t[n])
      BY <2>1, <2>3 DEF documents
    <2> QED
      BY <1>5, <2>1, <2>4 DEF t, documents
  <1>8. HandTells'
    BY <1>1, <1>2, <1>5, <1>6, <1>7, HandNext DEF HandTells
  <1> QED
    BY <1>1, <1>2, <1>4, <1>5, <1>6, <1>8 DEF Writes

\* It is written and the worker is told that it is not.
LEMMA LostWrites ==
    ASSUME InventoryInv, HandTells, LoseAnswer
    PROVE  HandTells' /\ Writes
  <1>1. /\ InventoryTypeOK /\ task.documents # <<>> /\ UNCHANGED <<fact, batch>>
        /\ WriteDocument(Head(task.documents))
        /\ queue' = [queue EXCEPT ![task.event] = "failed"] /\ task' = NoTask
        /\ queue \in [Event -> {"none", "pending", "processing", "processed", "failed"}]
    BY DEF InventoryInv, InventoryTypeOK, LoseAnswer, MarkFailed
  <1>2. task # NoTask
    BY <1>1 DEF NoTask
  <1>3. ledger' = WithDocument(ledger, task.documents[1])
    BY <1>1, <1>2, DocumentIsWritten
  <1>4. HandTells'
    BY <1>1, <1>2, HandNext DEF HandTells, InventoryTypeOK
  <1> QED
    BY <1>1, <1>2, <1>3, <1>4 DEF Writes

\* It is not written.
LEMMA FailToWriteWaits ==
    ASSUME InventoryInv, HandTells, FailToWrite
    PROVE  HandTells' /\ Waits
  <1>1. /\ InventoryTypeOK /\ task.documents # <<>> /\ UNCHANGED <<fact, batch, ledger>>
        /\ queue' = [queue EXCEPT ![task.event] = "failed"] /\ task' = NoTask
        /\ queue \in [Event -> {"none", "pending", "processing", "processed", "failed"}]
    BY DEF InventoryInv, InventoryTypeOK, FailToWrite, MarkFailed
  <1>2. task # NoTask
    BY <1>1 DEF NoTask
  <1>3. Repriced(ledger, ledger')
    BY <1>1, NothingRepriced
  <1>4. HandTells'
    BY <1>1, <1>2, HandNext DEF HandTells, InventoryTypeOK
  <1> QED
    BY <1>1, <1>2, <1>3, <1>4 DEF Waits, HandTells

\* The event in hand is processed.
LEMMA MarkProcessedEnds ==
    ASSUME InventoryInv, HandTells, MarkProcessed
    PROVE  HandTells' /\ Ends
  <1>1. /\ task # NoTask /\ task.documents = <<>> /\ task' = NoTask
        /\ UNCHANGED <<fact, batch, ledger>>
        /\ queue' = [queue EXCEPT ![task.event] = "processed"] /\ batch \subseteq Event
        /\ queue \in [Event -> {"none", "pending", "processing", "processed", "failed"}]
    BY DEF InventoryInv, InventoryTypeOK, MarkProcessed, stock
  <1>2. HandTells'
    BY <1>1, HandNext DEF HandTells
  <1> QED
    BY <1>1, <1>2 DEF Ends

\* The job of a document marks rows.
LEMMA JobWaits ==
    ASSUME InventoryInv, HandTells, CreateRecalculationJob
    PROVE  HandTells' /\ Waits
  <1>1. /\ InventoryTypeOK /\ task.job /\ UNCHANGED <<fact, queue, batch>>
        /\ task' = [task EXCEPT !.documents = <<>>, !.job = FALSE]
    BY DEF InventoryInv, CreateRecalculationJob
  <1>2. task # NoTask
    BY <1>1 DEF NoTask
  <1>3. task \in [event : Event, documents : Seq(Seq(LedgerRow)), job : BOOLEAN]
    BY <1>1, <1>2, TaskTyped
  <1>4. task'.event = task.event /\ task.event \in Event /\ task'.documents = <<>> /\ ~task'.job
    BY <1>1, <1>3
  <1>5. Repriced(ledger, ledger')
    BY JobReprices
  <1>6. IsDocument(task.event)
    BY <1>1, <1>2 DEF HandTells
  <1>7. HandTells'
    BY <1>1, <1>2, <1>4, HandNext DEF HandTells
  <1> QED
    BY <1>1, <1>4, <1>5, <1>6, <1>7 DEF Waits

\* Jobs are claimed, work on rows and end, and the process stops.
LEMMA RunsWait ==
    ASSUME InventoryInv, HandTells,
           \/ \E e \in Event : StartRecalculation(e)
           \/ NothingToRecalculate \/ RecalculateRow \/ CompleteRecalculation
           \/ FailRecalculation \/ Stop
    PROVE  HandTells' /\ Waits
  <1>1. /\ UNCHANGED <<fact, queue>> /\ task' = NoTask
        /\ batch' = batch \/ batch' = {}
    <2>1. task = NoTask \/ Stop
      <3>1. run # NoRun => task = NoTask
        BY DEF InventoryInv, RunFollows
      <3>2. RecalculateRow \/ FailRecalculation \/ CompleteRecalculation => run # NoRun
        <4>1. NoRun.rows = {}
          BY DEF NoRun
        <4>2. RecalculateRow => run.rows # {}
          BY DEF RecalculateRow
        <4> QED
          BY <4>1, <4>2 DEF CompleteRecalculation, FailRecalculation
      <3> QED
        BY <3>1, <3>2 DEF StartRecalculation, NothingToRecalculate, Idle
    <2> QED
      BY <2>1 DEF StartRecalculation, NothingToRecalculate, Idle, stock, RecalculateRow,
         CompleteRecalculation, FailRecalculation, Stop
  <1>2. Repriced(ledger, ledger')
    <2>1. RecalculateRow \/ ledger' = ledger
      BY DEF StartRecalculation, NothingToRecalculate, stock, CompleteRecalculation,
         FailRecalculation, Stop
    <2> QED
      BY <2>1, RowReprices, NothingRepriced
  <1>3. HandTells'
    BY <1>1, HandNext DEF HandTells
  <1> QED
    BY <1>1, <1>2, <1>3 DEF Waits

\* Every step is of one of these shapes.
LEMMA InventoryShapes ==
    ASSUME InventoryInv, HandTells, InventoryNext
    PROVE  /\ HandTells'
           /\ \/ \E e \in Event : Receive(e) \/ Begins(e)
              \/ Writes \/ Ends \/ Waits
  <1>1. CASE \E e \in Event : Receive(e)
    BY <1>1, ReceivesTell
  <1>2. CASE \E e \in batch : Prepare(e) \/ RefuseHopeless(e) \/ FailToPrepare(e)
    BY <1>2, PreparesBegin, GivingUpWaits DEF RefuseHopeless, FailToPrepare
  <1>3. CASE ClaimPending \/ CreateStockDocument \/ CreateRecalculationJob \/ MarkProcessed
    BY <1>3, ClaimWaits, CreateWrites, JobWaits, MarkProcessedEnds
  <1>4. CASE FailToWrite \/ LoseAnswer
    BY <1>4, FailToWriteWaits, LostWrites
  <1>5. CASE \/ \E e \in Event : StartRecalculation(e)
             \/ NothingToRecalculate \/ RecalculateRow \/ CompleteRecalculation
             \/ FailRecalculation \/ Stop
    BY <1>5, RunsWait
  <1> QED
    BY <1>1, <1>2, <1>3, <1>4, <1>5 DEF InventoryNext, Work, Trouble

\* A document adds rows of its event.
LEMMA DocumentAdds ==
    ASSUME NEW rows \in Seq(LedgerRow), NEW more, NEW f, IsDocumentOf(more, f),
           NEW after, after = WithDocument(rows, more)
    PROVE  /\ after \in Seq(LedgerRow)
           /\ DOMAIN rows \subseteq DOMAIN after /\ \A i \in DOMAIN rows : after[i] = rows[i]
           /\ \A i \in DOMAIN after : i \in DOMAIN rows \/ after[i].event = f
  <1>1. more \in Seq(LedgerRow) /\ \A i \in DOMAIN more : more[i].event = f
    BY DEF IsDocumentOf
  <1>2. CASE after = rows
    BY <1>2
  <1>3. CASE after = rows \o more
    <2>1. \A i \in DOMAIN after : i \in DOMAIN rows \/ \E j \in DOMAIN more : after[i] = more[j]
      BY <1>3, <1>1, Appended
    <2>2. /\ DOMAIN rows \subseteq DOMAIN after /\ \A i \in DOMAIN rows : after[i] = rows[i]
          /\ after \in Seq(LedgerRow)
      BY <1>3, <1>1, Appended
    <2> QED
      BY <1>1, <2>1, <2>2
  <1> QED
    BY <1>2, <1>3 DEF WithDocument

\* It leaves the rows of the others.
LEMMA DocumentOfOthers ==
    ASSUME NEW rows \in Seq(LedgerRow), NEW more, NEW f, IsDocumentOf(more, f),
           NEW after, after = WithDocument(rows, more),
           NEW e, e # f
    PROVE  /\ Written(after, e) = Written(rows, e)
           /\ TookFirst(after, e) <=> TookFirst(rows, e)
           /\ \A origin : Wrote(after, e, origin) <=> Wrote(rows, e, origin)
  <1>1. /\ DOMAIN rows \subseteq DOMAIN after /\ \A i \in DOMAIN rows : after[i] = rows[i]
        /\ \A i \in DOMAIN after : i \in DOMAIN rows \/ after[i].event = f
    BY DocumentAdds
  <1>2. \A i : i \in DOMAIN after /\ after[i].event = e <=> i \in DOMAIN rows /\ rows[i].event = e
    BY <1>1
  <1>3. Written(after, e) = Written(rows, e)
    BY <1>2 DEF Written
  <1>4. TookFirst(after, e) <=> TookFirst(rows, e)
    BY <1>1, <1>2 DEF TookFirst
  <1>5. \A origin : Wrote(after, e, origin) <=> Wrote(rows, e, origin)
    BY <1>1, <1>2 DEF Wrote
  <1> QED
    BY <1>3, <1>4, <1>5

\* What was served of a line stays if the document has no serve of it.
LEMMA NotServed ==
    ASSUME NEW rows \in Seq(LedgerRow), NEW more \in Seq(LedgerRow), NEW l,
           \A i \in DOMAIN more :
              more[i].source \in {"ItemServed", "ItemServedCompensation"} => more[i].line # l,
           NEW after, after = WithDocument(rows, more)
    PROVE  ServedIn(after, l) = ServedIn(rows, l)
  <1>1. OfLine(more, l, "ItemServed", "OUT") = {} /\ OfLine(more, l, "ItemServedCompensation", "IN") = {}
    BY DEF OfLine
  <1>2. SumOf(more, {}) = 0
    BY SumOfNone
  <1>3. ServedIn(more, l) = 0
    <2>1. ServedIn(more, l) = SumOf(more, {}) - SumOf(more, {})
      BY <1>1 DEF ServedIn
    <2> QED
      BY <1>2, <2>1
  <1>4. ServedIn(rows \o more, l) = ServedIn(rows, l) + ServedIn(more, l) /\ ServedIn(rows, l) \in Int
    BY ServedAppended
  <1>5. ServedIn(rows \o more, l) = ServedIn(rows, l)
    BY <1>3, <1>4
  <1> QED
    BY <1>5 DEF WithDocument

\* The rows of its checks stay if the document has none of them.
LEMMA NotClosed ==
    ASSUME NEW rows \in Seq(LedgerRow), NEW more \in Seq(LedgerRow), NEW l,
           \A i \in DOMAIN more : more[i].source = "CheckClosed" => more[i].line # l,
           NEW after, after = WithDocument(rows, more)
    PROVE  /\ Closing(after, l) = Closing(rows, l)
           /\ SumOf(after, Closing(after, l)) = SumOf(rows, Closing(rows, l))
  <1>1. OfLine(more, l, "CheckClosed", "OUT") = {}
    BY DEF OfLine
  <1>2. SumOf(more, {}) = 0 /\ Shifted(Len(rows), {}) = {}
    BY SumOfNone DEF Shifted
  <1> DEFINE S == OfLine(rows, l, "CheckClosed", "OUT")
             T == OfLine(rows \o more, l, "CheckClosed", "OUT")
             U == OfLine(more, l, "CheckClosed", "OUT")
  <1>6. /\ T = S \cup Shifted(Len(rows), U)
        /\ SumOf(rows \o more, T) = SumOf(rows, S) + SumOf(more, U)
        /\ SumOf(rows, S) \in Nat
    BY OfLineAppended
  <1>7. U = {}
    BY <1>1
  <1> HIDE DEF S, T, U
  <1>3. /\ T = S \cup Shifted(Len(rows), {})
        /\ SumOf(rows \o more, T) = SumOf(rows, S) + SumOf(more, {})
        /\ SumOf(rows, S) \in Nat
    BY <1>6, <1>7
  <1>4. T = S
    BY <1>2, <1>3
  <1>5. SumOf(rows \o more, T) = SumOf(rows, S)
    <2>1. PICK a \in Nat : SumOf(rows, S) = a
      BY <1>3
    <2>2. SumOf(rows \o more, T) = a + 0
      BY <1>2, <1>3, <2>1
    <2> QED
      BY <2>1, <2>2
  <1> QED
    BY <1>4, <1>5 DEF WithDocument, Closing, S, T

\* The document in hand.
LEMMA InHandTells ==
    ASSUME InventoryInv, RowsTell, Writes, NEW more, more = task.documents[1],
           NEW f, f = task.event
    PROVE  /\ more \in Seq(LedgerRow) /\ more # <<>> /\ f \in Event /\ ledger \in Seq(LedgerRow)
           /\ IsDocumentOf(more, f) /\ \A i \in DOMAIN more : more[i].event = f
           /\ ledger' = WithDocument(ledger, more) /\ Tell(more)
           /\ queue[f] = "processing"
  <1>1. task # NoTask /\ task.documents # <<>> /\ InventoryTypeOK
    BY DEF Writes, InventoryInv
  <1>2. IsDocumentOf(more, f) /\ f \in Event /\ task.documents \in Seq(Seq(LedgerRow))
    BY <1>1, TaskTyped
  <1>3. 1 \in DOMAIN task.documents
    <2> DEFINE documents == task.documents
    <2>1. documents \in Seq(Seq(LedgerRow)) /\ documents # <<>>
      BY <1>1, <1>2
    <2> HIDE DEF documents
    <2>2. 1 \in DOMAIN documents
      BY <2>1
    <2> QED
      BY <2>2 DEF documents
  <1>4. Tell(more) /\ queue[f] = "processing"
    BY <1>1, <1>3 DEF RowsTell, HandTells
  <1> QED
    BY <1>1, <1>2, <1>4 DEF IsDocumentOf, Writes, InventoryTypeOK

\* What has arrived stays.
LEMMA ArrivedStay ==
    ASSUME InventoryInv, HandTells,
           (\E e \in Event : Receive(e) \/ Begins(e)) \/ Writes \/ Ends \/ Waits
    PROVE  /\ fact' = fact
           /\ \A e \in Event : queue[e] # "none" => queue'[e] # "none"
           /\ \/ \E e \in Event : Receive(e)
              \/ \A e \in Event : queue'[e] = "none" <=> queue[e] = "none"
  <1>1. queue \in [Event -> {"none", "pending", "processing", "processed", "failed"}]
    BY DEF InventoryInv, InventoryTypeOK
  <1>2. CASE \E e \in Event : Receive(e)
    BY <1>1, <1>2 DEF Receive
  <1>3. CASE \E e \in Event : Begins(e)
    BY <1>3 DEF Begins
  <1>4. CASE Writes \/ Ends
    <2>1. /\ task # NoTask /\ fact' = fact
          /\ \/ queue' = queue
             \/ queue' = [queue EXCEPT ![task.event] = "failed"]
             \/ queue' = [queue EXCEPT ![task.event] = "processed"]
      BY <1>4 DEF Writes, Ends
    <2>2. queue[task.event] = "processing"
      BY <2>1 DEF HandTells
    <2> QED
      BY <1>1, <2>1, <2>2
  <1>5. CASE Waits
    BY <1>5 DEF Waits
  <1> QED
    BY <1>2, <1>3, <1>4, <1>5

\* Rows go on telling.
LEMMA RowsGoOnTelling ==
    ASSUME InventoryInv, RowsTell, InventoryNext
    PROVE  RowsTell'
  <1>1. /\ HandTells' /\ HandTells
        /\ (\E e \in Event : Receive(e) \/ Begins(e)) \/ Writes \/ Ends \/ Waits
    BY InventoryShapes DEF RowsTell
  <1>2. fact' = fact /\ \A e \in Event : queue[e] # "none" => queue'[e] # "none"
    BY <1>1, ArrivedStay DEF RowsTell
  <1>3. \A rows : Tell(rows)' <=> Tell(rows)
    BY <1>2, LinesStay
  <1>4. ledger \in Seq(LedgerRow) /\ \A i \in DOMAIN ledger : ledger[i].event \in Event
    BY RowColumns DEF InventoryInv, InventoryTypeOK
  <1>6. ledger \in Seq(LedgerRow)
    BY <1>4
  <1>5. Tell(ledger') /\ \A i \in DOMAIN ledger' : queue'[ledger'[i].event] # "none"
    <2>1. Tell(ledger) /\ \A i \in DOMAIN ledger : queue[ledger[i].event] # "none"
      BY DEF RowsTell
    <2>2. CASE ledger' = ledger
      BY <1>2, <1>4, <2>1, <2>2
    <2>3. CASE Writes
      <3> DEFINE more == task.documents[1]
                 f == task.event
      <3>1. /\ more \in Seq(LedgerRow) /\ more # <<>> /\ f \in Event
            /\ IsDocumentOf(more, f)
            /\ ledger' = WithDocument(ledger, more) /\ Tell(more)
            /\ queue[f] = "processing"
        BY <2>3, InHandTells
      <3> HIDE DEF more, f
      <3> DEFINE after == ledger'
      <3>2. after = WithDocument(ledger, more)
        BY <3>1
      <3> HIDE DEF after
      <3>3. /\ DOMAIN ledger \subseteq DOMAIN after
            /\ \A i \in DOMAIN ledger : after[i] = ledger[i]
            /\ \A i \in DOMAIN after : i \in DOMAIN ledger \/ after[i].event = f
        BY <1>6, <3>1, <3>2, DocumentAdds
      <3>4. Tell(ledger \o more)
        BY <1>4, <2>1, <3>1, TellJoin
      <3>5. Tell(after) /\ \A i \in DOMAIN after : queue'[after[i].event] # "none"
        BY <1>2, <1>4, <2>1, <3>1, <3>2, <3>3, <3>4 DEF WithDocument
      <3> QED
        BY <3>5 DEF after
    <2>4. CASE Waits
      <3>1. Repriced(ledger, ledger')
        BY <2>4 DEF Waits
      <3>2. Tell(ledger')
        BY <2>1, <3>1, RepricedSame
      <3> QED
        BY <1>2, <1>4, <2>1, <3>1, <3>2 DEF Repriced
    <2> QED
      BY <1>1, <2>2, <2>3, <2>4 DEF Receive, Begins, Ends, stock
  <1> QED
    BY <1>1, <1>3, <1>5 DEF RowsTell, Tell, RowTells, Serves, Closes, EventsOf

\* The last serve of a line is superseded by none, and none after it wrote anything.
LEMMA LastLeads ==
    ASSUME InventoryTypeOK, RowsTell, NEW l, ServedInTurn(l), NEW e, IsLast(l, e)
    PROVE  ~Superseded(e) /\ Leads(l, e)
  <1>1. e \in Serves(l) /\ Serves(l) \subseteq Event /\ \A f \in Event : fact[f].at \in Nat
    BY FactColumns DEF IsLast, Arrived, Received, Serves, EventsOf
  <1>2. ASSUME NEW f \in Serves(l), fact[e].at < fact[f].at PROVE queue[f] = "none"
    <2>1. f \in Arrived(l) => f = e \/ fact[f].at < fact[e].at
      BY DEF IsLast
    <2>2. f \notin Arrived(l)
      BY <1>1, <1>2, <2>1
    <2> QED
      BY <2>2 DEF Arrived, Received, Serves
  <1>3. ~Superseded(e)
    <2> SUFFICES ASSUME NEW f \in Event, fact[f].supersedes = e, queue[f] # "none" PROVE FALSE
      BY DEF Superseded
    <2>1. ServedNext(l, e, f)
      BY <1>1 DEF ServedInTurn, Serves
    <2>2. f \in Serves(l) /\ fact[e].at < fact[f].at
      BY <2>1 DEF ServedNext, Serves
    <2> QED
      BY <1>2, <2>2
  <1>4. Leads(l, e)
    BY <1>2 DEF Leads, RowsTell, Written
  <1> QED
    BY <1>3, <1>4

\* A serve that supersedes none is the first of its line.
LEMMA FirstIsFirst ==
    ASSUME InventoryTypeOK, NEW l, ServedInTurn(l), NEW e \in Serves(l), First(e),
           NEW f \in Serves(l)
    PROVE  fact[e].at <= fact[f].at
  <1>1. /\ Serves(l) \subseteq Event /\ \A g \in Event : fact[g].at \in Nat
    BY FactColumns DEF Serves, EventsOf
  <1> SUFFICES ASSUME fact[f].at < fact[e].at PROVE FALSE
    BY <1>1
  <1> DEFINE before == {g \in Serves(l) : fact[g].at < fact[e].at}
             gaps == {fact[e].at - fact[g].at : g \in before}
  <1>2. PICK g \in before : \A h \in before : fact[h].at <= fact[g].at
    <2>1. gaps \in SUBSET Nat /\ gaps # {}
      BY <1>1
    <2> HIDE DEF gaps
    <2>2. PICK n \in gaps : \A m \in gaps : n <= m
      BY <2>1, LeastOfNumbers
    <2>3. PICK g \in before : n = fact[e].at - fact[g].at
      BY <2>2 DEF gaps
    <2>4. ASSUME NEW h \in before PROVE fact[h].at <= fact[g].at
      <3>1. n <= fact[e].at - fact[h].at
        BY <2>2 DEF gaps
      <3> QED
        BY <1>1, <2>3, <3>1
    <2> QED
      BY <2>4
  <1>3. ServedNext(l, g, e)
    <2>1. ASSUME NEW h \in Serves(l) PROVE fact[h].at <= fact[g].at \/ fact[e].at <= fact[h].at
      BY <1>1, <1>2
    <2> QED
      BY <1>2, <2>1 DEF ServedNext, Serves
  <1>4. fact[e].supersedes = g
    BY <1>1, <1>2, <1>3 DEF ServedInTurn, Serves
  <1> QED
    BY <1>1, <1>2, <1>4, CloudInventoryAssumption DEF First

\* Where nothing arrives, the last serve stays the last.
LEMMA LastsStay ==
    ASSUME fact' = fact, \A e \in Event : queue'[e] = "none" <=> queue[e] = "none", NEW l
    PROVE  /\ Arrived(l)' = Arrived(l)
           /\ \A e : IsLast(l, e)' <=> IsLast(l, e)
  <1>1. Serves(l)' = Serves(l) /\ Serves(l) \subseteq Event
    BY LinesStay DEF Serves, EventsOf
  <1>2. Arrived(l)' = Arrived(l)
    BY <1>1 DEF Arrived, Received, EventsOf
  <1>3. \A e : IsLast(l, e)' <=> IsLast(l, e)
    BY <1>1, <1>2 DEF IsLast
  <1> QED
    BY <1>2, <1>3

\* Where no serve writes, who leads stays the same.
LEMMA LeadsStay ==
    ASSUME fact' = fact, NEW l, \A e \in Serves(l) : Written(ledger', e) = Written(ledger, e)
    PROVE  \A e : Leads(l, e)' <=> Leads(l, e)
  <1>1. Serves(l)' = Serves(l)
    BY LinesStay
  <1>2. \A e : Written(ledger, e)' = Written(ledger', e)
    BY DEF Written
  <1> QED
    BY <1>1, <1>2 DEF Leads

\* A line none of whose serves wrote anything was not served.
LEMMA NothingServed ==
    ASSUME RowsTell, NEW l, \A e \in Serves(l) : Written(ledger, e) = {}
    PROVE  ServedIn(ledger, l) = 0
  <1>1. ASSUME NEW origin \in {"ItemServed", "ItemServedCompensation"}, NEW movement
        PROVE  OfLine(ledger, l, origin, movement) = {}
    <2> SUFFICES ASSUME NEW i \in OfLine(ledger, l, origin, movement) PROVE FALSE
      OBVIOUS
    <2>1. i \in DOMAIN ledger /\ ledger[i].line = l /\ ledger[i].source = origin
      BY DEF OfLine
    <2>2. ledger[i].event \in Serves(l)
      BY <2>1 DEF RowsTell, Tell, RowTells
    <2> QED
      BY <2>1, <2>2 DEF Written
  <1>2. SumOf(ledger, {}) = 0
    BY SumOfNone
  <1>3. ServedIn(ledger, l) = 0 - 0
    BY <1>1, <1>2 DEF ServedIn
  <1> QED
    BY <1>3

\* What an event that arrives leaves as it is.
LEMMA ArrivalLeaves ==
    ASSUME InventoryInv, NEW e \in Event, Receive(e), NEW l
    PROVE  /\ UNCHANGED <<fact, ledger, task, batch>> /\ queue[e] = "none"
           /\ queue'[e] \in {"pending", "processed"}
           /\ fact[e].type \in {"ItemServed", "CheckClosed"} => queue'[e] = "pending"
           /\ \A f \in Event : f # e => queue'[f] = queue[f]
           /\ Arrived(l) \subseteq Serves(l) /\ Serves(l) \subseteq Event
           /\ Arrived(l)' = Arrived(l) \cup (Serves(l) \cap {e}) /\ e \notin Arrived(l)
  <1>1. queue \in [Event -> {"none", "pending", "processing", "processed", "failed"}]
    BY DEF InventoryInv, InventoryTypeOK
  <1>2. /\ UNCHANGED <<fact, ledger, task, batch>> /\ queue[e] = "none"
        /\ queue'[e] \in {"pending", "processed"}
        /\ fact[e].type \in {"ItemServed", "CheckClosed"} => queue'[e] = "pending"
        /\ \A f \in Event : f # e => queue'[f] = queue[f]
    BY <1>1 DEF Receive, stock, Relevant
  <1>3. Arrived(l) \subseteq Serves(l) /\ Serves(l) \subseteq Event /\ Serves(l)' = Serves(l)
    BY <1>2, LinesStay DEF Arrived, Received, Serves, EventsOf
  <1>4. Arrived(l) = {f \in Serves(l) : queue[f] # "none"}
    BY DEF Arrived, Received, Serves
  <1>5. Arrived(l)' = {f \in Serves(l) : queue'[f] # "none"}
    BY <1>3 DEF Arrived, Received, Serves
  <1>6. Arrived(l)' = Arrived(l) \cup (Serves(l) \cap {e}) /\ e \notin Arrived(l)
    BY <1>2, <1>3, <1>4, <1>5
  <1> QED
    BY <1>2, <1>3, <1>6

\* A serve that arrives is the last one, or the one that was stays the last.
LEMMA LastAfterArrival ==
    ASSUME InventoryInv, NEW e \in Event, Receive(e), NEW l, ServedInTurn(l), ServesStand(l)
    PROVE  /\ Arrived(l)' = {} \/ \E f \in Arrived(l)' : IsLast(l, f)'
           /\ \A f : IsLast(l, f)' => f = e \/ IsLast(l, f)
  <1>1. /\ fact' = fact /\ Arrived(l) \subseteq Serves(l) /\ Serves(l) \subseteq Event
        /\ Arrived(l)' = Arrived(l) \cup (Serves(l) \cap {e}) /\ e \notin Arrived(l)
    BY ArrivalLeaves
  <1>2. \A f : IsLast(l, f)' <=>
           f \in Arrived(l)' /\ \A g \in Arrived(l)' : g = f \/ fact[g].at < fact[f].at
    BY <1>1 DEF IsLast
  <1>3. \A f, g \in Serves(l) : fact[f].at = fact[g].at => f = g
    BY DEF ServedInTurn, Serves
  <1>4. \A f \in Event : fact[f].at \in Nat
    BY FactColumns DEF InventoryInv
  <1>5. \A f : IsLast(l, f)' => f = e \/ IsLast(l, f)
    BY <1>1, <1>2 DEF IsLast
  <1>6. ASSUME Arrived(l) = {}
        PROVE  Arrived(l)' = {} \/ \E f \in Arrived(l)' : IsLast(l, f)'
    <2>1. Arrived(l)' = {} \/ Arrived(l)' = {e}
      BY <1>1, <1>6
    <2> QED
      BY <1>2, <2>1
  <1>7. ASSUME Arrived(l) # {}
        PROVE  \E f \in Arrived(l)' : IsLast(l, f)'
    <2>1. PICK f \in Arrived(l) : IsLast(l, f)
      BY <1>7 DEF ServesStand
    <2>2. CASE e \notin Serves(l)
      <3>1. Arrived(l)' = Arrived(l)
        BY <1>1, <2>2
      <3>2. IsLast(l, f)'
        BY <1>2, <2>1, <3>1 DEF IsLast
      <3> QED
        BY <2>1, <3>1, <3>2
    <2>3. CASE e \in Serves(l) /\ fact[e].at < fact[f].at
      <3>1. Arrived(l)' = Arrived(l) \cup {e}
        BY <1>1, <2>3
      <3>2. IsLast(l, f)'
        BY <1>2, <2>1, <2>3, <3>1 DEF IsLast
      <3> QED
        BY <2>1, <3>1, <3>2
    <2>4. CASE e \in Serves(l) /\ fact[f].at < fact[e].at
      <3>1. \A g \in Arrived(l) : fact[g].at < fact[e].at
        BY <1>1, <1>4, <2>1, <2>4 DEF IsLast
      <3>2. Arrived(l)' = Arrived(l) \cup {e}
        BY <1>1, <2>4
      <3>3. IsLast(l, e)'
        BY <1>2, <3>1, <3>2
      <3> QED
        BY <3>2, <3>3
    <2> QED
      BY <1>1, <1>3, <1>4, <2>1, <2>2, <2>3, <2>4
  <1> QED
    BY <1>5, <1>6, <1>7

-----------------------------------------------------------------------------
(* Inventory: serves.                                                      *)

\* What is served of a line as its events see it.
LEMMA ServedSame == ASSUME NEW l PROVE Served(l) = ServedIn(ledger, l)
  BY DEF Served, ServedIn, RowsOfLine, OfLine

\* A serve of an item of one unit.
LEMMA ServeOfOneUnit ==
    ASSUME InventoryTypeOK, NEW l, OfOneUnit(l), NEW e \in Serves(l)
    PROVE  /\ e \in Event /\ fact[e].line = l /\ fact[e].type = "ItemServed"
           /\ OneUnit(fact[e].item) /\ fact[e].quantity \in Nat
  BY FactColumns DEF Serves, EventsOf, OfOneUnit

\* A document of a positive quantity has one row of it.
LEMMA PositiveIsSingle ==
    ASSUME InventoryTypeOK, NEW l, NEW e \in Event, fact[e].line = l, OneUnit(fact[e].item),
           NEW origin \in Source, NEW movement \in Movement, NEW quantity \in Int
    PROVE  /\ ~(quantity > 0) => Positive(e, origin, movement, quantity) = <<>>
           /\ quantity > 0 =>
                 \E rows : /\ Positive(e, origin, movement, quantity) = <<rows>>
                           /\ Single(rows, l, e, origin, movement, quantity)
  <1>1. CASE quantity > 0
    <2>1. quantity \in Nat
      BY <1>1
    <2>2. Single(Expand(e, origin, movement, quantity), l, e, origin, movement, quantity)
      BY <2>1, ExpandSingle
    <2> QED
      BY <1>1, <2>2 DEF Positive
  <1>2. CASE ~(quantity > 0)
    BY <1>2 DEF Positive
  <1> QED
    BY <1>1, <1>2

\* One document.
LEMMA OneIs ==
    ASSUME NEW rows
    PROVE  Len(<<rows>>) = 1 /\ <<rows>>[1] = rows /\ <<rows>> # <<>>
  OBVIOUS

\* Two documents.
LEMMA TwoAre ==
    ASSUME NEW rows, NEW more
    PROVE  /\ Len(<<rows>> \o <<more>>) = 2 /\ <<rows>> \o <<more>> # <<>>
           /\ (<<rows>> \o <<more>>)[1] = rows /\ (<<rows>> \o <<more>>)[2] = more
  OBVIOUS

\* A document beside none.
LEMMA NoneBeside ==
    ASSUME NEW rows
    PROVE  <<rows>> \o <<>> = <<rows>> /\ <<>> \o <<rows>> = <<rows>> /\ <<>> \o <<>> = <<>>
  OBVIOUS

\* The documents of a serve: nothing when it is superseded or what it says is served, and
\* else, where no later serve wrote anything, what its line still has to get.
LEMMA ServeDocuments ==
    ASSUME InventoryInv, RowsTell, NEW l, ServedInTurn(l), OfOneUnit(l), NEW e \in Serves(l),
           queue[e] # "none", ServesStand(l), NEW documents, documents = Documents(e)
    PROVE  IF documents = <<>> THEN IsLast(l, e) => Done(ledger, l, e, fact[e].quantity)
           ELSE Leads(l, e) =>
                   InHandOf(ledger, l, e, fact[e].quantity, fact[e].supersedes, documents)
  <1> DEFINE served == ServedIn(ledger, l)
             quantity == fact[e].quantity
             in == Wrote(ledger, e, "ItemServedCompensation")
             out == Wrote(ledger, e, "ItemServed")
             took == TookFirst(ledger, e)
  <1>1. /\ InventoryTypeOK /\ e \in Event /\ fact[e].line = l /\ fact[e].type = "ItemServed"
        /\ OneUnit(fact[e].item) /\ quantity \in Nat
    BY ServeOfOneUnit DEF InventoryInv
  <1>2. documents = IF Superseded(e) THEN <<>>
                    ELSE IF fact[e].supersedes # "none" THEN SupersedingDocuments(e)
                    ELSE Positive(e, "ItemServed", "OUT", EffectiveQuantity(e))
    BY <1>1 DEF Documents, ItemServedDocuments
  <1>3. IsLast(l, e) => ~Superseded(e) /\ Leads(l, e)
    BY <1>1, LastLeads
  <1>4. quantity > 0
    BY DEF ServedInTurn, Serves
  <1>5. CASE Superseded(e)
    BY <1>2, <1>5, <1>3
  <1>6. CASE ~Superseded(e)
    <2> SUFFICES ASSUME Leads(l, e)
                 PROVE  IF documents = <<>> THEN Done(ledger, l, e, quantity)
                        ELSE InHandOf(ledger, l, e, quantity, fact[e].supersedes, documents)
      BY <1>3
    <2>1. e \in Arrived(l)
      BY DEF Arrived, Received, Serves
    <2>2. /\ out => served = quantity \/ took
          /\ in /\ ~out => served = 0
          /\ took => served = 0 /\ in /\ out
          /\ First(e) /\ ~out => served = 0
          /\ in => ~First(e)
      <3>1. Stands(ledger, l, e, quantity, fact[e].supersedes)
        BY <2>1 DEF ServesStand
      <3>2. in => ~First(e)
        BY DEF ServesStand
      <3>3. took => in /\ out
        BY TookFirstWrote
      <3> QED
        BY <3>1, <3>2, <3>3 DEF Stands, Done, First
    <2>3. served \in Nat
      <3>1. served = 0 \/ \E f \in Arrived(l) : served = fact[f].quantity
        BY DEF ServesStand
      <3>2. \A f \in Arrived(l) : fact[f].quantity \in Nat
        BY <1>1, FactColumns DEF Arrived, Received, EventsOf
      <3> QED
        BY <3>1, <3>2
    <2>4. Served(fact[e].line) = served
      BY <1>1, ServedSame
    <2>5. "ItemServed" \in Source /\ "ItemServedCompensation" \in Source /\ "OUT" \in Movement
          /\ "IN" \in Movement
      BY DEF Source, SaleEvent, Movement
    <2>6. CASE First(e)
      <3>1. documents = Positive(e, "ItemServed", "OUT", Subtract(quantity, served))
        BY <1>2, <1>6, <2>4, <2>6 DEF First, EffectiveQuantity
      <3>2. served = quantity \/ served = 0
        BY <2>2, <2>6
      <3>3. CASE served = quantity
        <4>1. Subtract(quantity, served) = 0
          BY <1>1, <3>3 DEF Subtract
        <4>2. documents = <<>>
          BY <1>1, <2>5, <3>1, <4>1, PositiveIsSingle
        <4>3. out
          BY <1>4, <2>2, <2>6, <3>3
        <4> QED
          BY <3>3, <4>2, <4>3 DEF Done
      <3>4. CASE served # quantity
        <4>1. served = 0 /\ quantity > 0 /\ Subtract(quantity, served) = quantity
          BY <1>1, <3>2, <3>4 DEF Subtract
        <4>2. PICK rows : /\ documents = <<rows>>
                          /\ Single(rows, l, e, "ItemServed", "OUT", quantity)
          BY <1>1, <2>5, <3>1, <4>1, PositiveIsSingle
        <4>3. Len(documents) = 1 /\ documents[1] = rows /\ documents # <<>>
          BY <4>2, OneIs
        <4>4. TakesOnly(ledger, l, e, quantity, documents)
          BY <2>2, <3>4, <4>1, <4>2, <4>3 DEF TakesOnly, Taking
        <4> QED
          BY <4>3, <4>4 DEF InHandOf
      <3> QED
        BY <3>3, <3>4
    <2>7. CASE ~First(e)
      <3> DEFINE a == Positive(e, "ItemServedCompensation", "IN", served)
                 b == Positive(e, "ItemServed", "OUT", quantity)
      <3>1. documents = a \o b
        BY <1>2, <1>6, <2>4, <2>7 DEF First, SupersedingDocuments
      <3>2. /\ ~(served > 0) => a = <<>>
            /\ served > 0 =>
                  \E rows : a = <<rows>> /\ Giving(rows, l, e, served)
        BY <1>1, <2>3, <2>5, PositiveIsSingle DEF Giving
      <3>3. /\ ~(quantity > 0) => b = <<>>
            /\ quantity > 0 =>
                  \E rows : b = <<rows>> /\ Taking(rows, l, e, quantity)
        BY <1>1, <2>5, PositiveIsSingle DEF Taking
      <3> HIDE DEF a, b
      <3>4. CASE served > 0
        <4>1. PICK rows, more : /\ a = <<rows>> /\ Giving(rows, l, e, served)
                                /\ b = <<more>> /\ Taking(more, l, e, quantity)
          BY <1>4, <3>2, <3>3, <3>4
        <4>2. Len(documents) = 2 /\ documents[1] = rows /\ documents[2] = more /\ documents # <<>>
          BY <3>1, <4>1, TwoAre
        <4>3. (~in /\ ~out) \/ (served = quantity /\ out)
          BY <1>4, <2>2, <3>4
        <4>4. GivesAndTakes(ledger, l, e, quantity, fact[e].supersedes, documents)
          BY <2>7, <4>1, <4>2, <4>3 DEF GivesAndTakes, First
        <4> QED
          BY <4>2, <4>4 DEF InHandOf
      <3>5. CASE ~(served > 0)
        <4>1. PICK rows : b = <<rows>> /\ Taking(rows, l, e, quantity)
          BY <1>4, <3>3
        <4>2. documents = <<rows>>
          BY <3>1, <3>2, <3>5, <4>1, NoneBeside
        <4>3. Len(documents) = 1 /\ documents[1] = rows /\ documents # <<>>
          BY <4>2, OneIs
        <4>4. served = 0 /\ served # quantity
          <5> HIDE DEF served, quantity
          <5> QED
            BY <1>4, <2>3, <3>5
        <4>5. ~out \/ took
          BY <2>2, <4>4
        <4>6. TakesOnly(ledger, l, e, quantity, documents)
          BY <4>1, <4>3, <4>4, <4>5 DEF TakesOnly
        <4> QED
          BY <4>3, <4>6 DEF InHandOf
      <3> QED
        BY <3>4, <3>5
    <2> QED
      BY <2>6, <2>7
  <1> QED
    BY <1>5, <1>6

\* What stands after a step.
LEMMA StandNext ==
    ASSUME fact' = fact, NEW l
    PROVE  ServesStand(l)' <=>
              /\ Arrived(l)' = {} \/ \E e \in Arrived(l)' : IsLast(l, e)'
              /\ \/ ServedIn(ledger', l) = 0
                 \/ \E e \in Arrived(l)' : ServedIn(ledger', l) = fact[e].quantity
              /\ \A e \in Serves(l) : Wrote(ledger', e, "ItemServedCompensation") => ~First(e)
              /\ \A e \in Arrived(l)' :
                    /\ Leads(l, e)' => Stands(ledger', l, e, fact[e].quantity, fact[e].supersedes)
                    /\ IsLast(l, e)' /\ queue'[e] = "processed" =>
                          Done(ledger', l, e, fact[e].quantity)
              /\ \A e \in Serves(l) : task' # NoTask /\ task'.event = e =>
                    IF task'.documents = <<>>
                    THEN IsLast(l, e)' => Done(ledger', l, e, fact[e].quantity)
                    ELSE Leads(l, e)' => InHandOf(ledger', l, e, fact[e].quantity,
                                                  fact[e].supersedes, task'.documents)
  <1>1. Serves(l)' = Serves(l) /\ \A e : First(e)' <=> First(e)
    BY LinesStay
  <1> QED
    BY <1>1 DEF ServesStand, NoTask, First

\* What rows say of a serve if they say the same of it and of its line.
LEMMA StandsSame ==
    ASSUME NEW rows, NEW after, NEW l, NEW e, ServedIn(after, l) = ServedIn(rows, l),
           \A origin : Wrote(after, e, origin) <=> Wrote(rows, e, origin),
           TookFirst(after, e) <=> TookFirst(rows, e), NEW quantity, NEW prior
    PROVE  /\ Stands(after, l, e, quantity, prior) <=> Stands(rows, l, e, quantity, prior)
           /\ Done(after, l, e, quantity) <=> Done(rows, l, e, quantity)
  BY DEF Stands, Done

\* Of an event that has not arrived there are no rows.
LEMMA NoRowsYet ==
    ASSUME RowsTell, NEW e, queue[e] = "none"
    PROVE  /\ Written(ledger, e) = {} /\ ~TookFirst(ledger, e)
           /\ \A origin : ~Wrote(ledger, e, origin)
  BY DEF RowsTell, Written, TookFirst, Wrote

\* Nothing of an event is written, and so nothing of it stands against what it says.
LEMMA NothingStands ==
    ASSUME NEW rows, NEW e, Written(rows, e) = {}
    PROVE  ~TookFirst(rows, e) /\ \A origin : ~Wrote(rows, e, origin)
  BY DEF Written, TookFirst, Wrote

\* A serve that arrives, or any other event.
LEMMA ArrivalStands ==
    ASSUME InventoryInv, RowsTell, NEW l, ServedInTurn(l), ServesStand(l),
           NEW e \in Event, Receive(e)
    PROVE  ServesStand(l)'
  <1>1. /\ UNCHANGED <<fact, ledger, task, batch>> /\ queue[e] = "none"
        /\ fact[e].type \in {"ItemServed", "CheckClosed"} => queue'[e] = "pending"
        /\ \A f \in Event : f # e => queue'[f] = queue[f]
        /\ Arrived(l) \subseteq Serves(l) /\ Serves(l) \subseteq Event
        /\ Arrived(l)' = Arrived(l) \cup (Serves(l) \cap {e})
    BY ArrivalLeaves
  <1>2. /\ Written(ledger, e) = {} /\ ~TookFirst(ledger, e)
        /\ \A origin : ~Wrote(ledger, e, origin)
    BY <1>1, NoRowsYet
  <1>3. /\ Arrived(l)' = {} \/ \E f \in Arrived(l)' : IsLast(l, f)'
        /\ \A f : IsLast(l, f)' => f = e \/ IsLast(l, f)
    BY LastAfterArrival
  <1>4. \A f : Leads(l, f)' <=> Leads(l, f)
    BY <1>1, LeadsStay
  <1>5. ServedIn(ledger, l) = 0 \/ \E f \in Arrived(l)' : ServedIn(ledger, l) = fact[f].quantity
    BY <1>1 DEF ServesStand
  <1>6. \A f \in Serves(l) : Wrote(ledger, f, "ItemServedCompensation") => ~First(f)
    BY DEF ServesStand
  <1>7. ASSUME NEW f \in Arrived(l)', Leads(l, f)
        PROVE  Stands(ledger, l, f, fact[f].quantity, fact[f].supersedes)
    <2>1. CASE f \in Arrived(l)
      BY <1>7, <2>1 DEF ServesStand
    <2>2. CASE f = e /\ e \in Serves(l)
      <3>1. ASSUME First(e) PROVE ServedIn(ledger, l) = 0
        <4>1. ASSUME NEW g \in Serves(l), g # e PROVE Written(ledger, g) = {}
          <5>1. fact[e].at <= fact[g].at /\ fact[e].at # fact[g].at
            BY <2>2, <3>1, <4>1, FirstIsFirst DEF InventoryInv, ServedInTurn, Serves
          <5>2. fact[e].at \in Nat /\ fact[g].at \in Nat
            BY <1>1, FactColumns DEF InventoryInv
          <5>3. fact[e].at < fact[g].at
            BY <5>1, <5>2
          <5> QED
            BY <1>7, <2>2, <5>3 DEF Leads
        <4> QED
          BY <1>2, <4>1, NothingServed
      <3> QED
        BY <1>2, <2>2, <3>1 DEF Stands, First
    <2> QED
      BY <1>1, <2>1, <2>2
  <1>8. ASSUME NEW f \in Arrived(l)', IsLast(l, f)', queue'[f] = "processed"
        PROVE  Done(ledger, l, f, fact[f].quantity)
    <2>1. f # e
      BY <1>1, <1>8 DEF Serves, EventsOf, Arrived, Received
    <2>2. f \in Arrived(l) /\ IsLast(l, f) /\ queue[f] = "processed"
      BY <1>1, <1>3, <1>8, <2>1
    <2> QED
      BY <2>2 DEF ServesStand
  <1>9. ASSUME NEW f \in Serves(l), task # NoTask, task.event = f
        PROVE  IF task.documents = <<>>
               THEN IsLast(l, f)' => Done(ledger, l, f, fact[f].quantity)
               ELSE Leads(l, f) => InHandOf(ledger, l, f, fact[f].quantity,
                                            fact[f].supersedes, task.documents)
    <2>1. f # e
      BY <1>1, <1>9 DEF RowsTell, HandTells
    <2> QED
      BY <1>3, <1>9, <2>1 DEF ServesStand
  <1> QED
    BY <1>1, <1>3, <1>4, <1>5, <1>6, <1>7, <1>8, <1>9, StandNext

\* A serve that is taken has what its line still has to get.
LEMMA BeginningStands ==
    ASSUME InventoryInv, RowsTell, NEW l, ServedInTurn(l), OfOneUnit(l), ServesStand(l),
           NEW e \in Event, Begins(e)
    PROVE  ServesStand(l)'
  <1>1. /\ UNCHANGED <<fact, queue, ledger>> /\ e \in batch /\ queue[e] = "processing"
        /\ task' # NoTask /\ task'.event = e
        /\ ~IsDocument(e) => task'.documents = Documents(e)
    BY DEF Begins, RowsTell, HandTells
  <1>2. /\ Arrived(l)' = Arrived(l) /\ \A f : IsLast(l, f)' <=> IsLast(l, f)
    BY <1>1, LastsStay
  <1>3. \A f : Leads(l, f)' <=> Leads(l, f)
    BY <1>1, LeadsStay
  <1>4. ASSUME e \in Serves(l)
        PROVE  IF task'.documents = <<>> THEN IsLast(l, e) => Done(ledger, l, e, fact[e].quantity)
               ELSE Leads(l, e) => InHandOf(ledger, l, e, fact[e].quantity,
                                            fact[e].supersedes, task'.documents)
    <2>1. task'.documents = Documents(e)
      BY <1>1, <1>4 DEF Serves, EventsOf, IsDocument, DocumentEvent
    <2> DEFINE documents == Documents(e)
    <2>2. documents = Documents(e) /\ queue[e] # "none"
      BY <1>1
    <2> HIDE DEF documents
    <2>3. IF documents = <<>> THEN IsLast(l, e) => Done(ledger, l, e, fact[e].quantity)
          ELSE Leads(l, e) =>
                  InHandOf(ledger, l, e, fact[e].quantity, fact[e].supersedes, documents)
      BY <1>4, <2>2, ServeDocuments
    <2> QED
      BY <2>1, <2>2, <2>3
  <1>5. /\ Arrived(l) = {} \/ \E f \in Arrived(l) : IsLast(l, f)
        /\ ServedIn(ledger, l) = 0 \/ \E f \in Arrived(l) : ServedIn(ledger, l) = fact[f].quantity
        /\ \A f \in Serves(l) : Wrote(ledger, f, "ItemServedCompensation") => ~First(f)
        /\ \A f \in Arrived(l) :
              /\ Leads(l, f) => Stands(ledger, l, f, fact[f].quantity, fact[f].supersedes)
              /\ IsLast(l, f) /\ queue[f] = "processed" => Done(ledger, l, f, fact[f].quantity)
    BY DEF ServesStand
  <1> QED
    BY <1>1, <1>2, <1>3, <1>4, <1>5, StandNext

\* What ends has done what it had to.
LEMMA EndingStands ==
    ASSUME InventoryInv, RowsTell, NEW l, ServesStand(l), Ends
    PROVE  ServesStand(l)'
  <1>1. /\ UNCHANGED <<fact, ledger>> /\ task # NoTask /\ task' = NoTask /\ task.documents = <<>>
        /\ queue' = [queue EXCEPT ![task.event] = "processed"] /\ queue[task.event] = "processing"
        /\ queue \in [Event -> {"none", "pending", "processing", "processed", "failed"}]
    BY DEF Ends, RowsTell, HandTells, InventoryInv, InventoryTypeOK
  <1>2. /\ Arrived(l)' = Arrived(l) /\ \A f : IsLast(l, f)' <=> IsLast(l, f)
    <2>1. \A e \in Event : queue'[e] = "none" <=> queue[e] = "none"
      BY <1>1
    <2> QED
      BY <1>1, <2>1, LastsStay
  <1>3. ASSUME NEW e \in Arrived(l), IsLast(l, e), queue'[e] = "processed"
        PROVE  Done(ledger, l, e, fact[e].quantity)
    <2>1. e \in Serves(l) /\ e \in Event
      BY <1>3 DEF Arrived, Received, Serves, EventsOf
    <2>2. CASE e = task.event
      BY <1>1, <1>3, <2>1, <2>2 DEF ServesStand
    <2>3. CASE e # task.event
      <3>1. queue[e] = "processed"
        BY <1>1, <1>3, <2>1, <2>3
      <3> QED
        BY <1>3, <3>1 DEF ServesStand
    <2> QED
      BY <2>2, <2>3
  <1>4. \A e : Leads(l, e)' <=> Leads(l, e)
    BY <1>1, LeadsStay
  <1> QED
    BY <1>1, <1>2, <1>3, <1>4, StandNext DEF ServesStand

\* Rows that are priced say the same of lines.
LEMMA WaitingStands ==
    ASSUME InventoryInv, NEW l, ServesStand(l), Waits
    PROVE  ServesStand(l)'
  <1>1. /\ fact' = fact /\ Repriced(ledger, ledger')
        /\ \A e \in Event : \/ queue'[e] = queue[e]
                            \/ queue[e] # "none" /\ queue'[e] \in {"processing", "failed"}
        /\ task' # NoTask => IsDocument(task'.event)
    BY DEF Waits
  <1>2. /\ Arrived(l)' = Arrived(l) /\ \A f : IsLast(l, f)' <=> IsLast(l, f)
    <2>1. \A e \in Event : queue'[e] = "none" <=> queue[e] = "none"
      BY <1>1
    <2> QED
      BY <1>1, <2>1, LastsStay
  <1> DEFINE after == ledger'
  <1>3. /\ ServedIn(after, l) = ServedIn(ledger, l)
        /\ \A e, origin : Wrote(after, e, origin) <=> Wrote(ledger, e, origin)
        /\ \A e : TookFirst(after, e) <=> TookFirst(ledger, e)
        /\ \A e : Written(after, e) = Written(ledger, e)
    BY <1>1, RepricedSame
  <1>4. \A e : Leads(l, e)' <=> Leads(l, e)
    BY <1>1, <1>3, LeadsStay
  <1> HIDE DEF after
  <1>5. \A e, quantity, prior :
           /\ Stands(after, l, e, quantity, prior) <=> Stands(ledger, l, e, quantity, prior)
           /\ Done(after, l, e, quantity) <=> Done(ledger, l, e, quantity)
    BY <1>3, StandsSame
  <1>6. task' # NoTask => task'.event \notin Serves(l)
    BY <1>1 DEF IsDocument, DocumentEvent, Serves, EventsOf
  <1>7. \A e \in Arrived(l) : queue'[e] = "processed" => queue[e] = "processed"
    BY <1>1 DEF Arrived, Received, EventsOf
  <1>8. /\ ServedIn(after, l) = 0 \/ \E e \in Arrived(l) : ServedIn(after, l) = fact[e].quantity
        /\ \A e \in Serves(l) : Wrote(after, e, "ItemServedCompensation") => ~First(e)
        /\ \A e \in Arrived(l) :
              /\ Leads(l, e) => Stands(after, l, e, fact[e].quantity, fact[e].supersedes)
              /\ IsLast(l, e) /\ queue'[e] = "processed" => Done(after, l, e, fact[e].quantity)
        /\ Arrived(l) = {} \/ \E e \in Arrived(l) : IsLast(l, e)
    BY <1>3, <1>5, <1>7 DEF ServesStand
  <1> QED
    BY <1>1, <1>2, <1>6, <1>8, <1>4, StandNext DEF after

\* A serve behind a later one that wrote something writes nothing, where serves write in
\* turn.
LEMMA LateWritesNothing ==
    ASSUME InventoryInv, RowsTell, NEW l, Writes, task.event \in Serves(l),
           ~Leads(l, task.event), WrittenInTurn(l)'
    PROVE  ledger' = ledger
  <1> DEFINE more == task.documents[1]
             f == task.event
             after == ledger'
             n == Len(ledger)
  <1>1. /\ after = WithDocument(ledger, more) /\ ledger \in Seq(LedgerRow)
        /\ more \in Seq(LedgerRow) /\ more # <<>> /\ \A i \in DOMAIN more : more[i].event = f
        /\ f \in Event
    BY InHandTells
  <1>2. PICK g \in Serves(l) : fact[f].at < fact[g].at /\ Written(ledger, g) # {}
    BY DEF Leads
  <1>3. PICK i \in DOMAIN ledger : ledger[i].event = g
    BY <1>2 DEF Written
  <1>4. /\ f \in EventsOf(l, "ItemServed") /\ g \in EventsOf(l, "ItemServed")
        /\ fact[f].at \in Nat /\ fact[g].at \in Nat
    BY <1>1, FactColumns DEF Serves, EventsOf, InventoryInv
  <1>5. \A j, k \in DOMAIN after :
           j < k /\ {after[j].event, after[k].event} \subseteq EventsOf(l, "ItemServed") =>
              fact[after[j].event].at <= fact[after[k].event].at
    <2>1. fact' = fact
      BY DEF Writes
    <2> QED
      BY <2>1 DEF WrittenInTurn, EventsOf
  <1> SUFFICES ASSUME after = ledger \o more PROVE FALSE
    BY <1>1 DEF WithDocument
  <1>6. /\ n + 1 \in DOMAIN after /\ after[n + 1] = more[1] /\ 1 \in DOMAIN more
        /\ i \in DOMAIN after /\ after[i] = ledger[i] /\ i < n + 1
    <2>1. 1 \in DOMAIN more
      BY <1>1
    <2>2. /\ \A j \in DOMAIN more :
                n + j \in DOMAIN (ledger \o more) /\ (ledger \o more)[n + j] = more[j]
          /\ \A j \in DOMAIN ledger :
                j \in DOMAIN (ledger \o more) /\ (ledger \o more)[j] = ledger[j]
      BY <1>1, Appended
    <2>3. i \in 1..n /\ n \in Nat
      BY <1>1, <1>3
    <2> HIDE DEF more, n, after
    <2>4. n + 1 \in DOMAIN after /\ after[n + 1] = more[1]
      BY <2>1, <2>2
    <2>5. i \in DOMAIN after /\ after[i] = ledger[i]
      BY <1>3, <2>2
    <2>6. i < n + 1
      BY <2>3
    <2> QED
      BY <2>1, <2>4, <2>5, <2>6
  <1>7. after[n + 1].event = f /\ after[i].event = g
    BY <1>1, <1>3, <1>6
  <1> HIDE DEF n, after, f, more
  <1>8. fact[g].at <= fact[f].at
    BY <1>4, <1>5, <1>6, <1>7
  <1> QED
    BY <1>2, <1>4, <1>8

\* What a serve of the line does to what stands when it writes nothing.
LEMMA LateStands ==
    ASSUME InventoryInv, RowsTell, NEW l, ServedInTurn(l), ServesStand(l), Writes,
           task.event \in Serves(l), ~Leads(l, task.event), ledger' = ledger
    PROVE  ServesStand(l)'
  <1> DEFINE f == task.event
  <1>1. /\ fact' = fact /\ f \in Event /\ queue[f] = "processing"
        /\ \/ queue' = queue /\ task' # NoTask /\ task'.event = f
           \/ queue' = [queue EXCEPT ![f] = "failed"] /\ task' = NoTask
        /\ queue \in [Event -> {"none", "pending", "processing", "processed", "failed"}]
    BY InHandTells DEF Writes, InventoryInv, InventoryTypeOK
  <1>2. Arrived(l)' = Arrived(l) /\ \A e : IsLast(l, e)' <=> IsLast(l, e)
    <2>1. \A e \in Event : queue'[e] = "none" <=> queue[e] = "none"
      BY <1>1
    <2> QED
      BY <1>1, <2>1, LastsStay
  <1>3. \A e : Leads(l, e)' <=> Leads(l, e)
    BY <1>1, LeadsStay
  <1>4. \A e \in Event : queue'[e] = "processed" => queue[e] = "processed"
    BY <1>1
  <1>5. ~Leads(l, f) /\ ~IsLast(l, f)
    BY LastLeads DEF InventoryInv
  <1>6. /\ Arrived(l) = {} \/ \E e \in Arrived(l) : IsLast(l, e)
        /\ ServedIn(ledger, l) = 0 \/ \E e \in Arrived(l) : ServedIn(ledger, l) = fact[e].quantity
        /\ \A e \in Serves(l) : Wrote(ledger, e, "ItemServedCompensation") => ~First(e)
    BY DEF ServesStand
  <1>7. \A e \in Arrived(l) :
           /\ Leads(l, e) => Stands(ledger, l, e, fact[e].quantity, fact[e].supersedes)
           /\ IsLast(l, e) /\ queue'[e] = "processed" => Done(ledger, l, e, fact[e].quantity)
    BY <1>4 DEF ServesStand, Arrived, Received, EventsOf
  <1>8. \A e \in Serves(l) : task' # NoTask /\ task'.event = e => ~Leads(l, e) /\ ~IsLast(l, e)
    BY <1>1, <1>5
  <1> QED
    BY <1>1, <1>2, <1>3, <1>6, <1>7, <1>8, StandNext

\* The document of the serve of the line that leads.
LEMMA ServeStands ==
    ASSUME InventoryInv, RowsTell, NEW l, ServedInTurn(l), ServesStand(l), Writes,
           task.event \in Serves(l), Leads(l, task.event)
    PROVE  ServesStand(l)'
  <1> DEFINE f == task.event
             documents == task.documents
             more == documents[1]
             quantity == fact[f].quantity
             prior == fact[f].supersedes
             after == ledger'
  <1>1. /\ task # NoTask /\ documents # <<>> /\ fact' = fact
        /\ \/ /\ queue' = queue /\ task' # NoTask /\ task'.event = f
              /\ ~IsDocument(f) => task'.documents = Tail(documents)
           \/ queue' = [queue EXCEPT ![f] = "failed"] /\ task' = NoTask
    BY DEF Writes
  <1>2. /\ f \in Event /\ f \in Serves(l) /\ ~IsDocument(f) /\ quantity \in Nat
    BY FactColumns DEF InventoryInv, Serves, EventsOf, IsDocument, DocumentEvent
  <1>3. documents \in Seq(Seq(LedgerRow)) /\ ledger \in Seq(LedgerRow)
    BY <1>1, TaskTyped DEF InventoryInv, InventoryTypeOK
  <1>4. /\ IsDocumentOf(more, f) /\ after = WithDocument(ledger, more) /\ queue[f] = "processing"
    BY InHandTells
  <1>5. InHandOf(ledger, l, f, quantity, prior, documents)
    BY <1>1, <1>2 DEF ServesStand
  <1>6. queue \in [Event -> {"none", "pending", "processing", "processed", "failed"}]
    BY DEF InventoryInv, InventoryTypeOK
  <1>7. /\ Arrived(l)' = Arrived(l) /\ \A e : IsLast(l, e)' <=> IsLast(l, e)
    <2>1. \A e \in Event : queue'[e] = "none" <=> queue[e] = "none"
      BY <1>1, <1>4, <1>6
    <2> QED
      BY <1>1, <2>1, LastsStay
  <1>8. f \in Arrived(l) /\ Arrived(l) \subseteq Serves(l) /\ Serves(l) \subseteq Event
    BY <1>2, <1>4 DEF Arrived, Received, Serves, EventsOf
  <1>9. Leads(l, f)
    OBVIOUS
  <1>10. \A e \in Serves(l) : fact[e].at \in Nat /\ (fact[e].at = fact[f].at => e = f)
    BY <1>2, <1>8, FactColumns DEF InventoryInv, ServedInTurn, Serves
  <1> HIDE DEF f, documents, more, quantity, prior, after
  <1>11. after = WithDocument(ledger, documents[1])
    BY <1>4 DEF more
  <1>12. /\ IF Len(documents) = 1 THEN Done(after, l, f, quantity)
            ELSE InHandOf(after, l, f, quantity, prior, Tail(documents))
         /\ Len(documents) = 1 => Tail(documents) = <<>>
         /\ Len(documents) # 1 => Tail(documents) # <<>>
         /\ ServedIn(after, l) \in {ServedIn(ledger, l), 0, quantity}
         /\ Wrote(after, f, "ItemServedCompensation") =>
               Wrote(ledger, f, "ItemServedCompensation") \/ prior # "none"
         /\ Stands(ledger, l, f, quantity, prior) => Stands(after, l, f, quantity, prior)
    <2>1. quantity \in Nat
      BY <1>2
    <2>2. InHandOf(ledger, l, f, quantity, prior, documents)
      BY <1>5
    <2>3. LET rows == WithDocument(ledger, documents[1])
          IN  /\ IF Len(documents) = 1 THEN Done(rows, l, f, quantity)
                 ELSE InHandOf(rows, l, f, quantity, prior, Tail(documents))
              /\ Len(documents) = 1 => Tail(documents) = <<>>
              /\ Len(documents) # 1 => Tail(documents) # <<>>
              /\ ServedIn(rows, l) \in {ServedIn(ledger, l), 0, quantity}
              /\ Wrote(rows, f, "ItemServedCompensation") =>
                    Wrote(ledger, f, "ItemServedCompensation") \/ prior # "none"
              /\ Stands(ledger, l, f, quantity, prior) => Stands(rows, l, f, quantity, prior)
      BY <1>3, <2>1, <2>2, ServeIsWritten
    <2> QED
      BY <1>11, <2>3
  <1>13. ASSUME NEW e, e # f
         PROVE  /\ Written(after, e) = Written(ledger, e)
                /\ TookFirst(after, e) <=> TookFirst(ledger, e)
                /\ \A origin : Wrote(after, e, origin) <=> Wrote(ledger, e, origin)
    <2>1. ledger \in Seq(LedgerRow)
      BY <1>3
    <2> QED
      BY <1>4, <1>13, <2>1, DocumentOfOthers
  <1>14. ServedIn(after, l) = 0 \/ \E e \in Arrived(l) : ServedIn(after, l) = fact[e].quantity
    BY <1>8, <1>12 DEF ServesStand, quantity
  <1>15. ASSUME NEW e \in Serves(l), Wrote(after, e, "ItemServedCompensation") PROVE ~First(e)
    <2>1. CASE e = f
      BY <1>2, <1>12, <1>15, <2>1 DEF ServesStand, prior, First
    <2>2. CASE e # f
      BY <1>13, <1>15, <2>2 DEF ServesStand
    <2> QED
      BY <2>1, <2>2
  <1>16. \A e : Leads(l, e)' <=> \A g \in Serves(l) : fact[e].at < fact[g].at => Written(after, g) = {}
    <2>1. \A e : Written(ledger, e)' = Written(after, e)
      BY DEF Written, after
    <2>2. Serves(l)' = Serves(l)
      BY <1>1, LinesStay
    <2> QED
      BY <1>1, <2>1, <2>2 DEF Leads
  <1>17. ASSUME NEW e \in Arrived(l), Leads(l, e)'
         PROVE  Stands(after, l, e, fact[e].quantity, fact[e].supersedes)
    <2>1. CASE e = f
      <3>1. Stands(ledger, l, f, quantity, prior)
        BY <1>8, <1>9 DEF ServesStand, quantity, prior
      <3> QED
        BY <1>12, <2>1, <3>1 DEF quantity, prior
    <2>2. CASE e # f /\ fact[f].at < fact[e].at
      <3>1. Written(ledger, e) = {}
        BY <1>8, <1>9, <2>2 DEF Leads
      <3>2. Written(after, e) = {}
        BY <1>13, <2>2, <3>1
      <3>3. ~TookFirst(after, e) /\ \A origin : ~Wrote(after, e, origin)
        BY <3>2, NothingStands
      <3>4. ~First(e)
        <4>1. First(e) => fact[e].at <= fact[f].at
          BY <1>2, <1>8, FirstIsFirst DEF InventoryInv
        <4> QED
          BY <1>2, <1>8, <1>10, <2>2, <4>1
      <3> QED
        BY <3>3, <3>4 DEF Stands, First
    <2>3. CASE e # f /\ fact[e].at < fact[f].at
      <3>1. Leads(l, e) /\ Written(after, f) = {}
        <4>1. \A g \in Serves(l) : fact[e].at < fact[g].at => Written(after, g) = {}
          BY <1>17, <1>16
        <4>2. Written(after, f) = {}
          BY <1>2, <2>3, <4>1
        <4>3. \A i \in DOMAIN ledger : i \in DOMAIN after /\ after[i] = ledger[i]
          BY <1>3, <1>4, DocumentAdds
        <4>4. Written(ledger, f) = {}
          BY <4>2, <4>3 DEF Written
        <4>5. ASSUME NEW g \in Serves(l), fact[e].at < fact[g].at PROVE Written(ledger, g) = {}
          <5>1. CASE g = f
            BY <4>4, <5>1
          <5>2. CASE g # f
            BY <1>13, <4>1, <4>5, <5>2
          <5> QED
            BY <5>1, <5>2
        <4> QED
          BY <4>2, <4>5 DEF Leads
      <3>2. after = ledger
        <4> SUFFICES ASSUME after = ledger \o more PROVE FALSE
          BY <1>4 DEF WithDocument
        <4>1. more # <<>> /\ more \in Seq(LedgerRow) /\ \A i \in DOMAIN more : more[i].event = f
          BY <1>4 DEF IsDocumentOf
        <4>2. 1 \in DOMAIN more
          BY <4>1
        <4>3. \A j \in DOMAIN more : /\ Len(ledger) + j \in DOMAIN (ledger \o more)
                                    /\ (ledger \o more)[Len(ledger) + j] = more[j]
          BY <1>3, <4>1, Appended
        <4>4. Len(ledger) + 1 \in Written(after, f)
          BY <4>1, <4>2, <4>3 DEF Written
        <4> QED
          BY <3>1, <4>4
      <3>3. Stands(ledger, l, e, fact[e].quantity, fact[e].supersedes)
        BY <3>1 DEF ServesStand
      <3> QED
        BY <3>2, <3>3
    <2> QED
      BY <1>2, <1>8, <1>10, <2>1, <2>2, <2>3
  <1>18. ASSUME NEW e \in Arrived(l), IsLast(l, e) PROVE queue'[e] # "processed"
    <2>1. CASE e = f
      BY <1>1, <1>2, <1>4, <1>6, <2>1
    <2>2. CASE e # f
      <3>1. fact[f].at < fact[e].at
        BY <1>8, <1>18, <2>2 DEF IsLast
      <3>2. Written(ledger, e) = {}
        BY <1>8, <1>9, <3>1 DEF Leads
      <3>3. ~Wrote(ledger, e, "ItemServed")
        BY <3>2, NothingStands
      <3>4. queue[e] # "processed"
        BY <1>18, <3>3 DEF ServesStand, Done
      <3> QED
        BY <1>1, <1>2, <1>6, <1>8, <2>2, <3>4
    <2> QED
      BY <2>1, <2>2
  <1>19. task' # NoTask =>
            /\ task'.event = f /\ task'.documents = Tail(documents)
    BY <1>1, <1>2
  <1>20. IF Tail(documents) = <<>> THEN Done(after, l, f, quantity)
         ELSE InHandOf(after, l, f, quantity, prior, Tail(documents))
    BY <1>12
  <1> DEFINE t == Tail(documents)
  <1> HIDE DEF t
  <1>21. ASSUME NEW e \in Serves(l), task' # NoTask, task'.event = e
         PROVE  IF task'.documents = <<>> THEN Done(after, l, e, fact[e].quantity)
                ELSE InHandOf(after, l, e, fact[e].quantity, fact[e].supersedes, task'.documents)
    <2>1. e = f /\ task'.documents = t
      BY <1>19, <1>21 DEF t
    <2>2. IF t = <<>> THEN Done(after, l, f, quantity)
          ELSE InHandOf(after, l, f, quantity, prior, t)
      BY <1>20 DEF t
    <2>3. fact[e].supersedes = prior /\ fact[e].quantity = quantity
      BY <2>1 DEF prior, quantity
    <2> QED
      BY <2>1, <2>2, <2>3
  <1>22. Arrived(l) = {} \/ \E e \in Arrived(l) : IsLast(l, e)
    BY DEF ServesStand
  <1> QED
    BY <1>1, <1>7, <1>14, <1>15, <1>17, <1>21, <1>22, <1>18, StandNext DEF after

\* The document of any other event.
LEMMA OtherStands ==
    ASSUME InventoryInv, RowsTell, NEW l, ServesStand(l), Writes, task.event \notin Serves(l)
    PROVE  ServesStand(l)'
  <1> DEFINE f == task.event
             more == task.documents[1]
             after == ledger'
  <1>1. /\ task # NoTask /\ fact' = fact
        /\ \/ queue' = queue /\ task' # NoTask /\ task'.event = f
           \/ queue' = [queue EXCEPT ![f] = "failed"] /\ task' = NoTask
    BY DEF Writes
  <1>2. /\ IsDocumentOf(more, f) /\ after = WithDocument(ledger, more) /\ queue[f] = "processing"
        /\ Tell(more) /\ f \in Event /\ ledger \in Seq(LedgerRow) /\ more \in Seq(LedgerRow)
        /\ \A i \in DOMAIN more : more[i].event = f
    BY InHandTells
  <1>3. queue \in [Event -> {"none", "pending", "processing", "processed", "failed"}]
    BY DEF InventoryInv, InventoryTypeOK
  <1>4. /\ Arrived(l)' = Arrived(l) /\ \A e : IsLast(l, e)' <=> IsLast(l, e)
    <2>1. \A e \in Event : queue'[e] = "none" <=> queue[e] = "none"
      BY <1>1, <1>2, <1>3
    <2> QED
      BY <1>1, <2>1, LastsStay
  <1>5. \A i \in DOMAIN more :
           more[i].source \in {"ItemServed", "ItemServedCompensation"} => more[i].line # l
    BY <1>2 DEF Tell, RowTells
  <1>6. f \notin Serves(l)
    OBVIOUS
  <1> HIDE DEF f, more, after
  <1>7. ServedIn(after, l) = ServedIn(ledger, l)
    BY <1>2, <1>5, NotServed
  <1>8. ASSUME NEW e \in Serves(l)
        PROVE  /\ \A origin : Wrote(after, e, origin) <=> Wrote(ledger, e, origin)
               /\ TookFirst(after, e) <=> TookFirst(ledger, e)
               /\ Written(after, e) = Written(ledger, e)
               /\ queue'[e] = queue[e]
    <2>1. e # f /\ e \in Event
      BY <1>6 DEF Serves, EventsOf
    <2>2. queue'[e] = queue[e]
      BY <1>1, <1>3, <2>1
    <2> QED
      BY <1>2, <2>1, <2>2, DocumentOfOthers
  <1>9. ASSUME NEW e \in Serves(l), NEW quantity, NEW prior
        PROVE  /\ Stands(after, l, e, quantity, prior) <=> Stands(ledger, l, e, quantity, prior)
               /\ Done(after, l, e, quantity) <=> Done(ledger, l, e, quantity)
    BY <1>7, <1>8, StandsSame
  <1>10. Arrived(l) \subseteq Serves(l)
    BY DEF Arrived, Received, Serves
  <1>11. /\ ServedIn(after, l) = 0 \/ \E e \in Arrived(l) : ServedIn(after, l) = fact[e].quantity
         /\ \A e \in Serves(l) : Wrote(after, e, "ItemServedCompensation") => ~First(e)
         /\ \A e \in Arrived(l) :
               /\ Leads(l, e) => Stands(after, l, e, fact[e].quantity, fact[e].supersedes)
               /\ IsLast(l, e) /\ queue'[e] = "processed" => Done(after, l, e, fact[e].quantity)
         /\ Arrived(l) = {} \/ \E e \in Arrived(l) : IsLast(l, e)
    BY <1>7, <1>8, <1>9, <1>10 DEF ServesStand
  <1>12. task' # NoTask => task'.event \notin Serves(l)
    BY <1>1, <1>6
  <1>13. \A e : Leads(l, e)' <=> Leads(l, e)
    BY <1>1, <1>8, LeadsStay DEF after
  <1> QED
    BY <1>1, <1>4, <1>11, <1>12, <1>13, StandNext DEF after

-----------------------------------------------------------------------------
(* Inventory: the check after the serves.                                  *)

\* What is said of a check after a step.
LEMMA CloseNext ==
    ASSUME fact' = fact, NEW l
    PROVE  CloseStands(l)' <=>
              \A c \in Closes(l) :
                 /\ Wrote(ledger', c, "CheckClosed") => Closing(ledger', l) # {}
                 /\ Closing(ledger', l) # {} /\ AfterServes(l)' =>
                       SumOf(ledger', Closing(ledger', l)) =
                          Subtract(fact[c].quantity, ServedIn(ledger', l))
                 /\ SameQuantity(l) /\ queue'[c] = "processed" =>
                       Closing(ledger', l) # {} \/ NothingLeft(l, c)'
                 /\ task' # NoTask /\ task'.event = c =>
                       IF task'.documents = <<>>
                       THEN SameQuantity(l) => Closing(ledger', l) # {} \/ NothingLeft(l, c)'
                       ELSE /\ Len(task'.documents) = 1
                            /\ Adds(task'.documents[1], l, c,
                                    Subtract(fact[c].quantity, ServedIn(ledger', l)))
  <1>1. Closes(l)' = Closes(l) /\ (SameQuantity(l)' <=> SameQuantity(l))
    BY LinesStay
  <1> QED
    BY <1>1 DEF CloseStands, NoTask

\* What a step that only adds rows and serves says of the order of the rows.
LEMMA OrderOfCheck ==
    ASSUME fact' = fact, NEW l, Closing(ledger', l) = Closing(ledger, l),
           DOMAIN ledger \subseteq DOMAIN ledger',
           \A i \in DOMAIN ledger : ledger'[i].event = ledger[i].event,
           Arrived(l) \subseteq Arrived(l)'
    PROVE  /\ AfterServes(l)' => AfterServes(l)
           /\ \A c : NothingLeft(l, c) => NothingLeft(l, c)'
  <1>1. Serves(l)' = Serves(l)
    BY LinesStay
  <1>2. ASSUME AfterServes(l)' PROVE AfterServes(l)
    <2>1. \A i \in Closing(ledger', l), j \in DOMAIN ledger' :
             ledger'[j].event \in Arrived(l)' => j < i
      BY <1>2 DEF AfterServes
    <2> QED
      BY <2>1 DEF AfterServes
  <1>3. \A c : NothingLeft(l, c) => NothingLeft(l, c)'
    BY <1>1 DEF NothingLeft
  <1> QED
    BY <1>2, <1>3

\* The document of a check: what was not served of its line, in one row.
LEMMA CloseDocuments ==
    ASSUME InventoryInv, NEW l \in Line, OfOneUnit(l), NEW c \in Closes(l), ServesStand(l),
           NEW documents, documents = Documents(c)
    PROVE  IF documents = <<>>
           THEN SameQuantity(l) => NothingLeft(l, c)
           ELSE /\ Len(documents) = 1
                /\ Adds(documents[1], l, c, Subtract(fact[c].quantity, ServedIn(ledger, l)))
  <1> DEFINE quantity == fact[c].quantity
             served == ServedIn(ledger, l)
             rest == DeltaQuantity(c)
             a == Expand(c, "CheckClosed", "OUT", rest)
             b == Modifiers(c, "CheckClosed", "OUT", rest)
             more == a \o b
  <1>1. /\ InventoryTypeOK /\ c \in Event /\ fact[c].type = "CheckClosed" /\ fact[c].line = l
        /\ OneUnit(fact[c].item) /\ quantity \in Nat /\ l # "none"
    BY FactColumns DEF InventoryInv, Closes, EventsOf, OfOneUnit, Line
  <1>2. documents = IF rest = 0 THEN <<>> ELSE <<more>>
    BY <1>1 DEF Documents, CheckClosedDocuments
  <1>3. rest = Subtract(quantity, served)
    BY <1>1, ServedSame DEF DeltaQuantity
  <1>4. served = 0 \/ \E e \in Arrived(l) : served = fact[e].quantity
    BY DEF ServesStand
  <1>5. CASE rest = 0
    <2>1. documents = <<>>
      BY <1>2, <1>5
    <2>2. ASSUME SameQuantity(l) PROVE NothingLeft(l, c)
      <3>1. CASE served = 0
        <4>1. quantity = 0
          BY <1>1, <1>3, <1>5, <3>1 DEF Subtract
        <4> QED
          BY <4>1 DEF NothingLeft
      <3>2. CASE \E e \in Arrived(l) : served = fact[e].quantity
        <4>1. PICK e \in Arrived(l) : served = fact[e].quantity
          BY <3>2
        <4>2. \A f \in Serves(l) : fact[f].quantity = served
          BY <2>2, <4>1 DEF SameQuantity, Arrived, Received, Serves
        <4> QED
          BY <1>3, <1>5, <4>1, <4>2 DEF NothingLeft
      <3> QED
        BY <1>4, <3>1, <3>2
    <2> QED
      BY <2>1, <2>2
  <1>6. CASE rest # 0
    <2>1. rest \in Nat
      <3>1. served \in Int
        BY <1>1, ServedIsANumber, ServedSame
      <3> QED
        BY <1>1, <1>3, <3>1, SubtractTyped
    <2>2. "CheckClosed" \in Source /\ "OUT" \in Movement
      BY DEF Source, SaleEvent, Movement
    <2>3. /\ Single(a, l, c, "CheckClosed", "OUT", rest) /\ a \in Seq(LedgerRow)
          /\ b \in Seq(LedgerRow)
      BY <1>1, <2>1, <2>2, ExpandSingle, ModifiersTyped DEF RowsOfEvent
    <2>4. \A i \in DOMAIN a : a[i].event = c /\ a[i].source = "CheckClosed"
      BY <1>1, ExpandRows
    <2>5. \A i \in DOMAIN b : b[i].event = c /\ b[i].source = "CheckClosed" /\ b[i].line = "none"
      BY <1>1, ModifierRows
    <2> HIDE DEF a, b, rest
    <2>6. \A i \in DOMAIN more : more[i].event = c /\ more[i].source = "CheckClosed"
      <3>1. \A i \in DOMAIN more : \/ i \in DOMAIN a /\ more[i] = a[i]
                                   \/ \E j \in DOMAIN b : more[i] = b[j]
        BY <2>3, Appended
      <3> QED
        BY <2>4, <2>5, <3>1
    <2>7. Closing(a, l) = {1} /\ SumOf(a, {1}) = rest
      <3>1. /\ Len(a) = 1 /\ a[1].line = l /\ a[1].source = "CheckClosed" /\ a[1].movement = "OUT"
            /\ a[1].quantity = rest
        BY <2>3 DEF Single
      <3>2. DOMAIN a = {1} /\ SumOf(a, {1}) = a[1].quantity
        BY <2>3, <3>1, OneRowSum
      <3> QED
        BY <3>1, <3>2 DEF Closing, OfLine
    <2>8. Closing(b, l) = {}
      BY <1>1, <2>5 DEF Closing, OfLine
    <2>9. /\ Closing(more, l) = Closing(a, l) \cup Shifted(Len(a), Closing(b, l))
          /\ SumOf(more, Closing(more, l)) = SumOf(a, Closing(a, l)) + SumOf(b, Closing(b, l))
      BY <2>3, OfLineAppended DEF Closing
    <2>10. SumOf(b, {}) = 0
      BY SumOfNone
    <2> HIDE DEF more
    <2>11. Closing(more, l) # {} /\ SumOf(more, Closing(more, l)) = rest
      <3>1. SumOf(more, Closing(more, l)) = rest + 0
        BY <2>7, <2>8, <2>9, <2>10
      <3> QED
        BY <2>1, <2>7, <2>9, <3>1
    <2>12. Adds(more, l, c, rest)
      BY <2>6, <2>11 DEF Adds
    <2>13. Len(documents) = 1 /\ documents[1] = more /\ documents # <<>>
      BY <1>2, <1>6, OneIs
    <2> QED
      BY <1>3, <2>12, <2>13
  <1> QED
    BY <1>5, <1>6

\* An event that arrives, also a serve after the check.
LEMMA ArrivalCloses ==
    ASSUME InventoryInv, RowsTell, NEW l, CloseStands(l), NEW e \in Event, Receive(e)
    PROVE  CloseStands(l)'
  <1>1. /\ UNCHANGED <<fact, ledger, task, batch>>
        /\ fact[e].type = "CheckClosed" => queue'[e] = "pending"
        /\ \A f \in Event : f # e => queue'[f] = queue[f]
        /\ Arrived(l) \subseteq Arrived(l)'
    BY ArrivalLeaves
  <1>2. /\ AfterServes(l)' => AfterServes(l)
        /\ \A c : NothingLeft(l, c) => NothingLeft(l, c)'
    BY <1>1, OrderOfCheck
  <1>3. \A c \in Closes(l) : queue'[c] = "processed" => queue[c] = "processed"
    BY <1>1 DEF Closes, EventsOf
  <1> QED
    BY <1>1, <1>2, <1>3, CloseNext DEF CloseStands

\* A check that is taken.
LEMMA BeginningCloses ==
    ASSUME InventoryInv, NEW l \in Line, OfOneUnit(l), ServesStand(l), CloseStands(l),
           NEW e \in Event, Begins(e)
    PROVE  CloseStands(l)'
  <1>1. /\ UNCHANGED <<fact, queue, ledger>> /\ task' # NoTask /\ task'.event = e
        /\ ~IsDocument(e) => task'.documents = Documents(e)
    BY DEF Begins
  <1>2. Arrived(l)' = Arrived(l)
    BY <1>1, LastsStay
  <1>3. /\ AfterServes(l)' => AfterServes(l)
        /\ \A c : NothingLeft(l, c) => NothingLeft(l, c)'
    BY <1>1, <1>2, OrderOfCheck
  <1>4. ASSUME e \in Closes(l)
        PROVE  IF task'.documents = <<>>
               THEN SameQuantity(l) => NothingLeft(l, e)
               ELSE /\ Len(task'.documents) = 1
                    /\ Adds(task'.documents[1], l, e,
                            Subtract(fact[e].quantity, ServedIn(ledger, l)))
    <2>1. task'.documents = Documents(e)
      BY <1>1, <1>4 DEF Closes, EventsOf, IsDocument, DocumentEvent
    <2> DEFINE documents == Documents(e)
    <2>2. documents = Documents(e)
      OBVIOUS
    <2> HIDE DEF documents
    <2>3. IF documents = <<>>
          THEN SameQuantity(l) => NothingLeft(l, e)
          ELSE /\ Len(documents) = 1
               /\ Adds(documents[1], l, e, Subtract(fact[e].quantity, ServedIn(ledger, l)))
      BY <1>4, <2>2, CloseDocuments
    <2> QED
      BY <2>1, <2>2, <2>3
  <1> QED
    BY <1>1, <1>3, <1>4, CloseNext DEF CloseStands

\* A check that is processed has nothing left to add.
LEMMA EndingCloses ==
    ASSUME InventoryInv, RowsTell, NEW l, CloseStands(l), Ends
    PROVE  CloseStands(l)'
  <1>1. /\ UNCHANGED <<fact, ledger>> /\ task # NoTask /\ task' = NoTask /\ task.documents = <<>>
        /\ queue' = [queue EXCEPT ![task.event] = "processed"] /\ queue[task.event] = "processing"
        /\ queue \in [Event -> {"none", "pending", "processing", "processed", "failed"}]
    BY DEF Ends, RowsTell, HandTells, InventoryInv, InventoryTypeOK
  <1>2. Arrived(l)' = Arrived(l)
    <2>1. \A e \in Event : queue'[e] = "none" <=> queue[e] = "none"
      BY <1>1
    <2> QED
      BY <1>1, <2>1, LastsStay
  <1>3. /\ AfterServes(l)' => AfterServes(l)
        /\ \A c : NothingLeft(l, c) => NothingLeft(l, c)'
    BY <1>1, <1>2, OrderOfCheck
  <1>4. ASSUME NEW c \in Closes(l), SameQuantity(l), queue'[c] = "processed"
        PROVE  Closing(ledger, l) # {} \/ NothingLeft(l, c)
    <2>1. CASE c = task.event
      BY <1>1, <1>4, <2>1 DEF CloseStands
    <2>2. CASE c # task.event
      <3>1. queue[c] = "processed"
        BY <1>1, <1>4, <2>2 DEF Closes, EventsOf
      <3> QED
        BY <1>4, <3>1 DEF CloseStands
    <2> QED
      BY <2>1, <2>2
  <1> QED
    BY <1>1, <1>3, <1>4, CloseNext DEF CloseStands

\* Rows that are priced.
LEMMA WaitingCloses ==
    ASSUME InventoryInv, NEW l, CloseStands(l), Waits
    PROVE  CloseStands(l)'
  <1>1. /\ fact' = fact /\ Repriced(ledger, ledger')
        /\ \A e \in Event : \/ queue'[e] = queue[e]
                            \/ queue[e] # "none" /\ queue'[e] \in {"processing", "failed"}
        /\ task' # NoTask => IsDocument(task'.event)
    BY DEF Waits
  <1>2. Arrived(l)' = Arrived(l)
    <2>1. \A e \in Event : queue'[e] = "none" <=> queue[e] = "none"
      BY <1>1
    <2> QED
      BY <1>1, <2>1, LastsStay
  <1> DEFINE after == ledger'
  <1>3. /\ ServedIn(after, l) = ServedIn(ledger, l) /\ Closing(after, l) = Closing(ledger, l)
        /\ SumOf(after, Closing(after, l)) = SumOf(ledger, Closing(ledger, l))
        /\ \A e, origin : Wrote(after, e, origin) <=> Wrote(ledger, e, origin)
    BY <1>1, RepricedSame
  <1>4. /\ AfterServes(l)' => AfterServes(l)
        /\ \A c : NothingLeft(l, c) => NothingLeft(l, c)'
    BY <1>1, <1>2, <1>3, OrderOfCheck DEF Repriced
  <1>5. task' # NoTask => task'.event \notin Closes(l)
    BY <1>1 DEF IsDocument, DocumentEvent, Closes, EventsOf
  <1>6. \A c \in Closes(l) : queue'[c] = "processed" => queue[c] = "processed"
    BY <1>1 DEF Closes, EventsOf
  <1> QED
    BY <1>1, <1>3, <1>4, <1>5, <1>6, CloseNext DEF CloseStands

\* The document of the check of a line.
LEMMA CheckIsWritten ==
    ASSUME InventoryInv, RowsTell, NEW l \in Line, ClosedOnce(l), CloseStands(l), Writes,
           NEW f, f = task.event, f \in Closes(l)
    PROVE  /\ Closing(ledger', l) # {} /\ ServedIn(ledger', l) = ServedIn(ledger, l)
           /\ \/ ledger' = ledger
              \/ SumOf(ledger', Closing(ledger', l)) =
                    Subtract(fact[f].quantity, ServedIn(ledger', l))
           /\ task' # NoTask => task'.documents = <<>>
  <1> DEFINE more == task.documents[1]
             after == ledger'
             rest == Subtract(fact[f].quantity, ServedIn(ledger, l))
  <1>1. /\ task # NoTask /\ task.documents # <<>> /\ InventoryTypeOK
        /\ task' # NoTask => (~IsDocument(f) => task'.documents = Tail(task.documents))
    BY DEF Writes, NoTask, InventoryInv
  <1>2. /\ IsDocumentOf(more, f) /\ after = WithDocument(ledger, more)
        /\ f \in Event /\ ledger \in Seq(LedgerRow) /\ more \in Seq(LedgerRow) /\ more # <<>>
    BY InHandTells
  <1>3. ~IsDocument(f) /\ l # "none"
    BY DEF Closes, EventsOf, IsDocument, DocumentEvent, Line
  <1>4. Len(task.documents) = 1 /\ Adds(more, l, f, rest)
    BY <1>1 DEF CloseStands
  <1>5. task' # NoTask => task'.documents = <<>>
    <2> DEFINE documents == task.documents
               t == Tail(documents)
    <2>1. documents \in Seq(Seq(LedgerRow)) /\ Len(documents) = 1 /\ documents # <<>>
      BY <1>1, <1>4, TaskTyped
    <2>2. t \in Seq(Seq(LedgerRow)) /\ Len(t) = Len(documents) - 1
      BY <2>1, HeadTailProperties
    <2> HIDE DEF t, documents
    <2>3. Len(t) = 0
      BY <2>1, <2>2
    <2>4. t = <<>>
      BY <2>2, <2>3
    <2> QED
      BY <1>1, <1>3, <2>4 DEF documents, t
  <1>6. \A c \in Closes(l) : c = f
    BY DEF ClosedOnce, Closes
  <1>7. Wrote(ledger, f, "CheckClosed") => Closing(ledger, l) # {}
    BY DEF CloseStands
  <1>8. Tell(ledger)
    BY DEF RowsTell
  <1> HIDE DEF more, after, rest
  <1>9. /\ \A i \in DOMAIN more : more[i].event = f /\ more[i].source = "CheckClosed"
        /\ Closing(more, l) # {} /\ SumOf(more, Closing(more, l)) = rest
    BY <1>4 DEF Adds
  <1>10. ServedIn(after, l) = ServedIn(ledger, l)
    <2>1. \A i \in DOMAIN more :
             more[i].source \in {"ItemServed", "ItemServedCompensation"} => more[i].line # l
      BY <1>9
    <2> QED
      BY <1>2, <2>1, NotServed
  <1>11. 1 \in DOMAIN more /\ more[1].event = f /\ more[1].source = "CheckClosed"
    <2>1. 1 \in DOMAIN more
      BY <1>2
    <2> QED
      BY <1>9, <2>1
  <1>12. CASE Wrote(ledger, f, "CheckClosed")
    <2>1. after = ledger
      BY <1>2, <1>11, <1>12 DEF WithDocument
    <2> QED
      BY <1>5, <1>7, <1>10, <1>12, <2>1 DEF after
  <1>13. CASE ~Wrote(ledger, f, "CheckClosed")
    <2>1. after = ledger \o more
      BY <1>2, <1>11, <1>13 DEF WithDocument
    <2>2. Closing(ledger, l) = {}
      <3> SUFFICES ASSUME NEW i \in Closing(ledger, l) PROVE FALSE
        OBVIOUS
      <3>1. i \in DOMAIN ledger /\ ledger[i].line = l /\ ledger[i].source = "CheckClosed"
        BY DEF Closing, OfLine
      <3>2. ledger[i].event \in Closes(l)
        BY <1>3, <1>8, <3>1 DEF Tell, RowTells
      <3> QED
        BY <1>6, <1>13, <3>1, <3>2 DEF Wrote
    <2> DEFINE S == Closing(ledger, l)
               T == Closing(ledger \o more, l)
               U == Closing(more, l)
    <2>3. /\ T = S \cup Shifted(Len(ledger), U)
          /\ SumOf(ledger \o more, T) = SumOf(ledger, S) + SumOf(more, U)
          /\ SumOf(more, U) \in Nat
      BY <1>2, OfLineAppended DEF Closing
    <2>4. S = {} /\ U # {} /\ SumOf(more, U) = rest
      BY <1>9, <2>2
    <2> HIDE DEF S, T, U
    <2>5. SumOf(ledger, {}) = 0
      BY SumOfNone
    <2>6. T # {}
      BY <2>3, <2>4 DEF Shifted
    <2>7. SumOf(ledger \o more, T) = rest
      <3>1. SumOf(ledger \o more, T) = 0 + SumOf(more, U)
        BY <2>3, <2>4, <2>5
      <3> QED
        BY <2>3, <2>4, <3>1
    <2>8. Closing(after, l) # {} /\ SumOf(after, Closing(after, l)) = rest
      BY <2>1, <2>6, <2>7 DEF T
    <2>9. rest = Subtract(fact[f].quantity, ServedIn(after, l))
      BY <1>10 DEF rest
    <2> QED
      BY <1>5, <1>10, <2>8, <2>9 DEF after
  <1> QED
    BY <1>12, <1>13

\* A document of another event leaves the rows of the checks.
LEMMA OtherIsWritten ==
    ASSUME InventoryInv, RowsTell, NEW l, Writes, task.event \notin Closes(l), l # "none"
    PROVE  /\ Closing(ledger', l) = Closing(ledger, l)
           /\ SumOf(ledger', Closing(ledger', l)) = SumOf(ledger, Closing(ledger, l))
           /\ \A c \in Closes(l) : Wrote(ledger', c, "CheckClosed") <=> Wrote(ledger, c, "CheckClosed")
           /\ DOMAIN ledger \subseteq DOMAIN ledger'
           /\ \A i \in DOMAIN ledger : ledger'[i] = ledger[i]
           /\ task.event \notin Serves(l) => ServedIn(ledger', l) = ServedIn(ledger, l)
  <1> DEFINE more == task.documents[1]
             f == task.event
             after == ledger'
  <1>1. /\ IsDocumentOf(more, f) /\ after = WithDocument(ledger, more) /\ Tell(more)
        /\ f \in Event /\ ledger \in Seq(LedgerRow) /\ more \in Seq(LedgerRow)
        /\ \A i \in DOMAIN more : more[i].event = f
    BY InHandTells
  <1>2. f \notin Closes(l)
    OBVIOUS
  <1> HIDE DEF more, f, after
  <1>3. \A i \in DOMAIN more : more[i].source = "CheckClosed" => more[i].line # l
    BY <1>1, <1>2 DEF Tell, RowTells
  <1>4. /\ Closing(after, l) = Closing(ledger, l)
        /\ SumOf(after, Closing(after, l)) = SumOf(ledger, Closing(ledger, l))
    BY <1>1, <1>3, NotClosed
  <1>5. ASSUME NEW c \in Closes(l)
        PROVE  Wrote(after, c, "CheckClosed") <=> Wrote(ledger, c, "CheckClosed")
    <2>1. c # f
      BY <1>2
    <2> QED
      BY <1>1, <2>1, DocumentOfOthers
  <1>6. DOMAIN ledger \subseteq DOMAIN after /\ \A i \in DOMAIN ledger : after[i] = ledger[i]
    BY <1>1, DocumentAdds
  <1>7. f \notin Serves(l) => ServedIn(after, l) = ServedIn(ledger, l)
    <2> SUFFICES ASSUME f \notin Serves(l) PROVE ServedIn(after, l) = ServedIn(ledger, l)
      OBVIOUS
    <2>1. \A i \in DOMAIN more :
             more[i].source \in {"ItemServed", "ItemServedCompensation"} => more[i].line # l
      BY <1>1 DEF Tell, RowTells
    <2> QED
      BY <1>1, <2>1, NotServed
  <1> QED
    BY <1>4, <1>5, <1>6, <1>7 DEF after, f

\* A serve written after the check comes after its rows.
LEMMA ServeAfterCheck ==
    ASSUME InventoryInv, RowsTell, NEW l, Writes, task.event \in Arrived(l),
           Arrived(l)' = Arrived(l), Closing(ledger', l) = Closing(ledger, l),
           Closing(ledger, l) # {}, AfterServes(l)'
    PROVE  ledger' = ledger
  <1> DEFINE more == task.documents[1]
             f == task.event
             after == ledger'
             n == Len(ledger)
  <1>1. /\ after = WithDocument(ledger, more) /\ ledger \in Seq(LedgerRow)
        /\ more \in Seq(LedgerRow) /\ more # <<>> /\ \A i \in DOMAIN more : more[i].event = f
    BY InHandTells
  <1>2. f \in Arrived(l) /\ DOMAIN ledger = 1..n /\ n \in Nat
    BY <1>1
  <1> SUFFICES ASSUME after = ledger \o more PROVE FALSE
    BY <1>1 DEF WithDocument
  <1>3. n + 1 \in DOMAIN after /\ after[n + 1] = more[1] /\ 1 \in DOMAIN more
    <2>1. 1 \in DOMAIN more
      BY <1>1
    <2>2. \A j \in DOMAIN more :
             n + j \in DOMAIN (ledger \o more) /\ (ledger \o more)[n + j] = more[j]
      BY <1>1, Appended
    <2> HIDE DEF more, n, after
    <2> QED
      BY <2>1, <2>2
  <1>4. PICK i : i \in Closing(ledger, l)
    OBVIOUS
  <1>5. i \in 1..n
    BY <1>2, <1>4 DEF Closing, OfLine
  <1>6. \A j \in DOMAIN after : after[j].event \in Arrived(l) => j < i
    BY <1>4 DEF AfterServes
  <1>7. after[n + 1].event \in Arrived(l)
    BY <1>1, <1>2, <1>3
  <1> HIDE DEF n, after, f, more
  <1>8. n + 1 < i
    BY <1>3, <1>6, <1>7
  <1> QED
    BY <1>2, <1>5, <1>8

\* A document that is written.
LEMMA WritingCloses ==
    ASSUME InventoryInv, RowsTell, NEW l \in Line, ClosedOnce(l), CloseStands(l), Writes
    PROVE  CloseStands(l)'
  <1> DEFINE f == task.event
  <1>1. /\ fact' = fact /\ queue[f] = "processing" /\ f \in Event /\ l # "none"
        /\ \/ queue' = queue /\ task' # NoTask /\ task'.event = f
           \/ queue' = [queue EXCEPT ![f] = "failed"] /\ task' = NoTask
        /\ queue \in [Event -> {"none", "pending", "processing", "processed", "failed"}]
    BY InHandTells DEF Writes, InventoryInv, InventoryTypeOK, Line
  <1>2. Arrived(l)' = Arrived(l)
    <2>1. \A e \in Event : queue'[e] = "none" <=> queue[e] = "none"
      BY <1>1
    <2> QED
      BY <1>1, <2>1, LastsStay
  <1>3. \A c \in Closes(l) : queue'[c] = "processed" => queue[c] = "processed" /\ c # f
    BY <1>1 DEF Closes, EventsOf
  <1>4. CASE f \in Closes(l)
    <2> HIDE DEF f
    <2>1. /\ Closing(ledger', l) # {} /\ ServedIn(ledger', l) = ServedIn(ledger, l)
          /\ \/ ledger' = ledger
             \/ SumOf(ledger', Closing(ledger', l)) =
                   Subtract(fact[f].quantity, ServedIn(ledger', l))
          /\ task' # NoTask => task'.documents = <<>>
      BY <1>4, CheckIsWritten DEF f
    <2>2. \A c \in Closes(l) : c = f
      BY <1>4 DEF ClosedOnce, Closes
    <2>3. ASSUME ledger' = ledger PROVE AfterServes(l)' => AfterServes(l)
      BY <1>1, <1>2, <2>3, OrderOfCheck
    <2>4. ASSUME NEW c \in Closes(l), AfterServes(l)'
          PROVE  SumOf(ledger', Closing(ledger', l)) =
                    Subtract(fact[c].quantity, ServedIn(ledger', l))
      <3>1. CASE ledger' = ledger
        BY <2>1, <2>3, <2>4, <3>1 DEF CloseStands
      <3> QED
        BY <2>1, <2>2, <3>1
    <2> QED
      BY <1>1, <2>1, <2>4, CloseNext
  <1>5. CASE f \notin Closes(l)
    <2>1. /\ Closing(ledger', l) = Closing(ledger, l)
          /\ SumOf(ledger', Closing(ledger', l)) = SumOf(ledger, Closing(ledger, l))
          /\ \A c \in Closes(l) : Wrote(ledger', c, "CheckClosed") <=> Wrote(ledger, c, "CheckClosed")
          /\ DOMAIN ledger \subseteq DOMAIN ledger'
          /\ \A i \in DOMAIN ledger : ledger'[i] = ledger[i]
          /\ f \notin Serves(l) => ServedIn(ledger', l) = ServedIn(ledger, l)
      BY <1>1, <1>5, OtherIsWritten
    <2>2. /\ AfterServes(l)' => AfterServes(l)
          /\ \A c : NothingLeft(l, c) => NothingLeft(l, c)'
      BY <1>1, <1>2, <2>1, OrderOfCheck
    <2>3. ASSUME Closing(ledger', l) # {}, AfterServes(l)'
          PROVE  ServedIn(ledger', l) = ServedIn(ledger, l)
      <3>1. CASE f \in Serves(l)
        <4>1. f \in Arrived(l)
          BY <1>1, <3>1 DEF Arrived, Received, Serves
        <4>2. ledger' = ledger
          BY <1>2, <2>1, <2>3, <4>1, ServeAfterCheck
        <4> QED
          BY <4>2
      <3> QED
        BY <2>1, <3>1
    <2>4. task' # NoTask => task'.event \notin Closes(l)
      BY <1>1, <1>5
    <2>5. ASSUME NEW c \in Closes(l), Closing(ledger', l) # {}, AfterServes(l)'
          PROVE  SumOf(ledger', Closing(ledger', l)) =
                    Subtract(fact[c].quantity, ServedIn(ledger', l))
      <3>1. SumOf(ledger, Closing(ledger, l)) = Subtract(fact[c].quantity, ServedIn(ledger, l))
        BY <2>1, <2>2, <2>5 DEF CloseStands
      <3> QED
        BY <2>1, <2>3, <2>5, <3>1
    <2>6. \A c \in Closes(l) : Wrote(ledger', c, "CheckClosed") => Closing(ledger', l) # {}
      BY <2>1 DEF CloseStands
    <2>7. \A c \in Closes(l) : SameQuantity(l) /\ queue'[c] = "processed" =>
             Closing(ledger', l) # {} \/ NothingLeft(l, c)'
      BY <1>3, <2>1, <2>2 DEF CloseStands
    <2> QED
      BY <1>1, <2>4, <2>5, <2>6, <2>7, CloseNext
  <1> QED
    BY <1>4, <1>5

-----------------------------------------------------------------------------
(* Inventory: every line, and the theorem.                                 *)

\* Serves that wrote in turn did so before.
LEMMA TurnsWereKept ==
    ASSUME InventoryInv, RowsTell, NEW l, WrittenInTurn(l)',
           (\E e \in Event : Receive(e) \/ Begins(e)) \/ Writes \/ Ends \/ Waits
    PROVE  WrittenInTurn(l)
  <1>1. fact' = fact
    BY ArrivedStay DEF RowsTell
  <1> DEFINE after == ledger'
  <1>2. /\ DOMAIN ledger \subseteq DOMAIN after
        /\ \A i \in DOMAIN ledger : after[i].event = ledger[i].event
    <2>1. CASE Writes
      <3> DEFINE more == task.documents[1]
                 f == task.event
      <3>1. /\ ledger \in Seq(LedgerRow) /\ IsDocumentOf(more, f)
            /\ after = WithDocument(ledger, more)
        BY <2>1, InHandTells
      <3> HIDE DEF more, f, after
      <3>2. /\ DOMAIN ledger \subseteq DOMAIN after /\ \A i \in DOMAIN ledger : after[i] = ledger[i]
        BY <3>1, DocumentAdds
      <3> QED
        BY <3>2
    <2>2. CASE Waits
      BY <2>2 DEF Waits, Repriced
    <2> QED
      BY <2>1, <2>2 DEF Receive, Begins, Ends, stock
  <1>3. \A i, j \in DOMAIN after :
           i < j /\ {after[i].event, after[j].event} \subseteq EventsOf(l, "ItemServed") =>
              fact[after[i].event].at <= fact[after[j].event].at
    BY <1>1 DEF WrittenInTurn, EventsOf
  <1> HIDE DEF after
  <1> QED
    BY <1>2, <1>3 DEF WrittenInTurn

\* What is said of lines goes on for every line.
LEMMA LinesGoOn ==
    ASSUME InventoryInv, RowsTell, LinesFollow, InventoryNext
    PROVE  LinesFollow'
  <1>1. (\E e \in Event : Receive(e) \/ Begins(e)) \/ Writes \/ Ends \/ Waits
    BY InventoryShapes DEF RowsTell
  <1>2. /\ fact' = fact
        /\ \/ \E e \in Event : Receive(e)
           \/ \A e \in Event : queue'[e] = "none" <=> queue[e] = "none"
    BY <1>1, ArrivedStay DEF RowsTell
  <1>3. /\ Line' = Line
        /\ \A l : /\ ServedInTurn(l)' <=> ServedInTurn(l)
                  /\ OfOneUnit(l)' <=> OfOneUnit(l)
                  /\ ClosedOnce(l)' <=> ClosedOnce(l)
    BY <1>2, LinesStay
  <1>4. ASSUME NEW l \in Line, ServedInTurn(l), OfOneUnit(l), WrittenInTurn(l)'
        PROVE  ServesStand(l)' /\ (ClosedOnce(l) => CloseStands(l)')
    <2>1. ServesStand(l) /\ (ClosedOnce(l) => CloseStands(l))
      BY <1>1, <1>4, TurnsWereKept DEF LinesFollow
    <2>2. CASE \E e \in Event : Receive(e)
      <3>1. PICK e \in Event : Receive(e)
        BY <2>2
      <3>2. ServesStand(l)'
        BY <1>4, <2>1, <3>1, ArrivalStands
      <3>3. ClosedOnce(l) => CloseStands(l)'
        BY <2>1, <3>1, ArrivalCloses
      <3> QED
        BY <3>2, <3>3
    <2>3. CASE \E e \in Event : Begins(e)
      <3>1. PICK e \in Event : Begins(e)
        BY <2>3
      <3>2. ServesStand(l)'
        BY <1>4, <2>1, <3>1, BeginningStands
      <3>3. ClosedOnce(l) => CloseStands(l)'
        BY <1>4, <2>1, <3>1, BeginningCloses
      <3> QED
        BY <3>2, <3>3
    <2>4. CASE Writes
      <3>1. ServesStand(l)'
        <4>1. CASE task.event \notin Serves(l)
          BY <2>1, <2>4, <4>1, OtherStands
        <4>2. CASE task.event \in Serves(l) /\ Leads(l, task.event)
          BY <1>4, <2>1, <2>4, <4>2, ServeStands
        <4>3. CASE task.event \in Serves(l) /\ ~Leads(l, task.event)
          BY <1>4, <2>1, <2>4, <4>3, LateWritesNothing, LateStands
        <4> QED
          BY <4>1, <4>2, <4>3
      <3>2. ClosedOnce(l) => CloseStands(l)'
        BY <2>1, <2>4, WritingCloses
      <3> QED
        BY <3>1, <3>2
    <2>5. CASE Ends
      <3>1. ServesStand(l)'
        BY <2>1, <2>5, EndingStands
      <3>2. ClosedOnce(l) => CloseStands(l)'
        BY <2>1, <2>5, EndingCloses
      <3> QED
        BY <3>1, <3>2
    <2>6. CASE Waits
      <3>1. ServesStand(l)'
        BY <2>1, <2>6, WaitingStands
      <3>2. ClosedOnce(l) => CloseStands(l)'
        BY <2>1, <2>6, WaitingCloses
      <3> QED
        BY <3>1, <3>2
    <2> QED
      BY <1>1, <2>2, <2>3, <2>4, <2>5, <2>6
  <1> QED
    BY <1>3, <1>4 DEF LinesFollow

\* A step of the OLAP worker leaves it.
LEMMA LinesUntouched ==
    ASSUME RowsTell, LinesFollow, UNCHANGED inventoryVars
    PROVE  RowsTell' /\ LinesFollow'
  <1>1. /\ UNCHANGED <<fact, queue, ledger, batch, task>>
        /\ \A e \in Event : queue'[e] = "none" <=> queue[e] = "none"
    BY DEF inventoryVars
  <1>2. \A rows : Tell(rows)' <=> Tell(rows)
    BY <1>1, LinesStay
  <1>3. HandTells'
    BY <1>1, HandNext DEF RowsTell, HandTells
  <1>4. RowsTell'
    BY <1>1, <1>2, <1>3 DEF RowsTell, Tell, RowTells, Serves, Closes, EventsOf
  <1>5. /\ Line' = Line
        /\ \A l : /\ ServedInTurn(l)' <=> ServedInTurn(l)
                  /\ OfOneUnit(l)' <=> OfOneUnit(l)
                  /\ ClosedOnce(l)' <=> ClosedOnce(l)
    BY <1>1, LinesStay
  <1>6. \A l : WrittenInTurn(l)' <=> WrittenInTurn(l)
    BY <1>1 DEF WrittenInTurn, EventsOf
  <1>7. ASSUME NEW l PROVE Arrived(l)' = Arrived(l) /\ \A e : IsLast(l, e)' <=> IsLast(l, e)
    BY <1>1, LastsStay
  <1>8. ASSUME NEW l, ServesStand(l) PROVE ServesStand(l)'
    <2>1. Arrived(l)' = Arrived(l) /\ \A e : IsLast(l, e)' <=> IsLast(l, e)
      BY <1>7
    <2>2. \A e : Leads(l, e)' <=> Leads(l, e)
      BY <1>1, LeadsStay
    <2> QED
      BY <1>1, <1>8, <2>1, <2>2, StandNext DEF ServesStand
  <1>9. ASSUME NEW l, CloseStands(l) PROVE CloseStands(l)'
    <2>1. /\ AfterServes(l)' => AfterServes(l)
          /\ \A c : NothingLeft(l, c) => NothingLeft(l, c)'
      BY <1>1, <1>7, OrderOfCheck
    <2> QED
      BY <1>1, <1>9, <2>1, CloseNext DEF CloseStands
  <1>10. LinesFollow'
    BY <1>5, <1>6, <1>8, <1>9 DEF LinesFollow
  <1> QED
    BY <1>4, <1>10

\* Nothing is served before anything arrives.
LEMMA LinesStart ==
    ASSUME InventoryInit
    PROVE  RowsTell /\ LinesFollow
  <1>1. /\ queue = [e \in Event |-> "none"] /\ batch = {} /\ task = NoTask
        /\ ledger = <<>>
    BY DEF InventoryInit
  <1>2. DOMAIN ledger = {} /\ \A e \in Event : queue[e] = "none"
    BY <1>1
  <1>3. RowsTell
    BY <1>1, <1>2 DEF RowsTell, HandTells, Tell
  <1>4. ASSUME NEW l PROVE ServesStand(l) /\ CloseStands(l)
    <2>1. Arrived(l) = {} /\ Serves(l) \subseteq Event /\ Closes(l) \subseteq Event
      BY <1>2 DEF Arrived, Received, Serves, Closes, EventsOf
    <2>2. \A origin, movement : OfLine(ledger, l, origin, movement) = {}
      BY <1>2 DEF OfLine
    <2>3. ServedIn(ledger, l) = 0
      <3>1. SumOf(ledger, {}) = 0
        BY SumOfNone
      <3>2. ServedIn(ledger, l) = 0 - 0
        BY <2>2, <3>1 DEF ServedIn
      <3> QED
        BY <3>2
    <2>4. \A e, origin : ~Wrote(ledger, e, origin)
      BY <1>2 DEF Wrote
    <2>5. ServesStand(l)
      BY <1>1, <2>1, <2>3, <2>4 DEF ServesStand
    <2>6. CloseStands(l)
      BY <1>1, <1>2, <2>1, <2>2, <2>4 DEF CloseStands, Closing
    <2> QED
      BY <2>5, <2>6
  <1> QED
    BY <1>3, <1>4 DEF LinesFollow

\* What the last serve says is what is served, once the serves are processed.
LEMMA LastServeCounts ==
    ASSUME InventoryTypeOK, NEW l, ServesStand(l),
           AllProcessed(Arrived(l)), \A e \in Lasting(l) : ~GaveBack(e)
    PROVE  /\ ServedIn(ledger, l) = QuantityOf(Lasting(l))
           /\ Arrived(l) # {} => \E e \in Serves(l) : QuantityOf(Lasting(l)) = fact[e].quantity
  <1>1. CASE Arrived(l) = {}
    <2>1. Lasting(l) = {}
      BY <1>1 DEF Lasting, Arrived
    <2>2. QuantityOf(Lasting(l)) = 0
      BY <2>1 DEF QuantityOf
    <2> QED
      BY <1>1, <2>2 DEF ServesStand
  <1>2. CASE Arrived(l) # {}
    <2>1. PICK e \in Arrived(l) : IsLast(l, e)
      BY <1>2 DEF ServesStand
    <2>2. Lasting(l) = {e}
      <3>1. \A f \in Arrived(l) : fact[f].at \in Nat
        BY FactColumns DEF Arrived, Received, EventsOf
      <3>2. \A f \in Arrived(l) : f # e => fact[f].at < fact[e].at
        BY <2>1 DEF IsLast
      <3>3. Lasting(l) = {f \in Arrived(l) : \A g \in Arrived(l) : fact[g].at <= fact[f].at}
        BY DEF Lasting, Arrived
      <3> QED
        BY <2>1, <3>1, <3>2, <3>3
    <2>3. QuantityOf(Lasting(l)) = fact[e].quantity
      BY <2>2 DEF QuantityOf
    <2>4. ~TookFirst(ledger, e)
      BY <2>2 DEF GaveBack, TookFirst
    <2>5. ServedIn(ledger, l) = fact[e].quantity
      BY <2>1, <2>4 DEF ServesStand, AllProcessed, Done
    <2>6. e \in Serves(l)
      BY DEF Arrived, Received, Serves
    <2> QED
      BY <2>3, <2>5, <2>6
  <1> QED
    BY <1>1, <1>2

\* A check that comes after them adds what they did not take.
LEMMA CheckAddsTheRest ==
    ASSUME InventoryTypeOK, RowsTell, NEW l \in Line, ServesStand(l), ClosedOnce(l),
           CloseStands(l), SameQuantity(l),
           AllProcessed(Arrived(l)), \A e \in Lasting(l) : ~GaveBack(e),
           AllProcessed(Received(l, "CheckClosed")), AfterServes(l)
    PROVE  SumOf(ledger, Closing(ledger, l)) =
              Subtract(QuantityOf(Received(l, "CheckClosed")), QuantityOf(Lasting(l)))
  <1> DEFINE closes == Received(l, "CheckClosed")
             last == QuantityOf(Lasting(l))
  <1>1. /\ ServedIn(ledger, l) = last
        /\ Arrived(l) # {} => \E e \in Serves(l) : last = fact[e].quantity
    BY LastServeCounts
  <1>2. SumOf(ledger, {}) = 0
    BY SumOfNone
  <1>3. CASE closes = {}
    <2>1. Closing(ledger, l) = {}
      <3> SUFFICES ASSUME NEW i \in Closing(ledger, l) PROVE FALSE
        OBVIOUS
      <3>1. i \in DOMAIN ledger /\ ledger[i].line = l /\ ledger[i].source = "CheckClosed"
        BY DEF Closing, OfLine
      <3>2. ledger[i].event \in Closes(l) /\ queue[ledger[i].event] # "none"
        BY <3>1 DEF RowsTell, Tell, RowTells, Line
      <3> QED
        BY <1>3, <3>2 DEF Received, Closes
    <2>2. Subtract(QuantityOf(closes), last) = 0
      BY <1>3 DEF QuantityOf, Subtract
    <2> QED
      BY <1>2, <2>1, <2>2
  <1>4. CASE closes # {}
    <2>1. PICK c : c \in closes
      BY <1>4
    <2>2. c \in Closes(l) /\ queue[c] = "processed" /\ closes = {c}
      BY <2>1 DEF Received, Closes, ClosedOnce, AllProcessed
    <2>3. QuantityOf(closes) = fact[c].quantity
      BY <2>2 DEF QuantityOf
    <2> HIDE DEF last
    <2>4. CASE Closing(ledger, l) # {}
      <3>1. SumOf(ledger, Closing(ledger, l)) = Subtract(fact[c].quantity, ServedIn(ledger, l))
        BY <2>2, <2>4 DEF CloseStands
      <3> QED
        BY <1>1, <2>3, <3>1 DEF last
    <2>5. CASE Closing(ledger, l) = {}
      <3>1. NothingLeft(l, c)
        BY <2>2, <2>5 DEF CloseStands
      <3>2. Subtract(fact[c].quantity, last) = 0
        BY <1>1, <3>1 DEF NothingLeft, Subtract
      <3> QED
        BY <1>2, <2>3, <2>5, <3>2 DEF last
    <2> QED
      BY <2>4, <2>5
  <1> QED
    BY <1>3, <1>4

\* What stands of serves and checks is what lines are written off for.
LEMMA LinesAreFollowed ==
    ASSUME InventoryTypeOK, RowsTell, LinesFollow
    PROVE  LinesAreWrittenOffOnce
  <1> SUFFICES ASSUME NEW l \in Line, ServedInTurn(l), OfOneUnit(l), WrittenInTurn(l)
               PROVE  LET serves == Received(l, "ItemServed")
                          closes == Received(l, "CheckClosed")
                          last == QuantityOf(Lasting(l))
                          settled == /\ AllProcessed(serves)
                                     /\ \A e \in Lasting(l) : ~GaveBack(e)
                          closing == RowsOfLine(l, "CheckClosed", "OUT")
                          inOrder == \A i \in closing, j \in DOMAIN ledger :
                                        ledger[j].event \in serves => j < i
                      IN  /\ settled => Served(l) = last
                          /\ /\ settled /\ AllProcessed(closes) /\ inOrder
                             /\ SameQuantity(l) /\ ClosedOnce(l)
                             => Served(l) + SumOf(ledger, closing) =
                                   last + Subtract(QuantityOf(closes), last)
    BY DEF LinesAreWrittenOffOnce
  <1>1. ServesStand(l) /\ (ClosedOnce(l) => CloseStands(l))
    BY DEF LinesFollow
  <1>2. /\ Served(l) = ServedIn(ledger, l) /\ Arrived(l) = Received(l, "ItemServed")
        /\ RowsOfLine(l, "CheckClosed", "OUT") = Closing(ledger, l)
    BY ServedSame DEF Arrived, RowsOfLine, Closing, OfLine
  <1>3. AfterServes(l) <=> \A i \in Closing(ledger, l), j \in DOMAIN ledger :
                              ledger[j].event \in Arrived(l) => j < i
    BY DEF AfterServes
  <1>4. ASSUME AllProcessed(Arrived(l)), \A e \in Lasting(l) : ~GaveBack(e)
        PROVE  ServedIn(ledger, l) = QuantityOf(Lasting(l))
    BY <1>1, <1>4, LastServeCounts
  <1>5. ASSUME AllProcessed(Arrived(l)), \A e \in Lasting(l) : ~GaveBack(e),
               AllProcessed(Received(l, "CheckClosed")), AfterServes(l), SameQuantity(l),
               ClosedOnce(l)
        PROVE  ServedIn(ledger, l) + SumOf(ledger, Closing(ledger, l)) =
                  QuantityOf(Lasting(l))
                  + Subtract(QuantityOf(Received(l, "CheckClosed")), QuantityOf(Lasting(l)))
    <2>1. SumOf(ledger, Closing(ledger, l)) =
             Subtract(QuantityOf(Received(l, "CheckClosed")), QuantityOf(Lasting(l)))
      BY <1>1, <1>5, CheckAddsTheRest
    <2> QED
      BY <1>4, <1>5, <2>1
  <1> QED
    BY <1>2, <1>3, <1>4, <1>5

\* In whatever order the serves of a line come and are tried, and however often: once those
\* that were received are processed, the line took from stock what was served the last time,
\* and a check after them adds the rest, unless a serve wrote behind a later one or the last
\* one gave back what it took itself (itemServedDocuments and checkClosedDocument of the
\* inventory worker, CreateStockDocument with its unique documents).
THEOREM LinesAreAlwaysWrittenOffOnce == Spec => []LinesAreWrittenOffOnce
  <1>1. Init => InventoryInv /\ RowsTell /\ LinesFollow
    BY InventoryStarts, LinesStart DEF Init
  <1>2. InventoryInv /\ RowsTell /\ LinesFollow /\ [Next]_vars =>
           InventoryInv' /\ RowsTell' /\ LinesFollow'
    <2> SUFFICES ASSUME InventoryInv, RowsTell, LinesFollow, [Next]_vars
                 PROVE  InventoryInv' /\ RowsTell' /\ LinesFollow'
      OBVIOUS
    <2>1. InventoryNext \/ UNCHANGED inventoryVars
      BY DEF Next, InInventory, InOlap, vars
    <2>2. InventoryInv'
      BY <2>1, InventoryStep, InventoryUntouched
    <2>3. RowsTell' /\ LinesFollow'
      BY <2>1, RowsGoOnTelling, LinesGoOn, LinesUntouched
    <2> QED
      BY <2>2, <2>3
  <1>3. InventoryInv /\ RowsTell /\ LinesFollow => LinesAreWrittenOffOnce
    BY LinesAreFollowed DEF InventoryInv
  <1> QED
    BY <1>1, <1>2, <1>3, PTL DEF Spec
=============================================================================
