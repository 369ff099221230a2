---------------------------- MODULE EventJournal ----------------------------
(* What the delivery of Edge events promises to the two sides of the wire.    *)
(* An event the Edge wrote reaches the books of the Cloud at most once,       *)
(* together with its projections, and the Edge marks it delivered only after  *)
(* that; a delivered event is never taken back.                               *)
EXTENDS Naturals

CONSTANT Events         \* the events there may ever be

VARIABLES
    written,            \* events committed on the Edge
    booked,             \* how many times each event entered the Cloud's books
    delivered           \* events the Edge knows to be delivered

journalVars == <<written, booked, delivered>>

JournalTypeOK ==
    /\ written \subseteq Events
    /\ booked \in [Events -> {0, 1}]
    /\ delivered \subseteq written

Init ==
    /\ written = {}
    /\ booked = [e \in Events |-> 0]
    /\ delivered = {}

Write(e) ==
    /\ e \notin written
    /\ written' = written \union {e}
    /\ UNCHANGED <<booked, delivered>>

\* Only a written event can be booked, and only the first time.
Book(e) ==
    /\ e \in written
    /\ booked[e] = 0
    /\ booked' = [booked EXCEPT ![e] = 1]
    /\ UNCHANGED <<written, delivered>>

Deliver(e) ==
    /\ booked[e] = 1
    /\ delivered' = delivered \union {e}
    /\ UNCHANGED <<written, booked>>

Next == \E e \in Events : Write(e) \/ Book(e) \/ Deliver(e)

Spec == Init /\ [][Next]_journalVars
=============================================================================
