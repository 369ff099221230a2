----------------------------- MODULE PaperTrail -----------------------------
(* What the print confirmation of a check promises: the check counts as       *)
(* confirmed only once it came out of a printer and so did every ticket that  *)
(* still admits someone; tickets are voided only before that; a confirmation  *)
(* is never taken back.                                                       *)

CONSTANTS
    Ticket,             \* the tickets sold with the check
    CheckDocument       \* the check itself

VARIABLES
    paper,              \* documents that came out of a printer
    admitting,          \* tickets that are not voided
    confirmed           \* the check is confirmed

trailVars == <<paper, admitting, confirmed>>

Init ==
    /\ paper = {}
    /\ admitting = Ticket
    /\ confirmed = FALSE

PutOnPaper(d) ==
    /\ paper' = paper \cup {d}
    /\ UNCHANGED <<admitting, confirmed>>

Void ==
    /\ ~confirmed
    /\ admitting' = {}
    /\ UNCHANGED <<paper, confirmed>>

Confirm ==
    /\ CheckDocument \in paper
    /\ admitting \subseteq paper
    /\ confirmed' = TRUE
    /\ UNCHANGED <<paper, admitting>>

Next == (\E d \in Ticket \cup {CheckDocument} : PutOnPaper(d)) \/ Void \/ Confirm

Spec == Init /\ [][Next]_trailVars
=============================================================================
