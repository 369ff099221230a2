----------------------------- MODULE MasterCopy -----------------------------
(***************************************************************************)
(* What the delivery of master data promises a restaurant: its copy of a   *)
(* stream was the Cloud's at some time, and only ever moves forward.       *)
(***************************************************************************)
EXTENDS Naturals

CONSTANT Stream
VARIABLES
    original,       \* how far the Cloud's rows of a stream have come
    copy            \* how far the rows the restaurant works with have

Init ==
    /\ original \in [Stream -> Nat]
    /\ copy = [s \in Stream |-> 0]

Change ==
    /\ \E s \in Stream : original' = [original EXCEPT ![s] = @ + 1]
    /\ UNCHANGED copy

Renew ==
    /\ \E s \in Stream : \E rows \in copy[s]..original[s] :
          copy' = [copy EXCEPT ![s] = rows]
    /\ UNCHANGED original

Next == Change \/ Renew

Spec == Init /\ [][Next]_<<original, copy>>
=============================================================================
