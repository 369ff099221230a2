---------------------------- MODULE CheckLedger ----------------------------
(***************************************************************************)
(* What the POS promises about the money of one final check, whatever      *)
(* commands are used to give it back: the check gets its total once,       *)
(* cancellations and refunds only accumulate and together never exceed it, *)
(* and a refund is recorded only when the sale is past its financial       *)
(* boundary, which it never re-enters.                                     *)
(***************************************************************************)
EXTENDS Integers

VARIABLES
    total,          \* total of the final check, 0 while there is none
    cancelled,      \* sum of the cancellations
    refunded,       \* sum of the refunds
    late            \* is the sale past its financial boundary?

ledgerVars == <<total, cancelled, refunded, late>>

Uncompensated == total - cancelled - refunded

Init ==
    /\ total \in Nat
    /\ cancelled = 0 /\ refunded = 0
    /\ late \in BOOLEAN

CloseCheck ==
    /\ total = 0
    /\ total' \in Nat \ {0}
    /\ late' \in BOOLEAN
    /\ UNCHANGED <<cancelled, refunded>>

\* Also past the boundary: a command that waited for the database over midnight, and the
\* cancellation of an unconfirmed check under a later cash session, may come then.
Cancel ==
    /\ \E a \in 1..Uncompensated : cancelled' = cancelled + a
    /\ UNCHANGED <<total, refunded, late>>

Refund ==
    /\ late
    /\ \E a \in 1..Uncompensated : refunded' = refunded + a
    /\ UNCHANGED <<total, cancelled, late>>

PassBoundary ==
    /\ late' = TRUE
    /\ UNCHANGED <<total, cancelled, refunded>>

Next == CloseCheck \/ Cancel \/ Refund \/ PassBoundary

Spec == Init /\ [][Next]_ledgerVars
=============================================================================
