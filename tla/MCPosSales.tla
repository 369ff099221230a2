---------------------------- MODULE MCPosSales ----------------------------
EXTENDS PosSales, FiniteSetsExt, TLC


CONSTANTS
    e1, e2, d1, d2, s1, s2, c1, c2, o1, p1, p2, l1, l2,
    Off     \* what a line discount takes away

\* A line of content q costs q; a line discount takes Off away and may not
\* exceed the line.
MCPrice ==
    [b \in Basket |-> [D \in SUBSET Line |->
        IF \E l \in D : b[l] \in 1..(Off - 1)
        THEN Rejected
        ELSE MapThenSumSet(LAMBDA l : IF b[l] < 1 THEN 0
                                      ELSE IF l \in D THEN b[l] - Off ELSE b[l], Line)]]

Symmetric == Permutations(Employee) \cup Permutations(Device) \cup Permutations(Shift) \cup Permutations(Session)
             \cup Permutations(Payment)
=============================================================================
