------------------------------ MODULE MCMoney -------------------------------
EXTENDS Money, FiniteSetsExt, TLC

CONSTANTS e1, e2, s1, s2, p1, p2

\* One line of two portions for 3, paid with 2 and 1.
MCLinePrice == [l \in Line |-> 3]
MCLineQuantity == [l \in Line |-> 2]
MCCaptured == [p \in Payment |-> IF p = p1 THEN 2 ELSE 1]

\* A line of content q costs q, a discount takes 1 off and may not exceed it.
MCPrice ==
    [b \in Basket |-> [D \in SUBSET Line |->
        MapThenSumSet(LAMBDA l : IF b[l] < 1 THEN 0 ELSE IF l \in D THEN b[l] - 1 ELSE b[l], Line)]]

\* A dish with one option that every line has to have, unless it is not offered.
MCMenu == {[price |-> 1, option |-> 1, offered |-> TRUE],
           [price |-> 8, option |-> 1, offered |-> FALSE]}
MCGroup == [required |-> TRUE, min |-> 1, max |-> 1]

\* A tax upon a tax on the first line, a tax within the price on the second.
Tax(mode, kind, value, compound) ==
    [mode |-> mode, kind |-> kind, value |-> value, compound |-> compound, active |-> TRUE]
MCTaxProfile ==
    [s \in Slot |-> [exempt |-> FALSE, rules |->
        IF s = 1 THEN << Tax("exclusive", "percentage", 1000, FALSE),
                         Tax("exclusive", "percentage", 2000, TRUE) >>
        ELSE << Tax("inclusive", "percentage", 2000, FALSE),
                Tax("exclusive", "fixed", 1, TRUE) >>]]

\* Three units, a half, and a policy that gives a line away.
MCValue == [kind \in {"fixed", "percentage"} |-> IF kind = "fixed" THEN {3} ELSE {5000}]
MCPolicy ==
    {[adjustment |-> [type |-> "discount", line |-> 1, index |-> 1, kind |-> "percentage",
                      value |-> 10000],
      active |-> TRUE, manual |-> FALSE, right |-> TRUE, own |-> TRUE]}

Symmetric == Permutations(Employee) \cup Permutations(Shift)
=============================================================================
