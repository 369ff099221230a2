SPECIFICATION Spec
CONSTANTS
    e1 = e1
    e2 = e2
    d1 = d1
    d2 = d2
    s1 = s1
    s2 = s2
    c1 = c1
    c2 = c2
    o1 = o1
    p1 = p1
    p2 = p2
    l1 = l1
    l2 = l2
    Employee = {e1, e2}
    Device = {d1, d2}
    Shift = {s1, s2}
    Session = {c1, c2}
    Order = {o1}
    Payment = {p1, p2}
    Line = {l1, l2}
    QrLine = {l1}
    MaxContent = 1
    MaxVersion = 2
    MaxDate = 2
    Amount = {1, 2}
    Off = 1
    Price <- MCPrice
SYMMETRY Symmetric
INVARIANTS
    WorkHasOpenShift
    RefundIsPastBoundary
PROPERTIES
    FinishedSaleIsFinal
CHECK_DEADLOCK FALSE
