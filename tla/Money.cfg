\* A waiter and a cashier with a shift each, an order of one line paid in one or
\* two parts, compensated in parts, within the day or after the shift; and the
\* operations of one check of a line of two portions and two payments; and an order of
\* two lines with two adjustments.
SPECIFICATION MoneySpec
CONSTANTS
    e1 = e1
    e2 = e2
    s1 = s1
    s2 = s2
    p1 = p1
    p2 = p2
    Employee = {e1, e2}
    Device = {d1}
    Shift = {s1, s2}
    Session = {c1}
    Order = {o1}
    Payment = {p1, p2}
    Line = {l1}
    QrLine = {l1}
    MaxContent = 2
    MaxVersion = 1
    MaxDate = 2
    Amount = {1, 2}
    Price <- MCPrice
    MaxEvents = 8
    LinePrice <- MCLinePrice
    LineQuantity <- MCLineQuantity
    Captured <- MCCaptured
    CheckTotal = 3
    Client = {n1}
    MaxItems = 2
    Slot = {1, 2}
    Menu <- MCMenu
    Group <- MCGroup
    Policy <- MCPolicy
    TaxProfile <- MCTaxProfile
    Value <- MCValue
    MaxQuantity = 2
    MaxIndex = 2
SYMMETRY Symmetric
INVARIANTS
    BooksClose
    OperationsStayInBounds
PROPERTIES
    LedgersAreKept
    OrdersCanBeBilled
CHECK_DEADLOCK FALSE
