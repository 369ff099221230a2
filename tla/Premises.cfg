\* Pairing, logins and archives: days 0 and 1, nine moments, one fault in each area.
SPECIFICATION Spec
CONSTANTS
    Check <- MCCheck
    TicketCheck <- MCTicketCheck
    Operation <- MCOperation
    Target <- MCTarget
    Archive <- MCArchive
    LastDay = 1
    MaxDamages = 1
    Request <- MCRequest
    AttemptsLimit = 3
    AttemptsWindow = 4
    LockoutWindow = 6
    Patience = 2
    LastMoment = 8
    Flow <- MCFlow
    Worker = "worker"
    Code <- MCCode
    MaxFaults = 1
    Line = {"soup", "fish"}
    OrderOf <- MCOrderOf
    Suggestion = {"s1"}
    References <- MCReferences
    Budgets <- MCBudgets
INVARIANTS
    FailuresAreBounded
    TokensAgree
    ArchivingIsSafe
    KitchenIsHeard
PROPERTIES
    AssignedEdgesPair
\* A limit, a day or a pairing that is over may leave nothing to do.
CHECK_DEADLOCK FALSE
