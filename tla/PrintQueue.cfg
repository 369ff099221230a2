\* Check and ticket on one printer, or the check on two and the ticket on none; two
\* attempts, one retry, one change of the routes.  Once all is printed or has failed
\* and nobody retries, nothing happens any more.
SPECIFICATION FairSpec
CONSTANTS
    Ticket = {"ticket"}
    Printer = {1, 2}
    InitialRoutes <- MCRoutes
    Setup <- MCSetup
    MaxAttempts = 2
    MaxRetries = 1
    MaxChanges = 1
INVARIANTS
    TargetsAreInOrder
PROPERTIES
    SettledByItsOwnSend
    ImplementsPaperTrail
    EveryTargetSettles
CHECK_DEADLOCK FALSE
