\* One process stops, one call of the authority fails; a snapshot expires at 1, and with
\* the grace at 2; papers of 5 and 8 characters and of unknown width.
SPECIFICATION Spec
CONSTANTS
    Instance <- MCInstance
    VersionOf <- MCVersionOf
    MigrationFile = {1, 2}
    Revision <- MCRevision
    MaxStops = 1
    LastSecond = 1
    ServerIds <- MCServerIds
    Operator = {"ann", "bob"}
    Request = {"r1", "r2"}
    Grace = 1
    Terms <- MCTerms
    MaxTime = 2
    MaxFailures = 1
    Line <- MCLine
    MaxLines = 3
    Prints <- MCPrints
    Columns <- MCColumns
    Papers = {0, 5, 8}
INVARIANTS
    UpgradesAreSafe
    ChecksFollowTheAuthority
    ReceiptsReadAsWritten
PROPERTIES
    UpgradesFinish
\* Once every process runs and the clock stands still there may be nothing to do.
CHECK_DEADLOCK FALSE
