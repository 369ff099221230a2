\* One event that fails forever leaves room in a batch of two, and two of them do not.
SPECIFICATION Spec
CONSTANTS
    Event <- MCEvent
    Scenarios <- MCScenarios
    Warehouse = {0, 1}
    Item <- MCItem
    Version <- MCVersion
    Legacy <- MCLegacy
    Limit = 2
    Entry <- MCEntry
    Forwarder <- MCForwarder
    Worker = "worker"
    Scenes <- MCScenes
    BatchSize = 1
    MaxFaults = 1
INVARIANTS
    LinesAreWrittenOffOnce
    MarksTellTheArchive
PROPERTIES
    StockIsAccounted
    WorkersFinish
\* The forwarders have nothing to do once every row they see is exported.
CHECK_DEADLOCK FALSE
