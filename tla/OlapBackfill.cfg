\* A job that was claimed is never taken up again after a batch that was not empty.
SPECIFICATION Spec
CONSTANTS
    Event <- MCEvent
    Scenarios <- MCScenarios
    Warehouse = {0, 1}
    Item <- MCItem
    Version <- MCVersion
    Legacy <- MCLegacy
    Limit = 2
    Entry <- MCEntry
    Forwarder <- MCForwarder
    Worker = "worker"
    Scenes <- MCScenes
    BatchSize = 1
    MaxFaults = 1
PROPERTIES
    ClaimedJobsFinish
CHECK_DEADLOCK FALSE
