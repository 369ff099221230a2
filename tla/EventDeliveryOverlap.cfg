\* Up to three requests with the same event run in the Cloud at the same time.
SPECIFICATION Spec
CONSTANTS
    Kind = {"plain", "local", "module", "invalid"}
    MaxRows = 1
    BatchSize = 1
    MaxAttempts = 2
    Exchange = {x1, x2, x3}
    MaxLosses = 2
    MaxRetries = 1
PROPERTIES
    ImplementsEventJournal
