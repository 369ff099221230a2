\* Two rows in batches, one request at a time, a lost iteration and a manual retry.
\* A module event may do all a plain one does, and be deferred or rejected besides.
SPECIFICATION FairSpec
CONSTANTS
    Kind = {"local", "module"}
    MaxRows = 2
    BatchSize = 2
    MaxAttempts = 1
    Exchange = {x1}
    MaxLosses = 1
    MaxRetries = 1
INVARIANTS
    HeldRowsStayLocked
    LostRowsAreNotOvertaken
PROPERTIES
    EveryRowSettles
