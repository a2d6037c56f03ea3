SPECIFICATION FairSpec
CONSTANTS
    Parsers = {p1}
    Embedders = {e1}
    MaxEmb = 2
    RetryMax = 2
    MaxOps = 2
    Overlap = FALSE
    p1 = p1
    e1 = e1
INVARIANTS NoLostHandoff ReadyIsIndexed VectorsDeleted
PROPERTY Ends
CHECK_DEADLOCK FALSE
