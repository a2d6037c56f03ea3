SPECIFICATION Spec
CONSTANTS
    Parsers = {p1}
    Embedders = {e1}
    MaxEmb = 1
    RetryMax = 1
    MaxOps = 1
    Overlap = FALSE
    p1 = p1
    e1 = e1
INVARIANT ChunksDeleted
CHECK_DEADLOCK FALSE
