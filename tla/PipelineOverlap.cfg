SPECIFICATION Spec
CONSTANTS
    Parsers = {p1, p2}
    Embedders = {e1, e2}
    MaxEmb = 1
    RetryMax = 1
    MaxOps = 0
    Overlap = TRUE
    p1 = p1
    p2 = p2
    e1 = e1
    e2 = e2
SYMMETRY Executions
PROPERTY FailureFenced
CHECK_DEADLOCK FALSE
