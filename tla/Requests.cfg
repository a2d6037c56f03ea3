SPECIFICATION Spec
CONSTANTS
  x = x
  y = y
  Actions = {a1, a2}
  MaxSteps = 3
  MaxCalls = 2
  Threshold = 2
  QueueSize = 2
  Callers = {x, y}
  Idents = {1, 2, 3}
  Keys = {1, 2}
  Groupings <- MCGroupings
  KeyOf <- MCKeyOf
  Hydrating = {y}
  Chunks = {p}
  AllowDegraded = TRUE
  Parallel = FALSE
  MaxSize = 1
  Ttl = 1
  FetchLimit = 1
INVARIANT FinalIsDurable
PROPERTIES NoLateHandler BoundedStaleness
CHECK_DEADLOCK FALSE
