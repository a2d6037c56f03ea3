SPECIFICATION FairSpec
CONSTANTS
    Calls = {c1, c2}
    MaxInFlight = 1
    MaxWaiters = 1
    RetryBudget = 1
INVARIANT SlotHeld
PROPERTY ShutdownEnds
CHECK_DEADLOCK FALSE
