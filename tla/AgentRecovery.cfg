SPECIFICATION Spec
CONSTANTS
    Drivers = {d1, d2}
    lookup = lookup
    ticket = ticket
    v1 = v1
    v2 = v2
    Tools = {lookup}
    Approval = {}
    Versions = {v1, v2}
    Policy <- MCPolicy
    Modes <- KeyedInline
    MaxSteps = 2
    MaxToolCalls = 2
    LeaseTicks = 1
    MaxRevision = 4
    Resumable = {"running", "awaiting_approval"}
    MayExpire = FALSE
    MaxFaults = 2
    None = None
SYMMETRY Symmetry
INVARIANTS ReplayOnlyReadOnly NoLostUpdate
PROPERTIES BudgetNeverRefunded NoLateDispatch
CHECK_DEADLOCK FALSE
