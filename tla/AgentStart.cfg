SPECIFICATION Spec
CONSTANTS
    Drivers = {d1, d2}
    lookup = lookup
    ticket = ticket
    v1 = v1
    v2 = v2
    Tools = {lookup}
    Approval = {}
    Versions = {v1}
    Policy <- MCPolicy
    Resumable = {"running", "awaiting_approval"}
    Modes <- AnyMode
    MaxSteps = 1
    MaxToolCalls = 0
    LeaseTicks = 2
    MaxRevision = 2
    MayExpire = TRUE
    MaxFaults = 2
    None = None
SYMMETRY Symmetry
PROPERTY TerminalIsFinal
CHECK_DEADLOCK FALSE
