SPECIFICATION FairSpec
CONSTANTS
    Drivers = {d1, d2}
    lookup = lookup
    ticket = ticket
    v1 = v1
    v2 = v2
    Tools = {ticket}
    Approval = {ticket}
    Versions = {v1, v2}
    Policy <- MCPolicy
    Resumable = {"awaiting_approval"}
    Modes <- ActiveBackground
    MaxSteps = 2
    MaxToolCalls = 1
    LeaseTicks = 1
    MaxRevision = 20
    MayExpire = FALSE
    MaxFaults = 1
    None = None
INVARIANT ApprovedDispatch
PROPERTY BackgroundEnds
CHECK_DEADLOCK FALSE
