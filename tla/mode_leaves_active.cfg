\* One mode change while a file moves from stage to stage.
CONSTANTS
    Jobs = {j1}
    Requests = {r1}
    Ops <- ModeOps
    Contents = {j1}
    Content <- SameContent
    Configs <- BothEngines
    MaxScans = 1
    MaxCrashes = 0
    IOFaults = FALSE
    Timeouts = FALSE
SPECIFICATION Spec
CHECK_DEADLOCK FALSE
INVARIANTS
    LeavingActiveAbortsScans
