\* One cancel request against a local scan in bypass mode.
CONSTANTS
    Jobs = {j1}
    Requests = {r1}
    Ops <- FileOps
    Contents = {j1}
    Content <- SameContent
    Configs <- BothEngines
    MaxScans = 1
    MaxCrashes = 0
    IOFaults = FALSE
    Timeouts = FALSE
SPECIFICATION Spec
CHECK_DEADLOCK FALSE
INVARIANTS
    CancelKeepsFile
