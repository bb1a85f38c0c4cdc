\* One crash at any step, then reconciliation at start-up.
CONSTANTS
    Jobs = {j1}
    Requests = {r1}
    Ops <- FileOps
    Contents = {j1}
    Content <- SameContent
    Configs <- BothEngines
    MaxScans = 1
    MaxCrashes = 1
    IOFaults = FALSE
    Timeouts = FALSE
SPECIFICATION Spec
CHECK_DEADLOCK FALSE
PROPERTIES
    ReconcileSparesLastCopy
