\* One file, two requests, two crashes, failing I/O and dropped requests.
CONSTANTS
    Jobs = {j1}
    Requests = {r1, r2}
    Ops <- FileOps
    Contents = {j1}
    Content <- OwnContent
    Configs <- EveryConfig
    MaxScans = 1
    MaxCrashes = 2
    IOFaults = TRUE
    Timeouts = TRUE
SPECIFICATION Spec
SYMMETRY RequestSymmetry
CHECK_DEADLOCK FALSE
INVARIANTS
    ReleaseIsVouched
    LossOnlyMidIntake
    OneRestoreWins
    RowsNeverOverclaim
PROPERTIES
    ActiveRowsBelongToPipeline
    RowsFollowLifecycle
