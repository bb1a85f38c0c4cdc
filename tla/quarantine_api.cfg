\* One file, three concurrent requests of any kind, any engine configuration.
CONSTANTS
    Jobs = {j1}
    Requests = {r1, r2, r3}
    Ops <- EveryOp
    Contents = {j1}
    Content <- OwnContent
    Configs <- EveryConfig
    MaxScans = 1
    MaxCrashes = 0
    IOFaults = FALSE
    Timeouts = FALSE
SPECIFICATION Spec
SYMMETRY RequestSymmetry
CHECK_DEADLOCK FALSE
INVARIANTS
    TypeOK
    ReleaseIsVouched
    ContentIsSomewhere
    OneRestoreWins
    StatusTellsPlace
    CancelledIsContained
    TokensFollowScans
PROPERTIES
    ActiveRowsBelongToPipeline
    ImplementsCustody
