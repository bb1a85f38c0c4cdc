\* Two files of equal content for one permit, a request of any kind, failing I/O: scheduling and settling.
CONSTANTS
    Jobs = {j1, j2}
    Requests = {r1}
    Ops <- EveryOp
    Contents = {j1}
    Content <- SameContent
    Configs <- BothEngines
    MaxScans = 1
    MaxCrashes = 0
    IOFaults = TRUE
    Timeouts = FALSE
SPECIFICATION FairSpec
CHECK_DEADLOCK FALSE
INVARIANTS
    PoolIsExact
    ReleaseIsVouched
PROPERTIES
    SettlesUnlessClamdSilent
