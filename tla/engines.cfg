SPECIFICATION ScanSpec
CONSTANTS
    MaxPolls = 2
    MaxAttempts = 2
    Reports <- MCReports
    NoReport = NoReport
    Chunks = 2
    Room = 2
CHECK_DEADLOCK FALSE
INVARIANTS
    ScanTypeOK
    HashOnlyKeepsContent
    UploadedAtMostOnce
    CancelSeenInTime
    CleanIsWhole
    ReleaseIsWarranted
PROPERTIES
    VtImplementsCall
    LocalImplementsCall
    ScanEnds
