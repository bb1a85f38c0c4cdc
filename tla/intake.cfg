SPECIFICATION FairSpec
CONSTANTS
    Files = {f1, f2}
    Paths = {p1}
    PathOf <- OnePath
    NoFile = NoFile
    Tasks = {t1, t2}
    MaxSwitches = 2
    MaxBacklog = 2
    MaxCrashes = 1
INVARIANTS TypeOK OneOwnerPerPath NothingForgotten
PROPERTIES NoRestoreLoop DroppedIsTaken
CHECK_DEADLOCK FALSE
