SPECIFICATION Spec
CONSTANTS
    Modes <- MCModes
    Active = "active"
    Calls = {c1, c2}
    MaxJobs = 1
    MaxChoices = 2
    MaxFaults = 1
CHECK_DEADLOCK FALSE

PROPERTY ModeSurfaces
