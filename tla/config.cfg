SPECIFICATION Spec
CONSTANTS
    Accounts <- MCAccounts
    Required <- MCRequired
    Clearable <- MCClearable
    Values = {"old", "new"}
    Places = {"here", "there"}
    Env <- NoEnv
    Posts <- MCPosts
    Writers = {w1, w2}
    Boot = Boot
    MaxRestarts = 2
    MaxEdits = 1
SYMMETRY Symmetry
CHECK_DEADLOCK FALSE
INVARIANTS
    TypeOK
    SecretHasAPlace
    NoPlaintextOnceMigrated
    UpdatesStay
    ModeIsPersisted
    StartsAgain
