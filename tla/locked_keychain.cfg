SPECIFICATION Spec
CONSTANTS
    Accounts <- MCAccounts
    Required <- MCRequired
    Clearable <- MCClearable
    Values = {"old", "new"}
    Places = {"here", "there"}
    Env <- KeyInEnv
    Posts <- MCPosts
    Writers = {w1}
    Boot = Boot
    MaxRestarts = 2
    MaxEdits = 1
CHECK_DEADLOCK FALSE
INVARIANT UnreadableKeychainFallsBack
