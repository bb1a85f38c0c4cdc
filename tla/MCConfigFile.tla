---------------------------- MODULE MCConfigFile ----------------------------
EXTENDS ConfigFile, TLC

MCAccounts == {"vtApiKey", "apiToken"}
MCRequired == {"vtApiKey"}
MCClearable == {"apiToken"}

NoEnv == [a \in MCAccounts |-> Absent]
KeyInEnv == ("vtApiKey" :> "old") @@ ("apiToken" :> Absent)

Body(vt, token, backend, paths) ==
    [key |-> ("vtApiKey" :> vt) @@ ("apiToken" :> token), backend |-> backend, paths |-> paths]

\* The settings page sends back the mask; a new key and a new token; a cleared
\* token; a change of folders; both directions of the backend.
MCPosts ==
    {Body(Mask, Mask, Absent, "there"), Body("new", "new", Absent, Absent),
     Body(Absent, Blank, Absent, Absent), Body("new", Absent, "keychain", Absent),
     Body(Absent, Absent, "file", Absent)}

Symmetry == Permutations(Writers)
==============================================================================
