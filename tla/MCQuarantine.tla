---------------------------- MODULE MCQuarantine ------------------------------
(* Instances of Quarantine for TLC.                                         *)
EXTENDS Quarantine, TLC

\* Files with pairwise different contents, and files that are all alike.
OwnContent == [j \in Jobs |-> j]
SameContent == [j \in Jobs |-> CHOOSE c \in Contents : TRUE]

EveryConfig == [local : BOOLEAN, vt : BOOLEAN, bypass : BOOLEAN]
BothEngines == {[local |-> TRUE, vt |-> TRUE, bypass |-> b] : b \in BOOLEAN}

\* Every request but the mode changes; everything; what a crash run needs.
FileOps == {"restore", "force", "delete", "sweep", "clear", "cancel"}
ModeOps == {"scan_paused", "monitoring_disabled", "active"}
EveryOp == FileOps \cup ModeOps

RequestSymmetry == Permutations(Requests)
===============================================================================
