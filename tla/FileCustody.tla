----------------------------- MODULE FileCustody ------------------------------
(***************************************************************************)
(* What the quarantine promises about the bytes of a file, whatever its    *)
(* rows, scanners and requests are doing.  A file sits in the watch        *)
(* folder, in the vault (the quarantine folder) and, once released, in the *)
(* watch folder again under a name of its own; it is copied before it is   *)
(* removed, so it may be in two of these places, and it is in none of them *)
(* only after somebody gave it up.                                         *)
(***************************************************************************)
CONSTANT Files

VARIABLES
    place,      \* place[f]: where complete copies of f are
    permitted,  \* files that may be released: vouched for, or forced
    forfeited   \* files whose deletion somebody asked for

custody == <<place, permitted, forfeited>>

Places == {"watch", "vault", "released"}

CustodyTypeOK ==
    /\ place \in [Files -> SUBSET Places]
    /\ permitted \subseteq Files
    /\ forfeited \subseteq Files

CustodyInit ==
    /\ place = [f \in Files |-> {"watch"}]
    /\ permitted = {}
    /\ forfeited = {}

Contain(f) ==
    /\ "watch" \in place[f]
    /\ place' = [place EXCEPT ![f] = @ \cup {"vault"}]
    /\ UNCHANGED <<permitted, forfeited>>

Vacate(f) ==
    /\ {"watch", "vault"} \subseteq place[f]
    /\ place' = [place EXCEPT ![f] = @ \ {"watch"}]
    /\ UNCHANGED <<permitted, forfeited>>

\* An engine vouches for some content, or the user forces a release.
Permit(S) ==
    /\ permitted' = permitted \cup S
    /\ UNCHANGED <<place, forfeited>>

Release(f) ==
    /\ f \in permitted /\ "vault" \in place[f]
    /\ place' = [place EXCEPT ![f] = @ \cup {"released"}]
    /\ UNCHANGED <<permitted, forfeited>>

\* The vault copy goes once the file is released.
Withdraw(f) ==
    /\ {"vault", "released"} \subseteq place[f]
    /\ place' = [place EXCEPT ![f] = @ \ {"vault"}]
    /\ UNCHANGED <<permitted, forfeited>>

Forfeit(S) ==
    /\ forfeited' = forfeited \cup S
    /\ UNCHANGED <<place, permitted>>

\* A forfeited vault copy is deleted, perhaps as it is forfeited.
Discard(f) ==
    /\ place' = [place EXCEPT ![f] = @ \ {"vault"}]
    /\ forfeited' = forfeited \cup {f}
    /\ UNCHANGED permitted

CustodyNext ==
    \/ \E f \in Files :
        Contain(f) \/ Vacate(f) \/ Release(f) \/ Withdraw(f) \/ Discard(f)
    \/ \E S \in SUBSET Files : Permit(S) \/ Forfeit(S)

CustodySpec == CustodyInit /\ [][CustodyNext]_custody

\* Nobody loses a file that was not given up.
NothingLost == \A f \in Files : place[f] # {} \/ f \in forfeited

\* Nothing comes out without permission.
NothingEscapes == \A f \in Files : "released" \in place[f] => f \in permitted
===============================================================================
