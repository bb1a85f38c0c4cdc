------------------------------ MODULE EngineCall ------------------------------
(***************************************************************************)
(* What the pipeline may assume of one call of a scan engine: it answers   *)
(* at most once, a verdict on the content is one the engine stands behind  *)
(* at that moment, 'cancelled' is said only of a cancelled call, and a     *)
(* cancelled call does come back.  LocalScanner and VtClient implement it. *)
(***************************************************************************)
CONSTANTS
    Verdicts,   \* answers about the content
    Failures    \* answers that are no verdict; the sets are disjoint, without "none", "cancelled"

VARIABLES
    outcome,    \* the answer, or "none"
    stopped,    \* the token of the call is cancelled
    grounds     \* the verdicts the engine would stand behind now

vars == <<outcome, stopped, grounds>>

Init == outcome = "none" /\ stopped = FALSE /\ grounds \subseteq Verdicts

Answer ==
    /\ outcome = "none"
    /\ \/ outcome' \in Failures \cup grounds
       \/ stopped /\ outcome' = "cancelled"
    /\ UNCHANGED stopped /\ grounds' \subseteq Verdicts

Stop == outcome = "none" /\ stopped' = TRUE /\ UNCHANGED <<outcome, grounds>>

\* The engine learns something, or forgets it.
Learn == grounds' \subseteq Verdicts /\ UNCHANGED <<outcome, stopped>>

Next == Answer \/ Stop \/ Learn

CallSpec == Init /\ [][Next]_vars /\ (stopped ~> outcome # "none")
===============================================================================
