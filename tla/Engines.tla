------------------------------- MODULE Engines --------------------------------
(***************************************************************************)
(* The two engines in the order in which the pipeline asks them            *)
(* (watcher.rs 545-719), for one file: the local scanner under a token of  *)
(* its own, then, unless it settled the matter, VirusTotal under a new     *)
(* one, then the decision to restore.  The verdict cache and the scan      *)
(* permits are those of Quarantine and left out.                           *)
(***************************************************************************)
EXTENDS VtClient

CONSTANTS Chunks, Room   \* of LocalScanner

ASSUME EnginesAssumption == Chunks \in Nat /\ Room \in Nat \ {0}

VARIABLES
    engines,    \* [local, vt, bypass]: which engines, and pompelmi_failure_mode
    stage,      \* "local", "gate", "vt", or "end"
    fate,       \* what becomes of the file: "none", "released" or "kept"
    bad, stopped, step, next, wire, taken, clamd, back, reply, verdict

Local == INSTANCE LocalScanner

vtVars == vars
localVars == <<bad, stopped, step, next, wire, taken, clamd, back, reply, verdict>>
stageVars == <<engines, stage, fate>>
scanVars == <<vtVars, localVars, stageVars>>

ScanTypeOK ==
    /\ TypeOK /\ Local!TypeOK
    /\ engines \in [local : BOOLEAN, vt : BOOLEAN, bypass : BOOLEAN]
    /\ stage \in {"local", "gate", "vt", "end"}
    /\ fate \in {"none", "released", "kept"}

\* pipeline_inner has checked that there is an engine (line 532).
ScanInit ==
    /\ Init /\ Local!Init
    /\ engines \in {e \in [local : BOOLEAN, vt : BOOLEAN, bypass : BOOLEAN] : e.local \/ e.vt}
    /\ stage = IF engines.local THEN "local" ELSE "gate"
    /\ fate = "none"

-------------------------------------------------------------------------------
InLocal(A) == stage = "local" /\ A /\ UNCHANGED <<vtVars, stageVars>>
InVt(A) == stage = "vt" /\ A /\ UNCHANGED <<localVars, stageVars>>

End_(f) == stage' = "end" /\ fate' = f

\* The verdict of the local scanner (571-598).
AfterLocal ==
    /\ stage = "local" /\ step = "done"
    /\ IF verdict = "malicious" \/ (verdict = "error" /\ ~engines.bypass)
       THEN End_("kept")
       ELSE stage' = "gate" /\ UNCHANGED fate
    /\ UNCHANGED <<vtVars, localVars, engines>>

\* VirusTotal switched off, or a copy that is gone or too large (601-625).
Gate ==
    /\ stage = "gate"
    /\ IF ~engines.vt \/ ~file \/ opts.size = "oversized"
       THEN End_("kept")
       ELSE stage' = "vt" /\ UNCHANGED fate
    /\ UNCHANGED <<vtVars, localVars, engines>>

\* Mutant: an inconclusive answer does not ask for a clean local scan.
ReleasesMutant == result = "clean" \/ result = "inconclusive"

\* restore_decision: VirusTotal clears it, or has nothing to say on a file that
\* the local scanner really cleared.
Releases == result = "clean" \/ (result = "inconclusive" /\ engines.local /\ verdict = "clean")

\* A cancelled call keeps the file (683-687); else restore_decision (689-717).
Decide ==
    /\ stage = "vt" /\ phase = "done"
    /\ End_(IF Releases THEN "released" ELSE "kept")
    /\ UNCHANGED <<vtVars, localVars, engines>>

\* The quarantine copy is removed by somebody else.
CopyRemoved ==
    /\ stage # "end"
    /\ LoseFile
    /\ UNCHANGED <<localVars, stageVars>>

ScanNext ==
    \/ InLocal(Local!Call) \/ InLocal(Local!Daemon) \/ InLocal(Local!Stop)
    \/ AfterLocal \/ Gate
    \/ InVt(Call) \/ InVt(Trip) \/ InVt(Analyse)
    \/ Decide \/ CopyRemoved

\* The pipeline task is scheduled; clamd and VirusTotal answer or not.
ScanSpec ==
    /\ ScanInit /\ [][ScanNext]_scanVars
    /\ WF_scanVars(InLocal(Local!Call)) /\ WF_scanVars(InVt(Call))
    /\ WF_scanVars(AfterLocal \/ Gate \/ Decide)

-------------------------------------------------------------------------------
(* Properties.                                                              *)

\* See LocalScanner.
CleanIsWhole == Local!CleanIsWhole
LocalImplementsCall == Local!LocalImplementsCall

\* Through both engines, with every cancel, lost answer and refusal on the way:
\* a file is released only if engines that took part in VirusTotal's report found
\* nothing, or VirusTotal did not say and clamd, having seen all of it, knows
\* nothing against it; never for want of an answer.
ReleaseIsWarranted ==
    fate = "released" =>
        \/ result = "clean" /\ report # NoReport /\ Covered(report) /\ ~Flagged(report)
        \/ result = "inconclusive" /\ engines.local /\ bad = 0

\* Every scan comes to an end, unless it waits for clamd for ever and nobody
\* cancels it; VirusTotal can delay it, not hold it.
ScanEnds == <>(stage = "end") \/ <>[](stage = "local" /\ Local!WaitsForClamd)
===============================================================================
