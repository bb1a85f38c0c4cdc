------------------------------- MODULE JobStore -------------------------------
(***************************************************************************)
(* The SQLite table of jobs (src/daemon/src/job_store.rs), as operators on *)
(* one row.  Every statement of the store is a single UPDATE, INSERT or    *)
(* DELETE executed under the connection mutex, so each operator is one     *)
(* atomic step.  An UPDATE whose WHERE clause matches nothing changes      *)
(* nothing: that is Update below, and it is what a stage of the pipeline   *)
(* does once its row has been cleared.                                     *)
(*                                                                         *)
(* Abstracted: timestamps, the detail text and the paths themselves (a row *)
(* only remembers whether quarantine_path is set).                         *)
(***************************************************************************)
EXTENDS FiniteSets

\* Rows the pipeline still works on: clear_all keeps them.
Active == {"received", "in_quarantine", "scanning"}

\* Statuses from which a row may become 'deleted'.
Deletable == {"quarantine_kept", "failed", "cancelled"}

Statuses == Active \cup Deletable \cup {"restored", "deleted"}

VtVerdicts == {"clean", "infected", "inconclusive", "oversized"}
LocalVerdicts == {"clean", "malicious", "error"}

\* The VirusTotal sub-stages vt_lookup, vt_upload and vt_poll are one stage here.
Stages == {"received", "local_scan", "cache_check", "vt", "done", "error"}

Rows == [status : Statuses \cup {"absent"},
         path   : BOOLEAN,
         vt     : VtVerdicts \cup {"none"},
         local  : LocalVerdicts \cup {"none"},
         stage  : Stages \cup {"none"}]

NoRow == [status |-> "absent", path |-> FALSE,
          vt |-> "none", local |-> "none", stage |-> "none"]

Exists(r) == r.status # "absent"

\* UPDATE jobs SET ... WHERE id = ?
Update(r, new) == IF Exists(r) THEN new ELSE r

InsertReceived == [NoRow EXCEPT !.status = "received"]

SetInQuarantine(r) ==
    Update(r, [r EXCEPT !.path = TRUE, !.status = "in_quarantine"])

SetScanning(r) == Update(r, [r EXCEPT !.status = "scanning"])

SetStage(r, s) == Update(r, [r EXCEPT !.stage = s])

SetPompelmiVerdict(r, v) == Update(r, [r EXCEPT !.local = v])

\* Mutant: the verdict is written into the status column.
SetScanResultMutant(r, v) == Update(r, [r EXCEPT !.vt = v, !.status = v])

\* A clean verdict leaves the status alone: the restore that follows sets it.
SetScanResult(r, v) ==
    Update(r, [r EXCEPT !.vt = v,
                        !.status = IF v = "clean" THEN @ ELSE "quarantine_kept"])

SetRestored(r) == Update(r, [r EXCEPT !.status = "restored"])

Fail(r) == Update(r, [r EXCEPT !.status = "failed"])

\* ... WHERE id = ? AND status = 'scanning'
CancelJob(r) ==
    IF r.status = "scanning" THEN [r EXCEPT !.status = "cancelled"] ELSE r

\* Mutant: the WHERE clause is the id alone.
SetDeletedMutant(r) == Update(r, [r EXCEPT !.status = "deleted"])

\* ... WHERE id = ? AND status IN (...); no row changed is a JobConflictError.
SetDeleted(r) ==
    IF r.status \in Deletable THEN [r EXCEPT !.status = "deleted"] ELSE r

\* Mutant: clear_all forgets the exception for active rows.
IsSettledMutant(r) == Exists(r)

\* The rows clear_all deletes.
IsSettled(r) == Exists(r) /\ r.status \notin Active

\* The rows list_inconclusive_older_than selects; their age is left open.
IsSweepable(r) == r.status = "quarantine_kept" /\ r.vt = "inconclusive"

===============================================================================
