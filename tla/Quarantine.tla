------------------------------ MODULE Quarantine ------------------------------
(***************************************************************************)
(* The quarantine pipeline of the daemon, from the moment a stable file is *)
(* handed to handle_file until its row is settled, run concurrently with   *)
(* the requests of the HTTP API, the inconclusive sweeper, mode changes,   *)
(* and the crash and restart of the process.                               *)
(*                                                                         *)
(* Sources, all under src/daemon/src: watcher.rs (pipeline, cancel,        *)
(* set_mode), file_mover.rs (move_in, restore_to_path, delete_file),       *)
(* ui_server.rs (restore, delete, clear, cancel), inconclusive_sweeper.rs, *)
(* vt_cache.rs, metrics.rs and the start-up of main.rs.  The rows are      *)
(* those of JobStore.                                                      *)
(*                                                                         *)
(* A step is what the code does between two points where another task can  *)
(* run and matter: every await on the file system, on a scanner or on the  *)
(* semaphore ends a step, and so does every gap between a value that is    *)
(* read and the write that relies on it.                                   *)
(***************************************************************************)
EXTENDS Naturals, JobStore

CONSTANTS
    Jobs,        \* one pipeline task per file accepted by handle_file
    Requests,    \* one-shot API requests and sweeps
    Ops,         \* what a request may ask for in this instance
    Contents,    \* distinct file contents, the keys of the verdict cache
    Content,     \* Content[j] is what file j contains
    Configs,     \* [local, vt, bypass]: engines on, local failure mode
    MaxScans,    \* permits of scan_semaphore
    MaxCrashes,  \* bound on crashes of the process
    IOFaults,    \* may a copy, create or unlink fail for no visible reason?
    Timeouts     \* may a request be dropped at an await?

Modes == {"active", "scan_paused", "monitoring_disabled"}
AllOps == {"restore", "force", "delete", "sweep", "clear", "cancel"} \cup Modes

ASSUME QuarantineAssumption ==
    /\ Jobs \cap Requests = {} /\ IsFiniteSet(Jobs)
    /\ Ops \subseteq AllOps
    /\ Content \in [Jobs -> Contents]
    /\ Configs \subseteq [local : BOOLEAN, vt : BOOLEAN, bypass : BOOLEAN]
    /\ MaxScans \in Nat \ {0}
    /\ MaxCrashes \in Nat
    /\ IOFaults \in BOOLEAN
    /\ Timeouts \in BOOLEAN

Actors == Jobs \cup Requests

VARIABLES
    conf,        \* the configuration, read once at start-up
    task,        \* task[r]: what request r asks, and of which job
    pc,          \* pc[a]: where actor a stands
    src,         \* src[j]: the dropped file is still in the watch folder
    quar,        \* quar[j]: the copy in the quarantine folder
    out,         \* out[a]: the file actor a created in the watch folder
    todo,        \* todo[r]: files clear-all request r still has to unlink
    row,         \* row[j]: the row of job j
    ctl,         \* the jobs with a token in scan_controllers
    tripped,     \* the jobs whose current token is cancelled
    localClean,  \* the jobs whose local_clean flag is set
    free,        \* free permits of the scan semaphore
    activeScans, \* Metrics::active_scans
    cache,       \* cache[c]: the cached VirusTotal verdict of a content
    mode,        \* WatcherInner::mode
    saved,       \* watcherMode in config.json
    crashes,     \* crashes so far
    \* Observation only: no guard reads these.
    vouched,     \* contents some engine has reported clean
    disposed,    \* jobs whose copy was deleted, or whose row was cleared, on request
    aborted      \* jobs one of whose scans ended by cancellation

fixed   == <<conf, task>>
disk    == <<src, quar, out>>
tokens  == <<ctl, tripped>>
pool    == <<free, activeScans>>
modes   == <<mode, saved>>
seen    == <<vouched, disposed, aborted>>
vars    == <<fixed, pc, todo, disk, row, tokens, localClean, pool, cache, modes,
             crashes, seen>>

-------------------------------------------------------------------------------
(* Phases.                                                                  *)

RestorePhases == {"create", "copy", "unlink", "commit"}
\* Before a row says anything final about the job.
UnsettledPhases == {"intake", "copied", "moved", "held", "admitted", "local",
                    "precheck", "queued", "vt"}
JobPhases == UnsettledPhases \cup RestorePhases
                \cup {"waiting", "ignored", "done", "dead"}
RequestPhases == RestorePhases \cup {"idle", "d_read", "d_unlink", "d_commit",
                    "c_unlink", "m_cancel", "m_persist", "done"}

\* The job an actor works on.
Target(a) == IF a \in Jobs THEN a ELSE task[a].job

Goto(a, p) == pc' = [pc EXCEPT ![a] = p]
Write(j, r) == row' = [row EXCEPT ![j] = r]

\* set_stage("done"); set_scan_result(verdict)
Settled(r, v) == SetScanResult(SetStage(r, "done"), v)

TypeOK ==
    /\ conf \in [local : BOOLEAN, vt : BOOLEAN, bypass : BOOLEAN]
    /\ task \in [Requests -> [op : AllOps, job : Jobs]]
    /\ pc \in [Actors -> JobPhases \cup RequestPhases]
    /\ \A j \in Jobs : pc[j] \in JobPhases
    /\ \A r \in Requests : pc[r] \in RequestPhases
    /\ src \in [Jobs -> BOOLEAN]
    /\ quar \in [Jobs -> {"none", "partial", "full"}]
    /\ out \in [Actors -> {"none", "stub", "copy", "ready"}]
    /\ todo \in [Requests -> SUBSET Jobs]
    /\ row \in [Jobs -> Rows]
    /\ ctl \subseteq Jobs /\ tripped \subseteq Jobs /\ localClean \subseteq Jobs
    /\ free \in Nat /\ activeScans \in Nat
    /\ cache \in [Contents -> {"none", "clean", "infected"}]
    /\ mode \in Modes /\ saved \in Modes
    /\ crashes \in 0..MaxCrashes
    /\ vouched \subseteq Contents
    /\ disposed \subseteq Jobs /\ aborted \subseteq Jobs

Init ==
    /\ conf \in Configs
    /\ task \in [Requests -> [op : Ops, job : Jobs]]
    /\ pc = [a \in Actors |-> IF a \in Jobs THEN "waiting" ELSE "idle"]
    /\ src = [j \in Jobs |-> TRUE]
    /\ quar = [j \in Jobs |-> "none"]
    /\ out = [a \in Actors |-> "none"]
    /\ todo = [r \in Requests |-> {}]
    /\ row = [j \in Jobs |-> NoRow]
    /\ ctl = {} /\ tripped = {} /\ localClean = {}
    /\ free = MaxScans /\ activeScans = 0
    /\ cache = [c \in Contents |-> "none"]
    /\ mode = "active" /\ saved = "active"
    /\ crashes = 0
    /\ vouched = {} /\ disposed = {} /\ aborted = {}

-------------------------------------------------------------------------------
(* Intake: handle_file, run_pipeline and the first half of pipeline_inner.  *)

\* Monitoring is on: the row is inserted and the move into quarantine begins.
Accept(j) ==
    /\ pc[j] = "waiting" /\ mode # "monitoring_disabled"
    /\ Write(j, SetStage(InsertReceived, "received"))
    /\ Goto(j, "intake")
    /\ UNCHANGED <<fixed, todo, disk, tokens, localClean, pool, cache, modes, crashes, seen>>

\* Monitoring is off: handle_file returns and the file stays where it is.
Ignore(j) ==
    /\ pc[j] = "waiting" /\ mode = "monitoring_disabled"
    /\ Goto(j, "ignored")
    /\ UNCHANGED <<fixed, todo, disk, row, tokens, localClean, pool, cache, modes, crashes, seen>>

\* pipeline_inner returned an error: stage 'error', status 'failed'.
Fails(j) ==
    /\ Write(j, Fail(SetStage(row[j], "error")))
    /\ Goto(j, "done")

\* move_in, first half: the bytes are copied under a fresh quarantine name.
CopyIn(j) ==
    /\ pc[j] = "intake"
    /\ \/ /\ quar' = [quar EXCEPT ![j] = "full"]
          /\ Goto(j, "copied")
          /\ UNCHANGED row
       \/ /\ IOFaults
          /\ \E left \in {"none", "partial"} : quar' = [quar EXCEPT ![j] = left]
          /\ Fails(j)
    /\ UNCHANGED <<fixed, todo, src, out, tokens, localClean, pool, cache, modes, crashes, seen>>

\* move_in, second half: the original is unlinked.
RemoveSource(j) ==
    /\ pc[j] = "copied"
    /\ \/ /\ src' = [src EXCEPT ![j] = FALSE]
          /\ Goto(j, "moved")
          /\ UNCHANGED row
       \/ /\ IOFaults /\ UNCHANGED src
          /\ Fails(j)
    /\ UNCHANGED <<fixed, todo, quar, out, tokens, localClean, pool, cache, modes, crashes, seen>>

\* Only now does the row learn where the file is.
RecordQuarantine(j) ==
    /\ pc[j] = "moved"
    /\ Write(j, SetInQuarantine(row[j]))
    /\ Goto(j, "held")
    /\ UNCHANGED <<fixed, todo, disk, tokens, localClean, pool, cache, modes, crashes, seen>>

KeptUnscanned == mode = "scan_paused" \/ (~conf.local /\ ~conf.vt)

\* Paused, or no engine at all: kept unscanned.  Otherwise the scan begins.
Dispatch(j) ==
    /\ pc[j] = "held"
    /\ IF KeptUnscanned
       THEN Write(j, Settled(row[j], "inconclusive")) /\ Goto(j, "done")
       ELSE /\ Write(j, SetScanning(row[j]))
            /\ Goto(j, IF conf.local THEN "admitted" ELSE "precheck")
    /\ UNCHANGED <<fixed, todo, disk, tokens, localClean, pool, cache, modes, crashes, seen>>

-------------------------------------------------------------------------------
(* Scanning: the second half of pipeline_inner.                             *)

\* A fresh CancellationToken goes into scan_controllers.
Register(j) ==
    /\ ctl' = ctl \cup {j}
    /\ tripped' = tripped \ {j}

\* Mutant: the token is never removed.
DeregisterMutant(j) == ctl' = ctl

\* The scan is over: the token leaves scan_controllers.
Deregister(j) == ctl' = ctl \ {j}

BeginLocal(j) ==
    /\ pc[j] = "admitted"
    /\ Write(j, SetStage(row[j], "local_scan"))
    /\ Register(j)
    /\ Goto(j, "local")
    /\ UNCHANGED <<fixed, todo, disk, localClean, pool, cache, modes, crashes, seen>>

\* What follows the select! between the scanner and the token.
EndLocal(j, v) ==
    LET scanned == SetPompelmiVerdict(row[j], v)
        verdict == IF v = "malicious" THEN "infected" ELSE "inconclusive"
    IN  /\ Deregister(j) /\ UNCHANGED tripped
        /\ localClean' = IF v = "clean" THEN localClean \cup {j} ELSE localClean
        /\ IF v = "clean" \/ (v = "error" /\ conf.bypass)
           THEN Write(j, scanned) /\ Goto(j, "precheck")
           ELSE Write(j, Settled(scanned, verdict)) /\ Goto(j, "done")
        /\ UNCHANGED <<fixed, todo, disk, pool, cache, modes, crashes>>

\* clamd answers, or its connection fails.
LocalAnswers(j) ==
    /\ pc[j] = "local"
    /\ \E v \in LocalVerdicts :
        /\ EndLocal(j, v)
        /\ vouched' = IF v = "clean" THEN vouched \cup {Content[j]} ELSE vouched
    /\ UNCHANGED <<disposed, aborted>>

\* The token fires first: the scan counts as a scanner error.
LocalCancelled(j) ==
    /\ pc[j] = "local" /\ j \in tripped
    /\ EndLocal(j, "error")
    /\ aborted' = aborted \cup {j}
    /\ UNCHANGED <<vouched, disposed>>

Idle(j) == UNCHANGED <<fixed, todo, disk, localClean, pool, cache, modes, crashes, seen>>

\* fs::metadata succeeds on the quarantine copy.
Readable(j) == conf.vt /\ quar[j] # "none"

\* VirusTotal is off, or the file is above max_scan_bytes: kept.
KeptBeforeVt(j) ==
    /\ pc[j] = "precheck" /\ (conf.vt => Readable(j))
    /\ \E v \in {"inconclusive", "oversized"} :
        /\ (v = "inconclusive") <=> ~conf.vt
        /\ Write(j, Settled(row[j], v))
    /\ Goto(j, "done")
    /\ UNCHANGED tokens /\ Idle(j)

\* fs::metadata fails on the quarantine copy.
Unreadable(j) ==
    /\ pc[j] = "precheck" /\ conf.vt
    /\ quar[j] = "none" \/ IOFaults
    /\ Fails(j)
    /\ UNCHANGED tokens /\ Idle(j)

\* Mutant: any hit releases the file.
CacheHitMutant(j) ==
    LET v == cache[Content[j]] IN
    /\ pc[j] = "precheck" /\ Readable(j) /\ v # "none"
    /\ Write(j, Settled(row[j], v))
    /\ Goto(j, "create")
    /\ UNCHANGED tokens /\ Idle(j)

\* The cached verdict is final: no scan, no token.
CacheHit(j) ==
    LET v == cache[Content[j]] IN
    /\ pc[j] = "precheck" /\ Readable(j) /\ v # "none"
    /\ Write(j, Settled(row[j], v))
    /\ Goto(j, IF v = "clean" THEN "create" ELSE "done")
    /\ UNCHANGED tokens /\ Idle(j)

\* vt_cache::check finds nothing; a failure of the hash or of the database reads
\* the same.
CacheMisses(j) == cache[Content[j]] = "none" \/ IOFaults

CacheMiss(j) ==
    /\ pc[j] = "precheck" /\ Readable(j) /\ CacheMisses(j)
    /\ Write(j, SetStage(row[j], "cache_check"))
    /\ Register(j)
    /\ Goto(j, "queued")
    /\ Idle(j)

\* Mutant: off by one.
CanAcquireMutant == free >= 0

CanAcquire == free > 0

IncScan == activeScans' = activeScans + 1

\* Clamped at zero.
DecScan == activeScans' = IF activeScans > 0 THEN activeScans - 1 ELSE 0

\* acquire_owned, inc_scan and the first on_stage callback.
AcquirePermit(j) ==
    /\ pc[j] = "queued" /\ CanAcquire
    /\ free' = free - 1
    /\ IncScan
    /\ Write(j, SetStage(row[j], "vt"))
    /\ Goto(j, "vt")
    /\ UNCHANGED <<fixed, todo, disk, tokens, localClean, cache, modes, crashes, seen>>

\* Mutant: the permit is never dropped.
ReleasePermitMutant(j) ==
    /\ UNCHANGED free
    /\ DecScan
    /\ Deregister(j) /\ UNCHANGED tripped

\* dec_scan (clamped at zero), drop(permit), and the token is forgotten.
ReleasePermit(j) ==
    /\ free' = free + 1
    /\ DecScan
    /\ Deregister(j) /\ UNCHANGED tripped

\* Mutant: local_clean is not consulted.
RestoreDecisionMutant(isLocalClean, v) ==
    IF v \in {"clean", "inconclusive"} THEN "restore" ELSE "keep"

\* Clean on VirusTotal, or unknown there and clean locally.
RestoreDecision(isLocalClean, v) ==
    IF v = "clean" \/ (v = "inconclusive" /\ isLocalClean)
    THEN "restore" ELSE "keep"

\* vt_cache::store hashes the quarantine copy; its errors are swallowed.
CacheStore(j, v) ==
    \/ quar[j] # "none" /\ cache' = [cache EXCEPT ![Content[j]] = v]
    \/ (quar[j] = "none" \/ IOFaults) /\ UNCHANGED cache

\* VirusTotal settles.  An unknown file cleared locally becomes
\* 'quarantine_kept' here, before the restore that follows.
VtAnswers(j) ==
    /\ pc[j] = "vt"
    /\ \E v \in VtVerdicts :
        /\ Write(j, Settled(row[j], v))
        /\ IF v \in {"clean", "infected"} THEN CacheStore(j, v) ELSE UNCHANGED cache
        /\ vouched' = IF v = "clean" THEN vouched \cup {Content[j]} ELSE vouched
        /\ Goto(j, IF RestoreDecision(j \in localClean, v) = "restore"
                   THEN "create" ELSE "done")
    /\ ReleasePermit(j)
    /\ UNCHANGED <<fixed, todo, disk, localClean, modes, crashes, disposed, aborted>>

\* Mutant: the early return after cancel_job is missing.
VtCancelledMutant(j) ==
    /\ pc[j] = "vt" /\ j \in tripped
    /\ Write(j, CancelJob(SetStage(row[j], "done")))
    /\ Goto(j, IF j \in localClean THEN "create" ELSE "done")
    /\ ReleasePermit(j)
    /\ aborted' = aborted \cup {j}
    /\ UNCHANGED <<fixed, todo, disk, localClean, cache, modes, crashes, vouched, disposed>>

\* The checker saw the token: "Cancelled by user".
VtCancelled(j) ==
    /\ pc[j] = "vt" /\ j \in tripped
    /\ Write(j, CancelJob(SetStage(row[j], "done")))
    /\ Goto(j, "done")
    /\ ReleasePermit(j)
    /\ aborted' = aborted \cup {j}
    /\ UNCHANGED <<fixed, todo, disk, localClean, cache, modes, crashes, vouched, disposed>>

-------------------------------------------------------------------------------
(* Releasing a file: restore_to_path and set_restored, run by the pipeline  *)
(* (restore_clean) and by the API (restore_quarantine_job) alike.           *)

\* The pipeline turns an error into a failed row, a request into a 400.
RestoreFails(a) ==
    IF a \in Jobs THEN Fails(a) ELSE Goto(a, "done") /\ UNCHANGED row

RestoreFrame == UNCHANGED <<fixed, todo, src, tokens, localClean, pool, cache, modes, crashes, seen>>

\* The destination is created empty with O_EXCL; names never collide.
RestoreCreate(a) ==
    /\ pc[a] = "create"
    /\ \/ /\ out' = [out EXCEPT ![a] = "stub"]
          /\ Goto(a, "copy") /\ UNCHANGED row
       \/ /\ IOFaults /\ UNCHANGED out
          /\ RestoreFails(a)
    /\ UNCHANGED quar /\ RestoreFrame

\* Mutant: the outcome of the copy is not checked.
RestoreCopyMutant(a) ==
    /\ pc[a] = "copy"
    /\ Goto(a, "unlink")
    /\ UNCHANGED <<quar, out, row>> /\ RestoreFrame

\* fs::copy into the destination; the stub stays behind when it fails.
RestoreCopy(a) ==
    /\ pc[a] = "copy"
    /\ \/ /\ quar[Target(a)] # "none"
          /\ out' = [out EXCEPT ![a] = "copy"]
          /\ Goto(a, "unlink") /\ UNCHANGED row
       \/ /\ quar[Target(a)] = "none" \/ IOFaults
          /\ UNCHANGED out
          /\ RestoreFails(a)
    /\ UNCHANGED quar /\ RestoreFrame

\* Mutant: a missing file is tolerated, as in delete_file.
RestoreUnlinkMutant(a) ==
    /\ pc[a] = "unlink"
    /\ quar' = [quar EXCEPT ![Target(a)] = "none"]
    /\ Goto(a, "commit")
    /\ UNCHANGED <<out, row>> /\ RestoreFrame

\* remove_file on the quarantine copy; here a missing file is an error.
RestoreUnlink(a) ==
    /\ pc[a] = "unlink"
    /\ \/ /\ quar[Target(a)] # "none"
          /\ quar' = [quar EXCEPT ![Target(a)] = "none"]
          /\ Goto(a, "commit") /\ UNCHANGED row
       \/ /\ quar[Target(a)] = "none" \/ IOFaults
          /\ UNCHANGED quar
          /\ RestoreFails(a)
    /\ UNCHANGED out /\ RestoreFrame

\* normalize_restored, then set_restored.
RestoreCommit(a) ==
    /\ pc[a] = "commit"
    /\ out' = [out EXCEPT ![a] = IF @ = "copy" THEN "ready" ELSE @]
    /\ Write(Target(a), SetRestored(row[Target(a)]))
    /\ Goto(a, "done")
    /\ UNCHANGED quar /\ RestoreFrame

-------------------------------------------------------------------------------
(* Requests: the handlers of ui_server.rs and the inconclusive sweeper.     *)

Pending(r, ops) == pc[r] = "idle" /\ task[r].op \in ops

ApiFrame == UNCHANGED <<fixed, src, localClean, pool, cache, crashes, vouched, aborted>>

\* Mutant: everything VirusTotal did not flag passes.
VerifiedCleanMutant(w) == w.vt # "infected"

\* Either engine vouches for the file.
VerifiedClean(w) == w.vt = "clean" \/ w.local = "clean"

\* get_job and the gates of restore_quarantine_job.
RestoreRequest(r) ==
    LET w == row[Target(r)]
        granted == /\ w.status = "quarantine_kept" /\ w.path
                   /\ task[r].op = "force" \/ VerifiedClean(w)
    IN  /\ Pending(r, {"restore", "force"})
        /\ Goto(r, IF granted THEN "create" ELSE "done")
        /\ UNCHANGED <<todo, quar, out, row, tokens, modes, disposed>> /\ ApiFrame

\* sweep_once lists the expired inconclusive rows, then deletes one by one.
SweepList(r) ==
    /\ Pending(r, {"sweep"})
    /\ Goto(r, IF IsSweepable(row[Target(r)]) THEN "d_read" ELSE "done")
    /\ UNCHANGED <<todo, quar, out, row, tokens, modes, disposed>> /\ ApiFrame

\* Mutant: the status of the row is not checked before the file goes.
DeleteReadMutant(r) ==
    /\ Pending(r, {"delete"}) \/ pc[r] = "d_read"
    /\ Goto(r, IF row[Target(r)].path THEN "d_unlink" ELSE "d_commit")
    /\ UNCHANGED <<todo, quar, out, row, tokens, modes, disposed>> /\ ApiFrame

\* get_job and the status check of delete_quarantine_job.
DeleteRead(r) ==
    LET w == row[Target(r)] IN
    /\ Pending(r, {"delete"}) \/ pc[r] = "d_read"
    /\ Goto(r, CASE w.status \notin Deletable -> "done"
                 [] w.status \in Deletable /\ w.path -> "d_unlink"
                 [] w.status \in Deletable /\ ~w.path -> "d_commit")
    /\ UNCHANGED <<todo, quar, out, row, tokens, modes, disposed>> /\ ApiFrame

\* delete_file: a missing file counts as deleted.
Discard(j) ==
    /\ quar' = [quar EXCEPT ![j] = "none"]
    /\ disposed' = IF quar[j] # "none" THEN disposed \cup {j} ELSE disposed

DeleteUnlink(r) ==
    /\ pc[r] = "d_unlink"
    /\ \/ Discard(Target(r)) /\ Goto(r, "d_commit")
       \/ IOFaults /\ Goto(r, "done") /\ UNCHANGED <<quar, disposed>>
    /\ UNCHANGED <<todo, out, row, tokens, modes>> /\ ApiFrame

\* set_deleted; on a row that moved on meanwhile it is a conflict.
DeleteCommit(r) ==
    /\ pc[r] = "d_commit"
    /\ Write(Target(r), SetDeleted(row[Target(r)]))
    /\ Goto(r, "done")
    /\ UNCHANGED <<todo, quar, out, tokens, modes, disposed>> /\ ApiFrame

\* clear_all: one transaction drops every settled row and keeps their paths.
ClearAll(r) ==
    LET settled == {j \in Jobs : IsSettled(row[j])} IN
    /\ Pending(r, {"clear"})
    /\ row' = [j \in Jobs |-> IF j \in settled THEN NoRow ELSE row[j]]
    /\ todo' = [todo EXCEPT ![r] = {j \in settled : row[j].path}]
    /\ disposed' = disposed \cup settled
    /\ Goto(r, "c_unlink")
    /\ UNCHANGED <<quar, out, tokens, modes>> /\ ApiFrame

\* ... and delete_all_jobs unlinks the files one after the other.
ClearUnlink(r) ==
    /\ pc[r] = "c_unlink"
    /\ \E j \in todo[r] :
        /\ todo' = [todo EXCEPT ![r] = @ \ {j}]
        /\ Discard(j) \/ (IOFaults /\ UNCHANGED <<quar, disposed>>)
    /\ UNCHANGED <<pc, out, row, tokens, modes>> /\ ApiFrame

ClearReturns(r) ==
    /\ pc[r] = "c_unlink" /\ todo[r] = {}
    /\ Goto(r, "done")
    /\ UNCHANGED <<todo, quar, out, row, tokens, modes, disposed>> /\ ApiFrame

\* Watcher::cancel; without a registered token it does nothing.
Cancel(r) ==
    LET hit == {Target(r)} \cap ctl IN
    /\ Pending(r, {"cancel"})
    /\ ctl' = ctl \ hit
    /\ tripped' = tripped \cup hit
    /\ Goto(r, "done")
    /\ UNCHANGED <<todo, quar, out, row, modes, disposed>> /\ ApiFrame

\* set_mode swaps the mode under its lock and releases it ...
ModeSwap(r) ==
    LET next == task[r].op IN
    /\ Pending(r, Modes)
    /\ mode' = next
    /\ Goto(r, CASE mode = next -> "done"
                 [] mode = "active" /\ mode # next -> "m_cancel"
                 [] mode # "active" /\ mode # next -> "m_persist")
    /\ UNCHANGED <<todo, quar, out, row, tokens, saved, disposed>> /\ ApiFrame

\* ... cancels every registered token when it left 'active' ...
ModeCancels(r) ==
    /\ pc[r] = "m_cancel"
    /\ tripped' = tripped \cup ctl
    /\ Goto(r, "m_persist")
    /\ UNCHANGED <<todo, quar, out, row, ctl, modes, disposed>> /\ ApiFrame

\* ... and has on_mode_change write config.json.
ModePersists(r) ==
    /\ pc[r] = "m_persist"
    /\ saved' = task[r].op
    /\ Goto(r, "done")
    /\ UNCHANGED <<todo, quar, out, row, tokens, mode, disposed>> /\ ApiFrame

\* request_timeout, or a client that hangs up, drops the handler at an await.
Abandon(r) ==
    /\ Timeouts /\ task[r].op # "sweep"
    /\ pc[r] \in RestorePhases \cup {"d_unlink", "d_commit", "c_unlink"}
    /\ Goto(r, "done")
    /\ todo' = [todo EXCEPT ![r] = {}]
    /\ UNCHANGED <<quar, out, row, tokens, modes, disposed>> /\ ApiFrame

-------------------------------------------------------------------------------
(* The process dies and launchd starts it again.  Every task is gone; rows, *)
(* files, cache and config.json remain.  Start-up reads the saved mode and  *)
(* reconcile_quarantine_dir unlinks the files no row refers to.             *)

\* Mutant: only the files of unfinished jobs are known.
ReferencedMutant(j) == row[j].path /\ row[j].status \in Active

Referenced(j) == row[j].path

Restarted(a) ==
    CASE pc[a] \in {"waiting", "idle", "ignored", "done", "dead"} -> pc[a]
      [] pc[a] \in JobPhases \ {"waiting", "ignored", "done", "dead"} /\ a \in Jobs -> "dead"
      [] OTHER -> "done"

CrashRestart ==
    /\ crashes < MaxCrashes
    /\ crashes' = crashes + 1
    /\ pc' = [a \in Actors |-> Restarted(a)]
    /\ todo' = [r \in Requests |-> {}]
    /\ quar' = [j \in Jobs |-> IF Referenced(j) THEN quar[j] ELSE "none"]
    /\ ctl' = {} /\ tripped' = {} /\ localClean' = {}
    /\ free' = MaxScans /\ activeScans' = 0
    /\ mode' = saved
    /\ UNCHANGED <<fixed, src, out, row, cache, saved, seen>>

-------------------------------------------------------------------------------
\* The steps of a pipeline that wait for nobody outside the process.
Proceeds(j) ==
    \/ CopyIn(j) \/ RemoveSource(j) \/ RecordQuarantine(j) \/ Dispatch(j)
    \/ BeginLocal(j) \/ LocalCancelled(j)
    \/ KeptBeforeVt(j) \/ Unreadable(j) \/ CacheHit(j) \/ CacheMiss(j)
    \/ VtAnswers(j) \/ VtCancelled(j)

Restores(a) ==
    RestoreCreate(a) \/ RestoreCopy(a) \/ RestoreUnlink(a) \/ RestoreCommit(a)

Pipeline(j) ==
    \/ Accept(j) \/ Ignore(j) \/ LocalAnswers(j) \/ AcquirePermit(j)
    \/ Proceeds(j)

Serve(r) ==
    \/ RestoreRequest(r) \/ SweepList(r)
    \/ DeleteRead(r) \/ DeleteUnlink(r) \/ DeleteCommit(r)
    \/ ClearAll(r) \/ ClearUnlink(r) \/ ClearReturns(r)
    \/ Cancel(r) \/ ModeSwap(r) \/ ModeCancels(r) \/ ModePersists(r)
    \/ Abandon(r)

Next ==
    \/ \E j \in Jobs : Pipeline(j)
    \/ \E a \in Actors : Restores(a)
    \/ \E r \in Requests : Serve(r)
    \/ CrashRestart

Spec == Init /\ [][Next]_vars

\* Tasks are scheduled, the semaphore is first come first served, and every
\* VirusTotal call has a time limit.  Nothing is assumed of clamd (there is no
\* time limit on its answer), of users, or of files yet to come.
Fairness ==
    \A j \in Jobs :
        WF_vars(Proceeds(j)) /\ WF_vars(Restores(j)) /\ WF_vars(AcquirePermit(j))

FairSpec == Spec /\ Fairness

-------------------------------------------------------------------------------
(* Properties.                                                              *)

\* The complete copies of file j in the watch folder that a restore made.
Copies(j) == {a \in Actors : Target(a) = j /\ out[a] \in {"copy", "ready"}}

Forced(a) == a \in Requests /\ task[a].op = "force"

\* Containment: nothing is put back into the watch folder, not even an empty
\* destination, unless some engine has reported that very content clean or the
\* user forced it; whichever of the pipeline, the cache and the API released it.
ReleaseIsVouched ==
    \A a \in Actors : out[a] # "none" /\ ~Forced(a) => Content[Target(a)] \in vouched

\* Custody: as long as the process lives, the content of every accepted file is
\* complete in at least one place, unless a delete or a sweep removed its
\* quarantine copy or a clear dropped its row; no other race loses it.
ContentIsSomewhere ==
    \A j \in Jobs : src[j] \/ quar[j] = "full" \/ Copies(j) # {} \/ j \in disposed

\* After a crash the content may be lost, but only for a job that died inside
\* move_in, which its row still shows as 'received'.
LossOnlyMidIntake ==
    \A j \in Jobs : src[j] \/ quar[j] = "full" \/ Copies(j) # {} \/ j \in disposed
                    \/ (pc[j] = "dead" /\ row[j].status = "received")

\* Of several restores of one job racing each other (the pipeline and API
\* requests, retries after a timeout included) at most one completes.
OneRestoreWins ==
    \A a, b \in Actors :
        out[a] = "ready" /\ out[b] = "ready" /\ Target(a) = Target(b) => a = b

\* No actor is working on job j.
AtRest(j) ==
    /\ pc[j] \in {"done", "dead"}
    /\ \A r \in Requests : pc[r] \in {"idle", "done"}

\* Once every request has run to its end, the status of a row says where the
\* file is, whatever order the requests and the pipeline interleaved in.
StatusTellsPlace ==
    \A j \in Jobs : AtRest(j) =>
        CASE row[j].status \in {"quarantine_kept", "cancelled"} -> quar[j] = "full"
          [] row[j].status = "restored" -> quar[j] = "none" /\ Copies(j) # {}
          [] row[j].status \in {"deleted", "absent"} -> quar[j] = "none"
          [] OTHER -> row[j].status = "failed"

\* A cancelled job never leaves quarantine except by being deleted.
CancelledIsContained ==
    \A j \in Jobs : row[j].status = "cancelled" =>
        Copies(j) = {} /\ (quar[j] = "full" \/ j \in disposed)

\* Over crashes, failing I/O and dropped handlers a row is never ahead of the disk:
\* 'restored' means the copy left quarantine and is complete in the watch folder,
\* 'deleted' that no quarantine copy is left, save the orphan of an intake that
\* failed before the row learned its path, when the original was not removed.
RowsNeverOverclaim ==
    \A j \in Jobs :
        /\ row[j].status = "restored" => quar[j] = "none" /\ Copies(j) # {}
        /\ row[j].status = "deleted" => quar[j] = "none" \/ (~row[j].path /\ src[j])

\* What a status may be followed by.  A restore that unlinked the copy commits
\* over a delete that found it gone; a pipeline that lost its file to such a
\* restore fails the row whatever it says by then.
Lifecycle ==
    ({"absent"} \X {"received"})
    \cup ({"received"} \X {"in_quarantine", "failed"})
    \cup ({"in_quarantine"} \X {"scanning", "quarantine_kept"})
    \cup ({"scanning"} \X {"quarantine_kept", "cancelled", "restored", "failed"})
    \cup ({"quarantine_kept"} \X {"restored", "deleted", "failed", "absent"})
    \cup ({"cancelled"} \X {"deleted", "absent"})
    \cup ({"restored"} \X {"failed", "absent"})
    \cup ({"deleted"} \X {"restored", "failed", "absent"})
    \cup ({"failed"} \X {"restored", "deleted", "absent"})

\* Whatever the order of unguarded UPDATEs of pipelines and requests: a settled
\* row is never active again, an active one is never deleted or cleared, a restored
\* one never reads deleted or kept, and a cancelled one is only deleted or cleared.
RowsFollowLifecycle ==
    [][\A j \in Jobs : row'[j].status # row[j].status =>
            <<row[j].status, row'[j].status>> \in Lifecycle]_vars

\* A token is registered only while its job is in a scan that can observe it.
TokensFollowScans == \A j \in ctl : pc[j] \in {"local", "queued", "vt"}

\* Requests never touch a row or a file that a pipeline still works on: until
\* the row settles, only the pipeline's own steps (or a restart) change them.
\* After a crash it also says that nothing ever settles such a row.
ActiveRowsBelongToPipeline ==
    [][\A j \in Jobs : row[j].status \in Active /\ pc'[j] = pc[j] =>
            row'[j] = row[j] /\ quar'[j] = quar[j]]_vars

\* Permits in use, the metric and the jobs at VirusTotal agree.
PoolIsExact ==
    LET scanning == Cardinality({j \in Jobs : pc[j] = "vt"}) IN
    /\ scanning \in 0..MaxScans
    /\ scanning + free = MaxScans /\ activeScans = scanning

\* Every accepted file settles, unless clamd never answers about it and nobody
\* cancels that scan.
SettlesUnlessClamdSilent ==
    \A j \in Jobs :
        pc[j] = "intake" ~>
            (pc[j] \in {"done", "dead"} \/ <>[](pc[j] = "local" /\ j \notin tripped))

\* main.rs:66 "Safe at startup - no scan is in flight yet, so every on-disk file
\* either has a row or is a true orphan": reconciling removes no last copy.
ReconcileSparesLastCopy ==
    [][\A j \in Jobs : crashes' # crashes /\ quar[j] = "full" /\ quar'[j] = "none" =>
            src[j] \/ Copies(j) # {} \/ j \in disposed]_vars

\* README.md:17 "cancel in-progress scan from menu bar; file stays in
\* quarantine": a job whose scan was cancelled is not released by the pipeline.
CancelKeepsFile == \A j \in aborted : out[j] = "none"

\* Design of the mode switch, line 34: leaving 'active' aborts all in-flight
\* scans, so once set_mode has returned no scan runs on an untouched token.
LeavingActiveAbortsScans ==
    mode # "active" /\ (\A r \in Requests : pc[r] # "m_cancel") =>
        \A j \in Jobs : pc[j] \in {"local", "queued", "vt"} => j \in tripped

-------------------------------------------------------------------------------
(* The detailed system implements FileCustody while the process lives.      *)

PlaceOf(j) ==
    (IF src[j] THEN {"watch"} ELSE {})
        \cup (IF quar[j] = "full" THEN {"vault"} ELSE {})
        \cup (IF Copies(j) # {} THEN {"released"} ELSE {})

\* The user forces a release by making the request.
ForcedJobs == {Target(r) : r \in {q \in Requests : Forced(q) /\ pc[q] # "idle"}}

Custody == INSTANCE FileCustody WITH
    Files     <- Jobs,
    place     <- [j \in Jobs |-> PlaceOf(j)],
    permitted <- {j \in Jobs : Content[j] \in vouched} \cup ForcedJobs,
    forfeited <- disposed

\* Every step of pipelines and requests moves, releases or removes the bytes
\* only as FileCustody allows.
ImplementsCustody == Custody!CustodySpec
===============================================================================
