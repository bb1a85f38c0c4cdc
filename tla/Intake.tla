-------------------------------- MODULE Intake --------------------------------
(***************************************************************************)
(* The intake of the daemon: from a file that appears in the watch folder  *)
(* to the move into quarantine, and from a restore to the moment its own   *)
(* file-system events have died down (src/daemon/src/watcher.rs: start,    *)
(* on_raw_event, flush_stable, handle_file, restore_suppressed,            *)
(* restore_clean; move_in of file_mover.rs).                               *)
(*                                                                         *)
(* One consumer task takes events in order and alternates with the ticker; *)
(* every ready file gets a handler task of its own.  What a scan decides   *)
(* is left open here: it is the business of module Quarantine, whose       *)
(* action Accept is Claim below.                                           *)
(*                                                                         *)
(* Abstracted: the stability clock (a pending path may be flushed at any   *)
(* time), names the watcher ignores, the quarantine xattr.  Assumed: the   *)
(* settle window outlives the events of a restore (see Expire).            *)
(***************************************************************************)
EXTENDS Naturals, Sequences

CONSTANTS
    Files,       \* files a user may drop, each of them once
    Paths,       \* places in the watch folder
    PathOf,      \* PathOf[f]: where f is dropped, and restored to
    NoFile,      \* nothing there
    Tasks,       \* handlers and API restores alive at once
    MaxSwitches, \* bound on switching monitoring on or off
    MaxBacklog,  \* bound on the events queued when the ticker emits a path
    MaxCrashes   \* bound on deaths of the process

ASSUME IntakeAssumption ==
    /\ Paths # {} /\ PathOf \in [Files -> Paths]
    /\ NoFile \notin Files
    /\ MaxSwitches \in Nat /\ MaxBacklog \in Nat /\ MaxCrashes \in Nat

VARIABLES
    at,          \* at[p]: the file now at p
    place,       \* place[f]: what became of f
    locked,      \* places whose file has mode 0o000
    events,      \* the notify channel
    consumer,    \* the consumer task, inside on_raw_event or idle
    pending,     \* paths in the stability tracker
    processing,  \* WatcherInner::processing_paths
    restoring,   \* paths within their settle window (restoring_paths)
    task,        \* handlers and restores
    monitoring,  \* mode # MonitoringDisabled
    switches, crashes,
    missed       \* observation only: places whose file an event, a handler or a start ignored

bounds == <<switches, crashes>>
vars == <<at, place, locked, events, consumer, pending, processing, restoring,
          task, monitoring, bounds, missed>>

Places == {"new", "watch", "vault", "released", "elsewhere", "gone"}
Kinds == {"change", "remove"}
\* Handlers before the original has left the watch folder, and all of them.
Taking == {"spawned", "admitted", "opened", "copied"}
TaskPhases == {"free"} \cup Taking \cup {"scanning", "marked"}

FreeTask == [pc |-> "free", path |-> CHOOSE p \in Paths : TRUE,
             job |-> NoFile, own |-> FALSE]

TypeOK ==
    /\ at \in [Paths -> Files \cup {NoFile}]
    /\ place \in [Files -> Places]
    /\ \A f \in Files : place[f] \in {"watch", "released"} <=> at[PathOf[f]] = f
    /\ locked \subseteq {p \in Paths : at[p] # NoFile}
    /\ events \in Seq([kind : Kinds, path : Paths, file : Files])
    /\ consumer \in [pc : {"idle", "stat", "lock"}, path : Paths]
    /\ pending \subseteq Paths /\ processing \subseteq Paths /\ restoring \subseteq Paths
    /\ task \in [Tasks -> [pc : TaskPhases, path : Paths,
                           job : Files \cup {NoFile}, own : BOOLEAN]]
    /\ monitoring \in BOOLEAN
    /\ switches \in 0..MaxSwitches /\ crashes \in 0..MaxCrashes
    /\ missed \subseteq {p \in Paths : at[p] # NoFile}

Init ==
    /\ at = [p \in Paths |-> NoFile]
    /\ place = [f \in Files |-> "new"]
    /\ locked = {}
    /\ events = << >>
    /\ consumer = [pc |-> "idle", path |-> CHOOSE p \in Paths : TRUE]
    /\ pending = {} /\ processing = {} /\ restoring = {}
    /\ task = [h \in Tasks |-> FreeTask]
    /\ monitoring = TRUE /\ switches = 0 /\ crashes = 0
    /\ missed = {}

Event(k, f) == [kind |-> k, path |-> PathOf[f], file |-> f]

\* A change of mode or content at p is reported if there is a file.
Touched(p) == IF at[p] = NoFile THEN events ELSE Append(events, Event("change", at[p]))

-------------------------------------------------------------------------------
(* The user.                                                                *)

\* A download is renamed into place, over whatever is there.
Drop(f) ==
    LET p == PathOf[f] IN
    /\ place[f] = "new"
    /\ at' = [at EXCEPT ![p] = f]
    /\ place' = [g \in Files |-> IF g = f THEN "watch"
                                 ELSE IF g = at[p] THEN "gone" ELSE place[g]]
    /\ locked' = locked \ {p} /\ missed' = missed \ {p}
    /\ events' = Append(events, Event("change", f))
    /\ UNCHANGED <<consumer, pending, processing, restoring, task, monitoring, bounds>>

Delete(p) ==
    /\ at[p] # NoFile
    /\ at' = [at EXCEPT ![p] = NoFile]
    /\ place' = [place EXCEPT ![at[p]] = "gone"]
    /\ locked' = locked \ {p} /\ missed' = missed \ {p}
    /\ events' = Append(events, Event("remove", at[p]))
    /\ UNCHANGED <<consumer, pending, processing, restoring, task, monitoring, bounds>>

SetMode ==
    /\ switches < MaxSwitches
    /\ switches' = switches + 1
    /\ monitoring' = ~monitoring
    /\ UNCHANGED <<at, place, locked, events, consumer, pending, processing,
                   restoring, task, crashes, missed>>

-------------------------------------------------------------------------------
(* The consumer: on_raw_event and flush_stable.                             *)

\* restore_suppressed; that the window slides is part of Expire.
Suppressed(p) == p \in restoring

\* A remove event disarms the tracker.
NextPending(e) == IF e.kind = "remove" THEN pending \ {e.path} ELSE pending

\* The head of the channel is taken; the mode and the marker are looked up.
TakeEvent ==
    LET e == Head(events)
        dropped == ~monitoring \/ (e.kind = "change" /\ Suppressed(e.path))
    IN  /\ consumer.pc = "idle" /\ events # << >>
        /\ events' = Tail(events)
        /\ pending' = IF monitoring THEN NextPending(e) ELSE pending
        /\ consumer' = IF dropped \/ e.kind = "remove" THEN consumer
                       ELSE [pc |-> "stat", path |-> e.path]
        /\ missed' = IF dropped /\ e.kind = "change" /\ e.file = at[e.path]
                      THEN missed \cup {e.path} ELSE missed
        /\ UNCHANGED <<at, place, locked, processing, restoring, task,
                       monitoring, bounds>>

\* No lock is due: the path is being processed or already pending.
TrackedAtOnce(p) == p \in processing \cup pending

\* Mutant: events of a path that is being processed are not tracked.
StatMutant ==
    LET p == consumer.path IN
    /\ consumer.pc = "stat"
    /\ consumer' = IF at[p] # NoFile /\ ~TrackedAtOnce(p)
                   THEN [consumer EXCEPT !.pc = "lock"]
                   ELSE [consumer EXCEPT !.pc = "idle"]
    /\ UNCHANGED <<at, place, locked, events, pending, processing, restoring, task,
                   monitoring, bounds, missed>>

\* symlink_metadata answered: nothing there, or to be locked and tracked.
Stat ==
    LET p == consumer.path IN
    /\ consumer.pc = "stat"
    /\ consumer' = IF at[p] # NoFile /\ ~TrackedAtOnce(p)
                   THEN [consumer EXCEPT !.pc = "lock"]
                   ELSE [consumer EXCEPT !.pc = "idle"]
    /\ pending' = IF at[p] # NoFile /\ TrackedAtOnce(p) THEN pending \cup {p} ELSE pending
    /\ UNCHANGED <<at, place, locked, events, processing, restoring, task,
                   monitoring, bounds, missed>>

\* chmod 0o000 on whatever is at the path by now, then the tracker is armed.
Lock ==
    LET p == consumer.path IN
    /\ consumer.pc = "lock"
    /\ locked' = IF at[p] = NoFile THEN locked ELSE locked \cup {p}
    /\ events' = Touched(p)
    /\ pending' = pending \cup {p}
    /\ consumer' = [consumer EXCEPT !.pc = "idle"]
    /\ UNCHANGED <<at, place, processing, restoring, task, monitoring, bounds, missed>>

\* The ticker finds p stable and spawns its handler.
Flush(p) ==
    /\ consumer.pc = "idle" /\ p \in pending /\ Len(events) <= MaxBacklog
    /\ pending' = pending \ {p}
    /\ \E h \in Tasks :
        /\ task[h].pc = "free"
        /\ task' = [task EXCEPT ![h] = [FreeTask EXCEPT !.pc = "spawned", !.path = p]]
    /\ UNCHANGED <<at, place, locked, events, consumer, processing, restoring,
                   monitoring, bounds, missed>>

-------------------------------------------------------------------------------
(* A handler task.                                                          *)

Step(h, from, to) ==
    /\ task[h].pc = from
    /\ task' = [task EXCEPT ![h].pc = to]

Quit(h) == task' = [task EXCEPT ![h] = FreeTask]

\* Something is at p when its handler gives up.
Overlooked(p) == {p} \cap {q \in Paths : at[q] # NoFile}

Admit(h) ==
    /\ task[h].pc = "spawned"
    /\ IF monitoring
       THEN Step(h, "spawned", "admitted") /\ UNCHANGED missed
       ELSE Quit(h) /\ missed' = missed \cup Overlooked(task[h].path)
    /\ UNCHANGED <<at, place, locked, events, consumer, pending, processing,
                   restoring, monitoring, bounds>>

\* Mutant: the result of inserting into processing_paths is ignored.
MayClaimMutant(p) == ~Suppressed(p)

MayClaim(p) == ~Suppressed(p) /\ p \notin processing

\* Mutant: the file is not made readable before the move.
UnlockedMutant(p) == locked

\* chmod 0o444.
Unlocked(p) == locked \ {p}

\* The file is still there, not just restored, and nobody else has the path: then
\* it is made readable.
Claim(h) ==
    LET p == task[h].path IN
    /\ task[h].pc = "admitted"
    /\ IF at[p] # NoFile /\ MayClaim(p)
       THEN /\ task' = [task EXCEPT ![h].pc = "opened", ![h].own = TRUE]
            /\ processing' = processing \cup {p}
            /\ locked' = Unlocked(p)
            /\ events' = Touched(p)
            /\ UNCHANGED missed
       ELSE /\ Quit(h)
            /\ missed' = missed \cup Overlooked(p)
            /\ UNCHANGED <<processing, locked, events>>
    /\ UNCHANGED <<at, place, consumer, pending, restoring, monitoring, bounds>>

Leave(h) ==
    /\ Quit(h)
    /\ processing' = IF task[h].own THEN processing \ {task[h].path} ELSE processing

\* move_in, the copy; a file that was locked again cannot be read.
Copy(h) ==
    LET p == task[h].path IN
    /\ task[h].pc = "opened"
    /\ IF at[p] # NoFile /\ p \notin locked
       THEN /\ task' = [task EXCEPT ![h].pc = "copied", ![h].job = at[p]]
            /\ UNCHANGED processing
       ELSE Leave(h)
    /\ UNCHANGED <<at, place, locked, events, consumer, pending, restoring,
                   monitoring, bounds, missed>>

\* move_in, the unlink of whatever is at the path, though it was renamed over the
\* copied file meanwhile; nothing there is an error.
Unlink(h) ==
    LET p == task[h].path
        f == task[h].job
        g == at[p]
    IN  /\ task[h].pc = "copied"
        /\ IF g = NoFile
           THEN Leave(h) /\ UNCHANGED <<at, place, locked, missed, events>>
           ELSE /\ Step(h, "copied", "scanning")
                /\ at' = [at EXCEPT ![p] = NoFile]
                /\ place' = [x \in Files |-> IF x = f THEN "vault"
                                             ELSE IF x = g THEN "gone" ELSE place[x]]
                /\ locked' = locked \ {p} /\ missed' = missed \ {p}
                /\ events' = Append(events, Event("remove", g))
                /\ UNCHANGED processing
        /\ UNCHANGED <<consumer, pending, restoring, monitoring, bounds>>

\* The scan settles and the file is kept.
Keep(h) ==
    /\ task[h].pc = "scanning"
    /\ Leave(h)
    /\ UNCHANGED <<at, place, locked, events, consumer, pending, restoring,
                   monitoring, bounds, missed>>

Release(h) ==
    /\ Leave(h)
    /\ place' = [place EXCEPT ![task[h].job] = "elsewhere"]

\* ... or released: to its old path, marked first, or under a new name, where it is
\* followed no further.
Mark(h) ==
    LET p == task[h].path IN
    /\ task[h].pc = "scanning"
    /\ IF at[p] = NoFile
       THEN /\ Step(h, "scanning", "marked")
            /\ restoring' = restoring \cup {p}
            /\ UNCHANGED <<place, processing>>
       ELSE Release(h) /\ UNCHANGED restoring
    /\ UNCHANGED <<at, locked, events, consumer, pending, monitoring, bounds, missed>>

\* The restore route does the same for a kept file, outside any handler.
ApiRestore(f) ==
    LET p == PathOf[f] IN
    /\ place[f] = "vault"
    /\ \A h \in Tasks : task[h].job # f
    /\ \E h \in Tasks :
        /\ task[h].pc = "free"
        /\ IF at[p] = NoFile
           THEN /\ task' = [task EXCEPT ![h] = [FreeTask EXCEPT
                                !.pc = "marked", !.path = p, !.job = f]]
                /\ restoring' = restoring \cup {p}
                /\ UNCHANGED place
           ELSE /\ place' = [place EXCEPT ![f] = "elsewhere"]
                /\ UNCHANGED <<task, restoring>>
    /\ UNCHANGED <<at, locked, events, consumer, pending, processing,
                   monitoring, bounds, missed>>

\* Mutant: the destination is created without O_EXCL.
ExclusiveMutant(p) == TRUE

\* create_new: a file that appeared meanwhile is not clobbered.
Exclusive(p) == at[p] = NoFile

\* restore_to_path and normalize_restored (content, then mode), and the handler
\* gives its path back.
Create(h) ==
    LET p == task[h].path
        f == task[h].job
    IN  /\ task[h].pc = "marked"
        /\ IF Exclusive(p)
           THEN /\ Leave(h)
                /\ at' = [at EXCEPT ![p] = f]
                /\ place' = [place EXCEPT ![f] = "released"]
                /\ events' = Append(Append(events, Event("change", f)), Event("change", f))
           ELSE Release(h) /\ UNCHANGED <<at, events>>
        /\ UNCHANGED <<locked, consumer, pending, restoring, monitoring, bounds, missed>>

\* Mutant: the window does not slide, events may still be under way.
QuietMutant(p) == \A h \in Tasks : task[h].path = p => task[h].pc # "marked"

\* Nothing about p is under way: five seconds without an event outlast the
\* latency of the channel and the two seconds of the stability tracker.
Quiet(p) ==
    /\ \A i \in 1..Len(events) : events[i].path # p
    /\ consumer.path = p => consumer.pc = "idle"
    /\ p \notin pending
    /\ \A h \in Tasks : task[h].path = p => task[h].pc \notin {"spawned", "admitted", "marked"}

Expire(p) ==
    /\ p \in restoring /\ Quiet(p)
    /\ restoring' = restoring \ {p}
    /\ UNCHANGED <<at, place, locked, events, consumer, pending, processing, task,
                   monitoring, bounds, missed>>

-------------------------------------------------------------------------------
(* The process dies and starts again, in the mode it had.                   *)

\* Files whose row may not name them yet: Unlink stands for set_in_quarantine too.
Unrecorded == {task[h].job : h \in {k \in Tasks : task[k].pc = "scanning"}}

\* The channel, the tracker, both sets of paths and all tasks are gone.  start does
\* not list the watch folder; the reconciler deletes what no row names.
CrashRestart ==
    /\ crashes < MaxCrashes
    /\ crashes' = crashes + 1
    /\ events' = << >> /\ consumer' = [consumer EXCEPT !.pc = "idle"]
    /\ pending' = {} /\ processing' = {} /\ restoring' = {}
    /\ task' = [h \in Tasks |-> FreeTask]
    /\ \E lost \in SUBSET Unrecorded :
        place' = [f \in Files |-> IF f \in lost THEN "gone" ELSE place[f]]
    /\ missed' = {p \in Paths : at[p] # NoFile}
    /\ UNCHANGED <<at, locked, monitoring, switches>>

-------------------------------------------------------------------------------
Consume == TakeEvent \/ Stat \/ Lock

Takes(h) == Admit(h) \/ Claim(h) \/ Copy(h) \/ Unlink(h)

Next ==
    \/ \E f \in Files : Drop(f) \/ ApiRestore(f)
    \/ \E p \in Paths : Delete(p) \/ Flush(p) \/ Expire(p)
    \/ SetMode \/ CrashRestart
    \/ Consume
    \/ \E h \in Tasks : Takes(h) \/ Keep(h) \/ Mark(h) \/ Create(h)

Spec == Init /\ [][Next]_vars

\* The consumer and the handlers are scheduled and the ticker ticks; a scan may
\* last for ever.  A stale event that locks the file again under its handler makes
\* the copy fail and the tracker try again; that race is not lost every time.
Fairness ==
    /\ WF_vars(Consume)
    /\ \A p \in Paths : WF_vars(Flush(p))
    /\ \A h \in Tasks : /\ WF_vars(Takes(h)) /\ WF_vars(Create(h))
                        /\ SF_vars(Copy(h) /\ task'[h].pc = "copied")

FairSpec == Spec /\ Fairness

-------------------------------------------------------------------------------
(* Properties.                                                              *)

\* No handler ever claims a file that the daemon has put back, whatever stale event
\* or timer brought it there: else a restored file would be quarantined again (the
\* Moved-Restored-Moved loop of the comment at watcher.rs:40).
NoRestoreLoop ==
    [][\A h \in Tasks :
        task[h].pc = "admitted" /\ task'[h].pc = "opened"
            => place[at[task[h].path]] # "released"]_vars

\* At any time at most one handler owns a path, from its claim to its end.
OneOwnerPerPath ==
    \A h, k \in Tasks :
        task[h].own /\ task[k].own /\ task[h].path = task[k].path => h = k

\* A file in the watch folder is always about to be handled, unless one of the
\* refusals of the code hit it: monitoring was off, its path was within a settle
\* window, a handler came while its path was still being processed, or it lay
\* there already when the daemon started.
InHand(f) ==
    LET p == PathOf[f] IN
    \/ \E i \in 1..Len(events) : events[i].path = p /\ events[i].kind = "change"
    \/ consumer.path = p /\ consumer.pc # "idle"
    \/ p \in pending
    \/ \E h \in Tasks : task[h].path = p /\ task[h].pc \in Taking

NothingForgotten ==
    \A f \in Files : place[f] = "watch" => PathOf[f] \in missed \/ InHand(f)

\* ... and is handled in the end.
DroppedIsTaken ==
    \A f \in Files : place[f] = "watch" ~> (place[f] # "watch" \/ PathOf[f] \in missed)
===============================================================================
