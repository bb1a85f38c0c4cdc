----------------------------- MODULE IntakeProofs -----------------------------
(***************************************************************************)
(* Theorems about Intake, for any files, places and handlers, any number   *)
(* of mode switches and crashes, and any backlog.                          *)
(*                                                                         *)
(* The invariant has three parts, proved one after the other.  Shape says  *)
(* which task works on which file; the types rest on it.  SettleInv says   *)
(* that outside its settle window a path with a restored file is quiet.    *)
(* HeraldInv says that a file in the watch folder has a change event of    *)
(* its own behind every remove event of its place, until something more    *)
(* than an event heads for it.                                             *)
(***************************************************************************)
EXTENDS Intake, TLAPS

Events == [kind : Kinds, path : Paths, file : Files]
TaskRecords == [pc : TaskPhases, path : Paths, job : Files \cup {NoFile}, own : BOOLEAN]

\* Events name the place of their file.
HomeEvents == {e \in Events : e.path = PathOf[e.file]}

\* Files, jobs and events are about the place they name.
AtHome ==
    /\ \A p \in Paths : at[p] # NoFile => PathOf[at[p]] = p
    /\ \A h \in Tasks : task[h].job # NoFile => PathOf[task[h].job] = task[h].path
    /\ events \in Seq(HomeEvents)

\* A task has a job from its copy on; a handler owns its path from its claim on.
TaskAgrees(h) ==
    /\ task[h].job # NoFile <=> task[h].pc \in {"copied", "scanning", "marked"}
    /\ task[h].pc \in {"opened", "copied", "scanning"} => task[h].own
    /\ task[h].own =>
            /\ task[h].pc \in {"opened", "copied", "scanning", "marked"}
            /\ task[h].path \in processing
    /\ task[h].pc \in {"scanning", "marked"} => place[task[h].job] = "vault"

OneTaskPerJob ==
    \A h, k \in Tasks : task[h].job = task[k].job /\ task[h].job # NoFile => h = k

\* Nobody is about to put something at p, nor heads for what was put there.
Calm(p) ==
    /\ \A h \in Tasks : task[h].path = p => task[h].pc # "marked"
    /\ at[p] # NoFile /\ place[at[p]] = "released" => Quiet(p)

\* s holds a change event of f.
Tells(s, f) == \E i \in 1..Len(s) : s[i].file = f /\ s[i].kind = "change"

\* After each remove event of its place, s holds a change event of f: the remove event
\* is older than the file that is there now.
Armed(s, f) ==
    \A i \in 1..Len(s) : s[i].kind = "remove" /\ s[i].path = PathOf[f] =>
        \E k \in 1..Len(s) : i < k /\ s[k].file = f /\ s[k].kind = "change"

\* A handler that has not claimed its path yet is on its way to p.
Coming(p) == \E h \in Tasks : task[h].path = p /\ task[h].pc \in {"spawned", "admitted"}

\* What leads a handler to f, before one has claimed its path.
Heralded(f) ==
    LET p == PathOf[f] IN
    \/ p \in missed
    \/ Tells(events, f)
    \/ consumer.path = p /\ consumer.pc # "idle"
    \/ p \in pending
    \/ Coming(p)

\* The part that types rest on; the settle window; nothing forgotten.
Shape == AtHome /\ (\A h \in Tasks : TaskAgrees(h)) /\ OneOwnerPerPath /\ OneTaskPerJob

SettleInv == \A p \in Paths : p \notin restoring => Calm(p)

HeraldInv == \A f \in Files : place[f] = "watch" => Heralded(f) /\ Armed(events, f)

IntakeInv == Shape /\ SettleInv /\ HeraldInv

-------------------------------------------------------------------------------
(* Tasks and events.                                                        *)

LEMMA FreeTaskFacts ==
    /\ FreeTask \in TaskRecords
    /\ FreeTask.pc = "free" /\ FreeTask.job = NoFile /\ FreeTask.own = FALSE
<1>1. (CHOOSE p \in Paths : TRUE) \in Paths
  BY IntakeAssumption DEF IntakeAssumption
<1> QED  BY <1>1 DEF FreeTask, TaskRecords, TaskPhases, Taking

LEMMA EventFacts ==
    ASSUME NEW k \in Kinds, NEW f \in Files
    PROVE  /\ Event(k, f) \in HomeEvents
           /\ Event(k, f).kind = k /\ Event(k, f).file = f /\ Event(k, f).path = PathOf[f]
BY IntakeAssumption DEF IntakeAssumption, Event, Events, HomeEvents

\* What a handler or a restore can make of its record, and of its path.
Frees(h) == task'[h] = FreeTask

Moves(h, p) ==
    /\ task'[h].pc = p /\ task'[h].path = task[h].path
    /\ task'[h].job = task[h].job /\ task'[h].own = task[h].own

LEMMA StepMoves ==
    ASSUME TypeOK, NEW h \in Tasks, NEW from, NEW to \in TaskPhases, Step(h, from, to)
    PROVE  /\ task[h].pc = from /\ Moves(h, to)
           /\ task'[h] \in TaskRecords
           /\ \A k \in Tasks : k # h => task'[k] = task[k]
           /\ task' \in [Tasks -> TaskRecords]
BY DEF TypeOK, Step, Moves, TaskRecords

LEMMA QuitFrees ==
    ASSUME TypeOK, NEW h \in Tasks, Quit(h)
    PROVE  /\ Frees(h)
           /\ \A k \in Tasks : k # h => task'[k] = task[k]
           /\ task' \in [Tasks -> TaskRecords]
BY FreeTaskFacts DEF TypeOK, Quit, Frees, TaskRecords

LEMMA FlushSpawns ==
    ASSUME TypeOK, NEW h \in Tasks, NEW p \in Paths,
           task' = [task EXCEPT ![h] = [FreeTask EXCEPT !.pc = "spawned", !.path = p]]
    PROVE  /\ task'[h].pc = "spawned" /\ task'[h].path = p
           /\ task'[h].job = NoFile /\ task'[h].own = FALSE
           /\ \A k \in Tasks : k # h => task'[k] = task[k]
           /\ task' \in [Tasks -> TaskRecords]
<1>1. task \in [Tasks -> TaskRecords]  BY DEF TypeOK, TaskRecords
<1> QED  BY <1>1, FreeTaskFacts DEF TaskRecords, TaskPhases, Taking

LEMMA ApiMarks ==
    ASSUME TypeOK, NEW h \in Tasks, NEW f \in Files,
           task' = [task EXCEPT ![h] = [FreeTask EXCEPT !.pc = "marked",
                                            !.path = PathOf[f], !.job = f]]
    PROVE  /\ task'[h].pc = "marked" /\ task'[h].path = PathOf[f]
           /\ task'[h].job = f /\ task'[h].own = FALSE
           /\ \A k \in Tasks : k # h => task'[k] = task[k]
           /\ task' \in [Tasks -> TaskRecords]
<1>1. task \in [Tasks -> TaskRecords]  BY DEF TypeOK, TaskRecords
<1>2. PathOf[f] \in Paths  BY IntakeAssumption DEF IntakeAssumption
<1> QED  BY <1>1, <1>2, FreeTaskFacts DEF TaskRecords, TaskPhases, Taking

LEMMA ClaimOpens ==
    ASSUME TypeOK, NEW h \in Tasks,
           task' = [task EXCEPT ![h].pc = "opened", ![h].own = TRUE]
    PROVE  /\ task'[h].pc = "opened" /\ task'[h].path = task[h].path
           /\ task'[h].job = task[h].job /\ task'[h].own = TRUE
           /\ \A k \in Tasks : k # h => task'[k] = task[k]
           /\ task' \in [Tasks -> TaskRecords]
<1> DEFINE mid == [task EXCEPT ![h].pc = "opened"]
<1>1. task \in [Tasks -> TaskRecords]  BY DEF TypeOK, TaskRecords
<1>2. /\ mid \in [Tasks -> TaskRecords] /\ mid[h].pc = "opened"
      /\ mid[h].path = task[h].path /\ mid[h].job = task[h].job
      /\ \A k \in Tasks : k # h => mid[k] = task[k]
  BY <1>1 DEF TaskRecords, TaskPhases, Taking
<1>3. task' = [mid EXCEPT ![h].own = TRUE]  OBVIOUS
<1> HIDE DEF mid
<1>4. /\ task'[h] = [mid[h] EXCEPT !.own = TRUE]
      /\ \A k \in Tasks : k # h => task'[k] = mid[k]
      /\ task' = [k \in Tasks |-> task'[k]]
  BY <1>2, <1>3
<1>5. task'[h] \in TaskRecords  BY <1>2, <1>4 DEF TaskRecords
<1>6. task' \in [Tasks -> TaskRecords]  BY <1>2, <1>4, <1>5
<1> QED  BY <1>2, <1>4, <1>6 DEF TaskRecords

LEMMA CopyCopies ==
    ASSUME TypeOK, NEW h \in Tasks, at[task[h].path] # NoFile,
           task' = [task EXCEPT ![h].pc = "copied", ![h].job = at[task[h].path]]
    PROVE  /\ task'[h].pc = "copied" /\ task'[h].path = task[h].path
           /\ task'[h].job = at[task[h].path] /\ task'[h].own = task[h].own
           /\ \A k \in Tasks : k # h => task'[k] = task[k]
           /\ task' \in [Tasks -> TaskRecords]
<1> DEFINE mid == [task EXCEPT ![h].pc = "copied"]
<1>1. task \in [Tasks -> TaskRecords]  BY DEF TypeOK, TaskRecords
<1>2. /\ mid \in [Tasks -> TaskRecords] /\ mid[h].pc = "copied"
      /\ mid[h].path = task[h].path /\ mid[h].own = task[h].own
      /\ \A k \in Tasks : k # h => mid[k] = task[k]
  BY <1>1 DEF TaskRecords, TaskPhases, Taking
<1>3. task' = [mid EXCEPT ![h].job = at[task[h].path]]  OBVIOUS
<1>4. at[task[h].path] \in Files  BY <1>1 DEF TypeOK, TaskRecords
<1> HIDE DEF mid
<1>5. /\ task'[h] = [mid[h] EXCEPT !.job = at[task[h].path]]
      /\ \A k \in Tasks : k # h => task'[k] = mid[k]
      /\ task' = [k \in Tasks |-> task'[k]]
  BY <1>2, <1>3
<1>6. task'[h] \in TaskRecords
  <2>1. PICK f \in Files : f = at[task[h].path]  BY <1>4
  <2>2. mid[h] \in TaskRecords /\ task'[h] = [mid[h] EXCEPT !.job = f]
    BY <1>2, <1>5, <2>1
  <2>3. \A r \in TaskRecords : [r EXCEPT !.job = f] \in TaskRecords
    BY DEF TaskRecords
  <2> QED  BY <2>2, <2>3
<1>7. task' \in [Tasks -> TaskRecords]  BY <1>2, <1>5, <1>6
<1> QED  BY <1>2, <1>5, <1>7 DEF TaskRecords

\* What an action may do to the tasks: the task h changes, as said, or none.
Spawns(h) ==
    /\ task[h].pc = "free" /\ task'[h].pc = "spawned"
    /\ task'[h].job = NoFile /\ task'[h].own = FALSE
    /\ UNCHANGED <<at, place, processing, restoring>>
Admits(h) ==
    /\ task[h].pc = "spawned" /\ Moves(h, "admitted")
    /\ UNCHANGED <<at, place, processing, restoring>>
Claims(h) ==
    /\ task[h].pc = "admitted" /\ at[task[h].path] # NoFile /\ MayClaim(task[h].path)
    /\ task'[h].pc = "opened" /\ task'[h].path = task[h].path
    /\ task'[h].job = task[h].job /\ task'[h].own = TRUE
    /\ processing' = processing \cup {task[h].path}
    /\ UNCHANGED <<at, place, restoring>>
Copies(h) ==
    /\ task[h].pc = "opened" /\ at[task[h].path] # NoFile
    /\ task'[h].pc = "copied" /\ task'[h].path = task[h].path
    /\ task'[h].job = at[task[h].path] /\ task'[h].own = task[h].own
    /\ UNCHANGED <<at, place, processing, restoring>>
Unlinks(h) ==
    /\ task[h].pc = "copied" /\ at[task[h].path] # NoFile /\ Moves(h, "scanning")
    /\ at' = [at EXCEPT ![task[h].path] = NoFile]
    /\ place' = [x \in Files |-> IF x = task[h].job THEN "vault"
                                 ELSE IF x = at[task[h].path] THEN "gone" ELSE place[x]]
    /\ UNCHANGED <<processing, restoring>>
Marks(h) ==
    /\ task[h].pc = "scanning" /\ Moves(h, "marked") /\ at[task[h].path] = NoFile
    /\ restoring' = restoring \cup {task[h].path}
    /\ UNCHANGED <<at, place, processing>>
Leaves(h) ==
    /\ Frees(h)
    /\ processing' = IF task[h].own THEN processing \ {task[h].path} ELSE processing
    /\ UNCHANGED restoring
    /\ \/ /\ task[h].pc \notin {"scanning", "marked"} /\ UNCHANGED <<at, place>>
       \/ task[h].pc = "scanning" /\ UNCHANGED <<at, place>>
       \/ /\ task[h].pc \in {"scanning", "marked"} /\ UNCHANGED at
          /\ place' = [place EXCEPT ![task[h].job] = "elsewhere"]
       \/ /\ task[h].pc = "marked" /\ at[task[h].path] = NoFile
          /\ at' = [at EXCEPT ![task[h].path] = task[h].job]
          /\ place' = [place EXCEPT ![task[h].job] = "released"]

\* Every step of a task is one of these.
LEMMA TaskMoves ==
    ASSUME TypeOK, \A h \in Tasks : TaskAgrees(h), NEW h \in Tasks,
           Takes(h) \/ Keep(h) \/ Mark(h) \/ Create(h)
    PROVE  /\ \/ Admits(h) \/ Claims(h) \/ Copies(h) \/ Unlinks(h) \/ Marks(h)
              \/ Leaves(h)
           /\ \A k \in Tasks : k # h => task'[k] = task[k]
           /\ task' \in [Tasks -> TaskRecords]
<1>0. task[h].pc \in {"spawned", "admitted"} => ~task[h].own
  BY DEF TaskAgrees
<1> USE StepMoves, QuitFrees DEF TaskPhases, Taking
<1>1. CASE Admit(h)
  <2>1. CASE monitoring
    <3>1. Step(h, "spawned", "admitted")  BY <1>1, <2>1 DEF Admit
    <3> QED  BY <1>1, <3>1 DEF Admit, Admits
  <2>2. CASE ~monitoring
    <3>1. Quit(h)  BY <1>1, <2>2 DEF Admit
    <3> QED  BY <1>0, <1>1, <3>1 DEF Admit, Leaves
  <2> QED  BY <2>1, <2>2
<1>2. CASE Claim(h)
  <2>1. CASE at[task[h].path] # NoFile /\ MayClaim(task[h].path)
    <3>1. task' = [task EXCEPT ![h].pc = "opened", ![h].own = TRUE]
      BY <1>2, <2>1 DEF Claim
    <3> QED  BY <1>2, <2>1, <3>1, ClaimOpens DEF Claim, Claims
  <2>2. CASE ~(at[task[h].path] # NoFile /\ MayClaim(task[h].path))
    <3>1. Quit(h)  BY <1>2, <2>2 DEF Claim
    <3> QED  BY <1>0, <1>2, <2>2, <3>1 DEF Claim, Leaves
  <2> QED  BY <2>1, <2>2
<1>3. CASE Copy(h)
  <2>1. CASE at[task[h].path] # NoFile /\ task[h].path \notin locked
    <3>1. task' = [task EXCEPT ![h].pc = "copied", ![h].job = at[task[h].path]]
      BY <1>3, <2>1 DEF Copy
    <3> QED  BY <1>3, <2>1, <3>1, CopyCopies DEF Copy, Copies
  <2>2. CASE ~(at[task[h].path] # NoFile /\ task[h].path \notin locked)
    <3>1. Leave(h)  BY <1>3, <2>2 DEF Copy
    <3> QED  BY <1>3, <3>1 DEF Copy, Leave, Leaves
  <2> QED  BY <2>1, <2>2
<1>4. CASE Unlink(h)
  <2>1. CASE at[task[h].path] = NoFile
    <3>1. Leave(h) /\ UNCHANGED <<at, place, restoring>> /\ task[h].pc = "copied"
      BY <1>4, <2>1 DEF Unlink
    <3> QED  BY <3>1 DEF Leave, Leaves
  <2>2. CASE at[task[h].path] # NoFile
    <3>1. Step(h, "copied", "scanning")  BY <1>4, <2>2 DEF Unlink
    <3> QED  BY <1>4, <2>2, <3>1 DEF Unlink, Unlinks
  <2> QED  BY <2>1, <2>2
<1>5. CASE Keep(h)  BY <1>5 DEF Keep, Leave, Leaves
<1>6. CASE Mark(h)
  <2>1. CASE at[task[h].path] = NoFile
    <3>1. Step(h, "scanning", "marked")  BY <1>6, <2>1 DEF Mark
    <3> QED  BY <1>6, <2>1, <3>1 DEF Mark, Marks
  <2>2. CASE at[task[h].path] # NoFile
    <3>1. Release(h) /\ UNCHANGED <<restoring, at>> /\ task[h].pc = "scanning"
      BY <1>6, <2>2 DEF Mark
    <3> QED  BY <3>1 DEF Release, Leave, Leaves
  <2> QED  BY <2>1, <2>2
<1>7. CASE Create(h)
  <2>1. CASE Exclusive(task[h].path)
    <3>1. /\ Leave(h) /\ UNCHANGED restoring /\ task[h].pc = "marked"
          /\ at[task[h].path] = NoFile
          /\ at' = [at EXCEPT ![task[h].path] = task[h].job]
          /\ place' = [place EXCEPT ![task[h].job] = "released"]
      BY <1>7, <2>1 DEF Create, Exclusive
    <3> QED  BY <3>1 DEF Leave, Leaves
  <2>2. CASE ~Exclusive(task[h].path)
    <3>1. Release(h) /\ UNCHANGED <<restoring, at>> /\ task[h].pc = "marked"
      BY <1>7, <2>2 DEF Create
    <3> QED  BY <3>1 DEF Release, Leave, Leaves
  <2> QED  BY <2>1, <2>2
<1> QED  BY <1>1, <1>2, <1>3, <1>4, <1>5, <1>6, <1>7 DEF Takes

-------------------------------------------------------------------------------
(* Type correctness.                                                        *)

LEMMA InitIntake == Init => TypeOK /\ IntakeInv
<1> SUFFICES ASSUME Init PROVE TypeOK /\ IntakeInv
  OBVIOUS
<1>1. (CHOOSE p \in Paths : TRUE) \in Paths
  BY IntakeAssumption DEF IntakeAssumption
<1>2. \A h \in Tasks : task[h].pc = "free" /\ task[h].job = NoFile /\ task[h].own = FALSE
  BY FreeTaskFacts DEF Init
<1>3. TypeOK
  BY <1>1, FreeTaskFacts, IntakeAssumption
     DEF IntakeAssumption, Init, TypeOK, Places, Kinds, TaskRecords
<1>4. IntakeInv
  BY <1>2 DEF Init, IntakeInv, Shape, SettleInv, HeraldInv, AtHome, TaskAgrees, OneOwnerPerPath, OneTaskPerJob, Calm
<1> QED  BY <1>3, <1>4

\* Nothing but a file's own place holds it.
LEMMA AtPlace ==
    ASSUME TypeOK, AtHome, NEW p \in Paths, at[p] # NoFile
    PROVE  /\ at[p] \in Files /\ PathOf[at[p]] = p
           /\ place[at[p]] \in {"watch", "released"}
BY DEF TypeOK, AtHome

LEMMA TouchedType ==
    ASSUME TypeOK, AtHome, NEW p \in Paths
    PROVE  Touched(p) \in Seq(HomeEvents)
<1>1. events \in Seq(HomeEvents)  BY DEF AtHome
<1>2. "change" \in Kinds  BY DEF Kinds
<1>3. at[p] # NoFile => Event("change", at[p]) \in HomeEvents
  BY <1>2, EventFacts DEF TypeOK
<1> QED  BY <1>1, <1>3 DEF Touched

LEMMA EventsType ==
    ASSUME TypeOK, AtHome, \A h \in Tasks : TaskAgrees(h), Next
    PROVE  events' \in Seq(HomeEvents)
<1>1. events \in Seq(HomeEvents)  BY DEF AtHome
<1>2. \A k \in Kinds, f \in Files : Event(k, f) \in HomeEvents  BY EventFacts
<1>3. "change" \in Kinds /\ "remove" \in Kinds  BY DEF Kinds
<1>4. \A p \in Paths : Touched(p) \in Seq(HomeEvents)  BY TouchedType
<1>5. \A h \in Tasks : task[h].path \in Paths /\ task[h].job \in Files \cup {NoFile}
  BY DEF TypeOK
<1>6. ASSUME NEW f \in Files, Drop(f) PROVE events' \in Seq(HomeEvents)
  BY <1>1, <1>2, <1>3, <1>6 DEF Drop
<1>7. ASSUME NEW p \in Paths, Delete(p) PROVE events' \in Seq(HomeEvents)
  BY <1>1, <1>2, <1>3, <1>7 DEF Delete, TypeOK
<1>8. CASE TakeEvent  BY <1>1, <1>8 DEF TakeEvent
<1>9. CASE Lock  BY <1>4, <1>9 DEF Lock, TypeOK
<1>10. ASSUME NEW h \in Tasks, Claim(h) PROVE events' \in Seq(HomeEvents)
  BY <1>1, <1>4, <1>5, <1>10 DEF Claim
<1>11. ASSUME NEW h \in Tasks, Unlink(h) PROVE events' \in Seq(HomeEvents)
  <2>1. CASE at[task[h].path] = NoFile  BY <1>1, <1>11, <2>1 DEF Unlink
  <2>2. CASE at[task[h].path] # NoFile
    <3>1. at[task[h].path] \in Files  BY <1>5, <2>2 DEF TypeOK
    <3>2. Event("remove", at[task[h].path]) \in HomeEvents  BY <1>2, <1>3, <3>1
    <3>3. events' = Append(events, Event("remove", at[task[h].path]))
      BY <1>11, <2>2 DEF Unlink
    <3> QED  BY <1>1, <3>2, <3>3
  <2> QED  BY <2>1, <2>2
<1>12. ASSUME NEW h \in Tasks, Create(h) PROVE events' \in Seq(HomeEvents)
  <2>1. task[h].job \in Files  BY <1>5, <1>12 DEF Create, TaskAgrees
  <2>2. Event("change", task[h].job) \in HomeEvents  BY <1>2, <1>3, <2>1
  <2>3. \/ UNCHANGED events
        \/ events' = Append(Append(events, Event("change", task[h].job)),
                            Event("change", task[h].job))
    BY <1>12 DEF Create
  <2> QED  BY <1>1, <2>2, <2>3
<1>13. CASE CrashRestart  BY <1>13 DEF CrashRestart
<1> QED
  BY <1>1, <1>6, <1>7, <1>8, <1>9, <1>10, <1>11, <1>12, <1>13
     DEF Next, Consume, Takes, ApiRestore, Flush, Expire, SetMode, Stat, Admit, Copy,
         Keep, Mark

LEMMA TaskType ==
    ASSUME TypeOK, \A h \in Tasks : TaskAgrees(h), Next
    PROVE  task' \in [Tasks -> TaskRecords]
<1>1. task \in [Tasks -> TaskRecords]  BY DEF TypeOK, TaskRecords
<1>2. ASSUME NEW h \in Tasks, Takes(h) \/ Keep(h) \/ Mark(h) \/ Create(h)
      PROVE  task' \in [Tasks -> TaskRecords]
  BY <1>2, TaskMoves
<1>3. ASSUME NEW p \in Paths, Flush(p) PROVE task' \in [Tasks -> TaskRecords]
  BY <1>3, FlushSpawns DEF Flush
<1>4. ASSUME NEW f \in Files, ApiRestore(f) PROVE task' \in [Tasks -> TaskRecords]
  BY <1>1, <1>4, ApiMarks DEF ApiRestore
<1>5. CASE CrashRestart  BY <1>5, FreeTaskFacts DEF CrashRestart
<1> QED
  BY <1>1, <1>2, <1>3, <1>4, <1>5
     DEF Next, Consume, Drop, Delete, Expire, SetMode, TakeEvent, Stat, Lock

\* Where the files are, and what is where.
Placed ==
    /\ at \in [Paths -> Files \cup {NoFile}]
    /\ place \in [Files -> Places]
    /\ \A f \in Files : place[f] \in {"watch", "released"} <=> at[PathOf[f]] = f
    /\ \A p \in Paths : at[p] # NoFile => PathOf[at[p]] = p

LEMMA JobFacts ==
    ASSUME TypeOK, Shape, NEW h \in Tasks
    PROVE  /\ task[h].path \in Paths
           /\ task[h].pc \in {"copied", "scanning", "marked"} =>
                  /\ task[h].job \in Files /\ PathOf[task[h].job] = task[h].path
                  /\ task[h].job # NoFile
           /\ task[h].pc \in {"scanning", "marked"} =>
                  at[task[h].path] # task[h].job
<1>1. task[h].path \in Paths /\ task[h].job \in Files \cup {NoFile}  BY DEF TypeOK
<1>2. task[h].job # NoFile => PathOf[task[h].job] = task[h].path
  BY DEF Shape, AtHome
<1>3. TaskAgrees(h)  BY DEF Shape
<1> QED  BY <1>1, <1>2, <1>3, IntakeAssumption DEF TaskAgrees, IntakeAssumption, TypeOK

LEMMA PlacedNext ==
    ASSUME TypeOK, Shape, Next
    PROVE  Placed'
<1>0. Placed /\ PathOf \in [Files -> Paths] /\ NoFile \notin Files
  BY IntakeAssumption DEF TypeOK, Shape, AtHome, Placed, IntakeAssumption
<1>1. ASSUME NEW f \in Files, Drop(f) PROVE Placed'
  BY <1>0, <1>1 DEF Drop, Placed, Places
<1>2. ASSUME NEW p \in Paths, Delete(p) PROVE Placed'
  BY <1>0, <1>2 DEF Delete, Placed, Places
<1>3. ASSUME NEW f \in Files, ApiRestore(f) PROVE Placed'
  BY <1>0, <1>3 DEF ApiRestore, Placed, Places
<1>4. ASSUME NEW h \in Tasks, Takes(h) \/ Keep(h) \/ Mark(h) \/ Create(h) PROVE Placed'
  <2>1. Admits(h) \/ Claims(h) \/ Copies(h) \/ Unlinks(h) \/ Marks(h) \/ Leaves(h)
    BY <1>4, TaskMoves DEF Shape
  <2>2. CASE UNCHANGED <<at, place>>  BY <1>0, <2>2 DEF Placed
  <2>3. CASE Unlinks(h)
    <3>1. task[h].job \in Files /\ PathOf[task[h].job] = task[h].path /\ task[h].path \in Paths
      BY <2>3, JobFacts DEF Unlinks
    <3> QED  BY <1>0, <2>3, <3>1 DEF Unlinks, Placed, Places
  <2>4. CASE /\ task[h].pc \in {"scanning", "marked"} /\ UNCHANGED at
             /\ place' = [place EXCEPT ![task[h].job] = "elsewhere"]
    <3>1. task[h].job \in Files /\ place[task[h].job] = "vault"
      BY <2>4, JobFacts DEF Shape, TaskAgrees
    <3> QED  BY <1>0, <2>4, <3>1 DEF Placed, Places
  <2>5. CASE /\ task[h].pc = "marked" /\ at[task[h].path] = NoFile
             /\ at' = [at EXCEPT ![task[h].path] = task[h].job]
             /\ place' = [place EXCEPT ![task[h].job] = "released"]
    <3>1. task[h].job \in Files /\ PathOf[task[h].job] = task[h].path /\ task[h].path \in Paths
      BY <2>5, JobFacts
    <3> QED  BY <1>0, <2>5, <3>1 DEF Placed, Places
  <2> QED  BY <2>1, <2>2, <2>3, <2>4, <2>5 DEF Admits, Claims, Copies, Marks, Leaves
<1>5. CASE CrashRestart
  <2>1. PICK lost \in SUBSET Unrecorded :
            place' = [f \in Files |-> IF f \in lost THEN "gone" ELSE place[f]]
    BY <1>5 DEF CrashRestart
  <2>2. \A f \in lost : place[f] = "vault"
    BY DEF Unrecorded, Shape, TaskAgrees
  <2> QED  BY <1>0, <1>5, <2>1, <2>2 DEF CrashRestart, Placed, Places
<1>6. CASE UNCHANGED <<at, place>>  BY <1>0, <1>6 DEF Placed
<1> QED
  BY <1>1, <1>2, <1>3, <1>4, <1>5, <1>6
     DEF Next, Consume, Flush, Expire, SetMode, TakeEvent, Stat, Lock

\* The rows that tasks work for, and the paths they own.
Jobs ==
    /\ \A h \in Tasks : task[h].job # NoFile => PathOf[task[h].job] = task[h].path
    /\ \A h \in Tasks : TaskAgrees(h)
    /\ OneOwnerPerPath /\ OneTaskPerJob

\* Nothing happens to the tasks, and nothing to the files they hold.
LEMMA JobsStay ==
    ASSUME Jobs, UNCHANGED <<task, processing>>,
           \A h \in Tasks : task[h].pc \in {"scanning", "marked"} =>
               place'[task[h].job] = place[task[h].job]
    PROVE  Jobs'
BY DEF Jobs, TaskAgrees, OneOwnerPerPath, OneTaskPerJob

\* A task that holds no file takes another's record, or none.
LEMMA JobsChange ==
    ASSUME Jobs, NEW h \in Tasks,
           \A k \in Tasks : k # h => task'[k] = task[k],
           \A k \in Tasks : k # h /\ task[k].own => task[k].path \in processing',
           \A k \in Tasks : k # h /\ task[k].pc \in {"scanning", "marked"} =>
               place'[task[k].job] = place[task[k].job],
           task'[h].job # NoFile => PathOf[task'[h].job] = task'[h].path,
           TaskAgrees(h)',
           \A k \in Tasks : k # h /\ task'[h].own /\ task[k].own =>
               task[k].path # task'[h].path,
           \A k \in Tasks : k # h /\ task'[h].job # NoFile => task[k].job # task'[h].job
    PROVE  Jobs'
<1>1. \A k \in Tasks : k # h => TaskAgrees(k)'
  <2> SUFFICES ASSUME NEW k \in Tasks, k # h PROVE TaskAgrees(k)'
    OBVIOUS
  <2>1. TaskAgrees(k) /\ task'[k] = task[k]  BY DEF Jobs
  <2> QED  BY <2>1 DEF TaskAgrees
<1>2. \A k \in Tasks : TaskAgrees(k)'  BY <1>1
<1>3. OneOwnerPerPath'  BY DEF Jobs, OneOwnerPerPath
<1>4. OneTaskPerJob'  BY DEF Jobs, OneTaskPerJob
<1>5. \A k \in Tasks : task'[k].job # NoFile => PathOf[task'[k].job] = task'[k].path
  BY DEF Jobs
<1> QED  BY <1>2, <1>3, <1>4, <1>5 DEF Jobs

LEMMA JobsNext ==
    ASSUME TypeOK, Shape, Next
    PROVE  Jobs'
<1>0. Jobs /\ PathOf \in [Files -> Paths] /\ NoFile \notin Files
  BY IntakeAssumption DEF Shape, AtHome, Jobs, IntakeAssumption
<1>1. \A h \in Tasks :
        /\ task[h].path \in Paths /\ task[h].job \in Files \cup {NoFile}
        /\ task[h].pc \in {"scanning", "marked"} =>
               place[task[h].job] = "vault" /\ task[h].job \in Files
  BY JobFacts DEF Shape, TaskAgrees, TypeOK
<1>2. \A p \in Paths : at[p] # NoFile => at[p] \in Files /\ place[at[p]] \in {"watch", "released"}
  BY AtPlace DEF Shape
<1>3. place \in [Files -> Places]  BY DEF TypeOK
<1>4. ASSUME NEW f \in Files, Drop(f) PROVE Jobs'
  <2>1. UNCHANGED <<task, processing>>  BY <1>4 DEF Drop
  <2>2. \A g \in Files : place[g] = "vault" => place'[g] = "vault"
    BY <1>0, <1>2, <1>4 DEF Drop
  <2> QED  BY <1>0, <1>1, <2>1, <2>2, JobsStay
<1>5. ASSUME NEW p \in Paths, Delete(p) PROVE Jobs'
  <2>1. UNCHANGED <<task, processing>>  BY <1>5 DEF Delete
  <2>2. \A g \in Files : place[g] = "vault" => place'[g] = "vault"
    BY <1>2, <1>3, <1>5 DEF Delete
  <2> QED  BY <1>0, <1>1, <2>1, <2>2, JobsStay
<1>6. ASSUME NEW p \in Paths, Flush(p) PROVE Jobs'
  <2>1. PICK h \in Tasks :
            /\ task[h].pc = "free"
            /\ task' = [task EXCEPT ![h] = [FreeTask EXCEPT !.pc = "spawned", !.path = p]]
    BY <1>6 DEF Flush
  <2>2. /\ task'[h].pc = "spawned" /\ task'[h].path = p
        /\ task'[h].job = NoFile /\ task'[h].own = FALSE
        /\ \A k \in Tasks : k # h => task'[k] = task[k]
    BY <2>1, FlushSpawns
  <2>3. UNCHANGED <<place, processing>>  BY <1>6 DEF Flush
  <2>4. TaskAgrees(h)'  BY <2>2 DEF TaskAgrees
  <2>5. \A k \in Tasks : task[k].own => task[k].path \in processing
    BY <1>0 DEF Jobs, TaskAgrees
  <2> QED  BY <1>0, <2>2, <2>3, <2>4, <2>5, JobsChange
<1>7. ASSUME NEW f \in Files, ApiRestore(f) PROVE Jobs'
  <2>1. /\ place[f] = "vault" /\ \A k \in Tasks : task[k].job # f
        /\ UNCHANGED processing
    BY <1>7 DEF ApiRestore
  <2>2. CASE at[PathOf[f]] = NoFile
    <3>1. PICK h \in Tasks :
              /\ task[h].pc = "free"
              /\ task' = [task EXCEPT ![h] = [FreeTask EXCEPT !.pc = "marked",
                                                 !.path = PathOf[f], !.job = f]]
      BY <1>7, <2>2 DEF ApiRestore
    <3>2. /\ task'[h].pc = "marked" /\ task'[h].path = PathOf[f]
          /\ task'[h].job = f /\ task'[h].own = FALSE
          /\ \A k \in Tasks : k # h => task'[k] = task[k]
      BY <3>1, ApiMarks
    <3>3. UNCHANGED place  BY <1>7, <2>2 DEF ApiRestore
    <3>4. TaskAgrees(h)'  BY <1>0, <2>1, <3>2, <3>3 DEF TaskAgrees
    <3>5. \A k \in Tasks : task[k].own => task[k].path \in processing
      BY <1>0 DEF Jobs, TaskAgrees
    <3> QED  BY <1>0, <2>1, <3>2, <3>3, <3>4, <3>5, JobsChange
  <2>3. CASE at[PathOf[f]] # NoFile
    <3>1. UNCHANGED task /\ place' = [place EXCEPT ![f] = "elsewhere"]
      BY <1>7, <2>3 DEF ApiRestore
    <3>2. \A k \in Tasks : task[k].pc \in {"scanning", "marked"} =>
              place'[task[k].job] = place[task[k].job]
      BY <1>1, <1>3, <2>1, <3>1
    <3> QED  BY <1>0, <2>1, <3>1, <3>2, JobsStay
  <2> QED  BY <2>2, <2>3
<1>8. ASSUME NEW h \in Tasks, Takes(h) \/ Keep(h) \/ Mark(h) \/ Create(h) PROVE Jobs'
  <2>1. /\ Admits(h) \/ Claims(h) \/ Copies(h) \/ Unlinks(h) \/ Marks(h) \/ Leaves(h)
        /\ \A k \in Tasks : k # h => task'[k] = task[k]
    BY <1>8, TaskMoves DEF Shape
  <2>2. \A k \in Tasks : task[k].own => task[k].path \in processing
    BY <1>0 DEF Jobs, TaskAgrees
  <2>3. TaskAgrees(h) /\ (task[h].job # NoFile => PathOf[task[h].job] = task[h].path)
    BY <1>0 DEF Jobs
  <2>4. \A k \in Tasks : k # h /\ task[h].own /\ task[k].own =>
            task[k].path # task[h].path
    BY <1>0 DEF Jobs, OneOwnerPerPath
  <2>5. \A k \in Tasks : k # h /\ task[h].job # NoFile => task[k].job # task[h].job
    BY <1>0 DEF Jobs, OneTaskPerJob
  <2>6. CASE Admits(h)
    <3>1. TaskAgrees(h)'  BY <2>3, <2>6 DEF Admits, Moves, TaskAgrees
    <3> QED  BY <1>0, <2>1, <2>2, <2>3, <2>4, <2>5, <2>6, <3>1, JobsChange DEF Admits, Moves
  <2>7. CASE Claims(h)
    <3>1. TaskAgrees(h)'  BY <2>3, <2>7 DEF Claims, TaskAgrees
    <3>2. task[h].path \notin processing  BY <2>7 DEF Claims, MayClaim
    <3> QED  BY <1>0, <2>1, <2>2, <2>3, <2>5, <2>7, <3>1, <3>2, JobsChange DEF Claims
  <2>8. CASE Copies(h)
    <3>1. TaskAgrees(h)'
      BY <1>0, <1>1, <1>2, <2>3, <2>8 DEF Copies, TaskAgrees
    <3>2. PathOf[at[task[h].path]] = task[h].path
      BY <1>1, <2>8 DEF Copies, Shape, AtHome
    <3>3. \A k \in Tasks : k # h => task[k].job # at[task[h].path]
      <4> SUFFICES ASSUME NEW k \in Tasks, k # h, task[k].job = at[task[h].path]
                   PROVE  FALSE
        OBVIOUS
      <4>1. task[k].job # NoFile /\ task[k].path = task[h].path /\ TaskAgrees(k)
        BY <1>0, <2>8, <3>2 DEF Copies, Jobs
      <4>2. task[k].pc \in {"copied", "scanning", "marked"}  BY <4>1 DEF TaskAgrees
      <4>3. task[k].pc \notin {"scanning", "marked"}
        BY <1>1, <1>2, <2>8 DEF Copies
      <4>4. task[k].own /\ task[h].own  BY <2>3, <2>8, <4>1, <4>2, <4>3 DEF Copies, TaskAgrees
      <4> QED  BY <2>4, <4>1, <4>4
    <3> QED  BY <1>0, <2>1, <2>2, <2>4, <2>8, <3>1, <3>2, <3>3, JobsChange DEF Copies
  <2>9. CASE Unlinks(h)
    <3>1. TaskAgrees(h)'
      BY <1>0, <1>1, <2>3, <2>9 DEF Unlinks, Moves, TaskAgrees
    <3>2. \A k \in Tasks : task[k].pc \in {"scanning", "marked"} =>
              place'[task[k].job] = place[task[k].job]
      BY <1>1, <1>2, <2>9 DEF Unlinks
    <3> QED  BY <1>0, <2>1, <2>2, <2>3, <2>4, <2>5, <2>9, <3>1, <3>2, JobsChange
             DEF Unlinks, Moves
  <2>10. CASE Marks(h)
    <3>1. TaskAgrees(h)'  BY <2>3, <2>10 DEF Marks, Moves, TaskAgrees
    <3> QED  BY <1>0, <2>1, <2>2, <2>3, <2>4, <2>5, <2>10, <3>1, JobsChange
             DEF Marks, Moves
  <2>11. CASE Leaves(h)
    <3>1. task'[h].pc = "free" /\ task'[h].job = NoFile /\ task'[h].own = FALSE
      BY <2>11, FreeTaskFacts DEF Leaves, Frees
    <3>2. TaskAgrees(h)'  BY <3>1 DEF TaskAgrees
    <3>3. \A k \in Tasks : k # h /\ task[k].own => task[k].path \in processing'
      BY <2>2, <2>4, <2>11 DEF Leaves
    <3>4. \A k \in Tasks : k # h /\ task[k].pc \in {"scanning", "marked"} =>
              place'[task[k].job] = place[task[k].job]
      <4>1. \/ UNCHANGED place
            \/ /\ task[h].pc \in {"scanning", "marked"}
               /\ \/ place' = [place EXCEPT ![task[h].job] = "elsewhere"]
                  \/ place' = [place EXCEPT ![task[h].job] = "released"]
        BY <2>11 DEF Leaves
      <4> QED  BY <1>1, <1>3, <2>5, <4>1, <1>0
    <3> QED  BY <1>0, <2>1, <3>1, <3>2, <3>3, <3>4, JobsChange
  <2> QED  BY <2>1, <2>6, <2>7, <2>8, <2>9, <2>10, <2>11
<1>9. CASE CrashRestart
  <2>1. \A h \in Tasks :
            task'[h].pc = "free" /\ task'[h].job = NoFile /\ task'[h].own = FALSE
    BY <1>9, FreeTaskFacts DEF CrashRestart
  <2> QED  BY <2>1 DEF Jobs, TaskAgrees, OneOwnerPerPath, OneTaskPerJob
<1>10. CASE SetMode \/ Consume \/ (\E p \in Paths : Expire(p))
  <2>1. UNCHANGED <<task, processing, place>>
    BY <1>10 DEF SetMode, Consume, TakeEvent, Stat, Lock, Expire
  <2> QED  BY <1>0, <2>1, JobsStay
<1> QED
  BY <1>4, <1>5, <1>6, <1>7, <1>8, <1>9, <1>10 DEF Next

LEMMA ShapeNext ==
    ASSUME TypeOK, Shape, Next
    PROVE  Shape'
<1>1. events' \in Seq(HomeEvents)  BY EventsType DEF Shape
<1>2. HomeEvents' = HomeEvents  BY DEF HomeEvents, Events
<1> QED
  BY <1>1, <1>2, PlacedNext, JobsNext DEF Shape, AtHome, Placed, Jobs

\* The sets of paths, and the consumer.
LEMMA PathsType ==
    ASSUME TypeOK, Shape, Next
    PROVE  /\ consumer' \in [pc : {"idle", "stat", "lock"}, path : Paths]
           /\ pending' \subseteq Paths /\ processing' \subseteq Paths
           /\ restoring' \subseteq Paths
<1>1. \A h \in Tasks : task[h].path \in Paths  BY DEF TypeOK
<1>2. \A f \in Files : PathOf[f] \in Paths  BY IntakeAssumption DEF IntakeAssumption
<1>3. ASSUME NEW h \in Tasks, Takes(h) \/ Keep(h) \/ Mark(h) \/ Create(h)
      PROVE  /\ processing' \subseteq Paths /\ restoring' \subseteq Paths
             /\ UNCHANGED <<consumer, pending>>
  <2>1. Admits(h) \/ Claims(h) \/ Copies(h) \/ Unlinks(h) \/ Marks(h) \/ Leaves(h)
    BY <1>3, TaskMoves DEF Shape
  <2>2. UNCHANGED <<consumer, pending>>
    BY <1>3 DEF Takes, Admit, Claim, Copy, Unlink, Keep, Mark, Create
  <2> QED
    BY <1>1, <2>1, <2>2
       DEF TypeOK, Admits, Claims, Copies, Unlinks, Marks, Leaves
<1>4. CASE TakeEvent
  <2>1. Head(events) \in HomeEvents  BY <1>4 DEF TakeEvent, Shape, AtHome
  <2>2. Head(events).path \in Paths  BY <2>1 DEF HomeEvents, Events
  <2> QED  BY <1>4, <2>2 DEF TakeEvent, NextPending, TypeOK
<1>5. CASE Stat  BY <1>5 DEF Stat, TypeOK
<1>6. CASE Lock  BY <1>6 DEF Lock, TypeOK
<1>7. ASSUME NEW f \in Files, Drop(f) \/ ApiRestore(f)
      PROVE  /\ restoring' \subseteq Paths /\ UNCHANGED <<consumer, pending, processing>>
  BY <1>2, <1>7 DEF Drop, ApiRestore, TypeOK
<1>8. CASE CrashRestart  BY <1>8 DEF CrashRestart, TypeOK
<1>9. ASSUME NEW p \in Paths, Delete(p) \/ Flush(p) \/ Expire(p)
      PROVE  /\ restoring' \subseteq Paths /\ pending' \subseteq Paths
             /\ UNCHANGED <<consumer, processing>>
  BY <1>9 DEF Delete, Flush, Expire, TypeOK
<1>10. CASE SetMode  BY <1>10 DEF SetMode, TypeOK
<1> QED
  BY <1>3, <1>4, <1>5, <1>6, <1>7, <1>8, <1>9, <1>10 DEF Next, Consume, TypeOK

\* Only places with a file are locked, or overlooked.
LEMMA OccupiedNext ==
    ASSUME TypeOK, Shape, Next
    PROVE  /\ locked' \subseteq {p \in Paths : at'[p] # NoFile}
           /\ missed' \subseteq {p \in Paths : at'[p] # NoFile}
<1> DEFINE Held == {p \in Paths : at[p] # NoFile}
           Goal == locked' \subseteq Held' /\ missed' \subseteq Held'
<1>1. /\ locked \subseteq Held /\ missed \subseteq Held
      /\ at \in [Paths -> Files \cup {NoFile}]
      /\ PathOf \in [Files -> Paths] /\ NoFile \notin Files
  BY IntakeAssumption DEF TypeOK, IntakeAssumption
<1>2. \A h \in Tasks : task[h].path \in Paths  BY DEF TypeOK
<1>3. ASSUME NEW f \in Files, Drop(f) PROVE Goal  BY <1>1, <1>3 DEF Drop
<1>4. ASSUME NEW p \in Paths, Delete(p) PROVE Goal  BY <1>1, <1>4 DEF Delete
<1>5. CASE TakeEvent
  <2>1. Head(events) \in HomeEvents  BY <1>5 DEF TakeEvent, Shape, AtHome
  <2>2. Head(events).path \in Paths /\ Head(events).file \in Files
    BY <2>1 DEF HomeEvents, Events
  <2> QED  BY <1>1, <1>5, <2>2 DEF TakeEvent
<1>6. CASE Lock  BY <1>1, <1>6 DEF Lock, TypeOK
<1>7. ASSUME NEW h \in Tasks, Admit(h) PROVE Goal
  BY <1>1, <1>2, <1>7 DEF Admit, Overlooked
<1>8. ASSUME NEW h \in Tasks, Claim(h) PROVE Goal
  BY <1>1, <1>2, <1>8 DEF Claim, Overlooked, Unlocked
<1>9. ASSUME NEW h \in Tasks, Unlink(h) PROVE Goal
  BY <1>1, <1>2, <1>9 DEF Unlink
<1>10. ASSUME NEW h \in Tasks, Create(h) PROVE Goal
  <2>1. UNCHANGED <<locked, missed>>  BY <1>10 DEF Create
  <2>2. task[h].job # NoFile  BY <1>10 DEF Create, Shape, TaskAgrees
  <2>3. UNCHANGED at \/ at' = [at EXCEPT ![task[h].path] = task[h].job]
    BY <1>10 DEF Create
  <2> QED  BY <1>1, <1>2, <2>1, <2>2, <2>3
<1>11. CASE CrashRestart  BY <1>1, <1>11 DEF CrashRestart
<1>12. CASE UNCHANGED <<at, locked, missed>>  BY <1>1, <1>12
<1> QED
  BY <1>3, <1>4, <1>5, <1>6, <1>7, <1>8, <1>9, <1>10, <1>11, <1>12
     DEF Next, Consume, Takes, ApiRestore, Flush, Expire, SetMode, Stat, Copy, Keep, Mark

LEMMA TypeNext ==
    ASSUME TypeOK, Shape, Next
    PROVE  TypeOK'
<1>1. events' \in Seq([kind : Kinds, path : Paths, file : Files])
  <2>1. PICK s \in Seq(HomeEvents) : s = events'  BY EventsType DEF Shape
  <2>2. \A i \in 1..Len(s) : s[i] \in Events  BY DEF HomeEvents
  <2>3. s \in [1..Len(s) -> Events] /\ Len(s) \in Nat  BY <2>2
  <2>4. s \in Seq(Events)  BY <2>3
  <2> QED  BY <2>1, <2>4 DEF Events
<1>2. task' \in [Tasks -> TaskRecords]  BY TaskType DEF Shape
<1>3. /\ monitoring' \in BOOLEAN
      /\ switches' \in 0..MaxSwitches /\ crashes' \in 0..MaxCrashes
  <2>1. CASE SetMode  BY <2>1, IntakeAssumption DEF SetMode, TypeOK, IntakeAssumption
  <2>2. CASE CrashRestart
    BY <2>2, IntakeAssumption DEF CrashRestart, TypeOK, IntakeAssumption
  <2>3. CASE UNCHANGED <<monitoring, switches, crashes>>  BY <2>3 DEF TypeOK
  <2> QED
    BY <2>1, <2>2, <2>3
       DEF Next, Consume, Takes, Drop, ApiRestore, Delete, Flush, Expire, TakeEvent, Stat,
           Lock, Admit, Claim, Copy, Unlink, Keep, Mark, Create, bounds
<1> QED
  BY <1>1, <1>2, <1>3, PlacedNext, PathsType, OccupiedNext
     DEF TypeOK, Placed, TaskRecords

LEMMA ShapeHolds == Spec => [](TypeOK /\ Shape)
<1>1. Init => TypeOK /\ Shape  BY InitIntake DEF IntakeInv
<1>2. TypeOK /\ Shape /\ [Next]_vars => (TypeOK /\ Shape)'
  <2> SUFFICES ASSUME TypeOK, Shape, [Next]_vars PROVE (TypeOK /\ Shape)'
    OBVIOUS
  <2>1. CASE Next  BY <2>1, TypeNext, ShapeNext
  <2>2. CASE UNCHANGED vars
    <3>1. UNCHANGED <<at, place, locked, events, consumer, pending, processing,
                      restoring, task, monitoring, switches, crashes, missed>>
      BY <2>2 DEF vars, bounds
    <3>2. TypeOK'  BY <3>1 DEF TypeOK
    <3>3. Shape'
      BY <3>1 DEF Shape, AtHome, HomeEvents, Events, TaskAgrees, OneOwnerPerPath, OneTaskPerJob
    <3> QED  BY <3>2, <3>3
  <2> QED  BY <2>1, <2>2
<1> QED  BY <1>1, <1>2, PTL DEF Spec

\* Every variable keeps its type: the places that are locked or overlooked hold a file,
\* and a file counts as in the watch folder exactly while it lies at its place.
THEOREM IntakeTypes == Spec => []TypeOK
BY ShapeHolds, PTL

\* At any time at most one handler owns a path: the insertion into processing_paths is
\* the claim, and only the owner takes the path out again (watcher.rs, handle_file).
THEOREM OneOwner == Spec => []OneOwnerPerPath
<1>1. TypeOK /\ Shape => OneOwnerPerPath  BY DEF Shape
<1> QED  BY <1>1, ShapeHolds, PTL

-------------------------------------------------------------------------------
(* The settle window.                                                       *)

LEMMA AppendFacts ==
    ASSUME NEW S, NEW s \in Seq(S), NEW e \in S
    PROVE  /\ Len(Append(s, e)) = Len(s) + 1 /\ Append(s, e)[Len(s) + 1] = e
           /\ Append(s, e) \in Seq(S)
           /\ \A i \in 1..Len(s) : Append(s, e)[i] = s[i]
OBVIOUS

LEMMA TailFacts ==
    ASSUME NEW S, NEW s \in Seq(S), s # << >>
    PROVE  /\ Len(Tail(s)) = Len(s) - 1 /\ Head(s) = s[1] /\ Len(s) \in Nat \ {0}
           /\ \A i \in 1..Len(Tail(s)) : Tail(s)[i] = s[i + 1]
OBVIOUS

\* No event in s is about p.
Silent(s, p) == \A i \in 1..Len(s) : s[i].path # p

LEMMA SilentAppend ==
    ASSUME NEW s \in Seq(HomeEvents), NEW p, NEW k \in Kinds, NEW f \in Files,
           Silent(s, p), PathOf[f] # p
    PROVE  Silent(Append(s, Event(k, f)), p) /\ Append(s, Event(k, f)) \in Seq(HomeEvents)
<1>1. PICK e \in HomeEvents : e = Event(k, f)  BY EventFacts
<1>2. e.path # p  BY <1>1, EventFacts
<1>3. Len(s) \in Nat /\ Append(s, e) \in Seq(HomeEvents) /\ Len(Append(s, e)) = Len(s) + 1
      /\ Append(s, e)[Len(s) + 1] = e /\ \A i \in 1..Len(s) : Append(s, e)[i] = s[i]
  BY AppendFacts
<1>4. ASSUME NEW i \in 1..Len(Append(s, e)) PROVE Append(s, e)[i].path # p
  <2>1. i \in 1..Len(s) \/ i = Len(s) + 1  BY <1>3
  <2> QED  BY <1>2, <1>3, <2>1 DEF Silent
<1> QED  BY <1>1, <1>3, <1>4 DEF Silent

LEMMA SilentTail ==
    ASSUME NEW s \in Seq(HomeEvents), NEW p, Silent(s, p), s # << >>
    PROVE  Silent(Tail(s), p) /\ Head(s).path # p
<1>1. /\ Len(Tail(s)) = Len(s) - 1 /\ Head(s) = s[1] /\ Len(s) \in Nat \ {0}
      /\ \A i \in 1..Len(Tail(s)) : Tail(s)[i] = s[i + 1]
  BY TailFacts
<1>2. \A i \in 1..Len(Tail(s)) : i + 1 \in 1..Len(s)  BY <1>1
<1> QED  BY <1>1, <1>2 DEF Silent

LEMMA SilentTouched ==
    ASSUME TypeOK, Shape, NEW q \in Paths, NEW p, Silent(events, p), q # p
    PROVE  Silent(Touched(q), p)
<1>1. CASE at[q] = NoFile  BY <1>1 DEF Touched
<1>2. CASE at[q] # NoFile
  <2>1. at[q] \in Files /\ PathOf[at[q]] = q  BY <1>2, AtPlace DEF Shape
  <2>2. events \in Seq(HomeEvents) /\ "change" \in Kinds  BY DEF Shape, AtHome, Kinds
  <2> QED  BY <1>2, <2>1, <2>2, SilentAppend DEF Touched
<1> QED  BY <1>1, <1>2

\* Handlers and restores on their way to p.
Heading(p) == \E h \in Tasks : task[h].path = p /\ task[h].pc \in {"spawned", "admitted", "marked"}

LEMMA QuietIs ==
    ASSUME NEW p
    PROVE  Quiet(p) <=> /\ Silent(events, p)
                        /\ consumer.path = p => consumer.pc = "idle"
                        /\ p \notin pending /\ ~Heading(p)
BY DEF Quiet, Silent, Heading

\* A file that was put back is at p.
Restored(p) == at[p] # NoFile /\ place[at[p]] = "released"

\* Tasks and the consumer never start for a quiet path, except to put something there.
LEMMA QuietStays ==
    ASSUME TypeOK, Shape, Next, NEW p \in Paths, Quiet(p), p \notin restoring',
           Restored(p), Restored(p)'
    PROVE  Quiet(p)'
<1>0. /\ Silent(events, p) /\ (consumer.path = p => consumer.pc = "idle")
      /\ p \notin pending /\ ~Heading(p)
  BY QuietIs
<1> DEFINE Goal == /\ Silent(events', p) /\ (consumer'.path = p => consumer'.pc = "idle")
                   /\ p \notin pending' /\ ~Heading(p)'
<1>1. SUFFICES Goal  BY DEF Quiet, Silent, Heading
<1>2. /\ events \in Seq(HomeEvents) /\ Kinds = {"change", "remove"}
      /\ PathOf \in [Files -> Paths] /\ NoFile \notin Files
      /\ at \in [Paths -> Files \cup {NoFile}] /\ place \in [Files -> Places]
      /\ \A h \in Tasks : task[h].path \in Paths
      /\ \A q \in Paths : at[q] # NoFile => at[q] \in Files /\ PathOf[at[q]] = q
  BY IntakeAssumption, AtPlace DEF Shape, AtHome, Kinds, IntakeAssumption, TypeOK
<1>3. ASSUME NEW f \in Files, Drop(f) PROVE Goal
  <2>1. PathOf[f] # p
    BY <1>2, <1>3 DEF Drop, Restored
  <2>2. Silent(events', p)  BY <1>0, <1>2, <1>3, <2>1, SilentAppend DEF Drop
  <2> QED  BY <1>0, <1>3, <2>2 DEF Drop, Heading
<1>4. ASSUME NEW q \in Paths, Delete(q) PROVE Goal
  <2>1. q # p  BY <1>2, <1>4 DEF Delete, Restored
  <2>2. Silent(events', p)  BY <1>0, <1>2, <1>4, <2>1, SilentAppend DEF Delete
  <2> QED  BY <1>0, <1>4, <2>2 DEF Delete, Heading
<1>5. CASE TakeEvent
  <2>1. Silent(events', p) /\ Head(events).path # p
    BY <1>0, <1>2, <1>5, SilentTail DEF TakeEvent
  <2> QED  BY <1>0, <1>5, <2>1 DEF TakeEvent, NextPending, Heading
<1>6. CASE Stat  BY <1>0, <1>6 DEF Stat, Heading, TypeOK
<1>7. CASE Lock
  <2>1. consumer.path \in Paths /\ consumer.path # p  BY <1>0, <1>7 DEF Lock, TypeOK
  <2>2. Silent(events', p)  BY <1>0, <1>7, <2>1, SilentTouched DEF Lock
  <2> QED  BY <1>0, <1>7, <2>1, <2>2 DEF Lock, Heading, TypeOK
<1>8. ASSUME NEW q \in Paths, Flush(q) PROVE Goal
  <2>1. PICK h \in Tasks :
            /\ task[h].pc = "free"
            /\ task' = [task EXCEPT ![h] = [FreeTask EXCEPT !.pc = "spawned", !.path = q]]
    BY <1>8 DEF Flush
  <2>2. task'[h].path = q /\ \A k \in Tasks : k # h => task'[k] = task[k]
    BY <2>1, FlushSpawns
  <2>3. q # p  BY <1>0, <1>8 DEF Flush
  <2>4. ~Heading(p)'  BY <1>0, <2>2, <2>3 DEF Heading
  <2> QED  BY <1>0, <1>8, <2>4 DEF Flush
<1>9. ASSUME NEW f \in Files, ApiRestore(f) PROVE Goal
  <2>1. CASE at[PathOf[f]] = NoFile
    <3>1. PICK h \in Tasks :
              /\ task[h].pc = "free"
              /\ task' = [task EXCEPT ![h] = [FreeTask EXCEPT !.pc = "marked",
                                                 !.path = PathOf[f], !.job = f]]
      BY <1>9, <2>1 DEF ApiRestore
    <3>2. task'[h].path = PathOf[f] /\ \A k \in Tasks : k # h => task'[k] = task[k]
      BY <3>1, ApiMarks
    <3>3. PathOf[f] # p  BY <1>9, <2>1 DEF ApiRestore
    <3>4. ~Heading(p)'  BY <1>0, <3>2, <3>3 DEF Heading
    <3> QED  BY <1>0, <1>9, <3>4 DEF ApiRestore
  <2>2. CASE at[PathOf[f]] # NoFile
    BY <1>0, <1>9, <2>2 DEF ApiRestore, Heading
  <2> QED  BY <2>1, <2>2
<1>10. ASSUME NEW h \in Tasks, Takes(h) \/ Keep(h) \/ Mark(h) \/ Create(h) PROVE Goal
  <2>1. /\ Admits(h) \/ Claims(h) \/ Copies(h) \/ Unlinks(h) \/ Marks(h) \/ Leaves(h)
        /\ \A k \in Tasks : k # h => task'[k] = task[k]
    BY <1>10, TaskMoves DEF Shape
  <2>2. UNCHANGED <<consumer, pending>>
    BY <1>10 DEF Takes, Admit, Claim, Copy, Unlink, Keep, Mark, Create
  <2>3. ~(task'[h].path = p /\ task'[h].pc \in {"spawned", "admitted", "marked"})
    <3>1. task[h].path = p => task[h].pc \notin {"spawned", "admitted", "marked"}
      BY <1>0 DEF Heading
    <3> QED
      BY <2>1, <3>1, FreeTaskFacts
         DEF Admits, Claims, Copies, Unlinks, Marks, Leaves, Moves, Frees
  <2>4. ~Heading(p)'  BY <1>0, <2>1, <2>3 DEF Heading
  <2>5. Silent(events', p)
    <3>1. task[h].pc \in {"admitted", "marked"} => task[h].path # p  BY <1>0 DEF Heading
    <3>2. CASE Claim(h)
      BY <1>0, <1>2, <3>1, <3>2, SilentTouched DEF Claim
    <3>3. CASE Unlink(h)
      <4>1. CASE at[task[h].path] = NoFile  BY <1>0, <3>3, <4>1 DEF Unlink
      <4>2. CASE at[task[h].path] # NoFile
        <5>1. task[h].path # p  BY <1>2, <3>3, <4>2 DEF Unlink, Restored
        <5>2. events' = Append(events, Event("remove", at[task[h].path]))
          BY <3>3, <4>2 DEF Unlink
        <5> QED  BY <1>0, <1>2, <4>2, <5>1, <5>2, SilentAppend
      <4> QED  BY <4>1, <4>2
    <3>4. CASE Create(h)
      <4>1. task[h].job \in Files /\ PathOf[task[h].job] # p
        BY <3>1, <3>4, JobFacts DEF Create
      <4>2. \/ UNCHANGED events
            \/ events' = Append(Append(events, Event("change", task[h].job)),
                                Event("change", task[h].job))
        BY <3>4 DEF Create
      <4>3. PICK s \in Seq(HomeEvents) :
                s = Append(events, Event("change", task[h].job)) /\ Silent(s, p)
        BY <1>0, <1>2, <4>1, SilentAppend
      <4>4. Silent(Append(s, Event("change", task[h].job)), p)
        BY <1>2, <4>1, <4>3, SilentAppend
      <4> QED  BY <1>0, <4>2, <4>3, <4>4
    <3>5. CASE UNCHANGED events  BY <1>0, <3>5
    <3> QED
      BY <1>10, <3>2, <3>3, <3>4, <3>5 DEF Takes, Admit, Copy, Keep, Mark
  <2> QED  BY <1>0, <2>2, <2>4, <2>5
<1>11. CASE CrashRestart
  <2>1. \A h \in Tasks : task'[h].pc = "free"  BY <1>11, FreeTaskFacts DEF CrashRestart
  <2>2. events' = << >> /\ pending' = {} /\ consumer'.pc = "idle"
    BY <1>11 DEF CrashRestart, TypeOK
  <2> QED  BY <2>1, <2>2 DEF Silent, Heading
<1>12. CASE SetMode \/ \E q \in Paths : Expire(q)
  <2>1. UNCHANGED <<events, consumer, pending, task>>  BY <1>12 DEF SetMode, Expire
  <2> QED  BY <1>0, <2>1 DEF Heading
<1> QED
  BY <1>3, <1>4, <1>5, <1>6, <1>7, <1>8, <1>9, <1>10, <1>11, <1>12 DEF Next, Consume

LEMMA CalmNext ==
    ASSUME TypeOK, Shape, Next, NEW p \in Paths,
           p \notin restoring => Calm(p), p \notin restoring'
    PROVE  Calm(p)'
<1>0. /\ PathOf \in [Files -> Paths] /\ NoFile \notin Files
      /\ at \in [Paths -> Files \cup {NoFile}] /\ place \in [Files -> Places]
      /\ \A h \in Tasks : task[h].path \in Paths
      /\ \A q \in Paths : at[q] # NoFile => at[q] \in Files /\ PathOf[at[q]] = q
  BY IntakeAssumption, AtPlace DEF Shape, IntakeAssumption, TypeOK
<1>1. CASE Expire(p)
  <2>1. Quiet(p)  BY <1>1 DEF Expire
  <2>2. UNCHANGED <<at, place, events, consumer, pending, task>>  BY <1>1 DEF Expire
  <2> QED  BY <2>1, <2>2 DEF Calm, Quiet
<1>2. CASE CrashRestart
  <2>1. \A h \in Tasks : task'[h].pc = "free"  BY <1>2, FreeTaskFacts DEF CrashRestart
  <2>2. events' = << >> /\ pending' = {} /\ consumer'.pc = "idle"
    BY <1>2 DEF CrashRestart, TypeOK
  <2> QED  BY <2>1, <2>2 DEF Calm, Quiet
<1>3. CASE ~Expire(p) /\ ~CrashRestart
  <2>1. p \notin restoring
    <3>1. CASE \E q \in Paths : Expire(q)  BY <1>3, <3>1 DEF Expire
    <3>2. ASSUME NEW h \in Tasks, Takes(h) \/ Keep(h) \/ Mark(h) \/ Create(h)
          PROVE  restoring \subseteq restoring'
      <4>1. Admits(h) \/ Claims(h) \/ Copies(h) \/ Unlinks(h) \/ Marks(h) \/ Leaves(h)
        BY <3>2, TaskMoves DEF Shape
      <4> QED  BY <4>1 DEF Admits, Claims, Copies, Unlinks, Marks, Leaves
    <3> QED
      BY <1>3, <3>1, <3>2
         DEF Next, Consume, Drop, ApiRestore, Delete, Flush, SetMode, TakeEvent, Stat, Lock
  <2>2. /\ \A h \in Tasks : task[h].path = p => task[h].pc # "marked"
        /\ Restored(p) => Quiet(p)
    BY <2>1 DEF Calm, Restored
  <2>3. \A h \in Tasks : task'[h].path = p => task'[h].pc # "marked"
    <3>1. ASSUME NEW h \in Tasks, Takes(h) \/ Keep(h) \/ Mark(h) \/ Create(h)
          PROVE  \A k \in Tasks : task'[k].path = p => task'[k].pc # "marked"
      <4>1. /\ Admits(h) \/ Claims(h) \/ Copies(h) \/ Unlinks(h) \/ Marks(h) \/ Leaves(h)
            /\ \A k \in Tasks : k # h => task'[k] = task[k]
        BY <3>1, TaskMoves DEF Shape
      <4>2. task'[h].path = p => task'[h].pc # "marked"
        BY <4>1, FreeTaskFacts
           DEF Admits, Claims, Copies, Unlinks, Marks, Leaves, Moves, Frees
      <4> QED  BY <2>2, <4>1, <4>2
    <3>2. ASSUME NEW q \in Paths, Flush(q)
          PROVE  \A k \in Tasks : task'[k].path = p => task'[k].pc # "marked"
      <4>1. PICK h \in Tasks : /\ task'[h].pc = "spawned"
                               /\ \A k \in Tasks : k # h => task'[k] = task[k]
        BY <3>2, FlushSpawns DEF Flush
      <4> QED  BY <2>2, <4>1
    <3>3. ASSUME NEW f \in Files, ApiRestore(f)
          PROVE  \A k \in Tasks : task'[k].path = p => task'[k].pc # "marked"
      <4>1. CASE at[PathOf[f]] = NoFile
        <5>1. PICK h \in Tasks :
                  /\ task[h].pc = "free"
                  /\ task' = [task EXCEPT ![h] = [FreeTask EXCEPT !.pc = "marked",
                                                     !.path = PathOf[f], !.job = f]]
          BY <3>3, <4>1 DEF ApiRestore
        <5>2. task'[h].path = PathOf[f] /\ \A k \in Tasks : k # h => task'[k] = task[k]
          BY <5>1, ApiMarks
        <5>3. PathOf[f] # p  BY <3>3, <4>1 DEF ApiRestore
        <5> QED  BY <2>2, <5>2, <5>3
      <4>2. CASE at[PathOf[f]] # NoFile  BY <2>2, <3>3, <4>2 DEF ApiRestore
      <4> QED  BY <4>1, <4>2
    <3>4. CASE UNCHANGED task  BY <2>2, <3>4
    <3> QED
      BY <1>3, <3>1, <3>2, <3>3, <3>4
         DEF Next, Consume, Drop, Delete, Expire, SetMode, TakeEvent, Stat, Lock
  <2>4. Restored(p)' => Restored(p)
    <3>1. ASSUME NEW h \in Tasks, Takes(h) \/ Keep(h) \/ Mark(h) \/ Create(h)
          PROVE  Restored(p)' => Restored(p)
      <4>1. Admits(h) \/ Claims(h) \/ Copies(h) \/ Unlinks(h) \/ Marks(h) \/ Leaves(h)
        BY <3>1, TaskMoves DEF Shape
      <4>2. CASE UNCHANGED <<at, place>>  BY <4>2 DEF Restored
      <4>3. CASE Unlinks(h)  BY <1>0, <4>3 DEF Unlinks, Restored
      <4>4. CASE /\ task[h].pc \in {"scanning", "marked"} /\ UNCHANGED at
                 /\ place' = [place EXCEPT ![task[h].job] = "elsewhere"]
        BY <1>0, <4>4 DEF Restored
      <4>5. CASE /\ task[h].pc = "marked"
                 /\ at' = [at EXCEPT ![task[h].path] = task[h].job]
                 /\ place' = [place EXCEPT ![task[h].job] = "released"]
        <5>1. task[h].path # p /\ PathOf[task[h].job] = task[h].path
          BY <2>2, <4>5, JobFacts
        <5> QED  BY <1>0, <4>5, <5>1 DEF Restored
      <4> QED  BY <4>1, <4>2, <4>3, <4>4, <4>5 DEF Admits, Claims, Copies, Marks, Leaves
    <3>2. ASSUME NEW f \in Files, Drop(f) PROVE Restored(p)' => Restored(p)
      BY <1>0, <3>2 DEF Drop, Restored
    <3>3. ASSUME NEW q \in Paths, Delete(q) PROVE Restored(p)' => Restored(p)
      BY <1>0, <3>3 DEF Delete, Restored
    <3>4. ASSUME NEW f \in Files, ApiRestore(f) PROVE Restored(p)' => Restored(p)
      BY <1>0, <3>4 DEF ApiRestore, Restored
    <3>5. CASE UNCHANGED <<at, place>>  BY <3>5 DEF Restored
    <3> QED
      BY <1>3, <3>1, <3>2, <3>3, <3>4, <3>5
         DEF Next, Consume, Flush, Expire, SetMode, TakeEvent, Stat, Lock
  <2>5. Restored(p)' => Quiet(p)'  BY <2>2, <2>4, QuietStays
  <2> QED  BY <2>3, <2>5 DEF Calm, Restored
<1> QED  BY <1>1, <1>2, <1>3

LEMMA SettleHolds == Spec => [](TypeOK /\ Shape /\ SettleInv)
<1>1. Init => SettleInv  BY InitIntake DEF IntakeInv
<1>2. TypeOK /\ Shape /\ SettleInv /\ [Next]_vars => SettleInv'
  <2> SUFFICES ASSUME TypeOK, Shape, SettleInv, [Next]_vars PROVE SettleInv'
    OBVIOUS
  <2>1. CASE Next
    <3> SUFFICES ASSUME NEW p \in Paths, p \notin restoring' PROVE Calm(p)'
      BY DEF SettleInv
    <3> QED  BY <2>1, CalmNext DEF SettleInv
  <2>2. CASE UNCHANGED vars
    <3>1. UNCHANGED <<at, place, events, consumer, pending, restoring, task>>
      BY <2>2 DEF vars
    <3> QED  BY <3>1 DEF SettleInv, Calm, Quiet
  <2> QED  BY <2>1, <2>2
<1> QED  BY <1>1, <1>2, ShapeHolds, PTL DEF Spec

\* No handler claims a file that the daemon has put back: within the settle window the
\* claim is refused, and the window closes only when nothing heads for the path any
\* more (restore_suppressed and restore_clean of watcher.rs).
THEOREM RestoreEnds == Spec => NoRestoreLoop
<1>1. TypeOK /\ Shape /\ SettleInv /\ [Next]_vars =>
          [\A h \in Tasks : task[h].pc = "admitted" /\ task'[h].pc = "opened"
               => place[at[task[h].path]] # "released"]_vars
  <2> SUFFICES ASSUME TypeOK, Shape, SettleInv, Next, NEW h \in Tasks,
                      task[h].pc = "admitted", task'[h].pc = "opened"
               PROVE  place[at[task[h].path]] # "released"
    OBVIOUS
  <2>1. Claims(h)
    <3>1. ASSUME NEW k \in Tasks, Takes(k) \/ Keep(k) \/ Mark(k) \/ Create(k)
          PROVE  Claims(h)
      <4>1. /\ Admits(k) \/ Claims(k) \/ Copies(k) \/ Unlinks(k) \/ Marks(k) \/ Leaves(k)
            /\ \A j \in Tasks : j # k => task'[j] = task[j]
        BY <3>1, TaskMoves DEF Shape
      <4>2. k = h  BY <4>1
      <4> QED
        BY <4>1, <4>2, FreeTaskFacts
           DEF Admits, Copies, Unlinks, Marks, Leaves, Moves, Frees
    <3>2. ASSUME NEW p \in Paths, Flush(p) PROVE FALSE
      <4>1. PICK j \in Tasks : /\ task'[j].pc = "spawned"
                               /\ \A i \in Tasks : i # j => task'[i] = task[i]
        BY <3>2, FlushSpawns DEF Flush
      <4> QED  BY <4>1
    <3>3. ASSUME NEW f \in Files, ApiRestore(f) PROVE FALSE
      <4>1. UNCHANGED task \/ \E j \in Tasks :
                task' = [task EXCEPT ![j] = [FreeTask EXCEPT !.pc = "marked",
                                                !.path = PathOf[f], !.job = f]]
        BY <3>3 DEF ApiRestore
      <4>2. CASE \E j \in Tasks : /\ task'[j].pc = "marked"
                                  /\ \A i \in Tasks : i # j => task'[i] = task[i]
        BY <4>2
      <4> QED  BY <4>1, <4>2, ApiMarks
    <3>4. CASE CrashRestart  BY <3>4, FreeTaskFacts DEF CrashRestart
    <3>5. CASE UNCHANGED task  BY <3>5
    <3> QED
      BY <3>1, <3>2, <3>3, <3>4, <3>5
         DEF Next, Consume, Drop, Delete, Expire, SetMode, TakeEvent, Stat, Lock
  <2>2. /\ task[h].path \in Paths /\ at[task[h].path] # NoFile
        /\ task[h].path \notin restoring
    BY <2>1 DEF Claims, MayClaim, Suppressed, TypeOK
  <2>3. ~Quiet(task[h].path)  BY DEF Quiet
  <2> QED  BY <2>2, <2>3 DEF SettleInv, Calm
<1> QED  BY <1>1, SettleHolds, PTL DEF Spec, NoRestoreLoop

-------------------------------------------------------------------------------
(* Nothing forgotten.                                                       *)

LEMMA TellsMore ==
    ASSUME NEW s \in Seq(HomeEvents), NEW e \in HomeEvents, NEW f
    PROVE  /\ Append(s, e) \in Seq(HomeEvents)
           /\ Tells(s, f) => Tells(Append(s, e), f)
           /\ Armed(s, f) /\ ~(e.kind = "remove" /\ e.path = PathOf[f])
                  => Armed(Append(s, e), f)
           /\ e.kind = "change" /\ e.file = f
                  => Tells(Append(s, e), f) /\ Armed(Append(s, e), f)
<1>1. PICK t \in Seq(HomeEvents) : t = Append(s, e)  BY AppendFacts
<1>2. /\ Len(s) \in Nat /\ Len(t) = Len(s) + 1 /\ t[Len(s) + 1] = e
      /\ \A i \in 1..Len(s) : t[i] = s[i]
  BY <1>1, AppendFacts
<1>3. /\ 1..Len(t) = (1..Len(s)) \cup {Len(s) + 1}
      /\ \A i \in 1..Len(s) : i < Len(s) + 1
  BY <1>2
<1>4. Tells(s, f) => Tells(t, f)  BY <1>2, <1>3 DEF Tells
<1>5. ASSUME Armed(s, f), ~(e.kind = "remove" /\ e.path = PathOf[f]) PROVE Armed(t, f)
  <2> SUFFICES ASSUME NEW i \in 1..Len(t), t[i].kind = "remove", t[i].path = PathOf[f]
               PROVE  \E k \in 1..Len(t) : i < k /\ t[k].file = f /\ t[k].kind = "change"
    BY DEF Armed
  <2>1. i \in 1..Len(s)  BY <1>2, <1>3, <1>5
  <2>2. PICK k \in 1..Len(s) : i < k /\ s[k].file = f /\ s[k].kind = "change"
    BY <1>2, <1>5, <2>1 DEF Armed
  <2> QED  BY <1>2, <1>3, <2>2
<1>6. ASSUME e.kind = "change", e.file = f PROVE Tells(t, f) /\ Armed(t, f)
  <2>1. Len(s) + 1 \in 1..Len(t)  BY <1>2
  <2>2. Tells(t, f)  BY <1>2, <1>6, <2>1 DEF Tells
  <2>3. \A i \in 1..Len(t) : t[i].kind = "remove" => i < Len(s) + 1  BY <1>2, <1>3, <1>6
  <2>4. Armed(t, f)  BY <1>2, <1>6, <2>1, <2>3 DEF Armed
  <2> QED  BY <2>2, <2>4
<1> QED  BY <1>1, <1>4, <1>5, <1>6

LEMMA TellsLess ==
    ASSUME NEW s \in Seq(HomeEvents), s # << >>, NEW f
    PROVE  /\ Tells(s, f) =>
                  Tells(Tail(s), f) \/ (Head(s).file = f /\ Head(s).kind = "change")
           /\ Armed(s, f) => Armed(Tail(s), f)
           /\ Armed(s, f) /\ Head(s).kind = "remove" /\ Head(s).path = PathOf[f]
                  => Tells(Tail(s), f)
<1> DEFINE t == Tail(s)
<1>1. /\ Len(s) \in Nat \ {0} /\ Len(t) = Len(s) - 1 /\ Head(s) = s[1]
      /\ \A i \in 1..Len(t) : t[i] = s[i + 1]
  BY TailFacts
<1> HIDE DEF t
<1>2. \A i \in 1..Len(s) : i # 1 => i - 1 \in 1..Len(t) /\ t[i - 1] = s[i]
  BY <1>1
<1>3. \A i \in 1..Len(t) : i + 1 \in 1..Len(s) /\ t[i] = s[i + 1]
  BY <1>1
<1>4. Tells(s, f) => Tells(t, f) \/ (Head(s).file = f /\ Head(s).kind = "change")
  BY <1>1, <1>2 DEF Tells
<1>5. ASSUME Armed(s, f) PROVE Armed(t, f)
  <2> SUFFICES ASSUME NEW i \in 1..Len(t), t[i].kind = "remove", t[i].path = PathOf[f]
               PROVE  \E k \in 1..Len(t) : i < k /\ t[k].file = f /\ t[k].kind = "change"
    BY DEF Armed
  <2>1. PICK k \in 1..Len(s) : i + 1 < k /\ s[k].file = f /\ s[k].kind = "change"
    BY <1>3, <1>5 DEF Armed
  <2>2. k # 1 /\ i < k - 1  BY <1>1, <2>1
  <2> QED  BY <1>2, <2>1, <2>2
<1>6. ASSUME Armed(s, f), Head(s).kind = "remove", Head(s).path = PathOf[f]
      PROVE  Tells(t, f)
  <2>1. PICK k \in 1..Len(s) : 1 < k /\ s[k].file = f /\ s[k].kind = "change"
    BY <1>1, <1>6 DEF Armed
  <2> QED  BY <1>2, <2>1 DEF Tells
<1> QED  BY <1>4, <1>5, <1>6 DEF t

\* What the channel says of f stays good under an action elsewhere.
LEMMA ToldElsewhere ==
    ASSUME TypeOK, Shape, NEW f \in Files, NEW k \in Kinds, NEW g \in Files,
           PathOf[g] # PathOf[f] \/ k = "change"
    PROVE  /\ Tells(events, f) => Tells(Append(events, Event(k, g)), f)
           /\ Armed(events, f) => Armed(Append(events, Event(k, g)), f)
<1>1. PICK e \in HomeEvents : e = Event(k, g)  BY EventFacts
<1>2. ~(e.kind = "remove" /\ e.path = PathOf[f])  BY <1>1, EventFacts
<1>3. events \in Seq(HomeEvents)  BY DEF Shape, AtHome
<1> QED  BY <1>1, <1>2, <1>3, TellsMore

LEMMA ToldTouched ==
    ASSUME TypeOK, Shape, NEW f \in Files, NEW p \in Paths
    PROVE  /\ Tells(events, f) => Tells(Touched(p), f)
           /\ Armed(events, f) => Armed(Touched(p), f)
           /\ at[p] = f => Tells(Touched(p), f)
<1>1. f # NoFile  BY IntakeAssumption DEF IntakeAssumption
<1>2. CASE at[p] = NoFile  BY <1>1, <1>2 DEF Touched
<1>3. CASE at[p] # NoFile
  <2>1. at[p] \in Files /\ "change" \in Kinds  BY <1>3, AtPlace DEF Kinds, Shape
  <2>2. PICK e \in HomeEvents : e = Event("change", at[p]) /\ e.kind = "change" /\ e.file = at[p]
    BY <2>1, EventFacts
  <2>3. Touched(p) = Append(events, e)  BY <1>3, <2>2 DEF Touched
  <2>4. events \in Seq(HomeEvents)  BY DEF Shape, AtHome
  <2> QED  BY <2>2, <2>3, <2>4, TellsMore
<1> QED  BY <1>2, <1>3

\* A file that stays in the watch folder stays heralded, whatever happens.
LEMMA HeraldStays ==
    ASSUME TypeOK, Shape, Next, NEW f \in Files,
           at[PathOf[f]] = f, at'[PathOf[f]] = f, Heralded(f), Armed(events, f)
    PROVE  Heralded(f)' /\ Armed(events', f)
<1> DEFINE p == PathOf[f]
<1>0. /\ p \in Paths /\ PathOf \in [Files -> Paths] /\ NoFile \notin Files
      /\ at \in [Paths -> Files \cup {NoFile}] /\ f # NoFile
      /\ Kinds = {"change", "remove"} /\ events \in Seq(HomeEvents)
      /\ \A h \in Tasks : task[h].path \in Paths
      /\ \A q \in Paths : at[q] # NoFile => at[q] \in Files /\ PathOf[at[q]] = q
  BY IntakeAssumption, AtPlace DEF IntakeAssumption, TypeOK, Kinds, Shape, AtHome
<1> DEFINE Lead == \/ p \in missed \/ Tells(events, f)
                   \/ consumer.path = p /\ consumer.pc # "idle"
                   \/ p \in pending \/ Coming(p)
           Goal == /\ \/ p \in missed' \/ Tells(events', f)
                      \/ consumer'.path = p /\ consumer'.pc # "idle"
                      \/ p \in pending' \/ Coming(p)'
                   /\ Armed(events', f)
<1>1. Lead /\ Armed(events, f)  BY DEF Heralded
<1>2. SUFFICES Goal  BY DEF Heralded, Tells, Armed
<1>3. ASSUME UNCHANGED task PROVE Coming(p) => Coming(p)'  BY <1>3 DEF Coming
<1> HIDE DEF p
<1>4. ASSUME NEW g \in Files, Drop(g) PROVE Goal
  <2>1. UNCHANGED <<consumer, pending, task>> /\ events' = Append(events, Event("change", g))
    BY <1>4 DEF Drop
  <2>2. (Tells(events, f) => Tells(events', f)) /\ Armed(events', f)
    BY <1>0, <1>1, <2>1, ToldElsewhere
  <2>3. CASE PathOf[g] = p
    <3>1. g = f  BY <1>0, <1>4, <2>3 DEF Drop, p
    <3>2. PICK e \in HomeEvents : e = Event("change", f) /\ e.kind = "change" /\ e.file = f
      BY <1>0, EventFacts
    <3> QED  BY <1>0, <2>1, <2>2, <3>1, <3>2, TellsMore
  <2>4. CASE PathOf[g] # p
    <3>1. p \in missed => p \in missed'  BY <1>4, <2>4 DEF Drop
    <3> QED  BY <1>1, <1>3, <2>1, <2>2, <3>1
  <2> QED  BY <2>3, <2>4
<1>5. ASSUME NEW q \in Paths, Delete(q) PROVE Goal
  <2>1. /\ UNCHANGED <<consumer, pending, task>> /\ at[q] # NoFile
        /\ events' = Append(events, Event("remove", at[q])) /\ missed' = missed \ {q}
    BY <1>5 DEF Delete
  <2>2. q # p  BY <1>0, <1>5 DEF Delete, p
  <2>3. (Tells(events, f) => Tells(events', f)) /\ Armed(events', f)
    BY <1>0, <1>1, <2>1, <2>2, ToldElsewhere DEF p
  <2> QED  BY <1>1, <1>3, <2>1, <2>2, <2>3
<1>6. ASSUME NEW g \in Files, ApiRestore(g) PROVE Goal
  <2>1. UNCHANGED <<events, consumer, pending, missed>>  BY <1>6 DEF ApiRestore
  <2>2. Coming(p) => Coming(p)'
    <3>1. CASE UNCHANGED task  BY <1>3, <3>1
    <3>2. ASSUME NEW h \in Tasks, task[h].pc = "free",
                 \A k \in Tasks : k # h => task'[k] = task[k]
          PROVE  Coming(p) => Coming(p)'
      BY <3>2 DEF Coming
    <3>3. UNCHANGED task \/ \E h \in Tasks :
              /\ task[h].pc = "free"
              /\ task' = [task EXCEPT ![h] = [FreeTask EXCEPT !.pc = "marked",
                                                 !.path = PathOf[g], !.job = g]]
      BY <1>6 DEF ApiRestore
    <3> QED  BY <3>1, <3>2, <3>3, ApiMarks
  <2> QED  BY <1>1, <2>1, <2>2
<1>7. CASE TakeEvent
  <2> DEFINE e == Head(events)
  <2>1. /\ events # << >> /\ events' = Tail(events) /\ consumer.pc = "idle"
        /\ UNCHANGED task
    BY <1>7 DEF TakeEvent
  <2>2. /\ Tells(events, f) => Tells(events', f) \/ (e.file = f /\ e.kind = "change")
        /\ Armed(events', f)
        /\ e.kind = "remove" /\ e.path = PathOf[f] => Tells(events', f)
    BY <1>0, <1>1, <2>1, TellsLess
  <2>3. e \in HomeEvents  BY <1>0, <2>1
  <2>4. e.kind \in Kinds /\ e.path = PathOf[e.file] /\ e.path \in Paths
    BY <2>3 DEF HomeEvents, Events
  <2>5. p \in missed => p \in missed'  BY <1>7 DEF TakeEvent
  <2>6. p \in pending => p \in pending' \/ Tells(events', f)
    BY <1>0, <1>7, <2>2, <2>4 DEF TakeEvent, NextPending, p
  <2>7. e.file = f /\ e.kind = "change" =>
            p \in missed' \/ (consumer'.path = p /\ consumer'.pc # "idle")
    BY <1>7, <2>4 DEF TakeEvent, p
  <2> QED  BY <1>1, <1>3, <2>1, <2>2, <2>5, <2>6, <2>7
<1>8. CASE Stat
  <2>1. UNCHANGED <<events, missed, task>> /\ (p \in pending => p \in pending')
    BY <1>8 DEF Stat
  <2>2. consumer.path = p =>
            p \in pending' \/ (consumer'.path = p /\ consumer'.pc # "idle")
    <3>1. CASE TrackedAtOnce(consumer.path)  BY <1>0, <1>8, <3>1 DEF Stat, p
    <3>2. CASE ~TrackedAtOnce(consumer.path)
      <4>1. ASSUME consumer.path = p PROVE consumer' = [consumer EXCEPT !.pc = "lock"]
        BY <1>0, <1>8, <3>2, <4>1 DEF Stat, p
      <4> QED  BY <4>1 DEF TypeOK
    <3> QED  BY <3>1, <3>2
  <2> QED  BY <1>1, <1>3, <2>1, <2>2
<1>9. CASE Lock
  <2>1. /\ UNCHANGED <<missed, task>> /\ events' = Touched(consumer.path)
        /\ pending' = pending \cup {consumer.path} /\ consumer.path \in Paths
    BY <1>9 DEF Lock, TypeOK
  <2> QED  BY <1>1, <1>3, <2>1, ToldTouched
<1>10. ASSUME NEW q \in Paths, Flush(q) PROVE Goal
  <2>1. PICK h \in Tasks :
            /\ task[h].pc = "free" /\ task'[h].pc = "spawned" /\ task'[h].path = q
            /\ \A k \in Tasks : k # h => task'[k] = task[k]
    BY <1>10, FlushSpawns DEF Flush
  <2>2. (Coming(p) => Coming(p)') /\ Coming(q)'  BY <2>1 DEF Coming
  <2>3. UNCHANGED <<events, consumer, missed>> /\ pending' = pending \ {q}
    BY <1>10 DEF Flush
  <2> QED  BY <1>1, <2>2, <2>3
<1>11. ASSUME NEW h \in Tasks, Takes(h) \/ Keep(h) \/ Mark(h) \/ Create(h) PROVE Goal
  <2>1. /\ UNCHANGED <<consumer, pending>>
        /\ \A k \in Tasks : k # h => task'[k] = task[k]
    BY <1>11, TaskMoves DEF Takes, Admit, Claim, Copy, Unlink, Keep, Mark, Create, Shape
  <2>2. ASSUME Coming(p) PROVE Coming(p)' \/ p \in missed' \/ Tells(events', f)
    <3>1. PICK k \in Tasks : task[k].path = p /\ task[k].pc \in {"spawned", "admitted"}
      BY <2>2 DEF Coming
    <3>2. CASE k # h  BY <2>1, <3>1, <3>2 DEF Coming
    <3>3. CASE k = h /\ Admit(h)
      <4>1. CASE monitoring
        <5>1. Moves(h, "admitted")
          BY <3>3, <4>1, StepMoves DEF Admit, TaskPhases, Taking
        <5> QED  BY <3>1, <3>3, <5>1 DEF Coming, Moves
      <4>2. CASE ~monitoring  BY <1>0, <3>1, <3>3, <4>2 DEF Admit, Overlooked, p
      <4> QED  BY <4>1, <4>2
    <3>4. CASE k = h /\ Claim(h)
      <4>1. p = PathOf[f] /\ at[p] = f  BY DEF p
      <4>2. CASE at[task[h].path] # NoFile /\ MayClaim(task[h].path)
        <5>1. events' = Touched(p)  BY <3>1, <3>4, <4>2 DEF Claim
        <5> QED  BY <1>0, <4>1, <5>1, ToldTouched
      <4>3. CASE ~(at[task[h].path] # NoFile /\ MayClaim(task[h].path))
        <5>1. missed' = missed \cup Overlooked(p)  BY <3>1, <3>4, <4>3 DEF Claim
        <5> QED  BY <1>0, <4>1, <5>1 DEF Overlooked
      <4> QED  BY <4>2, <4>3
    <3> QED
      BY <1>11, <3>1, <3>2, <3>3, <3>4 DEF Takes, Copy, Unlink, Keep, Mark, Create
  <2>3. /\ p \in missed => p \in missed'
        /\ Tells(events, f) => Tells(events', f)
        /\ Armed(events', f)
    <3>1. CASE UNCHANGED <<missed, events>>  BY <1>1, <3>1
    <3>2. CASE Admit(h)  BY <1>1, <3>2 DEF Admit
    <3>3. CASE Claim(h)
      <4>1. UNCHANGED events \/ events' = Touched(task[h].path)  BY <3>3 DEF Claim
      <4>2. missed \subseteq missed'  BY <3>3 DEF Claim
      <4> QED  BY <1>0, <1>1, <4>1, <4>2, ToldTouched
    <3>4. CASE Unlink(h)
      <4>1. CASE at[task[h].path] = NoFile  BY <1>1, <3>4, <4>1 DEF Unlink
      <4>2. CASE at[task[h].path] # NoFile
        <5>1. /\ at' = [at EXCEPT ![task[h].path] = NoFile]
              /\ missed' = missed \ {task[h].path}
              /\ events' = Append(events, Event("remove", at[task[h].path]))
          BY <3>4, <4>2 DEF Unlink
        <5>2. task[h].path # p  BY <1>0, <5>1 DEF p
        <5> QED  BY <1>0, <1>1, <4>2, <5>1, <5>2, ToldElsewhere DEF p
      <4> QED  BY <4>1, <4>2
    <3>5. CASE Create(h)
      <4>1. task[h].job \in Files /\ UNCHANGED missed
        BY <3>5, JobFacts DEF Create
      <4>2. \/ UNCHANGED events
            \/ events' = Append(Append(events, Event("change", task[h].job)),
                                Event("change", task[h].job))
        BY <3>5 DEF Create
      <4>3. PICK e \in HomeEvents : e = Event("change", task[h].job) /\ e.kind = "change"
        BY <1>0, <4>1, EventFacts
      <4>4. PICK s \in Seq(HomeEvents) :
                /\ s = Append(events, e)
                /\ (Tells(events, f) => Tells(s, f)) /\ Armed(s, f)
        BY <1>0, <1>1, <4>3, TellsMore
      <4>5. (Tells(s, f) => Tells(Append(s, e), f)) /\ Armed(Append(s, e), f)
        BY <4>3, <4>4, TellsMore
      <4> QED  BY <1>1, <4>1, <4>2, <4>3, <4>4, <4>5
    <3> QED
      BY <1>11, <3>1, <3>2, <3>3, <3>4, <3>5 DEF Takes, Copy, Keep, Mark
  <2> QED  BY <1>1, <2>1, <2>2, <2>3
<1>12. CASE CrashRestart
  <2>1. events' = << >> /\ p \in missed'  BY <1>0, <1>12 DEF CrashRestart, p
  <2> QED  BY <2>1 DEF Armed
<1>13. CASE SetMode \/ \E q \in Paths : Expire(q)
  <2>1. UNCHANGED <<events, missed, consumer, pending, task>>
    BY <1>13 DEF SetMode, Expire
  <2> QED  BY <1>1, <1>3, <2>1
<1> QED
  BY <1>4, <1>5, <1>6, <1>7, <1>8, <1>9, <1>10, <1>11, <1>12, <1>13 DEF Next, Consume

\* Only a drop brings a file into the watch folder, and it is heard of.
LEMMA HeraldNext ==
    ASSUME TypeOK, Shape, HeraldInv, Next
    PROVE  HeraldInv'
<1> SUFFICES ASSUME NEW f \in Files, place'[f] = "watch"
             PROVE  Heralded(f)' /\ Armed(events', f)
  BY DEF HeraldInv, Armed
<1>1. at'[PathOf[f]] = f  BY PlacedNext DEF Placed
<1>2. CASE place[f] = "watch"
  <2>1. at[PathOf[f]] = f  BY <1>2 DEF TypeOK
  <2> QED  BY <1>1, <1>2, <2>1, HeraldStays DEF HeraldInv
<1>3. CASE place[f] # "watch"
  <2>1. Drop(f)
    <3>0. place \in [Files -> Places]  BY DEF TypeOK
    <3>1. ASSUME NEW h \in Tasks, Takes(h) \/ Keep(h) \/ Mark(h) \/ Create(h) PROVE FALSE
      <4>1. Admits(h) \/ Claims(h) \/ Copies(h) \/ Unlinks(h) \/ Marks(h) \/ Leaves(h)
        BY <3>1, TaskMoves DEF Shape
      <4> QED
        BY <1>3, <3>0, <4>1 DEF Admits, Claims, Copies, Unlinks, Marks, Leaves
    <3>2. ASSUME NEW q \in Paths, Delete(q) PROVE FALSE
      BY <1>3, <3>0, <3>2 DEF Delete
    <3>3. ASSUME NEW g \in Files, ApiRestore(g) PROVE FALSE
      BY <1>3, <3>0, <3>3 DEF ApiRestore
    <3>4. ~CrashRestart  BY <1>3, <3>0 DEF CrashRestart
    <3>5. place' # place  BY <1>3
    <3>6. PICK g \in Files : Drop(g)
      BY <3>1, <3>2, <3>3, <3>4, <3>5
         DEF Next, Consume, Flush, Expire, SetMode, TakeEvent, Stat, Lock
    <3> QED  BY <1>3, <3>0, <3>6 DEF Drop
  <2>2. PICK e \in HomeEvents : e = Event("change", f) /\ e.kind = "change" /\ e.file = f
    BY EventFacts DEF Kinds
  <2>3. events' = Append(events, e) /\ events \in Seq(HomeEvents)
    BY <2>1, <2>2 DEF Drop, Shape, AtHome
  <2>4. Tells(events', f) /\ Armed(events', f)  BY <2>2, <2>3, TellsMore
  <2> QED  BY <2>4 DEF Heralded, Tells
<1> QED  BY <1>2, <1>3

LEMMA HeraldHolds == Spec => [](TypeOK /\ Shape /\ HeraldInv)
<1>1. Init => HeraldInv  BY InitIntake DEF IntakeInv
<1>2. TypeOK /\ Shape /\ HeraldInv /\ [Next]_vars => HeraldInv'
  <2> SUFFICES ASSUME TypeOK, Shape, HeraldInv, [Next]_vars PROVE HeraldInv'
    OBVIOUS
  <2>1. CASE Next  BY <2>1, HeraldNext
  <2>2. CASE UNCHANGED vars
    <3>1. UNCHANGED <<place, missed, events, consumer, pending, task>>
      BY <2>2 DEF vars
    <3> QED  BY <3>1 DEF HeraldInv, Heralded, Tells, Armed, Coming
  <2> QED  BY <2>1, <2>2
<1> QED  BY <1>1, <1>2, ShapeHolds, PTL DEF Spec

\* A file in the watch folder is always in hand, or one of the refusals of the code hit
\* it: an event of its own still waits, the consumer, the tracker or a handler has its
\* path (on_raw_event, flush_stable and handle_file of watcher.rs).
THEOREM InHandOrMissed == Spec => []NothingForgotten
<1>1. TypeOK /\ Shape /\ HeraldInv => NothingForgotten
  <2> SUFFICES ASSUME TypeOK, Shape, HeraldInv, NEW f \in Files, place[f] = "watch"
               PROVE  PathOf[f] \in missed \/ InHand(f)
    BY DEF NothingForgotten
  <2>1. Heralded(f)  BY DEF HeraldInv
  <2>2. CASE Tells(events, f)
    <3>1. PICK i \in 1..Len(events) : events[i].file = f /\ events[i].kind = "change"
      BY <2>2 DEF Tells
    <3>2. events[i] \in HomeEvents  BY DEF Shape, AtHome
    <3> QED  BY <3>1, <3>2 DEF InHand, HomeEvents
  <2>3. CASE Coming(PathOf[f])  BY <2>3 DEF Coming, InHand, Taking
  <2> QED  BY <2>1, <2>2, <2>3 DEF Heralded, InHand
<1> QED  BY <1>1, HeraldHolds, PTL

\* The inductive invariant as a whole.
THEOREM IntakeInvHolds == Spec => []IntakeInv
<1>1. Shape /\ SettleInv /\ HeraldInv => IntakeInv
  BY DEF IntakeInv
<1> QED  BY <1>1, SettleHolds, HeraldHolds, PTL

-------------------------------------------------------------------------------
(* What module Quarantine takes for granted: one pipeline per file in the   *)
(* vault; and the ways a file may go.                                       *)

\* No two pipelines or restores work on the same file, and while one of them decides
\* about a file, from the unlink to its end, the file is in the vault.
PipelinesAreApart ==
    /\ OneTaskPerJob
    /\ \A h \in Tasks : task[h].pc \in {"scanning", "marked"} => place[task[h].job] = "vault"

\* Two handlers never run the pipeline for one file, though each finds it by its path
\* and files come back to the same path; and no download, delete or other restore takes
\* a file out of the vault under a pipeline (handle_file, pipeline_inner and restore_clean
\* of watcher.rs).  That a restore request keeps off a file in the pipeline is a guard
\* of ApiRestore here; module Quarantine shows what it rests on.
THEOREM OnePipelinePerFile == Spec => []PipelinesAreApart
<1>1. TypeOK /\ Shape => PipelinesAreApart
  BY DEF Shape, TaskAgrees, PipelinesAreApart
<1> QED  BY <1>1, ShapeHolds, PTL

\* A file that is copied but not yet unlinked has not left the folder by the daemon's hand.
CopiedStays ==
    \A h \in Tasks : task[h].pc = "copied" =>
        place[task[h].job] \in {"watch", "released", "gone"}

\* Where a file may go from where it is.
FileLife ==
    ({"new"} \X {"watch"}) \cup ({"watch"} \X {"vault", "gone"})
    \cup ({"gone"} \X {"vault"}) \cup ({"released"} \X {"vault", "gone"})
    \cup ({"vault"} \X {"released", "elsewhere", "gone"})

FileMoves == [][\A f \in Files : place'[f] # place[f] => <<place[f], place'[f]>> \in FileLife]_vars

\* How each action moves the files.
LEMMA FileStep ==
    ASSUME TypeOK, Shape, CopiedStays, Next, NEW f \in Files, place'[f] # place[f]
    PROVE  /\ <<place[f], place'[f]>> \in FileLife
           /\ \A h \in Tasks : task[h].pc = "copied" /\ task[h].job = f =>
                  \/ task'[h].pc # "copied"
                  \/ place'[f] = "gone"
<1>0. place \in [Files -> Places] /\ PathOf \in [Files -> Paths] /\ NoFile \notin Files
  BY IntakeAssumption DEF TypeOK, IntakeAssumption
<1>1. \A p \in Paths : at[p] # NoFile => at[p] \in Files /\ place[at[p]] \in {"watch", "released"}
  BY AtPlace DEF Shape
<1>2. ASSUME NEW g \in Files, Drop(g)
      PROVE  \/ place[f] = "new" /\ place'[f] = "watch"
             \/ place[f] \in {"watch", "released"} /\ place'[f] = "gone"
  <2>1. place[g] = "new" /\ PathOf[g] \in Paths  BY <1>0, <1>2 DEF Drop
  <2>2. /\ f = g => place'[f] = "watch"
        /\ f # g /\ f = at[PathOf[g]] => place'[f] = "gone"
        /\ f # g /\ f # at[PathOf[g]] => place'[f] = place[f]
    BY <1>2 DEF Drop
  <2>3. f # g => f = at[PathOf[g]]  BY <2>2
  <2>4. f # g => at[PathOf[g]] # NoFile  BY <1>0, <2>3
  <2> QED  BY <1>1, <2>1, <2>2, <2>3, <2>4
<1>3. ASSUME NEW p \in Paths, Delete(p)
      PROVE  place[f] \in {"watch", "released"} /\ place'[f] = "gone"
  BY <1>0, <1>1, <1>3 DEF Delete
<1>4. ASSUME NEW g \in Files, ApiRestore(g)
      PROVE  place[f] = "vault" /\ place'[f] = "elsewhere"
  BY <1>0, <1>4 DEF ApiRestore
<1>5. ASSUME NEW h \in Tasks, Takes(h) \/ Keep(h) \/ Mark(h) \/ Create(h)
      PROVE  \/ place[f] \in {"watch", "released"} /\ place'[f] = "gone"
             \/ place[f] = "vault" /\ place'[f] \in {"released", "elsewhere"}
             \/ /\ task[h].pc = "copied" /\ task'[h].pc # "copied" /\ task[h].job = f
                /\ place'[f] = "vault"
  <2>1. Admits(h) \/ Claims(h) \/ Copies(h) \/ Unlinks(h) \/ Marks(h) \/ Leaves(h)
    BY <1>5, TaskMoves DEF Shape
  <2>2. task[h].path \in Paths  BY DEF TypeOK
  <2>3. CASE Unlinks(h)
    <3>1. CASE f = task[h].job  BY <2>3, <3>1 DEF Unlinks, Moves
    <3>2. CASE f # task[h].job
      <4>1. f = at[task[h].path] /\ place'[f] = "gone"  BY <2>3, <3>2 DEF Unlinks
      <4> QED  BY <1>0, <1>1, <2>2, <4>1
    <3> QED  BY <3>1, <3>2
  <2>4. CASE Leaves(h)
    <3>1. /\ task[h].pc \in {"scanning", "marked"}
          /\ \/ place' = [place EXCEPT ![task[h].job] = "elsewhere"]
             \/ place' = [place EXCEPT ![task[h].job] = "released"]
      BY <2>4 DEF Leaves
    <3>2. task[h].job \in Files /\ place[task[h].job] = "vault"
      BY <3>1, JobFacts DEF Shape, TaskAgrees
    <3> QED  BY <1>0, <3>1, <3>2
  <2> QED  BY <2>1, <2>3, <2>4 DEF Admits, Claims, Copies, Marks
<1>6. CASE CrashRestart
  <2>1. PICK lost \in SUBSET Unrecorded :
            place' = [g \in Files |-> IF g \in lost THEN "gone" ELSE place[g]]
    BY <1>6 DEF CrashRestart
  <2>2. f \in Unrecorded /\ place'[f] = "gone"  BY <2>1
  <2>3. place[f] = "vault"  BY <2>2 DEF Unrecorded, Shape, TaskAgrees
  <2> QED  BY <2>2, <2>3 DEF FileLife
<1>7. CASE \E g \in Files : Drop(g) \/ ApiRestore(g)
  <2>1. PICK g \in Files : Drop(g) \/ ApiRestore(g)  BY <1>7
  <2>2. <<place[f], place'[f]>> \in FileLife  BY <1>2, <1>4, <2>1 DEF FileLife
  <2>3. ASSUME NEW h \in Tasks, task[h].pc = "copied", task[h].job = f
        PROVE  place'[f] = "gone"
    BY <1>2, <1>4, <2>1, <2>3 DEF CopiedStays
  <2> QED  BY <2>2, <2>3
<1>8. CASE \E p \in Paths : Delete(p)  BY <1>3, <1>8 DEF FileLife
<1>9. CASE \E h \in Tasks : Takes(h) \/ Keep(h) \/ Mark(h) \/ Create(h)
  <2>1. PICK h \in Tasks : Takes(h) \/ Keep(h) \/ Mark(h) \/ Create(h)  BY <1>9
  <2>2. CASE /\ task[h].pc = "copied" /\ task'[h].pc # "copied" /\ task[h].job = f
             /\ place'[f] = "vault"
    <3>1. place[f] \in {"watch", "released", "gone"}  BY <2>2 DEF CopiedStays
    <3>2. \A k \in Tasks : task[k].job = f => k = h
      BY <1>0, <2>2 DEF Shape, OneTaskPerJob
    <3> QED  BY <2>2, <3>1, <3>2 DEF FileLife
  <2>3. CASE place[f] \in {"watch", "released"} /\ place'[f] = "gone"
    BY <2>3 DEF FileLife
  <2>4. CASE place[f] = "vault" /\ place'[f] \in {"released", "elsewhere"}
    BY <2>4 DEF FileLife, CopiedStays
  <2> QED  BY <1>5, <2>1, <2>2, <2>3, <2>4
<1> QED
  BY <1>6, <1>7, <1>8, <1>9
     DEF Next, Consume, Flush, Expire, SetMode, TakeEvent, Stat, Lock

LEMMA CopiedStaysNext ==
    ASSUME TypeOK, Shape, CopiedStays, Next
    PROVE  CopiedStays'
<1> SUFFICES ASSUME NEW h \in Tasks, task'[h].pc = "copied"
             PROVE  place'[task'[h].job] \in {"watch", "released", "gone"}
  BY DEF CopiedStays
<1>1. CASE task[h].pc = "copied" /\ task'[h].job = task[h].job
  <2>1. task[h].job \in Files /\ place[task[h].job] \in {"watch", "released", "gone"}
    BY <1>1, JobFacts DEF CopiedStays
  <2> QED  BY <1>1, <2>1, FileStep
<1>2. CASE Copies(h)
  <2>1. /\ task'[h].job = at[task[h].path] /\ at[task[h].path] # NoFile /\ UNCHANGED place
        /\ task[h].path \in Paths
    BY <1>2 DEF Copies, TypeOK
  <2> QED  BY <2>1, AtPlace DEF Shape
<1>3. \/ task[h].pc = "copied" /\ task'[h].job = task[h].job
      \/ Copies(h)
  <2>1. ASSUME NEW k \in Tasks, Takes(k) \/ Keep(k) \/ Mark(k) \/ Create(k) 
        PROVE  (task[h].pc = "copied" /\ task'[h].job = task[h].job) \/ Copies(h)
    <3>1. /\ Admits(k) \/ Claims(k) \/ Copies(k) \/ Unlinks(k) \/ Marks(k) \/ Leaves(k)
          /\ \A j \in Tasks : j # k => task'[j] = task[j]
      BY <2>1, TaskMoves DEF Shape
    <3>2. CASE k # h  BY <3>1, <3>2
    <3>3. CASE k = h
      BY <3>1, <3>3, FreeTaskFacts
         DEF Admits, Claims, Unlinks, Marks, Leaves, Moves, Frees
    <3> QED  BY <3>2, <3>3
  <2>2. ASSUME NEW p \in Paths, Flush(p) PROVE task[h].pc = "copied" /\ task'[h].job = task[h].job
    BY <2>2, FlushSpawns DEF Flush
  <2>3. ASSUME NEW f \in Files, ApiRestore(f)
        PROVE  task[h].pc = "copied" /\ task'[h].job = task[h].job
    BY <2>3, ApiMarks DEF ApiRestore
  <2>4. CASE CrashRestart  BY <2>4, FreeTaskFacts DEF CrashRestart
  <2>5. CASE UNCHANGED task  BY <2>5
  <2> QED
    BY <2>1, <2>2, <2>3, <2>4, <2>5
       DEF Next, Consume, Drop, Delete, Expire, SetMode, TakeEvent, Stat, Lock
<1> QED  BY <1>1, <1>2, <1>3

LEMMA CopiedStaysHolds == Spec => [](TypeOK /\ Shape /\ CopiedStays)
<1>1. Init => CopiedStays  BY FreeTaskFacts DEF Init, CopiedStays
<1>2. TypeOK /\ Shape /\ CopiedStays /\ [Next]_vars => CopiedStays'
  <2> SUFFICES ASSUME TypeOK, Shape, CopiedStays, [Next]_vars PROVE CopiedStays'
    OBVIOUS
  <2>1. CASE Next  BY <2>1, CopiedStaysNext
  <2>2. CASE UNCHANGED vars  BY <2>2 DEF vars, CopiedStays
  <2> QED  BY <2>1, <2>2
<1> QED  BY <1>1, <1>2, ShapeHolds, PTL DEF Spec

\* Every file follows one course: the daemon takes it from the watch folder, puts it
\* back or elsewhere only out of the vault, and never touches again what it put under
\* another name.  Two ways are races that move_in leaves open, since it copies and
\* unlinks by path: a file the user has removed after the copy still enters the vault,
\* and one that another restore puts at a path already claimed is taken once more.
THEOREM FilesFollowTheirCourse == Spec => FileMoves
<1>1. TypeOK /\ Shape /\ CopiedStays /\ [Next]_vars
          => [\A f \in Files : place'[f] # place[f] => <<place[f], place'[f]>> \in FileLife]_vars
  <2> SUFFICES ASSUME TypeOK, Shape, CopiedStays, Next, NEW f \in Files, place'[f] # place[f]
               PROVE  <<place[f], place'[f]>> \in FileLife
    OBVIOUS
  <2> QED  BY FileStep
<1> QED  BY <1>1, CopiedStaysHolds, PTL DEF Spec, FileMoves
===============================================================================
