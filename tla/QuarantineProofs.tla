--------------------------- MODULE QuarantineProofs ---------------------------
(***************************************************************************)
(* Theorems about Quarantine, for any finite set of jobs, any set of       *)
(* requests, any configuration and any number of crashes.                  *)
(***************************************************************************)
EXTENDS Quarantine, TLAPS

\* A row is inserted well-typed ...
LEMMA FreshRows == NoRow \in Rows /\ SetStage(InsertReceived, "received") \in Rows
BY DEF Rows, NoRow, InsertReceived, SetStage, Update, Exists, Statuses, Active,
    Deletable, Stages, LocalVerdicts, VtVerdicts

\* ... and every statement of the job store takes rows to rows.
LEMMA RowsClosed ==
    ASSUME NEW r \in Rows
    PROVE  /\ SetInQuarantine(r) \in Rows
           /\ SetScanning(r) \in Rows
           /\ SetRestored(r) \in Rows
           /\ Fail(r) \in Rows
           /\ CancelJob(r) \in Rows
           /\ SetDeleted(r) \in Rows
           /\ \A s \in Stages : SetStage(r, s) \in Rows
           /\ \A v \in LocalVerdicts : SetPompelmiVerdict(r, v) \in Rows
           /\ \A v \in VtVerdicts : SetScanResult(r, v) \in Rows
<1> USE DEF Rows, Statuses, Active, Deletable, Update
<1>1. SetInQuarantine(r) \in Rows  BY DEF SetInQuarantine
<1>2. SetScanning(r) \in Rows  BY DEF SetScanning
<1>3. SetRestored(r) \in Rows  BY DEF SetRestored
<1>4. Fail(r) \in Rows  BY DEF Fail
<1>5. CancelJob(r) \in Rows  BY DEF CancelJob
<1>6. SetDeleted(r) \in Rows  BY DEF SetDeleted
<1>7. \A s \in Stages : SetStage(r, s) \in Rows  BY DEF SetStage
<1>8. \A v \in LocalVerdicts : SetPompelmiVerdict(r, v) \in Rows
  BY DEF SetPompelmiVerdict
<1>9. \A v \in VtVerdicts : SetScanResult(r, v) \in Rows  BY DEF SetScanResult
<1> QED  BY <1>1, <1>2, <1>3, <1>4, <1>5, <1>6, <1>7, <1>8, <1>9

\* A job moves to a phase of jobs, a request to a phase of requests.
LEMMA JobGoto ==
    ASSUME TypeOK, NEW j \in Jobs, NEW p \in JobPhases, pc' = [pc EXCEPT ![j] = p]
    PROVE  /\ pc' \in [Actors -> JobPhases \cup RequestPhases]
           /\ \A k \in Jobs : pc'[k] \in JobPhases
           /\ \A r \in Requests : pc'[r] \in RequestPhases
BY QuarantineAssumption DEF TypeOK, Actors, QuarantineAssumption

LEMMA RequestGoto ==
    ASSUME TypeOK, NEW r \in Requests, NEW p \in RequestPhases,
           pc' = [pc EXCEPT ![r] = p]
    PROVE  /\ pc' \in [Actors -> JobPhases \cup RequestPhases]
           /\ \A k \in Jobs : pc'[k] \in JobPhases
           /\ \A q \in Requests : pc'[q] \in RequestPhases
BY QuarantineAssumption DEF TypeOK, Actors, QuarantineAssumption

LEMMA TargetIsJob ==
    ASSUME TypeOK, NEW a \in Actors
    PROVE  Target(a) \in Jobs
BY DEF TypeOK, Actors, Target

-------------------------------------------------------------------------------
(* Type correctness.                                                        *)

LEMMA InitType == Init => TypeOK
BY FreshRows, QuarantineAssumption
   DEF QuarantineAssumption, Init, TypeOK, JobPhases, RequestPhases, UnsettledPhases, RestorePhases,
       Modes, Actors

\* The composite writes of the pipeline.
LEMMA RowWrites ==
    ASSUME NEW r \in Rows
    PROVE  /\ Fail(SetStage(r, "error")) \in Rows
           /\ CancelJob(SetStage(r, "done")) \in Rows
           /\ \A v \in VtVerdicts : Settled(r, v) \in Rows
           /\ \A u \in LocalVerdicts, v \in VtVerdicts :
                Settled(SetPompelmiVerdict(r, u), v) \in Rows
<1>1. "error" \in Stages /\ "done" \in Stages  BY DEF Stages
<1>2. \A v \in VtVerdicts, w \in Rows : Settled(w, v) \in Rows
  BY <1>1, RowsClosed DEF Settled
<1> QED  BY <1>1, <1>2, RowsClosed

\* The local scan ends with a row, and in a phase, of the right kind.
LEMMA EndLocalType ==
    ASSUME TypeOK, NEW j \in Jobs, NEW v \in LocalVerdicts, EndLocal(j, v)
    PROVE  /\ row' \in [Jobs -> Rows]
           /\ pc' \in [Actors -> JobPhases \cup RequestPhases]
           /\ \A k \in Jobs : pc'[k] \in JobPhases
           /\ \A r \in Requests : pc'[r] \in RequestPhases
           /\ ctl' \subseteq Jobs /\ localClean' \subseteq Jobs
<1> DEFINE scanned == SetPompelmiVerdict(row[j], v)
           verdict == IF v = "malicious" THEN "infected" ELSE "inconclusive"
<1>1. row[j] \in Rows /\ verdict \in VtVerdicts  BY DEF TypeOK, VtVerdicts
<1>2. scanned \in Rows /\ Settled(scanned, verdict) \in Rows
  BY <1>1, RowsClosed, RowWrites
<1> HIDE DEF scanned, verdict
<1>3. \/ row' = [row EXCEPT ![j] = scanned] /\ pc' = [pc EXCEPT ![j] = "precheck"]
      \/ row' = [row EXCEPT ![j] = Settled(scanned, verdict)]
           /\ pc' = [pc EXCEPT ![j] = "done"]
  BY DEF EndLocal, Write, Goto, scanned, verdict
<1>4. row' \in [Jobs -> Rows]  BY <1>2, <1>3 DEF TypeOK
<1>5. ctl' \subseteq Jobs /\ localClean' \subseteq Jobs
  BY DEF TypeOK, EndLocal, Deregister
<1>6. \E p \in {"precheck", "done"} : pc' = [pc EXCEPT ![j] = p]
  BY <1>3
<1>7. /\ pc' \in [Actors -> JobPhases \cup RequestPhases]
      /\ \A k \in Jobs : pc'[k] \in JobPhases
      /\ \A r \in Requests : pc'[r] \in RequestPhases
  BY <1>6, JobGoto DEF JobPhases, UnsettledPhases
<1> QED  BY <1>4, <1>5, <1>7

LEMMA PipelineType ==
    ASSUME TypeOK, NEW j \in Jobs, Pipeline(j)
    PROVE  TypeOK'
<1>1. row[j] \in Rows  BY DEF TypeOK
<1>2. /\ \A s \in Stages : SetStage(row[j], s) \in Rows
      /\ \A u \in LocalVerdicts : SetPompelmiVerdict(row[j], u) \in Rows
      /\ SetInQuarantine(row[j]) \in Rows /\ SetScanning(row[j]) \in Rows
      /\ Fail(SetStage(row[j], "error")) \in Rows
      /\ CancelJob(SetStage(row[j], "done")) \in Rows
      /\ \A v \in VtVerdicts : Settled(row[j], v) \in Rows
      /\ \A u \in LocalVerdicts, v \in VtVerdicts :
            Settled(SetPompelmiVerdict(row[j], u), v) \in Rows
  BY <1>1, RowsClosed, RowWrites
<1> USE <1>2, QuarantineAssumption, FreshRows
    DEF TypeOK, Actors, JobPhases, RequestPhases, UnsettledPhases, RestorePhases,
        Goto, Write, fixed, disk, tokens, pool, modes, seen, Stages,
        LocalVerdicts, VtVerdicts
<1>a. CASE Accept(j)  BY <1>a DEF Accept
<1>b. CASE Ignore(j)  BY <1>b DEF Ignore
<1>c. CASE CopyIn(j)
  <2>1. CASE Goto(j, "copied")  BY <1>c, <2>1 DEF CopyIn, Fails
  <2>2. CASE Fails(j)
    <3>1. quar' \in [Jobs -> {"none", "partial", "full"}]  BY <1>c DEF CopyIn
    <3>2. row' \in [Jobs -> Rows] /\ pc' = [pc EXCEPT ![j] = "done"]
      BY <2>2 DEF Fails
    <3>3. UNCHANGED <<fixed, todo, src, out, tokens, localClean, pool, cache,
                      modes, crashes, seen>>
      BY <1>c DEF CopyIn
    <3> QED  BY <3>1, <3>2, <3>3
  <2> QED  BY <1>c, <2>1, <2>2 DEF CopyIn
<1>d. CASE RemoveSource(j)
  <2>0. src' \in [Jobs -> BOOLEAN]  BY <1>d DEF RemoveSource
  <2>1. CASE Goto(j, "moved")
    <3>1. UNCHANGED row  BY <1>d, <2>1 DEF RemoveSource, Fails
    <3> QED  BY <1>d, <2>0, <2>1, <3>1 DEF RemoveSource
  <2>2. CASE Fails(j)  BY <1>d, <2>0, <2>2 DEF RemoveSource, Fails
  <2> QED  BY <1>d, <2>1, <2>2 DEF RemoveSource
<1>e. CASE RecordQuarantine(j)  BY <1>e DEF RecordQuarantine
<1>f. CASE Dispatch(j)  BY <1>f DEF Dispatch
<1>g. CASE BeginLocal(j)  BY <1>g DEF BeginLocal, Register
<1>h. CASE LocalAnswers(j)
  <2>1. PICK v \in LocalVerdicts :
            /\ EndLocal(j, v)
            /\ vouched' = IF v = "clean" THEN vouched \cup {Content[j]} ELSE vouched
    BY <1>h DEF LocalAnswers
  <2>2. Content[j] \in Contents  BY DEF QuarantineAssumption
  <2>3. vouched' \subseteq Contents  BY <2>1, <2>2
  <2>4. /\ row' \in [Jobs -> Rows]
        /\ pc' \in [Actors -> JobPhases \cup RequestPhases]
        /\ \A k \in Jobs : pc'[k] \in JobPhases
        /\ \A r \in Requests : pc'[r] \in RequestPhases
        /\ ctl' \subseteq Jobs /\ localClean' \subseteq Jobs
    BY <2>1, EndLocalType
  <2>5. UNCHANGED <<fixed, todo, disk, pool, cache, modes, crashes, tripped,
                    disposed, aborted>>
    BY <1>h, <2>1 DEF LocalAnswers, EndLocal
  <2> QED  BY <2>3, <2>4, <2>5
<1>i. CASE LocalCancelled(j)
  BY <1>i, EndLocalType DEF LocalCancelled, EndLocal
<1>j. CASE KeptBeforeVt(j)  BY <1>j DEF KeptBeforeVt, Idle
<1>k. CASE Unreadable(j)  BY <1>k DEF Unreadable, Fails, Idle
<1>l. CASE CacheHit(j)  BY <1>l DEF CacheHit, Idle
<1>m. CASE CacheMiss(j)  BY <1>m DEF CacheMiss, Register, Idle
<1>n. CASE AcquirePermit(j)  BY <1>n DEF AcquirePermit, CanAcquire, IncScan
<1>o. CASE VtAnswers(j)
  <2>1. cache' = cache \/ \E v \in {"clean", "infected"} : cache' = [cache EXCEPT ![Content[j]] = v]
    BY <1>o DEF VtAnswers, CacheStore
  <2>2. cache' \in [Contents -> {"none", "clean", "infected"}]  BY <2>1
  <2>3. vouched' \subseteq Contents /\ row' \in [Jobs -> Rows]
    BY <1>o DEF VtAnswers, ReleasePermit, DecScan, Deregister
  <2>4. \E p \in {"create", "done"} : pc' = [pc EXCEPT ![j] = p]  BY <1>o DEF VtAnswers
  <2>5. ctl' \subseteq Jobs /\ tripped' \subseteq Jobs /\ free' \in Nat /\ activeScans' \in Nat
    BY <1>o DEF VtAnswers, ReleasePermit, DecScan, Deregister
  <2>6. UNCHANGED <<fixed, todo, disk, localClean, modes, crashes, disposed, aborted>>
    BY <1>o DEF VtAnswers
  <2> QED  BY <2>2, <2>3, <2>4, <2>5, <2>6
<1>p. CASE VtCancelled(j)  BY <1>p DEF VtCancelled, ReleasePermit, DecScan, Deregister
<1> QED
  BY <1>a, <1>b, <1>c, <1>d, <1>e, <1>f, <1>g, <1>h, <1>i, <1>j, <1>k, <1>l,
     <1>m, <1>n, <1>o, <1>p DEF Pipeline, Proceeds

\* Whoever restores moves on as its kind of actor does.
LEMMA ActorGoto ==
    ASSUME TypeOK, NEW a \in Actors, NEW p \in RestorePhases \cup {"done"},
           pc' = [pc EXCEPT ![a] = p]
    PROVE  /\ pc' \in [Actors -> JobPhases \cup RequestPhases]
           /\ \A k \in Jobs : pc'[k] \in JobPhases
           /\ \A r \in Requests : pc'[r] \in RequestPhases
BY JobGoto, RequestGoto DEF Actors, JobPhases, RequestPhases

LEMMA RestoresType ==
    ASSUME TypeOK, NEW a \in Actors, Restores(a)
    PROVE  TypeOK'
<1>1. Target(a) \in Jobs /\ row[Target(a)] \in Rows  BY TargetIsJob DEF TypeOK
<1>2. /\ SetRestored(row[Target(a)]) \in Rows
      /\ Fail(SetStage(row[Target(a)], "error")) \in Rows
  BY <1>1, RowsClosed, RowWrites
<1>3. UNCHANGED <<fixed, todo, src, tokens, localClean, pool, cache, modes, crashes, seen>>
  BY DEF Restores, RestoreCreate, RestoreCopy, RestoreUnlink, RestoreCommit, RestoreFrame
<1>4. \E p \in RestorePhases \cup {"done"} : pc' = [pc EXCEPT ![a] = p]
  BY DEF Restores, RestoreCreate, RestoreCopy, RestoreUnlink, RestoreCommit,
         RestoreFails, Fails, Goto, RestorePhases
<1>5. /\ pc' \in [Actors -> JobPhases \cup RequestPhases]
      /\ \A k \in Jobs : pc'[k] \in JobPhases
      /\ \A r \in Requests : pc'[r] \in RequestPhases
  BY <1>4, ActorGoto
<1>6. out' \in [Actors -> {"none", "stub", "copy", "ready"}]
  BY DEF TypeOK, Restores, RestoreCreate, RestoreCopy, RestoreUnlink, RestoreCommit
<1>7. quar' \in [Jobs -> {"none", "partial", "full"}]
  BY <1>1 DEF TypeOK, Restores, RestoreCreate, RestoreCopy, RestoreUnlink, RestoreCommit
<1>8. \/ UNCHANGED row
      \/ row' = [row EXCEPT ![Target(a)] = SetRestored(row[Target(a)])]
      \/ row' = [row EXCEPT ![Target(a)] = Fail(SetStage(row[Target(a)], "error"))]
  BY DEF Restores, RestoreCreate, RestoreCopy, RestoreUnlink, RestoreCommit,
         RestoreFails, Fails, Write, Target
<1>9. row' \in [Jobs -> Rows]  BY <1>1, <1>2, <1>8 DEF TypeOK
<1> QED
  BY <1>3, <1>5, <1>6, <1>7, <1>9
     DEF TypeOK, fixed, tokens, pool, modes, seen

\* Only a mode request reaches the last steps of set_mode.
ModeRequests ==
    \A r \in Requests : pc[r] \in {"m_cancel", "m_persist"} => task[r].op \in Modes

LEMMA ServeType ==
    ASSUME TypeOK, ModeRequests, NEW r \in Requests, Serve(r)
    PROVE  TypeOK'
<1> DEFINE j == Target(r)
<1>1. r \in Actors /\ j \in Jobs /\ row[j] \in Rows
  BY TargetIsJob DEF TypeOK, Actors
<1>2. SetDeleted(row[j]) \in Rows /\ NoRow \in Rows  BY <1>1, RowsClosed, FreshRows
<1>3. task[r].op \in AllOps  BY DEF TypeOK
<1> HIDE DEF j
<1>4. UNCHANGED <<fixed, src, out, localClean, pool, cache, crashes, vouched, aborted>>
  BY DEF Serve, RestoreRequest, SweepList, DeleteRead, DeleteUnlink, DeleteCommit,
         ClearAll, ClearUnlink, ClearReturns, Cancel, ModeSwap, ModeCancels,
         ModePersists, Abandon, ApiFrame
<1>5. UNCHANGED pc \/ \E p \in RequestPhases : pc' = [pc EXCEPT ![r] = p]
  BY DEF Serve, RestoreRequest, SweepList, DeleteRead, DeleteUnlink, DeleteCommit,
         ClearAll, ClearUnlink, ClearReturns, Cancel, ModeSwap, ModeCancels,
         ModePersists, Abandon, Goto, RequestPhases, RestorePhases
<1>6. /\ pc' \in [Actors -> JobPhases \cup RequestPhases]
      /\ \A k \in Jobs : pc'[k] \in JobPhases
      /\ \A q \in Requests : pc'[q] \in RequestPhases
  BY <1>5, RequestGoto DEF TypeOK
<1>7. quar' \in [Jobs -> {"none", "partial", "full"}] /\ disposed' \subseteq Jobs
  BY <1>1 DEF TypeOK, Serve, RestoreRequest, SweepList, DeleteRead, DeleteUnlink, DeleteCommit,
         ClearAll, ClearUnlink, ClearReturns, Cancel, ModeSwap, ModeCancels,
         ModePersists, Abandon, Discard, j
<1>8. row' \in [Jobs -> Rows]
  BY <1>1, <1>2 DEF TypeOK, Serve, RestoreRequest, SweepList, DeleteRead, DeleteUnlink,
         DeleteCommit, ClearAll, ClearUnlink, ClearReturns, Cancel, ModeSwap,
         ModeCancels, ModePersists, Abandon, Write, j
<1>9. todo' \in [Requests -> SUBSET Jobs]
  BY DEF TypeOK, Serve, RestoreRequest, SweepList, DeleteRead, DeleteUnlink, DeleteCommit,
         ClearAll, ClearUnlink, ClearReturns, Cancel, ModeSwap, ModeCancels,
         ModePersists, Abandon
<1>10. ctl' \subseteq Jobs /\ tripped' \subseteq Jobs
  BY <1>1 DEF TypeOK, Serve, RestoreRequest, SweepList, DeleteRead, DeleteUnlink, DeleteCommit,
         ClearAll, ClearUnlink, ClearReturns, Cancel, ModeSwap, ModeCancels,
         ModePersists, Abandon, tokens, j
<1>11. mode' \in Modes /\ saved' \in Modes
  <2>1. CASE ModeSwap(r)  BY <2>1 DEF ModeSwap, Pending, TypeOK
  <2>2. CASE ModePersists(r)
    <3>1. task[r].op \in Modes  BY <2>2 DEF ModeRequests, ModePersists
    <3> QED  BY <2>2, <3>1 DEF ModePersists, TypeOK
  <2> QED
    BY <2>1, <2>2 DEF TypeOK, Serve, RestoreRequest, SweepList, DeleteRead, DeleteUnlink,
         DeleteCommit, ClearAll, ClearUnlink, ClearReturns, Cancel, 
         ModeCancels, Abandon, modes
<1> QED
  BY <1>4, <1>6, <1>7, <1>8, <1>9, <1>10, <1>11 DEF TypeOK, fixed, pool

LEMMA CrashType ==
    ASSUME TypeOK, CrashRestart
    PROVE  TypeOK'
<1>1. /\ pc' \in [Actors -> JobPhases \cup RequestPhases]
      /\ \A k \in Jobs : pc'[k] \in JobPhases
      /\ \A q \in Requests : pc'[q] \in RequestPhases
  BY QuarantineAssumption
     DEF QuarantineAssumption, TypeOK, CrashRestart, Restarted, Actors, JobPhases,
         RequestPhases, UnsettledPhases, RestorePhases
<1>2. /\ quar' \in [Jobs -> {"none", "partial", "full"}]
      /\ todo' \in [Requests -> SUBSET Jobs]
  BY DEF TypeOK, CrashRestart
<1>3. /\ free' \in Nat /\ activeScans' \in Nat /\ crashes' \in 0..MaxCrashes
      /\ ctl' = {} /\ tripped' = {} /\ localClean' = {} /\ mode' \in Modes
  BY QuarantineAssumption DEF QuarantineAssumption, TypeOK, CrashRestart
<1>4. UNCHANGED <<fixed, src, out, row, cache, saved, seen>>
  BY DEF CrashRestart
<1> QED  BY <1>1, <1>2, <1>3, <1>4 DEF TypeOK, fixed, seen

LEMMA PipelineGoto ==
    ASSUME NEW j \in Jobs, Pipeline(j)
    PROVE  UNCHANGED task /\ \E p \in JobPhases : pc' = [pc EXCEPT ![j] = p]
BY DEF Pipeline, Proceeds, Accept, Ignore, CopyIn, RemoveSource, RecordQuarantine,
       Dispatch, BeginLocal, LocalAnswers, LocalCancelled, EndLocal, KeptBeforeVt,
       Unreadable, CacheHit, CacheMiss, AcquirePermit, VtAnswers, VtCancelled,
       Fails, Idle, Goto, fixed, JobPhases, UnsettledPhases, RestorePhases

LEMMA ModeRequestsStep ==
    ASSUME TypeOK, ModeRequests, [Next]_vars
    PROVE  ModeRequests'
<1>1. ASSUME NEW j \in Jobs, Pipeline(j) PROVE ModeRequests'
  <2>1. \A r \in Requests : r # j /\ r \in Actors
    BY QuarantineAssumption DEF QuarantineAssumption, Actors
  <2> QED  BY <1>1, <2>1, PipelineGoto DEF ModeRequests, TypeOK
<1>2. ASSUME NEW a \in Actors, Restores(a) PROVE ModeRequests'
  <2>1. UNCHANGED task /\ \E p \in RestorePhases \cup {"done"} : pc' = [pc EXCEPT ![a] = p]
    BY <1>2 DEF Restores, RestoreCreate, RestoreCopy, RestoreUnlink, RestoreCommit,
         RestoreFails, RestoreFrame, Fails, Goto, RestorePhases, fixed
  <2> QED  BY <2>1 DEF ModeRequests, TypeOK, Actors, RestorePhases
<1>3. ASSUME NEW q \in Requests, Serve(q) PROVE ModeRequests'
  <2>1. UNCHANGED task
    BY <1>3 DEF Serve, RestoreRequest, SweepList, DeleteRead, DeleteUnlink,
         DeleteCommit, ClearAll, ClearUnlink, ClearReturns, Cancel, ModeSwap,
         ModeCancels, ModePersists, Abandon, ApiFrame, fixed
  <2>2. \/ UNCHANGED pc
        \/ \E p \in RequestPhases \ {"m_cancel", "m_persist"} : pc' = [pc EXCEPT ![q] = p]
        \/ task[q].op \in Modes /\ \E p \in RequestPhases : pc' = [pc EXCEPT ![q] = p]
    BY <1>3 DEF ModeRequests, Serve, RestoreRequest, SweepList, DeleteRead, DeleteUnlink,
         DeleteCommit, ClearAll, ClearUnlink, ClearReturns, Cancel, ModeSwap,
         ModeCancels, ModePersists, Abandon, Pending, Goto, RequestPhases, RestorePhases
  <2> QED  BY <2>1, <2>2 DEF ModeRequests, TypeOK, Actors
<1>4. CASE CrashRestart
  BY <1>4 DEF CrashRestart, Restarted, fixed, ModeRequests, Actors
<1>5. CASE UNCHANGED vars  BY <1>5 DEF vars, fixed, ModeRequests
<1> QED  BY <1>1, <1>2, <1>3, <1>4, <1>5 DEF Next

\* Type correctness of the whole system: every row, file, token and phase of
\* the pipeline and of the API stays in its range, over crashes and restarts.
THEOREM TypeCorrect == Spec => []TypeOK
<1> DEFINE TypeInv == TypeOK /\ ModeRequests
<1>1. Init => TypeInv
  BY InitType DEF Init, ModeRequests, Actors
<1>2. TypeInv /\ [Next]_vars => TypeInv'
  <2> SUFFICES ASSUME TypeOK, ModeRequests, [Next]_vars PROVE TypeOK'
    BY ModeRequestsStep
  <2>1. CASE UNCHANGED vars
    BY <2>1 DEF vars, fixed, disk, tokens, pool, modes, seen, TypeOK
  <2> QED  BY <2>1, PipelineType, RestoresType, ServeType, CrashType DEF Next
<1> QED  BY <1>1, <1>2, PTL DEF Spec

-------------------------------------------------------------------------------
(* Containment.  ReleaseIsVouched speaks of files in the watch folder; what *)
(* makes it inductive is where the permission to release comes from: a row, *)
(* the local_clean flag, the cache, or an actor already past its gate.      *)

Clean(r) == r.vt = "clean" \/ r.local = "clean"

Warranted(j) == Content[j] \in vouched

RowsWarranted == \A j \in Jobs : Clean(row[j]) \/ j \in localClean => Warranted(j)

CacheWarranted == \A c \in Contents : cache[c] = "clean" => c \in vouched

ReleasesWarranted ==
    \A a \in Actors : pc[a] \in RestorePhases \/ out[a] # "none" =>
        Forced(a) \/ Warranted(Target(a))

ContainmentInv == RowsWarranted /\ CacheWarranted /\ ReleasesWarranted

\* No write makes a row clean unless it writes a clean verdict.
LEMMA CleanWrites ==
    ASSUME NEW r \in Rows
    PROVE  /\ Clean(SetInQuarantine(r)) => Clean(r)
           /\ Clean(SetScanning(r)) => Clean(r)
           /\ Clean(SetRestored(r)) => Clean(r)
           /\ Clean(SetDeleted(r)) => Clean(r)
           /\ Clean(Fail(SetStage(r, "error"))) => Clean(r)
           /\ Clean(CancelJob(SetStage(r, "done"))) => Clean(r)
           /\ \A s \in Stages : Clean(SetStage(r, s)) => Clean(r)
           /\ \A u \in LocalVerdicts :
                Clean(SetPompelmiVerdict(r, u)) => Clean(r) \/ u = "clean"
           /\ \A v \in VtVerdicts : Clean(Settled(r, v)) => Clean(r) \/ v = "clean"
<1> USE DEF Clean, Rows, Update
<1>1. Clean(SetInQuarantine(r)) => Clean(r)  BY DEF SetInQuarantine
<1>2. Clean(SetScanning(r)) => Clean(r)  BY DEF SetScanning
<1>3. Clean(SetRestored(r)) => Clean(r)  BY DEF SetRestored
<1>4. Clean(SetDeleted(r)) => Clean(r)  BY DEF SetDeleted
<1>5. Clean(Fail(SetStage(r, "error"))) => Clean(r)  BY DEF Fail, SetStage
<1>6. Clean(CancelJob(SetStage(r, "done"))) => Clean(r)  BY DEF CancelJob, SetStage
<1>7. \A s \in Stages : Clean(SetStage(r, s)) => Clean(r)  BY DEF SetStage
<1>8. \A u \in LocalVerdicts :
        Clean(SetPompelmiVerdict(r, u)) => Clean(r) \/ u = "clean"
  BY DEF SetPompelmiVerdict
<1>9. \A v \in VtVerdicts : Clean(Settled(r, v)) => Clean(r) \/ v = "clean"
  BY DEF Settled, SetScanResult, SetStage
<1> QED  BY <1>1, <1>2, <1>3, <1>4, <1>5, <1>6, <1>7, <1>8, <1>9

LEMMA FreshRowsNotClean == ~Clean(NoRow) /\ ~Clean(SetStage(InsertReceived, "received"))
BY DEF Clean, NoRow, SetStage, InsertReceived, Update, Exists

\* Every step of a pipeline that answers "clean" records the content.
LEMMA PipelineContainment ==
    ASSUME TypeOK, ContainmentInv, NEW j \in Jobs, Pipeline(j)
    PROVE  ContainmentInv'
<1>1. row[j] \in Rows /\ j \in Actors /\ Target(j) = j
  BY DEF TypeOK, Actors, Target
<1>2. UNCHANGED <<out, task>> /\ vouched \subseteq vouched'
  BY DEF Pipeline, Proceeds, Accept, Ignore, CopyIn, RemoveSource, RecordQuarantine,
       Dispatch, BeginLocal, LocalAnswers, LocalCancelled, EndLocal, KeptBeforeVt,
       Unreadable, CacheHit, CacheMiss, AcquirePermit, VtAnswers, VtCancelled,
       Fails, Idle, disk, seen, fixed
<1>3. UNCHANGED row \/ \E w : row' = [row EXCEPT ![j] = w] /\ (Clean(w) => Clean(row[j]) \/ Warranted(j)')
  <2> USE <1>1, CleanWrites, FreshRowsNotClean DEF Write
  <2>a. CASE Accept(j)  BY <2>a DEF Accept
  <2>b. CASE Ignore(j)  BY <2>b DEF Ignore
  <2>c. CASE CopyIn(j)  BY <2>c DEF CopyIn, Fails
  <2>d. CASE RemoveSource(j)  BY <2>d DEF RemoveSource, Fails
  <2>e. CASE RecordQuarantine(j)  BY <2>e DEF RecordQuarantine
  <2>f. CASE Dispatch(j)  BY <2>f DEF Dispatch, VtVerdicts
  <2>g. CASE BeginLocal(j)  BY <2>g DEF BeginLocal, Stages
  <2>h. CASE LocalAnswers(j) \/ LocalCancelled(j)
    <3>1. PICK v \in LocalVerdicts : EndLocal(j, v) /\ (v = "clean" => Warranted(j)')
      BY <2>h DEF LocalAnswers, LocalCancelled, LocalVerdicts, Warranted
    <3> DEFINE w == SetPompelmiVerdict(row[j], v)
               verdict == IF v = "malicious" THEN "infected" ELSE "inconclusive"
    <3>2. w \in Rows /\ (Clean(w) => Clean(row[j]) \/ v = "clean")
      BY RowsClosed
    <3>3. Clean(Settled(w, verdict)) => Clean(w)
      BY <3>2, CleanWrites DEF VtVerdicts
    <3>4. row' = [row EXCEPT ![j] = w] \/ row' = [row EXCEPT ![j] = Settled(w, verdict)]
      BY <3>1 DEF EndLocal
    <3> HIDE DEF w, verdict
    <3> QED  BY <3>1, <3>2, <3>3, <3>4
  <2>j. CASE KeptBeforeVt(j)  BY <2>j DEF KeptBeforeVt, VtVerdicts
  <2>k. CASE Unreadable(j)  BY <2>k DEF Unreadable, Fails
  <2>l. CASE CacheHit(j)
    <3>1. Content[j] \in Contents  BY QuarantineAssumption DEF QuarantineAssumption
    <3>2. cache[Content[j]] \in {"clean", "infected"}
      BY <2>l, <3>1 DEF CacheHit, TypeOK
    <3>3. cache[Content[j]] = "clean" => Warranted(j)'
      BY <1>2, <3>1 DEF ContainmentInv, CacheWarranted, Warranted
    <3> QED  BY <2>l, <3>2, <3>3 DEF CacheHit, VtVerdicts
  <2>m. CASE CacheMiss(j)  BY <2>m DEF CacheMiss, Stages
  <2>n. CASE AcquirePermit(j)  BY <2>n DEF AcquirePermit, Stages
  <2>o. CASE VtAnswers(j)
    <3>1. PICK v \in VtVerdicts : Write(j, Settled(row[j], v))
                /\ vouched' = IF v = "clean" THEN vouched \cup {Content[j]} ELSE vouched
      BY <2>o DEF VtAnswers
    <3>2. v = "clean" => Warranted(j)'  BY <3>1 DEF Warranted
    <3> QED  BY <3>1, <3>2
  <2>p. CASE VtCancelled(j)  BY <2>p DEF VtCancelled
  <2> QED
    BY <2>a, <2>b, <2>c, <2>d, <2>e, <2>f, <2>g, <2>h, <2>j, <2>k, <2>l, <2>m,
       <2>n, <2>o, <2>p DEF Pipeline, Proceeds
<1>4. localClean' = localClean \/ (localClean' = localClean \cup {j} /\ Warranted(j)')
  BY DEF Pipeline, Proceeds, Accept, Ignore, CopyIn, RemoveSource, RecordQuarantine,
       Dispatch, BeginLocal, LocalAnswers, LocalCancelled, EndLocal, KeptBeforeVt,
       Unreadable, CacheHit, CacheMiss, AcquirePermit, VtAnswers, VtCancelled,
       Idle, Warranted
<1>5. RowsWarranted'
  BY <1>2, <1>3, <1>4 DEF ContainmentInv, RowsWarranted, Warranted, TypeOK
<1>6. CacheWarranted'
  <2>1. CASE VtAnswers(j)
    <3>1. PICK v \in VtVerdicts :
            /\ cache' = cache \/ cache' = [cache EXCEPT ![Content[j]] = v]
            /\ v = "clean" => Content[j] \in vouched'
      BY <2>1 DEF VtAnswers, CacheStore
    <3> QED  BY <3>1, <1>2 DEF ContainmentInv, CacheWarranted, TypeOK
  <2>2. CASE UNCHANGED cache  BY <2>2, <1>2 DEF ContainmentInv, CacheWarranted
  <2> QED
    BY <2>1, <2>2 DEF Pipeline, Proceeds, Accept, Ignore, CopyIn, RemoveSource,
       RecordQuarantine, Dispatch, BeginLocal, LocalAnswers, LocalCancelled, EndLocal,
       KeptBeforeVt, Unreadable, CacheHit, CacheMiss, AcquirePermit, VtCancelled, Idle
<1>7. ReleasesWarranted'
  <2>1. \E p \in JobPhases : pc' = [pc EXCEPT ![j] = p] /\ (p \in RestorePhases => Warranted(j)')
    <3>1. CASE CacheHit(j)
      <4>1. Content[j] \in Contents  BY QuarantineAssumption DEF QuarantineAssumption
      <4>2. cache[Content[j]] = "clean" => Warranted(j)'
        BY <4>1, <1>2 DEF ContainmentInv, CacheWarranted, Warranted
      <4>3. pc' = [pc EXCEPT ![j] = IF cache[Content[j]] = "clean" THEN "create" ELSE "done"]
        BY <3>1 DEF CacheHit, Goto
      <4>4. /\ "create" \in JobPhases
            /\ "done" \in JobPhases /\ "done" \notin RestorePhases
        BY DEF JobPhases, RestorePhases
      <4>5. CASE cache[Content[j]] = "clean"
        <5>1. pc' = [pc EXCEPT ![j] = "create"]  BY <4>3, <4>5
        <5> QED  BY <4>2, <4>4, <4>5, <5>1
      <4>6. CASE cache[Content[j]] # "clean"
        <5>1. pc' = [pc EXCEPT ![j] = "done"]  BY <4>3, <4>6
        <5> QED  BY <4>4, <5>1
      <4> QED  BY <4>5, <4>6
    <3>2. CASE VtAnswers(j)
      <4>1. j \in localClean => Warranted(j)'
        BY <1>2 DEF ContainmentInv, RowsWarranted, Warranted
      <4> QED
        BY <3>2, <4>1 DEF VtAnswers, RestoreDecision, Goto, Warranted, JobPhases, RestorePhases
    <3> QED
      BY <3>1, <3>2 DEF Pipeline, Proceeds, Accept, Ignore, CopyIn, RemoveSource,
         RecordQuarantine, Dispatch, BeginLocal, LocalAnswers, LocalCancelled, EndLocal,
         KeptBeforeVt, Unreadable, CacheMiss, AcquirePermit, VtCancelled, Fails, Goto,
         JobPhases, UnsettledPhases, RestorePhases
  <2> QED
    BY <2>1, <1>1, <1>2 DEF ContainmentInv, ReleasesWarranted, Warranted, Forced, Target, TypeOK
<1> QED  BY <1>5, <1>6, <1>7 DEF ContainmentInv

LEMMA RestoresContainment ==
    ASSUME TypeOK, ContainmentInv, NEW a \in Actors, Restores(a)
    PROVE  ContainmentInv'
<1> DEFINE j == Target(a)
<1>1. j \in Jobs /\ row[j] \in Rows  BY TargetIsJob DEF TypeOK
<1>2. UNCHANGED <<task, localClean, cache, vouched>>
  BY DEF Restores, RestoreCreate, RestoreCopy, RestoreUnlink, RestoreCommit,
         RestoreFrame, fixed, seen
<1>3. UNCHANGED row \/ \E w : row' = [row EXCEPT ![j] = w] /\ (Clean(w) => Clean(row[j]))
  <2>1. \/ UNCHANGED row
        \/ row' = [row EXCEPT ![j] = SetRestored(row[j])]
        \/ row' = [row EXCEPT ![j] = Fail(SetStage(row[j], "error"))]
    BY DEF Restores, RestoreCreate, RestoreCopy, RestoreUnlink, RestoreCommit,
           RestoreFails, Fails, Write, Target
  <2> HIDE DEF j
  <2> QED  BY <1>1, <2>1, CleanWrites
<1>4. pc[a] \in RestorePhases /\ \E p : pc' = [pc EXCEPT ![a] = p]
  BY DEF Restores, RestoreCreate, RestoreCopy, RestoreUnlink, RestoreCommit,
         RestoreFails, Fails, Goto, RestorePhases
<1>5. out' = out \/ \E o : out' = [out EXCEPT ![a] = o]
  BY DEF Restores, RestoreCreate, RestoreCopy, RestoreUnlink, RestoreCommit
<1>6. \A b \in Actors : Target(b)' = Target(b) /\ Forced(b)' = Forced(b)
  BY <1>2 DEF Target, Forced
<1> HIDE DEF j
<1>7. RowsWarranted'
  BY <1>1, <1>2, <1>3 DEF ContainmentInv, RowsWarranted, Warranted, TypeOK
<1>8. CacheWarranted'  BY <1>2 DEF ContainmentInv, CacheWarranted
<1>9. ReleasesWarranted'
  BY <1>2, <1>4, <1>5, <1>6 DEF ContainmentInv, ReleasesWarranted, Warranted, TypeOK
<1> QED  BY <1>7, <1>8, <1>9 DEF ContainmentInv

LEMMA ServeContainment ==
    ASSUME TypeOK, ContainmentInv, NEW r \in Requests, Serve(r)
    PROVE  ContainmentInv'
<1> DEFINE j == Target(r)
<1>1. r \in Actors /\ j \in Jobs /\ row[j] \in Rows
  BY TargetIsJob DEF TypeOK, Actors
<1>2. UNCHANGED <<task, localClean, cache, vouched>> /\ UNCHANGED out
  BY DEF Serve, RestoreRequest, SweepList, DeleteRead, DeleteUnlink, DeleteCommit,
         ClearAll, ClearUnlink, ClearReturns, Cancel, ModeSwap, ModeCancels,
         ModePersists, Abandon, ApiFrame, fixed
<1>3. \A k \in Jobs : Clean(row'[k]) => Clean(row[k])
  <2>1. CASE DeleteCommit(r)
    <3>1. row' = [row EXCEPT ![j] = SetDeleted(row[j])]
      BY <2>1 DEF DeleteCommit, Write
    <3> HIDE DEF j
    <3> QED  BY <1>1, <3>1, CleanWrites DEF TypeOK
  <2>2. CASE ClearAll(r)
    <3>1. \A k \in Jobs : row'[k] = row[k] \/ row'[k] = NoRow
      BY <2>2 DEF ClearAll
    <3> QED  BY <3>1, FreshRowsNotClean
  <2>3. CASE UNCHANGED row  BY <2>3
  <2> QED
    BY <2>1, <2>2, <2>3 DEF Serve, RestoreRequest, SweepList, DeleteRead, DeleteUnlink,
       ClearUnlink, ClearReturns, Cancel, ModeSwap, ModeCancels, ModePersists, Abandon
<1>4. \/ UNCHANGED pc
      \/ \E p : /\ pc' = [pc EXCEPT ![r] = p]
                /\ p \in RestorePhases => Forced(r) \/ Clean(row[j])
  <2>1. CASE RestoreRequest(r)
    <3> DEFINE granted == /\ row[j].status = "quarantine_kept" /\ row[j].path
                          /\ task[r].op = "force" \/ VerifiedClean(row[j])
    <3>1. CASE granted
      BY <2>1, <3>1 DEF RestoreRequest, VerifiedClean, Clean, Forced, Goto
    <3>2. CASE ~granted
      <4>1. pc' = [pc EXCEPT ![r] = "done"]  BY <2>1, <3>2 DEF RestoreRequest, Goto
      <4>2. "done" \notin RestorePhases  BY DEF RestorePhases
      <4> QED  BY <4>1, <4>2
    <3> QED  BY <3>1, <3>2
  <2> QED
    <3>1. CASE UNCHANGED pc  BY <3>1
    <3>2. CASE \E p \in RequestPhases \ RestorePhases : Goto(r, p)
      BY <3>2 DEF Goto
    <3> QED
      BY <2>1, <3>1, <3>2 DEF Serve, SweepList, DeleteRead, DeleteUnlink, DeleteCommit,
         ClearAll, ClearUnlink, ClearReturns, Cancel, ModeSwap, ModeCancels,
         ModePersists, Abandon, Goto, RequestPhases, RestorePhases
<1>5. \A b \in Actors : Target(b)' = Target(b) /\ Forced(b)' = Forced(b)
  BY <1>2 DEF Target, Forced
<1>6. Clean(row[j]) => Warranted(j)  BY <1>1 DEF ContainmentInv, RowsWarranted
<1>7. RowsWarranted'  BY <1>2, <1>3 DEF ContainmentInv, RowsWarranted, Warranted
<1>8. CacheWarranted'  BY <1>2 DEF ContainmentInv, CacheWarranted
<1>9. ReleasesWarranted'
  BY <1>1, <1>2, <1>4, <1>5, <1>6 DEF ContainmentInv, ReleasesWarranted, Warranted, TypeOK
<1> QED  BY <1>7, <1>8, <1>9 DEF ContainmentInv

LEMMA ContainmentStep ==
    ASSUME TypeOK, ContainmentInv, [Next]_vars
    PROVE  ContainmentInv'
<1>1. CASE CrashRestart
  <2>1. /\ UNCHANGED <<task, out, row, cache, vouched>> /\ localClean' = {}
        /\ \A a \in Actors : pc'[a] \in RestorePhases => pc[a] \in RestorePhases
    BY <1>1 DEF CrashRestart, Restarted, RestorePhases, JobPhases, fixed, seen
  <2> QED
    BY <2>1 DEF ContainmentInv, RowsWarranted, CacheWarranted, ReleasesWarranted,
       Warranted, Forced, Target
<1>2. CASE UNCHANGED vars
  BY <1>2 DEF vars, fixed, disk, seen, ContainmentInv, RowsWarranted, CacheWarranted,
     ReleasesWarranted, Warranted, Forced, Target
<1> QED
  BY <1>1, <1>2, PipelineContainment, RestoresContainment, ServeContainment DEF Next

\* Containment: whatever is put back into the watch folder, by the pipeline, by
\* a cached verdict or by a request, and across crashes, was vouched for by some
\* engine or forced by the user (watcher.rs restore_decision, ui_server.rs
\* restore_quarantine_job).
THEOREM Containment == Spec => []ReleaseIsVouched
<1>1. Init => ContainmentInv
  BY FreshRowsNotClean
     DEF Init, ContainmentInv, RowsWarranted, CacheWarranted, ReleasesWarranted,
         RestorePhases
<1>2. TypeOK /\ ContainmentInv /\ [Next]_vars => ContainmentInv'
  BY ContainmentStep
<1>3. ContainmentInv => ReleaseIsVouched
  BY DEF ContainmentInv, ReleasesWarranted, ReleaseIsVouched, Warranted
<1> QED  BY <1>1, <1>2, <1>3, TypeCorrect, PTL DEF Spec

-------------------------------------------------------------------------------
(* Cancellation tokens.                                                     *)

ScanPhases == {"local", "queued", "vt"}

\* A pipeline step touches no token but its own, and leaves that registered only
\* if it goes to a phase that can observe it.
LEMMA PipelineTokens ==
    ASSUME TokensFollowScans, NEW j \in Jobs, Pipeline(j)
    PROVE  /\ ctl' \subseteq ctl \cup {j}
           /\ \E p \in JobPhases : /\ pc' = [pc EXCEPT ![j] = p]
                                   /\ j \in ctl' => p \in ScanPhases
<1>1. pc[j] \notin ScanPhases => j \notin ctl  BY DEF TokensFollowScans, ScanPhases
<1> USE <1>1 DEF ScanPhases, JobPhases, UnsettledPhases, RestorePhases, Goto, Fails, tokens
<1>a. CASE Accept(j)  BY <1>a DEF Accept
<1>b. CASE Ignore(j)  BY <1>b DEF Ignore
<1>c. CASE CopyIn(j)  BY <1>c DEF CopyIn
<1>d. CASE RemoveSource(j)  BY <1>d DEF RemoveSource
<1>e. CASE RecordQuarantine(j)  BY <1>e DEF RecordQuarantine
<1>f. CASE Dispatch(j)  BY <1>f DEF Dispatch
<1>g. CASE BeginLocal(j)  BY <1>g DEF BeginLocal, Register
<1>h. CASE LocalAnswers(j)  BY <1>h DEF LocalAnswers, EndLocal, Deregister
<1>i. CASE LocalCancelled(j)  BY <1>i DEF LocalCancelled, EndLocal, Deregister
<1>j. CASE KeptBeforeVt(j)  BY <1>j DEF KeptBeforeVt
<1>k. CASE Unreadable(j)  BY <1>k DEF Unreadable
<1>l. CASE CacheHit(j)  BY <1>l DEF CacheHit
<1>m. CASE CacheMiss(j)  BY <1>m DEF CacheMiss, Register
<1>n. CASE AcquirePermit(j)  BY <1>n DEF AcquirePermit
<1>o. CASE VtAnswers(j)  BY <1>o DEF VtAnswers, ReleasePermit, DecScan, Deregister
<1>p. CASE VtCancelled(j)  BY <1>p DEF VtCancelled, ReleasePermit, DecScan, Deregister
<1> QED
  BY <1>a, <1>b, <1>c, <1>d, <1>e, <1>f, <1>g, <1>h, <1>i, <1>j, <1>k, <1>l,
     <1>m, <1>n, <1>o, <1>p DEF Pipeline, Proceeds

LEMMA TokensStep ==
    ASSUME TypeOK, TokensFollowScans, [Next]_vars
    PROVE  TokensFollowScans'
<1>1. ctl \subseteq Jobs /\ pc \in [Actors -> JobPhases \cup RequestPhases]
  BY DEF TypeOK
<1>2. \A k \in ctl : pc[k] \in ScanPhases  BY DEF TokensFollowScans, ScanPhases
<1>a. ASSUME NEW j \in Jobs, Pipeline(j) PROVE TokensFollowScans'
  BY <1>a, <1>1, <1>2, PipelineTokens DEF TokensFollowScans, ScanPhases, Actors
<1>b. ASSUME NEW a \in Actors, Restores(a) PROVE TokensFollowScans'
  <2>1. UNCHANGED ctl /\ pc[a] \in RestorePhases /\ \E p : pc' = [pc EXCEPT ![a] = p]
    BY <1>b DEF Restores, RestoreCreate, RestoreCopy, RestoreUnlink, RestoreCommit,
         RestoreFails, RestoreFrame, Fails, Goto, RestorePhases, tokens
  <2>2. a \notin ctl  BY <1>2, <2>1 DEF ScanPhases, RestorePhases
  <2> QED  BY <1>1, <1>2, <2>1, <2>2 DEF TokensFollowScans, ScanPhases, Actors
<1>c. ASSUME NEW r \in Requests, Serve(r) PROVE TokensFollowScans'
  <2>1. ctl' \subseteq ctl
    BY <1>c DEF Serve, RestoreRequest, SweepList, DeleteRead, DeleteUnlink,
         DeleteCommit, ClearAll, ClearUnlink, ClearReturns, Cancel, ModeSwap,
         ModeCancels, ModePersists, Abandon, tokens
  <2>2. UNCHANGED pc \/ \E p : pc' = [pc EXCEPT ![r] = p]
    BY <1>c DEF Serve, RestoreRequest, SweepList, DeleteRead, DeleteUnlink,
         DeleteCommit, ClearAll, ClearUnlink, ClearReturns, Cancel, ModeSwap,
         ModeCancels, ModePersists, Abandon, Goto
  <2>3. r \notin ctl  BY <1>1, QuarantineAssumption DEF QuarantineAssumption
  <2> QED  BY <1>1, <1>2, <2>1, <2>2, <2>3 DEF TokensFollowScans, ScanPhases, Actors
<1>d. CASE CrashRestart  BY <1>d DEF CrashRestart, TokensFollowScans
<1>e. CASE UNCHANGED vars  BY <1>e DEF vars, tokens, TokensFollowScans
<1> QED  BY <1>a, <1>b, <1>c, <1>d, <1>e DEF Next

\* Tokens: whatever way a scan ends, and whatever cancels and mode changes do
\* meanwhile, no token outlives the scan it belongs to, so a later cancel can
\* only hit a scan that is running (watcher.rs scan_controllers).
THEOREM NoStaleToken == Spec => []TokensFollowScans
<1>1. Init => TokensFollowScans  BY DEF Init, TokensFollowScans
<1>2. TypeOK /\ TokensFollowScans /\ [Next]_vars => TokensFollowScans'
  BY TokensStep
<1> QED  BY <1>1, <1>2, TypeCorrect, PTL DEF Spec

-------------------------------------------------------------------------------
(* Racing restores.                                                         *)

\* An actor that has removed the quarantine copy, or has completed its restore.
Winner(a) == pc[a] = "commit" \/ out[a] = "ready"

NotCopied == {"waiting", "intake"}

\* The copy is made once; the one who removes it wins, and it never comes back.
RestoreInv ==
    /\ \A j \in Jobs : quar[j] # "none" => pc[j] \notin NotCopied
    /\ \A a \in Actors :
        Winner(a) => quar[Target(a)] = "none" /\ pc[Target(a)] \notin NotCopied
    /\ \A a, b \in Actors : Winner(a) /\ Winner(b) /\ Target(a) = Target(b) => a = b

LEMMA PipelineRestoreInv ==
    ASSUME TypeOK, RestoreInv, NEW j \in Jobs, Pipeline(j)
    PROVE  RestoreInv'
<1>1. UNCHANGED <<out, task>>
  BY DEF Pipeline, Proceeds, Accept, Ignore, CopyIn, RemoveSource, RecordQuarantine,
       Dispatch, BeginLocal, LocalAnswers, LocalCancelled, EndLocal, KeptBeforeVt,
       Unreadable, CacheHit, CacheMiss, AcquirePermit, VtAnswers, VtCancelled,
       Fails, Idle, disk, fixed
<1>2. \E p \in JobPhases \ {"commit", "waiting"} :
        /\ pc' = [pc EXCEPT ![j] = p]
        /\ \/ p = "intake" /\ pc[j] = "waiting" /\ UNCHANGED quar
           \/ p \notin NotCopied /\ pc[j] \notin NotCopied /\ UNCHANGED quar
           \/ p \notin NotCopied /\ pc[j] \in NotCopied
                /\ (UNCHANGED quar \/ \E left : quar' = [quar EXCEPT ![j] = left])
  <2> USE DEF JobPhases, UnsettledPhases, RestorePhases, NotCopied, Goto, Fails, disk
  <2>1. CASE Accept(j)  BY <2>1 DEF Accept
  <2>2. CASE Ignore(j)
    <3>1. pc[j] = "waiting" /\ pc' = [pc EXCEPT ![j] = "ignored"] /\ UNCHANGED quar
      BY <2>2 DEF Ignore
    <3>2. "ignored" \in JobPhases \ {"commit", "waiting"} /\ "ignored" \notin NotCopied
      OBVIOUS
    <3> QED  BY ONLY <3>1, <3>2 DEF NotCopied
  <2>3. CASE CopyIn(j)  BY <2>3 DEF CopyIn
  <2> QED
    BY <2>1, <2>2, <2>3 DEF Pipeline, Proceeds, RemoveSource, RecordQuarantine,
       Dispatch, BeginLocal, LocalAnswers, LocalCancelled, EndLocal, KeptBeforeVt,
       Unreadable, CacheHit, CacheMiss, AcquirePermit, VtAnswers, VtCancelled, Idle
<1>3. \A a \in Actors : Target(a)' = Target(a) /\ Target(a) \in Jobs
  BY <1>1, TargetIsJob DEF Target
<1>4. \A a \in Actors : Winner(a)' => Winner(a)
  BY <1>1, <1>2 DEF Winner, TypeOK
<1>5. \A k \in Jobs : quar'[k] # "none" => pc'[k] \notin NotCopied
  BY <1>2 DEF RestoreInv, TypeOK, Actors, NotCopied
<1>6. \A k \in Jobs : quar[k] = "none" /\ pc[k] \notin NotCopied
                        => quar'[k] = "none" /\ pc'[k] \notin NotCopied
  BY <1>2 DEF TypeOK, Actors, NotCopied
<1> QED  BY <1>3, <1>4, <1>5, <1>6 DEF RestoreInv

LEMMA RestoresRestoreInv ==
    ASSUME TypeOK, RestoreInv, NEW a \in Actors, Restores(a)
    PROVE  RestoreInv'
<1>1. UNCHANGED task /\ pc[a] \in RestorePhases
  BY DEF Restores, RestoreCreate, RestoreCopy, RestoreUnlink, RestoreCommit,
         RestoreFrame, fixed, RestorePhases
<1>2. \E p \in RestorePhases \cup {"done"} :
        pc' = [pc EXCEPT ![a] = p] /\ (p = "commit" => RestoreUnlink(a))
  BY DEF Restores, RestoreCreate, RestoreCopy, RestoreUnlink, RestoreCommit,
         RestoreFails, Fails, Goto, RestorePhases
<1>3. \A b \in Actors : Target(b)' = Target(b) /\ Target(b) \in Jobs
  BY <1>1, TargetIsJob DEF Target
<1>4. \A k \in Jobs : pc[k] \notin NotCopied <=> pc'[k] \notin NotCopied
  BY <1>1, <1>2 DEF TypeOK, Actors, NotCopied, RestorePhases
<1>5. \A k \in Jobs : quar'[k] \in {quar[k], "none"}
  BY DEF TypeOK, Restores, RestoreCreate, RestoreCopy, RestoreUnlink, RestoreCommit
<1>6. CASE \A b \in Actors : Winner(b)' => Winner(b)
  BY <1>3, <1>4, <1>5, <1>6 DEF RestoreInv
<1>7. CASE \E b \in Actors : Winner(b)' /\ ~Winner(b)
  <2>1. \A b \in Actors : b # a => (Winner(b)' <=> Winner(b))
    BY <1>2 DEF Winner, TypeOK, Restores, RestoreCreate, RestoreCopy, RestoreUnlink,
         RestoreCommit
  <2>2. Winner(a)' /\ ~Winner(a)  BY <1>7, <2>1
  <2>3. pc'[a] = "commit" /\ RestoreUnlink(a)
    BY <1>2, <2>2 DEF Winner, TypeOK, Restores, RestoreCreate, RestoreCopy,
         RestoreUnlink, RestoreCommit
  <2>4. quar[Target(a)] # "none" /\ quar'[Target(a)] = "none"
    BY <1>3, <2>3 DEF RestoreUnlink, RestoreFails, Fails, Goto, TypeOK
  <2>5. \A b \in Actors : Target(b) = Target(a) => ~Winner(b)
    BY <2>4 DEF RestoreInv
  <2>6. \A b \in Actors : Winner(b)' /\ Target(b) = Target(a) => b = a
    BY <2>1, <2>5
  <2>7. pc'[Target(a)] \notin NotCopied
    BY <1>3, <1>4, <2>4 DEF RestoreInv
  <2> QED  BY <1>3, <1>4, <1>5, <2>1, <2>4, <2>6, <2>7 DEF RestoreInv
<1> QED  BY <1>6, <1>7

LEMMA ServeRestoreInv ==
    ASSUME TypeOK, RestoreInv, NEW r \in Requests, Serve(r)
    PROVE  RestoreInv'
<1>1. r \notin Jobs /\ r \in Actors /\ Jobs \subseteq Actors
  BY QuarantineAssumption DEF QuarantineAssumption, Actors
<1>2. UNCHANGED <<out, task>>
  BY DEF Serve, RestoreRequest, SweepList, DeleteRead, DeleteUnlink, DeleteCommit,
         ClearAll, ClearUnlink, ClearReturns, Cancel, ModeSwap, ModeCancels,
         ModePersists, Abandon, ApiFrame, fixed
<1>3. UNCHANGED pc \/ \E p : p # "commit" /\ pc' = [pc EXCEPT ![r] = p]
  BY DEF Serve, RestoreRequest, SweepList, DeleteRead, DeleteUnlink, DeleteCommit,
         ClearAll, ClearUnlink, ClearReturns, Cancel, ModeSwap, ModeCancels,
         ModePersists, Abandon, Goto
<1>4. \A k \in Jobs : quar'[k] \in {quar[k], "none"}
  BY DEF TypeOK, Serve, RestoreRequest, SweepList, DeleteRead, DeleteUnlink,
         DeleteCommit, ClearAll, ClearUnlink, ClearReturns, Cancel, ModeSwap,
         ModeCancels, ModePersists, Abandon, Discard
<1>5. \A b \in Actors : Target(b)' = Target(b) /\ Target(b) \in Jobs
  BY <1>2, TargetIsJob DEF Target
<1>6. \A b \in Actors : Winner(b)' => Winner(b)
  BY <1>2, <1>3 DEF Winner, TypeOK
<1>7. \A k \in Jobs : pc'[k] = pc[k]  BY <1>1, <1>3 DEF TypeOK
<1> QED  BY <1>4, <1>5, <1>6, <1>7 DEF RestoreInv

LEMMA RestoreInvStep ==
    ASSUME TypeOK, RestoreInv, [Next]_vars
    PROVE  RestoreInv'
<1>1. CASE CrashRestart
  <2>1. UNCHANGED <<out, task>> /\ \A k \in Jobs : quar'[k] \in {quar[k], "none"}
    BY <1>1 DEF CrashRestart, fixed, TypeOK
  <2>2. \A b \in Actors : /\ pc'[b] # "commit"
                          /\ pc'[b] \in NotCopied => pc[b] \in NotCopied
    BY <1>1 DEF CrashRestart, Restarted, NotCopied
  <2>3. \A b \in Actors : Target(b)' = Target(b) /\ Target(b) \in Jobs
    BY <2>1, TargetIsJob DEF Target
  <2>4. \A b \in Actors : Winner(b)' => Winner(b)  BY <2>1, <2>2 DEF Winner
  <2> QED  BY <2>1, <2>2, <2>3, <2>4 DEF RestoreInv, Actors
<1>2. CASE UNCHANGED vars
  BY <1>2 DEF vars, fixed, disk, RestoreInv, Winner, Target
<1> QED
  BY <1>1, <1>2, PipelineRestoreInv, RestoresRestoreInv, ServeRestoreInv DEF Next

\* Of all restores of one job, by its pipeline and by any number of requests,
\* dropped and retried ones and crashes included, at most one completes: the
\* unlink of the quarantine copy, where a missing file is an error, decides
\* (file_mover.rs restore_to_path).
THEOREM RestoreIsExclusive == Spec => []OneRestoreWins
<1>1. Init => RestoreInv
  BY DEF Init, RestoreInv, Winner, Actors
<1>2. TypeOK /\ RestoreInv /\ [Next]_vars => RestoreInv'
  BY RestoreInvStep
<1>3. RestoreInv => OneRestoreWins
  BY DEF RestoreInv, OneRestoreWins, Winner
<1> QED  BY <1>1, <1>2, <1>3, TypeCorrect, PTL DEF Spec
===============================================================================
