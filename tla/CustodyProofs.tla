----------------------------- MODULE CustodyProofs ----------------------------
(***************************************************************************)
(* Theorems about Quarantine that concern the bytes of a file and its row  *)
(* together: nothing is lost, a cancelled job stays contained, requests    *)
(* keep their hands off unsettled rows, and the whole system implements    *)
(* FileCustody as long as the process lives; and the count of the          *)
(* semaphore's permits.                                                    *)
(***************************************************************************)
EXTENDS QuarantineProofs, FiniteSetTheorems

Filing == {"intake", "copied", "moved"}
Scanning == {"admitted", "local", "precheck", "queued", "vt"}

\* The phase of a pipeline fixes what its row says until the row is settled.
RowAgrees(j) ==
    /\ pc[j] \in {"waiting", "ignored"} => row[j].status = "absent"
    /\ pc[j] \in Filing => row[j].status = "received" /\ ~row[j].path
    /\ pc[j] = "held" => row[j].status = "in_quarantine"
    /\ pc[j] \in Scanning => row[j].status = "scanning"
    /\ pc[j] \in RestorePhases => row[j].status \notin {"received", "in_quarantine"}
    /\ pc[j] = "done" => row[j].status \notin Active
    /\ row[j].status \in {"in_quarantine", "scanning", "quarantine_kept", "cancelled"}
            => row[j].path

\* ... and where its bytes are; a copy no row points to is not the only one.
DiskAgrees(j) ==
    /\ pc[j] \in {"waiting", "ignored", "intake"} => src[j] /\ quar[j] = "none"
    /\ pc[j] = "copied" => src[j]
    /\ pc[j] \in UnsettledPhases \ {"intake"} => quar[j] = "full"
    /\ quar[j] = "partial" => pc[j] = "done" /\ ~row[j].path /\ src[j]
    /\ quar[j] = "full" /\ ~row[j].path =>
            src[j] \/ j \in disposed \/ pc[j] \in {"copied", "moved"}
    /\ pc[j] = "dead" /\ row[j].status = "received" => quar[j] = "none"

\* A restore creates its file once, and removes the original only after copying.
OutAgrees(a) ==
    /\ out[a] # "none" => pc[a] \in {"copy", "unlink", "commit", "done", "dead"}
    /\ pc[a] \in {"unlink", "commit"} => out[a] = "copy"

\* The pipeline has had its say about job j.
Late(j) == pc[j] \in RestorePhases \cup {"done", "dead"} /\ row[j].status \notin Active

\* Requests that hold a decision about job j, or have acted on it.
Engaged(r) == pc[r] \in RestorePhases \cup {"d_unlink", "d_commit"} \/ out[r] # "none"

RequestsAreLate ==
    \A r \in Requests :
        /\ Engaged(r) => Late(Target(r))
        /\ \A j \in todo[r] : Late(j)

\* Nobody restores a torn copy.
RestoresWhole == \A a \in Actors : pc[a] \in RestorePhases => quar[Target(a)] # "partial"

\* Nobody is putting, or has put, job j back.
Untouched(j) ==
    \A a \in Actors : Target(a) = j => pc[a] \notin RestorePhases /\ out[a] = "none"

CancelledStays(j) ==
    row[j].status = "cancelled" =>
        pc[j] = "done" /\ Untouched(j) /\ (quar[j] = "full" \/ j \in disposed)

Kept(j) ==
    \/ src[j] \/ quar[j] = "full" \/ Copies(j) # {} \/ j \in disposed
    \/ pc[j] = "dead" /\ row[j].status = "received"

CustodyInv ==
    /\ \A j \in Jobs : RowAgrees(j) /\ DiskAgrees(j) /\ CancelledStays(j) /\ Kept(j)
    /\ \A a \in Actors : OutAgrees(a)
    /\ RequestsAreLate
    /\ RestoresWhole

\* What StatusTellsPlace needs, without faults, crashes and dropped requests.
PlaceInv ==
    /\ \A j \in Jobs :
        /\ pc[j] # "dead"
        /\ row[j].status \notin {"received", "absent"} => row[j].path
        /\ row[j].status \in {"quarantine_kept", "cancelled"} =>
                \/ quar[j] = "full"
                \/ \E a \in Actors : Target(a) = j /\ pc[a] \in {"commit", "d_commit"}
        /\ row[j].status = "restored" => quar[j] = "none" /\ Copies(j) # {}
        /\ row[j].status = "deleted" => quar[j] = "none"
        /\ row[j].status = "absent" =>
                \/ quar[j] = "none"
                \/ \E r \in Requests : pc[r] = "c_unlink" /\ j \in todo[r]
    /\ \A r \in Requests :
        /\ pc[r] = "d_commit" => quar[Target(r)] = "none"
        /\ \A j \in todo[r] : row[j].status = "absent"

-------------------------------------------------------------------------------
(* What each step does to the row, the file and the phase of its job.       *)

\* What the statements of the job store do to the status and to the path.
LEMMA StageEffect ==
    ASSUME NEW r \in Rows, NEW x
    PROVE  /\ SetStage(r, x).status = r.status /\ SetStage(r, x).path = r.path
           /\ SetPompelmiVerdict(r, x).status = r.status
           /\ SetPompelmiVerdict(r, x).path = r.path
BY DEF Rows, Update, Exists, SetStage, SetPompelmiVerdict

LEMMA SettledEffect ==
    ASSUME NEW r \in Rows, NEW v
    PROVE  /\ Settled(r, v).path = r.path
           /\ r.status = "absent" \/ v = "clean" => Settled(r, v).status = r.status
           /\ r.status # "absent" /\ v # "clean" =>
                    Settled(r, v).status = "quarantine_kept"
BY DEF Rows, Update, Exists, Settled, SetScanResult, SetStage

LEMMA BeginEffect ==
    ASSUME NEW r \in Rows, r.status # "absent"
    PROVE  /\ SetInQuarantine(r).status = "in_quarantine" /\ SetInQuarantine(r).path
           /\ SetScanning(r).status = "scanning" /\ SetScanning(r).path = r.path
BY DEF Rows, Update, Exists, SetInQuarantine, SetScanning

LEMMA FailEffect ==
    ASSUME NEW r \in Rows
    PROVE  /\ Fail(SetStage(r, "error")).path = r.path
           /\ r.status = "absent" => Fail(SetStage(r, "error")).status = "absent"
           /\ r.status # "absent" => Fail(SetStage(r, "error")).status = "failed"
BY DEF Rows, Update, Exists, Fail, SetStage

LEMMA EndEffect ==
    ASSUME NEW r \in Rows
    PROVE  /\ CancelJob(SetStage(r, "done")).path = r.path
           /\ CancelJob(SetStage(r, "done")).status \in {r.status, "cancelled"}
           /\ r.status = "scanning" =>
                CancelJob(SetStage(r, "done")).status = "cancelled"
           /\ SetRestored(r).path = r.path
           /\ r.status = "absent" => SetRestored(r).status = "absent"
           /\ r.status # "absent" => SetRestored(r).status = "restored"
           /\ SetDeleted(r).path = r.path
           /\ r.status \in Deletable => SetDeleted(r).status = "deleted"
           /\ r.status \notin Deletable => SetDeleted(r).status = r.status
<1> USE DEF Rows, Update, Exists
<1>1. /\ CancelJob(SetStage(r, "done")).path = r.path
      /\ CancelJob(SetStage(r, "done")).status \in {r.status, "cancelled"}
      /\ r.status = "scanning" =>
                CancelJob(SetStage(r, "done")).status = "cancelled"
  BY DEF CancelJob, SetStage
<1>2. /\ SetRestored(r).path = r.path
      /\ r.status = "absent" => SetRestored(r).status = "absent"
      /\ r.status # "absent" => SetRestored(r).status = "restored"
  BY DEF SetRestored
<1>3. /\ SetDeleted(r).path = r.path
      /\ r.status \in Deletable => SetDeleted(r).status = "deleted"
      /\ r.status \notin Deletable => SetDeleted(r).status = r.status
  BY DEF SetDeleted
<1> QED  BY <1>1, <1>2, <1>3

LEMMA FreshStatus ==
    /\ NoRow.status = "absent" /\ ~NoRow.path
    /\ SetStage(InsertReceived, "received").status = "received"
    /\ ~SetStage(InsertReceived, "received").path
BY DEF NoRow, InsertReceived, SetStage, Update, Exists

\* A step of a pipeline, before the file is released, leaves every other job and
\* every request alone.
LEMMA PipelineFrame ==
    ASSUME TypeOK, NEW j \in Jobs, Pipeline(j)
    PROVE  /\ UNCHANGED <<task, todo, out, disposed>>
           /\ pc[j] \in UnsettledPhases \cup {"waiting"}
           /\ \A a \in Actors : a # j => pc'[a] = pc[a]
           /\ \A k \in Jobs : k # j => /\ row'[k] = row[k]
                                       /\ src'[k] = src[k] /\ quar'[k] = quar[k]
<1>1. UNCHANGED <<task, todo, out, disposed>> /\ pc[j] \in UnsettledPhases \cup {"waiting"}
  BY DEF Pipeline, Proceeds, Accept, Ignore, CopyIn, RemoveSource, RecordQuarantine,
       Dispatch, BeginLocal, LocalAnswers, LocalCancelled, EndLocal, KeptBeforeVt,
       Unreadable, CacheHit, CacheMiss, AcquirePermit, VtAnswers, VtCancelled,
       Fails, Idle, disk, fixed, seen, UnsettledPhases
<1>2. \A a \in Actors : a # j => pc'[a] = pc[a]  BY PipelineGoto DEF TypeOK
<1>3. \A k \in Jobs : k # j => row'[k] = row[k]
  BY DEF TypeOK, Pipeline, Proceeds, Accept, Ignore, CopyIn, RemoveSource, RecordQuarantine,
       Dispatch, BeginLocal, LocalAnswers, LocalCancelled, EndLocal, KeptBeforeVt,
       Unreadable, CacheHit, CacheMiss, AcquirePermit, VtAnswers, VtCancelled,
       Fails, Write
<1>4. \A k \in Jobs : k # j => src'[k] = src[k] /\ quar'[k] = quar[k]
  BY DEF TypeOK, Pipeline, Proceeds, Accept, Ignore, CopyIn, RemoveSource, RecordQuarantine,
       Dispatch, BeginLocal, LocalAnswers, LocalCancelled, EndLocal, KeptBeforeVt,
       Unreadable, CacheHit, CacheMiss, AcquirePermit, VtAnswers, VtCancelled,
       Idle, disk
<1> QED  BY <1>1, <1>2, <1>3, <1>4

\* The ways a pipeline can move, in terms of its phase, its row and its file.
Fell(j) ==
    /\ pc'[j] = "done" /\ row'[j].path = row[j].path
    /\ row[j].status # "absent" => row'[j].status = "failed"
    /\ row[j].status = "absent" => row'[j].status = "absent"

Filed(j) ==
    \/ /\ pc[j] = "waiting" /\ pc'[j] = "intake"
       /\ UNCHANGED <<src, quar>>
       /\ row'[j].status = "received" /\ ~row'[j].path
    \/ /\ pc[j] = "waiting" /\ pc'[j] = "ignored"
       /\ UNCHANGED <<src, quar, row>>
    \/ /\ pc[j] = "intake" /\ pc'[j] = "copied"
       /\ quar'[j] = "full" /\ UNCHANGED <<src, row>>
    \/ /\ pc[j] = "intake" /\ Fell(j)
       /\ quar'[j] # "full" /\ UNCHANGED src /\ IOFaults
    \/ /\ pc[j] = "copied" /\ pc'[j] = "moved"
       /\ UNCHANGED <<quar, row>>
    \/ /\ pc[j] = "copied" /\ Fell(j)
       /\ UNCHANGED <<src, quar>> /\ IOFaults
    \/ /\ pc[j] = "moved" /\ pc'[j] = "held"
       /\ UNCHANGED <<src, quar>>
       /\ row[j].status # "absent" =>
            row'[j].status = "in_quarantine" /\ row'[j].path
    \/ /\ pc[j] = "held" /\ pc'[j] \in {"done", "admitted", "precheck"}
       /\ UNCHANGED <<src, quar>>
       /\ row[j].status # "absent" =>
            /\ row'[j].path = row[j].path
            /\ row'[j].status = IF pc'[j] = "done" THEN "quarantine_kept" ELSE "scanning"

Scanned(j) ==
    /\ pc[j] \in Scanning /\ UNCHANGED <<src, quar>>
    /\ row'[j].path = row[j].path
    /\ \/ pc'[j] \in Scanning /\ row'[j].status = row[j].status
       \/ pc'[j] = "create" /\ row'[j].status \in {row[j].status, "quarantine_kept"}
       \/ /\ pc'[j] = "done"
          /\ row[j].status = "scanning" => row'[j].status \in {"quarantine_kept", "cancelled"}
       \/ Fell(j) /\ (quar[j] = "none" \/ IOFaults)

LEMMA PipelineMoves ==
    ASSUME TypeOK, NEW j \in Jobs, Pipeline(j)
    PROVE  Filed(j) \/ Scanned(j)
<1>1. row[j] \in Rows /\ j \in Actors  BY DEF TypeOK, Actors
<1>2. \A p : pc' = [pc EXCEPT ![j] = p] => pc'[j] = p  BY <1>1 DEF TypeOK
<1>3. \A w : row' = [row EXCEPT ![j] = w] => row'[j] = w  BY DEF TypeOK
<1>4. ASSUME Fails(j) PROVE Fell(j)
  <2>1. row'[j] = Fail(SetStage(row[j], "error")) /\ pc'[j] = "done"
    BY <1>2, <1>3, <1>4 DEF Fails, Goto, Write
  <2> QED  BY <1>1, <2>1, FailEffect DEF Fell
<1>5. ASSUME NEW s, Write(j, SetStage(row[j], s))
      PROVE  row'[j].status = row[j].status /\ row'[j].path = row[j].path
  BY <1>1, <1>3, <1>5, StageEffect DEF Write
<1>6. ASSUME NEW v, Write(j, Settled(row[j], v))
      PROVE  /\ row'[j].path = row[j].path
             /\ row[j].status = "absent" \/ v = "clean" => row'[j].status = row[j].status
             /\ row[j].status # "absent" /\ v # "clean" => row'[j].status = "quarantine_kept"
  <2>1. row'[j] = Settled(row[j], v)  BY <1>3, <1>6 DEF Write
  <2> QED  BY <1>1, <2>1, SettledEffect
<1> USE <1>1, <1>2 DEF Scanning, Goto, disk
<1>a. CASE Accept(j)  BY <1>a, <1>3, FreshStatus DEF Accept, Write, Filed
<1>b. CASE Ignore(j)  BY <1>b DEF Ignore, Filed
<1>c. CASE CopyIn(j)  BY <1>c, <1>4 DEF CopyIn, TypeOK, Filed
<1>d. CASE RemoveSource(j)
  <2>1. pc[j] = "copied" /\ UNCHANGED quar  BY <1>d DEF RemoveSource
  <2>2. CASE pc' = [pc EXCEPT ![j] = "moved"]
    <3>1. ~Fails(j)  BY <2>2 DEF Fails
    <3> QED  BY <1>d, <2>1, <2>2, <3>1 DEF RemoveSource, Filed
  <2>3. CASE IOFaults /\ UNCHANGED src /\ Fails(j)  BY <1>4, <2>1, <2>3 DEF Filed
  <2> QED  BY <1>d, <2>2, <2>3 DEF RemoveSource
<1>e. CASE RecordQuarantine(j)
  BY <1>e, <1>3, BeginEffect DEF RecordQuarantine, Write, Filed
<1>f. CASE Dispatch(j)
  <2>1. CASE KeptUnscanned  BY <1>f, <1>6, <2>1 DEF Dispatch, Filed
  <2>2. CASE ~KeptUnscanned
    BY <1>f, <1>3, <2>2, BeginEffect DEF Dispatch, Write, Filed
  <2> QED  BY <2>1, <2>2
<1>g. CASE BeginLocal(j)  BY <1>g, <1>5 DEF BeginLocal, Scanned
<1>h. CASE LocalAnswers(j) \/ LocalCancelled(j)
  <2>1. PICK v \in LocalVerdicts : EndLocal(j, v)
    BY <1>h DEF LocalAnswers, LocalCancelled, LocalVerdicts
  <2> DEFINE w == SetPompelmiVerdict(row[j], v)
             verdict == IF v = "malicious" THEN "infected" ELSE "inconclusive"
  <2>2. w \in Rows /\ w.status = row[j].status /\ w.path = row[j].path
    BY RowsClosed, StageEffect
  <2>3. verdict # "clean"  OBVIOUS
  <2>4. \/ row' = [row EXCEPT ![j] = w] /\ pc'[j] = "precheck"
        \/ row' = [row EXCEPT ![j] = Settled(w, verdict)] /\ pc'[j] = "done"
    BY <2>1 DEF EndLocal, Write
  <2>5. pc[j] = "local" /\ UNCHANGED disk
    BY <1>h, <2>1 DEF LocalAnswers, LocalCancelled, EndLocal
  <2> HIDE DEF w, verdict
  <2>6. /\ Settled(w, verdict).path = w.path
        /\ w.status = "scanning" => Settled(w, verdict).status = "quarantine_kept"
    BY <2>2, <2>3, SettledEffect
  <2>7. \/ row'[j] = w /\ pc'[j] = "precheck"
        \/ row'[j] = Settled(w, verdict) /\ pc'[j] = "done"
    BY <1>3, <2>4
  <2> QED  BY <2>2, <2>5, <2>6, <2>7 DEF Scanned
<1>j. CASE KeptBeforeVt(j)
  <2>1. PICK v \in {"inconclusive", "oversized"} : Write(j, Settled(row[j], v))
    BY <1>j DEF KeptBeforeVt
  <2> QED  BY <1>j, <2>1, <1>6 DEF KeptBeforeVt, Idle, Scanned
<1>k. CASE Unreadable(j)  BY <1>k, <1>4 DEF Unreadable, Idle, Scanned, Fell
<1>l. CASE CacheHit(j)
  <2>1. Write(j, Settled(row[j], cache[Content[j]]))  BY <1>l DEF CacheHit
  <2> QED  BY <1>l, <2>1, <1>6 DEF CacheHit, Idle, Scanned
<1>m. CASE CacheMiss(j)  BY <1>m, <1>5 DEF CacheMiss, Idle, Scanned
<1>n. CASE AcquirePermit(j)  BY <1>n, <1>5 DEF AcquirePermit, Scanned
<1>o. CASE VtAnswers(j)
  <2>1. PICK v \in VtVerdicts :
            /\ Write(j, Settled(row[j], v))
            /\ Goto(j, IF RestoreDecision(j \in localClean, v) = "restore"
                       THEN "create" ELSE "done")
    BY <1>o DEF VtAnswers
  <2>2. pc[j] = "vt" /\ UNCHANGED <<src, quar>>  BY <1>o DEF VtAnswers
  <2>3. /\ row'[j].path = row[j].path
        /\ row[j].status = "absent" \/ v = "clean" => row'[j].status = row[j].status
        /\ row[j].status # "absent" /\ v # "clean" => row'[j].status = "quarantine_kept"
    BY <2>1, <1>6
  <2>4. pc'[j] = "create" \/ (pc'[j] = "done" /\ v # "clean")
    BY <2>1 DEF RestoreDecision
  <2> QED  BY <2>2, <2>3, <2>4 DEF Scanned
<1>p. CASE VtCancelled(j)
  <2>1. /\ row'[j] = CancelJob(SetStage(row[j], "done"))
        /\ pc[j] = "vt" /\ pc'[j] = "done" /\ UNCHANGED <<src, quar>>
    BY <1>p, <1>3 DEF VtCancelled, Write
  <2> QED  BY <2>1, EndEffect DEF Scanned
<1> QED
  BY <1>a, <1>b, <1>c, <1>d, <1>e, <1>f, <1>g, <1>h, <1>j, <1>k, <1>l,
     <1>m, <1>n, <1>o, <1>p DEF Pipeline, Proceeds

-------------------------------------------------------------------------------
(* CustodyInv is inductive.                                                 *)

LEMMA TargetStays ==
    ASSUME UNCHANGED task
    PROVE  \A a : Target(a)' = Target(a) /\ Forced(a)' = Forced(a)
BY DEF Target, Forced

\* While a pipeline has not settled its row, nobody else holds its job.
LEMMA UnsettledIsFree ==
    ASSUME TypeOK, CustodyInv, NEW j \in Jobs, pc[j] \in UnsettledPhases \cup {"waiting"}
    PROVE  /\ \A r \in Requests : (Target(r) = j => ~Engaged(r)) /\ j \notin todo[r]
           /\ Untouched(j)
           /\ row[j].status \in Active \cup {"absent"}
<1>1. ~Late(j) /\ pc[j] \notin RestorePhases
  BY DEF Late, UnsettledPhases, RestorePhases
<1>2. \A r \in Requests : (Target(r) = j => ~Engaged(r)) /\ j \notin todo[r]
  BY <1>1 DEF CustodyInv, RequestsAreLate
<1>3. out[j] = "none"
  BY <1>1 DEF CustodyInv, OutAgrees, Actors, UnsettledPhases
<1>4. Untouched(j)
  BY <1>1, <1>2, <1>3 DEF Untouched, Actors, Target, Engaged
<1>5. row[j].status \in Active \cup {"absent"}
  BY DEF CustodyInv, RowAgrees, UnsettledPhases, Active, Filing, Scanning
<1> QED  BY <1>2, <1>4, <1>5

\* The step leaves the row and the bytes of its job in agreement with its phase.
LEMMA PipelineAgrees ==
    ASSUME TypeOK, CustodyInv, NEW j \in Jobs, Pipeline(j)
    PROVE  /\ RowAgrees(j)' /\ DiskAgrees(j)' /\ Kept(j)'
           /\ pc'[j] \in RestorePhases => quar'[j] = "full"
           /\ row'[j].status = "cancelled" => pc'[j] = "done" /\ quar'[j] = "full"
           /\ pc'[j] \notin {"copy", "unlink", "commit", "dead"}
<1>1. RowAgrees(j) /\ DiskAgrees(j) /\ UNCHANGED disposed
  BY PipelineFrame DEF CustodyInv
<1>2. \A x : src' = [src EXCEPT ![j] = x] => src'[j] = x  BY DEF TypeOK
<1> USE <1>1 DEF RowAgrees, DiskAgrees, Kept, RestorePhases, UnsettledPhases, Active,
                 Filing, Scanning
<1>3. CASE Filed(j)  BY <1>3 DEF Filed, Fell
<1>4. CASE Scanned(j)
  <2>1. quar[j] = "full" /\ row[j].status = "scanning" /\ row[j].path
    BY <1>4 DEF Scanned
  <2> QED  BY <1>4, <2>1 DEF Scanned, Fell
<1> QED  BY <1>3, <1>4, PipelineMoves

LEMMA PipelineCustody ==
    ASSUME TypeOK, CustodyInv, NEW j \in Jobs, Pipeline(j)
    PROVE  CustodyInv'
<1>1. /\ UNCHANGED <<task, todo, out, disposed>>
      /\ pc[j] \in UnsettledPhases \cup {"waiting"}
      /\ \A a \in Actors : a # j => pc'[a] = pc[a]
      /\ \A k \in Jobs : k # j => row'[k] = row[k] /\ src'[k] = src[k] /\ quar'[k] = quar[k]
  BY PipelineFrame
<1>2. /\ RowAgrees(j)' /\ DiskAgrees(j)' /\ Kept(j)'
      /\ pc'[j] \in RestorePhases => quar'[j] = "full"
      /\ row'[j].status = "cancelled" => pc'[j] = "done" /\ quar'[j] = "full"
      /\ pc'[j] \notin {"copy", "unlink", "commit", "dead"}
  BY PipelineAgrees
<1>3. /\ \A r \in Requests : (Target(r) = j => ~Engaged(r)) /\ j \notin todo[r]
      /\ Untouched(j)
  BY <1>1, UnsettledIsFree
<1>4. \A a : Target(a)' = Target(a)  BY <1>1, TargetStays
<1>5. Jobs \subseteq Actors /\ Requests \subseteq Actors /\ \A r \in Requests : r # j
  BY QuarantineAssumption DEF Actors, QuarantineAssumption
<1>6. \A k \in Jobs : Copies(k)' = Copies(k)  BY <1>1, <1>4 DEF Copies
<1>7. ASSUME NEW k \in Jobs, k # j
      PROVE  RowAgrees(k)' /\ DiskAgrees(k)' /\ CancelledStays(k)' /\ Kept(k)'
  <2>1. pc'[k] = pc[k] /\ row'[k] = row[k] /\ src'[k] = src[k] /\ quar'[k] = quar[k]
    BY <1>1, <1>5, <1>7
  <2>2. RowAgrees(k)' /\ DiskAgrees(k)' /\ Kept(k)'
    BY <1>1, <1>6, <2>1 DEF CustodyInv, RowAgrees, DiskAgrees, Kept
  <2>3. Untouched(k) => Untouched(k)'
    <3> SUFFICES ASSUME Untouched(k), NEW a \in Actors, Target(a)' = k
                 PROVE  pc'[a] \notin RestorePhases /\ out'[a] = "none"
      BY DEF Untouched
    <3>1. a # j  BY <1>4, <1>7 DEF Target
    <3> QED  BY <1>1, <1>4, <3>1 DEF Untouched
  <2> QED  BY <1>1, <2>1, <2>2, <2>3 DEF CustodyInv, CancelledStays
<1>8. CancelledStays(j)'
  <2>1. pc'[j] = "done" => Untouched(j)'
    <3> SUFFICES ASSUME pc'[j] = "done", NEW a \in Actors, Target(a)' = j
                 PROVE  pc'[a] \notin RestorePhases /\ out'[a] = "none"
      BY DEF Untouched
    <3> QED  BY <1>1, <1>3, <1>4 DEF Untouched, RestorePhases
  <2> QED  BY <1>2, <2>1 DEF CancelledStays
<1>9. ASSUME NEW a \in Actors PROVE OutAgrees(a)'
  <2>1. CASE a = j
    BY <1>1, <1>2, <1>3, <1>5, <2>1 DEF Untouched, OutAgrees, Target
  <2>2. CASE a # j  BY <1>1, <2>2 DEF CustodyInv, OutAgrees
  <2> QED  BY <2>1, <2>2
<1>10. \A k \in Jobs : k # j /\ Late(k) => Late(k)'  BY <1>1, <1>5 DEF Late
<1>11. RequestsAreLate'
  <2>1. \A r \in Requests : Engaged(r)' = Engaged(r) /\ Target(r) \in Jobs
    BY <1>1, <1>5, TargetIsJob DEF Engaged
  <2>2. \A r \in Requests : \A k \in todo[r] : k \in Jobs  BY DEF TypeOK
  <2> QED  BY <1>1, <1>3, <1>4, <1>10, <2>1, <2>2 DEF CustodyInv, RequestsAreLate
<1>12. RestoresWhole'
  <2> SUFFICES ASSUME NEW a \in Actors, pc'[a] \in RestorePhases
               PROVE  quar'[Target(a)] # "partial"
    BY <1>4 DEF RestoresWhole
  <2>1. CASE a = j  BY <1>2, <2>1 DEF Target
  <2>2. CASE a # j
    <3>1. pc[a] \in RestorePhases /\ Target(a) # j
      BY <1>1, <1>3, <2>2 DEF Untouched
    <3> QED  BY <1>1, <3>1, TargetIsJob DEF CustodyInv, RestoresWhole
  <2> QED  BY <2>1, <2>2
<1> QED  BY <1>2, <1>7, <1>8, <1>9, <1>11, <1>12 DEF CustodyInv

\* The steps of a restore, and the ways it ends early.
RestoreMoves(a) ==
    LET j == Target(a) IN
    \/ /\ pc[a] = "create" /\ pc'[a] = "copy" /\ out'[a] = "stub"
       /\ UNCHANGED <<row, quar>>
    \/ /\ pc[a] = "copy" /\ pc'[a] = "unlink" /\ out'[a] = "copy" /\ quar[j] # "none"
       /\ UNCHANGED <<row, quar>>
    \/ /\ pc[a] = "unlink" /\ pc'[a] = "commit" /\ quar[j] # "none" /\ quar'[j] = "none"
       /\ UNCHANGED <<row, out>>
    \/ /\ pc[a] = "commit" /\ pc'[a] = "done" /\ out'[a] = IF out[a] = "copy" THEN "ready" ELSE out[a]
       /\ row'[j] = SetRestored(row[j])
       /\ UNCHANGED quar
    \/ /\ pc[a] \in RestorePhases \ {"commit"} /\ pc'[a] = "done"
       /\ UNCHANGED <<out, quar>> /\ (IOFaults \/ quar[j] = "none")
       /\ \/ a \notin Jobs /\ UNCHANGED row
          \/ a \in Jobs /\ row'[j] = Fail(SetStage(row[j], "error"))

LEMMA RestoreFrames ==
    ASSUME TypeOK, NEW a \in Actors, Restores(a)
    PROVE  /\ UNCHANGED <<task, src, todo, disposed>>
           /\ pc[a] \in RestorePhases
           /\ \A b \in Actors : b # a => pc'[b] = pc[b] /\ out'[b] = out[b]
           /\ \A k \in Jobs : k # Target(a) => row'[k] = row[k] /\ quar'[k] = quar[k]
           /\ RestoreMoves(a)
<1>1. Target(a) \in Jobs /\ (a \in Jobs => Target(a) = a)
  BY TargetIsJob DEF Target
<1>2. UNCHANGED <<task, src, todo, disposed>> /\ pc[a] \in RestorePhases
  BY DEF Restores, RestoreCreate, RestoreCopy, RestoreUnlink, RestoreCommit,
         RestoreFrame, fixed, seen, RestorePhases
<1>3. \A p : pc' = [pc EXCEPT ![a] = p] =>
                pc'[a] = p /\ \A b \in Actors : b # a => pc'[b] = pc[b]
  BY DEF TypeOK
<1>4. \A o : out' = [out EXCEPT ![a] = o] =>
                out'[a] = o /\ \A b \in Actors : b # a => out'[b] = out[b]
  BY DEF TypeOK
<1>5. \A w : row' = [row EXCEPT ![Target(a)] = w] =>
                row'[Target(a)] = w /\ \A k \in Jobs : k # Target(a) => row'[k] = row[k]
  BY <1>1 DEF TypeOK
<1>6. \A q : quar' = [quar EXCEPT ![Target(a)] = q] =>
                quar'[Target(a)] = q /\ \A k \in Jobs : k # Target(a) => quar'[k] = quar[k]
  BY <1>1 DEF TypeOK
<1> USE DEF Goto, Write
<1>7. ASSUME RestoreFails(a)
      PROVE  /\ pc' = [pc EXCEPT ![a] = "done"]
             /\ \/ a \notin Jobs /\ UNCHANGED row
                \/ /\ a \in Jobs
                   /\ row' = [row EXCEPT ![Target(a)] = Fail(SetStage(row[Target(a)], "error"))]
  BY <1>1, <1>7 DEF RestoreFails, Fails
<1>8. ASSUME RestoreFails(a), UNCHANGED <<out, quar>>, pc[a] \in RestorePhases \ {"commit"},
             IOFaults \/ quar[Target(a)] = "none"
      PROVE  RestoreMoves(a)
  BY <1>3, <1>5, <1>7, <1>8 DEF RestoreMoves
<1>9. RestoreMoves(a)
  <2>1. CASE RestoreCreate(a)
    <3>1. CASE RestoreFails(a) /\ IOFaults /\ UNCHANGED out
      BY <1>8, <2>1, <3>1 DEF RestoreCreate, RestorePhases
    <3> QED  BY <1>3, <1>4, <2>1, <3>1 DEF RestoreCreate, RestoreMoves
  <2>2. CASE RestoreCopy(a)
    <3>1. CASE RestoreFails(a) /\ UNCHANGED out /\ (quar[Target(a)] = "none" \/ IOFaults)
      BY <1>8, <2>2, <3>1 DEF RestoreCopy, RestorePhases
    <3> QED  BY <1>3, <1>4, <2>2, <3>1 DEF RestoreCopy, RestoreMoves
  <2>3. CASE RestoreUnlink(a)
    <3>1. CASE RestoreFails(a) /\ UNCHANGED quar /\ (quar[Target(a)] = "none" \/ IOFaults)
      BY <1>8, <2>3, <3>1 DEF RestoreUnlink, RestorePhases
    <3> QED  BY <1>3, <1>6, <2>3, <3>1 DEF RestoreUnlink, RestoreMoves
  <2>4. CASE RestoreCommit(a)
    BY <1>3, <1>4, <1>5, <2>4 DEF RestoreCommit, RestoreMoves
  <2> QED  BY <2>1, <2>2, <2>3, <2>4 DEF Restores
<1>10. \A b \in Actors : b # a => pc'[b] = pc[b] /\ out'[b] = out[b]
  BY <1>3, <1>4, <1>7 DEF Restores, RestoreCreate, RestoreCopy, RestoreUnlink, RestoreCommit
<1>11. \A k \in Jobs : k # Target(a) => row'[k] = row[k] /\ quar'[k] = quar[k]
  BY <1>5, <1>6, <1>7 DEF Restores, RestoreCreate, RestoreCopy, RestoreUnlink, RestoreCommit
<1> QED  BY <1>2, <1>9, <1>10, <1>11

LEMMA RestoresCustody ==
    ASSUME TypeOK, CustodyInv, NEW a \in Actors, Restores(a)
    PROVE  CustodyInv'
<1>0. PICK j \in Jobs : j = Target(a)  BY TargetIsJob
<1>1. /\ UNCHANGED <<task, src, todo, disposed>>
      /\ pc[a] \in RestorePhases
      /\ \A b \in Actors : b # a => pc'[b] = pc[b] /\ out'[b] = out[b]
      /\ \A k \in Jobs : k # j => row'[k] = row[k] /\ quar'[k] = quar[k]
      /\ RestoreMoves(a)
  BY <1>0, RestoreFrames
<1>2. /\ j \in Jobs /\ row[j] \in Rows /\ (a \in Jobs => j = a)
      /\ \A r \in Requests : r \in Actors /\ r \notin Jobs
      /\ Jobs \subseteq Actors
  BY <1>0, QuarantineAssumption DEF TypeOK, Target, Actors, QuarantineAssumption
<1>3. \A b : Target(b)' = Target(b)  BY <1>1, TargetStays
<1>4. /\ RowAgrees(j) /\ DiskAgrees(j) /\ Kept(j) /\ OutAgrees(a)
      /\ row[j].status # "cancelled"
      /\ quar[j] \in {"none", "full"}
  BY <1>0, <1>1, <1>2 DEF CustodyInv, CancelledStays, Untouched, RestoresWhole, TypeOK
<1>5. /\ pc[j] \in RestorePhases \cup {"done", "dead"}
      /\ a \notin Jobs => Late(j)
  BY <1>0, <1>1, <1>2 DEF CustodyInv, RequestsAreLate, Engaged, Late, Actors
<1>6. /\ quar'[j] \in {"none", quar[j]}
      /\ row'[j].path = row[j].path
      /\ \/ UNCHANGED row /\ pc'[a] \in RestorePhases
         \/ UNCHANGED row /\ a \notin Jobs /\ pc'[a] = "done"
         \/ pc'[a] = "done" /\ row'[j].status \in {"restored", "failed", "absent"}
      /\ out'[a] # "none" => pc'[a] \in {"copy", "unlink", "commit", "done"}
      /\ pc'[a] \in {"unlink", "commit"} => out'[a] = "copy"
      /\ out[a] \in {"copy", "ready"} => out'[a] \in {"copy", "ready"}
      /\ quar'[j] = "full" \/ quar[j] = "none" \/ out'[a] = "copy"
  <2>1. /\ SetRestored(row[j]).path = row[j].path
        /\ SetRestored(row[j]).status \in {"restored", "absent"}
        /\ Fail(SetStage(row[j], "error")).path = row[j].path
        /\ Fail(SetStage(row[j], "error")).status \in {"failed", "absent"}
    BY <1>2, EndEffect, FailEffect
  <2>2. quar[j] = "none" \/ quar[j] = "full"  BY <1>4
  <2> QED
    BY <1>0, <1>1, <1>4, <2>1, <2>2 DEF RestoreMoves, RestorePhases, OutAgrees
<1>7. pc'[j] \in RestorePhases \cup {"done", "dead"}
  BY <1>1, <1>2, <1>5, <1>6 DEF RestorePhases
<1>8. RowAgrees(j)'
  BY <1>1, <1>2, <1>4, <1>5, <1>6, <1>7
     DEF RowAgrees, Late, RestorePhases, Active, Filing, Scanning
<1>9. row'[j].status = "received" => row[j].status = "received" /\ pc'[j] = pc[j]
  BY <1>1, <1>2, <1>4, <1>5, <1>6 DEF RowAgrees, Late, Active
<1>10. DiskAgrees(j)'
  BY <1>1, <1>4, <1>5, <1>6, <1>7, <1>9
     DEF DiskAgrees, RestorePhases, UnsettledPhases
<1>11. \A k \in Jobs : Copies(k) \subseteq Copies(k)'
  BY <1>1, <1>2, <1>3, <1>6 DEF Copies
<1>12. Kept(j)'
  <2>1. out'[a] = "copy" => a \in Copies(j)'  BY <1>0, <1>3 DEF Copies
  <2>2. pc[j] = "dead" => row[j].status # "received"
    BY <1>1, <1>2, <1>5 DEF Late, Active, RestorePhases
  <2> QED  BY <1>1, <1>2, <1>4, <1>6, <1>11, <2>1, <2>2 DEF Kept
<1>13. CancelledStays(j)'
  BY <1>4, <1>6 DEF CancelledStays
<1>14. ASSUME NEW k \in Jobs, k # j
       PROVE  RowAgrees(k)' /\ DiskAgrees(k)' /\ CancelledStays(k)' /\ Kept(k)'
  <2>1. pc'[k] = pc[k] /\ row'[k] = row[k] /\ src'[k] = src[k] /\ quar'[k] = quar[k]
    BY <1>1, <1>2, <1>14
  <2>2. RowAgrees(k)' /\ DiskAgrees(k)'
    BY <1>1, <2>1 DEF CustodyInv, RowAgrees, DiskAgrees
  <2>3. Kept(k)'  BY <1>1, <1>11, <2>1 DEF CustodyInv, Kept
  <2>4. Untouched(k) => Untouched(k)'
    BY <1>0, <1>1, <1>3, <1>14 DEF Untouched
  <2> QED  BY <1>1, <2>1, <2>2, <2>3, <2>4 DEF CustodyInv, CancelledStays
<1>15. ASSUME NEW b \in Actors PROVE OutAgrees(b)'
  BY <1>1, <1>6 DEF CustodyInv, OutAgrees
<1>16. RequestsAreLate'
  <2>1. \A k \in Jobs : Late(k) => Late(k)'
    <3>1. Late(j) => Late(j)'  BY <1>6, <1>7 DEF Late, Active
    <3> QED  BY <1>1, <1>2, <3>1 DEF Late
  <2>2. \A r \in Requests : Engaged(r)' => Engaged(r)
    BY <1>1, <1>2 DEF Engaged
  <2>3. \A r \in Requests : Target(r) \in Jobs /\ \A k \in todo[r] : k \in Jobs
    BY <1>2, TargetIsJob DEF TypeOK
  <2> QED  BY <1>1, <1>3, <2>1, <2>2, <2>3 DEF CustodyInv, RequestsAreLate
<1>17. RestoresWhole'
  <2>1. \A b \in Actors : pc'[b] \in RestorePhases => pc[b] \in RestorePhases
    BY <1>1
  <2>2. \A k \in Jobs : quar'[k] \in {"none", quar[k]}  BY <1>1, <1>6
  <2> QED  BY <1>3, <2>1, <2>2, TargetIsJob DEF CustodyInv, RestoresWhole
<1> QED  BY <1>8, <1>10, <1>12, <1>13, <1>14, <1>15, <1>16, <1>17 DEF CustodyInv

\* What a request may do to rows, files and work lists in one step.
Looks(r) ==
    /\ UNCHANGED <<row, quar, disposed, todo>>
    /\ pc[r] \notin RestorePhases \cup {"d_unlink", "d_commit", "c_unlink"}
    /\ pc'[r] \in RestorePhases =>
            /\ pc'[r] = "create" /\ pc[r] = "idle"
            /\ row[Target(r)].status = "quarantine_kept" /\ row[Target(r)].path
    /\ pc'[r] = "d_unlink" => row[Target(r)].status \in Deletable
    /\ pc'[r] = "d_commit" =>
            row[Target(r)].status \in Deletable /\ ~row[Target(r)].path

Unlinks(r) ==
    /\ pc[r] = "d_unlink" /\ UNCHANGED <<row, todo>>
    /\ \/ Discard(Target(r)) /\ pc'[r] = "d_commit"
       \/ IOFaults /\ pc'[r] = "done" /\ UNCHANGED <<quar, disposed>>

Deletes(r) ==
    /\ pc[r] = "d_commit" /\ pc'[r] = "done" /\ UNCHANGED <<quar, disposed, todo>>
    /\ row'[Target(r)] = SetDeleted(row[Target(r)])
    /\ \A k \in Jobs : k # Target(r) => row'[k] = row[k]

Clears(r) ==
    /\ pc[r] = "idle" /\ pc'[r] = "c_unlink" /\ UNCHANGED quar
    /\ \A k \in Jobs : row'[k] = IF IsSettled(row[k]) THEN NoRow ELSE row[k]
    /\ disposed' = disposed \cup {k \in Jobs : IsSettled(row[k])}
    /\ todo'[r] = {k \in Jobs : IsSettled(row[k]) /\ row[k].path}

Drops(r) ==
    /\ pc[r] = "c_unlink" /\ pc'[r] = "c_unlink" /\ UNCHANGED row
    /\ \E k \in todo[r] : /\ todo'[r] = todo[r] \ {k}
                          /\ Discard(k) \/ (IOFaults /\ UNCHANGED <<quar, disposed>>)

Returns(r) ==
    /\ pc'[r] = "done" /\ UNCHANGED <<row, quar, disposed>> /\ todo'[r] = {}
    /\ \/ pc[r] = "c_unlink" /\ todo[r] = {}
       \/ Timeouts

LEMMA ServeMoves ==
    ASSUME TypeOK, NEW r \in Requests, Serve(r)
    PROVE  /\ UNCHANGED <<task, src, out>>
           /\ pc[r] \in {"copy", "unlink", "commit"} => pc'[r] = "done"
           /\ pc'[r] # "idle" /\ pc[r] # "done"
           /\ \A a \in Actors : a # r => pc'[a] = pc[a]
           /\ \A q \in Requests : q # r => todo'[q] = todo[q]
           /\ \/ Looks(r) \/ Unlinks(r) \/ Deletes(r) \/ Clears(r) \/ Drops(r)
              \/ Returns(r)
<1>1. r \in Actors /\ Target(r) \in Jobs  BY TargetIsJob DEF Actors
<1>2. \A p : pc' = [pc EXCEPT ![r] = p] =>
                pc'[r] = p /\ \A a \in Actors : a # r => pc'[a] = pc[a]
  BY <1>1 DEF TypeOK
<1>3. UNCHANGED <<task, src, out>>
  BY DEF Serve, RestoreRequest, SweepList, DeleteRead, DeleteUnlink, DeleteCommit,
         ClearAll, ClearUnlink, ClearReturns, Cancel, ModeSwap, ModeCancels,
         ModePersists, Abandon, ApiFrame, fixed
<1>4. \A q \in Requests : q # r => todo'[q] = todo[q]
  BY DEF TypeOK, Serve, RestoreRequest, SweepList, DeleteRead, DeleteUnlink, DeleteCommit,
         ClearAll, ClearUnlink, ClearReturns, Cancel, ModeSwap, ModeCancels,
         ModePersists, Abandon
<1> USE DEF Goto, Pending, RestorePhases
<1>5. \A a \in Actors : a # r => pc'[a] = pc[a]
  BY <1>2 DEF Serve, RestoreRequest, SweepList, DeleteRead, DeleteUnlink, DeleteCommit,
         ClearAll, ClearUnlink, ClearReturns, Cancel, ModeSwap, ModeCancels,
         ModePersists, Abandon
<1>6. /\ pc'[r] # "idle" /\ pc[r] # "done"
      /\ pc[r] \in {"copy", "unlink", "commit"} => pc'[r] = "done"
  BY <1>2 DEF Serve, RestoreRequest, SweepList, DeleteRead, DeleteUnlink, DeleteCommit,
         ClearAll, ClearUnlink, ClearReturns, Cancel, ModeSwap, ModeCancels,
         ModePersists, Abandon
<1>7. \/ Looks(r) \/ Unlinks(r) \/ Deletes(r) \/ Clears(r) \/ Drops(r) \/ Returns(r)
  <2> USE <1>1, <1>2 DEF Goto, Pending, RestorePhases
  <2>a. CASE RestoreRequest(r)  BY <2>a DEF RestoreRequest, Looks
  <2>b. CASE SweepList(r)  BY <2>b DEF SweepList, Looks
  <2>c. CASE DeleteRead(r)  BY <2>c DEF DeleteRead, Looks
  <2>d. CASE DeleteUnlink(r)  BY <2>d DEF DeleteUnlink, Unlinks
  <2>e. CASE DeleteCommit(r)
    BY <2>e DEF DeleteCommit, Deletes, Write, TypeOK
  <2>f. CASE ClearAll(r)  BY <2>f DEF ClearAll, Clears, TypeOK
  <2>g. CASE ClearUnlink(r)  BY <2>g DEF ClearUnlink, Drops, TypeOK
  <2>h. CASE ClearReturns(r)  BY <2>h DEF ClearReturns, Returns
  <2>i. CASE Cancel(r)  BY <2>i DEF Cancel, Looks
  <2>j. CASE ModeSwap(r)  BY <2>j DEF ModeSwap, Looks
  <2>k. CASE ModeCancels(r)  BY <2>k DEF ModeCancels, Looks
  <2>l. CASE ModePersists(r)  BY <2>l DEF ModePersists, Looks
  <2>m. CASE Abandon(r)  BY <2>m DEF Abandon, Returns, TypeOK
  <2> QED
    BY <2>a, <2>b, <2>c, <2>d, <2>e, <2>f, <2>g, <2>h, <2>i, <2>j, <2>k, <2>l, <2>m
       DEF Serve
<1> QED  BY <1>3, <1>4, <1>5, <1>6, <1>7

\* A row that is neither active nor absent has left its pipeline.
LEMMA SettledIsLate ==
    ASSUME TypeOK, CustodyInv, NEW j \in Jobs, row[j].status \notin Active \cup {"absent"}
    PROVE  Late(j)
BY DEF CustodyInv, RowAgrees, Late, TypeOK, JobPhases, UnsettledPhases, RestorePhases,
       Active, Filing, Scanning

\* Only rows and files of late jobs change under a request.
LEMMA ServeEffect ==
    ASSUME TypeOK, CustodyInv, NEW r \in Requests, Serve(r), NEW k \in Jobs
    PROVE  /\ pc'[k] = pc[k]
           /\ disposed \subseteq disposed'
           /\ \/ quar'[k] = quar[k]
              \/ /\ Late(k) /\ quar'[k] = "none"
                 /\ quar[k] # "none" => k \in disposed'
           /\ \/ row'[k] = row[k]
              \/ /\ Late(k) /\ row[k].status \in Deletable
                 /\ row'[k].path = row[k].path /\ row'[k].status = "deleted"
              \/ /\ Late(k) /\ row'[k].status = "absent" /\ ~row'[k].path
                 /\ k \in disposed'
<1>1. pc'[k] = pc[k] /\ Target(r) \in Jobs /\ row[k] \in Rows /\ r \in Actors
  BY ServeMoves, QuarantineAssumption, TargetIsJob
     DEF Actors, QuarantineAssumption, TypeOK
<1>2. ASSUME NEW l \in Jobs, Discard(l)
      PROVE  /\ disposed \subseteq disposed'
             /\ k # l => quar'[k] = quar[k]
             /\ k = l => quar'[k] = "none" /\ (quar[k] # "none" => k \in disposed')
  BY <1>2 DEF Discard, TypeOK
<1>3. CASE Looks(r) \/ Returns(r)  BY <1>1, <1>3 DEF Looks, Returns
<1>4. CASE Unlinks(r)
  <2>1. Late(Target(r))  BY <1>4 DEF Unlinks, CustodyInv, RequestsAreLate, Engaged
  <2> QED  BY <1>1, <1>2, <1>4, <2>1 DEF Unlinks
<1>5. CASE Deletes(r)
  <2>1. Late(Target(r))  BY <1>5 DEF Deletes, CustodyInv, RequestsAreLate, Engaged
  <2>2. CASE k = Target(r)
    <3>1. row'[k] = SetDeleted(row[k])  BY <1>5, <2>2 DEF Deletes
    <3>2. row'[k] = row[k] \/ row[k].status \in Deletable  BY <3>1 DEF SetDeleted
    <3> QED  BY <1>1, <1>5, <2>1, <2>2, <3>1, <3>2, EndEffect DEF Deletes
  <2>3. CASE k # Target(r)  BY <1>1, <1>5, <2>3 DEF Deletes
  <2> QED  BY <2>2, <2>3
<1>6. CASE Clears(r)
  <2>1. CASE IsSettled(row[k])
    <3>1. Late(k)  BY <2>1, SettledIsLate DEF IsSettled, Exists
    <3> QED  BY <1>1, <1>6, <2>1, <3>1, FreshStatus DEF Clears
  <2>2. CASE ~IsSettled(row[k])  BY <1>1, <1>6, <2>2 DEF Clears
  <2> QED  BY <2>1, <2>2
<1>7. CASE Drops(r)
  <2>1. PICK l \in todo[r] : Discard(l) \/ UNCHANGED <<quar, disposed>>
    BY <1>7 DEF Drops
  <2>2. l \in Jobs /\ Late(l)  BY DEF TypeOK, CustodyInv, RequestsAreLate
  <2> QED  BY <1>1, <1>2, <1>7, <2>1, <2>2 DEF Drops
<1> QED  BY <1>3, <1>4, <1>5, <1>6, <1>7, ServeMoves

LEMMA ServeCustody ==
    ASSUME TypeOK, CustodyInv, NEW r \in Requests, Serve(r)
    PROVE  CustodyInv'
<1>1. /\ UNCHANGED <<task, src, out>>
      /\ pc[r] \in {"copy", "unlink", "commit"} => pc'[r] = "done"
      /\ \A a \in Actors : a # r => pc'[a] = pc[a]
      /\ \A q \in Requests : q # r => todo'[q] = todo[q]
      /\ \/ Looks(r) \/ Unlinks(r) \/ Deletes(r) \/ Clears(r) \/ Drops(r)
         \/ Returns(r)
  BY ServeMoves
<1>2. PICK j \in Jobs : j = Target(r)  BY TargetIsJob DEF Actors
<1>3. Requests \subseteq Actors /\ Jobs \subseteq Actors /\ r \notin Jobs
  BY QuarantineAssumption DEF Actors, QuarantineAssumption
<1>4. \A b : Target(b)' = Target(b)  BY <1>1, TargetStays
<1>5. \A k \in Jobs : Copies(k)' = Copies(k)  BY <1>1, <1>4 DEF Copies
<1>6. \A k \in Jobs : Late(k) => Late(k)'
  BY ServeEffect DEF Late, Active
<1>7. /\ pc'[r] \in RestorePhases =>
            pc'[r] = "create" /\ row[j].status = "quarantine_kept" /\ row[j].path
      /\ pc'[r] \in {"d_unlink", "d_commit"} =>
            Late(j) /\ pc[r] \notin {"copy", "unlink", "commit"}
      /\ out[r] # "none" => pc'[r] = "done"
  <2>1. row[j].status \in Deletable => Late(j)
    BY SettledIsLate DEF Deletable, Active
  <2>2. out[r] # "none" => pc[r] \in {"copy", "unlink", "commit", "done", "dead"}
    BY <1>3 DEF CustodyInv, OutAgrees
  <2>3. pc[r] # "dead" /\ pc[r] # "done"
    BY ServeMoves DEF TypeOK, RequestPhases, RestorePhases
  <2>4. pc[r] = "d_unlink" => Late(j)
    BY <1>2 DEF CustodyInv, RequestsAreLate, Engaged
  <2> QED
    BY <1>1, <1>2, <2>1, <2>2, <2>3, <2>4 DEF Looks, Unlinks, Deletes, Clears, Drops, Returns, RestorePhases
<1>8. ASSUME NEW k \in Jobs
      PROVE  RowAgrees(k)' /\ DiskAgrees(k)' /\ Kept(k)'
  <2>1. RowAgrees(k) /\ DiskAgrees(k) /\ Kept(k) /\ row[k] \in Rows
    BY DEF CustodyInv, TypeOK
  <2>2. RowAgrees(k)'
    BY <2>1, ServeEffect DEF RowAgrees, Late, RestorePhases, Active, Filing, Scanning
  <2>3. DiskAgrees(k)'
    BY <1>1, <2>1, ServeEffect DEF DiskAgrees, Late, RestorePhases, Active, UnsettledPhases
  <2>4. Kept(k)'
    BY <1>1, <1>5, <2>1, ServeEffect DEF Kept, Late, Active
  <2> QED  BY <2>2, <2>3, <2>4
<1>9. ASSUME NEW k \in Jobs PROVE CancelledStays(k)'
  <2> SUFFICES ASSUME row'[k].status = "cancelled"
               PROVE  pc'[k] = "done" /\ Untouched(k)' /\ (quar'[k] = "full" \/ k \in disposed')
    BY DEF CancelledStays
  <2>1. row'[k] = row[k] /\ pc'[k] = pc[k] /\ disposed \subseteq disposed'
    BY ServeEffect
  <2>2. pc[k] = "done" /\ Untouched(k) /\ (quar[k] = "full" \/ k \in disposed)
    BY <2>1 DEF CustodyInv, CancelledStays
  <2>3. Untouched(k)'
    <3> SUFFICES ASSUME NEW a \in Actors, Target(a)' = k
                 PROVE  pc'[a] \notin RestorePhases /\ out'[a] = "none"
      BY DEF Untouched
    <3>1. pc[a] \notin RestorePhases /\ out[a] = "none"  BY <1>4, <2>2 DEF Untouched
    <3>2. a = r => row[j].status = "cancelled"  BY <1>2, <1>4, <2>1
    <3> QED  BY <1>1, <1>7, <3>1, <3>2
  <2> QED  BY <2>1, <2>2, <2>3, ServeEffect
<1>10. ASSUME NEW a \in Actors PROVE OutAgrees(a)'
  <2>1. CASE a = r  BY <1>1, <1>7, <2>1 DEF OutAgrees, RestorePhases
  <2>2. CASE a # r  BY <1>1, <2>2 DEF CustodyInv, OutAgrees
  <2> QED  BY <2>1, <2>2
<1>11. RequestsAreLate'
  <2>1. Engaged(r)' => Late(j)
    <3>1. row[j].status = "quarantine_kept" => Late(j)
      BY SettledIsLate DEF Active
    <3>2. out[r] # "none" => Late(j)
      BY <1>2 DEF CustodyInv, RequestsAreLate, Engaged
    <3> QED  BY <1>1, <1>7, <3>1, <3>2 DEF Engaged
  <2>2. \A k \in todo'[r] : k \in Jobs /\ Late(k)
    <3>1. CASE Clears(r)
      BY <3>1, SettledIsLate DEF Clears, IsSettled, Exists
    <3>2. CASE todo'[r] \subseteq todo[r]
      BY <3>2 DEF CustodyInv, RequestsAreLate, TypeOK
    <3> QED  BY <1>1, <3>1, <3>2 DEF Looks, Unlinks, Deletes, Drops, Returns
  <2>3. \A q \in Requests : q # r => Engaged(q)' = Engaged(q)
    BY <1>1, <1>3 DEF Engaged
  <2>4. \A q \in Requests : Target(q) \in Jobs /\ \A k \in todo[q] : k \in Jobs
    BY <1>3, TargetIsJob DEF TypeOK
  <2> QED
    BY <1>1, <1>2, <1>4, <1>6, <2>1, <2>2, <2>3, <2>4 DEF CustodyInv, RequestsAreLate
<1>12. RestoresWhole'
  <2> SUFFICES ASSUME NEW a \in Actors, pc'[a] \in RestorePhases
               PROVE  quar'[Target(a)] # "partial"
    BY <1>4 DEF RestoresWhole
  <2>1. Target(a) \in Jobs  BY TargetIsJob
  <2>2. quar[Target(a)] # "partial"
    <3>1. CASE a = r
      BY <1>2, <1>7, <3>1 DEF CustodyInv, DiskAgrees
    <3>2. CASE a # r  BY <1>1, <3>2 DEF CustodyInv, RestoresWhole
    <3> QED  BY <3>1, <3>2
  <2> QED  BY <2>1, <2>2, ServeEffect
<1> QED  BY <1>8, <1>9, <1>10, <1>11, <1>12 DEF CustodyInv

LEMMA CrashCustody ==
    ASSUME TypeOK, CustodyInv, CrashRestart
    PROVE  CustodyInv'
<1>1. /\ UNCHANGED <<task, src, out, row, disposed>>
      /\ \A r \in Requests : todo'[r] = {}
      /\ \A k \in Jobs : quar'[k] = IF row[k].path THEN quar[k] ELSE "none"
  BY DEF CrashRestart, Referenced, fixed, seen
<1>2. /\ Requests \subseteq Actors /\ Jobs \subseteq Actors
      /\ \A r \in Requests : r \notin Jobs
  BY QuarantineAssumption DEF Actors, QuarantineAssumption
<1>3. ASSUME NEW a \in Actors
      PROVE  /\ pc'[a] \in {"waiting", "idle", "ignored", "done", "dead"}
             /\ pc[a] \in {"waiting", "idle", "ignored", "done", "dead"} => pc'[a] = pc[a]
             /\ a \in Jobs /\ pc'[a] # pc[a] => pc'[a] = "dead"
             /\ a \notin Jobs => pc'[a] \in {"idle", "done"}
  <2>1. pc'[a] = Restarted(a)  BY DEF CrashRestart
  <2>2. a \in Jobs => pc[a] \in JobPhases  BY DEF TypeOK
  <2>3. a \notin Jobs => pc[a] \in RequestPhases  BY DEF TypeOK, Actors
  <2> QED
    BY <2>1, <2>2, <2>3 DEF Restarted, JobPhases, RequestPhases, UnsettledPhases, RestorePhases
<1>4. \A b : Target(b)' = Target(b)  BY <1>1, TargetStays
<1>5. \A k \in Jobs : Copies(k)' = Copies(k)  BY <1>1, <1>4 DEF Copies
<1>6. \A a \in Actors : pc'[a] \notin RestorePhases \cup {"d_unlink", "d_commit"}
  BY <1>3 DEF RestorePhases
<1>7. ASSUME NEW k \in Jobs
      PROVE  RowAgrees(k)' /\ DiskAgrees(k)' /\ CancelledStays(k)' /\ Kept(k)'
  <2>1. RowAgrees(k) /\ DiskAgrees(k) /\ CancelledStays(k) /\ Kept(k)
    BY DEF CustodyInv
  <2>2. /\ pc'[k] \in {"waiting", "ignored", "done", "dead"}
        /\ pc'[k] = pc[k] \/ pc'[k] = "dead"
        /\ pc[k] \in {"waiting", "ignored", "done", "dead"} => pc'[k] = pc[k]
        /\ pc[k] \in JobPhases
    <3>1. pc[k] \in JobPhases /\ "idle" \notin JobPhases
      BY DEF TypeOK, JobPhases, UnsettledPhases, RestorePhases
    <3> QED  BY <1>2, <1>3, <3>1
  <2>3. RowAgrees(k)'
    BY <1>1, <2>1, <2>2 DEF RowAgrees, Filing, Scanning, RestorePhases
  <2>4. row[k].status = "received" => ~row[k].path \/ pc[k] = "dead"
    BY <2>1, <2>2 DEF RowAgrees, Filing, Scanning, RestorePhases, UnsettledPhases,
                      JobPhases, Active
  <2>5. pc'[k] = "dead" /\ row'[k].status = "received" => quar'[k] = "none"
    BY <1>1, <2>1, <2>2, <2>4 DEF DiskAgrees
  <2>6. DiskAgrees(k)'
    BY <1>1, <2>1, <2>2, <2>5 DEF DiskAgrees, UnsettledPhases
  <2>7. quar[k] = "full" /\ ~row[k].path =>
            src[k] \/ k \in disposed \/ (pc'[k] = "dead" /\ row[k].status = "received")
    BY <2>1, <2>2 DEF DiskAgrees, RowAgrees, Filing
  <2>8. Kept(k)'
    BY <1>1, <1>5, <2>1, <2>2, <2>7 DEF Kept
  <2>9. Untouched(k) => Untouched(k)'
    BY <1>1, <1>4, <1>6 DEF Untouched
  <2>10. CancelledStays(k)'
    BY <1>1, <2>1, <2>2, <2>9 DEF CancelledStays, RowAgrees
  <2> QED  BY <2>3, <2>6, <2>8, <2>10
<1>8. ASSUME NEW a \in Actors PROVE OutAgrees(a)'
  <2>1. a \in Jobs => pc[a] \in JobPhases  BY DEF TypeOK
  <2>2. a \notin Jobs => pc[a] \in RequestPhases  BY DEF TypeOK, Actors
  <2>3. out'[a] # "none" => pc'[a] \in {"done", "dead"}
    <3>1. CASE out[a] # "none"
      <4>1. pc[a] \in {"copy", "unlink", "commit", "done", "dead"}
        BY <3>1 DEF CustodyInv, OutAgrees
      <4>2. CASE a \in Jobs  BY <1>3, <4>1, <4>2
      <4>3. CASE a \notin Jobs
        <5>1. pc'[a] # "idle"
          BY <4>1, <4>3 DEF CrashRestart, Restarted, JobPhases, RestorePhases
        <5> QED  BY <1>3, <4>3, <5>1
      <4> QED  BY <4>2, <4>3
    <3> QED  BY <1>1, <3>1
  <2> QED  BY <1>3, <2>3 DEF OutAgrees
<1>9. RequestsAreLate'
  <2>1. \A k \in Jobs : Late(k) => Late(k)'
    BY <1>1, <1>2, <1>3 DEF Late
  <2>2. \A r \in Requests : Engaged(r)' => Engaged(r)
    BY <1>1, <1>2, <1>6 DEF Engaged
  <2>3. \A r \in Requests : Target(r) \in Jobs  BY <1>2, TargetIsJob
  <2> QED  BY <1>1, <1>4, <2>1, <2>2, <2>3 DEF CustodyInv, RequestsAreLate
<1>10. RestoresWhole'  BY <1>6 DEF RestoresWhole
<1> QED  BY <1>7, <1>8, <1>9, <1>10 DEF CustodyInv

LEMMA InitCustody == Init => CustodyInv
<1> SUFFICES ASSUME Init PROVE CustodyInv
  OBVIOUS
<1>1. \A a \in Actors : pc[a] \in {"waiting", "idle"} /\ out[a] = "none"
  BY DEF Init
<1>2. \A j \in Jobs : /\ pc[j] = "waiting" /\ row[j] = NoRow
                      /\ src[j] = TRUE /\ quar[j] = "none"
  BY DEF Init, Actors
<1>3. \A r \in Requests : r \in Actors /\ todo[r] = {}  BY DEF Init, Actors
<1>4. \A j \in Jobs : RowAgrees(j) /\ DiskAgrees(j) /\ CancelledStays(j) /\ Kept(j)
  BY <1>2, FreshStatus
     DEF RowAgrees, DiskAgrees, CancelledStays, Kept, Filing, Scanning, RestorePhases,
         UnsettledPhases
<1>5. \A a \in Actors : OutAgrees(a)  BY <1>1 DEF OutAgrees
<1>6. RequestsAreLate /\ RestoresWhole
  BY <1>1, <1>3 DEF RequestsAreLate, Engaged, RestoresWhole, RestorePhases
<1> QED  BY <1>4, <1>5, <1>6 DEF CustodyInv

LEMMA CustodyStep ==
    ASSUME TypeOK, CustodyInv, [Next]_vars
    PROVE  CustodyInv'
<1>1. CASE UNCHANGED vars
  <2> USE <1>1 DEF vars, fixed, disk, seen
  <2>1. \A b : Target(b)' = Target(b)  BY TargetStays
  <2>2. \A k \in Jobs : Copies(k)' = Copies(k)  BY <2>1 DEF Copies
  <2>3. \A k \in Jobs : RowAgrees(k)' = RowAgrees(k) /\ DiskAgrees(k)' = DiskAgrees(k)
    BY DEF RowAgrees, DiskAgrees
  <2>4. \A k \in Jobs : Kept(k)' = Kept(k)  BY <2>2 DEF Kept
  <2>5. \A k \in Jobs : CancelledStays(k) => CancelledStays(k)'
    BY <2>1 DEF CancelledStays, Untouched
  <2>6. \A a \in Actors : OutAgrees(a)' = OutAgrees(a)  BY DEF OutAgrees
  <2>7. RequestsAreLate' /\ RestoresWhole'
    BY <2>1 DEF CustodyInv, RequestsAreLate, RestoresWhole, Engaged, Late
  <2> QED  BY <2>3, <2>4, <2>5, <2>6, <2>7 DEF CustodyInv
<1> QED
  BY <1>1, PipelineCustody, RestoresCustody, ServeCustody, CrashCustody DEF Next

\* The agreement of phases, rows and files holds throughout.
LEMMA CustodyInvariant == Spec => []CustodyInv
<1>1. TypeOK /\ CustodyInv /\ [Next]_vars => CustodyInv'  BY CustodyStep
<1> QED  BY <1>1, InitCustody, TypeCorrect, PTL DEF Spec

-------------------------------------------------------------------------------
(* What follows.                                                            *)

\* Over any number of crashes, failing copies and unlinks, racing requests and
\* dropped handlers, the bytes of an accepted file are complete somewhere, or
\* somebody deleted or cleared it, or the process died inside move_in before the
\* row could say where the copy is (file_mover.rs move_in, main.rs reconcile).
THEOREM LossIsConfined == Spec => []LossOnlyMidIntake
<1>1. CustodyInv => LossOnlyMidIntake  BY DEF CustodyInv, LossOnlyMidIntake, Kept
<1> QED  BY <1>1, CustodyInvariant, PTL

\* A cancelled job is never put back, whoever asks, and its copy leaves the
\* quarantine folder only through a delete or a clear (watcher.rs cancel_job,
\* ui_server.rs restore_quarantine_job).
THEOREM CancelledNeverLeaves == Spec => []CancelledIsContained
<1>1. CustodyInv => CancelledIsContained
  <2> SUFFICES ASSUME CustodyInv, NEW j \in Jobs, row[j].status = "cancelled"
               PROVE  Copies(j) = {} /\ (quar[j] = "full" \/ j \in disposed)
    BY DEF CancelledIsContained
  <2>1. Untouched(j) /\ (quar[j] = "full" \/ j \in disposed)
    BY DEF CustodyInv, CancelledStays
  <2>2. Copies(j) = {}  BY <2>1 DEF Untouched, Copies
  <2> QED  BY <2>1, <2>2
<1> QED  BY <1>1, CustodyInvariant, PTL

\* The first crash is the only way the count leaves zero.
LEMMA CrashesStay ==
    ASSUME [Next]_vars
    PROVE  crashes' = crashes \/ CrashRestart
<1>1. ASSUME NEW j \in Jobs, Pipeline(j) PROVE crashes' = crashes
  BY <1>1 DEF Pipeline, Proceeds, Accept, Ignore, CopyIn, RemoveSource, RecordQuarantine,
       Dispatch, BeginLocal, LocalAnswers, LocalCancelled, EndLocal, KeptBeforeVt,
       Unreadable, CacheHit, CacheMiss, AcquirePermit, VtAnswers, VtCancelled, Idle
<1>2. ASSUME NEW a \in Actors, Restores(a) PROVE crashes' = crashes
  BY <1>2 DEF Restores, RestoreCreate, RestoreCopy, RestoreUnlink, RestoreCommit, RestoreFrame
<1>3. ASSUME NEW r \in Requests, Serve(r) PROVE crashes' = crashes
  BY <1>3 DEF Serve, RestoreRequest, SweepList, DeleteRead, DeleteUnlink, DeleteCommit,
       ClearAll, ClearUnlink, ClearReturns, Cancel, ModeSwap, ModeCancels,
       ModePersists, Abandon, ApiFrame
<1> QED  BY <1>1, <1>2, <1>3 DEF Next, vars

\* While nothing has crashed no pipeline is dead.
LEMMA NobodyDies == Spec => [](crashes = 0 => \A j \in Jobs : pc[j] # "dead")
<1> DEFINE Alive == crashes = 0 => \A j \in Jobs : pc[j] # "dead"
<1>1. Init => Alive  BY DEF Init, Actors
<1>2. TypeOK /\ Alive /\ [Next]_vars => Alive'
  <2> SUFFICES ASSUME TypeOK, Alive, [Next]_vars, crashes' = 0, NEW k \in Jobs
               PROVE  pc'[k] # "dead"
    OBVIOUS
  <2>0. crashes' = crashes /\ ~CrashRestart
    <3>1. CASE CrashRestart
      <4>1. crashes \in Nat /\ crashes' = crashes + 1
        BY <3>1, QuarantineAssumption DEF CrashRestart, TypeOK, QuarantineAssumption
      <4> QED  BY <4>1
    <3> QED  BY <3>1, CrashesStay
  <2>1. ASSUME NEW j \in Jobs, Pipeline(j) PROVE pc'[k] # "dead"
    <3>1. pc'[j] # "dead"
      BY <2>1, PipelineMoves DEF Filed, Scanned, Scanning, Fell
    <3> QED  BY <2>0, <2>1, <3>1, PipelineFrame DEF Actors
  <2>2. ASSUME NEW a \in Actors, Restores(a) PROVE pc'[k] # "dead"
    <3>1. pc'[a] # "dead"  BY <2>2, RestoreFrames DEF RestoreMoves
    <3> QED  BY <2>0, <2>2, <3>1, RestoreFrames DEF Actors
  <2>3. ASSUME NEW r \in Requests, Serve(r) PROVE pc'[k] # "dead"
    <3>1. k # r  BY QuarantineAssumption DEF QuarantineAssumption
    <3> QED  BY <2>0, <2>3, <3>1, ServeMoves DEF Actors
  <2>4. CASE UNCHANGED vars  BY <2>0, <2>4 DEF vars
  <2> QED  BY <2>0, <2>1, <2>2, <2>3, <2>4 DEF Next
<1> QED  BY <1>1, <1>2, TypeCorrect, PTL DEF Spec

\* Until the first crash the bytes of every accepted file are complete in some
\* place, unless somebody deleted or cleared it: no race of the pipeline with
\* restores, deletes, clears and sweeps, no failing copy or unlink and no dropped
\* handler loses a file (file_mover.rs move_in, restore_to_path, delete_file).
THEOREM NothingIsLost == Spec => [](crashes = 0 => ContentIsSomewhere)
<1>1. CustodyInv /\ (\A j \in Jobs : pc[j] # "dead") => ContentIsSomewhere
  BY DEF CustodyInv, Kept, ContentIsSomewhere
<1> QED  BY <1>1, CustodyInvariant, NobodyDies, PTL

\* A pipeline's own step always moves it on.
LEMMA PipelineProgress ==
    ASSUME TypeOK, NEW j \in Jobs, Pipeline(j)
    PROVE  pc'[j] # pc[j]
<1>1. \A p : pc' = [pc EXCEPT ![j] = p] => pc'[j] = p  BY DEF TypeOK, Actors
<1> QED
  BY <1>1 DEF Pipeline, Proceeds, Accept, Ignore, CopyIn, RemoveSource, RecordQuarantine,
       Dispatch, BeginLocal, LocalAnswers, LocalCancelled, EndLocal, KeptBeforeVt,
       Unreadable, CacheHit, CacheMiss, AcquirePermit, VtAnswers, VtCancelled,
       Fails, Goto

\* Until its row is settled only the pipeline's own steps touch the row or the
\* quarantine copy of a job: requests check the status first, and a restart
\* spares them (ui_server.rs delete_quarantine_job, job_store.rs clear_all).
THEOREM RequestsKeepOff == Spec => ActiveRowsBelongToPipeline
<1> DEFINE Off == \A j \in Jobs : row[j].status \in Active /\ pc'[j] = pc[j] =>
                        row'[j] = row[j] /\ quar'[j] = quar[j]
<1>1. TypeOK /\ CustodyInv /\ [Next]_vars => [Off]_vars
  <2> SUFFICES ASSUME TypeOK, CustodyInv, Next, NEW k \in Jobs,
                      row[k].status \in Active, pc'[k] = pc[k]
               PROVE  row'[k] = row[k] /\ quar'[k] = quar[k]
    OBVIOUS
  <2>1. ~Late(k)  BY DEF Late
  <2>2. ASSUME NEW j \in Jobs, Pipeline(j) PROVE row'[k] = row[k] /\ quar'[k] = quar[k]
    BY <2>2, PipelineFrame, PipelineProgress
  <2>3. ASSUME NEW a \in Actors, Restores(a)
        PROVE  row'[k] = row[k] /\ quar'[k] = quar[k]
    <3>1. CASE a \in Jobs
      <4>1. pc'[a] # pc[a]
        BY <2>3, RestoreFrames DEF RestoreMoves, RestorePhases
      <4> QED  BY <2>3, <3>1, <4>1, RestoreFrames DEF Target
    <3>2. CASE a \notin Jobs
      <4>1. a \in Requests /\ Engaged(a)
        BY <2>3, <3>2, RestoreFrames DEF Actors, Engaged
      <4>2. Target(a) # k  BY <2>1, <4>1 DEF CustodyInv, RequestsAreLate
      <4> QED  BY <2>3, <4>2, RestoreFrames
    <3> QED  BY <3>1, <3>2
  <2>4. ASSUME NEW r \in Requests, Serve(r)
        PROVE  row'[k] = row[k] /\ quar'[k] = quar[k]
    BY <2>1, <2>4, ServeEffect
  <2>5. CASE CrashRestart
    <3>1. row' = row /\ quar'[k] = IF row[k].path THEN quar[k] ELSE "none"
      BY <2>5 DEF CrashRestart, Referenced
    <3>2. RowAgrees(k) /\ DiskAgrees(k)  BY DEF CustodyInv
    <3>3. pc[k] \in {"waiting", "ignored", "done", "dead"}
      BY <2>5 DEF CrashRestart, Restarted, TypeOK, Actors, JobPhases, UnsettledPhases,
                  RestorePhases
    <3> QED  BY <3>1, <3>2, <3>3 DEF RowAgrees, DiskAgrees, Active
  <2> QED  BY <2>2, <2>3, <2>4, <2>5 DEF Next
<1> QED
  BY <1>1, TypeCorrect, CustodyInvariant, PTL DEF Spec, ActiveRowsBelongToPipeline

-------------------------------------------------------------------------------
(* Rows tell the truth at rest.                                             *)

LEMMA PipelinePlace ==
    ASSUME TypeOK, CustodyInv, PlaceInv, ~IOFaults, NEW j \in Jobs, Pipeline(j)
    PROVE  PlaceInv'
<1>1. /\ UNCHANGED <<task, todo, out, disposed>>
      /\ pc[j] \in UnsettledPhases \cup {"waiting"}
      /\ \A a \in Actors : a # j => pc'[a] = pc[a]
      /\ \A k \in Jobs : k # j => row'[k] = row[k] /\ src'[k] = src[k] /\ quar'[k] = quar[k]
  BY PipelineFrame
<1>2. /\ \A r \in Requests : (Target(r) = j => ~Engaged(r)) /\ j \notin todo[r]
      /\ Jobs \subseteq Actors /\ Requests \subseteq Actors /\ \A r \in Requests : r # j
      /\ Target(j) = j
  BY <1>1, UnsettledIsFree, QuarantineAssumption DEF Actors, QuarantineAssumption, Target
<1>3. \A a : Target(a)' = Target(a)  BY <1>1, TargetStays
<1>4. \A k \in Jobs : Copies(k)' = Copies(k)  BY <1>1, <1>3 DEF Copies
<1>5. /\ pc'[j] # "dead" /\ row'[j].status \notin {"restored", "deleted"}
      /\ row'[j].status \notin {"received", "absent"} => row'[j].path
      /\ row'[j].status \in {"quarantine_kept", "cancelled"} => quar'[j] = "full"
      /\ row'[j].status = "absent" => quar'[j] = "none"
  <2>1. RowAgrees(j) /\ DiskAgrees(j) /\ pc[j] # "dead"  BY DEF CustodyInv, PlaceInv
  <2>2. CASE Filed(j)
    BY <2>1, <2>2 DEF Filed, RowAgrees, DiskAgrees, Filing, UnsettledPhases
  <2>3. CASE Scanned(j)
    <3>1. quar[j] = "full" /\ row[j].status = "scanning" /\ row[j].path
      BY <2>1, <2>3 DEF Scanned, Scanning, RowAgrees, DiskAgrees, UnsettledPhases
    <3> QED  BY <2>3, <3>1 DEF Scanned, Scanning
  <2> QED  BY <2>2, <2>3, PipelineMoves
<1>6. ASSUME NEW k \in Jobs, k # j
      PROVE  /\ pc'[k] # "dead"
             /\ row'[k].status \notin {"received", "absent"} => row'[k].path
             /\ row'[k].status \in {"quarantine_kept", "cancelled"} =>
                    \/ quar'[k] = "full"
                    \/ \E a \in Actors : Target(a)' = k /\ pc'[a] \in {"commit", "d_commit"}
             /\ row'[k].status = "restored" => quar'[k] = "none" /\ Copies(k)' # {}
             /\ row'[k].status = "deleted" => quar'[k] = "none"
             /\ row'[k].status = "absent" =>
                    \/ quar'[k] = "none"
                    \/ \E r \in Requests : pc'[r] = "c_unlink" /\ k \in todo'[r]
  <2>1. \A a \in Actors : Target(a) = k => pc'[a] = pc[a]
    BY <1>1, <1>2, <1>6
  <2> QED  BY <1>1, <1>2, <1>3, <1>4, <1>6, <2>1 DEF PlaceInv
<1>7. \A r \in Requests : pc'[r] = "d_commit" => quar'[Target(r)] = "none"
  <2> SUFFICES ASSUME NEW r \in Requests, pc'[r] = "d_commit"
               PROVE  quar'[Target(r)] = "none"
    OBVIOUS
  <2>1. pc[r] = "d_commit" /\ Target(r) # j  BY <1>1, <1>2 DEF Engaged
  <2> QED  BY <1>1, <1>2, <2>1, TargetIsJob DEF PlaceInv
<1>8. \A r \in Requests : \A k \in todo'[r] : row'[k].status = "absent"
  BY <1>1, <1>2 DEF PlaceInv, TypeOK
<1>9. \A k \in Jobs :
        /\ pc'[k] # "dead"
        /\ row'[k].status \notin {"received", "absent"} => row'[k].path
        /\ row'[k].status \in {"quarantine_kept", "cancelled"} =>
                \/ quar'[k] = "full"
                \/ \E a \in Actors : Target(a)' = k /\ pc'[a] \in {"commit", "d_commit"}
        /\ row'[k].status = "restored" => quar'[k] = "none" /\ Copies(k)' # {}
        /\ row'[k].status = "deleted" => quar'[k] = "none"
        /\ row'[k].status = "absent" =>
                \/ quar'[k] = "none"
                \/ \E r \in Requests : pc'[r] = "c_unlink" /\ k \in todo'[r]
  BY <1>5, <1>6
<1> QED  BY <1>3, <1>7, <1>8, <1>9 DEF PlaceInv

LEMMA RestoresPlace ==
    ASSUME TypeOK, CustodyInv, RestoreInv, PlaceInv, NEW a \in Actors, Restores(a)
    PROVE  PlaceInv'
<1>0. PICK j \in Jobs : j = Target(a)  BY TargetIsJob
<1>1. /\ UNCHANGED <<task, src, todo, disposed>>
      /\ pc[a] \in RestorePhases
      /\ \A b \in Actors : b # a => pc'[b] = pc[b] /\ out'[b] = out[b]
      /\ \A k \in Jobs : k # j => row'[k] = row[k] /\ quar'[k] = quar[k]
      /\ RestoreMoves(a)
  BY <1>0, RestoreFrames
<1>2. /\ row[j] \in Rows /\ (a \in Jobs => j = a)
      /\ \A r \in Requests : r \in Actors /\ r \notin Jobs
      /\ Jobs \subseteq Actors
  BY <1>0, QuarantineAssumption DEF TypeOK, Target, Actors, QuarantineAssumption
<1>3. \A b : Target(b)' = Target(b)  BY <1>1, TargetStays
<1>4. /\ pc'[a] \notin {"dead", "d_commit"}
      /\ pc[a] # "c_unlink"
      /\ \A k \in Jobs : quar'[k] \in {"none", quar[k]}
  BY <1>0, <1>1 DEF RestoreMoves, RestorePhases
<1>5. \A k \in Jobs : Copies(k) \subseteq Copies(k)'
  <2>1. out[a] \in {"copy", "ready"} => out'[a] \in {"copy", "ready"}
    BY <1>1 DEF RestoreMoves, CustodyInv, OutAgrees
  <2> QED  BY <1>1, <1>3, <2>1 DEF Copies
<1>6. row[j].status # "received"
  BY <1>0, <1>1, <1>2 DEF CustodyInv, RowAgrees, RequestsAreLate, Engaged, Late, Active, Actors
<1>7. \/ row'[j] = row[j] /\ pc[a] # "commit" /\ (quar'[j] = quar[j] \/ pc'[a] = "commit")
      \/ /\ pc[a] = "commit" /\ row'[j].path = row[j].path
         /\ row[j].status = "absent" => row'[j].status = "absent"
         /\ row[j].status # "absent" => row'[j].status = "restored"
         /\ quar'[j] = "none" /\ a \in Copies(j)'
      \/ /\ row'[j].path = row[j].path
         /\ row[j].status = "absent" => row'[j].status = "absent"
         /\ row[j].status # "absent" => row'[j].status = "failed"
  <2>1. CASE pc[a] = "commit"
    <3>1. row'[j] = SetRestored(row[j]) /\ quar' = quar
      BY <1>0, <1>1, <2>1 DEF RestoreMoves
    <3>2. quar[j] = "none"  BY <1>0, <2>1 DEF RestoreInv, Winner
    <3>3. out'[a] = "ready"
      BY <1>1, <2>1 DEF RestoreMoves, CustodyInv, OutAgrees
    <3>4. a \in Copies(j)'  BY <1>0, <1>3, <3>3 DEF Copies
    <3> QED  BY <1>2, <2>1, <3>1, <3>2, <3>4, EndEffect
  <2>2. CASE pc[a] # "commit"
    <3>1. \/ row'[j] = row[j] /\ (quar'[j] = quar[j] \/ pc'[a] = "commit")
          \/ row'[j] = Fail(SetStage(row[j], "error"))
      BY <1>0, <1>1, <2>2 DEF RestoreMoves
    <3> QED  BY <1>2, <2>2, <3>1, FailEffect
  <2> QED  BY <2>1, <2>2
<1>8. ASSUME NEW k \in Jobs
      PROVE  /\ pc'[k] # "dead"
             /\ row'[k].status \notin {"received", "absent"} => row'[k].path
             /\ row'[k].status \in {"quarantine_kept", "cancelled"} =>
                    \/ quar'[k] = "full"
                    \/ \E b \in Actors : Target(b)' = k /\ pc'[b] \in {"commit", "d_commit"}
             /\ row'[k].status = "restored" => quar'[k] = "none" /\ Copies(k)' # {}
             /\ row'[k].status = "deleted" => quar'[k] = "none"
             /\ row'[k].status = "absent" =>
                    \/ quar'[k] = "none"
                    \/ \E r \in Requests : pc'[r] = "c_unlink" /\ k \in todo'[r]
  <2>1. pc'[k] # "dead"  BY <1>1, <1>2, <1>4 DEF PlaceInv
  <2>2. row'[k].status \notin {"received", "absent"} => row'[k].path
    BY <1>1, <1>6, <1>7 DEF PlaceInv
  <2>3. row'[k].status = "absent" => row[k].status = "absent"
    BY <1>1, <1>7
  <2>4. \A r \in Requests : pc[r] = "c_unlink" => pc'[r] = "c_unlink"
    BY <1>1, <1>2, <1>4
  <2>5. row'[k].status = "absent" =>
            \/ quar'[k] = "none"
            \/ \E r \in Requests : pc'[r] = "c_unlink" /\ k \in todo'[r]
    BY <1>1, <1>4, <2>3, <2>4 DEF PlaceInv
  <2>6. row'[k].status = "deleted" => quar'[k] = "none"
    BY <1>1, <1>4, <1>7 DEF PlaceInv
  <2>7. row'[k].status = "restored" => quar'[k] = "none" /\ Copies(k)' # {}
    BY <1>1, <1>4, <1>5, <1>7 DEF PlaceInv
  <2>8. ASSUME row'[k].status \in {"quarantine_kept", "cancelled"}, quar'[k] # "full"
        PROVE  \E b \in Actors : Target(b)' = k /\ pc'[b] \in {"commit", "d_commit"}
    <3>1. row'[k] = row[k] /\ (k = j => pc[a] # "commit")  BY <1>1, <1>7, <2>8
    <3>2. CASE quar[k] = "full"
      <4>1. k = j /\ pc'[a] = "commit"  BY <1>1, <1>7, <2>8, <3>1, <3>2
      <4> QED  BY <1>0, <1>3, <4>1
    <3>3. CASE quar[k] # "full"
      <4>1. PICK b \in Actors : Target(b) = k /\ pc[b] \in {"commit", "d_commit"}
        BY <2>8, <3>1, <3>3 DEF PlaceInv
      <4>2. b # a  BY <1>0, <1>1, <3>1, <4>1 DEF RestorePhases
      <4> QED  BY <1>1, <1>3, <4>1, <4>2
    <3> QED  BY <3>2, <3>3
  <2> QED  BY <2>1, <2>2, <2>5, <2>6, <2>7, <2>8
<1>9. \A r \in Requests : pc'[r] = "d_commit" => quar'[Target(r)] = "none"
  <2>1. \A r \in Requests : pc'[r] = "d_commit" => pc[r] = "d_commit"
    BY <1>1, <1>2, <1>4
  <2>2. \A r \in Requests : Target(r) \in Jobs  BY <1>2, TargetIsJob
  <2> QED  BY <1>4, <2>1, <2>2 DEF PlaceInv
<1>10. \A r \in Requests : \A k \in todo'[r] : row'[k].status = "absent"
  BY <1>1, <1>7 DEF PlaceInv, TypeOK
<1> QED  BY <1>3, <1>8, <1>9, <1>10 DEF PlaceInv

LEMMA ServePlace ==
    ASSUME TypeOK, CustodyInv, PlaceInv, ~IOFaults, ~Timeouts,
           NEW r \in Requests, Serve(r)
    PROVE  PlaceInv'
<1>1. /\ UNCHANGED <<task, src, out>>
      /\ pc[r] \in {"copy", "unlink", "commit"} => pc'[r] = "done"
      /\ \A a \in Actors : a # r => pc'[a] = pc[a]
      /\ \A q \in Requests : q # r => todo'[q] = todo[q]
      /\ \/ Looks(r) \/ Unlinks(r) \/ Deletes(r) \/ Clears(r) \/ Drops(r)
         \/ Returns(r)
  BY ServeMoves
<1>2. PICK j \in Jobs : j = Target(r)  BY TargetIsJob DEF Actors
<1>3. Requests \subseteq Actors /\ Jobs \subseteq Actors /\ r \notin Jobs
  BY QuarantineAssumption DEF Actors, QuarantineAssumption
<1>4. \A b : Target(b)' = Target(b)  BY <1>1, TargetStays
<1>5. \A k \in Jobs : Copies(k)' = Copies(k)  BY <1>1, <1>4 DEF Copies
<1>6. \A k \in Jobs : quar'[k] \in {"none", quar[k]}  BY ServeEffect
<1>7. Returns(r) => pc[r] = "c_unlink" /\ todo[r] = {}  BY DEF Returns
<1>8. \A k \in Jobs : row[k].status = "absent" => row'[k].status = "absent"
  BY ServeEffect DEF Deletable
<1>9. ASSUME NEW l \in Jobs, Discard(l)
      PROVE  quar'[l] = "none" /\ \A k \in Jobs : k # l => quar'[k] = quar[k]
  BY <1>9 DEF Discard, TypeOK
<1>10. \A k \in Jobs : row'[k].status \notin {"received", "absent"} => row'[k].path
  BY ServeEffect DEF PlaceInv, Deletable
<1>11. \A k \in Jobs : row'[k].status = "restored" => quar'[k] = "none" /\ Copies(k)' # {}
  BY <1>5, <1>6, ServeEffect DEF PlaceInv
<1>12. ASSUME NEW k \in Jobs, row'[k].status = "deleted" PROVE quar'[k] = "none"
  <2>1. CASE row'[k] = row[k]  BY <1>6, <1>12, <2>1 DEF PlaceInv
  <2>2. CASE row'[k] # row[k]
    <3>1. row'[k].status # "absent"  BY <1>12
    <3>2. Deletes(r) /\ k = j
      <4>1. CASE Clears(r)  BY <2>2, <3>1, <4>1, FreshStatus DEF Clears
      <4> QED  BY <1>1, <1>2, <2>2, <4>1 DEF Looks, Unlinks, Deletes, Drops, Returns
    <3> QED  BY <1>2, <1>6, <3>2 DEF Deletes, PlaceInv
  <2> QED  BY <2>1, <2>2
<1>13. ASSUME NEW k \in Jobs, row'[k].status = "absent"
       PROVE  \/ quar'[k] = "none"
              \/ \E q \in Requests : pc'[q] = "c_unlink" /\ k \in todo'[q]
  <2>1. CASE row[k].status = "absent"
    <3> SUFFICES ASSUME quar'[k] # "none"
                 PROVE  \E q \in Requests : pc'[q] = "c_unlink" /\ k \in todo'[q]
      OBVIOUS
    <3>1. PICK q \in Requests : pc[q] = "c_unlink" /\ k \in todo[q]
      BY <1>6, <2>1 DEF PlaceInv
    <3>2. CASE q # r  BY <1>1, <1>3, <3>1, <3>2
    <3>3. CASE q = r
      <4>1. Drops(r)
        BY <1>1, <1>7, <3>1, <3>3 DEF Looks, Unlinks, Deletes, Clears
      <4>2. PICK l \in todo[r] : todo'[r] = todo[r] \ {l} /\ Discard(l)
        BY <4>1 DEF Drops
      <4>3. l \in Jobs  BY DEF TypeOK
      <4>4. k # l  BY <1>9, <4>2, <4>3
      <4> QED  BY <3>1, <3>3, <4>1, <4>2, <4>4 DEF Drops
    <3> QED  BY <3>2, <3>3
  <2>2. CASE row[k].status # "absent"
    <3>1. Clears(r) /\ IsSettled(row[k])
      <4>1. CASE Deletes(r)
        <5>1. k = j /\ row'[k] = SetDeleted(row[k])
          BY <1>2, <1>13, <2>2, <4>1 DEF Deletes
        <5>2. row[k] \in Rows  BY DEF TypeOK
        <5> QED  BY <1>13, <2>2, <5>1, <5>2, EndEffect
      <4> QED  BY <1>1, <1>13, <2>2, <4>1 DEF Looks, Unlinks, Clears, Drops, Returns
    <3>2. row[k].path  BY <2>2, <3>1 DEF IsSettled, Active, PlaceInv
    <3> QED  BY <3>1, <3>2 DEF Clears
  <2> QED  BY <2>1, <2>2
<1>14. ASSUME NEW k \in Jobs, row'[k].status \in {"quarantine_kept", "cancelled"},
              quar'[k] # "full"
       PROVE  \E b \in Actors : Target(b)' = k /\ pc'[b] \in {"commit", "d_commit"}
  <2>1. row'[k] = row[k]  BY <1>14, ServeEffect
  <2>2. CASE quar[k] = "full"
    <3>1. Unlinks(r) \/ Drops(r)
      BY <1>1, <1>14, <2>2 DEF Looks, Deletes, Clears, Returns
    <3>2. ~Drops(r)
      <4> SUFFICES ASSUME Drops(r) PROVE FALSE
        OBVIOUS
      <4>1. PICK l \in todo[r] : Discard(l)  BY DEF Drops
      <4>2. l \in Jobs /\ row[l].status = "absent"  BY DEF TypeOK, PlaceInv
      <4>3. k = l  BY <1>9, <1>14, <2>2, <4>1, <4>2
      <4> QED  BY <1>14, <2>1, <4>2, <4>3
    <3>3. Discard(j) /\ pc'[r] = "d_commit"  BY <1>2, <3>1, <3>2 DEF Unlinks
    <3>4. k = j  BY <1>9, <1>14, <2>2, <3>3
    <3> QED  BY <1>2, <1>3, <1>4, <3>3, <3>4
  <2>3. CASE quar[k] # "full"
    <3>1. PICK b \in Actors : Target(b) = k /\ pc[b] \in {"commit", "d_commit"}
      BY <1>14, <2>1, <2>3 DEF PlaceInv
    <3>2. CASE b # r  BY <1>1, <1>4, <3>1, <3>2
    <3>3. CASE b = r
      <4>1. Deletes(r)
        BY <1>1, <1>7, <3>1, <3>3 DEF Looks, Unlinks, Clears, Drops, RestorePhases
      <4>2. row'[k] = SetDeleted(row[k]) /\ row[k] \in Rows
        BY <3>1, <3>3, <4>1 DEF Deletes, TypeOK
      <4>3. row'[k].status = "deleted"
        BY <1>14, <2>1, <4>2, EndEffect DEF Deletable
      <4> QED  BY <1>14, <4>3
    <3> QED  BY <3>2, <3>3
  <2> QED  BY <2>2, <2>3
<1>15. \A k \in Jobs : pc'[k] # "dead"  BY <1>1, <1>3 DEF PlaceInv
<1>16. ASSUME NEW q \in Requests
       PROVE  /\ pc'[q] = "d_commit" => quar'[Target(q)] = "none"
              /\ \A k \in todo'[q] : row'[k].status = "absent"
  <2>1. Target(q) \in Jobs  BY <1>3, TargetIsJob
  <2>2. CASE q # r
    <3>1. pc'[q] = pc[q] /\ todo'[q] = todo[q]  BY <1>1, <1>3, <2>2
    <3> QED  BY <1>6, <1>8, <2>1, <3>1 DEF PlaceInv, TypeOK
  <2>3. CASE q = r
    <3>1. ~(row[j].status \in Deletable /\ ~row[j].path)
      BY DEF PlaceInv, Deletable
    <3>2. pc'[r] = "d_commit" => Unlinks(r) /\ Discard(j)
      BY <1>1, <1>2, <3>1 DEF Looks, Unlinks, Deletes, Clears, Drops, Returns
    <3>3. CASE Clears(r)
      <4>1. \A k \in todo'[r] : row'[k] = NoRow  BY <3>3 DEF Clears
      <4> QED  BY <2>3, <3>3, <4>1, FreshStatus DEF Clears
    <3>4. CASE todo'[r] \subseteq todo[r]
      BY <1>2, <1>8, <1>9, <2>3, <3>2, <3>4 DEF PlaceInv, TypeOK
    <3> QED  BY <1>1, <3>3, <3>4 DEF Looks, Unlinks, Deletes, Drops, Returns
  <2> QED  BY <2>2, <2>3
<1>17. \A k \in Jobs :
        /\ pc'[k] # "dead"
        /\ row'[k].status \notin {"received", "absent"} => row'[k].path
        /\ row'[k].status \in {"quarantine_kept", "cancelled"} =>
                \/ quar'[k] = "full"
                \/ \E a \in Actors : Target(a)' = k /\ pc'[a] \in {"commit", "d_commit"}
        /\ row'[k].status = "restored" => quar'[k] = "none" /\ Copies(k)' # {}
        /\ row'[k].status = "deleted" => quar'[k] = "none"
        /\ row'[k].status = "absent" =>
                \/ quar'[k] = "none"
                \/ \E q \in Requests : pc'[q] = "c_unlink" /\ k \in todo'[q]
  BY <1>10, <1>11, <1>12, <1>13, <1>14, <1>15
<1> QED  BY <1>4, <1>16, <1>17 DEF PlaceInv

LEMMA RestoreInvariant == Spec => []RestoreInv
<1>1. Init => RestoreInv  BY DEF Init, RestoreInv, Winner, Actors
<1>2. TypeOK /\ RestoreInv /\ [Next]_vars => RestoreInv'  BY RestoreInvStep
<1> QED  BY <1>1, <1>2, TypeCorrect, PTL DEF Spec

LEMMA PlaceStep ==
    ASSUME ~IOFaults, ~Timeouts, TypeOK, CustodyInv, RestoreInv,
           crashes = 0 => PlaceInv, [Next]_vars, crashes' = 0
    PROVE  PlaceInv'
<1>1. crashes' = crashes /\ ~CrashRestart
  <2>1. CASE CrashRestart
    <3>1. crashes \in Nat /\ crashes' = crashes + 1
      BY <2>1, QuarantineAssumption DEF CrashRestart, TypeOK, QuarantineAssumption
    <3> QED  BY <3>1
  <2> QED  BY <2>1, CrashesStay
<1>2. PlaceInv  BY <1>1
<1>3. CASE UNCHANGED vars
  <2> USE <1>3 DEF vars, fixed, disk, seen
  <2>1. \A b : Target(b)' = Target(b)  BY TargetStays
  <2>2. \A k \in Jobs : Copies(k)' = Copies(k)  BY <2>1 DEF Copies
  <2> QED  BY <1>2, <2>1, <2>2 DEF PlaceInv
<1> QED
  BY <1>1, <1>2, <1>3, PipelinePlace, RestoresPlace, ServePlace DEF Next

LEMMA InitPlace == Init => PlaceInv
<1> SUFFICES ASSUME Init PROVE PlaceInv
  OBVIOUS
<1>1. \A j \in Jobs : pc[j] = "waiting" /\ row[j] = NoRow /\ quar[j] = "none"
  BY DEF Init, Actors
<1>2. \A r \in Requests : pc[r] \in {"waiting", "idle"} /\ todo[r] = {}
  BY DEF Init, Actors
<1> QED  BY <1>1, <1>2, FreshStatus DEF PlaceInv

\* Where no copy or unlink fails, no handler is dropped and nothing has crashed,
\* the status of a row says where the file is whenever nobody works on it,
\* however many restores, deletes, sweeps and clears raced for it
\* (job_store.rs set_restored, set_deleted and clear_all, each a statement apart
\* from the unlink it reports).
THEOREM RowsTellThePlace ==
    ASSUME ~IOFaults, ~Timeouts
    PROVE  Spec => [](crashes = 0 => StatusTellsPlace)
<1> DEFINE Placed == crashes = 0 => PlaceInv
<1>1. Init => Placed  BY InitPlace
<1>2. TypeOK /\ CustodyInv /\ RestoreInv /\ Placed /\ [Next]_vars => Placed'
  BY PlaceStep
<1>3. TypeOK /\ CustodyInv /\ PlaceInv => StatusTellsPlace
  <2> SUFFICES ASSUME TypeOK, CustodyInv, PlaceInv, NEW j \in Jobs, AtRest(j)
               PROVE
                  CASE row[j].status \in {"quarantine_kept", "cancelled"} -> quar[j] = "full"
                    [] row[j].status = "restored" -> quar[j] = "none" /\ Copies(j) # {}
                    [] row[j].status \in {"deleted", "absent"} -> quar[j] = "none"
                    [] OTHER -> row[j].status = "failed"
    BY DEF StatusTellsPlace
  <2>1. pc[j] = "done" /\ row[j].status \notin Active
    BY DEF AtRest, PlaceInv, CustodyInv, RowAgrees
  <2>2. row[j].status \in {"quarantine_kept", "cancelled", "restored", "deleted",
                           "absent", "failed"}
    BY <2>1 DEF TypeOK, Rows, Statuses, Active, Deletable
  <2>3. \A a \in Actors : Target(a) = j => pc[a] \in {"idle", "done"}
    BY <2>1 DEF AtRest, Actors, Target
  <2>4. row[j].status \in {"quarantine_kept", "cancelled"} => quar[j] = "full"
    BY <2>3 DEF PlaceInv
  <2>5. row[j].status = "restored" => quar[j] = "none" /\ Copies(j) # {}
    BY DEF PlaceInv
  <2>6. row[j].status \in {"deleted", "absent"} => quar[j] = "none"
    BY DEF PlaceInv, AtRest
  <2> QED  BY <2>2, <2>4, <2>5, <2>6
<1> QED
  BY <1>1, <1>2, <1>3, TypeCorrect, CustodyInvariant, RestoreInvariant, PTL DEF Spec

-------------------------------------------------------------------------------
(* The system implements FileCustody as long as the process lives.          *)

\* The refinement mapping, named.
Placed == [j \in Jobs |-> PlaceOf(j)]
Allowed == {j \in Jobs : Content[j] \in vouched} \cup ForcedJobs

Refined == [Custody!CustodyNext]_<<Placed, Allowed, disposed>>

\* The steps that move bytes of one file ...
LEMMA AbstractMoves ==
    ASSUME NEW j \in Jobs, \A k \in Jobs : k # j => PlaceOf(k)' = PlaceOf(k),
           Allowed' = Allowed
    PROVE  /\ /\ "watch" \in PlaceOf(j) /\ UNCHANGED disposed
              /\ PlaceOf(j)' = PlaceOf(j) \cup {"vault"}
              => Refined
           /\ /\ {"watch", "vault"} \subseteq PlaceOf(j) /\ UNCHANGED disposed
              /\ PlaceOf(j)' = PlaceOf(j) \ {"watch"}
              => Refined
           /\ /\ j \in Allowed /\ "vault" \in PlaceOf(j) /\ UNCHANGED disposed
              /\ PlaceOf(j)' = PlaceOf(j) \cup {"released"}
              => Refined
           /\ /\ {"vault", "released"} \subseteq PlaceOf(j) /\ UNCHANGED disposed
              /\ PlaceOf(j)' = PlaceOf(j) \ {"vault"}
              => Refined
           /\ /\ PlaceOf(j)' = PlaceOf(j) \ {"vault"}
              /\ disposed' = disposed \cup {j}
              => Refined
<1>1. /\ Placed' = [k \in Jobs |-> PlaceOf(k)'] /\ Placed = [k \in Jobs |-> PlaceOf(k)]
  BY DEF Placed
<1>2. \A X : PlaceOf(j)' = X => Placed' = [Placed EXCEPT ![j] = X]
  BY <1>1
<1> QED
  BY <1>1, <1>2
     DEF Refined, Custody!CustodyNext, Custody!Contain, Custody!Vacate, Custody!Release,
         Custody!Withdraw, Custody!Discard, Placed, Allowed

\* ... and those that move none.
LEMMA AbstractQuiet ==
    ASSUME TypeOK, TypeOK', \A k \in Jobs : PlaceOf(k)' = PlaceOf(k)
    PROVE  /\ Allowed \subseteq Allowed' /\ UNCHANGED disposed => Refined
           /\ Allowed' = Allowed /\ disposed \subseteq disposed' => Refined
<1>1. Placed' = Placed  BY DEF Placed
<1>2. Allowed' \subseteq Jobs
  <2>1. \A r \in Requests : Target(r)' \in Jobs
    BY QuarantineAssumption DEF TypeOK, Target, QuarantineAssumption
  <2> QED  BY <2>1 DEF Allowed, ForcedJobs
<1>3. disposed' \in SUBSET Jobs  BY DEF TypeOK
<1>4. ASSUME Allowed \subseteq Allowed', UNCHANGED disposed PROVE Refined
  <2>1. PICK S \in SUBSET Jobs : S = Allowed'  BY <1>2
  <2>2. Custody!Permit(S)
    BY <1>1, <1>4, <2>1 DEF Custody!Permit, Placed, Allowed
  <2> QED  BY <2>2 DEF Refined, Custody!CustodyNext
<1>5. ASSUME Allowed' = Allowed, disposed \subseteq disposed' PROVE Refined
  <2>1. PICK S \in SUBSET Jobs : S = disposed'  BY <1>3
  <2>2. Custody!Forfeit(S)
    BY <1>1, <1>5, <2>1 DEF Custody!Forfeit, Placed, Allowed
  <2> QED  BY <2>2 DEF Refined, Custody!CustodyNext
<1> QED  BY <1>4, <1>5

LEMMA PermissionsStay ==
    ASSUME UNCHANGED task, vouched \subseteq vouched',
           \A r \in Requests : pc[r] # "idle" => pc'[r] # "idle"
    PROVE  /\ Allowed \subseteq Allowed'
           /\ /\ UNCHANGED vouched
              /\ \A r \in Requests : Forced(r) /\ pc[r] = "idle" => pc'[r] = "idle"
              => Allowed' = Allowed
<1>1. \A b : Target(b)' = Target(b) /\ Forced(b)' = Forced(b)  BY TargetStays
<1>2. ForcedJobs \subseteq ForcedJobs'  BY <1>1 DEF ForcedJobs
<1>3. ASSUME \A r \in Requests : Forced(r) /\ pc[r] = "idle" => pc'[r] = "idle"
      PROVE  ForcedJobs' \subseteq ForcedJobs
  BY <1>1, <1>3 DEF ForcedJobs
<1> QED  BY <1>2, <1>3 DEF Allowed

\* A copy in, a removed original, or nothing but a verdict.
LEMMA PipelineRefines ==
    ASSUME TypeOK, TypeOK', CustodyInv, NEW j \in Jobs, Pipeline(j)
    PROVE  Refined
<1>1. /\ UNCHANGED <<task, out, disposed>>
      /\ \A a \in Actors : a # j => pc'[a] = pc[a]
      /\ \A k \in Jobs : k # j => src'[k] = src[k] /\ quar'[k] = quar[k]
  BY PipelineFrame
<1>2. \A b : Target(b)' = Target(b)  BY <1>1, TargetStays
<1>3. \A k \in Jobs : Copies(k)' = Copies(k)  BY <1>1, <1>2 DEF Copies
<1>4. \A k \in Jobs : src'[k] = src[k] /\ (quar'[k] = "full" <=> quar[k] = "full")
                        => PlaceOf(k)' = PlaceOf(k)
  BY <1>3 DEF PlaceOf
<1>5. \A r \in Requests : pc'[r] = pc[r]
  BY <1>1, QuarantineAssumption DEF Actors, QuarantineAssumption
<1>6. CASE CopyIn(j)
  <2>1. pc[j] = "intake" /\ UNCHANGED <<src, vouched>>  BY <1>6 DEF CopyIn, seen
  <2>2. src[j] /\ quar[j] = "none"  BY <2>1 DEF CustodyInv, DiskAgrees
  <2>3. Allowed' = Allowed  BY <1>1, <1>5, <2>1, PermissionsStay
  <2>4. CASE quar'[j] = "full"
    <3>1. "watch" \in PlaceOf(j) /\ PlaceOf(j)' = PlaceOf(j) \cup {"vault"}
      BY <1>3, <2>1, <2>2, <2>4 DEF PlaceOf
    <3> QED  BY <1>1, <1>4, <2>1, <2>3, <3>1, AbstractMoves
  <2>5. CASE quar'[j] # "full"
    <3>1. \A k \in Jobs : PlaceOf(k)' = PlaceOf(k)  BY <1>1, <1>4, <2>1, <2>2, <2>5
    <3> QED  BY <1>1, <2>3, <3>1, AbstractQuiet
  <2> QED  BY <2>4, <2>5
<1>7. CASE RemoveSource(j)
  <2>1. pc[j] = "copied" /\ UNCHANGED <<quar, vouched>>  BY <1>7 DEF RemoveSource, seen
  <2>2. src[j] /\ quar[j] = "full"
    BY <2>1 DEF CustodyInv, DiskAgrees, UnsettledPhases
  <2>3. Allowed' = Allowed  BY <1>1, <1>5, <2>1, PermissionsStay
  <2>4. CASE src'[j] = FALSE
    <3>1. /\ {"watch", "vault"} \subseteq PlaceOf(j)
          /\ PlaceOf(j)' = PlaceOf(j) \ {"watch"}
      BY <1>3, <2>1, <2>2, <2>4 DEF PlaceOf
    <3> QED  BY <1>1, <1>4, <2>1, <2>3, <3>1, AbstractMoves
  <2>5. CASE UNCHANGED src
    <3>1. \A k \in Jobs : PlaceOf(k)' = PlaceOf(k)  BY <1>4, <2>1, <2>5
    <3> QED  BY <1>1, <2>3, <3>1, AbstractQuiet
  <2>6. src'[j] = FALSE \/ UNCHANGED src  BY <1>7 DEF RemoveSource, TypeOK
  <2> QED  BY <2>4, <2>5, <2>6
<1>8. CASE ~CopyIn(j) /\ ~RemoveSource(j)
  <2>1. UNCHANGED <<src, quar>> /\ vouched \subseteq vouched'
    BY <1>8 DEF Pipeline, Proceeds, Accept, Ignore, RecordQuarantine,
       Dispatch, BeginLocal, LocalAnswers, LocalCancelled, EndLocal, KeptBeforeVt,
       Unreadable, CacheHit, CacheMiss, AcquirePermit, VtAnswers, VtCancelled,
       Idle, disk, seen
  <2>2. Allowed \subseteq Allowed'  BY <1>1, <1>5, <2>1, PermissionsStay
  <2>3. \A k \in Jobs : PlaceOf(k)' = PlaceOf(k)  BY <1>4, <2>1
  <2> QED  BY <1>1, <2>2, <2>3, AbstractQuiet
<1> QED  BY <1>6, <1>7, <1>8

\* A restore creates a copy only with permission, and removes the original after.
LEMMA RestoresRefines ==
    ASSUME TypeOK, TypeOK', CustodyInv, ContainmentInv, NEW a \in Actors, Restores(a)
    PROVE  Refined
<1>0. PICK j \in Jobs : j = Target(a)  BY TargetIsJob
<1>1. /\ UNCHANGED <<task, src, disposed>>
      /\ pc[a] \in RestorePhases
      /\ \A b \in Actors : b # a => pc'[b] = pc[b] /\ out'[b] = out[b]
      /\ \A k \in Jobs : k # j => quar'[k] = quar[k]
      /\ RestoreMoves(a)
  BY <1>0, RestoreFrames
<1>2. UNCHANGED vouched
  BY DEF Restores, RestoreCreate, RestoreCopy, RestoreUnlink, RestoreCommit,
         RestoreFrame, seen
<1>3. \A b : Target(b)' = Target(b)  BY <1>1, TargetStays
<1>4. Allowed' = Allowed
  <2>1. \A r \in Requests : pc[r] = "idle" <=> pc'[r] = "idle"
    BY <1>1 DEF RestoreMoves, RestorePhases, Actors
  <2> QED  BY <1>1, <1>2, <2>1, PermissionsStay
<1>5. \A k \in Jobs : k # j => Copies(k)' = Copies(k)
  BY <1>0, <1>1, <1>3 DEF Copies
<1>6. \A k \in Jobs : k # j => PlaceOf(k)' = PlaceOf(k)
  BY <1>1, <1>5 DEF PlaceOf
<1>7. OutAgrees(a) /\ quar[j] # "partial"
  BY <1>0, <1>1 DEF CustodyInv, RestoresWhole
<1>8. CASE pc[a] = "copy" /\ out'[a] = "copy" /\ quar[j] # "none" /\ UNCHANGED quar
  <2>1. quar[j] = "full"  BY <1>7, <1>8 DEF TypeOK
  <2>2. Forced(a) \/ Warranted(j)
    BY <1>0, <1>1 DEF ContainmentInv, ReleasesWarranted
  <2>3. j \in Allowed
    BY <1>0, <1>8, <2>2 DEF Allowed, ForcedJobs, Forced, Warranted
  <2>4. a \in Copies(j)'  BY <1>0, <1>3, <1>8 DEF Copies
  <2>5. "vault" \in PlaceOf(j) /\ PlaceOf(j)' = PlaceOf(j) \cup {"released"}
    BY <1>1, <1>8, <2>1, <2>4 DEF PlaceOf
  <2> QED  BY <1>1, <1>4, <1>6, <2>3, <2>5, AbstractMoves
<1>9. CASE pc[a] = "unlink" /\ quar[j] # "none" /\ quar'[j] = "none" /\ UNCHANGED out
  <2>1. quar[j] = "full"  BY <1>7, <1>9 DEF TypeOK
  <2>2. a \in Copies(j) /\ Copies(j)' = Copies(j)
    BY <1>0, <1>3, <1>7, <1>9 DEF Copies, OutAgrees
  <2>3. /\ {"vault", "released"} \subseteq PlaceOf(j)
        /\ PlaceOf(j)' = PlaceOf(j) \ {"vault"}
    BY <1>1, <1>9, <2>1, <2>2 DEF PlaceOf
  <2> QED  BY <1>1, <1>4, <1>6, <2>3, AbstractMoves
<1>10. CASE /\ UNCHANGED quar
            /\ out[a] \in {"copy", "ready"} <=> out'[a] \in {"copy", "ready"}
  <2>1. Copies(j)' = Copies(j)  BY <1>1, <1>3, <1>10 DEF Copies
  <2>2. \A k \in Jobs : PlaceOf(k)' = PlaceOf(k)  BY <1>1, <1>6, <1>10, <2>1 DEF PlaceOf
  <2> QED  BY <1>1, <1>4, <2>2, AbstractQuiet
<1> QED  BY <1>0, <1>1, <1>7, <1>8, <1>9, <1>10 DEF RestoreMoves, OutAgrees

\* A request deletes a copy as it forfeits it, forfeits rows, or permits.
LEMMA ServeRefines ==
    ASSUME TypeOK, TypeOK', NEW r \in Requests, Serve(r)
    PROVE  Refined
<1>1. /\ UNCHANGED <<task, src, out>>
      /\ pc'[r] # "idle"
      /\ \A a \in Actors : a # r => pc'[a] = pc[a]
      /\ Looks(r) \/ Unlinks(r) \/ Deletes(r) \/ Clears(r) \/ Drops(r) \/ Returns(r)
  BY ServeMoves
<1>2. UNCHANGED vouched
  BY DEF Serve, RestoreRequest, SweepList, DeleteRead, DeleteUnlink, DeleteCommit,
         ClearAll, ClearUnlink, ClearReturns, Cancel, ModeSwap, ModeCancels,
         ModePersists, Abandon, ApiFrame
<1>3. Target(r) \in Jobs /\ Requests \subseteq Actors /\ todo[r] \subseteq Jobs
  BY TargetIsJob DEF Actors, TypeOK
<1>4. \A k \in Jobs : Copies(k)' = Copies(k)  BY <1>1, TargetStays DEF Copies
<1>5. \A k \in Jobs : (quar'[k] = "full" <=> quar[k] = "full") => PlaceOf(k)' = PlaceOf(k)
  BY <1>1, <1>4 DEF PlaceOf
<1>6. Allowed \subseteq Allowed'  BY <1>1, <1>2, <1>3, PermissionsStay
<1>7. pc[r] # "idle" \/ ~Forced(r) => Allowed' = Allowed
  BY <1>1, <1>2, <1>3, PermissionsStay
<1>8. ASSUME NEW j \in Jobs, Discard(j), Allowed' = Allowed PROVE Refined
  <2>1. \A k \in Jobs : k # j => quar'[k] = quar[k]  BY <1>8 DEF Discard, TypeOK
  <2>2. CASE quar[j] = "full"
    <3>1. disposed' = disposed \cup {j} /\ quar'[j] = "none"
      BY <1>8, <2>2 DEF Discard, TypeOK
    <3>2. PlaceOf(j)' = PlaceOf(j) \ {"vault"}  BY <1>1, <1>4, <2>2, <3>1 DEF PlaceOf
    <3> QED  BY <1>5, <1>8, <2>1, <3>1, <3>2, AbstractMoves
  <2>3. CASE quar[j] # "full"
    <3>1. quar'[j] # "full" /\ disposed \subseteq disposed'
      BY <1>8 DEF Discard, TypeOK
    <3> QED  BY <1>5, <1>8, <2>1, <2>3, <3>1, AbstractQuiet
  <2> QED  BY <2>2, <2>3
<1>9. CASE UNCHANGED <<quar, disposed>>  BY <1>5, <1>6, <1>9, AbstractQuiet
<1>10. CASE Unlinks(r)  BY <1>3, <1>7, <1>8, <1>9, <1>10 DEF Unlinks
<1>11. CASE Drops(r)  BY <1>3, <1>7, <1>8, <1>9, <1>11 DEF Drops
<1>12. CASE Clears(r)
  <2>1. ~Forced(r)
    <3>1. ClearAll(r)
      BY <1>3, <1>12 DEF Clears, Serve, RestoreRequest, SweepList, DeleteRead,
         DeleteUnlink, DeleteCommit, ClearUnlink, ClearReturns, Cancel, ModeSwap,
         ModeCancels, ModePersists, Abandon, Goto, Pending, TypeOK, RestorePhases
    <3> QED  BY <3>1 DEF ClearAll, Pending, Forced
  <2>2. disposed \subseteq disposed' /\ UNCHANGED quar  BY <1>12 DEF Clears
  <2> QED  BY <1>5, <1>7, <2>1, <2>2, AbstractQuiet
<1> QED  BY <1>1, <1>9, <1>10, <1>11, <1>12 DEF Looks, Deletes, Returns

LEMMA ContainmentInvariant == Spec => []ContainmentInv
<1>1. Init => ContainmentInv
  BY FreshRowsNotClean
     DEF Init, ContainmentInv, RowsWarranted, CacheWarranted, ReleasesWarranted,
         RestorePhases
<1>2. TypeOK /\ ContainmentInv /\ [Next]_vars => ContainmentInv'  BY ContainmentStep
<1> QED  BY <1>1, <1>2, TypeCorrect, PTL DEF Spec

\* As long as the process lives the whole system, every pipeline and request
\* with every fault of its I/O and every dropped handler, implements FileCustody:
\* bytes are copied before they are removed, come back only with permission, and
\* disappear only when somebody gives them up (file_mover.rs, ui_server.rs).
THEOREM CustodyRefined == Spec /\ [](crashes = 0) => ImplementsCustody
<1>1. Init => Custody!CustodyInit
  <2> SUFFICES ASSUME Init PROVE Custody!CustodyInit
    OBVIOUS
  <2>1. \A k \in Jobs : PlaceOf(k) = {"watch"}
    BY DEF Init, PlaceOf, Copies
  <2>2. Placed = [k \in Jobs |-> {"watch"}]  BY <2>1 DEF Placed
  <2>3. \A r \in Requests : r \notin Jobs /\ pc[r] = "idle"
    BY QuarantineAssumption DEF Init, Actors, QuarantineAssumption
  <2>4. Allowed = {}  BY <2>3 DEF Init, Allowed, ForcedJobs
  <2> QED  BY <2>2, <2>4 DEF Init, Custody!CustodyInit, Placed, Allowed
<1>2. /\ TypeOK /\ TypeOK' /\ CustodyInv /\ ContainmentInv
      /\ crashes = 0 /\ (crashes = 0)' /\ [Next]_vars
      => [Custody!CustodyNext]_(Custody!custody)
  <2> SUFFICES ASSUME TypeOK, TypeOK', CustodyInv, ContainmentInv,
                      crashes' = crashes, crashes = 0, [Next]_vars
               PROVE  Refined
    BY DEF Refined, Custody!custody, Placed, Allowed
  <2>1. CASE UNCHANGED vars
    <3> USE <2>1 DEF vars, fixed, disk, seen
    <3>1. \A k \in Jobs : PlaceOf(k)' = PlaceOf(k)
      BY TargetStays DEF PlaceOf, Copies
    <3>2. Allowed \subseteq Allowed'  BY PermissionsStay
    <3> QED  BY <3>1, <3>2, AbstractQuiet
  <2>2. ~CrashRestart  BY DEF CrashRestart
  <2> QED
    BY <2>1, <2>2, PipelineRefines, RestoresRefines, ServeRefines DEF Next
<1> QED
  BY <1>1, <1>2, TypeCorrect, CustodyInvariant, ContainmentInvariant, PTL
     DEF Spec, ImplementsCustody, Custody!CustodySpec

-------------------------------------------------------------------------------
(* The permits of the scan semaphore.                                       *)

AtVirusTotal == {j \in Jobs : pc[j] = "vt"}

LEMMA AtVirusTotalFinite ==
    /\ IsFiniteSet(AtVirusTotal)
    /\ Cardinality(AtVirusTotal) \in Nat
    /\ \A j \in AtVirusTotal :
            /\ Cardinality(AtVirusTotal) > 0
            /\ Cardinality(AtVirusTotal \ {j}) = Cardinality(AtVirusTotal) - 1
    /\ \A j \in Jobs \ AtVirusTotal :
            Cardinality(AtVirusTotal \cup {j}) = Cardinality(AtVirusTotal) + 1
<1>1. IsFiniteSet(AtVirusTotal)
  BY FS_Subset, QuarantineAssumption DEF AtVirusTotal, QuarantineAssumption
<1>2. Cardinality(AtVirusTotal) \in Nat  BY <1>1, FS_CardinalityType
<1>3. \A j \in AtVirusTotal :
        /\ Cardinality(AtVirusTotal \ {j}) = Cardinality(AtVirusTotal) - 1
        /\ Cardinality(AtVirusTotal \ {j}) \in Nat
  BY <1>1, FS_RemoveElement, FS_CardinalityType
<1>4. \A j \in Jobs \ AtVirusTotal :
        Cardinality(AtVirusTotal \cup {j}) = Cardinality(AtVirusTotal) + 1
  BY <1>1, FS_AddElement
<1>5. ASSUME NEW j \in AtVirusTotal PROVE Cardinality(AtVirusTotal) > 0
  <2>1. Cardinality(AtVirusTotal) - 1 \in Nat  BY <1>3, <1>5
  <2> QED  BY <1>2, <2>1
<1> QED  BY <1>1, <1>2, <1>3, <1>4, <1>5

\* A permit is taken on the way to VirusTotal, returned on the way back, and
\* neither anywhere else.
LEMMA PipelinePool ==
    ASSUME TypeOK, NEW j \in Jobs, Pipeline(j)
    PROVE  \/ /\ pc[j] # "vt" /\ pc'[j] = "vt"
              /\ free > 0 /\ free' = free - 1 /\ IncScan
           \/ /\ pc[j] = "vt" /\ pc'[j] # "vt"
              /\ free' = free + 1 /\ DecScan
           \/ /\ pc[j] # "vt" /\ pc'[j] # "vt"
              /\ UNCHANGED pool
<1>1. \A p : pc' = [pc EXCEPT ![j] = p] => pc'[j] = p  BY DEF TypeOK, Actors
<1>2. CASE AcquirePermit(j)  BY <1>1, <1>2 DEF AcquirePermit, CanAcquire, Goto
<1>3. CASE VtAnswers(j) \/ VtCancelled(j)
  BY <1>1, <1>3 DEF VtAnswers, VtCancelled, ReleasePermit, Goto
<1>4. CASE ~AcquirePermit(j) /\ ~VtAnswers(j) /\ ~VtCancelled(j)
  BY <1>1, <1>4 DEF Pipeline, Proceeds, Accept, Ignore, CopyIn, RemoveSource, RecordQuarantine,
       Dispatch, BeginLocal, LocalAnswers, LocalCancelled, EndLocal, KeptBeforeVt,
       Unreadable, CacheHit, CacheMiss, Fails, Idle, Goto
<1> QED  BY <1>2, <1>3, <1>4

LEMMA PoolStep ==
    ASSUME TypeOK, TypeOK', PoolIsExact, [Next]_vars
    PROVE  PoolIsExact'
<1>1. /\ Cardinality(AtVirusTotal) + free = MaxScans
      /\ activeScans = Cardinality(AtVirusTotal)
      /\ free \in Nat /\ free' \in Nat /\ activeScans \in Nat /\ MaxScans \in Nat
  BY QuarantineAssumption DEF PoolIsExact, AtVirusTotal, TypeOK, QuarantineAssumption
<1>2. Cardinality(AtVirusTotal) \in Nat  BY AtVirusTotalFinite
<1>3. SUFFICES \E n \in Nat : /\ Cardinality(AtVirusTotal') = n
                              /\ n + free' = MaxScans /\ activeScans' = n
  <2> SUFFICES ASSUME NEW n \in Nat, Cardinality(AtVirusTotal') = n,
                      n + free' = MaxScans, activeScans' = n
               PROVE  PoolIsExact'
    OBVIOUS
  <2>1. AtVirusTotal' = {k \in Jobs : pc'[k] = "vt"}  BY DEF AtVirusTotal
  <2>2. Cardinality({k \in Jobs : pc'[k] = "vt"}) = n  BY <2>1
  <2>3. n \in 0..MaxScans
    <3>1. \A f, m \in Nat : n + f = m => n \in 0..m  OBVIOUS
    <3> QED  BY <1>1, <3>1
  <2> QED  BY <2>2, <2>3 DEF PoolIsExact
<1>4. ASSUME AtVirusTotal' = AtVirusTotal, UNCHANGED pool
      PROVE  \E n \in Nat : /\ Cardinality(AtVirusTotal') = n
                            /\ n + free' = MaxScans /\ activeScans' = n
  BY <1>1, <1>2, <1>4 DEF pool
<1>a. ASSUME NEW j \in Jobs, Pipeline(j)
      PROVE  \E n \in Nat : /\ Cardinality(AtVirusTotal') = n
                            /\ n + free' = MaxScans /\ activeScans' = n
  <2>1. \A k \in Jobs : k # j => pc'[k] = pc[k]  BY <1>a, PipelineFrame DEF Actors
  <2>2. CASE pc[j] # "vt" /\ pc'[j] = "vt" /\ free' = free - 1 /\ IncScan
    <3>1. j \in Jobs \ AtVirusTotal /\ AtVirusTotal' = AtVirusTotal \cup {j}
      BY <2>1, <2>2 DEF AtVirusTotal
    <3>2. Cardinality(AtVirusTotal') = Cardinality(AtVirusTotal) + 1
      BY <3>1, AtVirusTotalFinite
    <3> QED  BY <1>1, <1>2, <2>2, <3>2 DEF IncScan
  <2>3. CASE pc[j] = "vt" /\ pc'[j] # "vt" /\ free' = free + 1 /\ DecScan
    <3>1. j \in AtVirusTotal /\ AtVirusTotal' = AtVirusTotal \ {j}
      BY <2>1, <2>3 DEF AtVirusTotal
    <3>2. /\ Cardinality(AtVirusTotal') = Cardinality(AtVirusTotal) - 1
          /\ Cardinality(AtVirusTotal) > 0
      BY <3>1, AtVirusTotalFinite
    <3> QED  BY <1>1, <1>2, <2>3, <3>2 DEF DecScan
  <2>4. CASE pc[j] # "vt" /\ pc'[j] # "vt" /\ UNCHANGED pool
    <3>1. AtVirusTotal' = AtVirusTotal  BY <2>1, <2>4 DEF AtVirusTotal
    <3> QED  BY <1>4, <2>4, <3>1
  <2> QED  BY <1>a, <2>2, <2>3, <2>4, PipelinePool
<1>b. ASSUME NEW a \in Actors, Restores(a)
      PROVE  \E n \in Nat : /\ Cardinality(AtVirusTotal') = n
                            /\ n + free' = MaxScans /\ activeScans' = n
  <2>1. UNCHANGED pool
    BY <1>b DEF Restores, RestoreCreate, RestoreCopy, RestoreUnlink, RestoreCommit, RestoreFrame
  <2>2. pc[a] # "vt" /\ pc'[a] # "vt" /\ \A b \in Actors : b # a => pc'[b] = pc[b]
    BY <1>b, RestoreFrames DEF RestoreMoves, RestorePhases
  <2>3. AtVirusTotal' = AtVirusTotal  BY <2>2 DEF AtVirusTotal, Actors
  <2> QED  BY <1>4, <2>1, <2>3
<1>c. ASSUME NEW r \in Requests, Serve(r)
      PROVE  \E n \in Nat : /\ Cardinality(AtVirusTotal') = n
                            /\ n + free' = MaxScans /\ activeScans' = n
  <2>1. UNCHANGED pool
    BY <1>c DEF Serve, RestoreRequest, SweepList, DeleteRead, DeleteUnlink, DeleteCommit,
         ClearAll, ClearUnlink, ClearReturns, Cancel, ModeSwap, ModeCancels,
         ModePersists, Abandon, ApiFrame
  <2>2. \A k \in Jobs : k # r  BY QuarantineAssumption DEF QuarantineAssumption
  <2>3. \A k \in Jobs : pc'[k] = pc[k]  BY <1>c, <2>2, ServeMoves DEF Actors
  <2>4. AtVirusTotal' = AtVirusTotal  BY <2>3 DEF AtVirusTotal
  <2> QED  BY <1>4, <2>1, <2>4
<1>d. CASE CrashRestart
  <2>1. \A k \in Jobs : pc'[k] # "vt"
    BY <1>d DEF CrashRestart, Restarted, Actors, JobPhases, UnsettledPhases
  <2>2. AtVirusTotal' = {}  BY <2>1 DEF AtVirusTotal
  <2>3. Cardinality(AtVirusTotal') = 0  BY <2>2, FS_EmptySet
  <2> QED  BY <1>1, <1>d, <2>3 DEF CrashRestart
<1>e. CASE UNCHANGED vars  BY <1>4, <1>e DEF vars, AtVirusTotal
<1> QED  BY <1>a, <1>b, <1>c, <1>d, <1>e DEF Next

\* The scan semaphore never over-issues and never leaks: permits out, jobs at
\* VirusTotal and the active_scans metric agree after every answer, cancellation,
\* mode change and restart (watcher.rs scan_semaphore, metrics.rs dec_scan).
THEOREM PermitsAreExact == Spec => []PoolIsExact
<1>1. Init => PoolIsExact
  <2> SUFFICES ASSUME Init PROVE PoolIsExact
    OBVIOUS
  <2>1. \A k \in Jobs : pc[k] # "vt"  BY DEF Init, Actors
  <2>2. {k \in Jobs : pc[k] = "vt"} = {}  BY <2>1
  <2>3. Cardinality({k \in Jobs : pc[k] = "vt"}) = 0  BY <2>2, FS_EmptySet
  <2>4. MaxScans \in Nat /\ free = MaxScans /\ activeScans = 0
    BY QuarantineAssumption DEF Init, QuarantineAssumption
  <2> QED  BY <2>3, <2>4 DEF PoolIsExact
<1>2. TypeOK /\ TypeOK' /\ PoolIsExact /\ [Next]_vars => PoolIsExact'
  BY PoolStep
<1> QED  BY <1>1, <1>2, TypeCorrect, PTL DEF Spec

-------------------------------------------------------------------------------
(* The promises of FileCustody, kept by the bytes themselves.               *)

Promises == Custody!NothingLost /\ Custody!NothingEscapes

LEMMA PromisesStep ==
    ASSUME Promises, [Custody!CustodyNext]_(Custody!custody)
    PROVE  Promises'
<1> USE DEF Promises, Custody!NothingLost, Custody!NothingEscapes
<1>1. ASSUME NEW f \in Jobs, Custody!Contain(f) PROVE Promises'
  <2>1. "vault" \in [j \in Jobs |-> PlaceOf(j)]'[f]  BY <1>1 DEF Custody!Contain
  <2>2. \A g \in Jobs : PlaceOf(g)' = IF g = f THEN PlaceOf(g) \cup {"vault"} ELSE PlaceOf(g)
    BY <1>1 DEF Custody!Contain
  <2> QED  BY <1>1, <2>1, <2>2 DEF Custody!Contain
<1>2. ASSUME NEW f \in Jobs, Custody!Vacate(f) PROVE Promises'
  <2>1. "vault" \in [j \in Jobs |-> PlaceOf(j)]'[f]  BY <1>2 DEF Custody!Vacate
  <2> QED  BY <1>2, <2>1 DEF Custody!Vacate
<1>3. ASSUME NEW f \in Jobs, Custody!Release(f) PROVE Promises'
  BY <1>3 DEF Custody!Release
<1>4. ASSUME NEW f \in Jobs, Custody!Withdraw(f) PROVE Promises'
  <2>1. "released" \in [j \in Jobs |-> PlaceOf(j)]'[f]  BY <1>4 DEF Custody!Withdraw
  <2> QED  BY <1>4, <2>1 DEF Custody!Withdraw
<1>5. ASSUME NEW f \in Jobs, Custody!Discard(f) PROVE Promises'
  BY <1>5 DEF Custody!Discard
<1>6. ASSUME NEW S \in SUBSET Jobs, Custody!Permit(S) \/ Custody!Forfeit(S)
      PROVE  Promises'
  BY <1>6 DEF Custody!Permit, Custody!Forfeit
<1>7. CASE UNCHANGED Custody!custody  BY <1>7 DEF Custody!custody
<1> QED
  BY <1>1, <1>2, <1>3, <1>4, <1>5, <1>6, <1>7 DEF Custody!CustodyNext

\* FileCustody alone keeps what it is written for: a file is complete in some place
\* until somebody gives it up, and nothing comes out of the vault that was neither
\* vouched for nor forced.  The files are those file_mover.rs moves.
THEOREM PromisesKept == ImplementsCustody => []Promises
<1>1. Custody!CustodyInit => Promises
  BY DEF Custody!CustodyInit, Promises, Custody!NothingLost, Custody!NothingEscapes
<1>2. Promises /\ [Custody!CustodyNext]_(Custody!custody) => Promises'
  BY PromisesStep
<1> QED  BY <1>1, <1>2, PTL DEF ImplementsCustody, Custody!CustodySpec

\* While the process lives, every accepted file is complete in some place or was
\* given up, and none is in the watch folder again that was neither vouched for nor
\* forced: the promises of FileCustody, of the files file_mover.rs really moves.
THEOREM PromisesReachTheBytes ==
    Spec /\ [](crashes = 0) => [](Custody!NothingLost /\ Custody!NothingEscapes)
<1>1. Promises => Custody!NothingLost /\ Custody!NothingEscapes  BY DEF Promises
<1> QED  BY <1>1, CustodyRefined, PromisesKept, PTL

-------------------------------------------------------------------------------
(* What a row may say next, and that it is never ahead of the disk.         *)

\* A restore settles a row that is scanned, kept or settled, never a cancelled one.
LEMMA RestoresStatus ==
    ASSUME TypeOK, CustodyInv, NEW a \in Actors, Restores(a)
    PROVE  /\ row[Target(a)].status \in
                    {"scanning", "quarantine_kept", "restored", "deleted", "failed", "absent"}
           /\ \/ row'[Target(a)] = row[Target(a)]
              \/ row'[Target(a)].status \in {"restored", "failed"}
              \/ row'[Target(a)].status = row[Target(a)].status
<1> PICK j \in Jobs : j = Target(a)  BY TargetIsJob
<1>1. row[j] \in Rows /\ row[j].status \in Statuses \cup {"absent"}
  BY DEF TypeOK, Rows
<1>2. pc[a] \in RestorePhases /\ RestoreMoves(a)  BY RestoreFrames
<1>3. row[j].status # "cancelled"
  BY <1>2 DEF CustodyInv, CancelledStays, Untouched
<1>4. row[j].status \notin {"received", "in_quarantine"}
  <2>1. CASE a \in Jobs
    BY <1>2, <2>1 DEF Target, CustodyInv, RowAgrees
  <2>2. CASE a \notin Jobs
    <3>1. Late(j)  BY <1>2, <2>2 DEF CustodyInv, RequestsAreLate, Engaged, Actors
    <3> QED  BY <3>1 DEF Late, Active
  <2> QED  BY <2>1, <2>2
<1>5. \/ row'[j] = row[j]
      \/ row'[j] = SetRestored(row[j])
      \/ row'[j] = Fail(SetStage(row[j], "error"))
  BY <1>2 DEF RestoreMoves
<1> QED
  BY <1>1, <1>3, <1>4, <1>5, EndEffect, FailEffect DEF Statuses, Active, Deletable

\* No order of the store's UPDATEs, most of them without a guard on the status,
\* takes a row off its life cycle: settled is settled, restored is never deleted,
\* cancelled is only deleted or cleared (job_store.rs set_* and clear_all, called
\* from watcher.rs and ui_server.rs with awaits in between).
THEOREM LifecycleIsKept == Spec => RowsFollowLifecycle
<1> DEFINE Followed ==
        \A j \in Jobs : row'[j].status # row[j].status =>
            <<row[j].status, row'[j].status>> \in Lifecycle
<1>1. TypeOK /\ CustodyInv /\ [Next]_vars => [Followed]_vars
  <2> SUFFICES ASSUME TypeOK, CustodyInv, Next, NEW k \in Jobs,
                      row'[k].status # row[k].status
               PROVE  <<row[k].status, row'[k].status>> \in Lifecycle
    OBVIOUS
  <2>1. RowAgrees(k) /\ row[k].status \in Statuses \cup {"absent"}
    BY DEF CustodyInv, TypeOK, Rows
  <2>2. ASSUME NEW j \in Jobs, Pipeline(j)
        PROVE  <<row[k].status, row'[k].status>> \in Lifecycle
    <3>1. k = j  BY <2>2, PipelineFrame
    <3>2. CASE Filed(k)
      BY <2>1, <3>2 DEF Filed, Fell, RowAgrees, Filing, Lifecycle
    <3>3. CASE Scanned(k)
      <4>1. row[k].status = "scanning"  BY <2>1, <3>3 DEF Scanned, RowAgrees
      <4>2. row'[k].status \in {"quarantine_kept", "cancelled", "failed"}
        BY <3>3, <4>1 DEF Scanned, Fell
      <4> QED  BY <4>1, <4>2 DEF Lifecycle
    <3> QED  BY <2>2, <3>1, <3>2, <3>3, PipelineMoves
  <2>3. ASSUME NEW a \in Actors, Restores(a)
        PROVE  <<row[k].status, row'[k].status>> \in Lifecycle
    <3>1. k = Target(a)  BY <2>3, RestoreFrames
    <3>2. row[k].status # "absent"
      <4>1. row[k].status = "absent" =>
                /\ SetRestored(row[k]).status = "absent"
                /\ Fail(SetStage(row[k], "error")).status = "absent"
        BY EndEffect, FailEffect DEF TypeOK
      <4> QED  BY <2>3, <3>1, <4>1, RestoreFrames DEF RestoreMoves
    <3>3. /\ row[k].status \in
                {"scanning", "quarantine_kept", "restored", "deleted", "failed"}
          /\ row'[k].status \in {"restored", "failed"}
      BY <2>3, <3>1, <3>2, RestoresStatus
    <3> QED  BY <3>3 DEF Lifecycle
  <2>4. ASSUME NEW r \in Requests, Serve(r)
        PROVE  <<row[k].status, row'[k].status>> \in Lifecycle
    <3>1. \/ row[k].status \in Deletable /\ row'[k].status = "deleted"
          \/ Late(k) /\ row'[k].status = "absent"
      BY <2>4, ServeEffect
    <3>2. row'[k].status = "absent" /\ Late(k) =>
            row[k].status \in {"quarantine_kept", "cancelled", "restored", "deleted", "failed"}
      BY <2>1 DEF Late, Statuses, Active, Deletable
    <3> QED  BY <3>1, <3>2 DEF Lifecycle, Deletable
  <2>5. ~CrashRestart  BY DEF CrashRestart
  <2> QED  BY <2>2, <2>3, <2>4, <2>5 DEF Next
<1> QED  BY <1>1, TypeCorrect, CustodyInvariant, PTL DEF Spec, RowsFollowLifecycle

\* No copy of file j is left that its row, or the user, could mistake for a kept one.
Gone(j) ==
    quar[j] = "none" \/ row[j].status = "absent" \/ (~row[j].path /\ src[j])

\* A row past intake knows its path, or the original never left.
Recorded(j) == row[j].status \notin {"received", "absent"} => row[j].path \/ src[j]

Honest(j) ==
    /\ row[j].status = "restored" => quar[j] = "none" /\ Copies(j) # {}
    /\ row[j].status = "deleted" => Gone(j)

HonestInv ==
    /\ \A j \in Jobs : Recorded(j) /\ Honest(j)
    /\ \A r \in Requests : pc[r] = "d_commit" => Gone(Target(r))

LEMMA PipelineHonest ==
    ASSUME TypeOK, CustodyInv, HonestInv, NEW j \in Jobs, Pipeline(j)
    PROVE  HonestInv'
<1>1. /\ UNCHANGED <<task, out>>
      /\ pc[j] \in UnsettledPhases \cup {"waiting"}
      /\ \A a \in Actors : a # j => pc'[a] = pc[a]
      /\ \A k \in Jobs : k # j => row'[k] = row[k] /\ src'[k] = src[k] /\ quar'[k] = quar[k]
  BY PipelineFrame
<1>2. \A b : Target(b)' = Target(b)  BY <1>1, TargetStays
<1>3. \A k \in Jobs : Copies(k)' = Copies(k)  BY <1>1, <1>2 DEF Copies
<1>4. Recorded(j)' /\ Honest(j)'
  <2>1. RowAgrees(j) /\ DiskAgrees(j)  BY DEF CustodyInv
  <2>2. CASE Filed(j)
    BY <2>1, <2>2 DEF Filed, Fell, RowAgrees, DiskAgrees, Filing, Recorded, Honest
  <2>3. CASE Scanned(j)
    <3>1. row[j].status = "scanning" /\ row[j].path
      BY <2>1, <2>3 DEF Scanned, RowAgrees
    <3> QED  BY <2>3, <3>1 DEF Scanned, Fell, Scanning, Recorded, Honest
  <2> QED  BY <2>2, <2>3, PipelineMoves
<1>5. \A k \in Jobs : k # j => Recorded(k)' /\ Honest(k)'
  BY <1>1, <1>3 DEF HonestInv, Recorded, Honest, Gone
<1>6. ASSUME NEW r \in Requests, pc'[r] = "d_commit" PROVE Gone(Target(r))'
  <2>1. r \in Actors /\ r # j /\ Target(r) \in Jobs
    BY QuarantineAssumption, TargetIsJob DEF Actors, QuarantineAssumption
  <2>2. pc[r] = "d_commit"  BY <1>1, <1>6, <2>1
  <2>3. Target(r) # j  BY <1>1, <2>2, UnsettledIsFree DEF Engaged
  <2> QED  BY <1>1, <1>2, <2>1, <2>2, <2>3 DEF HonestInv, Gone
<1> QED  BY <1>4, <1>5, <1>6 DEF HonestInv

LEMMA RestoresHonest ==
    ASSUME TypeOK, CustodyInv, RestoreInv, HonestInv, NEW a \in Actors, Restores(a)
    PROVE  HonestInv'
<1>0. PICK j \in Jobs : j = Target(a)  BY TargetIsJob
<1>1. /\ UNCHANGED <<task, src>>
      /\ pc[a] \in RestorePhases
      /\ \A b \in Actors : b # a => pc'[b] = pc[b] /\ out'[b] = out[b]
      /\ \A k \in Jobs : k # j => row'[k] = row[k] /\ quar'[k] = quar[k]
      /\ RestoreMoves(a)
  BY <1>0, RestoreFrames
<1>2. \A b : Target(b)' = Target(b)  BY <1>1, TargetStays
<1>3. \A k \in Jobs : quar'[k] \in {"none", quar[k]}
  BY <1>0, <1>1 DEF RestoreMoves
<1>4. \A k \in Jobs : Copies(k) \subseteq Copies(k)'
  <2>1. out[a] \in {"copy", "ready"} => out'[a] \in {"copy", "ready"}
    BY <1>1 DEF RestoreMoves, CustodyInv, OutAgrees
  <2> QED  BY <1>1, <1>2, <2>1 DEF Copies
<1>5. /\ row[j] \in Rows
      /\ row'[j].path = row[j].path
      /\ row[j].status = "absent" => row'[j].status = "absent"
      /\ \/ row'[j].status = row[j].status
         \/ row'[j].status = "failed"
         \/ row'[j].status = "restored" /\ pc[a] = "commit" /\ pc'[a] = "done"
      /\ row[j].status \notin {"received"}
  <2>1. row[j] \in Rows  BY DEF TypeOK
  <2>2. \/ row'[j] = row[j]
        \/ row'[j] = SetRestored(row[j]) /\ pc[a] = "commit" /\ pc'[a] = "done"
        \/ row'[j] = Fail(SetStage(row[j], "error"))
    BY <1>0, <1>1 DEF RestoreMoves
  <2>3. row[j].status # "received"  BY <1>0, RestoresStatus
  <2> QED  BY <2>1, <2>2, <2>3, EndEffect, FailEffect
<1>6. \A k \in Jobs : Gone(k) => Gone(k)'
  BY <1>1, <1>3, <1>5 DEF Gone
<1>7. Recorded(j)'  BY <1>1, <1>5 DEF HonestInv, Recorded
<1>8. Honest(j)'
  <2>1. CASE row'[j].status = row[j].status
    BY <1>3, <1>4, <1>6, <2>1 DEF HonestInv, Honest
  <2>2. CASE row'[j].status = "failed"  BY <2>2 DEF Honest
  <2>3. CASE row'[j].status = "restored" /\ pc[a] = "commit" /\ pc'[a] = "done"
    <3>1. quar[j] = "none"  BY <1>0, <2>3 DEF RestoreInv, Winner
    <3>2. out'[a] = "ready"
      BY <1>1, <2>3 DEF RestoreMoves, CustodyInv, OutAgrees
    <3>3. a \in Copies(j)'  BY <1>0, <1>2, <3>2 DEF Copies
    <3> QED  BY <1>3, <2>3, <3>1, <3>3 DEF Honest
  <2> QED  BY <1>5, <2>1, <2>2, <2>3
<1>9. \A k \in Jobs : k # j => Recorded(k)' /\ Honest(k)'
  BY <1>1, <1>3, <1>4, <1>6 DEF HonestInv, Recorded, Honest
<1>10. ASSUME NEW r \in Requests, pc'[r] = "d_commit" PROVE Gone(Target(r))'
  <2>1. r \in Actors /\ Target(r) \in Jobs  BY TargetIsJob DEF Actors
  <2>2. pc[r] = "d_commit"
    BY <1>1, <1>10, <2>1 DEF RestoreMoves
  <2>3. Gone(Target(r))  BY <2>2 DEF HonestInv
  <2>4. PICK k \in Jobs : k = Target(r)  BY <2>1
  <2>5. Gone(k)'  BY <1>6, <2>3, <2>4
  <2> QED  BY <1>2, <2>4, <2>5 DEF Gone
<1> QED  BY <1>7, <1>8, <1>9, <1>10 DEF HonestInv

LEMMA ServeHonest ==
    ASSUME TypeOK, CustodyInv, HonestInv, NEW r \in Requests, Serve(r)
    PROVE  HonestInv'
<1>0. PICK j \in Jobs : j = Target(r)  BY TargetIsJob DEF Actors
<1>1. /\ UNCHANGED <<task, src, out>>
      /\ \A a \in Actors : a # r => pc'[a] = pc[a]
      /\ \/ Looks(r) \/ Unlinks(r) \/ Deletes(r) \/ Clears(r) \/ Drops(r)
         \/ Returns(r)
  BY ServeMoves
<1>2. \A b : Target(b)' = Target(b)  BY <1>1, TargetStays
<1>3. \A k \in Jobs : Copies(k)' = Copies(k)  BY <1>1, <1>2 DEF Copies
<1>4. \A k \in Jobs :
        /\ quar'[k] \in {"none", quar[k]}
        /\ \/ row'[k] = row[k]
           \/ /\ row[k].status \in Deletable
              /\ row'[k].path = row[k].path /\ row'[k].status = "deleted"
           \/ row'[k].status = "absent"
  BY ServeEffect
<1>5. \A k \in Jobs : Gone(k) => Gone(k)'
  BY <1>1, <1>4 DEF Gone, Deletable
<1>6. ASSUME NEW k \in Jobs PROVE Recorded(k)' /\ Honest(k)'
  <2>1. Recorded(k)'  BY <1>1, <1>4 DEF HonestInv, Recorded, Deletable
  <2>2. CASE row'[k] = row[k]
    BY <1>3, <1>4, <1>5, <2>1, <2>2 DEF HonestInv, Honest
  <2>3. CASE row'[k] # row[k] /\ row'[k].status = "deleted"
    <3>1. ~Clears(r)  BY <2>3, FreshStatus DEF Clears
    <3>2. Deletes(r) /\ k = j
      BY <1>0, <1>1, <2>3, <3>1 DEF Looks, Unlinks, Deletes, Drops, Returns
    <3>3. Gone(k)  BY <1>0, <3>2 DEF Deletes, HonestInv
    <3> QED  BY <1>5, <2>1, <2>3, <3>3 DEF Honest
  <2>4. CASE row'[k].status = "absent"  BY <2>1, <2>4 DEF Honest
  <2> QED  BY <1>4, <2>1, <2>2, <2>3, <2>4
<1>7. ASSUME NEW q \in Requests, pc'[q] = "d_commit" PROVE Gone(Target(q))'
  <2>1. PICK k \in Jobs : k = Target(q)  BY TargetIsJob DEF Actors
  <2>2. Gone(k)'
    <3>1. CASE pc[q] = "d_commit"  BY <1>5, <2>1, <3>1 DEF HonestInv
    <3>2. CASE pc[q] # "d_commit"
      <4>1. q = r /\ k = j  BY <1>0, <1>1, <1>7, <2>1, <3>2 DEF Actors
      <4>2. CASE Looks(r)
        <5>1. row[k].status \in Deletable /\ ~row[k].path
          BY <1>0, <1>7, <4>1, <4>2 DEF Looks
        <5>2. Gone(k)  BY <5>1 DEF HonestInv, Recorded, Gone, Deletable
        <5> QED  BY <1>5, <5>2
      <4>3. CASE Unlinks(r)
        <5>1. quar'[k] = "none"
          BY <1>0, <1>7, <4>1, <4>3 DEF Unlinks, Discard, TypeOK
        <5> QED  BY <5>1 DEF Gone
      <4> QED
        BY <1>1, <1>7, <4>1, <4>2, <4>3 DEF Deletes, Clears, Drops, Returns
    <3> QED  BY <3>1, <3>2
  <2> QED  BY <1>2, <2>1, <2>2 DEF Gone
<1> QED  BY <1>6, <1>7 DEF HonestInv

LEMMA CrashHonest ==
    ASSUME TypeOK, HonestInv, CrashRestart
    PROVE  HonestInv'
<1>1. /\ UNCHANGED <<task, src, out, row>>
      /\ \A k \in Jobs : quar'[k] \in {"none", quar[k]}
  BY DEF CrashRestart, Referenced, fixed
<1>2. \A k \in Jobs : Copies(k)' = Copies(k)  BY <1>1, TargetStays DEF Copies
<1>3. \A k \in Jobs : Recorded(k)' /\ Honest(k)'
  BY <1>1, <1>2 DEF HonestInv, Recorded, Honest, Gone
<1>4. \A r \in Requests : pc'[r] # "d_commit"
  BY DEF CrashRestart, Restarted, Actors, TypeOK
<1> QED  BY <1>3, <1>4 DEF HonestInv

LEMMA HonestStep ==
    ASSUME TypeOK, CustodyInv, RestoreInv, HonestInv, [Next]_vars
    PROVE  HonestInv'
<1>1. CASE UNCHANGED vars
  <2> USE <1>1 DEF vars, fixed, disk
  <2>1. \A b : Target(b)' = Target(b)  BY TargetStays
  <2>2. \A k \in Jobs : Copies(k)' = Copies(k)  BY <2>1 DEF Copies
  <2>3. \A k \in Jobs : Recorded(k)' = Recorded(k) /\ Gone(k)' = Gone(k)
    BY DEF Recorded, Gone
  <2>4. \A k \in Jobs : Honest(k) => Honest(k)'  BY <2>2, <2>3 DEF Honest
  <2>5. \A r \in Requests : Gone(Target(r)) => Gone(Target(r))'
    BY <2>1 DEF Gone
  <2> QED  BY <2>3, <2>4, <2>5 DEF HonestInv
<1> QED
  BY <1>1, PipelineHonest, RestoresHonest, ServeHonest, CrashHonest DEF Next

\* Through any number of crashes, failing copies and unlinks, dropped handlers and
\* races for the same file, no row claims a restore or a delete that the disk does
\* not show (file_mover.rs restore_to_path and delete_file before job_store.rs
\* set_restored and set_deleted; start-up leaves the rows as they are).
THEOREM RowsAreNeverAhead == Spec => []RowsNeverOverclaim
<1>1. Init => HonestInv
  <2> SUFFICES ASSUME Init PROVE HonestInv
    OBVIOUS
  <2>1. \A j \in Jobs : row[j].status = "absent"  BY FreshStatus DEF Init
  <2>2. \A r \in Requests : pc[r] # "d_commit"  BY DEF Init, Actors
  <2> QED  BY <2>1, <2>2 DEF HonestInv, Recorded, Honest
<1>2. TypeOK /\ CustodyInv /\ RestoreInv /\ HonestInv /\ [Next]_vars => HonestInv'
  BY HonestStep
<1>3. HonestInv => RowsNeverOverclaim
  BY DEF HonestInv, Honest, Gone, RowsNeverOverclaim
<1> QED
  BY <1>1, <1>2, <1>3, TypeCorrect, CustodyInvariant, RestoreInvariant, PTL DEF Spec
===============================================================================
