----------------------------- MODULE EnginesProofs -----------------------------
(***************************************************************************)
(* Theorems about the two engines in their order: what is proved of one    *)
(* call of each holds between them, and a release has its grounds, for     *)
(* every bound of VtClient and LocalScanner.                               *)
(***************************************************************************)
EXTENDS Engines, VtClientProofs

\* The proofs about the local scanner, for the variables of this module.
LP == INSTANCE LocalScannerProofs

\* A verdict of VirusTotal stands on the report that is still there: nothing is
\* learned once the call is over.
StandsOnReport ==
    result = "clean" => report \in Reports /\ Covered(report) /\ ~Flagged(report)

StageType ==
    /\ engines \in [local : BOOLEAN, vt : BOOLEAN, bypass : BOOLEAN]
    /\ stage \in {"local", "gate", "vt", "end"}
    /\ fate \in {"none", "released", "kept"}

\* Nothing is released before the end, and nothing happens after it.
EngineInv ==
    /\ CallInv /\ LP!ScanInv /\ StageType
    /\ StandsOnReport
    /\ fate = "released" => stage = "end"
    /\ ReleaseIsWarranted

LEMMA SizesHold == LP!Sizes
BY EnginesAssumption DEF EnginesAssumption, LP!Sizes

-------------------------------------------------------------------------------
(* The two readings of the local scanner, Local! of Engines and LP! of the *)
(* proofs, are one.                                                        *)

LEMMA SameTypes == Local!TypeOK <=> LP!TypeOK
BY DEF Local!TypeOK, Local!Command, Local!Terminator, Local!Pieces, Local!Words, Local!NUL,
       LP!TypeOK, LP!Command, LP!Terminator, LP!Pieces, LP!Words, LP!NUL

LEMMA SameInit == Local!Init <=> LP!Init
BY DEF Local!Init, Local!Command, LP!Init, LP!Command

LEMMA SameReturn == ASSUME NEW v PROVE Local!Return(v) <=> LP!Return(v)
BY DEF Local!Return, Local!Command, LP!Return, LP!Command

LEMMA SameClassify == ASSUME NEW r PROVE Local!Classify(r) = LP!Classify(r)
BY DEF Local!Classify, LP!Classify, Local!Says, LP!Says, Local!Contains, LP!Contains

LEMMA SameCall == Local!Call => LP!Call
<1>1. Local!Open => LP!Open
  BY SameReturn DEF Local!Open, LP!Open, Local!World, LP!World, Local!Exchange, LP!Exchange
<1>2. Local!Connect => LP!Connect
  BY SameReturn DEF Local!Connect, LP!Connect, Local!World, LP!World
<1>3. Local!ReadFails => LP!ReadFails
  BY SameReturn DEF Local!ReadFails, LP!ReadFails, Local!World, LP!World
<1>4. Local!Write => LP!Write
  BY DEF Local!Write, LP!Write, Local!World, LP!World, Local!Terminator, LP!Terminator
<1>5. Local!Broken => LP!Broken
  BY SameReturn DEF Local!Broken, LP!Broken, Local!World, LP!World
<1>6. Local!Read => LP!Read
  BY SameReturn, SameClassify
     DEF Local!Read, LP!Read, Local!World, LP!World, Local!Says, LP!Says, Local!NUL, LP!NUL,
         Local!Contains, LP!Contains
<1>7. Local!EndOfReply => LP!EndOfReply
  BY SameReturn, SameClassify DEF Local!EndOfReply, LP!EndOfReply, Local!World, LP!World
<1>8. Local!Dropped => LP!Dropped
  BY SameReturn DEF Local!Dropped, LP!Dropped, Local!World, LP!World
<1>. QED  BY <1>1, <1>2, <1>3, <1>4, <1>5, <1>6, <1>7, <1>8 DEF Local!Call, LP!Call

LEMMA SameAround == Local!Daemon \/ Local!Stop =>
                    LP!Takes \/ LP!Judges \/ LP!Refuses \/ LP!HangsUp \/ LP!Stop \/ LP!Vanish
<1>1. Local!Takes => LP!Takes
  BY DEF Local!Takes, LP!Takes, Local!Client, LP!Client
<1>2. Local!Judges => LP!Judges
  BY DEF Local!Judges, LP!Judges, Local!Client, LP!Client, Local!Terminator, LP!Terminator,
         Local!Answers, LP!Answers, Local!Command, LP!Command, Local!NUL, LP!NUL
<1>3. Local!Refuses => LP!Refuses
  BY DEF Local!Refuses, LP!Refuses, Local!Client, LP!Client, Local!Answers, LP!Answers,
         Local!NUL, LP!NUL
<1>4. Local!HangsUp => LP!HangsUp
  BY DEF Local!HangsUp, LP!HangsUp, Local!Client, LP!Client
<1>5. Local!Stop => LP!Stop
  BY DEF Local!Stop, LP!Stop
<1>. QED  BY <1>1, <1>2, <1>3, <1>4, <1>5 DEF Local!Daemon

-------------------------------------------------------------------------------
(* What a step of one engine leaves to the other.                          *)

\* The invariant of a call depends on its own variables only.
LEMMA CallIdle == CallInv /\ UNCHANGED vtVars => CallInv'
BY StutterKeepsInv DEF vtVars

LEMMA ScannerIdle ==
    LP!ScanInv /\ UNCHANGED localVars /\ file' \in BOOLEAN => LP!ScanInv'
BY DEF localVars, LP!ScanInv, LP!TypeOK, LP!InOrder, LP!FrameLeft, LP!WordsAreMeant,
       LP!Unanswered, LP!CleanIsWhole

LEMMA StandsIdle == StandsOnReport /\ UNCHANGED vtVars => StandsOnReport'
BY DEF StandsOnReport, vtVars, vars, cloud

LEMMA FileIsBoolean == CallInv => file \in BOOLEAN
BY DEF CallInv, TypeOK

\* The call reads the report and never changes it.
LEMMA CallKeepsReport == Call => report' = report
<1>. USE DEF World, cloud
<1>1. CASE Stat \/ Hash \/ ReadContent \/ Wake \/ CancelSeen \/ NoAnswer
  BY <1>1 DEF Stat, Hash, ReadContent, Wake, CancelSeen, NoAnswer
<1>2. CASE Headers \/ NotFound \/ LookupBody \/ UrlBody \/ UploadBody \/ PollBody
  BY <1>2 DEF Headers, NotFound, LookupBody, UrlBody, UploadBody, PollBody
<1>. QED  BY <1>1, <1>2 DEF Call

\* A verdict of the call is given on the report of that moment, and the report does
\* not move once there is a verdict.
LEMMA CallStands == CallInv /\ Call => StandsOnReport'
<1> SUFFICES ASSUME CallInv, Call PROVE StandsOnReport'
  OBVIOUS
<1>1. Allowed /\ report' = report
  BY CallIsAllowed, CallKeepsReport
<1>. QED  BY <1>1 DEF Allowed, StandsOnReport

LEMMA AroundStands ==
    CallInv /\ StandsOnReport /\ (Trip \/ LoseFile \/ Analyse) => StandsOnReport'
<1> SUFFICES ASSUME CallInv, StandsOnReport, Trip \/ LoseFile \/ Analyse PROVE StandsOnReport'
  OBVIOUS
<1>1. CASE Trip \/ LoseFile
  BY <1>1 DEF Trip, LoseFile, cloud, StandsOnReport
<1>2. CASE Analyse
  BY <1>2 DEF Analyse, CallInv, ResultAtEnd, StandsOnReport
<1>. QED  BY <1>1, <1>2

-------------------------------------------------------------------------------
(* The two calls and the report, through every step.                       *)

Calls == CallInv /\ LP!ScanInv /\ StandsOnReport

LEMMA CallsNext == Calls /\ ScanNext => Calls'
<1> SUFFICES ASSUME Calls, ScanNext PROVE Calls'
  OBVIOUS
<1>. USE DEF Calls
<1>1. CASE InLocal(Local!Call) \/ InLocal(Local!Daemon) \/ InLocal(Local!Stop)
  <2>1. UNCHANGED vtVars
    BY <1>1 DEF InLocal
  <2>2. LP!ScanInv'
    BY <1>1, SizesHold, SameCall, SameAround, LP!CallKeepsInv, LP!WorldKeepsInv DEF InLocal
  <2>. QED  BY <2>1, <2>2, CallIdle, StandsIdle
<1>2. CASE AfterLocal \/ Gate \/ Decide
  <2>1. UNCHANGED vtVars /\ UNCHANGED localVars
    BY <1>2 DEF AfterLocal, Gate, Decide
  <2>2. CallInv' /\ StandsOnReport'
    BY <2>1, CallIdle, StandsIdle
  <2>. QED  BY <2>1, <2>2, ScannerIdle, FileIsBoolean DEF vtVars, vars
<1>3. CASE InVt(Call) \/ InVt(Trip) \/ InVt(Analyse) \/ CopyRemoved
  <2>1. UNCHANGED localVars /\ (Call \/ Trip \/ LoseFile \/ Analyse)
    BY <1>3 DEF InVt, CopyRemoved
  <2>2. CallInv' /\ StandsOnReport'
    BY <2>1, CallKeepsInv, WorldKeepsInv, CallStands, AroundStands
  <2>3. file' \in BOOLEAN
    BY <2>2 DEF CallInv, TypeOK
  <2>. QED  BY <2>1, <2>2, <2>3, ScannerIdle
<1>. QED  BY <1>1, <1>2, <1>3 DEF ScanNext

-------------------------------------------------------------------------------
(* The stages.                                                             *)

LEMMA StageNext == StageType /\ ScanNext => StageType'
<1> SUFFICES ASSUME StageType, ScanNext PROVE StageType'
  OBVIOUS
<1>. USE DEF StageType, stageVars
<1>1. CASE InLocal(Local!Call) \/ InLocal(Local!Daemon) \/ InLocal(Local!Stop)
  BY <1>1 DEF InLocal
<1>2. CASE AfterLocal \/ Gate \/ Decide
  BY <1>2 DEF AfterLocal, Gate, Decide, End_
<1>3. CASE InVt(Call) \/ InVt(Trip) \/ InVt(Analyse) \/ CopyRemoved
  BY <1>3 DEF InVt, CopyRemoved
<1>. QED  BY <1>1, <1>2, <1>3 DEF ScanNext

\* Only Decide releases, and it comes once: no step is taken from the end.
LEMMA ReleaseNext ==
    EngineInv /\ ScanNext => (fate' = "released" => stage' = "end" /\ Decide /\ Releases)
<1> SUFFICES ASSUME EngineInv, ScanNext, fate' = "released"
             PROVE  stage' = "end" /\ Decide /\ Releases
  OBVIOUS
<1>1. stage # "end" /\ fate # "released"
  BY DEF EngineInv, ScanNext, InLocal, InVt, AfterLocal, Gate, Decide, CopyRemoved
<1>2. CASE InLocal(Local!Call) \/ InLocal(Local!Daemon) \/ InLocal(Local!Stop)
  BY <1>1, <1>2 DEF InLocal, stageVars
<1>3. CASE AfterLocal \/ Gate
  BY <1>1, <1>3 DEF AfterLocal, Gate, End_
<1>4. CASE Decide
  BY <1>4 DEF Decide, End_
<1>5. CASE InVt(Call) \/ InVt(Trip) \/ InVt(Analyse) \/ CopyRemoved
  BY <1>1, <1>5 DEF InVt, CopyRemoved, stageVars
<1>. QED  BY <1>2, <1>3, <1>4, <1>5 DEF ScanNext

\* The decision has the grounds of whichever engine it follows.
LEMMA DecideIsWarranted == EngineInv /\ Decide /\ Releases => ReleaseIsWarranted'
<1> SUFFICES ASSUME EngineInv, Decide, Releases PROVE ReleaseIsWarranted'
  OBVIOUS
<1>1. UNCHANGED <<result, report, bad, engines>>
  BY DEF Decide, vtVars, vars, cloud, localVars
<1>2. CASE result = "clean"
  <2>1. report \in Reports /\ Covered(report) /\ ~Flagged(report)
    BY <1>2 DEF EngineInv, StandsOnReport
  <2>2. report # NoReport
    BY <2>1, VtClientAssumption DEF VtClientAssumption
  <2>. QED  BY <1>1, <1>2, <2>1, <2>2 DEF ReleaseIsWarranted
<1>3. CASE result = "inconclusive" /\ engines.local /\ verdict = "clean"
  <2>1. bad = 0
    BY <1>3 DEF EngineInv, LP!ScanInv, LP!CleanIsWhole
  <2>. QED  BY <1>1, <1>3, <2>1 DEF ReleaseIsWarranted
<1>. QED  BY <1>2, <1>3 DEF Releases

LEMMA EngineNext == EngineInv /\ ScanNext => EngineInv'
<1> SUFFICES ASSUME EngineInv, ScanNext PROVE EngineInv'
  OBVIOUS
<1>1. CallInv' /\ LP!ScanInv' /\ StandsOnReport' /\ StageType'
  BY CallsNext, StageNext DEF EngineInv, Calls
<1>2. fate' = "released" => stage' = "end"
  BY ReleaseNext
<1>3. ReleaseIsWarranted'
  <2>1. CASE fate' = "released"
    BY <2>1, ReleaseNext, DecideIsWarranted
  <2>2. CASE fate' # "released"
    BY <2>2 DEF ReleaseIsWarranted
  <2>. QED  BY <2>1, <2>2
<1>. QED  BY <1>1, <1>2, <1>3 DEF EngineInv

LEMMA EngineIdle == EngineInv /\ UNCHANGED scanVars => EngineInv'
<1> SUFFICES ASSUME EngineInv, UNCHANGED scanVars PROVE EngineInv'
  OBVIOUS
<1>1. UNCHANGED vtVars /\ UNCHANGED localVars /\ UNCHANGED stageVars
  BY DEF scanVars
<1>2. CallInv' /\ StandsOnReport'
  BY <1>1, CallIdle, StandsIdle DEF EngineInv
<1>3. LP!ScanInv'
  <2>1. file' \in BOOLEAN
    BY <1>2 DEF CallInv, TypeOK
  <2>. QED  BY <1>1, <2>1, ScannerIdle DEF EngineInv
<1>4. UNCHANGED <<result, report, bad, engines, stage, fate>>
  BY <1>1 DEF vtVars, vars, cloud, localVars, stageVars
<1>. QED  BY <1>2, <1>3, <1>4 DEF EngineInv, StageType, ReleaseIsWarranted

LEMMA EngineInit == ScanInit => EngineInv
<1> SUFFICES ASSUME ScanInit PROVE EngineInv
  OBVIOUS
<1>1. CallInv /\ LP!ScanInv
  BY InitInv, SizesHold, SameInit, LP!InitInv DEF ScanInit
<1>2. StageType
  BY DEF ScanInit, StageType
<1>3. result = "none" /\ fate = "none"
  BY DEF ScanInit, Init
<1>. QED  BY <1>1, <1>2, <1>3 DEF EngineInv, StandsOnReport, ReleaseIsWarranted

LEMMA EngineInvHolds == ScanSpec => []EngineInv
<1>1. EngineInv /\ [ScanNext]_scanVars => EngineInv'
  BY EngineNext, EngineIdle
<1>. QED  BY EngineInit, <1>1, PTL DEF ScanSpec

-------------------------------------------------------------------------------
(* The theorems.                                                           *)

\* Type correctness of both calls and of the order between them (watcher.rs
\* 545-719).
THEOREM ScanTypes == ScanSpec => []ScanTypeOK
<1>1. EngineInv => ScanTypeOK
  BY SameTypes DEF EngineInv, CallInv, LP!ScanInv, StageType, ScanTypeOK
<1>. QED  BY EngineInvHolds, <1>1, PTL

\* What is proved of a local scan alone (local_scanner.rs) holds in the pipeline,
\* where the copy may be removed under it and the cancelled future is dropped.
THEOREM ClearedInPipeline == ScanSpec => []CleanIsWhole
<1>1. EngineInv => CleanIsWhole
  BY DEF EngineInv, LP!ScanInv, LP!CleanIsWhole, CleanIsWhole, Local!CleanIsWhole
<1>. QED  BY EngineInvHolds, <1>1, PTL

\* watcher.rs 545-719 and restore_decision: whatever the engines, the file and the
\* cancels do, a file is released only on a report with coverage and no flag, or,
\* VirusTotal being inconclusive, after clamd cleared all of it.
THEOREM ReleasesAreWarranted == ScanSpec => []ReleaseIsWarranted
<1>1. EngineInv => ReleaseIsWarranted
  BY DEF EngineInv
<1>. QED  BY EngineInvHolds, <1>1, PTL

\* The guarantees of a VirusTotal call alone hold in the pipeline too: the content
\* stays in hash-only mode, goes out once otherwise, and a cancel is seen in time.
THEOREM CallInPipeline ==
    ScanSpec => [](HashOnlyKeepsContent /\ UploadedAtMostOnce /\ CancelSeenInTime)
<1>1. EngineInv => HashOnlyKeepsContent /\ UploadedAtMostOnce /\ CancelSeenInTime
  BY DEF EngineInv, CallInv, Private, SentOnce, LastAnswer,
         HashOnlyKeepsContent, UploadedAtMostOnce, CancelSeenInTime
<1>. QED  BY EngineInvHolds, <1>1, PTL

-------------------------------------------------------------------------------
(* Each engine keeps the promise of EngineCall while the other one, the    *)
(* pipeline and whoever removes the copy take their steps.                 *)

LEMMA VtAnswers == EngineInv /\ [ScanNext]_scanVars => [Contract!Next]_(Contract!vars)
<1> SUFFICES ASSUME EngineInv, [ScanNext]_scanVars PROVE [Contract!Next]_(Contract!vars)
  OBVIOUS
<1>1. CASE InVt(Call) \/ InVt(Trip) \/ InVt(Analyse) \/ CopyRemoved
  BY <1>1, StepSimulates DEF InVt, CopyRemoved, Next, EngineInv
<1>2. CASE UNCHANGED vtVars
  BY <1>2, StepSimulates DEF vtVars, EngineInv
<1>3. InLocal(Local!Call) \/ InLocal(Local!Daemon) \/ InLocal(Local!Stop) => UNCHANGED vtVars
  BY DEF InLocal
<1>4. AfterLocal \/ Gate \/ Decide \/ UNCHANGED scanVars => UNCHANGED vtVars
  BY DEF AfterLocal, Gate, Decide, scanVars
<1>. QED  BY <1>1, <1>2, <1>3, <1>4 DEF ScanNext

\* The two readings of the scanner see the same call.
LEMMA SameContract ==
    /\ LP!Contract!Init <=> Local!Contract!Init
    /\ [LP!Contract!Next]_(LP!Contract!vars) <=> [Local!Contract!Next]_(Local!Contract!vars)
BY DEF LP!Contract!Init, Local!Contract!Init, LP!Contract!vars, Local!Contract!vars,
       LP!Contract!Next, Local!Contract!Next, LP!Contract!Answer, Local!Contract!Answer,
       LP!Contract!Stop, Local!Contract!Stop, LP!Contract!Learn, Local!Contract!Learn

LEMMA LocalAnswers ==
    EngineInv /\ [ScanNext]_scanVars => [Local!Contract!Next]_(Local!Contract!vars)
<1> SUFFICES ASSUME EngineInv, [ScanNext]_scanVars
             PROVE  [Local!Contract!Next]_(Local!Contract!vars)
  OBVIOUS
<1>1. CASE InLocal(Local!Call)
  <2>1. [LP!Contract!Next]_(LP!Contract!vars)
    BY <1>1, SameCall, LP!StepSimulates DEF InLocal, EngineInv, LP!Next
  <2>. QED  BY <2>1, SameContract
<1>2. CASE InLocal(Local!Daemon) \/ InLocal(Local!Stop)
  <2>1. [LP!Contract!Next]_(LP!Contract!vars)
    BY <1>2, SameAround, LP!StepSimulates DEF InLocal, EngineInv, LP!Next, LP!Daemon
  <2>. QED  BY <2>1, SameContract
<1>3. CASE UNCHANGED localVars
  BY <1>3 DEF localVars, Local!Contract!vars
<1>4. \/ InVt(Call) \/ InVt(Trip) \/ InVt(Analyse) \/ CopyRemoved
      \/ AfterLocal \/ Gate \/ Decide \/ UNCHANGED scanVars
      => UNCHANGED localVars
  BY DEF InVt, CopyRemoved, AfterLocal, Gate, Decide, scanVars
<1>. QED  BY <1>1, <1>2, <1>3, <1>4 DEF ScanNext

\* The safety part of VtImplementsCall and of LocalImplementsCall, in the pipeline:
\* both engines answer once, stand behind what they say, and say cancelled only when
\* they were (virus_checker.rs, local_scanner.rs, watcher.rs 545-719).
THEOREM EnginesKeepTheContract ==
    ScanSpec => /\ Contract!Init /\ [][Contract!Next]_(Contract!vars)
                /\ Local!Contract!Init /\ [][Local!Contract!Next]_(Local!Contract!vars)
<1>1. ScanInit => Contract!Init /\ Local!Contract!Init
  <2>1. ScanInit => Contract!Init
    BY ContractInit DEF ScanInit, Init
  <2>2. ScanInit => Local!Contract!Init
    BY DEF ScanInit, Local!Init, Local!Contract!Init
  <2>. QED  BY <2>1, <2>2
<1>. QED  BY EngineInvHolds, VtAnswers, LocalAnswers, <1>1, PTL DEF ScanSpec
===============================================================================
