---------------------------- MODULE VtClientProofs ----------------------------
(***************************************************************************)
(* Theorems about one call of the VirusTotal client, for every bound on    *)
(* polls and attempts and every set of reports.                            *)
(***************************************************************************)
EXTENDS VtClient, TLAPS

(* What is true between the steps.                                          *)

\* A call that has not ended has no result, and a finished analysis has a report.
ResultAtEnd == phase # "done" => result = "none"
AnalysisReports == analysis = "completed" => report \in Reports

\* Hash-only mode stays before the upload.
Private == opts.hashOnly => uploads = 0 /\ phase \in {"stat", "hash", "lookup", "done"}

\* The content has gone out only once the request that carries it was made.
SentOnce == /\ uploads <= 1
            /\ phase \in {"stat", "hash", "lookup", "read", "url"} => uploads = 0

\* An answer taken in late is the last: no request waits for another.
LastAnswer == late = 0 \/ (late = 1 /\ tripped /\ ~Waiting)

\* The counters leave room: no attempt before the first, no poll before the upload
\* is answered, and a sleep is followed by a poll that still counts.
Counted == /\ phase \in {"stat", "hash", "lookup", "read"} => attempt = 0
           /\ phase \in {"stat", "hash", "lookup", "read", "url", "upload"} => polls = 0
           /\ phase = "sleep" => polls < MaxPolls

CallInv == /\ TypeOK /\ ResultAtEnd /\ AnalysisReports
           /\ Private /\ SentOnce /\ LastAnswer /\ Counted

LEMMA InitInv == Init => CallInv
<1> SUFFICES ASSUME Init PROVE CallInv
  OBVIOUS
<1>1. TypeOK
  <2>1. opts \in [hashOnly : BOOLEAN, size : {"small", "large", "oversized"}]
    BY DEF Init
  <2>2. report \in Reports \cup {NoReport}
    BY DEF Init
  <2>3. attempt \in 0..MaxAttempts /\ polls \in 0..MaxPolls
    BY VtClientAssumption DEF VtClientAssumption, Init
  <2>. QED  BY <2>1, <2>2, <2>3 DEF Init, TypeOK, Phases, Requests, Results
<1>2. ResultAtEnd /\ AnalysisReports
  BY DEF Init, ResultAtEnd, AnalysisReports
<1>3. Private /\ SentOnce /\ LastAnswer /\ Counted
  BY DEF Init, Private, SentOnce, LastAnswer, Counted
<1>. QED  BY <1>1, <1>2, <1>3 DEF CallInv

-------------------------------------------------------------------------------
(* The steps of the call, one by one.                                       *)

USE DEF World, token, cloud, seen, counters

\* The parts of the invariant, for the steps that are decided by SMT at once.
USE DEF CallInv, ResultAtEnd, AnalysisReports, Private, SentOnce, LastAnswer, Counted,
        Waiting, Requests

LEMMA StatInv == CallInv /\ Stat => CallInv'
BY DEF Stat, TypeOK, Phases, Results, End, Proceed

LEMMA HashInv == CallInv /\ Hash => CallInv'
BY DEF Hash, Send, TypeOK, Phases, Results, End, Proceed

LEMMA ReadContentInv == CallInv /\ ReadContent => CallInv'
<1> SUFFICES ASSUME CallInv, ReadContent PROVE CallInv'
  OBVIOUS
<1>1. CASE End("inconclusive") /\ UNCHANGED <<attempt, uploads>>
  BY <1>1 DEF ReadContent, TypeOK, Phases, Results, End
<1>2. CASE file /\ StartAttempt
  BY <1>2, VtClientAssumption
  DEF VtClientAssumption, ReadContent, StartAttempt, SendContent, Send, TypeOK, Phases, Results, End, Proceed
<1>. QED  BY <1>1, <1>2 DEF ReadContent

LEMMA WakeInv == CallInv /\ Wake => CallInv'
BY VtClientAssumption DEF VtClientAssumption, Wake, Send, TypeOK, Phases, Results, End, Proceed

LEMMA CancelSeenInv == CallInv /\ CancelSeen => CallInv'
BY DEF CancelSeen, TypeOK, Phases, Results, End

LEMMA NoAnswerInv == CallInv /\ NoAnswer => CallInv'
<1> SUFFICES ASSUME CallInv, NoAnswer PROVE CallInv'
  OBVIOUS
<1>. QED
  BY DEF NoAnswer, LookupFails, AttemptFails, ShouldRetryUpload, TypeOK, Phases, Results, End, Proceed

LEMMA HeadersInv == CallInv /\ Headers => CallInv'
BY DEF Headers, TypeOK, Phases, Results

LEMMA NotFoundInv == CallInv /\ NotFound => CallInv'
BY DEF NotFound, LookupFails, TypeOK, Phases, Results, End, Proceed

LEMMA LookupBodyInv == CallInv /\ LookupBody => CallInv'
BY DEF LookupBody, LookupFails, VerdictFromStats, TypeOK, Phases, Results, End, Proceed

LEMMA UrlBodyInv == CallInv /\ UrlBody => CallInv'
BY DEF UrlBody, AttemptFails, ShouldRetryUpload, SendContent, Send, TypeOK, Phases, Results, End,
       Proceed

LEMMA UploadBodyInv == CallInv /\ UploadBody => CallInv'
BY VtClientAssumption DEF VtClientAssumption, UploadBody, AttemptFails, ShouldRetryUpload, TypeOK, Phases, Results, End, Proceed

LEMMA PollBodyInv == CallInv /\ PollBody => CallInv'
BY DEF PollBody, NextPoll, VerdictFromStats, TypeOK, Phases, Results, End, Proceed

LEMMA CallKeepsInv == CallInv /\ Call => CallInv'
BY StatInv, HashInv, ReadContentInv, WakeInv, CancelSeenInv, NoAnswerInv, HeadersInv,
   NotFoundInv, LookupBodyInv, UrlBodyInv, UploadBodyInv, PollBodyInv
   DEF Call

LEMMA WorldKeepsInv == CallInv /\ (Trip \/ LoseFile \/ Analyse) => CallInv'
<1> SUFFICES ASSUME CallInv PROVE (Trip \/ LoseFile \/ Analyse) => CallInv'
  OBVIOUS
<1>1. CASE Trip
  BY <1>1 DEF Trip, TypeOK, Phases, Results
<1>2. CASE LoseFile
  BY <1>2 DEF LoseFile, TypeOK, Phases, Results
<1>3. CASE Analyse
  BY <1>3 DEF Analyse, TypeOK, Phases, Results
<1>. QED  BY <1>1, <1>2, <1>3

LEMMA StutterKeepsInv == CallInv /\ UNCHANGED vars => CallInv'
BY DEF vars, TypeOK, Phases, Results

LEMMA InvHolds == Spec => []CallInv
<1>1. CallInv /\ [Next]_vars => CallInv'
  BY CallKeepsInv, WorldKeepsInv, StutterKeepsInv DEF Next
<1>. QED  BY InitInv, <1>1, PTL DEF Spec

-------------------------------------------------------------------------------
(* The theorems.                                                            *)

\* Type correctness of the call: in particular no run of retries and polls takes a
\* counter past its bound.
THEOREM TypeCorrect == Spec => []TypeOK
<1>1. CallInv => TypeOK
  OBVIOUS
<1>. QED  BY InvHolds, <1>1, PTL

\* Privacy (virus_checker.rs:390-407): in hash-only mode no request carries the
\* content, whatever the lookup brings.
THEOREM Privacy == Spec => []HashOnlyKeepsContent
<1>1. CallInv => HashOnlyKeepsContent
  BY DEF HashOnlyKeepsContent
<1>. QED  BY InvHolds, <1>1, PTL

\* The content goes out once (virus_checker.rs:419-497), for any number of attempts
\* the constant would allow.
THEOREM SingleUpload == Spec => []UploadedAtMostOnce
<1>1. CallInv => UploadedAtMostOnce
  BY DEF UploadedAtMostOnce
<1>. QED  BY InvHolds, <1>1, PTL

\* Cancellation (virus_checker.rs:563-590): one more answer at most.
THEOREM PromptCancel == Spec => []CancelSeenInTime
<1>1. CallInv => CancelSeenInTime
  BY DEF CancelSeenInTime
<1>. QED  BY InvHolds, <1>1, PTL

-------------------------------------------------------------------------------
(* The steps of the call are steps of EngineCall.                           *)

\* A report gives the verdict it is grounds for, or none.
LEMMA VerdictHasGrounds ==
    ASSUME NEW s \in Reports
    PROVE  /\ ~Covered(s) => VerdictFromStats(s) = "inconclusive"
           /\ Covered(s) => VerdictFromStats(s) = IF Flagged(s) THEN "infected" ELSE "clean"
BY DEF VerdictFromStats

\* What a step may do to the call, seen from the pipeline: no result yet, or a
\* result that EngineCall allows.
Allowed ==
    /\ result = "none"
    /\ \/ result' = "none"
       \/ result' \in {"inconclusive", "oversized"}
       \/ result' = "cancelled" /\ tripped
       \/ /\ report \in Reports /\ Covered(report)
          /\ result' = IF Flagged(report) THEN "infected" ELSE "clean"

LEMMA CallIsAllowed == CallInv /\ Call => Allowed /\ UNCHANGED tripped
<1> SUFFICES ASSUME CallInv, Call PROVE Allowed /\ UNCHANGED tripped
  OBVIOUS
<1>1. CASE Stat \/ Hash \/ ReadContent \/ Wake
  BY <1>1 DEF Stat, Hash, ReadContent, Wake, StartAttempt, SendContent, Send, Proceed, End, Allowed
<1>2. CASE CancelSeen
  BY <1>2 DEF CancelSeen, End, Allowed
<1>3. CASE NoAnswer \/ Headers \/ NotFound
  BY <1>3 DEF NoAnswer, Headers, NotFound, LookupFails, AttemptFails, ShouldRetryUpload, Proceed,
              End, Allowed
<1>4. CASE LookupBody
  BY <1>4, VerdictHasGrounds DEF LookupBody, LookupFails, Proceed, End, Allowed, TypeOK
<1>5. CASE UrlBody \/ UploadBody
  BY <1>5 DEF UrlBody, UploadBody, AttemptFails, ShouldRetryUpload, SendContent, Send, Proceed,
              End, Allowed
<1>6. CASE PollBody
  BY <1>6, VerdictHasGrounds DEF PollBody, NextPoll, Proceed, End, Allowed
<1>. QED  BY <1>1, <1>2, <1>3, <1>4, <1>5, <1>6 DEF Call

LEMMA ContractInit ==
    Contract!Init <=> /\ result = "none" /\ tripped = FALSE
BY DEF Contract!Init

LEMMA StepSimulates == CallInv /\ [Next]_vars => [Contract!Next]_(Contract!vars)
<1> SUFFICES ASSUME CallInv, [Next]_vars PROVE [Contract!Next]_(Contract!vars)
  OBVIOUS
<1>1. CASE Call
  <2>1. Allowed /\ UNCHANGED tripped
    BY <1>1, CallIsAllowed
  <2>2. CASE result' = "none"
    BY <2>1, <2>2 DEF Allowed, Contract!Next, Contract!Learn
  <2>3. CASE result' # "none"
    BY <2>1, <2>3, VtClientAssumption
       DEF VtClientAssumption, Allowed, Contract!Next, Contract!Answer
  <2>. QED  BY <2>2, <2>3
<1>2. CASE Trip
  BY <1>2 DEF Trip, Contract!Next, Contract!Stop
<1>3. CASE LoseFile
  BY <1>3 DEF LoseFile, Contract!vars
<1>4. CASE Analyse
  BY <1>4 DEF Analyse, Contract!Next, Contract!Learn
<1>5. CASE UNCHANGED vars
  BY <1>5 DEF vars, Contract!vars
<1>. QED  BY <1>1, <1>2, <1>3, <1>4, <1>5 DEF Next

\* The safety part of VtImplementsCall: the client answers once, a verdict has the
\* report VirusTotal holds behind it, and 'cancelled' is said only of a cancelled call.
THEOREM AnswersLikeAnEngine == Spec => Contract!Init /\ [][Contract!Next]_(Contract!vars)
<1>1. Init => Contract!Init
  BY ContractInit DEF Init
<1>. QED  BY InvHolds, <1>1, StepSimulates, PTL DEF Spec
===============================================================================
