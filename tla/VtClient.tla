------------------------------- MODULE VtClient -------------------------------
(***************************************************************************)
(* One call of virus_check_file (virus_checker.rs): size guard, hash,      *)
(* lookup by hash, and, only outside hash-only mode, upload and polling.   *)
(*                                                                         *)
(* A request is cancellable until its headers arrive (cancellable); the    *)
(* body that follows is read without looking at the token.  VirusTotal is  *)
(* external: it answers from the report it holds, it may fail any request, *)
(* and it finishes an analysis when it likes, or never.                    *)
(***************************************************************************)
EXTENDS Naturals

CONSTANTS
    MaxPolls,     \* VT_MAX_POLLS; env_u64 refuses zero
    MaxAttempts,  \* MAX_UPLOAD_ATTEMPTS
    Reports,      \* what VirusTotal may report: engines per kind of answer
    NoReport      \* VirusTotal does not know the content

ASSUME VtClientAssumption ==
    /\ MaxPolls \in Nat \ {0}
    /\ MaxAttempts \in Nat \ {0}
    /\ Reports \subseteq [malicious : Nat, suspicious : Nat, harmless : Nat, undetected : Nat]
    /\ NoReport \notin Reports

VARIABLES
    opts,      \* [hashOnly, size]: the mode, and what the file weighs
    file,      \* the quarantine copy is there
    tripped,   \* the token of this call is cancelled
    report,    \* what VirusTotal holds on the content, or NoReport
    analysis,  \* the analysis an upload started: "none", "pending", "completed"
    phase,     \* where the call stands
    http,      \* of a request: "none" while it waits, then the status
    attempt,   \* uploads attempted
    polls,     \* polls made
    result,    \* the verdict, "cancelled" for 'Cancelled by user', or "none"
    \* Observation only: no guard reads these.
    uploads,   \* requests that may have carried the content away
    late       \* requests answered although the token was cancelled

token    == <<tripped>>
cloud    == <<report, analysis>>
seen     == <<uploads, late>>
counters == <<attempt, polls>>
vars     == <<opts, file, token, cloud, phase, http, counters, result, seen>>


Requests == {"lookup", "url", "upload", "poll"}
Phases == Requests \cup {"stat", "hash", "read", "sleep", "done"}
Results == {"none", "clean", "infected", "inconclusive", "oversized", "cancelled"}

TypeOK ==
    /\ opts \in [hashOnly : BOOLEAN, size : {"small", "large", "oversized"}]
    /\ file \in BOOLEAN /\ tripped \in BOOLEAN
    /\ report \in Reports \cup {NoReport}
    /\ analysis \in {"none", "pending", "completed"}
    /\ phase \in Phases
    /\ http \in {"none", "ok", "bad"}
    /\ attempt \in 0..MaxAttempts /\ polls \in 0..MaxPolls
    /\ result \in Results
    /\ uploads \in Nat /\ late \in Nat

Init ==
    /\ opts \in [hashOnly : BOOLEAN, size : {"small", "large", "oversized"}]
    /\ file = TRUE /\ tripped = FALSE
    /\ report \in Reports \cup {NoReport}
    /\ analysis = "none"
    /\ phase = "stat" /\ http = "none"
    /\ attempt = 0 /\ polls = 0
    /\ result = "none"
    /\ uploads = 0 /\ late = 0

-------------------------------------------------------------------------------
(* Pieces of the call.                                                      *)

Covered(s) == s.malicious + s.suspicious + s.harmless + s.undetected > 0
Flagged(s) == s.malicious > 0 \/ s.suspicious > 0

\* Mutant: the zero-coverage guard is missing.
VerdictFromStatsMutant(s) == IF Flagged(s) THEN "infected" ELSE "clean"

\* verdict_from_stats: no engine reported, no verdict.
VerdictFromStats(s) ==
    CASE ~Covered(s) -> "inconclusive"
      [] Covered(s) /\ Flagged(s) -> "infected"
      [] Covered(s) /\ ~Flagged(s) -> "clean"

End(r) == phase' = "done" /\ http' = "none" /\ result' = r

Proceed(p) == phase' = p /\ http' = "none" /\ UNCHANGED result

\* Mutant: the token is not looked at.
SendMutant(p) == Proceed(p)

\* cancellable: with the token already cancelled, select! cannot wait for the
\* answer.
Send(p) == IF tripped THEN End("cancelled") ELSE Proceed(p)

\* The first poll of a request may hand its body to the connection, even if the
\* token then wins.
SendContent ==
    /\ Send("upload")
    /\ uploads' \in (IF tripped THEN {uploads, uploads + 1} ELSE {uploads + 1})

\* One turn of the upload loop: large files need a one-time URL first.
StartAttempt ==
    /\ attempt' = attempt + 1
    /\ IF opts.size = "large"
       THEN Send("url") /\ UNCHANGED uploads
       ELSE SendContent

\* Mutant: uploads are retried.
ShouldRetryUploadMutant == TRUE

\* should_retry_upload
ShouldRetryUpload == FALSE

\* An attempt failed: the next one, or the failure is the result.
AttemptFails ==
    IF ShouldRetryUpload /\ attempt < MaxAttempts
    THEN StartAttempt
    ELSE End("inconclusive") /\ UNCHANGED <<attempt, uploads>>

\* Mutant: a failed lookup falls back to an upload in every mode.
LookupFailsMutant == Proceed("read")

\* Unknown or failed: hash-only mode ends here.
LookupFails == IF opts.hashOnly THEN End("inconclusive") ELSE Proceed("read")

\* Mutant: one poll too many.
NextPollMutant == IF polls <= MaxPolls THEN Proceed("sleep") ELSE End("inconclusive")

\* The poll loop goes round, or has used up its turns.
NextPoll == IF polls < MaxPolls THEN Proceed("sleep") ELSE End("inconclusive")

-------------------------------------------------------------------------------
(* The call.                                                                *)

World == UNCHANGED <<opts, file, token, cloud>>

\* The size guard.
Stat ==
    /\ phase = "stat"
    /\ IF ~file THEN End("inconclusive")
       ELSE IF opts.size = "oversized" THEN End("oversized") ELSE Proceed("hash")
    /\ UNCHANGED <<counters, seen>> /\ World

\* sha256_file, then the lookup goes out.  A read may fail for its own reasons.
Hash ==
    /\ phase = "hash"
    /\ End("inconclusive") \/ (file /\ Send("lookup"))
    /\ UNCHANGED <<counters, seen>> /\ World

\* The bytes are read for the upload.
ReadContent ==
    /\ phase = "read"
    /\ \/ End("inconclusive") /\ UNCHANGED <<attempt, uploads>>
       \/ file /\ StartAttempt
    /\ UNCHANGED <<polls, late>> /\ World

\* Mutant: the polls are not counted.
WakeMutant ==
    /\ phase = "sleep"
    /\ Send("poll")
    /\ UNCHANGED <<attempt, polls, seen>> /\ World

\* sleep_or_cancel: the interval is over.
Wake ==
    /\ phase = "sleep"
    /\ polls' = polls + 1
    /\ Send("poll")
    /\ UNCHANGED <<attempt, seen>> /\ World

Waiting == phase \in Requests /\ http = "none"

\* The token wins the select! of a request or of a sleep.
CancelSeen ==
    /\ tripped /\ (Waiting \/ phase = "sleep")
    /\ End("cancelled")
    /\ UNCHANGED <<counters, seen>> /\ World

\* Network error, or one of the client's timeouts.
NoAnswer ==
    /\ Waiting
    /\ CASE phase = "lookup" -> LookupFails /\ UNCHANGED <<attempt, uploads>>
         [] phase \in {"url", "upload"} -> AttemptFails
         [] phase = "poll" -> End("inconclusive") /\ UNCHANGED <<attempt, uploads>>
    /\ UNCHANGED <<polls, late>> /\ World

\* The headers of an answer.  A content that is accepted gets an analysis.
Headers ==
    /\ Waiting
    /\ http' \in {"ok", "bad"}
    /\ analysis' = IF phase = "upload" /\ http' = "ok" THEN "pending" ELSE analysis
    /\ late' = IF tripped THEN late + 1 ELSE late
    /\ UNCHANGED <<opts, file, token, report, phase, counters, result, uploads>>

\* 404: VirusTotal does not know the hash.  No body is read.
NotFound ==
    /\ Waiting /\ phase = "lookup" /\ report = NoReport
    /\ late' = IF tripped THEN late + 1 ELSE late
    /\ LookupFails
    /\ UNCHANGED <<counters, uploads>> /\ World

\* The body of the lookup: a report, or nothing that can be used.
LookupBody ==
    /\ phase = "lookup" /\ http # "none"
    /\ \/ http = "ok" /\ report # NoReport /\ End(VerdictFromStats(report))
       \/ LookupFails
    /\ UNCHANGED <<counters, seen>> /\ World

\* The one-time URL, or a failed attempt.
UrlBody ==
    /\ phase = "url" /\ http # "none"
    /\ \/ http = "ok" /\ SendContent /\ UNCHANGED attempt
       \/ AttemptFails
    /\ UNCHANGED <<polls, late>> /\ World

\* The analysis id; an accepted upload with an unusable body is not retried.
UploadBody ==
    /\ phase = "upload" /\ http # "none"
    /\ IF http = "ok"
       THEN (Proceed("sleep") \/ End("inconclusive")) /\ UNCHANGED <<attempt, uploads>>
       ELSE AttemptFails
    /\ UNCHANGED <<polls, late>> /\ World

\* The state of the analysis: go on, score it, or give up.
PollBody ==
    /\ phase = "poll" /\ http # "none"
    /\ \/ http = "ok" /\ analysis = "pending" /\ NextPoll
       \/ http = "ok" /\ analysis = "completed" /\ End(VerdictFromStats(report))
       \/ End("inconclusive")
    /\ UNCHANGED <<counters, seen>> /\ World

Call == \/ Stat \/ Hash \/ ReadContent \/ Wake \/ CancelSeen \/ NoAnswer \/ Headers
        \/ NotFound \/ LookupBody \/ UrlBody \/ UploadBody \/ PollBody

-------------------------------------------------------------------------------
(* The world around it.                                                     *)

\* Watcher::cancel, or a mode change, hits the token of this call.
Trip ==
    /\ phase # "done" /\ ~tripped
    /\ tripped' = TRUE
    /\ UNCHANGED <<opts, file, cloud, phase, http, counters, result, seen>>

\* Somebody removes the quarantine copy.
LoseFile ==
    /\ phase # "done" /\ file
    /\ file' = FALSE
    /\ UNCHANGED <<opts, token, cloud, phase, http, counters, result, seen>>

\* VirusTotal finishes the analysis; from now on it reports its outcome.
Analyse ==
    /\ analysis = "pending" /\ phase # "done"
    /\ analysis' = "completed"
    /\ report' \in Reports
    /\ UNCHANGED <<opts, file, token, phase, http, counters, result, seen>>

Next == Call \/ Trip \/ LoseFile \/ Analyse

\* tokio runs the task, and the timeouts of the client end every request.
Spec == Init /\ [][Next]_vars /\ WF_vars(Call)

-------------------------------------------------------------------------------
(* Properties.                                                              *)

\* Privacy: in hash-only mode no request ever carries the content away, however
\* lookups fail, answers come late or the file disappears.
HashOnlyKeepsContent == opts.hashOnly => uploads = 0

\* The content goes out at most once per call: no failure of the upload, of the
\* one-time URL or of the polling sends it again.
UploadedAtMostOnce == uploads <= 1

\* A cancel is seen within one request: after it at most one more answer is
\* taken in, and no new request gets one.
CancelSeenInTime == late <= 1

-------------------------------------------------------------------------------
(* The client implements the call the pipeline relies on.                   *)

Contract == INSTANCE EngineCall WITH
    Verdicts <- {"clean", "infected"},
    Failures <- {"inconclusive", "oversized"},
    outcome  <- result,
    stopped  <- tripped,
    grounds  <- IF report = NoReport THEN {}
                ELSE IF ~Covered(report) THEN {}
                ELSE {IF Flagged(report) THEN "infected" ELSE "clean"}

\* It says clean or infected only of a content VirusTotal holds a report on in
\* which at least one engine took part, it says cancelled only when cancelled,
\* and a cancelled call comes back.
VtImplementsCall == Contract!CallSpec
===============================================================================
