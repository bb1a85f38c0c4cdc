----------------------------- MODULE MenuBarProofs ----------------------------
(***************************************************************************)
(* Theorems about MenuBar: the app never shows a list of jobs the daemon   *)
(* has not had, and once it agrees with the daemon and nothing under way   *)
(* says otherwise, it goes on agreeing until somebody changes something.   *)
(* That it comes to agree is liveness, and left to TLC.                    *)
(***************************************************************************)
EXTENDS MenuBar, TLAPS

CallRecords == [kind : Kinds, at : {"sent", "ok", "refused", "failed"},
                mode : Modes, jobs : 0..MaxJobs]

LEMMA NewRequest ==
    ASSUME NEW kind \in Kinds, NEW m \in Modes
    PROVE  /\ Request(kind, m) = [kind |-> kind, at |-> "sent", mode |-> m, jobs |-> 0]
           /\ Request(kind, m) \in CallRecords
           /\ Idle \in CallRecords
<1>1. 0 \in 0..MaxJobs /\ Active \in Modes /\ "idle" \in Kinds
  BY MenuBarAssumption DEF MenuBarAssumption, Kinds
<1>2. Request(kind, m) = [kind |-> kind, at |-> "sent", mode |-> m, jobs |-> 0]
  <2>1. Idle = [kind |-> "idle", at |-> "sent", mode |-> Active, jobs |-> 0]
    BY DEF Idle
  <2>2. PICK u : u = [Idle EXCEPT !.kind = kind]  OBVIOUS
  <2>3. u = [kind |-> kind, at |-> "sent", mode |-> Active, jobs |-> 0]
    BY <2>1, <2>2
  <2>4. [u EXCEPT !.mode = m] = [kind |-> kind, at |-> "sent", mode |-> m, jobs |-> 0]
    BY <2>3
  <2>5. Request(kind, m) = [u EXCEPT !.mode = m]  BY <2>2 DEF Request
  <2> QED  BY <2>4, <2>5
<1> QED  BY <1>1, <1>2 DEF Idle, CallRecords

\* An answer replaces the call c by nothing, or by the post of the mode it shows.
LEMMA AfterEffect ==
    ASSUME TypeOK, NEW c \in Calls, NEW m \in Modes, After(c, m)
    PROVE  /\ call' \in [Calls -> CallRecords]
           /\ \A d \in Calls \ {c} : call'[d] = call[d]
           /\ call'[c] = IF tab /\ m # shown.mode THEN Request("mode", m) ELSE Idle
<1>1. "mode" \in Kinds  BY DEF Kinds
<1>2. Request("mode", m) \in CallRecords /\ Idle \in CallRecords
  BY <1>1, NewRequest
<1> QED  BY <1>2 DEF After, TypeOK, CallRecords

\* Every field of the requests and of what is shown keeps its type: no answer,
\* lost or late, puts a mode on screen that the daemon could not have
\* (JobStore.swift, the completions of fetch and setMode).
THEOREM MenuTypeCorrect == Spec => []TypeOK
<1> USE MenuBarAssumption DEF MenuBarAssumption
<1>1. Init => TypeOK
  <2> SUFFICES ASSUME Init PROVE TypeOK
    OBVIOUS
  <2>1. Idle \in CallRecords  BY NewRequest DEF Kinds
  <2>2. call \in [Calls -> CallRecords]  BY <2>1 DEF Init
  <2>3. 0 \in 0..MaxJobs /\ 0 \in 0..MaxChoices /\ 0 \in 0..MaxFaults  OBVIOUS
  <2> QED  BY <2>2, <2>3 DEF Init, TypeOK, CallRecords
<1>2. TypeOK /\ [Next]_vars => TypeOK'
  <2> SUFFICES ASSUME TypeOK, [Next]_vars PROVE TypeOK'
    OBVIOUS
  <2> USE DEF TypeOK, CallRecords, daemon, app, bounds
  <2>1. ASSUME NEW c \in Calls, Fetch(c) \/ Act(c) \/ Choose(c) \/ Pick(c)
        PROVE  TypeOK'
    <3>1. \A k \in Kinds, m \in Modes :
            Send(c, Request(k, m)) => call' \in [Calls -> CallRecords]
      BY NewRequest DEF Send
    <3>2. {"fetch", "act", "mode"} \subseteq Kinds  BY DEF Kinds
    <3>3. CASE Fetch(c) \/ Act(c)  BY <3>1, <3>2, <3>3 DEF Fetch, Act
    <3>4. CASE Choose(c)  BY <3>1, <3>2, <3>4 DEF Choose
    <3>5. CASE Pick(c)  BY <3>1, <3>2, <3>5 DEF Pick
    <3> QED  BY <2>1, <3>3, <3>4, <3>5
  <2>2. ASSUME NEW c \in Calls, Serve(c) PROVE TypeOK'
    <3>1. call' \in [Calls -> CallRecords]  BY <2>2 DEF Serve
    <3>2. mode' \in Modes /\ jobs' \in 0..MaxJobs  BY <2>2 DEF Serve
    <3> QED  BY <2>2, <3>1, <3>2 DEF Serve
  <2>3. ASSUME NEW c \in Calls, Refuse(c) \/ Lose(c) \/ Unreachable(c) PROVE TypeOK'
    BY <2>3 DEF Refuse, Lose, Unreachable
  <2>4. ASSUME NEW c \in Calls, FetchReturns(c) \/ ModeReturns(c) PROVE TypeOK'
    <3>1. call[c] \in CallRecords  OBVIOUS
    <3>2. call' \in [Calls -> CallRecords]
      BY <2>4, <3>1, AfterEffect DEF FetchReturns, ModeReturns
    <3>3. shown' \in [mode : Modes, jobs : 0..MaxJobs]
      BY <2>4, <3>1 DEF FetchReturns, ModeReturns, Shows
    <3> QED  BY <2>4, <3>2, <3>3 DEF FetchReturns, ModeReturns
  <2>5. ASSUME NEW c \in Calls, FetchFails(c) \/ ActReturns(c) \/ NothingReturns(c)
        PROVE  TypeOK'
    <3>1. Request("fetch", Active) \in CallRecords /\ Idle \in CallRecords
      BY NewRequest DEF Kinds
    <3> QED  BY <2>5, <3>1 DEF FetchFails, ActReturns, NothingReturns
  <2>6. CASE Progress
    <3>1. jobs' \in 0..MaxJobs  BY <2>6 DEF Progress
    <3> QED  BY <2>6, <3>1 DEF Progress
  <2>7. CASE Tab \/ Back  BY <2>7 DEF Tab, Back
  <2>8. CASE Dashboard \/ Down
    <3>1. choices' \in 0..MaxChoices /\ faults' \in 0..MaxFaults
      BY <2>8 DEF Dashboard, Down
    <3> QED  BY <2>8, <3>1 DEF Dashboard, Down
  <2>9. CASE UNCHANGED vars  BY <2>9 DEF vars
  <2> QED
    BY <2>1, <2>2, <2>3, <2>4, <2>5, <2>6, <2>7, <2>8, <2>9 DEF Next, Returns
<1> QED  BY <1>1, <1>2, PTL DEF Spec

-------------------------------------------------------------------------------
\* The list shown, and every list on its way to the app, is one the daemon has had.
NeverAhead ==
    /\ shown.jobs <= jobs
    /\ \A c \in Calls : call[c].jobs <= jobs

\* Answers arrive in any order and any age, but none comes from the future: the jobs
\* shown are at most as new as the daemon's (JobStore.swift fetch, ui_server.rs jobs).
THEOREM ShowsOnlyThePast == Spec => []NeverAhead
<1> USE MenuBarAssumption DEF MenuBarAssumption
<1>1. Init => NeverAhead  BY DEF Init, NeverAhead, Idle
<1>2. TypeOK /\ TypeOK' /\ NeverAhead /\ [Next]_vars => NeverAhead'
  <2> SUFFICES ASSUME TypeOK, TypeOK', NeverAhead, [Next]_vars PROVE NeverAhead'
    OBVIOUS
  <2>0. /\ jobs \in Nat /\ jobs' \in Nat /\ shown.jobs \in Nat
        /\ \A c \in Calls : call[c].jobs \in Nat
    BY DEF TypeOK
  <2>a. \A k \in Kinds, m \in Modes : Request(k, m).jobs = 0
    BY NewRequest
  <2>b. Idle.jobs = 0  BY DEF Idle
  <2>c. {"fetch", "act", "mode"} \subseteq Kinds  BY DEF Kinds
  <2>d. \A c \in Calls : \A w : call' = [call EXCEPT ![c] = w] =>
            call'[c] = w /\ \A d \in Calls \ {c} : call'[d] = call[d]
    BY DEF TypeOK
  <2> USE <2>0 DEF NeverAhead, daemon, app, bounds
  <2>1. ASSUME NEW c \in Calls, Fetch(c) \/ Act(c) \/ Choose(c) \/ Pick(c)
        PROVE  NeverAhead'
    <3>1. \A k \in Kinds, m \in Modes :
            Send(c, Request(k, m)) =>
                call'[c].jobs = 0 /\ \A d \in Calls \ {c} : call'[d] = call[d]
      <4> SUFFICES ASSUME NEW k \in Kinds, NEW m \in Modes, Send(c, Request(k, m))
                   PROVE  call'[c].jobs = 0 /\ \A d \in Calls \ {c} : call'[d] = call[d]
        OBVIOUS
      <4>1. PICK w : w = Request(k, m)  OBVIOUS
      <4>2. call' = [call EXCEPT ![c] = w]  BY <4>1 DEF Send
      <4>3. w.jobs = 0  BY <2>a, <4>1
      <4> QED  BY <2>d, <4>2, <4>3
    <3>2. UNCHANGED jobs /\ shown'.jobs = shown.jobs
      BY <2>1 DEF Fetch, Act, Choose, Pick, TypeOK
    <3>3. call'[c].jobs = 0 /\ \A d \in Calls \ {c} : call'[d] = call[d]
      BY <2>1, <2>c, <3>1 DEF Fetch, Act, Choose, Pick
    <3> QED  BY <3>2, <3>3
  <2>2. ASSUME NEW c \in Calls, Serve(c) PROVE NeverAhead'
    <3>1. jobs' \in {jobs, jobs + 1} /\ UNCHANGED shown  BY <2>2 DEF Serve
    <3>2. /\ call'[c].jobs \in {jobs, call[c].jobs}
          /\ \A d \in Calls \ {c} : call'[d] = call[d]
      BY <2>2 DEF Serve, TypeOK
    <3> QED  BY <3>1, <3>2
  <2>3. ASSUME NEW c \in Calls, Refuse(c) \/ Lose(c) \/ Unreachable(c) PROVE NeverAhead'
    <3>1. \A d \in Calls : call'[d].jobs = call[d].jobs
      BY <2>3 DEF Refuse, Lose, Unreachable, TypeOK
    <3> QED  BY <2>3, <3>1 DEF Refuse, Lose, Unreachable
  <2>4. ASSUME NEW c \in Calls, FetchReturns(c) \/ ModeReturns(c) PROVE NeverAhead'
    <3>1. call[c].mode \in Modes  BY DEF TypeOK
    <3>2. After(c, call[c].mode)  BY <2>4 DEF FetchReturns, ModeReturns
    <3>3. call'[c].jobs = 0 /\ \A d \in Calls \ {c} : call'[d] = call[d]
      BY <2>a, <2>b, <2>c, <3>1, <3>2, AfterEffect
    <3>4. UNCHANGED jobs /\ shown'.jobs \in {call[c].jobs, shown.jobs}
      BY <2>4 DEF FetchReturns, ModeReturns, Shows
    <3> QED  BY <3>3, <3>4
  <2>5. ASSUME NEW c \in Calls, FetchFails(c) \/ ActReturns(c) \/ NothingReturns(c)
        PROVE  NeverAhead'
    <3>1. Request("fetch", Active).jobs = 0  BY <2>a, <2>c
    <3>2. call'[c].jobs = 0 /\ \A d \in Calls \ {c} : call'[d] = call[d]
      BY <2>5, <2>b, <2>d, <3>1 DEF FetchFails, ActReturns, NothingReturns
    <3>3. UNCHANGED <<jobs, shown>>
      BY <2>5 DEF FetchFails, ActReturns, NothingReturns
    <3> QED  BY <3>2, <3>3
  <2>6. CASE Tab \/ Progress \/ Dashboard \/ Down \/ Back
    BY <2>6 DEF Tab, Progress, Dashboard, Down, Back
  <2>7. CASE UNCHANGED vars  BY <2>7 DEF vars
  <2> QED  BY <2>1, <2>2, <2>3, <2>4, <2>5, <2>6, <2>7 DEF Next, Returns
<1> QED  BY <1>1, <1>2, MenuTypeCorrect, PTL DEF Spec

-------------------------------------------------------------------------------
\* The app shows the daemon's mode and jobs, no change of the mode is under way, and
\* no answer under way says anything else.
InSync ==
    /\ shown = [mode |-> mode, jobs |-> jobs]
    /\ \A c \in Calls :
        /\ call[c].kind # "mode"
        /\ call[c].kind = "fetch" /\ call[c].at = "ok" =>
                call[c].mode = mode /\ call[c].jobs = jobs

\* Agreement ends only when the daemon's mode or jobs change or somebody chooses a
\* mode; no poll, lost answer, refusal, restart or open settings tab disturbs it, so
\* the echo of modes SettingsTabView.swift can start needs an outdated answer.
THEOREM AgreementLasts ==
    Spec => [][InSync /\ UNCHANGED <<mode, jobs, choices>> => InSync']_vars
<1> USE MenuBarAssumption DEF MenuBarAssumption
<1>1. TypeOK /\ [Next]_vars =>
        [InSync /\ UNCHANGED <<mode, jobs, choices>> => InSync']_vars
  <2> SUFFICES ASSUME TypeOK, Next, InSync, UNCHANGED <<mode, jobs, choices>>
               PROVE  InSync'
    OBVIOUS
  <2>a. /\ Request("fetch", Active).kind = "fetch" /\ Request("fetch", Active).at = "sent"
        /\ Request("act", Active).kind = "act" /\ Idle.kind = "idle"
    BY NewRequest DEF Kinds, Idle
  <2>b. \A c \in Calls : \A w : call' = [call EXCEPT ![c] = w] =>
            call'[c] = w /\ \A d \in Calls \ {c} : call'[d] = call[d]
    BY DEF TypeOK
  <2>c. choices \in Nat  BY DEF TypeOK
  <2> USE DEF InSync, daemon, app, bounds
  <2>1. ASSUME NEW c \in Calls, Fetch(c) \/ Act(c) \/ Choose(c) \/ Pick(c)
        PROVE  InSync'
    <3>1. Fetch(c) \/ Act(c)  BY <2>1, <2>c DEF Choose, Pick
    <3>2. /\ call'[c] \in {Request("fetch", Active), Request("act", Active)}
          /\ \A d \in Calls \ {c} : call'[d] = call[d]
          /\ UNCHANGED shown
      BY <2>b, <3>1 DEF Fetch, Act, Send
    <3> QED  BY <2>a, <3>2
  <2>2. ASSUME NEW c \in Calls, Serve(c) PROVE InSync'
    <3>1. /\ call'[c].kind = call[c].kind
          /\ call[c].kind = "fetch" => call'[c].mode = mode /\ call'[c].jobs = jobs
          /\ \A d \in Calls \ {c} : call'[d] = call[d]
          /\ UNCHANGED shown
      BY <2>2 DEF Serve, TypeOK
    <3> QED  BY <3>1
  <2>3. ASSUME NEW c \in Calls, Refuse(c) \/ Lose(c) \/ Unreachable(c) PROVE InSync'
    <3>1. /\ call'[c].kind = call[c].kind /\ call'[c].at # "ok"
          /\ \A d \in Calls \ {c} : call'[d] = call[d]
          /\ UNCHANGED shown
      BY <2>3 DEF Refuse, Lose, Unreachable, TypeOK
    <3> QED  BY <3>1
  <2>4. ASSUME NEW c \in Calls, FetchReturns(c) PROVE InSync'
    <3>1. call[c].mode = mode /\ call[c].jobs = jobs /\ mode \in Modes
      BY <2>4 DEF FetchReturns, TypeOK
    <3>2. shown' = shown /\ After(c, mode)
      BY <2>4, <3>1 DEF FetchReturns, Shows
    <3>3. call'[c] = Idle /\ \A d \in Calls \ {c} : call'[d] = call[d]
      BY <3>1, <3>2, AfterEffect
    <3> QED  BY <2>a, <3>2, <3>3
  <2>5. ASSUME NEW c \in Calls, ModeReturns(c) PROVE InSync'
    BY <2>5 DEF ModeReturns
  <2>6. ASSUME NEW c \in Calls, FetchFails(c) \/ ActReturns(c) \/ NothingReturns(c)
        PROVE  InSync'
    <3>1. /\ call'[c] \in {Request("fetch", Active), Idle}
          /\ \A d \in Calls \ {c} : call'[d] = call[d]
          /\ UNCHANGED shown
      BY <2>6, <2>b DEF FetchFails, ActReturns, NothingReturns
    <3> QED  BY <2>a, <3>1
  <2>7. CASE Tab \/ Progress \/ Dashboard \/ Down \/ Back
    BY <2>7 DEF Tab, Progress, Dashboard, Down, Back
  <2> QED  BY <2>1, <2>2, <2>3, <2>4, <2>5, <2>6, <2>7 DEF Next, Returns
<1> QED  BY <1>1, MenuTypeCorrect, PTL DEF Spec
===============================================================================
