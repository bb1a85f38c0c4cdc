------------------------------- MODULE MenuBar -------------------------------
(***************************************************************************)
(* The menu bar app (JobStore.swift, Header.swift, SettingsTabView.swift)  *)
(* against the HTTP API: it polls /api/jobs, acts on jobs and sets the     *)
(* mode, and shows what the answers say.  Nothing orders its requests:     *)
(* each has a connection of its own, so the daemon serves them, and their  *)
(* answers return, in any order.  Every answer is handled on the main      *)
(* queue in one piece.                                                     *)
(*                                                                         *)
(* While the settings tab is open, any change of the mode shown, whoever   *)
(* made it, is posted to the daemon (onChange of store.mode).              *)
(***************************************************************************)
EXTENDS Naturals

CONSTANTS
    Modes,       \* WatcherMode
    Active,      \* the mode shown before the first answer
    Calls,       \* requests the app may have under way at once
    MaxJobs,     \* changes of the job list
    MaxChoices,  \* changes of the mode by users, of the app or of the dashboard
    MaxFaults    \* lost requests, refusals and restarts of the daemon

ASSUME MenuBarAssumption ==
    /\ Active \in Modes
    /\ MaxJobs \in Nat /\ MaxChoices \in Nat /\ MaxFaults \in Nat

VARIABLES
    mode,       \* the daemon's
    jobs,       \* its job list, as the number of changes made to it
    up,         \* it answers
    shown,      \* [mode, jobs]: what the app shows
    connected,  \* isConnected
    tab,        \* the settings tab is open
    call,       \* the requests of the app
    choices, faults

daemon == <<mode, jobs, up>>
app    == <<shown, connected, tab>>
bounds == <<choices, faults>>
vars   == <<daemon, app, call, bounds>>

Kinds == {"idle", "fetch", "mode", "act"}

TypeOK ==
    /\ mode \in Modes /\ jobs \in 0..MaxJobs /\ up \in BOOLEAN
    /\ shown \in [mode : Modes, jobs : 0..MaxJobs]
    /\ connected \in BOOLEAN /\ tab \in BOOLEAN
    /\ call \in [Calls -> [kind : Kinds, at : {"sent", "ok", "refused", "failed"},
                           mode : Modes, jobs : 0..MaxJobs]]
    /\ choices \in 0..MaxChoices /\ faults \in 0..MaxFaults

Idle == [kind |-> "idle", at |-> "sent", mode |-> Active, jobs |-> 0]
Request(kind, m) == [Idle EXCEPT !.kind = kind, !.mode = m]

Init ==
    /\ mode \in Modes /\ jobs = 0 /\ up = TRUE
    /\ shown = [mode |-> Active, jobs |-> 0]
    /\ connected = FALSE /\ tab = FALSE
    /\ call = [c \in Calls |-> Idle]
    /\ choices = 0 /\ faults = 0

-------------------------------------------------------------------------------
(* The app sends.                                                           *)

Send(c, request) == call[c].kind = "idle" /\ call' = [call EXCEPT ![c] = request]

\* The timer, or Refresh.  It does not wait for an earlier fetch.
Fetch(c) ==
    /\ Send(c, Request("fetch", Active))
    /\ UNCHANGED <<daemon, app, bounds>>

\* Cancel, delete, restore, clear.
Act(c) ==
    /\ Send(c, Request("act", Active))
    /\ UNCHANGED <<daemon, app, bounds>>

\* The status chip posts the mode; what is shown changes with the answer.
Choose(c) ==
    /\ choices < MaxChoices /\ choices' = choices + 1
    /\ \E m \in Modes : Send(c, Request("mode", m))
    /\ UNCHANGED <<daemon, app, faults>>

\* The picker of the settings tab is bound to the mode shown, and its change posts it.
Pick(c) ==
    /\ tab /\ choices < MaxChoices /\ choices' = choices + 1
    /\ \E m \in Modes \ {shown.mode} :
        /\ shown' = [shown EXCEPT !.mode = m]
        /\ Send(c, Request("mode", m))
    /\ UNCHANGED <<daemon, connected, tab, faults>>

Tab == tab' = ~tab /\ UNCHANGED <<daemon, shown, connected, call, bounds>>

-------------------------------------------------------------------------------
(* The daemon answers.                                                      *)

Sent(c) == call[c].kind # "idle" /\ call[c].at = "sent"

\* jobs, set_mode and the routes of jobs.
Serve(c) ==
    /\ up /\ Sent(c)
    /\ mode' = IF call[c].kind = "mode" THEN call[c].mode ELSE mode
    /\ jobs' \in IF call[c].kind = "act" /\ jobs < MaxJobs THEN {jobs, jobs + 1} ELSE {jobs}
    /\ call' = [call EXCEPT ![c] = IF @.kind = "fetch"
                                   THEN [@ EXCEPT !.at = "ok", !.mode = mode, !.jobs = jobs]
                                   ELSE [@ EXCEPT !.at = "ok"]]
    /\ UNCHANGED <<up, app, bounds>>

\* 401, 408, 500: nothing is done.
Refuse(c) ==
    /\ up /\ Sent(c)
    /\ faults < MaxFaults /\ faults' = faults + 1
    /\ call' = [call EXCEPT ![c].at = "refused"]
    /\ UNCHANGED <<daemon, app, choices>>

\* The connection fails; the daemon may have served the request.
Lose(c) ==
    /\ call[c].kind # "idle" /\ call[c].at \in {"sent", "ok"}
    /\ faults < MaxFaults /\ faults' = faults + 1
    /\ call' = [call EXCEPT ![c].at = "failed"]
    /\ UNCHANGED <<daemon, app, choices>>

\* Nobody listens.
Unreachable(c) ==
    /\ ~up /\ Sent(c)
    /\ call' = [call EXCEPT ![c].at = "failed"]
    /\ UNCHANGED <<daemon, app, bounds>>

-------------------------------------------------------------------------------
(* Answers return.                                                          *)

\* The mode shown becomes m; with the settings tab open a change is posted.
After(c, m) ==
    call' = [call EXCEPT ![c] = IF tab /\ m # shown.mode THEN Request("mode", m) ELSE Idle]

Shows(m, j) == shown' = [mode |-> m, jobs |-> j]

\* Mutant: the mode is only taken over along with a change of the jobs.
FetchReturnsMutant(c) ==
    /\ call[c].kind = "fetch" /\ call[c].at = "ok"
    /\ connected' = TRUE
    /\ shown' = IF call[c].jobs # shown.jobs THEN [mode |-> call[c].mode, jobs |-> call[c].jobs]
                ELSE shown
    /\ After(c, shown'.mode)
    /\ UNCHANGED <<daemon, tab, bounds>>

\* A 200 that decodes: jobs and mode are what it says, however old it is.
FetchReturns(c) ==
    /\ call[c].kind = "fetch" /\ call[c].at = "ok"
    /\ connected' = TRUE
    /\ Shows(call[c].mode, call[c].jobs)
    /\ After(c, call[c].mode)
    /\ UNCHANGED <<daemon, tab, bounds>>

FetchFails(c) ==
    /\ call[c].kind = "fetch" /\ call[c].at \in {"refused", "failed"}
    /\ connected' = FALSE
    /\ call' = [call EXCEPT ![c] = Idle]
    /\ UNCHANGED <<daemon, shown, tab, bounds>>

\* The completion of setMode looks at the error, not at the status.
ModeReturns(c) ==
    /\ call[c].kind = "mode" /\ call[c].at \in {"ok", "refused"}
    /\ Shows(call[c].mode, shown.jobs)
    /\ After(c, call[c].mode)
    /\ UNCHANGED <<daemon, connected, tab, bounds>>

\* An action that went through is followed by a fetch.
ActReturns(c) ==
    /\ call[c].kind = "act" /\ call[c].at = "ok"
    /\ call' = [call EXCEPT ![c] = Request("fetch", Active)]
    /\ UNCHANGED <<daemon, app, bounds>>

\* Otherwise an error is shown at most.
NothingReturns(c) ==
    /\ \/ call[c].kind = "mode" /\ call[c].at = "failed"
       \/ call[c].kind = "act" /\ call[c].at \in {"refused", "failed"}
    /\ call' = [call EXCEPT ![c] = Idle]
    /\ UNCHANGED <<daemon, app, bounds>>

Returns(c) ==
    FetchReturns(c) \/ FetchFails(c) \/ ModeReturns(c) \/ ActReturns(c) \/ NothingReturns(c)

-------------------------------------------------------------------------------
(* Elsewhere.                                                               *)

\* The pipeline moves a job on.
Progress ==
    /\ up /\ jobs < MaxJobs /\ jobs' = jobs + 1
    /\ UNCHANGED <<mode, up, app, call, bounds>>

\* The dashboard, or another client, sets the mode.
Dashboard ==
    /\ up /\ choices < MaxChoices /\ choices' = choices + 1
    /\ mode' \in Modes
    /\ UNCHANGED <<jobs, up, app, call, faults>>

\* The daemon stops; it comes back with the mode it had.
Down ==
    /\ up /\ faults < MaxFaults /\ faults' = faults + 1
    /\ up' = FALSE
    /\ UNCHANGED <<mode, jobs, app, call, choices>>

\* Mutant: a mode that cannot be read from config.json gets no default.
BackMutant ==
    /\ ~up /\ up' = TRUE
    /\ mode' \in {mode, ""}
    /\ UNCHANGED <<jobs, app, call, bounds>>

Back ==
    /\ ~up /\ up' = TRUE
    /\ UNCHANGED <<mode, jobs, app, call, bounds>>

Next ==
    \/ \E c \in Calls : \/ Fetch(c) \/ Act(c) \/ Choose(c) \/ Pick(c)
                        \/ Serve(c) \/ Refuse(c) \/ Lose(c) \/ Unreachable(c) \/ Returns(c)
    \/ Tab \/ Progress \/ Dashboard \/ Down \/ Back

\* The timer goes on firing, the daemon serves what reaches it, and the main queue
\* runs.  Users, and a daemon that is down, are under no obligation.
Spec ==
    /\ Init /\ [][Next]_vars
    /\ \A c \in Calls : /\ WF_vars(Serve(c) \/ Unreachable(c))
                        /\ WF_vars(Returns(c))
    /\ SF_vars(\E c \in Calls : Fetch(c))

-------------------------------------------------------------------------------
(* Properties.                                                              *)

\* While the settings tab is closed and the daemon answers, the app comes to show
\* the daemon's mode and jobs and nothing else, however old answers, refused
\* changes and lost requests have misled it before.
ShowsTheDaemon ==
    <>[](up /\ ~tab) => <>[](connected /\ shown = [mode |-> mode, jobs |-> jobs])

\* Design of the mode switch, line 15: the mode "surfaces clearly in the menu bar":
\* with the settings tab open too, the app comes to show the daemon's mode.
ModeSurfaces == <>[]up => <>[](shown.mode = mode)
===============================================================================
