----------------------------- MODULE LocalScanner -----------------------------
(***************************************************************************)
(* One call of LocalScanner::check (local_scanner.rs): the file goes to    *)
(* clamd over a UNIX socket, chunk by chunk, as INSTREAM; the reply comes  *)
(* back in pieces.  The select! of the pipeline may drop the call at any   *)
(* await.  clamd is external: it reads when it likes, judges what it read, *)
(* may refuse the stream half way, hang up or stay silent for ever.        *)
(***************************************************************************)
EXTENDS Naturals, Sequences, SequencesExt

CONSTANTS
    Chunks,     \* INSTREAM_CHUNK reads that make up the file
    Room        \* frames the buffer of the socket holds

VARIABLES
    bad,        \* the chunk in which clamd knows a signature, or 0
    file,       \* the quarantine copy is there
    stopped,    \* the token registered for the local scan is cancelled
    step,       \* where the call stands
    next,       \* the frame to write next
    wire,       \* frames on their way to clamd
    taken,      \* frames clamd has read
    clamd,      \* its end of the connection
    back,       \* pieces of the reply on their way back
    reply,      \* pieces of the reply read so far
    verdict     \* the result, or "none"

vars == <<bad, file, stopped, step, next, wire, taken, clamd, back, reply, verdict>>

\* Frame 0 is the command, then come the chunks, then the empty chunk.
Command == 0
Terminator == Chunks + 1

Words == {"OK", "FOUND", "ERROR"}
NUL == "NUL"
Pieces == Words \cup {"stream:", NUL}

TypeOK ==
    /\ bad \in 0..Chunks
    /\ file \in BOOLEAN /\ stopped \in BOOLEAN
    /\ step \in {"open", "connect", "send", "reply", "done"}
    /\ next \in Command..(Terminator + 1)
    /\ wire \in Seq(Command..Terminator) /\ Len(wire) <= Room
    /\ taken \subseteq Command..Terminator
    /\ clamd \in {"listening", "down", "reading", "judged", "gone"}
    /\ back \in Seq(Pieces) /\ reply \in Seq(Pieces)
    /\ verdict \in {"none", "clean", "malicious", "error"}

Init ==
    /\ bad \in 0..Chunks
    /\ file = TRUE /\ stopped = FALSE
    /\ step = "open" /\ next = Command
    /\ wire = <<>> /\ taken = {} /\ back = <<>> /\ reply = <<>>
    /\ clamd \in {"listening", "down"}
    /\ verdict = "none"

-------------------------------------------------------------------------------
(* Pieces of the call.                                                      *)

Says(r, w) == Contains(r, w)

\* classify: FOUND wins over OK, anything else is an error.
Classify(r) ==
    CASE Says(r, "FOUND") -> "malicious"
      [] ~Says(r, "FOUND") /\ Says(r, "OK") -> "clean"
      [] ~Says(r, "FOUND") /\ ~Says(r, "OK") -> "error"

\* check returns, or its future is dropped: its locals go, the socket closes.
Return(v) ==
    /\ verdict' = v /\ step' = "done"
    /\ next' = Command /\ reply' = <<>>
    /\ wire' = <<>> /\ taken' = {} /\ back' = <<>> /\ clamd' = "gone"

World == UNCHANGED <<bad, file, stopped>>
Exchange == <<wire, taken, clamd, back>>

-------------------------------------------------------------------------------
(* The call.                                                                *)

Open ==
    /\ step = "open"
    /\ \/ file /\ step' = "connect" /\ UNCHANGED <<next, reply, verdict, Exchange>>
       \/ Return("error")
    /\ World

Connect ==
    /\ step = "connect"
    /\ \/ clamd = "listening" /\ clamd' = "reading" /\ step' = "send"
          /\ UNCHANGED <<next, reply, verdict, wire, taken, back>>
       \/ Return("error")
    /\ World

\* Mutant: a failed read is taken for the end of the file.
ReadFailsMutant ==
    /\ step = "send" /\ next \in 1..Chunks
    /\ next' = Terminator
    /\ UNCHANGED <<step, reply, verdict, Exchange>> /\ World

\* A read of the file fails half way through.
ReadFails ==
    /\ step = "send" /\ next \in 1..Chunks
    /\ Return("error")
    /\ World

\* write_all waits for room, for as long as it takes.
Write ==
    /\ step = "send" /\ clamd # "gone" /\ Len(wire) < Room
    /\ wire' = Append(wire, next)
    /\ next' = next + 1
    /\ step' = IF next = Terminator THEN "reply" ELSE "send"
    /\ UNCHANGED <<taken, clamd, back, reply, verdict>> /\ World

\* Broken pipe while writing; connection reset on unread frames.
Broken ==
    /\ clamd = "gone"
    /\ step = "send" \/ (step = "reply" /\ wire # <<>>)
    /\ Return("error")
    /\ World

\* A read returns some of the reply; NUL ends it.
Read ==
    /\ step = "reply"
    /\ \E n \in 1..Len(back) :
        LET got == reply \o SubSeq(back, 1, n) IN
        IF Says(got, NUL)
        THEN Return(Classify(got))
        ELSE /\ reply' = got /\ back' = SubSeq(back, n + 1, Len(back))
             /\ UNCHANGED <<step, next, verdict, wire, taken, clamd>>
    /\ World

\* clamd closed the connection: what has come so far is the reply.
EndOfReply ==
    /\ step = "reply" /\ clamd = "gone" /\ back = <<>>
    /\ Return(Classify(reply))
    /\ World

\* Mutant: only the wait for the reply can be cancelled.
DroppedMutant ==
    /\ stopped /\ step = "reply"
    /\ Return("error")
    /\ World

\* The token wins the select! around check (watcher.rs 561-567).
Dropped ==
    /\ stopped /\ step # "done"
    /\ Return("error")
    /\ World

Call == Open \/ Connect \/ ReadFails \/ Write \/ Broken \/ Read \/ EndOfReply \/ Dropped

-------------------------------------------------------------------------------
(* clamd, and the world around the call.                                    *)

Client == UNCHANGED <<bad, file, stopped, step, next, reply, verdict>>

\* It reads the next frame.
Takes ==
    /\ clamd = "reading" /\ wire # <<>>
    /\ taken' = taken \cup {Head(wire)}
    /\ wire' = Tail(wire)
    /\ UNCHANGED <<clamd, back>> /\ Client

Answers(w) == clamd' = "judged" /\ back' = <<"stream:", w, NUL>>

\* It judges what it has read once the stream is complete.
Judges ==
    /\ clamd = "reading" /\ Terminator \in taken
    /\ Answers(IF bad \in taken \ {Command} THEN "FOUND" ELSE "OK")
    /\ UNCHANGED <<wire, taken>> /\ Client

\* Size limit, or a failure of its own; it need not read on.
Refuses ==
    /\ clamd = "reading"
    /\ Answers("ERROR")
    /\ UNCHANGED <<wire, taken>> /\ Client

\* It closes the connection, or dies, before or after an answer.
HangsUp ==
    /\ clamd \in {"listening", "reading", "judged"}
    /\ clamd' = IF clamd = "listening" THEN "down" ELSE "gone"
    /\ UNCHANGED <<wire, taken, back>> /\ Client

Daemon == Takes \/ Judges \/ Refuses \/ HangsUp

\* Watcher::cancel or a mode change hits the token.
Stop ==
    /\ step # "done" /\ ~stopped
    /\ stopped' = TRUE
    /\ UNCHANGED <<bad, file, step, next, wire, taken, clamd, back, reply, verdict>>

\* The quarantine copy is removed; an open handle outlives that.
Vanish ==
    /\ step # "done" /\ file
    /\ file' = FALSE
    /\ UNCHANGED <<bad, stopped, step, next, wire, taken, clamd, back, reply, verdict>>

Next == Call \/ Daemon \/ Stop \/ Vanish

\* tokio runs the task; clamd is under no obligation.
Spec == Init /\ [][Next]_vars /\ WF_vars(Call)

-------------------------------------------------------------------------------
(* Properties.                                                              *)

\* A file is cleared only if clamd knows nothing against any part of it: it has
\* seen every chunk, and what came back, in however many pieces, was its OK.
CleanIsWhole == verdict = "clean" => bad = 0

\* The call waits for clamd: for room in the socket, or for an answer.
WaitsForClamd ==
    /\ clamd \in {"reading", "judged"} /\ ~stopped
    /\ (step = "send" /\ Len(wire) = Room) \/ (step = "reply" /\ back = <<>>)

Contract == INSTANCE EngineCall WITH
    Verdicts <- {"clean", "malicious"},
    Failures <- {"error"},
    outcome  <- verdict,
    grounds  <- {IF bad = 0 THEN "clean" ELSE "malicious"}

\* The scanner clears only a content clamd has seen whole and knows nothing
\* against, and a cancelled call comes back whatever clamd does.
LocalImplementsCall == Contract!CallSpec
===============================================================================
