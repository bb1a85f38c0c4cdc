-------------------------- MODULE LocalScannerProofs --------------------------
(***************************************************************************)
(* Theorems about one call of the local scanner, for a file of any number  *)
(* of chunks and a socket of any size.                                     *)
(***************************************************************************)
EXTENDS LocalScanner, TLAPS

\* The frames are written in order and read in order, none left out: those still on
\* the wire are the last ones written, and clamd has read all before them.
InOrder ==
    /\ Len(wire) <= next
    /\ \A i \in 1..Len(wire) : wire[i] = next - Len(wire) + i - 1
    /\ taken = 0..(next - Len(wire) - 1)

\* An OK anywhere on its way back is about a file without a signature, a FOUND
\* about one with.
WordsAreMeant ==
    /\ Contains(back, "OK") \/ Contains(reply, "OK") => bad = 0
    /\ Contains(back, "FOUND") \/ Contains(reply, "FOUND") => bad # 0

\* There is a frame left to write while the call is sending.
FrameLeft == /\ step \in {"open", "connect"} => next = Command
             /\ step = "send" => next <= Terminator

\* A call that has not come back has no verdict.
Unanswered == step # "done" => verdict = "none"

ScanInv == TypeOK /\ InOrder /\ FrameLeft /\ WordsAreMeant /\ Unanswered /\ CleanIsWhole

Sizes == Chunks \in Nat /\ Room \in Nat

-------------------------------------------------------------------------------
(* What the steps do with the sequences.                                    *)

LEMMA ReturnInv ==
    ASSUME ScanInv, Sizes, World, NEW v, Return(v),
           v \in {"clean", "malicious", "error"}, v = "clean" => bad = 0
    PROVE  ScanInv'
<1>1. TypeOK'
  BY DEF ScanInv, Sizes, TypeOK, World, Return, Command, Terminator
<1>2. InOrder'
  BY DEF Return, InOrder, Command
<1>3. WordsAreMeant' /\ CleanIsWhole'
  BY DEF Return, WordsAreMeant, CleanIsWhole, World, Contains
<1>4. FrameLeft' /\ Unanswered'
  BY DEF Return, FrameLeft, Unanswered
<1>. QED  BY <1>1, <1>2, <1>3, <1>4 DEF ScanInv

LEMMA ClassifyClean ==
    ASSUME NEW r
    PROVE  /\ Classify(r) \in {"clean", "malicious", "error"}
           /\ Classify(r) = "clean" => Contains(r, "OK")
           /\ Classify(r) = "malicious" => Contains(r, "FOUND")
BY DEF Classify, Says

\* Whatever part of the reply has come by now, its pieces are clamd's.
LEMMA PiecesOfReply ==
    ASSUME NEW r \in Seq(Pieces), NEW b \in Seq(Pieces), NEW n \in 1..Len(b), NEW w
    PROVE  LET got == r \o SubSeq(b, 1, n) IN
           /\ got \in Seq(Pieces)
           /\ SubSeq(b, n + 1, Len(b)) \in Seq(Pieces)
           /\ Contains(got, w) => Contains(b, w) \/ Contains(r, w)
           /\ Contains(SubSeq(b, n + 1, Len(b)), w) => Contains(b, w)
<1>. DEFINE first == SubSeq(b, 1, n)
            rest  == SubSeq(b, n + 1, Len(b))
<1>1. first \in Seq(Pieces) /\ Len(first) = n /\ \A i \in 1..n : first[i] = b[i]
  OBVIOUS
<1>2. /\ rest \in Seq(Pieces) /\ Len(rest) = Len(b) - n
      /\ \A i \in 1..(Len(b) - n) : rest[i] = b[n + i]
  OBVIOUS
<1>3. /\ r \o first \in Seq(Pieces) /\ Len(r \o first) = Len(r) + n
      /\ \A i \in 1..Len(r) : (r \o first)[i] = r[i]
      /\ \A i \in (Len(r) + 1)..(Len(r) + n) : (r \o first)[i] = first[i - Len(r)]
  <2>. HIDE DEF first
  <2>. QED  BY <1>1
<1>. HIDE DEF first, rest
<1>4. Contains(r \o first, w) => Contains(b, w) \/ Contains(r, w)
  <2> SUFFICES ASSUME NEW i \in 1..Len(r \o first), (r \o first)[i] = w
               PROVE  Contains(b, w) \/ Contains(r, w)
    BY DEF Contains
  <2>1. CASE i \in 1..Len(r)
    BY <1>3, <2>1 DEF Contains
  <2>2. CASE i \in (Len(r) + 1)..(Len(r) + n)
    <3>1. i - Len(r) \in 1..n
      BY <2>2
    <3>2. b[i - Len(r)] = w
      BY <1>1, <1>3, <2>2, <3>1
    <3>. QED  BY <3>1, <3>2 DEF Contains
  <2>. QED  BY <1>3, <2>1, <2>2
<1>5. Contains(rest, w) => Contains(b, w)
  <2> SUFFICES ASSUME NEW i \in 1..Len(rest), rest[i] = w PROVE Contains(b, w)
    BY DEF Contains
  <2>1. n + i \in 1..Len(b) /\ b[n + i] = w
    BY <1>2
  <2>. QED  BY <2>1 DEF Contains
<1>. QED  BY <1>2, <1>3, <1>4, <1>5 DEF first, rest

-------------------------------------------------------------------------------
(* The steps of the call.                                                   *)

USE DEF Exchange

LEMMA OpenInv == ScanInv /\ Sizes /\ Open => ScanInv'
<1> SUFFICES ASSUME ScanInv, Sizes, Open PROVE ScanInv'
  OBVIOUS
<1>1. CASE Return("error")
  BY <1>1, ReturnInv DEF Open
<1>2. CASE step' = "connect" /\ UNCHANGED <<next, reply, verdict, Exchange>>
  BY <1>2 DEF Open, World, ScanInv, TypeOK, InOrder, FrameLeft, WordsAreMeant, Unanswered, CleanIsWhole
<1>. QED  BY <1>1, <1>2 DEF Open

LEMMA ConnectInv == ScanInv /\ Sizes /\ Connect => ScanInv'
<1> SUFFICES ASSUME ScanInv, Sizes, Connect PROVE ScanInv'
  OBVIOUS
<1>1. CASE Return("error")
  BY <1>1, ReturnInv DEF Connect
<1>2. CASE /\ clamd' = "reading" /\ step' = "send"
           /\ UNCHANGED <<next, reply, verdict, wire, taken, back>>
  BY <1>2 DEF Connect, World, Sizes, Command, Terminator, ScanInv, TypeOK, InOrder, FrameLeft,
              WordsAreMeant, Unanswered, CleanIsWhole
<1>. QED  BY <1>1, <1>2 DEF Connect

LEMMA WriteInv == ScanInv /\ Sizes /\ Write => ScanInv'
<1> SUFFICES ASSUME ScanInv, Sizes, Write PROVE ScanInv'
  OBVIOUS
<1>. USE DEF Write, World, Sizes, ScanInv, Command, Terminator
<1>1. next \in 0..(Chunks + 1) /\ wire \in Seq(0..(Chunks + 1)) /\ Len(wire) <= next
  BY DEF TypeOK, InOrder, FrameLeft
<1>2. /\ wire' \in Seq(0..(Chunks + 1)) /\ Len(wire') = Len(wire) + 1
      /\ \A i \in 1..Len(wire) : wire'[i] = wire[i]
      /\ wire'[Len(wire) + 1] = next
  BY <1>1
<1>3. TypeOK'
  BY <1>1, <1>2 DEF TypeOK
<1>4. InOrder'
  <2>1. taken' = 0..(next' - Len(wire') - 1)
    BY <1>1, <1>2 DEF InOrder
  <2>2. ASSUME NEW i \in 1..Len(wire') PROVE wire'[i] = next' - Len(wire') + i - 1
    <3>1. next' - Len(wire') = next - Len(wire)
      BY <1>1, <1>2
    <3>2. CASE i \in 1..Len(wire)
      BY <1>2, <3>1, <3>2 DEF InOrder
    <3>3. CASE i = Len(wire) + 1
      BY <1>1, <1>2, <3>1, <3>3
    <3>. QED  BY <1>1, <1>2, <3>2, <3>3
  <2>. QED  BY <1>1, <1>2, <2>1, <2>2 DEF InOrder
<1>5. FrameLeft' /\ WordsAreMeant' /\ Unanswered' /\ CleanIsWhole'
  BY <1>1 DEF FrameLeft, WordsAreMeant, Unanswered, CleanIsWhole
<1>. QED  BY <1>3, <1>4, <1>5

LEMMA ReadInv == ScanInv /\ Sizes /\ Read => ScanInv'
<1> SUFFICES ASSUME ScanInv, Sizes, Read PROVE ScanInv'
  OBVIOUS
<1>1. PICK n \in 1..Len(back) :
        LET got == reply \o SubSeq(back, 1, n) IN
        IF Says(got, NUL)
        THEN Return(Classify(got))
        ELSE /\ reply' = got /\ back' = SubSeq(back, n + 1, Len(back))
             /\ UNCHANGED <<step, next, verdict, wire, taken, clamd>>
  BY DEF Read
<1>. DEFINE got == reply \o SubSeq(back, 1, n)
<1>2. /\ got \in Seq(Pieces) /\ SubSeq(back, n + 1, Len(back)) \in Seq(Pieces)
      /\ Contains(got, "OK") \/ Contains(SubSeq(back, n + 1, Len(back)), "OK") => bad = 0
      /\ Contains(got, "FOUND") \/ Contains(SubSeq(back, n + 1, Len(back)), "FOUND") => bad # 0
  BY PiecesOfReply DEF ScanInv, TypeOK, WordsAreMeant
<1>. HIDE DEF got
<1>3. CASE Says(got, NUL)
  <2>1. Return(Classify(got))
    BY <1>1, <1>3 DEF got
  <2>2. Classify(got) = "clean" => bad = 0
    BY <1>2, ClassifyClean
  <2>. QED  BY <2>1, <2>2, ClassifyClean, ReturnInv DEF Read
<1>4. CASE ~Says(got, NUL)
  <2>1. /\ reply' = got /\ back' = SubSeq(back, n + 1, Len(back))
        /\ UNCHANGED <<step, next, verdict, wire, taken, clamd>>
    BY <1>1, <1>4 DEF got
  <2>2. TypeOK'
    BY <1>2, <2>1 DEF Read, World, ScanInv, TypeOK
  <2>3. InOrder' /\ FrameLeft' /\ Unanswered' /\ CleanIsWhole'
    BY <2>1 DEF Read, World, ScanInv, InOrder, FrameLeft, Unanswered, CleanIsWhole
  <2>4. WordsAreMeant'
    BY <1>2, <2>1 DEF Read, World, WordsAreMeant
  <2>. QED  BY <2>2, <2>3, <2>4 DEF ScanInv
<1>. QED  BY <1>3, <1>4

LEMMA CallKeepsInv == ScanInv /\ Sizes /\ Call => ScanInv'
<1> SUFFICES ASSUME ScanInv, Sizes, Call PROVE ScanInv'
  OBVIOUS
<1>1. CASE Open \/ Connect \/ Write \/ Read
  BY <1>1, OpenInv, ConnectInv, WriteInv, ReadInv
<1>2. CASE ReadFails \/ Broken \/ Dropped
  BY <1>2, ReturnInv DEF ReadFails, Broken, Dropped
<1>3. CASE EndOfReply
  <2>1. Classify(reply) = "clean" => bad = 0
    BY ClassifyClean DEF ScanInv, WordsAreMeant
  <2>. QED  BY <1>3, <2>1, ClassifyClean, ReturnInv DEF EndOfReply
<1>. QED  BY <1>1, <1>2, <1>3 DEF Call

-------------------------------------------------------------------------------
(* clamd and the world.                                                     *)

LEMMA TakesInv == ScanInv /\ Sizes /\ Takes => ScanInv'
<1> SUFFICES ASSUME ScanInv, Sizes, Takes PROVE ScanInv'
  OBVIOUS
<1>. USE DEF Takes, Client, Sizes, ScanInv, Command, Terminator
<1>1. /\ next \in 0..(Chunks + 2) /\ wire \in Seq(0..(Chunks + 1)) /\ Len(wire) <= next
      /\ wire # <<>>
  BY DEF TypeOK, InOrder
<1>2. Len(wire) \in Nat /\ Len(wire) > 0 /\ Head(wire) = wire[1]
  BY <1>1
<1>3. /\ wire' \in Seq(0..(Chunks + 1)) /\ Len(wire') = Len(wire) - 1
      /\ \A i \in 1..(Len(wire) - 1) : wire'[i] = wire[i + 1]
  BY <1>1, <1>2
<1>4. Head(wire) = next - Len(wire)
  BY <1>1, <1>2 DEF InOrder
<1>5. TypeOK'
  <2>1. next - Len(wire) \in 0..(Chunks + 1)
    BY <1>1, <1>2
  <2>2. taken' = taken \cup {next - Len(wire)} /\ taken \subseteq 0..(Chunks + 1)
    BY <1>4 DEF TypeOK
  <2>3. taken' \subseteq 0..(Chunks + 1)
    <3>. HIDE DEF Takes
    <3>. QED  BY <2>1, <2>2
  <2>. QED  BY <1>2, <1>3, <2>3 DEF TypeOK
<1>6. InOrder'
  <2>1. taken' = 0..(next' - Len(wire') - 1)
    BY <1>1, <1>2, <1>3, <1>4 DEF InOrder
  <2>2. \A i \in 1..Len(wire') : wire'[i] = next' - Len(wire') + i - 1
    BY <1>1, <1>2, <1>3 DEF InOrder
  <2>. QED  BY <1>1, <1>2, <1>3, <2>1, <2>2 DEF InOrder
<1>7. FrameLeft' /\ WordsAreMeant' /\ Unanswered' /\ CleanIsWhole'
  BY DEF FrameLeft, WordsAreMeant, Unanswered, CleanIsWhole
<1>. QED  BY <1>5, <1>6, <1>7

LEMMA AnswerInv ==
    ASSUME ScanInv, UNCHANGED <<wire, taken>>, Client,
           NEW w \in Words, Answers(w), w = "OK" => bad = 0, w = "FOUND" => bad # 0
    PROVE  ScanInv'
<1>1. back' = <<"stream:", w, NUL>> /\ clamd' = "judged"
  BY DEF Answers
<1>2. /\ back' \in Seq(Pieces) /\ Len(back') = 3
      /\ back'[1] = "stream:" /\ back'[2] = w /\ back'[3] = "NUL"
  BY <1>1 DEF Pieces, Words, NUL
<1>3. TypeOK'
  BY <1>1, <1>2 DEF ScanInv, TypeOK, Client
<1>4. (Contains(back', "OK") => w = "OK") /\ (Contains(back', "FOUND") => w = "FOUND")
  BY <1>2 DEF Contains
<1>5. WordsAreMeant'
  BY <1>4 DEF ScanInv, WordsAreMeant, Client
<1>6. InOrder' /\ FrameLeft' /\ Unanswered' /\ CleanIsWhole'
  BY DEF ScanInv, InOrder, FrameLeft, Unanswered, CleanIsWhole, Client
<1>. QED  BY <1>3, <1>5, <1>6 DEF ScanInv

LEMMA JudgesInv == ScanInv /\ Sizes /\ Judges => ScanInv'
<1> SUFFICES ASSUME ScanInv, Sizes, Judges PROVE ScanInv'
  OBVIOUS
<1>1. taken = 0..(next - Len(wire) - 1) /\ Chunks + 1 \in taken /\ bad \in 0..Chunks
  BY DEF Judges, ScanInv, InOrder, TypeOK, Terminator
<1>2. Len(wire) \in Nat /\ next \in Nat
  BY DEF ScanInv, TypeOK, Command, Terminator, Sizes
<1>3. bad \notin taken \ {Command} <=> bad = 0
  BY <1>1, <1>2 DEF Sizes, Command
<1>. QED  BY <1>3, AnswerInv DEF Judges, Words

LEMMA WorldKeepsInv ==
    ScanInv /\ Sizes /\ (Takes \/ Judges \/ Refuses \/ HangsUp \/ Stop \/ Vanish) => ScanInv'
<1> SUFFICES ASSUME ScanInv, Sizes, Takes \/ Judges \/ Refuses \/ HangsUp \/ Stop \/ Vanish
             PROVE  ScanInv'
  OBVIOUS
<1>1. CASE Takes \/ Judges
  BY <1>1, TakesInv, JudgesInv
<1>2. CASE Refuses
  BY <1>2, AnswerInv DEF Refuses, Words
<1>3. CASE HangsUp
  BY <1>3 DEF HangsUp, Client, ScanInv, TypeOK, InOrder, FrameLeft, WordsAreMeant, Unanswered, CleanIsWhole
<1>4. CASE Stop \/ Vanish
  BY <1>4 DEF Stop, Vanish, ScanInv, TypeOK, InOrder, FrameLeft, WordsAreMeant, Unanswered, CleanIsWhole
<1>. QED  BY <1>1, <1>2, <1>3, <1>4

-------------------------------------------------------------------------------
(* The theorem.                                                             *)

LEMMA InitInv == Sizes /\ Init => ScanInv
<1> SUFFICES ASSUME Sizes, Init PROVE ScanInv
  OBVIOUS
<1>1. TypeOK
  <2>1. wire \in Seq(Command..Terminator) /\ back \in Seq(Pieces) /\ reply \in Seq(Pieces)
    BY DEF Init
  <2>2. Len(wire) = 0 /\ Command \in Command..Terminator + 1
    BY DEF Sizes, Init, Command, Terminator
  <2>3. Len(wire) <= Room /\ taken \subseteq Command..Terminator /\ next \in Command..Terminator + 1
    BY <2>2 DEF Sizes, Init
  <2>4. /\ bad \in 0..Chunks /\ file \in BOOLEAN /\ stopped \in BOOLEAN
        /\ step \in {"open", "connect", "send", "reply", "done"}
        /\ clamd \in {"listening", "down", "reading", "judged", "gone"}
        /\ verdict \in {"none", "clean", "malicious", "error"}
    BY DEF Init
  <2>. QED  BY <2>1, <2>3, <2>4 DEF TypeOK
<1>2. InOrder /\ FrameLeft /\ WordsAreMeant /\ Unanswered /\ CleanIsWhole
  BY DEF Init, InOrder, FrameLeft, WordsAreMeant, Unanswered, CleanIsWhole, Contains, Command
<1>. QED  BY <1>1, <1>2 DEF ScanInv

LEMMA InvHolds == ASSUME Sizes PROVE Spec => []ScanInv
<1>1. Init => ScanInv
  BY InitInv
<1>2. ScanInv /\ [Next]_vars => ScanInv'
  <2>1. ScanInv /\ UNCHANGED vars => ScanInv'
    BY DEF vars, ScanInv, TypeOK, InOrder, FrameLeft, WordsAreMeant, Unanswered, CleanIsWhole
  <2>. QED  BY <2>1, CallKeepsInv, WorldKeepsInv DEF Next, Daemon
<1>. QED  BY <1>1, <1>2, PTL DEF Spec

\* Type correctness: in particular the call never writes past its last frame and
\* the socket never holds more than it has room for.
THEOREM TypeCorrect == ASSUME Sizes PROVE Spec => []TypeOK
<1>1. ScanInv => TypeOK
  BY DEF ScanInv
<1>. QED  BY InvHolds, <1>1, PTL

\* local_scanner.rs:111-175: a file is cleared only if clamd has seen every chunk of
\* it, knows nothing against any, and said OK; for files of any length, any buffer
\* and any fragments of the reply.
THEOREM ClearedIsWhole == ASSUME Sizes PROVE Spec => []CleanIsWhole
<1>1. ScanInv => CleanIsWhole
  BY DEF ScanInv
<1>. QED  BY InvHolds, <1>1, PTL

-------------------------------------------------------------------------------
(* The steps of the call are steps of EngineCall.                           *)

\* Whatever ends the call answers as EngineCall allows.
LEMMA ReturnAnswers ==
    ASSUME Unanswered, step # "done", World, NEW v \in {"clean", "malicious", "error"}, Return(v),
           v = "clean" => bad = 0, v = "malicious" => bad # 0
    PROVE  Contract!Answer
BY DEF Unanswered, World, Return, Contract!Answer

LEMMA CallAnswers == ScanInv /\ Call => Contract!Answer \/ UNCHANGED Contract!vars
<1> SUFFICES ASSUME ScanInv, Call PROVE Contract!Answer \/ UNCHANGED Contract!vars
  OBVIOUS
<1>0. Unanswered
  BY DEF ScanInv
<1>1. CASE Open \/ Connect
  BY <1>0, <1>1, ReturnAnswers DEF Open, Connect, World, Contract!vars
<1>2. CASE ReadFails \/ Broken \/ Dropped
  BY <1>0, <1>2, ReturnAnswers DEF ReadFails, Broken, Dropped
<1>3. CASE Write
  BY <1>3 DEF Write, World, Contract!vars
<1>4. CASE Read
  <2>1. PICK n \in 1..Len(back) :
          LET got == reply \o SubSeq(back, 1, n) IN
          IF Says(got, NUL)
          THEN Return(Classify(got))
          ELSE /\ reply' = got /\ back' = SubSeq(back, n + 1, Len(back))
               /\ UNCHANGED <<step, next, verdict, wire, taken, clamd>>
    BY <1>4 DEF Read
  <2>. DEFINE got == reply \o SubSeq(back, 1, n)
  <2>2. (Contains(got, "OK") => bad = 0) /\ (Contains(got, "FOUND") => bad # 0)
    BY PiecesOfReply DEF ScanInv, TypeOK, WordsAreMeant
  <2>. HIDE DEF got
  <2>3. CASE Says(got, NUL)
    <3>1. Return(Classify(got))
      BY <2>1, <2>3 DEF got
    <3>2. /\ Classify(got) \in {"clean", "malicious", "error"}
          /\ Classify(got) = "clean" => bad = 0
          /\ Classify(got) = "malicious" => bad # 0
      BY <2>2, ClassifyClean
    <3>. QED  BY <1>0, <1>4, <3>1, <3>2, ReturnAnswers DEF Read
  <2>4. CASE ~Says(got, NUL)
    BY <1>4, <2>1, <2>4 DEF got, Read, World, Contract!vars
  <2>. QED  BY <2>3, <2>4
<1>5. CASE EndOfReply
  <2>1. /\ Classify(reply) \in {"clean", "malicious", "error"}
        /\ Classify(reply) = "clean" => bad = 0
        /\ Classify(reply) = "malicious" => bad # 0
    BY ClassifyClean DEF ScanInv, WordsAreMeant
  <2>. QED  BY <1>0, <1>5, <2>1, ReturnAnswers DEF EndOfReply
<1>. QED  BY <1>1, <1>2, <1>3, <1>4, <1>5 DEF Call

LEMMA StepSimulates == ScanInv /\ [Next]_vars => [Contract!Next]_(Contract!vars)
<1> SUFFICES ASSUME ScanInv, [Next]_vars PROVE [Contract!Next]_(Contract!vars)
  OBVIOUS
<1>1. CASE Call
  BY <1>1, CallAnswers DEF Contract!Next
<1>2. CASE Daemon
  BY <1>2 DEF Daemon, Takes, Judges, Refuses, HangsUp, Client, Contract!vars
<1>3. CASE Stop
  BY <1>3 DEF Stop, ScanInv, Unanswered, Contract!Next, Contract!Stop
<1>4. CASE Vanish \/ UNCHANGED vars
  BY <1>4 DEF Vanish, vars, Contract!vars
<1>. QED  BY <1>1, <1>2, <1>3, <1>4 DEF Next

LEMMA ContractInit == Init => Contract!Init
BY DEF Init, Contract!Init

\* The safety part of LocalImplementsCall (local_scanner.rs:111-175): the scanner
\* answers once, says clean or malicious only if that is what clamd found in the
\* whole of the file, and whatever else happens is an error.
THEOREM AnswersLikeAnEngine ==
    ASSUME Sizes PROVE Spec => Contract!Init /\ [][Contract!Next]_(Contract!vars)
<1>. QED  BY InvHolds, StepSimulates, ContractInit, PTL DEF Spec
===============================================================================
