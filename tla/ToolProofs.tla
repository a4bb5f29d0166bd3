----------------------------- MODULE ToolProofs -----------------------------
(***************************************************************************)
(* Proofs about the agent's tools: what they do (ToolEffects) and what     *)
(* they show (ToolViews), for any texts, calls, outputs, limits and        *)
(* bounds. A module of its own for both, since their listed properties     *)
(* are told apart by name: nothing of one is used in the other's proofs.   *)
(*                                                                         *)
(* OneEffect is not inductive: it takes, at each place of a call, what the *)
(* target is there.  The heart of it is Looked: between the read and the   *)
(* write of an edit nobody else has disturbed, the file is the snapshot    *)
(* and it takes the snapshot; what one execution made of it the edit does   *)
(* not take again, unless it is Repeatable, so a replay cannot get there.  *)
(*                                                                         *)
(* EndsKept takes what boundedBuffer keeps between two writes (Holds): all *)
(* of the output, or both its ends with at least half a limit each.        *)
(* NothingSilent takes the lines of a file: PagesCover is inductive once   *)
(* it is known that a page covers whole lines from the one its offset      *)
(* names on, and that the offset it gives counts the newlines it shows.    *)
(***************************************************************************)
EXTENDS ToolEffects, ToolViews, SequenceTheorems, FiniteSetTheorems, WellFoundedInduction, TLAPS

---------------------------------------------------------------------------
(* What the tools do.                                                      *)

\* Where the promise holds.
Kept == ~lost /\ ~(faulted /\ Repeatable)

\* An answer is there only once the call is past its last step.
Unanswered ==
    /\ pc \notin {"idle", "stopped", "append"} => answers = <<>>
    /\ pc = "append" /\ answers # <<>> =>
         answers = <<"ok">> /\ call.tool = "update_task" /\ faulted /\ result = "failed"

\* Who is where.
Placed ==
    /\ pc = "stopped" => faulted
    /\ pc \in {"read", "mkdir", "write"} => call.tool \in FileTools
    /\ pc = "mkdir" => call.tool = "write_file"
    /\ pc = "append" =>
         \/ call.tool \in NoteTools /\ result = "ok"
         \/ call.tool = "update_task" /\ result = "failed"
    /\ pc \in {"execute", "read", "mkdir", "write"} => result = "none"
    /\ pc = "answer" => result # "none"

\* The effect is there, or not, as the place says.
Here ==
    /\ pc \in {"execute", "read", "mkdir", "write"} /\ ~faulted => Now = Was
    /\ pc = "answer" /\ result = "failed" /\ ~faulted => Now = Was
    /\ pc = "answer" /\ result = "ok" /\ call.tool \in FileTools => Now = Once
    /\ pc = "answer" /\ result = "ok" /\ call.tool \notin FileTools /\ ~faulted => Now = Was
    /\ pc = "answer" /\ result = "same" => Now = Once
    /\ pc = "append" /\ result = "ok" => Now = Once
    /\ pc = "append" /\ result = "failed" /\ ~faulted => Now = Was

\* An edit that has changed the file had its match.
Matched == call.tool = "edit_file" => Now = Was \/ ~Mismatch(call, Was.text)

Effected == Kept => AtMostOnce /\ Matched /\ Here /\ AnswersTell

\* What the call read.
Looked ==
    Kept =>
      /\ pc = "write" /\ call.tool = "edit_file" => snap = world.file /\ ~Mismatch(call, snap.text)
      /\ pc \in {"mkdir", "write"} /\ call.tool = "write_file" /\ ~faulted =>
           snap.text = NoText \/ (Was.kind = "file" /\ snap.text = Was.text)
      /\ pc = "answer" /\ result = "same" /\ ~faulted =>
           call.text = NoText \/ (Was.kind = "file" /\ call.text = Was.text)

IInv == TypeOK /\ Unanswered /\ Placed /\ Elsewhere /\ Effected /\ Looked

-----------------------------------------------------------------------------
(* What one execution makes of its target.                                  *)

Types(t) == IF t = "file" THEN FileStates ELSE IF t = "board" THEN Seq(Statuses) ELSE Notes

\* The result is of the type of the target.
LEMMA AppliedType ==
    ASSUME NEW c \in Calls, NEW thing \in Types(Target(c))
    PROVE  Applied(c, thing) \in Types(Target(c))
<1>0. c \in CallTypes
  BY CallsAssumption
<1>1. CASE c.tool = "write_file"
  <2>1. c.big \in BOOLEAN /\ c.text \in Texts
    BY <1>0, <1>1 DEF CallTypes, NoteTools
  <2> QED BY <1>1, <2>1 DEF Types, Target, Applied, FileTools, FileStates
<1>2. CASE c.tool = "edit_file"
  <2>1. thing \in FileStates /\ c.edit \in Edits
    BY <1>0, <1>2 DEF CallTypes, Types, Target, FileTools, NoteTools
  <2>2. thing.text \in Texts
    BY <2>1 DEF FileStates
  <2>3. Replaced(c, thing.text) \in Texts
    BY <2>1, <2>2, TextsAssumption DEF Replaced
  <2>4. Applied(c, thing) = [thing EXCEPT !.text = Replaced(c, thing.text)]
    BY <1>2 DEF Applied
  <2> QED BY <1>2, <2>1, <2>3, <2>4 DEF Types, Target, FileTools, FileStates
<1>3. CASE c.tool = "update_task"
  <2>1. thing \in Seq(Statuses) /\ c.status \in Statuses
    BY <1>0, <1>3 DEF CallTypes, Types, Target, FileTools, NoteTools
  <2>2. Applied(c, thing) = [thing EXCEPT ![c.task] = c.status]
    BY <1>3 DEF Applied, NoteTools
  <2>3. Len(thing) \in Nat /\ DOMAIN thing = 1 .. Len(thing) /\ \A i \in 1 .. Len(thing) : thing[i] \in Statuses
    BY <2>1
  <2>4. Applied(c, thing) \in [1 .. Len(thing) -> Statuses]
    BY <2>1, <2>2, <2>3
  <2> QED BY <1>3, <2>3, <2>4 DEF Types, Target, FileTools
<1>4. CASE c.tool \in NoteTools
  BY <1>0, <1>4 DEF CallTypes, Types, Target, Applied, FileTools, NoteTools
<1> QED BY <1>0, <1>1, <1>2, <1>3, <1>4 DEF CallTypes

\* Executed again, it makes nothing else of what it made, unless it edits.
LEMMA AppliedAgain ==
    ASSUME NEW c \in CallTypes, c.tool # "edit_file", NEW thing \in Types(Target(c))
    PROVE  Applied(c, Applied(c, thing)) = Applied(c, thing)
<1>1. CASE c.tool = "update_task"
  BY <1>1 DEF Applied, Types, Target, FileTools, NoteTools, CallTypes
<1>2. CASE c.tool # "update_task"
  BY <1>2 DEF Applied
<1> QED BY <1>1, <1>2

-----------------------------------------------------------------------------
(* Types.                                                                   *)

WorldType == [file : FileStates, board : Seq(Statuses), remember : Notes,
     record_orientation : Notes]

\* What a call is, and what its target is.
LEMMA CallFacts ==
    ASSUME TypeOK
    PROVE  /\ call \in CallTypes /\ Target(call) \in DOMAIN world
           /\ world \in WorldType /\ base \in WorldType
           /\ Now \in Types(Target(call)) /\ Was \in Types(Target(call))
           /\ Applied(call, Now) \in Types(Target(call))
           /\ DOMAIN world = {"file", "board", "remember", "record_orientation"}
<1>1. call \in CallTypes
  BY CallsAssumption DEF TypeOK
<1>2. Target(call) \in {"file", "board", "remember", "record_orientation"}
  BY <1>1 DEF Target, CallTypes, FileTools, NoteTools
<1>3. world \in WorldType /\ base \in WorldType
  BY DEF TypeOK, WorldType
<1>4. DOMAIN world = {"file", "board", "remember", "record_orientation"}
  BY <1>3 DEF WorldType
<1>5. Now \in Types(Target(call)) /\ Was \in Types(Target(call))
  BY <1>2, <1>3 DEF WorldType, Types, Now, Was
<1>6. Applied(call, Now) \in Types(Target(call))
  <2>1. call \in Calls
    BY DEF TypeOK
  <2> QED BY <1>5, <2>1, AppliedType
<1> QED BY <1>1, <1>2, <1>3, <1>4, <1>5, <1>6

\* One field of the world is replaced by something of its type.
LEMMA WorldSet ==
    ASSUME NEW w \in WorldType, NEW t \in {"file", "board", "remember", "record_orientation"},
           NEW x \in Types(t)
    PROVE  /\ [w EXCEPT ![t] = x] \in WorldType
           /\ [w EXCEPT ![t] = x][t] = x
           /\ \A u \in {"file", "board", "remember",
                "record_orientation"} \ {t} : [w EXCEPT ![t] = x][u] = w[u]
BY DEF WorldType, Types

\* TypeOK in four parts.
Control ==
    /\ pc \in {"idle", "execute", "read", "mkdir", "write", "answer", "append", "stopped"}
    /\ result \in {"none", "ok", "same", "failed", "stopped"}
    /\ calls \in Nat /\ faults \in Nat /\ others \in Nat
Flags == faulted \in BOOLEAN /\ lost \in BOOLEAN
Data == world \in WorldType /\ base \in WorldType /\ call \in Calls /\ snap \in FileStates
Transcript == answers \in Seq({"ok", "same", "failed", "stopped"}) /\ Len(answers) <= 2

\* The type invariant in parts that a step seldom disturbs together.
LEMMA TypeParts ==
    /\ TypeOK => Control /\ Flags /\ Data /\ Transcript
    /\ Control' /\ Flags' /\ Data' /\ Transcript' => TypeOK'
    /\ Control /\ Flags /\ Data /\ Transcript => TypeOK
BY DEF TypeOK, Control, Flags, Data, Transcript, WorldType

\* Of a step that stores an answer.
LEMMA Stored ==
    ASSUME Unanswered, pc \in {"answer", "append"},
           NEW a \in {"ok", "same", "failed", "stopped"}
    PROVE  /\ Append(answers, a) \in Seq({"ok", "same", "failed", "stopped"})
           /\ Len(Append(answers, a)) <= 2
           /\ answers = <<>> \/ answers = <<"ok">>
<1>1. answers = <<>> \/ answers = <<"ok">>
  BY DEF Unanswered
<1>2. CASE answers = <<>>
  BY <1>2
<1>3. CASE answers = <<"ok">>
  <2> DEFINE S == {"ok", "same", "failed", "stopped"}
  <2>1. answers \in Seq(S) /\ Len(answers) = 1 /\ a \in S
    BY <1>3
  <2> HIDE DEF S
  <2>2. Append(answers, a) \in Seq(S) /\ Len(Append(answers, a)) = 2
    BY <2>1
  <2> QED BY <2>2, <1>1 DEF S
<1> QED BY <1>1, <1>2, <1>3

\* The answers stay typed when they are left alone or start afresh.
LEMMA SameTranscript ==
    /\ Transcript /\ answers' = answers => Transcript'
    /\ answers' = <<>> => Transcript'
    /\ answers = <<>> => Transcript
<1>1. <<>> \in Seq({"ok", "same", "failed", "stopped"}) /\ Len(<<>>) <= 2
  OBVIOUS
<1>2. Transcript /\ answers' = answers => Transcript'
  BY DEF Transcript
<1>3. answers' = <<>> => Transcript'
  BY <1>1 DEF Transcript
<1>4. answers = <<>> => Transcript
  BY <1>1 DEF Transcript
<1> QED BY <1>2, <1>3, <1>4

\* Before the first call there is nothing in hand and no answer.
LEMMA TypeInit == Init => TypeOK
<1> SUFFICES ASSUME Init PROVE TypeOK
  OBVIOUS
<1>1. Data
  BY CallsAssumption DEF Init, Data, WorldType
<1>2. Transcript
  BY SameTranscript DEF Init
<1>3. Control /\ Flags
  BY DEF Init, Control, Flags
<1> QED BY <1>1, <1>2, <1>3, TypeParts

\* Every step keeps the types.
LEMMA TypeStep == TypeOK /\ Unanswered /\ Placed /\ [Next]_vars => TypeOK'
<1> SUFFICES ASSUME TypeOK, Unanswered, Placed, [Next]_vars
             PROVE  TypeOK'
  OBVIOUS
<1>a. Control /\ Flags /\ Data /\ Transcript
  BY TypeParts
<1>b. Flags'
  BY <1>a DEF Next, Flags, Begins, Refuses, HandsOver, Stats, Reads, MakesParent, WritesFile,
       Answers,
     Appends, UpdatesTask, SetsNotes, Crash, Restarts, SandboxWrites, OperatorSaves, Overwrites,
     Keeps, NoFault, StepFails, vars
<1> DEFINE Fields == {"file", "board", "remember", "record_orientation"}
<1>0. /\ call \in CallTypes /\ Target(call) \in Fields
      /\ world \in WorldType /\ base \in WorldType
      /\ Control /\ Data /\ Transcript
  BY CallFacts, <1>a
<1> HIDE DEF Fields
<1> USE DEF Returns, Moves, Keeps, NoFault, StepFails
<1>1. ASSUME Begins PROVE Control' /\ Data' /\ Transcript'
  <2>1. Control'
    BY <1>1, <1>0 DEF Begins, Control
  <2>2. Data'
    BY <1>1, <1>0 DEF Begins, Data
  <2>3. answers' = <<>>
    BY <1>1 DEF Begins
  <2> QED BY <1>0, <2>1, <2>2, <2>3, SameTranscript
<1>2. ASSUME Refuses \/ HandsOver PROVE Control' /\ Data' /\ Transcript'
  <2>1. Control'
    BY <1>2, <1>0 DEF Refuses, HandsOver, Control
  <2>2. Data'
    BY <1>2, <1>0 DEF Refuses, HandsOver, Data
  <2>3. answers' = answers
    BY <1>2 DEF Refuses, HandsOver
  <2> QED BY <1>0, <2>1, <2>2, <2>3, SameTranscript
<1>3. ASSUME Stats PROVE Control' /\ Data' /\ Transcript'
  <2>1. [kind |-> world.file.kind, big |-> world.file.big, text |-> NoText] \in FileStates
    BY <1>0, TextsAssumption DEF WorldType, FileStates
  <2>2. Data'
    BY <1>3, <1>0, <2>1 DEF Stats, Data
  <2>3. Control'
    BY <1>3, <1>0 DEF Stats, Control
  <2>4. answers' = answers
    BY <1>3 DEF Stats
  <2> QED BY <1>0, <2>2, <2>3, <2>4, SameTranscript
<1>4. ASSUME Reads PROVE Control' /\ Data' /\ Transcript'
  <2>1. Data'
    BY <1>4, <1>0 DEF Reads, Data, WorldType
  <2>2. Control'
    BY <1>4, <1>0 DEF Reads, Control
  <2>3. answers' = answers
    BY <1>4 DEF Reads
  <2> QED BY <1>0, <2>1, <2>2, <2>3, SameTranscript
<1>5. ASSUME MakesParent PROVE Control' /\ Data' /\ Transcript'
  <2>1. Control'
    BY <1>5, <1>0 DEF MakesParent, Control
  <2>2. Data'
    BY <1>5, <1>0 DEF MakesParent, Data
  <2>3. answers' = answers
    BY <1>5 DEF MakesParent
  <2> QED BY <1>0, <2>1, <2>2, <2>3, SameTranscript
<1>6. ASSUME WritesFile PROVE Control' /\ Data' /\ Transcript'
  <2>1. call.tool \in FileTools
    BY <1>6 DEF WritesFile, Placed
  <2>2. Applied(call, snap) \in FileStates
    BY <1>0, <2>1, AppliedType DEF Data, Types, Target
  <2>3. [world EXCEPT !.file = Applied(call, snap)] \in WorldType
    BY <1>0, <2>2 DEF WorldType
  <2>4. Data'
    BY <1>6, <1>0, <2>3 DEF WritesFile, Data
  <2>5. Control'
    BY <1>6, <1>0 DEF WritesFile, Control
  <2>6. answers' = answers
    BY <1>6 DEF WritesFile
  <2> QED BY <1>0, <2>4, <2>5, <2>6, SameTranscript
<1>7. ASSUME Answers PROVE Control' /\ Data' /\ Transcript'
  <2>1. pc \in {"answer", "append"} /\ result \in {"ok", "same", "failed", "stopped"}
    BY <1>7, <1>0 DEF Answers, Placed, Control
  <2>2. Append(answers, result) \in Seq({"ok", "same", "failed", "stopped"}) /\ Len(Append(answers, result)) <= 2
    BY <2>1, Stored
  <2>3. Transcript'
    BY <1>7, <1>0, <2>2 DEF Answers, Appends, Transcript
  <2>4. Control'
    BY <1>7, <1>0 DEF Answers, Appends, Control
  <2>5. Data'
    BY <1>7, <1>0 DEF Answers, Data
  <2> QED BY <2>3, <2>4, <2>5
<1>8. ASSUME UpdatesTask PROVE Control' /\ Data' /\ Transcript'
  <2>1. Append(answers, "ok") \in Seq({"ok", "same", "failed", "stopped"}) /\ Len(Append(answers, "ok")) <= 2
    BY <1>8, Stored DEF UpdatesTask
  <2>2. Applied(call, world.board) \in Seq(Statuses)
    <3>1. call \in Calls /\ Target(call) = "board" /\ world.board \in Types("board")
      BY <1>8, <1>0 DEF UpdatesTask, Types, Target, FileTools, WorldType, Data
    <3>2. Applied(call, world.board) \in Types("board")
      BY <3>1, AppliedType
    <3> QED BY <3>2 DEF Types
  <2>3. [world EXCEPT !.board = Applied(call, world.board)] \in WorldType
    BY <1>0, <2>2 DEF WorldType
  <2>4. Data'
    BY <1>8, <1>0, <2>3 DEF UpdatesTask, Data
  <2>5. Transcript'
    BY <1>8, <1>0, <2>1 DEF UpdatesTask, Transcript
  <2>6. Control'
    BY <1>8, <1>0 DEF UpdatesTask, Control
  <2> QED BY <2>4, <2>5, <2>6
<1>9. ASSUME SetsNotes PROVE Control' /\ Data' /\ Transcript'
  <2>1. call.note \in Notes
    BY <1>9, <1>0 DEF SetsNotes, CallTypes, NoteTools
  <2>2. \A x : Applied(call, x) = call.note
    BY <1>9 DEF SetsNotes, Applied, NoteTools
  <2>3. [world EXCEPT ![call.tool] = call.note] \in WorldType
    BY <1>9, <1>0, <2>1 DEF SetsNotes, WorldType, NoteTools
  <2>4. Data'
    BY <1>9, <1>0, <2>2, <2>3 DEF SetsNotes, Data
  <2>5. Control'
    BY <1>9, <1>0 DEF SetsNotes, Control
  <2>6. answers' = answers
    BY <1>9 DEF SetsNotes
  <2> QED BY <1>0, <2>4, <2>5, <2>6, SameTranscript
<1>10. ASSUME Crash PROVE Control' /\ Data' /\ Transcript'
  <2>1. Control'
    BY <1>10, <1>0 DEF Crash, Control
  <2>2. Data'
    BY <1>10, <1>0 DEF Crash, Data
  <2>3. answers' = answers
    BY <1>10 DEF Crash
  <2> QED BY <1>0, <2>1, <2>2, <2>3, SameTranscript
<1>11. ASSUME Restarts PROVE Control' /\ Data' /\ Transcript'
  <2>1. Control'
    BY <1>11, <1>0 DEF Restarts, Control
  <2>2. Data'
    BY <1>11, <1>0 DEF Restarts, Data
  <2>3. answers' = answers
    BY <1>11 DEF Restarts
  <2> QED BY <1>0, <2>1, <2>2, <2>3, SameTranscript
<1>12. ASSUME SandboxWrites \/ OperatorSaves PROVE Control' /\ Data' /\ Transcript'
  <2>1. PICK t \in Fields : \E thing \in Types(t) : Overwrites(t, thing)
    BY <1>12, CallsAssumption DEF SandboxWrites, OperatorSaves, Types, NoteTools, Fields
  <2>2. PICK thing \in Types(t) : Overwrites(t, thing)
    BY <2>1
  <2>3. [world EXCEPT ![t] = thing] \in WorldType /\ [base EXCEPT ![t] = thing] \in WorldType
    BY <1>0, WorldSet DEF Fields
  <2>4. Data'
    BY <1>0, <2>2, <2>3 DEF Overwrites, Data
  <2>5. Control'
    BY <1>0, <2>2 DEF Overwrites, Control
  <2>6. answers' = answers
    BY <2>2 DEF Overwrites
  <2> QED BY <1>0, <2>4, <2>5, <2>6, SameTranscript
<1>13. ASSUME UNCHANGED vars PROVE Control' /\ Data' /\ Transcript'
  <2>1. Control'
    BY <1>13, <1>0 DEF vars, Control
  <2>2. Data'
    BY <1>13, <1>0 DEF vars, Data
  <2>3. answers' = answers
    BY <1>13 DEF vars
  <2> QED BY <1>0, <2>1, <2>2, <2>3, SameTranscript
<1> QED
  <2>1. Control' /\ Data' /\ Transcript'
    BY <1>1, <1>2, <1>3, <1>4, <1>5, <1>6, <1>7, <1>8, <1>9, <1>10, <1>11, <1>12, <1>13 DEF Next
  <2> QED BY <2>1, <1>b, TypeParts

-----------------------------------------------------------------------------
(* Where the worker is.                                                     *)

\* Every step keeps what a call has in hand, and that nothing answers it early.
LEMMA PlaceStep == TypeOK /\ Unanswered /\ Placed /\ [Next]_vars => Unanswered' /\ Placed'
<1> SUFFICES ASSUME TypeOK, Unanswered, Placed, [Next]_vars
             PROVE  Unanswered' /\ Placed'
  OBVIOUS
<1> USE DEF Returns, Moves, Keeps, NoFault, StepFails, Unanswered, Placed
<1>1. CASE Begins
  BY <1>1 DEF Begins
<1>2. CASE Refuses \/ HandsOver
  BY <1>2 DEF Refuses, HandsOver
<1>3. CASE Stats
  <2>1. world.file.kind \in {"missing", "other", "file"}
    BY DEF TypeOK, FileStates
  <2> QED BY <1>3, <2>1 DEF Stats, FileTools
<1>4. CASE Reads
  BY <1>4 DEF Reads, FileTools
<1>5. CASE MakesParent
  BY <1>5 DEF MakesParent
<1>6. CASE WritesFile
  BY <1>6 DEF WritesFile
<1>7. CASE Answers
  BY <1>7 DEF Answers, Appends
<1>8. CASE UpdatesTask
  <2>1. answers = <<>> /\ Append(answers, "ok") = <<"ok">>
    BY <1>8 DEF UpdatesTask
  <2> QED BY <1>8, <2>1 DEF UpdatesTask
<1>9. CASE SetsNotes
  BY <1>9 DEF SetsNotes
<1>10. CASE Crash
  BY <1>10 DEF Crash
<1>11. CASE Restarts
  BY <1>11 DEF Restarts
<1>12. CASE SandboxWrites \/ OperatorSaves
  BY <1>12 DEF SandboxWrites, OperatorSaves, Overwrites
<1>13. CASE UNCHANGED vars
  BY <1>13 DEF vars
<1> QED BY <1>1, <1>2, <1>3, <1>4, <1>5, <1>6, <1>7, <1>8, <1>9, <1>10, <1>11, <1>12,
     <1>13 DEF Next

-----------------------------------------------------------------------------
(* The effect. What a step leaves alone, first.                             *)

\* A step that leaves the world and the call alone leaves the effect alone.
LEMMA Still ==
    ASSUME UNCHANGED <<world, call, base, lost>>
    PROVE  /\ Now' = Now /\ Was' = Was /\ Once' = Once
           /\ (faulted => faulted') => (Kept' => Kept)
           /\ AtMostOnce => AtMostOnce'
           /\ Matched => Matched'
<1>1. Target(call)' = Target(call)
  BY DEF Target
<1>2. Now' = Now /\ Was' = Was
  BY <1>1 DEF Now, Was
<1>3. Once' = Once
  BY <1>2 DEF Once, Applied, Replaced
<1>4. Repeatable' <=> Repeatable
  BY <1>2, <1>3 DEF Repeatable, Fits
<1>5. AtMostOnce => AtMostOnce'
  BY <1>1, <1>2, <1>3 DEF AtMostOnce
<1>6. Matched => Matched'
  BY <1>2 DEF Matched, Mismatch, Fits
<1> QED BY <1>2, <1>3, <1>4, <1>5, <1>6 DEF Kept

\* The answers keep telling the truth while nothing they are about moves.
LEMMA Told ==
    ASSUME UNCHANGED <<world, call, base, lost, answers>>, faulted => faulted', AnswersTell
    PROVE  AnswersTell'
<1>1. Now' = Now /\ Was' = Was /\ Once' = Once
  BY Still
<1>2. \A a : Answered(a)' <=> Answered(a)
  BY DEF Answered
<1> QED BY <1>1, <1>2 DEF AnswersTell

\* Where there is no answer there is nothing to tell.
LEMMA Silent == answers' = <<>> => AnswersTell'
BY DEF AnswersTell, Answered

\* A step that moves the worker and leaves the effect and the answers alone.
LEMMA Moved ==
    ASSUME Effected, UNCHANGED <<world, call, base, lost, answers>>, faulted => faulted',
           Kept /\ Here /\ Now' = Now /\ Was' = Was /\ Once' = Once => Here'
    PROVE  Effected'
<1>1. /\ Now' = Now /\ Was' = Was /\ Once' = Once /\ (Kept' => Kept)
      /\ (AtMostOnce => AtMostOnce') /\ (Matched => Matched')
  BY Still
<1>2. AnswersTell => AnswersTell'
  BY Told
<1> QED BY <1>1, <1>2 DEF Effected

\* A new call starts from the world as it is, with no effect yet.
LEMMA BeginsEffect == ASSUME TypeOK, Begins PROVE Effected' /\ Looked'
<1>1. Now' = Was' /\ pc' = "execute" /\ answers' = <<>>
  BY DEF Begins, Moves, Now, Was
<1>2. AtMostOnce' /\ Matched' /\ AnswersTell'
  BY <1>1, Silent DEF AtMostOnce, Matched, Begins
<1>3. Here' /\ Looked'
  BY <1>1 DEF Here, Looked
<1> QED BY <1>2, <1>3 DEF Effected

\* The steps that change neither the target nor the answers.
LEMMA QuietEffect ==
    ASSUME IInv, Refuses \/ HandsOver \/ Stats \/ Reads \/ MakesParent \/ Crash \/ Restarts
    PROVE  Effected' /\ Looked'
<1> USE DEF Returns, Moves, Keeps, NoFault, StepFails
<1>1. UNCHANGED <<world, call, base, lost, answers>> /\ (faulted => faulted')
  BY DEF Refuses, HandsOver, Stats, Reads, MakesParent, Crash, Restarts
<1>2. Now' = Now /\ Was' = Was /\ (Kept' => Kept)
  BY <1>1, Still
<1>3. Kept /\ Here /\ Now' = Now /\ Was' = Was /\ Once' = Once => Here'
  <2> SUFFICES ASSUME Here, Now' = Now, Was' = Was, Once' = Once PROVE Here'
    OBVIOUS
  <2>1. CASE Refuses \/ HandsOver
    BY <1>1, <2>1 DEF Refuses, HandsOver, Here
  <2>2. CASE Stats
    BY <1>1, <2>2 DEF Stats, Here
  <2>3. CASE Reads
    BY <1>1, <2>3 DEF Reads, Here
  <2>4. CASE MakesParent
    BY <1>1, <2>4 DEF MakesParent, Here
  <2>5. CASE Crash
    BY <1>1, <2>5 DEF Crash, Here
  <2>6. CASE Restarts
    BY <1>1, <2>6 DEF Restarts, Here, IInv, Placed
  <2> QED BY <2>1, <2>2, <2>3, <2>4, <2>5, <2>6
<1>4. Effected'
  BY <1>1, <1>3, Moved DEF IInv
<1>5. Looked'
  <2>1. CASE Refuses \/ HandsOver \/ Crash \/ Restarts
    BY <1>1, <2>1 DEF Refuses, HandsOver, Crash, Restarts, Looked
  <2>2. CASE Stats
    <3>1. pc' # "write" /\ result' # "same" /\ (pc' = "mkdir" => snap'.text = NoText)
      BY <2>2 DEF Stats, IInv, Placed
    <3>2. pc' # "answer" \/ result' # "same"
      BY <3>1
    <3> QED BY <3>1, <3>2 DEF Looked
  <2>3. CASE Reads
    <3>1. CASE ~StepFails
      <4>1. snap' = world.file /\ world.file.kind = "file" /\ result' # "same"
        BY <2>3, <3>1 DEF Reads, IInv, Placed
      <4>2. pc' = "write" => call.tool = "edit_file" /\ ~Mismatch(call, world.file.text)
        BY <2>3, <3>1 DEF Reads
      <4>3. pc' = "mkdir" => call.tool = "write_file"
        BY <2>3, <3>1 DEF Reads, IInv, Placed, FileTools
      <4>4. call.tool = "write_file" => Now = world.file
        BY DEF Now, Target, FileTools
      <4>5. Kept /\ ~faulted => Now = Was
        BY <2>3 DEF Reads, IInv, Effected, Here
      <4> QED BY <1>1, <1>2, <4>1, <4>2, <4>3, <4>4, <4>5 DEF Looked, Mismatch, Fits
    <3>2. CASE StepFails
      BY <3>2 DEF Looked
    <3> QED BY <3>1, <3>2
  <2>4. CASE MakesParent
    <3>1. call.tool = "write_file" /\ pc = "mkdir" /\ snap' = snap
      BY <2>4 DEF MakesParent, IInv, Placed
    <3>2. pc' # "answer" \/ result' # "same"
      BY <2>4 DEF MakesParent, IInv, Placed
    <3> QED BY <1>1, <1>2, <3>1, <3>2 DEF Looked, IInv
  <2> QED BY <2>1, <2>2, <2>3, <2>4
<1> QED BY <1>4, <1>5

\* The write makes Once of Was; of Once there is nothing left to make.
LEMMA WritesEffect ==
    ASSUME IInv, WritesFile
    PROVE  Effected' /\ Looked'
<1> USE DEF Returns, Moves, NoFault, StepFails
<1>1. /\ call.tool \in FileTools /\ answers = <<>> /\ pc = "write"
      /\ UNCHANGED <<call, snap, answers, base, lost>> /\ (faulted => faulted')
      /\ call \in CallTypes /\ world \in WorldType /\ base \in WorldType /\ snap \in FileStates
  BY CallFacts DEF WritesFile, IInv, Unanswered, Placed, TypeOK
<1>2. Target(call) = "file" /\ Target(call)' = "file" /\ call.tool \in {"write_file", "edit_file"}
  BY <1>1 DEF Target, FileTools
<1>3. /\ (Kept' => Kept) /\ Was' = Was /\ Once' = Once
      /\ Was = base.file /\ Now = world.file /\ Now' = world'.file
  BY <1>1, <1>2 DEF Kept, Repeatable, Was, Now, Once, Applied, Replaced, Fits
<1>4. AnswersTell'
  BY <1>1, Silent
<1>5. pc' # "append" /\ pc' \notin {"execute", "read", "mkdir", "write"}
  BY DEF WritesFile
<1> SUFFICES ASSUME Kept PROVE AtMostOnce' /\ Matched' /\ Here' /\ Looked'
  BY <1>3, <1>4 DEF Effected, Looked
<1>6. AtMostOnce /\ Matched
  BY DEF IInv, Effected
<1>7. CASE world' = world /\ faulted' /\ (pc' = "answer" => result' = "stopped")
  <2>1. AtMostOnce' /\ Matched'
    BY <1>1, <1>6, <1>7, Still
  <2> QED BY <1>5, <1>7, <2>1 DEF Here, Looked
<1>8. CASE /\ world' = [world EXCEPT !.file = Applied(call, snap)]
           /\ pc' = "answer" /\ result' = "same" => call.tool = "write_file" /\ call.text = snap.text
           /\ pc' = "answer" => result' # "failed"
  <2>1. Now' = Applied(call, snap)
    BY <1>1, <1>3, <1>8 DEF WorldType
  <2>3. Now' = Once /\ (call.tool = "edit_file" => ~Mismatch(call, Was.text))
    <3>1. CASE call.tool = "write_file"
      BY <2>1, <3>1 DEF Once, Applied
    <3>2. CASE call.tool = "edit_file"
      <4>1. snap = Now /\ ~Mismatch(call, Now.text)
        BY <1>1, <1>3, <3>2 DEF IInv, Looked
      <4>2. Now = Was
        <5> SUFFICES ASSUME Now # Was PROVE FALSE
          OBVIOUS
        <5>1. ~Mismatch(call, Was.text) /\ Now = Once
          BY <1>6, <3>2 DEF Matched, AtMostOnce
        <5>2. faulted
          BY <1>1 DEF IInv, Effected, Here
        <5>3. ~Repeatable
          BY <5>2 DEF Kept
        <5> QED BY <3>2, <4>1, <5>1, <5>3 DEF Mismatch, Repeatable
      <4> QED BY <2>1, <4>1, <4>2 DEF Once
    <3> QED BY <1>2, <3>1, <3>2
  <2>4. AtMostOnce'
    BY <1>3, <2>3 DEF AtMostOnce
  <2>5. Matched'
    BY <1>1, <1>3, <2>3 DEF Matched, Mismatch, Fits
  <2>6. Here'
    BY <1>1, <1>3, <1>5, <1>8, <2>3 DEF Here
  <2>7. pc' = "answer" /\ result' = "same" /\ ~faulted' =>
          call.text = NoText \/ (Was.kind = "file" /\ call.text = Was.text)
    BY <1>1, <1>8 DEF IInv, Looked
  <2>8. Looked'
    BY <1>1, <1>3, <1>5, <2>7 DEF Looked
  <2> QED BY <2>4, <2>5, <2>6, <2>8
<1> QED BY <1>7, <1>8 DEF WritesFile

\* The answer says what the place of the worker says.
LEMMA AnswersEffect ==
    ASSUME IInv, Answers
    PROVE  Effected' /\ Looked'
<1>1. /\ UNCHANGED <<world, call, base, lost>> /\ (faulted => faulted')
      /\ pc' \in {"idle", "stopped"}
      /\ answers' = answers \/ answers' = Append(answers, result)
  BY DEF Answers, Appends, Keeps, NoFault
<1>2. /\ Now' = Now /\ Was' = Was /\ Once' = Once /\ (Kept' => Kept)
      /\ (AtMostOnce => AtMostOnce') /\ (Matched => Matched')
  BY <1>1, Still
<1>3. Here' /\ Looked'
  BY <1>1 DEF Here, Looked
<1> SUFFICES ASSUME Kept PROVE AnswersTell'
  BY <1>2, <1>3 DEF IInv, Effected
<1>4. AnswersTell /\ Here
  BY DEF IInv, Effected
<1>5. CASE answers' = answers
  BY <1>1, <1>4, <1>5, Told
<1>6. CASE answers' = Append(answers, result)
  <2>1. CASE answers = <<>>
    <3>1. answers' = <<result>>
      BY <1>6, <2>1
    <3>2. Len(answers') <= 1 /\ \A a : Answered(a)' => a = result
      BY <3>1 DEF Answered
    <3>3. result \in {"ok", "same"} => Now = Once
      BY <1>4 DEF Answers, Here, IInv, Placed
    <3>4. result = "failed" /\ ~faulted => Now = Was
      BY <1>4 DEF Answers, Here, IInv, Placed
    <3>5. result = "same" /\ ~faulted => (Was.kind = "file" /\ Was.text = call.text) \/ call.text = NoText
      BY DEF Answers, IInv, Looked, Placed
    <3> QED BY <1>1, <1>2, <3>2, <3>3, <3>4, <3>5 DEF AnswersTell
  <2>2. CASE answers # <<>>
    <3>1. answers = <<"ok">> /\ call.tool = "update_task" /\ faulted /\ result = "failed"
      BY <2>2 DEF Answers, IInv, Unanswered
    <3>2. answers' \in Seq({"ok", "failed"})
      <4> DEFINE S == {"ok", "failed"}
      <4>1. answers \in Seq(S) /\ result \in S
        BY <3>1
      <4> HIDE DEF S
      <4>2. answers' \in Seq(S)
        BY <1>6, <4>1
      <4> QED BY <4>2 DEF S
    <3>3. Answered("ok") /\ \A a : Answered(a)' => a \in {"ok", "failed"}
      BY <3>1, <3>2 DEF Answered
    <3> QED BY <1>1, <1>2, <1>4, <3>1, <3>3 DEF AnswersTell
  <2> QED BY <2>1, <2>2
<1> QED BY <1>1, <1>5, <1>6

\* The board moves once: moving a task where it is changes nothing.
LEMMA BoardEffect ==
    ASSUME IInv, UpdatesTask
    PROVE  Effected' /\ Looked'
<1>1. /\ call.tool = "update_task" /\ answers = <<>> /\ pc = "answer" /\ result = "ok"
      /\ UNCHANGED <<call, base, lost>> /\ (faulted => faulted')
      /\ call \in CallTypes /\ world \in WorldType /\ base \in WorldType
  BY CallFacts DEF UpdatesTask, IInv, Unanswered, TypeOK, NoFault
<1>2. Target(call) = "board" /\ Target(call)' = "board"
  BY <1>1 DEF Target, FileTools
<1>3. /\ (Kept' => Kept) /\ Was' = Was /\ Once' = Once
      /\ Now = world.board /\ Now' = world'.board /\ Matched'
  BY <1>1, <1>2 DEF Kept, Repeatable, Was, Now, Once, Applied, Replaced, Fits, Matched
<1>4. Looked' /\ (pc' = "append" => result' = "failed") /\ pc' \in {"idle", "append"}
  BY <1>1 DEF UpdatesTask, Looked
<1> SUFFICES ASSUME Kept PROVE AtMostOnce' /\ Here' /\ AnswersTell'
  BY <1>3, <1>4 DEF Effected
<1>5. AtMostOnce /\ Here
  BY DEF IInv, Effected
<1>6. CASE world' = world /\ answers' = answers /\ (faulted' \/ UNCHANGED faulted)
  <2>1. AtMostOnce' /\ Now' = Now
    BY <1>1, <1>5, <1>6, Still
  <2>2. Here'
    BY <1>1, <1>3, <1>4, <1>5, <1>6, <2>1 DEF Here, FileTools
  <2> QED BY <1>1, <1>6, <2>1, <2>2, Silent
<1>7. CASE /\ world' = [world EXCEPT !.board = Applied(call, world.board)]
           /\ answers' = Append(answers, "ok") /\ (pc' = "idle" \/ faulted')
  <2>1. Now' = Applied(call, Now)
    BY <1>1, <1>3, <1>7 DEF WorldType
  <2>2. Was \in Types(Target(call))
    BY CallFacts DEF IInv
  <2>3. Now' = Once
    BY <1>1, <1>5, <2>1, <2>2, AppliedAgain DEF AtMostOnce, Once
  <2>4. AtMostOnce'
    BY <1>3, <2>3 DEF AtMostOnce
  <2>5. Here'
    BY <1>4, <1>7 DEF Here
  <2>6. answers' = <<"ok">>
    BY <1>1, <1>7
  <2>7. AnswersTell'
    BY <1>3, <2>3, <2>6 DEF AnswersTell, Answered
  <2> QED BY <2>4, <2>5, <2>7
<1> QED BY <1>6, <1>7 DEF UpdatesTask, NoFault

\* The notes are replaced whole.
LEMMA NotesEffect ==
    ASSUME IInv, SetsNotes
    PROVE  Effected' /\ Looked'
<1>1. /\ call.tool \in NoteTools /\ answers = <<>> /\ pc = "answer" /\ result = "ok" /\ result' = "ok"
      /\ UNCHANGED <<call, base, lost, answers>> /\ (faulted => faulted')
      /\ pc' \in {"append", "stopped"}
      /\ call \in CallTypes /\ world \in WorldType /\ base \in WorldType
  BY CallFacts DEF SetsNotes, IInv, Unanswered, TypeOK, NoFault
<1>2. Target(call) = call.tool /\ Target(call)' = call.tool
  BY <1>1 DEF Target, FileTools, NoteTools
<1>3. /\ (Kept' => Kept) /\ Was' = Was /\ Once' = Once /\ Once = call.note
      /\ Now = world[call.tool] /\ Now' = world'[call.tool] /\ Matched'
  BY <1>1, <1>2 DEF Kept, Repeatable, Was, Now, Once, Applied, Replaced, Fits, Matched, NoteTools
<1>4. Looked' /\ AnswersTell'
  BY <1>1, Silent DEF Looked
<1> SUFFICES ASSUME Kept PROVE AtMostOnce' /\ Here'
  BY <1>3, <1>4 DEF Effected
<1>5. AtMostOnce
  BY DEF IInv, Effected
<1>6. CASE world' = world /\ pc' = "stopped"
  BY <1>1, <1>5, <1>6, Still DEF Here
<1>7. CASE world' = [world EXCEPT ![call.tool] = call.note]
  <2>1. Now' = Once
    BY <1>1, <1>3, <1>7 DEF WorldType, NoteTools
  <2>2. AtMostOnce'
    BY <1>3, <2>1 DEF AtMostOnce
  <2> QED BY <1>1, <1>3, <2>1, <2>2 DEF Here
<1>8. \A x : Applied(call, x) = call.note
  BY <1>1 DEF Applied, NoteTools
<1> QED BY <1>6, <1>7, <1>8 DEF SetsNotes

\* Others may write the target until the call looks at it, and anything
\* else at any moment.
LEMMA OthersEffect ==
    ASSUME IInv, SandboxWrites \/ OperatorSaves
    PROVE  Effected' /\ Looked'
<1> DEFINE Fields == {"file", "board", "remember", "record_orientation"}
<1>1. PICK t \in Fields : \E thing \in Types(t) : Overwrites(t, thing)
  BY CallsAssumption DEF SandboxWrites, OperatorSaves, Types, NoteTools
<1>2. PICK thing \in Types(t) : Overwrites(t, thing)
  BY <1>1
<1>3. /\ UNCHANGED <<call, pc, snap, result, answers, faulted>>
      /\ world' = [world EXCEPT ![t] = thing] /\ base' = [base EXCEPT ![t] = thing]
      /\ lost' = (lost \/ (t = Target(call) /\ (answers # <<>> \/ pc \notin {"execute", "stopped"})))
  BY <1>2 DEF Overwrites
<1>4. /\ world \in WorldType /\ base \in WorldType /\ Target(call) \in Fields
      /\ Target(call)' = Target(call) /\ DOMAIN world = Fields
  BY <1>3, CallFacts DEF IInv, Target
<1>5. /\ world'[t] = thing /\ base'[t] = thing /\ DOMAIN world' = Fields
      /\ \A u \in Fields \ {t} : world'[u] = world[u] /\ base'[u] = base[u]
  BY <1>3, <1>4, WorldSet
<1> HIDE DEF Fields
<1> SUFFICES ASSUME Kept' PROVE AtMostOnce' /\ Matched' /\ Here' /\ AnswersTell' /\ Looked'
  BY DEF Effected, Looked
<1>8. CASE t = Target(call)
  <2>1. answers' = <<>> /\ pc' \in {"execute", "stopped"}
    BY <1>3, <1>8 DEF Kept
  <2>2. Now' = Was'
    BY <1>4, <1>5, <1>8 DEF Now, Was
  <2> QED BY <2>1, <2>2, Silent DEF AtMostOnce, Matched, Here, Looked
<1>9. CASE t # Target(call)
  <2>1. Now' = Now /\ Was' = Was
    BY <1>4, <1>5, <1>9 DEF Now, Was
  <2>2. Once' = Once
    BY <1>3, <2>1 DEF Once, Applied, Replaced, Fits
  <2>7. Kept
    BY <1>3, <2>1, <2>2 DEF Kept, Repeatable, Fits
  <2>8. AtMostOnce /\ Matched /\ Here /\ AnswersTell /\ Looked
    BY <2>7 DEF IInv, Effected
  <2>3. AtMostOnce'
    BY <2>1, <2>2, <2>8 DEF AtMostOnce
  <2>4. Matched' /\ Here'
    BY <1>3, <2>1, <2>2, <2>8 DEF Matched, Here, Mismatch, Fits
  <2>5. AnswersTell'
    <3>1. \A a : Answered(a)' <=> Answered(a)
      BY <1>3 DEF Answered
    <3> QED BY <1>3, <2>1, <2>2, <2>8, <3>1 DEF AnswersTell
  <2>6. Looked'
    <3>1. call.tool = "edit_file" => world'.file = world.file
      BY <1>4, <1>5, <1>9 DEF Target, FileTools, Fields
    <3> QED BY <1>3, <2>1, <2>7, <2>8, <3>1 DEF Looked, Mismatch, Fits
  <2> QED BY <2>3, <2>4, <2>5, <2>6
<1> QED BY <1>8, <1>9

\* A call changes its target alone, whatever it does there; others change the
\* world and what they left of it alike.
LEMMA ElsewhereStep ==
    ASSUME TypeOK, Placed, Elsewhere, [Next]_vars
    PROVE  Elsewhere'
<1>1. /\ call \in CallTypes /\ world \in WorldType /\ base \in WorldType
      /\ DOMAIN world = {"file", "board", "remember", "record_orientation"}
  BY CallFacts
<1>2. CASE Begins
  BY <1>2 DEF Begins, Elsewhere
<1>3. CASE \/ Refuses \/ HandsOver \/ Stats \/ Reads \/ MakesParent \/ Answers \/ Crash \/ Restarts
           \/ UNCHANGED vars
  <2>1. UNCHANGED <<world, call, base>>
    BY <1>3 DEF Refuses, HandsOver, Stats, Reads, MakesParent, Answers, Crash, Restarts, Keeps, vars
  <2> QED BY <2>1 DEF Elsewhere, Target
<1>4. CASE WritesFile
  <2>1. Target(call) = "file" /\ Target(call)' = "file" /\ UNCHANGED base
    BY <1>4 DEF WritesFile, Placed, Target
  <2>2. world' = world \/ world' = [world EXCEPT !.file = Applied(call, snap)]
    BY <1>4 DEF WritesFile
  <2> QED BY <1>1, <2>1, <2>2 DEF Elsewhere, WorldType
<1>5. CASE UpdatesTask
  <2>1. Target(call) = "board" /\ Target(call)' = "board" /\ UNCHANGED base
    BY <1>5 DEF UpdatesTask, Target, FileTools
  <2>2. world' = world \/ world' = [world EXCEPT !.board = Applied(call, world.board)]
    BY <1>5 DEF UpdatesTask
  <2> QED BY <1>1, <2>1, <2>2 DEF Elsewhere, WorldType
<1>6. CASE SetsNotes
  <2>1. Target(call) = call.tool /\ Target(call)' = call.tool /\ UNCHANGED base
    BY <1>6 DEF SetsNotes, Target, FileTools, NoteTools
  <2>2. world' = world \/ world' = [world EXCEPT ![call.tool] = Applied(call, @)]
    BY <1>6 DEF SetsNotes
  <2> QED BY <1>1, <2>1, <2>2 DEF Elsewhere, WorldType
<1>7. CASE SandboxWrites \/ OperatorSaves
  <2>1. PICK t, thing : Overwrites(t, thing)
    BY <1>7 DEF SandboxWrites, OperatorSaves
  <2>2. /\ world' = [world EXCEPT ![t] = thing] /\ base' = [base EXCEPT ![t] = thing]
        /\ Target(call)' = Target(call)
    BY <2>1 DEF Overwrites, Target
  <2>3. DOMAIN base = DOMAIN world
    BY <1>1 DEF WorldType
  <2> QED BY <2>2, <2>3 DEF Elsewhere
<1> QED BY <1>2, <1>3, <1>4, <1>5, <1>6, <1>7 DEF Next

-----------------------------------------------------------------------------
(* The invariant.                                                           *)

\* Initially no call has been made.
LEMMA IInvInit == Init => IInv
<1> SUFFICES ASSUME Init PROVE IInv
  OBVIOUS
<1>1. TypeOK
  BY TypeInit
<1>2. Unanswered /\ Placed /\ Looked
  BY DEF Init, Unanswered, Placed, Looked
<1>3. Now = Was /\ world = base /\ answers = <<>> /\ pc = "idle"
  BY DEF Init, Now, Was
<1>4. Effected
  BY <1>3 DEF Effected, AtMostOnce, Matched, Here, AnswersTell, Answered
<1>5. Elsewhere
  BY <1>3 DEF Elsewhere
<1> QED BY <1>1, <1>2, <1>4, <1>5 DEF IInv

\* Every step keeps the inductive invariant.
LEMMA IInvStep == IInv /\ [Next]_vars => IInv'
<1> SUFFICES ASSUME IInv, [Next]_vars PROVE IInv'
  OBVIOUS
<1>1. TypeOK' /\ Unanswered' /\ Placed'
  BY TypeStep, PlaceStep DEF IInv
<1>2. Effected' /\ Looked'
  <2>1. CASE Begins
    BY <2>1, BeginsEffect DEF IInv
  <2>2. CASE Refuses \/ HandsOver \/ Stats \/ Reads \/ MakesParent \/ Crash \/ Restarts
    BY <2>2, QuietEffect
  <2>3. CASE WritesFile
    BY <2>3, WritesEffect
  <2>4. CASE Answers
    BY <2>4, AnswersEffect
  <2>5. CASE UpdatesTask
    BY <2>5, BoardEffect
  <2>6. CASE SetsNotes
    BY <2>6, NotesEffect
  <2>7. CASE SandboxWrites \/ OperatorSaves
    BY <2>7, OthersEffect
  <2>8. CASE UNCHANGED vars
    <3>1. UNCHANGED <<world, call, base, lost, answers, pc, snap, result, faulted>>
      BY <2>8 DEF vars
    <3>2. Now' = Now /\ Was' = Was /\ (Kept' => Kept)
      BY <3>1, Still
    <3>3. Effected'
      BY <3>1, Moved DEF IInv, Here
    <3>4. Looked'
      BY <3>1, <3>2 DEF IInv, Looked, Mismatch, Fits
    <3> QED BY <3>3, <3>4
  <2> QED BY <2>1, <2>2, <2>3, <2>4, <2>5, <2>6, <2>7, <2>8 DEF Next
<1>3. Elsewhere'
  BY ElsewhereStep DEF IInv
<1> QED BY <1>1, <1>2, <1>3 DEF IInv

\* The inductive invariant holds in every reachable state.
LEMMA Invariant == Spec => []IInv
<1>1. Init => IInv
  BY IInvInit
<1>2. IInv /\ [Next]_vars => IInv'
  BY IInvStep
<1> QED BY <1>1, <1>2, PTL DEF Spec

\* The state is of its type and no call has more than two answers.
THEOREM TypeCorrect == Spec => []TypeOK
<1>1. IInv => TypeOK
  BY DEF IInv
<1> QED BY <1>1, Invariant, PTL

\* executeCalls with its trailing tool-call repair: a call executed again
\* after any crash or lost request, of any text and any arguments, has its
\* effect once, on its target and nothing else, and is answered for what it did,
\* unless others wrote the same thing meanwhile or a fault cut short an edit whose
\* result its old_string matches again.
THEOREM EffectOnce == Spec => []OneEffect
<1>1. IInv => OneEffect
  BY DEF IInv, Effected, Kept, OneEffect
<1> QED BY <1>1, Invariant, PTL

---------------------------------------------------------------------------
(* What the tools show.                                                    *)

\* What a byte may be.
Bytes == {"byte", "newline"}

\* In order, nothing twice.
Rising(ps) == \A i, j \in DOMAIN ps : i < j => ps[i] < ps[j]

\* ps holds the whole of the first n bytes, or at least both ends of them.
Holds(ps, n) ==
    /\ ps \in Seq(1..n) /\ Rising(ps)
    /\ \/ Len(ps) = n /\ \A i \in 1..n : ps[i] = i
       \/ /\ Len(ps) >= 2 * Half /\ n > Limit
          /\ \A i \in 1..Half : ps[i] = i
          /\ \A i \in 1..Half : ps[Len(ps) - Half + i] = n - Half + i

\* What a result must show: every whole line of both ends, all if all fits.
Wanted(p) ==
    /\ text[p] = "byte"
    /\ \/ Len(text) <= Limit
       \/ \E q \in p .. Half : text[q] = "newline"
       \/ \E q \in Len(text) - Half + 1 .. p : text[q] = "newline"

Honest(shown) ==
    /\ shown \in Seq(1..Len(text)) /\ Rising(shown) /\ Len(shown) <= Limit
    /\ \A p \in 1..Len(text) : Wanted(p) => p \in Positions(shown)

\* The limits are positive, and both halves fit.
LEMMA Sizes ==
    /\ Limit \in Nat \ {0} /\ MaxBytes \in Nat \ {0} /\ MaxLines \in Nat \ {0}
    /\ MaxHits \in Nat \ {0} /\ MaxDepth \in Nat \ {0}
    /\ Half \in Nat /\ 2 * Half <= Limit
<1>1. Limit \in Nat /\ Limit \div 2 \in Nat /\ 2 * (Limit \div 2) <= Limit
  BY LimitsAssumption
<1> QED BY <1>1, LimitsAssumption DEF Half

\* A set of numbers has a least element.
LEMMA LeastIs ==
    ASSUME NEW S, S \subseteq Nat, S # {}
    PROVE  LeastOf(S) \in S /\ \A y \in S : LeastOf(S) <= y
<1>1. PICK Less : /\ Less = {p \in Nat \X Nat : p[1] < p[2]}
                  /\ IsWellFoundedOn(Less, Nat)
  BY NatLessThanWellFounded DEF OpToRel
<1>2. PICK k \in S : \A j \in S : <<j, k>> \notin Less
  BY <1>1, WFMin
<1>3. ASSUME NEW j \in S PROVE k <= j
  <2>1. j \in Nat /\ k \in Nat
    OBVIOUS
  <2>2. ~ (j < k)
    BY <1>1, <1>2, <2>1
  <2> QED BY <2>1, <2>2
<1> QED BY <1>2, <1>3 DEF LeastOf

\* A bounded set of numbers has a last element.
LEMMA LastIs ==
    ASSUME NEW n \in Nat, NEW S, S \subseteq 0..n, S # {}
    PROVE  LastOf(S) \in S /\ LastOf(S) \in 0..n /\ \A y \in S : y <= LastOf(S)
<1> DEFINE T == {m \in 0..n : n - m \in S}
<1>1. T \subseteq Nat
  OBVIOUS
<1>2. \A x \in S : n - x \in T
  <2>1. ASSUME NEW x \in S PROVE n - x \in T
    <3>1. x \in 0..n /\ n - x \in 0..n /\ n - (n - x) = x
      OBVIOUS
    <3> QED BY <3>1
  <2> QED BY <2>1
<1>3. T # {}
  BY <1>2
<1>4. LeastOf(T) \in T /\ \A y \in T : LeastOf(T) <= y
  BY <1>1, <1>3, LeastIs
<1>5. PICK k \in 0..n : n - k \in S /\ \A y \in T : k <= y
  BY <1>4
<1>6. \A x \in S : x <= n - k
  <2>1. ASSUME NEW x \in S PROVE x <= n - k
    <3>1. n - x \in T
      BY <1>2
    <3>2. k <= n - x
      BY <1>5, <3>1
    <3>3. x \in 0..n
      OBVIOUS
    <3> QED BY <1>5, <3>2, <3>3
  <2> QED BY <2>1
<1> QED BY <1>5, <1>6 DEF LastOf

\* A span is its positions, in order.
LEMMA SpanIs ==
    ASSUME NEW S, NEW a \in Nat, NEW b \in Nat, a..b \subseteq S
    PROVE  /\ Span(a, b) \in Seq(S)
           /\ Len(Span(a, b)) = IF b < a THEN 0 ELSE b - a + 1
           /\ \A i \in 1..Len(Span(a, b)) : Span(a, b)[i] = a + i - 1
           /\ Rising(Span(a, b))
<1> DEFINE n == IF b < a THEN 0 ELSE b - a + 1
           s == Span(a, b)
<1>1. n \in Nat /\ s = [i \in 1..n |-> a + i - 1]
  BY DEF Span
<1>2. \A i \in 1..n : a + i - 1 \in a..b
  OBVIOUS
<1> HIDE DEF n, s
<1>3. s \in [1..n -> S]
  BY <1>1, <1>2
<1>4. s \in Seq(S)
  BY <1>1, <1>3, SeqDef
<1>5. Len(s) = n /\ DOMAIN s = 1..n
  BY <1>1, <1>3, <1>4, LenProperties
<1>6. \A i \in 1..n : s[i] = a + i - 1
  BY <1>1
<1>7. Rising(s)
  BY <1>1, <1>5, <1>6 DEF Rising
<1> QED BY <1>4, <1>5, <1>6, <1>7 DEF n, s

\* A piece of a sequence.
LEMMA Piece ==
    ASSUME NEW n \in Nat, NEW ps \in Seq(1..n), Rising(ps),
           NEW a \in 1..Len(ps) + 1, NEW b \in 0..Len(ps), a <= b + 1
    PROVE  /\ SubSeq(ps, a, b) \in Seq(1..n) /\ Rising(SubSeq(ps, a, b))
           /\ Len(SubSeq(ps, a, b)) = b - a + 1 /\ DOMAIN SubSeq(ps, a, b) = 1..b - a + 1
           /\ \A i \in 1..b - a + 1 : SubSeq(ps, a, b)[i] = ps[a + i - 1]
<1> DEFINE s == SubSeq(ps, a, b)
<1>0. Len(ps) \in Nat /\ DOMAIN ps = 1..Len(ps) /\ \A i \in 1..Len(ps) : ps[i] \in 1..n
  BY LenProperties, ElementOfSeq
<1>1. \A i \in a..b : ps[i] \in 1..n
  BY <1>0
<1>2. /\ s \in Seq(1..n) /\ Len(s) = IF a <= b THEN b - a + 1 ELSE 0
      /\ \A i \in 1..b - a + 1 : s[i] = ps[a + i - 1]
  BY <1>0, <1>1, SubSeqProperties
<1>3. Len(s) = b - a + 1
  BY <1>0, <1>2
<1>4. DOMAIN s = 1..b - a + 1
  BY <1>2, <1>3, LenProperties
<1>5. Rising(s)
  <2>1. ASSUME NEW i \in 1..b - a + 1, NEW j \in 1..b - a + 1, i < j PROVE s[i] < s[j]
    <3>1. a + i - 1 \in 1..Len(ps) /\ a + j - 1 \in 1..Len(ps) /\ a + i - 1 < a + j - 1
      BY <1>0, <2>1
    <3>2. ps[a + i - 1] < ps[a + j - 1]
      BY <1>0, <3>1 DEF Rising
    <3> QED BY <1>2, <3>2
  <2> QED BY <1>4, <2>1 DEF Rising
<1> QED BY <1>2, <1>3, <1>4, <1>5

\* The first bytes of a sequence.
LEMMA Initial ==
    ASSUME NEW n \in Nat, NEW ps \in Seq(1..n), Rising(ps), NEW b \in 0..Len(ps)
    PROVE  /\ SubSeq(ps, 1, b) \in Seq(1..n) /\ Rising(SubSeq(ps, 1, b))
           /\ Len(SubSeq(ps, 1, b)) = b /\ DOMAIN SubSeq(ps, 1, b) = 1..b
           /\ \A i \in 1..b : SubSeq(ps, 1, b)[i] = ps[i]
<1> DEFINE a == 1
           s == SubSeq(ps, a, b)
<1>1. Len(ps) \in Nat /\ a \in 1..Len(ps) + 1 /\ b \in Nat /\ a <= b + 1
  BY LenProperties
<1> HIDE DEF a
<1>2. /\ s \in Seq(1..n) /\ Rising(s) /\ Len(s) = b - a + 1
      /\ \A i \in 1..b - a + 1 : s[i] = ps[a + i - 1]
  BY <1>1, Piece
<1> HIDE DEF s
<1>3. b - a + 1 = b /\ \A i \in 1..b : a + i - 1 = i
  BY <1>1 DEF a
<1>4. Len(s) = b /\ \A i \in 1..b : s[i] = ps[i]
  BY <1>2, <1>3
<1>5. DOMAIN s = 1..b
  BY <1>2, <1>4, LenProperties
<1> QED BY <1>2, <1>4, <1>5 DEF a, s

\* Two pieces, one after the other.
LEMMA Joins ==
    ASSUME NEW n \in Nat, NEW s \in Seq(1..n), NEW t \in Seq(1..n), Rising(s), Rising(t),
           \A i \in 1..Len(s), j \in 1..Len(t) : s[i] < t[j]
    PROVE  /\ s \o t \in Seq(1..n) /\ Rising(s \o t) /\ Len(s \o t) = Len(s) + Len(t)
           /\ \A i \in 1..Len(s) : (s \o t)[i] = s[i]
           /\ \A i \in 1..Len(t) : (s \o t)[Len(s) + i] = t[i]
           /\ Positions(s \o t) = Positions(s) \cup Positions(t)
<1> DEFINE u == s \o t
<1>1. Len(s) \in Nat /\ Len(t) \in Nat /\ DOMAIN s = 1..Len(s) /\ DOMAIN t = 1..Len(t)
  BY LenProperties
<1>2. /\ u \in Seq(1..n) /\ Len(u) = Len(s) + Len(t)
      /\ \A i \in 1..Len(s) + Len(t) : u[i] = IF i <= Len(s) THEN s[i] ELSE t[i - Len(s)]
  BY ConcatProperties
<1>3. DOMAIN u = 1..Len(s) + Len(t)
  BY <1>2, LenProperties
<1> HIDE DEF u
<1>4. \A i \in 1..Len(s) : u[i] = s[i]
  BY <1>1, <1>2
<1>5. \A i \in 1..Len(t) : u[Len(s) + i] = t[i]
  <2>1. ASSUME NEW i \in 1..Len(t) PROVE u[Len(s) + i] = t[i]
    <3>1. Len(s) + i \in 1..Len(s) + Len(t) /\ ~(Len(s) + i <= Len(s)) /\ Len(s) + i - Len(s) = i
      BY <1>1
    <3> QED BY <1>2, <3>1
  <2> QED BY <2>1
<1>6. Rising(u)
  <2>1. ASSUME NEW i \in 1..Len(s) + Len(t), NEW j \in 1..Len(s) + Len(t), i < j PROVE u[i] < u[j]
    <3>1. CASE j <= Len(s)
      <4>1. i \in 1..Len(s) /\ j \in 1..Len(s)
        BY <1>1, <2>1, <3>1
      <4> QED BY <1>1, <1>4, <2>1, <4>1 DEF Rising
    <3>2. CASE i <= Len(s) /\ j > Len(s)
      <4>1. i \in 1..Len(s) /\ j - Len(s) \in 1..Len(t) /\ ~(j <= Len(s))
        BY <1>1, <3>2
      <4> QED BY <1>2, <1>4, <4>1
    <3>3. CASE i > Len(s)
      <4>1. /\ i - Len(s) \in 1..Len(t) /\ j - Len(s) \in 1..Len(t) /\ i - Len(s) < j - Len(s)
            /\ ~(i <= Len(s)) /\ ~(j <= Len(s))
        BY <1>1, <2>1, <3>3
      <4>2. t[i - Len(s)] < t[j - Len(s)]
        BY <1>1, <4>1 DEF Rising
      <4> QED BY <1>2, <4>1, <4>2
    <3> QED BY <1>1, <3>1, <3>2, <3>3
  <2> QED BY <1>3, <2>1 DEF Rising
<1>7. Positions(u) = Positions(s) \cup Positions(t)
  <2>1. ASSUME NEW i \in 1..Len(s) + Len(t) PROVE u[i] \in Positions(s) \cup Positions(t)
    <3>1. CASE i <= Len(s)
      <4>1. i \in 1..Len(s)
        BY <1>1, <3>1
      <4> QED BY <1>1, <1>4, <4>1 DEF Positions
    <3>2. CASE ~(i <= Len(s))
      <4>1. i - Len(s) \in 1..Len(t)
        BY <1>1, <3>2
      <4> QED BY <1>1, <1>2, <3>2, <4>1 DEF Positions
    <3> QED BY <3>1, <3>2
  <2>2. ASSUME NEW i \in 1..Len(s) PROVE s[i] \in Positions(u)
    <3>1. i \in 1..Len(s) + Len(t)
      BY <1>1
    <3> QED BY <1>3, <1>4, <3>1 DEF Positions
  <2>3. ASSUME NEW i \in 1..Len(t) PROVE t[i] \in Positions(u)
    <3>1. Len(s) + i \in 1..Len(s) + Len(t)
      BY <1>1
    <3> QED BY <1>3, <1>5, <3>1 DEF Positions
  <2> QED BY <1>1, <1>3, <2>1, <2>2, <2>3 DEF Positions
<1> QED BY <1>2, <1>4, <1>5, <1>6, <1>7 DEF u
\* CutBack drops what follows the last newline, and that newline, or nothing.
LEMMA CutBackIs ==
    ASSUME NEW n \in Nat, NEW ps \in Seq(1..n)
    PROVE  \E k \in 0..Len(ps) :
             /\ CutBack(ps) = SubSeq(ps, 1, k)
             /\ \/ k = Len(ps) /\ \A i \in Newlines(ps) : i <= 1
                \/ k \in 1..Len(ps) - 1 /\ k + 1 \in Newlines(ps) /\ \A i \in Newlines(ps) : i <= k + 1
<1> DEFINE ends == {i \in Newlines(ps) : i > 1}
<1>1. Len(ps) \in Nat /\ Newlines(ps) \subseteq 1..Len(ps)
  BY LenProperties DEF Newlines
<1>2. CASE ends = {}
  <2>1. CutBack(ps) = ps
    BY <1>2 DEF CutBack
  <2>2. CutBack(ps) = SubSeq(ps, 1, Len(ps))
    BY <2>1, SubSeqFull
  <2>3. \A i \in Newlines(ps) : i <= 1
    BY <1>1, <1>2
  <2> QED BY <1>1, <2>2, <2>3
<1>3. CASE ends # {}
  <2>1. CutBack(ps) = SubSeq(ps, 1, LastOf(ends) - 1)
    BY <1>3 DEF CutBack
  <2>2. ends \subseteq 0..Len(ps)
    BY <1>1
  <2> HIDE DEF ends
  <2>3. LastOf(ends) \in ends /\ \A y \in ends : y <= LastOf(ends)
    BY <1>1, <1>3, <2>2, LastIs
  <2>4. PICK e \in ends : CutBack(ps) = SubSeq(ps, 1, e - 1) /\ \A y \in ends : y <= e
    BY <2>1, <2>3
  <2>5. e \in Newlines(ps) /\ e \in 2..Len(ps) /\ \A i \in Newlines(ps) : i <= e
    BY <1>1, <2>4 DEF ends
  <2>6. e - 1 \in 1..Len(ps) - 1 /\ e - 1 \in 0..Len(ps) /\ (e - 1) + 1 = e
    BY <1>1, <2>5
  <2> QED BY <2>4, <2>5, <2>6
<1> QED BY <1>2, <1>3

\* CutForward drops what precedes the first newline, and that newline, or nothing.
LEMMA CutForwardIs ==
    ASSUME NEW n \in Nat, NEW ps \in Seq(1..n)
    PROVE  \E k \in 0..Len(ps) :
             /\ CutForward(ps) = SubSeq(ps, k + 1, Len(ps))
             /\ k = 0 \/ (k \in Newlines(ps) /\ \A i \in Newlines(ps) : k <= i)
<1>1. Len(ps) \in Nat /\ Newlines(ps) \subseteq 1..Len(ps)
  BY LenProperties DEF Newlines
<1>2. CASE \E i \in Newlines(ps) : i < Len(ps) /\ \A j \in Newlines(ps) : i <= j
  <2>1. CutForward(ps) = SubSeq(ps, LeastOf(Newlines(ps)) + 1, Len(ps))
    BY <1>2 DEF CutForward
  <2>2. /\ LeastOf(Newlines(ps)) \in Newlines(ps)
        /\ \A i \in Newlines(ps) : LeastOf(Newlines(ps)) <= i
    <3>1. Newlines(ps) \subseteq Nat /\ Newlines(ps) # {}
      BY <1>1, <1>2
    <3> QED BY <3>1, LeastIs
  <2>3. LeastOf(Newlines(ps)) \in 0..Len(ps)
    BY <1>1, <2>2
  <2> QED BY <2>1, <2>2, <2>3
<1>3. CASE ~ \E i \in Newlines(ps) : i < Len(ps) /\ \A j \in Newlines(ps) : i <= j
  <2>1. CutForward(ps) = ps
    BY <1>3 DEF CutForward
  <2>2. CutForward(ps) = SubSeq(ps, 0 + 1, Len(ps))
    BY <2>1, SubSeqFull
  <2> QED BY <1>1, <2>2
<1> QED BY <1>2, <1>3

\* TrimRight drops newlines only.
LEMMA TrimRightIs ==
    ASSUME NEW n \in Nat, NEW ps \in Seq(1..n)
    PROVE  \E k \in 0..Len(ps) :
             /\ TrimRight(ps) = SubSeq(ps, 1, k)
             /\ \A i \in 1..Len(ps) : i \notin Newlines(ps) => i <= k
<1> DEFINE kept == (DOMAIN ps) \ Newlines(ps)
           k == IF kept = {} THEN 0 ELSE LastOf(kept)
<1>1. Len(ps) \in Nat /\ DOMAIN ps = 1..Len(ps)
  BY LenProperties
<1>2. TrimRight(ps) = SubSeq(ps, 1, k)
  BY DEF TrimRight
<1>3. kept # {} => LastOf(kept) \in 0..Len(ps) /\ \A y \in kept : y <= LastOf(kept)
  <2>1. kept \subseteq 0..Len(ps)
    BY <1>1
  <2> QED BY <1>1, <2>1, LastIs
<1>4. \A i \in 1..Len(ps) : i \notin Newlines(ps) => i \in kept
  BY <1>1
<1> HIDE DEF kept
<1>5. CASE kept = {}
  BY <1>1, <1>2, <1>4, <1>5
<1>6. CASE kept # {}
  <2>1. LastOf(kept) \in 0..Len(ps)
    BY <1>3, <1>6
  <2>2. k = LastOf(kept)
    BY <1>6
  <2> QED BY <1>2, <1>3, <1>4, <1>6, <2>1, <2>2
<1> QED BY <1>5, <1>6

\* A chunk is appended as the positions it has in the output.
LEMMA Appended ==
    ASSUME NEW ps, NEW n \in Nat, NEW m \in Nat, Holds(ps, n)
    PROVE  Holds(ps \o Span(n + 1, n + m), n + m)
<1> DEFINE s == Span(n + 1, n + m)
           u == ps \o s
<1>1. /\ s \in Seq(1..n + m) /\ Len(s) = m /\ Rising(s)
      /\ \A i \in 1..m : s[i] = n + i
  <2>1. /\ s \in Seq(1..n + m) /\ Rising(s)
        /\ Len(s) = IF n + m < n + 1 THEN 0 ELSE n + m - (n + 1) + 1
        /\ \A i \in 1..Len(s) : s[i] = n + 1 + i - 1
    <3> DEFINE a == n + 1
               b == n + m
    <3>1. a \in Nat /\ b \in Nat /\ a..b \subseteq 1..n + m
      OBVIOUS
    <3>2. s = Span(a, b)
      OBVIOUS
    <3> HIDE DEF a, b, s
    <3>3. /\ s \in Seq(1..n + m) /\ Rising(s) /\ Len(s) = IF b < a THEN 0 ELSE b - a + 1
          /\ \A i \in 1..Len(s) : s[i] = a + i - 1
      BY <3>1, <3>2, SpanIs
    <3> QED BY <3>3 DEF a, b
  <2> HIDE DEF s
  <2>2. Len(s) = m
    BY <2>1
  <2> QED BY <2>1, <2>2
<1> HIDE DEF s
<1>2. ps \in Seq(1..n) /\ ps \in Seq(1..n + m) /\ Rising(ps) /\ Len(ps) \in Nat /\ DOMAIN ps = 1..Len(ps)
  <2>1. 1..n \subseteq 1..n + m
    OBVIOUS
  <2> QED BY <2>1, SeqMonotonic, LenProperties DEF Holds
<1>3. \A i \in 1..Len(ps), j \in 1..Len(s) : ps[i] < s[j]
  <2>1. ASSUME NEW i \in 1..Len(ps), NEW j \in 1..m PROVE ps[i] < s[j]
    <3>1. ps[i] \in 1..n
      BY <1>2, ElementOfSeq
    <3> QED BY <1>1, <3>1
  <2> QED BY <1>1, <2>1
<1>4. /\ u \in Seq(1..n + m) /\ Rising(u) /\ Len(u) = Len(ps) + m
      /\ \A i \in 1..Len(ps) : u[i] = ps[i]
      /\ \A i \in 1..m : u[Len(ps) + i] = n + i
  <2>1. /\ u \in Seq(1..n + m) /\ Rising(u) /\ Len(u) = Len(ps) + Len(s)
        /\ \A i \in 1..Len(ps) : u[i] = ps[i]
        /\ \A i \in 1..Len(s) : u[Len(ps) + i] = s[i]
    <3>1. n + m \in Nat
      OBVIOUS
    <3> QED BY <1>1, <1>2, <1>3, <3>1, Joins
  <2> QED BY <1>1, <2>1
<1> HIDE DEF u
<1>5. CASE Len(ps) = n /\ \A i \in 1..n : ps[i] = i
  <2>1. ASSUME NEW i \in 1..n + m PROVE u[i] = i
    <3>1. CASE i <= n
      BY <1>4, <1>5, <3>1
    <3>2. CASE ~(i <= n)
      <4>1. i - n \in 1..m /\ n + (i - n) = i
        BY <3>2
      <4> QED BY <1>4, <1>5, <4>1
    <3> QED BY <3>1, <3>2
  <2>2. Len(u) = n + m
    BY <1>4, <1>5
  <2>3. Holds(u, n + m)
    BY <1>4, <2>1, <2>2 DEF Holds
  <2> QED BY <2>3 DEF u, s
<1>6. CASE /\ Len(ps) >= 2 * Half /\ n > Limit
           /\ \A i \in 1..Half : ps[i] = i
           /\ \A i \in 1..Half : ps[Len(ps) - Half + i] = n - Half + i
  <2>1. Half \in Nat /\ Limit \in Nat
    BY Sizes
  <2>2. Len(u) >= 2 * Half /\ n + m > Limit
    BY <1>2, <1>4, <1>6, <2>1
  <2>3. ASSUME NEW i \in 1..Half PROVE u[i] = i
    <3>1. i \in 1..Len(ps)
      BY <1>2, <1>6, <2>1
    <3> QED BY <1>4, <1>6, <3>1
  <2>4. ASSUME NEW i \in 1..Half PROVE u[Len(u) - Half + i] = (n + m) - Half + i
    <3>1. CASE m + i <= Half
      <4>1. m + i \in 1..Half /\ Len(u) - Half + i = Len(ps) - Half + (m + i)
        BY <1>2, <1>4, <2>1, <3>1
      <4>2. Len(ps) - Half + (m + i) \in 1..Len(ps)
        BY <1>2, <1>6, <2>1, <4>1
      <4>3. ps[Len(ps) - Half + (m + i)] = n - Half + (m + i)
        BY <1>6, <4>1
      <4>4. u[Len(ps) - Half + (m + i)] = n - Half + (m + i)
        BY <1>4, <4>2, <4>3
      <4>5. n - Half + (m + i) = (n + m) - Half + i
        BY <2>1
      <4> QED BY <4>1, <4>4, <4>5
    <3>2. CASE m + i > Half
      <4>1. m - Half + i \in 1..m /\ Len(u) - Half + i = Len(ps) + (m - Half + i)
        BY <1>2, <1>4, <2>1, <3>2
      <4>2. u[Len(ps) + (m - Half + i)] = n + (m - Half + i)
        BY <1>4, <4>1
      <4>3. n + (m - Half + i) = (n + m) - Half + i
        BY <2>1
      <4> QED BY <4>1, <4>2, <4>3
    <3> QED BY <2>1, <3>1, <3>2
  <2>5. Holds(u, n + m)
    <3>1. /\ \A i \in 1..Half : u[i] = i
          /\ \A i \in 1..Half : u[Len(u) - Half + i] = (n + m) - Half + i
      BY <2>3, <2>4
    <3> QED BY <1>4, <2>2, <3>1 DEF Holds
  <2> QED BY <2>5 DEF u, s
<1> QED BY <1>5, <1>6 DEF Holds

\* Both ends are enough.
LEMMA EndsHold ==
    ASSUME NEW n, NEW u, u \in Seq(1..n), Rising(u), Len(u) >= 2 * Half, n > Limit,
           \A i \in 1..Half : u[i] = i,
           \A i \in 1..Half : u[Len(u) - Half + i] = n - Half + i
    PROVE  Holds(u, n)
BY Zenon DEF Holds

\* A buffer over the limit stands for an output over the limit.
LEMMA OverLimit ==
    ASSUME NEW n \in Nat, NEW ps, Holds(ps, n), Len(ps) > Limit
    PROVE  n > Limit
<1>1. Len(ps) = n \/ n > Limit
  BY Zenon DEF Holds
<1> QED BY <1>1

\* Of an output over the limit, both ends are there.
LEMMA BothEnds ==
    ASSUME NEW n \in Nat, NEW ps, Holds(ps, n), n > Limit
    PROVE  /\ ps \in Seq(1..n) /\ Rising(ps) /\ Len(ps) \in Nat /\ DOMAIN ps = 1..Len(ps)
           /\ Half \in Nat /\ 2 * Half <= Len(ps) /\ 2 * Half <= n
           /\ \A i \in 1..Half : ps[i] = i
           /\ \A i \in 1..Half : ps[Len(ps) - Half + i] = n - Half + i
<1>1. Half \in Nat /\ Limit \in Nat /\ 2 * Half <= Limit
  BY Sizes
<1>2. ps \in Seq(1..n) /\ Rising(ps) /\ Len(ps) \in Nat /\ DOMAIN ps = 1..Len(ps)
  BY LenProperties DEF Holds
<1>3. CASE Len(ps) = n /\ \A i \in 1..n : ps[i] = i
  <2>1. ASSUME NEW i \in 1..Half PROVE ps[i] = i /\ ps[Len(ps) - Half + i] = n - Half + i
    <3>1. i \in 1..n /\ n - Half + i \in 1..n
      BY <1>1
    <3> QED BY <1>3, <3>1
  <2> QED BY <1>1, <1>2, <1>3, <2>1
<1>4. CASE /\ Len(ps) >= 2 * Half /\ n > Limit
           /\ \A i \in 1..Half : ps[i] = i
           /\ \A i \in 1..Half : ps[Len(ps) - Half + i] = n - Half + i
  BY <1>1, <1>2, <1>4
<1> QED BY <1>3, <1>4 DEF Holds

\* The first bytes and the last.
LEMMA EndPieces ==
    ASSUME NEW n \in Nat, NEW ps, Holds(ps, n), n > Limit
    PROVE  LET h == SubSeq(ps, 1, Half)
               t == SubSeq(ps, Len(ps) - Half + 1, Len(ps))
           IN  /\ h \in Seq(1..n) /\ Rising(h) /\ Len(h) = Half /\ \A i \in 1..Half : h[i] = i
               /\ t \in Seq(1..n) /\ Rising(t) /\ Len(t) = Half
               /\ \A i \in 1..Half : t[i] = n - Half + i
<1> DEFINE h == SubSeq(ps, 1, Half)
           t == SubSeq(ps, Len(ps) - Half + 1, Len(ps))
           a == Len(ps) - Half + 1
<1>1. /\ ps \in Seq(1..n) /\ Rising(ps) /\ Len(ps) \in Nat
      /\ Half \in Nat /\ 2 * Half <= Len(ps) /\ 2 * Half <= n
      /\ \A i \in 1..Half : ps[i] = i
      /\ \A i \in 1..Half : ps[Len(ps) - Half + i] = n - Half + i
  BY BothEnds
<1>2. Half \in 0..Len(ps)
  BY <1>1
<1>3. /\ h \in Seq(1..n) /\ Rising(h) /\ Len(h) = Half
      /\ \A i \in 1..Half : h[i] = ps[i]
  BY <1>1, <1>2, Initial
<1>4. \A i \in 1..Half : h[i] = i
  BY <1>1, <1>3
<1>5. a \in 1..Len(ps) + 1 /\ Len(ps) \in 0..Len(ps) /\ a <= Len(ps) + 1 /\ Len(ps) - a + 1 = Half
  BY <1>1
<1>6. t = SubSeq(ps, a, Len(ps))
  OBVIOUS
<1>7. a = Len(ps) - Half + 1
  OBVIOUS
<1> HIDE DEF a, t
<1>8. /\ t \in Seq(1..n) /\ Rising(t) /\ Len(t) = Len(ps) - a + 1
      /\ \A i \in 1..Len(ps) - a + 1 : t[i] = ps[a + i - 1]
  BY <1>1, <1>5, <1>6, Piece
<1>9. ASSUME NEW i \in 1..Half PROVE t[i] = n - Half + i
  <2>1. t[i] = ps[a + i - 1] /\ a + i - 1 = Len(ps) - Half + i
    BY <1>1, <1>5, <1>7, <1>8
  <2> QED BY <1>1, <2>1
<1> QED BY <1>3, <1>4, <1>5, <1>8, <1>9 DEF t

\* The start of the result has the whole lines of the first half-limit bytes.
LEMMA HeadKept ==
    ASSUME NEW n \in Nat, NEW ps, Holds(ps, n), n > Limit
    PROVE  LET h == CutBack(SubSeq(ps, 1, Half))
           IN  /\ h \in Seq(1..n) /\ Rising(h) /\ Len(h) <= Half
               /\ \A i \in 1..Len(h) : h[i] <= Half
               /\ \A p \in 1..Half : text[p] = "byte" /\ (\E q \in p..Half : text[q] = "newline")
                    => p \in Positions(h)
<1> DEFINE s == SubSeq(ps, 1, Half)
<1>1. s \in Seq(1..n) /\ Rising(s) /\ Len(s) = Half /\ (\A i \in 1..Half : s[i] = i) /\ Half \in Nat
  BY EndPieces, Sizes
<1> HIDE DEF s
<1>2. PICK k \in 0..Len(s) :
        /\ CutBack(s) = SubSeq(s, 1, k)
        /\ \/ k = Len(s)
           \/ \A i \in Newlines(s) : i <= k + 1
  BY <1>1, CutBackIs
<1> DEFINE h == CutBack(s)
<1>3. k \in 0..Half /\ h = SubSeq(s, 1, k)
  BY <1>1, <1>2
<1> HIDE DEF h
<1>4. /\ h \in Seq(1..n) /\ Rising(h) /\ Len(h) = k /\ DOMAIN h = 1..k
      /\ \A i \in 1..k : h[i] = s[i]
  BY <1>1, <1>3, Initial
<1>5. \A i \in 1..k : h[i] = i
  BY <1>1, <1>3, <1>4
<1>6. DOMAIN s = 1..Half
  BY <1>1, LenProperties
<1>7. ASSUME NEW p \in 1..Half, text[p] = "byte", NEW q \in p..Half, text[q] = "newline"
      PROVE  p \in Positions(h)
  <2>1. q \in Newlines(s)
    BY <1>1, <1>6, <1>7 DEF Newlines
  <2>2. q # p
    BY <1>7
  <2>3. p < q /\ q \in 1..Half
    BY <1>1, <2>2
  <2>4. p <= k
    BY <1>1, <1>2, <2>1, <2>3
  <2>5. p \in 1..k /\ h[p] = p
    BY <1>3, <1>5, <2>4
  <2> QED BY <1>4, <2>5 DEF Positions
<1>8. Len(h) <= Half /\ \A i \in 1..Len(h) : h[i] <= Half
  BY <1>1, <1>3, <1>4, <1>5
<1> QED BY <1>4, <1>7, <1>8 DEF h, s

\* The end of the result has the whole lines of the last half-limit bytes.
LEMMA TailKept ==
    ASSUME NEW n \in Nat, NEW ps, Holds(ps, n), n > Limit
    PROVE  LET t == CutForward(SubSeq(ps, Len(ps) - Half + 1, Len(ps)))
           IN  /\ t \in Seq(1..n) /\ Rising(t) /\ Len(t) <= Half
               /\ \A i \in 1..Len(t) : t[i] > n - Half
               /\ \A p \in 1..n : text[p] = "byte" /\ (\E q \in n - Half + 1..p : text[q] = "newline")
                    => p \in Positions(t)
<1> DEFINE s == SubSeq(ps, Len(ps) - Half + 1, Len(ps))
<1>1. /\ s \in Seq(1..n) /\ Rising(s) /\ Len(s) = Half /\ (\A i \in 1..Half : s[i] = n - Half + i)
      /\ Half \in Nat /\ 2 * Half <= n
  BY EndPieces, BothEnds
<1> HIDE DEF s
<1>2. PICK k \in 0..Len(s) :
        /\ CutForward(s) = SubSeq(s, k + 1, Len(s))
        /\ k = 0 \/ \A i \in Newlines(s) : k <= i
  BY <1>1, CutForwardIs
<1> DEFINE t == CutForward(s)
           a == k + 1
<1>3. a \in 1..Len(s) + 1 /\ Len(s) \in 0..Len(s) /\ a <= Len(s) + 1 /\ Len(s) - a + 1 = Half - k
  BY <1>1
<1>4. t = SubSeq(s, a, Len(s)) /\ a = k + 1
  BY <1>2
<1> HIDE DEF t, a
<1>5. /\ t \in Seq(1..n) /\ Rising(t) /\ Len(t) = Len(s) - a + 1
      /\ \A i \in 1..Len(s) - a + 1 : t[i] = s[a + i - 1]
  <2> DEFINE b == Len(s)
  <2>1. b \in 0..Len(s) /\ a <= b + 1 /\ t = SubSeq(s, a, b) /\ a \in 1..Len(s) + 1
    BY <1>3, <1>4
  <2>2. b = Len(s)
    OBVIOUS
  <2> HIDE DEF b
  <2>3. /\ t \in Seq(1..n) /\ Rising(t) /\ Len(t) = b - a + 1
        /\ \A i \in 1..b - a + 1 : t[i] = s[a + i - 1]
    BY <1>1, <2>1, Piece
  <2> QED BY <2>2, <2>3
<1>6. ASSUME NEW i \in 1..Len(t) PROVE t[i] > n - Half
  <2>1. t[i] = s[a + i - 1] /\ a + i - 1 \in 1..Half
    BY <1>1, <1>3, <1>4, <1>5
  <2>2. t[i] = n - Half + (a + i - 1)
    BY <1>1, <2>1
  <2> QED BY <1>1, <2>1, <2>2
<1>7. DOMAIN s = 1..Half
  BY <1>1, LenProperties
<1>8. ASSUME NEW p \in 1..n, text[p] = "byte", NEW q \in n - Half + 1..p, text[q] = "newline"
      PROVE  p \in Positions(t)
  <2> DEFINE i == q - n + Half
             j == p - n + Half
  <2>1. q # p
    BY <1>8
  <2>2. /\ i \in 1..Half /\ j \in 1..Half /\ i < j
        /\ n - Half + i = q /\ n - Half + j = p
    BY <1>1, <2>1
  <2> HIDE DEF i, j
  <2>3. s[i] = q /\ s[j] = p
    BY <1>1, <2>2
  <2>4. i \in Newlines(s)
    BY <1>7, <1>8, <2>2, <2>3 DEF Newlines
  <2>5. k <= i
    BY <1>2, <2>2, <2>4
  <2>6. j - a + 1 \in 1..Len(s) - a + 1 /\ a + (j - a + 1) - 1 = j
    BY <1>1, <1>4, <2>2, <2>5
  <2>7. t[j - a + 1] = p
    BY <1>5, <2>3, <2>6
  <2>8. DOMAIN t = 1..Len(t)
    BY <1>5, LenProperties
  <2> QED BY <1>5, <2>6, <2>7, <2>8 DEF Positions
<1>9. Len(t) <= Half
  BY <1>1, <1>3, <1>5
<1> QED BY <1>5, <1>6, <1>8, <1>9 DEF t, s

\* boundedBuffer.Write keeps both ends, in at most twice the limit.
LEMMA CompactedHolds ==
    ASSUME NEW n \in Nat, NEW ps, Holds(ps, n)
    PROVE  Holds(Compacted(ps), n) /\ Len(Compacted(ps)) <= 2 * Limit
<1>1. Limit \in Nat \ {0} /\ Half \in Nat /\ 2 * Half <= Limit
  BY Sizes
<1>2. CASE Len(ps) <= 2 * Limit
  BY <1>2 DEF Compacted
<1>3. CASE ~(Len(ps) <= 2 * Limit)
  <2>1. ps \in Seq(1..n) /\ Len(ps) \in Nat
    BY LenProperties DEF Holds
  <2>2. n > Limit
    BY <1>1, <1>3, <2>1, OverLimit
  <2> DEFINE h == SubSeq(ps, 1, Half)
             t == SubSeq(ps, Len(ps) - Half + 1, Len(ps))
             u == h \o t
  <2>3. Compacted(ps) = u
    BY <1>3 DEF Compacted
  <2>4. /\ h \in Seq(1..n) /\ Rising(h) /\ Len(h) = Half /\ \A i \in 1..Half : h[i] = i
        /\ t \in Seq(1..n) /\ Rising(t) /\ Len(t) = Half /\ \A i \in 1..Half : t[i] = n - Half + i
    BY <2>2, EndPieces
  <2> HIDE DEF h, t
  <2>5. \A i \in 1..Len(h), j \in 1..Len(t) : h[i] < t[j]
    BY <1>1, <2>2, <2>4
  <2>6. /\ u \in Seq(1..n) /\ Rising(u) /\ Len(u) = Len(h) + Len(t)
        /\ \A i \in 1..Len(h) : u[i] = h[i]
        /\ \A i \in 1..Len(t) : u[Len(h) + i] = t[i]
    BY <2>4, <2>5, Joins
  <2> HIDE DEF u
  <2>7. Len(u) = 2 * Half /\ Len(u) - Half = Half
    BY <1>1, <2>4, <2>6
  <2>8. \A i \in 1..Half : u[i] = i /\ u[Len(u) - Half + i] = n - Half + i
    <3>1. ASSUME NEW i \in 1..Half PROVE u[i] = i /\ u[Len(u) - Half + i] = n - Half + i
      <4>1. u[i] = h[i] /\ u[Half + i] = t[i]
        BY <2>4, <2>6
      <4>2. Len(u) - Half + i = Half + i
        BY <1>1, <2>7
      <4> QED BY <2>4, <4>1, <4>2
    <3> QED BY <3>1
  <2>9. Holds(u, n) /\ Len(u) <= 2 * Limit
    <3>1. Len(u) >= 2 * Half /\ Len(u) <= 2 * Limit
      BY <1>1, <2>7
    <3> QED BY <2>2, <2>6, <2>8, <3>1, EndsHold
  <2> QED BY <2>3, <2>9
<1> QED BY <1>2, <1>3

\* What bash shows of its buffer has every whole line of both ends.
LEMMA ClipHonest ==
    ASSUME text \in Seq(Bytes), Holds(buf, Len(text))
    PROVE  Honest(ClipMiddle(buf).shown)
<1> DEFINE n == Len(text)
<1>1. n \in Nat /\ Limit \in Nat \ {0} /\ Half \in Nat /\ 2 * Half <= Limit
  BY Sizes, LenProperties
<1>2. buf \in Seq(1..n) /\ Rising(buf) /\ Len(buf) \in Nat /\ DOMAIN buf = 1..Len(buf)
  BY LenProperties DEF Holds
<1> HIDE DEF n
<1>0. Holds(buf, n)
  BY DEF n
<1>3. CASE Len(buf) <= Limit
  <2>1. ClipMiddle(buf).shown = buf
    BY <1>3 DEF ClipMiddle
  <2>2. ASSUME NEW p \in 1..n, Wanted(p) PROVE p \in Positions(buf)
    <3>1. CASE Len(buf) = n /\ \A i \in 1..n : buf[i] = i
      BY <1>2, <3>1 DEF Positions
    <3>2. CASE /\ Len(buf) >= 2 * Half /\ n > Limit
               /\ \A i \in 1..Half : buf[i] = i
               /\ \A i \in 1..Half : buf[Len(buf) - Half + i] = n - Half + i
      <4>1. p \in 1..Half \/ p \in n - Half + 1..n
        BY <1>1, <2>2, <3>2 DEF Wanted, n
      <4>2. CASE p \in 1..Half
        <5>1. p \in 1..Len(buf) /\ buf[p] = p
          BY <1>1, <1>2, <3>2, <4>2
        <5> QED BY <1>2, <5>1 DEF Positions
      <4>3. CASE p \in n - Half + 1..n
        <5> DEFINE i == p - n + Half
        <5>1. i \in 1..Half /\ n - Half + i = p
          BY <1>1, <4>3
        <5> HIDE DEF i
        <5>2. Len(buf) - Half + i \in 1..Len(buf)
          BY <1>1, <1>2, <3>2, <5>1
        <5>3. buf[Len(buf) - Half + i] = p
          BY <3>2, <5>1
        <5> QED BY <1>2, <5>2, <5>3 DEF Positions
      <4> QED BY <4>1, <4>2, <4>3
    <3> QED BY <1>0, <3>1, <3>2 DEF Holds
  <2>3. Honest(buf)
    BY <1>2, <1>3, <2>2 DEF Honest, n
  <2> QED BY <2>1, <2>3
<1>4. CASE ~(Len(buf) <= Limit)
  <2>1. n > Limit
    BY <1>0, <1>1, <1>2, <1>4, OverLimit
  <2> DEFINE h == CutBack(SubSeq(buf, 1, Half))
             t == CutForward(SubSeq(buf, Len(buf) - Half + 1, Len(buf)))
             u == h \o t
  <2>2. ClipMiddle(buf).shown = u
    <3>1. ClipMiddle(buf) = [shown |-> u, said |-> TRUE]
      BY <1>4 DEF ClipMiddle
    <3> HIDE DEF u
    <3> QED BY <3>1
  <2>3. /\ h \in Seq(1..n) /\ Rising(h) /\ Len(h) <= Half
        /\ \A i \in 1..Len(h) : h[i] <= Half
        /\ \A p \in 1..Half : text[p] = "byte" /\ (\E q \in p..Half : text[q] = "newline")
             => p \in Positions(h)
    BY <1>1, <1>0, <2>1, HeadKept
  <2>4. /\ t \in Seq(1..n) /\ Rising(t) /\ Len(t) <= Half
        /\ \A i \in 1..Len(t) : t[i] > n - Half
        /\ \A p \in 1..n : text[p] = "byte" /\ (\E q \in n - Half + 1..p : text[q] = "newline")
             => p \in Positions(t)
    BY <1>1, <1>0, <2>1, TailKept
  <2> HIDE DEF h, t
  <2>5. \A i \in 1..Len(h), j \in 1..Len(t) : h[i] < t[j]
    <3>1. ASSUME NEW i \in 1..Len(h), NEW j \in 1..Len(t) PROVE h[i] < t[j]
      <4>1. h[i] \in 1..n /\ t[j] \in 1..n /\ h[i] <= Half /\ t[j] > n - Half
        BY <2>3, <2>4, ElementOfSeq
      <4> QED BY <1>1, <2>1, <4>1
    <3> QED BY <3>1
  <2>6. /\ u \in Seq(1..n) /\ Rising(u) /\ Len(u) = Len(h) + Len(t)
        /\ Positions(u) = Positions(h) \cup Positions(t)
    BY <1>1, <2>3, <2>4, <2>5, Joins
  <2> HIDE DEF u
  <2>7. Len(u) <= Limit
    <3>1. Len(h) \in Nat /\ Len(t) \in Nat
      BY <2>3, <2>4, LenProperties
    <3> QED BY <1>1, <2>3, <2>4, <2>6, <3>1
  <2>8. ASSUME NEW p \in 1..n, Wanted(p) PROVE p \in Positions(u)
    <3>1. CASE \E q \in p..Half : text[q] = "newline"
      <4>1. p \in 1..Half /\ text[p] = "byte"
        BY <1>1, <2>8, <3>1 DEF Wanted
      <4> QED BY <2>3, <2>6, <3>1, <4>1
    <3>2. CASE \E q \in n - Half + 1..p : text[q] = "newline"
      <4>1. text[p] = "byte"
        BY <2>8 DEF Wanted
      <4> QED BY <2>4, <2>6, <3>2, <4>1
    <3> QED BY <1>1, <2>1, <2>8, <3>1, <3>2 DEF Wanted, n
  <2>9. Honest(u)
    BY <2>6, <2>7, <2>8 DEF Honest, n
  <2> QED BY <2>2, <2>9
<1> QED BY <1>3, <1>4

\* Trailing newlines are not missed.
LEMMA TrimHonest ==
    ASSUME text \in Seq(Bytes), NEW s, Honest(s)
    PROVE  Honest(TrimRight(s))
<1> DEFINE n == Len(text)
<1>1. n \in Nat /\ s \in Seq(1..n) /\ Rising(s) /\ Len(s) \in Nat /\ DOMAIN s = 1..Len(s) /\ Limit \in Nat
  BY Sizes, LenProperties DEF Honest
<1> HIDE DEF n
<1>2. PICK k \in 0..Len(s) : /\ TrimRight(s) = SubSeq(s, 1, k)
                             /\ \A i \in 1..Len(s) : i \notin Newlines(s) => i <= k
  BY <1>1, TrimRightIs
<1> DEFINE t == TrimRight(s)
<1>3. k \in Nat /\ t = SubSeq(s, 1, k)
  BY <1>1, <1>2
<1> HIDE DEF t
<1>4. /\ t \in Seq(1..n) /\ Rising(t) /\ Len(t) = k /\ DOMAIN t = 1..k
      /\ \A i \in 1..k : t[i] = s[i]
  BY <1>1, <1>3, Initial
<1>5. ASSUME NEW p \in 1..n, Wanted(p) PROVE p \in Positions(t)
  <2>1. PICK i \in 1..Len(s) : s[i] = p
    BY <1>1, <1>5 DEF Honest, Positions, n
  <2>2. i \notin Newlines(s)
    BY <1>5, <2>1 DEF Newlines, Wanted
  <2>3. i \in 1..k
    BY <1>2, <1>3, <2>2
  <2> QED BY <1>4, <2>1, <2>3 DEF Positions
<1>6. Len(t) <= Limit
  BY <1>1, <1>3, <1>4 DEF Honest
<1> QED BY <1>4, <1>5, <1>6 DEF Honest, n, t

\* Honest is what EndsKept asks of a bash result.
LEMMA HonestEnds ==
    ASSUME view.of = "bash", Honest(view.shown)
    PROVE  EndsKept
<1>1. DOMAIN view.shown = 1..Len(view.shown)
  BY LenProperties DEF Honest
<1> QED BY <1>1 DEF EndsKept, Honest, Rising, Wanted, Shows

\* The newlines before a position.
Before(p) == {q \in 1..p - 1 : text[q] = "newline"}

\* They are finitely many, and more of them the further the position.
LEMMA BeforeIs ==
    ASSUME NEW p \in Nat
    PROVE  /\ IsFiniteSet(Before(p)) /\ Cardinality(Before(p)) \in Nat
           /\ LineOf(p) = 1 + Cardinality(Before(p)) /\ LineOf(p) \in Nat \ {0}
<1>1. IsFiniteSet(1..p - 1) /\ Before(p) \in SUBSET (1..p - 1)
  BY FS_Interval DEF Before
<1>2. IsFiniteSet(Before(p)) /\ Cardinality(Before(p)) \in Nat
  BY <1>1, FS_Subset, FS_CardinalityType
<1>3. LineOf(p) = 1 + Cardinality(Before(p))
  BY DEF LineOf, Before
<1> QED BY <1>2, <1>3

\* Lines are numbered from one.
LEMMA FirstLine == LineOf(1) = 1
<1>1. Before(1) = {}
  BY DEF Before
<1> QED BY <1>1, BeforeIs, FS_EmptySet

\* A line ends with its newline, and nowhere else.
LEMMA NextLine ==
    ASSUME NEW p \in Nat \ {0}
    PROVE  LineOf(p + 1) = IF text[p] = "newline" THEN LineOf(p) + 1 ELSE LineOf(p)
<1>1. p \in Nat /\ p + 1 \in Nat /\ p \notin 1..p - 1
  OBVIOUS
<1>2. /\ IsFiniteSet(Before(p)) /\ Cardinality(Before(p)) \in Nat
      /\ LineOf(p) = 1 + Cardinality(Before(p)) /\ LineOf(p + 1) = 1 + Cardinality(Before(p + 1))
  BY <1>1, BeforeIs
<1>3. CASE text[p] = "newline"
  <2>1. Before(p + 1) = Before(p) \cup {p} /\ p \notin Before(p)
    BY <1>3 DEF Before
  <2>2. Cardinality(Before(p + 1)) = Cardinality(Before(p)) + 1
    BY <1>2, <2>1, FS_AddElement
  <2> QED BY <1>2, <1>3, <2>2
<1>4. CASE text[p] # "newline"
  <2>1. Before(p + 1) = Before(p)
    BY <1>4 DEF Before
  <2> QED BY <1>2, <1>4, <2>1
<1> QED BY <1>3, <1>4

\* A later position is on no earlier line.
LEMMA LinesRise ==
    ASSUME NEW p \in Nat, NEW r \in Nat, p <= r
    PROVE  LineOf(p) <= LineOf(r)
<1>1. Before(p) \in SUBSET Before(r)
  BY DEF Before
<1>2. Cardinality(Before(p)) <= Cardinality(Before(r))
  BY <1>1, BeforeIs, FS_Subset
<1> QED BY <1>2, BeforeIs

\* The file without its last newline, and its lines.
LEMMA FileIs ==
    ASSUME text \in Seq(Bytes)
    PROVE  /\ Len(text) \in Nat /\ Trimmed \in Nat /\ Trimmed <= Len(text)
           /\ Total \in Nat \ {0} /\ Total = LineOf(Trimmed + 1)
           /\ \A p \in 1..Trimmed + 1 : LineOf(p) \in 1..Total
<1>1. Len(text) \in Nat /\ (text # <<>> => Len(text) \in Nat \ {0})
  BY EmptySeq
<1>2. Trimmed \in Nat /\ Trimmed <= Len(text)
  BY <1>1 DEF Trimmed
<1>3. Total = LineOf(Trimmed + 1)
  BY <1>2 DEF Total, LineOf
<1>4. ASSUME NEW p \in 1..Trimmed + 1 PROVE LineOf(p) \in 1..Total
  <2>1. p \in Nat /\ Trimmed + 1 \in Nat /\ p <= Trimmed + 1
    BY <1>2
  <2>2. LineOf(p) \in Nat \ {0} /\ LineOf(Trimmed + 1) \in Nat \ {0} /\ LineOf(p) <= LineOf(Trimmed + 1)
    BY <2>1, BeforeIs, LinesRise
  <2> QED BY <1>3, <2>2
<1>5. LineOf(Trimmed + 1) \in Nat \ {0}
  <2>1. Trimmed + 1 \in Nat
    BY <1>2
  <2> QED BY <2>1, BeforeIs
<1> QED BY <1>1, <1>2, <1>3, <1>4, <1>5

\* Every line has a first position, and what precedes it is of earlier lines.
LEMMA StartIs ==
    ASSUME text \in Seq(Bytes), NEW l \in 1..Total
    PROVE  /\ StartOf(l) \in 1..Trimmed + 1 /\ LineOf(StartOf(l)) = l
           /\ \A p \in 1..Trimmed + 1 : p < StartOf(l) => LineOf(p) < l
           /\ \A p \in 1..Trimmed + 1 : LineOf(p) >= l => StartOf(l) <= p
           /\ l > 1 => StartOf(l) > 1 /\ text[StartOf(l) - 1] = "newline"
<1>1. Trimmed \in Nat /\ Total \in Nat /\ Total = LineOf(Trimmed + 1)
      /\ (\A p \in 1..Trimmed + 1 : LineOf(p) \in 1..Total) /\ l \in Nat
  BY FileIs
<1> DEFINE T == {p \in 1..Trimmed + 1 : LineOf(p) >= l}
<1>2. T \subseteq Nat /\ T # {}
  <2>1. Trimmed + 1 \in T
    BY <1>1
  <2> QED BY <2>1
<1>3. PICK s \in T : \A p \in T : s <= p
  BY <1>2, LeastIs
<1>4. s \in 1..Trimmed + 1 /\ LineOf(s) >= l /\ LineOf(s) \in Nat
  BY <1>1, <1>3
<1>5. ASSUME NEW p \in 1..Trimmed + 1, p < s PROVE LineOf(p) < l
  <2>1. p \notin T
    BY <1>3, <1>5
  <2>2. ~(LineOf(p) >= l) /\ LineOf(p) \in Nat
    BY <1>1, <2>1
  <2> QED BY <1>1, <2>2
<1> HIDE DEF T
<1>6. LineOf(s) = l /\ (l > 1 => s > 1 /\ text[s - 1] = "newline")
  <2>1. CASE s = 1
    BY <1>1, <1>4, <2>1, FirstLine
  <2>2. CASE s # 1
    <3>1. s - 1 \in 1..Trimmed + 1 /\ s - 1 < s /\ s - 1 \in Nat \ {0} /\ s - 1 + 1 = s
      BY <1>1, <1>4, <2>2
    <3>2. LineOf(s - 1) < l /\ LineOf(s - 1) \in Nat
      BY <1>1, <1>5, <3>1
    <3>3. LineOf(s) = IF text[s - 1] = "newline" THEN LineOf(s - 1) + 1 ELSE LineOf(s - 1)
      <4> DEFINE r == s - 1
      <4>1. r \in Nat \ {0} /\ r + 1 = s
        BY <3>1
      <4> HIDE DEF r
      <4>2. LineOf(r + 1) = IF text[r] = "newline" THEN LineOf(r) + 1 ELSE LineOf(r)
        BY <4>1, NextLine
      <4> QED BY <4>1, <4>2 DEF r
    <3> QED BY <1>1, <1>4, <3>1, <3>2, <3>3
  <2> QED BY <2>1, <2>2
<1>7. StartOf(l) = s
  <2> DEFINE U == {p \in 1..Trimmed + 1 : LineOf(p) = l}
  <2>1. s \in U /\ U \subseteq Nat
    BY <1>4, <1>6
  <2>2. LeastOf(U) \in U /\ \A p \in U : LeastOf(U) <= p
    BY <2>1, LeastIs
  <2>3. PICK e \in 1..Trimmed + 1 : e = LeastOf(U) /\ LineOf(e) = l /\ e <= s
    BY <2>1, <2>2
  <2>4. e = s
    BY <1>1, <1>4, <1>5, <2>3
  <2> QED BY <2>3, <2>4 DEF StartOf
<1>8. ASSUME NEW p \in 1..Trimmed + 1, LineOf(p) >= l PROVE s <= p
  <2>1. LineOf(p) \in Nat
    BY <1>1
  <2> QED BY <1>1, <1>4, <1>5, <1>8, <2>1
<1> QED BY <1>4, <1>5, <1>6, <1>7, <1>8

\* A line's end lies in the file, and no byte of it or of an earlier line lies behind.
LEMMA EndIs ==
    ASSUME text \in Seq(Bytes), NEW l \in 1..Total
    PROVE  /\ EndOf(l) \in Nat /\ EndOf(l) <= Trimmed
           /\ \A p \in 1..Trimmed : text[p] = "byte" /\ LineOf(p) <= l => p <= EndOf(l)
<1>1. Trimmed \in Nat /\ Total \in Nat \ {0} /\ l \in Nat
      /\ (\A p \in 1..Trimmed + 1 : LineOf(p) \in 1..Total)
  BY FileIs
<1>2. CASE l = Total
  BY <1>1, <1>2 DEF EndOf
<1>3. CASE l # Total
  <2>1. l + 1 \in 1..Total /\ l + 1 > 1
    BY <1>1, <1>3
  <2>2. PICK s \in 1..Trimmed + 1 :
          /\ s = StartOf(l + 1) /\ s > 1 /\ text[s - 1] = "newline"
          /\ \A p \in 1..Trimmed + 1 : p >= s => LineOf(p) >= l + 1
    <3>1. /\ StartOf(l + 1) \in 1..Trimmed + 1 /\ LineOf(StartOf(l + 1)) = l + 1
          /\ StartOf(l + 1) > 1 /\ text[StartOf(l + 1) - 1] = "newline"
      BY <2>1, StartIs
    <3>2. ASSUME NEW p \in 1..Trimmed + 1, p >= StartOf(l + 1) PROVE LineOf(p) >= l + 1
      <4>1. StartOf(l + 1) \in Nat /\ p \in Nat /\ StartOf(l + 1) <= p
        BY <1>1, <3>1, <3>2
      <4>2. LineOf(StartOf(l + 1)) <= LineOf(p)
        BY <4>1, LinesRise
      <4>3. LineOf(p) \in Nat
        BY <1>1
      <4> QED BY <1>1, <3>1, <4>2, <4>3
    <3> QED BY <3>1, <3>2
  <2>3. EndOf(l) = s - 2
    BY <1>3, <2>2 DEF EndOf
  <2>4. s - 2 \in Nat /\ s - 2 <= Trimmed
    BY <1>1, <2>2
  <2>5. ASSUME NEW p \in 1..Trimmed, text[p] = "byte", LineOf(p) <= l PROVE p <= s - 2
    <3>1. p \in 1..Trimmed + 1 /\ LineOf(p) \in Nat
      BY <1>1
    <3>2. ~(p >= s)
      BY <1>1, <2>2, <2>5, <3>1
    <3>3. p # s - 1
      BY <2>2, <2>5
    <3> QED BY <2>2, <3>2, <3>3
  <2> QED BY <2>3, <2>4, <2>5
<1> QED BY <1>2, <1>3

\* What ReadsPage computes for a limit.
PageEnd(limit) == IF next + Window(limit) <= Total THEN next + Window(limit) ELSE Total
PageBody(limit) == Span(StartOf(next + 1), EndOf(PageEnd(limit)))
PageCut(limit) == Len(PageBody(limit)) > MaxBytes
PageShown(limit) ==
    IF PageCut(limit) THEN CutBack(SubSeq(PageBody(limit), 1, MaxBytes)) ELSE PageBody(limit)
PageLast(limit) == Ends(PageEnd(limit), PageShown(limit), PageCut(limit))

\* A byte that PagesCover does not ask for.
Excepted(p) ==
    \/ Width(LineOf(p)) > MaxBytes
    \/ /\ Width(LineOf(p)) = MaxBytes /\ p = EndOf(LineOf(p))
       /\ LineOf(p) > 1 /\ Width(LineOf(p) - 1) = 0

\* A byte that has been shown, or is not asked for.
Done(p, shown) == p \in shown \/ Excepted(p)

\* What PagesCover says, by these names.
LEMMA CoverIs ==
    PagesCover <=> (tool = "read_file" =>
                      \A p \in 1..Trimmed : text[p] = "byte" /\ LineOf(p) <= next => Done(p, seen))
BY DEF PagesCover, Done, Excepted

\* One page, by the names above.
LEMMA PageStep ==
    ASSUME ReadsPage
    PROVE  \E limit \in 0..MaxLines :
             /\ view' = [of |-> "read_file", shown |-> PageShown(limit),
                         said |-> PageCut(limit) \/ PageLast(limit) < Total]
             /\ next' = PageLast(limit)
             /\ seen' = seen \cup Positions(PageShown(limit))
BY DEF ReadsPage, PageEnd, PageBody, PageCut, PageShown, PageLast

\* A page covers whole lines of the file, from the one the reader asked for on.
LEMMA BodyIs ==
    ASSUME text \in Seq(Bytes), next \in Nat, next < Total, NEW limit \in 0..MaxLines
    PROVE  /\ PageEnd(limit) \in 1..Total /\ PageEnd(limit) > next
           /\ PageBody(limit) \in Seq(1..Len(text)) /\ Rising(PageBody(limit))
           /\ Len(PageBody(limit)) \in Nat /\ DOMAIN PageBody(limit) = 1..Len(PageBody(limit))
           /\ \A i \in 1..Len(PageBody(limit)) : PageBody(limit)[i] = StartOf(next + 1) + i - 1
           /\ EndOf(PageEnd(limit)) \in Nat /\ EndOf(PageEnd(limit)) <= Trimmed
           /\ EndOf(PageEnd(limit)) - StartOf(next + 1) + 1 <= Len(PageBody(limit))
           /\ Len(PageBody(limit)) > 0 =>
                Len(PageBody(limit)) = EndOf(PageEnd(limit)) - StartOf(next + 1) + 1
<1>1. Trimmed \in Nat /\ Total \in Nat \ {0} /\ Len(text) \in Nat /\ Trimmed <= Len(text)
  BY FileIs
<1>2. Window(limit) \in Nat \ {0}
  BY Sizes DEF Window
<1>3. PageEnd(limit) \in 1..Total /\ PageEnd(limit) > next
  BY <1>1, <1>2 DEF PageEnd
<1>4. next + 1 \in 1..Total
  BY <1>1
<1> DEFINE a == StartOf(next + 1)
           b == EndOf(PageEnd(limit))
           s == Span(a, b)
<1>5. a \in 1..Trimmed + 1
  BY <1>4, StartIs
<1>6. b \in Nat /\ b <= Trimmed
  BY <1>3, EndIs
<1>7. PageBody(limit) = s
  BY DEF PageBody
<1> HIDE DEF a, b
<1>8. a \in Nat /\ a..b \subseteq 1..Len(text)
  BY <1>1, <1>5, <1>6
<1>9. /\ s \in Seq(1..Len(text)) /\ Rising(s) /\ Len(s) = IF b < a THEN 0 ELSE b - a + 1
      /\ \A i \in 1..Len(s) : s[i] = a + i - 1
  BY <1>6, <1>8, SpanIs
<1> HIDE DEF s
<1>10. Len(s) \in Nat /\ DOMAIN s = 1..Len(s)
  BY <1>9, LenProperties
<1>11. b - a + 1 <= Len(s) /\ (Len(s) > 0 => Len(s) = b - a + 1)
  BY <1>6, <1>8, <1>9
<1> QED BY <1>3, <1>6, <1>7, <1>9, <1>10, <1>11 DEF a, b

\* The bytes of the lines asked for lie on the page.
LEMMA BodyHas ==
    ASSUME text \in Seq(Bytes), next \in Nat, next < Total, NEW limit \in 0..MaxLines,
           NEW p \in 1..Trimmed, text[p] = "byte", next < LineOf(p), LineOf(p) <= PageEnd(limit)
    PROVE  /\ p - StartOf(next + 1) + 1 \in 1..Len(PageBody(limit))
           /\ PageBody(limit)[p - StartOf(next + 1) + 1] = p
<1> DEFINE a == StartOf(next + 1)
           b == EndOf(PageEnd(limit))
           s == PageBody(limit)
<1>1. Trimmed \in Nat /\ Total \in Nat \ {0} /\ LineOf(p) \in Nat /\ p \in 1..Trimmed + 1
  BY FileIs
<1>2. next + 1 \in 1..Total /\ LineOf(p) >= next + 1
  BY <1>1
<1>3. a \in 1..Trimmed + 1 /\ a <= p
  BY <1>1, <1>2, StartIs
<1>4. /\ PageEnd(limit) \in 1..Total /\ b \in Nat /\ b - a + 1 <= Len(s) /\ Len(s) \in Nat
      /\ \A i \in 1..Len(s) : s[i] = a + i - 1
  BY BodyIs
<1>5. p <= b
  BY <1>4, EndIs
<1> HIDE DEF a, b, s
<1>6. p - a + 1 \in 1..Len(s) /\ a + (p - a + 1) - 1 = p
  BY <1>1, <1>3, <1>4, <1>5
<1>7. s[p - a + 1] = p
  BY <1>4, <1>6
<1> QED BY <1>6, <1>7 DEF a, s

\* A page that fits shows them all.
LEMMA WholePage ==
    ASSUME text \in Seq(Bytes), next \in Nat, next < Total, NEW limit \in 0..MaxLines,
           ~PageCut(limit)
    PROVE  /\ PageLast(limit) = PageEnd(limit) /\ PageShown(limit) = PageBody(limit)
           /\ \A p \in 1..Trimmed : text[p] = "byte" /\ next < LineOf(p) /\ LineOf(p) <= PageLast(limit)
                => p \in Positions(PageShown(limit))
<1>1. PageLast(limit) = PageEnd(limit) /\ PageShown(limit) = PageBody(limit)
  BY DEF PageLast, PageShown, Ends
<1>2. ASSUME NEW p \in 1..Trimmed, text[p] = "byte", next < LineOf(p), LineOf(p) <= PageEnd(limit)
      PROVE  p \in Positions(PageBody(limit))
  <2>1. /\ p - StartOf(next + 1) + 1 \in 1..Len(PageBody(limit))
        /\ PageBody(limit)[p - StartOf(next + 1) + 1] = p
    BY <1>2, BodyHas
  <2>2. DOMAIN PageBody(limit) = 1..Len(PageBody(limit))
    BY BodyIs
  <2> QED BY <2>1, <2>2 DEF Positions
<1> QED BY <1>1, <1>2

\* As many newlines among consecutive positions as lines between them.
LEMMA LinesBetween ==
    ASSUME NEW a \in Nat \ {0}, NEW k \in Nat, NEW s, DOMAIN s = 1..k,
           \A i \in 1..k : s[i] = a + i - 1
    PROVE  /\ IsFiniteSet(Newlines(s)) /\ Cardinality(Newlines(s)) \in Nat
           /\ LineOf(a + k) = LineOf(a) + Cardinality(Newlines(s))
<1> DEFINE N == Newlines(s)
           M == {q \in a..a + k - 1 : text[q] = "newline"}
           f == [i \in N |-> a + i - 1]
<1>1. N = {i \in 1..k : text[a + i - 1] = "newline"}
  BY DEF Newlines
<1>2. IsFiniteSet(1..k) /\ N \in SUBSET (1..k)
  BY <1>1, FS_Interval
<1>3. IsFiniteSet(N) /\ Cardinality(N) \in Nat
  BY <1>2, FS_Subset, FS_CardinalityType
<1> HIDE DEF N
<1>4. f \in [N -> M]
  BY <1>1
<1>5. \A i, j \in N : f[i] = f[j] => i = j
  BY <1>1
<1>6. ASSUME NEW q \in M PROVE \E i \in N : f[i] = q
  <2>1. q - a + 1 \in 1..k /\ a + (q - a + 1) - 1 = q
    OBVIOUS
  <2>2. q - a + 1 \in N
    BY <1>1, <2>1
  <2> QED BY <2>1, <2>2
<1>7. f \in Bijection(N, M)
  <2>1. DOMAIN f = N
    OBVIOUS
  <2> HIDE DEF f, M
  <2> QED BY <1>4, <1>5, <1>6, <2>1 DEF Bijection, Injection, Surjection, IsInjective
<1>8. IsFiniteSet(M) /\ Cardinality(M) = Cardinality(N)
  BY <1>3, <1>7, FS_Bijection DEF ExistsBijection
<1>9. Before(a + k) = Before(a) \cup M /\ Before(a) \cap M = {}
  BY DEF Before
<1> HIDE DEF M
<1>10. a \in Nat /\ a + k \in Nat
  OBVIOUS
<1>11. Cardinality(Before(a + k)) = Cardinality(Before(a)) + Cardinality(M) - Cardinality({})
  <2>1. IsFiniteSet(Before(a))
    BY <1>10, BeforeIs
  <2>2. Cardinality(Before(a) \cup M) =
          Cardinality(Before(a)) + Cardinality(M) - Cardinality(Before(a) \cap M)
    BY <1>8, <2>1, FS_Union
  <2> QED BY <1>9, <2>2
<1>12. Cardinality(Before(a + k)) = Cardinality(Before(a)) + Cardinality(N)
  BY <1>3, <1>8, <1>10, <1>11, BeforeIs, FS_EmptySet
<1>13. LineOf(a + k) = LineOf(a) + Cardinality(N)
  BY <1>3, <1>10, <1>12, BeforeIs
<1> QED BY <1>3, <1>13 DEF N

\* A page cut at MaxBytes ends with a whole line, or has no newline but a first
\* byte that is one: what is left out then is of a line that does not fit, or is
\* the last byte of one that fits exactly and follows an empty line. The next
\* offset names the line after the last one shown.
LEMMA CutPage ==
    ASSUME text \in Seq(Bytes), next \in Nat, next < Total, NEW limit \in 0..MaxLines,
           PageCut(limit)
    PROVE  /\ PageLast(limit) \in Nat /\ PageShown(limit) \in Seq(1..Len(text))
           /\ \A p \in 1..Trimmed : text[p] = "byte" /\ next < LineOf(p) /\ LineOf(p) <= PageLast(limit)
                => Done(p, Positions(PageShown(limit)))
<1> DEFINE a == StartOf(next + 1)
           s == PageBody(limit)
           h == SubSeq(s, 1, MaxBytes)
           n == Len(text)
<1>1. /\ Trimmed \in Nat /\ Total \in Nat \ {0} /\ n \in Nat /\ MaxBytes \in Nat \ {0}
      /\ \A p \in 1..Trimmed + 1 : LineOf(p) \in 1..Total
  BY FileIs, Sizes
<1>2. next + 1 \in 1..Total
  BY <1>1
<1>3. a \in 1..Trimmed + 1 /\ LineOf(a) = next + 1 /\ a \in Nat \ {0}
  BY <1>1, <1>2, StartIs
<1>4. /\ s \in Seq(1..n) /\ Rising(s) /\ Len(s) \in Nat /\ Len(s) > MaxBytes
      /\ \A i \in 1..Len(s) : s[i] = a + i - 1
      /\ Len(s) = EndOf(PageEnd(limit)) - a + 1
      /\ EndOf(PageEnd(limit)) \in Nat /\ EndOf(PageEnd(limit)) <= Trimmed
      /\ PageEnd(limit) \in 1..Total
  BY <1>1, BodyIs DEF PageCut
<1>5. PageShown(limit) = CutBack(h)
  BY DEF PageShown
<1> HIDE DEF a, s, n
<1>6. h \in Seq(1..n) /\ Rising(h) /\ Len(h) = MaxBytes /\ \A i \in 1..MaxBytes : h[i] = a + i - 1
  <2>1. MaxBytes \in 0..Len(s)
    BY <1>1, <1>4
  <2>2. /\ h \in Seq(1..n) /\ Rising(h) /\ Len(h) = MaxBytes
        /\ \A i \in 1..MaxBytes : h[i] = s[i]
    BY <1>1, <1>4, <2>1, Initial
  <2>3. ASSUME NEW i \in 1..MaxBytes PROVE h[i] = a + i - 1
    <3>1. i \in 1..Len(s)
      BY <1>1, <1>4
    <3> QED BY <1>4, <2>2, <3>1
  <2> QED BY <2>2, <2>3
<1> HIDE DEF h
<1>7. DOMAIN h = 1..MaxBytes /\ Newlines(h) = {i \in 1..MaxBytes : text[a + i - 1] = "newline"}
  <2>1. DOMAIN h = 1..MaxBytes
    BY <1>6, LenProperties
  <2> QED BY <1>6, <2>1 DEF Newlines
<1>8. PICK k \in 0..MaxBytes :
        /\ CutBack(h) = SubSeq(h, 1, k)
        /\ \/ k = MaxBytes /\ \A i \in Newlines(h) : i <= 1
           \/ k \in 1..MaxBytes - 1 /\ k + 1 \in Newlines(h) /\ \A i \in Newlines(h) : i <= k + 1
  BY <1>1, <1>6, CutBackIs
<1> DEFINE u == PageShown(limit)
<1>9. /\ u \in Seq(1..n) /\ Len(u) = k /\ \A i \in 1..k : u[i] = a + i - 1
      /\ Positions(u) = a..a + k - 1
  <2>1. u = SubSeq(h, 1, k) /\ k \in Nat /\ k <= MaxBytes
    BY <1>1, <1>5, <1>8
  <2>2. k \in 0..Len(h)
    BY <1>1, <1>6, <2>1
  <2> HIDE DEF u
  <2>3. /\ u \in Seq(1..n) /\ Len(u) = k /\ DOMAIN u = 1..k
        /\ \A i \in 1..k : u[i] = h[i]
    <3> DEFINE v == SubSeq(h, 1, k)
    <3>1. h \in Seq(1..n) /\ Rising(h) /\ n \in Nat
      BY <1>1, <1>6
    <3>2. /\ v \in Seq(1..n) /\ Len(v) = k /\ DOMAIN v = 1..k
          /\ \A i \in 1..k : v[i] = h[i]
      BY <2>2, <3>1, Initial
    <3>3. u = v
      BY <2>1
    <3> HIDE DEF v
    <3> QED BY <3>2, <3>3
  <2>4. ASSUME NEW i \in 1..k PROVE u[i] = a + i - 1 /\ h[i] = a + i - 1
    <3>1. i \in 1..MaxBytes
      BY <1>1, <2>1
    <3> QED BY <1>6, <2>3, <3>1
  <2>5. ASSUME NEW x \in a..a + k - 1 PROVE x \in Positions(u)
    <3>1. x - a + 1 \in 1..k /\ a + (x - a + 1) - 1 = x
      BY <1>3, <2>1
    <3>2. u[x - a + 1] = x
      BY <2>4, <3>1
    <3> QED BY <2>3, <3>1, <3>2 DEF Positions
  <2>6. ASSUME NEW x \in Positions(u) PROVE x \in a..a + k - 1
    <3>1. PICK i \in 1..k : x = u[i]
      BY <2>3, <2>6 DEF Positions
    <3>2. u[i] = a + i - 1
      BY <2>4
    <3> QED BY <1>3, <2>1, <3>1, <3>2
  <2> QED BY <2>1, <2>2, <2>3, <2>4, <2>5, <2>6
<1> HIDE DEF u
<1>10. DOMAIN u = 1..k /\ k \in Nat
  BY <1>8, <1>9, LenProperties
<1> DEFINE c == Cardinality(Newlines(u))
<1>11. c \in Nat /\ LineOf(a + k) = LineOf(a) + c
  BY <1>3, <1>9, <1>10, LinesBetween
<1>12. PageLast(limit) = next + 1 + c
  BY DEF PageLast, Ends, u
<1> HIDE DEF c
<1>13. LineOf(a + k) = PageLast(limit) /\ PageLast(limit) \in Nat
  BY <1>3, <1>11, <1>12
<1>14. ASSUME NEW p \in 1..Trimmed, text[p] = "byte", next < LineOf(p), LineOf(p) <= PageLast(limit)
       PROVE  Done(p, Positions(u))
  <2>1. p \in Nat /\ p \in 1..Trimmed + 1 /\ LineOf(p) \in 1..Total
    BY <1>1
  <2>2. a <= p
    BY <1>1, <1>2, <1>14, <2>1, StartIs DEF a
  <2>3. CASE p < a + k
    <3>1. p \in a..a + k - 1
      BY <1>3, <1>10, <2>1, <2>2, <2>3
    <3> QED BY <1>9, <3>1 DEF Done
  <2>4. CASE p >= a + k /\ k \in 1..MaxBytes - 1 /\ k + 1 \in Newlines(h)
    <3> DEFINE r == a + k
    <3>1. r \in Nat \ {0} /\ text[r] = "newline"
      <4>1. text[a + (k + 1) - 1] = "newline" /\ a + (k + 1) - 1 = a + k
        BY <1>3, <1>7, <1>10, <2>4
      <4> QED BY <1>3, <1>10, <4>1
    <3>2. p # r /\ p >= r /\ LineOf(r) = PageLast(limit)
      BY <1>13, <1>14, <2>4, <3>1
    <3> HIDE DEF r
    <3>3. LineOf(r + 1) = LineOf(r) + 1
      BY <3>1, NextLine
    <3>4. r + 1 \in Nat /\ r + 1 <= p
      BY <2>1, <3>1, <3>2
    <3>5. LineOf(r + 1) <= LineOf(p)
      BY <2>1, <3>4, LinesRise
    <3> QED BY <1>1, <1>13, <1>14, <2>1, <3>2, <3>3, <3>5
  <2>5. CASE p >= a + MaxBytes /\ k = MaxBytes /\ \A i \in Newlines(h) : i <= 1
    <3> DEFINE l == LineOf(p)
    <3>1. l \in 1..Total /\ l \in Nat /\ p <= EndOf(l) /\ EndOf(l) \in Nat
      BY <1>1, <1>14, <2>1, EndIs
    <3>2. StartOf(l) \in Nat
      <4>1. StartOf(l) \in 1..Trimmed + 1
        BY <3>1, StartIs
      <4> QED BY <1>1, <4>1
    <3>3. ASSUME NEW i \in 2..MaxBytes PROVE text[a + i - 1] # "newline"
      <4>1. i \in 1..MaxBytes /\ ~(i <= 1)
        BY <1>1
      <4>2. i \notin Newlines(h)
        BY <2>5, <4>1
      <4> QED BY <1>7, <4>1, <4>2
    <3>4. Newlines(u) = IF text[a] = "newline" THEN {1} ELSE {}
      <4>1. Newlines(u) = {i \in 1..MaxBytes : text[a + i - 1] = "newline"}
        BY <1>9, <1>10, <2>5 DEF Newlines
      <4>2. 1 \in 1..MaxBytes /\ a + 1 - 1 = a
        BY <1>1, <1>3
      <4>3. \A i \in 1..MaxBytes : i = 1 \/ i \in 2..MaxBytes
        BY <1>1
      <4> QED BY <3>3, <4>1, <4>2, <4>3
    <3>5. c = IF text[a] = "newline" THEN 1 ELSE 0
      BY <3>4, FS_Singleton, FS_EmptySet DEF c
    <3>6. CASE text[a] # "newline"
      <4>1. l = next + 1
        BY <1>12, <1>14, <3>1, <3>5, <3>6
      <4>2. Width(l) >= MaxBytes + 1
        BY <1>1, <1>3, <2>1, <2>5, <3>1, <4>1 DEF Width, a
      <4> QED BY <1>1, <1>3, <2>1, <2>5, <3>1, <3>2, <4>1, <4>2 DEF Done, Excepted, Width
    <3>7. CASE text[a] = "newline"
      <4>1. a + 1 \in 1..Trimmed + 1 /\ a + 1 \in Nat /\ a + 1 <= p
        BY <1>1, <1>3, <2>1, <2>5
      <4>2. LineOf(a + 1) = next + 2
        <5>1. LineOf(a + 1) = LineOf(a) + 1
          BY <1>3, <3>7, NextLine
        <5> QED BY <1>3, <5>1
      <4>3. l = next + 2
        <5>1. LineOf(a + 1) <= l
          BY <2>1, <4>1, LinesRise
        <5> QED BY <1>12, <1>14, <3>1, <3>5, <3>7, <4>2, <5>1
      <4>4. StartOf(l) = a + 1
        <5>1. StartOf(l) <= a + 1 /\ LineOf(StartOf(l)) = l /\ StartOf(l) \in 1..Trimmed + 1
          BY <3>1, <4>1, <4>2, <4>3, StartIs
        <5>2. ~(StartOf(l) <= a)
          <6>1. ASSUME StartOf(l) <= a PROVE LineOf(StartOf(l)) <= LineOf(a)
            BY <1>1, <1>3, <3>2, <5>1, <6>1, LinesRise
          <6> QED BY <1>3, <4>3, <5>1, <6>1
        <5> QED BY <1>3, <3>2, <5>1, <5>2
      <4>5. Width(l) = EndOf(l) - a
        BY <1>3, <3>1, <4>4 DEF Width
      <4>6. CASE EndOf(l) - a > MaxBytes
        BY <4>5, <4>6 DEF Done, Excepted
      <4>7. CASE ~(EndOf(l) - a > MaxBytes)
        <5>1. EndOf(l) - a = MaxBytes /\ p = EndOf(l)
          BY <1>1, <1>3, <2>1, <2>5, <3>1, <4>7
        <5>2. l - 1 = next + 1 /\ l - 1 # Total /\ l - 1 + 1 = l /\ l > 1
          BY <1>1, <3>1, <4>3
        <5>3. EndOf(l - 1) = a - 1
          BY <1>3, <4>4, <5>2 DEF EndOf
        <5>4. Width(l - 1) = 0
          BY <1>3, <5>2, <5>3 DEF Width, a
        <5> QED BY <4>5, <5>1, <5>2, <5>4 DEF Done, Excepted
      <4> QED BY <4>6, <4>7
    <3> QED BY <3>6, <3>7
  <2> QED BY <1>1, <1>3, <1>8, <1>10, <2>1, <2>3, <2>4, <2>5
<1> QED BY <1>9, <1>13, <1>14 DEF u, n

\* Everything there is.
LEMMA AllIs ==
    ASSUME NEW m \in Nat
    PROVE  LET all == Span(1, m)
           IN  /\ all \in Seq(1..m) /\ Len(all) = m /\ Rising(all) /\ DOMAIN all = 1..m
               /\ \A i \in 1..m : all[i] = i
<1> DEFINE a == 1
           s == Span(a, m)
           S == 1..m
<1>1. a \in Nat /\ a..m \subseteq S /\ \A i \in 1..m : a + i - 1 = i
  OBVIOUS
<1> HIDE DEF a, S
<1>2. /\ s \in Seq(S) /\ Len(s) = IF m < a THEN 0 ELSE m - a + 1
      /\ Rising(s) /\ \A i \in 1..Len(s) : s[i] = a + i - 1
  BY <1>1, SpanIs
<1> HIDE DEF s
<1>3. Len(s) = m
  BY <1>1, <1>2 DEF a
<1>4. DOMAIN s = 1..m
  BY <1>2, <1>3, LenProperties
<1> QED BY <1>1, <1>2, <1>3, <1>4 DEF a, s, S

\* A log that is shown unclipped has every line it was asked for.
LEMMA LogWhole ==
    ASSUME text \in Seq(Bytes), NEW n \in Nat \ {0}, ~ClipMiddle(LastLines(n)).said,
           NEW p \in 1..Len(text), text[p] = "byte",
           Cardinality({q \in p..Len(text) - 1 : text[q] = "newline"}) < n
    PROVE  p \in Positions(ClipMiddle(LastLines(n)).shown)
<1> DEFINE m == Len(text)
           all == Span(1, m)
           body == TrimRight(all)
           ends == {x \in Newlines(all) : x < m}
           older == {x \in ends : Cardinality({q \in ends : q >= x}) >= n}
           start == IF older = {} THEN 1 ELSE LastOf(older) + 1
           shown == SubSeq(body, start, Len(body))
           rest == {q \in p..m - 1 : text[q] = "newline"}
<1>1. m \in Nat /\ p \in 1..m
  OBVIOUS
<1>2. LastLines(n) = shown
  BY DEF LastLines
<1>3. Cardinality(rest) < n
  OBVIOUS
<1> HIDE DEF m
<1>4. /\ all \in Seq(1..m) /\ Len(all) = m /\ Rising(all) /\ DOMAIN all = 1..m
      /\ \A i \in 1..m : all[i] = i
  BY <1>1, AllIs
<1> HIDE DEF all
<1>5. Newlines(all) = {i \in 1..m : text[i] = "newline"}
  BY <1>4 DEF Newlines
<1>6. PICK k \in 0..Len(all) :
        body = SubSeq(all, 1, k) /\ \A i \in 1..Len(all) : i \notin Newlines(all) => i <= k
  BY <1>1, <1>4, TrimRightIs
<1>7. k \in Nat /\ k <= m /\ p <= k
  BY <1>1, <1>4, <1>5, <1>6
<1> HIDE DEF body
<1>8. /\ body \in Seq(1..m) /\ Rising(body) /\ Len(body) = k
      /\ \A i \in 1..k : body[i] = i
  <2>1. /\ body \in Seq(1..m) /\ Rising(body) /\ Len(body) = k
        /\ \A i \in 1..k : body[i] = all[i]
    BY <1>1, <1>4, <1>6, Initial
  <2> QED BY <1>4, <1>7, <2>1
<1>9. start \in Nat \ {0} /\ start <= p
  <2>1. CASE older = {}
    BY <1>1, <2>1
  <2>2. CASE older # {}
    <3>1. ends \subseteq 1..m - 1 /\ older \subseteq 0..m
      BY <1>1, <1>5
    <3>2. PICK e \in older : e = LastOf(older)
      BY <1>1, <2>2, <3>1, LastIs
    <3>3. e \in 1..m - 1 /\ Cardinality({q \in ends : q >= e}) >= n
      BY <3>1, <3>2
    <3>4. ASSUME e >= p PROVE FALSE
      <4> DEFINE late == {q \in ends : q >= e}
      <4>1. late \in SUBSET rest
        BY <1>1, <1>5, <3>1, <3>3, <3>4
      <4> HIDE DEF late, rest
      <4>2. IsFiniteSet(rest)
        <5>1. IsFiniteSet(p..m - 1)
          <6>1. p \in Int /\ m - 1 \in Int
            BY <1>1
          <6> QED BY <6>1, FS_Interval
        <5>2. rest \in SUBSET (p..m - 1)
          BY DEF rest
        <5> QED BY <5>1, <5>2, FS_Subset
      <4>3. Cardinality(late) <= Cardinality(rest) /\ Cardinality(rest) \in Nat /\ Cardinality(late) \in Nat
        BY <4>1, <4>2, FS_Subset, FS_CardinalityType
      <4>4. Cardinality(late) >= n
        BY <3>3 DEF late
      <4> QED BY <1>3, <4>3, <4>4
    <3>5. start = e + 1
      BY <2>2, <3>2
    <3> QED BY <1>1, <3>3, <3>4, <3>5
  <2> QED BY <2>1, <2>2
<1> HIDE DEF start
<1>10. p \in Positions(shown)
  <2>1. start \in 1..Len(body) + 1 /\ k \in 0..Len(body) /\ start <= k + 1 /\ shown = SubSeq(body, start, k)
    BY <1>1, <1>7, <1>8, <1>9
  <2> DEFINE i == p - start + 1
  <2>2. i \in 1..k - start + 1 /\ start + i - 1 = p /\ body[p] = p
    BY <1>1, <1>7, <1>8, <1>9
  <2>3. /\ shown \in Seq(1..m) /\ Len(shown) = k - start + 1
        /\ \A j \in 1..k - start + 1 : shown[j] = body[start + j - 1]
    <3> DEFINE v == SubSeq(body, start, k)
    <3>1. v \in Seq(1..m) /\ Len(v) = k - start + 1
      BY <1>1, <1>8, <2>1, Piece
    <3>2. \A j \in 1..k - start + 1 : v[j] = body[start + j - 1]
      BY <1>1, <1>8, <2>1, Piece
    <3>3. shown = v
      BY <2>1
    <3> HIDE DEF v, shown
    <3> QED BY <3>1, <3>2, <3>3
  <2> HIDE DEF i, shown
  <2>4. shown[i] = p /\ i \in 1..Len(shown)
    BY <2>2, <2>3
  <2>5. DOMAIN shown = 1..Len(shown)
    BY <2>3, LenProperties
  <2> QED BY <2>4, <2>5 DEF Positions
<1>11. ClipMiddle(shown).shown = shown
  <2> HIDE DEF shown
  <2> QED BY <1>2 DEF ClipMiddle
<1> QED BY <1>2, <1>10, <1>11

\* A page that is not cut ends with the last line of its range; if that is the
\* file's last and the file does not end with an empty line, its end is there.
LEMMA PageTold ==
    ASSUME text \in Seq(Bytes), next \in Nat, next < Total, NEW limit \in 0..MaxLines,
           ~PageCut(limit), ~(PageLast(limit) < Total),
           Trimmed # 0, text[Trimmed] # "newline"
    PROVE  Trimmed \in Positions(PageShown(limit))
<1>1. Trimmed \in Nat /\ Trimmed <= Len(text) /\ Len(text) \in Nat /\ Total \in Nat \ {0}
      /\ Total = LineOf(Trimmed + 1)
  BY FileIs
<1>2. Trimmed \in Nat \ {0} /\ Trimmed \in 1..Trimmed /\ Trimmed \in 1..Len(text)
  BY <1>1
<1>3. text[Trimmed] = "byte"
  BY <1>2, ElementOfSeq DEF Bytes
<1>4. LineOf(Trimmed) = Total
  BY <1>1, <1>2, NextLine
<1>5. PageLast(limit) = Total
  <2>1. PageLast(limit) = PageEnd(limit) /\ PageEnd(limit) \in 1..Total
    BY WholePage, BodyIs
  <2> QED BY <1>1, <2>1
<1> QED BY <1>1, <1>2, <1>3, <1>4, <1>5, WholePage

\* The matches among what head passes, and those a search keeps.
HitsOf(out) == {i \in DOMAIN Passed(out) : out[i] = "hit"}
KeptOf(out) == {i \in HitsOf(out) : Cardinality({j \in HitsOf(out) : j <= i}) <= MaxHits}

\* A search of nothing but matches that keeps all it passed on passed on all.
LEMMA SearchTold ==
    ASSUME NEW out \in Outputs, Positions(out) \subseteq {"hit"}, KeptOf(out) = HitsOf(out)
    PROVE  KeptOf(out) = DOMAIN out
<1> DEFINE hits == HitsOf(out)
           m == Len(out)
           b == IF m < 2 * MaxHits THEN m ELSE 2 * MaxHits
<1>1. out \in Seq({"hit", "note"}) /\ MaxHits \in Nat \ {0}
  BY LimitsAssumption, Sizes
<1>2. m \in Nat /\ DOMAIN out = 1..m
  BY <1>1, LenProperties
<1>3. b \in 0..m /\ (b # m => b = 2 * MaxHits)
  BY <1>1, <1>2
<1>4. \A i \in 1..m : out[i] = "hit"
  BY <1>2 DEF Positions
<1>5. DOMAIN Passed(out) = 1..b
  <2>1. Passed(out) = SubSeq(out, 1, b)
    BY DEF Passed
  <2> HIDE DEF b, m
  <2> QED BY <1>3, <2>1
<1> HIDE DEF b, m
<1>6. hits = 1..b
  BY <1>2, <1>3, <1>4, <1>5 DEF HitsOf
<1> HIDE DEF hits
<1>7. ASSUME b # m PROVE FALSE
  <2>1. b \in Nat /\ b = 2 * MaxHits /\ b \in hits
    BY <1>1, <1>2, <1>3, <1>6, <1>7
  <2>2. Cardinality({j \in hits : j <= b}) <= MaxHits
    BY <2>1 DEF KeptOf, hits
  <2>3. {j \in hits : j <= b} = 1..b
    BY <1>6, <2>1
  <2>4. Cardinality(1..b) = b
    <3> DEFINE a == 1
    <3>1. a \in Int /\ b \in Int
      BY <2>1
    <3> HIDE DEF a
    <3>2. Cardinality(a..b) = IF a > b THEN 0 ELSE b - a + 1
      BY <3>1, FS_Interval
    <3> QED BY <2>1, <3>2 DEF a
  <2>5. b <= MaxHits
    BY <2>2, <2>3, <2>4, Zenon
  <2> QED BY <1>1, <2>1, <2>5
<1> QED BY <1>2, <1>6, <1>7 DEF hits

\* The start of a path.
LEMMA PrefixIs ==
    ASSUME NEW p, p.parts \in Seq(STRING), NEW n \in 0..Len(p.parts)
    PROVE  Prefix(p, n) \in Seq(STRING) /\ Len(Prefix(p, n)) = n
<1>1. \A i \in 1..n : p.parts[i] \in STRING
  BY ElementOfSeq, LenProperties
<1>2. n \in Nat
  BY LenProperties
<1> QED BY <1>1, <1>2, SubSeqProperties DEF Prefix

\* What git lists below a directory: finitely many paths of at least one component.
LEMMA UnderIs ==
    ASSUME NEW repo \in SUBSET Paths, NEW dir \in Seq(STRING)
    PROVE  /\ IsFiniteSet(Under(repo, dir))
           /\ \A p \in Under(repo, dir) : p.parts \in Seq(STRING) /\ Len(p.parts) \in Nat \ {0}
<1> DEFINE S == {q \in repo : Len(q.parts) > Len(dir) /\ Prefix(q, Len(dir)) = dir}
           F(p) == [parts |-> SubSeq(p.parts, Len(dir) + 1, Len(p.parts)), slash |-> p.slash]
           T == {F(p) : p \in S}
           f == [p \in S |-> F(p)]
<1>1. Under(repo, dir) = T
  BY DEF Under
<1>2. IsFiniteSet(S)
  <2>1. IsFiniteSet(Paths) /\ S \in SUBSET Paths
    BY LimitsAssumption
  <2> HIDE DEF S
  <2> QED BY <2>1, FS_Subset
<1>3. IsFiniteSet(T)
  <2>1. f \in [S -> T] /\ \A t \in T : \E p \in S : f[p] = t
    OBVIOUS
  <2> HIDE DEF f, S, T
  <2>2. f \in Surjection(S, T)
    BY <2>1 DEF Surjection
  <2> QED BY <1>2, <2>2, FS_Surjection
<1>4. ASSUME NEW q \in S
      PROVE  F(q).parts \in Seq(STRING) /\ Len(F(q).parts) \in Nat \ {0}
  <2> DEFINE s == q.parts
             a == Len(dir) + 1
             b == Len(q.parts)
  <2>1. s \in Seq(STRING)
    BY LimitsAssumption
  <2>2. Len(dir) \in Nat /\ b \in Nat /\ b > Len(dir)
    BY <2>1, LenProperties
  <2>3. a \in Int /\ b \in Int /\ a <= b /\ b - a + 1 \in Nat \ {0}
    BY <2>2
  <2>4. \A i \in a..b : s[i] \in STRING
    <3>1. \A i \in a..b : i \in 1..b
      BY <2>2
    <3> QED BY <2>1, <3>1, ElementOfSeq
  <2> HIDE DEF s, a, b, S
  <2>5. SubSeq(s, a, b) \in Seq(STRING) /\ Len(SubSeq(s, a, b)) = b - a + 1
    BY <2>3, <2>4, SubSeqProperties
  <2>6. F(q).parts = SubSeq(s, a, b)
    BY DEF s, a, b
  <2> HIDE DEF F
  <2> QED BY <2>3, <2>5, <2>6
<1> HIDE DEF F, S
<1> QED BY <1>1, <1>3, <1>4

\* Every path of a listing has its own entry, or is counted by a directory's.
LEMMA ListTold ==
    ASSUME NEW ps, IsFiniteSet(ps), NEW d \in Nat \ {0},
           \A p \in ps : p.parts \in Seq(STRING) /\ Len(p.parts) \in Nat \ {0}
    PROVE  /\ \A p \in ps : \E e \in Collapse(ps, d) :
                IF e.name = p.parts THEN TRUE ELSE e.count > 0 /\ e.name = Prefix(p, Len(e.name))
           /\ \A e \in Collapse(ps, d) : e.count > 0 => e.dir
<1> DEFINE names == UNION {{Prefix(p, n) : n \in 1..Len(p.parts)} : p \in ps}
           below(name) == {p \in ps : Len(p.parts) > d /\ Prefix(p, d) = name}
           dir(name) == \E p \in ps : \/ Len(p.parts) > Len(name) /\ Prefix(p, Len(name)) = name
                                      \/ p.slash /\ p.parts = name
           entry(name) == [name |-> name, dir |-> dir(name), count |-> Cardinality(below(name))]
<1>1. Collapse(ps, d) = {entry(name) : name \in {n \in names : Len(n) <= d}}
  BY Zenon DEF Collapse
<1>2. ASSUME NEW name PROVE IsFiniteSet(below(name))
  <2>1. below(name) \in SUBSET ps
    OBVIOUS
  <2> HIDE DEF below
  <2> QED BY <2>1, FS_Subset
<1>3. ASSUME NEW p \in ps, NEW n \in 1..Len(p.parts) PROVE Prefix(p, n) \in names
  OBVIOUS
<1>4. \A name : entry(name).name = name /\ entry(name).dir = dir(name)
                /\ entry(name).count = Cardinality(below(name))
  OBVIOUS
<1> HIDE DEF entry, names
<1>5. ASSUME NEW p \in ps
      PROVE  \E e \in Collapse(ps, d) :
                IF e.name = p.parts THEN TRUE ELSE e.count > 0 /\ e.name = Prefix(p, Len(e.name))
  <2>1. p.parts \in Seq(STRING) /\ Len(p.parts) \in Nat \ {0}
    OBVIOUS
  <2>2. CASE Len(p.parts) <= d
    <3>1. Prefix(p, Len(p.parts)) = p.parts
      BY <2>1, SubSeqFull DEF Prefix
    <3>2. p.parts \in names
      BY <1>3, <2>1, <3>1
    <3>3. entry(p.parts) \in Collapse(ps, d)
      BY <1>1, <2>2, <3>2
    <3> QED BY <1>4, <3>3
  <2>3. CASE ~(Len(p.parts) <= d)
    <3>1. d \in 1..Len(p.parts) /\ d \in 0..Len(p.parts) /\ Len(p.parts) > d
      BY <2>1, <2>3
    <3> DEFINE name == Prefix(p, d)
    <3>2. Len(name) = d /\ name \in names
      BY <1>3, <2>1, <3>1, PrefixIs
    <3>3. entry(name) \in Collapse(ps, d)
      <4>1. Len(name) <= d
        BY <3>2
      <4> HIDE DEF name
      <4> QED BY <1>1, <3>2, <4>1
    <3>4. p \in below(name)
      BY <3>1
    <3> DEFINE B == below(name)
    <3>5. IsFiniteSet(B)
      BY <1>2
    <3>6. p \in B
      BY <3>4
    <3> HIDE DEF B
    <3>7. Cardinality(B) \in Nat /\ Cardinality(B) # 0
      BY <3>5, <3>6, FS_EmptySet, FS_CardinalityType
    <3>8. Cardinality(B) > 0
      BY <3>7
    <3>9. entry(name).name = name /\ entry(name).count > 0
      BY <1>4, <3>8 DEF B
    <3>10. entry(name).name = Prefix(p, Len(entry(name).name))
      BY <3>2, <3>9
    <3> HIDE DEF name
    <3> QED BY <3>3, <3>9, <3>10
  <2> QED BY <2>2, <2>3
<1>6. ASSUME NEW e \in Collapse(ps, d), e.count > 0 PROVE e.dir
  <2>1. PICK name \in names : e = entry(name)
    BY <1>1
  <2>2. e.count = Cardinality(below(name)) /\ e.dir = dir(name)
    <3>1. entry(name).count = Cardinality(below(name)) /\ entry(name).dir = dir(name)
      BY <1>4
    <3> HIDE DEF below, dir
    <3> QED BY <2>1, <3>1
  <2>3. Cardinality(below(name)) # 0
    BY <1>6, <2>2
  <2>4. below(name) # {}
    <3> DEFINE B == below(name)
    <3>1. Cardinality(B) # 0
      BY <2>3
    <3> HIDE DEF B
    <3>2. B # {}
      BY <3>1, FS_EmptySet
    <3> QED BY <3>2 DEF B
  <2>5. PICK p \in ps : Len(p.parts) > d /\ Prefix(p, d) = name
    BY <2>4
  <2>6. d \in 0..Len(p.parts) /\ p.parts \in Seq(STRING)
    BY <2>5
  <2>7. Len(name) = d
    BY <2>5, <2>6, PrefixIs
  <2>8. dir(name)
    <3>1. Len(p.parts) > Len(name) /\ Prefix(p, Len(name)) = name
      BY <2>5, <2>7
    <3> QED BY <3>1, Zenon
  <2> QED BY <2>2, <2>8
<1> QED BY <1>5, <1>6

\* The last result goes with the call under way.
Whereabouts ==
    /\ tool \in {"bash", "read_logs", "search", "list_dir"} => view = NoView
    /\ tool = "read_file" => view = NoView \/ view.of = "read_file"
    /\ tool = "read_file" /\ view = NoView => next = 0

\* The buffer stands for all of the output, and a result for its buffer.
Buffered == tool = "bash" => Holds(buf, Len(text))
Faithful == view.of = "bash" => Honest(view.shown)

ViewIInv == ViewTypeOK /\ Whereabouts /\ Buffered /\ Faithful /\ PagesCover /\ CutsAreTold

\* Nothing has been shown.
LEMMA NothingShown ==
    ASSUME view = NoView PROVE view.of = "none" /\ Faithful /\ CutsAreTold
<1>1. view.of = "none"
  BY DEF NoView
<1> QED BY <1>1 DEF Faithful, CutsAreTold

\* Positions of a text are positions of a longer one.
LEMMA Longer ==
    ASSUME NEW n \in Nat, NEW m \in Nat, n <= m, NEW s \in Seq(1..n)
    PROVE  s \in Seq(1..m)
<1>1. \A i \in 1..Len(s) : s[i] \in 1..m
  <2>1. ASSUME NEW i \in 1..Len(s) PROVE s[i] \in 1..m
    <3>1. s[i] \in 1..n
      BY ElementOfSeq
    <3> QED BY <3>1
  <2> QED BY <2>1
<1>2. Len(s) \in Nat /\ s \in [1..Len(s) -> 1..n] /\ s = [i \in 1..Len(s) |-> s[i]]
  BY LenProperties
<1>3. s \in [1..Len(s) -> 1..m]
  BY <1>1, <1>2
<1> QED BY <1>2, <1>3, SeqDef

\* The first state.
LEMMA ViewInitial == ViewInit => ViewIInv
<1> SUFFICES ASSUME ViewInit PROVE ViewIInv
  OBVIOUS
<1>1. /\ tool = "none" /\ text = <<>> /\ buf = <<>> /\ next = 0 /\ seen = {} /\ view = NoView
  BY DEF ViewInit
<1>2. view.of = "none" /\ Faithful /\ CutsAreTold
  BY <1>1, NothingShown
<1>3. ViewTypeOK
  BY <1>1, <1>2, Sizes DEF ViewTypeOK
<1> QED BY <1>1, <1>2, <1>3 DEF ViewIInv, Whereabouts, Buffered, PagesCover

\* A call begins with nothing.
LEMMA AsksKeep == Asks => ViewIInv'
<1> SUFFICES ASSUME Asks PROVE ViewIInv'
  OBVIOUS
<1>1. /\ tool' \in Tools /\ text' = <<>> /\ buf' = <<>> /\ next' = 0 /\ seen' = {} /\ view' = NoView
  BY DEF Asks
<1>2. view'.of = "none"
  BY <1>1 DEF NoView
<1>3. ViewTypeOK'
  BY <1>1, <1>2, Sizes DEF ViewTypeOK
<1>4. Whereabouts' /\ Faithful' /\ CutsAreTold'
  BY <1>1, <1>2 DEF Whereabouts, Faithful, CutsAreTold
<1>5. Trimmed' = 0
  BY <1>1 DEF Trimmed
<1>6. PagesCover'
  BY <1>5 DEF PagesCover
<1>7. Buffered'
  <2>1. buf' = <<>> /\ Len(text') = 0 /\ Len(buf') = 0 /\ DOMAIN buf' = {} /\ buf' \in Seq(1..0)
    BY <1>1, EmptySeq
  <2> QED BY <2>1 DEF Buffered, Holds, Rising
<1> QED BY <1>3, <1>4, <1>6, <1>7 DEF ViewIInv

\* Output arrives before anything is shown.
LEMMA WritesKeep == ViewIInv /\ Writes => ViewIInv'
<1> SUFFICES ASSUME ViewIInv, Writes PROVE ViewIInv'
  OBVIOUS
<1>1. /\ tool \in Readers /\ view = NoView /\ UNCHANGED <<tool, next, seen, view>>
      /\ (tool = "read_file" => next = 0)
  BY DEF ViewIInv, Whereabouts, Writes, Readers
<1>2. PICK p \in Chunks :
        /\ text' = text \o p
        /\ buf' = IF tool = "bash" THEN Compacted(buf \o Span(Len(text) + 1, Len(text) + Len(p)))
                                     ELSE buf
  BY DEF Writes
<1>3. text \in Seq(Bytes) /\ p \in Seq(Bytes)
  BY LimitsAssumption DEF ViewIInv, ViewTypeOK, Bytes
<1> DEFINE n == Len(text)
           m == Len(p)
<1>4. n \in Nat /\ m \in Nat
  BY <1>3, LenProperties
<1>5. text' \in Seq(Bytes) /\ Len(text') = n + m
  BY <1>2, <1>3, ConcatProperties
<1>6. ASSUME tool = "bash" PROVE buf' \in Seq(1..Len(text')) /\ Len(buf') <= 2 * Limit /\ Buffered'
  <2> DEFINE u == buf \o Span(n + 1, n + m)
  <2>1. buf' = Compacted(u) /\ Holds(buf, n)
    BY <1>2, <1>6 DEF ViewIInv, Buffered
  <2> HIDE DEF n, m
  <2>2. Holds(u, n + m)
    BY <1>4, <2>1, Appended
  <2> HIDE DEF u
  <2>3. Holds(buf', n + m) /\ Len(buf') <= 2 * Limit
    <3>1. n + m \in Nat
      BY <1>4
    <3>2. Holds(Compacted(u), n + m) /\ Len(Compacted(u)) <= 2 * Limit
      BY <2>2, <3>1, CompactedHolds
    <3> QED BY <2>1, <3>2
  <2>4. Buffered'
    BY <1>5, <2>3 DEF Buffered
  <2> QED BY <1>5, <2>3, <2>4 DEF Holds
<1>7. ASSUME tool # "bash" PROVE buf' \in Seq(1..Len(text')) /\ Len(buf') <= 2 * Limit /\ Buffered'
  <2>1. buf' = buf /\ buf \in Seq(1..n) /\ Len(buf) <= 2 * Limit
    BY <1>2, <1>7 DEF ViewIInv, ViewTypeOK
  <2>2. Buffered'
    BY <1>1, <1>7 DEF Buffered
  <2>3. n + m \in Nat /\ n <= n + m
    BY <1>4
  <2> HIDE DEF n, m
  <2>4. buf \in Seq(1..n + m)
    BY <1>4, <2>1, <2>3, Longer
  <2> QED BY <1>5, <2>1, <2>2, <2>4
<1>8. buf' \in Seq(1..Len(text')) /\ Len(buf') <= 2 * Limit /\ Buffered'
  BY <1>6, <1>7
<1>9. view'.of = "none"
  BY <1>1 DEF NoView
<1>10. ViewTypeOK'
  <2>1. seen' \subseteq 1..Len(text')
    BY <1>1, <1>4, <1>5 DEF ViewIInv, ViewTypeOK
  <2> QED BY <1>1, <1>5, <1>8, <1>9, <2>1 DEF ViewIInv, ViewTypeOK, Bytes
<1>11. Whereabouts' /\ Faithful' /\ CutsAreTold'
  BY <1>1, <1>9 DEF Whereabouts, Faithful, CutsAreTold
<1>12. PagesCover'
  <2> SUFFICES ASSUME tool' = "read_file", NEW q \in Nat PROVE ~(LineOf(q)' <= next')
    BY <1>5 DEF PagesCover, Trimmed
  <2> DEFINE B == {x \in 1..q - 1 : text'[x] = "newline"}
  <2>1. IsFiniteSet(1..q - 1) /\ B \in SUBSET (1..q - 1)
    BY FS_Interval
  <2>2. LineOf(q)' = 1 + Cardinality(B)
    BY DEF LineOf
  <2> HIDE DEF B
  <2>3. Cardinality(B) \in Nat
    BY <2>1, FS_Subset, FS_CardinalityType
  <2>4. next' = 0
    BY <1>1
  <2> QED BY <2>2, <2>3, <2>4
<1> QED BY <1>8, <1>10, <1>11, <1>12 DEF ViewIInv

\* The lines of a file that does not change.
LEMMA SameFile ==
    ASSUME UNCHANGED text
    PROVE  /\ Trimmed' = Trimmed /\ Total' = Total
           /\ \A p : LineOf(p)' = LineOf(p)
           /\ \A p : Excepted(p)' <=> Excepted(p)
<1>1. Trimmed' = Trimmed
  BY DEF Trimmed
<1>2. Total' = Total
  BY <1>1 DEF Total
<1>3. \A p : LineOf(p)' = LineOf(p)
  BY DEF LineOf
<1>4. ASSUME NEW l PROVE StartOf(l)' = StartOf(l)
  BY <1>1, <1>3 DEF StartOf
<1>5. ASSUME NEW l PROVE EndOf(l)' = EndOf(l)
  BY <1>1, <1>2, <1>4 DEF EndOf
<1>6. ASSUME NEW l PROVE Width(l)' = Width(l)
  BY <1>4, <1>5 DEF Width
<1>7. ASSUME NEW p PROVE Excepted(p)' <=> Excepted(p)
  BY <1>3, <1>5, <1>6 DEF Excepted
<1> QED BY <1>1, <1>2, <1>3, <1>7

\* A step that ends the call and leaves the text alone.
LEMMA CallEnds ==
    ASSUME ViewIInv, tool' = "none", UNCHANGED <<text, buf, next, seen>>,
           view'.of \in Tools \cup {"none"}, Faithful', CutsAreTold'
    PROVE  ViewIInv'
<1>1. ViewTypeOK'
  BY DEF ViewIInv, ViewTypeOK
<1>2. Whereabouts' /\ Buffered' /\ PagesCover'
  BY DEF Whereabouts, Buffered, PagesCover
<1> QED BY <1>1, <1>2 DEF ViewIInv

\* bash reports its buffer.
LEMMA BashKeeps == ViewIInv /\ BashEnds => ViewIInv'
<1> SUFFICES ASSUME ViewIInv, BashEnds PROVE ViewIInv'
  OBVIOUS
<1> DEFINE s == ClipMiddle(buf).shown
           said == ClipMiddle(buf).said
<1>1. tool = "bash" /\ tool' = "none" /\ UNCHANGED <<text, buf, next, seen>>
  BY DEF BashEnds
<1>2. \/ view' = [of |-> "bash", shown |-> TrimRight(s), said |-> said]
      \/ view' = [of |-> "bash", shown |-> s, said |-> said]
  BY DEF BashEnds
<1> HIDE DEF said
<1>3. text \in Seq(Bytes) /\ Holds(buf, Len(text))
  BY <1>1 DEF ViewIInv, ViewTypeOK, Buffered, Bytes
<1>4. Honest(s)
  BY <1>3, ClipHonest
<1> HIDE DEF s
<1>5. Honest(TrimRight(s))
  BY <1>3, <1>4, TrimHonest
<1>6. view'.of = "bash" /\ (view'.shown = s \/ view'.shown = TrimRight(s))
  <2> DEFINE t == TrimRight(s)
  <2>1. \/ view' = [of |-> "bash", shown |-> t, said |-> said]
        \/ view' = [of |-> "bash", shown |-> s, said |-> said]
    BY <1>2
  <2> HIDE DEF t
  <2>2. view'.of = "bash" /\ (view'.shown = s \/ view'.shown = t)
    BY <2>1
  <2> QED BY <2>2 DEF t
<1>7. Honest(view'.shown)
  BY <1>4, <1>5, <1>6
<1>8. Faithful'
  BY <1>1, <1>7 DEF Faithful, Honest, Rising, Wanted
<1>9. CutsAreTold'
  BY <1>6 DEF CutsAreTold
<1> QED BY <1>1, <1>6, <1>8, <1>9, CallEnds DEF Tools, Readers

\* A call that shows nothing.
LEMMA NothingKeeps == ViewIInv /\ ShowsNothing => ViewIInv'
<1> SUFFICES ASSUME ViewIInv, ShowsNothing PROVE ViewIInv'
  OBVIOUS
<1>1. tool' = "none" /\ view' = NoView /\ UNCHANGED <<text, buf, next, seen>>
  BY DEF ShowsNothing
<1>2. view'.of = "none"
  BY <1>1 DEF NoView
<1>3. Faithful' /\ CutsAreTold'
  BY <1>2 DEF Faithful, CutsAreTold
<1> QED BY <1>1, <1>2, <1>3, CallEnds

\* The end of a log.
LEMMA LogKeeps == ViewIInv /\ ReadsLog => ViewIInv'
<1> SUFFICES ASSUME ViewIInv, ReadsLog PROVE ViewIInv'
  OBVIOUS
<1>1. tool' = "none" /\ UNCHANGED <<text, buf, next, seen>> /\ text \in Seq(Bytes)
  BY DEF ReadsLog, ViewIInv, ViewTypeOK, Bytes
<1>2. PICK n \in 1..MaxLines :
        view' = [of |-> "read_logs", tail |-> n, shown |-> ClipMiddle(LastLines(n)).shown,
                 said |-> ClipMiddle(LastLines(n)).said]
  BY DEF ReadsLog
<1> DEFINE s == ClipMiddle(LastLines(n)).shown
           said == ClipMiddle(LastLines(n)).said
<1>3. view' = [of |-> "read_logs", tail |-> n, shown |-> s, said |-> said]
  BY <1>2
<1>4. ASSUME ~said, NEW p \in 1..Len(text), text[p] = "byte",
             Cardinality({q \in p..Len(text) - 1 : text[q] = "newline"}) < n
      PROVE  p \in Positions(s)
  <2>1. n \in Nat \ {0}
    OBVIOUS
  <2> QED BY <1>1, <1>4, <2>1, LogWhole
<1> HIDE DEF s, said
<1>5. view'.of = "read_logs" /\ view'.tail = n /\ view'.shown = s /\ view'.said = said
  BY <1>3
<1>6. Faithful'
  BY <1>5 DEF Faithful
<1>7. CutsAreTold'
  BY <1>1, <1>4, <1>5 DEF CutsAreTold, Shows
<1> QED BY <1>1, <1>5, <1>6, <1>7, CallEnds DEF Tools, Readers

\* There is nothing more to read.
LEMMA NoMoreKeeps == ViewIInv /\ ReadsNoMore => ViewIInv'
<1> SUFFICES ASSUME ViewIInv, ReadsNoMore PROVE ViewIInv'
  OBVIOUS
<1>1. tool' = "none" /\ UNCHANGED <<text, buf, next, seen, view>>
  BY DEF ReadsNoMore
<1>2. Faithful'
  BY <1>1 DEF ViewIInv, Faithful, Honest, Rising, Wanted
<1>3. CutsAreTold'
  BY <1>1 DEF ViewIInv, CutsAreTold, Shows, Trimmed
<1>4. view'.of \in Tools \cup {"none"}
  BY <1>1 DEF ViewIInv, ViewTypeOK
<1> QED BY <1>1, <1>2, <1>3, <1>4, CallEnds

\* What a page shows, and what it makes of the lines up to the next offset.
LEMMA PageIs ==
    ASSUME text \in Seq(Bytes), next \in Nat, next < Total, NEW limit \in 0..MaxLines
    PROVE  /\ PageLast(limit) \in Nat /\ PageShown(limit) \in Seq(1..Len(text))
           /\ \A p \in 1..Trimmed : text[p] = "byte" /\ next < LineOf(p) /\ LineOf(p) <= PageLast(limit)
                => Done(p, Positions(PageShown(limit)))
<1>1. CASE PageCut(limit)
  BY <1>1, CutPage
<1>2. CASE ~PageCut(limit)
  <2>1. /\ PageLast(limit) = PageEnd(limit) /\ PageShown(limit) = PageBody(limit)
        /\ \A p \in 1..Trimmed : text[p] = "byte" /\ next < LineOf(p) /\ LineOf(p) <= PageLast(limit)
             => p \in Positions(PageShown(limit))
    BY <1>2, WholePage
  <2>2. PageEnd(limit) \in 1..Total /\ Total \in Nat /\ PageBody(limit) \in Seq(1..Len(text))
    BY BodyIs, FileIs
  <2> QED BY <2>1, <2>2 DEF Done
<1> QED BY <1>1, <1>2

\* A page: the lines before it are the earlier pages', the rest its own.
LEMMA PageKeeps == ViewIInv /\ ReadsPage => ViewIInv'
<1> SUFFICES ASSUME ViewIInv, ReadsPage PROVE ViewIInv'
  OBVIOUS
<1>1. /\ tool = "read_file" /\ next < Total /\ UNCHANGED <<tool, text, buf>>
      /\ text \in Seq(Bytes) /\ next \in Nat /\ seen \subseteq 1..Len(text)
  BY DEF ReadsPage, ViewIInv, ViewTypeOK, Bytes
<1>2. PICK limit \in 0..MaxLines :
        /\ view' = [of |-> "read_file", shown |-> PageShown(limit),
                    said |-> PageCut(limit) \/ PageLast(limit) < Total]
        /\ next' = PageLast(limit)
        /\ seen' = seen \cup Positions(PageShown(limit))
  BY PageStep
<1> DEFINE s == PageShown(limit)
           said == PageCut(limit) \/ PageLast(limit) < Total
           last == PageLast(limit)
<1>3. /\ last \in Nat /\ s \in Seq(1..Len(text))
      /\ \A p \in 1..Trimmed : text[p] = "byte" /\ next < LineOf(p) /\ LineOf(p) <= last
           => Done(p, Positions(s))
  BY <1>1, PageIs
<1>4. view' = [of |-> "read_file", shown |-> s, said |-> said]
  BY <1>2
<1>5. next' = last /\ seen' = seen \cup Positions(s)
  BY <1>2
<1>6. ASSUME ~said PROVE Trimmed = 0 \/ text[Trimmed] = "newline" \/ Trimmed \in Positions(s)
  BY <1>1, <1>6, PageTold
<1> HIDE DEF s, said, last
<1>7. view'.of = "read_file" /\ view'.shown = s /\ (view'.said <=> said)
  <2>1. view'.of = "read_file" /\ view'.shown = s /\ view'.said = said
    BY <1>4, Zenon
  <2> QED BY <2>1, Zenon
<1>8. /\ Trimmed' = Trimmed /\ (\A p : LineOf(p)' = LineOf(p))
      /\ \A p : Excepted(p)' <=> Excepted(p)
  BY <1>1, SameFile
<1>9. ViewTypeOK'
  <2>1. Positions(s) \subseteq 1..Len(text)
    BY <1>3, ElementOfSeq, LenProperties DEF Positions
  <2>2. seen' \subseteq 1..Len(text')
    BY <1>1, <1>5, <2>1
  <2> QED BY <1>1, <1>3, <1>5, <1>7, <2>2 DEF ViewIInv, ViewTypeOK, Tools, Readers
<1>10. Whereabouts' /\ Buffered' /\ Faithful'
  <2>1. view' # NoView
    BY <1>7 DEF NoView
  <2> QED BY <1>1, <1>7, <2>1 DEF Whereabouts, Buffered, Faithful
<1>11. PagesCover'
  <2>1. ASSUME NEW p \in 1..Trimmed, text[p] = "byte", LineOf(p) <= last
        PROVE  Done(p, seen')
    <3>1. LineOf(p) \in Nat
      <4>1. p \in Nat
        OBVIOUS
      <4> QED BY <4>1, BeforeIs
    <3>2. CASE LineOf(p) <= next
      <4>1. Done(p, seen)
        BY <1>1, <2>1, <3>2, CoverIs DEF ViewIInv
      <4> QED BY <1>5, <4>1 DEF Done
    <3>3. CASE ~(LineOf(p) <= next)
      <4>1. next < LineOf(p)
        BY <1>1, <3>1, <3>3
      <4>2. Done(p, Positions(s))
        BY <1>3, <2>1, <4>1
      <4> QED BY <1>5, <4>2 DEF Done
    <3> QED BY <3>2, <3>3
  <2>2. ASSUME NEW p \in 1..Trimmed', text'[p] = "byte", LineOf(p)' <= next'
        PROVE  p \in seen' \/ Excepted(p)'
    <3>1. Done(p, seen')
      BY <1>1, <1>5, <1>8, <2>1, <2>2
    <3> QED BY <1>8, <3>1 DEF Done
  <2> QED BY <2>2 DEF PagesCover, Excepted
<1>12. CutsAreTold'
  BY <1>1, <1>6, <1>7, <1>8 DEF CutsAreTold, Shows
<1> QED BY <1>9, <1>10, <1>11, <1>12 DEF ViewIInv

\* A search.
LEMMA SearchKeeps == ViewIInv /\ Searches => ViewIInv'
<1> SUFFICES ASSUME ViewIInv, Searches PROVE ViewIInv'
  OBVIOUS
<1>1. tool' = "none" /\ UNCHANGED <<text, buf, next, seen>>
  BY DEF Searches
<1>2. PICK out \in Outputs :
        LET hits == {i \in DOMAIN Passed(out) : out[i] = "hit"}
            kept == {i \in hits : Cardinality({j \in hits : j <= i}) <= MaxHits}
        IN  view' = [of |-> "search", out |-> out, hits |-> kept, said |-> kept # hits,
                     failed |-> hits = {} /\ out # <<>>]
  BY Zenon DEF Searches
<1> DEFINE hits == HitsOf(out)
           kept == KeptOf(out)
           failed == hits = {} /\ out # <<>>
<1>3. view' = [of |-> "search", out |-> out, hits |-> kept, said |-> kept # hits, failed |-> failed]
  BY <1>2 DEF HitsOf, KeptOf
<1>4. ASSUME Positions(out) \subseteq {"hit"}, kept = hits PROVE kept = DOMAIN out
  BY <1>4, SearchTold
<1> HIDE DEF hits, kept, failed
<1>5. view'.of = "search" /\ view'.out = out /\ view'.hits = kept /\ view'.said = (kept # hits)
  BY <1>3
<1>6. Faithful'
  BY <1>5 DEF Faithful
<1>7. CutsAreTold'
  <2>1. ASSUME Positions(view'.out) \subseteq {"hit"}
        PROVE  view'.said \/ view'.hits = DOMAIN view'.out
    BY <1>5, <1>4, <2>1
  <2> QED BY <1>5, <2>1 DEF CutsAreTold, Positions
<1> QED BY <1>1, <1>5, <1>6, <1>7, CallEnds DEF Tools

\* A listing.
LEMMA ListKeeps == ViewIInv /\ Lists => ViewIInv'
<1> SUFFICES ASSUME ViewIInv, Lists PROVE ViewIInv'
  OBVIOUS
<1>1. tool' = "none" /\ UNCHANGED <<text, buf, next, seen>>
  BY DEF Lists
<1>2. PICK repo \in SUBSET Paths, asked \in 0..MaxDepth + 1 :
      \E dir \in {<<>>} \cup {Prefix(p, Len(p.parts) - 1) : p \in repo} :
      \E kept \in SUBSET Collapse(Under(repo, dir), Clamped(asked)) :
        LET all == Collapse(Under(repo, dir), Clamped(asked))
        IN  /\ IF Cardinality(all) > MaxEntries THEN Cardinality(kept) = MaxEntries ELSE kept = all
            /\ view' = [of |-> "list_dir", paths |-> Under(repo, dir), entries |-> kept,
                        said |-> Cardinality(all) > MaxEntries]
  BY DEF Lists
<1>3. PICK dir \in {<<>>} \cup {Prefix(p, Len(p.parts) - 1) : p \in repo} :
      \E kept \in SUBSET Collapse(Under(repo, dir), Clamped(asked)) :
        LET all == Collapse(Under(repo, dir), Clamped(asked))
        IN  /\ IF Cardinality(all) > MaxEntries THEN Cardinality(kept) = MaxEntries ELSE kept = all
            /\ view' = [of |-> "list_dir", paths |-> Under(repo, dir), entries |-> kept,
                        said |-> Cardinality(all) > MaxEntries]
  BY <1>2
<1>4. dir \in Seq(STRING)
  <2>1. ASSUME NEW p \in repo PROVE Prefix(p, Len(p.parts) - 1) \in Seq(STRING)
    <3> DEFINE n == Len(p.parts) - 1
    <3>1. p.parts \in Seq(STRING)
      BY LimitsAssumption
    <3>2. Len(p.parts) \in Nat
      BY <3>1, LenProperties
    <3>3. n \in Int /\ \A i \in 1..n : i \in 1..Len(p.parts)
      BY <3>2
    <3>4. \A i \in 1..n : p.parts[i] \in STRING
      BY <3>1, <3>3, ElementOfSeq
    <3> HIDE DEF n
    <3>5. SubSeq(p.parts, 1, n) \in Seq(STRING)
      BY <3>3, <3>4, SubSeqProperties
    <3> QED BY <3>5 DEF Prefix, n
  <2>2. <<>> \in Seq(STRING)
    OBVIOUS
  <2> QED BY <2>1, <2>2
<1> DEFINE ps == Under(repo, dir)
           d == Clamped(asked)
           all == Collapse(ps, d)
<1>5. PICK kept : /\ ~(Cardinality(all) > MaxEntries) => kept = all
                  /\ view' = [of |-> "list_dir", paths |-> ps, entries |-> kept,
                              said |-> Cardinality(all) > MaxEntries]
  BY <1>3
<1>6. d \in Nat \ {0}
  BY Sizes DEF Clamped
<1>7. IsFiniteSet(ps) /\ \A p \in ps : p.parts \in Seq(STRING) /\ Len(p.parts) \in Nat \ {0}
  BY <1>4, UnderIs
<1> HIDE DEF ps, d
<1>8. /\ \A p \in ps : \E e \in all :
           IF e.name = p.parts THEN TRUE ELSE e.count > 0 /\ e.name = Prefix(p, Len(e.name))
      /\ \A e \in all : e.count > 0 => e.dir
  BY <1>6, <1>7, ListTold
<1> HIDE DEF all
<1>9. /\ view'.of = "list_dir" /\ view'.paths = ps /\ view'.entries = kept
      /\ view'.said = (Cardinality(all) > MaxEntries)
  BY <1>5
<1>10. Faithful'
  BY <1>9 DEF Faithful
<1>11. CutsAreTold'
  <2>1. ASSUME ~view'.said
        PROVE  /\ \A p \in view'.paths : \E e \in view'.entries :
                    IF e.name = p.parts THEN TRUE ELSE e.count > 0 /\ e.name = Prefix(p, Len(e.name))
               /\ \A e \in view'.entries : e.count > 0 => e.dir
    <3>1. kept = all
      BY <1>5, <1>9, <2>1
    <3> QED BY <1>8, <1>9, <3>1
  <2> QED BY <1>9, <2>1 DEF CutsAreTold, Prefix
<1> QED BY <1>1, <1>9, <1>10, <1>11, CallEnds DEF Tools

\* Every step keeps the inductive invariant.
LEMMA ViewStep == ViewIInv /\ [ViewNext]_viewVars => ViewIInv'
<1> SUFFICES ASSUME ViewIInv, [ViewNext]_viewVars PROVE ViewIInv'
  OBVIOUS
<1>1. CASE UNCHANGED viewVars
  <2>1. UNCHANGED <<tool, text, buf, next, seen, view>>
    BY <1>1 DEF viewVars
  <2>2. ViewTypeOK' /\ Whereabouts' /\ Buffered'
    BY <2>1 DEF ViewIInv, ViewTypeOK, Whereabouts, Buffered, Holds, Rising
  <2>3. Faithful' /\ CutsAreTold'
    BY <2>1 DEF ViewIInv, Faithful, Honest, Rising, Wanted, CutsAreTold, Shows, Trimmed
  <2>4. PagesCover'
    <3>1. ASSUME tool' = "read_file", NEW p \in 1..Trimmed', text'[p] = "byte", LineOf(p)' <= next'
          PROVE  p \in seen' \/ Excepted(p)'
      <4>1. Done(p, seen)
        BY <2>1, <3>1, SameFile, CoverIs DEF ViewIInv
      <4> QED BY <2>1, <4>1, SameFile DEF Done
    <3> QED BY <3>1 DEF PagesCover, Excepted
  <2> QED BY <2>2, <2>3, <2>4 DEF ViewIInv
<1> QED
  BY <1>1, AsksKeep, WritesKeep, BashKeeps, NothingKeeps, LogKeeps, PageKeeps, NoMoreKeeps,
     SearchKeeps, ListKeeps DEF ViewNext

\* The inductive invariant holds in every reachable state.
LEMMA ViewInvariant == ViewSpec => []ViewIInv
BY ViewInitial, ViewStep, PTL DEF ViewSpec

\* The state is of its type: the buffer of a command that prints without end
\* never holds more than twice its limit, and an offset is of the file.
THEOREM ViewsTypeCorrect == ViewSpec => []ViewTypeOK
<1>1. ViewIInv => ViewTypeOK
  BY DEF ViewIInv
<1> QED BY <1>1, ViewInvariant, PTL

\* boundedBuffer.Write, clipMiddle and bash's report: however a command's
\* output is cut into chunks, of any length and under any limit, its result
\* has every whole line of both ends of the output.
THEOREM BothEndsKept == ViewSpec => []EndsKept
<1>1. ViewIInv => EndsKept
  <2> SUFFICES ASSUME ViewIInv PROVE EndsKept
    OBVIOUS
  <2>1. CASE view.of = "bash"
    BY <2>1, HonestEnds DEF ViewIInv, Faithful
  <2> QED BY <2>1 DEF EndsKept
<1> QED BY <1>1, ViewInvariant, PTL

\* read_file, read_logs, search and list_dir leave nothing out without
\* saying so, and a reader that follows read_file's offsets misses no byte of a
\* line as long as a page or shorter, but the last one of a line that is exactly
\* as long as a page and follows an empty line: clip cuts that one off.
THEOREM NothingIsSilent == ViewSpec => []NothingSilent
<1>1. ViewIInv => NothingSilent
  BY DEF ViewIInv, NothingSilent
<1> QED BY <1>1, ViewInvariant, PTL

=============================================================================
