---------------------------- MODULE ToolEffects ----------------------------
(***************************************************************************)
(* The calls that change something and answer the model about it: the two  *)
(* file tools (write_file, edit_file) and the three control tools that     *)
(* keep no run waiting (update_task, remember, record_orientation). The    *)
(* effect and the answer are stored in different places, one after the     *)
(* other: a call whose answer is not in the transcript is executed again,  *)
(* however far it had come.                                                *)
(*                                                                         *)
(* One project and one worker. Its calls come one at a time; a process of  *)
(* the sandbox writes the same file, and the operator saves the same notes *)
(* on the Settings screen, at any moment. What an edit makes of a text is  *)
(* left to Go's strings package: nothing is assumed of it, and so a text   *)
(* may match again once it has been edited, because the new_string holds   *)
(* the old_string or because what is left joins to another one.            *)
(***************************************************************************)
EXTENDS Naturals, Sequences

CONSTANTS
    Calls,        \* the calls the model may make
    Files,        \* what the file may hold before the first call
    Boards,       \* the task boards before the first call
    Notes,        \* the texts of memories and of orientation
    Texts,        \* contents of a file
    NoText,       \* the empty content
    Edits,        \* an old_string and a different new_string
    Occurrences(_, _),   \* strings.Count of an edit's old_string in a text
    FirstReplaced(_, _), \* strings.Replace of the first one by its new_string
    AllReplaced(_, _),   \* strings.ReplaceAll
    MaxCalls,     \* bound on the calls
    MaxFaults,    \* bound on crashes, lost requests and pauses
    MaxOthers     \* bound on the writes of others

FileTools == {"write_file", "edit_file"}
NoteTools == {"remember", "record_orientation"}
Statuses == {"pending", "doing", "done", "blocked"}

FileStates == [kind : {"missing", "other", "file"}, big : BOOLEAN, text : Texts]

\* update_task moves one task of the board; the notes are replaced whole.
CallTypes ==
    [tool : {"write_file"}, valid : BOOLEAN, big : BOOLEAN, text : Texts]
      \cup [tool : {"edit_file"}, valid : BOOLEAN, all : BOOLEAN, edit : Edits]
      \cup [tool : {"update_task"}, valid : BOOLEAN, task : Nat, status : Statuses]
      \cup [tool : NoteTools, valid : BOOLEAN, note : Notes]

ASSUME CallsAssumption ==
    /\ Calls \subseteq CallTypes
    /\ Files \subseteq FileStates
    /\ Boards \subseteq Seq(Statuses)

ASSUME TextsAssumption ==
    /\ NoText \in Texts
    /\ \A e \in Edits, text \in Texts :
         /\ Occurrences(e, text) \in Nat
         /\ {FirstReplaced(e, text), AllReplaced(e, text)} \subseteq Texts

VARIABLES
    world,     \* file, board and notes, as they are now
    call,      \* the call the model made last
    pc,        \* where the worker is with it
    snap,      \* the file as the call read it
    result,    \* what the tool returned
    answers,   \* the tool messages stored for the call
    base,      \* world as others left it: what the call has not changed
    faulted,   \* a step of this call failed or was cut short
    lost,      \* others wrote the call's target after the call had looked at it
    calls, faults, others

vars == <<world, call, pc, snap, result, answers, base, faulted, lost, calls, faults, others>>

Target(c) ==
    IF c.tool \in FileTools THEN "file" ELSE IF c.tool = "update_task" THEN "board" ELSE c.tool

---------------------------------------------------------------------------
(* What a call does, once.                                                 *)

Replaced(c, text) ==
    IF c.all THEN AllReplaced(c.edit, text) ELSE FirstReplaced(c.edit, text)

\* What the call makes of its target.
Applied(c, thing) ==
    IF c.tool = "write_file" THEN [kind |-> "file", big |-> c.big, text |-> c.text]
    ELSE IF c.tool = "edit_file"
      THEN [thing EXCEPT !.text = Replaced(c, @)]
    ELSE IF c.tool = "update_task" THEN [thing EXCEPT ![c.task] = c.status]
    ELSE c.note

---------------------------------------------------------------------------

Init ==
    /\ world \in [file : Files, board : Boards, remember : Notes, record_orientation : Notes]
    /\ call \in Calls /\ pc = "idle"
    /\ snap = world.file /\ result = "none" /\ answers = <<>>
    /\ base = world
    /\ faulted = FALSE /\ lost = FALSE
    /\ calls = 0 /\ faults = 0 /\ others = 0

Moves(from, to) == pc = from /\ pc' = to
Returns(from, r) == Moves(from, "answer") /\ result' = r
Keeps == UNCHANGED <<world, call, base, lost, calls, others>>

\* executeCalls takes the next call.
Begins ==
    /\ Moves("idle", "execute")
    /\ calls < MaxCalls /\ calls' = calls + 1
    /\ call' \in Calls
    /\ base' = world /\ answers' = <<>> /\ result' = "none"
    /\ faulted' = FALSE /\ lost' = FALSE
    /\ UNCHANGED <<world, snap, faults, others>>

\* The request of a step is lost or its context cancelled. Unless the
\* operator asked for a pause, executeCalls returns the error and the run
\* is parked; a pause is answered in the model's transcript.
StepFails ==
    /\ faults < MaxFaults /\ faults' = faults + 1
    /\ faulted' = TRUE
    /\ \/ pc' = "stopped" /\ UNCHANGED result
       \/ pc' = "answer" /\ result' = "stopped"

NoFault == UNCHANGED <<faults, faulted>>

\* Arguments that do not decode, a path outside the repository, identical
\* strings, an unknown status, notes over maxNotesLen.
Refuses ==
    /\ ~call.valid
    /\ Returns("execute", "failed")
    /\ Keeps /\ NoFault /\ UNCHANGED <<snap, answers>>

\* The control tools' Execute only hands the request over.
HandsOver ==
    /\ call.valid /\ call.tool \notin FileTools
    /\ Returns("execute", "ok")
    /\ Keeps /\ NoFault /\ UNCHANGED <<snap, answers>>

\* statPath, and the kinds the tool does not take. write_file does not read
\* what is new or over readCeilingBytes.
Stats ==
    /\ call.valid /\ call.tool \in FileTools
    /\ \/ /\ IF \/ world.file.kind = "other"
                \/ call.tool = "edit_file" /\ (world.file.kind = "missing" \/ world.file.big)
               THEN Returns("execute", "failed")
               ELSE /\ IF world.file.kind = "file" /\ ~world.file.big
                         THEN Moves("execute", "read") ELSE Moves("execute", "mkdir")
                    /\ UNCHANGED result
          /\ snap' = [kind |-> world.file.kind, big |-> world.file.big, text |-> NoText]
          /\ NoFault
       \/ /\ pc = "execute"
          /\ StepFails /\ UNCHANGED snap
    /\ Keeps /\ UNCHANGED answers

\* Mutant: no refusal of an old_string that matches more than once.
Refused(c, text) == c.tool = "edit_file" /\ Occurrences(c.edit, text) = 0

\* edit_file wants a match, and only one unless replace_all is set.
Fits(c, text) == Occurrences(c.edit, text) = 1 \/ (c.all /\ Occurrences(c.edit, text) > 1)
Mismatch(c, text) == c.tool = "edit_file" /\ ~Fits(c, text)

\* ReadFile, and what edit_file decides on it.
Reads ==
    /\ pc = "read"
    /\ \/ /\ world.file.kind = "file"
          /\ snap' = world.file
          /\ IF Mismatch(call, world.file.text)
               THEN Returns("read", "failed")
               ELSE /\ Moves("read", IF call.tool = "edit_file" THEN "write" ELSE "mkdir")
                    /\ UNCHANGED result
          /\ NoFault
       \/ StepFails /\ UNCHANGED snap
    /\ Keeps /\ UNCHANGED answers

\* mkdir -p of the parent may exit with an error.
MakesParent ==
    /\ pc = "mkdir"
    /\ \/ Moves("mkdir", "write") /\ NoFault /\ UNCHANGED result
       \/ Returns("mkdir", "failed") /\ NoFault
       \/ StepFails
    /\ Keeps /\ UNCHANGED <<snap, answers>>

\* WriteFile of what the call made of its snapshot: it takes effect and
\* returns, or the request is lost before or after it takes effect. The
\* diff that follows changes nothing and its failure is not reported. For
\* write_file, "same" is "was already exactly this content".
WritesFile ==
    /\ pc = "write"
    /\ \/ /\ world.file.kind # "other"
          /\ world' = [world EXCEPT !.file = Applied(call, snap)]
          /\ \/ /\ Returns("write", IF call.tool = "write_file" /\ call.text = snap.text THEN "same" ELSE "ok")
                /\ NoFault
             \/ StepFails
       \/ StepFails /\ UNCHANGED world
    /\ UNCHANGED <<call, snap, answers, base, lost, calls, others>>

---------------------------------------------------------------------------
(* The answer, and for the control tools the effect with it.               *)

\* AppendMessage: stored, or lost before or after it is stored.
Appends(a) ==
    \/ pc' = "idle" /\ answers' = Append(answers, a) /\ NoFault
    \/ /\ faults < MaxFaults /\ faults' = faults + 1 /\ faulted' = TRUE
       /\ pc' = "stopped"
       /\ answers' \in {answers, Append(answers, a)}

\* The tool failed, or it is one whose effect is already there.
Answers ==
    /\ pc = "append" \/ (pc = "answer" /\ (result # "ok" \/ call.tool \in FileTools))
    /\ Appends(result)
    /\ Keeps /\ UNCHANGED <<snap, result>>

\* The board and the answer are one transaction; there is no such task, or
\* it does not commit, or its commit is not heard of: UpdateTask's error is
\* answered as the model's mistake.
UpdatesTask ==
    /\ pc = "answer" /\ result = "ok" /\ call.tool = "update_task"
    /\ LET known == call.task \in DOMAIN world.board
           committed == /\ world' = [world EXCEPT !.board = Applied(call, world.board)]
                        /\ answers' = Append(answers, "ok")
       IN  \/ known /\ committed /\ pc' = "idle" /\ NoFault /\ UNCHANGED result
           \/ ~known /\ UNCHANGED <<world, answers>> /\ pc' = "append" /\ result' = "failed" /\ NoFault
           \/ /\ faults < MaxFaults /\ faults' = faults + 1 /\ faulted' = TRUE
              /\ (known /\ committed) \/ UNCHANGED <<world, answers>>
              /\ pc' = "append" /\ result' = "failed"
    /\ UNCHANGED <<call, snap, base, lost, calls, others>>

\* SetMemories and SetOrientation, before the answer.
SetsNotes ==
    /\ pc = "answer" /\ result = "ok" /\ call.tool \in NoteTools
    /\ \/ world' = [world EXCEPT ![call.tool] = Applied(call, @)] /\ pc' = "append" /\ NoFault
       \/ /\ faults < MaxFaults /\ faults' = faults + 1 /\ faulted' = TRUE
          /\ pc' = "stopped"
          /\ UNCHANGED world \/ world' = [world EXCEPT ![call.tool] = Applied(call, @)]
    /\ UNCHANGED <<call, snap, result, answers, base, lost, calls, others>>

---------------------------------------------------------------------------
(* Crashes, replays, and the others.                                       *)

Crash ==
    /\ pc \notin {"idle", "stopped"}
    /\ faults < MaxFaults /\ faults' = faults + 1
    /\ pc' = "stopped" /\ faulted' = TRUE
    /\ Keeps /\ UNCHANGED <<snap, result, answers>>

\* Mutant: what was answered already is executed again.
AlwaysReplays ==
    /\ Moves("stopped", "execute")
    /\ result' = "none"
    /\ Keeps /\ NoFault /\ UNCHANGED <<snap, answers>>

\* Recover or Resume: the call is executed again if nothing answers it.
Restarts ==
    /\ IF answers = <<>> THEN Moves("stopped", "execute") ELSE Moves("stopped", "idle")
    /\ result' = "none"
    /\ Keeps /\ NoFault /\ UNCHANGED <<snap, answers>>

Overwrites(t, thing) ==
    /\ others < MaxOthers /\ others' = others + 1
    /\ world' = [world EXCEPT ![t] = thing]
    /\ base' = [base EXCEPT ![t] = thing]
    /\ lost' = (lost \/ (t = Target(call) /\ (answers # <<>> \/ pc \notin {"execute", "stopped"})))
    /\ UNCHANGED <<call, pc, snap, result, answers, faulted, calls, faults>>

\* A background process writes, moves or deletes the file.
SandboxWrites == \E f \in Files : Overwrites("file", f)

\* handleSaveMemories, which saves either of the notes.
OperatorSaves == \E t \in NoteTools, note \in Notes : Overwrites(t, note)

Next ==
    \/ Begins \/ Refuses \/ HandsOver \/ Stats \/ Reads \/ MakesParent \/ WritesFile
    \/ Answers \/ UpdatesTask \/ SetsNotes
    \/ Crash \/ Restarts \/ SandboxWrites \/ OperatorSaves

Spec == Init /\ [][Next]_vars

---------------------------------------------------------------------------
(* Properties.                                                             *)

\* Types; a call has two answers at the most.
TypeOK ==
    /\ world \in [file : FileStates, board : Seq(Statuses),
                  remember : Notes, record_orientation : Notes]
    /\ base \in [file : FileStates, board : Seq(Statuses),
                 remember : Notes, record_orientation : Notes]
    /\ call \in Calls
    /\ pc \in {"idle", "execute", "read", "mkdir", "write", "answer", "append", "stopped"}
    /\ snap \in FileStates
    /\ result \in {"none", "ok", "same", "failed", "stopped"}
    /\ answers \in Seq({"ok", "same", "failed", "stopped"}) /\ Len(answers) <= 2
    /\ faulted \in BOOLEAN /\ lost \in BOOLEAN
    /\ {calls, faults, others} \subseteq Nat

Now == world[Target(call)]
Was == base[Target(call)]
Once == Applied(call, Was)
Answered(a) == \E i \in DOMAIN answers : answers[i] = a

\* What the call makes of the file it would take again: the new_string brings the
\* old one back, or joins to another with what stands around it.
Repeatable ==
    /\ call.tool = "edit_file"
    /\ Fits(call, Was.text) /\ Fits(call, Once.text)

\* However often a call is executed again, its target is as others left it or as
\* one execution makes it.
AtMostOnce == Now \in {Was, Once}

\* Nothing but its target is changed.
Elsewhere == \A t \in (DOMAIN world) \ {Target(call)} : world[t] = base[t]

\* What the model is told: a call that succeeded has had its effect, one
\* that failed without a fault has had none, and an unchanged file is one
\* that held the content, or an empty content. One answer is all a call
\* gets, except an update_task whose commit was not heard of.
AnswersTell ==
    /\ Answered("ok") \/ Answered("same") => Now = Once
    /\ Answered("failed") /\ ~faulted => Now = Was
    /\ Answered("same") /\ ~faulted =>
         (Was.kind = "file" /\ Was.text = call.text) \/ call.text = NoText
    /\ Len(answers) <= 1 \/ (call.tool = "update_task" /\ faulted)

\* "The trailing tool-call repair makes that safe" (agent.go): of a call that
\* others did not disturb, except of an edit cut short whose result matches again.
OneEffect ==
    /\ Elsewhere
    /\ lost \/ (faulted /\ Repeatable) \/ (AtMostOnce /\ AnswersTell)
=============================================================================
