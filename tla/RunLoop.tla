------------------------------- MODULE RunLoop -------------------------------
(***************************************************************************)
(* The agent's run loop: the durable run row, the transcript and the task  *)
(* board of one project, the goroutine that drives each run, the operator's*)
(* requests (which commit first and touch the worker afterwards), and the  *)
(* process that hosts them, which may crash, shut down and boot again.     *)
(*                                                                         *)
(* Durable state survives a crash: run, msgs, pad.  Everything else is     *)
(* memory of one process.  A step is one database statement or             *)
(* transaction, one model call, one tool execution or one use of the       *)
(* workers map: the points between which the code can be interleaved.      *)
(***************************************************************************)
EXTENDS Naturals, Sequences, FiniteSets

CONSTANTS
    Runs,        \* ids of the run rows that may ever be created
    Handlers,    \* HTTP requests of the operator that can be in flight at once
    Shapes,      \* the tool calls one assistant turn may carry
    FaultKinds,  \* what may fail: "model", "sandbox", "store", and "ack": a
                 \* statement takes effect and its caller is told that it failed
    MaxTurns,    \* bound: assistant turns in the transcript that carry calls
    MaxCrashes,  \* bound: process deaths (crashes and shutdowns)
    NoRun        \* not a run id

\* "plain" stands for every tool whose result is only appended.
ToolNames == {"plain", "update_task", "ask_human", "create_plan", "done"}

ASSUME RunLoopAssumption ==
    /\ Shapes \subseteq Seq(ToolNames) /\ <<>> \in Shapes
    /\ FaultKinds \subseteq {"model", "sandbox", "store", "ack"}
    /\ MaxTurns \in Nat
    /\ MaxCrashes \in Nat
    /\ NoRun \notin Runs

VARIABLES
    run,        \* run table: [state, reason, pause] of each run id
    msgs,       \* message table of the project, in id order
    pad,        \* status of project.scratchpad
    pc,         \* where each run's goroutine is; "off" = no workers[runID]
    job,        \* the calls executeCalls still has to run: [turn, todo]
    cancelled,  \* the current stream or tool context has been cancelled
    op,         \* where each operator request is: [at, run]
    proc,       \* the process: "up", "stopping" or "down"
    crashes     \* process deaths so far

durable == <<run, msgs, pad>>
worker  == <<pc, job, cancelled>>
vars    == <<run, msgs, pad, pc, job, cancelled, op, proc, crashes>>

-----------------------------------------------------------------------------
(* Rows *)

ActiveStates == {"running", "awaiting_human", "paused"}
ClosedStates == {"idle", "done"}
RunStates    == {"none", "gone"} \cup ActiveStates \cup ClosedStates
Reasons      == {"none", "plan_approval", "question", "error"}
RunRow       == [state : RunStates, reason : Reasons, pause : BOOLEAN]

NoCall  == <<0, 0>>
NoJob   == [turn |-> 0, todo |-> {}]
Idle    == [at |-> "idle", run |-> NoRun]

\* A call is named by the transcript position of its turn and its place there.
User(r)         == [run |-> r, role |-> "user", calls |-> <<>>, call |-> NoCall]
Assistant(r, s) == [run |-> r, role |-> "assistant", calls |-> s, call |-> NoCall]
Partial(r)      == [run |-> r, role |-> "interrupted", calls |-> <<>>, call |-> NoCall]
Result(r, c)    == [run |-> r, role |-> "tool", calls |-> <<>>, call |-> c]
Shipped(r, c)   == [run |-> r, role |-> "shipped", calls |-> <<>>, call |-> c]

IsResult(m) == m.role \in {"tool", "shipped"}

OfRun(r)     == {i \in DOMAIN msgs : msgs[i].run = r}
ToolTurns(r) == {i \in OfRun(r) : msgs[i].calls # <<>>}
Newest(i, S) == i \in S /\ \A j \in S : j <= i
Answered(c)  == \E j \in DOMAIN msgs : IsResult(msgs[j]) /\ msgs[j].call = c

\* Mutants of Unanswered: every call is replayed; a turn of which any call was
\* served counts as served.
ReplaysAll(i)     == DOMAIN msgs[i].calls
ForgetsPartial(i) == {k \in DOMAIN msgs[i].calls :
                        \A j \in DOMAIN msgs[i].calls : ~Answered(<<i, j>>)}

\* runs.go TrailingToolCalls: the calls of a turn that have no result.
Unanswered(i) == {k \in DOMAIN msgs[i].calls : ~Answered(<<i, k>>)}

\* Mutant of TerminalAssistant: an interrupted reply counts as a complete one.
AnyReplyTerminal(r) ==
    \E i \in OfRun(r) : /\ Newest(i, OfRun(r))
                        /\ msgs[i].role \in {"assistant", "interrupted"}
                        /\ msgs[i].calls = <<>>

\* runs.go FinishIfTerminalAssistant: the run's last message closes it.
TerminalAssistant(r) ==
    \E i \in OfRun(r) : /\ Newest(i, OfRun(r))
                        /\ msgs[i].role = "assistant"
                        /\ msgs[i].calls = <<>>

Active      == {r \in Runs : run[r].state \in ActiveStates}
Turns       == Cardinality({i \in DOMAIN msgs : \/ msgs[i].role = "interrupted"
                                                \/ msgs[i].calls # <<>>})

-----------------------------------------------------------------------------
(* Updates of the run row *)

Running(r)   == run[r].state = "running"
Resumable(r) == \/ run[r].state = "paused"
                \/ run[r].state = "awaiting_human" /\ run[r].reason # "plan_approval"
Deciding(r)  == run[r].state = "awaiting_human" /\ run[r].reason = "plan_approval"

\* Mutants: a pause that parks the run itself; a resume that keeps the reason of
\* the wait; a resume that keeps the pause request.
ParksAtOnce(row) == [row EXCEPT !.state = "paused", !.pause = TRUE]
KeepsReason(row) == [row EXCEPT !.state = "running", !.pause = FALSE]
KeepsPause(row)  == [row EXCEPT !.state = "running", !.reason = "none"]

Fresh            == [state |-> "running", reason |-> "none", pause |-> FALSE]
PauseAsked(row)  == [row EXCEPT !.pause = TRUE]
Parked(row)      == [row EXCEPT !.state = "paused"]
Awaiting(row, w) == [row EXCEPT !.state = "awaiting_human", !.reason = w]
Closed(row, s)   == [row EXCEPT !.state = s]
Resumed(row)     == [row EXCEPT !.state = "running", !.reason = "none", !.pause = FALSE]
\* ApprovePlan and RevisePlan leave pause_requested alone.
Decided(row)     == [row EXCEPT !.state = "running", !.reason = "none"]

SetRun(r, row) == run' = [run EXCEPT ![r] = row]

-----------------------------------------------------------------------------
(* The goroutine of run r *)

At(r, p)     == pc[r] = p
Goto(r, p)   == pc' = [pc EXCEPT ![r] = p]
Append1(m)   == msgs' = Append(msgs, m)
DropJob(r)   == job' = [job EXCEPT ![r] = NoJob]
Uncancel(r)  == cancelled' = [cancelled EXCEPT ![r] = FALSE]

\* A write that happens is acknowledged, or reported as failed all the same: the
\* caller cannot tell, and goes the way of an error.
Settles(r, p) == Goto(r, p) \/ ("ack" \in FaultKinds /\ Goto(r, "error"))

\* Mutant of PauseSeen: the loop relies on the cancelled stream alone.
PauseIgnored(r) == FALSE

\* run: the three ways out of the RunByID at the head of the loop.
PauseSeen(r) == run[r].pause

LoopLeaves(r) ==
    /\ At(r, "loop") /\ ~Running(r)
    /\ Goto(r, "exit")
    /\ UNCHANGED <<durable, job, cancelled, op, proc, crashes>>

LoopPauses(r) ==
    /\ At(r, "loop") /\ Running(r) /\ PauseSeen(r)
    /\ Goto(r, "park")
    /\ UNCHANGED <<durable, job, cancelled, op, proc, crashes>>

LoopAdvances(r) ==
    /\ At(r, "loop") /\ Running(r) /\ ~PauseSeen(r)
    /\ Goto(r, "advance")
    /\ UNCHANGED <<durable, job, cancelled, op, proc, crashes>>

\* pauseRun: MarkPaused, which matches no row unless the run is running.  The
\* goroutine ends, except under executeCalls, whose nil sends it round again.
Park(r) ==
    /\ pc[r] \in {"park", "parkStream", "parkCalls"}
    /\ SetRun(r, IF Running(r) THEN Parked(run[r]) ELSE run[r])
    /\ CASE At(r, "park")       -> Goto(r, "exit")
         [] At(r, "parkStream") -> Settles(r, "exit")
         [] OTHER               -> Settles(r, "loop")
    /\ UNCHANGED <<msgs, pad, job, cancelled, op, proc, crashes>>

\* advance: FinishIfTerminalAssistant.
CloseTerminal(r) ==
    /\ At(r, "advance") /\ TerminalAssistant(r) /\ Running(r)
    /\ SetRun(r, Closed(run[r], "idle"))
    /\ Settles(r, "exit")
    /\ UNCHANGED <<msgs, pad, job, cancelled, op, proc, crashes>>

NotTerminal(r) ==
    /\ At(r, "advance") /\ ~(TerminalAssistant(r) /\ Running(r))
    /\ Goto(r, "trailing")
    /\ UNCHANGED <<durable, job, cancelled, op, proc, crashes>>

\* advance: calls left unanswered by a crash, a pause or a wait run first.
ReplayTrailing(r) ==
    /\ At(r, "trailing")
    /\ \E i \in ToolTurns(r) :
          /\ Newest(i, ToolTurns(r))
          /\ Unanswered(i) # {}
          /\ job' = [job EXCEPT ![r] = [turn |-> i, todo |-> Unanswered(i)]]
    /\ Goto(r, "ready")
    /\ UNCHANGED <<durable, cancelled, op, proc, crashes>>

\* advance: nothing pending, so the transcript goes to the model.
AskModel(r) ==
    /\ At(r, "trailing")
    /\ \A i \in ToolTurns(r) : Newest(i, ToolTurns(r)) => Unanswered(i) = {}
    /\ Goto(r, "stream")
    /\ UNCHANGED <<durable, job, cancelled, op, proc, crashes>>

\* The stream completed: the turn is appended before any call runs.
StreamCompletes(r, s) ==
    /\ At(r, "stream")
    /\ s = <<>> \/ Turns < MaxTurns
    /\ Append1(Assistant(r, s))
    /\ IF s = <<>>
       THEN Goto(r, "finish") /\ UNCHANGED job
       ELSE /\ Goto(r, "ready")
            /\ job' = [job EXCEPT ![r] = [turn |-> Len(msgs) + 1, todo |-> DOMAIN s]]
    /\ Uncancel(r)
    /\ UNCHANGED <<run, pad, op, proc, crashes>>

\* Past the bound the model goes on calling tools, and a turn with its results is
\* no longer recorded: nothing but the code ends the loop.
StreamPastBound(r) ==
    /\ At(r, "stream") /\ Turns >= MaxTurns
    /\ Goto(r, "ready")
    /\ Uncancel(r)
    /\ UNCHANGED <<durable, job, op, proc, crashes>>

StreamMayFail(r) == cancelled[r] \/ "model" \in FaultKinds

\* The stream died after some text had arrived: persisted, marked interrupted.
StreamInterrupted(r) ==
    /\ At(r, "stream") /\ StreamMayFail(r) /\ Turns < MaxTurns
    /\ Append1(Partial(r))
    /\ Settles(r, "halt")
    /\ Uncancel(r)
    /\ UNCHANGED <<run, pad, job, op, proc, crashes>>

\* The stream died, its retries spent or cancelled, with nothing to persist.
StreamFails(r) ==
    /\ At(r, "stream") /\ StreamMayFail(r)
    /\ Goto(r, "halt")
    /\ Uncancel(r)
    /\ UNCHANGED <<durable, job, op, proc, crashes>>

\* A completed response with neither text nor calls is an error at once.
StreamSilent(r) ==
    /\ At(r, "stream") /\ "model" \in FaultKinds
    /\ Goto(r, "error")
    /\ Uncancel(r)
    /\ UNCHANGED <<durable, job, op, proc, crashes>>

\* pauseRequested decides between a pause and an error.
Halt(r) ==
    /\ At(r, "halt")
    /\ Goto(r, IF PauseSeen(r) THEN "parkStream" ELSE "error")
    /\ UNCHANGED <<durable, job, cancelled, op, proc, crashes>>

\* FinishRun(idle) after a reply without calls; its UPDATE has no state guard.
Finish(r) ==
    /\ At(r, "finish")
    /\ SetRun(r, Closed(run[r], "idle"))
    /\ Settles(r, "exit")
    /\ UNCHANGED <<msgs, pad, job, cancelled, op, proc, crashes>>

-----------------------------------------------------------------------------
(* executeCalls *)

First(S) == CHOOSE k \in S : \A j \in S : k <= j
Call(r) == First(job[r].todo)
Name(r) == msgs[job[r].turn].calls[Call(r)]
Id(r)   == <<job[r].turn, Call(r)>>
Served(r) == job' = [job EXCEPT ![r].todo = @ \ {Call(r)}]

SandboxReady(r) ==
    /\ At(r, "ready")
    /\ Goto(r, "check")
    /\ UNCHANGED <<durable, job, cancelled, op, proc, crashes>>

SandboxUnavailable(r) ==
    /\ At(r, "ready") /\ "sandbox" \in FaultKinds
    /\ Goto(r, "error") /\ DropJob(r)
    /\ UNCHANGED <<durable, cancelled, op, proc, crashes>>

CallsServed(r) ==
    /\ At(r, "check") /\ job[r].todo = {}
    /\ Goto(r, "loop") /\ DropJob(r)
    /\ UNCHANGED <<durable, cancelled, op, proc, crashes>>

PauseBeforeCall(r) ==
    /\ At(r, "check") /\ job[r].todo # {} /\ PauseSeen(r)
    /\ Goto(r, "parkCalls") /\ DropJob(r)
    /\ UNCHANGED <<durable, cancelled, op, proc, crashes>>

\* pauseRequested says no when its read fails.
PauseMissed(r) == ~PauseSeen(r) \/ "store" \in FaultKinds

BeginCall(r) ==
    /\ At(r, "check") /\ job[r].todo # {} /\ PauseMissed(r)
    /\ Goto(r, "tool")
    /\ UNCHANGED <<durable, job, cancelled, op, proc, crashes>>

\* The tool ran, reviewers included: a result the loop acts on, or IsError.
ToolReturns(r) ==
    /\ At(r, "tool")
    /\ \E p \in {"succeeded", "failed"} : Goto(r, p)
    /\ Uncancel(r)
    /\ UNCHANGED <<durable, job, op, proc, crashes>>

\* Execute returned an error: a stop if a pause was asked for or the context
\* was cancelled, and an infrastructure error otherwise.
ToolStopped(r) ==
    /\ At(r, "tool")
    /\ cancelled[r] \/ ("sandbox" \in FaultKinds /\ PauseSeen(r))
    /\ Goto(r, "failed")
    /\ Uncancel(r)
    /\ UNCHANGED <<durable, job, op, proc, crashes>>

ToolBroken(r) ==
    /\ At(r, "tool") /\ "sandbox" \in FaultKinds /\ PauseMissed(r)
    /\ Goto(r, "error") /\ DropJob(r)
    /\ Uncancel(r)
    /\ UNCHANGED <<durable, op, proc, crashes>>

HasBoard == pad \in {"draft", "approved"}

\* AppendMessage: a failed result, an ordinary one, or done refused by a gate.
\* UpdateTask appends its result in the transaction that moves the task, and needs
\* a board to move it on.
PersistResult(r) ==
    /\ \/ pc[r] \in {"failed", "doubt"}
       \/ At(r, "succeeded") /\ Name(r) = "plain"
       \/ At(r, "succeeded") /\ Name(r) = "update_task" /\ HasBoard
       \/ At(r, "ship")
    /\ Append1(Result(r, Id(r))) /\ Served(r)
    /\ Goto(r, "reread")
    /\ UNCHANGED <<run, pad, cancelled, op, proc, crashes>>

\* UpdateTask reports an error, of whatever kind: applyControl answers the call
\* with a failed result instead.
TaskFails(r) ==
    /\ At(r, "succeeded") /\ Name(r) = "update_task"
    /\ Goto(r, "failed")
    /\ UNCHANGED <<durable, job, cancelled, op, proc, crashes>>

\* The commit happened and its acknowledgement was lost: the failed result will be
\* the second answer to the call.
TaskInDoubt(r) ==
    /\ At(r, "succeeded") /\ Name(r) = "update_task" /\ HasBoard
    /\ "ack" \in FaultKinds
    /\ Append1(Result(r, Id(r)))
    /\ Goto(r, "doubt")
    /\ UNCHANGED <<run, pad, job, cancelled, op, proc, crashes>>

\* AppendToolResultAndAwait and WritePlan: the result and the wait commit
\* together, or the transaction rolls back and the step is an error.
PersistAndAwait(r, why, board) ==
    /\ IF Running(r)
       THEN /\ Append1(Result(r, Id(r)))
            /\ SetRun(r, Awaiting(run[r], why))
            /\ pad' = board
            /\ Settles(r, "loop")
       ELSE Goto(r, "error") /\ UNCHANGED durable
    /\ DropJob(r)
    /\ UNCHANGED <<cancelled, op, proc, crashes>>

AskHuman(r) ==
    /\ At(r, "succeeded") /\ Name(r) = "ask_human"
    /\ PersistAndAwait(r, "question", pad)

WritePlan(r) ==
    /\ At(r, "succeeded") /\ Name(r) = "create_plan"
    /\ PersistAndAwait(r, "plan_approval", "draft")

\* ship: the worktree and review gates (PersistResult refuses), the push, then
\* three writes of their own: ClearPlan, the shipped result, FinishRun.
BeginShip(r) ==
    /\ At(r, "succeeded") /\ Name(r) = "done"
    /\ Goto(r, "ship")
    /\ UNCHANGED <<durable, job, cancelled, op, proc, crashes>>

PushRejected(r) ==
    /\ At(r, "ship") /\ "sandbox" \in FaultKinds
    /\ PersistAndAwait(r, "error", pad)

ShipBroken(r) ==
    /\ At(r, "ship") /\ "sandbox" \in FaultKinds
    /\ Goto(r, "error") /\ DropJob(r)
    /\ UNCHANGED <<durable, cancelled, op, proc, crashes>>

Push(r) ==
    /\ At(r, "ship")
    /\ Goto(r, "clearplan")
    /\ UNCHANGED <<durable, job, cancelled, op, proc, crashes>>

ClearPlan(r) ==
    /\ At(r, "clearplan")
    /\ pad' = "empty"
    /\ Goto(r, "shipmsg")
    /\ UNCHANGED <<run, msgs, job, cancelled, op, proc, crashes>>

PersistShipped(r) ==
    /\ At(r, "shipmsg")
    /\ Append1(Shipped(r, Id(r))) /\ DropJob(r)
    /\ Goto(r, "shipclose")
    /\ UNCHANGED <<run, pad, cancelled, op, proc, crashes>>

ShipFinish(r) ==
    /\ At(r, "shipclose")
    /\ SetRun(r, Closed(run[r], "done"))
    /\ Settles(r, "loop")
    /\ UNCHANGED <<msgs, pad, job, cancelled, op, proc, crashes>>

\* RunByID after each result: a run that stopped running ends the batch.
Reread(r) ==
    /\ At(r, "reread")
    /\ IF Running(r)
       THEN Goto(r, "check") /\ UNCHANGED job
       ELSE Goto(r, "loop") /\ DropJob(r)
    /\ UNCHANGED <<durable, cancelled, op, proc, crashes>>

\* awaitError: AwaitHuman matches only a running run.
AwaitError(r) ==
    /\ At(r, "error")
    /\ SetRun(r, IF Running(r) THEN Awaiting(run[r], "error") ELSE run[r])
    /\ Goto(r, "exit")
    /\ UNCHANGED <<msgs, pad, job, cancelled, op, proc, crashes>>

\* A database statement of the loop fails.  At the head of the loop, in its own
\* pauseRun and in awaitError itself nothing is left to park the run.
StatementFails(r) ==
    /\ "store" \in FaultKinds
    /\ \/ pc[r] \in {"loop", "park", "error"} /\ Goto(r, "exit")
       \/ /\ \/ pc[r] \in {"advance", "trailing", "stream", "halt", "finish",
                           "ready", "failed", "doubt", "ship", "clearplan",
                           "shipmsg", "shipclose", "reread", "parkStream", "parkCalls"}
             \/ At(r, "succeeded") /\ Name(r) # "update_task"
             \/ At(r, "check") /\ job[r].todo # {}
          /\ Goto(r, "error")

\* The write that led here took effect and was reported as failed.
WriteUnacknowledged(r) ==
    /\ "ack" \in FaultKinds
    /\ pc[r] \in {"finish", "ready", "reread", "shipmsg", "shipclose"}
    /\ Goto(r, "error")

StoreFails(r) ==
    /\ StatementFails(r) \/ WriteUnacknowledged(r)
    /\ DropJob(r) /\ Uncancel(r)
    /\ UNCHANGED <<durable, op, proc, crashes>>

\* The deferred delete(s.workers, runID).
Exit(r) ==
    /\ At(r, "exit")
    /\ Goto(r, "off")
    /\ UNCHANGED <<durable, job, cancelled, op, proc, crashes>>

Drive(r) ==
    \/ LoopLeaves(r) \/ LoopPauses(r) \/ LoopAdvances(r) \/ Park(r)
    \/ CloseTerminal(r) \/ NotTerminal(r) \/ ReplayTrailing(r) \/ AskModel(r)
    \/ (\E s \in Shapes : StreamCompletes(r, s))
    \/ StreamPastBound(r) \/ StreamInterrupted(r) \/ StreamFails(r) \/ StreamSilent(r)
    \/ Halt(r) \/ Finish(r)
    \/ SandboxReady(r) \/ SandboxUnavailable(r) \/ CallsServed(r)
    \/ PauseBeforeCall(r) \/ BeginCall(r)
    \/ ToolReturns(r) \/ ToolStopped(r) \/ ToolBroken(r)
    \/ PersistResult(r) \/ TaskFails(r) \/ TaskInDoubt(r) \/ AskHuman(r) \/ WritePlan(r)
    \/ BeginShip(r) \/ PushRejected(r) \/ ShipBroken(r) \/ Push(r)
    \/ ClearPlan(r) \/ PersistShipped(r) \/ ShipFinish(r)
    \/ Reread(r) \/ AwaitError(r) \/ StoreFails(r) \/ Exit(r)

-----------------------------------------------------------------------------
(* Operator requests.  Each is a handler that reads, commits, and only then *)
(* reaches for the worker: other steps fit between any two of these.        *)

OpAt(h, p)      == op[h].at = p
Step(h, p, r)   == op' = [op EXCEPT ![h] = [at |-> p, run |-> r]]
Return(h)       == op' = [op EXCEPT ![h] = Idle]
Arrives(h)      == proc = "up" /\ OpAt(h, "idle")

\* Submit: ActiveRun says whether this is a new task or an answer.
SubmitReads(h) ==
    /\ Arrives(h)
    /\ \/ Active = {} /\ (\E r \in Runs : run[r].state = "none") /\ Step(h, "create", NoRun)
       \/ \E r \in Active : run[r].reason = "question" /\ Step(h, "answer", r)
    /\ UNCHANGED <<durable, worker, proc, crashes>>

\* CreateRunWithMessage: run_one_active refuses a second active run.
SubmitCreates(h) ==
    /\ OpAt(h, "create")
    /\ IF Active # {}
       THEN Return(h) /\ UNCHANGED <<run, msgs>>
       ELSE \E r \in Runs :
               /\ run[r].state = "none"
               /\ SetRun(r, Fresh)
               /\ Append1(User(r))
               /\ Step(h, "start", r)
    /\ UNCHANGED <<pad, worker, proc, crashes>>

\* Mutant of Answerable: the UPDATE matches the run whatever its state.
AlwaysAnswerable(r) == TRUE

\* AppendAnswerAndResume: guarded by the state, not by what was asked.
Answerable(r) == run[r].state = "awaiting_human"

SubmitAnswers(h) ==
    /\ OpAt(h, "answer")
    /\ LET r == op[h].run IN
       IF Answerable(r)
       THEN SetRun(r, Resumed(run[r])) /\ Append1(User(r)) /\ Step(h, "start", r)
       ELSE Return(h) /\ UNCHANGED <<run, msgs>>
    /\ UNCHANGED <<pad, worker, proc, crashes>>

\* start: a worker that is still registered makes this a no-op.
Start(h) ==
    /\ OpAt(h, "start")
    /\ LET r == op[h].run IN
       pc' = [pc EXCEPT ![r] = IF @ = "off" THEN "loop" ELSE @]
    /\ Return(h)
    /\ UNCHANGED <<durable, job, cancelled, proc, crashes>>

PauseCommits(h) ==
    /\ Arrives(h)
    /\ \E r \in Runs : /\ Running(r)
                       /\ SetRun(r, PauseAsked(run[r]))
                       /\ Step(h, "cancel", r)
    /\ UNCHANGED <<msgs, pad, worker, proc, crashes>>

Cancelling(S) ==
    cancelled' = [r \in Runs |-> cancelled[r] \/ (r \in S /\ pc[r] \in {"stream", "tool"})]

PauseCancels(h) ==
    /\ OpAt(h, "cancel")
    /\ Cancelling({op[h].run})
    /\ Return(h)
    /\ UNCHANGED <<durable, pc, job, proc, crashes>>

\* handleChatResume turns away a run that waits for an answer or a decision.
ResumeReads(h) ==
    /\ Arrives(h)
    /\ \E r \in Active : run[r].reason \notin {"question", "plan_approval"}
    /\ Step(h, "resume", NoRun)
    /\ UNCHANGED <<durable, worker, proc, crashes>>

ResumeCommits(h) ==
    /\ OpAt(h, "resume")
    /\ \/ \E r \in Runs : Resumable(r) /\ SetRun(r, Resumed(run[r])) /\ Step(h, "start", r)
       \/ (\A r \in Runs : ~Resumable(r)) /\ Return(h) /\ UNCHANGED run
    /\ UNCHANGED <<msgs, pad, worker, proc, crashes>>

\* ApprovePlan and RevisePlan: the board, the run and a user turn, in one
\* transaction.
DecideCommits(h) ==
    /\ Arrives(h) /\ pad = "draft"
    /\ \E r \in Runs : /\ Deciding(r)
                       /\ SetRun(r, Decided(run[r]))
                       /\ Append1(User(r))
                       /\ Step(h, "start", r)
    /\ pad' \in {"approved", "revising"}
    /\ UNCHANGED <<worker, proc, crashes>>

\* ClearConversation: refused while a run is active.
Clear(h) ==
    /\ Arrives(h) /\ Active = {} /\ msgs # <<>>
    /\ msgs' = <<>>
    /\ run' = [r \in Runs |-> IF run[r].state = "none" THEN run[r]
                              ELSE [run[r] EXCEPT !.state = "gone"]]
    /\ pad' = "empty"
    /\ UNCHANGED <<worker, op, proc, crashes>>

\* A handler whose statement fails, or whose commit is reported as failed, returns
\* the error and never reaches for the worker.
RequestFails(h) ==
    /\ \/ "store" \in FaultKinds /\ op[h].at \in {"create", "answer", "resume"}
       \/ "ack" \in FaultKinds /\ op[h].at \in {"start", "cancel"}
    /\ Return(h)
    /\ UNCHANGED <<durable, worker, proc, crashes>>

Operate(h) ==
    \/ SubmitReads(h) \/ SubmitCreates(h) \/ SubmitAnswers(h) \/ Start(h)
    \/ PauseCommits(h) \/ PauseCancels(h) \/ ResumeReads(h) \/ ResumeCommits(h)
    \/ DecideCommits(h) \/ Clear(h) \/ RequestFails(h)

-----------------------------------------------------------------------------
(* The process *)

\* Service.Shutdown: no new requests, every stream and tool is cancelled, and
\* the goroutines keep running until the grace period ends.
Shutdown ==
    /\ proc = "up" /\ crashes < MaxCrashes
    /\ proc' = "stopping"
    /\ Cancelling(Runs)
    /\ UNCHANGED <<durable, pc, job, op, crashes>>

\* A kill, a panic or the end of the grace period: memory is lost.
Die ==
    /\ proc \in {"up", "stopping"} /\ crashes < MaxCrashes
    /\ proc' = "down" /\ crashes' = crashes + 1
    /\ pc' = [r \in Runs |-> "off"]
    /\ job' = [r \in Runs |-> NoJob]
    /\ cancelled' = [r \in Runs |-> FALSE]
    /\ op' = [h \in Handlers |-> Idle]
    /\ UNCHANGED durable

\* Mutant of Recovered: a boot that starts nothing.
RecoversNothing(r) == FALSE

\* Recover starts every running run before the server listens.
Recovered(r) == Running(r)

Boot ==
    /\ proc = "down"
    /\ proc' = "up"
    /\ pc' = [r \in Runs |-> IF Recovered(r) THEN "loop" ELSE "off"]
    /\ UNCHANGED <<durable, job, cancelled, op, crashes>>

-----------------------------------------------------------------------------
Init ==
    /\ run = [r \in Runs |-> [state |-> "none", reason |-> "none", pause |-> FALSE]]
    /\ msgs = <<>>
    /\ pad = "empty"
    /\ pc = [r \in Runs |-> "off"]
    /\ job = [r \in Runs |-> NoJob]
    /\ cancelled = [r \in Runs |-> FALSE]
    /\ op = [h \in Handlers |-> Idle]
    /\ proc = "up"
    /\ crashes = 0

Next ==
    \/ \E r \in Runs : Drive(r)
    \/ \E h \in Handlers : Operate(h)
    \/ Shutdown \/ Die \/ Boot

Spec == Init /\ [][Next]_vars

\* The scheduler runs every goroutine, a handler that has begun returns, a
\* model call ends within streamTimeout and a tool within its own timeout, and
\* a dead process is started again.  The operator owes nothing.
Fairness ==
    /\ \A r \in Runs : WF_vars(Drive(r))
    /\ \A h \in Handlers : WF_vars(op[h].at # "idle" /\ Operate(h))
    /\ WF_vars(Boot)
    /\ WF_vars(proc = "stopping" /\ Die)

FairSpec == Spec /\ Fairness

-----------------------------------------------------------------------------
(* Properties *)

Parking == {"park", "parkStream", "parkCalls"}
Calling == {"ready", "check", "tool", "succeeded", "failed", "doubt", "ship",
            "clearplan", "shipmsg", "reread"}
Acting  == Calling \cup Parking \cup
           {"advance", "trailing", "stream", "halt", "finish", "shipclose"}
Places  == Acting \cup {"off", "loop", "error", "exit"}

Message == [run : Runs, role : {"user", "assistant", "interrupted", "tool", "shipped"},
            calls : Seq(ToolNames), call : Nat \X Nat]

\* The types, and one consistency the row must keep: a reason if and only if
\* the run waits for the operator.
TypeOK ==
    /\ run \in [Runs -> RunRow]
    /\ \A r \in Runs : run[r].state = "awaiting_human" <=> run[r].reason # "none"
    /\ msgs \in Seq(Message)
    /\ pad \in {"empty", "draft", "approved", "revising"}
    /\ pc \in [Runs -> Places]
    /\ job \in [Runs -> [turn : Nat, todo : SUBSET Nat]]
    /\ cancelled \in [Runs -> BOOLEAN]
    /\ op \in [Handlers -> [at : {"idle", "create", "answer", "start", "cancel", "resume"},
                            run : Runs \cup {NoRun}]]
    /\ proc \in {"up", "stopping", "down"}
    /\ crashes \in Nat

\* A goroutine past the check at the head of its loop drives a run that is
\* still running, and no second run is active: whatever requests, pauses and
\* restarts interleave, no one else ends the run under it.  FinishRun and
\* AppendMessage carry no state guard of their own and rely on this.  A goroutine
\* that reports an error may have released the run already (AwaitError looks).
DriverOwnsRun ==
    /\ \A r \in Runs : pc[r] \in Acting => Running(r)
    /\ \A r, s \in Active : r = s

ToolOf(c) == msgs[c[1]].calls[c[2]]

\* Across pauses, waits, crashes, replays and lost acknowledgements a call gets at
\* most one result, and the result follows the turn that asked for it, in the same
\* run.  The exception the code makes: an update_task whose commit was not
\* acknowledged is answered a second time, at once and never again.
AnsweredOnce ==
    \A j \in DOMAIN msgs : IsResult(msgs[j]) =>
        /\ msgs[j].call[1] \in 1..(j - 1)
        /\ msgs[j].call[2] \in DOMAIN msgs[msgs[j].call[1]].calls
        /\ msgs[msgs[j].call[1]].run = msgs[j].run
        /\ \A i \in 1..(j - 1) : IsResult(msgs[i]) /\ msgs[i].call = msgs[j].call =>
              i = j - 1 /\ ToolOf(msgs[j].call) = "update_task"

CutShort(r) == \E i \in OfRun(r) : \E k \in DOMAIN msgs[i].calls : ~Answered(<<i, k>>)

\* No request reaches the model while a call of the same run is unanswered,
\* wherever an earlier turn was cut short.
RequestsComplete == \A r \in Runs : At(r, "stream") => ~CutShort(r)

\* A closed run ended for a reason the transcript shows: idle after a complete
\* reply (never after an interrupted one), done after the shipped result.
ClosedRunSettled ==
    \A r \in Runs : run[r].state \in ClosedStates =>
        \E i \in OfRun(r) :
            /\ Newest(i, OfRun(r))
            /\ msgs[i].calls = <<>>
            /\ msgs[i].role = IF run[r].state = "idle" THEN "assistant" ELSE "shipped"

\* A closed run is over: no late answer, resume, recovery or goroutine makes it
\* active again or adds to its transcript.  Only Clear removes it.
ClosedRunsStayClosed ==
    [][\A r \in Runs : run[r].state \in ClosedStates =>
          \/ run'[r].state = "gone"
          \/ /\ run'[r].state = run[r].state
             /\ {i \in DOMAIN msgs' : msgs'[i].run = r} = OfRun(r)]_vars

Driven(r) == pc[r] \notin {"off", "exit"}

\* A committed pause stops a run whose goroutine is driving it, and survives a
\* crash: the run leaves running, however many turns the model still asks for.
PauseParks ==
    \A r \in Runs :
        (Running(r) /\ run[r].pause /\ (Driven(r) \/ proc = "down")) ~> ~Running(r)

\* After a restart the calls a crash cut short are served, or the run stops to
\* wait: even a run the dead process had left without a worker.
RestartServes ==
    \A r \in Runs :
        (Running(r) /\ proc = "down" /\ CutShort(r)) ~> (~Running(r) \/ ~CutShort(r))

-----------------------------------------------------------------------------
(* The run table as its readers see it *)

LifeOf(row) == IF row.state = "awaiting_human" THEN row.reason ELSE row.state

Lifecycle == INSTANCE RunLifecycle WITH
    life  <- [r \in Runs |-> LifeOf(run[r])],
    asked <- {r \in Runs : run[r].pause}

\* The loop, the requests, the crashes and the restarts implement the lifecycle:
\* only asked-for pauses park a run, only a run at work closes, nothing closed or
\* cleared comes back, and two runs are never under way.
ImplementsLifecycle == Lifecycle!Spec

-----------------------------------------------------------------------------
(* What the comments and the screens promise and the code does not keep *)

\* chat.go, scratchpad.go: no work starts while a drafted plan waits for the
\* operator's decision. RunLoop_plan.cfg violates it: of two answers to a question
\* the second commits late and resumes the run out of the plan wait.
PlanGate == pad = "draft" => \A r \in Runs : ~At(r, "tool")

\* Submit "resumes the same run" and ApprovePlan "starts the same run": once
\* the request that set a run running has returned, a goroutine drives it.
NoStrandedRun ==
    \A r \in Runs :
        Running(r) /\ proc = "up" /\ (\A h \in Handlers : op[h] # [at |-> "start", run |-> r])
            => ~At(r, "off")
==============================================================================
