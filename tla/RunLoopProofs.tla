---------------------------- MODULE RunLoopProofs ----------------------------
(***************************************************************************)
(* Proofs about RunLoop, for any number of runs and requests, any shapes of*)
(* turns and any bounds.                                                   *)
(*                                                                         *)
(* The inductive invariant IInv is TypeOK and DriverOwnsRun, strengthened  *)
(* by the two facts they rest on: a goroutine that is past the pause check *)
(* of a call holds one (Workers), and a goroutine that is about to park its*)
(* run has seen a pause request (Owned).  Its parts are kept apart because *)
(* an action seldom disturbs more than two of them.                        *)
(*                                                                         *)
(* What the transcript says of a run follows from who may write to it: its *)
(* goroutine alone while it runs, a request while it waits, nobody once it *)
(* is over.  On top of IInv, Ending carries how a run closes, and Calls how*)
(* its calls are held and answered.                                        *)
(***************************************************************************)
EXTENDS RunLoop, TLAPS, WellFoundedInduction

Sound(row) == row \in RunRow /\ (row.state = "awaiting_human" <=> row.reason # "none")

Rows == run \in [Runs -> RunRow] /\ \A r \in Runs : Sound(run[r])

Held == {"tool", "succeeded", "failed", "doubt", "ship", "clearplan", "shipmsg"}

Workers ==
    /\ pc \in [Runs -> Places]
    /\ job \in [Runs -> [turn : Nat, todo : SUBSET Nat]]
    /\ cancelled \in [Runs -> BOOLEAN]
    /\ \A r \in Runs : pc[r] \in Held => job[r].todo # {}

Transcript == msgs \in Seq(Message)

Others ==
    /\ pad \in {"empty", "draft", "approved", "revising"}
    /\ op \in [Handlers -> [at : {"idle", "create", "answer", "start", "cancel", "resume"},
                            run : Runs \cup {NoRun}]]
    /\ \A h \in Handlers : op[h].at \in {"answer", "start", "cancel"} => op[h].run \in Runs
    /\ proc \in {"up", "stopping", "down"}
    /\ crashes \in Nat

Owned ==
    /\ \A r \in Runs : pc[r] \in Acting => Running(r)
    /\ \A r \in Runs : pc[r] \in Parking => run[r].pause
    /\ \A r, s \in Active : r = s

IInv == Rows /\ Workers /\ Transcript /\ Others /\ Owned

-----------------------------------------------------------------------------
(* Rows *)

\* RequestPause sets the flag and nothing else of the row.
LEMMA PauseKeeps ==
    ASSUME NEW row, Sound(row)
    PROVE  /\ Sound(PauseAsked(row)) /\ PauseAsked(row).pause
           /\ PauseAsked(row).state = row.state
BY DEF Sound, RunRow, PauseAsked

\* A running row that is parked is a sound row, paused.
LEMMA ParkedSound ==
    ASSUME NEW row, Sound(row), row.state = "running"
    PROVE  Sound(Parked(row)) /\ Parked(row).state = "paused"
BY DEF Sound, RunRow, RunStates, ActiveStates, Parked

\* A running row that is finished is a sound row in the state given.
LEMMA ClosedSound ==
    ASSUME NEW row, Sound(row), row.state = "running", NEW s \in ClosedStates
    PROVE  Sound(Closed(row, s)) /\ Closed(row, s).state = s
BY DEF Sound, RunRow, RunStates, ClosedStates, Closed

\* A row that is made to wait is sound, whatever it was: the reason comes with the
\* state.
LEMMA AwaitingSound ==
    ASSUME NEW row, Sound(row), NEW w \in Reasons \ {"none"}
    PROVE  Sound(Awaiting(row, w)) /\ Awaiting(row, w).state = "awaiting_human"
BY DEF Sound, RunRow, RunStates, ActiveStates, Reasons, Awaiting

\* Resuming, deciding a plan and creating a run each leave a sound running row.
LEMMA RestartedSound ==
    ASSUME NEW row, Sound(row)
    PROVE  /\ Sound(Resumed(row)) /\ Resumed(row).state = "running"
           /\ Sound(Decided(row)) /\ Decided(row).state = "running"
           /\ Sound(Fresh) /\ Fresh.state = "running"
BY DEF Sound, RunRow, RunStates, ActiveStates, Reasons, Resumed, Decided, Fresh

-----------------------------------------------------------------------------
(* What a step of a goroutine does to the rows it may own *)

\* A goroutine about to park acts on its row; every acting place is a place.
LEMMA Disjoint == Parking \subseteq Acting /\ Acting \subseteq Places
BY DEF Parking, Acting, Places

\* The goroutine of r moves; the rows stay.
LEMMA Moves ==
    ASSUME Rows, Owned, Workers, NEW r \in Runs, NEW p \in Places, run' = run, Goto(r, p),
           p \in Acting => Running(r),
           p \in Parking => run[r].pause
    PROVE  Owned' /\ Rows'
BY DEF Owned, Workers, Goto, Running, Active, Rows

\* The goroutine of r gives its row up, and leaves the places where it owns it.
LEMMA Releases ==
    ASSUME Rows, Owned, Workers, NEW r \in Runs, NEW p \in Places \ Acting, NEW row,
           SetRun(r, row), Goto(r, p), Sound(row), Running(r)
    PROVE  Owned' /\ Rows'
<1>1. \A s \in Runs \ {r} : pc'[s] = pc[s] /\ run'[s] = run[s]
  BY DEF Workers, Rows, SetRun, Goto
<1>2. pc'[r] = p /\ run'[r] = row /\ row \in RunRow
  BY DEF Workers, Rows, SetRun, Goto, Sound
<1>3. Active' \subseteq Active
  BY <1>1, <1>2 DEF Active, Running, ActiveStates
<1>4. Rows'
  BY <1>1, <1>2 DEF Rows, SetRun
<1> QED BY <1>1, <1>2, <1>3, <1>4, Disjoint DEF Owned, Running

\* No step of a goroutine makes a second run active, or leaves another goroutine
\* acting on a row that is not running.
LEMMA DriveOwned ==
    ASSUME IInv, NEW r \in Runs, Drive(r)
    PROVE  Owned' /\ Rows'
<1> USE DEF IInv
<1>1. CASE LoopLeaves(r) \/ LoopPauses(r) \/ LoopAdvances(r)
  BY <1>1, Moves DEF LoopLeaves, LoopPauses, LoopAdvances, PauseSeen, durable, Parking, Calling, Acting, Places
<1>2. CASE Park(r)
  <2>1. Running(r) /\ Sound(run[r])
    BY <1>2 DEF Park, Owned, Acting, Parking, Rows
  <2>2. SetRun(r, Parked(run[r])) /\ Sound(Parked(run[r]))
    BY <1>2, <2>1, ParkedSound DEF Park, Running
  <2>3. \E p \in Places \ Acting : Goto(r, p)
    BY <1>2 DEF Park, Settles, Places, Acting, Parking, Calling
  <2> QED BY <2>1, <2>2, <2>3, Releases
<1>3. CASE CloseTerminal(r) \/ Finish(r) \/ ShipFinish(r)
  <2>1. Running(r) /\ Sound(run[r])
    BY <1>3 DEF CloseTerminal, Finish, ShipFinish, At, Owned, Acting, Rows
  <2>2. PICK s \in ClosedStates : SetRun(r, Closed(run[r], s))
    BY <1>3 DEF CloseTerminal, Finish, ShipFinish, ClosedStates
  <2>3. \E p \in Places \ Acting : Goto(r, p)
    BY <1>3 DEF CloseTerminal, Finish, ShipFinish, Settles, Places, Acting, Parking, Calling
  <2> QED BY <2>1, <2>2, <2>3, ClosedSound, Releases DEF Running
<1>4. CASE NotTerminal(r) \/ ReplayTrailing(r) \/ AskModel(r)
  BY <1>4, Moves DEF NotTerminal, ReplayTrailing, AskModel, At, Owned, durable, Parking, Calling, Acting, Places
<1>5. CASE \/ (\E s \in Shapes : StreamCompletes(r, s)) \/ StreamPastBound(r)
           \/ StreamInterrupted(r) \/ StreamFails(r) \/ StreamSilent(r) \/ Halt(r)
  BY <1>5, Moves DEF StreamCompletes, StreamPastBound, StreamInterrupted, Settles, StreamFails,
     StreamSilent, Halt, PauseSeen, At, Owned, durable, Parking, Calling, Acting, Places
<1>6. CASE \/ SandboxReady(r) \/ SandboxUnavailable(r) \/ CallsServed(r)
           \/ PauseBeforeCall(r) \/ BeginCall(r)
  BY <1>6, Moves DEF SandboxReady, SandboxUnavailable, CallsServed, PauseBeforeCall,
     BeginCall, At, PauseSeen, Owned, durable, Parking, Calling, Acting, Places
<1>7. CASE \/ ToolReturns(r) \/ ToolStopped(r) \/ ToolBroken(r) \/ PersistResult(r)
           \/ TaskFails(r) \/ TaskInDoubt(r)
  BY <1>7, Moves DEF ToolReturns, ToolStopped, ToolBroken, PersistResult, TaskFails, TaskInDoubt,
     At, Owned, durable, Parking, Calling, Acting, Places
<1>8. CASE AskHuman(r) \/ WritePlan(r) \/ PushRejected(r)
  <2>1. Running(r) /\ Sound(run[r])
    BY <1>8 DEF AskHuman, WritePlan, PushRejected, At, Owned, Calling, Acting, Rows
  <2>2. PICK w \in Reasons \ {"none"} : SetRun(r, Awaiting(run[r], w))
    BY <1>8, <2>1 DEF AskHuman, WritePlan, PushRejected, PersistAndAwait, Settles, Reasons
  <2>3. \E p \in Places \ Acting : Goto(r, p)
    BY <1>8, <2>1 DEF AskHuman, WritePlan, PushRejected, PersistAndAwait, Settles, Places, Acting,
       Parking, Calling
  <2> QED BY <2>1, <2>2, <2>3, AwaitingSound, Releases
<1>9. CASE \/ BeginShip(r) \/ ShipBroken(r) \/ Push(r) \/ ClearPlan(r)
           \/ PersistShipped(r) \/ Reread(r)
  BY <1>9, Moves DEF BeginShip, ShipBroken, Push, ClearPlan, PersistShipped, Reread, At,
     Owned, durable, Parking, Calling, Acting, Places
<1>10. CASE AwaitError(r) /\ Running(r)
  <2>1. Running(r) /\ Sound(run[r])
    BY <1>10 DEF Rows
  <2>2. SetRun(r, Awaiting(run[r], "error")) /\ "error" \in Reasons \ {"none"}
    BY <1>10, <2>1 DEF AwaitError, Reasons
  <2>3. "exit" \in Places \ Acting /\ Goto(r, "exit")
    BY <1>10 DEF AwaitError, Places, Acting, Parking, Calling
  <2> QED BY <2>1, <2>2, <2>3, AwaitingSound, Releases
<1>12. CASE AwaitError(r) /\ ~Running(r)
  <2>1. SetRun(r, run[r]) /\ "exit" \in Places \ Acting /\ Goto(r, "exit")
    BY <1>12 DEF AwaitError, Places, Acting, Parking, Calling
  <2>2. run' = run
    BY <2>1 DEF SetRun, Rows
  <2> QED BY <2>1, <2>2, Moves, Disjoint
<1>11. CASE StoreFails(r) \/ Exit(r)
  BY <1>11, Moves DEF StoreFails, StatementFails, WriteUnacknowledged, Exit, At, Owned, durable, Parking, Calling, Acting, Places
<1> QED
  BY <1>1, <1>2, <1>3, <1>4, <1>5, <1>6, <1>7, <1>8, <1>9, <1>10, <1>11, <1>12 DEF Drive

-----------------------------------------------------------------------------
(* What a step of a goroutine does to the workers' memory *)

\* A goroutine that moves may change its job and its contexts, if it still has a
\* call where one is held.
LEMMA WorkerMoves ==
    ASSUME Workers, NEW r \in Runs, NEW p \in Places, Goto(r, p),
           NEW j \in [turn : Nat, todo : SUBSET Nat], job' = [job EXCEPT ![r] = j],
           NEW b \in BOOLEAN, cancelled' = [cancelled EXCEPT ![r] = b],
           p \in Held => j.todo # {}
    PROVE  Workers'
BY DEF Workers, Goto

\* The goroutine moves and keeps its job.
LEMMA KeepsJob ==
    ASSUME Workers, NEW r \in Runs, NEW p \in Places, Goto(r, p), job' = job,
           cancelled' = cancelled \/ Uncancel(r),
           p \in Held => job[r].todo # {}
    PROVE  Workers'
BY DEF Workers, Goto, Uncancel

\* The goroutine moves and drops its job.
LEMMA DropsJob ==
    ASSUME Workers, NEW r \in Runs, NEW p \in Places \ Held, Goto(r, p), DropJob(r),
           cancelled' = cancelled \/ Uncancel(r)
    PROVE  Workers'
BY DEF Workers, Goto, Uncancel, DropJob, NoJob

\* executeCalls takes the calls in order: the least that is left is one of them.
LEMMA LeastCall ==
    ASSUME Workers, NEW r \in Runs, job[r].todo # {}
    PROVE  Call(r) \in job[r].todo /\ Call(r) \in Nat
<1>1. job[r].todo \in SUBSET Nat
  BY DEF Workers
<1>2. PICK Less : /\ Less = {p \in Nat \X Nat : p[1] < p[2]}
                   /\ IsWellFoundedOn(Less, Nat)
  BY NatLessThanWellFounded DEF OpToRel
<1>3. PICK k \in job[r].todo : \A j \in job[r].todo : <<j, k>> \notin Less
  BY <1>1, <1>2, WFMin
<1>4. \A j \in job[r].todo : k <= j
  <2>1. ASSUME NEW j \in job[r].todo PROVE k <= j
    <3>1. j \in Nat /\ k \in Nat
      BY <1>1
    <3>2. ~ (j < k)
      BY <1>2, <1>3, <3>1
    <3> QED BY <3>1, <3>2
  <2> QED BY <2>1
<1> QED BY <1>1, <1>4 DEF Call, First

\* A message is of the message type, and its calls are numbered from one.
LEMMA TurnTypes ==
    ASSUME Transcript, NEW i \in DOMAIN msgs
    PROVE  i \in Nat /\ msgs[i] \in Message /\ DOMAIN msgs[i].calls \subseteq Nat
<1>1. i \in 1..Len(msgs) /\ msgs[i] \in Message
  BY DEF Transcript
<1>2. msgs[i].calls \in Seq(ToolNames)
  BY <1>1 DEF Message
<1>3. DOMAIN msgs[i].calls = 1..Len(msgs[i].calls)
  BY <1>2
<1> QED BY <1>1, <1>2, <1>3

\* Every step of a goroutine leaves a call in the job wherever one is being served.
LEMMA DriveWorkers ==
    ASSUME IInv, NEW r \in Runs, Drive(r)
    PROVE  Workers'
<1> USE DEF IInv
<1>1. CASE \/ LoopLeaves(r) \/ LoopPauses(r) \/ LoopAdvances(r) \/ Park(r)
           \/ CloseTerminal(r) \/ NotTerminal(r) \/ AskModel(r) \/ Halt(r) \/ Finish(r)
  BY <1>1, KeepsJob DEF LoopLeaves, LoopPauses, LoopAdvances, Park, CloseTerminal, NotTerminal,
     AskModel, Halt, Finish, Settles, durable, Held, Parking, Calling, Acting, Places
<1>8. CASE \/ StreamPastBound(r) \/ StreamInterrupted(r) \/ StreamFails(r) \/ StreamSilent(r)
  BY <1>8, KeepsJob DEF StreamPastBound, StreamInterrupted, Settles, StreamFails, StreamSilent,
     durable, Held, Parking, Calling, Acting, Places
<1>2. CASE \/ SandboxReady(r) \/ BeginCall(r) \/ ToolReturns(r) \/ ToolStopped(r)
           \/ TaskFails(r) \/ TaskInDoubt(r)
           \/ BeginShip(r) \/ Push(r) \/ ClearPlan(r) \/ ShipFinish(r)
           \/ AwaitError(r) \/ Exit(r)
  BY <1>2, KeepsJob DEF SandboxReady, BeginCall, ToolReturns, ToolStopped, TaskFails, TaskInDoubt,
     BeginShip, Push, ClearPlan, ShipFinish, Settles, AwaitError, Exit, At, Workers,
     durable, Held, Parking, Calling, Acting, Places
<1>3. CASE \/ SandboxUnavailable(r) \/ CallsServed(r) \/ PauseBeforeCall(r) \/ ToolBroken(r)
           \/ AskHuman(r) \/ WritePlan(r) \/ PushRejected(r) \/ ShipBroken(r)
           \/ PersistShipped(r) \/ StoreFails(r)
  BY <1>3, DropsJob DEF SandboxUnavailable, CallsServed, PauseBeforeCall, ToolBroken,
     AskHuman, WritePlan, PushRejected, PersistAndAwait, Settles, ShipBroken, PersistShipped, StoreFails, StatementFails, WriteUnacknowledged,
     durable, Held, Parking, Calling, Acting, Places
<1>4. CASE Reread(r)
  BY <1>4, KeepsJob, DropsJob DEF Reread, durable, Held, Parking, Calling, Acting, Places
<1>5. CASE ReplayTrailing(r)
  <2>1. PICK i \in ToolTurns(r) :
           /\ Unanswered(i) # {}
           /\ job' = [job EXCEPT ![r] = [turn |-> i, todo |-> Unanswered(i)]]
    BY <1>5 DEF ReplayTrailing
  <2>2. i \in DOMAIN msgs /\ Unanswered(i) \subseteq DOMAIN msgs[i].calls
    BY DEF ToolTurns, OfRun, Unanswered
  <2>4. [turn |-> i, todo |-> Unanswered(i)] \in [turn : Nat, todo : SUBSET Nat]
    BY <2>2, TurnTypes
  <2>3. Goto(r, "ready") /\ cancelled' = [cancelled EXCEPT ![r] = cancelled[r]]
    BY <1>5 DEF ReplayTrailing, Workers
  <2>5. cancelled[r] \in BOOLEAN /\ "ready" \in Places \ Held
    BY DEF Workers, Held, Calling, Acting, Places
  <2> QED BY <2>1, <2>3, <2>4, <2>5, WorkerMoves
<1>6. CASE \E s \in Shapes : StreamCompletes(r, s)
  <2>1. PICK s \in Shapes : StreamCompletes(r, s)
    BY <1>6
  <2>2. CASE s = <<>>
    BY <2>1, <2>2, KeepsJob DEF StreamCompletes, Held, Calling, Acting, Places
  <2>3. CASE s # <<>>
    <3>1. DOMAIN s = 1..Len(s) /\ Len(msgs) + 1 \in Nat
      BY RunLoopAssumption DEF Transcript
    <3>2. [turn |-> Len(msgs) + 1, todo |-> DOMAIN s] \in [turn : Nat, todo : SUBSET Nat]
      BY <3>1
    <3>3. Goto(r, "ready") /\ "ready" \in Places \ Held
      BY <2>1, <2>3 DEF StreamCompletes, Held, Calling, Acting, Places
    <3>4. /\ job' = [job EXCEPT ![r] = [turn |-> Len(msgs) + 1, todo |-> DOMAIN s]]
          /\ cancelled' = [cancelled EXCEPT ![r] = FALSE]
      BY <2>1, <2>3 DEF StreamCompletes, Uncancel
    <3> QED BY <3>2, <3>3, <3>4, WorkerMoves
  <2> QED BY <2>2, <2>3
<1>7. CASE PersistResult(r)
  <2>1. /\ Goto(r, "reread") /\ "reread" \in Places \ Held
        /\ cancelled' = [cancelled EXCEPT ![r] = cancelled[r]] /\ cancelled[r] \in BOOLEAN
    BY <1>7 DEF PersistResult, Workers, Held, Calling, Acting, Places
  <2>2. job' = [job EXCEPT ![r].todo = @ \ {Call(r)}]
    BY <1>7 DEF PersistResult, Served
  <2>3. PICK j \in [turn : Nat, todo : SUBSET Nat] : job' = [job EXCEPT ![r] = j]
    BY <2>2 DEF Workers
  <2> QED BY <2>1, <2>3, WorkerMoves
<1> QED
  BY <1>1, <1>8, <1>2, <1>3, <1>4, <1>5, <1>6, <1>7 DEF Drive

-----------------------------------------------------------------------------
(* Transcript and requests *)

\* A message appended to a typed transcript leaves it typed.
LEMMA Appends ==
    ASSUME Transcript, NEW m \in Message, Append1(m)
    PROVE  Transcript'
BY DEF Transcript, Append1

\* Each kind of message the code appends is a message.
LEMMA MessageTypes ==
    ASSUME NEW r \in Runs, NEW s \in Seq(ToolNames), NEW c \in Nat \X Nat
    PROVE  {User(r), Assistant(r, s), Partial(r), Result(r, c), Shipped(r, c)} \subseteq Message
BY DEF User, Assistant, Partial, Result, Shipped, NoCall, Message

\* Where a call is held, it has an identifier to answer under.
LEMMA CallId ==
    ASSUME Workers, NEW r \in Runs, pc[r] \in Held
    PROVE  Id(r) \in Nat \X Nat
BY LeastCall DEF Workers, Id

\* Every step of a goroutine leaves the transcript and the board typed.
LEMMA DriveTranscript ==
    ASSUME IInv, NEW r \in Runs, Drive(r)
    PROVE  Transcript'
<1> USE DEF IInv
<1>1. CASE \/ LoopLeaves(r) \/ LoopPauses(r) \/ LoopAdvances(r) \/ Park(r)
           \/ CloseTerminal(r) \/ NotTerminal(r) \/ ReplayTrailing(r) \/ AskModel(r)
           \/ StreamPastBound(r) \/ StreamFails(r) \/ StreamSilent(r) \/ Halt(r) \/ Finish(r)
  BY <1>1 DEF LoopLeaves, LoopPauses, LoopAdvances, Park, CloseTerminal, NotTerminal,
     ReplayTrailing, AskModel, StreamPastBound, StreamFails, StreamSilent, Halt, Finish,
     durable, Transcript
<1>2. CASE \/ SandboxReady(r) \/ SandboxUnavailable(r) \/ CallsServed(r) \/ PauseBeforeCall(r)
           \/ BeginCall(r) \/ ToolReturns(r) \/ ToolStopped(r) \/ ToolBroken(r) \/ TaskFails(r)
           \/ BeginShip(r) \/ ShipBroken(r) \/ Push(r) \/ ClearPlan(r) \/ ShipFinish(r)
           \/ Reread(r) \/ AwaitError(r) \/ StoreFails(r) \/ Exit(r)
  BY <1>2 DEF SandboxReady, SandboxUnavailable, CallsServed, PauseBeforeCall, BeginCall,
     ToolReturns, ToolStopped, ToolBroken, TaskFails, BeginShip, ShipBroken, Push, ClearPlan, ShipFinish,
     Reread, AwaitError, StoreFails, StatementFails, WriteUnacknowledged, Exit, durable, Transcript
<1>3. CASE \E s \in Shapes : StreamCompletes(r, s)
  <2>1. PICK s \in Shapes : Append1(Assistant(r, s))
    BY <1>3 DEF StreamCompletes
  <2>2. s \in Seq(ToolNames) /\ <<0, 0>> \in Nat \X Nat
    BY RunLoopAssumption
  <2>3. Assistant(r, s) \in Message
    BY <2>2, MessageTypes
  <2> QED BY <2>1, <2>3, Appends
<1>4. CASE StreamInterrupted(r)
  <2>1. <<>> \in Seq(ToolNames) /\ <<0, 0>> \in Nat \X Nat
    BY RunLoopAssumption
  <2>2. Partial(r) \in Message
    BY <2>1, MessageTypes
  <2> QED BY <1>4, <2>2, Appends DEF StreamInterrupted
<1>5. CASE PersistResult(r) \/ TaskInDoubt(r) \/ PersistShipped(r)
  <2>1. Id(r) \in Nat \X Nat
    BY <1>5, CallId DEF PersistResult, TaskInDoubt, PersistShipped, At, Held
  <2> QED BY <1>5, <2>1, RunLoopAssumption, MessageTypes, Appends
       DEF PersistResult, TaskInDoubt, PersistShipped
<1>6. CASE AskHuman(r) \/ WritePlan(r) \/ PushRejected(r)
  <2>1. Id(r) \in Nat \X Nat
    BY <1>6, CallId DEF AskHuman, WritePlan, PushRejected, At, Held
  <2> QED BY <1>6, <2>1, RunLoopAssumption, MessageTypes, Appends
       DEF AskHuman, WritePlan, PushRejected, PersistAndAwait, Settles, durable, Transcript
<1> QED
  BY <1>1, <1>2, <1>3, <1>4, <1>5, <1>6 DEF Drive

\* A goroutine touches neither the requests nor the process.
LEMMA DriveOthers ==
    ASSUME IInv, NEW r \in Runs, Drive(r)
    PROVE  Others'
<1>1. UNCHANGED <<op, proc, crashes>>
  BY DEF Drive, LoopLeaves, LoopPauses, LoopAdvances, Park, CloseTerminal, NotTerminal,
     ReplayTrailing, AskModel, StreamCompletes, StreamPastBound, StreamInterrupted, StreamFails,
     StreamSilent, Halt, Finish, SandboxReady, SandboxUnavailable, CallsServed, PauseBeforeCall,
     BeginCall, ToolReturns, ToolStopped, ToolBroken, PersistResult, TaskFails, TaskInDoubt, AskHuman,
     WritePlan, PushRejected, PersistAndAwait, Settles, BeginShip, ShipBroken, Push, ClearPlan, PersistShipped,
     ShipFinish, Reread, AwaitError, StoreFails, StatementFails, WriteUnacknowledged, Exit
<1>2. pad' \in {pad, "empty", "draft"}
  BY DEF Drive, LoopLeaves, LoopPauses, LoopAdvances, Park, CloseTerminal, NotTerminal,
     ReplayTrailing, AskModel, StreamCompletes, StreamPastBound, StreamInterrupted, StreamFails,
     StreamSilent, Halt, Finish, SandboxReady, SandboxUnavailable, CallsServed, PauseBeforeCall,
     BeginCall, ToolReturns, ToolStopped, ToolBroken, PersistResult, TaskFails, TaskInDoubt, AskHuman,
     WritePlan, PushRejected, PersistAndAwait, Settles, BeginShip, ShipBroken, Push, ClearPlan, PersistShipped,
     ShipFinish, Reread, AwaitError, StoreFails, StatementFails, WriteUnacknowledged, Exit, durable
<1> QED BY <1>1, <1>2 DEF IInv, Others

-----------------------------------------------------------------------------
(* What a request of the operator does *)

\* A request sets a run at work that was not, and that no other run excludes.
LEMMA Takes ==
    ASSUME Rows, Owned, NEW r \in Runs, ~Running(r), Active \subseteq {r}, NEW row, Sound(row),
           row.state = "running", SetRun(r, row), pc' = pc
    PROVE  Owned' /\ Rows'
<1>1. \A s \in Runs \ {r} : run'[s] = run[s]
  BY DEF Rows, SetRun
<1>2. run'[r] = row /\ row \in RunRow
  BY DEF Rows, SetRun, Sound
<1>3. Active' \subseteq {r}
  BY <1>1, <1>2 DEF Active
<1>4. Rows'
  BY <1>1, <1>2 DEF Rows, SetRun
<1>5. pc[r] \notin Acting
  BY DEF Owned
<1> QED BY <1>1, <1>2, <1>3, <1>4, <1>5, Disjoint DEF Owned, Running

\* No step of a request takes a row from the goroutine that acts on it, or makes a
\* second run active.
LEMMA OperateOwned ==
    ASSUME IInv, NEW h \in Handlers, Operate(h)
    PROVE  Owned' /\ Rows'
<1> USE DEF IInv
<1>1. CASE SubmitReads(h) \/ PauseCancels(h) \/ ResumeReads(h) \/ RequestFails(h)
  BY <1>1 DEF SubmitReads, PauseCancels, ResumeReads, RequestFails, durable, worker, Owned, Rows, Running, Active
<1>2. CASE SubmitCreates(h)
  <2>1. CASE Active # {}
    BY <1>2, <2>1 DEF SubmitCreates, worker, Owned, Rows, Running, Active
  <2>2. CASE Active = {}
    <3>1. PICK r \in Runs : run[r].state = "none" /\ SetRun(r, Fresh)
      BY <1>2, <2>2 DEF SubmitCreates
    <3>2. Sound(Fresh) /\ Fresh.state = "running"
      BY <3>1, RestartedSound DEF Rows
    <3>3. ~Running(r) /\ pc' = pc
      BY <1>2, <3>1 DEF SubmitCreates, Running, worker
    <3> QED BY <2>2, <3>1, <3>2, <3>3, Takes
  <2> QED BY <2>1, <2>2
<1>3. CASE SubmitAnswers(h)
  <2>1. CASE ~Answerable(op[h].run)
    BY <1>3, <2>1 DEF SubmitAnswers, worker, Owned, Rows, Running, Active
  <2>2. CASE Answerable(op[h].run)
    <3>1. op[h].run \in Runs
      BY <1>3 DEF SubmitAnswers, OpAt, Others
    <3>2. op[h].run \in Active /\ ~Running(op[h].run) /\ Sound(run[op[h].run])
      BY <2>2, <3>1 DEF Answerable, Active, ActiveStates, Running, Rows
    <3>3. SetRun(op[h].run, Resumed(run[op[h].run])) /\ pc' = pc
      BY <1>3, <2>2 DEF SubmitAnswers, worker
    <3>4. Active \subseteq {op[h].run}
      BY <3>2 DEF Owned
    <3> QED BY <3>1, <3>2, <3>3, <3>4, Takes, RestartedSound
  <2> QED BY <2>1, <2>2
<1>4. CASE Start(h)
  BY <1>4, Disjoint DEF Start, durable, Owned, Rows, Running, Active, Workers, Acting, Parking, Calling
<1>5. CASE PauseCommits(h)
  <2>1. PICK r \in Runs : Running(r) /\ SetRun(r, PauseAsked(run[r]))
    BY <1>5 DEF PauseCommits
  <2>2. pc' = pc
    BY <1>5 DEF PauseCommits, worker
  <2>3. /\ Sound(PauseAsked(run[r])) /\ PauseAsked(run[r]).pause
        /\ PauseAsked(run[r]).state = run[r].state
    BY PauseKeeps DEF Rows
  <2>4. /\ \A s \in Runs \ {r} : run'[s] = run[s]
        /\ run'[r] = PauseAsked(run[r])
    BY <2>1 DEF SetRun, Rows
  <2>5. Rows'
    BY <2>1, <2>3, <2>4 DEF Rows, SetRun, Sound
  <2>6. Active' = Active
    BY <2>3, <2>4 DEF Active
  <2> QED BY <2>2, <2>3, <2>4, <2>5, <2>6 DEF Owned, Running
<1>6. CASE ResumeCommits(h)
  <2>1. CASE run' = run
    BY <1>6, <2>1 DEF ResumeCommits, worker, Owned, Rows, Running, Active
  <2>2. CASE \E r \in Runs : Resumable(r) /\ SetRun(r, Resumed(run[r]))
    <3>1. PICK r \in Runs : Resumable(r) /\ SetRun(r, Resumed(run[r]))
      BY <2>2
    <3>2. r \in Active /\ ~Running(r) /\ Sound(run[r])
      BY <3>1 DEF Resumable, Active, ActiveStates, Running, Rows
    <3>3. Active \subseteq {r} /\ pc' = pc
      BY <1>6, <3>2 DEF Owned, ResumeCommits, worker
    <3> QED BY <3>1, <3>2, <3>3, Takes, RestartedSound
  <2> QED BY <1>6, <2>1, <2>2 DEF ResumeCommits
<1>7. CASE DecideCommits(h)
  <2>1. PICK r \in Runs : Deciding(r) /\ SetRun(r, Decided(run[r]))
    BY <1>7 DEF DecideCommits
  <2>2. r \in Active /\ ~Running(r) /\ Sound(run[r])
    BY <2>1 DEF Deciding, Active, ActiveStates, Running, Rows
  <2>3. Active \subseteq {r} /\ pc' = pc
    BY <1>7, <2>2 DEF Owned, DecideCommits, worker
  <2> QED BY <2>1, <2>2, <2>3, Takes, RestartedSound
<1>8. CASE Clear(h)
  <2>1. /\ Active = {} /\ pc' = pc
        /\ run' = [r \in Runs |-> IF run[r].state = "none" THEN run[r]
                                  ELSE [run[r] EXCEPT !.state = "gone"]]
    BY <1>8 DEF Clear, worker
  <2>2. \A r \in Runs : run[r].state \notin ActiveStates /\ Sound(run[r])
    BY <2>1 DEF Active, Rows
  <2>3. \A r \in Runs : Sound(run'[r]) /\ run'[r].state \notin ActiveStates
    BY <2>1, <2>2 DEF Sound, RunRow, RunStates, ActiveStates
  <2>4. Rows' /\ Active' = {}
    BY <2>1, <2>3 DEF Rows, Sound, Active
  <2>5. \A r \in Runs : pc'[r] \notin Acting
    BY <2>1, <2>2 DEF Owned, Running, ActiveStates
  <2> QED BY <2>4, <2>5, Disjoint DEF Owned
<1> QED BY <1>1, <1>2, <1>3, <1>4, <1>5, <1>6, <1>7, <1>8 DEF Operate

\* A request leaves the workers, the transcript and the requests typed.
LEMMA OperateRest ==
    ASSUME IInv, NEW h \in Handlers, Operate(h)
    PROVE  Workers' /\ Transcript' /\ Others'
<1> USE DEF IInv
<1>1. Workers'
  <2>1. CASE Start(h)
    BY <2>1 DEF Start, Workers, Held, Places, Acting
  <2>2. CASE PauseCancels(h)
    BY <2>2 DEF PauseCancels, Cancelling, Workers
  <2>3. CASE ~Start(h) /\ ~PauseCancels(h)
    BY <2>3 DEF Operate, SubmitReads, SubmitCreates, SubmitAnswers, PauseCommits,
       ResumeReads, RequestFails, ResumeCommits, DecideCommits, Clear, worker, Workers
  <2> QED BY <2>1, <2>2, <2>3
<1>2. Transcript'
  <2>1. <<>> \in Seq(ToolNames) /\ <<0, 0>> \in Nat \X Nat
    BY RunLoopAssumption
  <2>2. \A r \in Runs : Append1(User(r)) => Transcript'
    BY <2>1, MessageTypes, Appends
  <2>3. CASE SubmitCreates(h)
    BY <2>2, <2>3 DEF SubmitCreates, Transcript
  <2>4. CASE SubmitAnswers(h)
    BY <2>2, <2>4 DEF SubmitAnswers, Transcript, OpAt, Others
  <2>5. CASE DecideCommits(h)
    BY <2>2, <2>5 DEF DecideCommits
  <2>6. CASE Clear(h)
    BY <2>6 DEF Clear, Transcript
  <2>7. CASE SubmitReads(h) \/ Start(h) \/ PauseCommits(h) \/ PauseCancels(h)
             \/ ResumeReads(h) \/ RequestFails(h) \/ ResumeCommits(h)
    BY <2>7 DEF SubmitReads, Start, PauseCommits, PauseCancels, ResumeReads, RequestFails, ResumeCommits,
       durable, Transcript
  <2> QED BY <2>3, <2>4, <2>5, <2>6, <2>7 DEF Operate
<1>3. Others'
  <2>1. CASE SubmitReads(h) \/ ResumeReads(h)
    BY <2>1 DEF SubmitReads, ResumeReads, Step, Others, durable, Active
  <2>2. CASE SubmitCreates(h)
    BY <2>2 DEF SubmitCreates, Step, Return, Idle, Others
  <2>3. CASE SubmitAnswers(h)
    BY <2>3 DEF SubmitAnswers, OpAt, Step, Return, Idle, Others
  <2>4. CASE Start(h) \/ PauseCancels(h) \/ RequestFails(h)
    BY <2>4 DEF Start, PauseCancels, RequestFails, Return, Idle, Others, durable
  <2>5. CASE PauseCommits(h) \/ ResumeCommits(h) \/ DecideCommits(h) \/ Clear(h)
    BY <2>5 DEF PauseCommits, ResumeCommits, DecideCommits, Clear, Step, Return, Idle, Others
  <2> QED BY <2>1, <2>2, <2>3, <2>4, <2>5 DEF Operate
<1> QED BY <1>1, <1>2, <1>3

-----------------------------------------------------------------------------
(* The invariant *)

\* A shutdown, a death and a boot keep the invariant: a death ends every goroutine,
\* and a boot starts them before the head of the loop.
LEMMA ProcessInv ==
    ASSUME IInv, Shutdown \/ Die \/ Boot
    PROVE  IInv'
<1> USE DEF IInv
<1>1. CASE Shutdown
  <2>1. UNCHANGED <<run, msgs, pad, pc, job, op, crashes>> /\ proc' = "stopping"
    BY <1>1 DEF Shutdown, durable
  <2>2. Workers'
    BY <1>1, <2>1 DEF Shutdown, Cancelling, Workers
  <2> QED BY <2>1, <2>2 DEF Rows, Transcript, Others, Owned, Running, Active
<1>2. CASE Die
  <2>1. UNCHANGED <<run, msgs, pad>> /\ proc' = "down" /\ crashes' = crashes + 1
    BY <1>2 DEF Die, durable
  <2>2. \A r \in Runs : pc'[r] = "off"
    BY <1>2 DEF Die
  <2>3. Workers'
    BY <1>2 DEF Die, Workers, NoJob, Held, Places
  <2>4. Others'
    BY <1>2, <2>1 DEF Die, Others, Idle
  <2>5. Owned'
    BY <2>1, <2>2, Disjoint DEF Owned, Active, Acting, Parking, Calling
  <2> QED BY <2>1, <2>3, <2>4, <2>5 DEF Rows, Transcript
<1>3. CASE Boot
  <2>1. UNCHANGED <<run, msgs, pad, job, cancelled, op, crashes>> /\ proc' = "up"
    BY <1>3 DEF Boot, durable
  <2>2. \A r \in Runs : pc'[r] \in {"off", "loop"}
    BY <1>3 DEF Boot
  <2>3. Workers'
    BY <1>3, <2>1, <2>2 DEF Boot, Workers, Held, Places
  <2>4. Owned'
    BY <2>1, <2>2, Disjoint DEF Owned, Active, Acting, Parking, Calling
  <2> QED BY <2>1, <2>3, <2>4 DEF Rows, Transcript, Others
<1> QED BY <1>1, <1>2, <1>3

\* Initially there is neither a run nor a goroutine.
LEMMA InitInv == Init => IInv
<1> SUFFICES ASSUME Init PROVE IInv
  OBVIOUS
<1>1. Rows
  BY DEF Init, Rows, Sound, RunRow, RunStates, Reasons
<1>2. Workers
  BY DEF Init, Workers, Places, Held, NoJob
<1>3. Transcript /\ Others
  BY DEF Init, Transcript, Others, Idle
<1>4. Owned
  BY DEF Init, Owned, Acting, Parking, Calling, Active, ActiveStates
<1> QED BY <1>1, <1>2, <1>3, <1>4 DEF IInv

\* Every step, stuttering included, keeps the inductive invariant.
LEMMA NextInv == IInv /\ [Next]_vars => IInv'
<1> SUFFICES ASSUME IInv, [Next]_vars PROVE IInv'
  OBVIOUS
<1>1. ASSUME NEW r \in Runs, Drive(r) PROVE IInv'
  BY <1>1, DriveOwned, DriveWorkers, DriveTranscript, DriveOthers DEF IInv
<1>2. ASSUME NEW h \in Handlers, Operate(h) PROVE IInv'
  BY <1>2, OperateOwned, OperateRest DEF IInv
<1>3. CASE Shutdown \/ Die \/ Boot
  BY <1>3, ProcessInv
<1>4. CASE UNCHANGED vars
  BY <1>4 DEF vars, IInv, Rows, Workers, Transcript, Others, Owned, Running, Active
<1> QED BY <1>1, <1>2, <1>3, <1>4 DEF Next

\* Every reachable state satisfies the inductive invariant.
THEOREM Invariance == Spec => []IInv
BY InitInv, NextInv, PTL DEF Spec

\* TypeOK for any number of runs, requests, turns and crashes: in particular the
\* run row has a reason exactly while it waits for the operator.
THEOREM TypeCorrect == Spec => []TypeOK
<1>1. IInv => TypeOK
  BY DEF IInv, Rows, Sound, Workers, Transcript, Others, TypeOK
<1> QED BY <1>1, Invariance, PTL

\* DriverOwnsRun: the goroutine that acts for a run always finds it running, and
\* two runs are never active together, so the unguarded UPDATE of FinishRun and
\* the INSERT of AppendMessage never touch a run that someone else ended.
THEOREM DriverOwns == Spec => []DriverOwnsRun
<1>1. IInv => DriverOwnsRun
  BY DEF IInv, Owned, DriverOwnsRun
<1> QED BY <1>1, Invariance, PTL

-----------------------------------------------------------------------------
(* Refinement: every step of the loop is a step of the lifecycle, or none *)

life  == [r \in Runs |-> LifeOf(run[r])]
asked == {r \in Runs : run[r].pause}

\* The lifecycle's view of a sound row: open exactly when active, and the states it
\* names are the row's.
LEMMA Lives ==
    ASSUME NEW row, Sound(row)
    PROVE  /\ LifeOf(row) \in Lifecycle!Open <=> row.state \in ActiveStates
           /\ \A l \in {"none", "running", "paused", "idle", "done"} :
                 LifeOf(row) = l <=> row.state = l
BY DEF Sound, RunRow, RunStates, ActiveStates, ClosedStates, Reasons, LifeOf,
   Lifecycle!Open, Lifecycle!Waits

\* What the update of one row looks like to the lifecycle.
LEMMA RowStep ==
    ASSUME Rows, NEW r \in Runs, NEW row, Sound(row), SetRun(r, row)
    PROVE  /\ life' = [life EXCEPT ![r] = LifeOf(row)]
           /\ asked' = IF row.pause THEN asked \cup {r} ELSE asked \ {r}
<1>1. /\ \A s \in Runs \ {r} : run'[s] = run[s]
      /\ run'[r] = row
  BY DEF Rows, SetRun
<1>2. life' = [life EXCEPT ![r] = LifeOf(row)]
  <2>1. \A s \in Runs : life'[s] = IF s = r THEN LifeOf(row) ELSE life[s]
    BY <1>1 DEF life
  <2> QED BY <2>1 DEF life
<1>3. asked' = IF row.pause THEN asked \cup {r} ELSE asked \ {r}
  <2>1. CASE row.pause
    BY <1>1, <2>1 DEF asked
  <2>2. CASE ~row.pause
    BY <1>1, <2>2 DEF asked
  <2> QED BY <2>1, <2>2
<1> QED BY <1>2, <1>3

\* The runs under way in the lifecycle are the active rows.
LEMMA Together ==
    ASSUME Rows
    PROVE  Lifecycle!UnderWay = Active
BY Lives DEF Lifecycle!UnderWay, Active, Rows

\* What each update of a row does to its pause flag.
LEMMA PauseKept ==
    ASSUME NEW row, Sound(row), NEW w, NEW s
    PROVE  /\ Parked(row).pause = row.pause
           /\ Closed(row, s).pause = row.pause
           /\ Awaiting(row, w).pause = row.pause
           /\ Decided(row).pause = row.pause
           /\ Resumed(row).pause = FALSE
           /\ Fresh.pause = FALSE
BY DEF Sound, RunRow, Parked, Closed, Awaiting, Decided, Resumed, Fresh

\* A step that leaves the rows alone is a stutter of the lifecycle.
LEMMA Stutters == run' = run => UNCHANGED Lifecycle!vars
BY DEF Lifecycle!vars, life, asked

\* A request or a step that keeps the pause flag of the row it writes.
LEMMA KeepsAsked ==
    ASSUME Rows, NEW r \in Runs, NEW row, Sound(row), SetRun(r, row), row.pause = run[r].pause
    PROVE  asked' = asked
BY RowStep DEF asked

\* A step of a goroutine is a stutter or a legal step of its run's life.
LEMMA DriveLives ==
    ASSUME IInv, NEW r \in Runs, Drive(r)
    PROVE  run' = run \/ Lifecycle!Live(r)
<1> USE DEF IInv
<1>1. CASE Park(r)
  <2>1. Running(r) /\ run[r].pause /\ Sound(run[r])
    BY <1>1, Disjoint DEF Park, Owned, Parking, Rows
  <2>2. SetRun(r, Parked(run[r])) /\ Sound(Parked(run[r])) /\ LifeOf(Parked(run[r])) = "paused"
    BY <1>1, <2>1, ParkedSound, Lives DEF Park, Running
  <2>3. life[r] = "running" /\ r \in asked
    BY <2>1, Lives DEF life, asked, Running
  <2>4. Parked(run[r]).pause = run[r].pause
    BY <2>1, PauseKept
  <2>5. life' = [life EXCEPT ![r] = "paused"] /\ asked' = asked
    BY <2>1, <2>2, <2>4, RowStep, KeepsAsked
  <2> QED BY <2>3, <2>5 DEF Lifecycle!Live, Lifecycle!Park, Lifecycle!Turn, life, asked
<1>2. CASE CloseTerminal(r) \/ Finish(r) \/ ShipFinish(r)
  <2>1. Running(r) /\ Sound(run[r])
    BY <1>2 DEF CloseTerminal, Finish, ShipFinish, At, Owned, Acting, Rows
  <2>2. PICK s \in ClosedStates : SetRun(r, Closed(run[r], s))
    BY <1>2 DEF CloseTerminal, Finish, ShipFinish, ClosedStates
  <2>3. Sound(Closed(run[r], s)) /\ LifeOf(Closed(run[r], s)) = s
    BY <2>1, ClosedSound, Lives DEF Running, ClosedStates
  <2>4. life[r] = "running"
    BY <2>1, Lives DEF life, Running
  <2>5. life' = [life EXCEPT ![r] = s] /\ asked' = asked
    BY <2>1, <2>2, <2>3, RowStep, KeepsAsked, PauseKept
  <2>6. s \in Lifecycle!Over
    BY DEF ClosedStates, Lifecycle!Over
  <2> QED BY <2>4, <2>5, <2>6 DEF Lifecycle!Live, Lifecycle!Close, Lifecycle!Turn, life, asked
<1>3. CASE AskHuman(r) \/ WritePlan(r) \/ PushRejected(r) \/ (AwaitError(r) /\ Running(r))
  <2>1. Running(r) /\ Sound(run[r])
    BY <1>3 DEF AskHuman, WritePlan, PushRejected, At, Owned, Calling, Acting, Rows
  <2>2. PICK w \in Reasons \ {"none"} : SetRun(r, Awaiting(run[r], w))
    BY <1>3, <2>1 DEF AskHuman, WritePlan, PushRejected, AwaitError, PersistAndAwait, Settles, Reasons
  <2>3. Sound(Awaiting(run[r], w)) /\ LifeOf(Awaiting(run[r], w)) = w
    BY <2>1, AwaitingSound DEF LifeOf, Awaiting, Sound, RunRow
  <2>4. life[r] = "running"
    BY <2>1, Lives DEF life, Running
  <2>5. life' = [life EXCEPT ![r] = w] /\ asked' = asked
    BY <2>1, <2>2, <2>3, RowStep, KeepsAsked, PauseKept
  <2>6. w \in Lifecycle!Waits
    BY DEF Reasons, Lifecycle!Waits
  <2> QED BY <2>4, <2>5, <2>6 DEF Lifecycle!Live, Lifecycle!Wait, Lifecycle!Turn, life, asked
<1>4. CASE ~ ( \/ Park(r) \/ CloseTerminal(r) \/ Finish(r) \/ ShipFinish(r) \/ AskHuman(r)
               \/ WritePlan(r) \/ PushRejected(r) \/ AwaitError(r) )
  BY <1>4 DEF Drive, LoopLeaves, LoopPauses, LoopAdvances, NotTerminal, ReplayTrailing,
     AskModel, StreamCompletes, StreamPastBound, StreamInterrupted, StreamFails, StreamSilent,
     Halt, SandboxReady, SandboxUnavailable, CallsServed, PauseBeforeCall, BeginCall,
     ToolReturns, ToolStopped, ToolBroken, PersistResult, TaskFails, TaskInDoubt, BeginShip,
     ShipBroken, Push, ClearPlan, PersistShipped, Reread, StoreFails, StatementFails, WriteUnacknowledged, Exit, durable
<1>5. CASE AwaitError(r) /\ ~Running(r)
  BY <1>5 DEF AwaitError, SetRun, Rows
<1> QED BY <1>1, <1>2, <1>3, <1>4, <1>5

\* A step of a request is a stutter or a legal step of the lifecycle.
LEMMA OperateLives ==
    ASSUME IInv, NEW h \in Handlers, Operate(h)
    PROVE  run' = run \/ Lifecycle!Next
<1> USE DEF IInv
<1>1. CASE \E r \in Runs : Lifecycle!Live(r)
  BY <1>1 DEF Lifecycle!Next
<1>2. CASE SubmitCreates(h) /\ Active = {}
  <2>1. PICK r \in Runs : run[r].state = "none" /\ SetRun(r, Fresh)
    BY <1>2 DEF SubmitCreates
  <2>2. Sound(run[r]) /\ Sound(Fresh) /\ Fresh.state = "running" /\ Fresh.pause = FALSE
    BY <2>1, RestartedSound, PauseKept DEF Rows
  <2>3. life[r] = "none" /\ LifeOf(Fresh) = "running" /\ Lifecycle!UnderWay = {}
    BY <1>2, <2>1, <2>2, Lives, Together DEF life
  <2>4. life' = [life EXCEPT ![r] = "running"] /\ asked' = asked \ {r}
    BY <2>1, <2>2, <2>3, RowStep
  <2>5. Lifecycle!Create(r)
    BY <2>3, <2>4 DEF Lifecycle!Create, Lifecycle!Turn, life, asked
  <2> QED BY <1>1, <2>5 DEF Lifecycle!Live
<1>3. CASE \E r \in Runs : /\ run[r].state \in {"paused", "awaiting_human"}
                           /\ SetRun(r, Resumed(run[r]))
  <2>1. PICK r \in Runs : /\ run[r].state \in {"paused", "awaiting_human"}
                          /\ SetRun(r, Resumed(run[r]))
    BY <1>3
  <2>2. /\ Sound(run[r]) /\ Sound(Resumed(run[r])) /\ Resumed(run[r]).pause = FALSE
        /\ LifeOf(Resumed(run[r])) = "running"
    BY RestartedSound, PauseKept, Lives DEF Rows
  <2>3. life[r] \in {"paused"} \cup Lifecycle!Waits
    BY <2>1, <2>2 DEF life, LifeOf, Sound, RunRow, Reasons, Lifecycle!Waits
  <2>4. life' = [life EXCEPT ![r] = "running"] /\ asked' = asked \ {r}
    BY <2>1, <2>2, RowStep
  <2>5. Lifecycle!Resume(r)
    BY <2>3, <2>4 DEF Lifecycle!Resume, Lifecycle!Turn, life, asked
  <2> QED BY <1>1, <2>5 DEF Lifecycle!Live
<1>4. CASE DecideCommits(h)
  <2>1. PICK r \in Runs : Deciding(r) /\ SetRun(r, Decided(run[r]))
    BY <1>4 DEF DecideCommits
  <2>2. /\ Sound(run[r]) /\ Sound(Decided(run[r])) /\ Decided(run[r]).pause = run[r].pause
        /\ LifeOf(Decided(run[r])) = "running"
    BY RestartedSound, PauseKept, Lives DEF Rows
  <2>3. life[r] = "plan_approval"
    BY <2>1 DEF life, LifeOf, Deciding
  <2>4. life' = [life EXCEPT ![r] = "running"] /\ asked' = asked
    BY <2>1, <2>2, RowStep, KeepsAsked
  <2>5. Lifecycle!Decide(r)
    BY <2>3, <2>4 DEF Lifecycle!Decide, Lifecycle!Turn, life, asked
  <2> QED BY <1>1, <2>5 DEF Lifecycle!Live
<1>5. CASE PauseCommits(h)
  <2>1. PICK r \in Runs : Running(r) /\ SetRun(r, PauseAsked(run[r]))
    BY <1>5 DEF PauseCommits
  <2>2. /\ Sound(run[r]) /\ Sound(PauseAsked(run[r])) /\ PauseAsked(run[r]).pause
        /\ LifeOf(PauseAsked(run[r])) = "running" /\ LifeOf(run[r]) = "running"
    BY <2>1, PauseKeeps, Lives DEF Rows, Running
  <2>3. life' = [life EXCEPT ![r] = "running"] /\ asked' = asked \cup {r}
    BY <2>1, <2>2, RowStep
  <2>4. life[r] = "running" /\ life' = life
    BY <2>2, <2>3 DEF life
  <2>5. Lifecycle!AskPause(r)
    BY <2>3, <2>4 DEF Lifecycle!AskPause, life, asked
  <2> QED BY <1>1, <2>5 DEF Lifecycle!Live
<1>6. CASE Clear(h)
  <2>1. Lifecycle!UnderWay = {}
    BY <1>6, Together DEF Clear
  <2>2. run' = [r \in Runs |-> IF run[r].state = "none" THEN run[r]
                               ELSE [run[r] EXCEPT !.state = "gone"]]
    BY <1>6 DEF Clear
  <2>3. \A r \in Runs : /\ LifeOf(run'[r]) = IF LifeOf(run[r]) = "none" THEN "none" ELSE "gone"
                        /\ run'[r].pause = run[r].pause
    <3> SUFFICES ASSUME NEW r \in Runs
                 PROVE  /\ LifeOf(run'[r]) = IF LifeOf(run[r]) = "none" THEN "none" ELSE "gone"
                        /\ run'[r].pause = run[r].pause
      OBVIOUS
    <3>1. Sound(run[r])
      BY DEF Rows
    <3>2. CASE run[r].state = "none"
      BY <2>2, <3>1, <3>2, Lives DEF LifeOf
    <3>3. CASE run[r].state # "none"
      <4>1. run'[r].state = "gone" /\ run'[r].pause = run[r].pause
        BY <2>2, <3>1, <3>3 DEF Sound, RunRow
      <4>2. LifeOf(run'[r]) = "gone"
        BY <4>1 DEF LifeOf
      <4> QED BY <3>1, <3>3, <4>1, <4>2, Lives
    <3> QED BY <3>2, <3>3
  <2>4. life' = [r \in Runs |-> IF life[r] = "none" THEN "none" ELSE "gone"] /\ asked' = asked
    BY <2>3 DEF life, asked
  <2>5. Lifecycle!Clear
    BY <2>1, <2>4 DEF Lifecycle!Clear, life, asked
  <2> QED BY <2>5 DEF Lifecycle!Next
<1>7. CASE SubmitAnswers(h)
  <2>1. op[h].run \in Runs
    BY <1>7 DEF SubmitAnswers, OpAt, Others
  <2> QED BY <1>3, <1>7, <2>1 DEF SubmitAnswers, Answerable
<1>8. CASE ResumeCommits(h)
  BY <1>3, <1>8 DEF ResumeCommits, Resumable
<1>9. CASE SubmitReads(h) \/ Start(h) \/ PauseCancels(h) \/ ResumeReads(h) \/ RequestFails(h)
           \/ (SubmitCreates(h) /\ Active # {})
  BY <1>9 DEF SubmitReads, Start, PauseCancels, ResumeReads, RequestFails, SubmitCreates, durable
<1> QED BY <1>2, <1>4, <1>5, <1>6, <1>7, <1>8, <1>9 DEF Operate

\* RunLoop implements RunLifecycle: whatever goroutines, requests, crashes and
\* restarts do, a reader of the run table sees only legal lives.
THEOREM Refinement == Spec => ImplementsLifecycle
<1>1. Init => Lifecycle!Init
  <2> SUFFICES ASSUME Init PROVE Lifecycle!Init
    OBVIOUS
  <2>1. \A r \in Runs : LifeOf(run[r]) = "none" /\ run[r].pause = FALSE
    BY DEF Init, LifeOf
  <2> QED BY <2>1 DEF Lifecycle!Init
<1>2. IInv /\ [Next]_vars => [Lifecycle!Next]_(Lifecycle!vars)
  <2> SUFFICES ASSUME IInv, [Next]_vars PROVE run' = run \/ Lifecycle!Next
    BY Stutters
  <2>1. ASSUME NEW r \in Runs, Drive(r) PROVE run' = run \/ Lifecycle!Next
    BY <2>1, DriveLives DEF Lifecycle!Next
  <2>2. ASSUME NEW h \in Handlers, Operate(h) PROVE run' = run \/ Lifecycle!Next
    BY <2>2, OperateLives
  <2>3. CASE Shutdown \/ Die \/ Boot
    BY <2>3 DEF Shutdown, Die, Boot, durable
  <2>4. CASE UNCHANGED vars
    BY <2>4 DEF vars
  <2> QED BY <2>1, <2>2, <2>3, <2>4 DEF Next
<1> QED BY <1>1, <1>2, Invariance, PTL DEF Spec, ImplementsLifecycle, Lifecycle!Spec

-----------------------------------------------------------------------------
(* Who writes to a run: its row and the part of the transcript it holds *)

\* What a step leaves of run r: its messages, where they are and as they were.
Untouched(r) ==
    /\ OfRun(r)' = OfRun(r)
    /\ \A i \in OfRun(r) : msgs'[i] = msgs[i]

\* An appended message takes the next place and changes no other.
LEMMA Extended ==
    ASSUME Transcript, NEW m \in Message, Append1(m)
    PROVE  /\ Len(msgs) + 1 \notin DOMAIN msgs
           /\ \A i \in DOMAIN msgs : i < Len(msgs) + 1 /\ i \in Nat
           /\ DOMAIN msgs' = DOMAIN msgs \cup {Len(msgs) + 1}
           /\ \A i \in DOMAIN msgs : msgs'[i] = msgs[i]
           /\ msgs'[Len(msgs) + 1] = m
BY DEF Transcript, Append1

\* A message belongs to one run, and leaves the others alone.
LEMMA SparesOthers ==
    ASSUME Transcript, NEW m \in Message, Append1(m), NEW r \in Runs, m.run # r
    PROVE  Untouched(r)
<1>1. \A i \in DOMAIN msgs' : msgs'[i].run = r <=> i \in DOMAIN msgs /\ msgs[i].run = r
  BY Extended
<1>2. OfRun(r)' = OfRun(r)
  BY <1>1, Extended DEF OfRun
<1> QED BY <1>2, Extended DEF OfRun, Untouched

\* A step that leaves the transcript alone leaves every run's part of it alone.
LEMMA SparesAll == msgs' = msgs => \A r \in Runs : Untouched(r)
BY DEF Untouched, OfRun

\* A goroutine appends to the transcript of its own run, and to no other.
LEMMA DriveSpeaks ==
    ASSUME IInv, NEW r \in Runs, Drive(r)
    PROVE  msgs' = msgs \/ \E m \in Message : m.run = r /\ Append1(m)
<1> USE DEF IInv
<1>1. CASE \/ LoopLeaves(r) \/ LoopPauses(r) \/ LoopAdvances(r) \/ Park(r)
           \/ CloseTerminal(r) \/ NotTerminal(r) \/ ReplayTrailing(r) \/ AskModel(r)
           \/ StreamPastBound(r) \/ StreamFails(r) \/ StreamSilent(r) \/ Halt(r) \/ Finish(r)
  BY <1>1 DEF LoopLeaves, LoopPauses, LoopAdvances, Park, CloseTerminal, NotTerminal,
     ReplayTrailing, AskModel, StreamPastBound, StreamFails, StreamSilent, Halt, Finish, durable
<1>2. CASE \/ SandboxReady(r) \/ SandboxUnavailable(r) \/ CallsServed(r) \/ PauseBeforeCall(r)
           \/ BeginCall(r) \/ ToolReturns(r) \/ ToolStopped(r) \/ ToolBroken(r) \/ TaskFails(r)
           \/ BeginShip(r) \/ ShipBroken(r) \/ Push(r) \/ ClearPlan(r) \/ ShipFinish(r)
           \/ Reread(r) \/ AwaitError(r) \/ StoreFails(r) \/ Exit(r)
  BY <1>2 DEF SandboxReady, SandboxUnavailable, CallsServed, PauseBeforeCall, BeginCall,
     ToolReturns, ToolStopped, ToolBroken, TaskFails, BeginShip, ShipBroken, Push, ClearPlan, ShipFinish,
     Reread, AwaitError, StoreFails, StatementFails, WriteUnacknowledged, Exit, durable
<1>3. CASE \E s \in Shapes : StreamCompletes(r, s)
  <2>1. PICK s \in Shapes : Append1(Assistant(r, s))
    BY <1>3 DEF StreamCompletes
  <2>2. s \in Seq(ToolNames) /\ <<0, 0>> \in Nat \X Nat
    BY RunLoopAssumption
  <2>3. Assistant(r, s) \in Message /\ Assistant(r, s).run = r
    BY <2>2, MessageTypes DEF Assistant
  <2> QED BY <2>1, <2>3
<1>4. CASE StreamInterrupted(r)
  <2>1. <<>> \in Seq(ToolNames) /\ <<0, 0>> \in Nat \X Nat
    BY RunLoopAssumption
  <2>2. Partial(r) \in Message /\ Partial(r).run = r
    BY <2>1, MessageTypes DEF Partial
  <2> QED BY <1>4, <2>2 DEF StreamInterrupted
<1>5. CASE \/ PersistResult(r) \/ TaskInDoubt(r) \/ PersistShipped(r)
           \/ AskHuman(r) \/ WritePlan(r) \/ PushRejected(r)
  <2>1. Id(r) \in Nat \X Nat
    BY <1>5, CallId DEF PersistResult, TaskInDoubt, PersistShipped, AskHuman, WritePlan, PushRejected, At, Held
  <2>2. <<>> \in Seq(ToolNames)
    BY RunLoopAssumption
  <2>3. /\ Result(r, Id(r)) \in Message /\ Result(r, Id(r)).run = r
        /\ Shipped(r, Id(r)) \in Message /\ Shipped(r, Id(r)).run = r
    BY <2>1, <2>2, MessageTypes DEF Result, Shipped
  <2>4. \/ msgs' = msgs
        \/ Append1(Result(r, Id(r)))
        \/ Append1(Shipped(r, Id(r)))
    BY <1>5 DEF PersistResult, TaskInDoubt, PersistShipped, AskHuman, WritePlan, PushRejected,
       PersistAndAwait, Settles, durable
  <2> QED BY <2>3, <2>4
<1> QED BY <1>1, <1>2, <1>3, <1>4, <1>5 DEF Drive

\* A goroutine writes no row but its own.
LEMMA DriveOwnRow ==
    ASSUME IInv, NEW r \in Runs, Drive(r), NEW s \in Runs \ {r}
    PROVE  run'[s] = run[s]
<1>1. run' = run \/ \E row : run' = [run EXCEPT ![r] = row]
  BY DEF Drive, LoopLeaves, LoopPauses, LoopAdvances, Park, CloseTerminal, NotTerminal,
     ReplayTrailing, AskModel, StreamCompletes, StreamPastBound, StreamInterrupted, StreamFails,
     StreamSilent, Halt, Finish, SandboxReady, SandboxUnavailable, CallsServed, PauseBeforeCall,
     BeginCall, ToolReturns, ToolStopped, ToolBroken, PersistResult, TaskFails, TaskInDoubt, AskHuman,
     WritePlan, PushRejected, PersistAndAwait, Settles, BeginShip, ShipBroken, Push, ClearPlan, PersistShipped,
     ShipFinish, Reread, AwaitError, StoreFails, StatementFails, WriteUnacknowledged, Exit, durable, SetRun
<1> QED BY <1>1 DEF IInv, Rows

\* A goroutine moves itself and no other.
LEMMA DriveOwnPlace ==
    ASSUME IInv, NEW r \in Runs, Drive(r), NEW s \in Runs \ {r}
    PROVE  pc'[s] = pc[s]
<1>1. \E p : pc' = [pc EXCEPT ![r] = p]
  BY DEF Drive, LoopLeaves, LoopPauses, LoopAdvances, Park, CloseTerminal, NotTerminal,
     ReplayTrailing, AskModel, StreamCompletes, StreamPastBound, StreamInterrupted, StreamFails,
     StreamSilent, Halt, Finish, SandboxReady, SandboxUnavailable, CallsServed, PauseBeforeCall,
     BeginCall, ToolReturns, ToolStopped, ToolBroken, PersistResult, TaskFails, TaskInDoubt, AskHuman,
     WritePlan, PushRejected, PersistAndAwait, Settles, BeginShip, ShipBroken, Push, ClearPlan, PersistShipped,
     ShipFinish, Reread, AwaitError, StoreFails, StatementFails, WriteUnacknowledged, Exit,
     Settles, Goto
<1> QED BY <1>1 DEF IInv, Workers

\* Outside the places where it acts a goroutine writes nothing, but for the error
\* of a run that is running.
LEMMA DriveIdles ==
    ASSUME IInv, NEW r \in Runs, Drive(r), pc[r] \notin Acting, ~Running(r)
    PROVE  run' = run /\ msgs' = msgs
BY DEF IInv, Rows, SetRun, Drive, LoopLeaves, LoopPauses, LoopAdvances, Park, CloseTerminal, NotTerminal,
   ReplayTrailing, AskModel, StreamCompletes, StreamPastBound, StreamInterrupted, StreamFails,
   StreamSilent, Halt, Finish, SandboxReady, SandboxUnavailable, CallsServed, PauseBeforeCall,
   BeginCall, ToolReturns, ToolStopped, ToolBroken, PersistResult, TaskFails, TaskInDoubt, AskHuman,
   WritePlan, PushRejected, PersistAndAwait, Settles, BeginShip, ShipBroken, Push, ClearPlan, PersistShipped,
   ShipFinish, Reread, AwaitError, StoreFails, StatementFails, WriteUnacknowledged, Exit, durable, At, Acting, Parking, Calling

\* A request writes to a run that waits or that it creates: never to one that is
\* running or over, except for the pause flag, and except for Clear.
LEMMA OperateSpares ==
    ASSUME IInv, NEW h \in Handlers, Operate(h), ~Clear(h), NEW r \in Runs,
           run[r].state \in ClosedStates \cup {"running"}
    PROVE  run'[r].state = run[r].state /\ Untouched(r)
<1> USE DEF IInv
<1>1. ASSUME NEW s \in Runs, s # r, Append1(User(s)), NEW row, SetRun(s, row)
      PROVE  run'[r].state = run[r].state /\ Untouched(r)
  <2>1. <<>> \in Seq(ToolNames) /\ <<0, 0>> \in Nat \X Nat
    BY RunLoopAssumption
  <2>2. User(s) \in Message /\ User(s).run = s
    BY <2>1, MessageTypes DEF User
  <2> QED BY <1>1, <2>2, SparesOthers DEF SetRun, Rows
<1>2. CASE run' = run /\ msgs' = msgs
  BY <1>2, SparesAll
<1>3. CASE SubmitReads(h) \/ Start(h) \/ PauseCancels(h) \/ ResumeReads(h) \/ RequestFails(h)
  BY <1>2, <1>3 DEF SubmitReads, Start, PauseCancels, ResumeReads, RequestFails, durable
<1>4. CASE SubmitCreates(h)
  <2>1. CASE Active = {}
    <3>1. PICK s \in Runs : run[s].state = "none" /\ SetRun(s, Fresh) /\ Append1(User(s))
      BY <1>4, <2>1 DEF SubmitCreates
    <3>2. s # r
      BY <3>1 DEF ClosedStates
    <3> QED BY <1>1, <3>1, <3>2
  <2> QED BY <1>2, <1>4, <2>1 DEF SubmitCreates
<1>5. CASE SubmitAnswers(h)
  <2>1. CASE Answerable(op[h].run)
    <3>1. op[h].run \in Runs /\ op[h].run # r
      BY <1>5, <2>1 DEF SubmitAnswers, OpAt, Others, Answerable, ClosedStates
    <3> QED BY <1>1, <1>5, <2>1, <3>1 DEF SubmitAnswers
  <2> QED BY <1>2, <1>5, <2>1 DEF SubmitAnswers
<1>6. CASE PauseCommits(h)
  <2>1. PICK s \in Runs : SetRun(s, PauseAsked(run[s])) /\ msgs' = msgs
    BY <1>6 DEF PauseCommits
  <2>2. PauseAsked(run[s]).state = run[s].state
    BY PauseKeeps DEF Rows
  <2> QED BY <2>1, <2>2, SparesAll DEF SetRun, Rows
<1>7. CASE ResumeCommits(h)
  <2>1. CASE \E s \in Runs : Resumable(s) /\ SetRun(s, Resumed(run[s]))
    <3>1. PICK s \in Runs : Resumable(s) /\ SetRun(s, Resumed(run[s]))
      BY <2>1
    <3>2. s # r /\ msgs' = msgs
      BY <1>7, <3>1 DEF ResumeCommits, Resumable, ClosedStates
    <3> QED BY <3>1, <3>2, SparesAll DEF SetRun, Rows
  <2> QED BY <1>2, <1>7, <2>1 DEF ResumeCommits
<1>8. CASE DecideCommits(h)
  <2>1. PICK s \in Runs : Deciding(s) /\ SetRun(s, Decided(run[s])) /\ Append1(User(s))
    BY <1>8 DEF DecideCommits
  <2>2. s # r
    BY <2>1 DEF Deciding, ClosedStates
  <2> QED BY <1>1, <2>1, <2>2
<1> QED BY <1>3, <1>4, <1>5, <1>6, <1>7, <1>8 DEF Operate

\* Clear finds no run active, and leaves neither a message nor a run that is over.
LEMMA ClearEmpties ==
    ASSUME IInv, NEW h \in Handlers, Clear(h)
    PROVE  /\ msgs' = <<>> /\ UNCHANGED <<pc, job>>
           /\ \A r \in Runs : run'[r].state \in {"none", "gone"} /\ pc[r] \notin Acting
           /\ \A r \in Runs : run[r].state \in ClosedStates => run'[r].state = "gone"
<1>1. /\ Active = {} /\ pc' = pc /\ job' = job /\ msgs' = <<>>
      /\ run' = [r \in Runs |-> IF run[r].state = "none" THEN run[r]
                                ELSE [run[r] EXCEPT !.state = "gone"]]
  BY DEF Clear, worker
<1>2. \A r \in Runs : run[r] \in RunRow /\ pc[r] \notin Acting
  BY <1>1 DEF IInv, Rows, Owned, Running, Active, ActiveStates
<1>3. \A r \in Runs : run[r].state # "none" => run'[r].state = "gone"
  BY <1>1, <1>2 DEF RunRow
<1>4. \A r \in Runs : run[r].state = "none" => run'[r].state = "none"
  BY <1>1
<1> QED BY <1>1, <1>2, <1>3, <1>4 DEF ClosedStates

\* A run that is over is written by no goroutine and by no request but Clear.
LEMMA ClosedKept ==
    ASSUME IInv, [Next]_vars, NEW r \in Runs, run[r].state \in ClosedStates
    PROVE  \/ run'[r].state = "gone"
           \/ run'[r].state = run[r].state /\ Untouched(r)
<1>1. ASSUME NEW s \in Runs, Drive(s) PROVE run'[r].state = run[r].state /\ Untouched(r)
  <2>1. CASE s = r
    <3>1. pc[r] \notin Acting /\ ~Running(r)
      BY DEF IInv, Owned, Running, ClosedStates
    <3> QED BY <1>1, <2>1, <3>1, DriveIdles, SparesAll
  <2>2. CASE s # r
    <3>1. run'[r] = run[r]
      BY <1>1, <2>2, DriveOwnRow
    <3>2. Untouched(r)
      BY <1>1, <2>2, DriveSpeaks, SparesOthers, SparesAll DEF IInv
    <3> QED BY <3>1, <3>2
  <2> QED BY <2>1, <2>2
<1>2. ASSUME NEW h \in Handlers, Operate(h), ~Clear(h)
      PROVE  run'[r].state = run[r].state /\ Untouched(r)
  BY <1>2, OperateSpares
<1>3. ASSUME NEW h \in Handlers, Clear(h) PROVE run'[r].state = "gone"
  BY <1>3, ClearEmpties
<1>4. CASE Shutdown \/ Die \/ Boot \/ UNCHANGED vars
  BY <1>4, SparesAll DEF Shutdown, Die, Boot, vars, durable
<1> QED BY <1>1, <1>2, <1>3, <1>4 DEF Next

\* ClosedRunsStayClosed: no late answer, resume, restart or goroutine writes to a run
\* that is over; only Clear removes it.
THEOREM StayClosed == Spec => ClosedRunsStayClosed
<1>1. ASSUME IInv, [Next]_vars
      PROVE  [\A r \in Runs : run[r].state \in ClosedStates =>
                \/ run'[r].state = "gone"
                \/ /\ run'[r].state = run[r].state
                   /\ {i \in DOMAIN msgs' : msgs'[i].run = r} = OfRun(r)]_vars
  BY <1>1, ClosedKept DEF Untouched, OfRun
<1> QED BY <1>1, Invariance, PTL DEF Spec, ClosedRunsStayClosed

-----------------------------------------------------------------------------
(* How a run ends: the last thing in its transcript *)

\* The last message of r has the role given and asks for nothing.
EndsIn(r, role) ==
    \E i \in OfRun(r) : Newest(i, OfRun(r)) /\ msgs[i].calls = <<>> /\ msgs[i].role = role

\* A goroutine about to close its run has written what closes it.
Ending ==
    \A r \in Runs :
        /\ pc[r] = "finish" => EndsIn(r, "assistant")
        /\ pc[r] = "shipclose" => EndsIn(r, "shipped")
        /\ run[r].state = "idle" => EndsIn(r, "assistant")
        /\ run[r].state = "done" => EndsIn(r, "shipped")

\* A run that nobody writes to ends as it did.
LEMMA EndKept ==
    ASSUME NEW r \in Runs, Untouched(r), NEW role, EndsIn(r, role)
    PROVE  EndsIn(r, role)'
BY DEF Untouched, EndsIn, Newest

\* A run ends in the message that was just appended for it.
LEMMA EndWritten ==
    ASSUME Transcript, NEW m \in Message, Append1(m), m.run \in Runs, m.calls = <<>>
    PROVE  EndsIn(m.run, m.role)'
<1>1. Len(msgs) + 1 \in OfRun(m.run)'
  BY Extended DEF OfRun
<1>2. \A j \in OfRun(m.run)' : j <= Len(msgs) + 1
  BY Extended DEF OfRun, Transcript
<1> QED BY <1>1, <1>2, Extended DEF EndsIn, Newest

\* A step of a goroutine arrives where it closes its run, or closes it, with the
\* transcript ending as it should.
LEMMA DriveEnds ==
    ASSUME IInv, Ending, NEW r \in Runs, Drive(r)
    PROVE  /\ pc'[r] = "finish" => EndsIn(r, "assistant")'
           /\ pc'[r] = "shipclose" => EndsIn(r, "shipped")'
           /\ run'[r].state = "idle" => EndsIn(r, "assistant")'
           /\ run'[r].state = "done" => EndsIn(r, "shipped")'
<1> DEFINE Goal == /\ pc'[r] = "finish" => EndsIn(r, "assistant")'
                   /\ pc'[r] = "shipclose" => EndsIn(r, "shipped")'
                   /\ run'[r].state = "idle" => EndsIn(r, "assistant")'
                   /\ run'[r].state = "done" => EndsIn(r, "shipped")'
<1>0. /\ pc \in [Runs -> Places] /\ run \in [Runs -> RunRow]
      /\ pc[r] \in Acting => run[r].state = "running"
  BY DEF IInv, Rows, Workers, Owned, Running
<1>1. CASE run' = run /\ msgs' = msgs /\ pc'[r] \notin {"finish", "shipclose"}
  BY <1>1, SparesAll, EndKept DEF Ending
<1>2. CASE \/ LoopLeaves(r) \/ LoopPauses(r) \/ LoopAdvances(r) \/ NotTerminal(r)
           \/ ReplayTrailing(r) \/ AskModel(r) \/ StreamPastBound(r) \/ StreamFails(r)
           \/ StreamSilent(r) \/ Halt(r)
  BY <1>0, <1>1, <1>2 DEF LoopLeaves, LoopPauses, LoopAdvances, NotTerminal, ReplayTrailing,
     AskModel, StreamPastBound, StreamFails, StreamSilent, Halt, durable, Goto
<1>3. CASE \/ SandboxReady(r) \/ SandboxUnavailable(r) \/ CallsServed(r) \/ PauseBeforeCall(r)
           \/ BeginCall(r) \/ ToolReturns(r) \/ ToolStopped(r) \/ ToolBroken(r) \/ TaskFails(r)
           \/ BeginShip(r) \/ ShipBroken(r) \/ Push(r) \/ Reread(r) \/ StoreFails(r) \/ Exit(r)
  BY <1>0, <1>1, <1>3 DEF SandboxReady, SandboxUnavailable, CallsServed, PauseBeforeCall,
     BeginCall, ToolReturns, ToolStopped, ToolBroken, TaskFails, BeginShip, ShipBroken, Push, Reread,
     StoreFails, StatementFails, WriteUnacknowledged, Exit, durable, Goto
<1>4. CASE ClearPlan(r)
  BY <1>0, <1>1, <1>4 DEF ClearPlan, Goto
<1>12. CASE AwaitError(r) /\ ~Running(r)
  <2>1. run' = run /\ msgs' = msgs /\ pc'[r] = "exit"
    BY <1>0, <1>12 DEF AwaitError, SetRun, Goto
  <2> QED BY <1>1, <2>1
<1>5. CASE Park(r) \/ (AwaitError(r) /\ Running(r))
  <2>1. run[r].state = "running"
    BY <1>0, <1>5 DEF Park, Running, Acting, Parking
  <2>2. PICK row \in {Parked(run[r]), Awaiting(run[r], "error")} : run' = [run EXCEPT ![r] = row]
    BY <1>5, <2>1 DEF Park, AwaitError, Running, SetRun
  <2>3. run'[r].state \in {"paused", "awaiting_human"}
    BY <1>0, <2>1, <2>2 DEF Parked, Awaiting, RunRow
  <2>4. pc'[r] \notin {"finish", "shipclose"}
    BY <1>0, <1>5 DEF Park, AwaitError, Settles, Goto
  <2> QED BY <2>3, <2>4
<1>6. CASE \/ PersistResult(r) \/ TaskInDoubt(r) \/ AskHuman(r) \/ WritePlan(r)
           \/ PushRejected(r) \/ StreamInterrupted(r)
  <2>1. pc[r] \in Acting
    BY <1>6 DEF PersistResult, TaskInDoubt, AskHuman, WritePlan, PushRejected,
       StreamInterrupted, At, Acting, Parking, Calling
  <2> QED BY <1>0, <1>6, <2>1 DEF PersistResult, TaskInDoubt, AskHuman, WritePlan, PushRejected,
       StreamInterrupted, PersistAndAwait, Settles, SetRun, Goto, Awaiting, RunRow, Running
<1>7. CASE CloseTerminal(r)
  <2>1. EndsIn(r, "assistant")
    BY <1>7 DEF CloseTerminal, TerminalAssistant, EndsIn
  <2>2. msgs' = msgs /\ pc'[r] \in {"exit", "error"} /\ run'[r].state = "idle"
    BY <1>0, <1>7 DEF CloseTerminal, Settles, SetRun, Closed, Goto, RunRow
  <2> QED BY <2>1, <2>2, SparesAll, EndKept
<1>8. CASE Finish(r)
  <2>1. EndsIn(r, "assistant")
    BY <1>8 DEF Finish, At, Ending
  <2>2. msgs' = msgs /\ pc'[r] \in {"exit", "error"} /\ run'[r].state = "idle"
    BY <1>0, <1>8 DEF Finish, Settles, SetRun, Closed, Goto, RunRow
  <2> QED BY <2>1, <2>2, SparesAll, EndKept
<1>9. CASE ShipFinish(r)
  <2>1. EndsIn(r, "shipped")
    BY <1>9 DEF ShipFinish, At, Ending
  <2>2. msgs' = msgs /\ pc'[r] \in {"loop", "error"} /\ run'[r].state = "done"
    BY <1>0, <1>9 DEF ShipFinish, Settles, SetRun, Closed, Goto, RunRow
  <2> QED BY <2>1, <2>2, SparesAll, EndKept
<1>10. CASE PersistShipped(r)
  <2>1. Id(r) \in Nat \X Nat /\ <<>> \in Seq(ToolNames)
    BY <1>10, CallId, RunLoopAssumption DEF PersistShipped, At, Held, IInv
  <2>2. Shipped(r, Id(r)) \in Message
    BY <2>1, MessageTypes
  <2>3. EndsIn(r, "shipped")'
    BY <1>10, <2>2, EndWritten DEF PersistShipped, Shipped, IInv
  <2>4. pc'[r] = "shipclose" /\ run'[r].state = "running"
    BY <1>0, <1>10 DEF PersistShipped, At, Goto, Acting, Calling
  <2> QED BY <2>3, <2>4
<1>11. CASE \E s \in Shapes : StreamCompletes(r, s)
  <2>1. PICK s \in Shapes : StreamCompletes(r, s)
    BY <1>11
  <2>2. run'[r].state = "running"
    BY <1>0, <2>1 DEF StreamCompletes, At, Acting
  <2>3. CASE s = <<>>
    <3>1. <<>> \in Seq(ToolNames) /\ <<0, 0>> \in Nat \X Nat
      BY RunLoopAssumption
    <3>2. Assistant(r, s) \in Message
      BY <2>3, <3>1, MessageTypes
    <3>3. EndsIn(r, "assistant")'
      BY <2>1, <2>3, <3>2, EndWritten DEF StreamCompletes, Assistant, IInv
    <3> QED BY <1>0, <2>1, <2>2, <2>3, <3>3 DEF StreamCompletes, Goto
  <2>4. CASE s # <<>>
    BY <1>0, <2>1, <2>2, <2>4 DEF StreamCompletes, Goto
  <2> QED BY <2>3, <2>4
<1> QED
  BY <1>2, <1>3, <1>4, <1>5, <1>6, <1>7, <1>8, <1>9, <1>10, <1>11, <1>12 DEF Drive

\* Every step keeps the endings: a run that is over, and one that its goroutine is
\* about to close, are written to by no one else.
LEMMA EndingKept ==
    ASSUME IInv, Ending, [Next]_vars
    PROVE  Ending'
<1> SUFFICES ASSUME NEW r \in Runs
             PROVE  /\ pc'[r] = "finish" => EndsIn(r, "assistant")'
                    /\ pc'[r] = "shipclose" => EndsIn(r, "shipped")'
                    /\ run'[r].state = "idle" => EndsIn(r, "assistant")'
                    /\ run'[r].state = "done" => EndsIn(r, "shipped")'
  BY DEF Ending
<1>1. ASSUME NEW s \in Runs, Drive(s), s # r
      PROVE  pc'[r] = pc[r] /\ run'[r] = run[r] /\ Untouched(r)
  <2>1. run'[r] = run[r]
    BY <1>1, DriveOwnRow
  <2>2. pc'[r] = pc[r]
    BY <1>1, DriveOwnPlace
  <2>3. Untouched(r)
    BY <1>1, DriveSpeaks, SparesOthers, SparesAll DEF IInv
  <2> QED BY <2>1, <2>2, <2>3
<1>2. ASSUME NEW h \in Handlers, Operate(h), ~Clear(h),
             run[r].state \in ClosedStates \cup {"running"}
      PROVE  /\ pc'[r] \in {"finish", "shipclose"} => pc'[r] = pc[r]
             /\ run'[r].state = run[r].state /\ Untouched(r)
  <2>1. pc'[r] \in {"finish", "shipclose"} => pc'[r] = pc[r]
    BY <1>2 DEF Operate, SubmitReads, SubmitCreates, SubmitAnswers, Start, PauseCommits,
       PauseCancels, ResumeReads, RequestFails, ResumeCommits, DecideCommits, worker, IInv, Workers
  <2> QED BY <1>2, <2>1, OperateSpares
<1>3. ASSUME NEW h \in Handlers, Operate(h), ~Clear(h),
             run[r].state \notin ClosedStates \cup {"running"}
      PROVE  run'[r].state \notin ClosedStates /\ pc'[r] \notin {"finish", "shipclose"}
  <2>1. pc[r] \notin Acting
    BY <1>3 DEF IInv, Owned, Running
  <2>2. pc'[r] \notin {"finish", "shipclose"}
    BY <1>3, <2>1 DEF Operate, SubmitReads, SubmitCreates, SubmitAnswers, Start, PauseCommits,
       PauseCancels, ResumeReads, RequestFails, ResumeCommits, DecideCommits, worker, IInv, Workers, Acting
  <2>3. \/ run' = run
        \/ \E s \in Runs : \E row \in {Fresh, Resumed(run[s]), Decided(run[s]), PauseAsked(run[s])} :
              run' = [run EXCEPT ![s] = row]
    BY <1>3 DEF Operate, SubmitReads, SubmitCreates, SubmitAnswers, Start, PauseCommits,
       PauseCancels, ResumeReads, RequestFails, ResumeCommits, DecideCommits, durable, SetRun, OpAt, IInv, Others
  <2>4. CASE run' = run
    BY <1>3, <2>2, <2>4 DEF ClosedStates
  <2>5. ASSUME NEW s \in Runs, NEW row, run' = [run EXCEPT ![s] = row],
               row \in {Fresh, Resumed(run[s]), Decided(run[s]), PauseAsked(run[s])}
        PROVE  run'[r].state \in {run[r].state, "running"}
    <3>1. run[s] \in RunRow /\ run'[r] = IF r = s THEN row ELSE run[r]
      BY <2>5 DEF IInv, Rows
    <3>2. row.state \in {run[s].state, "running"}
      BY <2>5, PauseKeeps, RestartedSound DEF IInv, Rows
    <3> QED BY <3>1, <3>2
  <2> QED BY <1>3, <2>2, <2>3, <2>4, <2>5 DEF ClosedStates
<1>4. CASE \E h \in Handlers : Clear(h)
  BY <1>4, ClearEmpties DEF Acting
<1>5. CASE Shutdown \/ UNCHANGED vars
  BY <1>5, SparesAll, EndKept DEF Shutdown, vars, durable, Ending
<1>6. CASE Die \/ Boot
  BY <1>6, SparesAll, EndKept DEF Die, Boot, durable, Ending
<1>7. CASE \E h \in Handlers : Operate(h) /\ ~Clear(h)
  <2>1. CASE run[r].state \in ClosedStates \cup {"running"}
    BY <1>2, <1>7, <2>1, EndKept DEF Ending
  <2>2. CASE run[r].state \notin ClosedStates \cup {"running"}
    BY <1>3, <1>7, <2>2 DEF ClosedStates
  <2> QED BY <2>1, <2>2
<1>8. CASE Drive(r)
  BY <1>8, DriveEnds
<1>9. CASE \E s \in Runs \ {r} : Drive(s)
  BY <1>1, <1>9, EndKept DEF Ending
<1> QED BY <1>4, <1>5, <1>6, <1>7, <1>8, <1>9 DEF Next

\* ClosedRunSettled: whatever pauses, crashes and requests came between, an idle run
\* ends in a complete reply and a done run in its shipped result.
THEOREM Settled == Spec => []ClosedRunSettled
<1>1. Init => Ending
  BY DEF Init, Ending
<1>2. IInv /\ Ending /\ [Next]_vars => Ending'
  BY EndingKept
<1>3. Ending => ClosedRunSettled
  BY DEF Ending, EndsIn, ClosedRunSettled, ClosedStates
<1> QED BY <1>1, <1>2, <1>3, Invariance, PTL DEF Spec

-----------------------------------------------------------------------------
(* Calls and their results *)

\* The calls a goroutine holds are unanswered calls of a turn of its run, and it
\* holds them only under executeCalls.
Pending(r, j) == j.turn \in ToolTurns(r) /\ j.todo \subseteq Unanswered(j.turn)
Jobs ==
    \A r \in Runs : job[r].todo # {} =>
        pc[r] \in Calling /\ (pc[r] # "doubt" => Pending(r, job[r]))

\* A call in doubt has just been answered, for the first time, and is an update_task;
\* the calls after it are unanswered.
InDoubt(r) ==
    /\ job[r].turn \in ToolTurns(r)
    /\ job[r].todo \ {Call(r)} \subseteq Unanswered(job[r].turn)
    /\ Call(r) \in DOMAIN msgs[job[r].turn].calls /\ Name(r) = "update_task"
    /\ Len(msgs) \in DOMAIN msgs /\ msgs[Len(msgs)] = Result(r, Id(r))
    /\ \A i \in 1..(Len(msgs) - 1) : IsResult(msgs[i]) => msgs[i].call # Id(r)
Doubt == \A r \in Runs : pc[r] = "doubt" => InDoubt(r)

\* All calls of run r are answered.
AllServed(r) == \A i \in ToolTurns(r) : Unanswered(i) = {}

\* Only the newest turn of a run may have been cut short.
Older  == \A r \in Runs : \A i, j \in ToolTurns(r) : i < j => Unanswered(i) = {}
Asking == \A r \in Runs : pc[r] = "stream" => AllServed(r)

Calls == Jobs /\ Doubt /\ AnsweredOnce /\ Older /\ Asking

\* What AnsweredOnce says of the result at j.
WellTold(j) ==
    /\ msgs[j].call[1] \in 1..(j - 1)
    /\ msgs[j].call[2] \in DOMAIN msgs[msgs[j].call[1]].calls
    /\ msgs[msgs[j].call[1]].run = msgs[j].run
    /\ \A i \in 1..(j - 1) : IsResult(msgs[i]) /\ msgs[i].call = msgs[j].call =>
          i = j - 1 /\ ToolOf(msgs[j].call) = "update_task"

LEMMA Told == AnsweredOnce <=> \A j \in DOMAIN msgs : IsResult(msgs[j]) => WellTold(j)
BY DEF AnsweredOnce, WellTold

\* What is said of a result depends on what comes before it.
LEMMA KeepsTold ==
    ASSUME Transcript, AnsweredOnce, NEW m \in Message, Append1(m),
           NEW j \in DOMAIN msgs, IsResult(msgs[j])
    PROVE  WellTold(j)'
<1>1. WellTold(j)
  BY Told
<1>2. DOMAIN msgs = 1..Len(msgs) /\ Len(msgs) \in Nat /\ j \in Nat /\ j <= Len(msgs)
  BY DEF Transcript
<1>3. /\ \A i \in DOMAIN msgs : msgs'[i] = msgs[i]
      /\ 1..(j - 1) \subseteq DOMAIN msgs
  BY <1>2, Extended
<1>4. msgs'[msgs[j].call[1]] = msgs[msgs[j].call[1]] /\ msgs'[j] = msgs[j]
  BY <1>1, <1>3 DEF WellTold
<1>5. ToolOf(msgs[j].call)' = ToolOf(msgs[j].call)
  BY <1>4 DEF ToolOf
<1>6. ASSUME NEW i \in 1..(j - 1), IsResult(msgs'[i]), msgs'[i].call = msgs'[j].call
      PROVE  i = j - 1 /\ ToolOf(msgs[j].call)' = "update_task"
  BY <1>1, <1>3, <1>4, <1>5, <1>6 DEF WellTold
<1>7. /\ msgs'[j].call[1] \in 1..(j - 1)
      /\ msgs'[j].call[2] \in DOMAIN msgs'[msgs'[j].call[1]].calls
      /\ msgs'[msgs'[j].call[1]].run = msgs'[j].run
  BY <1>1, <1>4 DEF WellTold
<1> QED BY <1>4, <1>6, <1>7 DEF WellTold, IsResult, ToolOf

\* A step that appends neither a turn with calls nor a result.
Plain == msgs' = msgs \/ \E m \in Message : Append1(m) /\ m.calls = <<>> /\ ~IsResult(m)

\* What such a step leaves alone.
LEMMA PlainKeeps ==
    ASSUME Transcript, AnsweredOnce, Plain
    PROVE  /\ \A r \in Runs : ToolTurns(r)' = ToolTurns(r)
           /\ \A i \in DOMAIN msgs : Unanswered(i)' = Unanswered(i)
           /\ AnsweredOnce'
<1>1. CASE msgs' = msgs
  BY <1>1 DEF ToolTurns, OfRun, Unanswered, Answered, AnsweredOnce, ToolOf
<1>2. CASE \E m \in Message : Append1(m) /\ m.calls = <<>> /\ ~IsResult(m)
  <2>1. PICK m \in Message : Append1(m) /\ m.calls = <<>> /\ ~IsResult(m)
    BY <1>2
  <2>2. \A r \in Runs : ToolTurns(r)' = ToolTurns(r)
    BY <2>1, Extended DEF ToolTurns, OfRun
  <2>3. ASSUME NEW c PROVE Answered(c)' <=> Answered(c)
    BY <2>1, Extended DEF Answered, IsResult
  <2>4. \A i \in DOMAIN msgs : Unanswered(i)' = Unanswered(i)
    <3>1. ASSUME NEW i \in DOMAIN msgs PROVE Unanswered(i)' = Unanswered(i)
      <4>1. msgs'[i] = msgs[i]
        BY <2>1, Extended
      <4>2. \A k : Answered(<<i, k>>)' <=> Answered(<<i, k>>)
        BY <2>3
      <4> QED BY <4>1, <4>2 DEF Unanswered
    <3> QED BY <3>1
  <2>5. AnsweredOnce'
    <3>1. \A j \in DOMAIN msgs' : IsResult(msgs'[j]) => j \in DOMAIN msgs /\ IsResult(msgs[j])
      BY <2>1, Extended DEF IsResult
    <3>2. \A j \in DOMAIN msgs' : IsResult(msgs[j])' => WellTold(j)'
      BY <2>1, <3>1, KeepsTold DEF IsResult
    <3> QED BY <3>2 DEF AnsweredOnce, WellTold
  <2> QED BY <2>2, <2>4, <2>5
<1> QED BY <1>1, <1>2 DEF Plain

\* A plain step after which every job held is pending, every call in doubt is as it
\* was, and every goroutine that asks the model has been served, keeps the invariant.
LEMMA PlainCalls ==
    ASSUME Transcript, Calls, Plain,
           \A r \in Runs : job'[r].todo # {} =>
               pc'[r] \in Calling /\ (pc'[r] # "doubt" => Pending(r, job'[r])),
           \A r \in Runs : pc'[r] = "doubt" =>
               pc[r] = "doubt" /\ job'[r] = job[r] /\ msgs' = msgs,
           \A r \in Runs : pc'[r] = "stream" => AllServed(r)
    PROVE  Calls'
<1>1. /\ \A r \in Runs : ToolTurns(r)' = ToolTurns(r)
      /\ \A i \in DOMAIN msgs : Unanswered(i)' = Unanswered(i)
      /\ AnsweredOnce'
  BY PlainKeeps DEF Calls
<1>2. \A r \in Runs : ToolTurns(r) \subseteq DOMAIN msgs
  BY DEF ToolTurns, OfRun
<1>3. Jobs'
  BY <1>1, <1>2 DEF Jobs, Pending
<1>4. Older' /\ Asking'
  BY <1>1, <1>2 DEF Older, Asking, AllServed, Calls
<1>5. Doubt'
  <2>1. ASSUME NEW r \in Runs, pc'[r] = "doubt" PROVE InDoubt(r)'
    <3>1. InDoubt(r) /\ job'[r] = job[r] /\ msgs' = msgs
      BY <2>1 DEF Calls, Doubt
    <3>2. Call(r)' = Call(r)
      BY <3>1 DEF Call
    <3>3. Id(r)' = Id(r) /\ Name(r)' = Name(r)
      BY <3>1, <3>2 DEF Id, Name
    <3>4. Unanswered(job[r].turn)' = Unanswered(job[r].turn)
      BY <1>1, <1>2, <3>1 DEF InDoubt
    <3> QED BY <1>1, <3>1, <3>2, <3>3, <3>4 DEF InDoubt, Result, IsResult
  <2> QED BY <2>1 DEF Doubt
<1> QED BY <1>1, <1>3, <1>4, <1>5 DEF Calls

\* While one goroutine acts no other holds a call or asks the model.
LEMMA Alone ==
    ASSUME IInv, Jobs, NEW r \in Runs, pc[r] \in Acting, NEW s \in Runs \ {r}
    PROVE  pc[s] \notin Acting /\ job[s].todo = {}
<1>1. pc[s] \notin Acting
  BY DEF IInv, Owned, Running, Active, ActiveStates
<1> QED BY <1>1 DEF Jobs, Acting

\* A plain step of the goroutine of r that keeps its calls under executeCalls or
\* drops them, and does not go on to ask the model.
LEMMA PlainDrive ==
    ASSUME IInv, Calls, NEW r \in Runs, Plain, NEW p, Goto(r, p), p \notin {"stream", "doubt"},
           \/ job' = job /\ pc[r] # "doubt" /\ (pc[r] \in Calling => p \in Calling)
           \/ DropJob(r),
           msgs' = msgs \/ pc[r] \in Acting
    PROVE  Calls'
<1>1. /\ pc'[r] = p
      /\ \A s \in Runs \ {r} : pc'[s] = pc[s] /\ job'[s] = job[s]
      /\ \/ job'[r].todo = {}
         \/ job'[r] = job[r] /\ pc[r] # "doubt" /\ (pc[r] \in Calling => p \in Calling)
  BY DEF Goto, DropJob, NoJob, IInv, Workers
<1>2. \A s \in Runs : job'[s].todo # {} =>
         pc'[s] \in Calling /\ (pc'[s] # "doubt" => Pending(s, job'[s]))
  BY <1>1 DEF Calls, Jobs
<1>3. \A s \in Runs : pc'[s] = "stream" => AllServed(s)
  BY <1>1 DEF Calls, Asking
<1>4. ASSUME NEW s \in Runs, pc'[s] = "doubt"
      PROVE  pc[s] = "doubt" /\ job'[s] = job[s] /\ msgs' = msgs
  <2>1. s # r /\ pc[s] = "doubt" /\ job'[s] = job[s]
    BY <1>1, <1>4
  <2>2. pc[s] \in Acting
    BY <2>1 DEF Acting, Calling
  <2> QED BY <2>1, <2>2, Alone DEF Calls
<1> QED BY <1>2, <1>3, <1>4, PlainCalls DEF IInv

\* A completed stream appends a turn whose calls are all unanswered, and nothing
\* older of the run is.
LEMMA NewTurn ==
    ASSUME IInv, Calls, NEW r \in Runs, NEW s \in Shapes, s # <<>>, StreamCompletes(r, s)
    PROVE  Calls'
<1> DEFINE m == Assistant(r, s)
<1>0. PICK n \in Nat : n = Len(msgs) + 1
  BY DEF IInv, Transcript
<1>1. /\ pc[r] = "stream" /\ pc'[r] = "ready" /\ Append1(m)
      /\ job'[r] = [turn |-> n, todo |-> DOMAIN s]
      /\ \A q \in Runs \ {r} : pc'[q] = pc[q] /\ job'[q] = job[q]
  BY <1>0 DEF StreamCompletes, At, Goto, IInv, Workers
<1>2. m \in Message /\ m.run = r /\ m.calls = s /\ ~IsResult(m)
  BY RunLoopAssumption, MessageTypes DEF Assistant, IsResult, NoCall
<1>3. /\ n \notin DOMAIN msgs
      /\ \A i \in DOMAIN msgs : i < n /\ i \in Nat
      /\ DOMAIN msgs' = DOMAIN msgs \cup {n}
      /\ \A i \in DOMAIN msgs : msgs'[i] = msgs[i]
      /\ msgs'[n] = m
  BY <1>0, <1>1, <1>2, Extended DEF IInv
<1> HIDE DEF m
<1>4. ASSUME NEW c PROVE Answered(c)' <=> Answered(c)
  BY <1>2, <1>3 DEF Answered, IsResult
<1>5. \A i \in DOMAIN msgs : Unanswered(i)' = Unanswered(i)
  <2>1. ASSUME NEW i \in DOMAIN msgs PROVE Unanswered(i)' = Unanswered(i)
    <3>1. \A k : Answered(<<i, k>>)' <=> Answered(<<i, k>>)
      BY <1>4
    <3> QED BY <1>3, <3>1 DEF Unanswered
  <2> QED BY <2>1
<1>6. /\ ToolTurns(r)' = ToolTurns(r) \cup {n}
      /\ \A q \in Runs \ {r} : ToolTurns(q)' = ToolTurns(q)
  BY <1>2, <1>3 DEF ToolTurns, OfRun
<1>7. DOMAIN s \subseteq Unanswered(n)'
  <2>1. \A k : ~Answered(<<n, k>>)
    <3>1. ASSUME NEW k, NEW j \in DOMAIN msgs, IsResult(msgs[j]), msgs[j].call = <<n, k>>
          PROVE  FALSE
      <4>1. n \in 1..(j - 1) /\ j \in Nat /\ j < n
        BY <1>3, <3>1 DEF Calls, AnsweredOnce
      <4> QED BY <1>3, <4>1
    <3> QED BY <3>1 DEF Answered
  <2>2. \A k : ~Answered(<<n, k>>)'
    BY <1>4, <2>1
  <2> QED BY <1>2, <1>3, <2>2 DEF Unanswered
<1>8. \A q \in Runs \ {r} : pc[q] \notin Acting /\ job[q].todo = {}
  BY <1>1, Alone DEF Calls, Acting
<1>9. Jobs'
  <2>1. n \in ToolTurns(r)' /\ DOMAIN s \subseteq Unanswered(n)'
    BY <1>6, <1>7
  <2>2. Pending(r, job[r])'
    BY <1>1, <2>1 DEF Pending
  <2>3. ASSUME NEW q \in Runs, job'[q].todo # {} PROVE q = r
    BY <1>1, <1>8, <2>3
  <2> QED BY <1>1, <2>2, <2>3 DEF Jobs, Calling
<1>10. \A q \in Runs : ToolTurns(q) \subseteq DOMAIN msgs
  BY DEF ToolTurns, OfRun
<1>11. AllServed(r)
  BY <1>1 DEF Calls, Asking
<1>12. Older'
  <2>1. ASSUME NEW q \in Runs, NEW i \in ToolTurns(q)', NEW j \in ToolTurns(q)', i < j
        PROVE  Unanswered(i)' = {}
    <3>1. i \in ToolTurns(q)
      BY <1>3, <1>6, <1>10, <2>1
    <3>2. Unanswered(i) = {}
      <4>1. CASE q = r
        BY <1>11, <3>1, <4>1 DEF AllServed
      <4>2. CASE q # r
        BY <1>6, <2>1, <3>1, <4>2 DEF Calls, Older
      <4> QED BY <4>1, <4>2
    <3> QED BY <1>5, <1>10, <3>1, <3>2
  <2> QED BY <2>1 DEF Older
<1>13. Asking'
  BY <1>1, <1>8 DEF Asking, Acting
<1>14. AnsweredOnce'
  <2>1. \A j \in DOMAIN msgs' : IsResult(msgs'[j]) => j \in DOMAIN msgs /\ IsResult(msgs[j])
    BY <1>2, <1>3
  <2>2. \A j \in DOMAIN msgs' : IsResult(msgs[j])' => WellTold(j)'
    BY <1>1, <1>2, <2>1, KeepsTold DEF IInv, Calls, IsResult
  <2> QED BY <2>2 DEF AnsweredOnce, WellTold
<1>15. Doubt'
  BY <1>1, <1>8 DEF Doubt, Acting, Calling
<1> QED BY <1>9, <1>12, <1>13, <1>14, <1>15 DEF Calls

\* The result of the call that is being served is the first of its call; the call
\* leaves the job, or is in doubt.
LEMMA Answers ==
    ASSUME IInv, Calls, NEW r \in Runs, pc[r] \in Held, pc[r] # "doubt",
           NEW p, Goto(r, p), p # "stream",
           NEW m \in {Result(r, Id(r)), Shipped(r, Id(r))}, Append1(m),
           \/ Served(r) /\ p \in Calling \ {"doubt"}
           \/ DropJob(r) /\ p # "doubt"
           \/ job' = job /\ p = "doubt" /\ m = Result(r, Id(r)) /\ Name(r) = "update_task"
    PROVE  Calls'
<1>0. PICK n, t, k : n = Len(msgs) + 1 /\ n \in Nat /\ t = job[r].turn /\ k = Call(r)
  BY DEF IInv, Transcript
<1>1. /\ pc'[r] = p
      /\ \A q \in Runs \ {r} : pc'[q] = pc[q] /\ job'[q] = job[q]
      /\ \/ job'[r].todo = {} /\ p # "doubt"
         \/ /\ job'[r].turn = t /\ job'[r].todo = job[r].todo \ {k}
            /\ p \in Calling /\ p # "doubt"
         \/ /\ job'[r] = job[r] /\ p = "doubt" /\ m = Result(r, Id(r))
            /\ Name(r) = "update_task"
  BY <1>0 DEF Goto, Served, DropJob, NoJob, IInv, Workers
<1>2. k \in job[r].todo /\ Id(r) = <<t, k>> /\ Id(r) \in Nat \X Nat
  BY <1>0, LeastCall, CallId DEF IInv, Workers, Id
<1>3. t \in ToolTurns(r) /\ job[r].todo \subseteq Unanswered(t)
  BY <1>0, <1>2 DEF Calls, Jobs, Pending
<1>4. m \in Message /\ m.run = r /\ m.calls = <<>> /\ IsResult(m) /\ m.call = <<t, k>>
  <2>1. <<>> \in Seq(ToolNames)
    BY RunLoopAssumption
  <2>2. /\ Result(r, Id(r)) \in Message /\ Shipped(r, Id(r)) \in Message
    BY <1>2, <2>1, MessageTypes
  <2>3. m \in Message
    BY <2>2
  <2>4. m.run = r /\ m.calls = <<>> /\ IsResult(m) /\ m.call = Id(r)
    BY DEF Result, Shipped, IsResult
  <2> QED BY <1>2, <2>3, <2>4
<1>5. /\ n \notin DOMAIN msgs
      /\ \A i \in DOMAIN msgs : i < n /\ i \in Nat /\ i \in 1..(n - 1)
      /\ DOMAIN msgs = 1..(n - 1)
      /\ DOMAIN msgs' = DOMAIN msgs \cup {n}
      /\ \A i \in DOMAIN msgs : msgs'[i] = msgs[i]
      /\ msgs'[n] = m
  <2>1. DOMAIN msgs = 1..(n - 1)
    BY <1>0 DEF IInv, Transcript
  <2> QED BY <1>0, <1>4, <2>1, Extended DEF IInv
<1>6. t \in DOMAIN msgs /\ msgs[t].run = r /\ k \in DOMAIN msgs[t].calls /\ ~Answered(<<t, k>>)
  BY <1>2, <1>3 DEF ToolTurns, OfRun, Unanswered
<1>7. ASSUME NEW c PROVE Answered(c)' <=> Answered(c) \/ c = <<t, k>>
  BY <1>4, <1>5 DEF Answered, IsResult
<1>8. \A i \in DOMAIN msgs : Unanswered(i)' = {j \in Unanswered(i) : <<i, j>> # <<t, k>>}
  <2>1. ASSUME NEW i \in DOMAIN msgs
        PROVE  Unanswered(i)' = {j \in Unanswered(i) : <<i, j>> # <<t, k>>}
    <3>1. \A j : Answered(<<i, j>>)' <=> Answered(<<i, j>>) \/ <<i, j>> = <<t, k>>
      BY <1>7
    <3> QED BY <1>5, <3>1 DEF Unanswered
  <2> QED BY <2>1
<1>9. \A q \in Runs : ToolTurns(q)' = ToolTurns(q) /\ ToolTurns(q) \subseteq DOMAIN msgs
  BY <1>4, <1>5 DEF ToolTurns, OfRun
<1>10. \A q \in Runs \ {r} : pc[q] \notin Acting /\ job[q].todo = {}
  BY Alone DEF Calls, Acting, Calling, Held
<1>11. Jobs'
  <2>1. ASSUME NEW q \in Runs, job'[q].todo # {}
        PROVE  /\ q = r /\ pc'[r] \in Calling
               /\ pc'[r] # "doubt" => job'[r].turn = t /\ job'[r].todo = job[r].todo \ {k}
    BY <1>1, <1>10, <2>1 DEF Calling
  <2>2. job[r].todo \ {k} \subseteq Unanswered(t)'
    BY <1>3, <1>6, <1>8
  <2>3. t \in ToolTurns(r)'
    BY <1>3, <1>9
  <2>4. ASSUME job'[r].turn = t, job'[r].todo = job[r].todo \ {k} PROVE Pending(r, job[r])'
    BY <2>2, <2>3, <2>4 DEF Pending
  <2> QED BY <2>1, <2>4 DEF Jobs
<1>12. Older'
  BY <1>8, <1>9 DEF Older, Calls
<1>13. Asking'
  BY <1>1, <1>10 DEF Asking, Acting
<1>14. AnsweredOnce'
  <2>1. \A i \in DOMAIN msgs : IsResult(msgs[i]) => msgs[i].call # <<t, k>>
    BY <1>6 DEF Answered
  <2>2. WellTold(n)'
    <3>1. msgs'[n].call = <<t, k>> /\ t \in 1..(n - 1) /\ msgs'[t] = msgs[t]
      BY <1>4, <1>5, <1>6
    <3>2. \A i \in 1..(n - 1) : IsResult(msgs[i])' => msgs'[i].call # <<t, k>>
      BY <1>5, <2>1 DEF IsResult
    <3> QED BY <1>4, <1>5, <1>6, <3>1, <3>2 DEF WellTold
  <2>3. \A j \in DOMAIN msgs : IsResult(msgs[j]) => WellTold(j)'
    BY <1>4, KeepsTold DEF IInv, Calls
  <2>4. \A j \in DOMAIN msgs' : IsResult(msgs[j])' => WellTold(j)'
    BY <1>5, <2>2, <2>3 DEF IsResult
  <2> QED BY <2>4 DEF AnsweredOnce, WellTold
<1>15. Doubt'
  <2>1. ASSUME NEW q \in Runs, pc'[q] = "doubt" PROVE InDoubt(q)'
    <3>1. q = r
      BY <1>1, <1>10, <2>1 DEF Acting, Calling
    <3>2. job'[r] = job[r] /\ m = Result(r, Id(r)) /\ Name(r) = "update_task"
      BY <1>1, <1>2, <2>1, <3>1
    <3>3. Call(r)' = k /\ Id(r)' = <<t, k>> /\ Name(r)' = "update_task"
      <4>1. Call(r)' = k
        BY <1>0, <3>2 DEF Call
      <4> QED BY <1>0, <1>5, <1>6, <3>2, <4>1 DEF Id, Name
    <3>4. job'[r].turn \in ToolTurns(r)' /\ k \in DOMAIN msgs'[t].calls
      BY <1>0, <1>3, <1>5, <1>6, <1>9, <3>2
    <3>5. job'[r].todo \ {k} \subseteq Unanswered(t)'
      BY <1>3, <1>6, <1>8, <3>2
    <3>6. Len(msgs') = n /\ n \in DOMAIN msgs' /\ msgs'[n] = Result(r, Id(r))'
      BY <1>0, <1>2, <1>5, <3>2, <3>3 DEF Append1, Result, IInv, Transcript
    <3>7. \A i \in 1..(n - 1) : IsResult(msgs[i])' => msgs'[i].call # <<t, k>>
      <4>1. \A i \in DOMAIN msgs : IsResult(msgs[i]) => msgs[i].call # <<t, k>>
        BY <1>6 DEF Answered
      <4> QED BY <1>0, <1>5, <4>1 DEF IsResult, IInv, Transcript
    <3> QED BY <1>0, <3>1, <3>2, <3>3, <3>4, <3>5, <3>6, <3>7 DEF InDoubt
  <2> QED BY <2>1 DEF Doubt
<1> QED BY <1>11, <1>12, <1>13, <1>14, <1>15 DEF Calls

\* The failed result of a call in doubt is the second of its call, and the last.
LEMMA AnswersAgain ==
    ASSUME IInv, Calls, NEW r \in Runs, pc[r] = "doubt", Goto(r, "reread"),
           Append1(Result(r, Id(r))), Served(r)
    PROVE  Calls'
<1> DEFINE m == Result(r, Id(r))
<1>0. PICK n, t, k : n = Len(msgs) + 1 /\ n \in Nat /\ t = job[r].turn /\ k = Call(r)
  BY DEF IInv, Transcript
<1>1. /\ pc'[r] = "reread"
      /\ \A q \in Runs \ {r} : pc'[q] = pc[q] /\ job'[q] = job[q]
      /\ job'[r].turn = t /\ job'[r].todo = job[r].todo \ {k}
  BY <1>0 DEF Goto, Served, IInv, Workers
<1>2. Id(r) = <<t, k>> /\ Id(r) \in Nat \X Nat
  BY <1>0, CallId DEF IInv, Workers, Id, Held
<1>3. /\ t \in ToolTurns(r) /\ job[r].todo \ {k} \subseteq Unanswered(t)
      /\ k \in DOMAIN msgs[t].calls /\ msgs[t].calls[k] = "update_task"
      /\ n - 1 \in DOMAIN msgs /\ msgs[n - 1] = m
      /\ \A i \in 1..(n - 2) : IsResult(msgs[i]) => msgs[i].call # <<t, k>>
  <2>1. InDoubt(r) /\ Len(msgs) = n - 1 /\ Len(msgs) - 1 = n - 2
    BY <1>0 DEF Calls, Doubt, IInv, Transcript
  <2>2. \A i \in 1..(n - 2) : IsResult(msgs[i]) => msgs[i].call # <<t, k>>
    BY <1>2, <2>1 DEF InDoubt
  <2> QED BY <1>0, <2>1, <2>2 DEF InDoubt, Name
<1>4. m \in Message /\ m.run = r /\ m.calls = <<>> /\ IsResult(m) /\ m.call = <<t, k>>
  <2>1. <<>> \in Seq(ToolNames)
    BY RunLoopAssumption
  <2>2. m \in Message
    BY <1>2, <2>1, MessageTypes
  <2> QED BY <1>2, <2>2 DEF Result, IsResult
<1>5. /\ n \notin DOMAIN msgs /\ DOMAIN msgs = 1..(n - 1)
      /\ DOMAIN msgs' = DOMAIN msgs \cup {n}
      /\ \A i \in DOMAIN msgs : msgs'[i] = msgs[i]
      /\ msgs'[n] = m
  <2>1. DOMAIN msgs = 1..(n - 1)
    BY <1>0 DEF IInv, Transcript
  <2> QED BY <1>0, <1>4, <2>1, Extended DEF IInv
<1> HIDE DEF m
<1>6. ASSUME NEW c PROVE Answered(c)' <=> Answered(c)
  BY <1>3, <1>4, <1>5 DEF Answered, IsResult
<1>7. \A i \in DOMAIN msgs : Unanswered(i)' = Unanswered(i)
  <2>1. ASSUME NEW i \in DOMAIN msgs PROVE Unanswered(i)' = Unanswered(i)
    <3>1. \A j : Answered(<<i, j>>)' <=> Answered(<<i, j>>)
      BY <1>6
    <3> QED BY <1>5, <3>1 DEF Unanswered
  <2> QED BY <2>1
<1>8. \A q \in Runs : ToolTurns(q)' = ToolTurns(q) /\ ToolTurns(q) \subseteq DOMAIN msgs
  BY <1>4, <1>5 DEF ToolTurns, OfRun
<1>9. \A q \in Runs \ {r} : pc[q] \notin Acting /\ job[q].todo = {}
  BY Alone DEF Calls, Acting, Calling
<1>10. Jobs' /\ Doubt'
  <2>1. Pending(r, job[r])'
    BY <1>1, <1>3, <1>7, <1>8 DEF Pending
  <2> QED BY <1>1, <1>9, <2>1 DEF Jobs, Doubt, Acting, Calling
<1>11. Older' /\ Asking'
  BY <1>1, <1>7, <1>8, <1>9 DEF Older, Asking, Calls, Acting
<1>12. AnsweredOnce'
  <2>1. WellTold(n)'
    <3>1. msgs'[n].call = <<t, k>> /\ t \in 1..(n - 1) /\ t \in DOMAIN msgs /\ msgs'[t] = msgs[t]
      BY <1>3, <1>4, <1>5, <1>8
    <3>2. msgs[t].run = r
      BY <1>3 DEF ToolTurns, OfRun
    <3>3. \A i \in 1..(n - 1) : IsResult(msgs[i])' /\ msgs'[i].call = <<t, k>> => i = n - 1
      <4>1. \A i \in 1..(n - 1) : i \in DOMAIN msgs /\ (i \in 1..(n - 2) \/ i = n - 1)
        BY <1>0, <1>5
      <4> QED BY <1>3, <1>5, <4>1 DEF IsResult
    <3>4. ToolOf(msgs[n].call)' = "update_task"
      BY <1>3, <3>1 DEF ToolOf
    <3> QED BY <1>3, <1>4, <1>5, <3>1, <3>2, <3>3, <3>4 DEF WellTold
  <2>2. \A j \in DOMAIN msgs : IsResult(msgs[j]) => WellTold(j)'
    BY <1>4, KeepsTold DEF IInv, Calls, m
  <2>3. \A j \in DOMAIN msgs' : IsResult(msgs[j])' => WellTold(j)'
    BY <1>5, <2>1, <2>2 DEF IsResult
  <2> QED BY <2>3 DEF AnsweredOnce, WellTold
<1> QED BY <1>10, <1>11, <1>12 DEF Calls

\* What goes to the model has no call cut short: the newest turn is served, and the
\* older ones were before it was asked for.
LEMMA AskServed ==
    ASSUME IInv, Calls, NEW r \in Runs, AskModel(r)
    PROVE  AllServed(r)
<1>1. \A i \in ToolTurns(r) : Newest(i, ToolTurns(r)) => Unanswered(i) = {}
  BY DEF AskModel
<1>2. ASSUME NEW i \in ToolTurns(r) PROVE Unanswered(i) = {}
  <2>1. \A j \in ToolTurns(r) : j \in Nat
    BY TurnTypes DEF IInv, ToolTurns, OfRun
  <2>2. CASE \E j \in ToolTurns(r) : i < j
    BY <1>2, <2>2 DEF Calls, Older
  <2>3. CASE ~ \E j \in ToolTurns(r) : i < j
    <3>1. \A j \in ToolTurns(r) : j <= i
      BY <1>2, <2>1, <2>3
    <3> QED BY <1>1, <1>2, <3>1 DEF Newest
  <2> QED BY <2>2, <2>3
<1> QED BY <1>2 DEF AllServed

\* Every step of a goroutine keeps the calls in order.
LEMMA DriveCalls ==
    ASSUME IInv, Calls, NEW r \in Runs, Drive(r)
    PROVE  Calls'
<1>1. CASE \/ LoopLeaves(r) \/ LoopPauses(r) \/ LoopAdvances(r) \/ Park(r)
           \/ CloseTerminal(r) \/ NotTerminal(r) \/ StreamPastBound(r) \/ StreamFails(r)
           \/ StreamSilent(r) \/ Halt(r) \/ Finish(r)
  <2>1. msgs' = msgs /\ job' = job /\ pc[r] \notin Calling
    BY <1>1 DEF LoopLeaves, LoopPauses, LoopAdvances, Park, CloseTerminal, NotTerminal,
       StreamPastBound, StreamFails, StreamSilent, Halt, Finish, durable, At, Calling
  <2>2. \E p : Goto(r, p) /\ p \notin {"stream", "doubt"}
    BY <1>1 DEF LoopLeaves, LoopPauses, LoopAdvances, Park, CloseTerminal, NotTerminal,
       StreamPastBound, StreamFails, StreamSilent, Halt, Finish, Settles
  <2> QED BY <2>1, <2>2, PlainDrive DEF Plain, Calling
<1>2. CASE \/ SandboxReady(r) \/ BeginCall(r) \/ ToolReturns(r) \/ ToolStopped(r)
           \/ TaskFails(r) \/ BeginShip(r) \/ Push(r) \/ ClearPlan(r)
  <2>1. msgs' = msgs /\ job' = job /\ pc[r] # "doubt"
    BY <1>2 DEF SandboxReady, BeginCall, ToolReturns, ToolStopped, TaskFails, BeginShip, Push,
       ClearPlan, At, durable
  <2>2. pc[r] \in Calling \ {"doubt"}
    BY <1>2 DEF SandboxReady, BeginCall, ToolReturns, ToolStopped, TaskFails, BeginShip, Push,
       ClearPlan, At, Calling
  <2>3. \E p \in Calling : p \notin {"stream", "doubt"} /\ Goto(r, p)
    <3>1. CASE ToolReturns(r)
      BY <3>1 DEF ToolReturns, Calling
    <3>2. CASE SandboxReady(r)
      BY <3>2 DEF SandboxReady, Calling
    <3>3. CASE BeginCall(r)
      BY <3>3 DEF BeginCall, Calling
    <3>4. CASE ToolStopped(r)
      BY <3>4 DEF ToolStopped, Calling
    <3>5. CASE TaskFails(r)
      BY <3>5 DEF TaskFails, Calling
    <3>6. CASE BeginShip(r)
      BY <3>6 DEF BeginShip, Calling
    <3>7. CASE Push(r)
      BY <3>7 DEF Push, Calling
    <3>8. CASE ClearPlan(r)
      BY <3>8 DEF ClearPlan, Calling
    <3> QED BY <1>2, <3>1, <3>2, <3>3, <3>4, <3>5, <3>6, <3>7, <3>8
  <2>4. \E p : /\ Goto(r, p) /\ p \notin {"stream", "doubt"}
               /\ job' = job /\ pc[r] # "doubt" /\ (pc[r] \in Calling => p \in Calling)
    BY <2>1, <2>3
  <2> QED BY <2>1, <2>4, PlainDrive DEF Plain
<1>13. CASE ShipFinish(r) \/ AwaitError(r) \/ Exit(r)
  <2>1. msgs' = msgs /\ job' = job /\ pc[r] \notin Calling
    BY <1>13 DEF ShipFinish, AwaitError, Exit, At, Calling, durable
  <2>2. PICK p \in {"loop", "error", "exit", "off"} : Goto(r, p)
    BY <1>13 DEF ShipFinish, AwaitError, Exit, Settles
  <2>3. Plain /\ p \notin {"stream", "doubt"} /\ pc[r] # "doubt"
    BY <2>1, <2>2 DEF Plain, Calling
  <2> QED BY <2>1, <2>2, <2>3, PlainDrive
<1>3. CASE \/ SandboxUnavailable(r) \/ CallsServed(r) \/ PauseBeforeCall(r) \/ ToolBroken(r)
           \/ ShipBroken(r) \/ StoreFails(r)
  <2>1. msgs' = msgs /\ DropJob(r)
    BY <1>3 DEF SandboxUnavailable, CallsServed, PauseBeforeCall, ToolBroken, ShipBroken,
       StoreFails, StatementFails, WriteUnacknowledged, durable
  <2>2. \E p : Goto(r, p) /\ p \notin {"stream", "doubt"}
    BY <1>3 DEF SandboxUnavailable, CallsServed, PauseBeforeCall, ToolBroken, ShipBroken,
       StoreFails, StatementFails, WriteUnacknowledged
  <2> QED BY <2>1, <2>2, PlainDrive DEF Plain, Calling
<1>4. CASE Reread(r)
  <2>1. msgs' = msgs
    BY <1>4 DEF Reread, durable
  <2>2. CASE Running(r)
    BY <1>4, <2>1, <2>2, PlainDrive DEF Reread, At, Plain, Calling
  <2>3. CASE ~Running(r)
    BY <1>4, <2>1, <2>3, PlainDrive DEF Reread, Plain, Calling
  <2> QED BY <2>2, <2>3
<1>5. CASE StreamInterrupted(r)
  <2>1. <<>> \in Seq(ToolNames) /\ <<0, 0>> \in Nat \X Nat
    BY RunLoopAssumption
  <2>2. Partial(r) \in Message /\ Partial(r).calls = <<>> /\ ~IsResult(Partial(r))
    BY <2>1, MessageTypes DEF Partial, IsResult
  <2>3. Plain /\ job' = job /\ pc[r] \notin Calling /\ pc[r] \in Acting
    BY <1>5, <2>2 DEF StreamInterrupted, Plain, At, Calling, Acting
  <2>4. PICK p \in {"halt", "error"} : Goto(r, p)
    BY <1>5 DEF StreamInterrupted, Settles
  <2> QED BY <2>3, <2>4, PlainDrive DEF Calling
<1>6. CASE \E s \in Shapes : StreamCompletes(r, s)
  <2>1. PICK s \in Shapes : StreamCompletes(r, s)
    BY <1>6
  <2>2. CASE s = <<>>
    <3>1. <<>> \in Seq(ToolNames) /\ <<0, 0>> \in Nat \X Nat
      BY RunLoopAssumption
    <3>2. Assistant(r, s) \in Message /\ Assistant(r, s).calls = <<>> /\ ~IsResult(Assistant(r, s))
      BY <2>2, <3>1, MessageTypes DEF Assistant, IsResult
    <3>3. Plain /\ Goto(r, "finish") /\ job' = job /\ pc[r] \notin Calling /\ pc[r] \in Acting
      BY <2>1, <2>2, <3>2 DEF StreamCompletes, Plain, At, Calling, Acting
    <3> QED BY <3>3, PlainDrive DEF Calling
  <2>3. CASE s # <<>>
    BY <2>1, <2>3, NewTurn
  <2> QED BY <2>2, <2>3
<1>7. CASE ReplayTrailing(r)
  <2>1. PICK i \in ToolTurns(r) : job' = [job EXCEPT ![r] = [turn |-> i, todo |-> Unanswered(i)]]
    BY <1>7 DEF ReplayTrailing
  <2>2. /\ msgs' = msgs /\ pc'[r] = "ready"
        /\ job'[r] = [turn |-> i, todo |-> Unanswered(i)]
        /\ \A s \in Runs \ {r} : pc'[s] = pc[s] /\ job'[s] = job[s]
    BY <1>7, <2>1 DEF ReplayTrailing, durable, Goto, IInv, Workers
  <2>3. \A s \in Runs : job'[s].todo # {} =>
           pc'[s] \in Calling /\ (pc'[s] # "doubt" => Pending(s, job'[s]))
    BY <2>2 DEF Calls, Jobs, Pending, Calling
  <2>4. \A s \in Runs : pc'[s] = "stream" => AllServed(s)
    BY <2>2 DEF Calls, Asking
  <2>5. \A s \in Runs : pc'[s] = "doubt" => pc[s] = "doubt" /\ job'[s] = job[s]
    BY <2>2
  <2> QED BY <2>2, <2>3, <2>4, <2>5, PlainCalls DEF IInv, Plain
<1>8. CASE AskModel(r)
  <2>1. /\ msgs' = msgs /\ job' = job /\ pc[r] \notin Calling /\ pc'[r] = "stream"
        /\ \A s \in Runs \ {r} : pc'[s] = pc[s]
    BY <1>8 DEF AskModel, durable, Goto, At, Calling, IInv, Workers
  <2>2. \A s \in Runs : job'[s].todo # {} =>
           pc'[s] \in Calling /\ (pc'[s] # "doubt" => Pending(s, job'[s]))
    BY <2>1 DEF Calls, Jobs
  <2>3. \A s \in Runs : pc'[s] = "stream" => AllServed(s)
    BY <1>8, <2>1, AskServed DEF Calls, Asking
  <2>4. \A s \in Runs : pc'[s] = "doubt" => pc[s] = "doubt" /\ job'[s] = job[s]
    BY <2>1
  <2> QED BY <2>1, <2>2, <2>3, <2>4, PlainCalls DEF IInv, Plain
<1>9. CASE PersistResult(r)
  <2>1. pc[r] \in Held /\ "reread" \in Calling \ {"doubt"}
    BY <1>9 DEF PersistResult, At, Held, Calling
  <2> QED BY <1>9, <2>1, Answers, AnswersAgain DEF PersistResult
<1>12. CASE TaskInDoubt(r)
  <2>1. pc[r] \in Held /\ pc[r] # "doubt"
    BY <1>12 DEF TaskInDoubt, At, Held
  <2> QED BY <1>12, <2>1, Answers DEF TaskInDoubt
<1>10. CASE PersistShipped(r)
  <2>1. pc[r] \in Held /\ pc[r] # "doubt"
    BY <1>10 DEF PersistShipped, At, Held
  <2> QED BY <1>10, <2>1, Answers DEF PersistShipped
<1>11. CASE AskHuman(r) \/ WritePlan(r) \/ PushRejected(r)
  <2>1. pc[r] \in Held /\ pc[r] # "doubt" /\ Running(r)
    BY <1>11 DEF AskHuman, WritePlan, PushRejected, At, Held, IInv, Owned, Calling, Acting
  <2>2. Append1(Result(r, Id(r))) /\ DropJob(r) /\ \E p \in {"loop", "error"} : Goto(r, p)
    BY <1>11, <2>1 DEF AskHuman, WritePlan, PushRejected, PersistAndAwait, Settles
  <2> QED BY <2>1, <2>2, Answers
<1> QED
  BY <1>1, <1>2, <1>3, <1>4, <1>5, <1>6, <1>7, <1>8, <1>9, <1>10, <1>11, <1>12, <1>13 DEF Drive

\* While a run is running no request writes to the transcript.
LEMMA OperateSilent ==
    ASSUME IInv, NEW h \in Handlers, Operate(h), ~Clear(h), NEW r \in Runs, Running(r)
    PROVE  msgs' = msgs
<1>1. \A s \in Active : s = r
  BY DEF IInv, Owned, Running, Active, ActiveStates
<1>2. Active # {} /\ \A s \in Runs : run[s].state # "awaiting_human"
  BY <1>1 DEF Running, Active, ActiveStates
<1> QED
  BY <1>2 DEF Operate, SubmitReads, SubmitCreates, SubmitAnswers, Start, PauseCommits,
     PauseCancels, ResumeReads, RequestFails, ResumeCommits, DecideCommits, Answerable, Deciding,
     OpAt, durable, IInv, Others

\* A request appends the operator's words, or clears a transcript that no goroutine
\* is working on.
LEMMA OperateCalls ==
    ASSUME IInv, Calls, NEW h \in Handlers, Operate(h)
    PROVE  Calls'
<1>1. CASE Clear(h)
  <2>1. /\ msgs' = <<>> /\ UNCHANGED <<pc, job>>
        /\ \A r \in Runs : pc[r] \notin Acting
    BY <1>1, ClearEmpties
  <2>2. \A r \in Runs : ToolTurns(r)' = {}
    BY <2>1 DEF ToolTurns, OfRun
  <2>3. Jobs'
    BY <2>1 DEF Calls, Jobs, Acting
  <2>4. AnsweredOnce' /\ Older' /\ Asking' /\ Doubt'
    BY <2>1, <2>2 DEF AnsweredOnce, Older, Asking, AllServed, Doubt, Acting, Calling
  <2> QED BY <2>3, <2>4 DEF Calls
<1>2. CASE ~Clear(h)
  <2>1. Plain
    <3>1. <<>> \in Seq(ToolNames) /\ <<0, 0>> \in Nat \X Nat
      BY RunLoopAssumption
    <3>2. \A s \in Runs : User(s) \in Message /\ User(s).calls = <<>> /\ ~IsResult(User(s))
      BY <3>1, MessageTypes DEF User, IsResult
    <3>3. msgs' = msgs \/ \E s \in Runs : Append1(User(s))
      BY <1>2 DEF Operate, SubmitReads, SubmitCreates, SubmitAnswers, Start, PauseCommits,
         PauseCancels, ResumeReads, RequestFails, ResumeCommits, DecideCommits, durable, IInv, Others, OpAt
    <3> QED BY <3>2, <3>3 DEF Plain
  <2>2. job' = job /\ \A r \in Runs : pc'[r] = pc[r] \/ (pc[r] = "off" /\ pc'[r] = "loop")
    <3>1. CASE Start(h)
      BY <3>1 DEF Start, IInv, Workers
    <3>2. CASE ~Start(h)
      BY <1>2, <3>2 DEF Operate, SubmitReads, SubmitCreates, SubmitAnswers, PauseCommits,
         PauseCancels, ResumeReads, RequestFails, ResumeCommits, DecideCommits, worker
    <3> QED BY <3>1, <3>2
  <2>3. \A r \in Runs : job'[r].todo # {} =>
           pc'[r] \in Calling /\ (pc'[r] # "doubt" => Pending(r, job'[r]))
    BY <2>2 DEF Calls, Jobs, Calling
  <2>4. \A r \in Runs : pc'[r] = "stream" => AllServed(r)
    BY <2>2 DEF Calls, Asking
  <2>5. ASSUME NEW r \in Runs, pc'[r] = "doubt"
        PROVE  pc[r] = "doubt" /\ job'[r] = job[r] /\ msgs' = msgs
    <3>1. pc[r] = "doubt" /\ job'[r] = job[r]
      BY <2>2, <2>5
    <3>2. Running(r)
      BY <3>1 DEF IInv, Owned, Acting, Calling
    <3> QED BY <1>2, <3>1, <3>2, OperateSilent
  <2> QED BY <2>1, <2>3, <2>4, <2>5, PlainCalls DEF IInv
<1> QED BY <1>1, <1>2

\* A dead process has neither goroutines nor requests.
Down == proc = "down" => /\ \A r \in Runs : pc[r] = "off"
                         /\ \A h \in Handlers : op[h].at = "idle"

\* Until it is started again nothing starts in a dead process.
LEMMA DownKept ==
    ASSUME IInv, Down, [Next]_vars
    PROVE  Down'
<1>1. ASSUME NEW r \in Runs, Drive(r) PROVE Down'
  <2>1. pc[r] # "off" /\ proc' = proc
    BY <1>1 DEF Drive, LoopLeaves, LoopPauses, LoopAdvances, Park, CloseTerminal, NotTerminal,
       ReplayTrailing, AskModel, StreamCompletes, StreamPastBound, StreamInterrupted, StreamFails,
       StreamSilent, Halt, Finish, SandboxReady, SandboxUnavailable, CallsServed, PauseBeforeCall,
       BeginCall, ToolReturns, ToolStopped, ToolBroken, PersistResult, TaskFails, TaskInDoubt, AskHuman,
       WritePlan, PushRejected, PersistAndAwait, Settles, BeginShip, ShipBroken, Push, ClearPlan, PersistShipped,
       ShipFinish, Reread, AwaitError, StoreFails, StatementFails, WriteUnacknowledged, Exit, At
  <2> QED BY <2>1 DEF Down
<1>2. ASSUME NEW h \in Handlers, Operate(h) PROVE Down'
  <2>1. proc' = proc /\ (proc = "up" \/ op[h].at # "idle")
    BY <1>2 DEF Operate, SubmitReads, SubmitCreates, SubmitAnswers, Start, PauseCommits,
       PauseCancels, ResumeReads, RequestFails, ResumeCommits, DecideCommits, Clear, Arrives, OpAt
  <2> QED BY <2>1 DEF Down
<1>3. CASE Shutdown \/ Boot \/ UNCHANGED vars
  BY <1>3 DEF Shutdown, Boot, vars, Down
<1>4. CASE Die
  BY <1>4 DEF Die, Down, Idle
<1> QED BY <1>1, <1>2, <1>3, <1>4 DEF Next

\* Every step keeps the calls in order: a death forgets the jobs, and the goroutines
\* of the next process find the same calls unanswered.
LEMMA CallsKept ==
    ASSUME IInv, Calls, Down, [Next]_vars
    PROVE  Calls'
<1>1. CASE Die
  <2>1. Plain /\ \A r \in Runs : pc'[r] = "off" /\ job'[r].todo = {}
    BY <1>1 DEF Die, durable, Plain, NoJob
  <2> QED BY <2>1, PlainCalls DEF IInv
<1>2. CASE Shutdown \/ UNCHANGED vars
  <2>1. Plain /\ UNCHANGED <<pc, job>>
    BY <1>2 DEF Shutdown, vars, durable, Plain
  <2>2. msgs' = msgs
    BY <1>2 DEF Shutdown, vars, durable
  <2> QED BY <2>1, <2>2, PlainCalls DEF IInv, Calls, Jobs, Asking
<1>3. CASE Boot
  <2>1. Plain /\ job' = job /\ \A r \in Runs : pc'[r] \in {"loop", "off"}
    BY <1>3 DEF Boot, durable, Plain
  <2>2. \A r \in Runs : job[r].todo = {}
    BY <1>3 DEF Down, Boot, Calls, Jobs, Calling
  <2> QED BY <2>1, <2>2, PlainCalls DEF IInv
<1> QED BY <1>1, <1>2, <1>3, DriveCalls, OperateCalls DEF Next

\* The calls are in order in every reachable state.
LEMMA CallsInOrder == Spec => []Calls
<1>1. Init => Calls /\ Down
  BY DEF Init, Calls, Down, Jobs, Doubt, AnsweredOnce, Older, Asking, ToolTurns, OfRun, NoJob
<1>2. IInv /\ Calls /\ Down /\ [Next]_vars => Calls' /\ Down'
  BY CallsKept, DownKept
<1> QED BY <1>1, <1>2, Invariance, PTL DEF Spec

\* AnsweredOnce: across pauses, waits, crashes, replays and lost acknowledgements
\* no call is answered twice but an update_task whose commit was in doubt, that one
\* at once and never again, and a result follows its turn in the same run.
THEOREM OneAnswer == Spec => []AnsweredOnce
BY CallsInOrder, PTL DEF Calls

\* RequestsComplete: no transcript goes to the model with a call of its run cut
\* short.
THEOREM WholeRequests == Spec => []RequestsComplete
<1>1. Calls => RequestsComplete
  <2>1. \A i \in DOMAIN msgs : msgs[i].calls = <<>> => DOMAIN msgs[i].calls = {}
    OBVIOUS
  <2> QED
    BY <2>1 DEF Calls, Asking, AllServed, RequestsComplete, CutShort, At, ToolTurns, OfRun, Unanswered
<1> QED BY <1>1, CallsInOrder, PTL
==============================================================================
