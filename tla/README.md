# A verification development for doota

doota is a single-binary web application (Go, PostgreSQL) in which an operator
gives a coding agent a task on a project.  The agent runs in a remote sandbox,
proposes a plan, waits for approval, edits, has its work reviewed and ships a
branch.  The program promises that every step of this is durable: a restart
continues where the last process stopped, and the browser shows what the
database holds.

This directory holds TLA+ models of the parts that carry those promises, TLC
configurations that check them on small instances, and TLAPS proofs of the
results that should hold for every value of the constants.  Each definition is
translated from the Go (or JavaScript) source; `PROJECT.json` maps every
definition to its lines.  The repository has no tests, so its comments and its
screens are what the code is compared with.

    tlc -workers 2 -config RunLoop_core.cfg MCRunLoop     # model-check
    tlapm RunLoopProofs.tla                               # check the proofs

## 1. The system and its components

    operator --HTTP--> web handlers --> agent.Service --> model API
                            |              |   |
                            |              |   +--> tools --> sandbox provider
                            v              v
                       store (PostgreSQL: project, run, message, event,
                            ^             tool_call_log, background_process,
                            |             app_config, user)
    browser <--SSE-- events.Hub <-- publish

| component | state it keeps | operations | what makes it correct |
|---|---|---|---|
| run loop (`internal/agent/agent.go`, `store/runs.go`, `store/messages.go`) | run row, transcript, board status; `workers` map, one goroutine per run | Submit, Pause, Resume, ApprovePlan/RevisePlan, ClearConversation, Recover, Shutdown, `run`/`advance`/`executeCalls` | one goroutine per active run; nobody ends the run under it; every tool call answered once and before the next model request; closed runs stay closed; pauses take effect; a restart continues |
| reviewers and shipping (`agent/review.go`, `uireview.go`, `agent.go` ship, `store/history.go`, `tools/git.go`) | worktree, branch, remote, `tool_call_log` | review, ui_review, done: clean, review and UI gates, push, pull request, three writes | only a pushed branch is reported shipped; nothing is pushed while the outcome of a counted review is unknown to the agent; the gates never trap it |
| configuration cache (`store/appconfig.go`) | snapshot with age and generation, per process | LoadConfig, SetConfig, SetConfigValues | a save is effective at once in its process; other processes catch up within the TTL |
| event stream (`store/events.go`, `events/hub.go`, `web/sse.go`, `static/chat.js`) | event rows, per-subscriber channel, the page's cursor | publish, subscribe, replay, forward, tail fetch | the page shows each message once, in order, and eventually |
| provisioning (`project/service.go`, `provision.go`, `sandbox/*`) | project row (sandbox id and status), `inflight` map, the sandbox | Create, Recreate, Delete, the setup goroutine, RefreshStatus, ReadySandbox, FailInterruptedProvisioning | ready means built; every sandbox is recorded; Recreate recovers from anything |
| task board and notes (`store/scratchpad.go`, `tools/plan.go`) | scratchpad JSON: status, tasks, base commit; memories and orientation | WritePlan, ApprovePlan, RevisePlan, update_task, ClearPlan, remember, record_orientation | a plan is decided before work; an update and its answer agree |
| background processes (`store/background.go`, `tools/shell.go`) | `background_process` rows, the pid file and the process group in the sandbox | bash_bg, stop_bg, the sweep of Recreate and Delete | what runs can be found and stopped; a stop is true; a name is never blocked |
| model client (`internal/model`, `streamWithRetry` and `deltaBatch` of `agent.go`) | a streamed response, the attempt, the batch of text deltas | Stream, absorb, retries, flush, close | the hub gets each delta once; the transcript keeps what was watched; a call returns |
| agent tools (`internal/tools`) | the worktree; nothing of their own | write_file, edit_file, bash, read_file, search, list_dir, read_logs | an effect happens once and its answer is true; nothing is left out of a result silently |
| boot (`cmd/doot/main.go`, `store/migrate.go`, `store/users.go`, `EnsureConfigDefaults`, `EnsureSessionSecret`) | `schema_migrations`, the first user, defaults, the signing secret | migrate under an advisory lock, bootstrap, fill, serve, drain | machines that boot at once do not fail each other |
| sessions (`web/session`, `web/auth.go`, credentials of `web/settings.go`) | signed cookies; a failure counter and a lockout per process | login, logout, change of credentials | sessions survive a deploy; the throttle bounds what is tried |
| settings screen, server, preview, rendering, prompts | little or none | see `PROJECT.json` | |

They interact through the database (every handler and goroutine reads rows,
decides, and writes later), through two in-memory maps (`workers`, `inflight`)
that say who is at work in this process, and through the hub.  The hard
behaviours are those seams: a request commits first and touches the worker
afterwards; a goroutine works from a row read some statements ago; the
process dies between two statements; a frame is dropped; a status is written
from a snapshot.  `PROJECT.json` lists each hazard at the line where it bites.

## 2. Modules

| module | models | composed with |
|---|---|---|
| `RunLifecycle` | abstract: the legal lives of the runs of a project | implemented by `RunLoop` |
| `RunLoop` | the run loop, the requests, crash, shutdown and boot | `MCRunLoop`, `RunLoopProofs` |
| `ShipGate` | the agent's last mile: commit, reviewers, done | `MCShipGate`, `ShipGateProofs` |
| `ConfigCache` | the configuration snapshot in two processes | `MCConfigCache`, `ConfigCacheProofs` |
| `Conversation` | abstract: the page as a log of messages | implemented by `EventStream` |
| `EventStream` | from a committed message to the page | `MCEventStream`, `StreamProofs` |
| `Provisioning` | the project row, its sandbox and everyone who writes its status | `MCProvisioning`, `ProvisioningProofs` |
| `Background` | what bash_bg starts and stop_bg stops: process, pid file and row | `MCBackground`, `BackgroundProofs` |
| `ModelStream` | one model call: attempts, stream, delta batch, what is appended | `MCModelStream`, `StreamProofs` |
| `ToolEffects` | a call that changes something, its answer, and its replays | `MCToolEffects`, `ToolProofs` |
| `ToolViews` | what a tool shows of something bigger than its result may be | `MCToolViews`, `ToolProofs` |
| `Boot` | machines that boot on one database, login, sessions and credentials | `MCBoot`, `BootProofs` |

The `MC` modules only give the constants values that a `.cfg` cannot spell
(sequences, functions, symmetry).  `StreamProofs` and `ToolProofs` extend two
components each; where the names of the two would clash, those of the second say
whose they are (`EventSpec`, `ViewTypeOK`).

### RunLoop

*Correspondence.*  `run`, `msgs` and `pad` are the rows of `run`, `message` and
the status of `project.scratchpad`: they survive `Die`.  `pc`, `job`,
`cancelled` and `op` are memory: the place of each goroutine, the calls
`executeCalls` still holds, the `cancelStream`/`cancelTool` of its worker, and
the place of each HTTP request.  One step is one statement or transaction, one
model call, one tool execution or one use of `workers`.  `Drive(r)` has one
action for each such step of `run`, `advance`, `executeCalls`, `ship` and
`awaitError`; `Operate(h)` splits each handler where the code does: read,
commit, reach for the worker.  `Start` is a no-op while the goroutine is
registered, as `start` is.

*Abstractions.*  Tools whose result is only appended are `"plain"`.  A turn is
one of the sequences in `Shapes`.  `TrailingToolCalls` is the set `Unanswered`
of the newest turn with calls.  The worktree and review gates are in
`ShipGate`; here `done` is refused, parked, broken or shipped.  Past `MaxTurns`
recorded turns the model keeps calling tools without the transcript growing,
so that nothing but the code ends the loop.  `FaultKinds` says what may fail:
the model, the sandbox, a statement of the database (`StatementFails`,
`RequestFails`), or the acknowledgement of a write that took effect (`"ack"`:
`Settles`, `WriteUnacknowledged`, `RequestFails`), after which the caller goes the
way of an error although the row is written.  update_task is the tool for which
this shows: its answer is in the transaction that moves the task, and
`applyControl` answers any error of it with a failed result, so that an unheard
commit leaves two answers (`TaskInDoubt`, then `PersistResult` from `"doubt"`).
Postgres message ids are positions
in `msgs`; call ids are unique within a run, as the code takes them to be.

### ShipGate

`log` is what `ReviewOutcomes` and `UIReviewOutcomes` count, `told` is what the
results in the transcript said.  The row is written by `Registry.Execute`
*before* `runReview` starts, so `Requests` records and `Opens` begins.  The
agent does what the last refusal told it to do (`wants`), and anything else at
most `MaxSlips` times.  A crash or an error replays the unanswered call.  The
tools are withheld on a reviewer's last turn; an endpoint may return calls all the
same, which are executed (`Explores`) and end the review without a verdict
(`RunsOut`).  Of a lost acknowledgement of the three last writes the module says
nothing: `RunLoop` has it.

### ConfigCache

A snapshot is named by the number of commits it contains.  A load that misses
is four steps (miss, capture the generation, query, store), a save is two
(commit, invalidate); `Home` says in which process each runs.

### EventStream

`chan` is the hub's channel, `wire` what the handler has written, `fetches` the
requests in flight.  Frames that fetch messages are news, named by their
event id; text deltas and the rest are `Quiet`.  `owed` is the newest announced
message that the page still has a way to hear of; it stays behind when a full
channel drops a frame behind quiet ones alone, and goes back when a fetch fails
with nothing else on its way.  `Conversation` says what the operator makes of all
this: a page that only grows at its end.  `FollowsConversation` maps its variables
to `rows`, `cursor`, `screen` and `torn`, and says more than `ScreenInOrder`: that
no step takes back or moves what an earlier one showed.

### Provisioning

One project, whose row, sandbox and `inflight` entry nothing else shares.  The
setup goroutine is `Reads` .. `Leaves`; each request carries the snapshot of the
row it came in with (`seen`, `named`), because `Recreate`, `Delete`,
`RefreshStatus` and `ReadySandbox` all decide from that snapshot.  The provider
is external: what `Create`, `Get`, `State`, `Delete` may answer is taken from
how the code treats their answers and from `LocalProvider`.

### Background

One name, since rows, files and groups of different names share nothing.
`group` is what runs in the sandbox, `pidfile` what `launchDetached` and
`killProcessGroup` keep there, `running` the row that says so; a process is
numbered by its launch.  `Looks` .. `Marks` are the statements and execs of
`bashBgTool.Execute` and `stopBgTool.Execute`, which share their first three;
`Fails` is what `executeCalls` makes of an error: the run parks with the call
unanswered (`Breaks`) and `Resumes` replays it from the start, or, if it was
cancelled, the call is answered with an error.  `Recreates` .. `Starts` are the
statements of `Recreate`; of provisioning only that it makes a sandbox if there
is none.  A group may outlive its leader (`"headless"`), which the code neither
signals nor looks for.

### ModelStream

One call of `advance`, from the first attempt to the end of the step.  The
endpoint is external: it may send a text delta, its terminal event or an error
frame, end the stream or break the connection at any point, or fall silent.  A
piece is one delta, numbered by arrival over all attempts, because the page and
the transcript have to agree on all of them.  `Opens` .. `Stops` are `Stream`,
`Final` .. `Abandons` the loop of `streamWithRetry`, `Arms` and `Wakes` ..
`Flushes` the `deltaBatch`, whose timer runs in a goroutine of its own: it takes
the text under the lock and publishes it later, and a flush that has begun is
not stopped by `close`.  `Appends`, `Parks` and `Refuses` are what `advance` makes
of the result.  `told` says that the terminal event carries the reply as well,
which `absorb` uses when no delta did.

### ToolEffects

`world` is what calls change: a file, the task board, and the two notes.  `pc`
follows one call through `executeCalls`: `Begins`, the statements of the tool
(`Refuses`, `Stats`, `Reads`, `MakesParent`, `WritesFile`; the control tools only
hand their request over), then the answer (`Answers`), with the effect in the
same transaction (`UpdatesTask`) or in a statement before it (`SetsNotes`).
Every step may lose its request before or after its effect; `Restarts` executes
the call again unless the transcript answers it.  `base` is the world as others
left it: processes of the sandbox and the operator write the same things, and
`lost` says that one of them did after the call had looked.  What an edit makes of a
text is left to three constants that stand for Go's `strings.Count`, `Replace` and
`ReplaceAll`, of which only the types are assumed: an edited text may match again
because the new_string holds the old one, or because what is left joins to another
one ("ab" replaced by nothing in "aabb").  `MCToolEffects` gives them their
definitions on texts over two letters.

### ToolViews

Texts are sequences of bytes and newlines, and a view is the sequence of the
positions it shows, so that order, gaps and repetitions are visible.  `Compacted`
is `boundedBuffer.Write` chunk by chunk, `ClipMiddle` and `CutBack` the two cuts.
`ReadsPage` is read_file with the window it is asked for, and the reader goes on
at the offset that the notice names.  `Outputs` are what ripgrep may print, hits
and diagnostics in any order; `Collapse` is list_dir's folding of the paths git
lists.  One byte is one character.

### Boot

The database (`schema`, `holder`, `users`, `config`, `secret`) is shared; `pc` is
the place of each machine in `run` of `main.go`; `key`, `failures` and `locked` are its
memory and go with it (`Dies`).  Each step is one statement or transaction, so
that the look and the write of `CountsUsers`/`InsertsUser` and
`ReadsSecret`/`StoresSecret` come apart.  `req` holds the logins and changes of
credentials in flight: a login is the look at the lockout and, after the
database, bcrypt and the delay, its end; a save carries the user that
`requireAuth` read.  `raced` and `overlapped` are history: two machines were
between such a look and its write, or two saves were in flight.

## 3. Runs

| run | question | instance | states |
|---|---|---|---|
| `core` | do two requests, a goroutine, a crash and a shutdown ever end a run under its driver, reopen a closed one, or leave the lifecycle? | 2 runs, 2 requests in flight, four kinds of faults, 1 recorded turn, 1 death | exhaustive with symmetry, 1.25 million, about 3 min |
| `live` | is each call answered once, before the next request; do pauses and restarts take effect? | 1 run, 1 request, 2 turns, 1 death, model and sandbox faults, lost acknowledgements | exhaustive, about 80 s |
| `ship` | can anything be shipped that is not pushed, or pushed while a review is unheard of; can the agent be trapped? | 3 reviewer turns, 2 attempts, 2 slips, all faults | exhaustive, about 50 s |
| `config` | is a save effective at once and caught up with elsewhere? | 2 processes, 3 callers, 2 saves | exhaustive, about 40 s |
| `stream` | is the page in order and complete? | 2 publishers, channel of 1, replay of 1, 3 messages, 1 quiet frame, 1 fault | exhaustive, about 55 s |
| `provision` | is ready built, recorded, and recoverable? | 2 clients, 2 requests after the first, 2 faults | exhaustive, about 20 s |
| `background` | can what was started be found and stopped, and the name be used again? | 1 name, 3 launches, 2 recreates, 2 faults of any kind | exhaustive, about 75 s |
| `model` | is each delta published once, kept, and does the call return? | 2 attempts, 3 deltas, any endpoint, 1 cancellation | exhaustive, about 60 s |
| `effects` | does a call have its effect once, and is its answer true? | texts over two letters, one call of each kind, 2 calls, 2 faults, 1 write of others | exhaustive, about 30 s |
| `views` | is anything shown out of order, over its limit, or left out silently? | limits of 2 to 5 bytes, lines or entries, texts of up to 11 bytes | exhaustive, about 30 s |
| `boot` | do machines that boot at once agree, and do sessions and the throttle hold? | 2 machines, 2 builds, 3 boots, 2 requests at once, 3 in all | exhaustive, about 2 min |

*Why the bounds are enough.*  Two runs are the least with which the one-active rule,
a late request for an old run and a clear can go wrong; two requests are the least
that can interleave (answer against answer, resume against pause); a second death
adds nothing to the first because `Boot` reads only rows that the first death leaves
in any reachable shape.  A turn with two calls is the least that can be half served,
and the second turn shows that an older half-served one is never forgotten.  Three
reviewer turns separate the first, a middle and the last (withheld tools) turn; the
gates ask only whether attempts reach two. Two callers overlap a load with a save, a
third loads again afterwards.  A channel and a replay of one are at their limit at
once.  Two provisioning requests beside a setup reach every pair of them, and two
faults break a setup and the recreate that follows.  Three launches are a process,
its replacement and the replay that launches once more; two recreates may overlap.
Two attempts are a first that may be tried again and a last that may not; three
deltas are one being published by the timer's flush, one taken by the close and one
in the batch.  Texts of four letters match an old_string of two twice, once within
another, and once more after an edit; the longest a call makes of one has fewer than
the twelve letters at which texts are cut; and two faults cut a call and its replay.
Eleven bytes overflow a buffer of eight once (the proof has any number of
compactions), cut one of four in the middle, and fill three pages of three.  The
second machine starts while the first serves, the third boot finds what both left,
and the build that knows version 1 may come after one that applied 2 without it;
with two failures to a lockout, two requests in flight pass it together.  Every cap
is a named constant: `MaxTurns`, `MaxCrashes`, `MaxAttempts`, `MaxSlips`,
`MaxSaves`, `MaxRows`, `MaxQuiet`, `MaxFaults`, `MaxAsks`, `MaxLaunches`,
`MaxRecreates`, `MaxPieces`, `MaxCalls`, `MaxOthers`, `MaxText`, `MaxLetters`,
`MaxBoots`, `MaxPosts`.

`CHECK_DEADLOCK FALSE` is set where the system may really stop: an operator who
asks nothing, a closed run, an exhausted bound.

*Fairness.*  Weak fairness of each goroutine (`Drive(r)`, `Provision`, `Tool`,
`Agent \/ Review \/ Ship`): the scheduler runs it, a model call ends within
`streamTimeout`, tools and execs have timeouts.  Weak fairness of a request once it
has begun, of boot after a death, of the death that ends a shutdown, of
`EventSource` reconnecting and of the browser taking its frames and responses.  In
`ConfigCache`, weak fairness of a caller that has begun and of time passing.  In
`ModelStream`, weak fairness of the goroutine (`Loop`), of the timer's flush
(`Timer`) and of the deadline (`Expires`: `streamTimeout` is set on every attempt);
the endpoint owes nothing.  Nothing is assumed of the operator, of faults or of the
agent's good sense beyond following a refusal once its slips are spent.
`ToolEffects`, `ToolViews` and `Boot` state safety only and assume no fairness.

### Where the code and its comments differ

The run `stranded` checks such a sentence and finds it violated; it is the finding
of `PROJECT.json`.  Six more are stated at the end of their modules, and each has a
`.cfg` with which TLC finds it violated in seconds, on the smallest instance that
shows it: for example `tlc -config RunLoop_plan.cfg MCRunLoop`.

| property | sentence | what happens |
|---|---|---|
| `NoStrandedRun` (`RunLoop_stranded.cfg`) | an answer "resumes the same run" (`agent.go:126-127`) | a request that commits while the parked goroutine is still registered starts nothing: the run stays running with no goroutine until the next boot |
| `PlanGate` (`RunLoop_plan.cfg`) | "Approve or reject the plan on this screen before any work starts." (`chat.go:350`) | an answer that was read for a question and commits late (`runs.go:324-328` asks only that the run waits) resumes a run that by then waits for a plan decision |
| `OneReviewMeansVerdict` (`ShipGate_verdict.cfg`) | "Concluded means ... the reviewer said CLEAN or listed findings" (`history.go:29-31`) | the row is written before the review runs (`agent.go:431-438`), so one failed review opens the gate |
| `SetupEnds` (`Provisioning_timeout.cfg`) | "hanging forever is worse than failing." (`service.go:32-33`) | the failure of an expired setup is recorded under the expired context: the project stays in provisioning; so does one whose Recreate met the departing goroutine (`service.go:310`) |
| `EndsAtLine` (`ToolViews_page.cfg`) | "cutting back to the last newline so the result does not end mid-line" (`truncate.go:50-51`) | a newline that is the first byte does not count (`nl > 0`): a page that starts with an empty line and a line as long as a page loses that line's last byte, and no later page has it |
| `CookieSurvives` (`Boot_first.cfg`) | "sessions survive a deploy" (`main.go:145-146`) | two first boots that overlap each store a secret of their own; the first serves with one that is no longer stored |
| `DefaultIsMarked` (`Boot_marker.cfg`) | "renaming the account while still on the default password must keep the marker" (`users.go:76-77`) | a rename that overlaps a change of password writes the old hash back (`settings.go:338`): the default password, and no marker |

What the exceptions and premises of other properties stand for:

| premise | sentence | what happens |
|---|---|---|
| `Repeatable` in `OneEffect` | "The trailing tool-call repair makes that safe" (`agent.go:899-901`) | an edit of a text that matches again once it is edited, because the new_string holds the old one or because its neighbours join to it, is applied twice when it is replayed; any other replayed edit is answered with "0 matches" although it was made |
| update_task in `AnsweredOnce`, two answers in `AnswersTell` | "A bad task number is the model's mistake to correct, not a crash." (`agent.go:527`) | any error of UpdateTask is answered so, an unheard commit too: the board has moved, and the call has an answer and a failure |
| the last byte of a line in `PagesCover` | "cutting back to the last newline so the result does not end mid-line" (`truncate.go:50-51`) | see `EndsAtLine`; and a line longer than a page is shown in part, with a notice |
| `torn` in `AnnouncedIsShown`, `ScreenInOrder` | the page "never refetches or skips" (`chat.go:384`) | a tail response that breaks off after its header has moved the cursor past rows the page shows only after a reload |
| `named` or no sandbox, nobody in setup, in `RecreateRecovers` | | a sandbox no row names, and a Recreate that meets the departing goroutine (`service.go:310`), are not recovered from |
| an empty content in `AnswersTell` | "was already exactly this content; nothing changed." (`write.go:97-101`) | said of a new file, or of one over the read ceiling, that is written empty: neither was read |
| `lost` in `OneEffect` | | what a background process writes between the read and the write is overwritten (`write.go:180-212`), and remember overwrites what the operator has just saved (`agent.go:539`) |
| half-limit ends in `EndsKept` | "the head says what ran and the tail says how it failed" (`truncate.go:64-65`) | holds; but a compaction leaves no notice (`truncate.go:98-102`), so output that ends right after one is spliced in the middle without a word |
| diagnostics in `CutsAreTold` | | ripgrep's diagnostics pass through the same `head` (`read.go:441`), which then cuts matches that nothing counts |
| `raced` in `SessionsHold`, `BootsTogether` | | see `CookieSurvives`; and two first boots may make two accounts if the default one is renamed in between |
| `overlapped` in `SessionsHold` | | see `DefaultIsMarked` |

## 4. Proofs

`RunLoopProofs`, `ConfigCacheProofs`, `ProvisioningProofs`, `BackgroundProofs`,
`StreamProofs`, `ToolProofs`, `BootProofs` and `ShipGateProofs` hold for every value
of the constants that satisfies the module's `ASSUME`.  Every safety invariant that a
run checks is a theorem.

*RunLoop.*  `TypeOK` and `DriverOwnsRun` are not inductive: `Park` closes the
loop for a run on the word of an earlier read, and a served call is looked up
in a job that other steps change.  `IInv` therefore adds two facts: a goroutine
past the pause check of a call holds a call (`Workers`), and a goroutine about
to park its run has seen a pause request (`Owned`); the rest of its parts
(`Rows`, `Transcript`, `Others`) are the types, kept apart because an action
seldom disturbs more than two of them.  `Invariance` proves `IInv` with one
step per action; `TypeCorrect` and `DriverOwns` follow.  `Refinement` proves
`Spec => ImplementsLifecycle`: `Init` maps to `Init`, and each action to the
lifecycle action or stutter it is, using `IInv` to know that a closing or
parking goroutine starts from a running run whose pause was asked for, and that
no second run is under way when one is created.

The transcript needs more than the row.  First, who may write: a goroutine
appends to its own run and moves no other (`DriveSpeaks`, `DriveOwnRow`,
`DriveOwnPlace`), and a request leaves a run that is running or over as it is, but
for the pause flag and for Clear (`OperateSpares`).  `StayClosed`
(`ClosedRunsStayClosed`) follows.  `Settled` (`ClosedRunSettled`) carries with it
that a goroutine about to close its run has already appended what closes it
(`Ending`).  `OneAnswer` and `WholeRequests` (`AnsweredOnce`, `RequestsComplete`)
follow from `Calls`: the calls a goroutine holds are unanswered calls of a turn of
its run, held only under executeCalls (`Jobs`); of the turns of a run only the
newest may be cut short (`Older`); and whoever asks the model has no call left
(`Asking`).  An update_task in doubt is the one call a goroutine may hold that is
answered already: its first answer is then the last message, and the second
follows at once.  A replay starts again from what is unanswered, so a death, which
forgets the job, keeps all of it.

*ShipGate.*  `TypeOK`, `ShippedIsPushed` and `ShippedIsTold` are inductive
together.  Whoever commits is between two calls; the types tie that to the
goroutine's place, so nothing moves the branch between the push and the end of
the run.  A row of the log is written only under its own call, which is answered
in one step with `told`; so past the gate, where the call is done, every attempt
has its result (`ShippedKnowingly`).

*ConfigCache.*  `LoadSeesSaves` rests on two facts of the cache: it never holds
anything older than the last save of its process (`Cached`), and a load that may
still store its snapshot, because no generation has passed since it captured
one, has a snapshot the cache may hold (`Queried`).  `Bounded` ties both to what
is committed.

*Provisioning.*  `FinishedIsBuilt` and `SandboxIsRecorded` need that before the
row exists there is neither a sandbox nor anyone to act for it (`Unborn`), and
that an expired context was counted as the fault it is (`Timely`).  `Noted` is what
the two reconciliations may leave behind.

*Background.*  `Tracked` (without a failure, what leads its group is named by
the file and by the row) needs that nothing leads between the kill and the next
launch, nor between the destruction of a sandbox and the sweep of its rows, and
that a recreate and a setup exclude each other (`Quiet`).  `StopHolds` (after at
most one failure, what stop_bg calls stopped no longer leads) needs that the
file names no other process than the row that was, or will be, found (`Filed`);
the first failure finds a state in which `Tracked` held, which is why one is
tolerated and two are not.  `Held` is what the tool has in hand at each place.

*ModelStream.*  `Once` says where each delta is; it needs that what close has
taken is published before the step goes on (`Rested`).  `WatchedIsKept` needs that
an attempt that is tried again, or given up, showed nothing but white space
(`Spoken`): then the text of all attempts is the text of the last one, which is
what is appended.  The types need that an attempt backed off from is not the
last (`Counted`).

*EventStream.*  `ScreenInOrder` says of the screen what depends on every request
that may still reach it.  Three facts make it inductive.  `Tables`: no event is
older than its message, because a publisher commits its row before it records the
event, and there are at least as many rows as events and publishers in between.
`Pipes`: no frame and nothing owed is ahead of those tables, and the channel never
outgrows its buffer.  `Page`, the heart of it: there is at most one request, and the
cursor it started from is the cursor still when its answer lands, so that the
answer is the screen's continuation; what a broken answer leaves behind (`torn`)
lies before the cursor.  `EventsTypeCorrect` and `InOrder` follow, for any number
of publishers, any buffer, replay, faults and quiet frames.  `Conversed` is the
refinement: the screen, the cursor and the torn rows are the variables of
`Conversation`, an append is its `Writes`, an answer that lands or tears is its
`Shows` or `Loses` if it brings news and a stutter if it does not (`Answers`), and
every other step is a stutter.

*ToolEffects.*  `OneEffect` compares the target with what others left of it; to be
inductive it has to say so at every place of a call.  `Placed` and `Unanswered` say
what a call has in hand and that nothing answers it before its end, `Effected` that
the target is as others left it or as one execution makes it, and which of the two
it is where the place says so (`Here`); `Looked` that the snapshot of an edit is
still the file and still has its match.  `Elsewhere` says that nothing but the
target is touched, faults or not.  Unless the edited text fits the call again
(`Repeatable`), a replay of an edit that was made is refused where it reads the
file, and cannot reach its write again.

*ToolViews.*  Of a command, `EndsKept` speaks of the result; inductive is what the
buffer holds between two writes (`Holds`): all of the output, or at least half a
limit of each of its ends.  `Appended` and `CompactedHolds` show that a write of any
chunk keeps that, `HeadKept` and `TailKept` that the cuts at newlines lose no whole
line, and `TrimHonest` that trailing newlines are not missed (`BothEndsKept`, and the
bound of the buffer in `ViewsTypeCorrect`).  `NothingSilent` (`NothingIsSilent`) is
inductive but for what the last result has to do with the call under way
(`Whereabouts`); its proof is the arithmetic of lines.  `LinesBetween` counts: among
consecutive positions there are as many newlines as lines between them, by a
bijection, since positions cannot be counted by induction.  `StartIs` and `EndIs`
place the bytes of a line, `WholePage` says that a page that fits has all of its
lines, and `CutPage` that a page cut at `MaxBytes` ends with a whole line, which is
the one its next offset counts, or lies within a line longer than a page, or ends one
byte before the end of a line as long as a page that follows an empty one
(`Excepted`); `CoverIs` states for a position what `PagesCover` says of all.
`LogWhole`, `SearchTold` and `ListTold` are the same for the other tools; for a
listing, git's paths have to be finite in number.

*Boot.*  `Throttled` counts the requests in flight: the wrong passwords looked
at since the last lockout, and the logins that passed the look, are no more than
the limit allows; its arithmetic needs the finite sets of
`FiniteSetTheorems`.  `Migrated` says that only the holder of the lock is at work on
the schema and that what it has read is still what is applied.  `Peopled`
says that an insert is ahead of the first user, or raced; `Keyed` the
same of the secret, and that every key signed with is the stored one; `Saving`
that a lone save still carries the password that is stored.

The assumptions are `RunLoopAssumption`, `ConfigCacheAssumption`,
`ProvisioningAssumption`, `BackgroundAssumption`, `ModelStreamAssumption`,
`EventStreamAssumption`, `CallsAssumption`, `TextsAssumption`, `LimitsAssumption`,
`BootAssumption` and `ShipGateAssumption`: the types of the constants, that a turn
without calls is a possible turn, that an edit counts its matches in a text and
makes a text of it, that `NoRun` is not a run nor "nobody" a machine, that the
requests handled at once and the paths of a repository are finite in number, and
that the limits of the tools are positive.

*Left to TLC.*  Liveness under fairness and `ENABLED` are outside what the
prover can do, so `PauseParks`, `RestartServes`, `NeverTrapped`, `CatchesUp`,
`AnnouncedIsShown`, `RecreateRecovers`, `NameIsUsable` and `Delivers` are
model-checked only.  So is anything that needs induction over data: the modules
avoid recursive operators, and nothing is proved of what a fold computes.

## 5. What the models leave out

Within the modelled components:

- *RunLoop*: the retries inside `streamWithRetry` (`ModelStream` has them); the text
  of errors; the "failed" state, which nothing assigns; a database that fails at the
  head of the loop, in `pauseRun` called from there or in `awaitError` is a
  goroutine that leaves (`StatementFails`), and such a run is found by the next boot
  only: the run `live` has lost acknowledgements and no other fault of the database.
  What update_task and the memory tools change is in `ToolEffects`; here the latter
  are `"plain"`, and of the former only its answers are modelled.
- A shutdown cancels the streams, and a cancelled stream that was not asked to
  pause ends in `awaitError`: a run that was running may be left parked with an
  error rather than running, although `agent.go:897-901` expects `Recover` to
  pick it up.  The model has both outcomes.
- ApprovePlan and RevisePlan leave `pause_requested` as it is (`Decided`): a
  pause asked for just before a plan was drafted parks the run as soon as the
  plan is approved.
- *ShipGate*: the brief, the screenshots, the verdict's text.  A finished push
  followed by a crash or a failed `FinishRun` leaves a run that goes on although
  its result says shipped; edits after a review ship unreviewed; with no
  approved plan the UI gate diffs the clean worktree and never asks; a review in
  design mode counts as one of the interface.
- *EventStream*: messages of a project are appended one at a time, so that ids
  become visible in order; an answer whose insert waits for a row lock of
  `WritePlan` could break that and is not modelled.  A frame dropped behind text
  deltas alone, the last news of a turn, waits for the next move of the run or of
  the connection, although `hub.go:31-34` speaks of a delay until "the next
  structural event"; `AnnouncedIsShown` excludes it through `owed`.  An answer that
  is an error page is a failed fetch here (`FetchFails`): `chat.js:187-196` does not
  look at the status and would append the page's text to the transcript, without
  moving the cursor.  Event pruning, the reload after a cleared conversation and
  streamed text are left out.  The page reconciles with a fetch whenever it
  connects, so rows that the replay misses (its limit, ids published out of order)
  do not matter to it.  A tail response that breaks off after its header has moved
  the cursor (`chat.js:190-192`) past rows the page shows only after a reload,
  although the header is there so that the page "never refetches or skips"
  (`chat.go:384`); `torn` holds those rows, and `ScreenInOrder` excepts them.
- *ConfigCache*: the keys and their parsing (`Boot` has the defaults and the
  session secret), and the age of a snapshot is
  counted from its storing, not from its query.
- *Provisioning*: the preview port, `SyncGoalStart` (no callers), exec and file
  transfer.  `ReadySandbox` may call a project ready that is in error or in
  setup; a delete during setup or a death between the provider's create and
  `SetSandbox` leaves a sandbox no row names: these are in the model, and are why
  `SandboxIsRecorded` speaks of active projects without a fault.
- *ModelStream*: credentials, the SDK client, the conversion of a conversation
  into a request (`params`, `inputItems`), usage counts.  A tool call announced by
  `response.output_item.added` does not keep a broken attempt from being tried
  again: `streamWithRetry` looks only at what `absorb` stored, although
  `agent.go:787-789` says that once "text or a tool call appears" a replay is
  forbidden; nothing durable depends on the announcement.  A flush of the timer
  publishes outside the lock, so a delta may reach the hub after a younger one or
  after message.complete; `Once` says that it is published once, not in order.
  Calls whose arguments are not JSON cannot be encoded, and the step fails with
  its text unsaved (`Refuses`), although `agent.go:322` means to "not lose work";
  `WatchedIsKept` excepts that and a failed append.

- *Background*: read_logs, which changes nothing; Delete, which ends the project;
  the text of results.  Reachable in the model, and the reason for the premises
  of its properties: a crash or a cancellation between the launch and its row
  replays into a second server beside the first, which no name reaches, although
  `shell.go:78-79` says that a replacement "never leaves an orphan holding the
  port it wants"; `shell.go:81` takes any error of the lookup for the absence of
  a process, with the same effect; a leader that is gone ends `killProcessGroup`
  before its children are signalled (`shell.go:322`); and Recreate retires the
  rows although the sandbox could not be deleted, where `service.go:113` says that
  what ran "died with the old sandbox".  `LocalProvider.Delete` removes a
  directory and leaves its processes running; the model has the sandboxes of
  production.

- *ToolEffects*: the sandbox is taken to write a file whole or not at all; the
  diff and the events that follow a write; bash, whose effect is whatever the
  command does and which a replay runs again; notes of a task.
- *ToolViews*: a byte is a character, so a cut inside one (where a text has no
  newline to cut back to) is not seen; the 300 bytes of a matched line; the
  numbering of lines, which adds to a page after it was cut.
- *Boot*: what a migration does to the tables; pruning; the text of the settings
  form, its blank secrets and the reset of one field; the lifetime of a cookie,
  which is a sign-out at any moment; that a deleted session.secret row has no
  effect on a running process (`session.go:4-6`).

Not modelled: the server's routing, the preview proxy, HTML and markdown, and
the prompts, which are functions of rows and keep no state; http_check,
expose_port and screenshot, which change nothing a later step reads but the
preview port.  Row locks are not modelled either: transactions
that take both take the project's row before the run's.

## 6. Plan

1. Done: the run loop and its lifecycle, shipping, the configuration cache, the
   event stream, provisioning, background processes, model calls, the effects
   and the views of tools, the boot, sessions and login; the safety invariants of
   all of them proved.
2. Left: the text of a plan and its replacement; path
   resolution and the settings form as pure algorithms.
3. Proofs left: abstract specifications of more components (the configuration
   cache, tool effects), and that they are implemented, as `RunLifecycle` is by
   `RunLoop` and `Conversation` by `EventStream`.
