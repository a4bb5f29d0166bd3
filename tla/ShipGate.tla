------------------------------- MODULE ShipGate -------------------------------
(***************************************************************************)
(* Shipping: what stands between an agent that calls done and a branch on  *)
(* the remote.  One run at a time: the agent edits and commits, asks the   *)
(* reviewers, and calls done, whose gates read the worktree, the run's     *)
(* tool_call_log and the diff, and refuse, park the run or push.           *)
(*                                                                         *)
(* The agent is free to do anything, but only MaxSlips times; otherwise it *)
(* does what the last refusal of done told it to do.  A reviewer is a loop *)
(* of its own, in the middle of one tool call of the agent.                *)
(***************************************************************************)
EXTENDS Naturals, FiniteSets

CONSTANTS
    ReviewTurns,   \* model calls a reviewer may make (24 and 20 in the code)
    FaultKinds,    \* what may fail: "model", "sandbox", "store"
    MaxAttempts,   \* bound: rows of one tool counted in the log
    MaxSlips       \* bound: moves nothing asked for, lost log rows, crashes

ASSUME ShipGateAssumption ==
    /\ ReviewTurns \in Nat \ {0}
    /\ FaultKinds \subseteq {"model", "sandbox", "store"}
    /\ MaxAttempts \in Nat \ {0, 1}
    /\ MaxSlips \in Nat

VARIABLES
    run,      \* state of the run row
    planned,  \* the board names a base commit to diff from
    dirty,    \* kinds of file changed and not committed
    touched,  \* kinds of file changed by the commits since the base
    head,     \* commits on the work branch
    remote,   \* how many of them origin has
    log,      \* tool_call_log of the run, by reviewer: [attempts, concluded]
    told,     \* what each reviewer's results in the transcript said
    call,     \* the agent's tool call that has no result yet
    pc,       \* where the run's goroutine is
    turn,     \* model calls the reviewer has spent
    wants,    \* what the last tool result asks the agent to do
    slips     \* bounded moves so far

work   == <<planned, dirty, touched, head, remote>>
review == <<log, told, turn>>
vars   == <<run, work, review, call, pc, wants, slips>>

Kinds     == {"code", "ui"}
Reviewers == {"review", "ui_review"}

Slip      == slips < MaxSlips /\ slips' = slips + 1
Goto(p)   == pc' = p
Fault(k)  == k \in FaultKinds

-----------------------------------------------------------------------------
(* The agent between two tool calls *)

Working == run = "running" /\ pc = "model"

Edits ==
    /\ Working /\ Slip
    /\ \E k \in Kinds : dirty' = dirty \cup {k}
    /\ UNCHANGED <<run, planned, touched, head, remote, review, call, pc, wants>>

\* A process started with bash_bg outlives its call and writes at any time.
BackgroundWrites ==
    /\ run = "running" /\ Slip
    /\ dirty' = dirty \cup {"code"}
    /\ UNCHANGED <<run, planned, touched, head, remote, review, call, pc, wants>>

\* git_commit: everything, or the paths the agent named; never nothing.
Commits(S) ==
    /\ dirty' = dirty \ S
    /\ touched' = touched \cup S
    /\ head' = head + 1
    /\ UNCHANGED <<run, planned, remote, review, call, pc>>

CommitsPart ==
    /\ Working /\ Slip
    /\ \E S \in SUBSET dirty \ {{}} : Commits(S)
    /\ UNCHANGED wants

CommitsAll ==
    /\ Working /\ wants = "commit"
    /\ IF dirty # {} THEN Commits(dirty) ELSE UNCHANGED <<run, work, review, call, pc>>
    /\ wants' = "done"
    /\ UNCHANGED slips

Calls(t) ==
    /\ Working
    /\ \/ wants = t /\ UNCHANGED slips
       \/ wants # t /\ Slip
    /\ call' = t
    /\ Goto("execute")
    /\ UNCHANGED <<run, work, review, wants>>

\* A reply without tool calls ends the run unshipped.
Replies ==
    /\ Working
    /\ run' = "idle"
    /\ UNCHANGED <<work, review, call, pc, wants, slips>>

-----------------------------------------------------------------------------
(* Results *)

\* AppendMessage of the result; a result names what to do next.
Answer(next) ==
    /\ call' = "none" /\ wants' = next
    /\ Goto("model")
    /\ UNCHANGED run

\* Mutant of Breaks: the parked call counts as answered and is not replayed.
BreaksServed ==
    /\ run' = "awaiting_human"
    /\ Goto("parked")
    /\ call' = "none" /\ UNCHANGED wants

\* awaitError: the call stays unanswered and is replayed after Resume.
Breaks ==
    /\ run' = "awaiting_human"
    /\ Goto("parked")
    /\ UNCHANGED <<call, wants>>

Resume ==
    /\ run = "awaiting_human"
    /\ run' = "running"
    /\ Goto(IF call = "none" THEN "model" ELSE "execute")
    /\ UNCHANGED <<work, review, call, wants, slips>>

\* The process dies and Recover starts the run again.
Crash ==
    /\ run = "running" /\ Slip
    /\ Goto(IF call = "none" THEN "model" ELSE "execute")
    /\ UNCHANGED <<run, work, review, call, wants>>

-----------------------------------------------------------------------------
(* review and ui_review *)

At(p) == run = "running" /\ pc = p

\* Mutant of Row: the outcome is kept and the attempt is not counted.
RowUncounted(row, ok) == [row EXCEPT !.concluded = @ \/ ok]

\* One row of tool_call_log, as ReviewOutcomes and UIReviewOutcomes count it.
Row(row, ok) ==
    [attempts  |-> IF row.attempts < MaxAttempts THEN row.attempts + 1 ELSE row.attempts,
     concluded |-> row.concluded \/ ok]

\* Registry.Execute of a reviewer tool only checks its arguments, and records
\* that outcome; the row may be lost.  The review itself starts afterwards.
Requests(t) ==
    /\ At("execute") /\ call = t
    /\ \E ok \in BOOLEAN :
          /\ \/ log' = [log EXCEPT ![t] = Row(@, ok)] /\ UNCHANGED slips
             \/ Fault("store") /\ Slip /\ UNCHANGED log
          /\ Goto(IF ok THEN "open" ELSE "inconclusive")
    /\ UNCHANGED <<run, work, told, turn, call, wants>>

\* The diff is collected, or the page photographed; a design brief needs neither.
Opens ==
    /\ At("open")
    /\ turn' = 0
    /\ \/ Goto("reviewing")
       \/ Fault("sandbox") /\ Goto("inconclusive")
    /\ UNCHANGED <<run, work, log, told, call, wants, slips>>

\* The tools are withheld on the last turn.
Offered(n) == n + 1 < ReviewTurns

\* A response with tool calls: they are executed and the next turn begins.  An
\* endpoint may return calls it was not offered.
Explores ==
    /\ At("reviewing") /\ turn < ReviewTurns
    /\ Offered(turn) \/ Fault("model")
    /\ turn' = turn + 1
    /\ UNCHANGED <<run, work, log, told, call, pc, wants, slips>>

\* The turns are spent on calls, the last on some that were not offered.
RunsOut ==
    /\ At("reviewing") /\ turn = ReviewTurns
    /\ Goto("inconclusive")
    /\ UNCHANGED <<run, work, review, call, wants, slips>>

\* The stream fails, the response is silent or blank, or a tool it asked for fails.
ReviewDies ==
    /\ At("reviewing") /\ turn < ReviewTurns
    /\ Fault("model") \/ (Fault("sandbox") /\ Offered(turn))
    /\ Goto("inconclusive")
    /\ UNCHANGED <<run, work, review, call, wants, slips>>

Concludes ==
    /\ At("reviewing") /\ turn < ReviewTurns
    /\ Goto("verdict")
    /\ UNCHANGED <<run, work, review, call, wants, slips>>

Reports ==
    /\ pc \in {"verdict", "inconclusive"} /\ run = "running"
    /\ \/ told' = [told EXCEPT ![call] = @ \cup {pc}] /\ Answer("done")
       \/ Fault("store") /\ Breaks /\ UNCHANGED told
    /\ UNCHANGED <<work, log, turn, slips>>

-----------------------------------------------------------------------------
(* done *)

Begins ==
    /\ At("execute") /\ call = "done"
    /\ Goto("clean")
    /\ UNCHANGED <<run, work, review, call, wants, slips>>

Passes(p) == Goto(p) /\ UNCHANGED <<run, call, wants>>

CheckClean ==
    /\ At("clean")
    /\ \/ dirty # {} /\ Answer("commit")
       \/ dirty = {} /\ Passes("reviewed")
       \/ Fault("sandbox") /\ Breaks
    /\ UNCHANGED <<work, review, slips>>

\* Mutant of Lets: a verdict is required, however often none was reached.
LetsVerdictsOnly(row) == row.concluded

\* Non-trapping: a second attempt opens the gate whatever came of it.
Lets(row) == row.attempts > 0 /\ (row.concluded \/ row.attempts >= 2)

CheckReview ==
    /\ At("reviewed")
    /\ \/ ~Lets(log["review"]) /\ Answer("review")
       \/ Lets(log["review"]) /\ Passes("seen")
       \/ Fault("store") /\ Breaks
    /\ UNCHANGED <<work, review, slips>>

\* git_diff --stat: from the base commit to HEAD, or the uncommitted work when
\* the board names no base.
Diff == IF planned THEN touched ELSE dirty

\* A diff that cannot be classified lets the change through.
CheckUI ==
    /\ At("seen")
    /\ LET open == "ui" \notin Diff \/ Lets(log["ui_review"]) IN
       \/ ~open /\ Answer("ui_review")
       \/ (open \/ Fault("sandbox")) /\ Passes("push")
       \/ "ui" \in Diff /\ Fault("store") /\ Breaks
    /\ UNCHANGED <<work, review, slips>>

Push ==
    /\ At("push")
    /\ remote' = head
    /\ Passes("pr")
    /\ UNCHANGED <<planned, dirty, touched, head, review, slips>>

\* Mutant of PushFails: a rejected push is reported and shipping goes on.
PushWarns ==
    /\ At("push") /\ Fault("sandbox")
    /\ Passes("pr")
    /\ UNCHANGED <<work, review, slips>>

\* A rejected push answers done and parks the run; a broken one leaves done
\* unanswered.
PushFails ==
    /\ At("push") /\ Fault("sandbox")
    /\ \/ Breaks
       \/ run' = "awaiting_human" /\ Goto("parked") /\ call' = "none" /\ wants' = "done"
    /\ UNCHANGED <<work, review, slips>>

\* create_pr: whatever becomes of it, shipping goes on.
PullRequest ==
    /\ At("pr")
    /\ Passes("clearplan")
    /\ UNCHANGED <<work, review, slips>>

ClearPlan ==
    /\ At("clearplan")
    /\ \/ planned' = FALSE /\ Passes("shipmsg")
       \/ Fault("store") /\ Breaks /\ UNCHANGED planned
    /\ UNCHANGED <<dirty, touched, head, remote, review, slips>>

Shipped ==
    /\ At("shipmsg")
    /\ \/ call' = "none" /\ wants' = "done" /\ Goto("finish") /\ UNCHANGED run
       \/ Fault("store") /\ Breaks
    /\ UNCHANGED <<work, review, slips>>

Finish ==
    /\ At("finish")
    /\ \/ run' = "done" /\ Goto("finished") /\ UNCHANGED <<call, wants>>
       \/ Fault("store") /\ Breaks
    /\ UNCHANGED <<work, review, slips>>

-----------------------------------------------------------------------------
\* A run starts on a branch whose commits are pushed, under an approved plan or
\* without one, with whatever an earlier run left uncommitted.
Init ==
    /\ run = "running" /\ pc = "model" /\ call = "none" /\ wants = "done"
    /\ planned \in BOOLEAN /\ dirty \in SUBSET Kinds
    /\ touched = {} /\ head = 0 /\ remote = 0
    /\ log = [t \in Reviewers |-> [attempts |-> 0, concluded |-> FALSE]]
    /\ told = [t \in Reviewers |-> {}]
    /\ turn = 0 /\ slips = 0

Agent == \/ Edits \/ CommitsPart \/ CommitsAll \/ Replies
         \/ \E t \in Reviewers \cup {"done"} : Calls(t)

Review == \/ \E t \in Reviewers : Requests(t)
          \/ Opens \/ Explores \/ RunsOut \/ ReviewDies \/ Concludes \/ Reports

Ship == \/ Begins \/ CheckClean \/ CheckReview \/ CheckUI
        \/ Push \/ PushFails \/ PullRequest \/ ClearPlan \/ Shipped \/ Finish

Next == Agent \/ Review \/ Ship \/ BackgroundWrites \/ Resume \/ Crash

Spec == Init /\ [][Next]_vars

\* The goroutine runs, a model call ends within its timeout, and the agent does
\* something.  The operator owes no Resume.
Fairness == WF_vars(Agent \/ Review \/ Ship)

FairSpec == Spec /\ Fairness

-----------------------------------------------------------------------------
(* Properties *)

InReview == {"open", "reviewing", "verdict", "inconclusive"}
InShip   == {"clean", "reviewed", "seen", "push", "pr", "clearplan", "shipmsg"}
PastGate == {"seen", "push", "pr", "clearplan", "shipmsg", "finish", "finished"}

\* The types, and what ties them: the goroutine is inside the call that has no
\* result, and an outcome is concluded only if it was counted.
TypeOK ==
    /\ run \in {"running", "awaiting_human", "idle", "done"}
    /\ planned \in BOOLEAN
    /\ dirty \in SUBSET Kinds /\ touched \in SUBSET Kinds
    /\ head \in Nat /\ remote \in 0..head
    /\ log \in [Reviewers -> [attempts : 0..MaxAttempts, concluded : BOOLEAN]]
    /\ \A t \in Reviewers : log[t].concluded => log[t].attempts > 0
    /\ told \in [Reviewers -> SUBSET {"verdict", "inconclusive"}]
    /\ pc \in InReview \cup InShip \cup {"model", "execute", "parked", "finish", "finished"}
    /\ call \in Reviewers \cup {"done", "none"}
    /\ pc \in InReview => call \in Reviewers
    /\ pc \in InShip => call = "done"
    /\ pc \in {"model", "finish", "finished"} => call = "none"
    /\ turn \in 0..ReviewTurns
    /\ wants \in Reviewers \cup {"commit", "done"}
    /\ slips \in 0..MaxSlips

\* The board is cleared, the operator told "shipped" and the run closed as done
\* only while every commit of the branch is on the remote: through rejected and
\* broken pushes, crashes and the replays of done that follow them.
ShippedIsPushed ==
    pc \in {"pr", "clearplan", "shipmsg", "finish", "finished"} => remote = head

\* The row that opens a gate is written before the review has run, and yet no
\* branch is pushed while the agent is still owed what came of it: an attempt in
\* the log has its result in the transcript, be it a verdict or the news that there
\* is none, or else its call is unanswered, is replayed, and no gate is reached.
\* Reports that cannot be stored, crashes and resumptions come in between.
ShippedIsTold ==
    /\ \A t \in Reviewers : log[t].attempts > 0 => told[t] # {} \/ call = t
    /\ pc \in PastGate => told["review"] # {}

\* The gates cannot trap a run: with reviewers that never conclude, calls that
\* are malformed every time, a push that is always rejected and a worktree that
\* a server keeps writing to for a while, an agent that does what done's
\* refusals say ends the run or parks it for the operator.
NeverTrapped == run = "running" ~> run # "running"

-----------------------------------------------------------------------------
\* history.go and ship: "Concluded means ... the reviewer said CLEAN or listed
\* findings"; a single attempt that reached no verdict does not ship.
\* ShipGate_verdict.cfg violates it: the row is written before the review has run.
OneReviewMeansVerdict ==
    run = "done" /\ log["review"].attempts < 2 => "verdict" \in told["review"]
==============================================================================
