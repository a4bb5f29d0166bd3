--------------------------- MODULE ShipGateProofs ---------------------------
(***************************************************************************)
(* Proofs about ShipGate, for any number of reviewer turns, faults and     *)
(* slips: the types, that only a pushed branch is reported shipped, and    *)
(* that it is not shipped before the agent was told what its review said.  *)
(*                                                                         *)
(* The three are inductive together: whoever commits is between two calls, *)
(* which the types tie to the place of the goroutine, so nothing moves the *)
(* branch between the push and the end of the run; and while done runs no  *)
(* call of a reviewer is open, so each of its rows has been told of.       *)
(***************************************************************************)
EXTENDS ShipGate, TLAPS

IInv == TypeOK /\ ShippedIsPushed /\ ShippedIsTold

\* A run starts planned or not, with nothing committed, reviewed or under way.
LEMMA InitIInv == Init => IInv
  BY ShipGateAssumption DEF Init, IInv, TypeOK, ShippedIsPushed, ShippedIsTold,
     Reviewers, Kinds, InReview, InShip, PastGate

\* A review that ends leaves a row that counts it.
LEMMA Countable == \A row \in [attempts : 0 .. MaxAttempts, concluded : BOOLEAN], ok \in BOOLEAN :
                      /\ Row(row, ok) \in [attempts : 0 .. MaxAttempts, concluded : BOOLEAN]
                      /\ Row(row, ok).attempts > 0
  BY ShipGateAssumption DEF Row

\* The agent's own moves: between two calls, so away from the push.
LEMMA AgentStep == IInv /\ (Agent \/ BackgroundWrites) => IInv'
<1> SUFFICES ASSUME IInv, Agent \/ BackgroundWrites PROVE IInv'
  OBVIOUS
<1> USE ShipGateAssumption DEF IInv, TypeOK, ShippedIsPushed, ShippedIsTold, InReview, InShip, PastGate
<1>1. CASE Edits \/ BackgroundWrites
  <2>1. dirty' \in SUBSET Kinds /\ slips' \in 0 .. MaxSlips
    <3>1. \E k \in Kinds : dirty' = dirty \cup {k}
      BY <1>1 DEF Edits, BackgroundWrites, Kinds
    <3>2. Slip
      BY <1>1 DEF Edits, BackgroundWrites
    <3> QED BY <3>1, <3>2 DEF Slip
  <2> QED BY <1>1, <2>1 DEF Edits, BackgroundWrites, review
<1>2. CASE CommitsPart
  <2>1. PICK S \in SUBSET dirty : Commits(S)
    BY <1>2 DEF CommitsPart
  <2> QED BY <1>2, <2>1 DEF CommitsPart, Commits, Working, Slip, review
<1>3. CASE CommitsAll
  <2>1. CASE Commits(dirty)
    BY <1>3, <2>1 DEF CommitsAll, Commits, Working, review
  <2>2. CASE UNCHANGED <<run, work, review, call, pc>>
    BY <1>3, <2>2 DEF CommitsAll, Working, review, work
  <2> QED BY <1>3, <2>1, <2>2 DEF CommitsAll
<1>4. CASE Replies
  BY <1>4 DEF Replies, Working, work, review
<1>5. ASSUME NEW t \in Reviewers \cup {"done"}, Calls(t) PROVE IInv'
  <2>1. slips' \in 0 .. MaxSlips
    BY <1>5 DEF Calls, Slip
  <2>2. pc = "model" /\ pc' = "execute" /\ call' = t /\ UNCHANGED <<run, work, review, wants>>
    BY <1>5 DEF Calls, Working, Goto
  <2>3. call = "none" /\ \A u \in Reviewers : log[u].attempts > 0 => told[u] # {}
    BY <2>2 DEF Reviewers
  <2> QED BY <2>1, <2>2, <2>3 DEF work, review
<1> QED BY <1>1, <1>2, <1>3, <1>4, <1>5 DEF Agent

\* A reviewer, from its request to its report.
LEMMA ReviewStep == IInv /\ Review => IInv'
<1> SUFFICES ASSUME IInv, Review PROVE IInv'
  OBVIOUS
<1> USE ShipGateAssumption DEF IInv, TypeOK, ShippedIsPushed, ShippedIsTold, InReview, InShip, PastGate, At, Goto
<1>1. ASSUME NEW t \in Reviewers, Requests(t) PROVE IInv'
  <2>1. PICK ok \in BOOLEAN :
          /\ \/ log' = [log EXCEPT ![t] = Row(@, ok)] /\ UNCHANGED slips
             \/ Fault("store") /\ Slip /\ UNCHANGED log
          /\ pc' = IF ok THEN "open" ELSE "inconclusive"
    BY <1>1 DEF Requests
  <2>2. /\ log' \in [Reviewers -> [attempts : 0..MaxAttempts, concluded : BOOLEAN]]
        /\ \A u \in Reviewers : log'[u].concluded => log'[u].attempts > 0
        /\ \A u \in Reviewers \ {t} : log'[u] = log[u]
        /\ slips' \in 0 .. MaxSlips
    <3>1. CASE log' = [log EXCEPT ![t] = Row(@, ok)] /\ UNCHANGED slips
      BY <3>1, Countable
    <3>2. CASE Slip /\ UNCHANGED log
      BY <3>2 DEF Slip
    <3> QED BY <2>1, <3>1, <3>2
  <2> QED BY <1>1, <2>1, <2>2 DEF Requests, work
<1>2. CASE Opens
  BY <1>2 DEF Opens, work
<1>3. CASE Explores
  BY <1>3 DEF Explores, Offered, work
<1>4. CASE RunsOut \/ ReviewDies \/ Concludes
  BY <1>4 DEF RunsOut, ReviewDies, Concludes, work, review
<1>5. CASE Reports
  <2>1. CASE told' = [told EXCEPT ![call] = @ \cup {pc}] /\ Answer("done")
    <3>1. /\ told' \in [Reviewers -> SUBSET {"verdict", "inconclusive"}]
          /\ \A t \in Reviewers : log[t].attempts > 0 => told'[t] # {}
      BY <1>5, <2>1 DEF Reports
    <3> QED BY <1>5, <2>1, <3>1 DEF Reports, Answer, work
  <2>2. CASE Breaks /\ UNCHANGED told
    BY <1>5, <2>2 DEF Reports, Breaks, work
  <2> QED BY <1>5, <2>1, <2>2 DEF Reports
<1> QED BY <1>1, <1>2, <1>3, <1>4, <1>5 DEF Review

\* The steps of done.
LEMMA ShipStep == IInv /\ Ship => IInv'
<1> SUFFICES ASSUME IInv, Ship PROVE IInv'
  OBVIOUS
<1> USE ShipGateAssumption DEF IInv, TypeOK, ShippedIsPushed, ShippedIsTold, InReview, InShip, PastGate,
        At, Goto, Passes, Answer, Breaks, work, review, Reviewers
<1>1. CASE Begins \/ CheckClean
  BY <1>1 DEF Begins, CheckClean
<1>6. CASE CheckReview
  <2>1. call = "done" /\ (Lets(log["review"]) => told["review"] # {})
    BY <1>6 DEF CheckReview, Lets
  <2> QED BY <1>6, <2>1 DEF CheckReview
<1>2. CASE CheckUI
  BY <1>2 DEF CheckUI
<1>3. CASE Push \/ PushFails
  BY <1>3 DEF Push, PushFails
<1>4. CASE PullRequest \/ ClearPlan
  BY <1>4 DEF PullRequest, ClearPlan
<1>5. CASE Shipped \/ Finish
  BY <1>5 DEF Shipped, Finish
<1> QED BY <1>1, <1>2, <1>3, <1>4, <1>5, <1>6 DEF Ship

\* Every step keeps the three facts: the agent's, a reviewer's, done's, a crash or a resumption.
LEMMA IInvStep == IInv /\ [Next]_vars => IInv'
<1> SUFFICES ASSUME IInv, [Next]_vars PROVE IInv'
  OBVIOUS
<1> USE ShipGateAssumption DEF IInv, TypeOK, ShippedIsPushed, ShippedIsTold, InReview, InShip, PastGate
<1>1. CASE Resume
  BY <1>1 DEF Resume, Goto, work, review
<1>2. CASE Crash
  BY <1>2 DEF Crash, Goto, Slip, work, review
<1>3. CASE UNCHANGED vars
  BY <1>3 DEF vars, work, review
<1> QED BY <1>1, <1>2, <1>3, AgentStep, ReviewStep, ShipStep DEF Next

\* The inductive invariant of shipping holds in every reachable state.
THEOREM Invariance == Spec => []IInv
  BY InitIInv, IInvStep, PTL DEF Spec

\* The goroutine of agent.go is inside the call that has no result, and an
\* outcome is concluded only if it was counted (history.go).
THEOREM TypeCorrect == Spec => []TypeOK
  BY Invariance, PTL DEF IInv

\* ship reports a branch as shipped, and closes its run as done, only while
\* every commit of it is on the remote.
THEOREM Pushed == Spec => []ShippedIsPushed
  BY Invariance, PTL DEF IInv

\* agent.go, history.go: no branch is pushed or reported shipped before some result
\* of a review is in the transcript, whatever the reviewers, the store and the
\* process did; a gate that a malformed or cut-short attempt opened included.
THEOREM ShippedKnowingly == Spec => []ShippedIsTold
  BY Invariance, PTL DEF IInv
=============================================================================
