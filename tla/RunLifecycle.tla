---------------------------- MODULE RunLifecycle ----------------------------
(***************************************************************************)
(* What the run table promises to every reader of a project: the legal     *)
(* lives of its runs, of which at most one is under way at a time.  Nothing*)
(* of goroutines, requests, crashes or transcripts is visible here;        *)
(* RunLoop implements this specification.                                  *)
(***************************************************************************)
EXTENDS FiniteSets

CONSTANT Runs

VARIABLES
    life,   \* of each run: unborn, running, what it waits for, closed, cleared
    asked   \* the runs with a pause request that has not taken effect

vars == <<life, asked>>

Waits  == {"question", "plan_approval", "error"}
Open   == {"running", "paused"} \cup Waits
Over   == {"idle", "done"}
Lives  == {"none", "gone"} \cup Open \cup Over

UnderWay   == {r \in Runs : life[r] \in Open}
Turn(r, l) == life' = [life EXCEPT ![r] = l]

Init ==
    /\ life = [r \in Runs |-> "none"]
    /\ asked = {}

\* A task is accepted only when no other run is under way.
Create(r) ==
    /\ life[r] = "none" /\ UnderWay = {}
    /\ Turn(r, "running")
    /\ asked' = asked \ {r}

AskPause(r) ==
    /\ life[r] = "running"
    /\ asked' = asked \cup {r}
    /\ UNCHANGED life

\* Only a pause that was asked for parks a run.
Park(r) ==
    /\ life[r] = "running" /\ r \in asked
    /\ Turn(r, "paused")
    /\ UNCHANGED asked

Wait(r) ==
    /\ life[r] = "running"
    /\ \E w \in Waits : Turn(r, w)
    /\ UNCHANGED asked

\* Only a run at work closes: never one that is parked or waits.
Close(r) ==
    /\ life[r] = "running"
    /\ \E l \in Over : Turn(r, l)
    /\ UNCHANGED asked

\* Resuming, and answering, withdraw the pause; only a decision releases a
\* proposed plan (or, as the code stands, a late answer).
Resume(r) ==
    /\ life[r] \in {"paused"} \cup Waits
    /\ Turn(r, "running")
    /\ asked' = asked \ {r}

Decide(r) ==
    /\ life[r] = "plan_approval"
    /\ Turn(r, "running")
    /\ UNCHANGED asked

\* The conversation is cleared as a whole, and never under a run.
Clear ==
    /\ UnderWay = {}
    /\ life' = [r \in Runs |-> IF life[r] = "none" THEN "none" ELSE "gone"]
    /\ UNCHANGED asked

Live(r) ==
    \/ Create(r) \/ AskPause(r) \/ Park(r) \/ Wait(r) \/ Close(r)
    \/ Resume(r) \/ Decide(r)

Next == (\E r \in Runs : Live(r)) \/ Clear

Spec == Init /\ [][Next]_vars
=============================================================================
