---------------------------- MODULE BackgroundProofs ----------------------------
(***************************************************************************)
(* Proofs about Background for any set of faults and any bounds: the types,*)
(* that a process nobody's failure touched can be found and stopped, and   *)
(* that one failure does not make stop_bg report as stopped what still     *)
(* runs.                                                                   *)
(*                                                                         *)
(* Neither property is inductive.  Tracked needs that no process leads     *)
(* while the tool is between killing the old one and launching the new one,*)
(* or while a recreate is between destroying and retiring (Quiet).         *)
(* StopHolds needs that the file, if there is one, names the process whose *)
(* row says running and which still leads (Filed).                         *)
(***************************************************************************)
EXTENDS Background, TLAPS

NoLeader == \A n \in Numbers : group[n] # "led"

\* Nothing has failed: where the tool and a recreate know that nothing leads.
Quiet ==
    faults = 0 =>
        /\ pc \in {"retire", "launch"} => NoLeader
        /\ At("record") => \A n \in Numbers : group[n] = "led" => n = pid
        /\ recreate # "none" => ~setup
        /\ recreate \in {"reset", "sweep"} => ~box /\ NoLeader

\* What the tool holds at each of its places, whatever has failed.
Held ==
    /\ pc \in {"record", "check", "mark"} => pid # None
    /\ pc \in {"kill", "retire"} => prev # None
    /\ At("record") => pidfile \in {pid, None}
    /\ At("mark") => group[pid] # "led"

\* At most one failure: the file does not name another process than the row that
\* was, or will be, found.
Filed ==
    faults <= 1 =>
        /\ ~At("record") /\ running # None /\ group[running] = "led"
             => pidfile \in {running, None}
        /\ At("kill") /\ For("stop_bg") /\ group[prev] = "led"
             => pidfile \in {prev, None}

\* The inductive invariant.
IInv == TypeOK /\ Tracked /\ StopHolds /\ Quiet /\ Held /\ Filed

-----------------------------------------------------------------------------
(* What a step does to the processes and to the count of faults *)

\* A process that is signalled, destroyed or exits is not one that leads; nothing
\* is born by it.
Shrinks ==
    /\ group' \in [Numbers -> {"unborn", "led", "headless", "dead"}]
    /\ \A n \in Numbers : group'[n] = "led" => group[n] = "led"
    /\ \A n \in Numbers : group'[n] = "unborn" => group[n] = "unborn"

\* Killing a group unmakes its leader and makes no other.
LEMMA KilledShrinks ==
    ASSUME TypeOK, NEW g \in Numbers, group' \in Killed(g)
    PROVE  Shrinks /\ group'[g] # "led"
BY DEF TypeOK, Killed, Shrinks

\* Destroying the sandbox leaves no leader.
LEMMA DestroyedShrinks ==
    ASSUME TypeOK,
           group' = [n \in Numbers |-> IF group[n] = "unborn" THEN "unborn" ELSE "dead"]
    PROVE  Shrinks /\ \A n \in Numbers : group'[n] # "led"
BY DEF TypeOK, Shrinks

\* A launch adds one leader.
LEMMA LaunchGrows ==
    ASSUME TypeOK, NEW n \in Numbers, group' = [group EXCEPT ![n] = "led"]
    PROVE  /\ group' \in [Numbers -> {"unborn", "led", "headless", "dead"}]
           /\ \A m \in Numbers : m # n => group'[m] = group[m]
           /\ group'[n] = "led"
BY DEF TypeOK

\* A fault is counted, and the first one leaves room for no other under Filed.
LEMMA Counted ==
    ASSUME TypeOK, NEW k, Fault(k)
    PROVE  /\ faults' \in 0..MaxFaults /\ faults' # 0
           /\ faults' <= 1 => faults = 0
BY BackgroundAssumption DEF TypeOK, Fault

\* The launches are the positive numbers, and None is not one of them.
LEMMA NoneIsNone == None \notin Numbers /\ \A n \in Numbers : n # None
BY DEF None, Numbers

-----------------------------------------------------------------------------
\* Initially nothing has been launched.
LEMMA Initially == Init => IInv
<1> SUFFICES ASSUME Init PROVE IInv
    OBVIOUS
<1>1. TypeOK
  <2>1. group \in [Numbers -> {"unborn", "led", "headless", "dead"}]
    BY DEF Init
  <2>2. recreates \in 0..MaxRecreates /\ faults \in 0..MaxFaults
    BY BackgroundAssumption DEF Init
  <2>3. {pidfile, running, prev, pid} \ {None} = {}
    BY DEF Init
  <2> QED BY <2>1, <2>2, <2>3 DEF Init, TypeOK, At
<1>2. NoLeader
  BY DEF Init, NoLeader
<1>3. Tracked /\ StopHolds /\ Held
  BY <1>2 DEF Init, Tracked, StopHolds, Held, NoLeader, At
<1>4. Quiet /\ Filed
  BY <1>2 DEF Init, Quiet, Filed, At
<1> QED BY <1>1, <1>3, <1>4 DEF IInv

-----------------------------------------------------------------------------
(* Types *)

\* Every step keeps the types.
LEMMA Typed == ASSUME TypeOK, Next PROVE TypeOK'
<1> USE BackgroundAssumption, NoneIsNone
<1>1. ASSUME NEW t \in {"bash_bg", "stop_bg"}, Calls(t) PROVE TypeOK'
  BY <1>1 DEF TypeOK, Calls, Goto, At, sandbox, tool, operator
<1>2. CASE Looks
  BY <1>2, Counted DEF TypeOK, Looks, NotFound, Answer, Goto, At, For, sandbox, operator
<1>3. CASE Kills
  BY <1>3, KilledShrinks DEF TypeOK, Kills, Shrinks, Goto, At, operator
<1>4. CASE KillFails
  BY <1>4, KilledShrinks, Counted
     DEF TypeOK, KillFails, Fails, Breaks, Answer, Shrinks, Goto, At, tool, operator
<1>5. CASE Retires
  BY <1>5, Counted
     DEF TypeOK, Retires, Fails, Breaks, Answer, Stopped, Goto, At, For, sandbox, tool, operator
<1>6. CASE Launches
  BY <1>6, LaunchGrows DEF TypeOK, Launches, Goto, At, operator
<1>7. CASE LaunchFails
  BY <1>7, LaunchGrows, Counted
     DEF TypeOK, LaunchFails, Fails, Breaks, Answer, Goto, At, tool, operator
<1>8. CASE Records
  BY <1>8, Counted
     DEF TypeOK, Records, Fails, Breaks, Answer, Goto, At, sandbox, tool, operator
<1>9. CASE Checks \/ CheckFails
  BY <1>9, Counted
     DEF TypeOK, Checks, CheckFails, Fails, Breaks, Answer, Goto, At, sandbox, tool, operator
<1>10. CASE Marks
  BY <1>10, Counted DEF TypeOK, Marks, Stopped, Answer, Goto, At, sandbox, tool, operator
<1>11. CASE Resumes
  BY <1>11 DEF TypeOK, Resumes, Goto, At, sandbox, tool, operator
<1>12. CASE Recreates
  BY <1>12, Counted DEF TypeOK, Recreates, At, sandbox, tool
<1>13. CASE Destroys
  <2>1. faults' \in 0..MaxFaults
    BY <1>13, Counted DEF Destroys, TypeOK
  <2>2. group' \in [Numbers -> {"unborn", "led", "headless", "dead"}]
    BY <1>13, DestroyedShrinks DEF Destroys, Shrinks, TypeOK, sandbox
  <2>3. \A n \in Numbers : group[n] # "unborn" => group'[n] # "unborn"
    BY <1>13, DestroyedShrinks DEF Destroys, Shrinks, TypeOK, sandbox
  <2>4. box' \in BOOLEAN /\ pidfile' \in {pidfile, None}
    BY <1>13 DEF TypeOK, Destroys, sandbox
  <2>5. recreate' = "reset" /\ UNCHANGED <<running, call, pc, tool, said, setup, recreates>>
    BY <1>13 DEF Destroys
  <2> QED BY <2>1, <2>2, <2>3, <2>4, <2>5 DEF TypeOK, At, tool
<1>14. CASE Resets \/ Sweeps
  BY <1>14, Counted DEF TypeOK, Resets, Sweeps, At, sandbox, tool
<1>15. CASE Starts \/ Provisions
  <2>1. faults' \in 0..MaxFaults
    BY <1>15, Counted DEF Starts, Provisions, TypeOK
  <2>2. box' \in BOOLEAN /\ setup' \in BOOLEAN
    BY <1>15 DEF TypeOK, Starts, Provisions, sandbox
  <2>3. recreate' \in {recreate, "none"}
    BY <1>15 DEF Starts, Provisions
  <2>4. UNCHANGED <<group, pidfile, running, call, pc, tool, said, recreates>>
    BY <1>15 DEF Starts, Provisions, sandbox
  <2> QED BY <2>1, <2>2, <2>3, <2>4 DEF TypeOK, At, tool
<1>16. CASE Exits
  <2>1. group' \in [Numbers -> {"unborn", "led", "headless", "dead"}]
    BY <1>16 DEF TypeOK, Exits
  <2>2. \A n \in Numbers : group[n] # "unborn" => group'[n] # "unborn"
    BY <1>16 DEF TypeOK, Exits
  <2> QED BY <1>16, <2>1, <2>2 DEF TypeOK, Exits, At, tool, operator
<1>17. CASE Crash
  <2>1. faults' \in 0..MaxFaults
    BY <1>17, Counted DEF Crash
  <2>2. pc' \in {"model", "look", "parked"} /\ (call' = "none" <=> pc' = "model")
    BY <1>17 DEF TypeOK, Crash, Goto, At
  <2> QED BY <1>17, <2>1, <2>2 DEF TypeOK, Crash, At, sandbox
<1> QED
  BY <1>1, <1>2, <1>3, <1>4, <1>5, <1>6, <1>7, <1>8, <1>9, <1>10, <1>11, <1>12,
     <1>13, <1>14, <1>15, <1>16, <1>17 DEF Next, Tool, Operator

-----------------------------------------------------------------------------
(* The other parts, one action at a time *)

\* The faults a step counts, if any.
Pays == faults' = faults \/ (faults' # 0 /\ (faults' <= 1 => faults = 0))

\* A step counts no failure, or one; after the first, none had been counted.
LEMMA NextPays == ASSUME TypeOK, Next PROVE Pays
<1>1. ASSUME NEW k, Fault(k) PROVE Pays
  BY <1>1, Counted DEF Pays
<1>2. ASSUME NEW t \in {"bash_bg", "stop_bg"}, Calls(t) PROVE Pays
  BY <1>2 DEF Calls, Pays
<1>3. CASE Tool
  BY <1>1, <1>3 DEF Tool, Looks, Kills, KillFails, Retires, Launches, LaunchFails, Records,
                    Checks, CheckFails, Marks, Fails, Pays
<1>4. CASE Operator
  BY <1>1, <1>4 DEF Operator, Destroys, Resets, Sweeps, Starts, Provisions, Pays
<1>5. CASE Resumes \/ Recreates \/ Exits \/ Crash
  BY <1>1, <1>5 DEF Resumes, Recreates, Exits, Crash, Pays
<1> QED BY <1>2, <1>3, <1>4, <1>5 DEF Next

Rest == Tracked /\ StopHolds /\ Quiet /\ Held /\ Filed

\* Every step of the tool keeps the rest of the invariant.
LEMMA ToolKeeps == ASSUME IInv, Tool, TypeOK' PROVE Rest'
<1>0. Pays
  BY NextPays DEF IInv, Next
<1> USE NoneIsNone, <1>0 DEF Pays, IInv, Rest, At, For, Goto
<1>1. CASE Looks
  <2>1. UNCHANGED <<group, pidfile, running, box, pid, recreate, setup>> /\ prev' = running
    BY <1>1 DEF Looks, sandbox, operator
  <2>2. \/ running # None /\ pc' = "kill" /\ call' = call
        \/ pc' = "launch" /\ (running = None \/ faults' # faults)
        \/ pc' = "model"
    BY <1>1 DEF TypeOK, Looks, NotFound, Answer, Fault
  <2>3. At("look")
    BY <1>1 DEF Looks
  <2>4. NoLeader' = NoLeader
    BY <2>1 DEF NoLeader
  <2> QED
    BY <2>1, <2>2, <2>3, <2>4 DEF TypeOK, Tracked, StopHolds, Quiet, Held, Filed, NoLeader
<1>2. CASE Kills
  BY <1>2, KilledShrinks DEF TypeOK, Kills, Shrinks, operator,
              Tracked, StopHolds, Quiet, Held, Filed, NoLeader
<1>3. CASE KillFails
  BY <1>3, KilledShrinks DEF TypeOK, KillFails, Fails, Breaks, Answer, Shrinks, tool, operator,
              Tracked, StopHolds, Quiet, Held, Filed, NoLeader
<1>4. CASE Retires
  BY <1>4 DEF TypeOK, Retires, Fails, Breaks, Answer, Stopped, sandbox, tool, operator,
              Tracked, StopHolds, Quiet, Held, Filed, NoLeader
<1>5. CASE Launches
  BY <1>5, LaunchGrows DEF TypeOK, Launches, operator,
              Tracked, StopHolds, Quiet, Held, Filed, NoLeader
<1>6. CASE LaunchFails
  <2>1. UNCHANGED <<running, box, prev, pid, outcome, recreate, setup>> /\ At("launch")
    BY <1>6 DEF LaunchFails, tool, operator
  <2>2. pc' \in {"parked", "model"}
    BY <1>6 DEF LaunchFails, Fails, Breaks, Answer
  <2>3. \/ faults' # 0 /\ (faults' <= 1 => faults = 0)
        \/ group' = group /\ pidfile' \in {pidfile, None} /\ faults' = faults
    BY <1>6, Counted DEF LaunchFails, Fails
  <2>4. \A n \in Numbers : group'[n] = "led" => group[n] \in {"led", "unborn"}
    BY <1>6 DEF TypeOK, LaunchFails, NextLaunch
  <2>5. Tracked' /\ StopHolds' /\ Quiet' /\ Held'
    BY <2>1, <2>2, <2>3 DEF TypeOK, Tracked, StopHolds, Quiet, Held, NoLeader
  <2>6. CASE faults' # 0 /\ (faults' <= 1 => faults = 0)
    <3>1. faults' <= 1 => NoLeader
      BY <2>1, <2>6 DEF Quiet
    <3>2. faults' <= 1 /\ running # None => group'[running] # "led"
      BY <3>1, <2>4 DEF TypeOK, NoLeader
    <3> QED BY <2>1, <2>2, <2>5, <3>2 DEF Filed
  <2>7. CASE group' = group /\ pidfile' \in {pidfile, None} /\ faults' = faults
    BY <2>1, <2>2, <2>5, <2>7 DEF Filed
  <2> QED BY <2>3, <2>6, <2>7
<1>7. CASE Records
  <2>1. UNCHANGED <<group, pidfile, box, prev, pid, outcome, recreate, setup>> /\ At("record")
    BY <1>7 DEF Records, sandbox, tool, operator
  <2>2. \/ pc' = "check" /\ running' = pid /\ faults' = faults
        \/ pc' \in {"parked", "model"} /\ running' \in {running, pid} /\ faults' # 0
             /\ (faults' <= 1 => faults = 0)
    BY <1>7, Counted DEF Records, Fails, Breaks, Answer
  <2> QED
    BY <2>1, <2>2 DEF TypeOK, Tracked, StopHolds, Quiet, Held, Filed, NoLeader
<1>8. CASE Checks \/ CheckFails
  BY <1>8 DEF TypeOK, Checks, CheckFails, Fails, Breaks, Answer, sandbox, tool, operator,
              Tracked, StopHolds, Quiet, Held, Filed, NoLeader
<1>9. CASE Marks
  BY <1>9 DEF TypeOK, Marks, Stopped, Answer, sandbox, tool, operator,
              Tracked, StopHolds, Quiet, Held, Filed, NoLeader
<1> QED BY <1>1, <1>2, <1>3, <1>4, <1>5, <1>6, <1>7, <1>8, <1>9 DEF Tool

\* Neither does a call, a resume, a recreate, an exit or a crash break it.  A
\* recreate retires the rows only after the sandbox is gone, and the first crash
\* finds a file that names the one process that leads.
LEMMA OthersKeep ==
    ASSUME IInv, TypeOK', Next, ~Tool
    PROVE  Rest'
<1>0. Pays
  BY NextPays DEF IInv
<1> USE NoneIsNone, <1>0 DEF Pays, IInv, Rest, At, For, Goto
<1>1. ASSUME NEW t \in {"bash_bg", "stop_bg"}, Calls(t) PROVE Rest'
  BY <1>1 DEF TypeOK, Calls, sandbox, tool, operator,
              Tracked, StopHolds, Quiet, Held, Filed, NoLeader
<1>2. CASE Resumes
  BY <1>2 DEF TypeOK, Resumes, sandbox, tool, operator,
              Tracked, StopHolds, Quiet, Held, Filed, NoLeader
<1>3. CASE Recreates
  <2>1. UNCHANGED <<group, pidfile, box, running, call, pc, prev, pid, outcome, setup>>
    BY <1>3 DEF Recreates, sandbox, tool
  <2>2. recreate' = "destroy" /\ (faults' = 0 => ~setup)
    BY <1>3, Counted DEF Recreates
  <2> QED BY <2>1, <2>2 DEF TypeOK, Tracked, StopHolds, Quiet, Held, Filed, NoLeader
<1>4. CASE Destroys
  <2>1. UNCHANGED <<running, call, pc, prev, pid, outcome, setup>>
        /\ recreate = "destroy" /\ recreate' = "reset"
    BY <1>4 DEF Destroys, tool
  <2>2. CASE UNCHANGED <<group, pidfile, box>> /\ faults' # 0
    BY <2>1, <2>2 DEF TypeOK, Tracked, StopHolds, Quiet, Held, Filed, NoLeader
  <2>3. CASE ~box' /\ NoLeader' /\ pidfile' = None /\ faults' = faults
    BY <2>1, <2>3 DEF TypeOK, Tracked, StopHolds, Quiet, Held, Filed, NoLeader
  <2>4. \/ UNCHANGED <<group, pidfile, box>> /\ faults' # 0
        \/ ~box' /\ NoLeader' /\ pidfile' = None /\ faults' = faults
    BY <1>4, DestroyedShrinks, Counted DEF Destroys, sandbox, NoLeader
  <2> QED BY <2>2, <2>3, <2>4
<1>5. CASE Resets \/ Starts
  <2>1. UNCHANGED <<group, pidfile, box, running, call, pc, prev, pid, outcome>>
    BY <1>5 DEF Resets, Starts, sandbox, tool
  <2>2. \/ recreate = "reset" /\ recreate' = "sweep" /\ setup' = setup /\ faults' = faults
        \/ recreate' = "none"
    BY <1>5 DEF Resets, Starts
  <2> QED BY <2>1, <2>2 DEF TypeOK, Tracked, StopHolds, Quiet, Held, Filed, NoLeader
<1>6. CASE Sweeps
  <2>1. UNCHANGED <<group, pidfile, box, call, pc, prev, pid, outcome, setup>>
        /\ recreate = "sweep" /\ recreate' = "start"
    BY <1>6 DEF Sweeps, sandbox, tool
  <2>2. (running' = None /\ faults' = faults) \/ running' = running
    BY <1>6 DEF Sweeps
  <2>3. NoLeader' = NoLeader
    BY <2>1 DEF NoLeader
  <2> QED BY <2>1, <2>2, <2>3 DEF TypeOK, Tracked, StopHolds, Quiet, Held, Filed, NoLeader
<1>7. CASE Provisions
  <2>1. UNCHANGED <<group, pidfile, running, call, pc, prev, pid, outcome, recreate>>
        /\ setup /\ ~setup'
    BY <1>7 DEF Provisions, tool
  <2> QED BY <2>1 DEF TypeOK, Tracked, StopHolds, Quiet, Held, Filed, NoLeader
<1>8. CASE Exits
  <2>1. UNCHANGED <<pidfile, running, box, call, pc, prev, pid, outcome, recreate, setup, faults>>
    BY <1>8 DEF Exits, tool, operator
  <2>2. \A n \in Numbers : group'[n] = "led" => group[n] = "led"
    BY <1>8 DEF TypeOK, Exits
  <2>3. NoLeader => NoLeader'
    BY <2>2 DEF NoLeader
  <2> QED BY <2>1, <2>2, <2>3 DEF TypeOK, Tracked, StopHolds, Quiet, Held, Filed
<1>9. CASE Crash
  <2>1. /\ UNCHANGED <<group, pidfile, box, running, call>>
        /\ faults' # 0 /\ (faults' <= 1 => faults = 0)
    BY <1>9, Counted DEF Crash, sandbox
  <2>2. pc' = "look" \/ (pc' = pc /\ pc \in {"model", "parked"})
    BY <1>9 DEF TypeOK, Crash
  <2>3. Tracked' /\ StopHolds' /\ Quiet' /\ Held'
    BY <2>1, <2>2 DEF Tracked, StopHolds, Quiet, Held
  <2>4. At("record") /\ faults' <= 1 /\ running # None /\ group[running] = "led"
          => pidfile \in {running, None}
    BY <2>1 DEF TypeOK, Tracked
  <2>5. ~At("record") /\ faults' <= 1 /\ running # None /\ group[running] = "led"
          => pidfile \in {running, None}
    BY <2>1 DEF TypeOK, Filed
  <2>6. Filed'
    BY <2>1, <2>2, <2>4, <2>5 DEF Filed
  <2> QED BY <2>3, <2>6
<1> QED
  BY <1>1, <1>2, <1>3, <1>4, <1>5, <1>6, <1>7, <1>8, <1>9 DEF Next, Operator

-----------------------------------------------------------------------------
\* Every step, stuttering included, keeps the invariant.
LEMMA Preserved == IInv /\ [Next]_vars => IInv'
<1> SUFFICES ASSUME IInv, [Next]_vars PROVE IInv'
    OBVIOUS
<1>1. CASE Next
  <2>1. TypeOK'
    BY <1>1, Typed DEF IInv
  <2>2. Rest'
    BY <1>1, <2>1, ToolKeeps, OthersKeep
  <2> QED BY <2>1, <2>2 DEF IInv, Rest
<1>2. CASE UNCHANGED vars
  <2>1. UNCHANGED <<group, pidfile, box, running, call, pc, prev, pid, outcome, said,
                    recreate, setup, recreates, faults>>
    BY <1>2 DEF vars, sandbox, tool, operator
  <2>2. TypeOK' /\ Tracked' /\ StopHolds'
    BY <2>1 DEF IInv, TypeOK, Tracked, StopHolds, At, For
  <2>3. Quiet' /\ Held' /\ Filed'
    BY <2>1 DEF IInv, Quiet, NoLeader, Held, Filed, At, For
  <2> QED BY <2>2, <2>3 DEF IInv
<1> QED BY <1>1, <1>2

\* The tool, the recreate and the process group are always as the inductive
\* invariant says, whatever fails.
THEOREM Invariance == Spec => []IInv
BY Initially, Preserved, PTL DEF Spec

\* The types hold, and neither the pid file nor a row names a process that
\* launchDetached never started.
THEOREM TypeCorrect == Spec => []TypeOK
<1>1. IInv => TypeOK
  BY DEF IInv
<1> QED BY <1>1, Invariance, PTL

\* As long as nothing failed, every process bash_bg left leading its group is
\* named by the pid file and by the running row, however often it was replaced,
\* exited or had its sandbox recreated under it.
THEOREM TrackedAlways == Spec => []Tracked
<1>1. IInv => Tracked
  BY DEF IInv
<1> QED BY <1>1, Invariance, PTL

\* Whatever single failure happened and was replayed, stop_bg retires a row as
\* stopped only when that row's process no longer leads its group.
THEOREM StopHeld == Spec => []StopHolds
<1>1. IInv => StopHolds
  BY DEF IInv
<1> QED BY <1>1, Invariance, PTL

=============================================================================
