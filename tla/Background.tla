------------------------------ MODULE Background ------------------------------
(***************************************************************************)
(* Background processes: what the agent starts with bash_bg and stops with *)
(* stop_bg under one name, the process group in the sandbox, the pid file  *)
(* beside it, and the row that says it runs.  The three are changed one    *)
(* after the other, in the middle of a tool call that may be cancelled,    *)
(* fail, or be replayed after a crash, while the operator may replace the  *)
(* sandbox under it.                                                       *)
(*                                                                         *)
(* Rows, files and groups of different names have nothing in common.  A    *)
(* launch is named by its number; pid and row are those of a launch.       *)
(***************************************************************************)
EXTENDS Naturals

CONSTANTS
    FaultKinds,    \* "exec", "store", "cancel", "crash", "provider", "overlap"
    MaxLaunches,   \* bound: processes ever launched
    MaxRecreates,  \* bound: recreates of the sandbox
    MaxFaults      \* bound: faults

ASSUME BackgroundAssumption ==
    /\ FaultKinds \subseteq {"exec", "store", "cancel", "crash", "provider", "overlap"}
    /\ MaxLaunches \in Nat /\ MaxRecreates \in Nat /\ MaxFaults \in Nat

VARIABLES
    group,      \* of each launch: "unborn", "led", "headless", "dead"
    pidfile,    \* the launch the pid file names; None when there is no file
    running,    \* the launch whose row says running; None when no row does
    box,        \* the sandbox exists
    call,       \* the tool call without a result: "none", "bash_bg", "stop_bg"
    pc,         \* where the tool is
    prev,       \* the running row it found
    pid,        \* the launch it made
    outcome,    \* what killProcessGroup reported
    said,       \* what the last result told the agent
    recreate,   \* where a Recreate is; "none" = nowhere
    setup,      \* a provisioning goroutine is at work
    recreates,
    faults

sandbox  == <<group, pidfile, box>>
tool     == <<prev, pid, outcome>>
operator == <<recreate, setup, recreates>>
vars     == <<sandbox, running, call, pc, tool, said, operator, faults>>

Numbers == 1..MaxLaunches
None     == 0

Fault(k) == k \in FaultKinds /\ faults < MaxFaults /\ faults' = faults + 1
Goto(p)  == pc' = p
At(p)    == pc = p
For(t)   == call = t

-----------------------------------------------------------------------------
(* The agent's call *)

Calls(t) ==
    /\ At("model")
    /\ t = "bash_bg" => \E n \in Numbers : group[n] = "unborn"
    /\ call' = t /\ Goto("look")
    /\ UNCHANGED <<sandbox, running, tool, said, operator, faults>>

Answer(what) ==
    /\ said' = what /\ call' = "none"
    /\ Goto("model")

\* Mutant of Breaks: the loop goes on with the call unanswered.
BreaksNothing == Goto("model") /\ UNCHANGED <<call, said>>

\* An infrastructure error parks the run; the call stays unanswered.
Breaks == Goto("parked") /\ UNCHANGED <<call, said>>

\* The step failed, whether or not it took effect, or was cancelled by a pause.
Fails(k) ==
    \/ Fault(k) /\ Breaks
    \/ Fault("cancel") /\ Answer("error")

\* Resume, or Recover after the process died: the call is replayed.
Resumes ==
    /\ At("parked")
    /\ Goto("look")
    /\ UNCHANGED <<sandbox, running, call, tool, said, operator, faults>>

-----------------------------------------------------------------------------
(* bash_bg and stop_bg *)

NotFound == IF For("bash_bg") THEN Goto("launch") /\ UNCHANGED <<call, said>>
            ELSE Answer("error")

\* RunningBackgroundProcess.  An error of it, whatever it is, is taken for the
\* absence of such a process.
Looks ==
    /\ At("look")
    /\ prev' = running
    /\ \/ running # None /\ UNCHANGED faults /\ Goto("kill") /\ UNCHANGED <<call, said>>
       \/ running = None /\ UNCHANGED faults /\ NotFound
       \/ Fault("store") /\ NotFound
       \/ Fault("cancel") /\ Answer("error")
    /\ UNCHANGED <<sandbox, running, pid, outcome, operator>>

\* Mutant of Killed: SIGTERM alone, which the leader may ignore.
KilledPolitely(g) == {[group EXCEPT ![g] = IF @ = "led" THEN left ELSE @] :
                         left \in {"led", "dead", "headless"}}

\* The whole group is signalled if its leader is alive, and nothing otherwise: a
\* child that ignores SIGTERM, or has outlived its leader, stays.
Killed(g) == {[group EXCEPT ![g] = IF @ = "led" THEN left ELSE @] :
                 left \in {"dead", "headless"}}

\* Mutant of Kills: the file is removed and nothing signalled.
KillsNothing ==
    /\ At("kill") /\ box
    /\ pidfile' = None /\ outcome' = "stopped" /\ Goto("retire")
    /\ UNCHANGED <<group, box, running, call, prev, pid, said, operator, faults>>

\* Mutant of Kills: a missing pid file is an error.
KillsOrBreaks ==
    /\ At("kill") /\ box
    /\ IF pidfile = None
       THEN Breaks /\ UNCHANGED <<group, pidfile, outcome>>
       ELSE /\ group' \in Killed(pidfile) /\ pidfile' = None
            /\ outcome' = "stopped" /\ Goto("retire")
            /\ UNCHANGED <<call, said>>
    /\ UNCHANGED <<box, running, prev, pid, operator, faults>>

\* killProcessGroup: the process the pid file names, whatever row was found.
Kills ==
    /\ At("kill") /\ box
    /\ IF pidfile = None
       THEN outcome' = "unsignalled" /\ UNCHANGED <<group, pidfile>>
       ELSE outcome' = "stopped" /\ group' \in Killed(pidfile) /\ pidfile' = None
    /\ Goto("retire")
    /\ UNCHANGED <<box, running, call, prev, pid, said, operator, faults>>

KillFails ==
    /\ At("kill")
    /\ \/ UNCHANGED <<group, pidfile>>
       \/ pidfile # None /\ group' \in Killed(pidfile) /\ pidfile' \in {pidfile, None}
    /\ \/ Fails("exec")
       \/ ~box /\ Breaks /\ UNCHANGED faults
    /\ UNCHANGED <<box, running, tool, operator>>

\* SetBackgroundProcessStatus of the row that was found.
Stopped(row) == running' = IF running = row THEN None ELSE running

\* For bash_bg a failure is a warning; for stop_bg an error.
Retires ==
    /\ At("retire")
    /\ \/ Stopped(prev) /\ UNCHANGED faults
          /\ IF For("bash_bg") THEN Goto("launch") /\ UNCHANGED <<call, said>>
             ELSE Answer(IF outcome = "stopped" THEN "stopped" ELSE "error")
       \/ /\ Stopped(prev) \/ UNCHANGED running
          /\ \/ For("bash_bg") /\ Fault("store") /\ Goto("launch") /\ UNCHANGED <<call, said>>
             \/ For("stop_bg") /\ Fails("store")
             \/ For("bash_bg") /\ Fault("cancel") /\ Answer("error")
    /\ UNCHANGED <<sandbox, tool, operator>>

NextLaunch(n) == group[n] = "unborn" /\ \A m \in Numbers : m < n => group[m] # "unborn"

\* launchDetached: the old pid file and log go, the group is started, its leader
\* writes the pid.
Launches ==
    /\ At("launch") /\ box
    /\ \E n \in Numbers :
          /\ NextLaunch(n)
          /\ group' = [group EXCEPT ![n] = "led"] /\ pidfile' = n
          /\ pid' = n
    /\ Goto("record")
    /\ UNCHANGED <<box, running, call, prev, outcome, said, operator, faults>>

\* The launcher failed or was cut off, before or after the group was started, or
\* never saw a pid.
LaunchFails ==
    /\ At("launch")
    /\ \/ pidfile' \in {pidfile, None} /\ UNCHANGED group
       \/ box /\ \E n \in Numbers : /\ NextLaunch(n)
                                     /\ group' = [group EXCEPT ![n] = "led"]
                                     /\ pidfile' \in {n, None}
    /\ \/ Fails("exec")
       \/ Fault("exec") /\ Answer("error")
       \/ ~box /\ Breaks /\ UNCHANGED faults
    /\ UNCHANGED <<box, running, tool, operator>>

\* StartBackgroundProcess: what runs under the name is retired and the new row
\* inserted, in one transaction.
Records ==
    /\ At("record")
    /\ \/ running' = pid /\ Goto("check") /\ UNCHANGED <<call, said, faults>>
       \/ running' \in {running, pid} /\ Fails("store")
    /\ UNCHANGED <<sandbox, tool, operator>>

\* After bgSettleDelay, processAlive.
Checks ==
    /\ At("check") /\ box
    /\ IF group[pid] = "led" THEN Answer("started")
       ELSE Goto("mark") /\ UNCHANGED <<call, said>>
    /\ UNCHANGED <<sandbox, running, tool, operator, faults>>

CheckFails ==
    /\ At("check")
    /\ \/ Fails("exec")
       \/ ~box /\ Breaks /\ UNCHANGED faults
    /\ UNCHANGED <<sandbox, running, tool, operator>>

Marks ==
    /\ At("mark")
    /\ \/ Stopped(pid) /\ Answer("exited") /\ UNCHANGED faults
       \/ UNCHANGED running /\ Fault("store") /\ Answer("exited")
    /\ UNCHANGED <<sandbox, tool, operator>>

Tool == \/ Looks \/ Kills \/ KillFails \/ Retires \/ Launches \/ LaunchFails
        \/ Records \/ Checks \/ CheckFails \/ Marks

-----------------------------------------------------------------------------
(* Recreate *)

\* A recreate while the last one is still being set up is a fault of its own.
Recreates ==
    /\ recreate = "none" /\ recreates < MaxRecreates
    /\ \/ ~setup /\ UNCHANGED faults
       \/ setup /\ Fault("overlap")
    /\ recreate' = "destroy" /\ recreates' = recreates + 1
    /\ UNCHANGED <<sandbox, running, call, pc, tool, said, setup>>

\* provider.Delete: everything in the sandbox goes; a failure is only logged.
Destroys ==
    /\ recreate = "destroy"
    /\ \/ /\ box' = FALSE /\ pidfile' = None
          /\ group' = [n \in Numbers |-> IF group[n] = "unborn" THEN "unborn" ELSE "dead"]
          /\ UNCHANGED faults
       \/ Fault("provider") /\ UNCHANGED sandbox
    /\ recreate' = "reset"
    /\ UNCHANGED <<running, call, pc, tool, said, setup, recreates>>

\* ResetSetupLog; its error ends the request before anything is retired.
Resets ==
    /\ recreate = "reset"
    /\ \/ recreate' = "sweep" /\ UNCHANGED faults
       \/ recreate' = "none" /\ Fault("store")
    /\ UNCHANGED <<sandbox, running, call, pc, tool, said, setup, recreates>>

\* StopAllBackgroundProcesses, best effort.
Sweeps ==
    /\ recreate = "sweep"
    /\ \/ running' = None /\ UNCHANGED faults
       \/ UNCHANGED running /\ Fault("store")
    /\ recreate' = "start"
    /\ UNCHANGED <<sandbox, call, pc, tool, said, setup, recreates>>

\* SetSandboxStatus, startProvision.
Starts ==
    /\ recreate = "start"
    /\ \/ setup' = TRUE /\ UNCHANGED faults
       \/ UNCHANGED setup /\ Fault("store")
    /\ recreate' = "none"
    /\ UNCHANGED <<sandbox, running, call, pc, tool, said, recreates>>

\* Provisioning, as far as it matters here: a sandbox that is still there stays.
Provisions ==
    /\ setup
    /\ \/ box' = TRUE /\ UNCHANGED faults
       \/ UNCHANGED box /\ Fault("provider")
    /\ setup' = FALSE
    /\ UNCHANGED <<group, pidfile, running, call, pc, tool, said, recreate, recreates>>

Operator == Destroys \/ Resets \/ Sweeps \/ Starts \/ Provisions

-----------------------------------------------------------------------------
(* The processes and the process *)

\* A group loses its leader, and with it its children or not.
Exits ==
    /\ \E n \in Numbers :
          \/ group[n] = "led" /\ \E left \in {"dead", "headless"} :
                                    group' = [group EXCEPT ![n] = left]
          \/ group[n] = "headless" /\ group' = [group EXCEPT ![n] = "dead"]
    /\ UNCHANGED <<pidfile, running, box, call, pc, tool, said, operator, faults>>

\* doot dies and boots: the sandbox goes on, the memory is lost, Recover replays.
Crash ==
    /\ Fault("crash")
    /\ IF call = "none" \/ At("parked") THEN UNCHANGED pc ELSE Goto("look")
    /\ prev' = None /\ pid' = None /\ outcome' = "unsignalled"
    /\ recreate' = "none" /\ setup' = FALSE
    /\ UNCHANGED <<sandbox, running, call, said, recreates>>

-----------------------------------------------------------------------------
Init ==
    /\ group = [n \in Numbers |-> "unborn"]
    /\ pidfile = None /\ running = None /\ box = TRUE
    /\ call = "none" /\ pc = "model"
    /\ prev = None /\ pid = None /\ outcome = "unsignalled"
    /\ said = "nothing"
    /\ recreate = "none" /\ setup = FALSE
    /\ recreates = 0 /\ faults = 0

Next == \/ \E t \in {"bash_bg", "stop_bg"} : Calls(t)
        \/ Tool \/ Resumes \/ Recreates \/ Operator \/ Exits \/ Crash

Spec == Init /\ [][Next]_vars

\* A tool that was called goes on; so does the request that replaces a sandbox.
Fairness == WF_vars(Tool) /\ WF_vars(Operator)

FairSpec == Spec /\ Fairness

-----------------------------------------------------------------------------
(* Properties *)

\* The types; neither the file nor a row names a process that was never started.
TypeOK ==
    /\ group \in [Numbers -> {"unborn", "led", "headless", "dead"}]
    /\ pidfile \in Numbers \cup {None}
    /\ running \in Numbers \cup {None}
    /\ box \in BOOLEAN
    /\ call \in {"none", "bash_bg", "stop_bg"}
    /\ pc \in {"model", "look", "kill", "retire", "launch", "record", "check", "mark", "parked"}
    /\ call = "none" <=> At("model")
    /\ prev \in Numbers \cup {None} /\ pid \in Numbers \cup {None}
    /\ outcome \in {"stopped", "unsignalled"}
    /\ said \in {"nothing", "started", "exited", "stopped", "error"}
    /\ recreate \in {"none", "destroy", "reset", "sweep", "start"}
    /\ setup \in BOOLEAN
    /\ recreates \in 0..MaxRecreates /\ faults \in 0..MaxFaults
    /\ \A n \in {pidfile, running, prev, pid} \ {None} : group[n] # "unborn"

\* While nothing fails, a process that leads its group can be found and stopped:
\* the pid file names it and its row says running, from the moment it is recorded,
\* through replacements, exits and a sandbox replaced under it.  So a name never
\* has two such processes.
Tracked ==
    faults = 0 => \A n \in Numbers : group[n] = "led" =>
        pidfile = n /\ (running = n \/ (At("record") /\ pid = n))

\* stop_bg means what it says: after one failure of any kind, and its replay, a
\* process it reports as stopped no longer leads its group, although what it
\* kills is named by the file and what it reports by the row.
StopHolds ==
    At("retire") /\ For("stop_bg") /\ outcome = "stopped" /\ faults <= 1
        => group[prev] # "led"

\* No failure, no recreate asked for, under way or being set up since.
Undisturbed(n) == faults + recreates = n /\ recreate = "none" /\ ~setup

\* The name is never blocked: whatever earlier failures left in the file, the row
\* and the sandbox, a bash_bg that nothing disturbs ends with a process that the
\* file names and the row calls running, or one that was seen to exit at once.
NameIsUsable ==
    \A n \in 0..(MaxFaults + MaxRecreates) :
        (/\ At("look") /\ For("bash_bg") /\ box /\ Undisturbed(n)
         /\ \E k \in Numbers : group[k] = "unborn")
        ~> \/ At("model") /\ said = "started" /\ running = pid /\ pidfile = pid
           \/ At("model") /\ said = "exited" /\ running = None
           \/ ~Undisturbed(n)
==============================================================================
