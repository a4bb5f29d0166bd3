---------------------------- MODULE Provisioning ----------------------------
(***************************************************************************)
(* The life of a project's sandbox: the project row, the sandbox at the    *)
(* provider, the goroutine that sets it up, the operator's create, recreate*)
(* and delete, and the two reconciliations (RefreshStatus on a screen,     *)
(* ReadySandbox before a tool call) that write the same status column from *)
(* what they saw earlier.                                                  *)
(*                                                                         *)
(* One project: two never share a row, an inflight entry or a sandbox name.*)
(* A step is one statement, one provider call or one use of inflight.      *)
(***************************************************************************)
EXTENDS Naturals, FiniteSets

CONSTANTS
    Clients,     \* requests of the operator and tool calls of the agent
    FaultKinds,  \* what may fail: "timeout", "store", "provider", "setup", "crash"
    MaxAsks,     \* bound: requests after the first
    MaxFaults    \* bound: faults

ASSUME ProvisioningAssumption ==
    /\ FaultKinds \subseteq {"timeout", "store", "provider", "setup", "crash"}
    /\ MaxAsks \in Nat /\ MaxFaults \in Nat

VARIABLES
    row,      \* project row: [life, named, status]; named = sandbox_id is set
    box,      \* the sandbox: "none", "bare", "partial" (a clone), "built"
    cold,     \* it is asleep
    pc,       \* the setup goroutine; "off" = not in inflight
    expired,  \* its context has passed provisionTimeout
    op,       \* each client: [at, seen, named, found], its snapshot of the row
    proc,     \* the process: "up" or "down"
    asks,
    faults

world == <<row, box, cold>>
setup == <<pc, expired>>
count == <<asks, faults>>
vars  == <<world, setup, op, proc, count>>

Statuses == {"provisioning", "ready", "sleeping", "error", "missing"}
Contents == {"none", "bare", "partial", "built"}
Idle     == [at |-> "idle", seen |-> "missing", named |-> FALSE, found |-> "unknown"]

Fault(k) == k \in FaultKinds /\ faults < MaxFaults /\ faults' = faults + 1
Exists   == box # "none"

-----------------------------------------------------------------------------
(* The setup goroutine: startProvision, provision *)

At(p)         == pc = p
Goto(p)       == pc' = p
SetStatus(st) == row' = [row EXCEPT !.status = st]

\* ProjectByID.
Reads ==
    /\ At("read") /\ ~expired
    /\ Goto(IF row.named THEN "get" ELSE "create")
    /\ UNCHANGED <<world, expired, op, proc, count>>

\* Mutant of Finds: a recorded name is trusted.
FindsRecorded ==
    /\ At("get") /\ Goto("setup")
    /\ UNCHANGED <<world, expired, op, proc, count>>

\* ensureSandbox: the recorded sandbox if the provider has it; any error, and not
\* only its absence, leads to another Create.
Finds ==
    /\ At("get")
    /\ \/ Exists /\ ~expired /\ Goto("setup") /\ UNCHANGED faults
       \/ (~Exists \/ expired) /\ Goto("create") /\ UNCHANGED faults
       \/ Fault("provider") /\ Goto("create")
    /\ UNCHANGED <<world, expired, op, proc, asks>>

\* The name is derived from the project: if it is taken, a provider may hand the
\* sandbox out again (LocalProvider does) or refuse.
Creates ==
    /\ At("create") /\ ~expired
    /\ \/ ~Exists /\ box' = "bare" /\ cold' \in BOOLEAN /\ Goto("record")
       \/ Exists /\ (Goto("record") \/ Goto("fail")) /\ UNCHANGED <<box, cold>>
    /\ UNCHANGED <<row, expired, op, proc, count>>

\* Mutant of Records: the name is kept for later.
RecordsNothing ==
    /\ At("record") /\ ~expired
    /\ Goto("setup")
    /\ UNCHANGED <<world, expired, op, proc, count>>

\* SetSandbox, on a row that may have been deleted meanwhile.
Records ==
    /\ At("record") /\ ~expired
    /\ row' = [row EXCEPT !.named = TRUE]
    /\ Goto("setup")
    /\ UNCHANGED <<box, cold, expired, op, proc, count>>

\* runSetupScript, configureGit; an exec wakes the sandbox.
Prepares ==
    /\ At("setup") /\ ~expired /\ Exists
    /\ cold' = FALSE
    /\ Goto("clone")
    /\ UNCHANGED <<row, box, expired, op, proc, count>>

\* Mutant of Clones: a clone that fails is a warning, as a failed install is.
ClonesOrWarns ==
    /\ At("clone") /\ ~expired /\ Exists
    /\ cold' = FALSE
    /\ \/ box' = "partial" /\ Goto("branch") /\ UNCHANGED faults
       \/ box' = "partial" /\ Fault("setup") /\ Goto("deps")
    /\ UNCHANGED <<row, expired, op, proc, asks>>

\* cloneRepo removes what an earlier attempt left and clones; a clone that fails
\* may leave a part.
Clones ==
    /\ At("clone") /\ ~expired /\ Exists
    /\ cold' = FALSE
    /\ box' = "partial"
    /\ \/ Goto("branch") /\ UNCHANGED faults
       \/ Fault("setup") /\ Goto("fail")
    /\ UNCHANGED <<row, expired, op, proc, asks>>

\* checkoutWorkBranch.
Branches ==
    /\ At("branch") /\ ~expired /\ Exists
    /\ cold' = FALSE
    /\ box' = "built"
    /\ Goto("deps")
    /\ UNCHANGED <<row, expired, op, proc, count>>

\* installDependencies: whatever happens, even to the sandbox, is a warning.
Installs ==
    /\ At("deps")
    /\ Goto("ready")
    /\ UNCHANGED <<world, expired, op, proc, count>>

\* Each other step of provision returns its error.
Fails ==
    /\ \/ pc \in {"read", "create", "record", "setup", "clone", "branch"} /\ expired /\ UNCHANGED faults
       \/ pc \in {"setup", "clone", "branch"} /\ ~Exists /\ UNCHANGED faults
       \/ pc \in {"read", "record"} /\ Fault("store")
       \/ pc \in {"create", "setup", "clone", "branch"} /\ Fault("provider")
    /\ Goto("fail")
    /\ UNCHANGED <<world, expired, op, proc, asks>>

\* The outcome is recorded under the same context, so an expired one records none.
Marks ==
    /\ pc \in {"ready", "fail"}
    /\ \/ ~expired /\ SetStatus(IF At("ready") THEN "ready" ELSE "error") /\ UNCHANGED faults
       \/ expired /\ UNCHANGED <<row, faults>>
       \/ Fault("store") /\ UNCHANGED row
    /\ Goto("exit")
    /\ UNCHANGED <<box, cold, expired, op, proc, asks>>

\* The last lines of the log, then delete(s.inflight, projectID).
Leaves ==
    /\ At("exit")
    /\ Goto("off") /\ expired' = FALSE
    /\ UNCHANGED <<world, op, proc, count>>

\* provisionTimeout.
Expires ==
    /\ pc # "off" /\ ~expired /\ Fault("timeout")
    /\ expired' = TRUE
    /\ UNCHANGED <<world, pc, op, proc, asks>>

Provision == \/ Reads \/ Finds \/ Creates \/ Records \/ Prepares \/ Clones
             \/ Branches \/ Installs \/ Fails \/ Marks \/ Leaves

-----------------------------------------------------------------------------
(* Create, Recreate, Delete *)

OpAt(c, p) == op[c].at = p
Step(c, p) == op' = [op EXCEPT ![c].at = p]
Return(c)  == op' = [op EXCEPT ![c] = Idle]

\* Active: every request works on the row as it was when it came in.
Asks(c, p) ==
    /\ proc = "up" /\ OpAt(c, "idle") /\ row.life = "active"
    /\ asks < MaxAsks /\ asks' = asks + 1
    /\ op' = [op EXCEPT ![c] = [at |-> p, seen |-> row.status, named |-> row.named,
                                found |-> "unknown"]]
    /\ UNCHANGED <<world, setup, proc, faults>>

Create(c) ==
    /\ proc = "up" /\ OpAt(c, "idle") /\ row.life = "none"
    /\ row' = [life |-> "active", named |-> FALSE, status |-> "provisioning"]
    /\ Step(c, "start")
    /\ UNCHANGED <<box, cold, setup, proc, count>>

AsksRecreate(c) == Asks(c, "recreate")
AsksDelete(c)   == Asks(c, "delete")

\* provider.Delete of the sandbox the snapshot names; its failure is only logged.
Destroys(c) ==
    /\ op[c].at \in {"recreate", "delete"}
    /\ \/ box' = (IF op[c].named THEN "none" ELSE box) /\ UNCHANGED faults
       \/ op[c].named /\ Fault("provider") /\ UNCHANGED box
    /\ Step(c, IF OpAt(c, "recreate") THEN "mark" ELSE "forget")
    /\ UNCHANGED <<row, cold, setup, proc, asks>>

\* ResetSetupLog and SetSandboxStatus: an error ends the request there.
MarksProvisioning(c) ==
    /\ OpAt(c, "mark")
    /\ \/ SetStatus("provisioning") /\ Step(c, "start") /\ UNCHANGED faults
       \/ Fault("store") /\ Return(c) /\ UNCHANGED row
    /\ UNCHANGED <<box, cold, setup, proc, asks>>

\* startProvision: at most one goroutine, and otherwise nothing but a warning.
Starts(c) ==
    /\ OpAt(c, "start")
    /\ Goto(IF At("off") THEN "read" ELSE pc)
    /\ Return(c)
    /\ UNCHANGED <<world, expired, proc, count>>

\* SoftDeleteProject.
Forgets(c) ==
    /\ OpAt(c, "forget")
    /\ \/ row.life = "active" /\ UNCHANGED faults
          /\ row' = [life |-> "deleted", named |-> FALSE, status |-> "missing"]
       \/ row.life = "deleted" /\ UNCHANGED <<row, faults>>
       \/ Fault("store") /\ UNCHANGED row
    /\ Return(c)
    /\ UNCHANGED <<box, cold, setup, proc, asks>>

-----------------------------------------------------------------------------
(* RefreshStatus and ReadySandbox *)

\* Mutant of AsksRefresh: a project in setup is reconciled too.
AsksRefreshAlways(c) == row.named /\ Asks(c, "refresh")

AsksRefresh(c) == row.named /\ row.status # "provisioning" /\ Asks(c, "refresh")

AsksReady(c) == row.named /\ Asks(c, "use")

\* Get and State, with their retries; an error that outlasts them ends it.
Probes(c) ==
    /\ op[c].at \in {"refresh", "use"} /\ op[c].found = "unknown"
    /\ \/ op' = [op EXCEPT ![c].found = IF ~Exists THEN "missing"
                                        ELSE IF cold THEN "sleeping" ELSE "running"]
          /\ UNCHANGED faults
       \/ Fault("provider") /\ Return(c)
    /\ UNCHANGED <<world, setup, proc, asks>>

\* A status that cannot be written is logged, and the request goes on.
Writes(st) ==
    \/ SetStatus(st) /\ UNCHANGED faults
    \/ Fault("store") /\ UNCHANGED row

\* setStatus: skipped if the snapshot says so already.
Notes(c, st) == IF op[c].seen = st THEN UNCHANGED <<row, faults>> ELSE Writes(st)

Refreshes(c) ==
    /\ OpAt(c, "refresh")
    /\ \/ op[c].found = "running" /\ op[c].seen = "sleeping" /\ Notes(c, "ready")
       \/ op[c].found = "running" /\ op[c].seen # "sleeping" /\ UNCHANGED <<row, faults>>
       \/ op[c].found = "sleeping" /\ op[c].seen = "ready" /\ Notes(c, "sleeping")
       \/ op[c].found = "sleeping" /\ op[c].seen # "ready" /\ UNCHANGED <<row, faults>>
       \/ op[c].found = "missing" /\ Notes(c, "missing")
    /\ Return(c)
    /\ UNCHANGED <<box, cold, setup, proc, asks>>

\* A sleeping sandbox is woken and ready whatever the row said; for the agent,
\* awaitError marks a missing one without looking at the snapshot.
Uses(c) ==
    /\ OpAt(c, "use")
    /\ \/ op[c].found = "running" /\ UNCHANGED <<row, cold, faults>>
       \/ op[c].found = "sleeping" /\ Exists /\ Notes(c, "ready") /\ cold' = FALSE
       \/ op[c].found = "sleeping" /\ ~Exists /\ Notes(c, "missing") /\ UNCHANGED cold
       \/ op[c].found = "missing" /\ (Notes(c, "missing") \/ Writes("missing")) /\ UNCHANGED cold
    /\ Return(c)
    /\ UNCHANGED <<box, setup, proc, asks>>

Serve(c) == \/ Destroys(c) \/ MarksProvisioning(c) \/ Starts(c) \/ Forgets(c)
            \/ Probes(c) \/ Refreshes(c) \/ Uses(c)

Request(c) == Create(c) \/ AsksRecreate(c) \/ AsksDelete(c) \/ AsksRefresh(c) \/ AsksReady(c)

-----------------------------------------------------------------------------
(* The provider and the process *)

Sleeps ==
    /\ Exists /\ ~cold
    /\ cold' = TRUE
    /\ UNCHANGED <<row, box, setup, op, proc, count>>

Vanishes ==
    /\ Exists /\ Fault("provider")
    /\ box' = "none"
    /\ UNCHANGED <<row, cold, setup, op, proc, asks>>

Die ==
    /\ proc = "up" /\ Fault("crash")
    /\ proc' = "down"
    /\ pc' = "off" /\ expired' = FALSE
    /\ op' = [c \in Clients |-> Idle]
    /\ UNCHANGED <<world, asks>>

\* FailInterruptedProvisioning; its own failure is only logged.
Boot ==
    /\ proc = "down" /\ proc' = "up"
    /\ \/ /\ IF row.life = "active" /\ row.status = "provisioning"
             THEN SetStatus("error") ELSE UNCHANGED row
          /\ UNCHANGED faults
       \/ Fault("store") /\ UNCHANGED row
    /\ UNCHANGED <<box, cold, setup, op, asks>>

-----------------------------------------------------------------------------
Init ==
    /\ row = [life |-> "none", named |-> FALSE, status |-> "missing"]
    /\ box = "none" /\ cold = FALSE
    /\ pc = "off" /\ expired = FALSE
    /\ op = [c \in Clients |-> Idle]
    /\ proc = "up"
    /\ asks = 0 /\ faults = 0

Next == \/ Provision \/ Expires
        \/ \E c \in Clients : Serve(c) \/ Request(c)
        \/ Sleeps \/ Vanishes \/ Die \/ Boot

Spec == Init /\ [][Next]_vars

\* The goroutine and a request that came in go on; a dead process is started.
Fairness ==
    /\ WF_vars(Provision)
    /\ \A c \in Clients : WF_vars(Serve(c))
    /\ WF_vars(Boot)

FairSpec == Spec /\ Fairness

-----------------------------------------------------------------------------
(* Properties *)

OpRow == [at : {"idle", "start", "recreate", "mark", "delete", "forget", "refresh", "use"},
          seen : Statuses, named : BOOLEAN,
          found : {"unknown", "missing", "sleeping", "running"}]

\* The types; no goroutine and no request outlives its process, and a refresh
\* never works on a project its own snapshot says is being set up.
TypeOK ==
    /\ row \in [life : {"none", "active", "deleted"}, named : BOOLEAN, status : Statuses]
    /\ box \in Contents /\ cold \in BOOLEAN
    /\ pc \in {"off", "read", "get", "create", "record", "setup", "clone", "branch",
               "deps", "ready", "fail", "exit"}
    /\ expired \in BOOLEAN
    /\ op \in [Clients -> OpRow]
    /\ proc \in {"up", "down"}
    /\ asks \in 0..MaxAsks /\ faults \in 0..MaxFaults
    /\ proc = "down" => pc = "off" /\ \A c \in Clients : op[c] = Idle
    /\ \A c \in Clients : op[c].at = "refresh" => op[c].seen # "provisioning"

\* provision: when setup is about to be reported finished, the sandbox holds the
\* repository on its work branch; only a sandbox taken away meanwhile is missed.
FinishedIsBuilt == pc \in {"deps", "ready"} => box \in {"built", "none"}

\* provision.go: a sandbox without a record is an orphan.  Short of a crash or a
\* failed write, an active project's row names its sandbox as soon as it exists.
SandboxIsRecorded ==
    Exists /\ row.life = "active" /\ faults = 0 => row.named \/ At("record")

\* A recreate that meets no other request: it is the last one of the bound.
Rebuilding ==
    /\ row.life = "active" /\ At("off") /\ asks = MaxAsks
    /\ row.named \/ ~Exists
    /\ \E c \in Clients : OpAt(c, "recreate") /\ \A d \in Clients \ {c} : OpAt(d, "idle")

\* Recreate is the way out: of a project whose row names its sandbox, or that has
\* none, and whose setup goroutine is gone, it makes a ready one whose sandbox holds
\* the repository, whatever failed, expired, vanished or was interrupted before.
\* Not of two states: a sandbox no row names, which a provider may refuse to hand
\* out again, and a setup goroutine that has not left when the recreate arrives.
RecreateRecovers ==
    \A n \in 0..MaxFaults :
        (Rebuilding /\ faults = n) ~> ((row.status = "ready" /\ box = "built") \/ faults > n)

-----------------------------------------------------------------------------
\* service.go: "hanging forever is worse than failing"; the card polls only while
\* provisioning and "stops by itself once setup finishes": setup comes to an end.
\* Provisioning_timeout.cfg violates it: the failure of an expired setup is recorded
\* under its expired context.
SetupEnds ==
    row.life = "active" /\ row.status = "provisioning"
        ~> row.life # "active" \/ row.status # "provisioning"
==============================================================================
