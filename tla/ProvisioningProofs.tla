------------------------ MODULE ProvisioningProofs ------------------------
(***************************************************************************)
(* Proofs about Provisioning for any number of clients, any set of faults  *)
(* and any bounds: the types, that setup never reports an unfinished       *)
(* checkout as finished, and that an active project names its sandbox.     *)
(***************************************************************************)
EXTENDS Provisioning, TLAPS

\* Before the project exists there is neither a sandbox, nor a goroutine, nor a
\* request that could act for it.
Unborn ==
    row.life = "none" => /\ box = "none" /\ pc = "off"
                         /\ \A c \in Clients : op[c].at = "idle"

\* A context that has expired was the fault that is counted.
Timely == expired => faults > 0

\* The inductive invariant.
IInv == TypeOK /\ FinishedIsBuilt /\ SandboxIsRecorded /\ Unborn /\ Timely

\* The initial state: no project, nothing at the provider.
LEMMA Initially == Init => IInv
<1>1. Idle \in OpRow
  BY DEF Idle, OpRow, Statuses
<1>2. ASSUME Init PROVE TypeOK
  <2>1. row \in [life : {"none", "active", "deleted"}, named : BOOLEAN, status : Statuses]
    BY <1>2 DEF Init, Statuses
  <2>2. asks \in 0..MaxAsks /\ faults \in 0..MaxFaults
    BY <1>2, ProvisioningAssumption DEF Init
  <2>3. op \in [Clients -> OpRow] /\ \A c \in Clients : op[c].at # "refresh"
    BY <1>1, <1>2 DEF Init, Idle
  <2>4. box \in Contents /\ cold \in BOOLEAN /\ expired \in BOOLEAN /\ proc = "up" /\ pc = "off"
    BY <1>2 DEF Init, Contents
  <2> QED
    BY <2>1, <2>2, <2>3, <2>4 DEF TypeOK
<1>3. Init => FinishedIsBuilt /\ SandboxIsRecorded /\ Unborn /\ Timely
  BY DEF Init, FinishedIsBuilt, SandboxIsRecorded, Unborn, Timely, Exists, Idle
<1> QED
  BY <1>2, <1>3 DEF IInv

\* A reconciliation ends: it has written a status, or not, and nothing else of the
\* project but that the sandbox is awake.
LEMMA Noted ==
    ASSUME IInv, NEW c \in Clients, op[c].at # "idle",
           UNCHANGED <<row, faults>> \/ (\E st \in Statuses : Writes(st)),
           op' = [op EXCEPT ![c] = Idle], cold' \in BOOLEAN,
           UNCHANGED <<box, setup, proc, asks>>
    PROVE  IInv'
<1> USE ProvisioningAssumption
    DEF IInv, TypeOK, FinishedIsBuilt, SandboxIsRecorded, Unborn, Timely, Exists, At,
        Idle, Statuses, Contents, OpRow, setup
<1>1. row.life # "none" /\ proc = "up"
  OBVIOUS
<1>2. CASE UNCHANGED <<row, faults>>
  BY <1>1, <1>2
<1>3. ASSUME NEW st \in Statuses, SetStatus(st), UNCHANGED faults PROVE IInv'
  BY <1>1, <1>3 DEF SetStatus
<1>4. ASSUME Fault("store"), UNCHANGED row PROVE IInv'
  <2>1. faults' \in 0..MaxFaults /\ faults' > 0
    BY <1>4 DEF Fault
  <2> QED BY <1>1, <1>4, <2>1
<1> QED BY <1>2, <1>3, <1>4 DEF Writes

\* Every step keeps it: setup, requests, reconciliations, faults and restarts.
LEMMA Preserved == IInv /\ [Next]_vars => IInv'
<1> SUFFICES ASSUME IInv, [Next]_vars PROVE IInv'
  OBVIOUS
<1> USE ProvisioningAssumption
    DEF IInv, TypeOK, FinishedIsBuilt, SandboxIsRecorded, Unborn, Timely, Exists, At, OpAt,
        Fault, Idle, Statuses, Contents, OpRow, world, setup, count
<1>1. CASE Reads
  BY <1>1 DEF Reads, Goto
<1>2. CASE Finds
  BY <1>2 DEF Finds, Goto
<1>3. CASE Creates
  BY <1>3 DEF Creates, Goto
<1>4. CASE Records
  BY <1>4 DEF Records, Goto
<1>5. CASE Prepares
  BY <1>5 DEF Prepares, Goto
<1>6. CASE Clones
  <2>1. CASE Goto("branch") /\ UNCHANGED faults
    BY <1>6, <2>1 DEF Clones, Goto
  <2>2. CASE Fault("setup") /\ Goto("fail")
    <3>1. faults' \in 0..MaxFaults /\ faults' > 0
      BY <2>2
    <3>2. pc' = "fail" /\ box' = "partial" /\ cold' = FALSE /\ UNCHANGED <<row, expired, op, proc, asks>>
      BY <1>6, <2>2 DEF Clones, Goto
    <3>3. row.life # "none" /\ proc = "up"
      BY <1>6 DEF Clones
    <3> QED
      <4> HIDE DEF Fault, OpRow, Idle
      <4>1. TypeOK'
        BY <3>1, <3>2, <3>3
      <4>2. FinishedIsBuilt' /\ Unborn'
        BY <3>2, <3>3
      <4>3. SandboxIsRecorded' /\ Timely'
        BY <3>1, <3>2
      <4> QED
        BY <4>1, <4>2, <4>3
  <2> QED
    BY <1>6, <2>1, <2>2 DEF Clones
<1>7. CASE Branches
  BY <1>7 DEF Branches, Goto
<1>8. CASE Installs
  BY <1>8 DEF Installs, Goto
<1>9. CASE Fails
  BY <1>9 DEF Fails, Goto
<1>10. CASE Marks
  BY <1>10 DEF Marks, SetStatus, Goto
<1>11. CASE Leaves
  BY <1>11 DEF Leaves, Goto
<1>12. CASE Expires
  BY <1>12 DEF Expires
<1>13. ASSUME NEW c \in Clients, Create(c) PROVE IInv'
  BY <1>13 DEF Create, SetStatus, Step
<1>14. ASSUME NEW c \in Clients, AsksRecreate(c) PROVE IInv'
  BY <1>14 DEF AsksRecreate, Asks
<1>15. ASSUME NEW c \in Clients, AsksDelete(c) PROVE IInv'
  BY <1>15 DEF AsksDelete, Asks
<1>16. ASSUME NEW c \in Clients, AsksRefresh(c) PROVE IInv'
  BY <1>16 DEF AsksRefresh, Asks
<1>17. ASSUME NEW c \in Clients, AsksReady(c) PROVE IInv'
  BY <1>17 DEF AsksReady, Asks
<1>18. ASSUME NEW c \in Clients, Destroys(c) PROVE IInv'
  BY <1>18 DEF Destroys, Step
<1>19. ASSUME NEW c \in Clients, MarksProvisioning(c) PROVE IInv'
  <2>1. CASE SetStatus("provisioning") /\ Step(c, "start") /\ UNCHANGED faults
    BY <1>19, <2>1, SMTT(30) DEF MarksProvisioning, Step, SetStatus
  <2>2. CASE Fault("store") /\ Return(c) /\ UNCHANGED row
    BY <1>19, <2>2 DEF MarksProvisioning, Return
  <2> QED
    BY <1>19, <2>1, <2>2 DEF MarksProvisioning
<1>20. ASSUME NEW c \in Clients, Starts(c) PROVE IInv'
  BY <1>20 DEF Starts, Return, Goto
<1>21. ASSUME NEW c \in Clients, Forgets(c) PROVE IInv'
  <2>1. CASE row.life = "active" /\ UNCHANGED faults
    <3>1. CASE row' = [life |-> "deleted", named |-> FALSE, status |-> "missing"]
      BY <1>21, <2>1, <3>1 DEF Forgets, Return
    <3>2. CASE UNCHANGED row
      BY <1>21, <2>1, <3>2 DEF Forgets, Return
    <3> QED
      BY <1>21, <3>1, <3>2 DEF Forgets
  <2>2. CASE row.life = "deleted" /\ UNCHANGED <<row, faults>>
    BY <1>21, <2>2 DEF Forgets, Return
  <2>3. CASE Fault("store") /\ UNCHANGED row
    BY <1>21, <2>3 DEF Forgets, Return
  <2> QED
    BY <1>21, <2>1, <2>2, <2>3 DEF Forgets
<1>22. ASSUME NEW c \in Clients, Probes(c) PROVE IInv'
  <2>1. CASE /\ op' = [op EXCEPT ![c].found = IF ~Exists THEN "missing"
                                             ELSE IF cold THEN "sleeping" ELSE "running"]
             /\ UNCHANGED faults
    BY <1>22, <2>1 DEF Probes
  <2>2. CASE Fault("provider") /\ Return(c)
    BY <1>22, <2>2 DEF Probes, Return
  <2> QED
    BY <1>22, <2>1, <2>2 DEF Probes
<1>23. ASSUME NEW c \in Clients, Refreshes(c) PROVE IInv'
  <2>1. \/ UNCHANGED <<row, faults>>
        \/ \E st \in Statuses : Writes(st)
    BY <1>23 DEF Refreshes, Notes
  <2>2. op' = [op EXCEPT ![c] = Idle] /\ UNCHANGED <<box, cold, setup, proc, asks>>
    BY <1>23 DEF Refreshes, Return
  <2>3. op[c].at # "idle"
    BY <1>23 DEF Refreshes
  <2> QED BY <2>1, <2>2, <2>3, Noted
<1>24. ASSUME NEW c \in Clients, Uses(c) PROVE IInv'
  <2>1. \/ UNCHANGED <<row, faults>>
        \/ \E st \in Statuses : Writes(st)
    BY <1>24 DEF Uses, Notes
  <2>2. op' = [op EXCEPT ![c] = Idle] /\ cold' \in BOOLEAN /\ UNCHANGED <<box, setup, proc, asks>>
    BY <1>24 DEF Uses, Return
  <2>3. op[c].at # "idle"
    BY <1>24 DEF Uses
  <2> QED BY <2>1, <2>2, <2>3, Noted
<1>25. CASE Sleeps
  BY <1>25 DEF Sleeps
<1>26. CASE Vanishes
  BY <1>26 DEF Vanishes
<1>27. CASE Die
  <2>1. Idle \in OpRow /\ Idle.at = "idle"
    OBVIOUS
  <2>2. op' \in [Clients -> OpRow] /\ \A c \in Clients : op'[c] = Idle /\ op'[c].at = "idle"
    <3> HIDE DEF Idle, OpRow
    <3> QED BY <1>27, <2>1 DEF Die
  <2>3. faults' \in 0..MaxFaults /\ faults' > 0
    BY <1>27 DEF Die
  <2>4. proc' = "down" /\ pc' = "off" /\ expired' = FALSE /\ UNCHANGED <<world, asks>>
    BY <1>27 DEF Die
  <2> QED
    <3> HIDE DEF OpRow, Idle, Fault
    <3>1. TypeOK'
      BY <2>1, <2>2, <2>3, <2>4
    <3>2. FinishedIsBuilt' /\ Unborn'
      BY <2>2, <2>4
    <3>3. SandboxIsRecorded' /\ Timely'
      BY <2>3, <2>4
    <3> QED
      BY <3>1, <3>2, <3>3
<1>28. CASE Boot
  BY <1>28 DEF Boot, SetStatus
<1>29. CASE UNCHANGED vars
  BY <1>29 DEF vars
<1> QED
  BY <1>1, <1>2, <1>3, <1>4, <1>5, <1>6, <1>7, <1>8, <1>9, <1>10, <1>11, <1>12, <1>13, <1>14, <1>15, <1>16, <1>17, <1>18, <1>19, <1>20, <1>21, <1>22, <1>23, <1>24, <1>25, <1>26, <1>27, <1>28, <1>29
     DEF Next, Provision, Serve, Request

\* The inductive invariant holds in every reachable state.
THEOREM Invariance == Spec => []IInv
<1>1. Init => IInv
  BY Initially
<1>2. IInv /\ [Next]_vars => IInv'
  BY Preserved
<1> QED
  BY <1>1, <1>2, PTL DEF Spec

\* The types, and that no goroutine or request outlives its process.
THEOREM TypeCorrect == Spec => []TypeOK
<1>1. IInv => TypeOK
  BY DEF IInv
<1> QED
  BY <1>1, Invariance, PTL

\* Setup that is about to be reported finished left the repository built.
THEOREM Finished == Spec => []FinishedIsBuilt
<1>1. IInv => FinishedIsBuilt
  BY DEF IInv
<1> QED
  BY <1>1, Invariance, PTL

\* Without a fault, an active project's sandbox is never an orphan.
THEOREM Recorded == Spec => []SandboxIsRecorded
<1>1. IInv => SandboxIsRecorded
  BY DEF IInv
<1> QED
  BY <1>1, Invariance, PTL
==============================================================================
