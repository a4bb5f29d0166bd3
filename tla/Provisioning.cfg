\* Two requests at once, two after the first, two faults of any kind.
SPECIFICATION FairSpec
CONSTANTS
    Clients = {c1, c2}
    FaultKinds <- AllFaults
    MaxAsks = 2
    MaxFaults = 2
INVARIANTS
    TypeOK
    FinishedIsBuilt
    SandboxIsRecorded
PROPERTIES
    RecreateRecovers
CHECK_DEADLOCK FALSE
