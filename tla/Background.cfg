\* Three launches, two recreates, two faults of any kind.
SPECIFICATION FairSpec
CONSTANTS
    FaultKinds <- AllFaults
    MaxLaunches = 3
    MaxRecreates = 2
    MaxFaults = 2
INVARIANTS
    TypeOK
    Tracked
    StopHolds
PROPERTIES
    NameIsUsable
CHECK_DEADLOCK FALSE
