\* A project is created, and its setup outlasts the deadline; nobody else acts.
SPECIFICATION FairSpec
CONSTANTS
    Clients = {c1}
    FaultKinds = {"timeout"}
    MaxAsks = 0
    MaxFaults = 1
PROPERTIES
    SetupEnds
CHECK_DEADLOCK FALSE
