\* Two runs, one after the other, and two operator requests in flight at once;
\* every kind of fault; one process death.
SPECIFICATION Spec
CONSTANTS
    Runs = {r1, r2}
    Handlers = {h1, h2}
    Shapes <- CoreTurns
    FaultKinds = {"model", "sandbox", "store", "ack"}
    MaxTurns = 1
    MaxCrashes = 1
    NoRun = NoRun
SYMMETRY Interchangeable
INVARIANTS
    TypeOK
    DriverOwnsRun
    ClosedRunSettled
PROPERTIES
    ClosedRunsStayClosed
    ImplementsLifecycle
CHECK_DEADLOCK FALSE
