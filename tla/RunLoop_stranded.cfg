\* One run, one request at a time, nothing fails.
SPECIFICATION Spec
CONSTANTS
    Runs = {r1}
    Handlers = {h1}
    Shapes <- AskTurns
    FaultKinds = {}
    MaxTurns = 1
    MaxCrashes = 0
    NoRun = NoRun
INVARIANTS
    NoStrandedRun
CHECK_DEADLOCK FALSE
