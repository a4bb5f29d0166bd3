\* One run, two requests at once, nothing fails.
SPECIFICATION Spec
CONSTANTS
    Runs = {r1}
    Handlers = {h1, h2}
    Shapes <- AskTurns
    FaultKinds = {}
    MaxTurns = 3
    MaxCrashes = 0
    NoRun = NoRun
INVARIANTS
    PlanGate
CHECK_DEADLOCK FALSE
