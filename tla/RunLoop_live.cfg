\* One run over several turns: what is replayed, and what must eventually happen.
SPECIFICATION FairSpec
CONSTANTS
    Runs = {r1}
    Handlers = {h1}
    Shapes <- LongTurns
    FaultKinds = {"model", "sandbox", "ack"}
    MaxTurns = 2
    MaxCrashes = 1
    NoRun = NoRun
INVARIANTS
    AnsweredOnce
    RequestsComplete
PROPERTIES
    PauseParks
    RestartServes
CHECK_DEADLOCK FALSE
