\* Two machines and three boots, two requests at once, three in all.
SPECIFICATION Spec
CONSTANTS
    Machines = {m1, m2}
    Builds <- SomeBuilds
    Names = {"doot", "ops"}
    Passwords = {"doot", "chosen"}
    Requests = {r1, r2}
    MaxFailures = 2
    MaxBoots = 3
    MaxPosts = 3
SYMMETRY Symmetry
INVARIANTS
    TypeOK
    BootsTogether
    SessionsHold
CHECK_DEADLOCK FALSE
