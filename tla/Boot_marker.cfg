\* One machine's boot, a login and two changes of credentials at once.
SPECIFICATION Spec
CONSTANTS
    Machines = {m1, m2}
    Builds <- OneBuild
    Names = {"doot", "ops"}
    Passwords = {"doot", "chosen"}
    Requests = {r1, r2}
    MaxFailures = 2
    MaxBoots = 1
    MaxPosts = 3
SYMMETRY Symmetry
INVARIANT DefaultIsMarked
CHECK_DEADLOCK FALSE
