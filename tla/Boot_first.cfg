\* Two first boots of the same build, one login.
SPECIFICATION Spec
CONSTANTS
    Machines = {m1, m2}
    Builds <- OneBuild
    Names = {"doot", "ops"}
    Passwords = {"doot", "chosen"}
    Requests = {r1}
    MaxFailures = 2
    MaxBoots = 2
    MaxPosts = 1
SYMMETRY Symmetry
INVARIANT CookieSurvives
CHECK_DEADLOCK FALSE
