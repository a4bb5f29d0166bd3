\* An agent that does what it is told, and reviews that may fail.
SPECIFICATION Spec
CONSTANTS
    FaultKinds = {"model"}
    ReviewTurns = 3
    MaxAttempts = 2
    MaxSlips = 0
INVARIANTS
    OneReviewMeansVerdict
CHECK_DEADLOCK FALSE
