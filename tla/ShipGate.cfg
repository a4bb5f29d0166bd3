\* The gates of done under every fault, with two moves nothing asked for: an
\* edit, a write of a server, an early call, a lost log row or a crash.
CONSTANTS
    ReviewTurns = 3
    FaultKinds <- AllFaults
    MaxAttempts = 2
    MaxSlips = 2
SPECIFICATION FairSpec
CHECK_DEADLOCK FALSE
INVARIANTS
    TypeOK
    ShippedIsPushed
    ShippedIsTold
PROPERTIES
    NeverTrapped
