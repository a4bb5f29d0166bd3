\* An attempt and its retry, three text deltas.
SPECIFICATION FairSpec
CONSTANTS
    MaxAttempts = 2
    MaxPieces = 3
INVARIANTS
    TypeOK
    Once
    WatchedIsKept
PROPERTIES
    Delivers
CHECK_DEADLOCK FALSE
