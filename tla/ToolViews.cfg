\* A result of four bytes, pages of three bytes and two lines, texts of up to
\* eleven bytes: more than the buffer holds before it is compacted.
SPECIFICATION ViewSpec
CONSTANTS
    Limit = 4
    MaxBytes = 3
    MaxLines = 2
    MaxHits = 2
    MaxEntries = 5
    MaxDepth = 3
    Paths <- AllPaths
    Chunks <- AllChunks
    Outputs <- AllOutputs
    MaxText = 11
INVARIANTS
    ViewTypeOK
    EndsKept
    NothingSilent
