\* Pages of three bytes, files of up to five.
SPECIFICATION ViewSpec
CONSTANTS
    Limit = 4
    MaxBytes = 3
    MaxLines = 2
    MaxHits = 1
    MaxEntries = 1
    MaxDepth = 1
    Paths = {}
    Chunks <- AllChunks
    Outputs = {}
    MaxText = 5
INVARIANTS
    EndsAtLine
