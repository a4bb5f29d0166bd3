\* Two calls, two faults, one write by others.
SPECIFICATION Spec
CONSTANTS
    Calls <- SomeCalls
    Files <- SomeFiles
    Boards <- SomeBoards
    Notes = {"n1", "n2"}
    Texts <- SomeTexts
    NoText <- Empty
    Edits <- SomeEdits
    Occurrences <- CountIn
    FirstReplaced <- PutFirst
    AllReplaced <- PutAll
    MaxLetters = 12
    MaxCalls = 2
    MaxFaults = 2
    MaxOthers = 1
INVARIANTS
    TypeOK
    OneEffect
CHECK_DEADLOCK FALSE
