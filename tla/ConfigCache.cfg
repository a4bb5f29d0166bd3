\* Two saves against loads of the same process and of another one.
SPECIFICATION FairSpec
CONSTANTS
    new = new
    old = old
    c1 = c1
    c2 = c2
    c3 = c3
    Procs = {new, old}
    Callers = {c1, c2, c3}
    Home <- TwoHomes
    MaxSaves = 2
INVARIANTS
    TypeOK
    LoadSeesSaves
PROPERTIES
    CatchesUp
