CONSTANTS
    Projects = {1, 2}
    Inits = {i1, i2}
    Refreshes = {r1, r2}
    MaxTokens = 3
SPECIFICATION FairSpec
INVARIANTS
    TypeOK
PROPERTIES
    RemovedOnlyIfAbsent
    LoadedIsFixed
    Converges
CHECK_DEADLOCK FALSE
