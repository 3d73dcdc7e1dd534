CONSTANTS
    Requests = { r1, r2 }
    Capacity = 1
    Projects = 2
    FlawSets <- MCFlawSets
    MaxStarts = 2
SPECIFICATION FairSpec
INVARIANTS TypeOK ToldIsStored OnlyAuthorised
PROPERTIES ImplementsAdmission Answered PermitsReturn Stops
CHECK_DEADLOCK FALSE
