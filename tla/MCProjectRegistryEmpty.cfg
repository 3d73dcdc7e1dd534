CONSTANTS
    Projects = {1, 2}
    Inits = {i1}
    Refreshes = {r1}
    MaxTokens = 2
SPECIFICATION Spec
INVARIANTS
    EmptyTokenSkipsAuth
CHECK_DEADLOCK FALSE
