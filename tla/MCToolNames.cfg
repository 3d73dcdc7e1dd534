CONSTANTS
    Tools <- MCTools
    MaxLen = 5
    SearchName <- MCSearchName
    Safe <- MCSafe
    MaxTools = 5
    MaxRepeats = 12
    MaxNames = 24
SPECIFICATION Spec
INVARIANTS TypeOK WayBack ReplayedAsCalled
CHECK_DEADLOCK FALSE
