CONSTANTS
    Projects = {"p", "q"}
    Shared = "user"
    Nobody = Nobody
    Templates = 1
    Absent = Absent
    Torn = Torn
    Routed = Routed
    MaxInits = 3
    MaxEdits = 1
SPECIFICATION Spec
INVARIANTS
    UserNotLost
    Restored
    Deployed
CHECK_DEADLOCK FALSE
