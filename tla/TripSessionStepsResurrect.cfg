CONSTANTS
    p1 = p1
    p2 = p2
    Slots <- TwoSlots
    Ops = {"startTrip", "addActivity", "cancelTrip"}
    InitialItems = 1
    MaxActivities = 2
    MaxSessions = 1
    MaxFailures = 0
SPECIFICATION Spec
PROPERTIES NotResurrected
CHECK_DEADLOCK FALSE
