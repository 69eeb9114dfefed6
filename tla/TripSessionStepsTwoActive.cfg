CONSTANTS
    p1 = p1
    p2 = p2
    Slots <- TwoSlots
    Ops = {"startTrip"}
    InitialItems = 1
    MaxActivities = 1
    MaxSessions = 2
    MaxFailures = 0
SPECIFICATION Spec
INVARIANTS OneActiveSession
CHECK_DEADLOCK FALSE
