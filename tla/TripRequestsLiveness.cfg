CONSTANTS
    p1 = p1
    p2 = p2
    p3 = p3
    Slots <- TwoSlots
    Ops = {"startTrip", "startActivity", "completeActivity", "skipActivity", "syncLocation", "finishTrip", "cancelTrip"}
    InitialItems = 3
    MaxActivities = 3
    MaxSessions = 1
    MaxFailures = 0
SPECIFICATION LivenessSpec
PROPERTIES EveryTripEnds NoOrphanLeft
CHECK_DEADLOCK FALSE
