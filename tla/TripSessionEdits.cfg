SPECIFICATION Spec
CONSTANTS
    Itineraries = {i1}
    Users = {u1}
    Owner <- MCOwner
    MaxActivities = 3
    MaxSessions = 1
    MaxDays = 2
    Indices = {0}
    None = None
INVARIANTS
    ActiveMirrorsPlan
    ActiveOrderAgrees
    NotStranded
PROPERTIES
    CompletedPreserved
CHECK_DEADLOCK FALSE
