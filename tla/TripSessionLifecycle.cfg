SPECIFICATION Spec
CONSTANTS
    Itineraries = {i1, i2}
    Users = {u1}
    Owner <- MCOwner
    MaxActivities = 2
    MaxSessions = 2
    MaxDays = 1
    Indices = {0, 1}
    None = None
INVARIANTS
    IInv
PROPERTIES
    LifecycleSpec
    HistoryFrozen
CHECK_DEADLOCK FALSE
