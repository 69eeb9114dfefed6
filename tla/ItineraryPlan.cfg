SPECIFICATION Spec
CONSTANTS
    p1 = p1
    p2 = p2
    None = None
    Places = {p1, p2}
    Lodgings = {p2}
    Departures = {p1, None}
    Travel <- MCTravel
    Costs = {1}
    Budgets = {0}
    Templates <- MCTemplates
    StartTimes = {1}
    Duration = 1
    DefaultStart = 0
    Midnight = 3
    MaxActivities = 2
    MaxDays = 2
INVARIANTS PlanInv
PROPERTIES EditRepairs CascadeStops
VIEW Rows
CHECK_DEADLOCK FALSE
