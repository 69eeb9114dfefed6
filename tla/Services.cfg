CONSTANTS
    Users = {u1, u2}
    Tokens = {t1, t2}
    Notes = {n1}
    Slots = {1, 2}
    MaxMulticast = 1
    Nobody = Nobody
    Ways <- ShortWays
    ApiDistance = 3
    StraightDistance = 2
    maxRetries = 2
    maxWaypoints = 2
    Requests = {1, 2}
    Locations = {kuta}
    Providers = {api, mock}
    None = None
    Failed = Failed
    cacheTtlMs = 2
    timeout = 1
    MaxTime = 4
SPECIFICATION Spec
INVARIANTS TypeOK RightHands DirectionsSound FreshEnough
PROPERTIES DeadTokensRetired Answered
CHECK_DEADLOCK FALSE
