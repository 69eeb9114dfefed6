CONSTANTS
    u1 = u1
    u2 = u2
    g1 = g1
    g2 = g2
    r1 = r1
    r2 = r2
    NoUser = NoUser
    Users <- TwoUsers
    GoogleAccounts <- TwoGoogleAccounts
    GoogleEmail <- MCGoogleEmail
    Slots <- TwoSlots
    MaxEpoch = 2
SPECIFICATION Spec
SYMMETRY SlotSymmetry
INVARIANTS IInv LockedOut LastWayIn
PROPERTY NeverRelinked
CHECK_DEADLOCK FALSE
