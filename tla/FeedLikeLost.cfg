CONSTANTS
    u1 = u1
    u2 = u2
    r1 = r1
    r2 = r2
    Users <- TwoUsers
    Author = u1
    Slots <- TwoSlots
    Ops = {"likePost", "unlikePost"}
    MaxComments = 1
    MaxNotified = 2
SPECIFICATION Spec
INVARIANTS LikeCountExact
CHECK_DEADLOCK FALSE
