SPECIFICATION PageFairSpec
CONSTANTS
    o1 = o1
    o2 = o2
    o3 = o3
    u1 = u1
    u2 = u2
    NoOp = NoOp
    NoUser = NoUser
    Ops <- MCOps
    Users <- MCUsers
INVARIANT LogoutIsFinal
INVARIANT StoreOneAtATime
INVARIANT PageShowsTheAccount
PROPERTY AccountGetsFree
