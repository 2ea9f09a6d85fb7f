SPECIFICATION FairGateway
CONSTANTS
    m1 = m1
    live = live
    u1 = u1
    u2 = u2
    t1 = t1
    w1 = w1
    k1 = k1
    Null = Null
    Merchants = {m1}
    Modes = {live}
    UpdateReqs = {u1, u2}
    RotateReqs = {t1}
    RegisterReqs = {w1}
    Keys = {k1}
    HandlerTimeout = 2
    MarkTtl = 2
    CompletedTtl = 3
CONSTRAINT Grouped
INVARIANTS
    OneAtATime
    OneSuccessPerKey
    ReplayIsEarned
    VersionSpentOnce
PROPERTIES
    CompletedIsStable
    KeyIsReleased
CHECK_DEADLOCK FALSE
