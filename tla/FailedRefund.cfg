SPECIFICATION Spec
CONSTANTS
    p1 = p1  p2 = p2
    c1 = c1  c2 = c2
    r1 = r1  r2 = r2
    x1 = x1
    m1 = m1
    k1 = k1
    Null = Null
    CreateReqs = {p1}
    CaptureReqs = {}
    RefundReqs = {r1}
    CancelReqs = {}
    Merchants = {m1}
    Keys = {}
    Amounts = {3}
    FeeNum = 1
    FeeDen = 2
    Short = {}
    ReferenceFkDeferrable = TRUE
INVARIANTS
    RefundedMatchesSucceeded
CHECK_DEADLOCK FALSE
