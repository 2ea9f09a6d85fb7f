SPECIFICATION SysSpec
CONSTANTS
    p1 = p1  p2 = p2
    c1 = c1
    r1 = r1
    x1 = x1
    m1 = m1  m2 = m2
    w1 = w1  w2 = w2
    k1 = k1
    Null = Null
    CreateReqs = {p1, p2}
    CaptureReqs = {c1}
    RefundReqs = {r1}
    CancelReqs = {x1}
    Settlers = {w1, w2}
    Merchants = {m1, m2}
    Keys = {k1}
    Amounts = {80, 100}
    FeeNum = 7
    FeeDen = 20
    Short = {180}
    ReferenceFkDeferrable = TRUE
INVARIANTS
    SingleChargePerKey
    CapturedIsCharged
    SettlementTypeOK
    SettledOnce
    PaidWithinCaptures
PROPERTIES
    SettledIsStable
CONSTRAINT PricedApart
SYMMETRY SettleSymmetry
CHECK_DEADLOCK FALSE
