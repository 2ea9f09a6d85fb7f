SPECIFICATION OfficeSpec
CONSTANTS
    p1 = p1  p2 = p2
    m1 = m1
    w1 = w1
    Null = Null
    CreateReqs = {p1, p2}
    CaptureReqs = {}
    RefundReqs = {}
    CancelReqs = {}
    Settlers = {w1}
    Merchants = {m1}
    Keys = {}
    Amounts = {3}
    FeeNum = 1
    FeeDen = 2
    Short = {}
    ReferenceFkDeferrable = TRUE
    Period = 1
    PageLimit = 1
    MaxClock = 1
    Skew = 1
INVARIANTS
    AlarmsAreExplained
    NothingOverlooked
SYMMETRY OfficeSymmetry
CHECK_DEADLOCK FALSE
