SPECIFICATION Spec
CONSTANTS
    p1 = p1  p2 = p2
    Payments = {p1, p2}
    Amounts = {1, 2}
    FeeNum = 1
    FeeDen = 2
    Short = {}
    MaxClock = 3
    MaxRows = 6
    ReferenceFkDeferrable = TRUE
INVARIANTS
    TypeOK
    ChainIsRooted
    RowsPaired
    ForksExplained
PROPERTIES
    SerialBalancesExact
    ImplementsJournal
CONSTRAINT Bounded
CHECK_DEADLOCK FALSE
