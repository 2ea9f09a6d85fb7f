SPECIFICATION Spec
CONSTANTS
    e1 = e1  e2 = e2  s1 = s1  s2 = s2
    MaxOffset = 1
    Subscribers = {e2}
    CatchAll = {e1}
    Schedulers = {s1}
    MaxAttempts = 2
    BatchSize = 1
    MaxFaults = 1
INVARIANTS
    ConsumedIsPersisted
