SPECIFICATION FairSpec
CONSTANTS
    w1 = w1  w2 = w2
    Workers = {w1, w2}
    Events = {1, 2}
    MaxFailedAttempts = 2
    BatchSize = 1
    MaxCrashes = 1
INVARIANTS
    AttemptsBounded
PROPERTIES
    ImplementsAtLeastOnce
    PublishedIsFinal
    EventuallyResolved
