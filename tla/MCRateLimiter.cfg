SPECIFICATION Spec
CONSTANTS
    Callers = {c1, c2, c3, c4, c5}
    RateLimitMax = 2
    RateLimitDuration = 3
    Horizon = 6
    MaxDelay = 1
    MaxErrors = 1
SYMMETRY Symmetry
INVARIANTS TypeOK BurstBounded BucketSpentTwice RejectionsArePaidFor
PROPERTY RetryInLaterBucket
CHECK_DEADLOCK FALSE
