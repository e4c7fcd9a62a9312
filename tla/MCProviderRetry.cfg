SPECIFICATION Spec
CONSTANTS
    None = None
    Priorities <- SomePriorities
    Modules <- WithVonage
    Limited <- BothProviders
    Credentials <- BothOrOnlyBird
    Errors <- SomeErrors
    MaxRetries = 3
    Second = 10
    BaseDelay = 20
    MaxTimer = 21474836
INVARIANTS TypeOK FailoverExact WaitsLongEnough
