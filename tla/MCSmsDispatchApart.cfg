SPECIFICATION Spec
CONSTANTS
    twilio = twilio
    bird = bird
    Null = Null
    m1 = m1
    m2 = m2
    w1 = w1
    w2 = w2
    a1 = a1
    a2 = a2
    Providers <- TwoProviders
    ProviderOrder <- TwilioThenBird
    KeyedProviders <- OnlyBirdKeyed
    Messages <- OneMessage
    Workers <- TwoWorkers
    Admins <- TwoAdmins
    MaxRetries = 2
    JobAttempts = 3
    MaxStalledCount = 1
    MaxErrors = 2
    MaxCrashes = 2
    MaxFalseStalls = 0
    MaxRequeues = 2
SYMMETRY Symmetry
INVARIANTS
    SoleDispatcher
    DuplicatesArePaidFor
    DeadLettersExact
    CallsBoundedByRuns
PROPERTIES
    LifecycleImplemented
    CallOnlyWhileProcessing
CONSTRAINT
    RequeuesOrFaults
