SPECIFICATION Spec
CONSTANTS
    twilio = twilio
    bird = bird
    Null = Null
    m1 = m1
    m2 = m2
    w1 = w1
    w2 = w2
    a1 = a1
    a2 = a2
    Providers <- TwoProviders
    ProviderOrder <- TwilioOnly
    KeyedProviders <- NoneKeyed
    Messages <- OneMessage
    Workers <- TwoWorkers
    Admins <- OneAdmin
    MaxRetries = 2
    JobAttempts = 2
    MaxStalledCount = 1
    MaxErrors = 1
    MaxCrashes = 1
    MaxFalseStalls = 1
    MaxRequeues = 1
SYMMETRY Symmetry
INVARIANTS
    TypeOK
    AttemptsCoverCalls
    RowsAgree
