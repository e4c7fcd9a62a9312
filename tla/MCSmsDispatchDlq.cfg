SPECIFICATION Spec
CONSTANTS
    twilio = twilio
    bird = bird
    Null = Null
    m1 = m1
    m2 = m2
    w1 = w1
    w2 = w2
    a1 = a1
    a2 = a2
    Providers <- TwoProviders
    ProviderOrder <- TwilioOnly
    KeyedProviders <- NoneKeyed
    Messages <- OneMessage
    Workers <- OneWorker
    Admins <- OneAdmin
    MaxRetries = 1
    JobAttempts = 2
    MaxStalledCount = 1
    MaxErrors = 1
    MaxCrashes = 0
    MaxFalseStalls = 0
    MaxRequeues = 0
SYMMETRY Symmetry
INVARIANTS
    DlqFailureIsVisible
