SPECIFICATION SystemSpec
CONSTANTS
    twilio = twilio
    bird = bird
    Null = Null
    m1 = m1
    w1 = w1
    w2 = w2
    a1 = a1
    h1 = h1
    Providers <- TwoProviders
    ProviderOrder <- TwilioOnly
    KeyedProviders <- NoneKeyed
    Messages <- OneMessage
    Workers <- TwoWorkers
    Admins <- OneAdmin
    Handlers <- OneHandler
    Reports <- TwoReports
    MaxRetries = 1
    JobAttempts = 2
    MaxStalledCount = 1
    MaxErrors = 2
    MaxCrashes = 1
    MaxFalseStalls = 1
    MaxRequeues = 1
CONSTRAINT FewFaults
SYMMETRY Symmetry
INVARIANTS
    SystemTypeOK
    IssuedIdIsKnown
    StrandedIsPaidFor
    OutcomeIsTold
PROPERTIES
    StatusMovesAsPromised
