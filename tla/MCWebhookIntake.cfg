SPECIFICATION FairSpec
CONSTANTS
    twilio = twilio
    bird = bird
    h1 = h1
    h2 = h2
    code = code
    dashes = dashes
    Null = Null
    Providers <- TwoProviders
    Bird = bird
    Twilio = twilio
    Deliveries <- SomeDeliveries
    Handlers <- TwoHandlers
    Numeric <- Numbers
    Unprintable <- Dashes
    Tolerance = 1
    SdkWindow = 3
    Ttl = 4
    Stray <- SomeStray
    Signed <- Once
    MaxDelay = 1
    Horizon = 4
    MaxFaults = 1
INVARIANTS
    TypeOK
    CopyProcessedOnce
    DuplicateAnswerIsKept
    LastErrorExplains
PROPERTIES
    ReportGetsThrough
CHECK_DEADLOCK FALSE
