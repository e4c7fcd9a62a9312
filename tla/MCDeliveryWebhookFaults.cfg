SPECIFICATION Spec
CONSTANTS
    twilio = twilio
    bird = bird
    m1 = m1
    m2 = m2
    h1 = h1
    h2 = h2
    Null = Null
    Providers <- TwoProviders
    Bird = bird
    Messages <- TwoMessages
    Handlers <- TwoHandlers
    Reports <- Outcomes
    MaxRuns = 2
    MaxErrors = 1
    MaxLostAnswers = 1
    MaxCrashes = 1
SYMMETRY Symmetry
INVARIANTS
    TypeOK
    CallbackHitsItsMessage
    OutcomeAgrees
PROPERTIES
    DeliveryImplemented
    CallbackHitsItsSend
