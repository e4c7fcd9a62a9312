SPECIFICATION FairSpec
CONSTANTS
    twilio = twilio
    bird = bird
    m1 = m1
    m2 = m2
    h1 = h1
    h2 = h2
    Null = Null
    Providers <- OnlyBird
    Bird = bird
    Messages <- OneMessage
    Handlers <- TwoHandlers
    Reports <- BirdOutcomes
    MaxRuns = 1
    MaxErrors = 1
    MaxLostAnswers = 0
    MaxCrashes = 0
PROPERTIES
    DeliveryIsRecorded
