SPECIFICATION FairSpec
CONSTANTS
    r1 = r1
    r2 = r2
    r3 = r3
    k1 = k1
    Null = Null
    Requests <- TwoRequests
    Keys <- OneKey
    KeyOf <- SameKey
    PollAttempts = 2
    MaxErrors = 1
    MaxLostAnswers = 1
    MaxCrashes = 1
    MaxExpiries = 2
    MaxDeletions = 1
PROPERTIES
    EveryRequestAnswered
    AcceptedIsSent
