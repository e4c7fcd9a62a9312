SPECIFICATION Spec
CONSTANTS
    r1 = r1
    r2 = r2
    r3 = r3
    k1 = k1
    Null = Null
    Requests <- ThreeRequests
    Keys <- OneKey
    KeyOf <- SameKey
    PollAttempts = 2
    MaxErrors = 2
    MaxLostAnswers = 1
    MaxCrashes = 1
    MaxExpiries = 1
    MaxDeletions = 0
SYMMETRY Symmetry
INVARIANTS
    TypeOK
    SoleHolder
    OrphansArePaidFor
    RefusedIsUnsent
PROPERTIES
    CreationImplemented
