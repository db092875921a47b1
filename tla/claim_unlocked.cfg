\* An attestor with no open dispute.
CONSTANTS
    shop = shop
    p1 = p1
    p2 = p2
    admin = admin
    att1 = att1
    att2 = att2
    lender = lender
    rival = rival
    Businesses <- OneBusiness
    Periods <- OnePeriod
    Admins <- OneAdmin
    Attestors <- OneAttestor
    Challengers <- OneChallenger
    Nobody = Nobody
    Records <- ExpiringOnly
    NoData = NoData
    Versions = {}
    Expiries = {}
    AgeThresholds = {1}
    Retentions = {}
    Graces = {}
    DefaultGrace = 1
    Deadlines = {}
    DefaultDeadline = 1
    MinDeadline = 1
    MaxDeadline = 2
    EpochLength = 1
    U64Max = 9
    MaxProposed = 1
    MaxDisputes = 1
    MaxArchivals = 1
    PauseStates = {}
    MaxNow = 2
SYMMETRY Interchangeable
SPECIFICATION Spec
INVARIANT UnlockedWhenResolved
