\* Two attestations, two attestors, two disputes, a deadline of one tick.
CONSTANTS
    shop = shop
    p1 = p1
    p2 = p2
    admin = admin
    att1 = att1
    att2 = att2
    lender = lender
    rival = rival
    Businesses <- OneBusiness
    Periods <- TwoPeriods
    Admins <- OneAdmin
    Attestors <- TwoAttestors
    Challengers <- TwoChallengers
    Nobody = Nobody
    Records <- ExpiringOnly
    NoData = NoData
    Versions = {}
    Expiries = {}
    AgeThresholds = {1}
    Retentions = {}
    Graces = {}
    DefaultGrace = 5
    Deadlines = {}
    DefaultDeadline = 1
    MinDeadline = 1
    MaxDeadline = 2
    EpochLength = 1
    U64Max = 9
    MaxProposed = 0
    MaxDisputes = 2
    MaxArchivals = 1
    PauseStates = {}
    MaxNow = 2
SYMMETRY WithAttestors
SPECIFICATION Spec
INVARIANTS OneLiveDispute LocksTrackOpenDisputes
PROPERTIES NoSilentRemoval
