\* Two attestations revoked, expired, archived, migrated and submitted again.
CONSTANTS
    shop = shop
    p1 = p1
    p2 = p2
    admin = admin
    att1 = att1
    att2 = att2
    lender = lender
    rival = rival
    Businesses <- OneBusiness
    Periods <- TwoPeriods
    Admins <- OneAdmin
    Attestors = {}
    Challengers = {}
    Nobody = Nobody
    Records <- ExpiringOnly
    NoData = NoData
    Versions = {2}
    Expiries = {2}
    AgeThresholds = {1}
    Retentions = {1}
    Graces = {0}
    DefaultGrace = 1
    Deadlines = {2}
    DefaultDeadline = 1
    MinDeadline = 1
    MaxDeadline = 2
    EpochLength = 1
    U64Max = 9
    MaxProposed = 2
    MaxDisputes = 1
    MaxArchivals = 2
    PauseStates = {TRUE, FALSE}
    MaxNow = 2
SYMMETRY Interchangeable
SPECIFICATION Spec
INVARIANTS SequenceCountsRevocations IndexListsRevoked
PROPERTIES RevocationIsFinal
