\* Changes of owners and threshold voted on stale snapshots, and pauses.
CONSTANTS
    a1 = a1
    a2 = a2
    zero = zero
    ADMIN = ADMIN
    Nobody = Nobody
    None = None
    Addresses <- MCAddresses
    ZeroAccount <- zero
    Roles <- MCRoles
    Masks = {}
    Configs = {}
    DefaultConfig <- NoRotation
    RemovalCooldown = 1
    MaxHistory = 1
    U32Max = 5
    MaxRotations = 0
    MaxNow = 2
    OwnerLists <- OneOrTwoOwners
    Thresholds = {1, 2}
    Actions <- OwnerActions
    Graces = {}
    Limits = {1, 3}
    PauseTimes = {1, 2}
    Expiry = 1
    QuorumCooldown = 0
    DefaultGrace = 0
    PauseNotice = 1
    MaxProposals = 2
SPECIFICATION GovSpec
INVARIANTS ExecutedHadQuorum QuorumReachable
PROPERTIES PauseLiftedByUnpause DecidedStaysDecided
