\* The keys of the governed contract: direct calls and one proposal at a time.
CONSTANTS
    a1 = a1
    a2 = a2
    zero = zero
    ADMIN = ADMIN
    Nobody = Nobody
    None = None
    Addresses <- MCAddresses
    ZeroAccount <- zero
    Roles <- MCRoles
    Masks <- AdminMask
    Configs <- OneConfig
    DefaultConfig <- Short
    RemovalCooldown = 1
    MaxHistory = 2
    U32Max = 5
    MaxRotations = 3
    MaxNow = 3
    OwnerLists <- TwoOwners
    Thresholds = {1}
    Actions <- KeyActions
    Graces = {0}
    Limits = {1}
    PauseTimes = {}
    Expiry = 3
    QuorumCooldown = 0
    DefaultGrace = 0
    PauseNotice = 1
    MaxProposals = 1
SPECIFICATION GovSpec
INVARIANTS HoldersMatchRoles SomeAdminRemains PlannedRotationsTakeTime
PROPERTIES ImplementsAdminKeys RotationMovesRole
