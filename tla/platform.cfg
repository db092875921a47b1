\* Two accounts; every contract with the smallest sets that reach its cases.
CONSTANTS
    ann = ann
    bob = bob
    shop = shop
    r1 = r1
    r2 = r2
    till = till
    box = box
    dao = dao
    vault = vault
    usd = usd
    eur = eur
    sOld = sOld
    sNew = sNew
    Accounts <- MCAccounts
    Nobody = Nobody
    Absent = Absent
    Sites <- MCSites
    MaxClock <- MCMaxClock
    MaxNonce = 2
    DaoConfigs <- MCDaoConfigs
    DefaultMinVotes = 1
    DefaultDuration = 1
    MaxMinVotes = 2
    DaoFees = {1}
    HolderSets <- MCHolderSets
    MaxDaoProposals = 1
    Thresholds = {0, 1, 2}
    Voters = {ann, bob, shop}
    GovSupply = 2
    Issuer = ann
    Implementations = {"i1", "i2"}
    RegistryVersions = {0, 1, 2}
    AttestationNames = {"n1"}
    SnapshotBusinesses = {shop}
    Epochs = {1, 2}
    SnapshotRevenues = {1}
    WriterSets <- MCWriterSets
    RestoreBatches <- MCRestoreBatches
    SchemaVersion = 1
    CommitWindow = 0
    MaxBusinessPeriods = 2
    MaxEpochBusinesses = 2
    Portfolios = {"p1"}
    BusinessLists <- MCBusinessLists
    RootVersions = {0, 1}
    MaxRoots = 3
    AdminDelays = {1}
    AggNonceMax = 2
    Namespaces = {"ns1"}
    ProviderIds = {"id1", "id2"}
    ProviderData <- MCProviderData
    MetadataLimits <- MCMetadataLimits
    Reports = {"k1"}
    ReportRevenues <- MCReportRevenues
    Tiers = {0, 1, 2}
    Firms = {shop}
    ConfigSections = {"anomaly", "fees", "expiry"}
    SectionContents = {"ok", "other", "bad"}
    InvalidContents = {"bad"}
    BuiltIn = "ok"
    MaxConfigVersion = 2
    NetworkIds = {0, 1, 2}
    NetworkRecords <- MCNetworkRecords
    NetImplementations = {"i1"}
    NetVersions = {1, 2}
    MaxNetworkSets = 2
    Sources = {"c1", "c2"}
    AuditActions = {"act"}
    MaxSigned = 3
    Policies <- MCPolicies
    TierLists <- MCTierLists
    CurveRevenues = {0, 1, 2, 3}
    Scores = {0, 1, 3}
    FullBps = 10
    MaxPremiumBps = 2
    MaxScore = 2
    MaxTiers = 2
    Limited = {shop}
    LimitConfigs <- MCLimitConfigs
    MaxLimit = 3
    MaxWindow = 3
    MaxSubmissions = 5
    FeeBusinesses = {shop}
    FeeCollectors = {till, box}
    DaoContracts = {dao}
    NoDao = NoDao
    Vault <- vault
    FeeTokens = {usd, eur}
    FeePeriods = {1, 2}
    FeeConfigs <- MCFeeConfigs
    Purse = 3
    FeeTiers = {0, 1}
    MaxTier = 1
    Discounts = {50}
    BracketLists <- MCBracketLists
    FullScale = 100
    FeeTimelock = 1
    BucketWindow = 1
    FlatEpochs = {0, 1, 2}
    MaxHistory = 2
    MaxRangeFees = 1
    StakingContracts = {sOld, sNew}
    Slashable = {ann, shop}
    FullStake = 2
    SlashAmount = 2
    BindTimelock = 1
    SlashIds = {1, 2}
    MaxSlashDisputes = 1
    Businesses = {shop}
    Roots = {r1, r2}
    MaxPeriod = 3
    Expiries = {0, 1}
    MaxRanges = 2
    MaxNow = 1
SPECIFICATION SuiteSpec
INVARIANTS NoOverlap DelegationsBalance RootWindowsDisjoint SideRecordsAgree PricingFollowsCurve WithinRateLimits FeesAccountedFor
PROPERTIES DaoDecisionsAreVoted FinalizedEpochsFrozen ImplementsCallLog AnchoredStaysPut SlashesWereAnnounced
CHECK_DEADLOCK FALSE
