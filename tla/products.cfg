\* One business, two months, two tokens, two lenders.
CONSTANTS
    boss = boss
    shop = shop
    lena = lena
    luis = luis
    self = self
    usd = usd
    eur = eur
    Accounts <- MCAccounts
    Admins <- MCAdmins
    Businesses <- MCBusinesses
    Holders <- MCHolders
    Self <- self
    Nobody = Nobody
    Absent = Absent
    Oracle = Oracle
    OtherContract = OtherContract
    Tokens = {usd, eur}
    Months = {1, 2}
    Revenues = {0, 3}
    AttestedRevenues = {3}
    Fees = {1}
    Funds = 4
    BasisPoints = 10000
    NonceMax = 6
    MaxNow = 4
    Schedules <- MCSchedules
    StreamAmounts = {2}
    StreamKeys <- OneStreamKey
    MaxStreams = 2
    AgreementTerms <- MCAgreementTerms
    MaxPeriods = 2
    MaxSettlementTime = 1
    MaxAgreements = 2
    StakeholderLists <- MCStakeholderLists
    MaxStakeholders = 50
    BondTerms <- MCBondTerms
    MaxBonds = 1
SPECIFICATION ProductsSpec
INVARIANTS StreamsFunded PausedTimeNeverVests PaidAsRecorded BondBooksBalance
PROPERTIES PaidPeriodsStayPaid RedemptionsAreDue VestedIsPaid
CHECK_DEADLOCK FALSE
