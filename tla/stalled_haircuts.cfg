\* Two small haircuts, and a borrower who has repaid everything.
CONSTANTS
    l1 = l1
    l2 = l2
    bo = bo
    fa = fa
    L1Tokens = 4
    L2Tokens = 4
    BorrowerTokens = 0
    WAD = 16
    BPS = 10
    SECONDS_PER_DAY = 2
    DAYS_PER_YEAR = 4
    AnnualInterestBps = 0
    Growth <- MCGrowth
    Lenders = {l1, l2}
    Borrower = bo
    FeeAuthorities = {fa}
    MaturityTimestamp = 1
    GracePeriod = 1
    MaxTotalSupply = 12
    U64Max = 20
    InitialWallet <- MCWallet
    InitialCapacity = 12
    InitialFeeRate = 0
    DepositAmounts = {1, 3}
    BorrowAmounts = {4}
    RepayAmounts = {1}
    InterestAmounts = {}
    WithdrawRequests = {0}
    MinPayouts = {0}
    DonationAmounts = {}
    Payers = {bo}
    Times = {1, 2}
    ClockMayRegress = FALSE
    FeeRates = {}
    WhitelistStatuses = {}
    Capacities = {}
    PauseValues = {}
    BlockedSets = {}
SPECIFICATION FairSpec
CHECK_DEADLOCK FALSE
PROPERTIES
    CoveredHaircutsArePaid
