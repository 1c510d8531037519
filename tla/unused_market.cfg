\* Interest is paid into a market nobody deposited in.
CONSTANTS
    l1 = l1
    l2 = l2
    bo = bo
    fa = fa
    L1Tokens = 4
    L2Tokens = 4
    BorrowerTokens = 4
    WAD = 16
    BPS = 10
    SECONDS_PER_DAY = 2
    DAYS_PER_YEAR = 4
    AnnualInterestBps = 10
    Growth <- MCGrowth
    Lenders = {l1, l2}
    Borrower = bo
    FeeAuthorities = {fa}
    MaturityTimestamp = 1
    GracePeriod = 1
    MaxTotalSupply = 12
    U64Max = 20
    InitialWallet <- MCWallet
    InitialCapacity = 12
    InitialFeeRate = 10
    DepositAmounts = {}
    BorrowAmounts = {5, 8}
    RepayAmounts = {1, 5}
    InterestAmounts = {3}
    WithdrawRequests = {0}
    MinPayouts = {0}
    DonationAmounts = {}
    Payers = {bo}
    Times = {1, 2}
    ClockMayRegress = FALSE
    FeeRates = {}
    WhitelistStatuses = {}
    Capacities = {}
    PauseValues = {}
    BlockedSets = {}
SPECIFICATION FairSpec
CHECK_DEADLOCK FALSE
PROPERTIES
    OverpaymentReturns
