\* The whitelist manager stores a status byte for a borrower in debt.
CONSTANTS
    l1 = l1
    l2 = l2
    bo = bo
    fa = fa
    L1Tokens = 4
    L2Tokens = 2
    BorrowerTokens = 0
    WAD = 12
    BPS = 10
    SECONDS_PER_DAY = 2
    DAYS_PER_YEAR = 4
    AnnualInterestBps = 8
    Growth <- MCGrowth
    Lenders = {l1, l2}
    Borrower = bo
    FeeAuthorities = {fa}
    MaturityTimestamp = 2
    GracePeriod = 1
    MaxTotalSupply = 6
    U64Max = 8
    InitialWallet <- MCWallet
    InitialCapacity = 4
    InitialFeeRate = 0
    DepositAmounts = {2, 4}
    BorrowAmounts = {2, 4}
    RepayAmounts = {2}
    InterestAmounts = {}
    WithdrawRequests = {0}
    MinPayouts = {0, 2}
    DonationAmounts = {}
    Payers = {bo}
    Times = {0, 1, 2, 3}
    ClockMayRegress = FALSE
    FeeRates = {}
    WhitelistStatuses = {0, 1, 2}
    Capacities = {0, 4}
    PauseValues = {}
    BlockedSets = {}
SPECIFICATION Spec
CHECK_DEADLOCK FALSE
PROPERTIES
    DebtorsStayWhitelisted
