\* Two lenders leave in three parts each while the factor improves: what both
\* recover on the second exit is rounded up.
CONSTANTS
    l1 = l1
    l2 = l2
    bo = bo
    fa = fa
    L1Tokens = 6
    L2Tokens = 6
    BorrowerTokens = 0
    WAD = 16
    BPS = 10
    SECONDS_PER_DAY = 2
    DAYS_PER_YEAR = 4
    AnnualInterestBps = 0
    Growth <- MCGrowth
    Lenders = {l1, l2}
    Borrower = bo
    FeeAuthorities = {fa}
    MaturityTimestamp = 1
    GracePeriod = 1
    MaxTotalSupply = 12
    U64Max = 14
    InitialWallet <- MCWallet
    InitialCapacity = 12
    InitialFeeRate = 0
    DepositAmounts = {6}
    BorrowAmounts = {6}
    RepayAmounts = {1}
    InterestAmounts = {}
    WithdrawRequests = {2}
    MinPayouts = {0}
    DonationAmounts = {}
    Payers = {bo}
    Times = {1, 2}
    ClockMayRegress = FALSE
    FeeRates = {}
    WhitelistStatuses = {}
    Capacities = {}
    PauseValues = {}
    BlockedSets = {}
SPECIFICATION Spec
CHECK_DEADLOCK FALSE
INVARIANTS
    RemainingLendersCovered
