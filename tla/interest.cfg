\* Interest over two days and a fraction, fees whose rate changes, principal
\* and interest payments, a donation, and the sweeps of fees and excess.
CONSTANTS
    l1 = l1
    l2 = l2
    bo = bo
    fa = fa
    L1Tokens = 6
    L2Tokens = 5
    BorrowerTokens = 4
    WAD = 20
    BPS = 10
    SECONDS_PER_DAY = 2
    DAYS_PER_YEAR = 4
    AnnualInterestBps = 8
    Growth <- MCGrowth
    Lenders = {l1, l2}
    Borrower = bo
    FeeAuthorities = {fa}
    MaturityTimestamp = 5
    GracePeriod = 1
    MaxTotalSupply = 15
    U64Max = 20
    InitialWallet <- MCWallet
    InitialCapacity = 15
    InitialFeeRate = 5
    DepositAmounts = {5, 6}
    BorrowAmounts = {7}
    RepayAmounts = {7}
    InterestAmounts = {4}
    WithdrawRequests = {0}
    MinPayouts = {0}
    DonationAmounts = {4}
    Payers = {bo}
    Times = {3, 6}
    ClockMayRegress = FALSE
    FeeRates = {10}
    WhitelistStatuses = {}
    Capacities = {}
    PauseValues = {}
    BlockedSets = {}
SPECIFICATION Spec
CHECK_DEADLOCK FALSE
INVARIANTS
    DebtMirrorsMarket
PROPERTIES
    OnlySurplusLeaves
    KeepsClaims
