\* Lenders who may never come, leave in full or in parts, one of them blocked, a
\* borrower who draws all there is and may be blocked, a market that may be paused,
\* and payments before and after the settlement.
CONSTANTS
    l1 = l1
    l2 = l2
    bo = bo
    fa = fa
    L1Tokens = 4
    L2Tokens = 4
    BorrowerTokens = 4
    WAD = 16
    BPS = 10
    SECONDS_PER_DAY = 2
    DAYS_PER_YEAR = 4
    AnnualInterestBps = 10
    Growth <- MCGrowth
    Lenders = {l1, l2}
    Borrower = bo
    FeeAuthorities = {fa}
    MaturityTimestamp = 1
    GracePeriod = 1
    MaxTotalSupply = 12
    U64Max = 20
    InitialWallet <- MCWallet
    InitialCapacity = 12
    InitialFeeRate = 10
    DepositAmounts = {4}
    BorrowAmounts = {8}
    RepayAmounts = {5}
    InterestAmounts = {4}
    WithdrawRequests = {0, 2}
    MinPayouts = {0}
    DonationAmounts = {}
    Payers = {bo}
    Times = {1, 2}
    ClockMayRegress = FALSE
    FeeRates = {}
    WhitelistStatuses = {}
    Capacities = {}
    PauseValues = {TRUE, FALSE}
    BlockedSets = {{l1}, {l1, bo}}
SPECIFICATION FairSpec
CHECK_DEADLOCK FALSE
INVARIANTS
    FundedClearingNeverStalls
PROPERTIES
    EveryoneLeaves
    OnlyUnitsKeepAnyoneIn
    FundedHaircutsArePaid
    FundedVaultEmpties
