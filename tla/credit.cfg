\* A borrower with two markets, and a manager who changes capacities and
\* status bytes: draws and repayments in every order.
CONSTANTS
    zero = zero
    a1 = a1
    a2 = a2
    b1 = b1
    b2 = b2
    none = none
    noterms = noterms
    Addresses = {zero, a1, b1}
    ZERO_ADDRESS = zero
    Borrowers = {b1}
    Nonces = {0, 1}
    Nobody = none
    NoTerms = noterms
    MAX_FEE_RATE_BPS = 1
    MAX_ANNUAL_INTEREST_BPS = 1
    MIN_MATURITY_DELTA = 0
    MAX_MATURITY_DELTA = 2
    SETTLEMENT_GRACE_PERIOD = 1
    U64Max = 4
    I64Max = 5
    FeeRates = {0}
    AnnualRates = {1}
    Maturities = {2}
    Supplies = {4}
    StatusBytes = {0, 1, 2}
    Capacities = {0, 2, 3}
    Amounts = {1, 2}
    Times = {0, 2}
    PauseValues = {}
    ModeValues = {}
    AccountStates = {}
    RoleHolders = {a1}
    Deployers = {a1}
SPECIFICATION Spec
CHECK_DEADLOCK FALSE
INVARIANTS
    ProtocolTypeOK
    DebtsAddUp
    DebtCanBeRepaid
PROPERTIES
    KeepsCreditLines
