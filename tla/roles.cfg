\* Roles change hands, the protocol is paused and its blacklist mode changes, the
\* blacklist program lists and delists, the clock goes on and back, while two
\* borrowers open markets and draw.
CONSTANTS
    zero = zero
    a1 = a1
    a2 = a2
    b1 = b1
    b2 = b2
    none = none
    noterms = noterms
    Addresses = {zero, a1, a2, b1, b2}
    ZERO_ADDRESS = zero
    Borrowers = {b1, b2}
    Nonces = {0}
    Nobody = none
    NoTerms = noterms
    MAX_FEE_RATE_BPS = 1
    MAX_ANNUAL_INTEREST_BPS = 1
    MIN_MATURITY_DELTA = 1
    MAX_MATURITY_DELTA = 3
    SETTLEMENT_GRACE_PERIOD = 1
    U64Max = 1
    I64Max = 6
    FeeRates = {1, 2}
    AnnualRates = {1, 2}
    Maturities = {2, 4, 6}
    Supplies = {0, 1}
    StatusBytes = {1}
    Capacities = {1}
    Amounts = {1}
    Times = {0, 2, 3}
    PauseValues = {TRUE, FALSE}
    ModeValues = {TRUE, FALSE}
    AccountStates = {"absent", "empty", "clear", "listed", "other"}
    RoleHolders = {zero, a2}
    Deployers = {a1, none}
SPECIFICATION Spec
CHECK_DEADLOCK FALSE
INVARIANTS
    RolesAreHeld
    TermsAreBounded
PROPERTIES
    BlacklistHolds
    MarketsAreForever
