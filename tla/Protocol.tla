------------------------------ MODULE Protocol ------------------------------
(***************************************************************************)
(* The protocol around the markets: how it is initialised, who administers *)
(* it, which borrowers are admitted, and the markets they open, draw from  *)
(* and repay.  All markets share one configuration, and all markets of a   *)
(* borrower share one whitelist entry.                                     *)
(*                                                                         *)
(* Each action takes the signer its instruction asks for.  What lenders do *)
(* inside a market, its vault and its interest are in Market; a draw here  *)
(* finds enough in the vault.                                              *)
(***************************************************************************)
EXTENDS Integers, FiniteSets

CONSTANTS
    Addresses, ZERO_ADDRESS, Borrowers, Nonces,
    Nobody,                        \* the authority of an immutable program
    NoTerms,                       \* the terms of a market that does not exist
    MAX_FEE_RATE_BPS, MAX_ANNUAL_INTEREST_BPS,
    MIN_MATURITY_DELTA, MAX_MATURITY_DELTA, SETTLEMENT_GRACE_PERIOD,
    U64Max, I64Max,
    \* What may be asked for and what the environment may do (small sets).
    FeeRates, AnnualRates, Maturities, Supplies, StatusBytes, Capacities,
    Amounts, Times, PauseValues, ModeValues, AccountStates, RoleHolders,
    Deployers

\* Nobody holds the key of the zero address.
Signers == Addresses \ {ZERO_ADDRESS}

MarketKeys == Borrowers \X Nonces

MarketsOf(b) == {b} \X Nonces

ASSUME ProtocolAssumption ==
    /\ IsFiniteSet(Borrowers) /\ IsFiniteSet(Nonces)
    /\ ZERO_ADDRESS \in Addresses /\ Borrowers \subseteq Signers
    /\ RoleHolders \subseteq Addresses /\ Nobody \notin Addresses
    /\ Deployers \subseteq Signers \cup {Nobody}
    /\ {U64Max, I64Max, MAX_FEE_RATE_BPS} \subseteq Nat
    /\ {MIN_MATURITY_DELTA, MAX_MATURITY_DELTA} \subseteq Nat
    /\ AnnualRates \cup Maturities \cup Supplies \subseteq Nat
    /\ Amounts \subseteq Nat \ {0}
    /\ StatusBytes \cup Capacities \cup FeeRates \cup Times \subseteq Nat
    /\ PauseValues \cup ModeValues \subseteq BOOLEAN

\* The account the blacklist program keeps for an address: none, without data,
\* or with a status byte: 0, 1 or any other.
AccountKinds == {"absent", "empty", "clear", "listed", "other"}

ASSUME BlacklistAssumption == AccountStates \subseteq AccountKinds

VARIABLES
    now,
    upgrade_authority,             \* of the program, kept by the loader
    is_initialized, admin, fee_authority, whitelist_manager, fee_rate_bps,
    paused, fail_closed,           \* ProtocolConfig
    blacklist,                     \* accounts of the blacklist program
    entries,                       \* borrowers whose BorrowerWhitelist exists
    is_whitelisted, max_borrow_capacity, current_borrowed,
    terms, last_accrual_timestamp, \* Market, per borrower and nonce
    total_borrowed, total_repaid, total_interest_repaid

roleVars   == <<is_initialized, admin, fee_authority, whitelist_manager, fee_rate_bps>>
switchVars == <<paused, fail_closed>>
outside    == <<now, upgrade_authority, blacklist>>
entryVars  == <<entries, is_whitelisted, max_borrow_capacity>>
countVars  == <<total_borrowed, total_repaid, total_interest_repaid>>
loanVars   == <<terms, last_accrual_timestamp, countVars, current_borrowed>>
vars       == <<outside, roleVars, switchVars, entryVars, loanVars>>

\* Accounts that do not exist hold zeros.
Init ==
    /\ now = 0
    /\ upgrade_authority \in Deployers
    /\ is_initialized = FALSE /\ fee_rate_bps = 0
    /\ admin = ZERO_ADDRESS /\ fee_authority = ZERO_ADDRESS
    /\ whitelist_manager = ZERO_ADDRESS
    /\ paused = FALSE /\ fail_closed = FALSE
    /\ blacklist = [a \in Signers |-> "absent"]
    /\ entries = {}
    /\ is_whitelisted = [b \in Borrowers |-> 0]
    /\ max_borrow_capacity = [b \in Borrowers |-> 0]
    /\ current_borrowed = [b \in Borrowers |-> 0]
    /\ terms = [k \in MarketKeys |-> NoTerms]
    /\ last_accrual_timestamp = [k \in MarketKeys |-> 0]
    /\ total_borrowed = [k \in MarketKeys |-> 0]
    /\ total_repaid = [k \in MarketKeys |-> 0]
    /\ total_interest_repaid = [k \in MarketKeys |-> 0]

-----------------------------------------------------------------------------
(* Administration.                                                         *)

InitializeProtocol(signer, rate, authority, manager) ==
    /\ signer = upgrade_authority
    /\ rate <= MAX_FEE_RATE_BPS
    /\ authority # ZERO_ADDRESS /\ manager # ZERO_ADDRESS
    /\ ~is_initialized
    /\ is_initialized' = TRUE
    /\ admin' = signer
    /\ fee_authority' = authority /\ whitelist_manager' = manager
    /\ fee_rate_bps' = rate
    /\ UNCHANGED <<outside, switchVars, entryVars, loanVars>>

\* The configuration exists and its admin signs.
ByAdmin(signer) == is_initialized /\ signer = admin

SetFeeConfig(signer, rate, authority) ==
    /\ ByAdmin(signer)
    /\ rate <= MAX_FEE_RATE_BPS
    /\ authority # ZERO_ADDRESS
    /\ fee_rate_bps' = rate /\ fee_authority' = authority
    /\ UNCHANGED <<outside, is_initialized, admin, whitelist_manager,
                   switchVars, entryVars, loanVars>>

\* mutated form of SetAdmin: the new admin is not looked at
SetAdminUnchecked(signer, new_admin) ==
    /\ ByAdmin(signer)
    /\ admin' = new_admin
    /\ UNCHANGED <<outside, is_initialized, fee_authority, whitelist_manager,
                   fee_rate_bps, switchVars, entryVars, loanVars>>

\* The new admin does not sign.
SetAdmin(signer, new_admin) ==
    /\ ByAdmin(signer)
    /\ new_admin # ZERO_ADDRESS
    /\ admin' = new_admin
    /\ UNCHANGED <<outside, is_initialized, fee_authority, whitelist_manager,
                   fee_rate_bps, switchVars, entryVars, loanVars>>

SetWhitelistManager(signer, new_manager) ==
    /\ ByAdmin(signer)
    /\ new_manager # ZERO_ADDRESS
    /\ whitelist_manager' = new_manager
    /\ UNCHANGED <<outside, is_initialized, admin, fee_authority,
                   fee_rate_bps, switchVars, entryVars, loanVars>>

SetPause(signer, value) ==
    /\ ByAdmin(signer)
    /\ paused' = value
    /\ UNCHANGED <<outside, roleVars, fail_closed, entryVars, loanVars>>

SetBlacklistMode(signer, value) ==
    /\ ByAdmin(signer)
    /\ fail_closed' = value
    /\ UNCHANGED <<outside, roleVars, paused, entryVars, loanVars>>

-----------------------------------------------------------------------------
(* Admission of borrowers.                                                 *)

\* A status byte 0 is refused for a borrower in debt; other bytes are not.
MayStore(b, status) == status = 0 => current_borrowed[b] = 0

\* The first call for a borrower creates the entry, and must whitelist.
SetBorrowerWhitelist(signer, b, status, capacity) ==
    /\ is_initialized /\ signer = whitelist_manager
    /\ status = 1 => capacity > 0
    /\ IF b \in entries THEN MayStore(b, status) ELSE status = 1
    /\ entries' = entries \cup {b}
    /\ is_whitelisted' = [is_whitelisted EXCEPT ![b] = status]
    /\ max_borrow_capacity' = [max_borrow_capacity EXCEPT ![b] = capacity]
    /\ UNCHANGED <<outside, roleVars, switchVars, loanVars>>

\* mutated form of PassesBlacklist: a missing account always passes
PassesUnlessListed(a) == blacklist[a] \in {"absent", "clear"}

\* check_blacklist: an account that says 0, or a missing one in fail-open mode.
PassesBlacklist(a) ==
    \/ blacklist[a] = "clear"
    \/ blacklist[a] = "absent" /\ ~fail_closed

Admitted(b) ==
    /\ ~paused
    /\ b \in entries /\ is_whitelisted[b] = 1
    /\ PassesBlacklist(b)

-----------------------------------------------------------------------------
(* Markets.                                                                *)

Exists(key) == terms[key] # NoTerms

\* mutated form of MaturityInRange: the shortest term is not asked for
MaturityAhead(maturity) ==
    /\ now + MAX_MATURITY_DELTA <= I64Max
    /\ maturity > now
    /\ maturity <= now + MAX_MATURITY_DELTA
    /\ maturity + SETTLEMENT_GRACE_PERIOD <= I64Max

\* SR-020, SR-085, H-13.
MaturityInRange(maturity) ==
    /\ now + MAX_MATURITY_DELTA <= I64Max
    /\ maturity > now + MIN_MATURITY_DELTA
    /\ maturity <= now + MAX_MATURITY_DELTA
    /\ maturity + SETTLEMENT_GRACE_PERIOD <= I64Max

\* mutated form of Unused: an account with data is overwritten
AnyKey(key) == TRUE

Unused(key) == ~Exists(key)

\* A new market owes nothing; its interest runs from now.  opened_at is a history: the
\* program keeps the time only as the first last_accrual_timestamp.
CreateMarket(b, nonce, rate, maturity, supply) ==
    LET key == <<b, nonce>>
    IN  /\ is_initialized
        /\ Admitted(b)
        /\ rate <= MAX_ANNUAL_INTEREST_BPS
        /\ MaturityInRange(maturity)
        /\ supply > 0
        /\ Unused(key)
        /\ terms' = [terms EXCEPT ![key] =
             [annual_interest_bps |-> rate, maturity_timestamp |-> maturity,
              max_total_supply |-> supply, opened_at |-> now]]
        /\ last_accrual_timestamp' = [last_accrual_timestamp EXCEPT ![key] = now]
        /\ total_borrowed' = [total_borrowed EXCEPT ![key] = 0]
        /\ total_repaid' = [total_repaid EXCEPT ![key] = 0]
        /\ total_interest_repaid' = [total_interest_repaid EXCEPT ![key] = 0]
        /\ UNCHANGED <<outside, roleVars, switchVars, entryVars, current_borrowed>>

EffectiveNow(key) ==
    IF now <= terms[key].maturity_timestamp THEN now
    ELSE terms[key].maturity_timestamp

\* accrue_interest: refuses a clock that went back (its effect is in Market).
Accrue(key) ==
    /\ EffectiveNow(key) >= last_accrual_timestamp[key]
    /\ last_accrual_timestamp' =
         [last_accrual_timestamp EXCEPT ![key] = EffectiveNow(key)]

\* mutated form of FitsCapacity: each market has the whole capacity
FitsPerMarket(b, nonce, amount) ==
    total_borrowed[<<b, nonce>>] + amount <= max_borrow_capacity[b]

FitsCapacity(b, nonce, amount) ==
    current_borrowed[b] + amount <= max_borrow_capacity[b]

Borrow(b, nonce, amount) ==
    LET key == <<b, nonce>>
    IN  /\ Exists(key)
        /\ Admitted(b)
        /\ now < terms[key].maturity_timestamp
        /\ Accrue(key)
        /\ FitsCapacity(b, nonce, amount)
        /\ total_borrowed[key] + amount <= U64Max
        /\ total_borrowed' = [total_borrowed EXCEPT ![key] = @ + amount]
        /\ current_borrowed' = [current_borrowed EXCEPT ![b] = @ + amount]
        /\ UNCHANGED <<outside, roleVars, switchVars, entryVars, terms,
                       total_repaid, total_interest_repaid>>

PrincipalRepaid(key) == total_repaid[key] - total_interest_repaid[key]

\* What the borrower of a market has drawn there and not paid back.
Debt(key) == total_borrowed[key] - PrincipalRepaid(key)

\* mutated form of CountPayment: the counter may pass its width
CountPaymentUnchecked(key, amount) ==
    /\ Exists(key)
    /\ ~paused
    /\ Accrue(key)
    /\ total_repaid' = [total_repaid EXCEPT ![key] = @ + amount]
    /\ UNCHANGED <<outside, roleVars, switchVars, entryVars, terms, total_borrowed>>

\* Anyone pays; neither the whitelist nor the blacklist is asked.
CountPayment(key, amount) ==
    /\ Exists(key)
    /\ ~paused
    /\ Accrue(key)
    /\ total_repaid[key] + amount <= U64Max
    /\ total_repaid' = [total_repaid EXCEPT ![key] = @ + amount]
    /\ UNCHANGED <<outside, roleVars, switchVars, entryVars, terms, total_borrowed>>

\* mutated form of Repay: a borrower struck off may not pay
RepayWhitelisted(b, nonce, amount) ==
    /\ is_whitelisted[b] = 1
    /\ amount <= Debt(<<b, nonce>>)
    /\ amount <= current_borrowed[b]
    /\ CountPayment(<<b, nonce>>, amount)
    /\ current_borrowed' = [current_borrowed EXCEPT ![b] = @ - amount]
    /\ UNCHANGED total_interest_repaid

Repay(b, nonce, amount) ==
    /\ amount <= Debt(<<b, nonce>>)
    /\ amount <= current_borrowed[b]
    /\ CountPayment(<<b, nonce>>, amount)
    /\ current_borrowed' = [current_borrowed EXCEPT ![b] = @ - amount]
    /\ UNCHANGED total_interest_repaid

\* mutated form of RepayInterest: interest frees capacity like principal
RepayInterestAsPrincipal(b, nonce, amount) ==
    /\ CountPayment(<<b, nonce>>, amount)
    /\ amount <= current_borrowed[b]
    /\ current_borrowed' = [current_borrowed EXCEPT ![b] = @ - amount]
    /\ total_interest_repaid' = [total_interest_repaid EXCEPT ![<<b, nonce>>] = @ + amount]

RepayInterest(b, nonce, amount) ==
    /\ CountPayment(<<b, nonce>>, amount)
    /\ total_interest_repaid' = [total_interest_repaid EXCEPT ![<<b, nonce>>] = @ + amount]
    /\ UNCHANGED current_borrowed

-----------------------------------------------------------------------------
(* The environment: the loader, the blacklist program and the clock, which *)
(* may go back.                                                            *)

SetUpgradeAuthority(authority) ==
    /\ upgrade_authority # Nobody
    /\ upgrade_authority' = authority
    /\ UNCHANGED <<now, blacklist, roleVars, switchVars, entryVars, loanVars>>

SetBlacklistAccount(a, kind) ==
    /\ blacklist' = [blacklist EXCEPT ![a] = kind]
    /\ UNCHANGED <<now, upgrade_authority, roleVars, switchVars, entryVars, loanVars>>

Tick(time) ==
    /\ now' = time
    /\ UNCHANGED <<upgrade_authority, blacklist, roleVars, switchVars, entryVars, loanVars>>

-----------------------------------------------------------------------------
AdminStep(signer) ==
    \/ \E rate \in FeeRates, authority, manager \in RoleHolders :
         InitializeProtocol(signer, rate, authority, manager)
    \/ \E rate \in FeeRates, authority \in RoleHolders :
         SetFeeConfig(signer, rate, authority)
    \/ \E new \in RoleHolders :
         SetAdmin(signer, new) \/ SetWhitelistManager(signer, new)
    \/ \E value \in PauseValues : SetPause(signer, value)
    \/ \E value \in ModeValues : SetBlacklistMode(signer, value)
    \/ \E b \in Borrowers, status \in StatusBytes, capacity \in Capacities :
         SetBorrowerWhitelist(signer, b, status, capacity)

LoanStep(b, nonce) ==
    \/ \E rate \in AnnualRates, maturity \in Maturities, supply \in Supplies :
         CreateMarket(b, nonce, rate, maturity, supply)
    \/ \E amount \in Amounts :
         \/ Borrow(b, nonce, amount)
         \/ Repay(b, nonce, amount)
         \/ RepayInterest(b, nonce, amount)

EnvironmentStep ==
    \/ \E authority \in Deployers : SetUpgradeAuthority(authority)
    \/ \E b \in Borrowers, kind \in AccountStates : SetBlacklistAccount(b, kind)
    \/ \E time \in Times : Tick(time)

Next ==
    \/ \E signer \in Signers : AdminStep(signer)
    \/ \E b \in Borrowers, nonce \in Nonces : LoanStep(b, nonce)
    \/ EnvironmentStep

Spec == Init /\ [][Next]_vars
=============================================================================
