------------------------- MODULE ProtocolProperties -------------------------
(***************************************************************************)
(* What the protocol guarantees whatever its administrators, borrowers and *)
(* payers do, and in whatever order they do it.                            *)
(***************************************************************************)
EXTENDS Protocol, Totals

Terms == [annual_interest_bps : Nat, maturity_timestamp : Nat, max_total_supply : Nat,
          opened_at : Nat]

OutsideTypeOK ==
    /\ now \in Nat /\ upgrade_authority \in Signers \cup {Nobody}
    /\ blacklist \in [Signers -> AccountKinds]

ConfigTypeOK ==
    /\ is_initialized \in BOOLEAN /\ fee_rate_bps \in 0 .. MAX_FEE_RATE_BPS
    /\ {admin, fee_authority, whitelist_manager} \subseteq Addresses
    /\ paused \in BOOLEAN /\ fail_closed \in BOOLEAN

EntryTypeOK ==
    /\ entries \in SUBSET Borrowers
    /\ is_whitelisted \in [Borrowers -> Nat]
    /\ max_borrow_capacity \in [Borrowers -> Nat]

LoanTypeOK ==
    /\ current_borrowed \in [Borrowers -> Nat]
    /\ terms \in [MarketKeys -> Terms \cup {NoTerms}]
    /\ last_accrual_timestamp \in [MarketKeys -> Nat]
    /\ total_borrowed \in [MarketKeys -> 0 .. U64Max]
    /\ total_repaid \in [MarketKeys -> 0 .. U64Max]
    /\ total_interest_repaid \in [MarketKeys -> 0 .. U64Max]

\* Every field of the configuration, the whitelist entries and the markets
\* stays in the range of its type (all instructions).
ProtocolTypeOK == OutsideTypeOK /\ ConfigTypeOK /\ EntryTypeOK /\ LoanTypeOK

\* Once the protocol is initialised somebody can always act in each role: no
\* hand-over, single-step as it is, leaves a role with the zero address.
RolesAreHeld ==
    is_initialized => {admin, fee_authority, whitelist_manager} \subseteq Signers

\* What b owes, market by market.
DebtsOf(b) == [nonce \in Nonces |-> Debt(<<b, nonce>>)]

\* The counter on a whitelist entry, moved by draws and repayments of all the
\* borrower's markets, is the sum of what the borrower owes in each of them.
DebtsAddUp ==
    \A b \in Borrowers :
        /\ \A nonce \in Nonces : Debt(<<b, nonce>>) >= 0
        /\ current_borrowed[b] = Total(DebtsOf(b))

\* A debt can be paid back at any time the protocol runs and the clock has not
\* gone back, by a borrower who is struck off, blacklisted or past maturity
\* too, and whatever happened in the borrower's other markets.
DebtCanBeRepaid ==
    \A b \in Borrowers, nonce \in Nonces :
        LET k == <<b, nonce>>
        IN  (/\ Exists(k) /\ Debt(k) > 0 /\ ~paused
             /\ EffectiveNow(k) >= last_accrual_timestamp[k]
             /\ total_repaid[k] < U64Max)
            => ENABLED Repay(b, nonce, 1)

-----------------------------------------------------------------------------
\* What a borrower who opens a market or draws gets out of it.
Gains(b) ==
    \E k \in MarketsOf(b) :
        total_borrowed'[k] > total_borrowed[k] \/ terms'[k] # terms[k]

\* In fail-closed mode nobody without a clean account of the blacklist program
\* opens a market or draws; in either mode nobody with a listed or unreadable
\* account does.
BlacklistHolds ==
    [][\A b \in Borrowers : Gains(b) =>
         /\ blacklist[b] \in {"absent", "clear"}
         /\ fail_closed => blacklist[b] = "clear"]_vars

\* A market is opened once: its terms are fixed for good and none of its
\* counters starts again, whoever reuses its nonce.
MarketsAreForever ==
    [][\A k \in MarketKeys : Exists(k) =>
         /\ terms'[k] = terms[k]
         /\ total_borrowed'[k] >= total_borrowed[k]
         /\ total_repaid'[k] >= total_repaid[k]
         /\ total_interest_repaid'[k] >= total_interest_repaid[k]]_vars

RunsWithin(term, accrued) ==
    /\ term.opened_at + MIN_MATURITY_DELTA < term.maturity_timestamp
    /\ term.maturity_timestamp <= term.opened_at + MAX_MATURITY_DELTA
    /\ term.maturity_timestamp + SETTLEMENT_GRACE_PERIOD <= I64Max
    /\ term.opened_at <= accrued /\ accrued <= term.maturity_timestamp

\* A market runs for more than the shortest and at most the longest term from the
\* moment it was opened, the end of its grace period is a time of the clock, and its
\* interest is accrued up to a moment of that term, whatever the clock has done since:
\* so the growth of its debt is bounded (create_market, accrue_interest).
TermsAreBounded ==
    \A k \in MarketKeys : Exists(k) => RunsWithin(terms[k], last_accrual_timestamp[k])

\* The debts per market in place of the counters.
Credit == INSTANCE CreditLines WITH
    status   <- is_whitelisted,
    capacity <- max_borrow_capacity,
    debt     <- [k \in MarketKeys |-> Debt(k)]

\* The markets of a borrower, opened, drawn and repaid in every order while
\* the manager changes the entry, together keep to one credit line.
KeepsCreditLines == Credit!Lines
=============================================================================
