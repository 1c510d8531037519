-------------------------- MODULE MarketRefinement --------------------------
(***************************************************************************)
(* What a market implements: the claims of its lenders and the credit line *)
(* of its borrower.                                                        *)
(***************************************************************************)
EXTENDS MarketProperties

\* The wallet of an account in two roles would show the payments of both.
ASSUME SeparateAccounts == Lenders \cap ({Borrower} \cup FeeAuthorities) = {}

\* Balances are valued at the scale the next accrual will reach.
Value(l) == Normalized(scaled_balance[l], AccruedScale)

Lender == INSTANCE LenderClaims WITH
    factor   <- settlement_factor_wad,
    invested <- [l \in Lenders |-> Value(l)],
    due      <- haircut_owed,
    funds    <- [l \in Lenders |-> wallet[l]]

\* Deposits, exits, claims, re-settlements and sweeps in every order keep what
\* LenderClaims promises to each lender: an exit, partial or forced, settles an
\* older haircut and records a new one without a gain or a loss.
KeepsClaims == Lender!Claims

Credit == INSTANCE CreditLines WITH
    Borrowers <- {Borrower},
    Nonces    <- {0},
    status    <- [b \in {Borrower} |-> is_whitelisted],
    capacity  <- [b \in {Borrower} |-> max_borrow_capacity],
    debt      <- [k \in {Borrower} \X {0} |-> total_borrowed - PrincipalRepaid]

\* The counter on the whitelist entry and the three counters of the market keep
\* to the borrower's credit line, whatever the manager stores in between.
KeepsCreditLine == Credit!Lines
=============================================================================
