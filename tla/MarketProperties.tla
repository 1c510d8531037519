-------------------------- MODULE MarketProperties --------------------------
(***************************************************************************)
(* What a correct market guarantees: its running totals agree with the     *)
(* positions, its settlement factor and scale only move the right way, its *)
(* vault covers the lenders, and only surplus leaves it.                   *)
(***************************************************************************)
EXTENDS Market, Totals

Settled == settlement_factor_wad # 0

TotalNormalized == Normalized(scaled_total_supply, scale_factor)

ConfigTypeOK ==
    /\ now \in Nat /\ paused \in BOOLEAN /\ fee_rate_bps \in Nat
    /\ fee_authority \in FeeAuthorities /\ blocked \in SUBSET Accounts

AccrualTypeOK ==
    /\ scale_factor \in Nat /\ scale_factor >= WAD
    /\ accrued_protocol_fees \in 0 .. U64Max
    /\ last_accrual_timestamp \in 0 .. MaturityTimestamp

SupplyTypeOK ==
    /\ scaled_total_supply \in Nat /\ total_deposited \in 0 .. MaxTotalSupply
    /\ opened \in SUBSET Lenders /\ scaled_balance \in [Lenders -> Nat]

DebtTypeOK ==
    /\ total_borrowed \in Nat /\ total_repaid \in Nat
    /\ total_interest_repaid \in Nat /\ is_whitelisted \in Nat
    /\ max_borrow_capacity \in Nat /\ current_borrowed \in Nat

HaircutTypeOK ==
    /\ settlement_factor_wad \in 0 .. WAD
    /\ haircut_accumulator \in 0 .. U64Max
    /\ claim_weight_sum \in Nat /\ claim_offset_sum \in Nat
    /\ haircut_owed \in [Lenders -> 0 .. U64Max]
    /\ withdrawal_sf \in [Lenders -> 0 .. WAD]

TokenTypeOK == vault \in Nat /\ wallet \in [Accounts -> Nat]

\* Every account, counter and configuration field stays in the range of its
\* type, the factor in 0..WAD, the scale at or above WAD, the deposits under
\* their cap (all instructions).
TypeOK ==
    /\ ConfigTypeOK /\ AccrualTypeOK /\ SupplyTypeOK
    /\ DebtTypeOK /\ HaircutTypeOK /\ TokenTypeOK

-----------------------------------------------------------------------------
(* The books.                                                              *)

\* scaled_total_supply is the sum of the positions' scaled balances, whatever
\* order lenders deposit, withdraw and are closed out in.
SupplyIsSumOfBalances == scaled_total_supply = Total(scaled_balance)

\* haircut_accumulator, updated with saturating arithmetic on every exit and
\* claim, never drifts from the sum of haircut_owed (state/market.rs says so).
AccumulatorIsSumOfOwed == haircut_accumulator = Total(haircut_owed)

\* HaircutState holds exactly the bounds of the debts now on the positions:
\* no exit or claim leaves a stale contribution behind or removes another's.
HaircutStateIsSumOfContributions ==
    /\ claim_weight_sum =
         Total([l \in Lenders |-> Weight(haircut_owed[l], withdrawal_sf[l])])
    /\ claim_offset_sum =
         Total([l \in Lenders |-> Offset(haircut_owed[l], withdrawal_sf[l])])

\* A lender with a haircut is anchored at a factor the market has had: not
\* ahead of the current one, and never at WAD, where the claim formula would
\* give nothing for ever.
AnchorsBehindFactor ==
    \A l \in Lenders : haircut_owed[l] > 0 =>
        /\ l \in opened
        /\ 1 <= withdrawal_sf[l] /\ withdrawal_sf[l] < WAD
        /\ withdrawal_sf[l] <= settlement_factor_wad

\* The principal this market lent out and has not got back is what the
\* borrower's whitelist entry says is borrowed, and interest payments free no
\* capacity.
DebtMirrorsMarket ==
    /\ total_interest_repaid <= total_repaid
    /\ current_borrowed = total_borrowed - (total_repaid - total_interest_repaid)

-----------------------------------------------------------------------------
(* Solvency.                                                               *)

\* At factor WAD the vault holds every remaining balance and every haircut in
\* full, whoever is paid first, fees and excess included.
FullFactorCoversEveryone ==
    settlement_factor_wad = WAD => vault >= TotalNormalized + haircut_accumulator

\* What the settled factor promises now: the remaining lenders' share and
\* every haircut's claim at that factor.
PromisedNow ==
    MulWad(TotalNormalized, settlement_factor_wad)
      + Total([l \in Lenders |->
          ClaimableExact(haircut_owed[l], withdrawal_sf[l], settlement_factor_wad)])

\* The lenders whose haircut was last settled at the factor of now.
AnchoredNow ==
    {l \in Lenders : haircut_owed[l] > 0 /\ withdrawal_sf[l] = settlement_factor_wad}

\* The vault covers what the factor promises, up to one unit for each lender
\* whose recovery was rounded up on the way out at this very factor: a claim and
\* a re-settlement make up for the unit.  The lowest factor, 1, also stands for
\* less than that, and so promises nothing only while the balances together are
\* below WAD.
SolventUpToOneUnitPerLender ==
    Settled /\ (settlement_factor_wad > 1 \/ TotalNormalized < WAD) =>
        vault + Cardinality(AnchoredNow) >= PromisedNow

\* withdraw.rs:287 says the settled factor "still leaves enough value for both
\* remaining lenders and already-withdrawn lenders", and haircuts.rs:44 that the
\* protocol keeps the dust: at the least the vault holds the share of the lenders
\* still in the market.  It does not: every recovery on an exit is rounded up.
RemainingLendersCovered ==
    Settled => vault >= MulWad(TotalNormalized, settlement_factor_wad)

-----------------------------------------------------------------------------
(* What a step may never do.                                               *)

\* A settled factor never falls and is never forgotten.
FactorNeverFalls ==
    [][Settled => settlement_factor_wad' >= settlement_factor_wad]_vars

\* Once the factor is fixed the scale, the debt and the fees it was computed
\* against stand still, no balance grows, and a clock that goes back before
\* maturity does not open the market again.
SettlementClosesEntry ==
    [][Settled => /\ scale_factor' = scale_factor
                  /\ total_borrowed' = total_borrowed
                  /\ accrued_protocol_fees' <= accrued_protocol_fees
                  /\ \A l \in Lenders : scaled_balance'[l] <= scaled_balance[l]]_vars

\* Once the market is past maturity or settled, tokens go to the borrower or
\* to the fee authority only at factor WAD and only above what is due to the
\* lenders, present and departed.
OnlySurplusLeaves ==
    [][(Settled \/ now >= MaturityTimestamp) =>
         \A a \in Accounts \ Lenders : wallet'[a] > wallet[a] =>
            /\ settlement_factor_wad = WAD
            /\ vault' >= TotalNormalized' + haircut_accumulator']_vars
-----------------------------------------------------------------------------
(* What the repository says and the code does not do.                      *)

\* set_borrower_whitelist.rs:144, "Prevent de-whitelisting borrowers with
\* outstanding debt": a borrower who owes stays whitelisted.  A status byte other
\* than 0 and 1 passes both of the handler's checks.
DebtorsStayWhitelisted ==
    [][is_whitelisted = 1 /\ is_whitelisted' # 1 => current_borrowed = 0]_vars

\* specs/CoalesceFi.tla:301 and 315, "Repay uses a zero-fee config for interest
\* accrual (matches implementation)": a repayment adds no protocol fees.  The
\* handlers accrue with the protocol's own fee rate.
RepaymentsAccrueNoFees ==
    [][total_repaid' > total_repaid =>
         accrued_protocol_fees' = accrued_protocol_fees]_vars
=============================================================================
