------------------------------- MODULE Market -------------------------------
(***************************************************************************)
(* One lending market: every instruction of the program that touches a     *)
(* Market, a LenderPosition, its HaircutState or the borrower's whitelist  *)
(* entry, one action per instruction.  An instruction is one transaction:  *)
(* it runs alone and any error reverts all of it, so a failing instruction *)
(* is an action that is not enabled.  What interleaves are whole           *)
(* instructions of lenders, the borrower, payers, the fee authority and    *)
(* the managers, between any two of which the clock and the configuration  *)
(* may change.                                                             *)
(*                                                                         *)
(* Account validation (owners, discriminators, derived addresses, mints)   *)
(* and signatures are abstracted: an action acts on the accounts the       *)
(* program would accept, for the signer it requires.                       *)
(***************************************************************************)
EXTENDS Haircuts, FiniteSets

CONSTANTS
    Lenders, Borrower, FeeAuthorities,
    Growth,               \* elapsed seconds -> total_growth_wad
    MaturityTimestamp, GracePeriod, MaxTotalSupply,
    U64Max,               \* a u64 counter past this makes its instruction fail
    InitialWallet,        \* token balances outside the vault
    InitialCapacity,      \* the capacity the borrower was whitelisted with
    InitialFeeRate,
    \* What clients may ask for and what the environment may do (small sets).
    DepositAmounts, BorrowAmounts, RepayAmounts, InterestAmounts,
    WithdrawRequests, MinPayouts, DonationAmounts, Payers,
    Times, ClockMayRegress, FeeRates, WhitelistStatuses, Capacities,
    PauseValues, BlockedSets

Accounts == Lenders \cup {Borrower} \cup FeeAuthorities

ASSUME MarketAssumption ==
    /\ IsFiniteSet(Lenders)
    /\ FeeAuthorities # {} /\ Payers \subseteq Accounts
    /\ {MaturityTimestamp, GracePeriod, MaxTotalSupply, U64Max} \subseteq Nat
    /\ MaxTotalSupply <= U64Max
    /\ InitialWallet \in [Accounts -> Nat]
    /\ InitialCapacity \in Nat \ {0} /\ InitialFeeRate \in Nat
    /\ DepositAmounts \cup BorrowAmounts \cup RepayAmounts
         \cup InterestAmounts \cup DonationAmounts \subseteq Nat \ {0}
    /\ WithdrawRequests \cup MinPayouts \cup Times \cup FeeRates
         \cup WhitelistStatuses \cup Capacities \subseteq Nat
    /\ ClockMayRegress \in BOOLEAN /\ PauseValues \subseteq BOOLEAN
    /\ BlockedSets \subseteq SUBSET Accounts

\* Nothing grows in no time, and nothing ever shrinks.
ASSUME GrowthAssumption ==
    /\ Growth \in [0 .. MaturityTimestamp -> Nat]
    /\ Growth[0] = WAD
    /\ \A elapsed \in 0 .. MaturityTimestamp : Growth[elapsed] >= WAD

VARIABLES
    now,                                          \* the clock sysvar
    paused, fee_rate_bps, fee_authority, blocked, \* ProtocolConfig, blacklist
    \* Market
    scale_factor, accrued_protocol_fees, last_accrual_timestamp,
    scaled_total_supply, total_deposited,
    total_borrowed, total_repaid, total_interest_repaid,
    settlement_factor_wad,                        \* 0: not settled
    haircut_accumulator,
    claim_weight_sum, claim_offset_sum,           \* HaircutState
    \* LenderPosition, per lender; opened: the accounts that exist
    opened, scaled_balance, haircut_owed, withdrawal_sf,
    is_whitelisted, max_borrow_capacity, current_borrowed, \* BorrowerWhitelist
    vault, wallet                                 \* token accounts

configVars    == <<paused, fee_rate_bps, fee_authority, blocked>>
accrualVars   == <<scale_factor, accrued_protocol_fees, last_accrual_timestamp>>
supplyVars    == <<scaled_total_supply, total_deposited, opened, scaled_balance>>
debtVars      == <<total_borrowed, total_repaid, total_interest_repaid>>
haircutVars   == <<haircut_accumulator, claim_weight_sum, claim_offset_sum,
                   haircut_owed, withdrawal_sf>>
whitelistVars == <<is_whitelisted, max_borrow_capacity, current_borrowed>>
tokenVars     == <<vault, wallet>>
marketVars    == <<accrualVars, supplyVars, debtVars, settlement_factor_wad,
                   haircutVars>>
vars          == <<now, configVars, marketVars, whitelistVars, tokenVars>>

-----------------------------------------------------------------------------
\* The state create_market leaves behind for a whitelisted borrower.
Init ==
    /\ now = 0
    /\ paused = FALSE /\ fee_rate_bps = InitialFeeRate
    /\ fee_authority \in FeeAuthorities /\ blocked = {}
    /\ scale_factor = WAD /\ accrued_protocol_fees = 0
    /\ last_accrual_timestamp = 0
    /\ scaled_total_supply = 0 /\ total_deposited = 0
    /\ total_borrowed = 0 /\ total_repaid = 0 /\ total_interest_repaid = 0
    /\ settlement_factor_wad = 0 /\ haircut_accumulator = 0
    /\ claim_weight_sum = 0 /\ claim_offset_sum = 0
    /\ opened = {}
    /\ scaled_balance = [l \in Lenders |-> 0]
    /\ haircut_owed = [l \in Lenders |-> 0]
    /\ withdrawal_sf = [l \in Lenders |-> 0]
    /\ is_whitelisted = 1 /\ max_borrow_capacity = InitialCapacity
    /\ current_borrowed = 0
    /\ vault = 0 /\ wallet = InitialWallet

-----------------------------------------------------------------------------
(* Tokens.  The SPL token program moves exactly the amount, or fails.      *)

PayIn(account, amount) ==
    /\ wallet[account] >= amount
    /\ vault' = vault + amount
    /\ wallet' = [wallet EXCEPT ![account] = @ - amount]

PayOut(account, amount) ==
    /\ vault >= amount
    /\ vault' = vault - amount
    /\ wallet' = [wallet EXCEPT ![account] = @ + amount]

-----------------------------------------------------------------------------
(* Interest.  Accrual is the first write of most instructions; it stops at *)
(* maturity and refuses a clock that went backwards.                       *)

EffectiveNow == Lesser(now, MaturityTimestamp)

ClockIgnored == TRUE   \* mutated form of ClockNotBehind

\* SR-114.
ClockNotBehind == EffectiveNow >= last_accrual_timestamp

ElapsedGrowth == Growth[SatSub(EffectiveNow, last_accrual_timestamp)]

AccruedScale == MulWad(scale_factor, ElapsedGrowth)

\* The tokens a scaled amount stands for.
Normalized(scaled, scale) == MulWad(scaled, scale)

AccruedFees ==
    accrued_protocol_fees
      + MulWad(Normalized(scaled_total_supply, scale_factor),
               ((ElapsedGrowth - WAD) * fee_rate_bps) \div BPS)

AccrueScale ==
    /\ ClockNotBehind
    /\ AccruedFees <= U64Max
    /\ scale_factor' = AccruedScale
    /\ last_accrual_timestamp' = EffectiveNow

AccrueInterest == AccrueScale /\ accrued_protocol_fees' = AccruedFees

-----------------------------------------------------------------------------
(* Before maturity: lenders deposit, the borrower draws.                   *)

\* mutated form of UnderSupplyCap: each deposit is checked on its own
EachUnderSupplyCap(amount) == amount <= MaxTotalSupply

UnderSupplyCap(amount) == total_deposited + amount <= MaxTotalSupply

Deposit(l, amount) ==
    LET scaled == (amount * WAD) \div AccruedScale
    IN  /\ ~paused
        /\ now < MaturityTimestamp
        /\ l \notin blocked
        /\ AccrueInterest
        /\ scaled > 0
        /\ UnderSupplyCap(amount)
        /\ total_deposited' = total_deposited + amount
        /\ scaled_total_supply' = scaled_total_supply + scaled
        /\ opened' = opened \cup {l}
        /\ scaled_balance' = [scaled_balance EXCEPT
             ![l] = IF l \in opened THEN @ + scaled ELSE scaled]
        /\ PayIn(l, amount)
        /\ UNCHANGED <<now, configVars, debtVars, settlement_factor_wad,
                       haircutVars, whitelistVars>>

Borrow(amount) ==
    /\ ~paused
    /\ now < MaturityTimestamp
    /\ Borrower \notin blocked
    /\ AccrueInterest
    /\ is_whitelisted = 1
    /\ current_borrowed + amount <= max_borrow_capacity
    /\ total_borrowed + amount <= U64Max
    /\ total_borrowed' = total_borrowed + amount
    /\ current_borrowed' = current_borrowed + amount
    /\ PayOut(Borrower, amount)
    /\ UNCHANGED <<now, configVars, supplyVars, total_repaid,
                   total_interest_repaid, settlement_factor_wad, haircutVars,
                   is_whitelisted, max_borrow_capacity>>

-----------------------------------------------------------------------------
(* At any time: anyone repays principal, up to what this market is owed,   *)
(* or interest, without a limit.                                           *)

PrincipalRepaid == total_repaid - total_interest_repaid

CountPayment(payer, amount) ==
    /\ ~paused
    /\ AccrueInterest
    /\ total_repaid + amount <= U64Max
    /\ total_repaid' = total_repaid + amount
    /\ PayIn(payer, amount)
    /\ UNCHANGED <<now, configVars, supplyVars, total_borrowed,
                   settlement_factor_wad, haircutVars, is_whitelisted,
                   max_borrow_capacity>>

Repay(payer, amount) ==
    /\ amount <= total_borrowed - PrincipalRepaid
    /\ amount <= current_borrowed
    /\ CountPayment(payer, amount)
    /\ current_borrowed' = current_borrowed - amount
    /\ UNCHANGED total_interest_repaid

\* mutated form of RepayInterest: the interest counter is not advanced
RepayInterestUncounted(payer, amount) ==
    /\ CountPayment(payer, amount)
    /\ UNCHANGED <<total_interest_repaid, current_borrowed>>

RepayInterest(payer, amount) ==
    /\ CountPayment(payer, amount)
    /\ total_interest_repaid' = total_interest_repaid + amount
    /\ UNCHANGED current_borrowed

-----------------------------------------------------------------------------
(* After maturity: settlement.  The first exit fixes the factor from the   *)
(* vault; every exit below WAD records what it left unpaid, exactly on the *)
(* position and in haircut_accumulator, and as an upper bound in the       *)
(* HaircutState sums.                                                      *)

GraceOver == now >= MaturityTimestamp + GracePeriod

\* mutated form of FactorForExit: every exit computes its own
FactorRecomputed ==
    ComputeSettlementFactor(vault, Normalized(scaled_total_supply, AccruedScale))

FactorForExit ==
    IF settlement_factor_wad # 0
    THEN settlement_factor_wad
    ELSE ComputeSettlementFactor(vault, Normalized(scaled_total_supply, AccruedScale))

\* What is left, at sf, of the haircut l already carries.
Rebased(l, sf) == RebaseRemainingOwed(haircut_owed[l], withdrawal_sf[l], sf)

\* An exit below WAD leaves a gap; only then is an older haircut settled too.
LeavesHaircut(sf, gap) == sf < WAD /\ gap > 0

RecoveredAt(l, sf) == SatSub(haircut_owed[l], Rebased(l, sf))

\* mutated form of Recovered: paid also when the old haircut is left as it is
RecoveredAlways(l, sf, gap) == RecoveredAt(l, sf)

Recovered(l, sf, gap) == IF LeavesHaircut(sf, gap) THEN RecoveredAt(l, sf) ELSE 0

OwedAfterExit(l, sf, gap) == Rebased(l, sf) + gap

\* mutated form of ReservedAfterExit: the recovered part stays reserved
ReservedWithRecovered(l, sf, gap) == haircut_accumulator + gap

ReservedAfterExit(l, sf, gap) ==
    SatSub(haircut_accumulator, RecoveredAt(l, sf)) + gap

\* mutated form of WeightsWithout: the stale contribution is left in
WeightsKept(l) == claim_weight_sum

\* The HaircutState sums without the contribution of l.
WeightsWithout(l) ==
    SatSub(claim_weight_sum, Weight(haircut_owed[l], withdrawal_sf[l]))

OffsetsWithout(l) ==
    SatSub(claim_offset_sum, Offset(haircut_owed[l], withdrawal_sf[l]))

\* l's contribution is taken out and put back for new_owed anchored at sf.
Reanchor(l, new_owed, sf) ==
    /\ haircut_owed' = [haircut_owed EXCEPT ![l] = new_owed]
    /\ claim_weight_sum' = WeightsWithout(l) + Weight(new_owed, sf)
    /\ claim_offset_sum' = OffsetsWithout(l) + Offset(new_owed, sf)

TrackHaircut(l, sf, gap) ==
    IF LeavesHaircut(sf, gap)
    THEN /\ {OwedAfterExit(l, sf, gap), ReservedAfterExit(l, sf, gap)} \subseteq 0 .. U64Max
         /\ Reanchor(l, OwedAfterExit(l, sf, gap), sf)
         /\ withdrawal_sf' = [withdrawal_sf EXCEPT ![l] = sf]
         /\ haircut_accumulator' = ReservedAfterExit(l, sf, gap)
    ELSE UNCHANGED haircutVars

\* mutated form of BalanceAfterExit: a partial exit empties the position
NothingLeft(l, amount) == 0

BalanceAfterExit(l, amount) == scaled_balance[l] - amount

\* What withdraw and force_close_position do to a position once they agree
\* on the scaled amount and the factor.
LeaveMarket(l, amount, sf) ==
    LET entitled == Normalized(amount, AccruedScale)
        gap == SatSub(entitled, MulWad(entitled, sf))
    IN  /\ AccrueInterest
        /\ entitled <= U64Max
        /\ settlement_factor_wad' = sf
        /\ TrackHaircut(l, sf, gap)
        /\ scaled_balance' = [scaled_balance EXCEPT ![l] = BalanceAfterExit(l, amount)]
        /\ amount <= scaled_total_supply
        /\ scaled_total_supply' = scaled_total_supply - amount
        /\ PayOut(l, MulWad(entitled, sf) + Recovered(l, sf, gap))
        /\ UNCHANGED <<now, configVars, opened, debtVars, whitelistVars>>

Withdraw(l, request, min_payout) ==
    LET amount == IF request = 0 THEN scaled_balance[l] ELSE request
        payout == MulWad(Normalized(amount, AccruedScale), FactorForExit)
    IN  /\ ~paused
        /\ now >= MaturityTimestamp
        /\ l \notin blocked
        /\ l \in opened /\ scaled_balance[l] > 0
        /\ settlement_factor_wad = 0 => GraceOver
        /\ amount <= scaled_balance[l]
        /\ payout > 0 /\ payout >= min_payout
        /\ LeaveMarket(l, amount, FactorForExit)
        /\ total_deposited' = SatSub(total_deposited, vault - vault')

\* mutated form of ForceClosePosition: like a withdrawal it must pay something
ForceClosePaying(l) ==
    /\ ~paused
    /\ GraceOver
    /\ l \in opened /\ scaled_balance[l] > 0
    /\ MulWad(Normalized(scaled_balance[l], AccruedScale), FactorForExit) > 0
    /\ LeaveMarket(l, scaled_balance[l], FactorForExit)
    /\ UNCHANGED total_deposited

\* mutated form of ForceClosePosition: like a withdrawal it is refused to the blocked
ForceCloseAdmitted(l) ==
    /\ ~paused
    /\ GraceOver
    /\ l \in opened /\ l \notin blocked /\ scaled_balance[l] > 0
    /\ LeaveMarket(l, scaled_balance[l], FactorForExit)
    /\ UNCHANGED total_deposited

\* The borrower pays out a lender who does not come; the payout may be 0.
ForceClosePosition(l) ==
    /\ ~paused
    /\ GraceOver
    /\ l \in opened /\ scaled_balance[l] > 0
    /\ LeaveMarket(l, scaled_balance[l], FactorForExit)
    /\ UNCHANGED total_deposited

\* mutated form of Improves: any other factor is accepted
Differs(new_factor) == new_factor # settlement_factor_wad

\* mutated form of Improves: nothing to settle once the last lender is out
ImprovesForLenders(new_factor) ==
    new_factor > settlement_factor_wad /\ scaled_total_supply > 0

Improves(new_factor) == new_factor > settlement_factor_wad

\* Anyone may raise the factor once the vault has improved.
ReSettle ==
    LET new_factor == ComputeResettleFactor(
                        vault, Normalized(scaled_total_supply, AccruedScale),
                        claim_weight_sum, claim_offset_sum)
    IN  /\ ~paused
        /\ settlement_factor_wad # 0
        /\ AccrueInterest
        /\ Improves(new_factor)
        /\ settlement_factor_wad' = new_factor
        /\ UNCHANGED <<now, configVars, supplyVars, debtVars, haircutVars,
                       whitelistVars, tokenVars>>

\* A claim never digs into what the lenders still in the market are due.
ClaimablePayout(l) ==
    Lesser(ClaimableExact(haircut_owed[l], withdrawal_sf[l], settlement_factor_wad),
           SatSub(vault, MulWad(Normalized(scaled_total_supply, scale_factor),
                                settlement_factor_wad)))

\* mutated form of AnchorAfterClaim: the anchor is reset whatever is left
AnchorDropped(rest) == 0

AnchorAfterClaim(rest) == IF rest > 0 THEN settlement_factor_wad ELSE 0

PayClaim(l) ==
    LET rest == haircut_owed[l] - ClaimablePayout(l)
    IN  /\ ~paused
        /\ settlement_factor_wad # 0
        /\ l \in opened /\ haircut_owed[l] > 0
        /\ settlement_factor_wad > withdrawal_sf[l]
        /\ ClaimablePayout(l) > 0
        /\ Reanchor(l, rest, settlement_factor_wad)
        /\ withdrawal_sf' = [withdrawal_sf EXCEPT ![l] = AnchorAfterClaim(rest)]
        /\ haircut_accumulator >= ClaimablePayout(l)
        /\ haircut_accumulator' = haircut_accumulator - ClaimablePayout(l)
        /\ PayOut(l, ClaimablePayout(l))
        /\ UNCHANGED <<now, configVars, accrualVars, supplyVars, debtVars,
                       settlement_factor_wad, whitelistVars>>

ClaimHaircut(l) == PayClaim(l)

\* mutated form of ForceClaimHaircut: a blocked lender is not paid
ForceClaimAdmitted(l) == GraceOver /\ l \notin blocked /\ PayClaim(l)

ForceClaimHaircut(l) == GraceOver /\ PayClaim(l)

CloseLenderPosition(l) ==
    /\ ~paused
    /\ l \in opened
    /\ scaled_balance[l] = 0 /\ haircut_owed[l] = 0
    /\ opened' = opened \ {l}
    /\ withdrawal_sf' = [withdrawal_sf EXCEPT ![l] = 0]
    /\ UNCHANGED <<now, configVars, accrualVars, scaled_total_supply,
                   total_deposited, scaled_balance, debtVars,
                   settlement_factor_wad, haircut_accumulator, claim_weight_sum,
                   claim_offset_sum, haircut_owed, whitelistVars, tokenVars>>

-----------------------------------------------------------------------------
(* Sweeping what is left over the lenders' claims.                         *)

\* mutated form of FeesPayable: capped by the vault only
FeesUpToVault == Lesser(AccruedFees, vault)

FeesPayable ==
    Lesser(AccruedFees,
           SatSub(SatSub(vault, Normalized(scaled_total_supply, AccruedScale)),
                  haircut_accumulator))

CollectFees ==
    /\ ~paused
    /\ settlement_factor_wad \in {0, WAD}
    /\ scaled_total_supply > 0 => settlement_factor_wad = WAD
    /\ AccrueScale
    /\ FeesPayable > 0
    /\ accrued_protocol_fees' = AccruedFees - FeesPayable
    /\ PayOut(fee_authority, FeesPayable)
    /\ UNCHANGED <<now, configVars, supplyVars, debtVars,
                   settlement_factor_wad, haircutVars, whitelistVars>>

WithdrawExcess ==
    LET excess == SatSub(vault, haircut_accumulator)
    IN  /\ ~paused
        /\ Borrower \notin blocked
        /\ is_whitelisted = 1
        /\ now >= MaturityTimestamp
        /\ scaled_total_supply = 0
        /\ settlement_factor_wad = WAD
        /\ accrued_protocol_fees = 0
        /\ excess > 0
        /\ PayOut(Borrower, excess)
        /\ UNCHANGED <<now, configVars, marketVars, whitelistVars>>

-----------------------------------------------------------------------------
(* The managers' instructions and the environment.                         *)

\* mutated form of SetBorrowerWhitelist: the debt is not looked at
SetWhitelistUnchecked(status, capacity) ==
    /\ status = 1 => capacity > 0
    /\ is_whitelisted' = status
    /\ max_borrow_capacity' = capacity
    /\ UNCHANGED <<now, configVars, marketVars, current_borrowed, tokenVars>>

\* The entry exists: create_market required it.  Any status byte is stored.
SetBorrowerWhitelist(status, capacity) ==
    /\ status = 1 => capacity > 0
    /\ status = 0 => current_borrowed = 0
    /\ is_whitelisted' = status
    /\ max_borrow_capacity' = capacity
    /\ UNCHANGED <<now, configVars, marketVars, current_borrowed, tokenVars>>

SetPause(value) ==
    /\ paused' = value
    /\ UNCHANGED <<now, fee_rate_bps, fee_authority, blocked, marketVars,
                   whitelistVars, tokenVars>>

SetFeeConfig(rate, authority) ==
    /\ rate <= BPS
    /\ fee_rate_bps' = rate
    /\ fee_authority' = authority
    /\ UNCHANGED <<now, paused, blocked, marketVars, whitelistVars, tokenVars>>

\* The outcome of check_blacklist changes for some addresses.
SetBlocked(addresses) ==
    /\ blocked' = addresses
    /\ UNCHANGED <<now, paused, fee_rate_bps, fee_authority, marketVars,
                   whitelistVars, tokenVars>>

\* A plain token transfer into the vault; the program never sees it happen.
Donate(payer, amount) ==
    /\ PayIn(payer, amount)
    /\ UNCHANGED <<now, configVars, marketVars, whitelistVars>>

Tick(time) ==
    /\ time > now \/ ClockMayRegress
    /\ now' = time
    /\ UNCHANGED <<configVars, marketVars, whitelistVars, tokenVars>>

-----------------------------------------------------------------------------
LenderStep(l) ==
    \/ \E amount \in DepositAmounts : Deposit(l, amount)
    \/ \E request \in WithdrawRequests, min_payout \in MinPayouts :
         Withdraw(l, request, min_payout)
    \/ ClaimHaircut(l)
    \/ CloseLenderPosition(l)

BorrowerStep ==
    \/ \E amount \in BorrowAmounts : Borrow(amount)
    \/ \E l \in Lenders : ForceClosePosition(l) \/ ForceClaimHaircut(l)
    \/ WithdrawExcess

AnyoneStep ==
    \/ \E payer \in Payers :
         \/ \E amount \in RepayAmounts : Repay(payer, amount)
         \/ \E amount \in InterestAmounts : RepayInterest(payer, amount)
         \/ \E amount \in DonationAmounts : Donate(payer, amount)
    \/ ReSettle

ManagerStep ==
    \/ CollectFees
    \/ \E status \in WhitelistStatuses, capacity \in Capacities :
         SetBorrowerWhitelist(status, capacity)
    \/ \E value \in PauseValues : SetPause(value)
    \/ \E rate \in FeeRates, authority \in FeeAuthorities :
         SetFeeConfig(rate, authority)
    \/ \E addresses \in BlockedSets : SetBlocked(addresses)

Next ==
    \/ \E l \in Lenders : LenderStep(l)
    \/ BorrowerStep
    \/ AnyoneStep
    \/ ManagerStep
    \/ \E time \in Times : Tick(time)

Spec == Init /\ [][Next]_vars
=============================================================================
