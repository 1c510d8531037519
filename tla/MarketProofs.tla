---------------------------- MODULE MarketProofs ----------------------------
(***************************************************************************)
(* Type correctness of the market, what settlement fixes, and the books,   *)
(* for all lenders, amounts and clocks.                                    *)
(*                                                                         *)
(* Types need one more fact, AnchorsNotAhead: a recovery on an exit is     *)
(* paid out of the vault, and it is a natural number only because a debt   *)
(* is never anchored ahead of the factor it is rebased to.                 *)
(*                                                                         *)
(* Once the factor is set the last accrual was at maturity, and the check  *)
(* that refuses a clock behind the last accrual (SR-114) then keeps        *)
(* deposits, draws and interest out for ever, however the clock moves.     *)
(*                                                                         *)
(* The running totals are the sums they stand for, for every number of     *)
(* lenders: the supply, the haircut reserve, the two sums of HaircutState  *)
(* and the borrower's debt.  The saturating subtractions in the handlers   *)
(* therefore never saturate.                                               *)
(***************************************************************************)
EXTENDS MarketProperties, HaircutsProofs, TotalsProofs

AnchorsNotAhead ==
    \A l \in Lenders : haircut_owed[l] > 0 =>
        /\ l \in opened
        /\ 1 <= withdrawal_sf[l]
        /\ withdrawal_sf[l] <= settlement_factor_wad

-----------------------------------------------------------------------------
(* The constants.                                                          *)

\* What MarketAssumption says, fact by fact.
LEMMA ConstantTypes ==
    /\ MaturityTimestamp \in Nat /\ GracePeriod \in Nat /\ MaxTotalSupply \in Nat
    /\ U64Max \in Nat /\ MaxTotalSupply <= U64Max
    /\ Lenders \subseteq Accounts /\ Borrower \in Accounts
    /\ FeeAuthorities \subseteq Accounts /\ Payers \subseteq Accounts
    /\ DepositAmounts \subseteq Nat /\ BorrowAmounts \subseteq Nat
    /\ RepayAmounts \subseteq Nat /\ InterestAmounts \subseteq Nat
    /\ DonationAmounts \subseteq Nat /\ WithdrawRequests \subseteq Nat
    /\ Times \subseteq Nat /\ FeeRates \subseteq Nat
    /\ WhitelistStatuses \subseteq Nat /\ Capacities \subseteq Nat
    /\ PauseValues \subseteq BOOLEAN /\ BlockedSets \subseteq SUBSET Accounts
  BY MarketAssumption DEF Accounts

-----------------------------------------------------------------------------
(* Tokens and interest.                                                    *)

\* A transfer into the vault leaves all token balances natural numbers.
LEMMA PayInType ==
    ASSUME TokenTypeOK, NEW account \in Accounts, NEW amount \in Nat,
           PayIn(account, amount)
    PROVE  TokenTypeOK'
  BY DEF TokenTypeOK, PayIn

\* So does a transfer out of it.
LEMMA PayOutType ==
    ASSUME TokenTypeOK, NEW account \in Accounts, NEW amount \in Nat,
           PayOut(account, amount)
    PROVE  TokenTypeOK'
  BY DEF TokenTypeOK, PayOut

\* The growth of any period between two accruals is defined and at least WAD.
LEMMA ElapsedGrowthType ==
    ASSUME ConfigTypeOK, AccrualTypeOK
    PROVE  /\ EffectiveNow \in 0 .. MaturityTimestamp
           /\ ElapsedGrowth \in Nat /\ ElapsedGrowth >= WAD
<1>1. EffectiveNow \in 0 .. MaturityTimestamp
  BY ConstantTypes DEF EffectiveNow, Lesser, ConfigTypeOK
<1>2. SatSub(EffectiveNow, last_accrual_timestamp) \in 0 .. MaturityTimestamp
  BY <1>1, ConstantTypes DEF SatSub, AccrualTypeOK
<1>3. QED
  BY <1>1, <1>2, GrowthAssumption DEF ElapsedGrowth

\* Accrual never lowers the scale.
LEMMA AccruedScaleType ==
    ASSUME ConfigTypeOK, AccrualTypeOK
    PROVE  AccruedScale \in Nat /\ AccruedScale >= scale_factor
                                /\ AccruedScale >= WAD
<1>1. ElapsedGrowth \in Nat /\ ElapsedGrowth >= WAD
  BY ElapsedGrowthType
<1>2. scale_factor \in Nat /\ scale_factor >= WAD
  BY DEF AccrualTypeOK
<1>3. MulWad(scale_factor, ElapsedGrowth) \in Nat
  BY <1>1, <1>2, MulWadType
<1>4. MulWad(scale_factor, ElapsedGrowth) >= scale_factor
  BY <1>1, <1>2, MulWadGrows
<1>5. QED
  BY <1>2, <1>3, <1>4, WadPositive DEF AccruedScale

\* Accrual never lowers the fees.
LEMMA AccruedFeesType ==
    ASSUME ConfigTypeOK, AccrualTypeOK, SupplyTypeOK
    PROVE  AccruedFees \in Nat /\ AccruedFees >= accrued_protocol_fees
<1>1. ElapsedGrowth \in Nat /\ ElapsedGrowth - WAD \in Nat
  BY ElapsedGrowthType, WadPositive
<1>2. (ElapsedGrowth - WAD) * fee_rate_bps \in Nat
  BY <1>1 DEF ConfigTypeOK
<1>3. ((ElapsedGrowth - WAD) * fee_rate_bps) \div BPS \in Nat
  BY <1>2, WadPositive, DivBounds
<1>4. Normalized(scaled_total_supply, scale_factor) \in Nat
  BY MulWadType DEF Normalized, SupplyTypeOK, AccrualTypeOK
<1>5. MulWad(Normalized(scaled_total_supply, scale_factor),
             ((ElapsedGrowth - WAD) * fee_rate_bps) \div BPS) \in Nat
  BY <1>3, <1>4, MulWadType
<1>6. accrued_protocol_fees \in Nat
  BY ConstantTypes DEF AccrualTypeOK
<1>7. QED
  BY <1>5, <1>6 DEF AccruedFees

\* After an accrual the clock of the market is at most its maturity.
LEMMA AccrueScaleType ==
    ASSUME ConfigTypeOK, AccrualTypeOK, SupplyTypeOK, AccrueScale,
           accrued_protocol_fees' \in 0 .. AccruedFees
    PROVE  AccrualTypeOK'
<1>1. AccruedFees \in Nat /\ AccruedFees <= U64Max
  BY AccruedFeesType DEF AccrueScale
<1>2. accrued_protocol_fees' \in 0 .. U64Max
  BY <1>1, ConstantTypes
<1>3. scale_factor' \in Nat /\ scale_factor' >= WAD
  BY AccruedScaleType DEF AccrueScale
<1>4. last_accrual_timestamp' \in 0 .. MaturityTimestamp
  BY ElapsedGrowthType DEF AccrueScale
<1>5. QED
  BY <1>2, <1>3, <1>4 DEF AccrualTypeOK

\* The same with the fees, which fit their counter.
LEMMA AccrueInterestType ==
    ASSUME ConfigTypeOK, AccrualTypeOK, SupplyTypeOK, AccrueInterest
    PROVE  AccrualTypeOK'
<1>1. accrued_protocol_fees' \in 0 .. AccruedFees
  BY AccruedFeesType DEF AccrueInterest
<1>2. QED
  BY <1>1, AccrueScaleType DEF AccrueInterest

-----------------------------------------------------------------------------
(* Haircuts.                                                               *)

\* The factor an exit pays at: the settled one, or a new one in 1..WAD.
LEMMA FactorForExitRange ==
    ASSUME TypeOK
    PROVE  /\ FactorForExit \in 1 .. WAD
           /\ settlement_factor_wad # 0 => FactorForExit = settlement_factor_wad
<1>1. AccruedScale \in Nat
  BY AccruedScaleType DEF TypeOK
<1>2. Normalized(scaled_total_supply, AccruedScale) \in Nat
  BY <1>1, MulWadType DEF Normalized, TypeOK, SupplyTypeOK
<1>3. vault \in Nat
  BY DEF TypeOK, TokenTypeOK
<1>4. ComputeSettlementFactor(vault, Normalized(scaled_total_supply, AccruedScale))
        \in 1 .. WAD
  BY <1>2, <1>3, SettlementFactorRange
<1>5. QED
  BY <1>4, WadPositive DEF FactorForExit, TypeOK, HaircutTypeOK

\* An exit recovers no more than what is owed, and never a negative amount.
LEMMA RebasedRange ==
    ASSUME HaircutTypeOK, AnchorsNotAhead, NEW l \in Lenders, NEW sf \in 1 .. WAD,
           settlement_factor_wad # 0 => sf = settlement_factor_wad
    PROVE  /\ Rebased(l, sf) \in 0 .. haircut_owed[l]
           /\ RecoveredAt(l, sf) = haircut_owed[l] - Rebased(l, sf)
           /\ RecoveredAt(l, sf) \in 0 .. haircut_owed[l]
<1>1. haircut_owed[l] \in Nat /\ withdrawal_sf[l] \in 0 .. WAD
  BY ConstantTypes DEF HaircutTypeOK
<1>2. Rebased(l, sf) \in 0 .. haircut_owed[l]
  <2>1. CASE haircut_owed[l] = 0
    BY <1>1, <2>1 DEF Rebased, RebaseRemainingOwed
  <2>2. CASE haircut_owed[l] > 0
    <3>1. sf \in withdrawal_sf[l] .. WAD
      BY <1>1, <2>2, WadPositive DEF AnchorsNotAhead, HaircutTypeOK
    <3>2. QED
      BY <1>1, <3>1, RebaseShrinks DEF Rebased
  <2>3. QED
    BY <1>1, <2>1, <2>2
<1>3. QED
  BY <1>1, <1>2 DEF RecoveredAt, SatSub

\* Taking a contribution out and putting another one in keeps the sums naturals.
LEMMA ReanchorType ==
    ASSUME HaircutTypeOK, NEW l \in Lenders, NEW new_owed \in 0 .. U64Max,
           NEW sf \in 0 .. WAD, Reanchor(l, new_owed, sf)
    PROVE  /\ haircut_owed' \in [Lenders -> 0 .. U64Max]
           /\ claim_weight_sum' \in Nat /\ claim_offset_sum' \in Nat
<1>1. new_owed \in Nat /\ haircut_owed[l] \in Nat /\ withdrawal_sf[l] \in 0 .. WAD
  BY ConstantTypes DEF HaircutTypeOK
<1>2. /\ Weight(new_owed, sf) \in Nat /\ Offset(new_owed, sf) \in Nat
      /\ Weight(haircut_owed[l], withdrawal_sf[l]) \in Nat
      /\ Offset(haircut_owed[l], withdrawal_sf[l]) \in Nat
  BY <1>1, ContributionType
<1>3. WeightsWithout(l) \in Nat /\ OffsetsWithout(l) \in Nat
  <2>1. claim_weight_sum \in Nat /\ claim_offset_sum \in Nat
    BY DEF HaircutTypeOK
  <2>2. QED
    BY <1>2, <2>1, SatSubRange DEF WeightsWithout, OffsetsWithout
<1>4. QED
  BY <1>2, <1>3 DEF Reanchor, HaircutTypeOK

\* withdraw and force_close_position.
LEMMA LeaveMarketType ==
    ASSUME TypeOK, AnchorsNotAhead, NEW l \in Lenders, l \in opened,
           NEW amount \in 0 .. scaled_balance[l], NEW sf \in 1 .. WAD,
           settlement_factor_wad # 0 => sf = settlement_factor_wad,
           LeaveMarket(l, amount, sf)
    PROVE  /\ ConfigTypeOK' /\ AccrualTypeOK' /\ DebtTypeOK' /\ HaircutTypeOK'
           /\ TokenTypeOK' /\ vault' <= vault
           /\ scaled_total_supply' \in Nat /\ opened' = opened
           /\ scaled_balance' \in [Lenders -> Nat]
           /\ AnchorsNotAhead'
<1> DEFINE entitled == Normalized(amount, AccruedScale)
           gap == SatSub(entitled, MulWad(entitled, sf))
<1> USE DEF TypeOK
<1>1. amount \in Nat
  BY DEF SupplyTypeOK
<1>2. entitled \in Nat
  BY <1>1, AccruedScaleType, MulWadType DEF Normalized
<1>3. MulWad(entitled, sf) \in 0 .. entitled
  <2> HIDE DEF entitled
  <2>1. QED
    BY <1>2, WadPositive, MulWadShrinks
<1>4. gap \in Nat
  BY <1>2, <1>3, SatSubRange
<1>5. Recovered(l, sf, gap) \in Nat
  BY RebasedRange, ConstantTypes DEF Recovered, HaircutTypeOK
<1>6. /\ AccrueInterest /\ settlement_factor_wad' = sf
      /\ TrackHaircut(l, sf, gap)
      /\ scaled_balance' = [scaled_balance EXCEPT ![l] = BalanceAfterExit(l, amount)]
      /\ amount <= scaled_total_supply
      /\ scaled_total_supply' = scaled_total_supply - amount
      /\ PayOut(l, MulWad(entitled, sf) + Recovered(l, sf, gap))
      /\ UNCHANGED <<now, configVars, opened, debtVars, whitelistVars>>
  BY DEF LeaveMarket
<1> HIDE DEF entitled, gap
<1>7. ConfigTypeOK' /\ DebtTypeOK'
  BY <1>6 DEF ConfigTypeOK, DebtTypeOK, configVars, debtVars, whitelistVars
<1>8. AccrualTypeOK'
  BY <1>6, AccrueInterestType
<1>9. HaircutTypeOK' /\ AnchorsNotAhead'
  <2>1. CASE ~LeavesHaircut(sf, gap)
    <3>1. UNCHANGED haircutVars
      BY <1>6, <2>1 DEF TrackHaircut
    <3>2. settlement_factor_wad' \in 1 .. WAD
      BY <1>6
    <3>3. HaircutTypeOK'
      BY <3>1, <3>2, WadPositive DEF HaircutTypeOK, haircutVars
    <3>4. AnchorsNotAhead'
      BY <1>6, <3>1 DEF AnchorsNotAhead, HaircutTypeOK, haircutVars
    <3>5. QED
      BY <3>3, <3>4
  <2>2. CASE LeavesHaircut(sf, gap)
    <3>1. /\ OwedAfterExit(l, sf, gap) \in 0 .. U64Max
          /\ ReservedAfterExit(l, sf, gap) \in 0 .. U64Max
          /\ Reanchor(l, OwedAfterExit(l, sf, gap), sf)
          /\ withdrawal_sf' = [withdrawal_sf EXCEPT ![l] = sf]
          /\ haircut_accumulator' = ReservedAfterExit(l, sf, gap)
      BY <1>6, <2>2 DEF TrackHaircut
    <3>2. sf \in 0 .. WAD
      BY WadPositive
    <3>3. /\ haircut_owed' \in [Lenders -> 0 .. U64Max]
          /\ claim_weight_sum' \in Nat /\ claim_offset_sum' \in Nat
      BY <3>1, <3>2, ReanchorType
    <3>4. HaircutTypeOK'
      BY <1>6, <3>1, <3>2, <3>3 DEF HaircutTypeOK
    <3>5. AnchorsNotAhead'
      <4>1. haircut_owed' = [haircut_owed EXCEPT ![l] = OwedAfterExit(l, sf, gap)]
        BY <3>1 DEF Reanchor
      <4>2. QED
        BY <1>6, <3>1, <4>1, WadPositive DEF AnchorsNotAhead, HaircutTypeOK
    <3>6. QED
      BY <3>4, <3>5
  <2>3. QED
    BY <2>1, <2>2
<1>10. MulWad(entitled, sf) + Recovered(l, sf, gap) \in Nat
  BY <1>2, <1>3, <1>5
<1>11. TokenTypeOK'
  BY <1>6, <1>10, ConstantTypes, PayOutType
<1>12. vault' <= vault
  BY <1>6, <1>10 DEF PayOut, TokenTypeOK
<1>13. scaled_total_supply' \in Nat /\ opened' = opened
  BY <1>1, <1>6 DEF SupplyTypeOK
<1>14. scaled_balance' \in [Lenders -> Nat]
  BY <1>1, <1>6 DEF SupplyTypeOK, BalanceAfterExit
<1>15. QED
  BY <1>7, <1>8, <1>9, <1>11, <1>12, <1>13, <1>14

\* claim_haircut and force_claim_haircut release no more than is owed.
LEMMA ClaimablePayoutRange ==
    ASSUME TypeOK, NEW l \in Lenders
    PROVE  /\ ClaimablePayout(l) \in 0 .. haircut_owed[l]
           /\ ClaimablePayout(l)
                <= ClaimableExact(haircut_owed[l], withdrawal_sf[l],
                                  settlement_factor_wad)
<1> DEFINE exact == ClaimableExact(haircut_owed[l], withdrawal_sf[l],
                                   settlement_factor_wad)
           due == MulWad(Normalized(scaled_total_supply, scale_factor),
                         settlement_factor_wad)
<1>1. haircut_owed[l] \in Nat
  BY ConstantTypes DEF TypeOK, HaircutTypeOK
<1>2. exact \in 0 .. haircut_owed[l]
  BY <1>1, ClaimableAtMostOwed DEF TypeOK, HaircutTypeOK
<1>3. Normalized(scaled_total_supply, scale_factor) \in Nat
  BY MulWadType DEF Normalized, TypeOK, SupplyTypeOK, AccrualTypeOK
<1>4. due \in Nat
  <2>1. settlement_factor_wad \in Nat
    BY WadPositive DEF TypeOK, HaircutTypeOK
  <2>2. QED
    BY <1>3, <2>1, MulWadType
<1>5. SatSub(vault, due) \in Nat
  <2> HIDE DEF due
  <2>1. QED
    BY <1>4, SatSubRange DEF TypeOK, TokenTypeOK
<1>6. ClaimablePayout(l) = Lesser(exact, SatSub(vault, due))
  BY DEF ClaimablePayout
<1> HIDE DEF exact, due
<1>7. ClaimablePayout(l) \in 0 .. haircut_owed[l] /\ ClaimablePayout(l) <= exact
  BY <1>1, <1>2, <1>5, <1>6 DEF Lesser
<1>8. QED
  BY <1>7 DEF exact

\* A claim keeps every type and leaves no anchor ahead of the factor.
LEMMA PayClaimType ==
    ASSUME TypeOK, AnchorsNotAhead, NEW l \in Lenders, PayClaim(l)
    PROVE  TypeOK' /\ AnchorsNotAhead'
<1> DEFINE payout == ClaimablePayout(l)
           rest == haircut_owed[l] - payout
<1> USE DEF TypeOK
<1>1. haircut_owed[l] \in 0 .. U64Max /\ payout \in 0 .. haircut_owed[l]
  BY ClaimablePayoutRange DEF HaircutTypeOK
<1>2. payout \in Nat /\ rest \in 0 .. U64Max
  BY <1>1, ConstantTypes
<1>3. /\ settlement_factor_wad # 0 /\ l \in opened
      /\ Reanchor(l, rest, settlement_factor_wad)
      /\ withdrawal_sf' = [withdrawal_sf EXCEPT ![l] = AnchorAfterClaim(rest)]
      /\ haircut_accumulator >= payout
      /\ haircut_accumulator' = haircut_accumulator - payout
      /\ PayOut(l, payout)
      /\ UNCHANGED <<now, configVars, accrualVars, supplyVars, debtVars,
                     settlement_factor_wad, whitelistVars>>
  BY DEF PayClaim
<1> HIDE DEF payout, rest
<1>4. ConfigTypeOK' /\ AccrualTypeOK' /\ SupplyTypeOK' /\ DebtTypeOK'
  BY <1>3 DEF ConfigTypeOK, AccrualTypeOK, SupplyTypeOK, DebtTypeOK,
              configVars, accrualVars, supplyVars, debtVars, whitelistVars
<1>5. TokenTypeOK'
  BY <1>2, <1>3, ConstantTypes, PayOutType
<1>6. AnchorAfterClaim(rest) \in 0 .. WAD
  BY WadPositive DEF AnchorAfterClaim, HaircutTypeOK
<1>7. HaircutTypeOK'
  <2>1. /\ haircut_owed' \in [Lenders -> 0 .. U64Max]
        /\ claim_weight_sum' \in Nat /\ claim_offset_sum' \in Nat
    BY <1>2, <1>3, ReanchorType DEF HaircutTypeOK
  <2>2. haircut_accumulator' \in 0 .. U64Max
    BY <1>2, <1>3, ConstantTypes DEF HaircutTypeOK
  <2>3. QED
    BY <1>3, <1>6, <2>1, <2>2 DEF HaircutTypeOK
<1>8. AnchorsNotAhead'
  <2>1. haircut_owed' = [haircut_owed EXCEPT ![l] = rest]
    BY <1>3 DEF Reanchor
  <2>2. opened' = opened
    BY <1>3 DEF supplyVars
  <2>3. QED
    BY <1>2, <1>3, <2>1, <2>2, WadPositive
       DEF AnchorsNotAhead, HaircutTypeOK, AnchorAfterClaim
<1>9. QED
  BY <1>4, <1>5, <1>7, <1>8

-----------------------------------------------------------------------------
(* The instructions.                                                       *)

TypeInv == TypeOK /\ AnchorsNotAhead

\* The state create_market leaves satisfies the invariant.
LEMMA TypeInvInit == Init => TypeInv
<1> SUFFICES ASSUME Init PROVE TypeInv
  OBVIOUS
<1>1. ConfigTypeOK /\ AccrualTypeOK
  <2>1. InitialFeeRate \in Nat
    BY MarketAssumption
  <2>2. ConfigTypeOK
    BY <2>1 DEF Init, ConfigTypeOK
  <2>3. AccrualTypeOK
    BY WadPositive, ConstantTypes DEF Init, AccrualTypeOK
  <2>4. QED
    BY <2>2, <2>3
<1>2. SupplyTypeOK /\ DebtTypeOK
  BY MarketAssumption, ConstantTypes DEF Init, SupplyTypeOK, DebtTypeOK
<1>3. HaircutTypeOK /\ TokenTypeOK
  BY MarketAssumption, ConstantTypes, WadPositive DEF Init, HaircutTypeOK, TokenTypeOK
<1>4. AnchorsNotAhead
  BY DEF Init, AnchorsNotAhead
<1>5. QED
  BY <1>1, <1>2, <1>3, <1>4 DEF TypeInv, TypeOK

\* A deposit keeps the invariant; the supply cap bounds total_deposited.
LEMMA DepositType ==
    ASSUME TypeInv, NEW l \in Lenders, NEW amount \in DepositAmounts,
           Deposit(l, amount)
    PROVE  TypeInv'
<1> USE DEF TypeInv, TypeOK
<1> DEFINE scaled == (amount * WAD) \div AccruedScale
<1>1. amount \in Nat /\ l \in Accounts
  BY ConstantTypes
<1>2. scaled \in Nat
  <2>1. AccruedScale \in Nat \ {0}
    BY AccruedScaleType, WadPositive
  <2>2. amount * WAD \in Nat
    BY <1>1, WadPositive
  <2>3. QED
    BY <2>1, <2>2, DivBounds
<1>3. /\ AccrueInterest /\ PayIn(l, amount)
      /\ total_deposited' = total_deposited + amount
      /\ total_deposited + amount <= MaxTotalSupply
      /\ scaled_total_supply' = scaled_total_supply + scaled
      /\ opened' = opened \cup {l}
      /\ scaled_balance' = [scaled_balance EXCEPT
           ![l] = IF l \in opened THEN @ + scaled ELSE scaled]
      /\ UNCHANGED <<now, configVars, debtVars, settlement_factor_wad,
                     haircutVars, whitelistVars>>
  BY DEF Deposit, UnderSupplyCap
<1> HIDE DEF scaled
<1>4. ConfigTypeOK' /\ DebtTypeOK' /\ HaircutTypeOK'
  BY <1>3 DEF ConfigTypeOK, DebtTypeOK, HaircutTypeOK, configVars, debtVars,
              haircutVars, whitelistVars
<1>5. AccrualTypeOK'
  BY <1>3, AccrueInterestType
<1>6. SupplyTypeOK'
  BY <1>1, <1>2, <1>3, ConstantTypes DEF SupplyTypeOK
<1>7. TokenTypeOK'
  BY <1>1, <1>3, PayInType
<1>8. AnchorsNotAhead'
  BY <1>3 DEF AnchorsNotAhead, haircutVars
<1>9. QED
  BY <1>4, <1>5, <1>6, <1>7, <1>8

\* A draw keeps the invariant.
LEMMA BorrowType ==
    ASSUME TypeInv, NEW amount \in BorrowAmounts, Borrow(amount)
    PROVE  TypeInv'
<1> USE DEF TypeInv, TypeOK
<1>1. amount \in Nat
  BY ConstantTypes
<1>2. ConfigTypeOK' /\ SupplyTypeOK' /\ HaircutTypeOK'
  BY DEF Borrow, ConfigTypeOK, SupplyTypeOK, HaircutTypeOK, configVars,
         supplyVars, haircutVars
<1>3. AccrualTypeOK'
  BY AccrueInterestType DEF Borrow
<1>4. DebtTypeOK'
  BY <1>1 DEF Borrow, DebtTypeOK
<1>5. TokenTypeOK'
  BY <1>1, ConstantTypes, PayOutType DEF Borrow
<1>6. AnchorsNotAhead'
  BY DEF Borrow, AnchorsNotAhead, haircutVars, supplyVars
<1>7. QED
  BY <1>2, <1>3, <1>4, <1>5, <1>6

\* A payment of principal or interest keeps the invariant.
LEMMA PaymentType ==
    ASSUME TypeInv, NEW payer \in Payers,
           NEW amount \in RepayAmounts \cup InterestAmounts,
           Repay(payer, amount) \/ RepayInterest(payer, amount)
    PROVE  TypeInv'
<1> USE DEF TypeInv, TypeOK
<1>1. amount \in Nat /\ payer \in Accounts
  BY ConstantTypes
<1>2. CountPayment(payer, amount)
  BY DEF Repay, RepayInterest
<1>3. ConfigTypeOK' /\ SupplyTypeOK' /\ HaircutTypeOK'
  BY <1>2 DEF CountPayment, ConfigTypeOK, SupplyTypeOK, HaircutTypeOK, configVars,
              supplyVars, haircutVars
<1>4. AccrualTypeOK'
  BY <1>2, AccrueInterestType DEF CountPayment
<1>5. DebtTypeOK'
  BY <1>1, <1>2 DEF CountPayment, Repay, RepayInterest, DebtTypeOK
<1>6. TokenTypeOK'
  BY <1>1, <1>2, PayInType DEF CountPayment
<1>7. AnchorsNotAhead'
  BY <1>2 DEF CountPayment, AnchorsNotAhead, haircutVars, supplyVars
<1>8. QED
  BY <1>3, <1>4, <1>5, <1>6, <1>7

\* A smaller number can be taken from a larger one.
LEMMA DifferenceType ==
    ASSUME NEW a \in Nat, NEW b \in Nat, b <= a
    PROVE  a - b \in Nat
  OBVIOUS

\* A voluntary exit keeps the invariant.
LEMMA WithdrawType ==
    ASSUME TypeInv, NEW l \in Lenders, NEW request \in WithdrawRequests,
           NEW min_payout, Withdraw(l, request, min_payout)
    PROVE  TypeInv'
<1> DEFINE amount == IF request = 0 THEN scaled_balance[l] ELSE request
<1>1. /\ l \in opened /\ amount <= scaled_balance[l]
      /\ LeaveMarket(l, amount, FactorForExit)
      /\ total_deposited' = SatSub(total_deposited, vault - vault')
  BY DEF Withdraw
<1>2. amount \in 0 .. scaled_balance[l]
  BY <1>1, ConstantTypes DEF TypeInv, TypeOK, SupplyTypeOK
<1> HIDE DEF amount
<1>3. /\ ConfigTypeOK' /\ AccrualTypeOK' /\ DebtTypeOK' /\ HaircutTypeOK'
      /\ TokenTypeOK' /\ vault' <= vault
      /\ scaled_total_supply' \in Nat /\ opened' = opened
      /\ scaled_balance' \in [Lenders -> Nat]
      /\ AnchorsNotAhead'
  BY <1>1, <1>2, FactorForExitRange, LeaveMarketType DEF TypeInv
<1>4. total_deposited' \in 0 .. MaxTotalSupply
  <2>1. vault - vault' \in Nat
    <3>1. vault \in Nat /\ vault' \in Nat /\ vault' <= vault
      BY <1>3 DEF TypeInv, TypeOK, TokenTypeOK
    <3>2. QED
      BY <3>1, DifferenceType
  <2>2. total_deposited \in Nat /\ total_deposited <= MaxTotalSupply
    BY ConstantTypes DEF TypeInv, TypeOK, SupplyTypeOK
  <2>3. QED
    BY <1>1, <2>1, <2>2, ConstantTypes DEF SatSub
<1>5. SupplyTypeOK'
  BY <1>3, <1>4 DEF TypeInv, TypeOK, SupplyTypeOK
<1>6. QED
  BY <1>3, <1>5 DEF TypeInv, TypeOK

\* A forced exit keeps the invariant.
LEMMA ForceCloseType ==
    ASSUME TypeInv, NEW l \in Lenders, ForceClosePosition(l)
    PROVE  TypeInv'
<1>1. /\ l \in opened /\ LeaveMarket(l, scaled_balance[l], FactorForExit)
      /\ UNCHANGED total_deposited
  BY DEF ForceClosePosition
<1>2. scaled_balance[l] \in 0 .. scaled_balance[l]
  BY DEF TypeInv, TypeOK, SupplyTypeOK
<1>3. /\ ConfigTypeOK' /\ AccrualTypeOK' /\ DebtTypeOK' /\ HaircutTypeOK'
      /\ TokenTypeOK' /\ scaled_total_supply' \in Nat /\ opened' = opened
      /\ scaled_balance' \in [Lenders -> Nat]
      /\ AnchorsNotAhead'
  BY <1>1, <1>2, FactorForExitRange, LeaveMarketType DEF TypeInv
<1>4. SupplyTypeOK'
  BY <1>1, <1>3 DEF TypeInv, TypeOK, SupplyTypeOK
<1>5. QED
  BY <1>3, <1>4 DEF TypeInv, TypeOK

\* A re-settlement raises the factor, so no anchor gets ahead of it.
LEMMA ReSettleType ==
    ASSUME TypeInv, ReSettle
    PROVE  /\ TypeInv'
           /\ settlement_factor_wad' \in 1 .. WAD
           /\ settlement_factor_wad' > settlement_factor_wad
<1> USE DEF TypeInv, TypeOK
<1> DEFINE new_factor == ComputeResettleFactor(
                           vault, Normalized(scaled_total_supply, AccruedScale),
                           claim_weight_sum, claim_offset_sum)
<1>1. new_factor \in 1 .. WAD
  <2>1. AccruedScale \in Nat /\ scaled_total_supply \in Nat
    BY AccruedScaleType DEF SupplyTypeOK
  <2>2. Normalized(scaled_total_supply, AccruedScale) \in Nat
    BY <2>1, MulWadType DEF Normalized
  <2>3. vault \in Nat /\ claim_weight_sum \in Nat /\ claim_offset_sum \in Nat
    BY DEF TokenTypeOK, HaircutTypeOK
  <2>4. QED
    BY <2>2, <2>3, ResettleFactorRange
<1>2. /\ AccrueInterest /\ settlement_factor_wad' = new_factor
      /\ new_factor > settlement_factor_wad
      /\ UNCHANGED <<now, configVars, supplyVars, debtVars, haircutVars,
                     whitelistVars, tokenVars>>
  BY DEF ReSettle, Improves
<1> HIDE DEF new_factor
<1>3. ConfigTypeOK' /\ SupplyTypeOK' /\ DebtTypeOK' /\ TokenTypeOK'
  BY <1>2 DEF ConfigTypeOK, SupplyTypeOK, DebtTypeOK, TokenTypeOK, configVars,
              supplyVars, debtVars, whitelistVars, tokenVars
<1>4. AccrualTypeOK'
  BY <1>2, AccrueInterestType
<1>5. HaircutTypeOK'
  BY <1>1, <1>2, WadPositive DEF HaircutTypeOK, haircutVars
<1>6. AnchorsNotAhead'
  BY <1>1, <1>2, WadPositive DEF AnchorsNotAhead, HaircutTypeOK, haircutVars, supplyVars
<1>7. QED
  BY <1>1, <1>2, <1>3, <1>4, <1>5, <1>6

\* Closing an empty position keeps the invariant.
LEMMA CloseLenderPositionType ==
    ASSUME TypeInv, NEW l \in Lenders, CloseLenderPosition(l)
    PROVE  TypeInv'
<1> USE DEF TypeInv, TypeOK
<1>1. ConfigTypeOK' /\ AccrualTypeOK' /\ DebtTypeOK' /\ TokenTypeOK'
  BY DEF CloseLenderPosition, ConfigTypeOK, AccrualTypeOK, DebtTypeOK, TokenTypeOK,
         configVars, accrualVars, debtVars, whitelistVars, tokenVars
<1>2. SupplyTypeOK' /\ HaircutTypeOK'
  BY WadPositive DEF CloseLenderPosition, SupplyTypeOK, HaircutTypeOK
<1>3. AnchorsNotAhead'
  BY DEF CloseLenderPosition, AnchorsNotAhead, HaircutTypeOK
<1>4. QED
  BY <1>1, <1>2, <1>3

\* The sweep of the fees takes at most the fees and at most the surplus.
LEMMA FeesPayableRange ==
    ASSUME TypeOK
    PROVE  /\ FeesPayable \in 0 .. AccruedFees
           /\ FeesPayable <= SatSub(SatSub(vault, Normalized(scaled_total_supply,
                                                             AccruedScale)),
                                    haircut_accumulator)
<1> USE DEF TypeOK
<1> DEFINE held == Normalized(scaled_total_supply, AccruedScale)
           surplus == SatSub(SatSub(vault, held), haircut_accumulator)
<1>1. AccruedFees \in Nat
  BY AccruedFeesType
<1>2. held \in Nat
  BY AccruedScaleType, MulWadType DEF Normalized, SupplyTypeOK
<1>3. FeesPayable = Lesser(AccruedFees, surplus)
  BY DEF FeesPayable
<1>4. surplus \in Nat
  <2> HIDE DEF held
  <2>1. vault \in Nat /\ haircut_accumulator \in Nat
    BY ConstantTypes DEF TokenTypeOK, HaircutTypeOK
  <2>2. SatSub(vault, held) \in Nat
    BY <1>2, <2>1, SatSubRange
  <2>3. QED
    BY <2>1, <2>2, SatSubRange
<1> HIDE DEF surplus
<1>5. FeesPayable \in 0 .. AccruedFees /\ FeesPayable <= surplus
  BY <1>1, <1>3, <1>4 DEF Lesser
<1>6. QED
  BY <1>5 DEF surplus

\* The sweep of the fees keeps the invariant.
LEMMA CollectFeesType ==
    ASSUME TypeInv, CollectFees
    PROVE  TypeInv'
<1> USE DEF TypeInv, TypeOK
<1>1. FeesPayable \in 0 .. AccruedFees /\ AccruedFees \in Nat
  BY FeesPayableRange, AccruedFeesType
<1>2. ConfigTypeOK' /\ SupplyTypeOK' /\ DebtTypeOK' /\ HaircutTypeOK'
  BY DEF CollectFees, ConfigTypeOK, SupplyTypeOK, DebtTypeOK, HaircutTypeOK,
         configVars, supplyVars, debtVars, haircutVars, whitelistVars
<1>3. AccrualTypeOK'
  <2>1. accrued_protocol_fees' \in 0 .. AccruedFees
    BY <1>1 DEF CollectFees
  <2>2. QED
    BY <2>1, AccrueScaleType DEF CollectFees
<1>4. TokenTypeOK'
  <2>1. fee_authority \in Accounts
    BY ConstantTypes DEF ConfigTypeOK
  <2>2. QED
    BY <1>1, <2>1, PayOutType DEF CollectFees
<1>5. AnchorsNotAhead'
  BY DEF CollectFees, AnchorsNotAhead, haircutVars, supplyVars
<1>6. QED
  BY <1>2, <1>3, <1>4, <1>5

\* The sweep of the excess keeps the invariant.
LEMMA WithdrawExcessType ==
    ASSUME TypeInv, WithdrawExcess
    PROVE  TypeInv'
<1> USE DEF TypeInv, TypeOK
<1>1. /\ ConfigTypeOK' /\ AccrualTypeOK' /\ SupplyTypeOK' /\ DebtTypeOK'
      /\ HaircutTypeOK'
  BY DEF WithdrawExcess, ConfigTypeOK, AccrualTypeOK, SupplyTypeOK, DebtTypeOK,
         HaircutTypeOK, configVars, marketVars, accrualVars, supplyVars, debtVars,
         haircutVars, whitelistVars
<1>2. TokenTypeOK'
  <2>1. vault \in Nat /\ haircut_accumulator \in Nat
    BY ConstantTypes DEF TokenTypeOK, HaircutTypeOK
  <2>2. SatSub(vault, haircut_accumulator) \in Nat
    BY <2>1, SatSubRange
  <2>3. QED
    BY <2>2, ConstantTypes, PayOutType DEF WithdrawExcess
<1>3. AnchorsNotAhead'
  BY DEF WithdrawExcess, AnchorsNotAhead, marketVars, haircutVars, supplyVars
<1>4. QED
  BY <1>1, <1>2, <1>3

\* The managers' instructions, the environment and stuttering leave the market
\* alone: only the configuration, the whitelist entry, the clock and the vault
\* (a donation) can change.
MarketUntouched ==
    \/ \E status \in WhitelistStatuses, capacity \in Capacities :
         SetBorrowerWhitelist(status, capacity)
    \/ \E value \in PauseValues : SetPause(value)
    \/ \E rate \in FeeRates, authority \in FeeAuthorities :
         SetFeeConfig(rate, authority)
    \/ \E addresses \in BlockedSets : SetBlocked(addresses)
    \/ \E payer \in Payers, amount \in DonationAmounts : Donate(payer, amount)
    \/ \E time \in Times : Tick(time)
    \/ UNCHANGED vars

\* These steps leave the fields of the market and the recorded debt alone.
LEMMA MarketUntouchedKeeps ==
    ASSUME MarketUntouched
    PROVE  UNCHANGED marketVars /\ UNCHANGED current_borrowed
<1>1. UNCHANGED vars => UNCHANGED marketVars /\ UNCHANGED current_borrowed
  BY DEF vars, whitelistVars
<1>2. QED
  BY <1>1 DEF MarketUntouched, SetBorrowerWhitelist, SetPause, SetFeeConfig,
              SetBlocked, Donate, Tick, whitelistVars

\* Switches, donations and the clock keep the invariant.
LEMMA MarketUntouchedType ==
    ASSUME TypeInv, MarketUntouched
    PROVE  TypeInv'
<1> USE DEF TypeInv, TypeOK
<1>1. UNCHANGED marketVars
  BY MarketUntouchedKeeps
<1>2. AccrualTypeOK' /\ SupplyTypeOK' /\ HaircutTypeOK' /\ AnchorsNotAhead'
  BY <1>1 DEF AccrualTypeOK, SupplyTypeOK, HaircutTypeOK, AnchorsNotAhead,
              marketVars, accrualVars, supplyVars, haircutVars
<1>3. UNCHANGED debtVars
  BY <1>1 DEF marketVars
<1>4. ConfigTypeOK' /\ DebtTypeOK' /\ TokenTypeOK'
  <2>1. ASSUME NEW status \in WhitelistStatuses, NEW capacity \in Capacities,
               SetBorrowerWhitelist(status, capacity)
        PROVE  ConfigTypeOK' /\ DebtTypeOK' /\ TokenTypeOK'
    BY <1>3, <2>1, ConstantTypes DEF SetBorrowerWhitelist, ConfigTypeOK, DebtTypeOK,
       TokenTypeOK, configVars, debtVars, tokenVars
  <2>2. ASSUME NEW value \in PauseValues, SetPause(value)
        PROVE  ConfigTypeOK' /\ DebtTypeOK' /\ TokenTypeOK'
    BY <1>3, <2>2, ConstantTypes DEF SetPause, ConfigTypeOK, DebtTypeOK,
       TokenTypeOK, debtVars, whitelistVars, tokenVars
  <2>3. ASSUME NEW rate \in FeeRates, NEW authority \in FeeAuthorities,
               SetFeeConfig(rate, authority)
        PROVE  ConfigTypeOK' /\ DebtTypeOK' /\ TokenTypeOK'
    BY <1>3, <2>3, ConstantTypes DEF SetFeeConfig, ConfigTypeOK, DebtTypeOK,
       TokenTypeOK, debtVars, whitelistVars, tokenVars
  <2>4. ASSUME NEW addresses \in BlockedSets, SetBlocked(addresses)
        PROVE  ConfigTypeOK' /\ DebtTypeOK' /\ TokenTypeOK'
    BY <1>3, <2>4, ConstantTypes DEF SetBlocked, ConfigTypeOK, DebtTypeOK,
       TokenTypeOK, debtVars, whitelistVars, tokenVars
  <2>5. ASSUME NEW payer \in Payers, NEW amount \in DonationAmounts,
               Donate(payer, amount)
        PROVE  ConfigTypeOK' /\ DebtTypeOK' /\ TokenTypeOK'
    <3>1. payer \in Accounts /\ amount \in Nat
      BY ConstantTypes
    <3>2. TokenTypeOK'
      BY <2>5, <3>1, PayInType DEF Donate
    <3>3. QED
      BY <1>3, <2>5, <3>2 DEF Donate, ConfigTypeOK, DebtTypeOK, configVars, debtVars,
         whitelistVars
  <2>6. ASSUME NEW time \in Times, Tick(time)
        PROVE  ConfigTypeOK' /\ DebtTypeOK' /\ TokenTypeOK'
    BY <1>3, <2>6, ConstantTypes DEF Tick, ConfigTypeOK, DebtTypeOK, TokenTypeOK,
       configVars, debtVars, whitelistVars, tokenVars
  <2>7. CASE UNCHANGED vars
    BY <2>7 DEF vars, ConfigTypeOK, DebtTypeOK, TokenTypeOK, configVars, marketVars,
       debtVars, whitelistVars, tokenVars
  <2>8. QED
    BY <2>1, <2>2, <2>3, <2>4, <2>5, <2>6, <2>7 DEF MarketUntouched
<1>5. QED
  BY <1>2, <1>4

\* The steps of the market, sorted by what they do to it.
LEMMA StepCases ==
    ASSUME [Next]_vars
    PROVE  \/ \E l \in Lenders, amount \in DepositAmounts : Deposit(l, amount)
           \/ \E l \in Lenders, request \in WithdrawRequests, min_payout \in MinPayouts :
                Withdraw(l, request, min_payout)
           \/ \E l \in Lenders : ForceClosePosition(l)
           \/ \E l \in Lenders : PayClaim(l)
           \/ \E l \in Lenders : CloseLenderPosition(l)
           \/ \E amount \in BorrowAmounts : Borrow(amount)
           \/ \E payer \in Payers, amount \in RepayAmounts \cup InterestAmounts :
                Repay(payer, amount) \/ RepayInterest(payer, amount)
           \/ ReSettle
           \/ CollectFees
           \/ WithdrawExcess
           \/ MarketUntouched
<1>1. CASE \E l \in Lenders : LenderStep(l)
  BY <1>1 DEF LenderStep, ClaimHaircut
<1>2. CASE BorrowerStep
  BY <1>2 DEF BorrowerStep, ForceClaimHaircut
<1>3. CASE AnyoneStep
  BY <1>3 DEF AnyoneStep, MarketUntouched
<1>4. CASE ManagerStep
  BY <1>4 DEF ManagerStep, MarketUntouched
<1>5. CASE \E time \in Times : Tick(time)
  BY <1>5 DEF MarketUntouched
<1>6. CASE UNCHANGED vars
  BY <1>6 DEF MarketUntouched
<1>7. QED
  BY <1>1, <1>2, <1>3, <1>4, <1>5, <1>6 DEF Next

\* Every step keeps the invariant.
LEMMA TypeInvStep == TypeInv /\ [Next]_vars => TypeInv'
<1> SUFFICES ASSUME TypeInv, [Next]_vars PROVE TypeInv'
  OBVIOUS
<1>1. QED
  BY StepCases, DepositType, WithdrawType, ForceCloseType, PayClaimType,
     CloseLenderPositionType, BorrowType, PaymentType, ReSettleType,
     CollectFeesType, WithdrawExcessType, MarketUntouchedType DEF TypeInv

\* Every field of every account stays in its range, whatever order the
\* instructions run in: no checked arithmetic leaves a counter out of its type
\* and the factor is never outside 0..WAD.
THEOREM TypeCorrect == Spec => []TypeOK
<1>1. TypeInv => TypeOK
  BY DEF TypeInv
<1>2. QED
  BY <1>1, TypeInvInit, TypeInvStep, PTL DEF Spec

\* The invariant the other proof modules start from holds in every reachable
\* state.
LEMMA TypeInvInvariant == Spec => []TypeInv
  BY TypeInvInit, TypeInvStep, PTL DEF Spec

-----------------------------------------------------------------------------
(* What settlement fixes.                                                  *)

ClosedWhenSettled == Settled => last_accrual_timestamp = MaturityTimestamp

\* Before the first exit a market without lenders has earned no fees.
FeesNeedLenders ==
    ~Settled /\ scaled_total_supply = 0 => accrued_protocol_fees = 0

SettlementInv == TypeInv /\ ClosedWhenSettled /\ FeesNeedLenders

-----------------------------------------------------------------------------
\* On a settled market the clock is past maturity or behind the last accrual, and
\* past maturity the scale and the fees stand still.
LEMMA SettledStandsStill ==
    ASSUME TypeOK, Settled, ClosedWhenSettled, ClockNotBehind
    PROVE  /\ now >= MaturityTimestamp /\ EffectiveNow = MaturityTimestamp
           /\ AccruedScale = scale_factor
           /\ AccruedFees = accrued_protocol_fees
<1>1. EffectiveNow \in 0 .. MaturityTimestamp
  BY ElapsedGrowthType DEF TypeOK
<1>2. EffectiveNow = MaturityTimestamp
  BY <1>1, ConstantTypes DEF ClosedWhenSettled, ClockNotBehind
<1>3. now >= MaturityTimestamp
  BY <1>2, ConstantTypes DEF EffectiveNow, Lesser, TypeOK, ConfigTypeOK
<1>4. ElapsedGrowth = WAD
  <2>1. SatSub(EffectiveNow, last_accrual_timestamp) = 0
    BY <1>2, ConstantTypes DEF ClosedWhenSettled, SatSub
  <2>2. QED
    BY <2>1, GrowthAssumption DEF ElapsedGrowth
<1>5. AccruedScale = scale_factor
  BY <1>4, MulWadByOne DEF AccruedScale, TypeOK, AccrualTypeOK
<1>6. AccruedFees = accrued_protocol_fees
  <2> DEFINE held == Normalized(scaled_total_supply, scale_factor)
  <2>1. held \in Nat
    BY MulWadType DEF Normalized, TypeOK, SupplyTypeOK, AccrualTypeOK
  <2>2. ((ElapsedGrowth - WAD) * fee_rate_bps) \div BPS = 0
    <3>1. (ElapsedGrowth - WAD) * fee_rate_bps = 0
      BY <1>4, WadPositive DEF TypeOK, ConfigTypeOK
    <3>2. 0 * BPS = 0 /\ (0 * BPS) \div BPS = 0
      BY WadPositive, DivExact
    <3>3. QED
      BY <3>1, <3>2
  <2>3. AccruedFees = accrued_protocol_fees + MulWad(held, 0)
    BY <2>2 DEF AccruedFees
  <2> HIDE DEF held
  <2>4. MulWad(held, 0) = 0
    BY <2>1, WadPositive DEF MulWad
  <2>5. accrued_protocol_fees \in Nat
    BY ConstantTypes DEF TypeOK, AccrualTypeOK
  <2>6. QED
    BY <2>3, <2>4, <2>5
<1>7. QED
  BY <1>2, <1>3, <1>5, <1>6

\* So accrual leaves it as it is.
LEMMA SettledAccrual ==
    ASSUME TypeOK, Settled, ClosedWhenSettled, AccrueScale
    PROVE  /\ now >= MaturityTimestamp
           /\ AccruedScale = scale_factor /\ scale_factor' = scale_factor
           /\ AccruedFees = accrued_protocol_fees
           /\ last_accrual_timestamp' = MaturityTimestamp
  BY SettledStandsStill DEF AccrueScale

\* A market no lender is in earns no fees.
LEMMA NoLendersNoFees ==
    ASSUME TypeOK, scaled_total_supply = 0
    PROVE  AccruedFees = accrued_protocol_fees
<1> DEFINE rate == ((ElapsedGrowth - WAD) * fee_rate_bps) \div BPS
<1>1. Normalized(scaled_total_supply, scale_factor) = 0
  BY WadPositive DEF Normalized, MulWad, TypeOK, AccrualTypeOK
<1>2. rate \in Nat
  <2>1. ElapsedGrowth - WAD \in Nat
    BY ElapsedGrowthType, WadPositive DEF TypeOK
  <2>2. (ElapsedGrowth - WAD) * fee_rate_bps \in Nat
    BY <2>1 DEF TypeOK, ConfigTypeOK
  <2>3. QED
    BY <2>2, WadPositive, DivBounds
<1>3. AccruedFees = accrued_protocol_fees + MulWad(0, rate)
  BY <1>1 DEF AccruedFees
<1> HIDE DEF rate
<1>4. MulWad(0, rate) = 0
  BY <1>2, WadPositive DEF MulWad
<1>5. accrued_protocol_fees \in Nat
  BY ConstantTypes DEF TypeOK, AccrualTypeOK
<1>6. QED
  BY <1>3, <1>4, <1>5

\* An exit settles the market, at a factor in 1..WAD that is the old one if
\* there was one, and only once maturity has passed.
LEMMA ExitSettles ==
    ASSUME SettlementInv, NEW l \in Lenders, NEW amount,
           settlement_factor_wad = 0 => now >= MaturityTimestamp,
           LeaveMarket(l, amount, FactorForExit)
    PROVE  /\ settlement_factor_wad' = FactorForExit
           /\ settlement_factor_wad' \in 1 .. WAD
           /\ Settled => settlement_factor_wad' = settlement_factor_wad
           /\ last_accrual_timestamp' = MaturityTimestamp
<1>1. AccrueScale /\ settlement_factor_wad' = FactorForExit
  BY DEF LeaveMarket, AccrueInterest
<1>2. FactorForExit \in 1 .. WAD
      /\ (settlement_factor_wad # 0 => FactorForExit = settlement_factor_wad)
  BY FactorForExitRange DEF SettlementInv, TypeInv
<1>3. CASE Settled
  BY <1>1, <1>2, <1>3, SettledAccrual DEF SettlementInv, TypeInv, Settled
<1>4. CASE ~Settled
  <2>1. now \in Nat /\ now >= MaturityTimestamp
    BY <1>4 DEF Settled, SettlementInv, TypeInv, TypeOK, ConfigTypeOK
  <2>2. EffectiveNow = MaturityTimestamp
    BY <2>1, ConstantTypes DEF EffectiveNow, Lesser
  <2>3. QED
    BY <1>1, <1>2, <1>4, <2>2 DEF AccrueScale
<1>5. QED
  BY <1>3, <1>4

\* A voluntary exit satisfies what ExitSettles asks of an exit.
LEMMA WithdrawLeaves ==
    ASSUME SettlementInv, NEW l \in Lenders, NEW request \in WithdrawRequests,
           NEW min_payout, Withdraw(l, request, min_payout)
    PROVE  \E amount \in 0 .. scaled_balance[l] :
             /\ settlement_factor_wad = 0 => now >= MaturityTimestamp
             /\ LeaveMarket(l, amount, FactorForExit)
<1> DEFINE amount == IF request = 0 THEN scaled_balance[l] ELSE request
<1>1. /\ amount <= scaled_balance[l]
      /\ LeaveMarket(l, amount, FactorForExit)
      /\ now >= MaturityTimestamp
  BY DEF Withdraw
<1>2. amount \in 0 .. scaled_balance[l]
  BY <1>1, ConstantTypes DEF SettlementInv, TypeInv, TypeOK, SupplyTypeOK
<1> HIDE DEF amount
<1>3. QED
  BY <1>1, <1>2

\* So does a forced one.
LEMMA ForceCloseLeaves ==
    ASSUME SettlementInv, NEW l \in Lenders, ForceClosePosition(l)
    PROVE  \E amount \in 0 .. scaled_balance[l] :
             /\ settlement_factor_wad = 0 => now >= MaturityTimestamp
             /\ LeaveMarket(l, amount, FactorForExit)
<1>1. now >= MaturityTimestamp
  BY ConstantTypes DEF ForceClosePosition, GraceOver, SettlementInv, TypeInv, TypeOK,
     ConfigTypeOK
<1>2. scaled_balance[l] \in 0 .. scaled_balance[l]
  BY DEF SettlementInv, TypeInv, TypeOK, SupplyTypeOK
<1>3. QED
  BY <1>1, <1>2 DEF ForceClosePosition

-----------------------------------------------------------------------------
\* A new market is not settled and has earned no fees.
LEMMA SettlementInvInit == Init => SettlementInv
<1>1. Init => ClosedWhenSettled /\ FeesNeedLenders
  BY DEF Init, ClosedWhenSettled, FeesNeedLenders, Settled
<1>2. QED
  BY <1>1, TypeInvInit DEF SettlementInv

\* Only an exit settles a market, past maturity and with the accrual done; only
\* a market with lenders earns fees.
LEMMA SettlementInvStep == SettlementInv /\ [Next]_vars => SettlementInv'
<1> SUFFICES ASSUME SettlementInv, [Next]_vars
             PROVE  ClosedWhenSettled' /\ FeesNeedLenders'
  BY TypeInvStep DEF SettlementInv
<1> USE DEF SettlementInv
<1>1. TypeOK
  BY DEF TypeInv
<1>2. ASSUME NEW l \in Lenders, NEW amount \in DepositAmounts, Deposit(l, amount)
      PROVE  ClosedWhenSettled' /\ FeesNeedLenders'
  <2>1. now < MaturityTimestamp /\ AccrueScale
    BY <1>2 DEF Deposit, AccrueInterest
  <2>2. ~Settled
    BY <1>1, <2>1, SettledAccrual, ConstantTypes DEF TypeOK, ConfigTypeOK
  <2>3. ~Settled'
    BY <1>2, <2>2 DEF Deposit, Settled
  <2>4. scaled_total_supply' # 0
    <3> DEFINE scaled == (amount * WAD) \div AccruedScale
    <3>1. scaled > 0 /\ scaled_total_supply' = scaled_total_supply + scaled
      BY <1>2 DEF Deposit
    <3>2. scaled \in Nat
      <4>1. AccruedScale \in Nat \ {0}
        BY <1>1, AccruedScaleType, WadPositive DEF TypeOK
      <4>2. amount * WAD \in Nat
        BY ConstantTypes, WadPositive
      <4>3. QED
        BY <4>1, <4>2, DivBounds
    <3> HIDE DEF scaled
    <3>3. QED
      BY <1>1, <3>1, <3>2 DEF TypeOK, SupplyTypeOK
  <2>5. QED
    BY <2>3, <2>4 DEF ClosedWhenSettled, FeesNeedLenders
<1>3. ASSUME NEW l \in Lenders, NEW amount \in 0 .. scaled_balance[l],
             settlement_factor_wad = 0 => now >= MaturityTimestamp,
             LeaveMarket(l, amount, FactorForExit)
      PROVE  ClosedWhenSettled' /\ FeesNeedLenders'
  BY <1>3, ExitSettles DEF ClosedWhenSettled, FeesNeedLenders, Settled
<1>4. ASSUME NEW l \in Lenders, PayClaim(l)
      PROVE  ClosedWhenSettled' /\ FeesNeedLenders'
  BY <1>4 DEF PayClaim, accrualVars, supplyVars, ClosedWhenSettled,
              FeesNeedLenders, Settled
<1>5. ASSUME NEW l \in Lenders, CloseLenderPosition(l)
      PROVE  ClosedWhenSettled' /\ FeesNeedLenders'
  BY <1>5 DEF CloseLenderPosition, accrualVars, ClosedWhenSettled,
              FeesNeedLenders, Settled
<1>6. ASSUME AccrueInterest, UNCHANGED <<scaled_total_supply, settlement_factor_wad>>
      PROVE  ClosedWhenSettled' /\ FeesNeedLenders'
  BY <1>1, <1>6, SettledAccrual, NoLendersNoFees
     DEF AccrueInterest, ClosedWhenSettled, FeesNeedLenders, Settled
<1>7. ASSUME NEW amount \in BorrowAmounts, Borrow(amount)
      PROVE  ClosedWhenSettled' /\ FeesNeedLenders'
  BY <1>6, <1>7 DEF Borrow, supplyVars
<1>8. ASSUME NEW payer, NEW amount,
             Repay(payer, amount) \/ RepayInterest(payer, amount)
      PROVE  ClosedWhenSettled' /\ FeesNeedLenders'
  BY <1>6, <1>8 DEF Repay, RepayInterest, CountPayment, supplyVars
<1>9. ASSUME ReSettle
      PROVE  ClosedWhenSettled' /\ FeesNeedLenders'
  <2>1. Settled /\ AccrueScale
    BY <1>9 DEF ReSettle, AccrueInterest, Settled
  <2>2. last_accrual_timestamp' = MaturityTimestamp
    BY <1>1, <2>1, SettledAccrual
  <2>3. Settled'
    BY <1>1, <1>9, ReSettleType DEF Settled, TypeInv, TypeOK, HaircutTypeOK
  <2>4. QED
    BY <2>2, <2>3 DEF ClosedWhenSettled, FeesNeedLenders
<1>10. ASSUME CollectFees
       PROVE  ClosedWhenSettled' /\ FeesNeedLenders'
  <2>1. /\ AccrueScale /\ FeesPayable > 0
        /\ accrued_protocol_fees' = AccruedFees - FeesPayable
        /\ UNCHANGED <<supplyVars, settlement_factor_wad>>
    BY <1>10 DEF CollectFees
  <2>2. ClosedWhenSettled'
    BY <1>1, <2>1, SettledAccrual DEF ClosedWhenSettled, Settled
  <2>3. ASSUME ~Settled, scaled_total_supply = 0
        PROVE  FALSE
    <3>1. AccruedFees = 0
      BY <1>1, <2>3, NoLendersNoFees DEF FeesNeedLenders
    <3>2. QED
      BY <1>1, <2>1, <3>1, FeesPayableRange
  <2>4. FeesNeedLenders'
    BY <2>1, <2>3 DEF FeesNeedLenders, Settled, supplyVars
  <2>5. QED
    BY <2>2, <2>4
<1>11. ASSUME UNCHANGED marketVars
       PROVE  ClosedWhenSettled' /\ FeesNeedLenders'
  BY <1>11 DEF marketVars, accrualVars, supplyVars, ClosedWhenSettled,
               FeesNeedLenders, Settled
<1>12. WithdrawExcess => ClosedWhenSettled' /\ FeesNeedLenders'
  BY <1>11 DEF WithdrawExcess
<1>13. MarketUntouched => ClosedWhenSettled' /\ FeesNeedLenders'
  BY <1>11, MarketUntouchedKeeps
<1>14. QED
  BY StepCases, WithdrawLeaves, ForceCloseLeaves, <1>2, <1>3, <1>4, <1>5, <1>7,
     <1>8, <1>9, <1>10, <1>12, <1>13

\* A reachable settled market is past maturity and fully accrued.
LEMMA SettlementInvariant == Spec => []SettlementInv
  BY SettlementInvInit, SettlementInvStep, PTL DEF Spec

-----------------------------------------------------------------------------
\* The factor of a settled market changes only in a re-settlement, upwards.
LEMMA FactorStep ==
    ASSUME SettlementInv, [Next]_vars, Settled
    PROVE  settlement_factor_wad' >= settlement_factor_wad
<1>1. settlement_factor_wad \in Nat
  BY WadPositive DEF SettlementInv, TypeInv, TypeOK, HaircutTypeOK
<1>2. ASSUME NEW l \in Lenders, NEW amount \in 0 .. scaled_balance[l],
             settlement_factor_wad = 0 => now >= MaturityTimestamp,
             LeaveMarket(l, amount, FactorForExit)
      PROVE  settlement_factor_wad' = settlement_factor_wad
  BY <1>2, ExitSettles
<1>3. ReSettle => settlement_factor_wad' > settlement_factor_wad
  BY ReSettleType DEF SettlementInv
<1>4. \/ \E l \in Lenders, amount \in DepositAmounts : Deposit(l, amount)
      \/ \E l \in Lenders : PayClaim(l)
      \/ \E l \in Lenders : CloseLenderPosition(l)
      \/ \E amount \in BorrowAmounts : Borrow(amount)
      \/ \E payer \in Payers, amount \in RepayAmounts \cup InterestAmounts :
           Repay(payer, amount) \/ RepayInterest(payer, amount)
      \/ CollectFees
      => settlement_factor_wad' = settlement_factor_wad
  BY DEF Deposit, PayClaim, CloseLenderPosition, Borrow, Repay, RepayInterest,
         CountPayment, CollectFees
<1>5. WithdrawExcess \/ MarketUntouched => settlement_factor_wad' = settlement_factor_wad
  BY MarketUntouchedKeeps DEF WithdrawExcess, marketVars
<1>6. settlement_factor_wad' = settlement_factor_wad
        \/ settlement_factor_wad' > settlement_factor_wad
  BY StepCases, WithdrawLeaves, ForceCloseLeaves, <1>2, <1>3, <1>4, <1>5
<1>7. settlement_factor_wad' \in Nat
  BY TypeInvStep, WadPositive DEF SettlementInv, TypeInv, TypeOK, HaircutTypeOK
<1>8. QED
  BY <1>1, <1>6, <1>7

\* A settled factor never falls and is never forgotten, whoever exits, repays,
\* claims or settles again, in any order: what was promised stays promised.
THEOREM FactorMonotone == Spec => FactorNeverFalls
<1>1. SettlementInv /\ [Next]_vars
        => [Settled => settlement_factor_wad' >= settlement_factor_wad]_vars
  BY FactorStep
<1>2. QED
  BY <1>1, SettlementInvariant, PTL DEF Spec, FactorNeverFalls

-----------------------------------------------------------------------------
\* On a settled market nothing accrues, nobody deposits and nobody draws.
LEMMA ClosedEntryStep ==
    ASSUME SettlementInv, [Next]_vars, Settled
    PROVE  /\ scale_factor' = scale_factor
           /\ total_borrowed' = total_borrowed
           /\ accrued_protocol_fees' <= accrued_protocol_fees
           /\ \A l \in Lenders : scaled_balance'[l] <= scaled_balance[l]
<1> DEFINE Goal == /\ scale_factor' = scale_factor
                   /\ total_borrowed' = total_borrowed
                   /\ accrued_protocol_fees' <= accrued_protocol_fees
                   /\ \A l \in Lenders : scaled_balance'[l] <= scaled_balance[l]
<1> USE DEF SettlementInv, TypeInv
<1>1. /\ accrued_protocol_fees \in Nat /\ scaled_balance \in [Lenders -> Nat]
      /\ now \in Nat
  BY ConstantTypes DEF TypeOK, AccrualTypeOK, SupplyTypeOK, ConfigTypeOK
<1>2. AccrueScale => /\ now >= MaturityTimestamp
                     /\ scale_factor' = scale_factor
                     /\ AccruedFees = accrued_protocol_fees
  BY SettledAccrual
<1>3. ASSUME NEW l \in Lenders, NEW amount \in DepositAmounts, Deposit(l, amount)
      PROVE  Goal
  BY <1>1, <1>2, <1>3, ConstantTypes DEF Deposit, AccrueInterest
<1>4. ASSUME NEW l \in Lenders, NEW amount \in 0 .. scaled_balance[l],
             LeaveMarket(l, amount, FactorForExit)
      PROVE  Goal
  <2>1. /\ AccrueInterest /\ total_borrowed' = total_borrowed
        /\ scaled_balance' = [scaled_balance EXCEPT ![l] = scaled_balance[l] - amount]
    BY <1>4 DEF LeaveMarket, BalanceAfterExit, debtVars
  <2>2. \A k \in Lenders : scaled_balance'[k] <= scaled_balance[k]
    BY <1>1, <2>1
  <2>3. QED
    BY <1>1, <1>2, <2>1, <2>2 DEF AccrueInterest
<1>5. ASSUME NEW l \in Lenders, PayClaim(l) \/ CloseLenderPosition(l)
      PROVE  Goal
  <2>1. UNCHANGED <<accrualVars, debtVars, scaled_balance>>
    BY <1>5 DEF PayClaim, CloseLenderPosition, supplyVars
  <2>2. QED
    BY <1>1, <2>1 DEF accrualVars, debtVars
<1>6. ASSUME NEW amount \in BorrowAmounts, Borrow(amount)
      PROVE  Goal
  BY <1>1, <1>2, <1>6, ConstantTypes DEF Borrow, AccrueInterest
<1>7. ASSUME NEW payer, NEW amount,
             Repay(payer, amount) \/ RepayInterest(payer, amount)
      PROVE  Goal
  <2>1. /\ AccrueInterest /\ total_borrowed' = total_borrowed
        /\ scaled_balance' = scaled_balance
    BY <1>7 DEF Repay, RepayInterest, CountPayment, supplyVars
  <2>2. QED
    BY <1>1, <1>2, <2>1 DEF AccrueInterest
<1>8. ASSUME ReSettle
      PROVE  Goal
  <2>1. /\ AccrueInterest /\ total_borrowed' = total_borrowed
        /\ scaled_balance' = scaled_balance
    BY <1>8 DEF ReSettle, supplyVars, debtVars
  <2>2. QED
    BY <1>1, <1>2, <2>1 DEF AccrueInterest
<1>9. ASSUME CollectFees
      PROVE  Goal
  <2>1. /\ AccrueScale /\ total_borrowed' = total_borrowed
        /\ scaled_balance' = scaled_balance
        /\ accrued_protocol_fees' = AccruedFees - FeesPayable
    BY <1>9 DEF CollectFees, supplyVars, debtVars
  <2>2. FeesPayable \in 0 .. AccruedFees
    BY FeesPayableRange
  <2>3. QED
    BY <1>1, <1>2, <2>1, <2>2
<1>10. ASSUME UNCHANGED marketVars
       PROVE  Goal
  BY <1>1, <1>10 DEF marketVars, accrualVars, debtVars, supplyVars
<1>11. WithdrawExcess \/ MarketUntouched => Goal
  BY <1>10, MarketUntouchedKeeps DEF WithdrawExcess
<1>12. QED
  <2> HIDE DEF Goal
  <2>1. Goal
    BY StepCases, WithdrawLeaves, ForceCloseLeaves, <1>3, <1>4, <1>5, <1>6, <1>7,
       <1>8, <1>9, <1>11
  <2>2. QED
    BY <2>1 DEF Goal

\* After the first exit no instruction, and no movement of the clock, changes
\* the scale the factor was computed with, draws more debt, earns fees or adds
\* to a balance.
THEOREM SettlementIsFinal == Spec => SettlementClosesEntry
<1>1. SettlementInv /\ [Next]_vars
        => [Settled => /\ scale_factor' = scale_factor
                       /\ total_borrowed' = total_borrowed
                       /\ accrued_protocol_fees' <= accrued_protocol_fees
                       /\ \A l \in Lenders : scaled_balance'[l] <= scaled_balance[l]]_vars
  BY ClosedEntryStep
<1>2. QED
  BY <1>1, SettlementInvariant, PTL DEF Spec, SettlementClosesEntry

-----------------------------------------------------------------------------
\* Only CollectFees and WithdrawExcess pay anybody but a lender once draws are
\* over.
LEMMA SurplusStep ==
    ASSUME SettlementInv, [Next]_vars, Settled \/ now >= MaturityTimestamp,
           NEW a \in Accounts \ Lenders, wallet'[a] > wallet[a]
    PROVE  /\ settlement_factor_wad = WAD
           /\ vault' >= TotalNormalized' + haircut_accumulator'
<1> USE DEF SettlementInv, TypeInv
<1>1. /\ wallet \in [Accounts -> Nat] /\ vault \in Nat /\ haircut_accumulator \in Nat
      /\ now \in Nat /\ scaled_total_supply \in Nat
  BY ConstantTypes DEF TypeOK, TokenTypeOK, HaircutTypeOK, ConfigTypeOK, SupplyTypeOK
<1>2. ASSUME UNCHANGED wallet
      PROVE  FALSE
  BY <1>1, <1>2
<1>3. ASSUME NEW l \in Lenders, NEW amount, PayOut(l, amount)
      PROVE  FALSE
  BY <1>1, <1>3 DEF PayOut
<1>4. ASSUME NEW account \in Accounts, NEW amount \in Nat, PayIn(account, amount)
      PROVE  FALSE
  BY <1>1, <1>4 DEF PayIn
<1>5. ASSUME NEW l \in Lenders, NEW amount \in DepositAmounts, Deposit(l, amount)
      PROVE  FALSE
  BY <1>4, <1>5, ConstantTypes DEF Deposit
<1>6. ASSUME NEW l \in Lenders, NEW amount, LeaveMarket(l, amount, FactorForExit)
      PROVE  FALSE
  BY <1>3, <1>6 DEF LeaveMarket
<1>7. ASSUME NEW l \in Lenders, PayClaim(l)
      PROVE  FALSE
  BY <1>3, <1>7 DEF PayClaim
<1>8. ASSUME NEW amount \in BorrowAmounts, Borrow(amount)
      PROVE  FALSE
  BY <1>1, <1>8, SettledAccrual, ConstantTypes DEF Borrow, AccrueInterest
<1>9. ASSUME NEW payer \in Payers, NEW amount \in RepayAmounts \cup InterestAmounts,
             Repay(payer, amount) \/ RepayInterest(payer, amount)
      PROVE  FALSE
  BY <1>4, <1>9, ConstantTypes DEF Repay, RepayInterest, CountPayment
<1>10. (\E l \in Lenders : CloseLenderPosition(l)) \/ ReSettle => UNCHANGED wallet
  BY DEF CloseLenderPosition, ReSettle, tokenVars
<1>11. MarketUntouched => UNCHANGED wallet
                \/ \E payer \in Payers, amount \in DonationAmounts : PayIn(payer, amount)
  BY DEF MarketUntouched, SetBorrowerWhitelist, SetPause, SetFeeConfig, SetBlocked,
         Donate, Tick, vars, tokenVars
<1>12. ~MarketUntouched
  BY <1>2, <1>4, <1>11, ConstantTypes
<1>13. CollectFees \/ WithdrawExcess
  BY StepCases, WithdrawLeaves, ForceCloseLeaves, <1>2, <1>5, <1>6, <1>7, <1>8, <1>9,
     <1>10, <1>12
<1>14. CASE CollectFees
  <2> DEFINE held == Normalized(scaled_total_supply, AccruedScale)
  <2>1. FeesPayable \in Nat /\ FeesPayable > 0
        /\ FeesPayable <= SatSub(SatSub(vault, held), haircut_accumulator)
    BY <1>14, FeesPayableRange, AccruedFeesType DEF CollectFees, TypeOK
  <2>2. held \in Nat
    BY <1>1, AccruedScaleType, MulWadType DEF Normalized, TypeOK
  <2>3. TotalNormalized' = held /\ haircut_accumulator' = haircut_accumulator
        /\ vault' = vault - FeesPayable
    BY <1>14 DEF CollectFees, AccrueScale, TotalNormalized, Normalized, MulWad,
                 supplyVars, haircutVars, PayOut
  <2> HIDE DEF held
  <2>4. vault' >= TotalNormalized' + haircut_accumulator'
    BY <1>1, <2>1, <2>2, <2>3 DEF SatSub
  <2>5. settlement_factor_wad = WAD
    <3>1. CASE Settled
      BY <1>14, <3>1 DEF CollectFees, Settled
    <3>2. CASE ~Settled
      <4>1. scaled_total_supply = 0
        BY <1>1, <1>14, <3>2, WadPositive DEF CollectFees, Settled
      <4>2. AccruedFees = 0
        BY <3>2, <4>1, NoLendersNoFees DEF FeesNeedLenders
      <4>3. QED
        BY <2>1, <4>2, FeesPayableRange
    <3>3. QED
      BY <3>1, <3>2
  <2>6. QED
    BY <2>4, <2>5
<1>15. CASE WithdrawExcess
  <2>1. /\ settlement_factor_wad = WAD /\ scaled_total_supply = 0
        /\ SatSub(vault, haircut_accumulator) > 0
        /\ vault' = vault - SatSub(vault, haircut_accumulator)
        /\ UNCHANGED <<scaled_total_supply, scale_factor, haircut_accumulator>>
    BY <1>15 DEF WithdrawExcess, PayOut, marketVars, supplyVars, accrualVars, haircutVars
  <2>2. TotalNormalized' = 0
    <3>1. TotalNormalized' = MulWad(0, scale_factor)
      BY <2>1 DEF TotalNormalized, Normalized, MulWad
    <3>2. MulWad(0, scale_factor) = 0
      BY WadPositive DEF MulWad, TypeOK, AccrualTypeOK
    <3>3. QED
      BY <3>1, <3>2
  <2>3. vault' = haircut_accumulator
    BY <1>1, <2>1 DEF SatSub
  <2>4. QED
    BY <1>1, <2>1, <2>2, <2>3
<1>16. QED
  BY <1>13, <1>14, <1>15

\* Past maturity, or once settled, the borrower and the fee authority are paid
\* only at factor WAD and only from what lies above every lender's claim, the
\* departed lenders' included.
THEOREM LendersComeFirst == Spec => OnlySurplusLeaves
<1>1. SettlementInv /\ [Next]_vars
        => [(Settled \/ now >= MaturityTimestamp) =>
              \A a \in Accounts \ Lenders : wallet'[a] > wallet[a] =>
                /\ settlement_factor_wad = WAD
                /\ vault' >= TotalNormalized' + haircut_accumulator']_vars
  BY SurplusStep
<1>2. QED
  BY <1>1, SettlementInvariant, PTL DEF Spec, OnlySurplusLeaves

-----------------------------------------------------------------------------
(* The books.                                                              *)

\* An account that does not exist holds nothing, so opening it anew (a deposit
\* after close_lender_position) forgets nothing.
UnopenedHoldNothing ==
    \A l \in Lenders : l \notin opened => scaled_balance[l] = 0

BooksInv ==
    /\ TypeInv
    /\ UnopenedHoldNothing
    /\ SupplyIsSumOfBalances
    /\ AccumulatorIsSumOfOwed
    /\ HaircutStateIsSumOfContributions

-----------------------------------------------------------------------------
\* TotalOfUpdate and EntryAtMostTotal for the lenders of the market.
LEMMA LendersTotal ==
    ASSUME NEW f \in [Lenders -> Nat], NEW l \in Lenders, NEW v \in Nat
    PROVE  /\ Total(f) \in Nat /\ f[l] <= Total(f)
           /\ Total([f EXCEPT ![l] = v]) = Total(f) - f[l] + v
<1>1. IsFiniteSet(Lenders)
  BY MarketAssumption
<1>2. Total(f) \in Nat /\ f[l] <= Total(f)
  BY <1>1, EntryAtMostTotal
<1>3. Total([f EXCEPT ![l] = v]) = Total(f) - f[l] + v
  BY <1>1, TotalOfUpdate
<1>4. QED
  BY <1>2, <1>3

\* Moving one debt to a new size and anchor moves both sums to match.
LEMMA ReanchorSums ==
    ASSUME HaircutTypeOK, HaircutStateIsSumOfContributions, NEW l \in Lenders,
           NEW new_owed \in 0 .. U64Max, NEW sf \in 0 .. WAD, NEW new_sf \in 0 .. WAD,
           Reanchor(l, new_owed, sf), new_owed = 0 \/ new_sf = sf,
           withdrawal_sf' = [withdrawal_sf EXCEPT ![l] = new_sf]
    PROVE  HaircutStateIsSumOfContributions'
<1> DEFINE W == [k \in Lenders |-> Weight(haircut_owed[k], withdrawal_sf[k])]
           O == [k \in Lenders |-> Offset(haircut_owed[k], withdrawal_sf[k])]
           newW == Weight(new_owed, sf)
           newO == Offset(new_owed, sf)
<1>1. /\ haircut_owed \in [Lenders -> 0 .. U64Max] /\ new_owed \in Nat
      /\ withdrawal_sf \in [Lenders -> 0 .. WAD]
      /\ haircut_owed' = [haircut_owed EXCEPT ![l] = new_owed]
      /\ claim_weight_sum' = WeightsWithout(l) + newW
      /\ claim_offset_sum' = OffsetsWithout(l) + newO
  BY ConstantTypes DEF Reanchor, HaircutTypeOK
<1>2. \A k \in Lenders : haircut_owed[k] \in Nat
  BY <1>1, ConstantTypes
<1>3. W \in [Lenders -> Nat] /\ O \in [Lenders -> Nat]
  BY <1>1, <1>2, ContributionType
<1>4. newW \in Nat /\ newO \in Nat
  BY <1>1, ContributionType
<1>5. /\ newW = Weight(new_owed, new_sf)
      /\ newO = Offset(new_owed, new_sf)
  <2>1. CASE new_sf = sf
    BY <2>1
  <2>2. CASE new_owed = 0
    <3>1. Weight(new_owed, sf) = 0 /\ Weight(new_owed, new_sf) = 0
      BY <2>2 DEF Weight
    <3>2. MulWad(0, sf) = 0 /\ MulWad(0, new_sf) = 0
      BY WadPositive DEF MulWad
    <3>3. QED
      BY <3>1, <3>2 DEF Offset
  <2>3. QED
    BY <2>1, <2>2
<1>6. claim_weight_sum = Total(W) /\ claim_offset_sum = Total(O)
  BY DEF HaircutStateIsSumOfContributions
<1>7. [k \in Lenders |-> Weight(haircut_owed[k], withdrawal_sf[k])]'
        = [W EXCEPT ![l] = newW]
  <2> HIDE DEF newW, newO
  <2>1. \A k \in Lenders : Weight(haircut_owed'[k], withdrawal_sf'[k])
                             = IF k = l THEN newW ELSE W[k]
    BY <1>1, <1>5
  <2>2. QED
    BY <1>3, <2>1
<1>8. [k \in Lenders |-> Offset(haircut_owed[k], withdrawal_sf[k])]'
        = [O EXCEPT ![l] = newO]
  <2> HIDE DEF newW, newO
  <2>1. \A k \in Lenders : Offset(haircut_owed'[k], withdrawal_sf'[k])
                             = IF k = l THEN newO ELSE O[k]
    BY <1>1, <1>5
  <2>2. QED
    BY <1>3, <2>1
<1>9. /\ WeightsWithout(l) = SatSub(claim_weight_sum, W[l])
      /\ OffsetsWithout(l) = SatSub(claim_offset_sum, O[l])
  BY DEF WeightsWithout, OffsetsWithout
<1>10. W[l] \in Nat /\ O[l] \in Nat
  BY <1>3
<1> HIDE DEF W, O, newW, newO
<1>11. claim_weight_sum' = Total([W EXCEPT ![l] = newW])
  <2>1. /\ Total(W) \in Nat /\ W[l] <= Total(W)
        /\ Total([W EXCEPT ![l] = newW]) = Total(W) - W[l] + newW
    BY <1>3, <1>4, LendersTotal
  <2>2. QED
    BY <1>1, <1>6, <1>9, <1>10, <2>1 DEF SatSub
<1>12. claim_offset_sum' = Total([O EXCEPT ![l] = newO])
  <2>1. /\ Total(O) \in Nat /\ O[l] <= Total(O)
        /\ Total([O EXCEPT ![l] = newO]) = Total(O) - O[l] + newO
    BY <1>3, <1>4, LendersTotal
  <2>2. QED
    BY <1>1, <1>6, <1>9, <1>10, <2>1 DEF SatSub
<1>13. QED
  BY <1>7, <1>8, <1>11, <1>12 DEF HaircutStateIsSumOfContributions

\* An exit keeps all four sums.
LEMMA LeaveMarketBooks ==
    ASSUME BooksInv, NEW l \in Lenders, NEW amount \in 0 .. scaled_balance[l],
           l \in opened, LeaveMarket(l, amount, FactorForExit)
    PROVE  /\ UnopenedHoldNothing' /\ SupplyIsSumOfBalances'
           /\ AccumulatorIsSumOfOwed' /\ HaircutStateIsSumOfContributions'
<1> DEFINE sf == FactorForExit
           entitled == Normalized(amount, AccruedScale)
           gap == SatSub(entitled, MulWad(entitled, sf))
<1> USE DEF BooksInv, TypeInv, TypeOK
<1>1. /\ sf \in 1 .. WAD
      /\ settlement_factor_wad # 0 => sf = settlement_factor_wad
  BY FactorForExitRange
<1>2. /\ TrackHaircut(l, sf, gap) /\ opened' = opened
      /\ scaled_balance' = [scaled_balance EXCEPT ![l] = scaled_balance[l] - amount]
      /\ scaled_total_supply' = scaled_total_supply - amount
  BY DEF LeaveMarket, BalanceAfterExit
<1>3. gap \in Nat
  <2>1. amount \in Nat
    BY DEF SupplyTypeOK
  <2>2. entitled \in Nat
    BY <2>1, AccruedScaleType, MulWadType DEF Normalized
  <2>3. sf \in Nat
    BY <1>1, WadPositive
  <2> HIDE DEF entitled, sf
  <2>4. MulWad(entitled, sf) \in Nat
    BY <2>2, <2>3, MulWadType
  <2>5. QED
    BY <2>2, <2>4, SatSubRange
<1> HIDE DEF gap, sf
<1>4. UnopenedHoldNothing'
  BY <1>2 DEF UnopenedHoldNothing, SupplyTypeOK
<1>5. SupplyIsSumOfBalances'
  <2>1. /\ scaled_balance \in [Lenders -> Nat] /\ scaled_balance[l] \in Nat
        /\ amount \in Nat /\ scaled_balance[l] - amount \in Nat
    BY DEF SupplyTypeOK
  <2>2. Total(scaled_balance') = Total(scaled_balance) - scaled_balance[l]
                                   + (scaled_balance[l] - amount)
    BY <1>2, <2>1, LendersTotal
  <2>3. Total(scaled_balance) \in Nat
    BY <2>1, LendersTotal
  <2>4. QED
    BY <1>2, <2>1, <2>2, <2>3 DEF SupplyIsSumOfBalances
<1>6. CASE ~LeavesHaircut(sf, gap)
  <2>1. UNCHANGED haircutVars
    BY <1>2, <1>6 DEF TrackHaircut
  <2>2. AccumulatorIsSumOfOwed' /\ HaircutStateIsSumOfContributions'
    BY <2>1 DEF haircutVars, AccumulatorIsSumOfOwed, HaircutStateIsSumOfContributions
  <2>3. QED
    BY <1>4, <1>5, <2>2
<1>7. CASE LeavesHaircut(sf, gap)
  <2> DEFINE owed == OwedAfterExit(l, sf, gap)
  <2>1. /\ owed \in 0 .. U64Max
        /\ Reanchor(l, owed, sf)
        /\ withdrawal_sf' = [withdrawal_sf EXCEPT ![l] = sf]
        /\ haircut_accumulator' = ReservedAfterExit(l, sf, gap)
    BY <1>2, <1>7 DEF TrackHaircut
  <2>2. /\ Rebased(l, sf) \in 0 .. haircut_owed[l]
        /\ RecoveredAt(l, sf) = haircut_owed[l] - Rebased(l, sf)
    BY <1>1, RebasedRange
  <2>3. owed = Rebased(l, sf) + gap
    BY DEF OwedAfterExit
  <2>4. haircut_accumulator'
          = SatSub(haircut_accumulator, RecoveredAt(l, sf)) + gap
    BY <2>1 DEF ReservedAfterExit
  <2> HIDE DEF owed
  <2>5. sf \in 0 .. WAD /\ owed \in Nat
    BY <1>1, <2>1, WadPositive, ConstantTypes
  <2>6. HaircutStateIsSumOfContributions'
    BY <2>1, <2>5, ReanchorSums
  <2>7. AccumulatorIsSumOfOwed'
    <3>1. /\ haircut_owed \in [Lenders -> Nat] /\ haircut_owed[l] \in Nat
          /\ haircut_owed' = [haircut_owed EXCEPT ![l] = owed]
      BY <2>1, ConstantTypes DEF HaircutTypeOK, Reanchor
    <3>2. /\ Total(haircut_owed) \in Nat /\ haircut_owed[l] <= Total(haircut_owed)
          /\ Total(haircut_owed') = Total(haircut_owed) - haircut_owed[l] + owed
      BY <2>5, <3>1, LendersTotal
    <3>3. Rebased(l, sf) \in Nat /\ Rebased(l, sf) <= haircut_owed[l]
      BY <2>2, <3>1
    <3>4. QED
      BY <1>3, <2>2, <2>3, <2>4, <3>1, <3>2, <3>3 DEF AccumulatorIsSumOfOwed, SatSub
  <2>8. QED
    BY <1>4, <1>5, <2>6, <2>7
<1>8. QED
  BY <1>6, <1>7

\* A claim keeps them too.
LEMMA PayClaimBooks ==
    ASSUME BooksInv, NEW l \in Lenders, PayClaim(l)
    PROVE  /\ UnopenedHoldNothing' /\ SupplyIsSumOfBalances'
           /\ AccumulatorIsSumOfOwed' /\ HaircutStateIsSumOfContributions'
<1> DEFINE payout == ClaimablePayout(l)
           rest == haircut_owed[l] - payout
<1> USE DEF BooksInv, TypeInv, TypeOK
<1>1. /\ haircut_owed \in [Lenders -> Nat] /\ haircut_owed[l] \in 0 .. U64Max
      /\ payout \in 0 .. haircut_owed[l]
  BY ClaimablePayoutRange, ConstantTypes DEF HaircutTypeOK
<1>2. haircut_owed[l] \in Nat /\ payout \in Nat /\ rest \in Nat /\ rest \in 0 .. U64Max
  BY <1>1, ConstantTypes
<1>3. /\ Reanchor(l, rest, settlement_factor_wad)
      /\ withdrawal_sf' = [withdrawal_sf EXCEPT ![l] = AnchorAfterClaim(rest)]
      /\ haircut_accumulator' = haircut_accumulator - payout
      /\ UNCHANGED supplyVars
  BY DEF PayClaim
<1>4. rest = haircut_owed[l] - payout
  OBVIOUS
<1> HIDE DEF payout, rest
<1>5. UnopenedHoldNothing' /\ SupplyIsSumOfBalances'
  BY <1>3 DEF UnopenedHoldNothing, SupplyIsSumOfBalances, supplyVars
<1>6. HaircutStateIsSumOfContributions'
  <2>1. settlement_factor_wad \in 0 .. WAD
    BY DEF HaircutTypeOK
  <2>2. /\ AnchorAfterClaim(rest) \in 0 .. WAD
        /\ rest = 0 \/ AnchorAfterClaim(rest) = settlement_factor_wad
    BY <1>2, <2>1, WadPositive DEF AnchorAfterClaim
  <2>3. QED
    BY <1>2, <1>3, <2>1, <2>2, ReanchorSums
<1>7. AccumulatorIsSumOfOwed'
  <2>1. haircut_owed' = [haircut_owed EXCEPT ![l] = rest]
    BY <1>3 DEF Reanchor
  <2>2. /\ Total(haircut_owed) \in Nat
        /\ Total(haircut_owed') = Total(haircut_owed) - haircut_owed[l] + rest
    BY <1>1, <1>2, <2>1, LendersTotal
  <2>3. QED
    BY <1>2, <1>3, <1>4, <2>2 DEF AccumulatorIsSumOfOwed
<1>8. QED
  BY <1>5, <1>6, <1>7

\* A deposit adds to one balance and to the supply; a balance it starts was 0.
LEMMA DepositBooks ==
    ASSUME BooksInv, NEW l \in Lenders, NEW amount \in DepositAmounts,
           Deposit(l, amount)
    PROVE  /\ UnopenedHoldNothing' /\ SupplyIsSumOfBalances'
           /\ UNCHANGED haircutVars
<1> DEFINE scaled == (amount * WAD) \div AccruedScale
<1> USE DEF BooksInv, TypeInv, TypeOK
<1>1. scaled \in Nat
  <2>1. AccruedScale \in Nat \ {0}
    BY AccruedScaleType, WadPositive
  <2>2. amount * WAD \in Nat
    BY ConstantTypes, WadPositive
  <2>3. QED
    BY <2>1, <2>2, DivBounds
<1>2. /\ scaled_total_supply' = scaled_total_supply + scaled
      /\ opened' = opened \cup {l}
      /\ scaled_balance' = [scaled_balance EXCEPT
           ![l] = IF l \in opened THEN @ + scaled ELSE scaled]
      /\ UNCHANGED haircutVars
  BY DEF Deposit
<1> HIDE DEF scaled
<1>3. scaled_balance \in [Lenders -> Nat] /\ scaled_balance[l] \in Nat
  BY DEF SupplyTypeOK
<1>4. scaled_balance' = [scaled_balance EXCEPT ![l] = scaled_balance[l] + scaled]
  <2>1. CASE l \in opened
    BY <1>2, <2>1
  <2>2. CASE l \notin opened
    <3>1. scaled = scaled_balance[l] + scaled
      BY <1>1, <2>2 DEF UnopenedHoldNothing
    <3>2. QED
      BY <1>2, <2>2, <3>1
  <2>3. QED
    BY <2>1, <2>2
<1>5. UnopenedHoldNothing'
  BY <1>2, <1>3, <1>4 DEF UnopenedHoldNothing
<1>6. SupplyIsSumOfBalances'
  <2>1. scaled_balance[l] + scaled \in Nat
    BY <1>1, <1>3
  <2>2. /\ Total(scaled_balance) \in Nat
        /\ Total(scaled_balance')
             = Total(scaled_balance) - scaled_balance[l] + (scaled_balance[l] + scaled)
    BY <1>3, <1>4, <2>1, LendersTotal
  <2>3. QED
    BY <1>1, <1>2, <1>3, <2>2 DEF SupplyIsSumOfBalances
<1>7. QED
  BY <1>2, <1>5, <1>6

\* Closing a position drops an anchor that no debt uses.
LEMMA CloseBooks ==
    ASSUME BooksInv, NEW l \in Lenders, CloseLenderPosition(l)
    PROVE  /\ UnopenedHoldNothing' /\ SupplyIsSumOfBalances'
           /\ AccumulatorIsSumOfOwed' /\ HaircutStateIsSumOfContributions'
<1> USE DEF BooksInv, TypeInv, TypeOK
<1>1. /\ haircut_owed[l] = 0 /\ scaled_balance[l] = 0
      /\ opened' = opened \ {l}
      /\ withdrawal_sf' = [withdrawal_sf EXCEPT ![l] = 0]
      /\ UNCHANGED <<scaled_total_supply, scaled_balance, haircut_accumulator,
                     claim_weight_sum, claim_offset_sum, haircut_owed>>
  BY DEF CloseLenderPosition
<1>2. UnopenedHoldNothing' /\ SupplyIsSumOfBalances' /\ AccumulatorIsSumOfOwed'
  BY <1>1 DEF UnopenedHoldNothing, SupplyIsSumOfBalances, AccumulatorIsSumOfOwed
<1>3. HaircutStateIsSumOfContributions'
  <2>1. withdrawal_sf \in [Lenders -> 0 .. WAD] /\ withdrawal_sf[l] \in 0 .. WAD
    BY DEF HaircutTypeOK
  <2>2. /\ Weight(haircut_owed[l], withdrawal_sf[l]) = 0
        /\ Weight(haircut_owed[l], 0) = 0
    BY <1>1 DEF Weight
  <2>3. /\ Offset(haircut_owed[l], withdrawal_sf[l]) = 0
        /\ Offset(haircut_owed[l], 0) = 0
    BY <2>1, <2>2, WadPositive DEF Offset, MulWad
  <2>4. \A k \in Lenders :
          /\ Weight(haircut_owed'[k], withdrawal_sf'[k])
               = Weight(haircut_owed[k], withdrawal_sf[k])
          /\ Offset(haircut_owed'[k], withdrawal_sf'[k])
               = Offset(haircut_owed[k], withdrawal_sf[k])
    BY <1>1, <2>1, <2>2, <2>3
  <2>5. /\ [k \in Lenders |-> Weight(haircut_owed[k], withdrawal_sf[k])]'
             = [k \in Lenders |-> Weight(haircut_owed[k], withdrawal_sf[k])]
        /\ [k \in Lenders |-> Offset(haircut_owed[k], withdrawal_sf[k])]'
             = [k \in Lenders |-> Offset(haircut_owed[k], withdrawal_sf[k])]
    BY <2>4
  <2>6. QED
    BY <1>1, <2>5 DEF HaircutStateIsSumOfContributions
<1>4. QED
  BY <1>2, <1>3

-----------------------------------------------------------------------------
\* A new market has nothing on its books.
LEMMA BooksInvInit == Init => BooksInv
<1> SUFFICES ASSUME Init PROVE BooksInv
  OBVIOUS
<1>1. UnopenedHoldNothing
  BY DEF Init, UnopenedHoldNothing
<1>2. SupplyIsSumOfBalances /\ AccumulatorIsSumOfOwed
  BY TotalOfZeros DEF Init, SupplyIsSumOfBalances, AccumulatorIsSumOfOwed
<1>3. HaircutStateIsSumOfContributions
  <2>1. \A l \in Lenders : Weight(haircut_owed[l], withdrawal_sf[l]) = 0
    BY DEF Init, Weight
  <2>2. \A l \in Lenders : Offset(haircut_owed[l], withdrawal_sf[l]) = 0
    BY <2>1, WadPositive DEF Init, Offset, MulWad
  <2>3. /\ [l \in Lenders |-> Weight(haircut_owed[l], withdrawal_sf[l])]
             = [l \in Lenders |-> 0]
        /\ [l \in Lenders |-> Offset(haircut_owed[l], withdrawal_sf[l])]
             = [l \in Lenders |-> 0]
    BY <2>1, <2>2
  <2>4. QED
    BY <2>3, TotalOfZeros DEF Init, HaircutStateIsSumOfContributions
<1>4. QED
  BY <1>1, <1>2, <1>3, TypeInvInit DEF BooksInv

\* Every instruction keeps the books: exits, claims, deposits and closed accounts
\* move the sums by what they move on a position, the others move neither.
LEMMA BooksInvStep == BooksInv /\ [Next]_vars => BooksInv'
<1> DEFINE Books == /\ UnopenedHoldNothing /\ SupplyIsSumOfBalances
                    /\ AccumulatorIsSumOfOwed /\ HaircutStateIsSumOfContributions
<1> SUFFICES ASSUME BooksInv, [Next]_vars PROVE Books'
  BY TypeInvStep DEF BooksInv
<1>1. ASSUME UNCHANGED <<supplyVars, haircutVars>>
      PROVE  Books'
  BY <1>1 DEF BooksInv, UnopenedHoldNothing, SupplyIsSumOfBalances,
     AccumulatorIsSumOfOwed, HaircutStateIsSumOfContributions, supplyVars, haircutVars
<1>2. ASSUME NEW l \in Lenders, NEW amount \in DepositAmounts, Deposit(l, amount)
      PROVE  Books'
  <2>1. UnopenedHoldNothing' /\ SupplyIsSumOfBalances' /\ UNCHANGED haircutVars
    BY <1>2, DepositBooks
  <2>2. AccumulatorIsSumOfOwed' /\ HaircutStateIsSumOfContributions'
    BY <2>1 DEF BooksInv, AccumulatorIsSumOfOwed, HaircutStateIsSumOfContributions,
       haircutVars
  <2>3. QED
    BY <2>1, <2>2
<1>3. ASSUME NEW l \in Lenders, NEW request \in WithdrawRequests, NEW min_payout,
             Withdraw(l, request, min_payout)
      PROVE  Books'
  <2> DEFINE amount == IF request = 0 THEN scaled_balance[l] ELSE request
  <2>1. /\ l \in opened /\ amount <= scaled_balance[l]
        /\ LeaveMarket(l, amount, FactorForExit)
    BY <1>3 DEF Withdraw
  <2>2. amount \in 0 .. scaled_balance[l]
    BY <2>1, ConstantTypes DEF BooksInv, TypeInv, TypeOK, SupplyTypeOK
  <2> HIDE DEF amount
  <2>3. QED
    BY <2>1, <2>2, LeaveMarketBooks
<1>4. ASSUME NEW l \in Lenders, ForceClosePosition(l)
      PROVE  Books'
  <2>1. scaled_balance[l] \in 0 .. scaled_balance[l]
    BY DEF BooksInv, TypeInv, TypeOK, SupplyTypeOK
  <2>2. l \in opened /\ LeaveMarket(l, scaled_balance[l], FactorForExit)
    BY <1>4 DEF ForceClosePosition
  <2>3. QED
    BY <2>1, <2>2, LeaveMarketBooks
<1>5. ASSUME NEW l \in Lenders, PayClaim(l)
      PROVE  Books'
  BY <1>5, PayClaimBooks
<1>6. ASSUME NEW l \in Lenders, CloseLenderPosition(l)
      PROVE  Books'
  BY <1>6, CloseBooks
<1>7. \/ \E amount \in BorrowAmounts : Borrow(amount)
      \/ \E payer \in Payers, amount \in RepayAmounts \cup InterestAmounts :
           Repay(payer, amount) \/ RepayInterest(payer, amount)
      \/ ReSettle \/ CollectFees
      => UNCHANGED <<supplyVars, haircutVars>>
  BY DEF Borrow, Repay, RepayInterest, CountPayment, ReSettle, CollectFees
<1>8. WithdrawExcess \/ MarketUntouched => UNCHANGED <<supplyVars, haircutVars>>
  BY MarketUntouchedKeeps DEF WithdrawExcess, marketVars
<1>9. QED
  <2> HIDE DEF Books
  <2>1. QED
    BY StepCases, <1>1, <1>2, <1>3, <1>4, <1>5, <1>6, <1>7, <1>8

\* The books agree in every reachable state.
LEMMA BooksInvariant == Spec => []BooksInv
  BY BooksInvInit, BooksInvStep, PTL DEF Spec

\* The supply is the sum of the balances for every number of lenders and every
\* order of deposits, exits and closed accounts.
THEOREM SupplyAddsUp == Spec => []SupplyIsSumOfBalances
<1>1. BooksInv => SupplyIsSumOfBalances
  BY DEF BooksInv
<1>2. QED
  BY <1>1, BooksInvariant, PTL

\* The reserve the sweeps leave in the vault is the sum of the unpaid haircuts:
\* its saturating subtractions lose nothing.
THEOREM ReserveAddsUp == Spec => []AccumulatorIsSumOfOwed
<1>1. BooksInv => AccumulatorIsSumOfOwed
  BY DEF BooksInv
<1>2. QED
  BY <1>1, BooksInvariant, PTL

\* The HaircutState sums are the contributions of the debts now on the
\* positions, no more and no less, after any sequence of exits and claims.
THEOREM ContributionsAddUp == Spec => []HaircutStateIsSumOfContributions
<1>1. BooksInv => HaircutStateIsSumOfContributions
  BY DEF BooksInv
<1>2. QED
  BY <1>1, BooksInvariant, PTL

-----------------------------------------------------------------------------
\* Draws and principal repayments move the market's debt and the whitelist
\* entry alike, interest payments move neither, nothing else touches them.
LEMMA DebtStep ==
    ASSUME TypeInv, DebtMirrorsMarket, [Next]_vars
    PROVE  DebtMirrorsMarket'
<1>1. /\ total_borrowed \in Nat /\ total_repaid \in Nat
      /\ total_interest_repaid \in Nat /\ current_borrowed \in Nat
  BY DEF TypeInv, TypeOK, DebtTypeOK
<1>2. ASSUME UNCHANGED <<debtVars, current_borrowed>>
      PROVE  DebtMirrorsMarket'
  BY <1>2 DEF DebtMirrorsMarket, debtVars
<1>3. ASSUME NEW amount \in BorrowAmounts, Borrow(amount)
      PROVE  DebtMirrorsMarket'
  BY <1>1, <1>3, ConstantTypes DEF Borrow, DebtMirrorsMarket
<1>4. ASSUME NEW payer \in Payers, NEW amount \in RepayAmounts \cup InterestAmounts,
             Repay(payer, amount)
      PROVE  DebtMirrorsMarket'
  <2>1. /\ amount \in Nat
        /\ amount <= total_borrowed - (total_repaid - total_interest_repaid)
        /\ total_repaid' = total_repaid + amount
        /\ current_borrowed' = current_borrowed - amount
        /\ UNCHANGED <<total_borrowed, total_interest_repaid>>
    BY <1>4, ConstantTypes DEF Repay, CountPayment, PrincipalRepaid
  <2>2. QED
    BY <1>1, <2>1 DEF DebtMirrorsMarket
<1>5. ASSUME NEW payer \in Payers, NEW amount \in RepayAmounts \cup InterestAmounts,
             RepayInterest(payer, amount)
      PROVE  DebtMirrorsMarket'
  <2>1. /\ amount \in Nat
        /\ total_repaid' = total_repaid + amount
        /\ total_interest_repaid' = total_interest_repaid + amount
        /\ UNCHANGED <<total_borrowed, current_borrowed>>
    BY <1>5, ConstantTypes DEF RepayInterest, CountPayment
  <2>2. QED
    BY <1>1, <2>1 DEF DebtMirrorsMarket
<1>6. \/ \E l \in Lenders, amount \in DepositAmounts : Deposit(l, amount)
      \/ \E l \in Lenders, request \in WithdrawRequests, min_payout \in MinPayouts :
           Withdraw(l, request, min_payout)
      \/ \E l \in Lenders : ForceClosePosition(l)
      \/ \E l \in Lenders : PayClaim(l)
      \/ \E l \in Lenders : CloseLenderPosition(l)
      \/ ReSettle \/ CollectFees
      => UNCHANGED <<debtVars, current_borrowed>>
  BY DEF Deposit, Withdraw, ForceClosePosition, LeaveMarket, PayClaim,
         CloseLenderPosition, ReSettle, CollectFees, whitelistVars
<1>7. WithdrawExcess \/ MarketUntouched => UNCHANGED <<debtVars, current_borrowed>>
  BY MarketUntouchedKeeps DEF WithdrawExcess, marketVars, whitelistVars
<1>8. QED
  BY StepCases, <1>2, <1>3, <1>4, <1>5, <1>6, <1>7

\* What the whitelist entry says the borrower owes is what this market lent and
\* has not got back; interest payments free no capacity, whoever pays and in
\* whatever order.
THEOREM DebtAddsUp == Spec => []DebtMirrorsMarket
<1>1. Init => DebtMirrorsMarket
  BY DEF Init, DebtMirrorsMarket
<1>2. TypeInv /\ DebtMirrorsMarket /\ [Next]_vars => DebtMirrorsMarket'
  BY DebtStep
<1>3. QED
  BY <1>1, <1>2, TypeInvInvariant, PTL DEF Spec
=============================================================================
