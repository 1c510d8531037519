------------------------ MODULE MarketClearingProofs ------------------------
(***************************************************************************)
(* Proofs about clearing a market: what MarketClearing calls accepted is   *)
(* the guard of the instruction; a funded market never gets stuck and      *)
(* never goes back; and whatever its funds, the vault is short of what an  *)
(* exit asks by units only.                                                *)
(*                                                                         *)
(* Together with fairness the first two are what the liveness properties   *)
(* of MarketLiveness rest on: the instruction that is due is always        *)
(* accepted, and no step undoes what it did.                               *)
(***************************************************************************)
EXTENDS MarketClearing, MarketCoverProofs

(* An instruction is its checks and its writes, and the checks read only   *)
(* the state before it: an accepted instruction can be executed.           *)

AccrualEffect ==
    /\ scale_factor' = AccruedScale
    /\ last_accrual_timestamp' = EffectiveNow

ForceCloseEffect(l) ==
    LET amount == scaled_balance[l]
        gap == Gap(amount)
    IN  /\ AccrualEffect /\ accrued_protocol_fees' = AccruedFees
        /\ settlement_factor_wad' = FactorForExit
        /\ IF LeavesHaircut(FactorForExit, gap)
           THEN /\ Reanchor(l, OwedAfterExit(l, FactorForExit, gap), FactorForExit)
                /\ withdrawal_sf' = [withdrawal_sf EXCEPT ![l] = FactorForExit]
                /\ haircut_accumulator' = ReservedAfterExit(l, FactorForExit, gap)
           ELSE UNCHANGED haircutVars
        /\ scaled_balance' = [scaled_balance EXCEPT ![l] = BalanceAfterExit(l, amount)]
        /\ scaled_total_supply' = scaled_total_supply - amount
        /\ vault' = vault - ExitPayout(l, amount)
        /\ wallet' = [wallet EXCEPT ![l] = @ + ExitPayout(l, amount)]
        /\ UNCHANGED <<now, configVars, opened, total_deposited, debtVars, whitelistVars>>

ClaimEffect(l) ==
    LET rest == haircut_owed[l] - ClaimablePayout(l)
    IN  /\ Reanchor(l, rest, settlement_factor_wad)
        /\ withdrawal_sf' = [withdrawal_sf EXCEPT ![l] = AnchorAfterClaim(rest)]
        /\ haircut_accumulator' = haircut_accumulator - ClaimablePayout(l)
        /\ vault' = vault - ClaimablePayout(l)
        /\ wallet' = [wallet EXCEPT ![l] = @ + ClaimablePayout(l)]
        /\ UNCHANGED <<now, configVars, accrualVars, supplyVars, debtVars,
                       settlement_factor_wad, whitelistVars>>

ReSettleEffect ==
    /\ AccrualEffect /\ accrued_protocol_fees' = AccruedFees
    /\ settlement_factor_wad' = FactorOnOffer
    /\ UNCHANGED <<now, configVars, supplyVars, debtVars, haircutVars, whitelistVars,
                   tokenVars>>

CollectFeesEffect ==
    /\ AccrualEffect /\ accrued_protocol_fees' = AccruedFees - FeesPayable
    /\ vault' = vault - FeesPayable
    /\ wallet' = [wallet EXCEPT ![fee_authority] = @ + FeesPayable]
    /\ UNCHANGED <<now, configVars, supplyVars, debtVars, settlement_factor_wad,
                   haircutVars, whitelistVars>>

WithdrawExcessEffect ==
    LET excess == SatSub(vault, haircut_accumulator)
    IN  /\ vault' = vault - excess
        /\ wallet' = [wallet EXCEPT ![Borrower] = @ + excess]
        /\ UNCHANGED <<now, configVars, marketVars, whitelistVars>>

\* The checks of force_close_position.
LEMMA ForceCloseIsGuarded ==
    ASSUME NEW l
    PROVE  ForceClosePosition(l) <=> ForceCloseAccepted(l) /\ ForceCloseEffect(l)
  BY DEF ForceClosePosition, LeaveMarket, TrackHaircut, AccrueInterest, AccrueScale,
         PayOut, ForceCloseAccepted, AccrualAccepted, ForceCloseEffect, AccrualEffect,
         ExitPayout, Gap, Entitled

\* The checks of force_claim_haircut.
LEMMA ForceClaimIsGuarded ==
    ASSUME NEW l
    PROVE  ForceClaimHaircut(l) <=> ForceClaimAccepted(l) /\ ClaimEffect(l)
  BY DEF ForceClaimHaircut, PayClaim, PayOut, ForceClaimAccepted, ClaimEffect

\* The checks of re_settle.
LEMMA ReSettleIsGuarded == ReSettle <=> ReSettleAccepted /\ ReSettleEffect
  BY DEF ReSettle, AccrueInterest, AccrueScale, ReSettleAccepted, AccrualAccepted,
         ReSettleEffect, AccrualEffect, FactorOnOffer

\* The checks of collect_fees.
LEMMA CollectFeesIsGuarded ==
    CollectFees <=> CollectFeesAccepted /\ CollectFeesEffect
  BY DEF CollectFees, AccrueScale, PayOut, CollectFeesAccepted, AccrualAccepted,
         CollectFeesEffect, AccrualEffect

\* The checks of withdraw_excess: a vault holds at least its own excess.
LEMMA WithdrawExcessIsGuarded ==
    ASSUME TypeOK
    PROVE  WithdrawExcess <=> WithdrawExcessAccepted /\ WithdrawExcessEffect
<1>1. SatSub(vault, haircut_accumulator) <= vault
  BY ConstantTypes, SatSubRange DEF TypeOK, TokenTypeOK, HaircutTypeOK
<1>2. QED
  BY <1>1 DEF WithdrawExcess, PayOut, WithdrawExcessAccepted, WithdrawExcessEffect

-----------------------------------------------------------------------------
(* A funded market never gets stuck.                                       *)

\* The bound of a haircut meets WAD at most one unit above the haircut.
LEMMA LineStopsAtDebt ==
    ASSUME NEW owed \in Nat, NEW anchor_sf \in 0 .. WAD,
           owed > 0 => anchor_sf < WAD
    PROVE  Weight(owed, anchor_sf) <= owed + Offset(owed, anchor_sf) + 1
<1> DEFINE d == WAD - anchor_sf
           w == Weight(owed, anchor_sf)
           o == Offset(owed, anchor_sf)
<1>1. w \in Nat /\ o \in Nat
  BY ContributionType
<1>2. CASE owed = 0
  <2>1. w = 0
    BY <1>2 DEF Weight
  <2>2. QED
    BY <1>1, <2>1
<1>3. CASE owed > 0
  <2>1. d \in Nat \ {0} /\ d <= WAD /\ anchor_sf \in Nat /\ WAD \in Nat \ {0}
    BY <1>3, WadPositive
  <2>2. owed * WAD \in Nat
    BY <2>1
  <2>3. w = (owed * WAD + d - 1) \div d
    BY <1>3, <2>1 DEF Weight
  <2>4. w * d <= owed * WAD + d - 1
    <3>1. owed * WAD + d - 1 \in Nat
      BY <2>1, <2>2
    <3> HIDE DEF w, d
    <3>2. QED
      BY <2>1, <2>3, <3>1, DivBounds
  <2>5. w * anchor_sf < o * WAD + WAD
    <3>1. w * anchor_sf \in Nat /\ o = (w * anchor_sf) \div WAD
      BY <1>1, <2>1 DEF Offset, MulWad
    <3> HIDE DEF w, o
    <3>2. QED
      BY <2>1, <3>1, DivBounds
  <2>6. w * WAD = w * anchor_sf + w * d
    <3> HIDE DEF w
    <3>1. QED
      BY <1>1, <2>1, Z3
  <2> HIDE DEF w, o, d
  <2>7. w * WAD < (owed + o + 2) * WAD
    <3>1. /\ w * d \in Nat /\ w * anchor_sf \in Nat /\ o * WAD \in Nat
          /\ w * WAD \in Nat
      BY <1>1, <2>1
    <3>2. (owed + o + 2) * WAD = owed * WAD + o * WAD + WAD + WAD
      BY <1>1, <2>1, Z3
    <3>3. QED
      BY <2>1, <2>2, <2>4, <2>5, <2>6, <3>1, <3>2
  <2>8. w < owed + o + 2
    <3>1. SUFFICES ASSUME owed + o + 2 <= w PROVE FALSE
      BY <1>1
    <3>2. (owed + o + 2) * WAD <= w * WAD
      BY <1>1, <2>1, <3>1, Z3
    <3>3. (owed + o + 2) * WAD \in Nat /\ w * WAD \in Nat
      BY <1>1, <2>1
    <3>4. QED
      BY <2>7, <3>2, <3>3
  <2>9. QED
    BY <1>1, <2>8 DEF w, o
<1>4. QED
  BY <1>2, <1>3

\* Together the bounds are above the haircuts by less than one unit per lender.
LEMMA BoundsStopAtDebts ==
    ASSUME CoverInv
    PROVE  /\ RoundingSlack \in Nat
           /\ claim_weight_sum
                <= haircut_accumulator + claim_offset_sum + RoundingSlack
<1> DEFINE W == [l \in Lenders |-> Weight(haircut_owed[l], withdrawal_sf[l])]
           O == [l \in Lenders |-> Offset(haircut_owed[l], withdrawal_sf[l])]
           One == [l \in Lenders |-> IF l \in Lenders THEN 1 ELSE 0]
           A == [l \in Lenders |-> haircut_owed[l] + O[l]]
           B == [l \in Lenders |-> A[l] + One[l]]
<1>1. /\ haircut_accumulator = Total(haircut_owed)
      /\ claim_weight_sum = Total(W) /\ claim_offset_sum = Total(O)
  BY DEF CoverInv, BooksInv, AccumulatorIsSumOfOwed, HaircutStateIsSumOfContributions
<1>2. ASSUME NEW l \in Lenders
      PROVE  /\ haircut_owed[l] \in Nat /\ W[l] \in Nat /\ O[l] \in Nat
             /\ W[l] <= haircut_owed[l] + O[l] + 1
  <2>1. haircut_owed[l] \in Nat /\ withdrawal_sf[l] \in 0 .. WAD
    BY CoverTypes
  <2>2. haircut_owed[l] > 0 => withdrawal_sf[l] < WAD
    BY DEF CoverInv, AnchorsBehindFactor
  <2>3. QED
    BY <2>1, <2>2, ContributionType, LineStopsAtDebt
<1>3. IsFiniteSet(Lenders) /\ haircut_owed \in [Lenders -> Nat]
  BY CoverTypes, MarketAssumption
<1>4. /\ W \in [Lenders -> Nat] /\ O \in [Lenders -> Nat] /\ One \in [Lenders -> Nat]
      /\ A \in [Lenders -> Nat]
  BY <1>2
<1>5. \A l \in Lenders : W[l] <= B[l] /\ B[l] \in Nat
  BY <1>2
<1>6. Total(One) = RoundingSlack
  BY <1>3, TotalOfMembers DEF RoundingSlack
<1> HIDE DEF W, O, One
<1>7. Total(A) = Total(haircut_owed) + Total(O)
  BY <1>3, <1>4, TotalOfSum
<1> HIDE DEF A
<1>8. Total(B) = Total(A) + Total(One)
  BY <1>3, <1>4, TotalOfSum
<1>9. B \in [Lenders -> Nat]
  BY <1>5
<1> HIDE DEF B
<1>10. Total(W) <= Total(B)
  BY <1>3, <1>4, <1>5, <1>9, TotalMonotone
<1>11. /\ Total(W) \in Nat /\ Total(O) \in Nat /\ Total(One) \in Nat
       /\ Total(haircut_owed) \in Nat
  BY <1>3, <1>4, UnitsAreFinite
<1>12. QED
  BY <1>1, <1>6, <1>7, <1>8, <1>10, <1>11

\* Once the grace period is over the accrual of a settled market is accepted and
\* leaves it as it is.
LEMMA ClearingAccrual ==
    ASSUME CoverInv, GraceOver, Settled
    PROVE  /\ ClockNotBehind /\ AccrualAccepted
           /\ now >= MaturityTimestamp
           /\ AccruedScale = scale_factor
           /\ AccruedFees = accrued_protocol_fees
           /\ accrued_protocol_fees \in 0 .. U64Max
<1>1. /\ now \in Nat /\ accrued_protocol_fees \in 0 .. U64Max
      /\ last_accrual_timestamp \in 0 .. MaturityTimestamp
  BY DEF CoverInv, BooksInv, TypeInv, TypeOK, ConfigTypeOK, AccrualTypeOK
<1>2. now >= MaturityTimestamp
  BY <1>1, ConstantTypes DEF GraceOver
<1>3. ClockNotBehind
  BY <1>1, <1>2, ConstantTypes DEF ClockNotBehind, EffectiveNow, Lesser
<1>4. AccruedScale = scale_factor /\ AccruedFees = accrued_protocol_fees
  BY <1>3, SettledStandsStill DEF CoverInv, SettlementInv, TypeInv
<1>5. QED
  BY <1>1, <1>2, <1>3, <1>4 DEF AccrualAccepted

\* The factor on offer in a funded market is WAD.
LEMMA FundedOffersWad ==
    ASSUME CoverInv, GraceOver, FullyFunded
    PROVE  FactorOnOffer = WAD
<1> DEFINE claims == TotalNormalized + claim_weight_sum
           funds == vault + claim_offset_sum
<1>1. Settled /\ vault >= TotalNormalized + haircut_accumulator + RoundingSlack
  BY DEF FullyFunded
<1>2. /\ vault \in Nat /\ TotalNormalized \in Nat /\ haircut_accumulator \in Nat
      /\ claim_weight_sum \in Nat /\ claim_offset_sum \in Nat
      /\ RoundingSlack \in Nat /\ WAD \in Nat \ {0}
      /\ claim_weight_sum <= haircut_accumulator + claim_offset_sum + RoundingSlack
  BY CoverTypes, WeightsCoverDebts, BoundsStopAtDebts, WadPositive
<1>3. claims \in Nat /\ funds \in Nat /\ claims <= funds
  BY <1>1, <1>2
<1>4. FactorOnOffer = IF claims = 0 THEN WAD ELSE ClampFactor((funds * WAD) \div claims)
  BY <1>1, ClearingAccrual DEF FactorOnOffer, ComputeResettleFactor, TotalNormalized
<1> HIDE DEF claims, funds
<1>5. ASSUME claims # 0
      PROVE  ClampFactor((funds * WAD) \div claims) = WAD
  <2> DEFINE raw == (funds * WAD) \div claims
  <2>1. WAD * claims <= funds * WAD /\ funds * WAD \in Nat
    BY <1>2, <1>3, Z3
  <2>2. raw \in Nat /\ WAD <= raw
    BY <1>2, <1>3, <1>5, <2>1, DivAtLeast, DivBounds
  <2> HIDE DEF raw
  <2>3. ClampFactor(raw) = WAD
    BY <1>2, <2>2 DEF ClampFactor
  <2>4. QED
    BY <2>3 DEF raw
<1>6. QED
  BY <1>4, <1>5

\* At factor WAD a lender's whole position can be closed out.
LEMMA ForceCloseAtWad ==
    ASSUME CoverInv, CanClear, settlement_factor_wad = WAD,
           NEW l \in Lenders, scaled_balance[l] > 0
    PROVE  ForceCloseAccepted(l)
<1> DEFINE amount == scaled_balance[l]
           entitled == Entitled(amount)
<1>1. /\ vault \in Nat /\ TotalNormalized \in Nat /\ haircut_accumulator \in Nat
      /\ scaled_total_supply \in Nat /\ WAD \in Nat \ {0}
  BY CoverTypes, WadPositive
<1>2. Settled
  BY <1>1 DEF Settled
<1>3. AccrualAccepted /\ AccruedScale = scale_factor
  BY <1>2, ClearingAccrual DEF CanClear
<1>4. amount \in Nat /\ amount <= scaled_total_supply
  <2>1. scaled_balance \in [Lenders -> Nat]
    BY DEF CoverInv, BooksInv, TypeInv, TypeOK, SupplyTypeOK
  <2>2. amount <= Total(scaled_balance)
    BY <2>1, LendersTotal
  <2>3. QED
    BY <2>1, <2>2 DEF CoverInv, BooksInv, SupplyIsSumOfBalances
<1>5. l \in opened
  BY DEF CoverInv, BooksInv, UnopenedHoldNothing
<1>6. FactorForExit = WAD
  BY <1>2 DEF FactorForExit, Settled
<1>7. entitled \in Nat /\ entitled <= TotalNormalized
  <2>1. scale_factor \in Nat
    BY DEF CoverInv, BooksInv, TypeInv, TypeOK, AccrualTypeOK
  <2>2. /\ MulWad(amount, scale_factor) \in Nat
        /\ MulWad(amount, scale_factor) <= MulWad(scaled_total_supply, scale_factor)
    BY <1>1, <1>4, <2>1, MulWadType, MulWadMonotone
  <2>3. QED
    BY <1>3, <2>2 DEF Entitled, Normalized, TotalNormalized
<1>8. vault >= TotalNormalized + haircut_accumulator
  BY DEF CoverInv, FullFactorCoversEveryone
<1>9. vault <= U64Max /\ ~paused /\ GraceOver
  BY DEF CanClear
<1>10. ~LeavesHaircut(FactorForExit, Gap(amount))
  BY <1>1, <1>6 DEF LeavesHaircut
<1>11. ExitPayout(l, amount) = entitled
  <2>1. MulWad(entitled, WAD) = entitled
    BY <1>7, MulWadByOne
  <2>2. Recovered(l, FactorForExit, Gap(amount)) = 0
    BY <1>10 DEF Recovered
  <2> HIDE DEF amount, entitled
  <2>3. QED
    BY <1>6, <1>7, <2>1, <2>2 DEF ExitPayout, entitled
<1>12. entitled <= U64Max /\ vault >= entitled
  <2> HIDE DEF entitled
  <2>1. QED
    BY <1>1, <1>7, <1>8, <1>9, ConstantTypes
<1>13. QED
  BY <1>3, <1>4, <1>5, <1>9, <1>10, <1>11, <1>12 DEF ForceCloseAccepted

\* At factor WAD a lender's haircut can be paid out.
LEMMA ForceClaimAtWad ==
    ASSUME CoverInv, CanClear, settlement_factor_wad = WAD,
           NEW l \in Lenders, haircut_owed[l] > 0
    PROVE  ForceClaimAccepted(l) /\ ClaimablePayout(l) = haircut_owed[l]
<1>1. /\ vault \in Nat /\ TotalNormalized \in Nat /\ haircut_accumulator \in Nat
      /\ haircut_owed[l] \in Nat /\ WAD \in Nat /\ WAD > 1
  BY CoverTypes
<1>2. ClaimablePayout(l) = haircut_owed[l]
  BY ClaimAtWadIsWhole
<1>3. haircut_owed[l] <= haircut_accumulator
  <2>1. haircut_owed[l] <= Total(haircut_owed)
    BY CoverTypes, LendersTotal
  <2>2. QED
    BY <2>1 DEF CoverInv, BooksInv, AccumulatorIsSumOfOwed
<1>4. vault >= TotalNormalized + haircut_accumulator
  BY DEF CoverInv, FullFactorCoversEveryone
<1>5. l \in opened /\ withdrawal_sf[l] < WAD /\ withdrawal_sf[l] \in Nat
  BY CoverTypes DEF CoverInv, AnchorsBehindFactor
<1>6. vault >= haircut_owed[l]
  BY <1>1, <1>3, <1>4
<1>7. QED
  BY <1>1, <1>2, <1>3, <1>5, <1>6 DEF ForceClaimAccepted, CanClear

\* When every lender is out and paid, what is left can be swept: as fees while
\* there are some, else as the borrower's excess.
LEMMA SweepAtWad ==
    ASSUME CoverInv, CanClear, settlement_factor_wad = WAD,
           scaled_total_supply = 0, NobodyOwed, vault > 0,
           Borrower \notin blocked, is_whitelisted = 1
    PROVE  CollectFeesAccepted \/ WithdrawExcessAccepted
<1>1. vault \in Nat /\ WAD \in Nat /\ WAD > 1
  BY CoverTypes
<1>2. Settled
  BY <1>1 DEF Settled
<1>3. /\ AccrualAccepted /\ now >= MaturityTimestamp
      /\ AccruedScale = scale_factor /\ AccruedFees = accrued_protocol_fees
      /\ accrued_protocol_fees \in 0 .. U64Max
  BY <1>2, ClearingAccrual DEF CanClear
<1>4. haircut_accumulator = 0
  <2>1. haircut_owed = [l \in Lenders |-> 0]
    BY CoverTypes DEF NobodyOwed
  <2>2. Total(haircut_owed) = 0
    BY <2>1, TotalOfZeros
  <2>3. QED
    BY <2>2 DEF CoverInv, BooksInv, AccumulatorIsSumOfOwed
<1>5. ~paused
  BY DEF CanClear
<1>6. CASE accrued_protocol_fees = 0
  <2>1. SatSub(vault, haircut_accumulator) > 0
    BY <1>1, <1>4 DEF SatSub
  <2>2. QED
    BY <1>3, <1>5, <1>6, <2>1 DEF WithdrawExcessAccepted
<1>7. CASE accrued_protocol_fees # 0
  <2>1. Normalized(scaled_total_supply, AccruedScale) = 0
    <3>1. scale_factor \in Nat
      BY DEF CoverInv, BooksInv, TypeInv, TypeOK, AccrualTypeOK
    <3>2. QED
      BY <1>1, <1>3, <3>1 DEF Normalized, MulWad
  <2>2. FeesPayable = Lesser(accrued_protocol_fees, vault)
    <3>1. SatSub(SatSub(vault, 0), 0) = vault
      BY <1>1 DEF SatSub
    <3>2. QED
      BY <1>3, <1>4, <2>1, <3>1 DEF FeesPayable
  <2>3. accrued_protocol_fees \in Nat
    BY <1>3, ConstantTypes
  <2>4. FeesPayable > 0 /\ vault >= FeesPayable
    BY <1>1, <1>7, <2>2, <2>3 DEF Lesser
  <2>5. QED
    BY <1>3, <1>5, <2>4 DEF CollectFeesAccepted
<1>8. QED
  BY <1>6, <1>7

\* A funded market never gets stuck, whatever its lenders, amounts and clock:
\* re_settle lifts it to WAD, and at WAD every forced exit and every forced claim
\* is accepted, and after them a sweep of what is left.
THEOREM ClearingNeverStalls == Spec => []FundedClearingNeverStalls
<1>1. CoverInv => FundedClearingNeverStalls
  <2> SUFFICES ASSUME CoverInv, CanClear,
                      FullyFunded \/ settlement_factor_wad = WAD
               PROVE  IF settlement_factor_wad < WAD
                      THEN ReSettleAccepted /\ FactorOnOffer = WAD
                      ELSE /\ \A l \in Lenders : scaled_balance[l] > 0 => ForceCloseAccepted(l)
                           /\ \A l \in Lenders : haircut_owed[l] > 0 =>
                                ForceClaimAccepted(l) /\ ClaimablePayout(l) = haircut_owed[l]
                           /\ (/\ scaled_total_supply = 0 /\ NobodyOwed /\ vault > 0
                               /\ Borrower \notin blocked /\ is_whitelisted = 1)
                              => CollectFeesAccepted \/ WithdrawExcessAccepted
    BY DEF FundedClearingNeverStalls
  <2>1. settlement_factor_wad \in 0 .. WAD /\ WAD \in Nat
    BY CoverTypes
  <2>2. CASE settlement_factor_wad < WAD
    <3>1. FullyFunded /\ GraceOver /\ Settled /\ ~paused
      BY <2>1, <2>2 DEF FullyFunded, CanClear
    <3>2. FactorOnOffer = WAD
      BY <3>1, FundedOffersWad
    <3>3. AccrualAccepted
      BY <3>1, ClearingAccrual
    <3>4. ReSettleAccepted
      BY <2>1, <2>2, <3>1, <3>2, <3>3 DEF ReSettleAccepted, Settled, Improves
    <3>5. QED
      BY <2>2, <3>2, <3>4
  <2>3. CASE ~(settlement_factor_wad < WAD)
    <3>1. settlement_factor_wad = WAD
      BY <2>1, <2>3
    <3>2. QED
      BY <2>3, <3>1, ForceCloseAtWad, ForceClaimAtWad, SweepAtWad
  <2>4. QED
    BY <2>2, <2>3
<1>2. QED
  BY <1>1, CoverInvariant, PTL

-----------------------------------------------------------------------------
(* Nor does its clearing go back.                                          *)

\* A claim at factor WAD pays the whole haircut, and leaves the others alone.
LEMMA ClaimAtWadClears ==
    ASSUME CoverInv, settlement_factor_wad = WAD, NEW k \in Lenders, PayClaim(k),
           NEW l \in Lenders
    PROVE  \/ haircut_owed'[l] = haircut_owed[l]
           \/ haircut_owed'[l] = 0 /\ wallet'[l] = wallet[l] + haircut_owed[l]
<1>1. haircut_owed[k] > 0
  BY DEF PayClaim
<1>2. ClaimablePayout(k) = haircut_owed[k]
  BY <1>1, ClaimAtWadIsWhole
<1>3. /\ haircut_owed \in [Lenders -> Nat] /\ wallet \in [Accounts -> Nat]
      /\ l \in Accounts /\ k \in Accounts
  BY CoverTypes, ConstantTypes DEF CoverInv, BooksInv, TypeInv, TypeOK, TokenTypeOK
<1>4. /\ haircut_owed' = [haircut_owed EXCEPT ![k] = haircut_owed[k] - haircut_owed[k]]
      /\ wallet' = [wallet EXCEPT ![k] = wallet[k] + haircut_owed[k]]
  BY <1>2 DEF PayClaim, Reanchor, PayOut
<1>5. CASE l = k
  BY <1>3, <1>4, <1>5
<1>6. CASE l # k
  BY <1>3, <1>4, <1>6
<1>7. QED
  BY <1>5, <1>6

\* Every other instruction leaves the haircuts of such a market alone.
LEMMA OnlyClaimsMoveHaircuts ==
    ASSUME CoverInv, settlement_factor_wad = WAD, [Next]_vars
    PROVE  UNCHANGED haircut_owed \/ \E k \in Lenders : PayClaim(k)
<1>1. SettlementInv /\ WAD \in Nat /\ WAD > 1
  BY CoverTypes DEF CoverInv
<1>2. ASSUME NEW l, NEW amount, LeaveMarket(l, amount, FactorForExit)
      PROVE  UNCHANGED haircut_owed
  <2>1. FactorForExit = WAD
    BY <1>1 DEF FactorForExit
  <2>2. ASSUME NEW gap PROVE ~LeavesHaircut(FactorForExit, gap)
    BY <1>1, <2>1 DEF LeavesHaircut
  <2>3. QED
    BY <1>2, <2>2 DEF LeaveMarket, TrackHaircut, haircutVars
<1>3. \/ \E l \in Lenders, amount \in DepositAmounts : Deposit(l, amount)
      \/ \E l \in Lenders : CloseLenderPosition(l)
      \/ \E amount \in BorrowAmounts : Borrow(amount)
      \/ \E payer \in Payers, amount \in RepayAmounts \cup InterestAmounts :
           Repay(payer, amount) \/ RepayInterest(payer, amount)
      \/ ReSettle \/ CollectFees
      => UNCHANGED haircut_owed
  BY DEF Deposit, CloseLenderPosition, Borrow, Repay, RepayInterest, CountPayment,
         ReSettle, CollectFees, haircutVars
<1>4. WithdrawExcess \/ MarketUntouched => UNCHANGED haircut_owed
  BY MarketUntouchedKeeps DEF WithdrawExcess, marketVars, haircutVars
<1>5. QED
  BY <1>1, StepCases, WithdrawLeaves, ForceCloseLeaves, <1>2, <1>3, <1>4

\* The factor and the balances of such a market, whatever the step.
LEMMA FullFactorStep ==
    ASSUME CoverInv, [Next]_vars, settlement_factor_wad = WAD
    PROVE  /\ settlement_factor_wad' = WAD
           /\ \A l \in Lenders :
                /\ scaled_balance'[l] <= scaled_balance[l]
                /\ \/ haircut_owed'[l] = haircut_owed[l]
                   \/ haircut_owed'[l] = 0 /\ wallet'[l] = wallet[l] + haircut_owed[l]
<1>1. SettlementInv /\ Settled
  BY CoverTypes DEF CoverInv, Settled
<1>2. settlement_factor_wad' = WAD
  <2>1. settlement_factor_wad' >= WAD
    BY <1>1, FactorStep
  <2>2. settlement_factor_wad' \in 0 .. WAD
    BY <1>1, TypeInvStep DEF SettlementInv, TypeInv, TypeOK, HaircutTypeOK
  <2>3. QED
    BY <2>1, <2>2, WadPositive
<1>3. \A l \in Lenders : scaled_balance'[l] <= scaled_balance[l]
  BY <1>1, ClosedEntryStep
<1>4. ASSUME NEW l \in Lenders
      PROVE  \/ haircut_owed'[l] = haircut_owed[l]
             \/ haircut_owed'[l] = 0 /\ wallet'[l] = wallet[l] + haircut_owed[l]
  BY OnlyClaimsMoveHaircuts, ClaimAtWadClears
<1>5. QED
  BY <1>2, <1>3, <1>4

\* At factor WAD a market only clears: the factor stays, and no step of anyone
\* records, changes or pays part of a haircut.
THEOREM ClearingNeverGoesBack == Spec => FullFactorOnlyClears
<1>1. CoverInv /\ [Next]_vars
        => [settlement_factor_wad = WAD =>
              /\ settlement_factor_wad' = WAD
              /\ \A l \in Lenders :
                   /\ scaled_balance'[l] <= scaled_balance[l]
                   /\ \/ haircut_owed'[l] = haircut_owed[l]
                      \/ /\ haircut_owed'[l] = 0
                         /\ wallet'[l] = wallet[l] + haircut_owed[l]]_vars
  BY FullFactorStep
<1>2. QED
  BY <1>1, CoverInvariant, PTL DEF Spec, FullFactorOnlyClears

-----------------------------------------------------------------------------
(* In any market an exit finds the vault short by units only.              *)

\* The funds an exit computes its payout against, at the lowest factor too.
LEMMA ExitsAreFunded ==
    ASSUME SolvencyInv, ClockNotBehind,
           FactorForExit > 1 \/ Entitled(scaled_total_supply) < WAD
    PROVE  Funded(vault, Entitled(scaled_total_supply), haircut_owed, withdrawal_sf,
                  FactorForExit)
<1>1. CoverInv
  BY DEF SolvencyInv
<1>2. FactorForExit \in 1 .. WAD
  BY <1>1, FactorForExitRange DEF CoverInv, BooksInv, TypeInv
<1>3. CASE FactorForExit > 1
  BY <1>3, ExitFindsFunds DEF Entitled
<1>4. CASE ~(FactorForExit > 1)
  <2>1. FactorForExit = 1
    BY <1>2, <1>4, WadPositive
  <2>2. /\ vault \in Nat /\ Entitled(scaled_total_supply) \in Nat
        /\ haircut_owed \in [Lenders -> Nat] /\ withdrawal_sf \in [Lenders -> 0 .. WAD]
    BY <1>1, CoverTypes DEF Entitled
  <2>3. \A l \in Lenders : haircut_owed[l] > 0 => 1 <= withdrawal_sf[l]
    BY <1>1 DEF CoverInv, AnchorsBehindFactor
  <2>4. Entitled(scaled_total_supply) < WAD
    BY <1>4
  <2>5. QED
    BY <2>1, <2>2, <2>3, <2>4, LowestFactorIsFunded
<1>5. QED
  BY <1>3, <1>4

\* Counting one lender more adds at most a unit, and one unless it was counted.
LEMMA OneMoreLender ==
    ASSUME NEW T \in SUBSET Lenders, NEW l \in Lenders
    PROVE  /\ Cardinality(T) \in Nat /\ Cardinality(T \cup {l}) \in Nat
           /\ Cardinality(T) <= Cardinality(T \cup {l})
           /\ l \notin T => Cardinality(T \cup {l}) = Cardinality(T) + 1
<1>1. IsFiniteSet(T)
  BY MarketAssumption, FS_Subset
<1>2. Cardinality(T) \in Nat
  BY <1>1, FS_CardinalityType
<1>3. Cardinality(T \cup {l}) = IF l \in T THEN Cardinality(T) ELSE Cardinality(T) + 1
  BY <1>1, FS_AddElement
<1>4. QED
  BY <1>2, <1>3

\* The units the vault may be short of are those of the lenders anchored now.
LEMMA UnitsLetOffNow ==
    ASSUME CoverInv
    PROVE  Total(LostAt(haircut_owed, withdrawal_sf, FactorForExit)) = Cardinality(AnchoredNow)
<1> DEFINE LetOffNow == {l \in Lenders : haircut_owed[l] > 0
                                           /\ withdrawal_sf[l] = FactorForExit}
<1>1. Total(LostAt(haircut_owed, withdrawal_sf, FactorForExit)) = Cardinality(LetOffNow)
  BY CoverTypes, LetOffAreAnchored
<1>2. LetOffNow = AnchoredNow
  <2>1. CASE Settled
    BY <2>1 DEF FactorForExit, Settled, AnchoredNow
  <2>2. CASE ~Settled
    BY <2>2, UnsettledOwesNothing DEF AnchoredNow
  <2>3. QED
    BY <2>1, <2>2
<1>3. QED
  BY <1>1, <1>2

\* One lender's exit asks for no more than the funds and the units allow.
LEMMA ExitShortByUnits ==
    ASSUME SolvencyInv, ClockNotBehind,
           FactorForExit > 1 \/ Entitled(scaled_total_supply) < WAD,
           NEW l \in Lenders, NEW amount \in 0 .. scaled_balance[l]
    PROVE  ExitPayout(l, amount) <= vault + Cardinality(AnchoredNow \cup {l})
<1> DEFINE F == FactorForExit
           entitled == Entitled(amount)
           held == Entitled(scaled_total_supply)
           owed == haircut_owed[l]
           anchor_sf == withdrawal_sf[l]
           recovered == SatSub(owed, RebaseRemainingOwed(owed, anchor_sf, F))
           due == ClaimableExact(owed, anchor_sf, F)
           total_due == Total(DueAt(haircut_owed, withdrawal_sf, F))
           units == Cardinality(AnchoredNow)
<1>1. CoverInv
  BY DEF SolvencyInv
<1>2. /\ vault \in Nat /\ scaled_total_supply \in Nat /\ AccruedScale \in Nat
      /\ haircut_owed \in [Lenders -> Nat] /\ withdrawal_sf \in [Lenders -> 0 .. WAD]
      /\ owed \in Nat /\ anchor_sf \in 0 .. WAD
  BY <1>1, CoverTypes
<1>3. F \in 1 .. WAD /\ F \in 0 .. WAD /\ F \in Nat
      /\ (Settled => F = settlement_factor_wad)
  <2>1. F \in 1 .. WAD /\ (Settled => F = settlement_factor_wad)
    BY <1>1, FactorForExitRange DEF CoverInv, BooksInv, TypeInv, Settled
  <2>2. QED
    BY <2>1, WadPositive
<1>4. amount \in Nat /\ amount <= scaled_total_supply
  <2>1. scaled_balance \in [Lenders -> Nat]
    BY <1>1 DEF CoverInv, BooksInv, TypeInv, TypeOK, SupplyTypeOK
  <2>2. scaled_balance[l] <= Total(scaled_balance)
    BY <2>1, LendersTotal
  <2>3. QED
    BY <1>1, <1>2, <2>1, <2>2 DEF CoverInv, BooksInv, SupplyIsSumOfBalances
<1>5. entitled \in Nat /\ held \in Nat /\ entitled <= held
  BY <1>2, <1>4, MulWadType, MulWadMonotone DEF Entitled, Normalized
<1>6. vault + units >= MulWad(held, F) + total_due
  <2>1. Funded(vault, held, haircut_owed, withdrawal_sf, F)
    BY ExitsAreFunded
  <2>2. Total(LostAt(haircut_owed, withdrawal_sf, F)) = units
    BY <1>1, UnitsLetOffNow
  <2>3. QED
    BY <2>1, <2>2 DEF Funded
<1>7. total_due \in Nat /\ due \in Nat /\ due <= total_due
  <2> DEFINE dues == DueAt(haircut_owed, withdrawal_sf, F)
  <2>1. dues \in [Lenders -> Nat]
    BY <1>2, <1>3, LinesType
  <2>2. dues[l] = due
    BY DEF DueAt
  <2> HIDE DEF dues, due
  <2>3. dues[l] \in Nat /\ Total(dues) \in Nat /\ dues[l] <= Total(dues)
    BY <2>1, LendersTotal
  <2>4. QED
    BY <2>2, <2>3 DEF dues
<1>8. /\ recovered \in Nat
      /\ LetOff(owed, anchor_sf, F) + recovered <= due + 1
  <2>1. owed > 0 => anchor_sf <= F
    <3>1. CASE Settled
      BY <1>1, <1>3, <3>1 DEF CoverInv, AnchorsBehindFactor
    <3>2. CASE ~Settled
      BY <1>1, <3>2, UnsettledOwesNothing
    <3>3. QED
      BY <3>1, <3>2
  <2>2. QED
    BY <1>2, <1>3, <2>1, RecoveryLine
<1>9. Recovered(l, F, Gap(amount)) \in {0, recovered}
  BY DEF Recovered, RecoveredAt, Rebased
<1>10. l \in AnchoredNow => LetOff(owed, anchor_sf, F) = 1
  <2>1. CASE Settled
    BY <1>3, <2>1 DEF AnchoredNow, LetOff
  <2>2. CASE ~Settled
    BY <1>1, <2>2, UnsettledOwesNothing DEF AnchoredNow
  <2>3. QED
    BY <2>1, <2>2
<1>11. LetOff(owed, anchor_sf, F) \in {0, 1}
  BY DEF LetOff
<1>12. /\ units \in Nat /\ Cardinality(AnchoredNow \cup {l}) \in Nat
       /\ units <= Cardinality(AnchoredNow \cup {l})
       /\ l \notin AnchoredNow => Cardinality(AnchoredNow \cup {l}) = units + 1
  <2>1. AnchoredNow \in SUBSET Lenders
    BY DEF AnchoredNow
  <2> HIDE DEF AnchoredNow
  <2>2. QED
    BY <2>1, OneMoreLender
<1>13. ExitPayout(l, amount) = MulWad(entitled, F) + Recovered(l, F, Gap(amount))
  BY DEF ExitPayout
<1> HIDE DEF F, entitled, held, owed, anchor_sf, recovered, due, total_due, units
<1>14. /\ MulWad(entitled, F) \in Nat /\ MulWad(held, F) \in Nat
       /\ MulWad(entitled, F) <= MulWad(held, F)
  BY <1>3, <1>5, MulWadType, MulWadMonotone
<1>15. recovered <= due + 1 /\ (l \in AnchoredNow => recovered <= due)
  BY <1>7, <1>8, <1>10, <1>11
<1>16. MulWad(entitled, F) + recovered <= vault + Cardinality(AnchoredNow \cup {l})
  <2>1. CASE l \in AnchoredNow
    BY <1>2, <1>6, <1>7, <1>8, <1>12, <1>14, <1>15, <2>1
  <2>2. CASE l \notin AnchoredNow
    BY <1>2, <1>6, <1>7, <1>8, <1>12, <1>14, <1>15, <2>2
  <2>3. QED
    BY <2>1, <2>2
<1>17. QED
  <2> DEFINE most == vault + Cardinality(AnchoredNow \cup {l})
             extra == Recovered(l, F, Gap(amount))
  <2>1. most \in Nat
    BY <1>2, <1>12
  <2>2. extra \in {0, recovered} /\ ExitPayout(l, amount) = MulWad(entitled, F) + extra
    BY <1>9, <1>13
  <2>3. MulWad(entitled, F) + recovered <= most
    BY <1>16
  <2> HIDE DEF most, extra
  <2>4. ExitPayout(l, amount) <= most
    BY <1>8, <1>14, <2>1, <2>2, <2>3
  <2>5. QED
    BY <2>4 DEF most

\* Whatever the lenders, the amounts and the order of settlements, an exit never
\* finds the vault short by more than one unit for each lender it let off, and one
\* for the lender who leaves.
THEOREM ShortByUnitsOnly == Spec => []ExitsShortByUnitsOnly
<1>1. SolvencyInv => ExitsShortByUnitsOnly
  BY ExitShortByUnits DEF ExitsShortByUnitsOnly
<1>2. QED
  BY <1>1, SolvencyInvariant, PTL
=============================================================================
