-------------------------- MODULE MarketCoverProofs --------------------------
(***************************************************************************)
(* What the factor WAD stands for: a vault that holds every balance and    *)
(* every haircut in full, for any number of lenders and any amounts.  The  *)
(* invariant joins the books, the finality of the settlement and the       *)
(* anchors: a lender with a haircut is anchored below WAD, so the claim at *)
(* WAD pays it whole, which in turn keeps anchors off WAD.                 *)
(* Then what any factor stands for: the vault holds the factor's share of  *)
(* the balances and of the haircuts, but for the units that recoveries on  *)
(* an exit are rounded up by.                                              *)
(***************************************************************************)
EXTENDS MarketProofs

-----------------------------------------------------------------------------
(* The arithmetic.                                                         *)

\* A factor of WAD is computed only when the funds cover the claims.
LEMMA FullFactorMeansCovered ==
    ASSUME NEW available \in Nat, NEW claims \in Nat,
           ComputeSettlementFactor(available, claims) = WAD
    PROVE  claims <= available
<1>1. CASE claims = 0
  BY <1>1
<1>2. CASE claims # 0
  <2> DEFINE raw == (available * WAD) \div claims
  <2>1. available * WAD \in Nat /\ claims \in Nat \ {0} /\ WAD \in Nat \ {0} /\ WAD > 1
    BY <1>2, FixedPointAssumption
  <2>2. raw \in Nat /\ raw * claims <= available * WAD
    BY <2>1, DivBounds
  <2>3. ClampFactor(raw) = WAD
    BY <1>2 DEF ComputeSettlementFactor
  <2> HIDE DEF raw
  <2>4. raw >= WAD
    BY <2>1, <2>2, <2>3 DEF ClampFactor
  <2>5. claims * WAD <= raw * claims /\ raw * claims \in Nat
    BY <2>1, <2>2, <2>4, Z3
  <2>6. claims * WAD <= available * WAD
    <3>1. claims * WAD \in Nat
      BY <2>1
    <3>2. QED
      BY <2>1, <2>2, <2>5, <3>1
  <2>7. QED
    BY <2>1, <2>6, CancelFactor
<1>3. QED
  BY <1>1, <1>2

\* At WAD a debt anchored below it is claimable whole.
LEMMA ClaimAtWad ==
    ASSUME NEW owed \in Nat, NEW anchor_sf \in 0 .. (WAD - 1)
    PROVE  ClaimableExact(owed, anchor_sf, WAD) = owed
<1>1. WAD \in Nat /\ WAD - anchor_sf \in Nat \ {0} /\ ~(WAD <= anchor_sf)
  BY WadPositive
<1>2. (owed * (WAD - anchor_sf)) \div (WAD - anchor_sf) = owed
  BY <1>1, DivExact
<1>3. QED
  BY <1>1, <1>2 DEF ClaimableExact

\* The straight line of a debt reaches the debt at WAD.
LEMMA LineReachesDebt ==
    ASSUME NEW owed \in Nat, NEW anchor_sf \in 0 .. WAD,
           owed > 0 => anchor_sf < WAD
    PROVE  owed + Offset(owed, anchor_sf) <= Weight(owed, anchor_sf)
<1>1. Weight(owed, anchor_sf) \in Nat /\ Offset(owed, anchor_sf) \in Nat
  BY ContributionType
<1>2. CASE owed = 0
  BY <1>2, WadPositive DEF Weight, Offset, MulWad
<1>3. CASE owed > 0
  <2>1. WAD \in anchor_sf .. WAD /\ anchor_sf \in 0 .. (WAD - 1)
    BY <1>3, WadPositive
  <2>2. (owed + Offset(owed, anchor_sf)) * WAD <= Weight(owed, anchor_sf) * WAD
    BY <2>1, ContributionCoversClaim, ClaimAtWad
  <2>3. owed + Offset(owed, anchor_sf) \in Nat
    BY <1>1
  <2>4. QED
    BY <1>1, <2>2, <2>3, CancelFactor, WadPositive
<1>4. QED
  BY <1>2, <1>3

-----------------------------------------------------------------------------
(* The invariant.                                                          *)

CoverInv ==
    /\ SettlementInv
    /\ BooksInv
    /\ AnchorsBehindFactor
    /\ FullFactorCoversEveryone

\* The vault covers the balances at the scale an instruction accrues to, and
\* the haircuts.
CoveredNow ==
    vault >= Normalized(scaled_total_supply, AccruedScale) + haircut_accumulator

\* The types the steps below rest on.
LEMMA CoverTypes ==
    ASSUME CoverInv
    PROVE  /\ vault \in Nat /\ haircut_accumulator \in Nat /\ WAD \in Nat /\ WAD > 1
           /\ settlement_factor_wad \in 0 .. WAD
           /\ scaled_total_supply \in Nat /\ TotalNormalized \in Nat
           /\ AccruedScale \in Nat /\ Normalized(scaled_total_supply, AccruedScale) \in Nat
           /\ haircut_owed \in [Lenders -> Nat]
           /\ withdrawal_sf \in [Lenders -> 0 .. WAD]
<1> USE DEF CoverInv, SettlementInv, TypeInv, TypeOK
<1>1. /\ vault \in Nat /\ haircut_accumulator \in Nat /\ WAD \in Nat /\ WAD > 1
      /\ settlement_factor_wad \in 0 .. WAD
      /\ scaled_total_supply \in Nat /\ scale_factor \in Nat
      /\ haircut_owed \in [Lenders -> Nat]
      /\ withdrawal_sf \in [Lenders -> 0 .. WAD]
  BY ConstantTypes, FixedPointAssumption
     DEF TokenTypeOK, HaircutTypeOK, SupplyTypeOK, AccrualTypeOK
<1>2. AccruedScale \in Nat
  BY AccruedScaleType
<1>3. QED
  BY <1>1, <1>2, MulWadType DEF TotalNormalized, Normalized

\* Before the first exit nobody is owed a haircut.
LEMMA UnsettledOwesNothing ==
    ASSUME CoverInv, ~Settled
    PROVE  haircut_accumulator = 0 /\ \A l \in Lenders : haircut_owed[l] = 0
<1>1. \A l \in Lenders : haircut_owed[l] = 0
  BY CoverTypes DEF CoverInv, AnchorsBehindFactor, Settled
<1>2. haircut_owed = [l \in Lenders |-> 0]
  BY <1>1, CoverTypes
<1>3. Total(haircut_owed) = 0
  BY <1>2, TotalOfZeros
<1>4. QED
  BY <1>1, <1>3 DEF CoverInv, BooksInv, AccumulatorIsSumOfOwed

\* The weights exceed the offsets by at least the haircuts.
LEMMA WeightsCoverDebts ==
    ASSUME CoverInv
    PROVE  /\ claim_weight_sum \in Nat /\ claim_offset_sum \in Nat
           /\ haircut_accumulator + claim_offset_sum <= claim_weight_sum
<1> DEFINE W == [l \in Lenders |-> Weight(haircut_owed[l], withdrawal_sf[l])]
           O == [l \in Lenders |-> Offset(haircut_owed[l], withdrawal_sf[l])]
           B == [l \in Lenders |-> haircut_owed[l] + O[l]]
<1>1. /\ haircut_accumulator = Total(haircut_owed)
      /\ claim_weight_sum = Total(W) /\ claim_offset_sum = Total(O)
  BY DEF CoverInv, BooksInv, AccumulatorIsSumOfOwed, HaircutStateIsSumOfContributions
<1>2. ASSUME NEW l \in Lenders
      PROVE  /\ haircut_owed[l] \in Nat /\ W[l] \in Nat /\ O[l] \in Nat
             /\ haircut_owed[l] + O[l] <= W[l]
  <2>1. haircut_owed[l] \in Nat /\ withdrawal_sf[l] \in 0 .. WAD
    BY CoverTypes
  <2>2. haircut_owed[l] > 0 => withdrawal_sf[l] < WAD
    BY DEF CoverInv, AnchorsBehindFactor
  <2>3. QED
    BY <2>1, <2>2, ContributionType, LineReachesDebt
<1>3. IsFiniteSet(Lenders) /\ haircut_owed \in [Lenders -> Nat]
  BY CoverTypes, MarketAssumption
<1>4. W \in [Lenders -> Nat] /\ O \in [Lenders -> Nat] /\ B \in [Lenders -> Nat]
  BY <1>2
<1>5. \A l \in Lenders : B[l] <= W[l]
  BY <1>2
<1> HIDE DEF W, O
<1>6. Total(B) = Total(haircut_owed) + Total(O)
  BY <1>3, <1>4, TotalOfSum
<1> HIDE DEF B
<1>7. Total(B) <= Total(W)
  BY <1>3, <1>4, <1>5, TotalMonotone
<1>8. Total(W) \in Nat /\ Total(O) \in Nat
  BY <1>3, <1>4, UnitsAreFinite
<1>9. QED
  BY <1>1, <1>6, <1>7, <1>8

\* A market settled at WAD is covered at the scale it has accrued to.
LEMMA CoveredAtWad ==
    ASSUME CoverInv, settlement_factor_wad = WAD, ClockNotBehind
    PROVE  CoveredNow /\ AccruedScale = scale_factor
<1>1. Settled
  BY CoverTypes DEF Settled
<1>2. AccruedScale = scale_factor
  BY <1>1, SettledStandsStill DEF CoverInv, SettlementInv, TypeInv
<1>3. QED
  BY <1>2 DEF CoverInv, FullFactorCoversEveryone, TotalNormalized, CoveredNow

-----------------------------------------------------------------------------
(* The steps.                                                              *)

\* An exit that fixes or meets the factor WAD finds the vault covered.
LEMMA ExitFindsCover ==
    ASSUME CoverInv, FactorForExit = WAD, ClockNotBehind
    PROVE  CoveredNow
<1>1. CASE Settled
  <2>1. settlement_factor_wad = WAD
    BY <1>1 DEF FactorForExit, Settled
  <2>2. QED
    BY <2>1, CoveredAtWad
<1>2. CASE ~Settled
  <2>1. ComputeSettlementFactor(vault, Normalized(scaled_total_supply, AccruedScale)) = WAD
    BY <1>2 DEF FactorForExit, Settled
  <2>2. Normalized(scaled_total_supply, AccruedScale) <= vault
    BY <2>1, CoverTypes, FullFactorMeansCovered
  <2>3. haircut_accumulator = 0
    BY <1>2, UnsettledOwesNothing
  <2>4. QED
    BY <2>2, <2>3, CoverTypes DEF CoveredNow
<1>3. QED
  BY <1>1, <1>2

\* At WAD an exit takes what the balance was worth and no more.
LEMMA ExitCovers ==
    ASSUME CoverInv, NEW l \in Lenders, NEW amount \in 0 .. scaled_balance[l],
           settlement_factor_wad = 0 => now >= MaturityTimestamp,
           LeaveMarket(l, amount, FactorForExit)
    PROVE  FullFactorCoversEveryone'
<1> DEFINE entitled == Normalized(amount, AccruedScale)
           rest == scaled_total_supply - amount
           gap == SatSub(entitled, MulWad(entitled, FactorForExit))
<1>1. /\ settlement_factor_wad' = FactorForExit
      /\ AccrueScale /\ scale_factor' = AccruedScale
      /\ amount <= scaled_total_supply /\ scaled_total_supply' = rest
      /\ TrackHaircut(l, FactorForExit, gap)
      /\ PayOut(l, MulWad(entitled, FactorForExit) + Recovered(l, FactorForExit, gap))
  BY DEF LeaveMarket, AccrueInterest, AccrueScale
<1>2. SUFFICES ASSUME FactorForExit = WAD
               PROVE  vault' >= TotalNormalized' + haircut_accumulator'
  BY <1>1 DEF FullFactorCoversEveryone
<1>3. /\ amount \in Nat /\ rest \in Nat /\ amount + rest = scaled_total_supply
      /\ AccruedScale \in Nat /\ entitled \in Nat
  <2>1. amount \in Nat
    BY DEF CoverInv, BooksInv, TypeInv, TypeOK, SupplyTypeOK
  <2>2. AccruedScale \in Nat /\ scaled_total_supply \in Nat
    BY CoverTypes
  <2>3. entitled \in Nat
    BY <2>1, <2>2, MulWadType DEF Normalized
  <2>4. rest \in Nat /\ amount + rest = scaled_total_supply
    BY <1>1, <2>1, <2>2
  <2>5. QED
    BY <2>1, <2>2, <2>3, <2>4
<1>4. /\ UNCHANGED haircut_accumulator
      /\ vault' = vault - entitled
  <2>1. ~LeavesHaircut(FactorForExit, gap)
    BY <1>2, CoverTypes DEF LeavesHaircut
  <2>2. UNCHANGED haircut_accumulator
    BY <1>1, <2>1 DEF TrackHaircut, haircutVars
  <2>3. Recovered(l, FactorForExit, gap) = 0
    BY <2>1 DEF Recovered
  <2>4. MulWad(entitled, FactorForExit) = entitled
    BY <1>2, <1>3, MulWadByOne
  <2> HIDE DEF entitled, gap
  <2>5. QED
    BY <1>1, <1>3, <2>2, <2>3, <2>4 DEF PayOut
<1>5. TotalNormalized' = Normalized(rest, AccruedScale)
  BY <1>1 DEF TotalNormalized, Normalized, MulWad
<1> HIDE DEF rest
<1>6. Normalized(rest, AccruedScale) \in Nat
  BY <1>3, MulWadType DEF Normalized
<1>7. Normalized(rest, AccruedScale) + entitled
        <= Normalized(scaled_total_supply, AccruedScale)
  <2>1. MulWad(amount + rest, AccruedScale)
          - (MulWad(amount, AccruedScale) + MulWad(rest, AccruedScale)) \in {0, 1}
    BY <1>3, MulWadSplits
  <2>2. entitled = MulWad(amount, AccruedScale)
    BY DEF Normalized
  <2> HIDE DEF entitled
  <2>3. QED
    BY <1>3, <1>6, <2>1, <2>2, CoverTypes DEF Normalized
<1>8. vault >= Normalized(scaled_total_supply, AccruedScale) + haircut_accumulator
  BY <1>1, <1>2, ExitFindsCover DEF CoveredNow, AccrueScale
<1> HIDE DEF entitled
<1>9. QED
  BY <1>3, <1>4, <1>5, <1>6, <1>7, <1>8, CoverTypes

\* An exit below WAD anchors the lender at the factor of the exit, others keep
\* an anchor that factor has reached.
LEMMA ExitAnchors ==
    ASSUME CoverInv, NEW l \in Lenders, NEW amount, l \in opened,
           settlement_factor_wad = 0 => now >= MaturityTimestamp,
           LeaveMarket(l, amount, FactorForExit)
    PROVE  AnchorsBehindFactor'
<1> DEFINE entitled == Normalized(amount, AccruedScale)
           gap == SatSub(entitled, MulWad(entitled, FactorForExit))
<1>1. /\ settlement_factor_wad' = FactorForExit /\ opened' = opened
      /\ TrackHaircut(l, FactorForExit, gap)
  BY DEF LeaveMarket
<1>2. /\ FactorForExit \in 1 .. WAD
      /\ Settled => FactorForExit = settlement_factor_wad
  BY FactorForExitRange DEF CoverInv, BooksInv, TypeInv, Settled
<1>3. \A k \in Lenders : haircut_owed[k] > 0 =>
        /\ k \in opened /\ 1 <= withdrawal_sf[k] /\ withdrawal_sf[k] < WAD
        /\ withdrawal_sf[k] <= FactorForExit
  <2>1. CASE Settled
    BY <1>2, <2>1 DEF CoverInv, AnchorsBehindFactor
  <2>2. CASE ~Settled
    BY <2>2, UnsettledOwesNothing
  <2>3. QED
    BY <2>1, <2>2
<1> HIDE DEF gap
<1>4. CASE ~LeavesHaircut(FactorForExit, gap)
  <2>1. UNCHANGED <<haircut_owed, withdrawal_sf>>
    BY <1>1, <1>4 DEF TrackHaircut, haircutVars
  <2>2. QED
    BY <1>1, <1>3, <2>1 DEF AnchorsBehindFactor
<1>5. CASE LeavesHaircut(FactorForExit, gap)
  <2>1. /\ FactorForExit < WAD
        /\ withdrawal_sf' = [withdrawal_sf EXCEPT ![l] = FactorForExit]
        /\ \E owed : haircut_owed' = [haircut_owed EXCEPT ![l] = owed]
    BY <1>1, <1>5 DEF TrackHaircut, LeavesHaircut, Reanchor
  <2>2. ASSUME NEW k \in Lenders, haircut_owed'[k] > 0
        PROVE  /\ k \in opened /\ 1 <= withdrawal_sf'[k] /\ withdrawal_sf'[k] < WAD
               /\ withdrawal_sf'[k] <= FactorForExit
    <3>1. CASE k = l
      BY <1>2, <2>1, <3>1, CoverTypes
    <3>2. CASE k # l
      BY <1>3, <2>1, <2>2, <3>2, CoverTypes
    <3>3. QED
      BY <3>1, <3>2
  <2>3. QED
    BY <1>1, <2>2 DEF AnchorsBehindFactor
<1>6. QED
  BY <1>4, <1>5

\* A claim at WAD finds the whole debt above the balances, so nothing is left.
LEMMA ClaimAtWadIsWhole ==
    ASSUME CoverInv, NEW l \in Lenders, settlement_factor_wad = WAD, haircut_owed[l] > 0
    PROVE  ClaimablePayout(l) = haircut_owed[l]
<1>1. /\ haircut_owed[l] \in Nat /\ withdrawal_sf[l] \in 0 .. WAD
      /\ withdrawal_sf[l] < WAD
  BY CoverTypes DEF CoverInv, AnchorsBehindFactor
<1>2. ClaimableExact(haircut_owed[l], withdrawal_sf[l], WAD) = haircut_owed[l]
  BY <1>1, ClaimAtWad, CoverTypes
<1>3. haircut_owed[l] <= haircut_accumulator
  <2>1. haircut_owed[l] <= Total(haircut_owed)
    BY <1>1, CoverTypes, LendersTotal
  <2>2. QED
    BY <2>1 DEF CoverInv, BooksInv, AccumulatorIsSumOfOwed
<1>4. MulWad(TotalNormalized, WAD) = TotalNormalized
  BY CoverTypes, MulWadByOne
<1>5. vault >= TotalNormalized + haircut_accumulator
  BY DEF CoverInv, FullFactorCoversEveryone
<1>6. haircut_owed[l] <= SatSub(vault, TotalNormalized)
  BY <1>1, <1>3, <1>5, CoverTypes DEF SatSub
<1>7. SatSub(vault, TotalNormalized) \in Nat
  BY CoverTypes, SatSubRange
<1>8. ClaimablePayout(l) = Lesser(haircut_owed[l], SatSub(vault, TotalNormalized))
  BY <1>2, <1>4 DEF ClaimablePayout, TotalNormalized
<1>9. QED
  BY <1>1, <1>6, <1>7, <1>8 DEF Lesser

\* A claim takes as much from the vault as from the haircuts, and moves the anchor
\* to WAD only when nothing is left.
LEMMA PayClaimCovers ==
    ASSUME CoverInv, NEW l \in Lenders, PayClaim(l)
    PROVE  AnchorsBehindFactor' /\ FullFactorCoversEveryone'
<1> DEFINE payout == ClaimablePayout(l)
           rest == haircut_owed[l] - payout
<1>1. /\ haircut_owed[l] > 0 /\ settlement_factor_wad > withdrawal_sf[l]
      /\ haircut_owed' = [haircut_owed EXCEPT ![l] = rest]
      /\ withdrawal_sf' = [withdrawal_sf EXCEPT ![l] = AnchorAfterClaim(rest)]
      /\ haircut_accumulator >= payout
      /\ haircut_accumulator' = haircut_accumulator - payout
      /\ vault >= payout /\ vault' = vault - payout
      /\ UNCHANGED <<settlement_factor_wad, scale_factor, scaled_total_supply, opened>>
  BY DEF PayClaim, Reanchor, PayOut, accrualVars, supplyVars
<1>2. /\ haircut_owed[l] \in Nat /\ withdrawal_sf[l] \in 0 .. WAD
      /\ payout \in 0 .. haircut_owed[l] /\ rest \in Nat
  <2>1. haircut_owed[l] \in Nat /\ withdrawal_sf[l] \in 0 .. WAD
    BY CoverTypes
  <2>2. payout \in 0 .. haircut_owed[l]
    BY ClaimablePayoutRange DEF CoverInv, BooksInv, TypeInv
  <2> HIDE DEF payout
  <2>3. QED
    BY <2>1, <2>2
<1>3. settlement_factor_wad = WAD => rest = 0
  BY <1>1, <1>2, ClaimAtWadIsWhole
<1> HIDE DEF payout, rest
<1>4. FullFactorCoversEveryone'
  <2>1. TotalNormalized' = TotalNormalized
    BY <1>1 DEF TotalNormalized, Normalized, MulWad
  <2>2. QED
    BY <1>1, <1>2, <2>1, CoverTypes DEF CoverInv, FullFactorCoversEveryone
<1>5. AnchorsBehindFactor'
  <2>1. ASSUME NEW k \in Lenders, haircut_owed'[k] > 0
        PROVE  /\ k \in opened /\ 1 <= withdrawal_sf'[k] /\ withdrawal_sf'[k] < WAD
               /\ withdrawal_sf'[k] <= settlement_factor_wad
    <3>1. CASE k = l
      <4>1. rest > 0 /\ withdrawal_sf'[l] = settlement_factor_wad
        BY <1>1, <1>2, <2>1, <3>1, CoverTypes DEF AnchorAfterClaim
      <4>2. l \in opened /\ 1 <= withdrawal_sf[l]
        BY <1>1 DEF CoverInv, AnchorsBehindFactor
      <4>3. QED
        BY <1>1, <1>2, <1>3, <3>1, <4>1, <4>2, CoverTypes
    <3>2. CASE k # l
      BY <1>1, <2>1, <3>2, CoverTypes DEF CoverInv, AnchorsBehindFactor
    <3>3. QED
      BY <3>1, <3>2
  <2>2. QED
    BY <1>1, <2>1 DEF AnchorsBehindFactor
<1>6. QED
  BY <1>4, <1>5

\* A re-settlement to WAD finds the vault above the weights less the offsets, and
\* so above the haircuts.
LEMMA ReSettleCovers ==
    ASSUME CoverInv, ReSettle
    PROVE  AnchorsBehindFactor' /\ FullFactorCoversEveryone'
<1> DEFINE held == Normalized(scaled_total_supply, AccruedScale)
           new_factor == ComputeResettleFactor(vault, held, claim_weight_sum,
                                               claim_offset_sum)
<1>1. /\ AccrueScale /\ scale_factor' = AccruedScale
      /\ settlement_factor_wad' = new_factor /\ new_factor > settlement_factor_wad
      /\ UNCHANGED <<scaled_total_supply, opened, haircut_accumulator, haircut_owed,
                     withdrawal_sf, vault>>
  BY DEF ReSettle, AccrueInterest, AccrueScale, Improves, supplyVars, haircutVars,
         tokenVars
<1>2. /\ held \in Nat /\ vault \in Nat /\ haircut_accumulator \in Nat
      /\ claim_weight_sum \in Nat /\ claim_offset_sum \in Nat
      /\ haircut_accumulator + claim_offset_sum <= claim_weight_sum
  BY CoverTypes, WeightsCoverDebts
<1>3. TotalNormalized' = held
  BY <1>1 DEF TotalNormalized, Normalized, MulWad
<1> HIDE DEF held
<1>4. new_factor = WAD => vault >= held + haircut_accumulator
  <2>1. SUFFICES ASSUME new_factor = WAD PROVE vault >= held + haircut_accumulator
    OBVIOUS
  <2>2. CASE held + claim_weight_sum = 0
    BY <1>2, <2>2
  <2>3. CASE held + claim_weight_sum # 0
    <3>1. ComputeSettlementFactor(vault + claim_offset_sum, held + claim_weight_sum) = WAD
      BY <2>1, <2>3 DEF ComputeResettleFactor, ComputeSettlementFactor
    <3>2. vault + claim_offset_sum \in Nat /\ held + claim_weight_sum \in Nat
      BY <1>2
    <3>3. held + claim_weight_sum <= vault + claim_offset_sum
      BY <3>1, <3>2, FullFactorMeansCovered
    <3>4. QED
      BY <1>2, <3>3
  <2>4. QED
    BY <2>2, <2>3
<1>5. new_factor \in 1 .. WAD
  BY <1>2, ResettleFactorRange
<1> HIDE DEF new_factor
<1>6. FullFactorCoversEveryone'
  BY <1>1, <1>3, <1>4 DEF FullFactorCoversEveryone
<1>7. AnchorsBehindFactor'
  <2>1. \A l \in Lenders : haircut_owed[l] > 0 =>
          /\ l \in opened /\ 1 <= withdrawal_sf[l] /\ withdrawal_sf[l] < WAD
          /\ withdrawal_sf[l] <= new_factor
    BY <1>1, <1>5, CoverTypes DEF CoverInv, AnchorsBehindFactor
  <2>2. QED
    BY <1>1, <2>1 DEF AnchorsBehindFactor
<1>8. QED
  BY <1>6, <1>7

\* Steps that leave the haircuts and the factor alone and only add to the vault
\* of a settled market keep both.
LEMMA AddingCovers ==
    ASSUME CoverInv,
           UNCHANGED <<settlement_factor_wad, haircut_accumulator, haircut_owed,
                       withdrawal_sf>>,
           opened \subseteq opened', vault' \in Nat,
           Settled => TotalNormalized' = TotalNormalized /\ vault' >= vault
    PROVE  AnchorsBehindFactor' /\ FullFactorCoversEveryone'
<1>1. AnchorsBehindFactor'
  <2>1. \A l \in Lenders : haircut_owed[l] > 0 =>
          /\ l \in opened' /\ 1 <= withdrawal_sf[l] /\ withdrawal_sf[l] < WAD
          /\ withdrawal_sf[l] <= settlement_factor_wad
    BY DEF CoverInv, AnchorsBehindFactor
  <2>2. QED
    BY <2>1 DEF AnchorsBehindFactor
<1>2. FullFactorCoversEveryone'
  <2>1. SUFFICES ASSUME settlement_factor_wad = WAD
                 PROVE  vault' >= TotalNormalized' + haircut_accumulator'
    BY DEF FullFactorCoversEveryone
  <2>2. Settled
    BY <2>1, CoverTypes DEF Settled
  <2>3. vault >= TotalNormalized + haircut_accumulator
    BY <2>1 DEF CoverInv, FullFactorCoversEveryone
  <2>4. QED
    BY <2>2, <2>3, CoverTypes
<1>3. QED
  BY <1>1, <1>2

\* On a settled market what the balances are worth moves with the supply alone.
LEMMA SettledWorthStands ==
    ASSUME CoverInv, AccrueScale, UNCHANGED scaled_total_supply
    PROVE  /\ Settled => TotalNormalized' = TotalNormalized /\ now >= MaturityTimestamp
           /\ TotalNormalized' = Normalized(scaled_total_supply, AccruedScale)
<1>1. Settled => scale_factor' = scale_factor /\ now >= MaturityTimestamp
  BY SettledAccrual DEF CoverInv, SettlementInv, TypeInv
<1>2. QED
  BY <1>1 DEF AccrueScale, TotalNormalized, Normalized, MulWad

\* Fees and excess are what lies above the balances and the haircuts; a closed
\* account is owed nothing.
LEMMA SweepCovers ==
    ASSUME CoverInv,
           CollectFees \/ WithdrawExcess \/ \E l \in Lenders : CloseLenderPosition(l)
    PROVE  AnchorsBehindFactor' /\ FullFactorCoversEveryone'
<1>1. CASE CollectFees
  <2>1. /\ AccrueScale /\ vault' = vault - FeesPayable
        /\ UNCHANGED <<settlement_factor_wad, opened, scaled_total_supply,
                       haircut_accumulator, haircut_owed, withdrawal_sf>>
    BY <1>1 DEF CollectFees, PayOut, supplyVars, haircutVars
  <2>2. AnchorsBehindFactor'
    BY <2>1 DEF CoverInv, AnchorsBehindFactor
  <2>3. ASSUME settlement_factor_wad = WAD
        PROVE  vault' >= TotalNormalized' + haircut_accumulator
    <3> DEFINE held == Normalized(scaled_total_supply, AccruedScale)
    <3>1. FeesPayable \in Nat
          /\ FeesPayable <= SatSub(SatSub(vault, held), haircut_accumulator)
      BY FeesPayableRange, AccruedFeesType DEF CoverInv, BooksInv, TypeInv, TypeOK
    <3>2. vault >= held + haircut_accumulator /\ TotalNormalized' = held
      BY <2>1, <2>3, CoveredAtWad, SettledWorthStands DEF CoveredNow, AccrueScale
    <3>3. held \in Nat
      BY CoverTypes
    <3> HIDE DEF held
    <3>4. QED
      BY <2>1, <3>1, <3>2, <3>3, CoverTypes DEF SatSub
  <2>4. QED
    BY <2>1, <2>2, <2>3 DEF FullFactorCoversEveryone
<1>2. CASE WithdrawExcess
  <2>1. /\ scaled_total_supply = 0
        /\ vault' = vault - SatSub(vault, haircut_accumulator)
        /\ UNCHANGED marketVars
    BY <1>2 DEF WithdrawExcess, PayOut
  <2>2. AnchorsBehindFactor'
    BY <2>1 DEF CoverInv, AnchorsBehindFactor, marketVars, supplyVars, haircutVars
  <2>3. TotalNormalized' = TotalNormalized
    BY <2>1 DEF TotalNormalized, Normalized, MulWad, marketVars, accrualVars, supplyVars
  <2>4. TotalNormalized = 0
    <3>1. 0 * scale_factor = 0
      BY DEF CoverInv, BooksInv, TypeInv, TypeOK, AccrualTypeOK
    <3>2. QED
      BY <2>1, <3>1, WadPositive DEF TotalNormalized, Normalized, MulWad
  <2>5. UNCHANGED <<settlement_factor_wad, haircut_accumulator>>
    BY <2>1 DEF marketVars, haircutVars
  <2>6. settlement_factor_wad = WAD => vault >= TotalNormalized + haircut_accumulator
    BY DEF CoverInv, FullFactorCoversEveryone
  <2>7. QED
    BY <2>1, <2>2, <2>3, <2>4, <2>5, <2>6, CoverTypes
       DEF FullFactorCoversEveryone, SatSub
<1>3. ASSUME NEW l \in Lenders, CloseLenderPosition(l)
      PROVE  AnchorsBehindFactor' /\ FullFactorCoversEveryone'
  <2>1. /\ haircut_owed[l] = 0 /\ opened' = opened \ {l}
        /\ withdrawal_sf' = [withdrawal_sf EXCEPT ![l] = 0]
        /\ UNCHANGED <<settlement_factor_wad, scaled_total_supply, scale_factor,
                       haircut_accumulator, haircut_owed, vault>>
    BY <1>3 DEF CloseLenderPosition, accrualVars, tokenVars
  <2>2. FullFactorCoversEveryone'
    BY <2>1 DEF CoverInv, FullFactorCoversEveryone, TotalNormalized, Normalized, MulWad
  <2>3. ASSUME NEW k \in Lenders, haircut_owed[k] > 0
        PROVE  /\ k \in opened \ {l} /\ 1 <= withdrawal_sf'[k]
               /\ withdrawal_sf'[k] < WAD /\ withdrawal_sf'[k] <= settlement_factor_wad
    <3>1. k # l
      BY <2>1, <2>3
    <3>2. withdrawal_sf'[k] = withdrawal_sf[k]
      BY <2>1, <3>1, CoverTypes
    <3>3. QED
      BY <2>3, <3>1, <3>2 DEF CoverInv, AnchorsBehindFactor
  <2>4. AnchorsBehindFactor'
    BY <2>1, <2>3 DEF AnchorsBehindFactor
  <2>5. QED
    BY <2>2, <2>4
<1>4. QED
  BY <1>1, <1>2, <1>3

\* Every instruction keeps the anchors and the cover.
LEMMA CoverStep ==
    ASSUME CoverInv, SettlementInv', [Next]_vars
    PROVE  AnchorsBehindFactor' /\ FullFactorCoversEveryone'
<1> DEFINE Goal == AnchorsBehindFactor' /\ FullFactorCoversEveryone'
<1>1. vault' \in Nat
  BY DEF SettlementInv, TypeInv, TypeOK, TokenTypeOK
<1>2. ASSUME NEW l \in Lenders, NEW amount \in DepositAmounts, Deposit(l, amount)
      PROVE  Goal
  <2>1. /\ AccrueScale /\ now < MaturityTimestamp /\ opened \subseteq opened'
        /\ UNCHANGED <<settlement_factor_wad, haircut_accumulator, haircut_owed,
                       withdrawal_sf>>
    BY <1>2 DEF Deposit, AccrueInterest, haircutVars
  <2>2. ~Settled
    <3>1. Settled => now >= MaturityTimestamp
      BY <2>1, SettledAccrual DEF CoverInv, SettlementInv, TypeInv
    <3>2. now \in Nat
      BY DEF CoverInv, SettlementInv, TypeInv, TypeOK, ConfigTypeOK
    <3>3. QED
      BY <2>1, <3>1, <3>2, ConstantTypes
  <2>3. QED
    BY <1>1, <2>1, <2>2, AddingCovers
<1>3. ASSUME NEW amount \in BorrowAmounts, Borrow(amount)
      PROVE  Goal
  <2>1. /\ AccrueScale /\ now < MaturityTimestamp
        /\ UNCHANGED <<settlement_factor_wad, haircut_accumulator, haircut_owed,
                       withdrawal_sf, opened>>
    BY <1>3 DEF Borrow, AccrueInterest, haircutVars, supplyVars
  <2>2. ~Settled
    <3>1. Settled => now >= MaturityTimestamp
      BY <2>1, SettledAccrual DEF CoverInv, SettlementInv, TypeInv
    <3>2. now \in Nat
      BY DEF CoverInv, SettlementInv, TypeInv, TypeOK, ConfigTypeOK
    <3>3. QED
      BY <2>1, <3>1, <3>2, ConstantTypes
  <2>3. QED
    BY <1>1, <2>1, <2>2, AddingCovers
<1>4. ASSUME NEW payer \in Payers, NEW amount \in RepayAmounts \cup InterestAmounts,
             Repay(payer, amount) \/ RepayInterest(payer, amount)
      PROVE  Goal
  <2>1. /\ AccrueScale /\ vault' = vault + amount /\ amount \in Nat
        /\ UNCHANGED <<settlement_factor_wad, haircut_accumulator, haircut_owed,
                       withdrawal_sf, opened, scaled_total_supply>>
    BY <1>4, ConstantTypes DEF Repay, RepayInterest, CountPayment, AccrueInterest, PayIn,
                               haircutVars, supplyVars
  <2>2. vault' >= vault
    BY <2>1, CoverTypes
  <2>3. QED
    BY <1>1, <2>1, <2>2, SettledWorthStands, AddingCovers
<1>5. ASSUME NEW l \in Lenders, NEW request \in WithdrawRequests, NEW min_payout,
             Withdraw(l, request, min_payout)
      PROVE  Goal
  <2>1. l \in opened
    BY <1>5 DEF Withdraw
  <2>2. \E amount \in 0 .. scaled_balance[l] :
          /\ settlement_factor_wad = 0 => now >= MaturityTimestamp
          /\ LeaveMarket(l, amount, FactorForExit)
    BY <1>5, WithdrawLeaves DEF CoverInv
  <2>3. QED
    BY <2>1, <2>2, ExitAnchors, ExitCovers
<1>6. ASSUME NEW l \in Lenders, ForceClosePosition(l)
      PROVE  Goal
  <2>1. l \in opened
    BY <1>6 DEF ForceClosePosition
  <2>2. \E amount \in 0 .. scaled_balance[l] :
          /\ settlement_factor_wad = 0 => now >= MaturityTimestamp
          /\ LeaveMarket(l, amount, FactorForExit)
    BY <1>6, ForceCloseLeaves DEF CoverInv
  <2>3. QED
    BY <2>1, <2>2, ExitAnchors, ExitCovers
<1>7. (\E l \in Lenders : PayClaim(l)) \/ ReSettle => Goal
  BY PayClaimCovers, ReSettleCovers
<1>8. CollectFees \/ WithdrawExcess \/ (\E l \in Lenders : CloseLenderPosition(l))
        => Goal
  BY SweepCovers
<1>9. MarketUntouched => Goal
  <2>1. SUFFICES ASSUME MarketUntouched PROVE Goal
    OBVIOUS
  <2>2. /\ UNCHANGED <<settlement_factor_wad, haircut_accumulator, haircut_owed,
                       withdrawal_sf, opened>>
        /\ TotalNormalized' = TotalNormalized
    BY <2>1, MarketUntouchedKeeps
       DEF marketVars, accrualVars, supplyVars, haircutVars, TotalNormalized,
           Normalized, MulWad
  <2>3. vault' = vault \/ \E payer \in Payers, amount \in DonationAmounts :
                             vault' = vault + amount
    BY <2>1 DEF MarketUntouched, SetBorrowerWhitelist, SetPause, SetFeeConfig,
                SetBlocked, Donate, PayIn, Tick, vars, tokenVars
  <2>4. vault' >= vault
    BY <2>3, CoverTypes, ConstantTypes
  <2>5. QED
    BY <1>1, <2>2, <2>4, AddingCovers
<1> HIDE DEF Goal
<1>10. Goal
  BY StepCases, <1>2, <1>3, <1>4, <1>5, <1>6, <1>7, <1>8, <1>9
<1>11. QED
  BY <1>10 DEF Goal

\* A new market has no haircuts and is not settled.
LEMMA CoverInit == Init => AnchorsBehindFactor /\ FullFactorCoversEveryone
  BY WadPositive DEF Init, AnchorsBehindFactor, FullFactorCoversEveryone

\* The cover holds in every reachable state.
LEMMA CoverInvariant == Spec => []CoverInv
<1>1. Init => CoverInv
  BY SettlementInvInit, BooksInvInit, CoverInit DEF CoverInv
<1>2. CoverInv /\ [Next]_vars => CoverInv'
  <2>1. SUFFICES ASSUME CoverInv, [Next]_vars PROVE CoverInv'
    OBVIOUS
  <2>2. SettlementInv' /\ BooksInv'
    BY <2>1, SettlementInvStep, BooksInvStep DEF CoverInv
  <2>3. AnchorsBehindFactor' /\ FullFactorCoversEveryone'
    BY <2>1, <2>2, CoverStep
  <2>4. QED
    BY <2>2, <2>3 DEF CoverInv
<1>3. QED
  BY <1>1, <1>2, PTL DEF Spec

\* A lender with a haircut is always anchored at a factor the market has had and
\* below WAD, whatever order exits, claims and re-settlements run in: no haircut is
\* stranded where the claim formula gives nothing.
THEOREM AnchorsStayBehind == Spec => []AnchorsBehindFactor
<1>1. CoverInv => AnchorsBehindFactor
  BY DEF CoverInv
<1>2. QED
  BY <1>1, CoverInvariant, PTL

\* Once the factor is WAD the vault holds every balance and every haircut in full,
\* so the sweeps and the order of payment cannot leave anybody short.
THEOREM FullFactorCovers == Spec => []FullFactorCoversEveryone
<1>1. CoverInv => FullFactorCoversEveryone
  BY DEF CoverInv
<1>2. QED
  BY <1>1, CoverInvariant, PTL

-----------------------------------------------------------------------------
(* Solvency.  The books of a settled market as one inequality between the  *)
(* vault and what the factor promises, one unit let off for every lender   *)
(* anchored at that factor; a step moves one lender's line of it.          *)

LetOff(owed, anchor_sf, f) == IF owed > 0 /\ anchor_sf = f THEN 1 ELSE 0

LostAt(owed, anchor, f) == [l \in Lenders |-> LetOff(owed[l], anchor[l], f)]

DueAt(owed, anchor, f) ==
    [l \in Lenders |-> ClaimableExact(owed[l], anchor[l], f)]

Funded(funds, held, owed, anchor, f) ==
    funds + Total(LostAt(owed, anchor, f)) >= MulWad(held, f) + Total(DueAt(owed, anchor, f))

\* The lines are natural numbers.
LEMMA LinesType ==
    ASSUME NEW owed \in [Lenders -> Nat], NEW anchor \in [Lenders -> 0 .. WAD],
           NEW f \in 1 .. WAD
    PROVE  /\ LostAt(owed, anchor, f) \in [Lenders -> Nat]
           /\ DueAt(owed, anchor, f) \in [Lenders -> Nat]
           /\ Total(LostAt(owed, anchor, f)) \in Nat
           /\ Total(DueAt(owed, anchor, f)) \in Nat
<1>1. LostAt(owed, anchor, f) \in [Lenders -> Nat]
  BY DEF LostAt, LetOff
<1>2. ASSUME NEW l \in Lenders PROVE ClaimableExact(owed[l], anchor[l], f) \in Nat
  <2>1. owed[l] \in Nat /\ anchor[l] \in 0 .. WAD /\ f \in 0 .. WAD
    BY WadPositive
  <2>2. QED
    BY <2>1, ClaimableAtMostOwed
<1>3. DueAt(owed, anchor, f) \in [Lenders -> Nat]
  BY <1>2 DEF DueAt
<1>4. QED
  BY <1>1, <1>3, UnitsAreFinite, MarketAssumption

\* One lender's line changes: the vault and the balances must make up for it.
LEMMA OneLineMoves ==
    ASSUME NEW owed \in [Lenders -> Nat], NEW anchor \in [Lenders -> 0 .. WAD],
           NEW f \in 1 .. WAD, NEW l \in Lenders,
           NEW new_owed \in Nat, NEW new_anchor \in 0 .. WAD,
           NEW funds \in Nat, NEW held \in Nat, NEW new_funds \in Nat, NEW new_held \in Nat,
           Funded(funds, held, owed, anchor, f),
           funds + LetOff(owed[l], anchor[l], f) + MulWad(new_held, f)
               + ClaimableExact(new_owed, new_anchor, f)
             <= new_funds + LetOff(new_owed, new_anchor, f) + MulWad(held, f)
                  + ClaimableExact(owed[l], anchor[l], f)
    PROVE  Funded(new_funds, new_held, [owed EXCEPT ![l] = new_owed],
                  [anchor EXCEPT ![l] = new_anchor], f)
<1> DEFINE owed2 == [owed EXCEPT ![l] = new_owed]
           anchor2 == [anchor EXCEPT ![l] = new_anchor]
           L == LostAt(owed, anchor, f)
           D == DueAt(owed, anchor, f)
           lost2 == LetOff(new_owed, new_anchor, f)
           due2 == ClaimableExact(new_owed, new_anchor, f)
<1>1. L \in [Lenders -> Nat] /\ D \in [Lenders -> Nat] /\ Total(L) \in Nat /\ Total(D) \in Nat
  BY LinesType
<1>2. lost2 \in Nat /\ due2 \in Nat
  <2>1. f \in 0 .. WAD
    BY WadPositive
  <2>2. due2 \in Nat
    BY <2>1, ClaimableAtMostOwed
  <2>3. lost2 \in Nat
    BY DEF LetOff
  <2>4. QED
    BY <2>2, <2>3
<1>3. LostAt(owed2, anchor2, f) = [L EXCEPT ![l] = lost2]
  BY DEF LostAt
<1>4. DueAt(owed2, anchor2, f) = [D EXCEPT ![l] = due2]
  BY DEF DueAt
<1>5. /\ L[l] = LetOff(owed[l], anchor[l], f)
      /\ D[l] = ClaimableExact(owed[l], anchor[l], f)
  BY DEF LostAt, DueAt
<1>6. MulWad(held, f) \in Nat /\ MulWad(new_held, f) \in Nat
  <2>1. f \in Nat
    BY WadPositive
  <2>2. QED
    BY <2>1, MulWadType
<1>7. funds + L[l] + MulWad(new_held, f) + due2 <= new_funds + lost2 + MulWad(held, f) + D[l]
  BY <1>5
<1>8. funds + Total(L) >= MulWad(held, f) + Total(D)
  BY DEF Funded
<1> HIDE DEF L, D, lost2, due2, owed2, anchor2
<1>9. /\ Total([L EXCEPT ![l] = lost2]) = Total(L) - L[l] + lost2
      /\ Total([D EXCEPT ![l] = due2]) = Total(D) - D[l] + due2
      /\ L[l] \in Nat /\ D[l] \in Nat
  BY <1>1, <1>2, LendersTotal
<1>10. new_funds + (Total(L) - L[l] + lost2) >= MulWad(new_held, f) + (Total(D) - D[l] + due2)
  BY <1>1, <1>2, <1>6, <1>7, <1>8, <1>9
<1>11. Funded(new_funds, new_held, owed2, anchor2, f)
  BY <1>3, <1>4, <1>9, <1>10 DEF Funded
<1>12. QED
  BY <1>11 DEF owed2, anchor2

\* At the lowest factor nothing is promised to balances below WAD together, and
\* nobody's anchor has been passed.
LEMMA LowestFactorIsFunded ==
    ASSUME NEW owed \in [Lenders -> Nat], NEW anchor \in [Lenders -> 0 .. WAD],
           \A l \in Lenders : owed[l] > 0 => 1 <= anchor[l],
           NEW funds \in Nat, NEW held \in Nat, held < WAD
    PROVE  Funded(funds, held, owed, anchor, 1)
<1>1. 1 \in 1 .. WAD
  BY WadPositive
<1>2. Total(LostAt(owed, anchor, 1)) \in Nat
  BY <1>1, LinesType
<1>3. DueAt(owed, anchor, 1) = [l \in Lenders |-> 0]
  <2>1. ASSUME NEW l \in Lenders PROVE ClaimableExact(owed[l], anchor[l], 1) = 0
    <3>1. owed[l] \in Nat /\ anchor[l] \in 0 .. WAD /\ WAD \in Nat
      BY WadPositive
    <3>2. owed[l] = 0 \/ 1 <= anchor[l]
      BY <3>1
    <3>3. QED
      BY <3>2 DEF ClaimableExact
  <2>2. QED
    BY <2>1 DEF DueAt
<1>4. MulWad(held, 1) = 0
  <2>1. held * 1 = held /\ 0 * WAD <= held /\ held < (0 + 1) * WAD
    BY WadPositive
  <2>2. held \div WAD = 0
    BY <2>1, WadPositive, DivBelow, DivBounds
  <2>3. QED
    BY <2>1, <2>2 DEF MulWad
<1>5. QED
  BY <1>2, <1>3, <1>4, TotalOfZeros DEF Funded

\* A factor computed from the vault over the balances alone, with no haircut yet, is
\* funded.
LEMMA FirstFactorIsFunded ==
    ASSUME NEW owed \in [Lenders -> Nat], NEW anchor \in [Lenders -> 0 .. WAD],
           \A l \in Lenders : owed[l] = 0,
           NEW funds \in Nat, NEW held \in Nat,
           ComputeSettlementFactor(funds, held) > 1
    PROVE  Funded(funds, held, owed, anchor, ComputeSettlementFactor(funds, held))
<1> DEFINE f == ComputeSettlementFactor(funds, held)
<1>1. f \in 1 .. WAD
  BY SettlementFactorRange
<1>2. held * f <= funds * WAD
  BY FactorIsFunded
<1> HIDE DEF f
<1>3. MulWad(held, f) <= funds /\ MulWad(held, f) \in Nat
  <2>1. held * f \in Nat /\ f \in Nat
    BY <1>1
  <2>2. QED
    BY <1>2, <2>1, WadPositive, DivAtMost, MulWadType DEF MulWad
<1>4. DueAt(owed, anchor, f) = [l \in Lenders |-> 0]
  BY DEF DueAt, ClaimableExact
<1>5. Total(LostAt(owed, anchor, f)) \in Nat
  BY <1>1, LinesType
<1>6. Funded(funds, held, owed, anchor, f)
  BY <1>3, <1>4, <1>5, TotalOfZeros DEF Funded
<1>7. QED
  BY <1>6 DEF f

\* The straight lines of position_contribution stay above the claims, so a factor
\* computed from their sums promises the departed no more than they get.
LEMMA ResettledFactorIsFunded ==
    ASSUME NEW owed \in [Lenders -> Nat], NEW anchor \in [Lenders -> 0 .. WAD],
           NEW funds \in Nat, NEW held \in Nat, NEW f \in 2 .. WAD,
           \A l \in Lenders : owed[l] > 0 => anchor[l] <= f,
           f = ComputeResettleFactor(funds, held,
                 Total([l \in Lenders |-> Weight(owed[l], anchor[l])]),
                 Total([l \in Lenders |-> Offset(owed[l], anchor[l])]))
    PROVE  Funded(funds, held, owed, anchor, f)
<1> DEFINE W == [l \in Lenders |-> Weight(owed[l], anchor[l])]
           O == [l \in Lenders |-> Offset(owed[l], anchor[l])]
           D == DueAt(owed, anchor, f)
           Below == [l \in Lenders |-> D[l] + O[l]]
           m == MulWad(held, f)
<1>1. WAD \in Nat \ {0} /\ f \in Nat /\ f \in 1 .. WAD /\ IsFiniteSet(Lenders)
  BY WadPositive, MarketAssumption
<1>2. D \in [Lenders -> Nat] /\ Total(LostAt(owed, anchor, f)) \in Nat
  BY <1>1, LinesType
<1>3. W \in [Lenders -> Nat] /\ O \in [Lenders -> Nat]
  BY ContributionType
<1>4. ASSUME NEW l \in Lenders PROVE WAD * (D[l] + O[l]) <= f * W[l]
  <2>1. owed[l] \in Nat /\ anchor[l] \in 0 .. WAD
    OBVIOUS
  <2>2. D[l] = ClaimableExact(owed[l], anchor[l], f)
    BY DEF DueAt
  <2>3. D[l] \in Nat /\ O[l] \in Nat /\ W[l] \in Nat
    BY <1>2, <1>3
  <2>4. CASE owed[l] = 0
    <3>1. W[l] = 0 /\ D[l] = 0
      BY <2>2, <2>4 DEF Weight, ClaimableExact
    <3>2. O[l] = 0
      <4>1. Weight(owed[l], anchor[l]) = 0
        BY <2>4 DEF Weight
      <4>2. 0 * anchor[l] = 0 /\ 0 \div WAD = 0
        BY <1>1, <2>1
      <4>3. Offset(owed[l], anchor[l]) = 0
        BY <4>1, <4>2 DEF Offset, MulWad
      <4>4. QED
        BY <4>3
    <3> HIDE DEF W, O, D
    <3>3. QED
      BY <1>1, <3>1, <3>2
  <2>5. CASE owed[l] # 0
    <3>1. f \in anchor[l] .. WAD
      BY <1>1, <2>1, <2>5
    <3>2. (D[l] + O[l]) * WAD <= W[l] * f
      BY <2>1, <2>2, <3>1, ContributionCoversClaim
    <3> HIDE DEF W, O, D
    <3>3. (D[l] + O[l]) * WAD = WAD * (D[l] + O[l]) /\ W[l] * f = f * W[l]
      BY <1>1, <2>3, Z3
    <3>4. QED
      BY <3>2, <3>3
  <2>6. QED
    BY <2>4, <2>5
<1>5. f = ComputeSettlementFactor(funds + Total(O), held + Total(W))
  BY DEF ComputeResettleFactor, ComputeSettlementFactor
<1> HIDE DEF W, O, D
<1>6. Total(W) \in Nat /\ Total(O) \in Nat /\ Total(D) \in Nat
  BY <1>1, <1>2, <1>3, UnitsAreFinite
<1>7. WAD * (Total(D) + Total(O)) <= f * Total(W)
  <2>1. Below \in [Lenders -> Nat] /\ \A l \in Lenders : Below[l] = D[l] + O[l]
    BY <1>2, <1>3
  <2>2. Total(Below) = Total(D) + Total(O)
    BY <1>1, <1>2, <1>3, TotalOfSum
  <2> HIDE DEF Below
  <2> DEFINE Lower == [l \in Lenders |-> WAD * Below[l]]
             Upper == [l \in Lenders |-> f * W[l]]
  <2>3. Total(Lower) = WAD * Total(Below) /\ Total(Upper) = f * Total(W)
    <3>1. WAD \in Nat /\ IsFiniteSet(Lenders) /\ Below \in [Lenders -> Nat]
      BY <1>1, <2>1
    <3>2. Total([l \in Lenders |-> WAD * Below[l]]) = WAD * Total(Below)
      BY ONLY <3>1, TotalOfScaled
    <3>3. Total([l \in Lenders |-> f * W[l]]) = f * Total(W)
      BY ONLY <1>1, <1>3, TotalOfScaled
    <3>4. QED
      BY <3>2, <3>3
  <2>4. Lower \in [Lenders -> Nat] /\ Upper \in [Lenders -> Nat]
    BY <1>1, <1>3, <2>1
  <2>5. \A l \in Lenders : Lower[l] <= Upper[l]
    BY <1>4, <2>1
  <2> HIDE DEF Lower, Upper
  <2>6. Total(Lower) <= Total(Upper)
    BY <1>1, <2>4, <2>5, TotalMonotone
  <2>7. QED
    BY <2>2, <2>3, <2>6
<1>8. (held + Total(W)) * f <= (funds + Total(O)) * WAD
  <2>1. funds + Total(O) \in Nat /\ held + Total(W) \in Nat /\ f > 1
    BY <1>1, <1>6
  <2>2. QED
    BY <1>5, <2>1, FactorIsFunded
<1>9. m \in Nat /\ m * WAD <= held * f
  <2>1. held * f \in Nat
    BY <1>1
  <2>2. QED
    BY <1>1, <2>1, DivBounds DEF MulWad
<1> HIDE DEF m
<1>10. (m + Total(D) + Total(O)) * WAD <= (funds + Total(O)) * WAD
  <2>1. /\ (m + Total(D) + Total(O)) * WAD = m * WAD + WAD * (Total(D) + Total(O))
        /\ (held + Total(W)) * f = held * f + f * Total(W)
    BY <1>1, <1>6, <1>9, Z3
  <2>2. {m * WAD, held * f, f * Total(W), WAD * (Total(D) + Total(O)),
         (funds + Total(O)) * WAD} \subseteq Nat
    BY <1>1, <1>6, <1>9
  <2>3. QED
    BY <1>7, <1>8, <1>9, <2>1, <2>2
<1>11. m + Total(D) + Total(O) <= funds + Total(O)
  <2>1. m + Total(D) + Total(O) \in Nat /\ funds + Total(O) \in Nat
    BY <1>6, <1>9
  <2>2. QED
    BY <1>1, <1>10, <2>1, CancelFactor
<1>12. m + Total(D) <= funds
  BY <1>6, <1>9, <1>11
<1>13. QED
  BY <1>2, <1>6, <1>9, <1>12 DEF Funded, D, m

\* What an exit hands out of an older haircut costs at most its claim and the unit
\* the lender is let off from then on.
LEMMA RecoveryLine ==
    ASSUME NEW owed \in Nat, NEW anchor_sf \in 0 .. WAD, NEW f \in 1 .. WAD,
           owed > 0 => anchor_sf <= f
    PROVE  LET recovered == SatSub(owed, RebaseRemainingOwed(owed, anchor_sf, f))
           IN  /\ recovered \in Nat
               /\ RebaseRemainingOwed(owed, anchor_sf, f) \in Nat
               /\ LetOff(owed, anchor_sf, f) + recovered
                    <= ClaimableExact(owed, anchor_sf, f) + 1
<1> DEFINE left == RebaseRemainingOwed(owed, anchor_sf, f)
           claim == ClaimableExact(owed, anchor_sf, f)
<1>1. claim \in Nat /\ f \in 0 .. WAD
  <2>1. f \in 0 .. WAD
    BY WadPositive
  <2>2. QED
    BY <2>1, ClaimableAtMostOwed
<1>2. CASE owed = 0
  <2>1. left = 0 /\ LetOff(owed, anchor_sf, f) = 0
    BY <1>2 DEF RebaseRemainingOwed, LetOff
  <2> HIDE DEF left, claim
  <2>2. SatSub(owed, left) = 0
    BY <1>2, <2>1 DEF SatSub
  <2>3. QED
    BY <1>1, <2>1, <2>2 DEF left, claim
<1>3. CASE owed # 0
  <2>1. f \in anchor_sf .. WAD
    BY <1>3, WadPositive
  <2>2. left \in 0 .. owed
    BY <2>1, RebaseShrinks
  <2>3. /\ owed - left \in Nat /\ owed - left <= claim + 1
        /\ anchor_sf = f => owed - left = 0
    BY <2>1, RecoveryWithinOne
  <2> HIDE DEF left, claim
  <2>4. SatSub(owed, left) = owed - left
    BY <2>2 DEF SatSub
  <2>5. LetOff(owed, anchor_sf, f) + (owed - left) <= claim + 1
    BY <1>1, <2>3 DEF LetOff
  <2>6. QED
    BY <2>2, <2>3, <2>4, <2>5 DEF left, claim
<1>4. QED
  BY <1>2, <1>3

-----------------------------------------------------------------------------
(* Solvency, step by step.                                                 *)

SolventNow ==
    Funded(vault, TotalNormalized, haircut_owed, withdrawal_sf, settlement_factor_wad)

\* Above the lowest factor, which also stands for less, the books are funded.
SolvencyInv ==
    /\ CoverInv
    /\ settlement_factor_wad > 1 => SolventNow

\* The units let off are the lenders anchored at the factor.
LEMMA LetOffAreAnchored ==
    ASSUME NEW owed \in [Lenders -> Nat], NEW anchor \in [Lenders -> 0 .. WAD], NEW f
    PROVE  Total(LostAt(owed, anchor, f)) =
             Cardinality({l \in Lenders : owed[l] > 0 /\ anchor[l] = f})
<1> DEFINE T == {l \in Lenders : owed[l] > 0 /\ anchor[l] = f}
<1>1. T \in SUBSET Lenders /\ IsFiniteSet(Lenders)
  BY MarketAssumption
<1>2. LostAt(owed, anchor, f) = [l \in Lenders |-> IF l \in T THEN 1 ELSE 0]
  BY DEF LostAt, LetOff
<1> HIDE DEF T
<1>3. Total(LostAt(owed, anchor, f)) = Cardinality(T)
  BY <1>1, <1>2, TotalOfMembers
<1>4. QED
  BY <1>3 DEF T

\* The invariant is the property and what makes it inductive.
LEMMA SolvencyInvMeans == SolvencyInv => SolventUpToOneUnitPerLender
<1> SUFFICES ASSUME SolvencyInv, Settled,
                    settlement_factor_wad > 1 \/ TotalNormalized < WAD
             PROVE  vault + Cardinality(AnchoredNow) >= PromisedNow
  BY DEF SolventUpToOneUnitPerLender
<1>1. /\ vault \in Nat /\ TotalNormalized \in Nat
      /\ haircut_owed \in [Lenders -> Nat] /\ withdrawal_sf \in [Lenders -> 0 .. WAD]
      /\ settlement_factor_wad \in 1 .. WAD
  BY CoverTypes DEF SolvencyInv, Settled
<1>2. SolventNow
  <2>1. CASE settlement_factor_wad > 1
    BY <2>1 DEF SolvencyInv
  <2>2. CASE settlement_factor_wad = 1
    <3>1. \A l \in Lenders : haircut_owed[l] > 0 => 1 <= withdrawal_sf[l]
      BY DEF SolvencyInv, CoverInv, AnchorsBehindFactor
    <3>2. Funded(vault, TotalNormalized, haircut_owed, withdrawal_sf, 1)
      BY <1>1, <2>2, <3>1, LowestFactorIsFunded
    <3>3. QED
      BY <2>2, <3>2 DEF SolventNow
  <2>3. QED
    BY <1>1, <2>1, <2>2
<1>3. Total(LostAt(haircut_owed, withdrawal_sf, settlement_factor_wad))
        = Cardinality(AnchoredNow)
  BY <1>1, LetOffAreAnchored DEF AnchoredNow
<1>4. QED
  BY <1>2, <1>3 DEF SolventNow, Funded, PromisedNow, DueAt

\* An exit that fixes or meets a factor finds its promise funded.
LEMMA ExitFindsFunds ==
    ASSUME SolvencyInv, ClockNotBehind, FactorForExit > 1
    PROVE  Funded(vault, Normalized(scaled_total_supply, AccruedScale),
                  haircut_owed, withdrawal_sf, FactorForExit)
<1>1. CoverInv
  BY DEF SolvencyInv
<1>2. CASE Settled
  <2>1. FactorForExit = settlement_factor_wad
    BY <1>2 DEF FactorForExit, Settled
  <2>2. AccruedScale = scale_factor
    BY <1>1, <1>2, SettledStandsStill DEF CoverInv, SettlementInv, TypeInv
  <2>3. SolventNow
    BY <2>1 DEF SolvencyInv
  <2>4. QED
    BY <2>1, <2>2, <2>3 DEF SolventNow, TotalNormalized
<1>3. CASE ~Settled
  <2>1. FactorForExit =
          ComputeSettlementFactor(vault, Normalized(scaled_total_supply, AccruedScale))
    BY <1>3 DEF FactorForExit, Settled
  <2>2. \A l \in Lenders : haircut_owed[l] = 0
    BY <1>1, <1>3, UnsettledOwesNothing
  <2>3. /\ vault \in Nat /\ Normalized(scaled_total_supply, AccruedScale) \in Nat
        /\ haircut_owed \in [Lenders -> Nat] /\ withdrawal_sf \in [Lenders -> 0 .. WAD]
    BY <1>1, CoverTypes
  <2> HIDE DEF Normalized
  <2>4. QED
    BY <2>1, <2>2, <2>3, FirstFactorIsFunded
<1>4. QED
  BY <1>2, <1>3

\* An exit takes the factor's share of its part of the balances, and of an older
\* haircut what it gained, rounded up.
LEMMA ExitStaysSolvent ==
    ASSUME SolvencyInv, NEW l \in Lenders, NEW amount \in 0 .. scaled_balance[l],
           settlement_factor_wad = 0 => now >= MaturityTimestamp,
           LeaveMarket(l, amount, FactorForExit), FactorForExit > 1
    PROVE  SolventNow'
<1> DEFINE F == FactorForExit
           held == Normalized(scaled_total_supply, AccruedScale)
           entitled == Normalized(amount, AccruedScale)
           rest == scaled_total_supply - amount
           still_held == Normalized(rest, AccruedScale)
           paid == MulWad(entitled, F)
           gap == SatSub(entitled, paid)
           owed == haircut_owed[l]
           anchor_sf == withdrawal_sf[l]
<1>1. /\ settlement_factor_wad' = F /\ AccrueScale /\ scale_factor' = AccruedScale
      /\ amount <= scaled_total_supply /\ scaled_total_supply' = rest
      /\ TrackHaircut(l, F, gap)
      /\ PayOut(l, paid + Recovered(l, F, gap))
  BY DEF LeaveMarket, AccrueInterest, AccrueScale
<1>2. CoverInv
  BY DEF SolvencyInv
<1>3. /\ vault \in Nat /\ held \in Nat /\ AccruedScale \in Nat /\ scaled_total_supply \in Nat
      /\ haircut_owed \in [Lenders -> Nat] /\ withdrawal_sf \in [Lenders -> 0 .. WAD]
  BY <1>2, CoverTypes
<1>4. F \in 1 .. WAD /\ F \in Nat /\ WAD \in Nat
      /\ (Settled => F = settlement_factor_wad)
  <2>1. F \in 1 .. WAD /\ (Settled => F = settlement_factor_wad)
    BY <1>2, FactorForExitRange DEF CoverInv, BooksInv, TypeInv, Settled
  <2>2. QED
    BY <2>1, WadPositive
<1>5. amount \in Nat /\ rest \in Nat /\ amount + rest = scaled_total_supply
  <2>1. amount \in Nat
    BY <1>2 DEF CoverInv, BooksInv, TypeInv, TypeOK, SupplyTypeOK
  <2>2. QED
    BY <1>1, <1>3, <2>1
<1>6. Funded(vault, held, haircut_owed, withdrawal_sf, F)
  BY <1>1, ExitFindsFunds DEF AccrueScale
<1>7. TotalNormalized' = still_held
  BY <1>1 DEF TotalNormalized, Normalized, MulWad
<1>8. entitled \in Nat /\ still_held \in Nat /\ still_held + entitled <= held
  <2>1. /\ MulWad(amount, AccruedScale) \in Nat /\ MulWad(rest, AccruedScale) \in Nat
        /\ MulWad(amount + rest, AccruedScale) \in Nat
    <3> HIDE DEF rest
    <3>1. amount + rest \in Nat
      BY <1>5
    <3>2. QED
      BY <1>3, <1>5, <3>1, MulWadType
  <2>2. MulWad(amount + rest, AccruedScale)
          - (MulWad(amount, AccruedScale) + MulWad(rest, AccruedScale)) \in {0, 1}
    <3> HIDE DEF rest
    <3>1. QED
      BY <1>3, <1>5, MulWadSplits
  <2>3. held = MulWad(amount + rest, AccruedScale)
    BY <1>5 DEF Normalized
  <2>4. entitled = MulWad(amount, AccruedScale) /\ still_held = MulWad(rest, AccruedScale)
    BY DEF Normalized
  <2> HIDE DEF held, entitled, still_held, rest
  <2>5. QED
    BY <2>1, <2>2, <2>3, <2>4
<1> HIDE DEF F, held, entitled, still_held, rest
<1>9. /\ paid \in Nat /\ MulWad(still_held, F) \in Nat /\ MulWad(held, F) \in Nat
      /\ MulWad(still_held, F) + paid <= MulWad(held, F)
  <2>1. /\ MulWad(still_held + entitled, F) <= MulWad(held, F)
        /\ MulWad(still_held + entitled, F) - (MulWad(still_held, F) + MulWad(entitled, F))
             \in {0, 1}
    <3>1. still_held + entitled \in Nat
      BY <1>8
    <3>2. QED
      BY <1>3, <1>4, <1>8, <3>1, MulWadMonotone, MulWadSplits
  <2>2. /\ MulWad(still_held, F) \in Nat /\ MulWad(held, F) \in Nat
        /\ MulWad(entitled, F) \in Nat /\ MulWad(still_held + entitled, F) \in Nat
    <3>1. still_held + entitled \in Nat
      BY <1>8
    <3>2. QED
      BY <1>3, <1>4, <1>8, <3>1, MulWadType
  <2>3. QED
    BY <2>1, <2>2
<1> HIDE DEF paid
<1>10. CASE ~LeavesHaircut(F, gap)
  <2>1. /\ UNCHANGED <<haircut_owed, withdrawal_sf>>
        /\ vault' = vault - paid
    <3>1. Recovered(l, F, gap) = 0
      BY <1>10 DEF Recovered
    <3>2. QED
      BY <1>1, <1>3, <1>9, <1>10, <3>1 DEF TrackHaircut, haircutVars, PayOut
  <2>2. /\ Total(LostAt(haircut_owed, withdrawal_sf, F)) \in Nat
        /\ Total(DueAt(haircut_owed, withdrawal_sf, F)) \in Nat
    BY <1>3, <1>4, LinesType
  <2>3. Funded(vault - paid, still_held, haircut_owed, withdrawal_sf, F)
    BY <1>3, <1>6, <1>9, <2>2 DEF Funded
  <2>4. QED
    BY <1>1, <1>7, <2>1, <2>3 DEF SolventNow
<1>11. CASE LeavesHaircut(F, gap)
  <2> DEFINE left == RebaseRemainingOwed(owed, anchor_sf, F)
             recovered == SatSub(owed, left)
             new_owed == left + gap
  <2>1. /\ haircut_owed' = [haircut_owed EXCEPT ![l] = new_owed]
        /\ withdrawal_sf' = [withdrawal_sf EXCEPT ![l] = F]
        /\ vault >= paid + recovered /\ vault' = vault - (paid + recovered)
    BY <1>1, <1>11 DEF TrackHaircut, Reanchor, OwedAfterExit, Rebased, Recovered,
                       RecoveredAt, PayOut
  <2>2. owed \in Nat /\ anchor_sf \in 0 .. WAD
    BY <1>3
  <2>3. owed > 0 => anchor_sf <= F
    <3>1. CASE Settled
      BY <1>2, <1>4, <3>1 DEF CoverInv, AnchorsBehindFactor
    <3>2. CASE ~Settled
      BY <1>2, <3>2, UnsettledOwesNothing
    <3>3. QED
      BY <3>1, <3>2
  <2>4. /\ left \in Nat /\ recovered \in Nat
        /\ LetOff(owed, anchor_sf, F) + recovered <= ClaimableExact(owed, anchor_sf, F) + 1
    BY <1>4, <2>2, <2>3, RecoveryLine
  <2>5. gap \in Nat /\ gap > 0
    BY <1>8, <1>9, <1>11, SatSubRange DEF LeavesHaircut
  <2>6. ClaimableExact(owed, anchor_sf, F) \in Nat /\ LetOff(owed, anchor_sf, F) \in Nat
    <3>1. F \in 0 .. WAD
      BY <1>4
    <3>2. QED
      BY <2>2, <3>1, ClaimableAtMostOwed DEF LetOff
  <2> HIDE DEF left, recovered, gap, owed, anchor_sf
  <2>7. new_owed \in Nat /\ new_owed > 0
    BY <2>4, <2>5
  <2> HIDE DEF new_owed
  <2>8. ClaimableExact(new_owed, F, F) = 0 /\ LetOff(new_owed, F, F) = 1
    BY <1>4, <2>7 DEF ClaimableExact, LetOff
  <2>9. /\ vault' \in Nat
        /\ vault + LetOff(owed, anchor_sf, F) + MulWad(still_held, F)
               + ClaimableExact(new_owed, F, F)
             <= vault' + LetOff(new_owed, F, F) + MulWad(held, F)
                  + ClaimableExact(owed, anchor_sf, F)
    BY <1>3, <1>9, <2>1, <2>4, <2>6, <2>8
  <2>10. Funded(vault', still_held, haircut_owed', withdrawal_sf', F)
    <3>1. F \in 0 .. WAD
      BY <1>4
    <3>2. Funded(vault', still_held, [haircut_owed EXCEPT ![l] = new_owed],
                 [withdrawal_sf EXCEPT ![l] = F], F)
      BY <1>3, <1>4, <1>6, <1>8, <2>7, <2>9, <3>1, OneLineMoves DEF owed, anchor_sf
    <3>3. QED
      BY <2>1, <3>2
  <2>11. QED
    BY <1>1, <1>7, <2>10 DEF SolventNow
<1>12. QED
  BY <1>10, <1>11

\* A claim hands out at most what the haircut gained.
LEMMA PayClaimStaysSolvent ==
    ASSUME SolvencyInv, NEW l \in Lenders, PayClaim(l), settlement_factor_wad > 1
    PROVE  SolventNow'
<1> DEFINE f == settlement_factor_wad
           owed == haircut_owed[l]
           anchor_sf == withdrawal_sf[l]
           claim == ClaimableExact(owed, anchor_sf, f)
           payout == ClaimablePayout(l)
           rest == owed - payout
           new_anchor == AnchorAfterClaim(rest)
<1>1. /\ f > anchor_sf
      /\ haircut_owed' = [haircut_owed EXCEPT ![l] = rest]
      /\ withdrawal_sf' = [withdrawal_sf EXCEPT ![l] = new_anchor]
      /\ vault >= payout /\ vault' = vault - payout
      /\ UNCHANGED <<settlement_factor_wad, scale_factor, scaled_total_supply>>
  BY DEF PayClaim, Reanchor, PayOut, accrualVars, supplyVars
<1>2. CoverInv
  BY DEF SolvencyInv
<1>3. /\ vault \in Nat /\ TotalNormalized \in Nat /\ WAD \in Nat /\ f \in 0 .. WAD
      /\ haircut_owed \in [Lenders -> Nat] /\ withdrawal_sf \in [Lenders -> 0 .. WAD]
      /\ owed \in Nat /\ anchor_sf \in 0 .. WAD
  BY <1>2, CoverTypes
<1>4. f \in 1 .. WAD /\ f \in Nat
  BY <1>3
<1>5. MulWad(TotalNormalized, f) \in Nat
  BY <1>3, <1>4, MulWadType
<1>6. claim \in Nat /\ payout \in 0 .. owed /\ payout <= claim
  <2>1. claim \in Nat
    <3> HIDE DEF f, owed, anchor_sf
    <3>1. ClaimableExact(owed, anchor_sf, f) \in 0 .. owed
      BY <1>3, ClaimableAtMostOwed
    <3>2. QED
      BY <1>3, <3>1
  <2>2. payout \in 0 .. owed
    BY <1>2, ClaimablePayoutRange DEF CoverInv, BooksInv, TypeInv
  <2>3. payout = Lesser(claim, SatSub(vault, MulWad(TotalNormalized, f)))
    BY DEF ClaimablePayout, TotalNormalized
  <2>4. SatSub(vault, MulWad(TotalNormalized, f)) \in Nat
    BY <1>3, <1>5, SatSubRange
  <2> HIDE DEF claim, payout, owed, f
  <2>5. QED
    BY <2>1, <2>2, <2>3, <2>4 DEF Lesser
<1>7. Funded(vault, TotalNormalized, haircut_owed, withdrawal_sf, f)
  BY DEF SolvencyInv, SolventNow
<1>8. TotalNormalized' = TotalNormalized
  BY <1>1 DEF TotalNormalized, Normalized, MulWad
<1> HIDE DEF claim, payout
<1>9. /\ rest \in Nat /\ new_anchor \in 0 .. WAD /\ vault' \in Nat
      /\ rest > 0 => new_anchor = f
  BY <1>1, <1>3, <1>6 DEF AnchorAfterClaim
<1> HIDE DEF rest, new_anchor
<1>10. ClaimableExact(rest, new_anchor, f) = 0 /\ LetOff(rest, new_anchor, f) \in Nat
  <2> HIDE DEF f
  <2>1. rest = 0 \/ f <= new_anchor
    BY <1>4, <1>9
  <2>2. QED
    BY <2>1 DEF ClaimableExact, LetOff
<1>11. LetOff(owed, anchor_sf, f) = 0
  BY <1>1, <1>3 DEF LetOff
<1> HIDE DEF f
<1>12. vault + LetOff(owed, anchor_sf, f) + MulWad(TotalNormalized, f)
             + ClaimableExact(rest, new_anchor, f)
           <= vault' + LetOff(rest, new_anchor, f) + MulWad(TotalNormalized, f)
                + ClaimableExact(owed, anchor_sf, f)
  <2> HIDE DEF owed, anchor_sf
  <2>1. ClaimableExact(owed, anchor_sf, f) \in Nat
        /\ payout <= ClaimableExact(owed, anchor_sf, f) /\ payout \in Nat
    BY <1>3, <1>6 DEF claim
  <2>2. QED
    BY <1>1, <1>3, <1>5, <1>9, <1>10, <1>11, <2>1
<1>13. Funded(vault', TotalNormalized, [haircut_owed EXCEPT ![l] = rest],
              [withdrawal_sf EXCEPT ![l] = new_anchor], f)
  <2> HIDE DEF owed, anchor_sf
  <2>1. /\ haircut_owed \in [Lenders -> Nat] /\ withdrawal_sf \in [Lenders -> 0 .. WAD]
        /\ f \in 1 .. WAD /\ rest \in Nat /\ new_anchor \in 0 .. WAD
        /\ vault \in Nat /\ vault' \in Nat /\ TotalNormalized \in Nat
    BY <1>3, <1>4, <1>9
  <2>2. QED
    BY <1>7, <1>12, <2>1, OneLineMoves DEF owed, anchor_sf
<1>14. QED
  BY <1>1, <1>8, <1>13 DEF SolventNow, f

\* A re-settlement computes a factor the vault can fund.
LEMMA ReSettleIsSolvent ==
    ASSUME SolvencyInv, ReSettle, settlement_factor_wad' > 1
    PROVE  SolventNow'
<1> DEFINE f == settlement_factor_wad'
           held == Normalized(scaled_total_supply, AccruedScale)
<1>1. /\ AccrueScale /\ scale_factor' = AccruedScale
      /\ f = ComputeResettleFactor(vault, held, claim_weight_sum, claim_offset_sum)
      /\ f > settlement_factor_wad
      /\ UNCHANGED <<scaled_total_supply, haircut_owed, withdrawal_sf, vault>>
  BY DEF ReSettle, AccrueInterest, AccrueScale, Improves, supplyVars, haircutVars,
         tokenVars
<1>2. CoverInv
  BY DEF SolvencyInv
<1>3. /\ vault \in Nat /\ held \in Nat /\ settlement_factor_wad \in 0 .. WAD /\ WAD \in Nat
      /\ haircut_owed \in [Lenders -> Nat] /\ withdrawal_sf \in [Lenders -> 0 .. WAD]
  BY <1>2, CoverTypes
<1>4. TotalNormalized' = held
  BY <1>1 DEF TotalNormalized, Normalized, MulWad
<1>5. f \in 2 .. WAD
  <2>1. claim_weight_sum \in Nat /\ claim_offset_sum \in Nat
    BY <1>2, WeightsCoverDebts
  <2> HIDE DEF held
  <2>2. f \in 1 .. WAD
    BY <1>1, <1>3, <2>1, ResettleFactorRange
  <2>3. QED
    BY <1>3, <2>2
<1>6. f = ComputeResettleFactor(vault, held,
            Total([l \in Lenders |-> Weight(haircut_owed[l], withdrawal_sf[l])]),
            Total([l \in Lenders |-> Offset(haircut_owed[l], withdrawal_sf[l])]))
  BY <1>1, <1>2 DEF CoverInv, BooksInv, HaircutStateIsSumOfContributions
<1>7. \A l \in Lenders : haircut_owed[l] > 0 => withdrawal_sf[l] <= f
  <2>1. \A l \in Lenders : haircut_owed[l] > 0 =>
          withdrawal_sf[l] <= settlement_factor_wad /\ withdrawal_sf[l] \in Nat
    BY <1>2, <1>3 DEF CoverInv, AnchorsBehindFactor
  <2>2. QED
    BY <1>1, <1>3, <1>5, <2>1
<1> HIDE DEF held, f
<1>8. Funded(vault, held, haircut_owed, withdrawal_sf, f)
  BY <1>3, <1>5, <1>6, <1>7, ResettledFactorIsFunded
<1>9. QED
  BY <1>1, <1>4, <1>8 DEF SolventNow, f

\* Steps that leave the factor and the haircuts alone and take nothing from the vault
\* of a settled market stay solvent.
LEMMA AddingStaysSolvent ==
    ASSUME SolvencyInv, settlement_factor_wad > 1,
           UNCHANGED <<settlement_factor_wad, haircut_owed, withdrawal_sf>>,
           TotalNormalized' = TotalNormalized, vault' \in Nat, vault' >= vault
    PROVE  SolventNow'
<1>1. /\ vault \in Nat /\ TotalNormalized \in Nat /\ WAD \in Nat
      /\ settlement_factor_wad \in 1 .. WAD /\ settlement_factor_wad \in Nat
      /\ haircut_owed \in [Lenders -> Nat] /\ withdrawal_sf \in [Lenders -> 0 .. WAD]
  BY CoverTypes DEF SolvencyInv
<1>2. /\ Total(LostAt(haircut_owed, withdrawal_sf, settlement_factor_wad)) \in Nat
      /\ Total(DueAt(haircut_owed, withdrawal_sf, settlement_factor_wad)) \in Nat
      /\ MulWad(TotalNormalized, settlement_factor_wad) \in Nat
  BY <1>1, LinesType, MulWadType
<1>3. Funded(vault, TotalNormalized, haircut_owed, withdrawal_sf, settlement_factor_wad)
  BY DEF SolvencyInv, SolventNow
<1>4. Funded(vault', TotalNormalized, haircut_owed, withdrawal_sf, settlement_factor_wad)
  BY <1>1, <1>2, <1>3 DEF Funded
<1>5. QED
  BY <1>4 DEF SolventNow

\* A vault that holds the balances and the haircuts in full funds the factor WAD.
LEMMA FullCoverIsFunded ==
    ASSUME NEW owed \in [Lenders -> Nat], NEW anchor \in [Lenders -> 0 .. WAD],
           NEW funds \in Nat, NEW held \in Nat, funds >= held + Total(owed)
    PROVE  Funded(funds, held, owed, anchor, WAD)
<1>1. WAD \in 1 .. WAD /\ IsFiniteSet(Lenders)
  BY WadPositive, MarketAssumption
<1>2. /\ DueAt(owed, anchor, WAD) \in [Lenders -> Nat]
      /\ Total(LostAt(owed, anchor, WAD)) \in Nat
      /\ Total(DueAt(owed, anchor, WAD)) \in Nat
  BY <1>1, LinesType
<1>3. \A l \in Lenders : DueAt(owed, anchor, WAD)[l] <= owed[l]
  <2>1. ASSUME NEW l \in Lenders PROVE ClaimableExact(owed[l], anchor[l], WAD) <= owed[l]
    <3>1. owed[l] \in Nat /\ anchor[l] \in 0 .. WAD /\ WAD \in 0 .. WAD
      BY WadPositive
    <3>2. ClaimableExact(owed[l], anchor[l], WAD) \in 0 .. owed[l]
      BY <3>1, ClaimableAtMostOwed
    <3>3. QED
      BY <3>1, <3>2
  <2>2. QED
    BY <2>1 DEF DueAt
<1>4. Total(DueAt(owed, anchor, WAD)) <= Total(owed) /\ Total(owed) \in Nat
  BY <1>1, <1>2, <1>3, TotalMonotone, UnitsAreFinite
<1>5. MulWad(held, WAD) = held
  BY MulWadByOne
<1>6. QED
  BY <1>2, <1>4, <1>5 DEF Funded

\* What is swept lies above what the factor WAD promises; a closed account is owed
\* nothing.
LEMMA SweepStaysSolvent ==
    ASSUME SolvencyInv, CoverInv', settlement_factor_wad > 1,
           CollectFees \/ WithdrawExcess \/ \E l \in Lenders : CloseLenderPosition(l)
    PROVE  SolventNow'
<1>1. CoverInv /\ WAD \in Nat /\ WAD > 1
  BY CoverTypes DEF SolvencyInv
<1>2. CASE CollectFees \/ WithdrawExcess
  <2>1. settlement_factor_wad = WAD /\ settlement_factor_wad' = WAD
    BY <1>1, <1>2 DEF CollectFees, WithdrawExcess, marketVars
  <2>2. /\ vault' \in Nat
        /\ haircut_owed' \in [Lenders -> Nat] /\ withdrawal_sf' \in [Lenders -> 0 .. WAD]
    BY <1>1, ConstantTypes
       DEF CoverInv, SettlementInv, TypeInv, TypeOK, TokenTypeOK, HaircutTypeOK
  <2>3. TotalNormalized' \in Nat
    BY WadPositive, MulWadType
       DEF CoverInv, SettlementInv, TypeInv, TypeOK, SupplyTypeOK, AccrualTypeOK,
           TotalNormalized, Normalized
  <2>4. vault' >= TotalNormalized' + Total(haircut_owed')
    BY <2>1 DEF CoverInv, BooksInv, FullFactorCoversEveryone, AccumulatorIsSumOfOwed
  <2>5. Funded(vault', TotalNormalized', haircut_owed', withdrawal_sf', WAD)
    BY <2>2, <2>3, <2>4, FullCoverIsFunded
  <2>6. QED
    BY <2>1, <2>5 DEF SolventNow
<1>3. ASSUME NEW l \in Lenders, CloseLenderPosition(l)
      PROVE  SolventNow'
  <2>1. /\ haircut_owed[l] = 0
        /\ withdrawal_sf' = [withdrawal_sf EXCEPT ![l] = 0]
        /\ UNCHANGED <<settlement_factor_wad, scaled_total_supply, scale_factor,
                       haircut_owed, vault>>
    BY <1>3 DEF CloseLenderPosition, accrualVars, tokenVars
  <2>2. \A f : /\ LostAt(haircut_owed, withdrawal_sf', f) = LostAt(haircut_owed, withdrawal_sf, f)
               /\ DueAt(haircut_owed, withdrawal_sf', f) = DueAt(haircut_owed, withdrawal_sf, f)
    <3>1. ASSUME NEW k \in Lenders, NEW f
          PROVE  /\ LetOff(haircut_owed[k], withdrawal_sf'[k], f)
                      = LetOff(haircut_owed[k], withdrawal_sf[k], f)
                 /\ ClaimableExact(haircut_owed[k], withdrawal_sf'[k], f)
                      = ClaimableExact(haircut_owed[k], withdrawal_sf[k], f)
      <4>1. CASE k = l
        BY <2>1, <4>1 DEF LetOff, ClaimableExact
      <4>2. CASE k # l
        <5>1. withdrawal_sf'[k] = withdrawal_sf[k]
          BY <1>1, <2>1, <4>2, CoverTypes
        <5>2. QED
          BY <5>1
      <4>3. QED
        BY <4>1, <4>2
    <3>2. QED
      BY <3>1 DEF LostAt, DueAt
  <2>3. TotalNormalized' = TotalNormalized
    BY <2>1 DEF TotalNormalized, Normalized, MulWad
  <2>4. QED
    BY <2>1, <2>2, <2>3 DEF SolvencyInv, SolventNow, Funded
<1>4. QED
  BY <1>2, <1>3

\* Every instruction keeps the promise funded.
LEMMA SolvencyStep ==
    ASSUME SolvencyInv, CoverInv', [Next]_vars, settlement_factor_wad' > 1
    PROVE  SolventNow'
<1>1. CoverInv /\ vault' \in Nat
  BY DEF SolvencyInv, CoverInv, SettlementInv, TypeInv, TypeOK, TokenTypeOK
<1>2. ASSUME NEW l \in Lenders, NEW amount \in 0 .. scaled_balance[l],
             settlement_factor_wad = 0 => now >= MaturityTimestamp,
             LeaveMarket(l, amount, FactorForExit)
      PROVE  SolventNow'
  <2>1. settlement_factor_wad' = FactorForExit
    BY <1>2 DEF LeaveMarket
  <2>2. QED
    BY <1>2, <2>1, ExitStaysSolvent
<1>3. ASSUME NEW l \in Lenders, NEW request \in WithdrawRequests, NEW min_payout,
             Withdraw(l, request, min_payout)
      PROVE  SolventNow'
  BY <1>1, <1>2, <1>3, WithdrawLeaves DEF CoverInv
<1>4. ASSUME NEW l \in Lenders, ForceClosePosition(l)
      PROVE  SolventNow'
  BY <1>1, <1>2, <1>4, ForceCloseLeaves DEF CoverInv
<1>5. ASSUME NEW l \in Lenders, PayClaim(l)
      PROVE  SolventNow'
  <2>1. UNCHANGED settlement_factor_wad
    BY <1>5 DEF PayClaim
  <2>2. QED
    BY <1>5, <2>1, PayClaimStaysSolvent
<1>6. CASE ReSettle
  BY <1>6, ReSettleIsSolvent
<1>7. CASE CollectFees \/ WithdrawExcess \/ \E l \in Lenders : CloseLenderPosition(l)
  <2>1. UNCHANGED settlement_factor_wad
    BY <1>7 DEF CollectFees, WithdrawExcess, CloseLenderPosition, marketVars
  <2>2. QED
    BY <1>7, <2>1, SweepStaysSolvent
<1>8. (\E l \in Lenders, amount \in DepositAmounts : Deposit(l, amount))
        \/ (\E amount \in BorrowAmounts : Borrow(amount)) => SolventNow'
  <2> SUFFICES ASSUME \/ \E l \in Lenders, amount \in DepositAmounts : Deposit(l, amount)
                      \/ \E amount \in BorrowAmounts : Borrow(amount)
               PROVE  SolventNow'
    OBVIOUS
  <2>1. AccrueScale /\ now < MaturityTimestamp /\ UNCHANGED settlement_factor_wad
    BY DEF Deposit, Borrow, AccrueInterest
  <2>2. Settled => now >= MaturityTimestamp
    BY <1>1, <2>1, SettledAccrual DEF CoverInv, SettlementInv, TypeInv
  <2>3. now \in Nat
    BY <1>1 DEF CoverInv, SettlementInv, TypeInv, TypeOK, ConfigTypeOK
  <2>4. settlement_factor_wad = 0
    BY <2>1, <2>2, <2>3, ConstantTypes DEF Settled
  <2>5. QED
    BY <2>1, <2>4
<1>9. ASSUME NEW payer \in Payers, NEW amount \in RepayAmounts \cup InterestAmounts,
             Repay(payer, amount) \/ RepayInterest(payer, amount)
      PROVE  SolventNow'
  <2>1. /\ AccrueScale /\ vault' = vault + amount /\ amount \in Nat
        /\ UNCHANGED <<settlement_factor_wad, haircut_owed, withdrawal_sf,
                       scaled_total_supply>>
    BY <1>9, ConstantTypes DEF Repay, RepayInterest, CountPayment, AccrueInterest, PayIn,
                               haircutVars, supplyVars
  <2>2. vault' >= vault /\ settlement_factor_wad > 1
    BY <1>1, <2>1, CoverTypes
  <2>3. Settled
    BY <1>1, <2>2, CoverTypes DEF Settled
  <2>4. TotalNormalized' = TotalNormalized
    BY <1>1, <2>1, <2>3, SettledWorthStands
  <2>5. QED
    BY <1>1, <2>1, <2>2, <2>4, AddingStaysSolvent
<1>10. CASE MarketUntouched
  <2>1. /\ UNCHANGED <<settlement_factor_wad, haircut_owed, withdrawal_sf>>
        /\ TotalNormalized' = TotalNormalized
    BY <1>10, MarketUntouchedKeeps
       DEF marketVars, accrualVars, supplyVars, haircutVars, TotalNormalized,
           Normalized, MulWad
  <2>2. vault' = vault \/ \E payer \in Payers, amount \in DonationAmounts :
                             vault' = vault + amount
    BY <1>10 DEF MarketUntouched, SetBorrowerWhitelist, SetPause, SetFeeConfig,
                 SetBlocked, Donate, PayIn, Tick, vars, tokenVars
  <2>3. vault' >= vault
    BY <1>1, <2>2, CoverTypes, ConstantTypes
  <2>4. QED
    BY <1>1, <2>1, <2>3, AddingStaysSolvent
<1>11. QED
  BY StepCases, <1>3, <1>4, <1>5, <1>6, <1>7, <1>8, <1>9, <1>10

\* The promise is funded in every reachable state.
LEMMA SolvencyInvariant == Spec => []SolvencyInv
<1>1. Init => SolvencyInv
  <2>1. Init => CoverInv
    BY SettlementInvInit, BooksInvInit, CoverInit DEF CoverInv
  <2>2. Init => settlement_factor_wad = 0
    BY DEF Init
  <2>3. QED
    BY <2>1, <2>2 DEF SolvencyInv
<1>2. SolvencyInv /\ CoverInv' /\ [Next]_vars => SolvencyInv'
  BY SolvencyStep DEF SolvencyInv
<1>3. QED
  BY <1>1, <1>2, CoverInvariant, PTL DEF Spec

\* Whatever order lenders leave, claim and are paid out in, and however often the
\* factor is raised, the vault covers what the factor promises to the lenders still
\* in the market and to those who left, but for one unit for each lender whose
\* recovery was rounded up at this factor.
THEOREM VaultCoversPromise == Spec => []SolventUpToOneUnitPerLender
<1>1. SolvencyInv => SolventUpToOneUnitPerLender
  BY SolvencyInvMeans
<1>2. QED
  BY <1>1, SolvencyInvariant, PTL
=============================================================================
