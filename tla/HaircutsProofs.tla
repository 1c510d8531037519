--------------------------- MODULE HaircutsProofs ---------------------------
(***************************************************************************)
(* What the fixed-point and the haircut arithmetic return for every        *)
(* argument: ranges, monotonicity and the bounds the market relies on.     *)
(***************************************************************************)
EXTENDS Haircuts, TLAPS

\* Division rounds down: the quotient is the one q with q*b <= a < (q+1)*b.
LEMMA DivBounds ==
    ASSUME NEW a \in Nat, NEW b \in Nat \ {0}
    PROVE  /\ a \div b \in Nat
           /\ (a \div b) * b <= a
           /\ a < (a \div b) * b + b
  BY Z3

\* A multiple divides exactly.
LEMMA DivExact ==
    ASSUME NEW a \in Nat, NEW b \in Nat \ {0}
    PROVE  (a * b) \div b = a
  BY Z3

\* A quotient is at most q when q covers the dividend.
LEMMA DivAtMost ==
    ASSUME NEW a \in Nat, NEW b \in Nat \ {0}, NEW q \in Nat, a <= q * b
    PROVE  a \div b <= q
  BY Z3

\* A quotient is at least q when q fits into the dividend.
LEMMA DivAtLeast ==
    ASSUME NEW a \in Nat, NEW b \in Nat \ {0}, NEW q \in Nat, q * b <= a
    PROVE  q <= a \div b
  BY Z3

-----------------------------------------------------------------------------
\* The fixed-point unit is positive.
LEMMA WadPositive == WAD \in Nat \ {0} /\ BPS \in Nat \ {0}
  BY FixedPointAssumption

\* Saturating subtraction stays a natural number below its first argument.
LEMMA SatSubRange ==
    ASSUME NEW a \in Nat, NEW b \in Nat
    PROVE  SatSub(a, b) \in Nat /\ SatSub(a, b) <= a
  BY DEF SatSub

\* A product in WAD is a natural number.
LEMMA MulWadType ==
    ASSUME NEW a \in Nat, NEW b \in Nat
    PROVE  MulWad(a, b) \in Nat
<1>1. a * b \in Nat
  OBVIOUS
<1>2. QED
  BY <1>1, WadPositive, DivBounds DEF MulWad

\* Multiplying by one leaves an amount alone: a settled market's scale stands
\* still under accrual.
LEMMA MulWadByOne ==
    ASSUME NEW a \in Nat
    PROVE  MulWad(a, WAD) = a
  BY WadPositive, DivExact DEF MulWad

\* A factor of at most one never gives more than the amount.
LEMMA MulWadShrinks ==
    ASSUME NEW a \in Nat, NEW b \in 0 .. WAD
    PROVE  MulWad(a, b) \in 0 .. a
<1>1. a * b \in Nat /\ a * b <= a * WAD
  BY WadPositive, Z3
<1>2. (a * b) \div WAD <= a
  BY <1>1, WadPositive, DivAtMost
<1>3. MulWad(a, b) \in Nat
  BY WadPositive, MulWadType
<1>4. QED
  BY <1>2, <1>3 DEF MulWad

\* A growth of at least one never loses anything: the scale only rises.
LEMMA MulWadGrows ==
    ASSUME NEW a \in Nat, NEW b \in Nat, b >= WAD
    PROVE  MulWad(a, b) >= a
<1>1. a * b \in Nat /\ a * WAD <= a * b
  BY WadPositive, Z3
<1>2. QED
  BY <1>1, WadPositive, DivAtLeast DEF MulWad

\* Every factor the program computes is in 1..WAD, so it never looks like
\* "not settled" and never promises more than the claim.
LEMMA ClampRange ==
    ASSUME NEW raw \in Int
    PROVE  ClampFactor(raw) \in 1 .. WAD
  BY WadPositive DEF ClampFactor

\* The factor of the first exit is in 1..WAD.
LEMMA SettlementFactorRange ==
    ASSUME NEW available \in Nat, NEW total_normalized \in Nat
    PROVE  ComputeSettlementFactor(available, total_normalized) \in 1 .. WAD
<1>1. available * WAD \in Nat
  BY WadPositive
<1>2. total_normalized # 0 => (available * WAD) \div total_normalized \in Int
  BY <1>1, DivBounds
<1>3. QED
  BY <1>2, ClampRange, WadPositive DEF ComputeSettlementFactor

\* So is the factor of a re-settlement.
LEMMA ResettleFactorRange ==
    ASSUME NEW vault_balance \in Nat, NEW total_normalized \in Nat,
           NEW weight_sum \in Nat, NEW offset_sum \in Nat
    PROVE  ComputeResettleFactor(vault_balance, total_normalized,
                                 weight_sum, offset_sum) \in 1 .. WAD
<1> DEFINE amount == (vault_balance + offset_sum) * WAD
           claims == total_normalized + weight_sum
<1>1. amount \in Nat /\ claims \in Nat
  BY WadPositive
<1>2. claims # 0 => amount \div claims \in Int
  BY <1>1, DivBounds
<1> HIDE DEF amount, claims
<1>3. claims # 0 => ClampFactor(amount \div claims) \in 1 .. WAD
  BY <1>2, ClampRange
<1>4. QED
  BY <1>3, WadPositive DEF ComputeResettleFactor, amount, claims

-----------------------------------------------------------------------------
\* Rebasing a debt to a factor that did not fall never makes it larger.
LEMMA RebaseShrinks ==
    ASSUME NEW owed \in Nat, NEW old_sf \in 0 .. WAD, NEW new_sf \in old_sf .. WAD
    PROVE  RebaseRemainingOwed(owed, old_sf, new_sf) \in 0 .. owed
<1>1. CASE old_sf = WAD \/ owed = 0 \/ old_sf = new_sf
  BY <1>1 DEF RebaseRemainingOwed
<1>2. CASE ~(old_sf = WAD \/ owed = 0 \/ old_sf = new_sf)
  <2> DEFINE left == WAD - new_sf
             span == WAD - old_sf
  <2>1. left \in Nat /\ span \in Nat \ {0} /\ left <= span
    BY <1>2, WadPositive
  <2> HIDE DEF left, span
  <2>2. owed * left \in Nat /\ owed * left <= owed * span
    BY <2>1, Z3
  <2>3. (owed * left) \div span \in 0 .. owed
    BY <2>1, <2>2, DivBounds, DivAtMost
  <2>4. QED
    BY <1>2, <2>3 DEF RebaseRemainingOwed, left, span
<1>3. QED
  BY <1>1, <1>2

\* A claim never releases more than is owed.
LEMMA ClaimableAtMostOwed ==
    ASSUME NEW owed \in Nat, NEW anchor_sf \in 0 .. WAD, NEW current_sf \in 0 .. WAD
    PROVE  ClaimableExact(owed, anchor_sf, current_sf) \in 0 .. owed
<1>1. CASE owed = 0 \/ current_sf <= anchor_sf
  BY <1>1 DEF ClaimableExact
<1>2. CASE ~(owed = 0 \/ current_sf <= anchor_sf)
  <2> DEFINE gained == current_sf - anchor_sf
             span == WAD - anchor_sf
  <2>1. gained \in Nat /\ span \in Nat \ {0} /\ gained <= span
    BY <1>2, WadPositive
  <2> HIDE DEF gained, span
  <2>2. owed * gained \in Nat /\ owed * gained <= owed * span
    BY <2>1, Z3
  <2>3. (owed * gained) \div span \in 0 .. owed
    BY <2>1, <2>2, DivBounds, DivAtMost
  <2>4. QED
    BY <1>2, <2>3 DEF ClaimableExact, gained, span
<1>3. QED
  BY <1>1, <1>2

\* The contribution of a debt to the HaircutState sums is a pair of naturals.
LEMMA ContributionType ==
    ASSUME NEW owed \in Nat, NEW anchor_sf \in 0 .. WAD
    PROVE  /\ Weight(owed, anchor_sf) \in Nat
           /\ Offset(owed, anchor_sf) \in Nat
<1>1. Weight(owed, anchor_sf) \in Nat
  <2>1. CASE owed = 0 \/ anchor_sf = WAD
    BY <2>1 DEF Weight
  <2>2. CASE ~(owed = 0 \/ anchor_sf = WAD)
    <3> DEFINE span == WAD - anchor_sf
    <3>1. span \in Nat \ {0}
      BY <2>2, WadPositive
    <3>2. owed * WAD \in Nat
      BY WadPositive
    <3> HIDE DEF span
    <3>3. owed * WAD + span - 1 \in Nat
      BY <3>1, <3>2
    <3>4. QED
      BY <2>2, <3>1, <3>3, DivBounds DEF Weight, span
  <2>3. QED
    BY <2>1, <2>2
<1>2. QED
  BY <1>1, MulWadType, WadPositive DEF Offset

-----------------------------------------------------------------------------
\* A product can be compared after a common positive factor is taken away.
LEMMA CancelFactor ==
    ASSUME NEW a \in Nat, NEW b \in Nat, NEW c \in Nat \ {0}, a * c <= b * c
    PROVE  a <= b
  BY Z3

\* position_contribution is conservative: at every later factor the straight
\* line Weight * sf / WAD - Offset is at least what the claim releases there,
\* so the factor re_settle computes from the two sums never promises a
\* departed lender's money to anybody else.
THEOREM ContributionCoversClaim ==
    ASSUME NEW owed \in Nat, NEW anchor_sf \in 0 .. WAD, NEW sf \in anchor_sf .. WAD
    PROVE  (ClaimableExact(owed, anchor_sf, sf) + Offset(owed, anchor_sf)) * WAD
             <= Weight(owed, anchor_sf) * sf
<1> DEFINE W == Weight(owed, anchor_sf)
           O == Offset(owed, anchor_sf)
           C == ClaimableExact(owed, anchor_sf, sf)
           span == WAD - anchor_sf
           gained == sf - anchor_sf
<1>1. W \in Nat /\ O \in Nat /\ C \in Nat
  BY ContributionType, ClaimableAtMostOwed, WadPositive
<1>2. span \in Nat /\ gained \in Nat /\ sf = anchor_sf + gained
  BY WadPositive
<1>3. O * WAD <= W * anchor_sf
  <2> HIDE DEF W
  <2>1. W * anchor_sf \in Nat
    BY <1>1
  <2>2. QED
    BY <2>1, WadPositive, DivBounds DEF Offset, MulWad, W
<1>4. C * WAD <= W * gained
  <2>1. CASE owed = 0 \/ sf <= anchor_sf
    <3>1. C = 0
      BY <2>1 DEF ClaimableExact
    <3> HIDE DEF C, W, gained
    <3>2. QED
      BY <3>1, <1>1, <1>2, WadPositive, Z3
  <2>2. CASE ~(owed = 0 \/ sf <= anchor_sf)
    <3>1. span \in Nat \ {0} /\ anchor_sf # WAD
      BY <2>2, WadPositive
    <3>2. W = (owed * WAD + span - 1) \div span
      BY <2>2, <3>1 DEF Weight
    <3>3. C = (owed * gained) \div span
      BY <2>2 DEF ClaimableExact
    <3> HIDE DEF span, gained, W, C
    <3>4. owed * WAD <= W * span
      <4>1. owed * WAD + span - 1 \in Nat
        BY <3>1, WadPositive, Z3
      <4>2. owed * WAD + span - 1 < W * span + span
        BY <4>1, <3>1, <3>2, DivBounds
      <4>3. W * span \in Nat /\ owed * WAD \in Nat
        BY <1>1, <1>2, WadPositive
      <4>4. QED
        BY <4>2, <4>3, <3>1
    <3>5. C * span <= owed * gained
      <4>1. owed * gained \in Nat
        BY <1>2
      <4>2. QED
        BY <4>1, <3>1, <3>3, DivBounds
    <3>6. (C * span) * WAD <= (owed * gained) * WAD
      BY <3>5, <1>1, <1>2, WadPositive, Z3
    <3>7. (owed * WAD) * gained <= (W * span) * gained
      BY <3>4, <1>1, <1>2, WadPositive, Z3
    <3>8. (C * WAD) * span <= (W * gained) * span
      BY <3>6, <3>7, <1>1, <1>2, WadPositive, Z3
    <3>9. C * WAD \in Nat /\ W * gained \in Nat
      BY <1>1, <1>2, WadPositive
    <3>10. QED
      BY <3>1, <3>8, <3>9, CancelFactor
  <2>3. QED
    BY <2>1, <2>2
<1>5. QED
  <2> HIDE DEF W, O, C, gained
  <2>1. (C + O) * WAD = C * WAD + O * WAD
    BY <1>1, WadPositive, Z3
  <2>2. W * sf = W * anchor_sf + W * gained
    BY <1>1, <1>2, WadPositive, Z3
  <2>3. {C * WAD, O * WAD, W * anchor_sf, W * gained} \subseteq Nat
    BY <1>1, <1>2, WadPositive
  <2>4. (C + O) * WAD <= W * sf
    BY <2>1, <2>2, <2>3, <1>3, <1>4
  <2>5. QED
    BY <2>4 DEF C, O, W

-----------------------------------------------------------------------------
(* Valuing amounts at a factor.                                            *)

\* A quotient is at most q when the next multiple is out of reach.
LEMMA DivBelow ==
    ASSUME NEW a \in Nat, NEW b \in Nat \ {0}, NEW q \in Nat, a < (q + 1) * b
    PROVE  a \div b <= q
  BY Z3

\* A larger amount has a larger product.
LEMMA MulWadMonotone ==
    ASSUME NEW a \in Nat, NEW b \in Nat, a <= b, NEW f \in Nat
    PROVE  MulWad(a, f) <= MulWad(b, f)
<1>1. a * f \in Nat /\ b * f \in Nat /\ a * f <= b * f
  BY Z3
<1> DEFINE q == (a * f) \div WAD
<1>2. q \in Nat /\ q * WAD <= a * f
  BY <1>1, WadPositive, DivBounds
<1>3. q * WAD <= b * f
  <2>1. q * WAD \in Nat
    BY <1>2, WadPositive
  <2>2. QED
    BY <1>1, <1>2, <2>1
<1>4. q <= (b * f) \div WAD
  BY <1>1, <1>2, <1>3, WadPositive, DivAtLeast
<1>5. QED
  BY <1>4 DEF MulWad

\* Valuing two parts of a balance loses at most one unit.
LEMMA MulWadSplits ==
    ASSUME NEW a \in Nat, NEW b \in Nat, NEW f \in Nat
    PROVE  MulWad(a + b, f) - (MulWad(a, f) + MulWad(b, f)) \in {0, 1}
<1> DEFINE x == MulWad(a, f)
           y == MulWad(b, f)
           p == a * f
           r == b * f
<1>1. p \in Nat /\ r \in Nat /\ (a + b) * f = p + r
  BY Z3
<1>2. /\ x \in Nat /\ x * WAD <= p /\ p < x * WAD + WAD
      /\ y \in Nat /\ y * WAD <= r /\ r < y * WAD + WAD
  BY <1>1, WadPositive, DivBounds DEF MulWad
<1>3. MulWad(a + b, f) = (p + r) \div WAD
  BY <1>1 DEF MulWad
<1> HIDE DEF x, y, p, r
<1>4. /\ x * WAD \in Nat /\ y * WAD \in Nat /\ WAD \in Nat
      /\ (x + y) * WAD = x * WAD + y * WAD
      /\ (x + y + 1 + 1) * WAD = x * WAD + y * WAD + WAD + WAD
  <2>1. WAD \in Nat /\ x \in Nat /\ y \in Nat
    BY <1>2, WadPositive
  <2>2. QED
    BY <2>1, Z3
<1>5. (x + y) * WAD <= p + r /\ p + r < (x + y + 1 + 1) * WAD
  BY <1>1, <1>2, <1>4
<1>6. x + y <= (p + r) \div WAD
  BY <1>1, <1>2, <1>5, WadPositive, DivAtLeast
<1>7. (p + r) \div WAD <= x + y + 1
  <2>1. p + r \in Nat /\ x + y + 1 \in Nat
    BY <1>1, <1>2
  <2>2. QED
    BY <1>5, <2>1, WadPositive, DivBelow
<1>8. (p + r) \div WAD \in Nat
  BY <1>1, WadPositive, DivBounds
<1>9. QED
  BY <1>2, <1>3, <1>6, <1>7, <1>8 DEF x, y

-----------------------------------------------------------------------------
(* What a factor promises.                                                 *)

\* An exit hands out what a haircut gained since its anchor, rounded up: at most
\* one unit more than a claim would, and nothing when nothing was gained.
LEMMA RecoveryWithinOne ==
    ASSUME NEW owed \in Nat, NEW old_sf \in 0 .. WAD, NEW new_sf \in old_sf .. WAD
    PROVE  LET recovered == owed - RebaseRemainingOwed(owed, old_sf, new_sf)
           IN  /\ recovered \in Nat
               /\ recovered <= ClaimableExact(owed, old_sf, new_sf) + 1
               /\ owed = 0 \/ old_sf = new_sf => recovered = 0
<1> DEFINE left == RebaseRemainingOwed(owed, old_sf, new_sf)
           claim == ClaimableExact(owed, old_sf, new_sf)
<1>1. left \in 0 .. owed /\ claim \in Nat
  <2>1. old_sf \in 0 .. WAD /\ new_sf \in 0 .. WAD
    BY WadPositive
  <2>2. QED
    BY <2>1, RebaseShrinks, ClaimableAtMostOwed
<1>2. CASE owed = 0 \/ old_sf = new_sf
  <2>1. left = owed
    BY <1>2 DEF RebaseRemainingOwed
  <2> HIDE DEF left, claim
  <2>2. owed - left \in Nat /\ owed - left <= claim + 1 /\ owed - left = 0
    BY <1>1, <2>1
  <2>3. QED
    BY <2>2 DEF left, claim
<1>3. CASE ~(owed = 0 \/ old_sf = new_sf)
  <2> DEFINE span == WAD - old_sf
             gained == new_sf - old_sf
             rest == WAD - new_sf
  <2>1. /\ span \in Nat \ {0} /\ gained \in Nat /\ rest \in Nat /\ gained + rest = span
        /\ old_sf # WAD /\ ~(new_sf <= old_sf)
    BY <1>3, WadPositive
  <2>2. left = (owed * rest) \div span /\ claim = (owed * gained) \div span
    BY <1>3, <2>1 DEF RebaseRemainingOwed, ClaimableExact
  <2> HIDE DEF left, claim, span, gained, rest
  <2>3. owed * gained \in Nat /\ owed * rest \in Nat
        /\ owed * gained + owed * rest = owed * span
    BY <2>1, Z3
  <2>4. owed * gained < claim * span + span
    BY <2>1, <2>2, <2>3, DivBounds
  <2>5. owed <= left + claim + 1
    <3>1. CASE owed <= claim
      BY <1>1, <3>1
    <3>2. CASE ~(owed <= claim)
      <4>1. PICK d \in Nat : owed = claim + 1 + d
        <5>1. owed - claim - 1 \in Nat /\ owed = claim + 1 + (owed - claim - 1)
          BY <1>1, <3>2
        <5>2. QED
          BY <5>1
      <4>2. owed * span = claim * span + span + d * span
            /\ claim * span \in Nat /\ d * span \in Nat
        BY <1>1, <2>1, <4>1, Z3
      <4>3. d * span <= owed * rest
        BY <2>1, <2>3, <2>4, <4>2
      <4>4. d <= left
        BY <2>1, <2>2, <2>3, <4>3, DivAtLeast
      <4>5. QED
        BY <1>1, <4>1, <4>4
    <3>3. QED
      BY <3>1, <3>2
  <2>6. owed - left \in Nat /\ owed - left <= claim + 1
    BY <1>1, <2>5
  <2>7. QED
    BY <1>3, <2>6 DEF left, claim
<1>4. QED
  BY <1>2, <1>3

\* A factor above the lowest one was not clamped up: what it promises is there.
LEMMA FactorIsFunded ==
    ASSUME NEW available \in Nat, NEW claims \in Nat,
           ComputeSettlementFactor(available, claims) > 1
    PROVE  claims * ComputeSettlementFactor(available, claims) <= available * WAD
<1> DEFINE f == ComputeSettlementFactor(available, claims)
<1>1. f \in 1 .. WAD
  BY SettlementFactorRange
<1>2. available * WAD \in Nat
  BY WadPositive
<1>3. CASE claims = 0
  <2> HIDE DEF f
  <2>1. claims * f = 0
    BY <1>1, <1>3, Z3
  <2>2. QED
    BY <1>2, <2>1 DEF f
<1>4. CASE claims # 0
  <2> DEFINE raw == (available * WAD) \div claims
  <2>1. raw \in Nat /\ raw * claims <= available * WAD
    BY <1>2, <1>4, DivBounds
  <2>2. f = ClampFactor(raw)
    BY <1>4 DEF ComputeSettlementFactor
  <2> HIDE DEF raw
  <2>3. f <= raw
    BY <2>1, <2>2, WadPositive DEF ClampFactor
  <2> HIDE DEF f
  <2>4. claims * f <= raw * claims /\ claims * f \in Nat /\ raw * claims \in Nat
    BY <1>1, <2>1, <2>3, Z3
  <2>5. claims * f <= available * WAD
    BY <1>2, <2>1, <2>4
  <2>6. QED
    BY <2>5 DEF f
<1>5. QED
  BY <1>3, <1>4
=============================================================================
