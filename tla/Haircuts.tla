------------------------------ MODULE Haircuts ------------------------------
(***************************************************************************)
(* The pure haircut arithmetic of src/logic/haircuts.rs.  A lender who     *)
(* leaves a distressed market at factor `anchor' is still owed the unpaid  *)
(* part; as the factor moves from anchor towards WAD the same fraction of  *)
(* it becomes claimable.                                                   *)
(***************************************************************************)
EXTENDS FixedPoint

\* mutated form of RebaseRemainingOwed: the share of WAD, not of what was left
RebasedToWad(old_owed, old_sf, new_sf) ==
    IF old_owed = 0 \/ old_sf = new_sf THEN old_owed
    ELSE (old_owed * (WAD - new_sf)) \div WAD

\* What is still owed at new_sf of a debt anchored at old_sf, rounded down.
RebaseRemainingOwed(old_owed, old_sf, new_sf) ==
    IF old_owed = 0 \/ old_sf = new_sf THEN old_owed
    ELSE IF old_sf = WAD THEN 0
    ELSE (old_owed * (WAD - new_sf)) \div (WAD - old_sf)

\* mutated form of ClaimableExact: the share of WAD, not of what was left
ClaimableToWad(owed, anchor_sf, current_sf) ==
    IF owed = 0 \/ current_sf <= anchor_sf THEN 0
    ELSE (owed * (current_sf - anchor_sf)) \div WAD

\* What a claim at current_sf releases of the same debt, rounded down.
ClaimableExact(owed, anchor_sf, current_sf) ==
    IF owed = 0 \/ current_sf <= anchor_sf THEN 0
    ELSE (owed * (current_sf - anchor_sf)) \div (WAD - anchor_sf)

\* The straight line  Weight * sf / WAD - Offset  that bounds the claim at
\* every sf from above: the weight rounds up, the offset rounds down.
Weight(owed, anchor_sf) ==
    IF owed = 0 \/ anchor_sf = WAD THEN 0
    ELSE (owed * WAD + (WAD - anchor_sf) - 1) \div (WAD - anchor_sf)

\* mutated form of Offset: taken of the debt, not of its weight
OffsetOfOwed(owed, anchor_sf) == MulWad(owed, anchor_sf)

Offset(owed, anchor_sf) == MulWad(Weight(owed, anchor_sf), anchor_sf)

\* mutated form of ComputeResettleFactor: departed lenders are forgotten
ResettleForRemainingOnly(vault_balance, total_normalized, weight_sum, offset_sum) ==
    ComputeSettlementFactor(vault_balance, total_normalized)

\* mutated form of ComputeResettleFactor: the offset is taken for the weight
ResettleWithoutWeight(vault_balance, total_normalized, weight_sum, offset_sum) ==
    ComputeSettlementFactor(vault_balance + offset_sum, total_normalized + offset_sum)

\* The factor at which the vault covers the lenders still in the market and
\* the bounds of all those who left.
ComputeResettleFactor(vault_balance, total_normalized, weight_sum, offset_sum) ==
    IF total_normalized + weight_sum = 0
    THEN WAD
    ELSE ClampFactor(((vault_balance + offset_sum) * WAD)
                       \div (total_normalized + weight_sum))
=============================================================================
