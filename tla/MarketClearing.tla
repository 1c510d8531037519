--------------------------- MODULE MarketClearing ---------------------------
(***************************************************************************)
(* Clearing a market: how it is emptied once its lenders do nothing more.  *)
(* The borrower forces exits and claims, anyone re-settles, and the fee    *)
(* authority and the borrower sweep what is over.                          *)
(*                                                                         *)
(* An instruction is accepted when all checks of its handler pass: its     *)
(* guards, apart from what it then writes.                                 *)
(***************************************************************************)
EXTENDS MarketProperties

AccrualAccepted == ClockNotBehind /\ AccruedFees <= U64Max

\* What an exit asks of the vault, the recovery of an older haircut included.
Entitled(amount) == Normalized(amount, AccruedScale)

Gap(amount) == SatSub(Entitled(amount), MulWad(Entitled(amount), FactorForExit))

ExitPayout(l, amount) ==
    MulWad(Entitled(amount), FactorForExit) + Recovered(l, FactorForExit, Gap(amount))

ForceCloseAccepted(l) ==
    LET amount == scaled_balance[l]
        gap == Gap(amount)
    IN  /\ ~paused /\ GraceOver
        /\ l \in opened /\ amount > 0
        /\ AccrualAccepted
        /\ Entitled(amount) <= U64Max
        /\ LeavesHaircut(FactorForExit, gap) =>
             {OwedAfterExit(l, FactorForExit, gap),
              ReservedAfterExit(l, FactorForExit, gap)} \subseteq 0 .. U64Max
        /\ amount <= scaled_total_supply
        /\ vault >= ExitPayout(l, amount)

ForceClaimAccepted(l) ==
    /\ ~paused /\ GraceOver
    /\ settlement_factor_wad # 0
    /\ l \in opened /\ haircut_owed[l] > 0
    /\ settlement_factor_wad > withdrawal_sf[l]
    /\ ClaimablePayout(l) > 0
    /\ haircut_accumulator >= ClaimablePayout(l)
    /\ vault >= ClaimablePayout(l)

\* The factor that a re-settlement would set.
FactorOnOffer ==
    ComputeResettleFactor(vault, Normalized(scaled_total_supply, AccruedScale),
                          claim_weight_sum, claim_offset_sum)

ReSettleAccepted ==
    /\ ~paused
    /\ settlement_factor_wad # 0
    /\ AccrualAccepted
    /\ Improves(FactorOnOffer)

CollectFeesAccepted ==
    /\ ~paused
    /\ settlement_factor_wad \in {0, WAD}
    /\ scaled_total_supply > 0 => settlement_factor_wad = WAD
    /\ AccrualAccepted
    /\ FeesPayable > 0
    /\ vault >= FeesPayable

WithdrawExcessAccepted ==
    /\ ~paused /\ Borrower \notin blocked /\ is_whitelisted = 1
    /\ now >= MaturityTimestamp
    /\ scaled_total_supply = 0
    /\ settlement_factor_wad = WAD
    /\ accrued_protocol_fees = 0
    /\ SatSub(vault, haircut_accumulator) > 0

-----------------------------------------------------------------------------
(* Every haircut bound is less than one unit above the haircut itself.     *)
RoundingSlack == Cardinality(Lenders)

\* The vault holds all that is due, and the slack of the haircut bounds.
FullyFunded ==
    /\ Settled
    /\ vault >= TotalNormalized + haircut_accumulator + RoundingSlack

NobodyOwed == \A l \in Lenders : haircut_owed[l] = 0

\* The clearing instructions can be sent; an SPL token account holds a u64.
CanClear == ~paused /\ GraceOver /\ vault <= U64Max

\* A funded market never gets stuck, in whatever order its instructions came: one
\* re-settlement lifts its factor to WAD, and at WAD every forced exit is
\* accepted, every forced claim is accepted and pays the whole haircut, and when
\* both are done the fees or the excess can be swept as long as there is a token
\* left (re_settle, force_close_position, force_claim_haircut, collect_fees,
\* withdraw_excess).
FundedClearingNeverStalls ==
    CanClear /\ (FullyFunded \/ settlement_factor_wad = WAD) =>
        IF settlement_factor_wad < WAD
        THEN ReSettleAccepted /\ FactorOnOffer = WAD
        ELSE /\ \A l \in Lenders : scaled_balance[l] > 0 => ForceCloseAccepted(l)
             /\ \A l \in Lenders : haircut_owed[l] > 0 =>
                  ForceClaimAccepted(l) /\ ClaimablePayout(l) = haircut_owed[l]
             /\ (/\ scaled_total_supply = 0 /\ NobodyOwed /\ vault > 0
                 /\ Borrower \notin blocked /\ is_whitelisted = 1)
                => CollectFeesAccepted \/ WithdrawExcessAccepted

\* Nor does its clearing ever go back: at WAD the factor stays, no exit records a
\* new haircut, and each haircut is as it was or paid whole to its lender.
FullFactorOnlyClears ==
    [][settlement_factor_wad = WAD =>
         /\ settlement_factor_wad' = WAD
         /\ \A l \in Lenders :
              /\ scaled_balance'[l] <= scaled_balance[l]
              /\ \/ haircut_owed'[l] = haircut_owed[l]
                 \/ /\ haircut_owed'[l] = 0
                    /\ wallet'[l] = wallet[l] + haircut_owed[l]]_vars

\* In a market that is not funded the vault may be short of what an exit asks,
\* because recoveries are rounded up, but never by more than one unit per lender:
\* so little must be paid in to let everyone out (withdraw, force_close_position).
\* The lowest factor stands for less than itself, see SolventUpToOneUnitPerLender.
ExitsShortByUnitsOnly ==
    (/\ ClockNotBehind /\ now >= MaturityTimestamp
     /\ FactorForExit > 1 \/ Entitled(scaled_total_supply) < WAD) =>
        \A l \in Lenders : \A amount \in 0 .. scaled_balance[l] :
            ExitPayout(l, amount) <= vault + Cardinality(AnchoredNow \cup {l})
=============================================================================
