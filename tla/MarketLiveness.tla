--------------------------- MODULE MarketLiveness ---------------------------
(***************************************************************************)
(* What eventually happens to a market whose lenders do nothing more.      *)
(*                                                                         *)
(* Nothing in the program runs by itself: every step is a transaction that *)
(* somebody sends.  The fairness assumed is that the clock goes on, and    *)
(* that those who gain by an instruction, and need nobody's consent for    *)
(* it, send it again until it is accepted: the borrower the forced exits,  *)
(* the forced claims and the sweep of the excess, the fee authority the    *)
(* collection of fees, and anyone the re-settlement.  No lender, payer or  *)
(* manager is assumed to do anything.                                      *)
(***************************************************************************)
EXTENDS MarketClearing

ClockAdvances == \E time \in Times : time > now /\ Tick(time)

Fairness ==
    /\ WF_vars(ClockAdvances)
    /\ \A l \in Lenders : /\ WF_vars(ForceClosePosition(l))
                          /\ WF_vars(ForceClaimHaircut(l))
    /\ WF_vars(ReSettle)
    /\ WF_vars(CollectFees)
    /\ WF_vars(WithdrawExcess)

FairSpec == Spec /\ Fairness

-----------------------------------------------------------------------------
(* What the managers must leave alone in the end for the sweeps to run.    *)

FinallyUnpaused == <>[]~paused

BorrowerFinallyAdmitted ==
    FinallyUnpaused /\ <>[](Borrower \notin blocked /\ is_whitelisted = 1)

-----------------------------------------------------------------------------
\* Whoever is still in the market has no haircut of an earlier exit: an exit in two
\* parts recovers some of it, and what it recovers is rounded up.
NobodyHalfGone == \A l \in Lenders : scaled_balance[l] > 0 => haircut_owed[l] = 0

\* While nobody leaves in parts at a loss the market is always cleared in the end,
\* lenders who never come and blocked lenders included, and even if nothing is paid
\* (force_close_position, with re_settle and the claims in between).  As everywhere,
\* the claims of the lenders come to less than WAD, see SolventUpToOneUnitPerLender.
EveryoneLeaves ==
    FinallyUnpaused /\ []NobodyHalfGone => <>[](scaled_total_supply = 0)

\* The exit of the lender is refused for want of units, not more than there are lenders.
ShortByUnits(l) ==
    LET payout == ExitPayout(l, scaled_balance[l])
    IN  vault < payout /\ payout <= vault + Cardinality(Lenders)

\* However they leave, in the end everybody is out but those whose forced exit finds
\* the vault short by such units, and these stay until somebody pays them in
\* (force_close_position, the recovery of withdraw.rs).
OnlyUnitsKeepAnyoneIn ==
    FinallyUnpaused =>
        <>[](\A l \in Lenders : scaled_balance[l] > 0 => ShortByUnits(l))

\* Once a repayment has funded the market, every haircut is paid, to a lender
\* who does not ask and to a blocked one too (re_settle, force_claim_haircut).
FundedHaircutsArePaid == FinallyUnpaused => (FullyFunded ~> NobodyOwed)

\* Once a market that settled is funded, nothing stays behind in its vault:
\* what is over goes to the fee authority and back to the borrower.
FundedVaultEmpties == BorrowerFinallyAdmitted => (FullyFunded ~> vault = 0)

-----------------------------------------------------------------------------
(* What the repository says and the code does not do.                      *)

\* withdraw_excess.rs:22, "This prevents loss of funds when borrower overpays
\* interest": interest paid into a market that owes nobody comes back to the
\* borrower.  A market nobody deposited in is never settled, and the sweep
\* asks for a settled one.
OverpaymentReturns ==
    BorrowerFinallyAdmitted =>
        (GraceOver /\ scaled_total_supply = 0 /\ NobodyOwed ~> vault = 0)

\* force_claim_haircut.rs:18, "Prevents permanently stuck accumulators from
\* blocking withdraw_excess": a vault that holds all that is due clears every
\* haircut.  Re-settlement works with the bounds, so that a vault without
\* their slack stays below the full factor, and a claim of a few units at that
\* factor rounds down to nothing.
CoveredHaircutsArePaid ==
    FinallyUnpaused =>
        ((Settled /\ vault >= TotalNormalized + haircut_accumulator) ~> NobodyOwed)
=============================================================================
