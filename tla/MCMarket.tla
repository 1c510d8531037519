------------------------------ MODULE MCMarket ------------------------------
(***************************************************************************)
(* Finite instances of the market for TLC.                                 *)
(***************************************************************************)
EXTENDS MarketRefinement, MarketClearing, Interest, TLC

CONSTANTS l1, l2, bo, fa,
          AnnualInterestBps,
          L1Tokens, L2Tokens, BorrowerTokens   \* initial token balances

\* total_growth_wad for every elapsed time, from the program's own formula.
MCGrowth == [elapsed \in 0 .. MaturityTimestamp |->
               TotalGrowthWad(AnnualInterestBps, elapsed)]

MCWallet == [a \in Accounts |-> CASE a = l1 -> L1Tokens
                                  [] a = l2 -> L2Tokens
                                  [] a = bo -> BorrowerTokens
                                  [] OTHER -> 0]
=============================================================================
