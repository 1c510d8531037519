-------------------------- MODULE MCMarketLiveness --------------------------
(***************************************************************************)
(* Finite instances of the market with fairness for TLC.                   *)
(***************************************************************************)
EXTENDS MarketLiveness, Interest, TLC

CONSTANTS l1, l2, bo, fa,
          AnnualInterestBps,
          L1Tokens, L2Tokens, BorrowerTokens   \* initial token balances

MCGrowth == [elapsed \in 0 .. MaturityTimestamp |->
               TotalGrowthWad(AnnualInterestBps, elapsed)]

MCWallet == [a \in Accounts |-> CASE a = l1 -> L1Tokens
                                  [] a = l2 -> L2Tokens
                                  [] a = bo -> BorrowerTokens
                                  [] OTHER -> 0]
=============================================================================
