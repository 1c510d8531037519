---------------------------- MODULE LenderClaims ----------------------------
(***************************************************************************)
(* What a market promises its lenders, without its vault, its scaled       *)
(* balances and its ledgers.  A lender has funds of its own, an investment *)
(* worth so many tokens now, and a part of an earlier one that is still    *)
(* due.  Before settlement investments are made and change their worth;    *)
(* from the first exit on their worth is fixed, and what a lender has in   *)
(* all three forms together only changes its form.                         *)
(***************************************************************************)
EXTENDS FixedPoint

CONSTANT Lenders

VARIABLES
    factor,      \* what an exit pays of each unit, in WADs; 0 before settlement
    invested, due, funds

claimVars == <<factor, invested, due, funds>>

Start ==
    /\ factor = 0
    /\ invested = [l \in Lenders |-> 0] /\ due = [l \in Lenders |-> 0]
    /\ funds \in [Lenders -> Nat]

\* Nothing of the other lenders changes.
OnlyOf(l) ==
    /\ invested' = [invested EXCEPT ![l] = invested'[l]]
    /\ due' = [due EXCEPT ![l] = due'[l]]
    /\ funds' = [funds EXCEPT ![l] = funds'[l]]

\* Time passes.
Revalue ==
    /\ factor = 0
    /\ invested' \in [Lenders -> Nat]
    /\ UNCHANGED <<factor, due, funds>>

Enter(l) ==
    /\ factor = 0
    /\ invested'[l] - invested[l] \in 0 .. (funds[l] - funds'[l])
    /\ OnlyOf(l)
    /\ UNCHANGED <<factor, due>>

\* A lender pays for somebody else.
Give(l) ==
    /\ funds'[l] < funds[l]
    /\ OnlyOf(l)
    /\ UNCHANGED <<factor, invested, due>>

\* l takes out an investment, or a part of one: at least the factor's share is
\* paid, the rest stays due, and one unit may be lost to rounding.
Exit(l) ==
    /\ factor' \in 1 .. WAD
    /\ factor # 0 => factor' = factor
    /\ invested'[l] <= invested[l]
    /\ funds'[l] - funds[l] >= MulWad(invested[l] - invested'[l] - 1, factor')
    /\ funds'[l] + due'[l] + invested'[l] - (funds[l] + due[l] + invested[l])
         \in {-1, 0}
    /\ factor' = WAD => due'[l] = due[l]
    /\ OnlyOf(l)

Claim(l) ==
    /\ factor # 0
    /\ due'[l] < due[l]
    /\ funds'[l] - funds[l] = due[l] - due'[l]
    /\ OnlyOf(l)
    /\ UNCHANGED <<factor, invested>>

Improve ==
    /\ factor # 0
    /\ factor' > factor /\ factor' <= WAD
    /\ UNCHANGED <<invested, due, funds>>

Next ==
    \/ Revalue \/ Improve
    \/ \E l \in Lenders : Enter(l) \/ Give(l) \/ Exit(l) \/ Claim(l)

Claims == Start /\ [][Next]_claimVars
=============================================================================
