----------------------------- MODULE FixedPoint -----------------------------
(***************************************************************************)
(* The fixed-point arithmetic every instruction of the program shares:     *)
(* 128-bit multiply-then-divide by WAD, rounding down, and the saturating  *)
(* and clamped forms built on it.  WAD is the fixed-point unit and BPS the *)
(* denominator of the rates: 10^18 and 10_000 in src/constants.rs, any     *)
(* integers here with WAD above 1, so that the lowest factor is not WAD.   *)
(***************************************************************************)
EXTENDS Integers

CONSTANTS WAD, BPS

ASSUME FixedPointAssumption == WAD \in Nat /\ WAD > 1 /\ BPS \in Nat \ {0}

Lesser(a, b) == IF a <= b THEN a ELSE b

SatSub(a, b) == IF a >= b THEN a - b ELSE 0

MulWad(a, b) == (a * b) \div WAD

\* A factor never leaves 1..WAD: 1 keeps it distinct from "not settled" (0),
\* WAD means every claim is met in full.
ClampFactor(raw) == IF raw > WAD THEN WAD ELSE IF raw < 1 THEN 1 ELSE raw

ComputeSettlementFactor(available, total_normalized) ==
    IF total_normalized = 0
    THEN WAD
    ELSE ClampFactor((available * WAD) \div total_normalized)
=============================================================================
