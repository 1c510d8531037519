------------------------------ MODULE Interest ------------------------------
(***************************************************************************)
(* The growth factor of src/logic/interest.rs: whole days compound, the    *)
(* seconds left over grow linearly.  The calendar and the denominators are *)
(* constants so that small instances keep several days and a fraction.     *)
(***************************************************************************)
EXTENDS FixedPoint

CONSTANTS SECONDS_PER_DAY,     \* 86_400
          DAYS_PER_YEAR        \* 365

ASSUME CalendarAssumption ==
    {SECONDS_PER_DAY, DAYS_PER_YEAR} \subseteq Nat \ {0}

SECONDS_PER_YEAR == SECONDS_PER_DAY * DAYS_PER_YEAR

Larger(a, b) == IF a >= b THEN a ELSE b

\* mutated form of NextBase: the base is squared once more than needed
SquaredOnceMore(b, half) == b * b

\* The product that squares the base, if another bit is left.
NextBase(b, half) == IF half > 0 THEN b * b ELSE 0

\* pow_wad: square and multiply, each product rounded down.  <<result, b, e>>
\* are the loop's variables, the last component is the largest product so far.
PowLoop[r \in Nat \X Nat \X Nat \X Nat] ==
    LET result == r[1]
        b == r[2]
        e == r[3]
        half == e \div 2
        product == IF e % 2 = 1 THEN result * b ELSE 0
    IN  IF e = 0
        THEN <<result, r[4]>>
        ELSE PowLoop[<< IF e % 2 = 1 THEN product \div WAD ELSE result,
                        IF half > 0 THEN NextBase(b, half) \div WAD ELSE b,
                        half,
                        Larger(r[4], Larger(product, NextBase(b, half))) >>]

PowWad(base, exp) == PowLoop[<<WAD, base, exp, 0>>][1]

\* What the 128-bit products of pow_wad must hold.
PowLargestProduct(base, exp) == PowLoop[<<WAD, base, exp, 0>>][2]

DailyRateWad(annual_bps) == (annual_bps * WAD) \div (DAYS_PER_YEAR * BPS)

RemainingDeltaWad(annual_bps, seconds) ==
    (annual_bps * seconds * WAD) \div (SECONDS_PER_YEAR * BPS)

DaysGrowthWad(annual_bps, elapsed) ==
    PowWad(WAD + DailyRateWad(annual_bps), elapsed \div SECONDS_PER_DAY)

\* mutated form of RestGrowthWad: the seconds since the last whole day are lost
RestLost(annual_bps, elapsed) == WAD

\* mutated form of RestGrowthWad: the seconds of whole days are counted again
RestWithDays(annual_bps, elapsed) == WAD + RemainingDeltaWad(annual_bps, elapsed)

RestGrowthWad(annual_bps, elapsed) ==
    WAD + RemainingDeltaWad(annual_bps, elapsed % SECONDS_PER_DAY)

TotalGrowthWad(annual_bps, elapsed) ==
    MulWad(DaysGrowthWad(annual_bps, elapsed), RestGrowthWad(annual_bps, elapsed))
=============================================================================
