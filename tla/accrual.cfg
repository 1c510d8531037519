\* The highest rate, 100%, over the longest term, five years of eight days, in
\* steps of whole days and parts of a day, with fees at a changing rate.  The
\* limits are in the ratio of 2^64 to 10^18 and of 2^128 to the square of 10^18;
\* the days of the term are far from 2^32 here and there.
CONSTANTS
    WAD = 1000
    BPS = 4
    SECONDS_PER_DAY = 2
    DAYS_PER_YEAR = 8
    AnnualInterestBps = 4
    MaturityTimestamp = 80
    MaxTotalSupply = 20
    U32Max = 1000
    U64Max = 18446
    U128Max = 340282366
    Times = {1, 2, 5, 16, 31, 64, 65, 79, 81}
    FeeRates = {0, 4}
    Amounts = {8, 20}
SPECIFICATION Spec
CHECK_DEADLOCK FALSE
INVARIANTS
    NeverAboveEverySecond
    NeverBelowSimpleInterest
    FeesWithinInterest
    AccrualNeverFails
