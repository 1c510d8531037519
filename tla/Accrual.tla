------------------------------- MODULE Accrual -------------------------------
(***************************************************************************)
(* The interest of one market, accrued by whoever sends an instruction,    *)
(* whenever that is: accrue_interest with its 128-bit products, while       *)
(* deposits come in and the fee rate changes.  Lenders leave after the last *)
(* accrual that adds anything.                                             *)
(***************************************************************************)
EXTENDS Interest

CONSTANTS
    AnnualInterestBps, MaturityTimestamp,
    MaxTotalSupply,
    U32Max, U64Max, U128Max, \* days, fees or a product past these make the
                             \* instruction fail
    Times, FeeRates, Amounts

ASSUME AccrualAssumption ==
    /\ {AnnualInterestBps, MaturityTimestamp, MaxTotalSupply} \subseteq Nat
    /\ {U32Max, U64Max, U128Max} \subseteq Nat
    /\ Times \cup Amounts \subseteq Nat /\ FeeRates \subseteq 0 .. BPS

VARIABLES
    now, fee_rate_bps,
    scaled_total_supply, total_deposited,
    scale_factor, accrued_protocol_fees, last_accrual_timestamp,
    calls, charged           \* history: how often interest was accrued; see Charged

supplyVars == <<scaled_total_supply, total_deposited>>
accrualVars == <<scale_factor, accrued_protocol_fees, last_accrual_timestamp,
                 calls, charged>>
vars == <<now, fee_rate_bps, supplyVars, accrualVars>>

Init ==
    /\ now = 0 /\ fee_rate_bps \in FeeRates
    /\ scaled_total_supply = 0 /\ total_deposited = 0
    /\ scale_factor = WAD /\ accrued_protocol_fees = 0
    /\ last_accrual_timestamp = 0
    /\ calls = 0 /\ charged = 0

EffectiveNow == Lesser(now, MaturityTimestamp)

Elapsed == EffectiveNow - last_accrual_timestamp

DaysGrowth == DaysGrowthWad(AnnualInterestBps, Elapsed)

RestGrowth == RestGrowthWad(AnnualInterestBps, Elapsed)

TotalGrowth == TotalGrowthWad(AnnualInterestBps, Elapsed)

FeeDelta == ((TotalGrowth - WAD) * fee_rate_bps) \div BPS

AccruedScale == MulWad(scale_factor, TotalGrowth)

\* mutated form of FeeBase: valued after the accrual
FeeBaseAfter == MulWad(scaled_total_supply, AccruedScale)

\* The supply in tokens before this accrual.
FeeBase == MulWad(scaled_total_supply, scale_factor)

NewFees == accrued_protocol_fees + MulWad(FeeBase, FeeDelta)

\* The rate of each call on what the lenders earn in it: the supply of that time by
\* the gain of the scale, with the unit that the scale may have lost.
Charged ==
    charged + fee_rate_bps * (scaled_total_supply * (AccruedScale - scale_factor + 1))

\* The 128-bit figures of the growth, of factors multiplied one after the other the
\* whole product: for the rate of a day, for whole days, for the rest, for all.
GrowthFigures ==
    { AnnualInterestBps * WAD, DAYS_PER_YEAR * BPS, WAD + DailyRateWad(AnnualInterestBps),
      PowLargestProduct(WAD + DailyRateWad(AnnualInterestBps), Elapsed \div SECONDS_PER_DAY),
      AnnualInterestBps * (Elapsed % SECONDS_PER_DAY) * WAD, SECONDS_PER_YEAR * BPS,
      RestGrowth, DaysGrowth * RestGrowth, scale_factor * TotalGrowth }

\* Those of the fees.
FeeFigures ==
    { (TotalGrowth - WAD) * fee_rate_bps, scaled_total_supply * scale_factor,
      FeeBase * FeeDelta }

\* Every checked operation of an accrual succeeds; without a rate there are no fees.
AccrualFits ==
    /\ Elapsed \div SECONDS_PER_DAY <= U32Max
    /\ \A figure \in GrowthFigures : figure <= U128Max
    /\ TotalGrowth >= WAD
    /\ fee_rate_bps > 0 => \A figure \in FeeFigures : figure <= U128Max
    /\ NewFees <= U64Max

\* The call every instruction starts with; without a period it returns at once.
AccrueInterest ==
    \/ /\ Elapsed = 0
       /\ UNCHANGED accrualVars
    \/ /\ Elapsed > 0
       /\ AccrualFits
       /\ scale_factor' = AccruedScale
       /\ accrued_protocol_fees' = NewFees
       /\ last_accrual_timestamp' = EffectiveNow
       /\ calls' = calls + 1 /\ charged' = Charged

\* An instruction that neither adds to the supply nor takes from it.
Accrue ==
    /\ AccrueInterest
    /\ UNCHANGED <<now, fee_rate_bps, supplyVars>>

\* The checks of the lender and of the accounts are in Market.
Deposit(amount) ==
    LET scaled == (amount * WAD) \div AccruedScale
    IN  /\ now < MaturityTimestamp
        /\ AccrueInterest
        /\ scaled > 0
        /\ total_deposited + amount <= MaxTotalSupply
        /\ scaled_total_supply' = scaled_total_supply + scaled
        /\ total_deposited' = total_deposited + amount
        /\ UNCHANGED <<now, fee_rate_bps>>

SetFeeRate(rate) ==
    /\ fee_rate_bps' = rate
    /\ UNCHANGED <<now, supplyVars, accrualVars>>

Tick(time) ==
    /\ time > now
    /\ now' = time
    /\ UNCHANGED <<fee_rate_bps, supplyVars, accrualVars>>

Next ==
    \/ Accrue
    \/ \E amount \in Amounts : Deposit(amount)
    \/ \E rate \in FeeRates : SetFeeRate(rate)
    \/ \E time \in Times : Tick(time)

Spec == Init /\ [][Next]_vars

-----------------------------------------------------------------------------
\* The scale of a market that compounds every second, rounded up.
EverySecond[t \in Nat] ==
    IF t = 0 THEN WAD
    ELSE LET year == SECONDS_PER_YEAR * BPS
         IN  (EverySecond[t - 1] * (year + AnnualInterestBps) + year - 1) \div year

\* However often somebody accrues, lenders never earn more than compounding by
\* the second would give them (accrue_interest is called by every instruction).
NeverAboveEverySecond == scale_factor <= EverySecond[last_accrual_timestamp]

\* Nor less than simple interest at the annual rate, but for one unit of the scale
\* for each day and each call: nobody wipes out interest by accruing often, and no
\* second is lost between two calls (compute_total_growth_wad rounds four times).
NeverBelowSimpleInterest ==
    AnnualInterestBps * last_accrual_timestamp * WAD
      <= (scale_factor - WAD + (last_accrual_timestamp \div SECONDS_PER_DAY) + calls)
           * (SECONDS_PER_YEAR * BPS)

\* The fees are at most the share of the interest that the fee rate of each call
\* gives of what the lenders earn in that call, and of one unit of the scale: on no
\* deposit from before it came, at no rate from before or after it was in force
\* (accrue_interest, deposit adding to the supply, the manager setting the rate).
FeesWithinInterest ==
    accrued_protocol_fees * BPS * WAD <= charged

\* No accrual is refused for its arithmetic: at the highest rate and over the longest
\* term every checked operation between the clock's and the last one succeeds, in
\* whatever steps the time is passed.  If one failed, every instruction of the market
\* would from then on (accrue_interest with pow_wad and mul_wad).
AccrualNeverFails == AccrualFits
=============================================================================
