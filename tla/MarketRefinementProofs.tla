----------------------- MODULE MarketRefinementProofs -----------------------
(***************************************************************************)
(* The market implements the credit line of its borrower and the claims of *)
(* its lenders, for any number of lenders, any amounts and any clock.      *)
(***************************************************************************)
EXTENDS MarketRefinement, MarketProofs

-----------------------------------------------------------------------------
(* The credit line.  A market sees one borrower and one debt.              *)

OwedHere == total_borrowed - PrincipalRepaid

\* The sum of a single debt is that debt.
LEMMA SingleDebtTotal ==
    ASSUME NEW d \in Nat
    PROVE  Credit!Total([nonce \in {0} |-> d]) = d
<1> DEFINE One == {0}
           zeros == [nonce \in One |-> 0]
<1>1. IsFiniteSet(One) /\ 0 \in One
  BY FS_Singleton
<1>2. zeros \in [One -> Nat] /\ zeros[0] = 0
  OBVIOUS
<1>3. Total(zeros) = 0
  <2> HIDE DEF One
  <2>1. QED
    BY TotalOfZeros
<1>4. Total([nonce \in {0} |-> d]) = d
  <2>1. [zeros EXCEPT ![0] = d] = [nonce \in {0} |-> d]
    OBVIOUS
  <2> HIDE DEF One, zeros
  <2>2. Total([zeros EXCEPT ![0] = d]) = Total(zeros) - zeros[0] + d
    BY <1>1, <1>2, TotalOfUpdate
  <2>3. QED
    BY <1>2, <1>3, <2>1, <2>2
<1>5. Credit!Total([nonce \in {0} |-> d]) = Total([nonce \in {0} |-> d])
  <2>1. \A f : Credit!Units(f) = Units(f)
    BY DEF Credit!Units, Credit!UnitsOf, Units, UnitsOf
  <2>2. \A S : Credit!Cardinality(S) = Cardinality(S)
    BY DEF Credit!Cardinality, Cardinality
  <2>3. QED
    BY <2>1, <2>2 DEF Credit!Total, Total
<1>6. QED
  BY <1>4, <1>5

CreditInv == TypeInv /\ DebtMirrorsMarket

\* The debt of the market is the whitelist entry's counter.
LEMMA OwedHereType ==
    ASSUME CreditInv
    PROVE  OwedHere \in Nat /\ OwedHere = current_borrowed
  BY DEF CreditInv, TypeInv, TypeOK, DebtTypeOK, DebtMirrorsMarket, OwedHere,
         PrincipalRepaid

\* What the line looks like in a state with one borrower and one market.
LEMMA LineOfOne ==
    /\ Credit!Owes(Borrower) <=> OwedHere > 0
    /\ Credit!DebtsOf(Borrower) = [nonce \in {0} |-> OwedHere]
    /\ Credit!DebtsOf(Borrower)' = [nonce \in {0} |-> OwedHere']
  BY DEF Credit!Owes, Credit!DebtsOf, OwedHere

\* A new market opens a line without debt.
LEMMA OneLineInit == Init => Credit!Opened
<1> SUFFICES ASSUME Init PROVE Credit!Opened
  OBVIOUS
<1>1. OwedHere = 0
  BY DEF Init, OwedHere, PrincipalRepaid
<1>2. is_whitelisted \in Nat /\ max_borrow_capacity \in Nat
  BY MarketAssumption DEF Init
<1>3. QED
  BY <1>1, <1>2 DEF Credit!Opened, OwedHere

\* Nothing happens to a line whose status, capacity and debt stand still.
LEMMA OneLineUntouched ==
    ASSUME UNCHANGED <<is_whitelisted, max_borrow_capacity>>, OwedHere' = OwedHere
    PROVE  UNCHANGED Credit!line
  BY DEF Credit!line, OwedHere

\* With one market a change of its debt is a change of nothing else.
LEMMA OneLineMoves ==
    ASSUME UNCHANGED <<is_whitelisted, max_borrow_capacity>>
    PROVE  Credit!OnlyIn(Borrower, 0)
  BY DEF Credit!OnlyIn

\* A draw of the market is a draw on the line.
LEMMA BorrowDraws ==
    ASSUME CreditInv, CreditInv', NEW amount \in BorrowAmounts, Borrow(amount)
    PROVE  Credit!Draw(Borrower, 0)
<1>1. /\ amount \in Nat \ {0} /\ is_whitelisted = 1
      /\ current_borrowed + amount <= max_borrow_capacity
      /\ current_borrowed' = current_borrowed + amount
      /\ UNCHANGED <<is_whitelisted, max_borrow_capacity>>
  BY MarketAssumption DEF Borrow
<1>2. /\ OwedHere \in Nat /\ OwedHere = current_borrowed
      /\ OwedHere' \in Nat /\ OwedHere' = current_borrowed'
  BY DEF CreditInv, TypeInv, TypeOK, DebtTypeOK, DebtMirrorsMarket, OwedHere,
         PrincipalRepaid
<1>3. OwedHere' > OwedHere /\ OwedHere' <= max_borrow_capacity
  BY <1>1, <1>2
<1>4. Credit!Total(Credit!DebtsOf(Borrower)') <= max_borrow_capacity
  BY <1>2, <1>3, LineOfOne, SingleDebtTotal
<1>5. QED
  BY <1>1, <1>2, <1>3, <1>4, OneLineMoves DEF Credit!Draw, OwedHere

\* A repayment of principal pays the line back.
LEMMA RepayPaysBack ==
    ASSUME CreditInv, CreditInv', NEW payer \in Payers,
           NEW amount \in RepayAmounts \cup InterestAmounts, Repay(payer, amount)
    PROVE  Credit!PayBack(Borrower, 0)
<1>1. /\ amount \in Nat \ {0}
      /\ current_borrowed' = current_borrowed - amount
      /\ UNCHANGED <<is_whitelisted, max_borrow_capacity>>
  BY MarketAssumption DEF Repay, CountPayment
<1>2. /\ OwedHere \in Nat /\ OwedHere = current_borrowed
      /\ OwedHere' \in Nat /\ OwedHere' = current_borrowed'
  BY DEF CreditInv, TypeInv, TypeOK, DebtTypeOK, DebtMirrorsMarket, OwedHere,
         PrincipalRepaid
<1>3. OwedHere' \in 0 .. (OwedHere - 1)
  BY <1>1, <1>2
<1>4. QED
  BY <1>1, <1>3, OneLineMoves DEF Credit!PayBack, OwedHere

\* The manager's instruction is a review of the line.
LEMMA WhitelistReviews ==
    ASSUME CreditInv, NEW status \in WhitelistStatuses, NEW capacity \in Capacities,
           SetBorrowerWhitelist(status, capacity)
    PROVE  Credit!Review(Borrower)
<1>1. /\ status \in Nat /\ capacity \in Nat
      /\ status = 1 => capacity > 0
      /\ status = 0 => current_borrowed = 0
      /\ is_whitelisted' = status /\ max_borrow_capacity' = capacity
      /\ UNCHANGED debtVars
  BY ConstantTypes DEF SetBorrowerWhitelist, marketVars
<1>2. status = 0 => ~Credit!Owes(Borrower)
  BY <1>1, OwedHereType, LineOfOne
<1>3. OwedHere' = OwedHere
  BY <1>1 DEF OwedHere, PrincipalRepaid, debtVars
<1>4. QED
  BY <1>1, <1>2, <1>3 DEF Credit!Review, OwedHere

\* Steps that neither draw, repay nor review leave the line as it is.
LEMMA OtherStepsKeepLine ==
    ASSUME \/ \E l \in Lenders, amount \in DepositAmounts : Deposit(l, amount)
           \/ \E l \in Lenders, request \in WithdrawRequests, min_payout \in MinPayouts :
                Withdraw(l, request, min_payout)
           \/ \E l \in Lenders : ForceClosePosition(l)
           \/ \E l \in Lenders : PayClaim(l)
           \/ \E l \in Lenders : CloseLenderPosition(l)
           \/ ReSettle \/ CollectFees \/ WithdrawExcess
    PROVE  UNCHANGED debtVars /\ UNCHANGED whitelistVars
  BY DEF Deposit, Withdraw, ForceClosePosition, LeaveMarket, PayClaim,
         CloseLenderPosition, ReSettle, CollectFees, WithdrawExcess, marketVars

\* Every step of the market is a step of its credit line or none.
LEMMA OneLineStep ==
    ASSUME CreditInv, CreditInv', [Next]_vars
    PROVE  [Credit!Next]_(Credit!line)
<1>1. ASSUME UNCHANGED <<debtVars, is_whitelisted, max_borrow_capacity>>
      PROVE  UNCHANGED Credit!line
  BY <1>1, OneLineUntouched DEF OwedHere, PrincipalRepaid, debtVars
<1>2. CASE \E amount \in BorrowAmounts : Borrow(amount)
  BY <1>2, BorrowDraws DEF Credit!Next
<1>3. CASE \E payer \in Payers, amount \in RepayAmounts \cup InterestAmounts :
             Repay(payer, amount)
  BY <1>3, RepayPaysBack DEF Credit!Next
<1>4. ASSUME NEW payer \in Payers, NEW amount \in RepayAmounts \cup InterestAmounts,
             RepayInterest(payer, amount)
      PROVE  UNCHANGED Credit!line
  <2>1. /\ total_borrowed' = total_borrowed /\ amount \in Nat
        /\ total_repaid' = total_repaid + amount
        /\ total_interest_repaid' = total_interest_repaid + amount
        /\ UNCHANGED <<is_whitelisted, max_borrow_capacity>>
    BY <1>4, ConstantTypes DEF RepayInterest, CountPayment
  <2>2. OwedHere' = OwedHere
    BY <2>1 DEF CreditInv, TypeInv, TypeOK, DebtTypeOK, OwedHere, PrincipalRepaid
  <2>3. QED
    BY <2>1, <2>2, OneLineUntouched
<1>5. CASE \/ \E l \in Lenders, amount \in DepositAmounts : Deposit(l, amount)
           \/ \E l \in Lenders, request \in WithdrawRequests, min_payout \in MinPayouts :
                Withdraw(l, request, min_payout)
           \/ \E l \in Lenders : ForceClosePosition(l)
           \/ \E l \in Lenders : PayClaim(l)
           \/ \E l \in Lenders : CloseLenderPosition(l)
           \/ ReSettle \/ CollectFees \/ WithdrawExcess
  <2>1. UNCHANGED debtVars /\ UNCHANGED whitelistVars
    BY <1>5, OtherStepsKeepLine
  <2>2. QED
    BY <1>1, <2>1 DEF whitelistVars
<1>6. CASE MarketUntouched
  <2>1. ASSUME NEW status \in WhitelistStatuses, NEW capacity \in Capacities,
               SetBorrowerWhitelist(status, capacity)
        PROVE  Credit!Next
    BY <2>1, WhitelistReviews DEF Credit!Next
  <2>2. CASE \/ \E value \in PauseValues : SetPause(value)
             \/ \E rate \in FeeRates, authority \in FeeAuthorities :
                  SetFeeConfig(rate, authority)
             \/ \E addresses \in BlockedSets : SetBlocked(addresses)
             \/ \E payer \in Payers, amount \in DonationAmounts : Donate(payer, amount)
             \/ \E time \in Times : Tick(time)
             \/ UNCHANGED vars
    <3>1. UNCHANGED marketVars /\ UNCHANGED whitelistVars
      BY <2>2 DEF SetPause, SetFeeConfig, SetBlocked, Donate, Tick, vars
    <3>2. QED
      BY <1>1, <3>1 DEF whitelistVars, marketVars
  <2>3. QED
    BY <1>6, <2>1, <2>2 DEF MarketUntouched
<1>7. QED
  BY <1>2, <1>3, <1>4, <1>5, <1>6, StepCases

\* The counter on the whitelist entry stands for the debt of the market: it grows
\* only by draws of a borrower who is admitted and only within the capacity, it
\* shrinks only by principal paid back, and the borrower is not struck off in debt.
THEOREM CreditLineKept == Spec => KeepsCreditLine
<1>1. Init => Credit!Opened
  BY OneLineInit
<1>2. Spec => []CreditInv
  BY TypeInvInvariant, DebtAddsUp, PTL DEF CreditInv
<1>3. CreditInv /\ CreditInv' /\ [Next]_vars => [Credit!Next]_(Credit!line)
  BY OneLineStep
<1>4. QED
  BY <1>1, <1>2, <1>3, PTL DEF Spec, KeepsCreditLine, Credit!Lines

-----------------------------------------------------------------------------
(* The claims of the lenders: the arithmetic.                              *)

\* A deposit is never worth more than the tokens paid for it.
LEMMA DepositWorth ==
    ASSUME NEW held \in Nat, NEW amount \in Nat, NEW scale \in Nat \ {0}
    PROVE  MulWad(held + ((amount * WAD) \div scale), scale) - MulWad(held, scale)
             \in 0 .. amount
<1> DEFINE bought == (amount * WAD) \div scale
           x == MulWad(held, scale)
           p == held * scale
           r == bought * scale
<1>1. amount * WAD \in Nat
  BY WadPositive
<1>2. bought \in Nat /\ r <= amount * WAD /\ r \in Nat
  <2>1. bought \in Nat /\ bought * scale <= amount * WAD
    BY <1>1, DivBounds
  <2>2. QED
    BY <2>1
<1>3. p \in Nat /\ (held + bought) * scale = p + r
  BY <1>2, Z3
<1>4. x \in Nat /\ p < x * WAD + WAD
  BY <1>3, WadPositive, DivBounds DEF MulWad
<1>5. x <= MulWad(held + bought, scale)
  BY <1>2, MulWadMonotone
<1>6. MulWad(held + bought, scale) <= x + amount
  <2> HIDE DEF x, p, r, bought
  <2>1. (x + amount + 1) * WAD = x * WAD + amount * WAD + WAD /\ x * WAD \in Nat
    <3>1. WAD \in Nat /\ x \in Nat /\ amount \in Nat
      BY <1>4, WadPositive
    <3>2. QED
      BY <3>1, Z3
  <2>2. p + r < (x + amount + 1) * WAD
    BY <1>1, <1>2, <1>3, <1>4, <2>1, WadPositive
  <2>3. (p + r) \div WAD <= x + amount
    <3>1. p + r \in Nat /\ x + amount \in Nat
      BY <1>2, <1>3, <1>4
    <3>2. QED
      BY <2>2, <3>1, WadPositive, DivBelow
  <2>4. QED
    BY <1>3, <2>3 DEF MulWad
<1>7. MulWad(held + bought, scale) \in Nat
  <2>1. held + bought \in Nat
    BY <1>2
  <2> HIDE DEF bought
  <2>2. QED
    BY <2>1, MulWadType
<1>8. QED
  BY <1>4, <1>5, <1>6, <1>7

\* A share of no more than the value left out is what an exit pays at least.
LEMMA ShareOfOneLess ==
    ASSUME NEW out \in Nat, NEW entitled \in Nat, out <= entitled + 1,
           NEW sf \in 1 .. WAD
    PROVE  MulWad(out - 1, sf) <= MulWad(entitled, sf)
<1>1. sf \in Nat /\ MulWad(entitled, sf) \in Nat
  BY WadPositive, MulWadType
<1>2. CASE out = 0
  <2>1. ((-1) * sf) \div WAD <= 0
    BY <1>1, WadPositive, Z3
  <2>2. MulWad(-1, sf) <= 0
    BY <2>1 DEF MulWad
  <2>3. out - 1 = -1
    BY <1>2
  <2>4. ((-1) * sf) \div WAD \in Int
    BY <1>1, WadPositive, Z3
  <2>5. MulWad(-1, sf) \in Int
    BY <2>4 DEF MulWad
  <2>6. QED
    BY <1>1, <2>2, <2>3, <2>5
<1>3. CASE out > 0
  <2>1. out - 1 \in Nat /\ out - 1 <= entitled
    BY <1>3
  <2>2. QED
    BY <1>1, <2>1, MulWadMonotone
<1>4. QED
  BY <1>2, <1>3

-----------------------------------------------------------------------------
(* The claims of the lenders: what stands still in a step.                 *)

ClaimsInv == SettlementInv /\ BooksInv

\* Every lender's balance has a value, an accrual away from now or not.
LEMMA ValueType ==
    ASSUME TypeOK, NEW l \in Lenders
    PROVE  Value(l) \in Nat
<1>1. AccruedScale \in Nat
  BY AccruedScaleType DEF TypeOK
<1>2. scaled_balance[l] \in Nat
  BY DEF TypeOK, SupplyTypeOK
<1>3. QED
  BY <1>1, <1>2, MulWadType DEF Value, Normalized

\* An accrual reaches the scale the balances were already valued at.
LEMMA ScaleAfterAccrual ==
    ASSUME TypeOK, AccrueScale, UNCHANGED now
    PROVE  AccruedScale' = AccruedScale
<1>1. EffectiveNow \in Nat
  BY ElapsedGrowthType DEF TypeOK
<1>2. EffectiveNow' = EffectiveNow /\ last_accrual_timestamp' = EffectiveNow
  BY DEF AccrueScale, EffectiveNow
<1>3. SatSub(EffectiveNow, last_accrual_timestamp)' = 0
  BY <1>1, <1>2 DEF SatSub
<1>4. ElapsedGrowth' = WAD
  BY <1>3, GrowthAssumption DEF ElapsedGrowth
<1>5. AccruedScale \in Nat
  BY AccruedScaleType DEF TypeOK
<1>6. AccruedScale' = MulWad(AccruedScale, WAD)
  BY <1>4 DEF AccruedScale, AccrueScale
<1>7. QED
  BY <1>5, <1>6, MulWadByOne

\* On a settled market the clock values nothing anew, forwards or backwards.
LEMMA ScaleOfSettled ==
    ASSUME TypeOK, Settled, ClosedWhenSettled
    PROVE  AccruedScale = scale_factor
<1>1. /\ EffectiveNow \in 0 .. MaturityTimestamp
      /\ last_accrual_timestamp = MaturityTimestamp
  BY ElapsedGrowthType DEF TypeOK, ClosedWhenSettled
<1>2. SatSub(EffectiveNow, last_accrual_timestamp) = 0
  BY <1>1, ConstantTypes DEF SatSub
<1>3. ElapsedGrowth = WAD
  BY <1>2, GrowthAssumption DEF ElapsedGrowth
<1>4. QED
  BY <1>3, MulWadByOne DEF AccruedScale, TypeOK, AccrualTypeOK

\* Nothing of a lender changes.
LEMMA ClaimsUntouched ==
    ASSUME AccruedScale' = AccruedScale,
           UNCHANGED <<scaled_balance, haircut_owed, settlement_factor_wad>>,
           \A l \in Lenders : wallet'[l] = wallet[l]
    PROVE  UNCHANGED Lender!claimVars
<1>1. \A l \in Lenders : Value(l)' = Value(l)
  BY DEF Value, Normalized
<1>2. QED
  BY <1>1 DEF Lender!claimVars

\* Only what belongs to l changes.
LEMMA ClaimsOfOne ==
    ASSUME TypeOK, AccruedScale' = AccruedScale, NEW l \in Lenders,
           \A k \in Lenders \ {l} :
             /\ scaled_balance'[k] = scaled_balance[k]
             /\ wallet'[k] = wallet[k],
           haircut_owed' = [haircut_owed EXCEPT ![l] = haircut_owed'[l]]
    PROVE  Lender!OnlyOf(l)
<1>1. \A k \in Lenders \ {l} : Value(k)' = Value(k)
  BY DEF Value, Normalized
<1>2. [k \in Lenders |-> Value(k)]'
        = [[k \in Lenders |-> Value(k)] EXCEPT ![l] = [k \in Lenders |-> Value(k)]'[l]]
  BY <1>1
<1>3. [k \in Lenders |-> wallet[k]]'
        = [[k \in Lenders |-> wallet[k]] EXCEPT ![l] = [k \in Lenders |-> wallet[k]]'[l]]
  OBVIOUS
<1>4. QED
  BY <1>2, <1>3 DEF Lender!OnlyOf

\* A payment to or from somebody who is no lender touches no lender's funds.
LEMMA OthersFunds ==
    ASSUME TypeOK, NEW account \in Accounts \ Lenders, NEW amount,
           PayIn(account, amount) \/ PayOut(account, amount)
    PROVE  \A l \in Lenders : wallet'[l] = wallet[l]
  BY ConstantTypes DEF PayIn, PayOut, TypeOK, TokenTypeOK

\* The borrower and the fee authority are no lenders.
LEMMA SeparateRoles ==
    /\ Borrower \in Accounts \ Lenders
    /\ FeeAuthorities \subseteq Accounts \ Lenders
  BY ConstantTypes, SeparateAccounts

-----------------------------------------------------------------------------
(* The claims of the lenders: what the steps that move one do.             *)

\* A new market owes its lenders nothing.
LEMMA ClaimsStart == Init => Lender!Start
<1> SUFFICES ASSUME Init PROVE Lender!Start
  OBVIOUS
<1>1. TypeOK
  BY TypeInvInit DEF TypeInv
<1>2. AccruedScale \in Nat
  BY <1>1, AccruedScaleType DEF TypeOK
<1>3. \A l \in Lenders : Value(l) = 0
  BY <1>2, WadPositive DEF Init, Value, Normalized, MulWad
<1>4. [l \in Lenders |-> wallet[l]] \in [Lenders -> Nat]
  BY <1>1, ConstantTypes DEF TypeOK, TokenTypeOK
<1>5. QED
  BY <1>3, <1>4 DEF Init, Lender!Start

\* A deposit is an entry worth at most what was paid.
LEMMA DepositEnters ==
    ASSUME ClaimsInv, NEW l \in Lenders, NEW amount \in DepositAmounts,
           Deposit(l, amount)
    PROVE  Lender!Enter(l)
<1> USE DEF ClaimsInv, SettlementInv, TypeInv
<1> DEFINE scaled == (amount * WAD) \div AccruedScale
<1>1. /\ AccrueScale /\ UNCHANGED now /\ now < MaturityTimestamp
      /\ scaled_balance' = [scaled_balance EXCEPT
           ![l] = IF l \in opened THEN @ + scaled ELSE scaled]
      /\ PayIn(l, amount)
      /\ UNCHANGED <<settlement_factor_wad, haircut_owed>>
      /\ amount \in Nat /\ l \in Accounts
  BY ConstantTypes DEF Deposit, AccrueInterest, haircutVars
<1>2. settlement_factor_wad = 0
  <2>1. ~Settled
    BY <1>1, SettledAccrual, ConstantTypes DEF TypeOK, ConfigTypeOK
  <2>2. QED
    BY <2>1 DEF Settled
<1>3. /\ scaled_balance[l] \in Nat /\ AccruedScale \in Nat \ {0}
      /\ AccruedScale' = AccruedScale
  <2>1. AccruedScale \in Nat \ {0}
    BY AccruedScaleType, WadPositive DEF TypeOK
  <2>2. QED
    BY <1>1, <2>1, ScaleAfterAccrual DEF TypeOK, SupplyTypeOK
<1>4. scaled \in Nat
  <2>1. amount * WAD \in Nat
    BY <1>1, WadPositive
  <2>2. QED
    BY <1>3, <2>1, DivBounds
<1>5. scaled_balance'[l] = scaled_balance[l] + scaled
  <2>1. l \notin opened => scaled_balance[l] = 0
    BY DEF BooksInv, UnopenedHoldNothing
  <2>2. QED
    BY <1>1, <1>3, <1>4, <2>1 DEF TypeOK, SupplyTypeOK
<1>6. /\ wallet[l] \in Nat /\ wallet'[l] = wallet[l] - amount
      /\ \A k \in Lenders \ {l} : wallet'[k] = wallet[k] /\ scaled_balance'[k] = scaled_balance[k]
  BY <1>1, ConstantTypes DEF PayIn, TypeOK, TokenTypeOK, SupplyTypeOK
<1>7. Value(l)' - Value(l) \in 0 .. amount
  <2>1. Value(l)' = MulWad(scaled_balance[l] + scaled, AccruedScale)
    BY <1>3, <1>5 DEF Value, Normalized
  <2>2. QED
    BY <1>1, <1>3, <2>1, DepositWorth DEF Value, Normalized
<1>8. wallet[l] - wallet'[l] = amount
  BY <1>1, <1>6
<1>9. haircut_owed' = [haircut_owed EXCEPT ![l] = haircut_owed'[l]]
  BY <1>1 DEF TypeOK, HaircutTypeOK
<1>10. Lender!OnlyOf(l)
  BY <1>3, <1>6, <1>9, ClaimsOfOne
<1>11. QED
  BY <1>1, <1>2, <1>7, <1>8, <1>10 DEF Lender!Enter

\* Who pays for the borrower or into the vault gives it away.
LEMMA PaymentGives ==
    ASSUME TypeOK, NEW payer \in Accounts, NEW amount \in Nat \ {0},
           PayIn(payer, amount), AccruedScale' = AccruedScale,
           UNCHANGED <<scaled_balance, haircut_owed, settlement_factor_wad>>
    PROVE  Lender!Next \/ UNCHANGED Lender!claimVars
<1>1. CASE payer \in Lenders
  <2>1. /\ wallet'[payer] < wallet[payer]
        /\ \A k \in Lenders \ {payer} : wallet'[k] = wallet[k]
    BY ConstantTypes DEF PayIn, TypeOK, TokenTypeOK
  <2>2. haircut_owed' = [haircut_owed EXCEPT ![payer] = haircut_owed'[payer]]
    BY DEF TypeOK, HaircutTypeOK
  <2>3. Lender!OnlyOf(payer)
    BY <1>1, <2>1, <2>2, ClaimsOfOne
  <2>4. \A l \in Lenders : Value(l)' = Value(l)
    BY DEF Value, Normalized
  <2>5. Lender!Give(payer)
    BY <1>1, <2>1, <2>3, <2>4 DEF Lender!Give
  <2>6. QED
    BY <1>1, <2>5 DEF Lender!Next
<1>2. CASE payer \notin Lenders
  BY <1>2, OthersFunds, ClaimsUntouched
<1>3. QED
  BY <1>1, <1>2

\* A claim turns a debt into funds, unit by unit.
LEMMA PayClaimClaims ==
    ASSUME ClaimsInv, NEW l \in Lenders, PayClaim(l)
    PROVE  Lender!Claim(l)
<1> USE DEF ClaimsInv, SettlementInv, TypeInv
<1> DEFINE payout == ClaimablePayout(l)
<1>1. /\ settlement_factor_wad # 0 /\ payout > 0
      /\ haircut_owed' = [haircut_owed EXCEPT ![l] = haircut_owed[l] - payout]
      /\ PayOut(l, payout)
      /\ UNCHANGED <<now, accrualVars, scaled_balance, settlement_factor_wad>>
  BY DEF PayClaim, Reanchor, supplyVars
<1>2. payout \in 0 .. haircut_owed[l] /\ haircut_owed[l] \in Nat
  BY ClaimablePayoutRange, ConstantTypes DEF TypeOK, HaircutTypeOK
<1> HIDE DEF payout
<1>3. /\ haircut_owed'[l] = haircut_owed[l] - payout
      /\ haircut_owed' = [haircut_owed EXCEPT ![l] = haircut_owed'[l]]
  BY <1>1 DEF TypeOK, HaircutTypeOK
<1>4. /\ wallet'[l] = wallet[l] + payout /\ wallet[l] \in Nat
      /\ \A k \in Lenders \ {l} : wallet'[k] = wallet[k]
  BY <1>1, ConstantTypes DEF PayOut, TypeOK, TokenTypeOK
<1>5. AccruedScale' = AccruedScale
  BY <1>1 DEF AccruedScale, ElapsedGrowth, EffectiveNow, accrualVars
<1>6. Lender!OnlyOf(l)
  BY <1>1, <1>3, <1>4, <1>5, ClaimsOfOne
<1>7. \A k \in Lenders : Value(k)' = Value(k)
  BY <1>1, <1>5 DEF Value, Normalized
<1>8. /\ haircut_owed'[l] < haircut_owed[l]
      /\ wallet'[l] - wallet[l] = haircut_owed[l] - haircut_owed'[l]
  BY <1>1, <1>2, <1>3, <1>4
<1>9. QED
  BY <1>1, <1>6, <1>7, <1>8 DEF Lender!Claim

\* What an exit pays and what it leaves due is the amount l was entitled to, on
\* top of what was due before.
LEMMA ExitPaysOrOwes ==
    ASSUME TypeInv, NEW l \in Lenders, NEW entitled \in Nat, NEW sf \in 1 .. WAD,
           settlement_factor_wad # 0 => sf = settlement_factor_wad,
           TrackHaircut(l, sf, SatSub(entitled, MulWad(entitled, sf)))
    PROVE  LET gap == SatSub(entitled, MulWad(entitled, sf))
               paid == MulWad(entitled, sf) + Recovered(l, sf, gap)
           IN  /\ paid \in Nat /\ paid >= MulWad(entitled, sf)
               /\ haircut_owed'[l] \in Nat
               /\ paid + haircut_owed'[l] = entitled + haircut_owed[l]
               /\ haircut_owed' = [haircut_owed EXCEPT ![l] = haircut_owed'[l]]
               /\ sf = WAD => haircut_owed'[l] = haircut_owed[l]
<1> USE DEF TypeInv, TypeOK
<1> DEFINE share == MulWad(entitled, sf)
           gap == SatSub(entitled, share)
           paid == share + Recovered(l, sf, gap)
<1>1. share \in 0 .. entitled
  <2>1. sf \in 0 .. WAD
    BY WadPositive
  <2>2. QED
    BY <2>1, MulWadShrinks
<1> HIDE DEF share
<1>2. gap \in Nat /\ share + gap = entitled
  BY <1>1 DEF SatSub
<1>3. /\ haircut_owed \in [Lenders -> 0 .. U64Max] /\ haircut_owed[l] \in Nat
      /\ Rebased(l, sf) \in 0 .. haircut_owed[l]
      /\ RecoveredAt(l, sf) = haircut_owed[l] - Rebased(l, sf)
      /\ RecoveredAt(l, sf) \in 0 .. haircut_owed[l]
  BY RebasedRange, ConstantTypes DEF HaircutTypeOK
<1>4. TrackHaircut(l, sf, gap)
  BY DEF share
<1> HIDE DEF gap
<1>5. CASE LeavesHaircut(sf, gap)
  <2>1. haircut_owed' = [haircut_owed EXCEPT ![l] = OwedAfterExit(l, sf, gap)]
    BY <1>4, <1>5 DEF TrackHaircut, Reanchor
  <2>2. haircut_owed'[l] = Rebased(l, sf) + gap
    BY <1>3, <2>1 DEF OwedAfterExit
  <2>3. paid = share + (haircut_owed[l] - Rebased(l, sf))
    BY <1>3, <1>5 DEF Recovered
  <2>4. sf # WAD
    BY <1>5, WadPositive DEF LeavesHaircut
  <2>5. haircut_owed' = [haircut_owed EXCEPT ![l] = haircut_owed'[l]]
    BY <1>3, <2>1
  <2>6. /\ paid \in Nat /\ paid >= share /\ haircut_owed'[l] \in Nat
        /\ paid + haircut_owed'[l] = entitled + haircut_owed[l]
    BY <1>1, <1>2, <1>3, <2>2, <2>3
  <2>7. QED
    BY <2>4, <2>5, <2>6 DEF share, gap
<1>6. CASE ~LeavesHaircut(sf, gap)
  <2>1. haircut_owed' = haircut_owed
    BY <1>4, <1>6 DEF TrackHaircut, haircutVars
  <2>2. paid = share
    BY <1>1, <1>6 DEF Recovered
  <2>3. share = entitled
    <3>1. CASE gap = 0
      BY <1>1, <1>2, <3>1
    <3>2. CASE gap > 0
      <4>1. sf = WAD
        BY <1>6, <3>2, WadPositive DEF LeavesHaircut
      <4>2. QED
        BY <4>1, MulWadByOne DEF share
    <3>3. QED
      BY <1>2, <3>1, <3>2
  <2>4. haircut_owed' = [haircut_owed EXCEPT ![l] = haircut_owed'[l]]
    BY <1>3, <2>1
  <2>5. /\ paid \in Nat /\ paid >= share /\ haircut_owed'[l] \in Nat
        /\ paid + haircut_owed'[l] = entitled + haircut_owed[l]
        /\ haircut_owed'[l] = haircut_owed[l]
    BY <1>1, <1>3, <2>1, <2>2, <2>3
  <2>6. QED
    BY <2>4, <2>5 DEF share, gap
<1>7. QED
  BY <1>5, <1>6

\* An exit turns an investment into funds and a debt, but for one unit.
LEMMA LeaveMarketExits ==
    ASSUME ClaimsInv, NEW l \in Lenders, NEW amount \in 0 .. scaled_balance[l],
           settlement_factor_wad = 0 => now >= MaturityTimestamp,
           LeaveMarket(l, amount, FactorForExit)
    PROVE  Lender!Exit(l)
<1> USE DEF ClaimsInv, SettlementInv, TypeInv
<1> DEFINE sf == FactorForExit
           held == scaled_balance[l]
           entitled == Normalized(amount, AccruedScale)
           gap == SatSub(entitled, MulWad(entitled, sf))
           paid == MulWad(entitled, sf) + Recovered(l, sf, gap)
<1>1. /\ sf \in 1 .. WAD
      /\ settlement_factor_wad # 0 => sf = settlement_factor_wad
  BY FactorForExitRange
<1>2. /\ AccrueScale /\ UNCHANGED now /\ settlement_factor_wad' = sf
      /\ TrackHaircut(l, sf, gap)
      /\ scaled_balance' = [scaled_balance EXCEPT ![l] = held - amount]
      /\ PayOut(l, paid)
  BY DEF LeaveMarket, AccrueInterest, BalanceAfterExit
<1>3. /\ held \in Nat /\ amount \in Nat /\ held - amount \in Nat
      /\ AccruedScale \in Nat /\ AccruedScale' = AccruedScale
  <2>1. held \in Nat
    BY DEF TypeOK, SupplyTypeOK
  <2>2. AccruedScale \in Nat
    BY AccruedScaleType DEF TypeOK
  <2>3. QED
    BY <1>2, <2>1, <2>2, ScaleAfterAccrual
<1>4. entitled \in Nat
  BY <1>3, MulWadType DEF Normalized
<1>5. /\ paid \in Nat /\ paid >= MulWad(entitled, sf)
      /\ haircut_owed'[l] \in Nat /\ haircut_owed[l] \in Nat
      /\ paid + haircut_owed'[l] = entitled + haircut_owed[l]
      /\ haircut_owed' = [haircut_owed EXCEPT ![l] = haircut_owed'[l]]
      /\ sf = WAD => haircut_owed'[l] = haircut_owed[l]
  <2>1. haircut_owed[l] \in Nat
    BY ConstantTypes DEF TypeOK, HaircutTypeOK
  <2> HIDE DEF entitled, sf
  <2>2. QED
    BY <1>1, <1>2, <1>4, <2>1, ExitPaysOrOwes
<1> HIDE DEF paid, gap, sf
<1>6. /\ wallet'[l] = wallet[l] + paid /\ wallet[l] \in Nat
      /\ \A k \in Lenders \ {l} :
           wallet'[k] = wallet[k] /\ scaled_balance'[k] = scaled_balance[k]
      /\ scaled_balance'[l] = held - amount
  BY <1>2, ConstantTypes DEF PayOut, TypeOK, TokenTypeOK, SupplyTypeOK
<1>7. /\ Value(l) \in Nat /\ Value(l)' \in Nat
      /\ Value(l) - (Value(l)' + entitled) \in {0, 1}
  <2>1. Value(l) = MulWad((held - amount) + amount, AccruedScale)
    BY <1>3 DEF Value, Normalized
  <2>2. Value(l)' = MulWad(held - amount, AccruedScale)
    BY <1>3, <1>6 DEF Value, Normalized
  <2>3. MulWad((held - amount) + amount, AccruedScale)
          - (MulWad(held - amount, AccruedScale) + MulWad(amount, AccruedScale)) \in {0, 1}
    <3> DEFINE rest == held - amount
    <3>1. rest \in Nat
      BY <1>3
    <3> HIDE DEF rest
    <3>2. MulWad(rest + amount, AccruedScale)
            - (MulWad(rest, AccruedScale) + MulWad(amount, AccruedScale)) \in {0, 1}
      BY <1>3, <3>1, MulWadSplits
    <3>3. QED
      BY <3>2 DEF rest
  <2>4. MulWad(held - amount, AccruedScale) \in Nat
    BY <1>3, MulWadType
  <2>5. Value(l) \in Nat
    BY ValueType
  <2>6. QED
    BY <2>1, <2>2, <2>3, <2>4, <2>5 DEF Normalized
<1> DEFINE out == Value(l) - Value(l)'
<1>8. out \in Nat /\ out \in {entitled, entitled + 1} /\ Value(l)' <= Value(l)
  BY <1>4, <1>7
<1>9. MulWad(out - 1, sf) <= MulWad(entitled, sf)
  <2> HIDE DEF out, entitled
  <2>1. out <= entitled + 1
    BY <1>4, <1>8
  <2>2. QED
    BY <1>1, <1>4, <1>8, <2>1, ShareOfOneLess
<1>10. Lender!OnlyOf(l)
  BY <1>3, <1>5, <1>6, ClaimsOfOne
<1>11. wallet'[l] - wallet[l] = paid
  BY <1>5, <1>6
<1>12. wallet'[l] - wallet[l] >= MulWad(Value(l) - Value(l)' - 1, sf)
  <2>1. MulWad(entitled, sf) \in Nat
    <3>1. sf \in Nat
      BY <1>1, WadPositive
    <3> HIDE DEF entitled
    <3>2. QED
      BY <1>4, <3>1, MulWadType
  <2>2. MulWad(out - 1, sf) \in Int
    <3>1. out - 1 \in Int /\ sf \in Int
      BY <1>1, <1>8, WadPositive
    <3> HIDE DEF out
    <3>2. (out - 1) * sf \in Int
      BY <3>1
    <3>3. ((out - 1) * sf) \div WAD \in Int
      BY <3>2, WadPositive
    <3>4. QED
      BY <3>3 DEF MulWad
  <2>3. QED
    BY <1>5, <1>9, <1>11, <2>1, <2>2
<1>13. wallet'[l] + haircut_owed'[l] + Value(l)' - (wallet[l] + haircut_owed[l] + Value(l))
         \in {-1, 0}
  BY <1>4, <1>5, <1>6, <1>7
<1>14. settlement_factor_wad' \in 1 .. WAD
       /\ (settlement_factor_wad # 0 => settlement_factor_wad' = settlement_factor_wad)
       /\ (settlement_factor_wad' = WAD => haircut_owed'[l] = haircut_owed[l])
  BY <1>1, <1>2, <1>5
<1>15. QED
  BY <1>2, <1>8, <1>10, <1>12, <1>13, <1>14 DEF Lender!Exit, Lender!MulWad, MulWad

-----------------------------------------------------------------------------
(* The claims of the lenders: every step.                                  *)

\* Steps that move no lender's claim: draws, sweeps, closed accounts.
LEMMA QuietStep ==
    ASSUME ClaimsInv,
           \/ \E amount \in BorrowAmounts : Borrow(amount)
           \/ \E l \in Lenders : CloseLenderPosition(l)
           \/ CollectFees \/ WithdrawExcess
    PROVE  UNCHANGED Lender!claimVars
<1> USE DEF ClaimsInv, SettlementInv, TypeInv
<1>1. ASSUME AccrueScale \/ UNCHANGED accrualVars, UNCHANGED now
      PROVE  AccruedScale' = AccruedScale
  BY <1>1, ScaleAfterAccrual DEF AccruedScale, ElapsedGrowth, EffectiveNow, accrualVars
<1>2. ASSUME NEW amount \in BorrowAmounts, Borrow(amount)
      PROVE  UNCHANGED Lender!claimVars
  <2>1. /\ AccrueScale /\ UNCHANGED now /\ PayOut(Borrower, amount)
        /\ UNCHANGED <<scaled_balance, haircut_owed, settlement_factor_wad>>
    BY <1>2 DEF Borrow, AccrueInterest, supplyVars, haircutVars
  <2>2. QED
    BY <1>1, <2>1, SeparateRoles, OthersFunds, ClaimsUntouched
<1>3. CASE CollectFees
  <2>1. /\ AccrueScale /\ UNCHANGED now /\ PayOut(fee_authority, FeesPayable)
        /\ UNCHANGED <<scaled_balance, haircut_owed, settlement_factor_wad>>
    BY <1>3 DEF CollectFees, supplyVars, haircutVars
  <2>2. fee_authority \in Accounts \ Lenders
    BY SeparateRoles DEF TypeOK, ConfigTypeOK
  <2>3. QED
    BY <1>1, <2>1, <2>2, OthersFunds, ClaimsUntouched
<1>4. CASE WithdrawExcess
  <2>1. /\ UNCHANGED <<now, accrualVars>>
        /\ PayOut(Borrower, SatSub(vault, haircut_accumulator))
        /\ UNCHANGED <<scaled_balance, haircut_owed, settlement_factor_wad>>
    BY <1>4 DEF WithdrawExcess, marketVars, supplyVars, haircutVars
  <2>2. QED
    BY <1>1, <2>1, SeparateRoles, OthersFunds, ClaimsUntouched
<1>5. ASSUME NEW l \in Lenders, CloseLenderPosition(l)
      PROVE  UNCHANGED Lender!claimVars
  <2>1. /\ UNCHANGED <<now, accrualVars, wallet>>
        /\ UNCHANGED <<scaled_balance, haircut_owed, settlement_factor_wad>>
    BY <1>5 DEF CloseLenderPosition, tokenVars
  <2>2. QED
    BY <1>1, <2>1, ClaimsUntouched
<1>6. QED
  BY <1>2, <1>3, <1>4, <1>5

\* A re-settlement only raises what the claims are worth.
LEMMA ReSettleImproves ==
    ASSUME ClaimsInv, ReSettle
    PROVE  Lender!Improve
<1> USE DEF ClaimsInv, SettlementInv, TypeInv
<1>1. /\ AccrueScale /\ UNCHANGED <<now, scaled_balance, haircut_owed, wallet>>
      /\ settlement_factor_wad # 0
  BY DEF ReSettle, AccrueInterest, supplyVars, haircutVars, tokenVars
<1>2. /\ settlement_factor_wad' \in 1 .. WAD
      /\ settlement_factor_wad' > settlement_factor_wad
  BY ReSettleType
<1>3. AccruedScale' = AccruedScale
  BY <1>1, ScaleAfterAccrual
<1>4. \A l \in Lenders : Value(l)' = Value(l)
  BY <1>1, <1>3 DEF Value, Normalized
<1>5. settlement_factor_wad' <= WAD
  BY <1>2, WadPositive
<1>6. QED
  BY <1>1, <1>2, <1>4, <1>5 DEF Lender!Improve

\* The time since an accrual lies within the term, and none is left at its end.
LEMMA SatSubWithin ==
    ASSUME NEW m \in Nat, NEW a \in 0 .. m, NEW b \in 0 .. m
    PROVE  SatSub(a, b) \in 0 .. m /\ (b = m => SatSub(a, b) = 0)
  BY DEF SatSub

\* The clock values the balances anew until the market is settled.
LEMMA TickRevalues ==
    ASSUME ClaimsInv, ClaimsInv', NEW time \in Times, Tick(time)
    PROVE  Lender!Revalue \/ UNCHANGED Lender!claimVars
<1> USE DEF ClaimsInv, SettlementInv, TypeInv
<1>1. UNCHANGED <<scale_factor, scaled_balance, haircut_owed, settlement_factor_wad, wallet>>
  BY DEF Tick, marketVars, accrualVars, supplyVars, haircutVars, tokenVars
<1>2. CASE settlement_factor_wad = 0
  <2>1. AccruedScale' \in Nat
    <3>1. /\ EffectiveNow' \in 0 .. MaturityTimestamp
          /\ last_accrual_timestamp' \in 0 .. MaturityTimestamp
      BY ConstantTypes DEF EffectiveNow, Lesser, TypeOK, ConfigTypeOK, AccrualTypeOK
    <3>2. SatSub(EffectiveNow', last_accrual_timestamp') \in 0 .. MaturityTimestamp
      BY <3>1, ConstantTypes, SatSubWithin
    <3>3. ElapsedGrowth' \in Nat
      BY <3>2, GrowthAssumption DEF ElapsedGrowth
    <3>4. scale_factor' \in Nat
      BY DEF TypeOK, AccrualTypeOK
    <3>5. QED
      BY <3>3, <3>4, MulWadType DEF AccruedScale
  <2>2. ASSUME NEW l \in Lenders PROVE Value(l)' \in Nat
    <3>1. scaled_balance'[l] \in Nat
      BY <1>1 DEF TypeOK, SupplyTypeOK
    <3>2. QED
      BY <2>1, <3>1, MulWadType DEF Value, Normalized
  <2>3. [l \in Lenders |-> Value(l)]' \in [Lenders -> Nat]
    BY <2>2
  <2>4. QED
    BY <1>1, <1>2, <2>3 DEF Lender!Revalue
<1>3. CASE settlement_factor_wad # 0
  <2>1. AccruedScale = scale_factor
    BY <1>3, ScaleOfSettled DEF Settled
  <2>2. AccruedScale' = scale_factor'
    <3>1. last_accrual_timestamp' = MaturityTimestamp
      BY <1>1, <1>3 DEF ClosedWhenSettled, Settled
    <3>2. EffectiveNow' \in 0 .. MaturityTimestamp
      BY ConstantTypes DEF EffectiveNow, Lesser, TypeOK, ConfigTypeOK
    <3>3. SatSub(EffectiveNow', last_accrual_timestamp') = 0
      <4>1. MaturityTimestamp \in Nat /\ last_accrual_timestamp' \in 0 .. MaturityTimestamp
        BY <3>1, ConstantTypes
      <4>2. QED
        BY <3>1, <3>2, <4>1, SatSubWithin
    <3>4. ElapsedGrowth' = WAD
      BY <3>3, GrowthAssumption DEF ElapsedGrowth
    <3>5. scale_factor' \in Nat
      BY DEF TypeOK, AccrualTypeOK
    <3>6. QED
      BY <3>4, <3>5, MulWadByOne DEF AccruedScale
  <2>3. QED
    BY <1>1, <2>1, <2>2, ClaimsUntouched
<1>4. QED
  BY <1>2, <1>3

\* Every step of the market is a step of its lenders' claims or none.
LEMMA ClaimsStep ==
    ASSUME ClaimsInv, ClaimsInv', [Next]_vars
    PROVE  [Lender!Next]_(Lender!claimVars)
<1> USE DEF ClaimsInv, SettlementInv, TypeInv
<1>1. CASE \E l \in Lenders, amount \in DepositAmounts : Deposit(l, amount)
  BY <1>1, DepositEnters DEF Lender!Next
<1>2. ASSUME NEW l \in Lenders, NEW request \in WithdrawRequests,
             NEW min_payout \in MinPayouts, Withdraw(l, request, min_payout)
      PROVE  Lender!Next
  BY <1>2, WithdrawLeaves, LeaveMarketExits DEF Lender!Next
<1>3. ASSUME NEW l \in Lenders, ForceClosePosition(l)
      PROVE  Lender!Next
  BY <1>3, ForceCloseLeaves, LeaveMarketExits DEF Lender!Next
<1>4. CASE \E l \in Lenders : PayClaim(l)
  BY <1>4, PayClaimClaims DEF Lender!Next
<1>5. CASE \/ \E amount \in BorrowAmounts : Borrow(amount)
           \/ \E l \in Lenders : CloseLenderPosition(l)
           \/ CollectFees \/ WithdrawExcess
  BY <1>5, QuietStep
<1>6. ASSUME NEW payer \in Payers, NEW amount \in RepayAmounts \cup InterestAmounts,
             Repay(payer, amount) \/ RepayInterest(payer, amount)
      PROVE  Lender!Next \/ UNCHANGED Lender!claimVars
  <2>1. /\ AccrueScale /\ UNCHANGED now /\ PayIn(payer, amount)
        /\ UNCHANGED <<scaled_balance, haircut_owed, settlement_factor_wad>>
        /\ payer \in Accounts /\ amount \in Nat \ {0}
    BY <1>6, MarketAssumption DEF Repay, RepayInterest, CountPayment, AccrueInterest,
       supplyVars, haircutVars
  <2>2. QED
    BY <2>1, ScaleAfterAccrual, PaymentGives
<1>7. CASE ReSettle
  BY <1>7, ReSettleImproves DEF Lender!Next
<1>8. CASE MarketUntouched
  <2>1. ASSUME NEW payer \in Payers, NEW amount \in DonationAmounts, Donate(payer, amount)
        PROVE  Lender!Next \/ UNCHANGED Lender!claimVars
    <3>1. /\ UNCHANGED <<now, accrualVars>> /\ PayIn(payer, amount)
          /\ UNCHANGED <<scaled_balance, haircut_owed, settlement_factor_wad>>
          /\ payer \in Accounts /\ amount \in Nat \ {0}
      BY <2>1, MarketAssumption DEF Donate, marketVars, supplyVars, haircutVars
    <3>2. AccruedScale' = AccruedScale
      BY <3>1 DEF AccruedScale, ElapsedGrowth, EffectiveNow, accrualVars
    <3>3. QED
      BY <3>1, <3>2, PaymentGives
  <2>2. ASSUME NEW time \in Times, Tick(time)
        PROVE  Lender!Next \/ UNCHANGED Lender!claimVars
    BY <2>2, TickRevalues DEF Lender!Next
  <2>3. CASE \/ \E status \in WhitelistStatuses, capacity \in Capacities :
                  SetBorrowerWhitelist(status, capacity)
             \/ \E value \in PauseValues : SetPause(value)
             \/ \E rate \in FeeRates, authority \in FeeAuthorities :
                  SetFeeConfig(rate, authority)
             \/ \E addresses \in BlockedSets : SetBlocked(addresses)
             \/ UNCHANGED vars
    <3>1. UNCHANGED <<now, marketVars, wallet>>
      BY <2>3 DEF SetBorrowerWhitelist, SetPause, SetFeeConfig, SetBlocked, vars, tokenVars
    <3>2. /\ UNCHANGED <<scaled_balance, haircut_owed, settlement_factor_wad>>
          /\ UNCHANGED <<now, accrualVars, wallet>>
      BY <3>1 DEF marketVars, supplyVars, haircutVars
    <3>3. AccruedScale' = AccruedScale
      BY <3>2 DEF AccruedScale, ElapsedGrowth, EffectiveNow, accrualVars
    <3>4. QED
      BY <3>2, <3>3, ClaimsUntouched
  <2>4. QED
    BY <1>8, <2>1, <2>2, <2>3 DEF MarketUntouched
<1>9. QED
  BY <1>1, <1>2, <1>3, <1>4, <1>5, <1>6, <1>7, <1>8, StepCases

\* For any number of lenders, whatever exits, claims, re-settlements, sweeps and
\* payments come between: what a lender holds, has invested and is due only
\* changes its form once the market is settled, but for one unit of rounding in
\* each exit, and no step reaches another lender's.
THEOREM ClaimsKept == Spec => KeepsClaims
<1>1. Init => Lender!Start
  BY ClaimsStart
<1>2. Spec => []ClaimsInv
  BY SettlementInvariant, BooksInvariant, PTL DEF ClaimsInv
<1>3. ClaimsInv /\ ClaimsInv' /\ [Next]_vars => [Lender!Next]_(Lender!claimVars)
  BY ClaimsStep
<1>4. QED
  BY <1>1, <1>2, <1>3, PTL DEF Spec, KeepsClaims, Lender!Claims
=============================================================================
