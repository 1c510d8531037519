--------------------------- MODULE ProtocolProofs ---------------------------
(***************************************************************************)
(* What the administrators, the managers and the borrowers of the protocol *)
(* cannot break, for every set of borrowers, markets, roles and amounts.   *)
(***************************************************************************)
EXTENDS ProtocolProperties, TotalsProofs, TLAPS

\* Interest payments are counted among all payments.
InterestWithinRepaid ==
    \A k \in MarketKeys : total_interest_repaid[k] <= total_repaid[k]

\* A market that was never opened owes nothing.
UnopenedOweNothing ==
    \A k \in MarketKeys : ~Exists(k) => Debt(k) = 0

-----------------------------------------------------------------------------
\* The sets of the instance, as the proofs use them.
LEMMA ProtocolConstants ==
    /\ IsFiniteSet(Nonces) /\ ZERO_ADDRESS \in Addresses
    /\ Borrowers \subseteq Signers /\ RoleHolders \subseteq Addresses
    /\ Deployers \subseteq Signers \cup {Nobody}
    /\ U64Max \in Nat /\ MAX_FEE_RATE_BPS \in Nat
    /\ MIN_MATURITY_DELTA \in Nat /\ MAX_MATURITY_DELTA \in Nat
    /\ Amounts \subseteq Nat \ {0} /\ StatusBytes \subseteq Nat
    /\ Capacities \subseteq Nat /\ FeeRates \subseteq Nat /\ Times \subseteq Nat
    /\ AnnualRates \subseteq Nat /\ Maturities \subseteq Nat /\ Supplies \subseteq Nat
    /\ PauseValues \subseteq BOOLEAN /\ ModeValues \subseteq BOOLEAN
    /\ AccountStates \subseteq AccountKinds
  BY ProtocolAssumption, BlacklistAssumption

\* Instructions of the admin.
ByAdministration ==
    \E signer \in Signers :
        \/ \E rate \in FeeRates, authority, manager \in RoleHolders :
             InitializeProtocol(signer, rate, authority, manager)
        \/ \E rate \in FeeRates, authority \in RoleHolders :
             SetFeeConfig(signer, rate, authority)
        \/ \E new \in RoleHolders :
             SetAdmin(signer, new) \/ SetWhitelistManager(signer, new)
        \/ \E value \in PauseValues : SetPause(signer, value)
        \/ \E value \in ModeValues : SetBlacklistMode(signer, value)

\* A step is one of these.
LEMMA ProtocolStepCases ==
    ASSUME [Next]_vars
    PROVE  \/ ByAdministration
           \/ EnvironmentStep
           \/ \E signer \in Signers, b \in Borrowers, status \in StatusBytes,
                 capacity \in Capacities :
                SetBorrowerWhitelist(signer, b, status, capacity)
           \/ \E b \in Borrowers, nonce \in Nonces, rate \in AnnualRates,
                 maturity \in Maturities, supply \in Supplies :
                CreateMarket(b, nonce, rate, maturity, supply)
           \/ \E b \in Borrowers, nonce \in Nonces, amount \in Amounts :
                \/ Borrow(b, nonce, amount)
                \/ Repay(b, nonce, amount)
                \/ RepayInterest(b, nonce, amount)
           \/ UNCHANGED vars
  BY DEF Next, AdminStep, LoanStep, ByAdministration

-----------------------------------------------------------------------------
(* The configuration.                                                      *)

\* Every hand-over and every switch keeps the roles held.
LEMMA AdministrationStep ==
    ASSUME ConfigTypeOK, RolesAreHeld, ByAdministration
    PROVE  ConfigTypeOK' /\ RolesAreHeld' /\ UNCHANGED <<outside, entryVars, loanVars>>
<1> USE DEF ConfigTypeOK, RolesAreHeld, Signers
<1>1. ASSUME NEW signer \in Signers, NEW rate \in FeeRates,
             NEW authority \in RoleHolders, NEW manager \in RoleHolders,
             InitializeProtocol(signer, rate, authority, manager)
      PROVE  ConfigTypeOK' /\ RolesAreHeld' /\ UNCHANGED <<outside, entryVars, loanVars>>
  BY <1>1, ProtocolConstants DEF InitializeProtocol, switchVars
<1>2. ASSUME NEW signer \in Signers, NEW rate \in FeeRates, NEW authority \in RoleHolders,
             SetFeeConfig(signer, rate, authority)
      PROVE  ConfigTypeOK' /\ RolesAreHeld' /\ UNCHANGED <<outside, entryVars, loanVars>>
  BY <1>2, ProtocolConstants DEF SetFeeConfig, switchVars
<1>3. ASSUME NEW signer \in Signers, NEW new \in RoleHolders,
             SetAdmin(signer, new) \/ SetWhitelistManager(signer, new)
      PROVE  ConfigTypeOK' /\ RolesAreHeld' /\ UNCHANGED <<outside, entryVars, loanVars>>
  BY <1>3, ProtocolConstants DEF SetAdmin, SetWhitelistManager, switchVars
<1>4. ASSUME NEW signer \in Signers, NEW value \in BOOLEAN,
             SetPause(signer, value) \/ SetBlacklistMode(signer, value)
      PROVE  ConfigTypeOK' /\ RolesAreHeld' /\ UNCHANGED <<outside, entryVars, loanVars>>
  BY <1>4 DEF SetPause, SetBlacklistMode, roleVars
<1>5. QED
  BY <1>1, <1>2, <1>3, <1>4, ProtocolConstants DEF ByAdministration

\* The loader, the blacklist program and the clock touch nothing of the protocol.
LEMMA EnvironmentTouchesNothing ==
    ASSUME OutsideTypeOK, EnvironmentStep
    PROVE  OutsideTypeOK' /\ UNCHANGED <<roleVars, switchVars, entryVars, loanVars>>
<1> USE DEF OutsideTypeOK
<1>1. ASSUME NEW authority \in Deployers, SetUpgradeAuthority(authority)
      PROVE  OutsideTypeOK' /\ UNCHANGED <<roleVars, switchVars, entryVars, loanVars>>
  BY <1>1, ProtocolConstants DEF SetUpgradeAuthority
<1>2. ASSUME NEW b \in Borrowers, NEW kind \in AccountStates, SetBlacklistAccount(b, kind)
      PROVE  OutsideTypeOK' /\ UNCHANGED <<roleVars, switchVars, entryVars, loanVars>>
  BY <1>2, ProtocolConstants DEF SetBlacklistAccount
<1>3. ASSUME NEW time \in Times, Tick(time)
      PROVE  OutsideTypeOK' /\ UNCHANGED <<roleVars, switchVars, entryVars, loanVars>>
  BY <1>3, ProtocolConstants DEF Tick
<1>4. QED
  BY <1>1, <1>2, <1>3 DEF EnvironmentStep

\* Neither the whitelist manager nor a borrower touches the configuration.
LEMMA OthersKeepConfiguration ==
    ASSUME \/ \E signer \in Signers, b \in Borrowers, status \in StatusBytes,
                 capacity \in Capacities :
                SetBorrowerWhitelist(signer, b, status, capacity)
           \/ \E b \in Borrowers, nonce \in Nonces, rate \in AnnualRates,
                 maturity \in Maturities, supply \in Supplies :
                CreateMarket(b, nonce, rate, maturity, supply)
           \/ \E b \in Borrowers, nonce \in Nonces, amount \in Amounts :
                \/ Borrow(b, nonce, amount)
                \/ Repay(b, nonce, amount)
                \/ RepayInterest(b, nonce, amount)
           \/ UNCHANGED vars
    PROVE  UNCHANGED <<outside, roleVars, switchVars>>
<1>1. ASSUME NEW signer \in Signers, NEW b \in Borrowers, NEW status \in StatusBytes,
             NEW capacity \in Capacities,
             SetBorrowerWhitelist(signer, b, status, capacity)
      PROVE  UNCHANGED <<outside, roleVars, switchVars>>
  BY <1>1 DEF SetBorrowerWhitelist
<1>2. ASSUME NEW b \in Borrowers, NEW nonce \in Nonces, NEW rate \in AnnualRates,
             NEW maturity \in Maturities, NEW supply \in Supplies,
             CreateMarket(b, nonce, rate, maturity, supply)
      PROVE  UNCHANGED <<outside, roleVars, switchVars>>
  BY <1>2 DEF CreateMarket
<1>3. ASSUME NEW b \in Borrowers, NEW nonce \in Nonces, NEW amount \in Amounts,
             \/ Borrow(b, nonce, amount)
             \/ Repay(b, nonce, amount)
             \/ RepayInterest(b, nonce, amount)
      PROVE  UNCHANGED <<outside, roleVars, switchVars>>
  <2>1. CASE Borrow(b, nonce, amount)
    BY <2>1 DEF Borrow
  <2>2. ASSUME NEW key, CountPayment(key, amount)
        PROVE  UNCHANGED <<outside, roleVars, switchVars>>
    BY <2>2 DEF CountPayment
  <2>3. CASE Repay(b, nonce, amount)
    BY <2>2, <2>3 DEF Repay
  <2>4. CASE RepayInterest(b, nonce, amount)
    BY <2>2, <2>4 DEF RepayInterest
  <2>5. QED
    BY <1>3, <2>1, <2>3, <2>4
<1>4. CASE UNCHANGED vars
  BY <1>4 DEF vars
<1>5. QED
  BY <1>1, <1>2, <1>3, <1>4

ConfigInv == OutsideTypeOK /\ ConfigTypeOK /\ RolesAreHeld

\* Every hand-over leaves a role with an address that can sign.
LEMMA ConfigStep == ConfigInv /\ [Next]_vars => ConfigInv'
<1> SUFFICES ASSUME ConfigInv, [Next]_vars PROVE ConfigInv'
  OBVIOUS
<1> USE DEF ConfigInv
<1>1. CASE ByAdministration
  BY <1>1, AdministrationStep DEF OutsideTypeOK, outside
<1>2. CASE EnvironmentStep
  BY <1>2, EnvironmentTouchesNothing DEF ConfigTypeOK, RolesAreHeld, roleVars, switchVars
<1>3. CASE UNCHANGED <<outside, roleVars, switchVars>>
  BY <1>3 DEF OutsideTypeOK, ConfigTypeOK, RolesAreHeld, outside, roleVars, switchVars
<1>4. QED
  BY <1>1, <1>2, <1>3, ProtocolStepCases, OthersKeepConfiguration

\* The protocol starts without roles.
LEMMA ConfigInit == Init => ConfigInv
<1> SUFFICES ASSUME Init PROVE ConfigInv
  OBVIOUS
<1>1. OutsideTypeOK
  <2>1. blacklist \in [Signers -> AccountKinds]
    BY DEF Init, AccountKinds
  <2>2. QED
    BY <2>1, ProtocolConstants DEF Init, OutsideTypeOK
<1>2. ConfigTypeOK /\ RolesAreHeld
  <2>1. ZERO_ADDRESS \in Addresses /\ 0 \in 0 .. MAX_FEE_RATE_BPS
    BY ProtocolConstants
  <2>2. is_initialized = FALSE /\ paused = FALSE /\ fail_closed = FALSE
    BY DEF Init
  <2>3. QED
    BY <2>1, <2>2 DEF Init, ConfigTypeOK, RolesAreHeld
<1>3. QED
  BY <1>1, <1>2 DEF ConfigInv

\* Whatever hand-overs are signed, in whatever order, no role of an initialised
\* protocol ends with the zero address.
THEOREM RolesStayHeld == Spec => []RolesAreHeld
<1>1. ConfigInv => RolesAreHeld
  BY DEF ConfigInv
<1>2. QED
  BY <1>1, ConfigInit, ConfigStep, PTL DEF Spec

-----------------------------------------------------------------------------
(* The loans.                                                              *)

\* A borrower and a nonce name a market.
LEMMA KeysOfPairs ==
    ASSUME NEW b \in Borrowers, NEW nonce \in Nonces
    PROVE  <<b, nonce>> \in MarketKeys
  BY DEF MarketKeys

\* The debt of a market is an integer.
LEMMA DebtInt ==
    ASSUME LoanTypeOK, NEW k \in MarketKeys
    PROVE  /\ Debt(k) \in Int
           /\ total_borrowed[k] \in Nat /\ total_repaid[k] \in Nat
           /\ total_interest_repaid[k] \in Nat
<1>1. /\ total_borrowed[k] \in Nat /\ total_repaid[k] \in Nat
      /\ total_interest_repaid[k] \in Nat
  BY ProtocolConstants DEF LoanTypeOK
<1>2. QED
  BY <1>1 DEF Debt, PrincipalRepaid

\* The debts of a borrower are natural numbers.
LEMMA DebtsOfType ==
    ASSUME LoanTypeOK, DebtsAddUp, NEW b \in Borrowers
    PROVE  DebtsOf(b) \in [Nonces -> Nat]
<1>1. ASSUME NEW nonce \in Nonces PROVE Debt(<<b, nonce>>) \in Nat
  <2>1. Debt(<<b, nonce>>) \in Int
    BY KeysOfPairs, DebtInt
  <2>2. Debt(<<b, nonce>>) >= 0
    BY DEF DebtsAddUp
  <2>3. QED
    BY <2>1, <2>2
<1>2. QED
  BY <1>1 DEF DebtsOf

\* TotalOfUpdate and EntryAtMostTotal for the markets of one borrower.
LEMMA NoncesTotal ==
    ASSUME NEW f \in [Nonces -> Nat], NEW nonce \in Nonces, NEW v \in Nat
    PROVE  /\ Total(f) \in Nat /\ f[nonce] <= Total(f)
           /\ Total([f EXCEPT ![nonce] = v]) = Total(f) - f[nonce] + v
<1>1. IsFiniteSet(Nonces)
  BY ProtocolConstants
<1>2. Total(f) \in Nat /\ f[nonce] <= Total(f)
  BY <1>1, EntryAtMostTotal
<1>3. Total([f EXCEPT ![nonce] = v]) = Total(f) - f[nonce] + v
  BY <1>1, TotalOfUpdate
<1>4. QED
  BY <1>2, <1>3

\* A debt and the counter of its borrower move together.
LEMMA DebtsMove ==
    ASSUME LoanTypeOK, DebtsAddUp, NEW b \in Borrowers, NEW nonce \in Nonces,
           NEW delta \in Int, Debt(<<b, nonce>>) + delta >= 0,
           \A k \in MarketKeys :
             Debt(k)' = IF k = <<b, nonce>> THEN Debt(k) + delta ELSE Debt(k),
           current_borrowed' = [current_borrowed EXCEPT ![b] = @ + delta]
    PROVE  DebtsAddUp'
<1> DEFINE key == <<b, nonce>>
<1>1. DebtsOf(b) \in [Nonces -> Nat] /\ DebtsOf(b)[nonce] = Debt(key)
  BY DebtsOfType DEF DebtsOf
<1>2. Debt(key) \in Int /\ Debt(key) + delta \in Nat
  <2>1. Debt(key) \in Int
    BY KeysOfPairs, DebtInt
  <2>2. QED
    BY <2>1
<1>3. DebtsOf(b)' = [DebtsOf(b) EXCEPT ![nonce] = Debt(key) + delta]
  <2>1. \A n \in Nonces :
          Debt(<<b, n>>)' = IF n = nonce THEN Debt(key) + delta ELSE Debt(<<b, n>>)
    BY KeysOfPairs
  <2>2. QED
    BY <2>1 DEF DebtsOf
<1>4. Total(DebtsOf(b))' = Total(DebtsOf(b)) + delta
  <2>1. Total([DebtsOf(b) EXCEPT ![nonce] = Debt(key) + delta])
          = Total(DebtsOf(b)) - Debt(key) + (Debt(key) + delta)
    BY <1>1, <1>2, NoncesTotal
  <2>2. Total(DebtsOf(b)) \in Nat
    BY <1>1, <1>2, NoncesTotal
  <2>3. QED
    BY <1>2, <1>3, <2>1, <2>2
<1>5. ASSUME NEW c \in Borrowers
      PROVE  /\ \A n \in Nonces : (Debt(<<c, n>>) >= 0)'
             /\ (current_borrowed[c] = Total(DebtsOf(c)))'
  <2>1. CASE c = b
    <3>1. current_borrowed'[b] = Total(DebtsOf(b)) + delta
      BY DEF DebtsAddUp, LoanTypeOK
    <3>2. ASSUME NEW n \in Nonces PROVE (Debt(<<b, n>>) >= 0)'
      BY <1>2, KeysOfPairs DEF DebtsAddUp
    <3>3. QED
      BY <1>4, <2>1, <3>1, <3>2
  <2>2. CASE c # b
    <3>1. \A n \in Nonces : Debt(<<c, n>>)' = Debt(<<c, n>>)
      BY <2>2, KeysOfPairs
    <3>2. DebtsOf(c)' = DebtsOf(c)
      BY <3>1 DEF DebtsOf
    <3>3. current_borrowed'[c] = current_borrowed[c]
      BY <2>2 DEF LoanTypeOK
    <3>4. QED
      BY <3>1, <3>2, <3>3 DEF DebtsAddUp
  <2>3. QED
    BY <2>1, <2>2
<1>6. QED
  BY <1>5 DEF DebtsAddUp

LoanInv ==
    /\ now \in Nat
    /\ EntryTypeOK /\ LoanTypeOK /\ TermsAreBounded
    /\ InterestWithinRepaid /\ UnopenedOweNothing /\ DebtsAddUp

\* Interest runs to a moment of the market's life, never back.
LEMMA AccrueStep ==
    ASSUME LoanInv, NEW key \in MarketKeys, Exists(key), Accrue(key), UNCHANGED terms
    PROVE  /\ last_accrual_timestamp' \in [MarketKeys -> Nat]
           /\ TermsAreBounded'
<1>1. /\ terms[key] \in Terms /\ now \in Nat
      /\ last_accrual_timestamp \in [MarketKeys -> Nat]
  BY DEF LoanInv, LoanTypeOK, Exists
<1>2. terms[key].maturity_timestamp \in Nat
  BY <1>1 DEF Terms
<1>3. /\ EffectiveNow(key) \in Nat
      /\ EffectiveNow(key) <= terms[key].maturity_timestamp
  BY <1>1, <1>2 DEF EffectiveNow
<1>4. /\ last_accrual_timestamp' =
           [last_accrual_timestamp EXCEPT ![key] = EffectiveNow(key)]
      /\ EffectiveNow(key) >= last_accrual_timestamp[key]
  BY DEF Accrue
<1>5. last_accrual_timestamp' \in [MarketKeys -> Nat]
  BY <1>1, <1>3, <1>4
<1>6. ASSUME NEW k \in MarketKeys, Exists(k)'
      PROVE  RunsWithin(terms[k], last_accrual_timestamp'[k])
  <2>1. RunsWithin(terms[k], last_accrual_timestamp[k])
    BY <1>6 DEF LoanInv, TermsAreBounded, Exists
  <2>2. CASE k = key
    <3>1. last_accrual_timestamp'[k] = EffectiveNow(key) /\ last_accrual_timestamp[k] \in Nat
      BY <1>1, <1>4, <2>2
    <3>2. terms[key].opened_at \in Nat
      BY <1>1 DEF Terms
    <3>3. QED
      BY <1>3, <1>4, <2>1, <2>2, <3>1, <3>2 DEF RunsWithin
  <2>3. CASE k # key
    BY <1>1, <1>4, <2>1, <2>3
  <2>4. QED
    BY <2>2, <2>3
<1>7. QED
  BY <1>5, <1>6 DEF TermsAreBounded

\* A new market owes nothing, so no sum moves; its term starts now.
LEMMA CreateMarketStep ==
    ASSUME LoanInv, NEW b \in Borrowers, NEW nonce \in Nonces, NEW rate \in Nat,
           NEW maturity \in Nat, NEW supply \in Nat,
           CreateMarket(b, nonce, rate, maturity, supply)
    PROVE  LoanInv' /\ \A k \in MarketKeys : Debt(k)' = Debt(k)
<1> DEFINE key == <<b, nonce>>
<1>1. /\ key \in MarketKeys /\ now \in Nat /\ ~Exists(key)
      /\ MaturityInRange(maturity)
      /\ terms' = [terms EXCEPT ![key] =
           [annual_interest_bps |-> rate, maturity_timestamp |-> maturity,
            max_total_supply |-> supply, opened_at |-> now]]
      /\ last_accrual_timestamp' = [last_accrual_timestamp EXCEPT ![key] = now]
      /\ total_borrowed' = [total_borrowed EXCEPT ![key] = 0]
      /\ total_repaid' = [total_repaid EXCEPT ![key] = 0]
      /\ total_interest_repaid' = [total_interest_repaid EXCEPT ![key] = 0]
      /\ UNCHANGED <<outside, entryVars, current_borrowed>>
  BY KeysOfPairs DEF CreateMarket, LoanInv, Unused
<1>2. EntryTypeOK' /\ now' = now
  BY <1>1 DEF LoanInv, EntryTypeOK, entryVars, outside
<1>3. LoanTypeOK'
  <2>1. terms' \in [MarketKeys -> Terms \cup {NoTerms}]
    BY <1>1 DEF LoanInv, LoanTypeOK, Terms
  <2>2. QED
    BY <1>1, <2>1, ProtocolConstants DEF LoanInv, LoanTypeOK
<1>4. TermsAreBounded'
  <2>1. ASSUME NEW k \in MarketKeys, Exists(k)'
        PROVE  RunsWithin(terms'[k], last_accrual_timestamp'[k])
    <3>1. CASE k = key
      <4>1. /\ last_accrual_timestamp'[k] = now
            /\ terms'[k].maturity_timestamp = maturity /\ terms'[k].opened_at = now
        BY <1>1, <3>1 DEF LoanInv, LoanTypeOK
      <4>2. QED
        BY <1>1, <4>1, ProtocolConstants DEF MaturityInRange, RunsWithin
    <3>2. CASE k # key
      <4>1. terms'[k] = terms[k] /\ last_accrual_timestamp'[k] = last_accrual_timestamp[k]
        BY <1>1, <3>2 DEF LoanInv, LoanTypeOK
      <4>2. QED
        BY <2>1, <4>1 DEF LoanInv, TermsAreBounded, Exists
    <3>3. QED
      BY <3>1, <3>2
  <2>2. QED
    BY <2>1 DEF TermsAreBounded
<1>5. \A k \in MarketKeys : Debt(k)' = Debt(k)
  <2>1. Debt(key) = 0
    BY <1>1 DEF LoanInv, UnopenedOweNothing
  <2>2. Debt(key)' = 0
    BY <1>1 DEF LoanInv, LoanTypeOK, Debt, PrincipalRepaid
  <2>3. ASSUME NEW k \in MarketKeys, k # key PROVE Debt(k)' = Debt(k)
    BY <1>1, <2>3 DEF LoanInv, LoanTypeOK, Debt, PrincipalRepaid
  <2>4. QED
    BY <2>1, <2>2, <2>3
<1>6. InterestWithinRepaid'
  BY <1>1 DEF LoanInv, LoanTypeOK, InterestWithinRepaid
<1>7. UnopenedOweNothing'
  <2>1. ASSUME NEW k \in MarketKeys, ~Exists(k)' PROVE Debt(k)' = 0
    <3>1. ~Exists(k)
      BY <1>1, <2>1 DEF LoanInv, LoanTypeOK, Exists
    <3>2. QED
      BY <1>5, <3>1 DEF LoanInv, UnopenedOweNothing
  <2>2. QED
    BY <2>1 DEF UnopenedOweNothing
<1>8. DebtsAddUp'
  BY <1>1, <1>5, KeysOfPairs DEF LoanInv, DebtsAddUp, DebtsOf
<1>9. QED
  BY <1>1, <1>2, <1>3, <1>4, <1>5, <1>6, <1>7, <1>8 DEF LoanInv

\* A draw moves the debt of one market and the counter of its borrower.
LEMMA BorrowStep ==
    ASSUME LoanInv, NEW b \in Borrowers, NEW nonce \in Nonces, NEW amount \in Amounts,
           Borrow(b, nonce, amount)
    PROVE  /\ LoanInv'
           /\ \A k \in MarketKeys :
                Debt(k)' = IF k = <<b, nonce>> THEN Debt(k) + amount ELSE Debt(k)
<1> DEFINE key == <<b, nonce>>
<1>1. /\ key \in MarketKeys /\ Exists(key) /\ Accrue(key) /\ amount \in Nat
      /\ FitsCapacity(b, nonce, amount)
      /\ total_borrowed[key] + amount <= U64Max
      /\ total_borrowed' = [total_borrowed EXCEPT ![key] = @ + amount]
      /\ current_borrowed' = [current_borrowed EXCEPT ![b] = @ + amount]
      /\ UNCHANGED <<outside, entryVars, terms, total_repaid, total_interest_repaid>>
  BY KeysOfPairs, ProtocolConstants DEF Borrow
<1>2. EntryTypeOK' /\ now' \in Nat
  BY <1>1 DEF LoanInv, EntryTypeOK, entryVars, outside
<1>3. last_accrual_timestamp' \in [MarketKeys -> Nat] /\ TermsAreBounded'
  BY <1>1, AccrueStep
<1>4. LoanTypeOK'
  <2>1. total_borrowed[key] + amount \in 0 .. U64Max
    BY <1>1, DebtInt DEF LoanInv
  <2>2. current_borrowed[b] + amount \in Nat
    BY <1>1 DEF LoanInv, LoanTypeOK
  <2>3. QED
    BY <1>1, <1>3, <2>1, <2>2 DEF LoanInv, LoanTypeOK
<1>5. \A k \in MarketKeys :
        Debt(k)' = IF k = key THEN Debt(k) + amount ELSE Debt(k)
  <2>1. ASSUME NEW k \in MarketKeys
        PROVE  Debt(k)' = IF k = key THEN Debt(k) + amount ELSE Debt(k)
    <3>1. total_borrowed'[k] = IF k = key THEN total_borrowed[k] + amount
                                          ELSE total_borrowed[k]
      BY <1>1 DEF LoanInv, LoanTypeOK
    <3>2. QED
      BY <1>1, <3>1, DebtInt DEF LoanInv, Debt, PrincipalRepaid
  <2>2. QED
    BY <2>1
<1>6. InterestWithinRepaid'
  BY <1>1 DEF LoanInv, InterestWithinRepaid
<1>7. UnopenedOweNothing'
  BY <1>1, <1>5 DEF LoanInv, UnopenedOweNothing, Exists
<1>8. DebtsAddUp'
  <2>1. Debt(key) + amount >= 0
    BY <1>1, DebtInt DEF LoanInv, DebtsAddUp
  <2>2. amount \in Int
    BY <1>1
  <2>3. QED
    BY <1>1, <1>5, <2>1, <2>2, DebtsMove DEF LoanInv
<1>9. QED
  BY <1>1, <1>2, <1>3, <1>4, <1>5, <1>6, <1>7, <1>8 DEF LoanInv

\* What both kinds of payment do.
LEMMA CountPaymentStep ==
    ASSUME LoanInv, NEW key \in MarketKeys, NEW amount \in Amounts,
           CountPayment(key, amount)
    PROVE  /\ EntryTypeOK' /\ now' \in Nat /\ TermsAreBounded' /\ Exists(key)
           /\ terms' = terms /\ amount \in Nat /\ UNCHANGED entryVars
           /\ total_repaid' = [total_repaid EXCEPT ![key] = @ + amount]
           /\ total_borrowed' = total_borrowed
           /\ total_repaid' \in [MarketKeys -> 0 .. U64Max]
           /\ last_accrual_timestamp' \in [MarketKeys -> Nat]
<1>1. /\ Exists(key) /\ Accrue(key) /\ amount \in Nat
      /\ total_repaid[key] + amount <= U64Max
      /\ total_repaid' = [total_repaid EXCEPT ![key] = @ + amount]
      /\ UNCHANGED <<outside, entryVars, terms, total_borrowed>>
  BY ProtocolConstants DEF CountPayment
<1>2. EntryTypeOK' /\ now' \in Nat
  BY <1>1 DEF LoanInv, EntryTypeOK, entryVars, outside
<1>3. last_accrual_timestamp' \in [MarketKeys -> Nat] /\ TermsAreBounded'
  BY <1>1, AccrueStep
<1>4. total_repaid[key] + amount \in 0 .. U64Max
  BY <1>1, DebtInt DEF LoanInv
<1>5. QED
  BY <1>1, <1>2, <1>3, <1>4 DEF LoanInv, LoanTypeOK

\* A repayment of principal moves the debt and the counter back.
LEMMA RepayStep ==
    ASSUME LoanInv, NEW b \in Borrowers, NEW nonce \in Nonces, NEW amount \in Amounts,
           Repay(b, nonce, amount)
    PROVE  /\ LoanInv'
           /\ \A k \in MarketKeys :
                Debt(k)' = IF k = <<b, nonce>> THEN Debt(k) + (-amount) ELSE Debt(k)
<1> DEFINE key == <<b, nonce>>
<1>1. /\ key \in MarketKeys /\ CountPayment(key, amount)
      /\ amount <= Debt(key) /\ amount <= current_borrowed[b]
      /\ current_borrowed' = [current_borrowed EXCEPT ![b] = @ - amount]
      /\ UNCHANGED total_interest_repaid
  BY KeysOfPairs DEF Repay
<1>2. /\ EntryTypeOK' /\ now' \in Nat /\ TermsAreBounded' /\ Exists(key)
      /\ terms' = terms /\ amount \in Nat
      /\ total_repaid' = [total_repaid EXCEPT ![key] = @ + amount]
      /\ total_borrowed' = total_borrowed
      /\ total_repaid' \in [MarketKeys -> 0 .. U64Max]
      /\ last_accrual_timestamp' \in [MarketKeys -> Nat]
  BY <1>1, CountPaymentStep
<1>3. LoanTypeOK'
  <2>1. current_borrowed[b] - amount \in Nat
    BY <1>1, <1>2 DEF LoanInv, LoanTypeOK
  <2>2. QED
    BY <1>1, <1>2, <2>1 DEF LoanInv, LoanTypeOK
<1>4. \A k \in MarketKeys :
        /\ total_repaid'[k] = IF k = key THEN total_repaid[k] + amount ELSE total_repaid[k]
        /\ Debt(k)' = IF k = key THEN Debt(k) + (-amount) ELSE Debt(k)
  <2>1. ASSUME NEW k \in MarketKeys
        PROVE  /\ total_repaid'[k] = IF k = key THEN total_repaid[k] + amount
                                                ELSE total_repaid[k]
               /\ Debt(k)' = IF k = key THEN Debt(k) + (-amount) ELSE Debt(k)
    <3>1. total_repaid'[k] = IF k = key THEN total_repaid[k] + amount ELSE total_repaid[k]
      BY <1>2 DEF LoanInv, LoanTypeOK
    <3>2. QED
      BY <1>1, <1>2, <3>1, DebtInt DEF LoanInv, Debt, PrincipalRepaid
  <2>2. QED
    BY <2>1
<1>5. InterestWithinRepaid'
  BY <1>1, <1>2, <1>4, DebtInt DEF LoanInv, InterestWithinRepaid
<1>6. UnopenedOweNothing'
  BY <1>2, <1>4 DEF LoanInv, UnopenedOweNothing, Exists
<1>7. DebtsAddUp'
  <2>1. -amount \in Int /\ Debt(key) + (-amount) >= 0
    BY <1>1, <1>2, DebtInt DEF LoanInv
  <2>2. current_borrowed' = [current_borrowed EXCEPT ![b] = @ + (-amount)]
    BY <1>1, <1>2 DEF LoanInv, LoanTypeOK
  <2>3. QED
    BY <1>4, <2>1, <2>2, DebtsMove DEF LoanInv
<1>8. QED
  BY <1>2, <1>3, <1>4, <1>5, <1>6, <1>7 DEF LoanInv

\* A payment of interest moves no debt.
LEMMA RepayInterestStep ==
    ASSUME LoanInv, NEW b \in Borrowers, NEW nonce \in Nonces, NEW amount \in Amounts,
           RepayInterest(b, nonce, amount)
    PROVE  LoanInv' /\ \A k \in MarketKeys : Debt(k)' = Debt(k)
<1> DEFINE key == <<b, nonce>>
<1>1. /\ key \in MarketKeys /\ CountPayment(key, amount)
      /\ total_interest_repaid' = [total_interest_repaid EXCEPT ![key] = @ + amount]
      /\ UNCHANGED current_borrowed
  BY KeysOfPairs DEF RepayInterest
<1>2. /\ EntryTypeOK' /\ now' \in Nat /\ TermsAreBounded' /\ Exists(key)
      /\ terms' = terms /\ amount \in Nat
      /\ total_repaid' = [total_repaid EXCEPT ![key] = @ + amount]
      /\ total_borrowed' = total_borrowed
      /\ total_repaid' \in [MarketKeys -> 0 .. U64Max]
      /\ last_accrual_timestamp' \in [MarketKeys -> Nat]
  BY <1>1, CountPaymentStep
<1>3. ASSUME NEW k \in MarketKeys
      PROVE  /\ total_repaid'[k] = IF k = key THEN total_repaid[k] + amount
                                              ELSE total_repaid[k]
             /\ total_interest_repaid'[k] = IF k = key
                  THEN total_interest_repaid[k] + amount ELSE total_interest_repaid[k]
  BY <1>1, <1>2 DEF LoanInv, LoanTypeOK
<1>4. \A k \in MarketKeys : Debt(k)' = Debt(k)
  <2>1. ASSUME NEW k \in MarketKeys PROVE Debt(k)' = Debt(k)
    BY <1>2, <1>3, DebtInt DEF LoanInv, Debt, PrincipalRepaid
  <2>2. QED
    BY <2>1
<1>5. InterestWithinRepaid'
  <2>1. ASSUME NEW k \in MarketKeys PROVE total_interest_repaid'[k] <= total_repaid'[k]
    <3>1. total_interest_repaid[k] <= total_repaid[k]
      BY DEF LoanInv, InterestWithinRepaid
    <3>2. QED
      BY <1>2, <1>3, <3>1, DebtInt DEF LoanInv
  <2>2. QED
    BY <2>1 DEF InterestWithinRepaid
<1>6. LoanTypeOK'
  <2>1. total_interest_repaid[key] + amount \in 0 .. U64Max
    <3>1. total_interest_repaid'[key] = total_interest_repaid[key] + amount
      BY <1>1, <1>3
    <3>2. total_interest_repaid'[key] <= total_repaid'[key]
      BY <1>1, <1>5 DEF InterestWithinRepaid
    <3>3. total_interest_repaid[key] + amount \in Nat
      BY <1>1, <1>2, DebtInt DEF LoanInv
    <3>4. total_repaid'[key] \in 0 .. U64Max
      BY <1>1, <1>2
    <3>5. QED
      BY <3>1, <3>2, <3>3, <3>4, ProtocolConstants
  <2>2. QED
    BY <1>1, <1>2, <2>1 DEF LoanInv, LoanTypeOK
<1>7. UnopenedOweNothing' /\ DebtsAddUp'
  BY <1>1, <1>2, <1>4, KeysOfPairs
  DEF LoanInv, UnopenedOweNothing, Exists, DebtsAddUp, DebtsOf
<1>8. QED
  BY <1>2, <1>4, <1>5, <1>6, <1>7 DEF LoanInv

\* The manager stores what it likes, except 0 for a borrower in debt.
LEMMA SetBorrowerWhitelistStep ==
    ASSUME LoanInv, NEW signer, NEW b \in Borrowers, NEW status \in StatusBytes,
           NEW capacity \in Capacities, SetBorrowerWhitelist(signer, b, status, capacity)
    PROVE  LoanInv'
<1>1. EntryTypeOK'
  BY ProtocolConstants DEF SetBorrowerWhitelist, LoanInv, EntryTypeOK
<1>2. UNCHANGED <<outside, loanVars>>
  BY DEF SetBorrowerWhitelist
<1>3. QED
  BY <1>1, <1>2 DEF LoanInv, outside, loanVars, countVars, LoanTypeOK, TermsAreBounded,
     InterestWithinRepaid, UnopenedOweNothing, DebtsAddUp, Debt, PrincipalRepaid, DebtsOf,
     Exists

\* Nobody else moves a loan.
LEMMA LoansUntouched ==
    ASSUME LoanInv, UNCHANGED <<entryVars, loanVars>>, now' \in Nat
    PROVE  LoanInv'
  BY DEF LoanInv, entryVars, loanVars, countVars, EntryTypeOK, LoanTypeOK, TermsAreBounded,
     InterestWithinRepaid, UnopenedOweNothing, DebtsAddUp, Debt, PrincipalRepaid, DebtsOf,
     Exists

-----------------------------------------------------------------------------
(* The invariant, and what follows from it.                                *)

ProtocolInv == ConfigInv /\ LoanInv

\* The invariant holds before the protocol is initialised.
LEMMA ProtocolInit == Init => ProtocolInv
<1> SUFFICES ASSUME Init PROVE LoanInv
  BY ConfigInit DEF ProtocolInv
<1>1. EntryTypeOK /\ now \in Nat
  BY DEF Init, EntryTypeOK
<1>2. LoanTypeOK
  BY ProtocolConstants DEF Init, LoanTypeOK
<1>3. \A k \in MarketKeys : ~Exists(k) /\ Debt(k) = 0
  BY DEF Init, Exists, Debt, PrincipalRepaid
<1>4. TermsAreBounded /\ UnopenedOweNothing
  BY <1>3 DEF TermsAreBounded, UnopenedOweNothing
<1>5. InterestWithinRepaid
  BY DEF Init, InterestWithinRepaid
<1>6. DebtsAddUp
  <2>1. ASSUME NEW b \in Borrowers
        PROVE  /\ \A nonce \in Nonces : Debt(<<b, nonce>>) >= 0
               /\ current_borrowed[b] = Total(DebtsOf(b))
    <3>1. \A nonce \in Nonces : Debt(<<b, nonce>>) = 0
      BY <1>3, KeysOfPairs
    <3>2. DebtsOf(b) = [nonce \in Nonces |-> 0]
      BY <3>1 DEF DebtsOf
    <3>3. Total([nonce \in Nonces |-> 0]) = 0
      BY TotalOfZeros
    <3>4. QED
      BY <3>1, <3>2, <3>3 DEF Init
  <2>2. QED
    BY <2>1 DEF DebtsAddUp
<1>7. QED
  BY <1>1, <1>2, <1>4, <1>5, <1>6 DEF LoanInv

\* Every instruction keeps the invariant.
LEMMA ProtocolStep == ProtocolInv /\ [Next]_vars => ProtocolInv'
<1> SUFFICES ASSUME ProtocolInv, [Next]_vars PROVE LoanInv'
  BY ConfigStep DEF ProtocolInv
<1>1. CASE ByAdministration \/ UNCHANGED vars
  BY <1>1, AdministrationStep, LoansUntouched
  DEF ProtocolInv, ConfigInv, LoanInv, outside, vars
<1>2. CASE EnvironmentStep
  BY <1>2, EnvironmentTouchesNothing, LoansUntouched
  DEF ProtocolInv, ConfigInv, OutsideTypeOK
<1>3. CASE \E signer \in Signers, b \in Borrowers, status \in StatusBytes,
                capacity \in Capacities :
             SetBorrowerWhitelist(signer, b, status, capacity)
  BY <1>3, SetBorrowerWhitelistStep DEF ProtocolInv
<1>4. CASE \E b \in Borrowers, nonce \in Nonces, rate \in AnnualRates,
                maturity \in Maturities, supply \in Supplies :
             CreateMarket(b, nonce, rate, maturity, supply)
  BY <1>4, CreateMarketStep, ProtocolConstants DEF ProtocolInv
<1>5. CASE \E b \in Borrowers, nonce \in Nonces, amount \in Amounts :
             \/ Borrow(b, nonce, amount)
             \/ Repay(b, nonce, amount)
             \/ RepayInterest(b, nonce, amount)
  BY <1>5, BorrowStep, RepayStep, RepayInterestStep DEF ProtocolInv
<1>6. QED
  BY <1>1, <1>2, <1>3, <1>4, <1>5, ProtocolStepCases

\* The invariant holds in every reachable state.
LEMMA ProtocolInvariant == Spec => []ProtocolInv
  BY ProtocolInit, ProtocolStep, PTL DEF Spec

\* Every account of the protocol stays in the range of its type: no counter of a
\* market passes its width, none goes below zero.
THEOREM ProtocolTypeCorrect == Spec => []ProtocolTypeOK
<1>1. ProtocolInv => ProtocolTypeOK
  BY DEF ProtocolInv, ConfigInv, LoanInv, ProtocolTypeOK
<1>2. QED
  BY <1>1, ProtocolInvariant, PTL

\* One counter serves all markets of a borrower, and it is the sum of what is
\* owed in each, for any number of markets drawn and repaid in any order.
THEOREM DebtsAlwaysAddUp == Spec => []DebtsAddUp
<1>1. ProtocolInv => DebtsAddUp
  BY DEF ProtocolInv, LoanInv
<1>2. QED
  BY <1>1, ProtocolInvariant, PTL

\* The interest of a market has at most the longest term left to run, whatever
\* the clock does between creation and maturity.
THEOREM TermsStayBounded == Spec => []TermsAreBounded
<1>1. ProtocolInv => TermsAreBounded
  BY DEF ProtocolInv, LoanInv
<1>2. QED
  BY <1>1, ProtocolInvariant, PTL

-----------------------------------------------------------------------------
(* What a step may never do.                                               *)

\* Steps of the admin, the manager and the environment leave every market alone.
LEMMA LoansKept ==
    ASSUME ProtocolInv, [Next]_vars,
           ~\E b \in Borrowers, nonce \in Nonces, rate \in AnnualRates,
               maturity \in Maturities, supply \in Supplies :
              CreateMarket(b, nonce, rate, maturity, supply),
           ~\E b \in Borrowers, nonce \in Nonces, amount \in Amounts :
              \/ Borrow(b, nonce, amount)
              \/ Repay(b, nonce, amount)
              \/ RepayInterest(b, nonce, amount)
    PROVE  UNCHANGED loanVars
<1>1. CASE ByAdministration
  BY <1>1, AdministrationStep DEF ProtocolInv, ConfigInv
<1>2. CASE EnvironmentStep
  BY <1>2, EnvironmentTouchesNothing DEF ProtocolInv, ConfigInv
<1>3. CASE \E signer \in Signers, b \in Borrowers, status \in StatusBytes,
                capacity \in Capacities :
             SetBorrowerWhitelist(signer, b, status, capacity)
  BY <1>3 DEF SetBorrowerWhitelist
<1>4. CASE UNCHANGED vars
  BY <1>4 DEF vars
<1>5. QED
  BY <1>1, <1>2, <1>3, <1>4, ProtocolStepCases

NoMarketRestarts ==
    \A k \in MarketKeys : Exists(k) =>
        /\ terms'[k] = terms[k]
        /\ total_borrowed'[k] >= total_borrowed[k]
        /\ total_repaid'[k] >= total_repaid[k]
        /\ total_interest_repaid'[k] >= total_interest_repaid[k]

\* No instruction starts a market again.
LEMMA MarketsStep == ProtocolInv /\ [Next]_vars => NoMarketRestarts
<1> SUFFICES ASSUME ProtocolInv, [Next]_vars, NEW k \in MarketKeys, Exists(k)
             PROVE  /\ terms'[k] = terms[k]
                    /\ total_borrowed'[k] >= total_borrowed[k]
                    /\ total_repaid'[k] >= total_repaid[k]
                    /\ total_interest_repaid'[k] >= total_interest_repaid[k]
  BY DEF NoMarketRestarts
<1> DEFINE Goal == /\ terms'[k] = terms[k]
                   /\ total_borrowed'[k] >= total_borrowed[k]
                   /\ total_repaid'[k] >= total_repaid[k]
                   /\ total_interest_repaid'[k] >= total_interest_repaid[k]
<1>1. /\ total_borrowed[k] \in Nat /\ total_repaid[k] \in Nat
      /\ total_interest_repaid[k] \in Nat
      /\ total_borrowed \in [MarketKeys -> 0 .. U64Max]
      /\ total_repaid \in [MarketKeys -> 0 .. U64Max]
      /\ total_interest_repaid \in [MarketKeys -> 0 .. U64Max]
  BY DebtInt DEF ProtocolInv, LoanInv, LoanTypeOK
<1>2. ASSUME NEW b \in Borrowers, NEW nonce \in Nonces, NEW rate \in AnnualRates,
             NEW maturity \in Maturities, NEW supply \in Supplies,
             CreateMarket(b, nonce, rate, maturity, supply)
      PROVE  Goal
  <2>1. k # <<b, nonce>>
    BY <1>2 DEF CreateMarket, Unused
  <2>2. QED
    BY <1>1, <1>2, <2>1 DEF CreateMarket, ProtocolInv, LoanInv, LoanTypeOK
<1>3. ASSUME NEW b \in Borrowers, NEW nonce \in Nonces, NEW amount \in Amounts,
             Borrow(b, nonce, amount)
      PROVE  Goal
  BY <1>1, <1>3, ProtocolConstants DEF Borrow
<1>4. ASSUME NEW b \in Borrowers, NEW nonce \in Nonces, NEW amount \in Amounts,
             Repay(b, nonce, amount) \/ RepayInterest(b, nonce, amount)
      PROVE  Goal
  BY <1>1, <1>4, ProtocolConstants DEF Repay, RepayInterest, CountPayment
<1>5. CASE UNCHANGED loanVars
  BY <1>1, <1>5 DEF loanVars, countVars
<1>6. QED
  BY <1>2, <1>3, <1>4, <1>5, LoansKept

\* No instruction, and no reuse of a nonce, opens a market a second time: its
\* terms are for ever and its counters only grow.
THEOREM MarketsStayForever == Spec => MarketsAreForever
<1>1. ProtocolInv /\ [Next]_vars => NoMarketRestarts
  BY MarketsStep
<1>2. QED
  BY <1>1, ProtocolInvariant, PTL DEF Spec, MarketsAreForever, NoMarketRestarts

GainersAreClean ==
    \A b \in Borrowers : Gains(b) =>
        /\ blacklist[b] \in {"absent", "clear"}
        /\ fail_closed => blacklist[b] = "clear"

\* Every instruction a borrower gains by has asked the blacklist.
LEMMA BlacklistStep == ProtocolInv /\ [Next]_vars => GainersAreClean
<1> SUFFICES ASSUME ProtocolInv, [Next]_vars, NEW b \in Borrowers, Gains(b)
             PROVE  PassesBlacklist(b)
  BY DEF GainersAreClean, PassesBlacklist
<1>1. PICK k \in MarketsOf(b) :
        total_borrowed'[k] > total_borrowed[k] \/ terms'[k] # terms[k]
  BY DEF Gains
<1>2. /\ k \in MarketKeys /\ total_borrowed[k] \in Nat
      /\ \A c \in Borrowers, nonce \in Nonces : k = <<c, nonce>> => c = b
  <2>1. k \in MarketKeys /\ \A c \in Borrowers, nonce \in Nonces : k = <<c, nonce>> => c = b
    BY DEF MarketsOf, MarketKeys
  <2>2. QED
    BY <2>1, DebtInt DEF ProtocolInv, LoanInv
<1>3. ASSUME NEW c \in Borrowers, NEW nonce \in Nonces, NEW rate \in AnnualRates,
             NEW maturity \in Maturities, NEW supply \in Supplies,
             CreateMarket(c, nonce, rate, maturity, supply)
      PROVE  PassesBlacklist(b)
  <2>1. k = <<c, nonce>>
    BY <1>1, <1>2, <1>3 DEF CreateMarket, ProtocolInv, LoanInv, LoanTypeOK
  <2>2. QED
    BY <1>2, <1>3, <2>1 DEF CreateMarket, Admitted
<1>4. ASSUME NEW c \in Borrowers, NEW nonce \in Nonces, NEW amount \in Amounts,
             Borrow(c, nonce, amount)
      PROVE  PassesBlacklist(b)
  <2>1. k = <<c, nonce>>
    BY <1>1, <1>2, <1>4 DEF Borrow, ProtocolInv, LoanInv, LoanTypeOK
  <2>2. QED
    BY <1>2, <1>4, <2>1 DEF Borrow, Admitted
<1>5. ASSUME NEW c \in Borrowers, NEW nonce \in Nonces, NEW amount \in Amounts,
             Repay(c, nonce, amount) \/ RepayInterest(c, nonce, amount)
      PROVE  FALSE
  BY <1>1, <1>2, <1>5 DEF Repay, RepayInterest, CountPayment
<1>6. CASE UNCHANGED loanVars
  BY <1>1, <1>2, <1>6 DEF loanVars, countVars
<1>7. QED
  BY <1>3, <1>4, <1>5, <1>6, LoansKept

\* Nobody listed opens a market or draws, in either mode and however the mode and
\* the lists change between two instructions.
THEOREM BlacklistAlwaysHolds == Spec => BlacklistHolds
<1>1. ProtocolInv /\ [Next]_vars => GainersAreClean
  BY BlacklistStep
<1>2. QED
  BY <1>1, ProtocolInvariant, PTL DEF Spec, BlacklistHolds, GainersAreClean

-----------------------------------------------------------------------------
(* The markets of a borrower keep to one credit line.                      *)

DebtPerMarket == [k \in MarketKeys |-> Debt(k)]

\* The debts of the credit line are those of the markets.
LEMMA LineDebts ==
    ASSUME NEW b \in Borrowers
    PROVE  /\ Credit!DebtsOf(b) = DebtsOf(b)
           /\ Credit!Owes(b) <=> \E nonce \in Nonces : Debt(<<b, nonce>>) > 0
  BY KeysOfPairs DEF Credit!DebtsOf, Credit!Owes, DebtsOf

\* The two sums of a borrower's debts are the same sum.
LEMMA LineTotal ==
    ASSUME NEW f
    PROVE  Credit!Total(f) = Total(f)
<1>1. Credit!Units(f) = Units(f)
  BY DEF Credit!Units, Credit!UnitsOf, Units, UnitsOf
<1>2. Credit!Cardinality(Units(f)) = Cardinality(Units(f))
  BY DEF Credit!Cardinality, Cardinality
<1>3. QED
  BY <1>1, <1>2 DEF Credit!Total, Total

\* A draw and a repayment change one debt of the line.
LEMMA LineMoves ==
    ASSUME NEW key \in MarketKeys, NEW delta \in Int,
           \A k \in MarketKeys :
             Debt(k)' = IF k = key THEN Debt(k) + delta ELSE Debt(k)
    PROVE  /\ DebtPerMarket' = [DebtPerMarket EXCEPT ![key] = DebtPerMarket'[key]]
           /\ DebtPerMarket'[key] = DebtPerMarket[key] + delta
           /\ DebtPerMarket'[key] = Debt(key)' /\ DebtPerMarket[key] = Debt(key)
  BY DEF DebtPerMarket

\* The credit lines open without debt.
LEMMA LineInit == Init => Credit!Opened
<1> SUFFICES ASSUME Init PROVE Credit!Opened
  OBVIOUS
<1>1. \A k \in MarketKeys : Debt(k) = 0
  BY DEF Init, Debt, PrincipalRepaid
<1>2. QED
  BY <1>1 DEF Init, Credit!Opened, MarketKeys

\* A draw in any market is a draw on the borrower's line.
LEMMA BorrowDraws ==
    ASSUME LoanInv, NEW b \in Borrowers, NEW nonce \in Nonces, NEW amount \in Amounts,
           Borrow(b, nonce, amount)
    PROVE  Credit!Draw(b, nonce)
<1> DEFINE key == <<b, nonce>>
<1>1. /\ key \in MarketKeys /\ amount \in Nat \ {0}
      /\ is_whitelisted[b] = 1
      /\ current_borrowed[b] + amount <= max_borrow_capacity[b]
      /\ current_borrowed' = [current_borrowed EXCEPT ![b] = @ + amount]
      /\ UNCHANGED <<is_whitelisted, max_borrow_capacity>>
  BY KeysOfPairs, ProtocolConstants DEF Borrow, Admitted, FitsCapacity, entryVars
<1>2. /\ LoanInv'
      /\ \A k \in MarketKeys :
           Debt(k)' = IF k = key THEN Debt(k) + amount ELSE Debt(k)
  BY BorrowStep
<1>3. /\ DebtPerMarket' = [DebtPerMarket EXCEPT ![key] = DebtPerMarket'[key]]
      /\ DebtPerMarket'[key] = DebtPerMarket[key] + amount
      /\ DebtPerMarket[key] = Debt(key)
  <2>1. amount \in Int
    BY <1>1
  <2>2. QED
    BY <1>1, <1>2, <2>1, LineMoves
<1>4. Debt(key) \in Nat
  BY <1>1, DebtInt DEF LoanInv, DebtsAddUp
<1>5. Total(DebtsOf(b))' <= max_borrow_capacity[b]
  <2>1. current_borrowed'[b] = Total(DebtsOf(b))'
    BY <1>2 DEF LoanInv, DebtsAddUp
  <2>2. current_borrowed'[b] = current_borrowed[b] + amount
    BY <1>1 DEF LoanInv, LoanTypeOK
  <2>3. QED
    BY <1>1, <2>1, <2>2
<1>6. Credit!OnlyIn(b, nonce)
  BY <1>1, <1>3 DEF Credit!OnlyIn, DebtPerMarket
<1>7. Credit!DebtsOf(b)' = DebtsOf(b)'
  BY LineDebts, KeysOfPairs DEF Credit!DebtsOf, DebtsOf
<1>8. DebtPerMarket'[key] \in Nat /\ DebtPerMarket'[key] > DebtPerMarket[key]
  BY <1>1, <1>3, <1>4
<1>9. Credit!Total(Credit!DebtsOf(b)') <= max_borrow_capacity[b]
  BY <1>5, <1>7, LineTotal
<1>10. QED
  BY <1>1, <1>6, <1>8, <1>9 DEF Credit!Draw, DebtPerMarket

\* A repayment in any market pays the line back.
LEMMA RepayPaysBack ==
    ASSUME LoanInv, NEW b \in Borrowers, NEW nonce \in Nonces, NEW amount \in Amounts,
           Repay(b, nonce, amount)
    PROVE  Credit!PayBack(b, nonce)
<1> DEFINE key == <<b, nonce>>
<1>1. /\ key \in MarketKeys /\ amount \in Nat \ {0} /\ amount <= Debt(key)
      /\ UNCHANGED <<is_whitelisted, max_borrow_capacity>>
  BY KeysOfPairs, ProtocolConstants DEF Repay, CountPayment, entryVars
<1>2. \A k \in MarketKeys :
        Debt(k)' = IF k = key THEN Debt(k) + (-amount) ELSE Debt(k)
  BY RepayStep
<1>3. /\ DebtPerMarket' = [DebtPerMarket EXCEPT ![key] = DebtPerMarket'[key]]
      /\ DebtPerMarket'[key] = DebtPerMarket[key] + (-amount)
      /\ DebtPerMarket[key] = Debt(key)
  <2>1. -amount \in Int
    BY <1>1
  <2>2. QED
    BY <1>1, <1>2, <2>1, LineMoves
<1>4. Debt(key) \in Int
  BY <1>1, DebtInt DEF LoanInv
<1>5. Credit!OnlyIn(b, nonce)
  BY <1>1, <1>3 DEF Credit!OnlyIn, DebtPerMarket
<1>6. DebtPerMarket'[key] \in 0 .. (DebtPerMarket[key] - 1)
  BY <1>1, <1>3, <1>4
<1>7. QED
  BY <1>5, <1>6 DEF Credit!PayBack, DebtPerMarket

\* The manager's instruction is a review of one line.
LEMMA WhitelistReviews ==
    ASSUME LoanInv, NEW signer, NEW b \in Borrowers, NEW status \in StatusBytes,
           NEW capacity \in Capacities, SetBorrowerWhitelist(signer, b, status, capacity)
    PROVE  Credit!Review(b)
<1>1. /\ status = 1 => capacity > 0
      /\ status = 0 => current_borrowed[b] = 0
      /\ is_whitelisted' = [is_whitelisted EXCEPT ![b] = status]
      /\ max_borrow_capacity' = [max_borrow_capacity EXCEPT ![b] = capacity]
      /\ UNCHANGED loanVars /\ status \in Nat /\ capacity \in Nat
  BY ProtocolConstants DEF SetBorrowerWhitelist, MayStore
<1>2. is_whitelisted'[b] = status /\ max_borrow_capacity'[b] = capacity
  BY <1>1 DEF LoanInv, EntryTypeOK
<1>3. status = 0 => ~Credit!Owes(b)
  <2>1. ASSUME current_borrowed[b] = 0, NEW nonce \in Nonces
        PROVE  ~(Debt(<<b, nonce>>) > 0)
    <3>1. DebtsOf(b) \in [Nonces -> Nat] /\ DebtsOf(b)[nonce] = Debt(<<b, nonce>>)
      BY DebtsOfType DEF LoanInv, DebtsOf
    <3>2. Debt(<<b, nonce>>) <= Total(DebtsOf(b)) /\ Debt(<<b, nonce>>) \in Nat
      BY <3>1, NoncesTotal
    <3>3. QED
      BY <2>1, <3>2 DEF LoanInv, DebtsAddUp
  <2>2. current_borrowed[b] = 0 => ~\E nonce \in Nonces : Debt(<<b, nonce>>) > 0
    BY <2>1
  <2>3. Credit!Owes(b) <=> \E nonce \in Nonces : Debt(<<b, nonce>>) > 0
    BY LineDebts
  <2>4. QED
    BY <1>1, <2>2, <2>3
<1>4. DebtPerMarket' = DebtPerMarket
  BY <1>1 DEF DebtPerMarket, Debt, PrincipalRepaid, loanVars, countVars
<1>5. QED
  BY <1>1, <1>2, <1>3, <1>4 DEF Credit!Review, DebtPerMarket

\* Every step of the protocol is a step of the credit lines or none.
LEMMA LineStep == ProtocolInv /\ [Next]_vars => [Credit!Next]_(Credit!line)
<1> SUFFICES ASSUME ProtocolInv, [Next]_vars PROVE [Credit!Next]_(Credit!line)
  OBVIOUS
<1> USE DEF ProtocolInv
<1>1. ASSUME UNCHANGED <<is_whitelisted, max_borrow_capacity>>,
             \A k \in MarketKeys : Debt(k)' = Debt(k)
      PROVE  UNCHANGED Credit!line
  BY <1>1 DEF Credit!line
<1>2. CASE ByAdministration \/ EnvironmentStep \/ UNCHANGED vars
  <2>1. UNCHANGED <<entryVars, loanVars>>
    BY <1>2, AdministrationStep, EnvironmentTouchesNothing DEF ConfigInv, vars
  <2>2. QED
    BY <1>1, <2>1 DEF entryVars, loanVars, countVars, Debt, PrincipalRepaid
<1>3. CASE \E signer \in Signers, b \in Borrowers, status \in StatusBytes,
                capacity \in Capacities :
             SetBorrowerWhitelist(signer, b, status, capacity)
  BY <1>3, WhitelistReviews DEF Credit!Next
<1>4. ASSUME NEW b \in Borrowers, NEW nonce \in Nonces, NEW rate \in AnnualRates,
             NEW maturity \in Maturities, NEW supply \in Supplies,
             CreateMarket(b, nonce, rate, maturity, supply)
      PROVE  UNCHANGED Credit!line
  <2>1. UNCHANGED <<is_whitelisted, max_borrow_capacity>>
    BY <1>4 DEF CreateMarket, entryVars
  <2>2. \A k \in MarketKeys : Debt(k)' = Debt(k)
    BY <1>4, CreateMarketStep, ProtocolConstants
  <2>3. QED
    BY <1>1, <2>1, <2>2
<1>5. ASSUME NEW b \in Borrowers, NEW nonce \in Nonces, NEW amount \in Amounts,
             RepayInterest(b, nonce, amount)
      PROVE  UNCHANGED Credit!line
  <2>1. UNCHANGED <<is_whitelisted, max_borrow_capacity>>
    BY <1>5 DEF RepayInterest, CountPayment, entryVars
  <2>2. QED
    BY <1>1, <1>5, <2>1, RepayInterestStep
<1>6. CASE \E b \in Borrowers, nonce \in Nonces, amount \in Amounts :
             Borrow(b, nonce, amount) \/ Repay(b, nonce, amount)
  BY <1>6, BorrowDraws, RepayPaysBack DEF Credit!Next
<1>7. QED
  BY <1>2, <1>3, <1>4, <1>5, <1>6, ProtocolStepCases

\* The counter on the whitelist entry and the counters of all the borrower's
\* markets implement one credit line: all debts together fit the capacity when
\* one grows, and nobody in debt is struck off.
THEOREM CreditLinesKept == Spec => KeepsCreditLines
<1>1. Init => Credit!Opened
  BY LineInit
<1>2. ProtocolInv /\ [Next]_vars => [Credit!Next]_(Credit!line)
  BY LineStep
<1>3. QED
  BY <1>1, <1>2, ProtocolInvariant, PTL DEF Spec, KeepsCreditLines, Credit!Lines

-----------------------------------------------------------------------------
(* Debts can always be paid back.                                          *)

\* What Repay asks of a state.
RepayGuards(b, nonce, amount) ==
    LET key == <<b, nonce>>
    IN  /\ amount <= Debt(key) /\ amount <= current_borrowed[b]
        /\ Exists(key) /\ ~paused
        /\ EffectiveNow(key) >= last_accrual_timestamp[key]
        /\ total_repaid[key] + amount <= U64Max

\* What Repay makes of it: every variable gets one value, so a state in which the
\* guards hold has a successor.
RepayEffect(b, nonce, amount) ==
    LET key == <<b, nonce>>
    IN  /\ last_accrual_timestamp' =
             [last_accrual_timestamp EXCEPT ![key] = EffectiveNow(key)]
        /\ total_repaid' = [total_repaid EXCEPT ![key] = @ + amount]
        /\ current_borrowed' = [current_borrowed EXCEPT ![b] = @ - amount]
        /\ UNCHANGED <<outside, roleVars, switchVars, entryVars, terms, total_borrowed,
                       total_interest_repaid>>

\* Repay is these guards and this effect.
LEMMA RepayIsGuarded ==
    ASSUME NEW b, NEW nonce, NEW amount
    PROVE  Repay(b, nonce, amount) <=>
             RepayGuards(b, nonce, amount) /\ RepayEffect(b, nonce, amount)
  BY DEF Repay, CountPayment, Accrue, RepayGuards, RepayEffect

\* Any part of a debt, up to all of it, is accepted in a protocol that runs at a
\* clock that has not gone back.
DebtsArePayable ==
    \A b \in Borrowers, nonce \in Nonces, amount \in Nat \ {0} :
        LET key == <<b, nonce>>
        IN  (/\ ~paused
             /\ EffectiveNow(key) >= last_accrual_timestamp[key]
             /\ amount <= Debt(key)
             /\ total_repaid[key] + amount <= U64Max)
            => RepayGuards(b, nonce, amount)

\* One debt is never above the counter its repayment is compared with.
LEMMA CounterCoversDebt ==
    ASSUME LoanInv, NEW b \in Borrowers, NEW nonce \in Nonces
    PROVE  /\ Debt(<<b, nonce>>) \in Nat /\ current_borrowed[b] \in Nat
           /\ Debt(<<b, nonce>>) <= current_borrowed[b]
<1>1. DebtsOf(b) \in [Nonces -> Nat] /\ DebtsOf(b)[nonce] = Debt(<<b, nonce>>)
  BY DebtsOfType DEF LoanInv, DebtsOf
<1>2. current_borrowed[b] = Total(DebtsOf(b))
  BY DEF LoanInv, DebtsAddUp
<1>3. Total(DebtsOf(b)) \in Nat /\ DebtsOf(b)[nonce] <= Total(DebtsOf(b))
  BY <1>1, NoncesTotal, 0 \in Nat
<1>4. QED
  BY <1>1, <1>2, <1>3

\* repay.rs refuses nobody who pays a debt: not the borrower struck off, listed or
\* past maturity, and neither the capacity nor the other markets of the borrower
\* count, for the shared counter never falls short of one market's debt.
THEOREM DebtsStayPayable == Spec => []DebtsArePayable
<1>1. ProtocolInv => DebtsArePayable
  <2> SUFFICES ASSUME ProtocolInv, NEW b \in Borrowers, NEW nonce \in Nonces,
                      NEW amount \in Nat \ {0}, ~paused,
                      EffectiveNow(<<b, nonce>>) >= last_accrual_timestamp[<<b, nonce>>],
                      amount <= Debt(<<b, nonce>>),
                      total_repaid[<<b, nonce>>] + amount <= U64Max
               PROVE  RepayGuards(b, nonce, amount)
    BY DEF DebtsArePayable
  <2>1. /\ Debt(<<b, nonce>>) \in Nat /\ current_borrowed[b] \in Nat
        /\ Debt(<<b, nonce>>) <= current_borrowed[b]
    BY CounterCoversDebt DEF ProtocolInv
  <2>2. Exists(<<b, nonce>>)
    <3>1. Debt(<<b, nonce>>) # 0
      BY <2>1
    <3>2. QED
      BY <3>1, KeysOfPairs DEF ProtocolInv, LoanInv, UnopenedOweNothing
  <2>3. amount <= current_borrowed[b]
    BY <2>1
  <2>4. QED
    BY <2>2, <2>3 DEF RepayGuards
<1>2. QED
  BY <1>1, ProtocolInvariant, PTL
=============================================================================
