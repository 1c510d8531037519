# Verification of the Coalesce lending program

Coalesce is a Solana program for unsecured fixed-rate loans. Lenders deposit USDC
into a *market* before its maturity; the borrower draws it; after maturity lenders
leave at a *settlement factor* computed from what the vault holds. Below a factor
of one, what a lender was not paid (the *haircut*) stays recorded, and is paid
later if the borrower repays and somebody *re-settles* the market at a higher
factor.

This directory holds TLA+ models of the program in `src/src/`, the TLC
configurations that check them on small instances, and proofs of the central
properties, for every instance, that TLAPS checks.

The repository has a specification of its own, `src/specs/CoalesceFi.tla`. These
modules are translated from the Rust code and not from it. They cover what it does
not: exits below the full factor, haircuts, claims, re-settlement and forced exits.

## 1. The system

An instruction is one Solana transaction: it holds its accounts exclusively, any
error reverts all of it, and there is no concurrency inside it. What interleaves
are whole instructions, sent by lenders, the borrower, anybody who pays, the fee
authority and the managers. Between any two of them the clock moves and the
configuration may change.

| Component | Source | State | Operations |
|---|---|---|---|
| Fixed-point and haircut arithmetic | `logic/haircuts.rs`, `mul_wad` and `compute_settlement_factor` in `logic/interest.rs` | none | rebase a debt, claimable part of a debt, contribution of a debt, the two settlement factors |
| Interest accrual | `logic/interest.rs` | scale factor, accrued fees, last accrual of the market | `accrue_interest`, called first by most instructions |
| Lending before maturity | `deposit.rs`, `borrow.rs` | supply, position balances, debt, vault | deposit, borrow |
| Repayment | `repay.rs`, `repay_interest.rs` | repayment counters, vault | repay principal, pay interest |
| Settlement and exits | `withdraw.rs`, `force_close_position.rs`, `re_settle.rs`, `close_lender_position.rs` | settlement factor, positions, haircut ledgers | exit, forced exit, re-settlement, close account |
| Haircut recovery | `claim_haircut.rs`, `force_claim_haircut.rs`, `state/haircut_state.rs` | haircut per position, reserve, the two `HaircutState` sums | claim, forced claim |
| Sweeps | `collect_fees.rs`, `withdraw_excess.rs` | vault, accrued fees | collect fees, withdraw excess |
| Borrowers and their credit | `set_borrower_whitelist.rs`, `borrow.rs`, `repay.rs`, `state/borrower_whitelist.rs` | one whitelist entry per borrower: status, capacity, current debt | admit, change, strike off; every draw and repayment |
| Administration | `initialize_protocol.rs`, `set_admin.rs`, `set_whitelist_manager.rs`, `set_fee_config.rs`, `set_pause.rs`, `set_blacklist_mode.rs` | protocol configuration: roles, fee rate, pause, blacklist mode | initialise, hand over, switch |
| Market creation | `create_market.rs` | market, vault, haircut state accounts | create |
| Blacklist check | `check_blacklist` in `logic/validation.rs` | an external account per address | fail open or closed |
| Account validation | the rest of `logic/validation.rs` | none | owner, address and mint checks |

How they interact: all instructions share the accounts they name. `Market` is written
by every instruction except the managers'; the vault is a token account that
anybody can also pay into without the program seeing it; one `BorrowerWhitelist`
entry serves *all* markets of a borrower; `ProtocolConfig` serves all markets.

What is hard about it:

* **Two ledgers of haircuts.** `haircut_owed` per position and `haircut_accumulator`
  are exact; `claim_weight_sum` and `claim_offset_sum` are an upper bound kept
  incrementally. Exits and claims update both, with *saturating* arithmetic: a
  drift would never fail, it would only misdirect money much later.
* **Order.** Partial exits, repayments, re-settlements, claims and sweeps happen in
  every order, and a debt is anchored at the factor of its last exit or claim. The
  same improvement of the factor must be paid once, whether by claim or by exit.
* **Rounding.** Every division rounds down, but a *difference* with a rounded-down
  amount is rounded up, and money can leave the vault on either side.
* **Who is first.** Fees and the borrower's excess are swept while departed lenders
  still wait for their haircuts.
* **Clock and switches.** The clock is not monotone (SR-114 is the guard for it), and
  pausing, blacklisting and fee changes happen between any two instructions.
* **A shared counter.** Draws and repayments of all markets of a borrower move the one
  `current_borrowed` of the whitelist entry, while the manager changes that entry.
* **Cadence.** Interest is accrued when somebody happens to send an instruction; each
  cut of the time rounds and compounds differently.
* **Nobody has to act.** Nothing runs by itself. A market is cleared only if somebody
  re-settles it, forces exits and claims, and sweeps it.

What makes each component correct:

* Arithmetic: the factor is in 1..WAD; the bound of a claim is at least the claim at
  every later factor.
* Accrual: the scale never falls, stops at maturity, and stands still once settled;
  lenders earn between simple interest and compounding by the second; no checked
  operation of it fails.
* Lending and repayment: deposits stay under the cap; the recorded debt is exactly
  what was lent and not repaid; interest payments free no borrowing capacity.
* Settlement: the factor only rises; the supply is the sum of the balances; no lender
  loses or gains by the order of exits and claims.
* Haircuts: reserve and sums are exactly those of the debts on the positions; at the
  full factor the vault covers everybody; below it, what the factor promises, up to
  rounding.
* Sweeps: only surplus above all lenders' claims leaves.
* Credit: the shared counter is the sum of the debts per market; draws keep to the
  capacity; every debt stays repayable; nobody in debt is struck off with a 0.
* Administration and creation: every role stays with an address that can sign; a
  blacklisted borrower gains nothing; a market is opened once, for a bounded term.
* The whole: absent and blocked lenders are paid out, and a funded market empties.

## 2. The modules

| Module | Contents |
|---|---|
| `FixedPoint` | `MulWad`, saturating subtraction, the clamped settlement factor |
| `Haircuts` | `rebase_remaining_owed`, `claimable_exact`, `position_contribution` (`Weight`, `Offset`), `compute_resettle_factor` |
| `Interest` | the growth of a period: daily compounding by squaring, the rest linear; the largest product on the way |
| `Accrual` | the interest and fees of one market over its life, in any calls and with deposits between them, with the integer widths; its properties |
| `Totals` | the sum of a function over a finite set, for the properties |
| `Market` | one market with its lenders, borrower, vault and switches: one action per instruction |
| `MarketProperties` | the properties of the market |
| `MarketClearing` | when the instructions that clear a market are accepted; properties of its clearing, step by step |
| `MarketLiveness` | what eventually happens to it, and the fairness this needs |
| `LenderClaims`, `CreditLines` | abstract specifications: what lenders are promised, and what a whitelist entry grants |
| `MarketRefinement` | the two mappings of `Market` to them |
| `Protocol` | administration, admission of borrowers, and all markets of all borrowers: one action per instruction |
| `ProtocolProperties` | its properties, with the mapping to `CreditLines` |
| `MCMarket`, `MCMarketLiveness`, `MCProtocol` | finite instances for TLC |
| `HaircutsProofs`, `TotalsProofs` | lemmas on the arithmetic and on sums |
| `MarketProofs`, `MarketCoverProofs` | theorems about the market: types, finality and the books; solvency |
| `MarketClearingProofs` | theorems about its clearing: never stuck, never back, short by units only |
| `MarketRefinementProofs` | `Market` implements `LenderClaims` and `CreditLines` |
| `ProtocolProofs` | theorems about the protocol; it implements `CreditLines` |
| `AccrualProofs` | theorems about interest: its recursions, what it earns at the least and at the most, that it never overflows |

### Market and the code

The variables have the names of the account fields. `opened` is the set of lenders
whose `LenderPosition` account exists, `vault` and `wallet` are token accounts,
`blocked` is the set of addresses for which `check_blacklist` fails now, and `now` is
the clock.

| Action | Handler |
|---|---|
| `Deposit`, `Borrow`, `Repay`, `RepayInterest` | `deposit.rs`, `borrow.rs`, `repay.rs`, `repay_interest.rs` |
| `Withdraw`, `ForceClosePosition` (both through `LeaveMarket`) | `withdraw.rs`, `force_close_position.rs` |
| `ReSettle`, `CloseLenderPosition` | `re_settle.rs`, `close_lender_position.rs` |
| `ClaimHaircut`, `ForceClaimHaircut` (both through `PayClaim`) | `claim_haircut.rs`, `force_claim_haircut.rs` |
| `CollectFees`, `WithdrawExcess` | `collect_fees.rs`, `withdraw_excess.rs` |
| `SetBorrowerWhitelist`, `SetPause`, `SetFeeConfig` | the handlers of these names |
| `SetBlocked`, `Donate`, `Tick` | the environment: blacklist service, plain token transfers, the clock |

A failing instruction is an action that is not enabled, since all it wrote is
reverted. `AccrueInterest` is a conjunct of each action whose handler calls
`accrue_interest`, never an action of its own. Guards keep the order of the code only
where it matters to the outcome, because nothing observes a reverted instruction.

`withdraw` rebases an older haircut only if the new exit leaves a gap
(`LeavesHaircut`), as the code does. `payout > 0` is asked of `Withdraw` and not of
`ForceClosePosition`; `total_deposited` is decreased by `Withdraw` only.

Abstractions:

* Account validation and signatures. An action acts on the accounts the program would
  accept, for the signer it requires.
* `u128` intermediate results are unbounded integers. The largest products are those of
  a re-settlement, (vault + offsets) by `WAD`, and of a haircut's weight by its anchor. For
  amounts of a USDC market (far below 10^18 units) they stay below 2^128 while the weights
  together are below some 340 `WAD`. To pass that takes a factor a few units below
  `WAD` and hundreds of exits at it, each leaving a haircut of one unit; it is not modelled.
  `u64` fields keep their limit, `U64Max`, and an instruction that would pass it fails.
* The growth of a period is a constant function `Growth` of the elapsed time. The
  runs set it to `TotalGrowthWad` of `Interest`; the proofs assume only that nothing
  grows in no time and nothing shrinks.
* `WAD`, `BPS` and the calendar are constants: 10^18, 10,000, 86,400 seconds and 365
  days in the code.

### Protocol and the code

`Protocol` has no lenders. It holds what `Market` leaves out: who signs, how the
configuration comes to be, and several markets that share a whitelist entry. A market
is keyed by its borrower and nonce, as its address is derived from them; `terms[k]` is
`NoTerms` while the account does not exist, and `entries` holds the borrowers whose
`BorrowerWhitelist` account does. `upgrade_authority` is the loader's; `blacklist` is what
the blacklist program stores for an address, in the five kinds `check_blacklist` tells
apart: no account, an account without data, and a status byte of 0, 1 or any other.

| Action | Handler |
|---|---|
| `InitializeProtocol` | `initialize_protocol.rs`, signed by the upgrade authority |
| `SetFeeConfig`, `SetAdmin`, `SetWhitelistManager`, `SetPause`, `SetBlacklistMode` | the handlers of these names, signed by the admin |
| `SetBorrowerWhitelist` | `set_borrower_whitelist.rs`, signed by the whitelist manager; the first call creates the entry |
| `CreateMarket` | `create_market.rs` |
| `Borrow`, `Repay`, `RepayInterest` | the same handlers as in `Market`, here for each market of each borrower |
| `SetUpgradeAuthority`, `SetBlacklistAccount`, `Tick` | the environment: the loader, the blacklist program, the clock |

The vault, the lenders and the amount of interest are left to `Market`: a draw here finds
enough in the vault, and accrual is its clock check and its time stamp. Both modules
have the counters of the debt, and both are shown to implement `CreditLines`.

### Accrual and the code

`Accrual` is `accrue_interest`, called at any times, with deposits coming in and the fee
rate changed in between. `AccrueInterest` is the call, `Accrue` an instruction that makes it
and leaves the supply alone, `Deposit` one that makes it first and then adds the deposit at
the new scale, under the cap on principal; who may deposit is a matter of `Market`.
`AccrualFits` collects what the function checks after its clock: the whole days in 32 bits,
the sums and products of the growth in 128 (`GrowthFigures`, with the largest product inside
`pow_wad`), those of the fees where there is a fee rate (`FeeFigures`), the difference from
`WAD`, and the new fees in 64. Of factors multiplied one after the other it holds the last
product, which is the largest. A call for which it fails is refused, and its instruction
with it. The check of the clock itself is left to `Market`: the clock of `Accrual` goes on.
Exits change the supply too, but they come after maturity and after an accrual of their own,
when nothing is left to accrue, and are left out. `calls` counts accruals and `charged` sums
the rate of each on what the lenders earned in it; both are read by properties only.

### The abstract specifications

* `LenderClaims` knows what each lender has, in three forms: funds, an investment worth so
  many tokens, and a part of an earlier investment still due. There is no vault, no scaled
  balance, no anchor and no ledger. An exit pays at least the factor's share and leaves
  the rest due; a claim turns what is due into funds; neither changes the sum of the
  three by more than the one unit an exit may lose; the factor only rises. `KeepsClaims`
  maps an investment to the balance at the scale the next accrual will reach.
* `CreditLines` knows debts per market, a status and a capacity per borrower, and no
  counter. Debts grow only for an admitted borrower and only while all of them together fit
  the capacity; a 0 is stored only for a borrower who owes nothing. `KeepsCreditLines`
  (`Protocol`) and `KeepsCreditLine` (`Market`) map the debts to the counters of the markets.

## 3. The runs

`CHECK_DEADLOCK FALSE` is set in each: wallets, counters and the clock of an instance are
finite, so a market that has been paid out and closed really stops.

| Run | Question | States |
|---|---|---|
| `haircuts` | default with two lenders: do the ledgers agree, is the vault solvent, is every claim kept, in every order of exits, repayments, claims and re-settlements? How short can an exit find the vault, and does the full factor ever let anyone back? | 294,685 |
| `interest` | interest, fees at a changing rate, interest payments, a donation: does only surplus leave, is the debt exact, do all exits pay by one factor? | 546,138 |
| `controls` | pause, blacklist, whitelist status, capacity, a clock that goes back: does a settled market stay closed, does the market keep to the credit line? | 927,048 |
| `clearing` | lenders who never come or come in part, pauses, blocked accounts: is every market that nobody leaves in parts at a loss cleared, and can anything but the units of rounded-up recoveries keep a lender in? Is every haircut of a funded market paid, its vault emptied, and the instruction that is due always accepted? | 58,008 |
| `credit` | two markets of a borrower and a manager who changes the entry: do the debts add up, can each be repaid, is the credit line kept? | 73,594 |
| `roles` | role hand-over, pause, blacklist modes, a clock that goes back, two borrowers: is a role lost, does a blocked borrower gain, is a market opened twice, for too short or for too long? | 433,350 |
| `accrual` | 100% over five years, accrued and deposited at any times: what do lenders and the fee authority earn at the least and at the most, and can an accrual be refused for its arithmetic? | 511,780 |
| `rounded_recovery` | does the vault always hold the share of the lenders still in? **No** | |
| `dewhitelist_debtor` | does a borrower in debt stay whitelisted? **No** | |
| `repayment_fees` | does a repayment add no fees? **No** | |
| `unused_market` | does interest paid into an unused market come back? **No** | |
| `stalled_haircuts` | is every haircut paid once the vault holds all that is due? **No** | |

Bounds, and why they are enough:

* *Two lenders.* Every property relates one position to the rest; the second lender is
  the rest, and lets two departed lenders compete for one improvement.
* *`WAD` 16 to 20 against amounts up to 15.* The code's regime is amounts below `WAD`,
  and the runs stay in it: this is where rounding costs a unit at a time.
  With draws of 5, 6 and 12 against deposits of 6 or 12, and repayments of 1 to 3, the
  factor takes values across its whole range. Both clamps act: `haircuts` settles empty
  vaults (a draw of 12), `interest` vaults that hold more than the supply (a donation).
* *Partial exits of 2 units, several repayments of 1 to 3.* A lender can leave in
  parts around two re-settlements, so a debt is rebased more than once.
* *`interest`*: two whole days and half a day before maturity, so compounding and the
  linear rest both act, with accruals that split the period in different ways.
* *`U64Max`* is a little above the supply cap: in `interest` and `controls` the borrower
  who draws, repays and draws again runs into it with `total_borrowed`.
* *`Times`* are the instants that guards tell apart: before maturity, within the grace
  period, after it. In `controls` the clock may return to any of them.
* *`clearing`*: a draw that empties the vault, payments of principal and of interest before
  and after the settlement, which leave the market in default, or with an excess, fees,
  and a clock that ends after the grace period. The clock is finite; all that matters
  after the last instant is that it has passed. Lenders leave in full or by 2 units, in
  what order they like: without its premise `NobodyHalfGone`, `EveryoneLeaves` fails in
  this run, for want of a unit.
* *`credit`*: two markets of one borrower are what shares an entry. Capacities of 2 and 3
  against amounts of 1 and 2 and a `U64Max` of 4 let each limit bind first.
* *`roles`*: two candidates per role, one of them the zero address; three maturities:
  2 and 4 are too soon for a market opened late, 4 and 6 too late for one opened early, and
  when 6 is near enough its grace period ends past `I64Max`; all five kinds of
  blacklist account in both modes.
* *`accrual`*: five years of eight days of two seconds at 100%, accrued at nine times that
  make steps of parts of a day, of days, and of most of the term. A balance grows 111-fold
  (147-fold in the code). The limits stand to `WAD` as in the code: 340 times its square for
  products, 18.4 times `WAD` for fees; the limit for days is far off in both; the cap stands for 20 billion USDC. One deposit fills
  it, or two that leave room that a third does not fit in.

Properties, by what they guard:

* **Books**: `SupplyIsSumOfBalances`, `AccumulatorIsSumOfOwed`,
  `HaircutStateIsSumOfContributions`, `DebtMirrorsMarket`, `DebtsAddUp`.
* **Anchors**: `AnchorsBehindFactor`. A debt anchored at `WAD`, or ahead of the current
  factor, could never be claimed, and its reserve would be locked for ever.
* **Solvency**: `FullFactorCoversEveryone`, and `SolventUpToOneUnitPerLender`: the vault
  covers the factor's share of the balances and every claim, but for one unit for each
  lender anchored at the factor of now, whose recovery was rounded up there. The lowest
  factor, 1, also stands for less than 1, so it promises something only while the
  balances are below `WAD`, which is the case for real amounts. `ExitsShortByUnitsOnly` says
  what this means for whoever leaves: the payout asked of the vault, the recovery of an
  older haircut included, is never more than those units above what is there.
* **Promises**: `KeepsClaims`, `KeepsCreditLine`, `KeepsCreditLines`, `DebtCanBeRepaid`.
* **Steps**: `FactorNeverFalls`, `SettlementClosesEntry`, `OnlySurplusLeaves`,
  `MarketsAreForever`, `BlacklistHolds`.
* **Configuration**: `RolesAreHeld`, `TermsAreBounded`. For the second, `opened_at` in
  `terms` records when a market was opened, which the account does not keep.
* **Interest**: `NeverAboveEverySecond`, `NeverBelowSimpleInterest`, `FeesWithinInterest`,
  `AccrualNeverFails`. The lower bound is simple interest, and not what one single call
  would earn: every product is rounded down, a day's call and a squaring differ in what
  they lose, and at the real constants five years of daily calls at 100% end some hundred
  units of 10^-18 below a single call.
* **Clearing, step by step**: `FundedClearingNeverStalls` takes any state of a funded market
  and asks whether the instruction that is due passes all its checks; `FullFactorOnlyClears`
  that nothing at the full factor undoes what was cleared. No fairness is needed for either.
* **In the end**: `EveryoneLeaves`, `OnlyUnitsKeepAnyoneIn`, `FundedHaircutsArePaid`,
  `FundedVaultEmpties`. By the finding `rounded_recovery` a lender may be kept in for ever
  for want of a unit, after exits in parts that recovered a haircut. `EveryoneLeaves` says
  that without such exits (`NobodyHalfGone`) everybody gets out, even for nothing;
  `OnlyUnitsKeepAnyoneIn` says that with them, whoever stays finds the vault short by no
  more units than there are lenders. Like solvency, both are about balances below `WAD`.

### Fairness

Nothing in the program runs by itself, so the code schedules nothing. `FairSpec` of
`MarketLiveness` assumes weak fairness of the clock, and of the instructions whose sender
gains by them and needs nobody's consent:

* the borrower sends forced exits, forced claims and the withdrawal of the excess (the
  first two stand between the borrower and the third);
* the fee authority collects its fees;
* anyone re-settles: the handler asks for no signature, and departed lenders, the borrower
  and the fee authority all want the factor raised.

Weak fairness is enough for a sender who tries again until the instruction is accepted.
No lender, payer or manager is assumed to do anything: lenders may never come back,
nobody need repay, a pause may come and go. What only the managers can give is a premise
of the properties, never part of the fairness: `FinallyUnpaused`, and for the excess that
the borrower is not blocked and still whitelisted in the end. What the lenders do is a
premise of `EveryoneLeaves`, `NobodyHalfGone`, and repayment one of the last two,
`FullyFunded`. It asks for one unit per lender more than is due, the most that the bounds
of `HaircutState` are rounded up by; `stalled_haircuts` shows that the exact sum is not
enough.

## 4. What the runs found

Behaviour of the code that contradicts what it is meant to do:

1. **A recovery on an exit is rounded up** (`rounded_recovery`). `haircuts.rs:44` calls the
   rounding of the rebased debt conservative for the claimant. `withdraw.rs:343` pays
   `recovered = owed - remaining`, and with `remaining` rounded down this is the
   recovery rounded *up*. After two lenders leave in parts around a re-settlement, the
   vault is one unit short of the share of the lenders still in. The last exit at that
   factor then fails until one unit is paid in, forced or not, and with nobody who pays it the
   market is never cleared (see `OnlyUnitsKeepAnyoneIn`). How much can be
   missing is bounded, and proved to be: by one unit for each lender anchored at the factor
   and one for the lender who leaves (`ExitsShortByUnitsOnly`).
2. **A status byte of 2 strips a borrower in debt of the whitelist**
   (`dewhitelist_debtor`). `set_borrower_whitelist.rs:144` means to prevent that, but the
   check compares the byte with 0 only, and everything that reads the entry asks for 1.
3. **Small haircuts stall although the debt is repaid** (`stalled_haircuts`).
   `force_claim_haircut.rs:18` says reserves cannot get stuck. Re-settlement uses weights
   that are rounded up: two haircuts of 1, anchored at 13 of 16, against a vault of 2 give
   `(2 + 8) * 16 / 12 = 13`, which is no improvement. Claims are refused at that factor,
   and the reserve stays until somebody pays more than is owed.

Sentences of the repository that the code does not keep:

4. **Repayments accrue fees** (`repayment_fees`). `specs/CoalesceFi.tla:301` and `315` say
   that a repayment accrues with a zero-fee configuration, "matches implementation".
   `repay.rs:125` and `repay_interest.rs:125` pass the protocol's own configuration.
5. **An unused market keeps what is paid into it** (`unused_market`), against
   `withdraw_excess.rs:22`: without a lender it never settles, and the sweep asks for a
   settled market.

Noticed while translating, without a run of their own: the cap on the supply is compared
with deposits only, so that interest lifts the normalized supply above it
(`specs/CoalesceFi.tla:668` says otherwise); payments, claims and re-settlement ask no
blacklist (`lib.rs:30`); the capacity of a borrower may be set below the debt
(`tests/tla_conformance_tests.rs:433`); calls within a day compound (`interest.rs:23`), and
one call compounds all the days it covers (`interest.rs:19`).

## 5. What is proved

For every set of lenders, borrowers, amounts, clocks, growth function and constants that
satisfy the assumptions named in the modules: `FixedPointAssumption` (`WAD` above 1),
`MarketAssumption`, `GrowthAssumption`, `ProtocolAssumption`, `BlacklistAssumption`,
`CalendarAssumption`, `AccrualAssumption`, and for
`ClaimsKept` also `SeparateAccounts` (no lender is the borrower or the fee authority, whose
wallet would otherwise show the payments of both).

| Theorem | States |
|---|---|
| `TypeCorrect` | `Spec => []TypeOK` |
| `SupplyAddsUp`, `ReserveAddsUp`, `ContributionsAddUp` | the three sums over positions |
| `DebtAddsUp` | `Spec => []DebtMirrorsMarket` |
| `FactorMonotone` | `Spec => FactorNeverFalls` |
| `SettlementIsFinal` | `Spec => SettlementClosesEntry` |
| `LendersComeFirst` | `Spec => OnlySurplusLeaves` |
| `AnchorsStayBehind` | `Spec => []AnchorsBehindFactor` |
| `FullFactorCovers` | `Spec => []FullFactorCoversEveryone` |
| `VaultCoversPromise` | `Spec => []SolventUpToOneUnitPerLender` |
| `ShortByUnitsOnly` | `Spec => []ExitsShortByUnitsOnly` |
| `ClearingNeverStalls` | `Spec => []FundedClearingNeverStalls` |
| `ClearingNeverGoesBack` | `Spec => FullFactorOnlyClears` |
| `ClaimsKept` | `Spec => KeepsClaims`: `Market` implements `LenderClaims` |
| `CreditLineKept` | `Spec => KeepsCreditLine`: `Market` implements `CreditLines` |
| `ProtocolTypeCorrect`, `RolesStayHeld`, `TermsStayBounded` | the protocol's types, roles and terms |
| `DebtsAlwaysAddUp` | the shared counter is the sum of the debts |
| `MarketsStayForever`, `BlacklistAlwaysHolds` | the two action properties of `Protocol` |
| `DebtsStayPayable` | every part of a debt passes the guards of `Repay`, whatever else happened |
| `CreditLinesKept` | `Spec => KeepsCreditLines`: `Protocol` implements `CreditLines` |
| `InterestNeverAbove` | `Spec => []NeverAboveEverySecond` of `Accrual` |
| `InterestNeverBelow` | `Spec => []NeverBelowSimpleInterest` |
| `FeesStayWithinInterest` | `Spec => []FeesWithinInterest` |
| `InterestAlwaysAccrues` | `HasRoom => (Spec => []AccrualNeverFails)` |
| `InterestIsGrowth` | `TotalGrowthWad` of `Interest` satisfies `GrowthAssumption` of `Market` |
| `ContributionCoversClaim` | the bound of `position_contribution` is at least the exact claim at every factor from the anchor to `WAD` |
| `TotalOfUpdate` | changing one entry of a function moves its sum by as much |

The argument for the market:

* **`TypeInv`** is `TypeOK` with `AnchorsNotAhead`. Types alone are not inductive: the
  recovery an exit pays is `owed - rebased`, and it stays within the debt only because no
  debt is anchored ahead of the factor it is rebased to. `StepCases` splits `Next`; each
  action has a lemma of its own, and actions that leave the market alone share one.
* **`SettlementInv`** adds that a settled market accrued up to its maturity
  (`ClosedWhenSettled`), and that a market nobody is in earned no fees before
  settlement. From the first, the SR-114 check alone refuses every accrual of a clock
  before maturity: deposits and draws stay shut although neither handler looks at the
  factor. From the second, fees cannot be swept from a market before it settled.
* **`BooksInv`** holds the four sums together with "an account that does not exist holds
  nothing", without which opening an account again would forget a balance. `TotalOfUpdate`
  gives each step; with the sums exact, one entry is at most the total
  (`EntryAtMostTotal`), so no saturating subtraction saturates. `TotalOfUpdate` is
  proved by counting a disjoint union, which needs no induction over data.
* **`CoverInv`** joins these two with `AnchorsBehindFactor` and `FullFactorCoversEveryone`,
  which need each other. A vault at `WAD` pays a claim whole only because its anchor is
  below `WAD`; and a claim never leaves an anchor at `WAD` behind only because the vault at
  `WAD` covers it. The factor reaches `WAD` by a first exit (the vault covers the supply)
  or by a re-settlement: then the vault covers the supply and `claim_weight_sum -
  claim_offset_sum`, which is at least the reserve, since the line of every debt reaches the
  debt at `WAD` (`LineReachesDebt`, summed over the positions by `TotalOfSum` and
  `TotalMonotone`). `WAD` above 1 keeps the lowest factor apart from the full one.
* **`SolvencyInv`** adds to it that the books are funded while the factor is above 1:
  the vault, plus one unit for each lender *anchored at the factor of now*, covers what
  the factor promises. One unit for every lender with a debt, the first statement of the
  property, is not enough to carry the proof: it would let the units pile up over several
  exits. Counting the anchors does: an exit that recovers a debt rounded up leaves its
  lender anchored at the factor (`RecoveryLine`), another exit at that factor recovers
  nothing, and a re-settlement computes its factor from the vault and the bounds of
  `HaircutState`, which dominate the claims of all debts, so that at the new factor no
  unit is missing (`ResettledFactorIsFunded`). A claim moves an anchor to the factor and
  pays at most what the promise loses. A factor above 1 was not clamped from below, and
  that is why it is funded; at 1 the property follows for balances below `WAD` from the
  anchors alone (`LowestFactorIsFunded`).
* **Clearing** needs no invariant of its own. `FundedClearingNeverStalls` is about checks
  alone, `...Accepted`; that these are the whole guard of each action is a lemma for each
  (`ForceCloseIsGuarded` and so on: the action is its checks and an assignment to every
  variable). Once the grace period is over, `SettlementInv` makes every accrual pass and change
  nothing. The line of a haircut is at `WAD` less than two units above the haircut
  (`LineStopsAtDebt`), so all lines together exceed the reserve by at most one unit per
  lender (`BoundsStopAtDebts`), and a vault with that much more computes the factor `WAD`
  (`FundedOffersWad`): the slack in `FullyFunded` is exactly what the proof uses. At `WAD`,
  `CoverInv` gives the vault enough for each exit and claim. For
  `ExitsShortByUnitsOnly`, `SolvencyInv` is taken at the factor of the exit about to
  happen (`ExitsAreFunded`), and one lender's recovery is at most its own line and one unit.
* **`ClaimsInv`** is `SettlementInv` with `BooksInv`. Under it, one lemma per action maps a
  step to a step of `LenderClaims` or a stutter. The work is in `Exit`: the parts of a
  balance rounded down separately lose at most one unit (`MulWadSplits`), and the payout,
  the rebase and the gap add up.
* **`CreditInv`** is `TypeInv` with `DebtMirrorsMarket`: the handlers test the counter, the
  abstract specification the debt, and the two are the same number.

For the protocol, **`ProtocolInv`** is `ConfigInv` (types and held roles) and `LoanInv`:
types, `TermsAreBounded`, `DebtsAddUp`, that interest payments are counted among all
payments, and that a market that was never opened owes nothing. The last is what
makes `create_market` add no debt when it sets the counters to zero.

From the same invariant follows `DebtsStayPayable`. Its guards are those of
`Repay`, stated apart from its effect and shown to be the same action
(`RepayIsGuarded`). A debt is at most the shared counter, being one term of its sum, so the
comparison of `repay.rs` with that counter refuses nobody.

For the interest:

* **Recursion.** The loop of `pow_wad` and the yardstick `EverySecond` are recursive
  functions. The library's theorems on recursion take an operator as a parameter, so
  `RecursionExists` proves what is needed with sets: a recursion whose rank falls with
  every step is satisfied by some function, and then by the one that is defined.
  `PowLoopRuns` and `EverySecondSteps` instantiate it, `SetInduction` and `LoopInduction`
  are the inductions over it.
* **At the least.** A product of growths is at least their sum (`MulWadAbove`): so
  `pow_wad` to the power `n` of `1 + d` is at least `1 + n * d` (`PowAtLeastLinear`), and a
  growth at least simple interest but for what the divisions of rates round off.
* **At the most.** `Slow(t)` is the set of growths that move the yardstick no further than
  `t` seconds do, wherever on it a balance stands. The growth of a day, simple interest,
  is slow for its seconds, and slow growths compounded are slow for both periods together
  (`SlowCompounds`). So squaring is (`PowIsSlow`), the growth of any period is, and the
  scale is, however the calls cut the time. Comparing the scale with the yardstick at the
  end only, as the property does, would not be inductive.
* **Fees.** Each call charges at most its rate's share of what the scale gains in it and of
  one unit, on the supply it finds (`FeesOfACall`); `charged` adds these up, and the fees
  stay within it (`NextFeesWithin`). The supply is never above the cap on principal, as a
  deposit is entered at a scale of at least one (`DepositIsBacked`) and the cap is checked
  against the principal; so `charged` is at most the highest rate on what the cap would have
  earned from the start (`ChargedWithinCap`), which bounds the fees by constants.
* **Overflow.** The products of the growth and of the fees are bounded by the yardstick at
  the term's end (`ProductsFit`), those of the rates by the rate of a day (`RatesFit`).
  `HasRoom`, the premise of `InterestAlwaysAccrues`, speaks of constants only: the yardstick
  has to fit in 128 bits, valued with `WAD`, with `BPS` and with the cap; so have the
  annual rate for the seconds of a day and a year's seconds in `BPS`; the days of the term in
  32 bits, and the fees at the highest rate in 64. At 100% over five years the yardstick ends
  at 148.4 `WAD`: 1.5e38 against 2^128 = 3.4e38 for the products, 8.7e26 for the rates, 1,825
  days, and the fees fit up to a cap of some 125 billion USDC. It holds in the run
  `accrual` too.

Not proved, and why: the liveness properties rest on fairness, and `DebtCanBeRepaid` is about
`ENABLED`; both are out of the prover's reach and stay with TLC. Of the second,
`DebtsStayPayable` proves what the handler decides. Of the liveness of a funded market,
`ClearingNeverStalls` and `ClearingNeverGoesBack` prove all but the fairness: the due
instruction is accepted, it moves the market on, and no step moves it back. Of
`OnlyUnitsKeepAnyoneIn`, `ShortByUnitsOnly` proves the bound.

## 6. What is not modelled

* Account validation, byte layout, padding and versions: they select accounts and keep
  no state. The check of `initialize_protocol` that the blacklist program is not the zero
  address is among them. Event logs: output only.
* The vault inside `Protocol`: see section 2. A run with lenders in two markets of one
  borrower at once would multiply two state spaces that share nothing but the whitelist
  entry, and that is what `Protocol` models.
* `u128` overflow in `Market`: see section 2. In `Accrual` it is modelled.
* `logic/kani_proofs.rs`, fuzz targets and tests: other verification of the same code.

## 7. Plan

What the inventory lists for modelling is modelled. What could be added is a proof of what the
liveness properties say, for a prover that reasons about fairness.
