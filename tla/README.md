# Verification of the chiefliquidity program

chiefliquidity is a Solana program: a constant-product pool of two tokens, A and
B, that also lends.  Borrowers lock one token in the pool's vault as collateral
and take the other out of the liquidity providers' inventory.  There are no
liquidators: every swap must carry, and liquidate on the way, each loan that its
own price movement triggers.  This directory holds TLA+ models of the on-chain
program (`programs/chiefliquidity/src`), TLC configurations and TLAPS proofs.

## 1. Inventory of the system

| Component | State it keeps | Operations | What makes it correct |
|---|---|---|---|
| Pool account (`state.rs`) | debt, collateral and fee totals per side, borrow index per side and its slot, open-loan counter, a bitmap of populated bands per direction, reference price and its slot | `swappable`, `accounted`, `bump_indexes`, `ref_price_at`, bitmap operations | totals equal the sums over loans; the earmarks in a vault never exceed its balance |
| Loan accounts (`state.rs`) | sides, collateral, principal, index snapshot, trigger, band, status | opened, repaid and closed, tombstoned, reclaimed | an open loan can be repaid; a triggered loan does not survive a swap |
| LoanIndexBand accounts (`state.rs`) | number of members | member added or removed; never closed | count = members; bit set just when count is not 0 |
| Arithmetic (`math.rs`) | none | prices, quotes, triggers, bands, rates, index, average | rounding direction, saturation, monotone bands |
| InitializePool | creates the above | mint allowlist, canonical order, four accounts at predictable addresses; parameters are compile-time constants | a mint stays what was checked; nobody can block a pair; the asserts on the parameters |
| AddLiquidity, RemoveLiquidity | vaults, LP mint | first and later deposits, burns, supply floor, coverage check | rounding never takes from the other providers; a full exit leaves nothing outstanding |
| OpenLoan, RepayLoan | all of the above | LTV at spot and at the reference, band membership, interest | see above |
| Swap | all of the above | parsing the supplied bands and loans, completeness proof, liquidation loop, settlement | no triggered loan is skipped; the product of the reserves does not fall |
| ClaimProtocolFees, ClaimLiquidatedRent | fees; tombstones | permissionless payout; rent refund | pays what is earmarked |
| Account creation (`account_utils.rs`) | lamports, owner and data of an account | create or adopt, recognise a revived account, close | no address is blocked, no live account is re-initialised |
| Events (`events.rs`) | none; one log record per instruction and per liquidation | emit | adding them up gives the state of the accounts |
| `error.rs`, `lib.rs`, IDL, scripts | - | codes, dispatch | - |

The components interact only through accounts.  An instruction locks the Pool
account, so instructions on one pool are serialised, and an error reverts
everything.  What is hard is therefore not threads but *sequences*: instructions
of many users in any order, a swap whose loop changes its own price, bands that
are emptied and reused, counters and bitmaps kept beside the loans they
summarise, several instructions in one transaction with accounts closed and
revived between them, values cached on a loan when it opens and used much later, transfers
and LP burns that bypass the program, and integer rounding everywhere.
`PROJECT.json` lists these hazards with their lines and properties.

## 2. Modules

* **LiquidityMath** - the formulas of `math.rs` and the pure parts of the
  instructions, with the code's rounding, under the code's names.  The units
  (`WAD`, `BPS_DENOM`, word width, band offset) and the pool parameters are
  constants; `ParametersAssumption` is the list of compile-time asserts of
  `initialize_pool.rs`.  The code's 128 and 256 bit intermediates do not overflow
  for 64-bit amounts, so they are plain integers; where the code saturates (the
  borrow index) the model does.
* **LiquidityPool** - one pool and everything that acts on it.

  | Variable | Code |
  |---|---|
  | `pool` | the `Pool` account; `..._a`/`..._b` fields are functions of the side, the two 128-bit bitmaps sets of bands |
  | `real` | balances of `vault_a`, `vault_b` |
  | `lp_supply` | supply of the LP mint |
  | `loan` | the `Loan` account at each address: `"none"`, `"open"` or `"liquidated"` (the tombstone) |
  | `allocated`, `count` | which `LoanIndexBand` accounts exist, and the count each stores |
  | `slot` | the Clock sysvar |
  | `tx` | the swap in flight: its arguments, the parsed tail, the loans liquidated so far and the handler's in-memory copy of the Pool |

  Each instruction is one action named after it; a guard is an error return.
  `Swap` is four: `BeginSwap` (all checks before the loop, interest, the sample
  of the reference price), `LiquidateNext` (one iteration that liquidates),
  `CommitSwap` (the loop has ended, every later check passes, everything is
  written) and `AbortSwap` (some check fails and the instruction reverts).  While
  `tx` is in flight nothing else acts: the steps unfold the loop, they do not add
  interleavings.  `Donate` (tokens sent to a vault), `BurnLp` (LP tokens burned
  through the token program) and `Tick` stand for what happens outside.

  The direction of a loan is that of its collateral side: a loan with collateral
  A is liquidated when the price of A in B falls, and a swap paying in A makes it
  fall.  So bitmaps, bands and swaps are indexed by the collateral side.
  The caller of a swap chooses the boundary and any tail the parser accepts
  (`Tails`): bands in any order, empty bands included, each with as many distinct
  open members in ascending key order as its count says.
* **LendingLedger** - what the pool promises its users: two vaults, fees, loans,
  shares.  No totals, counters, bands, bitmaps, index or reference price; nobody
  lists accounts; a trade with all its liquidations is one step, after which no
  loan of its direction is past its trigger.  **LedgerRefinement** maps
  LiquidityPool to it: vault balances to `cash`, accounts to `loans`, and
  everything else, the swap in flight included, to nothing.
* **LiquidityEvents** - LiquidityPool composed with the events of `events.rs` and
  an off-chain indexer (external) that follows the pool by them alone.  Each step
  emits what the handler emits, liquidations before the swap they belong to, with
  the amounts the handler computed rather than the change of the balances; a
  reverted swap emits nothing.  `emit` would also drop an event that cannot be
  serialised; the code notes that this branch is not reached (`events.rs:26-28`),
  and the model has no such loss.
* **AccountUtils** - `create_pda_account`, `is_zeroed_program_account` and the
  closing of an account, on records of lamports, owner and data (empty, all-zero
  or written).
* **LoanAccounts** - the Loan and band accounts of one direction *inside*
  transactions: `BeginTx`, up to `MAX_IX` instructions (OpenLoan, RepayLoan, the
  account writes of Swap, ClaimLiquidatedRent, a transfer of lamports by anyone),
  `EndTx` with the runtime's rent check and removal of empty accounts, or
  `AbortTx`.  Prices are left out: a swap may liquidate any set of listed loans.
  `Init` allows all-zero accounts left by the version that closed bands
  (`open_loan.rs:206-211`).
* **PoolCreation** - InitializePool against mints that their owners create, close
  at zero supply, re-create differently and extend (external), and addresses
  somebody pre-funds.  The values InitializePool writes are `Init` of
  LiquidityPool.
* **LoanTriggers** - one accepted loan while the reserves move: the rounded
  trigger and band of LiquidityMath against exact ratios.  `Move` is the loan's
  environment, any change of the reserves by whatever instruction; it translates
  no particular lines and is therefore not in the map of `PROJECT.json`.
* **IntegerSqrt** - the Newton loop of `isqrt_u128`, one step per iteration, on
  words of `W` bits.  LiquidityMath uses its result.
* The **MC** modules and the `.cfg` files - small instances for TLC.
* The **Proofs** modules - lemmas and theorems: LiquidityMathProofs (arithmetic,
  sums), LiquidityPoolProofs (types, solvency, shares, product, reference price),
  LoanIndexProofs (books, bands, liquidation), LedgerProofs (refinement, events),
  PoolCreationProofs, LoanAccountsProofs, LoanTriggersProofs, IntegerSqrtProofs.

How they fit: LiquidityMath is used by LiquidityPool, LendingLedger and
LoanTriggers; AccountUtils by LoanAccounts and PoolCreation; LiquidityEvents and
LedgerRefinement extend LiquidityPool and are checked together.  LiquidityPool
treats an instruction as atomic and its accounts as well formed, which is what
LoanAccounts and PoolCreation establish.

Operators ending in `_fault` are plausible defects of the operator they precede.
No specification uses them; putting one in place of the original makes the
property named in `PROJECT.json` fail.

## 3. Runs

The instances of LiquidityPool and LoanTriggers use a small currency (`WAD = 20`, `BPS_DENOM = 10`, bands of a
factor two between 0 and 6) so that rounding, band changes and triggers occur
with amounts below 20.  `MAX_TAIL = 2` is enough to list every band the loan
terms can populate in one direction; `MAX_SLOT`, `LP_MAX` and `SUPPLY` bound the
rest.

| Run | What it explores | Properties |
|---|---|---|
| lending | two loan addresses, terms in both directions of which two share a band and one lies in another, swaps both ways with three boundaries, fees on. Reached: one and two liquidations in a swap, one loan liquidated while another survives, two populated bands listed, a populated band left out beyond the boundary, a cascade that empties a side (ZeroReserves), Insolvent, a boundary that proves wrong, bands emptied and reused, reclaimed addresses | `Solvency`, `TotalsExact`, `IndexExact`, `SwapLeavesNoTriggered`, `SwapKeepsProduct` |
| interest | four slots, a steep rate, an index cap of 1.5 so that it saturates; loans opened in different slots, repaid with interest or liquidated | `TypeOK`, `TotalsExact`, `Repayable`, `RefPriceFixedInSlot` |
| shares | two kinds of deposits, three sizes of withdrawal, direct burns below the floor, donations, loans in both directions, two slots; no swaps, whose price movement changes the value of a share by design | `Solvency`, `ShareValueKept`, `FullExitClean` |
| exit | withdrawals and burns interleaved with swaps and liquidations, slippage limits 0 and 3; two loans and a cap of one liquidation per swap, so that the cap is reached | `AccountedPositive` |
| ledger | every instruction, two loans in opposite directions, donations and burns of LP tokens, two slots with interest | `ViewExact`, `ImplementsLedger` |
| progress | swaps that trigger none, one or two loans with room for one liquidation, under fairness | `SwapEnds` |
| accounts | three loan and two band addresses, each absent or left all-zero at the start, a cap of two loans per band, seven lamports to spend, three instructions per transaction | `TypeOK`, `MembersExact`, `NeverBlocked`, `RentExempt` |
| pool_creation | two mints of either token program with every combination of extension classes, pool and vault addresses pre-funded below, at and above the rent | `TypeOK`, `MintsStayVetted`, `CreationNeverBlocked`, `DecimalsFixed` |
| loan_triggers | all loans up to 9 tokens accepted at reserves up to 10, then all reserves up to 10 | `NoneEscapes`, `TakenInTime`, `BandHolds` |
| integer_sqrt | every word of 12 bits | `FloorSqrt`, `StaysInWord`, `Terminates` |
| insolvent | *violation*: DESIGN.md calls the `Insolvent` error of Swap one that should not happen | `PayoutAlwaysCovered` |
| slot_close | *violation*: `state.rs` says spot is the previous slot's close until the first swap | `SpotIsPreviousClose` |

Bounds.  `accounts`: three loans fill one band (cap two) and spill into the other;
three instructions are the shortest transaction that closes, tops up and reuses an
account; rents of 2 and 1 with transfers of 1 give balances below, at and above
each minimum.  Addresses of one kind are interchangeable, hence the symmetry; it
is a safety run.  `pool_creation`: a policy about one mint and an order of two need
no third.  `integer_sqrt`: 12 bits contain 64 perfect squares with both neighbours
and the largest word; the code's loop is the same for 128.  `ledger` has one
boundary that admits each direction.

Deadlock checking is off in `shares`, `exit`, `ledger` and `progress`, where with
bounded deposits and supplies everybody may have left or may have nothing left to
spend and nobody is obliged to act, and in `integer_sqrt`, where the loop ends.

Fairness.  Nothing obliges a user to send an instruction, so no instruction is
assumed to happen.  What is fair is the runtime: an instruction it has started is
executed until it returns (`FairSpec`: weak fairness of the steps of a swap in
flight; `Spec` of IntegerSqrt: weak fairness of the loop).  Compute limits, which
end an instruction with a revert, only help.

What they show:

* `TotalsExact`, `IndexExact` are the invariants I2-I4 that the randomised test
  `tests/typescript/test_adversarial.ts` samples; here they hold after every
  sequence of the instance.  `IndexExact` fails as soon as the presence bit is
  keyed on the band account instead of its count.
* `SwapLeavesNoTriggered` is the promise of the design: whatever bands, loans and
  boundary the caller chooses, when a swap settles no loan in its direction, listed
  or not, is past its trigger at the price the vaults then show.
* `AccountedPositive`: no side of a pool with LP tokens outstanding is zero
  between instructions.  Inside its loop a swap may meet an empty reserve, and then
  reverts with `ZeroReserves`.
  The case the comment at `remove_liquidity.rs:254-256` provides for (a side "all
  of it lent out and then forgiven by a liquidation") is not reachable: the loop
  of Swap refuses to go on with an empty reserve, so such a swap reverts.
* `ImplementsLedger`: whatever the caller of a swap supplies, users see a ledger in
  which locked, lent and free tokens are computed from the loans.  Dropping the
  presence bit of one reused band refutes it several instructions later, in a
  trade that spares a triggered loan.
* `ViewExact`: an indexer needs no account reads to know every open loan with its
  band and trigger, which is what the caller of a swap has to list.
* `SwapEnds`: the loop, which has no counter of its own, always ends in a
  settlement or a revert.
* `MembersExact` holds after every instruction, within transactions too: neither
  the re-initialisation of an all-zero band nor a revived loan loses a member.
  `NeverBlocked`, `CreationNeverBlocked`, `RentExempt`: pre-funding is harmless.  (A
  loan closed and topped up before its transaction ends keeps its bytes; OpenLoan
  refuses that address and the borrower picks another nonce.)
* `MintsStayVetted`, `DecimalsFixed`: allowing a close authority only while it is
  unset is enough; with any close authority both fail once a mint is re-created.
* `NoneEscapes`, `TakenInTime`: the trigger rounds against the borrower on both
  sides and by less than one unit of price.  `BandHolds` is why a swap may leave
  out the bands beyond the one it ends in.
* `FullExitClean` is the argument written above `check_supply_floor`.
* The two violations are disagreements between a document and the code, described
  in `PROJECT.json` under findings.  Neither endangers solvency.

## 4. Proofs

Every safety invariant and every action property of the passing runs, and the
refinement, is a theorem of its specification for every value of the constants:
any number of loans, bands, mints and addresses, any amounts, any parameters the
asserts of `initialize_pool.rs` allow, any width of word.

| Module | Theorems |
|---|---|
| LiquidityPoolProofs | `TypeCorrect`, `Solvent`, `AlwaysPriced`, `ShareValue`, `ProductKept`, `RefPriceFixed` |
| LoanIndexProofs | `TotalsAlwaysExact`, `IndexAlwaysExact`, `AlwaysRepayable`, `NoLoanLeftBehind`, `CleanExit` |
| LedgerProofs | `PoolImplementsLedger`, `EventsSuffice` |
| LoanAccountsProofs | `AccountTypes`, `CountsExact`, `AddressesUsable`, `AlwaysRentExempt` |
| PoolCreationProofs | `CreationTypes`, `VettedForGood`, `AlwaysCreatable`, `DecimalsForGood` |
| LoanTriggersProofs | `LiquidatableWhenDue`, `LiquidatedInTime`, `BandsSortTriggers` |
| IntegerSqrtProofs | `RootExact`, `SumInWord` |

**Assumptions.**  `UnitsAssumption` and `ParametersAssumption` (the compile-time
asserts), `SystemAssumption`, `InputsAssumption`, `AmountsAssumption` (finite sets
of addresses, inputs that are naturals), `AddressAssumption`, `RentAssumption`,
`MintAssumption`, `FundingAssumption`, `WidthAssumption` (at least four bits), and
the two `PowersAssumption`s.  The latter state arithmetic facts about powers of
two (they are naturals and grow; in IntegerSqrt also that exponents add), because
the provers do not interpret `^`.  TLC evaluates all of them on the runs.

**Types and solvency** (`SafeInv`).  Solvency of the account after a swap depends
on the in-memory Pool the swap worked on, so `SafeInv` asks the same soundness
(`PoolOK`: earmarks covered, not ahead of the clock, index at most its cap) of
both copies; that no liquidation takes collateral of the wrong side depends on the
tail holding only loans of the swap's direction, so `SafeInv` says the tail is one
the parser accepts in the present state (`SwapOK`).  Natural-number typing of
interest, quotes and triggers rests on the lemmas of LiquidityMathProofs
(`MulDiv`, `QuoteOut`, `ProtocolPortion`, `BumpIndex`, `BandMonotone`, ...).  There
is one lemma per action, and `SafeNext` combines them.  The reference price needs
one more fact, `RefInv`: in a slot already sampled, the in-memory Pool of a swap in
flight carries the price of the account.  `ShareValue` is the rounding lemmas
`DepositFair` and `WithdrawFair`, `ProductKept` is `CurveKeepsProduct`.

**Books and bands** (`IndexInv`).  The totals are the sums over the open loans
(`Books(pool, {})`), the counters and bits show the bands (`Bands`), open loans are
well formed (`LoansOK`), indexes are not zero.  None of this survives a swap on its
own: between its begin and its settlement `IndexInv` says that the in-memory Pool
lacks exactly the loans taken so far (`Flight`), which settlement turns into exact
books again.  `NoLoanLeftBehind` adds two arguments: as many distinct members as
the count says are all the members (`ListedAll`, a pigeonhole), and a populated
band the caller may leave out lies beyond the boundary, hence beyond the price
(`BeyondBoundary`, from `BandMonotone`).  `AlwaysRepayable` shows that one loan is
part of each sum it is subtracted from (`LoanBooked`).

**Refinement.**  `Agrees`: what the ledger computes from the loans - free tokens,
claims, price - is what the handlers compute from the totals.  It follows from
`SafeInv` and `IndexInv`, before and after each step.  One lemma per instruction
then shows a step of the ledger (`TradeStep` turns a settled swap with its
liquidations into one trade), and `SilentStep` that the begin of a swap, its
liquidations in flight, a revert and the clock change nothing the ledger sees.

**Events** (`ViewInv`: the indexer's view is the state of the pool).  One lemma per
instruction; for a swap, `SoldFold` shows that applying the liquidation events in
any order takes off the sums over the loans sold.

**Accounts.**  `AccountsInv` asks of the current state and of the state a failing
transaction returns to that each address holds an account of its own kind, funded
or removable, and that each band counts its members (`Sound`).  `CreationInv` adds
to the types that a legacy mint has no extensions (`MintsSane`) and that a pool's
mints have no close authority (`PoolsVetted`), without which a mint could be
re-created.

**Arithmetic.**  `TriggersInv` keeps what OpenLoan checked of the terms; the
theorems compare floors with exact ratios.  `SqrtInv`: the estimate is at or above
the root (`Above`), so that the iteration ends on it.

**Sums and folds.**  The provers cannot instantiate induction theorems that take a
predicate.  Facts about sums over sets and folds over sequences are proved from a
smallest counterexample instead: `Smallest` gives a minimal member of a set of
finite sets, and `SumsExist`, `SumsAgree`, `SumTake`, `FoldIs`, `SoldFold` look at
the step below it.  `SumOf` and `FoldLeft` are thereby shown to be what their
recursion says.

**Model-checked only.**  `SwapEnds` and `Terminates`, liveness under fairness, are
out of the prover's reach; so are the two runs that show a violation.

## 5. Not modelled

* Bytes: account layouts, discriminators, PDA derivation, signers, owners, token
  program and decimals checks.  Every account passed is the right
  one, and PoolCreation and LoanAccounts say when an account can become one.
* `last_update_slot`, `next_loan_nonce` and the informational
  slots of a loan, which the program writes and never reads.
* The bytes of the presence bitmaps: `bitmap_set`, `bitmap_clear`, `bitmap_is_set`
  and `bitmap_iter_set_range` are the set operations they compute.
* `wad_mul` and `wad_div`, which only tests call; bump seeds and PDA derivation.
* Error codes (a failed guard is a failed guard), decoding of instruction data,
  discriminators and encoding of events, IDL, scripts, client code.
* Transfer fees: InitializePool refuses mints that have them.

## 6. Status

The models cover every component that changes state; every safety invariant, action
property and refinement of the passing runs is proved, and liveness is
model-checked.  A new instruction goes into LiquidityPool with a lemma in each of
LiquidityPoolProofs, LoanIndexProofs and LedgerProofs, and one in the event part of
the latter.

A revert is atomic in the models (`AbortSwap`, `AbortTx` restore the state), which
is what the runtime guarantees; no property here is evidence for that.
