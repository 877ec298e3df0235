---------------------------- MODULE LiquidityPool ----------------------------
(* One pool of the chiefliquidity program: the Pool account, its two vaults,   *)
(* the LP mint, the Loan accounts and the LoanIndexBand accounts, under the    *)
(* program's instructions.                                                     *)
(*                                                                             *)
(* An instruction runs alone (it holds the write lock of the Pool account) and *)
(* an error reverts everything it did, so each is one atomic action whose      *)
(* guards are the error returns.  Swap is the exception: its liquidation loop  *)
(* is unfolded into steps over the in-memory copy of the Pool that the handler *)
(* works on (variable tx), and nothing else runs until it settles or reverts.  *)
EXTENDS LiquidityMath, Sequences, FiniteSetsExt

CONSTANTS
    LoanId,           \* loan addresses, as naturals: the order is the key order
    SUPPLY,           \* SUPPLY[s]: tokens of side s in existence
    LP_MAX,           \* largest LP supply the mint can represent
    MAX_LOANS,        \* cap on the open loans of one band: 64
    MAX_LIQ_PER_SWAP, \* cap on the liquidations of one swap: 8
    MAX_TAIL,         \* bound: bands one transaction can list
    MAX_SLOT,         \* bound: last slot explored
    \* The inputs callers choose from.
    Deposits,         \* pairs <<amount_a_max, amount_b_max>>
    Burns,            \* LP amounts handed to RemoveLiquidity
    LoanTerms,        \* triples <<collateral side, collateral, debt>>
    SwapIns,          \* pairs <<input side, amount_in>>
    Mins,             \* slippage limits
    Boundaries,       \* values of band_boundary
    Donations,        \* pairs <<side, amount>> sent to a vault directly
    DirectBurns       \* LP amounts burned through the token program

ASSUME SystemAssumption ==
    /\ LoanId \subseteq Nat /\ IsFiniteSet(LoanId)
    /\ SUPPLY \in [Side -> Nat]
    /\ LP_MAX \in Nat
    /\ MAX_LOANS \in Nat /\ MAX_LIQ_PER_SWAP \in Nat
    /\ MAX_TAIL \in Nat /\ MAX_SLOT \in Nat

ASSUME InputsAssumption ==
    /\ Deposits \subseteq Nat \X Nat
    /\ Burns \subseteq Nat /\ DirectBurns \subseteq Nat
    /\ LoanTerms \subseteq Side \X Nat \X Nat
    /\ SwapIns \subseteq Side \X Nat
    /\ Mins \subseteq Nat /\ Boundaries \subseteq Nat
    /\ Donations \subseteq Side \X Nat

VARIABLES
    pool,       \* the Pool account
    real,       \* real[s]: balance of the vault of side s
    lp_supply,  \* supply of the LP mint
    loan,       \* loan[l]: the Loan account at address l
    allocated,  \* allocated[c]: bands of direction c whose account exists
    count,      \* count[c][b]: the member count band b stores
    slot,       \* the clock
    tx          \* the swap in flight, or IdleTx

vars == <<pool, real, lp_supply, loan, allocated, count, slot, tx>>

-------------------------------------------------------------------------------
(* Accounts.                                                                   *)

Zero == [s \in Side |-> 0]

InitialPool ==
    [total_debt |-> Zero, total_collateral |-> Zero, protocol_fees |-> Zero,
     borrow_index |-> [s \in Side |-> WAD], last_index_update_slot |-> 0,
     open_loans |-> 0, band_bitmap |-> [c \in Side |-> {}],
     ref_price |-> 0, ref_price_slot |-> 0]

\* No account at the address.
NoLoan ==
    [status |-> "none", side |-> "A", collateral |-> 0, principal |-> 0,
     snapshot |-> 0, trigger |-> 0, band_id |-> 0]

IdleTx == [in |-> "none"]

Init ==
    /\ pool = InitialPool
    /\ real = Zero
    /\ lp_supply = 0
    /\ loan = [l \in LoanId |-> NoLoan]
    /\ allocated = [c \in Side |-> {}]
    /\ count = [c \in Side |-> [b \in BandId |-> 0]]
    /\ slot = 0
    /\ tx = IdleTx

\* Tokens of side s that users hold.
Outside(s) == SUPPLY[s] - real[s]

is_open(l) == loan[l].status = "open"

-------------------------------------------------------------------------------
(* Pool accounting (state.rs).  p is a Pool, r the vault balances it was read  *)
(* with.                                                                       *)

\* The two checked subtractions of `swappable` succeed on both sides.
Covers(p, r) ==
    \A s \in Side : p.total_collateral[s] + p.protocol_fees[s] <= r[s]

swappable_fault(p, r, s) == r[s] - p.protocol_fees[s]    \* spends collateral

swappable(p, r, s) == r[s] - p.total_collateral[s] - p.protocol_fees[s]

accounted(p, r) == [s \in Side |-> swappable(p, r, s) + p.total_debt[s]]

spot_price(p, r) == price_b_per_a_wad(accounted(p, r)["A"], accounted(p, r)["B"])

bump_indexes(p, r, now) ==
    IF now = p.last_index_update_slot
    THEN p
    ELSE [p EXCEPT
            !.borrow_index =
               [s \in Side |->
                  bump_index_wad(p.borrow_index[s],
                     compute_borrow_rate(
                        utilization_wad(p.total_debt[s], accounted(p, r)[s])),
                     now - p.last_index_update_slot)],
            !.last_index_update_slot = now]

ref_price_at(p, spot, now) ==
    IF p.ref_price # 0 /\ now = p.ref_price_slot
    THEN p.ref_price
    ELSE ema_ref_price_wad(p.ref_price, spot, now - p.ref_price_slot)

-------------------------------------------------------------------------------
(* Liquidity providers.                                                        *)

\* Amounts charged and LP minted for a deposit, or lp = 0 where derive_deposit
\* errors.
derive_deposit(a_max, b_max, acc) ==
    IF lp_supply = 0
    THEN [in |-> [s \in Side |-> IF s = "A" THEN a_max ELSE b_max],
          lp |-> IF a_max >= MIN_FIRST_DEPOSIT /\ b_max >= MIN_FIRST_DEPOSIT
                    /\ isqrt(a_max * b_max) >= MINIMUM_LIQUIDITY
                 THEN isqrt(a_max * b_max) ELSE 0]
    ELSE IF acc["A"] = 0 \/ acc["B"] = 0
    THEN [in |-> Zero, lp |-> 0]
    ELSE LET m  == matched_deposit(a_max, b_max, acc)
             lp == lp_for(m, acc, lp_supply)
         IN  [in |-> deposit_charge(lp, m, acc, lp_supply),
              lp |-> IF m["A"] = 0 \/ m["B"] = 0 THEN 0 ELSE lp]

AddLiquidity(a_max, b_max, min_lp_out) ==
    LET p == bump_indexes(pool, real, slot)
        d == derive_deposit(a_max, b_max, accounted(p, real))
    IN  /\ tx = IdleTx
        /\ a_max # 0 /\ b_max # 0
        /\ Covers(pool, real)
        /\ d.lp # 0
        /\ d.lp >= min_lp_out
        /\ d.lp + lp_supply <= LP_MAX
        /\ \A s \in Side : d.in[s] <= Outside(s)
        /\ real' = [s \in Side |-> real[s] + d.in[s]]
        /\ lp_supply' = lp_supply + d.lp
        /\ pool' = p
        /\ UNCHANGED <<loan, allocated, count, slot, tx>>

executable_fault(p, r, out) == \A s \in Side : out[s] <= r[s]    \* whole vault

\* The vaults can pay out without touching collateral or fees.
executable(p, r, out) == \A s \in Side : out[s] <= swappable(p, r, s)

RemoveLiquidity(lp_amount, min_a_out, min_b_out) ==
    LET p   == bump_indexes(pool, real, slot)
        acc == accounted(p, real)
        out == withdrawal_amounts(lp_amount, acc, lp_supply)
    IN  /\ tx = IdleTx
        /\ lp_amount # 0
        /\ lp_supply # 0
        /\ lp_amount <= lp_supply
        /\ check_supply_floor(lp_supply, lp_amount)
        /\ Covers(pool, real)
        /\ \A s \in Side : out[s] = 0 => acc[s] = 0
        /\ out["A"] >= min_a_out /\ out["B"] >= min_b_out
        /\ executable(p, real, out)
        /\ real' = [s \in Side |-> real[s] - out[s]]
        /\ lp_supply' = lp_supply - lp_amount
        /\ pool' = p
        /\ UNCHANGED <<loan, allocated, count, slot, tx>>

-------------------------------------------------------------------------------
(* Loans.                                                                      *)

\* The less favourable of the loan-to-value ratios at spot and at the reference.
loan_ltv_bps(c, collateral, debt, acc, ref) ==
    MaxOf(ltv_bps(debt, collateral, acc[c], acc[Other(c)]),
          IF c = "A" THEN ltv_bps(debt, collateral, WAD, ref)
                     ELSE ltv_bps(debt, collateral, ref, WAD))

needs_presence_bit_fault(c, b) == b \notin allocated[c]    \* keyed on allocation

\* The band's presence bit must be set when its first member arrives: its
\* account may already exist, left allocated when it was emptied before.
needs_presence_bit(c, b) == count[c][b] = 0

OpenLoan(l, c, collateral, debt) ==
    LET d       == Other(c)
        p       == bump_indexes(pool, real, slot)
        acc     == accounted(p, real)
        trigger == recompute_trigger(c, collateral, debt)
        spot    == price_b_per_a_wad(acc["A"], acc["B"])
        ref     == ref_price_at(p, spot, slot)
        b       == band_id_for_trigger(trigger)
    IN  /\ tx = IdleTx
        /\ collateral # 0 /\ debt # 0
        /\ Covers(pool, real)
        /\ acc["A"] # 0 /\ acc["B"] # 0
        /\ c = "A" => ref # 0
        /\ loan_ltv_bps(c, collateral, debt, acc, ref) <= MAX_LTV_BPS
        /\ ~ is_liquidatable(c, trigger, spot)
        /\ debt <= swappable(p, real, d)
        /\ trigger # 0
        /\ loan[l].status = "none"
        /\ b \in BandId
        /\ count[c][b] < MAX_LOANS
        /\ collateral <= Outside(c)
        /\ loan' = [loan EXCEPT ![l] =
                      [status |-> "open", side |-> c, collateral |-> collateral,
                       principal |-> debt, snapshot |-> p.borrow_index[d],
                       trigger |-> trigger, band_id |-> b]]
        /\ allocated' = [allocated EXCEPT ![c] = @ \cup {b}]
        /\ count' = [count EXCEPT ![c][b] = @ + 1]
        /\ real' = [real EXCEPT ![c] = @ + collateral, ![d] = @ - debt]
        /\ pool' = [p EXCEPT !.total_collateral[c] = @ + collateral,
                             !.total_debt[d] = @ + debt,
                             !.open_loans = @ + 1,
                             !.band_bitmap[c] =
                                IF needs_presence_bit(c, b) THEN @ \cup {b} ELSE @]
        /\ UNCHANGED <<lp_supply, slot, tx>>

\* What loan x owes once the indexes of p are current.
owed(x, p) == owed_from_index(x.principal, x.snapshot, p.borrow_index[Other(x.side)])

debt_removed_fault(x, p) == owed(x, p)    \* takes the interest off too

\* Repaying takes the principal off the total; the interest stays in the vault.
debt_removed(x, p) == x.principal

\* The checks of RepayLoan that can fail whatever the borrower holds.
RepayChecks(l, p) ==
    LET x == loan[l]
    IN  /\ x.band_id \in allocated[x.side]
        /\ x.snapshot # 0
        /\ x.snapshot <= p.borrow_index[Other(x.side)]
        /\ x.collateral <= p.total_collateral[x.side]
        /\ x.principal <= p.total_debt[Other(x.side)]
        /\ x.collateral <= real[x.side]
        /\ p.open_loans >= 1
        /\ count[x.side][x.band_id] >= 1

RepayLoan(l) ==
    LET x == loan[l]
        c == x.side
        d == Other(c)
        p == bump_indexes(pool, real, slot)
    IN  /\ tx = IdleTx
        /\ is_open(l)
        /\ slot = pool.last_index_update_slot \/ Covers(pool, real)
        /\ RepayChecks(l, p)
        /\ owed(x, p) <= Outside(d)
        /\ real' = [real EXCEPT ![d] = @ + owed(x, p), ![c] = @ - x.collateral]
        /\ count' = [count EXCEPT ![c][x.band_id] = @ - 1]
        /\ pool' = [p EXCEPT !.total_collateral[c] = @ - x.collateral,
                             !.total_debt[d] = @ - debt_removed(x, p),
                             !.open_loans = @ - 1,
                             !.band_bitmap[c] =
                                IF count[c][x.band_id] = 1
                                THEN @ \ {x.band_id} ELSE @]
        /\ loan' = [loan EXCEPT ![l] = NoLoan]
        /\ UNCHANGED <<lp_supply, allocated, slot, tx>>

\* The tombstone a liquidation leaves keeps the address until its rent is
\* reclaimed; then the address is free again.
ClaimLiquidatedRent(l) ==
    /\ tx = IdleTx
    /\ loan[l].status = "liquidated"
    /\ loan' = [loan EXCEPT ![l] = NoLoan]
    /\ UNCHANGED <<pool, real, lp_supply, allocated, count, slot, tx>>

ClaimProtocolFees ==
    /\ tx = IdleTx
    /\ \E s \in Side : pool.protocol_fees[s] # 0
    /\ \A s \in Side : pool.protocol_fees[s] <= real[s]
    /\ real' = [s \in Side |-> real[s] - pool.protocol_fees[s]]
    /\ pool' = [pool EXCEPT !.protocol_fees = Zero]
    /\ UNCHANGED <<lp_supply, loan, allocated, count, slot, tx>>

-------------------------------------------------------------------------------
(* Swap.  The caller lists bands, each followed by its loans; the list is      *)
(* parsed into the tail, a sequence of [band, loans] records.  The loans of a  *)
(* band are `count` open members of it in strictly ascending key order, no     *)
(* band comes twice, and every populated band on the far side of the caller's  *)
(* boundary is listed.                                                         *)

members(c, b) ==
    {l \in LoanId : is_open(l) /\ loan[l].side = c /\ loan[l].band_id = b}

strictly_ascending_fault(ls) ==    \* admits duplicates
    \A i, j \in DOMAIN ls : i < j => ls[i] <= ls[j]

strictly_ascending(ls) == \A i, j \in DOMAIN ls : i < j => ls[i] < ls[j]

\* A band with its loans, as the parser accepts it.
Listings(c) ==
    UNION {{[band |-> b, loans |-> ls] :
               ls \in {f \in [1..count[c][b] -> members(c, b)] :
                          strictly_ascending(f)}} :
           b \in allocated[c]}

no_band_twice(t) == \A i, j \in DOMAIN t : t[i].band = t[j].band => i = j

Tails(c) ==
    {t \in UNION {[1..n -> Listings(c)] : n \in 0..MAX_TAIL} : no_band_twice(t)}

\* Bands on the side of the boundary that the swap may cross.
on_path(c, b, boundary) == IF c = "A" THEN b >= boundary ELSE b <= boundary

complete_walk(p, c, boundary, tail) ==
    \A b \in p.band_bitmap[c] :
       on_path(c, b, boundary) => \E i \in DOMAIN tail : tail[i].band = b

sample_ref_price_fault(p, r, now) ==    \* samples on every swap
    [p EXCEPT !.ref_price = ema_ref_price_wad(p.ref_price, spot_price(p, r),
                                              now - p.ref_price_slot + 1),
              !.ref_price_slot = now]

sample_ref_price(p, r, now) ==
    IF p.ref_price = 0 \/ now # p.ref_price_slot
    THEN [p EXCEPT !.ref_price = ref_price_at(p, spot_price(p, r), now),
                   !.ref_price_slot = now]
    ELSE p

\* Everything Swap does before its loop: validation, interest, the reference
\* price sample.
BeginSwap(c, amount, min, boundary, tail) ==
    LET p == bump_indexes(pool, real, slot)
    IN  /\ tx = IdleTx
        /\ amount # 0
        /\ complete_walk(pool, c, boundary, tail)
        /\ Covers(pool, real)
        /\ \A s \in Side : accounted(p, real)[s] # 0
        /\ tx' = [in |-> c, amount |-> amount, min |-> min,
                  boundary |-> boundary, tail |-> tail, liquidated |-> {},
                  pool |-> sample_ref_price(p, real, slot)]
        /\ UNCHANGED <<pool, real, lp_supply, loan, allocated, count, slot>>

\* The supplied loans, as places in the tail, in the order the loop scans them.
Entries(tail) == UNION {{i} \X DOMAIN tail[i].loans : i \in DOMAIN tail}

LoanAt(tail, e) == tail[e[1]].loans[e[2]]

Before(e, f) == e[1] < f[1] \/ (e[1] = f[1] /\ e[2] < f[2])

\* What the accounted input reserve grows by when the swap settles.
in_growth(amount) == amount - protocol_portion(amount)

quote(t) ==
    LET acc == accounted(t.pool, real)
    IN  cpmm_quote_out(t.amount, acc[t.in], acc[Other(t.in)])

\* The accounted reserves once swap t settles at its present quote.
settled(t) ==
    [accounted(t.pool, real) EXCEPT ![t.in] = @ + in_growth(t.amount),
                                    ![Other(t.in)] = @ - quote(t)]

post_swap_price(t) == price_b_per_a_wad(settled(t)["A"], settled(t)["B"])

LoopReserves(t) ==
    /\ \A s \in Side : accounted(t.pool, real)[s] # 0
    /\ settled(t)["A"] # 0

Triggered(t) ==
    {e \in Entries(t.tail) \ t.liquidated :
        is_liquidatable(t.in, loan[LoanAt(t.tail, e)].trigger, post_swap_price(t))}

\* Entry e is the loop's next liquidation, and its checked arithmetic succeeds.
NextLiquidation(t, e) ==
    LET x == loan[LoanAt(t.tail, e)]
    IN  /\ \A f \in Triggered(t) \ {e} : Before(e, f)
        /\ Cardinality(t.liquidated) < MAX_LIQ_PER_SWAP
        /\ x.collateral <= t.pool.total_collateral[t.in]
        /\ x.principal <= t.pool.total_debt[Other(t.in)]
        /\ t.pool.open_loans >= 1

write_off_fault(p, x) ==    \* keeps the debt on the books
    [p EXCEPT !.total_collateral[x.side] = @ - x.collateral,
              !.open_loans = @ - 1]

\* The Pool after loan x is written off: its collateral now belongs to the LPs.
write_off(p, x) ==
    [p EXCEPT !.total_collateral[x.side] = @ - x.collateral,
              !.total_debt[Other(x.side)] = @ - x.principal,
              !.open_loans = @ - 1]

\* One iteration of the loop that liquidates.
LiquidateNext ==
    /\ tx # IdleTx
    /\ LoopReserves(tx)
    /\ \E e \in Triggered(tx) :
          /\ NextLiquidation(tx, e)
          /\ tx' = [tx EXCEPT !.liquidated = @ \cup {e},
                              !.pool = write_off(@, loan[LoanAt(tx.tail, e)])]
    /\ UNCHANGED <<pool, real, lp_supply, loan, allocated, count, slot>>

\* The price the swap settles at lies on the caller's side of the boundary.
boundary_holds(t) ==
    /\ post_swap_price(t) # 0
    /\ on_path(t.in, band_id_for_trigger(post_swap_price(t)), t.boundary)

\* How many of the loans a swap liquidates are in band b.
liquidated_here(t, b) ==
    Cardinality({e \in t.liquidated : t.tail[e[1]].band = b})

\* The loop has ended and every later check of Swap passes.
Settles(t) ==
    /\ LoopReserves(t)
    /\ Triggered(t) = {}
    /\ quote(t) # 0
    /\ quote(t) >= t.min
    /\ quote(t) <= swappable(t.pool, real, Other(t.in))
    /\ boundary_holds(t)
    /\ \A b \in BandId : liquidated_here(t, b) <= count[t.in][b]
    /\ t.amount <= Outside(t.in)

tombstone(x) ==
    [x EXCEPT !.status = "liquidated", !.collateral = 0, !.principal = 0]

\* The end of Swap: fees accrue, liquidated loans and their bands are written
\* back, the tokens move and the Pool is saved.
CommitSwap ==
    LET c    == tx.in
        dead == {LoanAt(tx.tail, e) : e \in tx.liquidated}
    IN  /\ tx # IdleTx
        /\ Settles(tx)
        /\ pool' = [tx.pool EXCEPT
                      !.protocol_fees[c] = @ + protocol_portion(tx.amount),
                      !.band_bitmap[c] =
                         {b \in @ : liquidated_here(tx, b) = 0
                                    \/ count[c][b] # liquidated_here(tx, b)}]
        /\ loan' = [l \in LoanId |->
                      IF l \in dead THEN tombstone(loan[l]) ELSE loan[l]]
        /\ count' = [count EXCEPT ![c] =
                       [b \in BandId |-> @[b] - liquidated_here(tx, b)]]
        /\ real' = [real EXCEPT ![c] = @ + tx.amount, ![Other(c)] = @ - quote(tx)]
        /\ tx' = IdleTx
        /\ UNCHANGED <<lp_supply, allocated, slot>>

AbortSwap_fault ==    \* goes on at the cap on liquidations
    /\ tx # IdleTx
    /\ ~ Settles(tx)
    /\ LoopReserves(tx) => Triggered(tx) = {}
    /\ tx' = IdleTx
    /\ UNCHANGED <<pool, real, lp_supply, loan, allocated, count, slot>>

\* Some check of the loop or after it fails: the whole instruction reverts.
AbortSwap ==
    /\ tx # IdleTx
    /\ ~ Settles(tx)
    /\ ~ (LoopReserves(tx) /\ \E e \in Triggered(tx) : NextLiquidation(tx, e))
    /\ tx' = IdleTx
    /\ UNCHANGED <<pool, real, lp_supply, loan, allocated, count, slot>>

-------------------------------------------------------------------------------
(* What the rest of the chain does to these accounts.                          *)

\* Anyone may send tokens to a vault.
Donate(s, amount) ==
    /\ tx = IdleTx
    /\ amount <= Outside(s)
    /\ real' = [real EXCEPT ![s] = @ + amount]
    /\ UNCHANGED <<pool, lp_supply, loan, allocated, count, slot, tx>>

\* Holders may burn LP tokens through the token program.
BurnLp(amount) ==
    /\ tx = IdleTx
    /\ amount <= lp_supply
    /\ lp_supply' = lp_supply - amount
    /\ UNCHANGED <<pool, real, loan, allocated, count, slot, tx>>

Tick ==
    /\ tx = IdleTx
    /\ slot < MAX_SLOT
    /\ slot' = slot + 1
    /\ UNCHANGED <<pool, real, lp_supply, loan, allocated, count, tx>>

Next ==
    \/ \E d \in Deposits, min \in Mins : AddLiquidity(d[1], d[2], min)
    \/ \E x \in Burns, a, b \in Mins : RemoveLiquidity(x, a, b)
    \/ \E l \in LoanId, k \in LoanTerms : OpenLoan(l, k[1], k[2], k[3])
    \/ \E l \in LoanId : RepayLoan(l)
    \/ \E l \in LoanId : ClaimLiquidatedRent(l)
    \/ ClaimProtocolFees
    \/ \E k \in SwapIns, min \in Mins, boundary \in Boundaries :
          \E tail \in Tails(k[1]) : BeginSwap(k[1], k[2], min, boundary, tail)
    \/ LiquidateNext
    \/ CommitSwap
    \/ AbortSwap
    \/ \E k \in Donations : Donate(k[1], k[2])
    \/ \E x \in DirectBurns : BurnLp(x)
    \/ Tick

Spec == Init /\ [][Next]_vars

\* The runtime executes an instruction it has started until it settles or
\* fails; nobody is obliged to send one.
FairSpec == Spec /\ WF_vars(LiquidateNext \/ CommitSwap \/ AbortSwap)

-------------------------------------------------------------------------------
(* Properties.                                                                 *)

PoolType ==
    [total_debt: [Side -> Nat], total_collateral: [Side -> Nat],
     protocol_fees: [Side -> Nat], borrow_index: [Side -> Nat],
     last_index_update_slot: Nat, open_loans: Nat,
     band_bitmap: [Side -> SUBSET BandId], ref_price: Nat, ref_price_slot: Nat]

LoanType ==
    [status: {"none", "open", "liquidated"}, side: Side, collateral: Nat,
     principal: Nat, snapshot: Nat, trigger: Nat, band_id: BandId]

TailType == Seq([band: BandId, loans: Seq(LoanId)])

TxType ==
    [in: Side, amount: Nat \ {0}, min: Nat, boundary: Nat, tail: TailType,
     liquidated: SUBSET (Nat \X Nat), pool: PoolType]

\* Every account holds values of its type: no balance, total or counter goes
\* below zero and no vault above what exists, whatever the order of
\* instructions.
TypeOK ==
    /\ pool \in PoolType
    /\ real \in [Side -> Nat] /\ \A s \in Side : real[s] <= SUPPLY[s]
    /\ lp_supply \in 0..LP_MAX
    /\ loan \in [LoanId -> LoanType]
    /\ allocated \in [Side -> SUBSET BandId]
    /\ count \in [Side -> [BandId -> Nat]]
    /\ slot \in 0..MAX_SLOT
    /\ tx = IdleTx \/ tx \in TxType

\* Each vault holds at least the collateral and the fees earmarked in it, so
\* the checked subtractions of Pool::swappable never fail and no payout of an
\* instruction is made from a borrower's collateral.
Solvency == Covers(pool, real)

\* Open loans whose collateral is on side c.
OpenOn(c) == {l \in LoanId : is_open(l) /\ loan[l].side = c}

\* The Pool's totals are the sums over the open loans: each liquidation and
\* repayment takes off exactly what its OpenLoan added.
TotalsExact ==
    \A c \in Side :
       /\ pool.total_collateral[c] =
             MapThenSumSet(LAMBDA l : loan[l].collateral, OpenOn(c))
       /\ pool.total_debt[Other(c)] =
             MapThenSumSet(LAMBDA l : loan[l].principal, OpenOn(c))

\* The loan index is exact: open_loans counts the open loans, each band's count
\* its members, and a presence bit is set just when its band has members.  The
\* completeness proof of Swap rests on it.
IndexExact ==
    /\ pool.open_loans = Cardinality({l \in LoanId : is_open(l)})
    /\ \A c \in Side, b \in BandId :
          /\ count[c][b] = Cardinality(members(c, b))
          /\ b \in pool.band_bitmap[c] <=> count[c][b] # 0

\* No open loan of direction c is liquidatable at the pool's own price.
NoneTriggered(c) ==
    \A l \in OpenOn(c) : ~ is_liquidatable(c, loan[l].trigger, spot_price(pool, real))

\* When a swap settles, no loan in its direction is left past its trigger at
\* the price the pool then shows, supplied by the caller or not.
SwapLeavesNoTriggered ==
    [][CommitSwap => \A c \in Side : tx.in = c => NoneTriggered(c)']_vars

\* While LP tokens exist neither accounted reserve of the Pool account is zero:
\* no instruction starts from a pool that has no price.  (The loop of Swap can
\* still meet an empty reserve in its own copy and revert; that is how a fully
\* lent side is kept from being forgiven.)
AccountedPositive ==
    lp_supply > 0 => \A s \in Side : accounted(pool, real)[s] > 0

\* Emptying the LP supply through RemoveLiquidity leaves no debt, no open loan
\* and no collateral behind (the argument above check_supply_floor).
FullExitClean ==
    [][(\E x \in Burns, a, b \in Mins : RemoveLiquidity(x, a, b)) /\ lp_supply' = 0
         => \A c \in Side : /\ OpenOn(c)' = {}
                            /\ pool'.total_debt[c] = 0
                            /\ pool'.total_collateral[c] = 0]_vars

\* Outside swaps the reserves behind one LP unit never shrink, on either side:
\* every rounding of deposits, withdrawals and interest favours the pool.
ShareValueKept ==
    [][tx = IdleTx /\ tx' = IdleTx /\ lp_supply > 0 =>
         \A s \in Side : accounted(pool, real)'[s] * lp_supply
                           >= accounted(pool, real)[s] * lp_supply']_vars

Product(acc) == acc["A"] * acc["B"]

\* A swap never lowers the product of the reserves it trades against, after the
\* protocol's skim and whatever it liquidated on the way.
SwapKeepsProduct ==
    [][CommitSwap => Product(accounted(pool, real))' >=
                       Product(accounted(tx.pool, real))]_vars

\* An open loan can be repaid at any time: no check of RepayLoan but the
\* borrower's own balance can refuse it.
Repayable ==
    \A l \in LoanId : is_open(l) => RepayChecks(l, bump_indexes(pool, real, slot))

\* Once a slot's first swap has sampled the reference price, nothing in that
\* slot moves it: a pump inside the slot cannot feed the check of OpenLoan.
RefPriceFixedInSlot ==
    [][slot' = slot /\ pool.ref_price # 0 /\ pool.ref_price_slot = slot
         => pool'.ref_price = pool.ref_price]_vars

\* A swap in flight ends: the liquidation loop runs out of triggered loans or
\* reaches its cap, and then the swap settles or reverts.
SwapEnds == tx # IdleTx ~> tx = IdleTx

-------------------------------------------------------------------------------
(* What the repository's documents say of the program and the code refutes.    *)

\* DESIGN.md, section 7, calls the Insolvent error of Swap one that "should not
\* happen if liquidation logic is correct": a swap whose loop has ended can pay
\* its quote from the executable reserve.
PayoutAlwaysCovered ==
    tx # IdleTx /\ LoopReserves(tx) /\ Triggered(tx) = {}
       => quote(tx) <= swappable(tx.pool, real, Other(tx.in))

\* state.rs on ref_price_at: "with no swap yet this slot, spot is still the
\* previous slot's close".  So no other instruction moves the spot price before
\* the slot's first swap.
SpotIsPreviousClose ==
    [][tx = IdleTx /\ tx' = IdleTx
       /\ slot' = slot /\ slot > pool.ref_price_slot
       /\ lp_supply > 0 /\ lp_supply' > 0
         => spot_price(pool, real)' = spot_price(pool, real)]_vars

=============================================================================
