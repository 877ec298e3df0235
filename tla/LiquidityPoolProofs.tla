------------------------- MODULE LiquidityPoolProofs -------------------------
(* Proofs about LiquidityPool, for every value of its constants.               *)
EXTENDS LiquidityPool, LiquidityMathProofs, SequenceTheorems

-------------------------------------------------------------------------------
(* The inductive invariant behind type correctness and solvency.  A Pool, the  *)
(* account and the copy a swap works on alike, has earmarked no more than the  *)
(* vaults hold, is not ahead of the clock and has its indexes below the cap.   *)

PoolOK(p, r, now) ==
    /\ p.last_index_update_slot <= now
    /\ p.ref_price_slot <= now
    /\ \A s \in Side : p.borrow_index[s] <= INDEX_CAP_WAD
    /\ Covers(p, r)

\* A swap in flight: its list of loans is one the parser accepts in the present
\* state, which no step of the swap changes before it settles.
SwapOK(t) ==
    /\ t.tail \in Tails(t.in)
    /\ IsFiniteSet(t.liquidated)
    /\ PoolOK(t.pool, real, slot)

\* The loans swap t has liquidated so far.
Dead(t) == {LoanAt(t.tail, e) : e \in t.liquidated}

SafeInv ==
    /\ TypeOK
    /\ PoolOK(pool, real, slot)
    /\ tx # IdleTx => SwapOK(tx)

-------------------------------------------------------------------------------
(* The accounting operators.                                                   *)

\* What the vaults hold beyond the earmarks, and the reserves priced by the
\* curve, are natural numbers.
LEMMA AccountedType ==
    ASSUME NEW p \in PoolType, NEW r \in [Side -> Nat], Covers(p, r)
    PROVE  /\ \A s \in Side : swappable(p, r, s) \in Nat
           /\ \A s \in Side : swappable(p, r, s) <= r[s]
           /\ accounted(p, r) \in [Side -> Nat]
           /\ \A s \in Side :
                 accounted(p, r)[s] =
                    r[s] - p.total_collateral[s] - p.protocol_fees[s] + p.total_debt[s]
  <1>1. ASSUME NEW s \in Side
        PROVE  swappable(p, r, s) \in Nat /\ swappable(p, r, s) <= r[s]
    BY DEF Covers, swappable, PoolType
  <1>2. ASSUME NEW s \in Side
        PROVE  swappable(p, r, s) + p.total_debt[s] \in Nat
    BY <1>1 DEF PoolType
  <1> QED
    BY <1>1, <1>2 DEF accounted, swappable

\* bump_indexes touches only the indexes and their slot, and keeps a Pool sound.
LEMMA BumpIndexes ==
    ASSUME NEW p \in PoolType, NEW r \in [Side -> Nat], NEW now \in Nat,
           PoolOK(p, r, now)
    PROVE  LET q == bump_indexes(p, r, now)
           IN  /\ q \in PoolType
               /\ PoolOK(q, r, now)
               /\ q.total_debt = p.total_debt
               /\ q.total_collateral = p.total_collateral
               /\ q.protocol_fees = p.protocol_fees
               /\ q.open_loans = p.open_loans
               /\ q.band_bitmap = p.band_bitmap
               /\ q.ref_price = p.ref_price
               /\ q.ref_price_slot = p.ref_price_slot
               /\ \A s \in Side : p.borrow_index[s] <= q.borrow_index[s]
  <1> DEFINE q == bump_indexes(p, r, now)
             idx(s) == bump_index_wad(p.borrow_index[s],
                          compute_borrow_rate(
                             utilization_wad(p.total_debt[s], accounted(p, r)[s])),
                          now - p.last_index_update_slot)
  <1>1. CASE now = p.last_index_update_slot
    <2>1. q = p
      BY <1>1 DEF bump_indexes
    <2> QED
      BY <2>1 DEF PoolType
  <1>2. CASE now # p.last_index_update_slot
    <2>1. ASSUME NEW s \in Side
          PROVE  idx(s) \in Nat /\ p.borrow_index[s] <= idx(s)
                 /\ idx(s) <= INDEX_CAP_WAD
      <3>1. accounted(p, r)[s] \in Nat
        BY AccountedType DEF PoolOK
      <3>2. p.total_debt[s] \in Nat /\ p.borrow_index[s] \in Nat
            /\ p.borrow_index[s] <= INDEX_CAP_WAD
        BY DEF PoolOK, PoolType
      <3>3. now - p.last_index_update_slot \in Nat
        BY DEF PoolOK, PoolType
      <3>4. compute_borrow_rate(
               utilization_wad(p.total_debt[s], accounted(p, r)[s])) \in Nat
        BY <3>1, <3>2, UtilizationType, RateType
      <3> QED
        BY <3>2, <3>3, <3>4, BumpIndex
    <2>2. q = [p EXCEPT !.borrow_index = [s \in Side |-> idx(s)],
                        !.last_index_update_slot = now]
      BY <1>2 DEF bump_indexes
    <2> HIDE DEF idx
    <2>3. [s \in Side |-> idx(s)] \in [Side -> Nat]
      BY <2>1
    <2>4. q \in PoolType
      BY <2>2, <2>3 DEF PoolType
    <2>5. /\ q.total_debt = p.total_debt
          /\ q.total_collateral = p.total_collateral
          /\ q.protocol_fees = p.protocol_fees
          /\ q.open_loans = p.open_loans
          /\ q.band_bitmap = p.band_bitmap
          /\ q.ref_price = p.ref_price
          /\ q.ref_price_slot = p.ref_price_slot
          /\ q.last_index_update_slot = now
          /\ q.borrow_index = [s \in Side |-> idx(s)]
      BY <2>2 DEF PoolType
    <2> HIDE DEF q
    <2>6. PoolOK(q, r, now)
      BY <2>1, <2>5 DEF PoolOK, Covers
    <2> QED
      BY <2>1, <2>4, <2>5, <2>6 DEF q
  <1> QED
    BY <1>1, <1>2

\* A deposit charges natural amounts and mints a natural amount of LP.
LEMMA DepositType ==
    ASSUME NEW a \in Nat, NEW b \in Nat, NEW acc \in [Side -> Nat], lp_supply \in Nat
    PROVE  /\ derive_deposit(a, b, acc).lp \in Nat
           /\ derive_deposit(a, b, acc).in \in [Side -> Nat]
  <1>0. "A" \in Side /\ "B" \in Side /\ Zero \in [Side -> Nat]
    BY DEF Side, Zero
  <1>1. CASE lp_supply = 0
    <2>1. isqrt(a * b) \in Nat
      BY IsqrtType
    <2>2. [s \in Side |-> IF s = "A" THEN a ELSE b] \in [Side -> Nat]
      OBVIOUS
    <2> QED
      BY <1>1, <2>1, <2>2 DEF derive_deposit
  <1>2. CASE lp_supply # 0 /\ (acc["A"] = 0 \/ acc["B"] = 0)
    BY <1>0, <1>2 DEF derive_deposit
  <1>3. CASE lp_supply # 0 /\ ~ (acc["A"] = 0 \/ acc["B"] = 0)
    <2> DEFINE m  == matched_deposit(a, b, acc)
               lp == lp_for(m, acc, lp_supply)
               ch == deposit_charge(lp, m, acc, lp_supply)
    <2>1. acc["A"] \in Nat \ {0} /\ acc["B"] \in Nat \ {0} /\ lp_supply \in Nat \ {0}
      BY <1>0, <1>3
    <2>2. m \in [Side -> Nat]
      <3>1. /\ mul_div(a, acc["B"], acc["A"]) \in Nat
            /\ mul_div(b, acc["A"], acc["B"]) \in Nat
        BY <2>1, MulDiv
      <3> QED
        BY <3>1 DEF matched_deposit
    <2> HIDE DEF m
    <2>3. lp \in Nat
      <3>1. /\ mul_div(m["A"], lp_supply, acc["A"]) \in Nat
            /\ mul_div(m["B"], lp_supply, acc["B"]) \in Nat
        BY <1>0, <2>1, <2>2, MulDiv
      <3> QED
        BY <3>1 DEF lp_for, MinOf
    <2> HIDE DEF lp
    <2>4. ch \in [Side -> Nat]
      <3>1. ASSUME NEW s \in Side
            PROVE  MinOf(mul_div_ceil(lp, acc[s], lp_supply), m[s]) \in Nat
        <4>1. mul_div_ceil(lp, acc[s], lp_supply) \in Nat
          BY <2>1, <2>3, MulDivCeil
        <4> QED
          BY <2>2, <4>1 DEF MinOf
      <3> QED
        BY <3>1 DEF deposit_charge
    <2> HIDE DEF ch
    <2>5. derive_deposit(a, b, acc) =
             [in |-> ch, lp |-> IF m["A"] = 0 \/ m["B"] = 0 THEN 0 ELSE lp]
      BY <1>3 DEF derive_deposit, m, lp, ch
    <2> QED
      BY <2>3, <2>4, <2>5
  <1> QED
    BY <1>1, <1>2, <1>3

\* More tokens in the vaults keep a Pool sound.
LEMMA CoversMore ==
    ASSUME NEW p \in PoolType, NEW r \in [Side -> Nat], NEW q \in [Side -> Nat],
           NEW now \in Nat, PoolOK(p, r, now), \A s \in Side : r[s] <= q[s]
    PROVE  PoolOK(p, q, now)
  BY DEF PoolOK, Covers, PoolType

\* Sampling the reference price keeps a Pool sound and touches nothing else.
LEMMA SampleRefPrice ==
    ASSUME NEW p \in PoolType, NEW r \in [Side -> Nat], NEW now \in Nat,
           PoolOK(p, r, now), accounted(p, r)["A"] # 0
    PROVE  /\ sample_ref_price(p, r, now) \in PoolType
           /\ PoolOK(sample_ref_price(p, r, now), r, now)
  <1> DEFINE q == sample_ref_price(p, r, now)
             new == ref_price_at(p, spot_price(p, r), now)
  <1>1. CASE ~ (p.ref_price = 0 \/ now # p.ref_price_slot)
    BY <1>1 DEF sample_ref_price
  <1>2. CASE p.ref_price = 0 \/ now # p.ref_price_slot
    <2>1. /\ p.ref_price \in Nat /\ p.ref_price_slot \in Nat
          /\ now - p.ref_price_slot \in Nat
      BY DEF PoolType, PoolOK
    <2>2. spot_price(p, r) \in Nat
      <3>1. accounted(p, r) \in [Side -> Nat]
        BY AccountedType DEF PoolOK
      <3>2. accounted(p, r)["A"] \in Nat \ {0} /\ accounted(p, r)["B"] \in Nat
        BY <3>1 DEF Side
      <3> QED
        BY <3>2, PriceType DEF spot_price
    <2>3. new \in Nat
      BY <2>1, <2>2, EmaType DEF ref_price_at
    <2>4. q = [p EXCEPT !.ref_price = new, !.ref_price_slot = now]
      BY <1>2 DEF sample_ref_price
    <2> HIDE DEF new, q
    <2>5. q \in PoolType
      BY <2>3, <2>4 DEF PoolType
    <2>6. /\ q.total_collateral = p.total_collateral
          /\ q.protocol_fees = p.protocol_fees
          /\ q.borrow_index = p.borrow_index
          /\ q.last_index_update_slot = p.last_index_update_slot
          /\ q.ref_price_slot = now
      BY <2>4 DEF PoolType
    <2>7. PoolOK(q, r, now)
      BY <2>6 DEF PoolOK, Covers
    <2> QED
      BY <2>5, <2>7 DEF q
  <1> QED
    BY <1>1, <1>2

\* A tail the parser accepts is a sequence of bands with their loans.
LEMMA TailsType ==
    ASSUME TypeOK, NEW c \in Side, NEW t \in Tails(c)
    PROVE  t \in TailType
  <1>1. Listings(c) \subseteq [band: BandId, loans: Seq(LoanId)]
    <2> SUFFICES ASSUME NEW x \in Listings(c)
                 PROVE  x \in [band: BandId, loans: Seq(LoanId)]
      OBVIOUS
    <2>1. PICK b \in allocated[c] : \E ls \in [1..count[c][b] -> members(c, b)] :
             x = [band |-> b, loans |-> ls]
      BY DEF Listings
    <2>2. b \in BandId /\ count[c][b] \in Nat
      BY DEF TypeOK
    <2>3. members(c, b) \subseteq LoanId
      BY DEF members
    <2>4. PICK ls \in [1..count[c][b] -> members(c, b)] : x = [band |-> b, loans |-> ls]
      BY <2>1
    <2>5. ls \in Seq(LoanId)
      BY <2>2, <2>3, SeqDef
    <2> QED
      BY <2>2, <2>4, <2>5
  <1>2. PICK n \in 0..MAX_TAIL : t \in [1..n -> Listings(c)]
    BY DEF Tails
  <1>3. n \in Nat
    BY SystemAssumption
  <1> DEFINE R == [band: BandId, loans: Seq(LoanId)]
  <1>4. t \in [1..n -> R]
    BY <1>1, <1>2
  <1> HIDE DEF R
  <1>5. t \in Seq(R)
    BY <1>3, <1>4, SeqDef
  <1> QED
    BY <1>5 DEF TailType, R

\* Every place of an accepted tail holds an open loan of the swap's direction,
\* in the band it is listed under.
LEMMA TailMembers ==
    ASSUME TypeOK, NEW c \in Side, NEW t \in Tails(c), NEW e \in Entries(t)
    PROVE  /\ e \in Nat \X Nat
           /\ LoanAt(t, e) \in LoanId
           /\ is_open(LoanAt(t, e))
           /\ loan[LoanAt(t, e)].side = c
           /\ loan[LoanAt(t, e)].band_id = t[e[1]].band
  <1>1. PICK i \in DOMAIN t : e \in {i} \X DOMAIN t[i].loans
    BY DEF Entries
  <1>2. PICK n \in 0..MAX_TAIL : t \in [1..n -> Listings(c)]
    BY DEF Tails
  <1>3. i \in Nat /\ t[i] \in Listings(c)
    BY <1>1, <1>2, SystemAssumption
  <1>4. PICK b \in allocated[c] : \E ls \in [1..count[c][b] -> members(c, b)] :
            t[i] = [band |-> b, loans |-> ls]
    BY <1>3 DEF Listings
  <1>5. PICK ls \in [1..count[c][b] -> members(c, b)] : t[i] = [band |-> b, loans |-> ls]
    BY <1>4
  <1>6. e[1] = i /\ e[2] \in DOMAIN ls /\ e = <<e[1], e[2]>>
    BY <1>1, <1>5
  <1>7. count[c][b] \in Nat
    BY DEF TypeOK
  <1>8. e[2] \in Nat /\ ls[e[2]] \in members(c, b)
    BY <1>6, <1>7
  <1>9. LoanAt(t, e) = ls[e[2]] /\ t[e[1]].band = b
    <2>1. t[e[1]].loans = ls /\ t[e[1]].band = b
      BY <1>5, <1>6
    <2> QED
      BY <2>1 DEF LoanAt
  <1> QED
    BY <1>3, <1>6, <1>8, <1>9 DEF members

\* An empty address is well typed.
LEMMA NoLoanType == NoLoan \in LoanType
  BY UnitsAssumption DEF NoLoan, LoanType, Side, BandId

-------------------------------------------------------------------------------
(* What the instructions that touch loans do to the accounts, field by field.  *)

NewTrigger(c, k, m) == recompute_trigger(c, k, m)

NewBand(c, k, m) == band_id_for_trigger(NewTrigger(c, k, m))

\* The Loan account OpenLoan writes when the borrow index stands at i.
NewLoan(c, k, m, i) ==
    [status |-> "open", side |-> c, collateral |-> k, principal |-> m,
     snapshot |-> i, trigger |-> NewTrigger(c, k, m), band_id |-> NewBand(c, k, m)]

\* OpenLoan books one loan: its collateral, its debt, its count and, for the
\* first member of a band, the presence bit.
OpenFacts(l, c, k, m) ==
    /\ tx = IdleTx /\ tx' = IdleTx
    /\ k # 0 /\ m # 0
    /\ loan[l].status = "none"
    /\ NewTrigger(c, k, m) \in Nat \ {0} /\ NewBand(c, k, m) \in BandId
    /\ pool' \in PoolType
    /\ pool'.total_collateral = [pool.total_collateral EXCEPT ![c] = @ + k]
    /\ pool'.total_debt = [pool.total_debt EXCEPT ![Other(c)] = @ + m]
    /\ pool'.protocol_fees = pool.protocol_fees
    /\ pool'.open_loans = pool.open_loans + 1
    /\ pool'.band_bitmap =
          [pool.band_bitmap EXCEPT ![c] =
             IF count[c][NewBand(c, k, m)] = 0
             THEN @ \cup {NewBand(c, k, m)} ELSE @]
    /\ \A s \in Side : /\ pool.borrow_index[s] <= pool'.borrow_index[s]
                       /\ pool'.borrow_index[s] <= INDEX_CAP_WAD
    /\ pool'.last_index_update_slot <= slot
    /\ pool'.ref_price_slot <= slot
    /\ m <= swappable(pool, real, Other(c))
    /\ k <= SUPPLY[c] - real[c]
    /\ real' = [real EXCEPT ![c] = @ + k, ![Other(c)] = @ - m]
    /\ loan' = [loan EXCEPT ![l] =
                  NewLoan(c, k, m, pool'.borrow_index[Other(c)])]
    /\ allocated' = [allocated EXCEPT ![c] = @ \cup {NewBand(c, k, m)}]
    /\ count' = [count EXCEPT ![c][NewBand(c, k, m)] = @ + 1]
    /\ UNCHANGED <<lp_supply, slot>>

LEMMA OpenEffect ==
    ASSUME SafeInv, NEW l \in LoanId, NEW c \in Side, NEW k \in Nat, NEW m \in Nat,
           OpenLoan(l, c, k, m)
    PROVE  OpenFacts(l, c, k, m)
  <1> DEFINE p == bump_indexes(pool, real, slot)
             d == Other(c)
             t == NewTrigger(c, k, m)
             b == NewBand(c, k, m)
             bits == IF needs_presence_bit(c, b)
                     THEN p.band_bitmap[c] \cup {b} ELSE p.band_bitmap[c]
  <1>0. pool \in PoolType /\ real \in [Side -> Nat] /\ slot \in Nat
    BY SystemAssumption DEF SafeInv, TypeOK
  <1>1. /\ p \in PoolType /\ PoolOK(p, real, slot)
        /\ p.total_debt = pool.total_debt
        /\ p.total_collateral = pool.total_collateral
        /\ p.protocol_fees = pool.protocol_fees
        /\ p.open_loans = pool.open_loans
        /\ p.band_bitmap = pool.band_bitmap
        /\ \A s \in Side : pool.borrow_index[s] <= p.borrow_index[s]
    BY <1>0, BumpIndexes DEF SafeInv
  <1>2. /\ tx = IdleTx /\ tx' = IdleTx
        /\ k # 0 /\ m # 0
        /\ t # 0 /\ b \in BandId
        /\ loan[l].status = "none"
        /\ m <= swappable(p, real, d)
        /\ k <= SUPPLY[c] - real[c]
        /\ loan' = [loan EXCEPT ![l] = NewLoan(c, k, m, p.borrow_index[d])]
        /\ allocated' = [allocated EXCEPT ![c] = @ \cup {b}]
        /\ count' = [count EXCEPT ![c][b] = @ + 1]
        /\ real' = [real EXCEPT ![c] = @ + k, ![d] = @ - m]
        /\ UNCHANGED <<lp_supply, slot>>
    BY DEF OpenLoan, Outside, NewLoan, NewBand, NewTrigger
  <1>3. pool' = [p EXCEPT !.total_collateral[c] = @ + k,
                          !.total_debt[d] = @ + m,
                          !.open_loans = @ + 1,
                          !.band_bitmap[c] = bits]
    BY DEF OpenLoan, NewBand, NewTrigger
  <1>4. t \in Nat
    BY <1>2, TriggerType DEF NewTrigger
  <1>5. d \in Side /\ d # c
    BY SideFacts
  <1>6. m <= swappable(pool, real, d)
    BY <1>1, <1>2 DEF swappable
  <1>7. bits = IF count[c][b] = 0 THEN pool.band_bitmap[c] \cup {b}
                                  ELSE pool.band_bitmap[c]
    BY <1>1 DEF needs_presence_bit
  <1> HIDE DEF p, d, t, b
  <1>8. bits \in SUBSET BandId
    BY <1>1, <1>2 DEF PoolType
  <1> HIDE DEF bits
  <1> DEFINE tc == [p.total_collateral EXCEPT ![c] = @ + k]
             td == [p.total_debt EXCEPT ![d] = @ + m]
             bm == [p.band_bitmap EXCEPT ![c] = bits]
             n  == p.open_loans + 1
  <1>9. /\ tc \in [Side -> Nat] /\ td \in [Side -> Nat] /\ n \in Nat
        /\ bm \in [Side -> SUBSET BandId]
    BY <1>1, <1>5, <1>8 DEF PoolType
  <1>10. pool' = [p EXCEPT !.total_collateral = tc, !.total_debt = td,
                           !.open_loans = n, !.band_bitmap = bm]
    BY <1>1, <1>3 DEF PoolType
  <1> HIDE DEF tc, td, bm, n
  <1>11. pool' \in PoolType
    BY <1>1, <1>9, <1>10 DEF PoolType
  <1>12. /\ pool'.total_collateral = tc
         /\ pool'.total_debt = td
         /\ pool'.open_loans = n
         /\ pool'.band_bitmap = bm
         /\ pool'.protocol_fees = p.protocol_fees
         /\ pool'.borrow_index = p.borrow_index
         /\ pool'.last_index_update_slot = p.last_index_update_slot
         /\ pool'.ref_price_slot = p.ref_price_slot
    BY <1>1, <1>10 DEF PoolType
  <1>13. /\ pool'.total_collateral = [pool.total_collateral EXCEPT ![c] = @ + k]
         /\ pool'.total_debt = [pool.total_debt EXCEPT ![d] = @ + m]
         /\ pool'.open_loans = pool.open_loans + 1
         /\ pool'.protocol_fees = pool.protocol_fees
    BY <1>1, <1>12 DEF tc, td, n
  <1>14. pool'.band_bitmap =
            [pool.band_bitmap EXCEPT ![c] = IF count[c][b] = 0
                                            THEN @ \cup {b} ELSE @]
    BY <1>1, <1>7, <1>12 DEF bm
  <1>15. /\ \A s \in Side : /\ pool.borrow_index[s] <= pool'.borrow_index[s]
                            /\ pool'.borrow_index[s] <= INDEX_CAP_WAD
         /\ pool'.last_index_update_slot <= slot
         /\ pool'.ref_price_slot <= slot
    BY <1>1, <1>12 DEF PoolOK
  <1> QED
    BY <1>2, <1>4, <1>6, <1>11, <1>12, <1>13, <1>14, <1>15 DEF OpenFacts, d, t, b

\* RepayLoan takes off exactly what OpenLoan booked; what comes in is at least
\* the principal.
RepayFacts(l, x) ==
    /\ tx = IdleTx /\ tx' = IdleTx
    /\ x \in LoanType /\ x.status = "open"
    /\ pool' \in PoolType
    /\ x.collateral <= pool.total_collateral[x.side]
    /\ x.principal <= pool.total_debt[Other(x.side)]
    /\ pool'.total_collateral =
          [pool.total_collateral EXCEPT ![x.side] = @ - x.collateral]
    /\ pool'.total_debt =
          [pool.total_debt EXCEPT ![Other(x.side)] = @ - x.principal]
    /\ pool'.protocol_fees = pool.protocol_fees
    /\ pool'.open_loans = pool.open_loans - 1
    /\ pool'.band_bitmap =
          [pool.band_bitmap EXCEPT ![x.side] =
             IF count[x.side][x.band_id] = 1 THEN @ \ {x.band_id} ELSE @]
    /\ \A s \in Side : /\ pool.borrow_index[s] <= pool'.borrow_index[s]
                       /\ pool'.borrow_index[s] <= INDEX_CAP_WAD
    /\ pool'.last_index_update_slot <= slot
    /\ pool'.ref_price_slot <= slot
    /\ \E o \in Nat :
          /\ x.principal <= o
          /\ o <= SUPPLY[Other(x.side)] - real[Other(x.side)]
          /\ real' = [real EXCEPT ![Other(x.side)] = @ + o,
                                  ![x.side] = @ - x.collateral]
    /\ loan' = [loan EXCEPT ![l] = NoLoan]
    /\ count[x.side][x.band_id] >= 1
    /\ count' = [count EXCEPT ![x.side][x.band_id] = @ - 1]
    /\ UNCHANGED <<lp_supply, allocated, slot>>

LEMMA RepayEffect ==
    ASSUME SafeInv, NEW l \in LoanId, RepayLoan(l)
    PROVE  RepayFacts(l, loan[l])
  <1> DEFINE x == loan[l]
             p == bump_indexes(pool, real, slot)
             c == x.side
             d == Other(c)
             k == x.collateral
             b == x.band_id
             o == owed(x, p)
             bits == IF count[c][b] = 1
                     THEN p.band_bitmap[c] \ {b} ELSE p.band_bitmap[c]
  <1>0. pool \in PoolType /\ real \in [Side -> Nat] /\ slot \in Nat
        /\ x \in LoanType
    BY SystemAssumption DEF SafeInv, TypeOK
  <1>1. /\ p \in PoolType /\ PoolOK(p, real, slot)
        /\ p.total_debt = pool.total_debt
        /\ p.total_collateral = pool.total_collateral
        /\ p.protocol_fees = pool.protocol_fees
        /\ p.open_loans = pool.open_loans
        /\ p.band_bitmap = pool.band_bitmap
        /\ \A s \in Side : pool.borrow_index[s] <= p.borrow_index[s]
    BY <1>0, BumpIndexes DEF SafeInv
  <1>2. c \in Side /\ k \in Nat /\ x.principal \in Nat /\ x.snapshot \in Nat
        /\ b \in BandId
    BY <1>0 DEF LoanType
  <1>3. d \in Side /\ d # c
    BY <1>2, SideFacts
  <1>4. /\ tx = IdleTx /\ tx' = IdleTx
        /\ x.status = "open"
        /\ x.snapshot # 0
        /\ x.snapshot <= p.borrow_index[d]
        /\ k <= p.total_collateral[c]
        /\ x.principal <= p.total_debt[d]
        /\ p.open_loans >= 1
        /\ count[c][b] >= 1
        /\ o <= SUPPLY[d] - real[d]
        /\ real' = [real EXCEPT ![d] = @ + o, ![c] = @ - k]
        /\ count' = [count EXCEPT ![c][b] = @ - 1]
        /\ loan' = [loan EXCEPT ![l] = NoLoan]
        /\ UNCHANGED <<lp_supply, allocated, slot>>
    BY DEF RepayLoan, RepayChecks, Outside, is_open
  <1>5. pool' = [p EXCEPT !.total_collateral[c] = @ - k,
                          !.total_debt[d] = @ - x.principal,
                          !.open_loans = @ - 1,
                          !.band_bitmap[c] = bits]
    BY DEF RepayLoan, debt_removed
  <1>6. o \in Nat /\ x.principal <= o
    <2>1. p.borrow_index[d] \in Nat
      BY <1>1, <1>3 DEF PoolType
    <2> QED
      BY <1>2, <1>4, <2>1, OwedCovers DEF owed
  <1>7. bits = IF count[c][b] = 1 THEN pool.band_bitmap[c] \ {b}
                                  ELSE pool.band_bitmap[c]
    BY <1>1
  <1>8. bits \in SUBSET BandId
    BY <1>1, <1>2 DEF PoolType
  <1> HIDE DEF x, p, c, d, k, b, o, bits
  <1> DEFINE tc == [p.total_collateral EXCEPT ![c] = @ - k]
             td == [p.total_debt EXCEPT ![d] = @ - x.principal]
             bm == [p.band_bitmap EXCEPT ![c] = bits]
             n  == p.open_loans - 1
  <1>9. /\ p.total_collateral[c] - k \in Nat
        /\ p.total_debt[d] - x.principal \in Nat
    BY <1>1, <1>2, <1>3, <1>4 DEF PoolType
  <1>10. /\ tc \in [Side -> Nat] /\ td \in [Side -> Nat] /\ n \in Nat
         /\ bm \in [Side -> SUBSET BandId]
    BY <1>1, <1>2, <1>3, <1>4, <1>8, <1>9 DEF PoolType
  <1>11. pool' = [p EXCEPT !.total_collateral = tc, !.total_debt = td,
                           !.open_loans = n, !.band_bitmap = bm]
    BY <1>1, <1>5 DEF PoolType
  <1> HIDE DEF tc, td, bm, n
  <1>12. pool' \in PoolType
    BY <1>1, <1>10, <1>11 DEF PoolType
  <1>13. /\ pool'.total_collateral = tc
         /\ pool'.total_debt = td
         /\ pool'.open_loans = n
         /\ pool'.band_bitmap = bm
         /\ pool'.protocol_fees = p.protocol_fees
         /\ pool'.borrow_index = p.borrow_index
         /\ pool'.last_index_update_slot = p.last_index_update_slot
         /\ pool'.ref_price_slot = p.ref_price_slot
    BY <1>1, <1>11 DEF PoolType
  <1>14. /\ pool'.total_collateral = [pool.total_collateral EXCEPT ![c] = @ - k]
         /\ pool'.total_debt = [pool.total_debt EXCEPT ![d] = @ - x.principal]
         /\ pool'.open_loans = pool.open_loans - 1
         /\ pool'.protocol_fees = pool.protocol_fees
    BY <1>1, <1>13 DEF tc, td, n
  <1>15. pool'.band_bitmap =
            [pool.band_bitmap EXCEPT ![c] = IF count[c][b] = 1
                                            THEN @ \ {b} ELSE @]
    BY <1>1, <1>7, <1>13 DEF bm
  <1>16. /\ \A s \in Side : /\ pool.borrow_index[s] <= pool'.borrow_index[s]
                            /\ pool'.borrow_index[s] <= INDEX_CAP_WAD
         /\ pool'.last_index_update_slot <= slot
         /\ pool'.ref_price_slot <= slot
         /\ k <= pool.total_collateral[c] /\ x.principal <= pool.total_debt[d]
    BY <1>1, <1>4, <1>13 DEF PoolOK
  <1>17. \E n1 \in Nat :
            /\ x.principal <= n1
            /\ n1 <= SUPPLY[d] - real[d]
            /\ real' = [real EXCEPT ![d] = @ + n1, ![c] = @ - k]
    BY <1>4, <1>6
  <1> QED
    BY <1>0, <1>4, <1>12, <1>14, <1>15, <1>16, <1>17 DEF RepayFacts, x, c, d, k, b

\* The reserves and the quote of a swap that settles.
LEMMA QuoteType ==
    ASSUME SafeInv, tx # IdleTx, LoopReserves(tx)
    PROVE  quote(tx) \in Nat /\ quote(tx) < accounted(tx.pool, real)[Other(tx.in)]
  <1> DEFINE acc == accounted(tx.pool, real)
  <1>1. tx \in TxType /\ SwapOK(tx) /\ real \in [Side -> Nat]
    BY DEF SafeInv, TypeOK
  <1>2. tx.in \in Side /\ tx.amount \in Nat /\ tx.pool \in PoolType
        /\ Covers(tx.pool, real)
    BY <1>1 DEF TxType, SwapOK, PoolOK
  <1>3. acc \in [Side -> Nat]
    BY <1>1, <1>2, AccountedType
  <1>4. Other(tx.in) \in Side
    BY <1>2, SideFacts
  <1>5. acc[tx.in] \in Nat \ {0} /\ acc[Other(tx.in)] \in Nat \ {0}
    BY <1>2, <1>3, <1>4 DEF LoopReserves
  <1> QED
    BY <1>2, <1>5, QuoteOut DEF quote

\* A liquidation takes one listed loan off the swap's copy of the Pool.
LiquidateFacts(e, l) ==
    /\ tx # IdleTx /\ tx' # IdleTx
    /\ e \in Triggered(tx) /\ NextLiquidation(tx, e)
    /\ e \in Entries(tx.tail) /\ e \notin tx.liquidated /\ e \in Nat \X Nat
    /\ l = LoanAt(tx.tail, e)
    /\ l \in LoanId /\ is_open(l) /\ loan[l].side = tx.in
    /\ loan[l].collateral <= tx.pool.total_collateral[tx.in]
    /\ loan[l].principal <= tx.pool.total_debt[Other(tx.in)]
    /\ tx' \in TxType
    /\ tx'.in = tx.in /\ tx'.amount = tx.amount /\ tx'.min = tx.min
    /\ tx'.boundary = tx.boundary /\ tx'.tail = tx.tail
    /\ tx'.liquidated = tx.liquidated \cup {e}
    /\ tx'.pool.total_collateral =
          [tx.pool.total_collateral EXCEPT ![tx.in] = @ - loan[l].collateral]
    /\ tx'.pool.total_debt =
          [tx.pool.total_debt EXCEPT ![Other(tx.in)] = @ - loan[l].principal]
    /\ tx'.pool.open_loans = tx.pool.open_loans - 1
    /\ tx'.pool.protocol_fees = tx.pool.protocol_fees
    /\ tx'.pool.band_bitmap = tx.pool.band_bitmap
    /\ tx'.pool.borrow_index = tx.pool.borrow_index
    /\ tx'.pool.last_index_update_slot = tx.pool.last_index_update_slot
    /\ tx'.pool.ref_price = tx.pool.ref_price
    /\ tx'.pool.ref_price_slot = tx.pool.ref_price_slot
    /\ UNCHANGED <<pool, real, lp_supply, loan, allocated, count, slot>>

LEMMA LiquidateEffect ==
    ASSUME SafeInv, LiquidateNext
    PROVE  \E e : LiquidateFacts(e, LoanAt(tx.tail, e))
  <1>0. loan \in [LoanId -> LoanType]
    BY DEF SafeInv, TypeOK
  <1>1. tx # IdleTx /\ UNCHANGED <<pool, real, lp_supply, loan, allocated, count, slot>>
    BY DEF LiquidateNext
  <1>2. tx \in TxType /\ SwapOK(tx)
    BY <1>1 DEF SafeInv, TypeOK
  <1>3. PICK e \in Triggered(tx) :
           /\ NextLiquidation(tx, e)
           /\ tx' = [tx EXCEPT !.liquidated = @ \cup {e},
                               !.pool = write_off(@, loan[LoanAt(tx.tail, e)])]
    BY DEF LiquidateNext
  <1> DEFINE l == LoanAt(tx.tail, e)
             x == loan[l]
             c == tx.in
             d == Other(c)
             p == tx.pool
             q == write_off(p, x)
  <1>4. p \in PoolType /\ c \in Side /\ tx.tail \in Tails(c)
    BY <1>2 DEF TxType, SwapOK
  <1>5. e \in Entries(tx.tail) /\ e \notin tx.liquidated
    BY DEF Triggered
  <1>6. e \in Nat \X Nat /\ l \in LoanId /\ is_open(l) /\ x.side = c
    BY <1>4, <1>5, TailMembers DEF SafeInv
  <1>7. x.collateral \in Nat /\ x.principal \in Nat
    BY <1>0, <1>6 DEF LoanType
  <1>8. d \in Side /\ d # c
    BY <1>4, SideFacts
  <1>9. x.collateral <= p.total_collateral[c] /\ x.principal <= p.total_debt[d]
        /\ p.open_loans >= 1
    BY <1>3 DEF NextLiquidation
  <1>10. q = [p EXCEPT !.total_collateral[c] = @ - x.collateral,
                       !.total_debt[d] = @ - x.principal,
                       !.open_loans = @ - 1]
    BY <1>6 DEF write_off
  <1>11. tx' = [tx EXCEPT !.liquidated = @ \cup {e}, !.pool = q]
    BY <1>3
  <1> HIDE DEF l, x, c, d, p, q
  <1> DEFINE tc == [p.total_collateral EXCEPT ![c] = @ - x.collateral]
             td == [p.total_debt EXCEPT ![d] = @ - x.principal]
             n  == p.open_loans - 1
  <1>12. /\ p.total_collateral[c] - x.collateral \in Nat
         /\ p.total_debt[d] - x.principal \in Nat
    BY <1>4, <1>7, <1>8, <1>9 DEF PoolType
  <1>13. tc \in [Side -> Nat] /\ td \in [Side -> Nat] /\ n \in Nat
    BY <1>4, <1>8, <1>9, <1>12 DEF PoolType
  <1>14. q = [p EXCEPT !.total_collateral = tc, !.total_debt = td, !.open_loans = n]
    BY <1>4, <1>10 DEF PoolType
  <1> HIDE DEF tc, td, n
  <1>15. q \in PoolType
    BY <1>4, <1>13, <1>14 DEF PoolType
  <1>16. /\ q.total_collateral = tc
         /\ q.total_debt = td
         /\ q.open_loans = n
         /\ q.protocol_fees = p.protocol_fees
         /\ q.band_bitmap = p.band_bitmap
         /\ q.borrow_index = p.borrow_index
         /\ q.last_index_update_slot = p.last_index_update_slot
         /\ q.ref_price = p.ref_price
         /\ q.ref_price_slot = p.ref_price_slot
    BY <1>4, <1>14 DEF PoolType
  <1>17. /\ tx' \in TxType
         /\ tx'.in = tx.in /\ tx'.amount = tx.amount /\ tx'.min = tx.min
         /\ tx'.boundary = tx.boundary /\ tx'.tail = tx.tail
         /\ tx'.liquidated = tx.liquidated \cup {e}
         /\ tx'.pool = q
    BY <1>2, <1>6, <1>11, <1>15 DEF TxType
  <1>18. tx' # IdleTx
    <2>1. tx'.in \in Side /\ IdleTx.in = "none"
      BY <1>17 DEF TxType, IdleTx
    <2> QED
      BY <2>1 DEF Side
  <1>19. LiquidateFacts(e, l)
    BY <1>1, <1>3, <1>5, <1>6, <1>9, <1>16, <1>17, <1>18
    DEF LiquidateFacts, l, x, c, d, p, tc, td, n
  <1> QED
    BY <1>19 DEF l

\* What a settling swap writes back: the copy of the Pool, with the fee and the
\* presence bits of the bands it emptied, the dead loans and the counts.
CommitFacts ==
    /\ tx # IdleTx /\ tx' = IdleTx
    /\ tx \in TxType /\ SwapOK(tx) /\ Settles(tx)
    /\ quote(tx) \in Nat
    /\ quote(tx) <= swappable(tx.pool, real, Other(tx.in))
    /\ tx.amount <= SUPPLY[tx.in] - real[tx.in]
    /\ pool' \in PoolType
    /\ pool'.total_collateral = tx.pool.total_collateral
    /\ pool'.total_debt = tx.pool.total_debt
    /\ pool'.open_loans = tx.pool.open_loans
    /\ pool'.borrow_index = tx.pool.borrow_index
    /\ pool'.last_index_update_slot = tx.pool.last_index_update_slot
    /\ pool'.ref_price = tx.pool.ref_price
    /\ pool'.ref_price_slot = tx.pool.ref_price_slot
    /\ pool'.protocol_fees =
          [tx.pool.protocol_fees EXCEPT ![tx.in] = @ + protocol_portion(tx.amount)]
    /\ pool'.band_bitmap =
          [tx.pool.band_bitmap EXCEPT ![tx.in] =
             {b \in @ : liquidated_here(tx, b) = 0
                        \/ count[tx.in][b] # liquidated_here(tx, b)}]
    /\ loan' = [l \in LoanId |-> IF l \in Dead(tx) THEN tombstone(loan[l]) ELSE loan[l]]
    /\ count' = [count EXCEPT ![tx.in] =
                   [b \in BandId |-> @[b] - liquidated_here(tx, b)]]
    /\ real' = [real EXCEPT ![tx.in] = @ + tx.amount, ![Other(tx.in)] = @ - quote(tx)]
    /\ UNCHANGED <<lp_supply, allocated, slot>>

LEMMA CommitEffect ==
    ASSUME SafeInv, CommitSwap
    PROVE  CommitFacts
  <1> DEFINE c == tx.in
             p == tx.pool
             fee == protocol_portion(tx.amount)
             bits == {b \in p.band_bitmap[c] :
                        liquidated_here(tx, b) = 0
                        \/ count[c][b] # liquidated_here(tx, b)}
  <1>1. tx # IdleTx /\ Settles(tx)
    BY DEF CommitSwap
  <1>2. tx \in TxType /\ SwapOK(tx)
    BY <1>1 DEF SafeInv, TypeOK
  <1>3. p \in PoolType /\ c \in Side /\ tx.amount \in Nat
    BY <1>2 DEF TxType
  <1>4. /\ LoopReserves(tx)
        /\ quote(tx) <= swappable(p, real, Other(c))
        /\ tx.amount <= SUPPLY[c] - real[c]
    BY <1>1 DEF Settles, Outside
  <1>5. quote(tx) \in Nat
    BY <1>1, <1>4, QuoteType
  <1>6. fee \in Nat
    BY <1>3, ProtocolPortion
  <1>7. /\ pool' = [p EXCEPT !.protocol_fees[c] = @ + fee, !.band_bitmap[c] = bits]
        /\ loan' = [l \in LoanId |->
                      IF l \in Dead(tx) THEN tombstone(loan[l]) ELSE loan[l]]
        /\ count' = [count EXCEPT ![c] =
                       [b \in BandId |-> count[c][b] - liquidated_here(tx, b)]]
        /\ real' = [real EXCEPT ![c] = @ + tx.amount, ![Other(c)] = @ - quote(tx)]
        /\ tx' = IdleTx
        /\ UNCHANGED <<lp_supply, allocated, slot>>
    BY DEF CommitSwap, Dead
  <1>8. bits \in SUBSET BandId
    BY <1>3 DEF PoolType
  <1> HIDE DEF c, p, fee, bits
  <1> DEFINE pf == [p.protocol_fees EXCEPT ![c] = @ + fee]
             bm == [p.band_bitmap EXCEPT ![c] = bits]
  <1>9. pf \in [Side -> Nat] /\ bm \in [Side -> SUBSET BandId]
    BY <1>3, <1>6, <1>8 DEF PoolType
  <1>10. pool' = [p EXCEPT !.protocol_fees = pf, !.band_bitmap = bm]
    BY <1>3, <1>7 DEF PoolType
  <1> HIDE DEF pf, bm
  <1>11. pool' \in PoolType
    BY <1>3, <1>9, <1>10 DEF PoolType
  <1>12. /\ pool'.total_collateral = p.total_collateral
         /\ pool'.total_debt = p.total_debt
         /\ pool'.open_loans = p.open_loans
         /\ pool'.borrow_index = p.borrow_index
         /\ pool'.last_index_update_slot = p.last_index_update_slot
         /\ pool'.ref_price = p.ref_price
         /\ pool'.ref_price_slot = p.ref_price_slot
         /\ pool'.protocol_fees = pf
         /\ pool'.band_bitmap = bm
    BY <1>3, <1>10 DEF PoolType
  <1> QED
    BY <1>1, <1>2, <1>4, <1>5, <1>7, <1>11, <1>12
    DEF CommitFacts, c, p, fee, bits, pf, bm

-------------------------------------------------------------------------------
(* One lemma per action.                                                       *)

\* The empty pool is sound.
LEMMA SafeInit == Init => SafeInv
  <1> SUFFICES ASSUME Init PROVE SafeInv
    OBVIOUS
  <1> USE DEF Init
  <1>1. pool \in PoolType
    <2>1. WAD \in Nat
      BY UnitsAssumption
    <2> QED
      BY <2>1 DEF InitialPool, PoolType, Zero
  <1>2. TypeOK
    BY <1>1, NoLoanType, SystemAssumption DEF TypeOK, Zero
  <1>3. PoolOK(pool, real, slot)
    BY ParametersAssumption, UnitsAssumption
    DEF PoolOK, Covers, InitialPool, Zero
  <1> QED
    BY <1>2, <1>3 DEF SafeInv

\* A deposit only adds to the vaults.
LEMMA SafeAdd ==
    ASSUME SafeInv, NEW a \in Nat, NEW b \in Nat, NEW min \in Nat,
           AddLiquidity(a, b, min)
    PROVE  SafeInv'
  <1> DEFINE p == bump_indexes(pool, real, slot)
             d == derive_deposit(a, b, accounted(p, real))
  <1>0. pool \in PoolType /\ real \in [Side -> Nat] /\ slot \in Nat
        /\ lp_supply \in Nat /\ LP_MAX \in Nat /\ SUPPLY \in [Side -> Nat]
    BY SystemAssumption DEF SafeInv, TypeOK
  <1>1. p \in PoolType /\ PoolOK(p, real, slot)
    BY <1>0, BumpIndexes DEF SafeInv
  <1>2. accounted(p, real) \in [Side -> Nat]
    BY <1>0, <1>1, AccountedType DEF PoolOK
  <1>3. d.lp \in Nat /\ d.in \in [Side -> Nat]
    BY <1>0, <1>2, DepositType
  <1>4. /\ tx = IdleTx /\ tx' = IdleTx
        /\ pool' = p
        /\ d.lp + lp_supply <= LP_MAX
        /\ lp_supply' = lp_supply + d.lp
        /\ \A s \in Side : d.in[s] <= SUPPLY[s] - real[s]
        /\ real' = [s \in Side |-> real[s] + d.in[s]]
        /\ UNCHANGED <<loan, allocated, count, slot>>
    BY DEF AddLiquidity, Outside
  <1> HIDE DEF p, d
  <1>5. real' \in [Side -> Nat] /\ \A s \in Side : real[s] <= real'[s]
    BY <1>0, <1>3, <1>4
  <1>6. \A s \in Side : real'[s] <= SUPPLY[s]
    BY <1>0, <1>3, <1>4
  <1>7. lp_supply' \in 0..LP_MAX
    BY <1>0, <1>3, <1>4
  <1>8. TypeOK'
    BY <1>1, <1>4, <1>5, <1>6, <1>7 DEF SafeInv, TypeOK
  <1>9. PoolOK(p, real', slot)
    BY <1>0, <1>1, <1>5, CoversMore
  <1> QED
    BY <1>4, <1>8, <1>9 DEF SafeInv

\* A withdrawal is paid from what is neither collateral nor fees.
LEMMA SafeRemove ==
    ASSUME SafeInv, NEW x \in Nat, NEW ma \in Nat, NEW mb \in Nat,
           RemoveLiquidity(x, ma, mb)
    PROVE  SafeInv'
  <1> DEFINE p   == bump_indexes(pool, real, slot)
             out == withdrawal_amounts(x, accounted(p, real), lp_supply)
  <1>0. pool \in PoolType /\ real \in [Side -> Nat] /\ slot \in Nat
        /\ lp_supply \in Nat /\ LP_MAX \in Nat /\ lp_supply <= LP_MAX
        /\ SUPPLY \in [Side -> Nat] /\ \A s \in Side : real[s] <= SUPPLY[s]
    BY SystemAssumption DEF SafeInv, TypeOK
  <1>1. p \in PoolType /\ PoolOK(p, real, slot)
    BY <1>0, BumpIndexes DEF SafeInv
  <1>2. /\ accounted(p, real) \in [Side -> Nat]
        /\ \A s \in Side : swappable(p, real, s) \in Nat
    BY <1>0, <1>1, AccountedType DEF PoolOK
  <1>3. /\ tx = IdleTx /\ tx' = IdleTx
        /\ pool' = p
        /\ lp_supply # 0 /\ x <= lp_supply
        /\ lp_supply' = lp_supply - x
        /\ \A s \in Side : out[s] <= swappable(p, real, s)
        /\ real' = [s \in Side |-> real[s] - out[s]]
        /\ UNCHANGED <<loan, allocated, count, slot>>
    BY DEF RemoveLiquidity, executable
  <1>4. \A s \in Side : out[s] \in Nat
    BY <1>0, <1>2, <1>3, MulDiv DEF withdrawal_amounts
  <1> HIDE DEF p, out
  <1>5. ASSUME NEW s \in Side
        PROVE  /\ real'[s] = real[s] - out[s]
               /\ p.total_collateral[s] + p.protocol_fees[s] <= real'[s]
               /\ real'[s] \in Nat /\ real'[s] <= SUPPLY[s]
    <2>1. out[s] <= real[s] - p.total_collateral[s] - p.protocol_fees[s]
      BY <1>3 DEF swappable
    <2>2. p.total_collateral[s] \in Nat /\ p.protocol_fees[s] \in Nat
      BY <1>1 DEF PoolType
    <2> QED
      BY <1>0, <1>3, <1>4, <2>1, <2>2
  <1>6. real' \in [Side -> Nat]
    BY <1>3, <1>5
  <1>7. lp_supply' \in 0..LP_MAX
    BY <1>0, <1>3
  <1>8. TypeOK'
    BY <1>1, <1>3, <1>5, <1>6, <1>7 DEF SafeInv, TypeOK
  <1>9. PoolOK(p, real', slot)
    BY <1>1, <1>5 DEF PoolOK, Covers
  <1> QED
    BY <1>3, <1>8, <1>9 DEF SafeInv

\* A loan's collateral is earmarked as it arrives, and its debt is paid from
\* what is neither collateral nor fees.
LEMMA SafeOpen ==
    ASSUME SafeInv, NEW l \in LoanId, NEW c \in Side, NEW k \in Nat, NEW m \in Nat,
           OpenLoan(l, c, k, m)
    PROVE  SafeInv'
  <1> DEFINE d == Other(c)
             b == NewBand(c, k, m)
  <1>0. pool \in PoolType /\ real \in [Side -> Nat] /\ slot \in Nat
        /\ SUPPLY \in [Side -> Nat] /\ (\A s \in Side : real[s] <= SUPPLY[s])
        /\ count \in [Side -> [BandId -> Nat]] /\ allocated \in [Side -> SUBSET BandId]
        /\ loan \in [LoanId -> LoanType]
    BY SystemAssumption DEF SafeInv, TypeOK
  <1>1. d \in Side /\ d # c /\ \A s \in Side : s = c \/ s = d
    BY SideFacts
  <1>2. /\ tx' = IdleTx
        /\ NewTrigger(c, k, m) \in Nat \ {0} /\ b \in BandId
        /\ pool' \in PoolType
        /\ pool'.total_collateral = [pool.total_collateral EXCEPT ![c] = @ + k]
        /\ pool'.protocol_fees = pool.protocol_fees
        /\ (\A s \in Side : pool'.borrow_index[s] <= INDEX_CAP_WAD)
        /\ pool'.last_index_update_slot <= slot
        /\ pool'.ref_price_slot <= slot
        /\ m <= swappable(pool, real, d)
        /\ k <= SUPPLY[c] - real[c]
        /\ real' = [real EXCEPT ![c] = @ + k, ![d] = @ - m]
        /\ loan' = [loan EXCEPT ![l] = NewLoan(c, k, m, pool'.borrow_index[d])]
        /\ allocated' = [allocated EXCEPT ![c] = @ \cup {b}]
        /\ count' = [count EXCEPT ![c][b] = @ + 1]
        /\ UNCHANGED <<lp_supply, slot>>
    <2>1. OpenFacts(l, c, k, m)
      BY OpenEffect
    <2> QED
      BY <2>1 DEF OpenFacts
  <1>3. NewLoan(c, k, m, pool'.borrow_index[d]) \in LoanType
    <2>1. pool'.borrow_index[d] \in Nat
      BY <1>1, <1>2 DEF PoolType
    <2> QED
      BY <1>2, <2>1 DEF NewLoan, LoanType
  <1> HIDE DEF d, b
  <1>4. ASSUME NEW s \in Side
        PROVE  /\ real'[s] \in Nat /\ real'[s] <= SUPPLY[s]
               /\ pool'.total_collateral[s] + pool'.protocol_fees[s] <= real'[s]
    <2>0. /\ pool.total_collateral \in [Side -> Nat]
          /\ pool.total_collateral[s] \in Nat /\ pool.protocol_fees[s] \in Nat
          /\ pool.total_collateral[s] + pool.protocol_fees[s] <= real[s]
          /\ real[s] \in Nat /\ real[s] <= SUPPLY[s] /\ SUPPLY[s] \in Nat
          /\ pool'.protocol_fees[s] = pool.protocol_fees[s]
      BY <1>0, <1>2 DEF PoolType, SafeInv, PoolOK, Covers
    <2>1. CASE s = c
      <3>1. /\ real'[s] = real[s] + k
            /\ pool'.total_collateral[s] = pool.total_collateral[s] + k
            /\ k <= SUPPLY[s] - real[s]
        BY <1>0, <1>1, <1>2, <2>0, <2>1
      <3> QED
        BY <2>0, <3>1
    <2>2. CASE s = d
      <3>1. real'[s] = real[s] - m /\ pool'.total_collateral[s] = pool.total_collateral[s]
        BY <1>0, <1>1, <1>2, <2>0, <2>2
      <3>2. m <= real[s] - pool.total_collateral[s] - pool.protocol_fees[s]
        BY <1>2, <2>2 DEF swappable
      <3> QED
        BY <2>0, <3>1, <3>2
    <2> QED
      BY <1>1, <2>1, <2>2
  <1>5. real' \in [Side -> Nat]
    BY <1>0, <1>1, <1>2, <1>4
  <1>6. /\ loan' \in [LoanId -> LoanType]
        /\ allocated' \in [Side -> SUBSET BandId]
        /\ count' \in [Side -> [BandId -> Nat]]
    BY <1>0, <1>2, <1>3
  <1>7. TypeOK'
    BY <1>2, <1>4, <1>5, <1>6 DEF SafeInv, TypeOK
  <1>8. PoolOK(pool, real, slot)'
    BY <1>2, <1>4 DEF PoolOK, Covers
  <1> QED
    BY <1>2, <1>7, <1>8 DEF SafeInv

\* Repaying returns exactly the collateral it takes off the total, and the debt
\* that comes in adds to the other vault.
LEMMA SafeRepay ==
    ASSUME SafeInv, NEW l \in LoanId, RepayLoan(l)
    PROVE  SafeInv'
  <1> DEFINE x == loan[l]
             c == x.side
             d == Other(c)
             k == x.collateral
             b == x.band_id
  <1>0. pool \in PoolType /\ real \in [Side -> Nat] /\ slot \in Nat
        /\ SUPPLY \in [Side -> Nat] /\ (\A s \in Side : real[s] <= SUPPLY[s])
        /\ count \in [Side -> [BandId -> Nat]]
        /\ loan \in [LoanId -> LoanType]
    BY SystemAssumption DEF SafeInv, TypeOK
  <1>1. c \in Side /\ k \in Nat /\ b \in BandId
    BY <1>0 DEF LoanType
  <1>2. d \in Side /\ d # c /\ \A s \in Side : s = c \/ s = d
    BY <1>1, SideFacts
  <1>3. /\ tx' = IdleTx
        /\ pool' \in PoolType
        /\ k <= pool.total_collateral[c]
        /\ pool'.total_collateral = [pool.total_collateral EXCEPT ![c] = @ - k]
        /\ pool'.protocol_fees = pool.protocol_fees
        /\ (\A s \in Side : pool'.borrow_index[s] <= INDEX_CAP_WAD)
        /\ pool'.last_index_update_slot <= slot
        /\ pool'.ref_price_slot <= slot
        /\ (\E o \in Nat :
              /\ o <= SUPPLY[d] - real[d]
              /\ real' = [real EXCEPT ![d] = @ + o, ![c] = @ - k])
        /\ loan' = [loan EXCEPT ![l] = NoLoan]
        /\ count[c][b] >= 1
        /\ count' = [count EXCEPT ![c][b] = @ - 1]
        /\ UNCHANGED <<lp_supply, allocated, slot>>
    <2>1. RepayFacts(l, x)
      BY RepayEffect
    <2> QED
      BY <2>1 DEF RepayFacts
  <1> HIDE DEF x, c, d, k, b
  <1>4. PICK o \in Nat : /\ o <= SUPPLY[d] - real[d]
                         /\ real' = [real EXCEPT ![d] = @ + o, ![c] = @ - k]
    BY <1>3
  <1>5. ASSUME NEW s \in Side
        PROVE  /\ real'[s] \in Nat /\ real'[s] <= SUPPLY[s]
               /\ pool'.total_collateral[s] + pool'.protocol_fees[s] <= real'[s]
    <2>0. /\ pool.total_collateral \in [Side -> Nat]
          /\ pool.total_collateral[s] \in Nat /\ pool.protocol_fees[s] \in Nat
          /\ pool.total_collateral[s] + pool.protocol_fees[s] <= real[s]
          /\ real[s] \in Nat /\ real[s] <= SUPPLY[s] /\ SUPPLY[s] \in Nat
          /\ pool'.protocol_fees[s] = pool.protocol_fees[s]
      BY <1>0, <1>3 DEF PoolType, SafeInv, PoolOK, Covers
    <2>1. CASE s = c
      <3>1. /\ real'[s] = real[s] - k
            /\ pool'.total_collateral[s] = pool.total_collateral[s] - k
            /\ k <= pool.total_collateral[s]
        BY <1>0, <1>2, <1>3, <1>4, <2>0, <2>1
      <3> QED
        BY <1>1, <2>0, <3>1
    <2>2. CASE s = d
      <3>1. /\ real'[s] = real[s] + o
            /\ pool'.total_collateral[s] = pool.total_collateral[s]
            /\ o <= SUPPLY[s] - real[s]
        BY <1>0, <1>2, <1>3, <1>4, <2>0, <2>2
      <3> QED
        BY <2>0, <3>1
    <2> QED
      BY <1>2, <2>1, <2>2
  <1>6. real' \in [Side -> Nat]
    BY <1>0, <1>2, <1>4, <1>5
  <1>7. loan' \in [LoanId -> LoanType]
    BY <1>0, <1>3, NoLoanType
  <1>8. count' \in [Side -> [BandId -> Nat]]
    <2>1. count[c][b] - 1 \in Nat
      BY <1>0, <1>1, <1>3
    <2> QED
      BY <1>0, <1>1, <1>3, <2>1
  <1>9. TypeOK'
    BY <1>3, <1>5, <1>6, <1>7, <1>8 DEF SafeInv, TypeOK
  <1>10. PoolOK(pool, real, slot)'
    BY <1>3, <1>5 DEF PoolOK, Covers
  <1> QED
    BY <1>3, <1>9, <1>10 DEF SafeInv

\* Reclaiming the rent of a tombstone frees its address and nothing else.
LEMMA SafeClaimRent ==
    ASSUME SafeInv, NEW l \in LoanId, ClaimLiquidatedRent(l)
    PROVE  SafeInv'
  <1>1. /\ tx = IdleTx /\ loan' = [loan EXCEPT ![l] = NoLoan]
        /\ UNCHANGED <<pool, real, lp_supply, allocated, count, slot, tx>>
    BY DEF ClaimLiquidatedRent
  <1>2. loan' \in [LoanId -> LoanType]
    BY <1>1, NoLoanType DEF SafeInv, TypeOK
  <1> QED
    BY <1>1, <1>2 DEF SafeInv, TypeOK, PoolOK, Covers

\* The fees paid out are the fees earmarked.
LEMMA SafeClaimFees ==
    ASSUME SafeInv, ClaimProtocolFees
    PROVE  SafeInv'
  <1>0. pool \in PoolType /\ real \in [Side -> Nat]
        /\ SUPPLY \in [Side -> Nat] /\ \A s \in Side : real[s] <= SUPPLY[s]
    BY SystemAssumption DEF SafeInv, TypeOK
  <1>1. /\ tx = IdleTx
        /\ \A s \in Side : pool.protocol_fees[s] <= real[s]
        /\ real' = [s \in Side |-> real[s] - pool.protocol_fees[s]]
        /\ pool' = [pool EXCEPT !.protocol_fees = Zero]
        /\ UNCHANGED <<lp_supply, loan, allocated, count, slot, tx>>
    BY DEF ClaimProtocolFees
  <1>2. Zero \in [Side -> Nat]
    BY DEF Zero
  <1>3. pool' \in PoolType
    BY <1>0, <1>1, <1>2 DEF PoolType
  <1>4. /\ pool'.protocol_fees = Zero
        /\ pool'.total_collateral = pool.total_collateral
        /\ pool'.borrow_index = pool.borrow_index
        /\ pool'.last_index_update_slot = pool.last_index_update_slot
        /\ pool'.ref_price_slot = pool.ref_price_slot
    BY <1>0, <1>1 DEF PoolType
  <1>5. ASSUME NEW s \in Side
        PROVE  /\ real'[s] \in Nat /\ real'[s] <= SUPPLY[s]
               /\ pool'.total_collateral[s] + pool'.protocol_fees[s] <= real'[s]
    <2>1. /\ pool.total_collateral[s] + pool.protocol_fees[s] <= real[s]
          /\ pool.total_collateral[s] \in Nat /\ pool.protocol_fees[s] \in Nat
          /\ real[s] \in Nat /\ SUPPLY[s] \in Nat /\ real[s] <= SUPPLY[s]
      BY <1>0 DEF SafeInv, PoolOK, Covers, PoolType
    <2>2. /\ real'[s] = real[s] - pool.protocol_fees[s]
          /\ pool'.protocol_fees[s] = 0
          /\ pool'.total_collateral[s] = pool.total_collateral[s]
      BY <1>1, <1>4 DEF Zero
    <2> QED
      BY <2>1, <2>2
  <1>6. real' \in [Side -> Nat]
    BY <1>1, <1>5
  <1>7. TypeOK'
    BY <1>1, <1>3, <1>5, <1>6 DEF SafeInv, TypeOK
  <1>8. PoolOK(pool, real, slot)'
    BY <1>1, <1>4, <1>5 DEF SafeInv, PoolOK, Covers
  <1> QED
    BY <1>1, <1>7, <1>8 DEF SafeInv

\* A swap starts from a sound copy of the Pool and an accepted tail.
LEMMA SafeBegin ==
    ASSUME SafeInv, NEW c \in Side, NEW amount \in Nat, NEW min \in Nat,
           NEW boundary \in Nat, NEW tail \in Tails(c),
           BeginSwap(c, amount, min, boundary, tail)
    PROVE  SafeInv'
  <1> DEFINE p == bump_indexes(pool, real, slot)
             q == sample_ref_price(p, real, slot)
  <1>0. pool \in PoolType /\ real \in [Side -> Nat] /\ slot \in Nat
    BY SystemAssumption DEF SafeInv, TypeOK
  <1>1. p \in PoolType /\ PoolOK(p, real, slot)
    BY <1>0, BumpIndexes DEF SafeInv
  <1>2. /\ tx = IdleTx /\ amount # 0
        /\ tx' = [in |-> c, amount |-> amount, min |-> min,
                  boundary |-> boundary, tail |-> tail, liquidated |-> {},
                  pool |-> q]
        /\ UNCHANGED <<pool, real, lp_supply, loan, allocated, count, slot>>
    BY DEF BeginSwap
  <1>3. accounted(p, real)["A"] # 0
    BY DEF BeginSwap, Side
  <1>4. q \in PoolType /\ PoolOK(q, real, slot)
    BY <1>0, <1>1, <1>3, SampleRefPrice
  <1>5. tail \in TailType
    BY TailsType DEF SafeInv
  <1> HIDE DEF p, q
  <1>6. tx' \in TxType
    BY <1>2, <1>4, <1>5 DEF TxType
  <1>7. TypeOK'
    BY <1>2, <1>6 DEF SafeInv, TypeOK
  <1>8. PoolOK(pool, real, slot)'
    BY <1>2 DEF SafeInv
  <1>9. SwapOK(tx)'
    <2>1. Tails(c)' = Tails(c)
      BY <1>2 DEF Tails, Listings, members, is_open
    <2>2. tx'.tail = tail /\ tx'.in = c /\ tx'.liquidated = {} /\ tx'.pool = q
      BY <1>2
    <2>3. IsFiniteSet({})
      BY FS_EmptySet
    <2>4. Tails(tx.in)' = Tails(c)
      BY <1>2, <2>2 DEF Tails, Listings, members, is_open
    <2> QED
      BY <1>2, <1>4, <2>2, <2>3, <2>4 DEF SwapOK
  <1> QED
    BY <1>7, <1>8, <1>9 DEF SafeInv

\* A liquidation releases collateral, which the pool then holds unearmarked.
LEMMA SafeLiquidate ==
    ASSUME SafeInv, LiquidateNext
    PROVE  SafeInv'
  <1>0. pool \in PoolType /\ real \in [Side -> Nat] /\ slot \in Nat
        /\ loan \in [LoanId -> LoanType]
    BY SystemAssumption DEF SafeInv, TypeOK
  <1>1. PICK e : LiquidateFacts(e, LoanAt(tx.tail, e))
    BY LiquidateEffect
  <1> DEFINE x == loan[LoanAt(tx.tail, e)]
             c == tx.in
             p == tx.pool
             q == tx'.pool
  <1>2. /\ tx # IdleTx
        /\ LoanAt(tx.tail, e) \in LoanId
        /\ tx' \in TxType
        /\ tx'.tail = tx.tail /\ tx'.in = tx.in
        /\ tx'.liquidated = tx.liquidated \cup {e}
        /\ x.collateral <= p.total_collateral[c]
        /\ q.total_collateral = [p.total_collateral EXCEPT ![c] = @ - x.collateral]
        /\ q.protocol_fees = p.protocol_fees
        /\ q.borrow_index = p.borrow_index
        /\ q.last_index_update_slot = p.last_index_update_slot
        /\ q.ref_price_slot = p.ref_price_slot
        /\ UNCHANGED <<pool, real, lp_supply, loan, allocated, count, slot>>
    BY <1>1 DEF LiquidateFacts
  <1>3. tx \in TxType /\ SwapOK(tx)
    BY <1>2 DEF SafeInv, TypeOK
  <1>4. p \in PoolType /\ PoolOK(p, real, slot) /\ c \in Side
    BY <1>3 DEF TxType, SwapOK
  <1>5. x.collateral \in Nat
    BY <1>0, <1>2 DEF LoanType
  <1> HIDE DEF x, c, p, q
  <1>6. PoolOK(q, real, slot)
    <2>1. ASSUME NEW s \in Side
          PROVE  q.total_collateral[s] + q.protocol_fees[s] <= real[s]
      <3>1. /\ p.total_collateral[s] + p.protocol_fees[s] <= real[s]
            /\ p.total_collateral[s] \in Nat /\ p.protocol_fees[s] \in Nat
            /\ real[s] \in Nat
        BY <1>0, <1>4 DEF PoolOK, Covers, PoolType
      <3>2. /\ \/ q.total_collateral[s] = p.total_collateral[s] - x.collateral
               \/ q.total_collateral[s] = p.total_collateral[s]
            /\ q.protocol_fees[s] = p.protocol_fees[s]
        BY <1>2, <1>4 DEF PoolType
      <3> QED
        BY <1>5, <3>1, <3>2
    <2> QED
      BY <1>2, <1>4, <2>1 DEF PoolOK, Covers
  <1>7. SwapOK(tx)'
    <2>1. Tails(tx.in)' = Tails(tx.in)
      BY <1>2 DEF Tails, Listings, members, is_open
    <2>2. IsFiniteSet(tx'.liquidated)
      BY <1>2, <1>3, FS_AddElement DEF SwapOK
    <2> QED
      BY <1>2, <1>3, <1>6, <2>1, <2>2 DEF SwapOK, q
  <1>8. TypeOK'
    BY <1>2 DEF SafeInv, TypeOK
  <1> QED
    BY <1>2, <1>7, <1>8 DEF SafeInv

\* A settling swap earmarks no more of its input than came in, and its payout
\* is neither collateral nor fees.
LEMMA SafeCommit ==
    ASSUME SafeInv, CommitSwap
    PROVE  SafeInv'
  <1> DEFINE c == tx.in
             d == Other(c)
             p == tx.pool
             fee == protocol_portion(tx.amount)
             out == quote(tx)
  <1>0. real \in [Side -> Nat] /\ slot \in Nat
        /\ SUPPLY \in [Side -> Nat] /\ (\A s \in Side : real[s] <= SUPPLY[s])
        /\ count \in [Side -> [BandId -> Nat]]
        /\ loan \in [LoanId -> LoanType]
    BY SystemAssumption DEF SafeInv, TypeOK
  <1>1. CommitFacts
    BY CommitEffect
  <1>2. /\ tx \in TxType /\ SwapOK(tx) /\ Settles(tx)
        /\ out \in Nat
        /\ out <= swappable(p, real, d)
        /\ tx.amount <= SUPPLY[c] - real[c]
        /\ pool' \in PoolType
        /\ pool'.total_collateral = p.total_collateral
        /\ pool'.borrow_index = p.borrow_index
        /\ pool'.last_index_update_slot = p.last_index_update_slot
        /\ pool'.ref_price_slot = p.ref_price_slot
        /\ pool'.protocol_fees = [p.protocol_fees EXCEPT ![c] = @ + fee]
        /\ loan' = [l \in LoanId |->
                      IF l \in Dead(tx) THEN tombstone(loan[l]) ELSE loan[l]]
        /\ count' = [count EXCEPT ![c] =
                       [b \in BandId |-> @[b] - liquidated_here(tx, b)]]
        /\ real' = [real EXCEPT ![c] = @ + tx.amount, ![d] = @ - out]
        /\ tx' = IdleTx
        /\ UNCHANGED <<lp_supply, allocated, slot>>
    BY <1>1 DEF CommitFacts
  <1>3. p \in PoolType /\ PoolOK(p, real, slot) /\ c \in Side /\ tx.amount \in Nat
        /\ IsFiniteSet(tx.liquidated)
    BY <1>2 DEF TxType, SwapOK
  <1>4. d \in Side /\ d # c /\ \A s \in Side : s = c \/ s = d
    BY <1>3, SideFacts
  <1>5. \A b \in BandId : liquidated_here(tx, b) <= count[c][b]
    BY <1>2 DEF Settles
  <1>6. fee \in Nat /\ fee <= tx.amount
    BY <1>3, ProtocolPortion
  <1>7. count' \in [Side -> [BandId -> Nat]]
    <2>1. ASSUME NEW b \in BandId
          PROVE  count[c][b] - liquidated_here(tx, b) \in Nat
      <3>1. IsFiniteSet({e \in tx.liquidated : tx.tail[e[1]].band = b})
        BY <1>3, FS_Subset
      <3>2. liquidated_here(tx, b) \in Nat
        BY <3>1, FS_CardinalityType DEF liquidated_here
      <3> QED
        BY <1>0, <1>3, <1>5, <3>2
    <2> QED
      BY <1>0, <1>2, <1>3, <2>1
  <1>8. loan' \in [LoanId -> LoanType]
    <2>1. ASSUME NEW l \in LoanId
          PROVE  tombstone(loan[l]) \in LoanType
      BY <1>0 DEF tombstone, LoanType
    <2> QED
      BY <1>0, <1>2, <2>1
  <1> HIDE DEF c, d, p, fee, out
  <1>9. ASSUME NEW s \in Side
         PROVE  /\ real'[s] \in Nat /\ real'[s] <= SUPPLY[s]
                /\ pool'.total_collateral[s] + pool'.protocol_fees[s] <= real'[s]
    <2>1. /\ p.total_collateral[s] + p.protocol_fees[s] <= real[s]
          /\ p.total_collateral[s] \in Nat /\ p.protocol_fees[s] \in Nat
          /\ p.protocol_fees \in [Side -> Nat]
          /\ real[s] \in Nat /\ SUPPLY[s] \in Nat /\ real[s] <= SUPPLY[s]
      BY <1>0, <1>3 DEF PoolOK, Covers, PoolType
    <2>2. CASE s = c
      <3>1. /\ real'[s] = real[s] + tx.amount
            /\ pool'.protocol_fees[s] = p.protocol_fees[s] + fee
            /\ pool'.total_collateral[s] = p.total_collateral[s]
            /\ tx.amount <= SUPPLY[s] - real[s]
        BY <1>0, <1>2, <1>4, <2>1, <2>2
      <3> QED
        BY <1>3, <1>6, <2>1, <3>1
    <2>3. CASE s = d
      <3>1. /\ real'[s] = real[s] - out
            /\ pool'.protocol_fees[s] = p.protocol_fees[s]
            /\ pool'.total_collateral[s] = p.total_collateral[s]
        BY <1>0, <1>2, <1>4, <2>1, <2>3
      <3>2. out <= real[s] - p.total_collateral[s] - p.protocol_fees[s]
        BY <1>2, <2>3 DEF swappable
      <3> QED
        BY <1>2, <2>1, <3>1, <3>2
    <2> QED
      BY <1>4, <2>2, <2>3
  <1>10. real' \in [Side -> Nat]
    BY <1>0, <1>2, <1>4, <1>9
  <1>11. TypeOK'
    BY <1>2, <1>7, <1>8, <1>9, <1>10 DEF SafeInv, TypeOK
  <1>12. PoolOK(pool, real, slot)'
    BY <1>2, <1>3, <1>9 DEF PoolOK, Covers
  <1> QED
    BY <1>2, <1>11, <1>12 DEF SafeInv

\* A reverted swap, a donation, a burn and the clock leave the Pool as it was.
LEMMA SafeOthers ==
    ASSUME SafeInv,
           \/ AbortSwap
           \/ \E k \in Donations : Donate(k[1], k[2])
           \/ \E x \in DirectBurns : BurnLp(x)
           \/ Tick
    PROVE  SafeInv'
  <1>0. pool \in PoolType /\ real \in [Side -> Nat] /\ slot \in Nat
        /\ SUPPLY \in [Side -> Nat] /\ \A s \in Side : real[s] <= SUPPLY[s]
    BY SystemAssumption DEF SafeInv, TypeOK
  <1>1. CASE AbortSwap
    BY <1>1 DEF AbortSwap, SafeInv, TypeOK, PoolOK, Covers
  <1>2. CASE \E k \in Donations : Donate(k[1], k[2])
    <2>1. PICK k \in Donations : Donate(k[1], k[2])
      BY <1>2
    <2>2. k[1] \in Side /\ k[2] \in Nat
      BY InputsAssumption
    <2>3. /\ tx = IdleTx /\ k[2] <= SUPPLY[k[1]] - real[k[1]]
          /\ real' = [real EXCEPT ![k[1]] = @ + k[2]]
          /\ UNCHANGED <<pool, lp_supply, loan, allocated, count, slot, tx>>
      BY <2>1 DEF Donate, Outside
    <2>4. real' \in [Side -> Nat] /\ \A s \in Side : real[s] <= real'[s]
      BY <1>0, <2>2, <2>3
    <2>5. \A s \in Side : real'[s] <= SUPPLY[s]
      BY <1>0, <2>2, <2>3
    <2>6. PoolOK(pool, real', slot)
      BY <1>0, <2>4, CoversMore DEF SafeInv
    <2>7. TypeOK'
      BY <2>3, <2>4, <2>5 DEF SafeInv, TypeOK
    <2> QED
      BY <2>3, <2>6, <2>7 DEF SafeInv
  <1>3. CASE \E x \in DirectBurns : BurnLp(x)
    <2>1. PICK x \in DirectBurns : BurnLp(x)
      BY <1>3
    <2>2. x \in Nat /\ LP_MAX \in Nat
      BY InputsAssumption, SystemAssumption
    <2>3. lp_supply' \in 0..LP_MAX
      BY <2>1, <2>2 DEF BurnLp, SafeInv, TypeOK
    <2> QED
      BY <2>1, <2>3 DEF BurnLp, SafeInv, TypeOK, PoolOK, Covers
  <1>4. CASE Tick
    <2>1. /\ tx = IdleTx /\ slot' = slot + 1 /\ slot' \in 0..MAX_SLOT
          /\ UNCHANGED <<pool, real, lp_supply, loan, allocated, count, tx>>
      BY <1>4, SystemAssumption DEF Tick, SafeInv, TypeOK
    <2>2. pool.last_index_update_slot \in Nat /\ pool.ref_price_slot \in Nat
      BY <1>0 DEF PoolType
    <2>3. PoolOK(pool, real, slot')
      BY <1>0, <2>1, <2>2 DEF SafeInv, PoolOK
    <2>4. TypeOK'
      BY <2>1 DEF SafeInv, TypeOK
    <2> QED
      BY <2>1, <2>3, <2>4 DEF SafeInv
  <1> QED
    BY <1>1, <1>2, <1>3, <1>4

\* Every instruction keeps the invariant.
LEMMA SafeNext == SafeInv /\ [Next]_vars => SafeInv'
  <1> SUFFICES ASSUME SafeInv, [Next]_vars PROVE SafeInv'
    OBVIOUS
  <1> USE InputsAssumption
  <1>1. CASE \E d \in Deposits, min \in Mins : AddLiquidity(d[1], d[2], min)
    BY <1>1, SafeAdd
  <1>2. CASE \E x \in Burns, a, b \in Mins : RemoveLiquidity(x, a, b)
    BY <1>2, SafeRemove
  <1>3. CASE \E l \in LoanId, k \in LoanTerms : OpenLoan(l, k[1], k[2], k[3])
    <2>1. PICK l \in LoanId, k \in LoanTerms : OpenLoan(l, k[1], k[2], k[3])
      BY <1>3
    <2>2. k[1] \in Side /\ k[2] \in Nat /\ k[3] \in Nat
      OBVIOUS
    <2> QED
      BY <2>1, <2>2, SafeOpen
  <1>4. CASE \E l \in LoanId : RepayLoan(l)
    BY <1>4, SafeRepay
  <1>5. CASE \E l \in LoanId : ClaimLiquidatedRent(l)
    BY <1>5, SafeClaimRent
  <1>6. CASE ClaimProtocolFees
    BY <1>6, SafeClaimFees
  <1>7. CASE \E k \in SwapIns, min \in Mins, boundary \in Boundaries :
               \E tail \in Tails(k[1]) : BeginSwap(k[1], k[2], min, boundary, tail)
    <2>1. PICK k \in SwapIns, min \in Mins, boundary \in Boundaries :
             \E tail \in Tails(k[1]) : BeginSwap(k[1], k[2], min, boundary, tail)
      BY <1>7
    <2>2. PICK tail \in Tails(k[1]) : BeginSwap(k[1], k[2], min, boundary, tail)
      BY <2>1
    <2>3. k[1] \in Side /\ k[2] \in Nat /\ min \in Nat /\ boundary \in Nat
      OBVIOUS
    <2> QED
      BY <2>2, <2>3, SafeBegin
  <1>8. CASE LiquidateNext
    BY <1>8, SafeLiquidate
  <1>9. CASE CommitSwap
    BY <1>9, SafeCommit
  <1>10. CASE \/ AbortSwap
              \/ \E k \in Donations : Donate(k[1], k[2])
              \/ \E x \in DirectBurns : BurnLp(x)
              \/ Tick
    BY <1>10, SafeOthers
  <1>11. CASE UNCHANGED vars
    BY <1>11 DEF vars, SafeInv, TypeOK, PoolOK, Covers, SwapOK, Tails, Listings,
                 members, is_open
  <1> QED
    BY <1>1, <1>2, <1>3, <1>4, <1>5, <1>6, <1>7, <1>8, <1>9, <1>10, <1>11 DEF Next

-------------------------------------------------------------------------------
(* What holds of every behaviour.                                              *)

\* The inductive invariant holds throughout.
THEOREM SafeAlways == Spec => []SafeInv
  BY SafeInit, SafeNext, PTL DEF Spec

\* No instruction, in any order and with any inputs, drives a balance, a total
\* or a counter below zero or a vault above what exists: the checked
\* subtractions of the program protect every account.
THEOREM TypeCorrect == Spec => []TypeOK
  <1>1. SafeInv => TypeOK
    BY DEF SafeInv
  <1> QED
    BY <1>1, SafeAlways, PTL

\* The vaults always hold the collateral and the fees earmarked in them, through
\* deposits, loans, liquidations, fee claims and withdrawals alike.
THEOREM Solvent == Spec => []Solvency
  <1>1. SafeInv => Solvency
    BY DEF SafeInv, PoolOK, Solvency
  <1> QED
    BY <1>1, SafeAlways, PTL

-------------------------------------------------------------------------------
(* The reserves behind the LP tokens.                                          *)

\* The reserves of side s, in full.
LEMMA AccountedNow ==
    ASSUME SafeInv
    PROVE  /\ accounted(pool, real) \in [Side -> Nat]
           /\ lp_supply \in Nat
           /\ \A s \in Side :
                 /\ real[s] \in Nat /\ pool.total_collateral[s] \in Nat
                 /\ pool.protocol_fees[s] \in Nat /\ pool.total_debt[s] \in Nat
                 /\ accounted(pool, real)[s] =
                       real[s] - pool.total_collateral[s] - pool.protocol_fees[s]
                       + pool.total_debt[s]
  <1>1. pool \in PoolType /\ real \in [Side -> Nat] /\ Covers(pool, real)
        /\ lp_supply \in Nat
    BY SystemAssumption DEF SafeInv, TypeOK, PoolOK
  <1>2. accounted(pool, real) \in [Side -> Nat]
    BY <1>1, AccountedType
  <1>3. \A s \in Side : accounted(pool, real)[s] =
                           real[s] - pool.total_collateral[s] - pool.protocol_fees[s]
                           + pool.total_debt[s]
    BY <1>1, AccountedType
  <1> QED
    BY <1>1, <1>2, <1>3 DEF PoolType

LEMMA AccountedNext ==
    ASSUME SafeInv'
    PROVE  /\ accounted(pool', real') \in [Side -> Nat]
           /\ lp_supply' \in Nat
           /\ \A s \in Side :
                 /\ real'[s] \in Nat /\ pool'.total_collateral[s] \in Nat
                 /\ pool'.protocol_fees[s] \in Nat /\ pool'.total_debt[s] \in Nat
                 /\ accounted(pool', real')[s] =
                       real'[s] - pool'.total_collateral[s] - pool'.protocol_fees[s]
                       + pool'.total_debt[s]
  <1>1. pool' \in PoolType /\ real' \in [Side -> Nat] /\ Covers(pool', real')
        /\ lp_supply' \in Nat
    BY SystemAssumption DEF SafeInv, TypeOK, PoolOK, Covers
  <1>2. accounted(pool', real') \in [Side -> Nat]
    BY <1>1, AccountedType
  <1>3. \A s \in Side :
           accounted(pool', real')[s] =
              real'[s] - pool'.total_collateral[s] - pool'.protocol_fees[s]
              + pool'.total_debt[s]
    BY <1>1, AccountedType
  <1> QED
    BY <1>1, <1>2, <1>3 DEF PoolType

\* Nothing leaves the reserves and no LP is minted.
Steady ==
    /\ lp_supply' <= lp_supply
    /\ \A s \in Side : accounted(pool, real)[s] <= accounted(pool', real')[s]

\* Opening a loan moves tokens from the vault to the debt, and the collateral
\* is no part of the reserves.
LEMMA SteadyOpen ==
    ASSUME SafeInv, SafeInv',
           NEW l \in LoanId, NEW c \in Side, NEW k \in Nat, NEW m \in Nat,
           OpenLoan(l, c, k, m)
    PROVE  Steady
  <1> DEFINE d == Other(c)
  <1>1. /\ pool'.total_collateral = [pool.total_collateral EXCEPT ![c] = @ + k]
        /\ pool'.total_debt = [pool.total_debt EXCEPT ![d] = @ + m]
        /\ pool'.protocol_fees = pool.protocol_fees
        /\ real' = [real EXCEPT ![c] = @ + k, ![d] = @ - m]
        /\ lp_supply' = lp_supply
    <2>1. OpenFacts(l, c, k, m)
      BY OpenEffect
    <2> QED
      BY <2>1 DEF OpenFacts
  <1>2. d \in Side /\ d # c /\ \A s \in Side : s = c \/ s = d
    BY SideFacts
  <1> HIDE DEF d
  <1>3. /\ real \in [Side -> Nat] /\ pool.total_collateral \in [Side -> Nat]
        /\ pool.total_debt \in [Side -> Nat]
    BY DEF SafeInv, TypeOK, PoolType
  <1>4. ASSUME NEW s \in Side
        PROVE  accounted(pool, real)[s] <= accounted(pool', real')[s]
    <2> USE AccountedNow, AccountedNext
    <2>1. CASE s = c
      <3>1. /\ real'[s] = real[s] + k
            /\ pool'.total_collateral[s] = pool.total_collateral[s] + k
            /\ pool'.total_debt[s] = pool.total_debt[s]
            /\ pool'.protocol_fees[s] = pool.protocol_fees[s]
        BY <1>1, <1>2, <1>3, <2>1
      <3> QED
        BY <3>1
    <2>2. CASE s = d
      <3>1. /\ real'[s] = real[s] - m
            /\ pool'.total_collateral[s] = pool.total_collateral[s]
            /\ pool'.total_debt[s] = pool.total_debt[s] + m
            /\ pool'.protocol_fees[s] = pool.protocol_fees[s]
        BY <1>1, <1>2, <1>3, <2>2
      <3> QED
        BY <3>1
    <2> QED
      BY <1>2, <2>1, <2>2
  <1>5. lp_supply' <= lp_supply
    BY <1>1, AccountedNow
  <1> QED
    BY <1>4, <1>5 DEF Steady

\* Repaying brings in at least the principal it takes off the debt.
LEMMA SteadyRepay ==
    ASSUME SafeInv, SafeInv', NEW l \in LoanId, RepayLoan(l)
    PROVE  Steady
  <1> DEFINE x == loan[l]
             c == x.side
             d == Other(c)
  <1>1. /\ x \in LoanType
        /\ x.collateral <= pool.total_collateral[c]
        /\ x.principal <= pool.total_debt[d]
        /\ pool'.total_collateral =
              [pool.total_collateral EXCEPT ![c] = @ - x.collateral]
        /\ pool'.total_debt = [pool.total_debt EXCEPT ![d] = @ - x.principal]
        /\ pool'.protocol_fees = pool.protocol_fees
        /\ \E o \in Nat : /\ x.principal <= o
                          /\ real' = [real EXCEPT ![d] = @ + o,
                                                  ![c] = @ - x.collateral]
        /\ lp_supply' = lp_supply
    <2>1. RepayFacts(l, x)
      BY RepayEffect
    <2> QED
      BY <2>1 DEF RepayFacts
  <1>2. c \in Side /\ x.collateral \in Nat /\ x.principal \in Nat
    BY <1>1 DEF LoanType
  <1>3. d \in Side /\ d # c /\ \A s \in Side : s = c \/ s = d
    BY <1>2, SideFacts
  <1> HIDE DEF x, c, d
  <1>4. PICK o \in Nat : /\ x.principal <= o
                         /\ real' = [real EXCEPT ![d] = @ + o, ![c] = @ - x.collateral]
    BY <1>1
  <1>5. /\ real \in [Side -> Nat] /\ pool.total_collateral \in [Side -> Nat]
        /\ pool.total_debt \in [Side -> Nat]
    BY DEF SafeInv, TypeOK, PoolType
  <1>6. ASSUME NEW s \in Side
        PROVE  accounted(pool, real)[s] <= accounted(pool', real')[s]
    <2> USE AccountedNow, AccountedNext
    <2>1. CASE s = c
      <3>1. /\ real'[s] = real[s] - x.collateral
            /\ pool'.total_collateral[s] = pool.total_collateral[s] - x.collateral
            /\ pool'.total_debt[s] = pool.total_debt[s]
            /\ pool'.protocol_fees[s] = pool.protocol_fees[s]
        BY <1>1, <1>3, <1>4, <1>5, <2>1
      <3> QED
        BY <1>2, <3>1
    <2>2. CASE s = d
      <3>1. /\ real'[s] = real[s] + o
            /\ pool'.total_collateral[s] = pool.total_collateral[s]
            /\ pool'.total_debt[s] = pool.total_debt[s] - x.principal
            /\ pool'.protocol_fees[s] = pool.protocol_fees[s]
        BY <1>1, <1>3, <1>4, <1>5, <2>2
      <3>2. x.principal <= o
        BY <1>4
      <3> QED
        BY <1>2, <3>1, <3>2
    <2> QED
      BY <1>3, <2>1, <2>2
  <1>7. lp_supply' <= lp_supply
    BY <1>1, AccountedNow
  <1> QED
    BY <1>6, <1>7 DEF Steady

\* Neither do fee claims, donations, burns, rent claims, the clock and swaps
\* that have not settled.
LEMMA SteadyOthers ==
    ASSUME SafeInv, SafeInv',
           \/ \E l \in LoanId : ClaimLiquidatedRent(l)
           \/ ClaimProtocolFees
           \/ \E k \in SwapIns, min \in Mins, boundary \in Boundaries :
                 \E tail \in Tails(k[1]) : BeginSwap(k[1], k[2], min, boundary, tail)
           \/ LiquidateNext
           \/ AbortSwap
           \/ \E k \in Donations : Donate(k[1], k[2])
           \/ \E x \in DirectBurns : BurnLp(x)
           \/ Tick
           \/ UNCHANGED vars
    PROVE  Steady
  <1>0. pool \in PoolType /\ real \in [Side -> Nat]
    BY DEF SafeInv, TypeOK
  <1>1. CASE ClaimProtocolFees
    <2>1. /\ real' = [s \in Side |-> real[s] - pool.protocol_fees[s]]
          /\ pool' = [pool EXCEPT !.protocol_fees = Zero]
          /\ lp_supply' = lp_supply
      BY <1>1 DEF ClaimProtocolFees
    <2>2. /\ pool'.protocol_fees = Zero
          /\ pool'.total_collateral = pool.total_collateral
          /\ pool'.total_debt = pool.total_debt
      BY <1>0, <2>1 DEF PoolType
    <2>3. ASSUME NEW s \in Side
          PROVE  accounted(pool, real)[s] <= accounted(pool', real')[s]
      <3>1. /\ real'[s] = real[s] - pool.protocol_fees[s]
            /\ pool'.protocol_fees[s] = 0
            /\ pool'.total_collateral[s] = pool.total_collateral[s]
            /\ pool'.total_debt[s] = pool.total_debt[s]
        BY <2>1, <2>2 DEF Zero
      <3> QED
        BY <3>1, AccountedNow, AccountedNext
    <2> QED
      BY <2>1, <2>3, AccountedNow DEF Steady
  <1>2. CASE \E k \in Donations : Donate(k[1], k[2])
    <2>1. PICK k \in Donations : Donate(k[1], k[2])
      BY <1>2
    <2>2. k[1] \in Side /\ k[2] \in Nat
      BY InputsAssumption
    <2>3. real' = [real EXCEPT ![k[1]] = @ + k[2]] /\ UNCHANGED <<pool, lp_supply>>
      BY <2>1 DEF Donate
    <2>4. ASSUME NEW s \in Side
          PROVE  accounted(pool, real)[s] <= accounted(pool', real')[s]
      <3>1. real[s] <= real'[s]
        BY <1>0, <2>2, <2>3
      <3>2. /\ pool'.total_collateral[s] = pool.total_collateral[s]
            /\ pool'.total_debt[s] = pool.total_debt[s]
            /\ pool'.protocol_fees[s] = pool.protocol_fees[s]
        BY <2>3
      <3> QED
        BY <3>1, <3>2, AccountedNow, AccountedNext
    <2>5. lp_supply' <= lp_supply
      BY <2>3, AccountedNow
    <2> QED
      BY <2>4, <2>5 DEF Steady
  <1>3. CASE \E x \in DirectBurns : BurnLp(x)
    <2>1. PICK x \in DirectBurns : BurnLp(x)
      BY <1>3
    <2>2. x \in Nat
      BY InputsAssumption
    <2>3. lp_supply' = lp_supply - x /\ UNCHANGED <<pool, real>>
      BY <2>1 DEF BurnLp
    <2>4. accounted(pool', real') = accounted(pool, real)
      BY <2>3
    <2> QED
      BY <2>2, <2>3, <2>4, AccountedNow DEF Steady
  <1>4. CASE ~ ClaimProtocolFees /\ ~ (\E k \in Donations : Donate(k[1], k[2]))
             /\ ~ (\E x \in DirectBurns : BurnLp(x))
    <2>1. UNCHANGED <<pool, real, lp_supply>>
      BY <1>4 DEF ClaimLiquidatedRent, BeginSwap, LiquidateNext, AbortSwap, Tick, vars
    <2>2. accounted(pool', real') = accounted(pool, real)
      BY <2>1
    <2> QED
      BY <2>1, <2>2, AccountedNow DEF Steady
  <1> QED
    BY <1>1, <1>2, <1>3, <1>4

\* A deposit, the first one included, adds to both reserves, and mints no more
\* LP than its share of what it adds.
LEMMA DepositShares ==
    ASSUME SafeInv, SafeInv', NEW a \in Nat, NEW b \in Nat, NEW min \in Nat,
           AddLiquidity(a, b, min), NEW s \in Side
    PROVE  /\ accounted(pool', real')[s] > 0 \/ lp_supply > 0
           /\ accounted(pool, real)[s] <= accounted(pool', real')[s]
           /\ lp_supply > 0 => accounted(pool, real)[s] * lp_supply'
                                 <= accounted(pool', real')[s] * lp_supply
  <1> DEFINE p == bump_indexes(pool, real, slot)
             acc == accounted(pool, real)
             d == derive_deposit(a, b, acc)
  <1>0. pool \in PoolType /\ real \in [Side -> Nat] /\ slot \in Nat
    BY SystemAssumption DEF SafeInv, TypeOK
  <1>1. /\ p.total_debt = pool.total_debt
        /\ p.total_collateral = pool.total_collateral
        /\ p.protocol_fees = pool.protocol_fees
    BY <1>0, BumpIndexes DEF SafeInv
  <1>2. accounted(p, real) = acc
    BY <1>1 DEF accounted, swappable
  <1>3. /\ d.lp # 0
        /\ real' = [u \in Side |-> real[u] + d.in[u]]
        /\ lp_supply' = lp_supply + d.lp
        /\ pool' = p
    BY <1>2 DEF AddLiquidity
  <1>4. acc \in [Side -> Nat] /\ lp_supply \in Nat
    BY AccountedNow
  <1>5. d.lp \in Nat /\ d.in \in [Side -> Nat]
    BY <1>4, DepositType
  <1> HIDE DEF p, d, acc
  <1>6. accounted(pool', real')[s] = acc[s] + d.in[s]
    <2>1. /\ real'[s] = real[s] + d.in[s]
          /\ pool'.total_debt[s] = pool.total_debt[s]
          /\ pool'.total_collateral[s] = pool.total_collateral[s]
          /\ pool'.protocol_fees[s] = pool.protocol_fees[s]
      BY <1>1, <1>3
    <2>2. d.in[s] \in Nat
      BY <1>5
    <2> QED
      BY <2>1, <2>2, AccountedNow, AccountedNext DEF acc
  <1>7. acc[s] \in Nat /\ d.in[s] \in Nat
    BY <1>4, <1>5
  <1>8. CASE lp_supply = 0
    <2>1. a >= MIN_FIRST_DEPOSIT /\ b >= MIN_FIRST_DEPOSIT
      BY <1>3, <1>8 DEF d, derive_deposit
    <2>2. d.in[s] = IF s = "A" THEN a ELSE b
      BY <1>8 DEF d, derive_deposit
    <2>3. MIN_FIRST_DEPOSIT \in Nat /\ MIN_FIRST_DEPOSIT > 0
      BY ParametersAssumption
    <2>4. d.in[s] > 0
      BY <2>1, <2>2, <2>3
    <2> QED
      BY <1>6, <1>7, <1>8, <2>4 DEF acc
  <1>9. CASE lp_supply # 0
    <2> DEFINE m  == matched_deposit(a, b, acc)
               lp == lp_for(m, acc, lp_supply)
               ch == deposit_charge(lp, m, acc, lp_supply)
    <2>1. acc["A"] # 0 /\ acc["B"] # 0
      BY <1>3, <1>9 DEF d, derive_deposit
    <2>2. acc \in [Side -> Nat \ {0}] /\ lp_supply \in Nat \ {0}
      BY <1>4, <1>9, <2>1 DEF Side
    <2>3. d.in = ch /\ d.lp = lp
      BY <1>3, <1>9, <2>1 DEF d, derive_deposit
    <2>4. m \in [Side -> Nat]
      <3>1. acc["A"] \in Nat \ {0} /\ acc["B"] \in Nat \ {0}
        BY <2>2 DEF Side
      <3>2. /\ mul_div(a, acc["B"], acc["A"]) \in Nat
            /\ mul_div(b, acc["A"], acc["B"]) \in Nat
        BY <3>1, MulDiv
      <3> QED
        BY <3>2 DEF matched_deposit
    <2> HIDE DEF m
    <2>5. lp * acc[s] <= ch[s] * lp_supply
      BY <2>2, <2>4, DepositFair
    <2> HIDE DEF lp, ch
    <2>6. d.lp * acc[s] <= d.in[s] * lp_supply
      BY <2>3, <2>5
    <2>7. acc[s] * (lp_supply + d.lp) = acc[s] * lp_supply + d.lp * acc[s]
      BY <1>4, <1>5, <1>7
    <2>8. (acc[s] + d.in[s]) * lp_supply = acc[s] * lp_supply + d.in[s] * lp_supply
      BY <1>4, <1>7
    <2>9. acc[s] * lp_supply \in Nat /\ d.lp * acc[s] \in Nat /\ d.in[s] * lp_supply \in Nat
      BY <1>4, <1>5, <1>7
    <2>10. acc[s] * (lp_supply + d.lp) <= (acc[s] + d.in[s]) * lp_supply
      BY <2>6, <2>7, <2>8, <2>9
    <2>11. acc[s] * lp_supply' <= accounted(pool', real')[s] * lp_supply
      BY <1>3, <1>6, <2>10
    <2> QED
      BY <1>4, <1>6, <1>7, <1>9, <2>11 DEF acc
  <1> QED
    BY <1>4, <1>8, <1>9

\* A withdrawal takes no more than its share, and takes all only with the last
\* LP token.
LEMMA WithdrawShares ==
    ASSUME SafeInv, SafeInv', NEW x \in Nat, NEW ma \in Nat, NEW mb \in Nat,
           RemoveLiquidity(x, ma, mb), NEW s \in Side
    PROVE  /\ lp_supply > 0
           /\ lp_supply' > 0 /\ accounted(pool, real)[s] > 0
                => accounted(pool', real')[s] > 0
           /\ accounted(pool, real)[s] * lp_supply'
                <= accounted(pool', real')[s] * lp_supply
           /\ lp_supply' = 0 => accounted(pool, real)[s] <= swappable(pool, real, s)
  <1> DEFINE p == bump_indexes(pool, real, slot)
             acc == accounted(pool, real)
             out == withdrawal_amounts(x, acc, lp_supply)
  <1>0. pool \in PoolType /\ real \in [Side -> Nat] /\ slot \in Nat
    BY SystemAssumption DEF SafeInv, TypeOK
  <1>1. /\ p.total_debt = pool.total_debt
        /\ p.total_collateral = pool.total_collateral
        /\ p.protocol_fees = pool.protocol_fees
    BY <1>0, BumpIndexes DEF SafeInv
  <1>2. accounted(p, real) = acc /\ swappable(p, real, s) = swappable(pool, real, s)
    BY <1>1 DEF accounted, swappable
  <1>3. /\ lp_supply # 0 /\ x <= lp_supply /\ x # 0
        /\ real' = [u \in Side |-> real[u] - out[u]]
        /\ lp_supply' = lp_supply - x
        /\ pool' = p
        /\ out[s] <= swappable(pool, real, s)
    BY <1>2 DEF RemoveLiquidity, executable
  <1>4. acc \in [Side -> Nat] /\ lp_supply \in Nat
    BY AccountedNow
  <1>5. out[s] = mul_div(x, acc[s], lp_supply)
    BY DEF withdrawal_amounts
  <1> HIDE DEF p, acc, out
  <1>6. acc[s] \in Nat
    BY <1>4
  <1>7. /\ out[s] \in Nat
        /\ out[s] * lp_supply <= x * acc[s]
        /\ x < lp_supply /\ acc[s] > 0 => out[s] < acc[s]
        /\ x = lp_supply => out[s] = acc[s]
    <2> DEFINE q == mul_div(x, acc[s], lp_supply)
    <2>1. lp_supply \in Nat \ {0} /\ x <= lp_supply
      BY <1>3, <1>4
    <2>2. /\ q \in Nat
          /\ q * lp_supply <= x * acc[s]
          /\ x < lp_supply /\ acc[s] > 0 => q < acc[s]
          /\ x = lp_supply => q = acc[s]
      BY <1>6, <2>1, WithdrawFair
    <2> HIDE DEF q
    <2>3. out[s] = q
      BY <1>5 DEF q
    <2> QED
      BY <2>2, <2>3
  <1>8. accounted(pool', real')[s] = acc[s] - out[s]
    <2>1. /\ real'[s] = real[s] - out[s]
          /\ pool'.total_debt[s] = pool.total_debt[s]
          /\ pool'.total_collateral[s] = pool.total_collateral[s]
          /\ pool'.protocol_fees[s] = pool.protocol_fees[s]
      BY <1>1, <1>3
    <2> QED
      BY <1>7, <2>1, AccountedNow, AccountedNext DEF acc
  <1>9. acc[s] * lp_supply' <= accounted(pool', real')[s] * lp_supply
    <2>1. acc[s] * (lp_supply - x) = acc[s] * lp_supply - x * acc[s]
      BY <1>4, <1>6
    <2>2. (acc[s] - out[s]) * lp_supply = acc[s] * lp_supply - out[s] * lp_supply
      BY <1>4, <1>6, <1>7
    <2>3. acc[s] * lp_supply \in Nat /\ x * acc[s] \in Nat /\ out[s] * lp_supply \in Nat
      BY <1>4, <1>6, <1>7
    <2>4. acc[s] * (lp_supply - x) <= (acc[s] - out[s]) * lp_supply
      BY <1>7, <2>1, <2>2, <2>3
    <2> QED
      BY <1>3, <1>8, <2>4
  <1>10. lp_supply' > 0 /\ acc[s] > 0 => accounted(pool', real')[s] > 0
    BY <1>3, <1>4, <1>6, <1>7, <1>8
  <1>11. lp_supply' = 0 => acc[s] <= swappable(pool, real, s)
    BY <1>3, <1>4, <1>7
  <1> QED
    BY <1>3, <1>4, <1>9, <1>10, <1>11 DEF acc

\* A settled swap leaves the reserves it priced itself against: its input less
\* the protocol's skim on one side, its payout off the other.
LEMMA SettledReserves ==
    ASSUME SafeInv, SafeInv', CommitSwap
    PROVE  /\ accounted(pool', real') = settled(tx)
           /\ tx.in \in Side
           /\ accounted(tx.pool, real) \in [Side -> Nat \ {0}]
           /\ in_growth(tx.amount) \in Nat
           /\ quote(tx) \in Nat
           /\ quote(tx) < accounted(tx.pool, real)[Other(tx.in)]
           /\ lp_supply' = lp_supply
  <1> DEFINE c == tx.in
             d == Other(c)
             p == tx.pool
             acc == accounted(p, real)
             fee == protocol_portion(tx.amount)
             out == quote(tx)
  <1>1. /\ tx # IdleTx /\ tx \in TxType /\ SwapOK(tx) /\ Settles(tx)
        /\ pool'.total_collateral = p.total_collateral
        /\ pool'.total_debt = p.total_debt
        /\ pool'.protocol_fees = [p.protocol_fees EXCEPT ![c] = @ + fee]
        /\ real' = [real EXCEPT ![c] = @ + tx.amount, ![d] = @ - out]
        /\ lp_supply' = lp_supply
    BY CommitEffect DEF CommitFacts
  <1>2. /\ p \in PoolType /\ Covers(p, real) /\ c \in Side /\ tx.amount \in Nat
        /\ real \in [Side -> Nat]
    BY <1>1 DEF TxType, SwapOK, PoolOK, SafeInv, TypeOK
  <1>3. d \in Side /\ d # c /\ \A s \in Side : s = c \/ s = d
    BY <1>2, SideFacts
  <1>4. LoopReserves(tx)
    BY <1>1 DEF Settles
  <1>5. out \in Nat /\ out < acc[d]
    BY <1>1, <1>4, QuoteType
  <1>6. fee \in Nat /\ fee <= tx.amount
    BY <1>2, ProtocolPortion
  <1>7. /\ acc \in [Side -> Nat]
        /\ \A s \in Side : acc[s] = real[s] - p.total_collateral[s] - p.protocol_fees[s]
                                    + p.total_debt[s]
    BY <1>2, AccountedType
  <1>8. acc \in [Side -> Nat \ {0}]
    <2>1. \A s \in Side : acc[s] # 0
      BY <1>4 DEF LoopReserves
    <2> HIDE DEF acc
    <2> QED
      BY <1>7, <2>1
  <1>9. settled(tx) = [acc EXCEPT ![c] = @ + in_growth(tx.amount), ![d] = @ - out]
    BY DEF settled
  <1>10. in_growth(tx.amount) = tx.amount - fee
    BY DEF in_growth
  <1> HIDE DEF c, d, p, acc, fee, out
  <1>11. ASSUME NEW s \in Side
         PROVE  accounted(pool', real')[s] = settled(tx)[s]
    <2>1. /\ p.total_collateral[s] \in Nat /\ p.protocol_fees[s] \in Nat
          /\ p.total_debt[s] \in Nat /\ real[s] \in Nat
          /\ p.protocol_fees \in [Side -> Nat]
          /\ acc[s] \in Nat
          /\ acc[s] = real[s] - p.total_collateral[s] - p.protocol_fees[s]
                      + p.total_debt[s]
      BY <1>2, <1>7 DEF PoolType
    <2>2. /\ pool'.total_collateral[s] = p.total_collateral[s]
          /\ pool'.total_debt[s] = p.total_debt[s]
      BY <1>1
    <2>3. accounted(pool', real')[s] =
             real'[s] - pool'.total_collateral[s] - pool'.protocol_fees[s]
             + pool'.total_debt[s]
      BY AccountedNext
    <2>4. CASE s = c
      <3>1. /\ real'[s] = real[s] + tx.amount
            /\ pool'.protocol_fees[s] = p.protocol_fees[s] + fee
        BY <1>1, <1>2, <1>3, <2>1, <2>4
      <3>2. settled(tx)[s] = acc[s] + (tx.amount - fee)
        BY <1>3, <1>7, <1>9, <1>10, <2>4
      <3> QED
        BY <1>2, <1>6, <2>1, <2>2, <2>3, <3>1, <3>2
    <2>5. CASE s = d
      <3>1. /\ real'[s] = real[s] - out
            /\ pool'.protocol_fees[s] = p.protocol_fees[s]
        BY <1>1, <1>2, <1>3, <2>1, <2>5
      <3>2. settled(tx)[s] = acc[s] - out
        BY <1>3, <1>7, <1>9, <2>5
      <3> QED
        BY <1>5, <2>1, <2>2, <2>3, <3>1, <3>2
    <2> QED
      BY <1>3, <2>4, <2>5
  <1>12. accounted(pool', real') = settled(tx)
    <2>1. accounted(pool', real') = [s \in Side |-> accounted(pool', real')[s]]
      BY AccountedNext
    <2>2. settled(tx) = [s \in Side |-> settled(tx)[s]]
      BY <1>7, <1>9
    <2> QED
      BY <1>11, <2>1, <2>2
  <1>13. in_growth(tx.amount) \in Nat
    BY <1>2, <1>6, <1>10
  <1> QED
    BY <1>1, <1>2, <1>5, <1>8, <1>12, <1>13 DEF c, d, p, acc, out

\* Every instruction keeps the reserves of a pool with LP tokens positive.
LEMMA PositiveNext ==
    ASSUME SafeInv, SafeInv', AccountedPositive, [Next]_vars
    PROVE  AccountedPositive'
  <1> SUFFICES ASSUME lp_supply' > 0, NEW s \in Side
               PROVE  accounted(pool', real')[s] > 0
    BY DEF AccountedPositive
  <1> USE InputsAssumption
  <1>0. /\ lp_supply \in Nat /\ accounted(pool, real)[s] \in Nat
        /\ accounted(pool', real')[s] \in Nat /\ lp_supply' \in Nat
        /\ lp_supply > 0 => accounted(pool, real)[s] > 0
    BY AccountedNow, AccountedNext DEF AccountedPositive
  <1>1. CASE \E d \in Deposits, min \in Mins : AddLiquidity(d[1], d[2], min)
    <2>1. PICK d \in Deposits, min \in Mins : AddLiquidity(d[1], d[2], min)
      BY <1>1
    <2>2. d[1] \in Nat /\ d[2] \in Nat /\ min \in Nat
      OBVIOUS
    <2>3. /\ accounted(pool', real')[s] > 0 \/ lp_supply > 0
          /\ accounted(pool, real)[s] <= accounted(pool', real')[s]
      BY <2>1, <2>2, DepositShares
    <2> QED
      BY <1>0, <2>3
  <1>2. CASE \E x \in Burns, a, b \in Mins : RemoveLiquidity(x, a, b)
    <2>1. PICK x \in Burns, a \in Mins, b \in Mins : RemoveLiquidity(x, a, b)
      BY <1>2
    <2>2. x \in Nat /\ a \in Nat /\ b \in Nat
      OBVIOUS
    <2>3. /\ lp_supply > 0
          /\ lp_supply' > 0 /\ accounted(pool, real)[s] > 0
                => accounted(pool', real')[s] > 0
      BY <2>1, <2>2, WithdrawShares
    <2> QED
      BY <1>0, <2>3
  <1>3. CASE CommitSwap
    <2> DEFINE acc == accounted(tx.pool, real)
    <2>1. /\ accounted(pool', real') = settled(tx)
          /\ tx.in \in Side /\ acc \in [Side -> Nat \ {0}]
          /\ in_growth(tx.amount) \in Nat /\ quote(tx) \in Nat
          /\ quote(tx) < acc[Other(tx.in)]
      BY <1>3, SettledReserves
    <2>2. Other(tx.in) \in Side /\ Other(tx.in) # tx.in
          /\ (s = tx.in \/ s = Other(tx.in))
      BY <2>1, SideFacts
    <2>3. settled(tx) = [acc EXCEPT ![tx.in] = @ + in_growth(tx.amount),
                                    ![Other(tx.in)] = @ - quote(tx)]
      BY DEF settled
    <2> HIDE DEF acc
    <2>4. \/ settled(tx)[s] = acc[s] + in_growth(tx.amount)
          \/ s = Other(tx.in) /\ settled(tx)[s] = acc[s] - quote(tx)
      BY <2>1, <2>2, <2>3
    <2>5. acc[s] \in Nat \ {0}
      BY <2>1
    <2> QED
      BY <2>1, <2>4, <2>5
  <1>4. CASE Steady
    BY <1>0, <1>4 DEF Steady
  <1>5. CASE \E l \in LoanId, k \in LoanTerms : OpenLoan(l, k[1], k[2], k[3])
    <2>1. PICK l \in LoanId, k \in LoanTerms : OpenLoan(l, k[1], k[2], k[3])
      BY <1>5
    <2>2. k[1] \in Side /\ k[2] \in Nat /\ k[3] \in Nat
      OBVIOUS
    <2> QED
      BY <2>1, <2>2, <1>4, SteadyOpen
  <1>6. CASE \E l \in LoanId : RepayLoan(l)
    BY <1>4, <1>6, SteadyRepay
  <1> QED
    BY <1>1, <1>2, <1>3, <1>4, <1>5, <1>6, SteadyOthers DEF Next

\* While LP tokens exist neither accounted reserve of the Pool account is zero,
\* whatever is borrowed, liquidated, donated or withdrawn: every instruction
\* starts from a pool that has a price.  A swap that would forgive the whole of
\* a fully lent side meets ZeroReserves in its loop and reverts.
THEOREM AlwaysPriced == Spec => []AccountedPositive
  <1>1. Init => AccountedPositive
    BY DEF Init, AccountedPositive
  <1>2. SafeInv /\ SafeInv' /\ AccountedPositive /\ [Next]_vars => AccountedPositive'
    BY PositiveNext
  <1> QED
    BY <1>1, <1>2, SafeAlways, PTL DEF Spec

\* No step outside a swap lowers the reserves behind one LP token.
LEMMA ShareNext ==
    ASSUME SafeInv, SafeInv', [Next]_vars, tx = IdleTx, tx' = IdleTx,
           lp_supply > 0, NEW s \in Side
    PROVE  accounted(pool', real')[s] * lp_supply >= accounted(pool, real)[s] * lp_supply'
  <1> DEFINE old == accounted(pool, real)[s]
             new == accounted(pool', real')[s]
  <1> USE InputsAssumption
  <1>0. /\ lp_supply \in Nat /\ old \in Nat /\ new \in Nat /\ lp_supply' \in Nat
    BY AccountedNow, AccountedNext
  <1>1. CASE \E d \in Deposits, min \in Mins : AddLiquidity(d[1], d[2], min)
    <2>1. PICK d \in Deposits, min \in Mins : AddLiquidity(d[1], d[2], min)
      BY <1>1
    <2>2. d[1] \in Nat /\ d[2] \in Nat /\ min \in Nat
      OBVIOUS
    <2>3. old * lp_supply' <= new * lp_supply
      BY <2>1, <2>2, DepositShares
    <2> HIDE DEF old, new
    <2>4. new * lp_supply >= old * lp_supply'
      BY <1>0, <2>3
    <2> QED
      BY <2>4 DEF old, new
  <1>2. CASE \E x \in Burns, a, b \in Mins : RemoveLiquidity(x, a, b)
    <2>1. PICK x \in Burns, a \in Mins, b \in Mins : RemoveLiquidity(x, a, b)
      BY <1>2
    <2>2. x \in Nat /\ a \in Nat /\ b \in Nat
      OBVIOUS
    <2>3. old * lp_supply' <= new * lp_supply
      BY <2>1, <2>2, WithdrawShares
    <2> HIDE DEF old, new
    <2>4. new * lp_supply >= old * lp_supply'
      BY <1>0, <2>3
    <2> QED
      BY <2>4 DEF old, new
  <1>3. ASSUME Steady PROVE new * lp_supply >= old * lp_supply'
    <2>1. lp_supply' <= lp_supply /\ old <= new
      BY <1>3 DEF Steady
    <2> HIDE DEF old, new
    <2>2. /\ old * lp_supply' \in Nat /\ new * lp_supply \in Nat
          /\ old * lp_supply' <= new * lp_supply
      BY <1>0, <2>1, ProductMonotone
    <2> QED
      BY <2>2
  <1>4. CASE \E l \in LoanId, k \in LoanTerms : OpenLoan(l, k[1], k[2], k[3])
    <2>1. PICK l \in LoanId, k \in LoanTerms : OpenLoan(l, k[1], k[2], k[3])
      BY <1>4
    <2>2. k[1] \in Side /\ k[2] \in Nat /\ k[3] \in Nat
      OBVIOUS
    <2>3. Steady
      BY <2>1, <2>2, SteadyOpen
    <2> QED
      BY <1>3, <2>3
  <1>5. CASE \E l \in LoanId : RepayLoan(l)
    <2>1. Steady
      BY <1>5, SteadyRepay
    <2> QED
      BY <1>3, <2>1
  <1>6. ~ CommitSwap
    BY DEF CommitSwap
  <1>7. CASE Steady
    BY <1>3, <1>7
  <1> QED
    BY <1>1, <1>2, <1>4, <1>5, <1>6, <1>7, SteadyOthers DEF Next

\* Every rounding of deposits and withdrawals favours the pool, and loans,
\* repayments with interest, fee claims and gifts never cost it: outside swaps
\* the reserves behind one LP token only grow, on each side.
THEOREM ShareValue == Spec => ShareValueKept
  <1>1. SafeInv /\ SafeInv' /\ [Next]_vars =>
          (tx = IdleTx /\ tx' = IdleTx /\ lp_supply > 0 =>
             \A s \in Side : accounted(pool, real)'[s] * lp_supply
                               >= accounted(pool, real)[s] * lp_supply')
    BY ShareNext
  <1> QED
    BY <1>1, SafeAlways, PTL DEF Spec, ShareValueKept

\* A trade keeps the product of the reserves.
LEMMA ProductNext ==
    ASSUME SafeInv, SafeInv', CommitSwap
    PROVE  Product(accounted(pool', real')) >= Product(accounted(tx.pool, real))
  <1> DEFINE c == tx.in
             d == Other(c)
             acc == accounted(tx.pool, real)
             g == in_growth(tx.amount)
             x == mul_div(tx.amount, BPS_DENOM - SWAP_FEE_BPS, BPS_DENOM)
             out == quote(tx)
  <1>1. /\ accounted(pool', real') = settled(tx)
        /\ c \in Side /\ acc \in [Side -> Nat \ {0}]
        /\ g \in Nat /\ out \in Nat /\ out < acc[d]
    BY SettledReserves
  <1>2. d \in Side /\ d # c /\ ((c = "A" /\ d = "B") \/ (c = "B" /\ d = "A"))
    BY <1>1 DEF Side, Other
  <1>3. tx.amount \in Nat
    BY DEF CommitSwap, SafeInv, TypeOK, TxType
  <1>4. x \in Nat /\ x <= g
    <2>1. BPS_DENOM \in Nat \ {0} /\ BPS_DENOM - SWAP_FEE_BPS \in Nat
      BY UnitsAssumption, ParametersAssumption
    <2>2. x \in Nat
      BY <1>3, <2>1, MulDiv
    <2>3. protocol_portion(tx.amount) \in Nat
          /\ protocol_portion(tx.amount) + x <= tx.amount
      BY <1>3, SkimFits, ProtocolPortion
    <2>4. g = tx.amount - protocol_portion(tx.amount)
      BY DEF in_growth
    <2> HIDE DEF x, g
    <2> QED
      BY <1>3, <2>2, <2>3, <2>4
  <1>5. out = mul_div(x, acc[d], acc[c] + x)
    BY DEF quote, cpmm_quote_out
  <1>6. settled(tx) = [acc EXCEPT ![c] = @ + g, ![d] = @ - out]
    BY DEF settled
  <1> HIDE DEF c, d, acc, g, x, out
  <1>7. acc[c] \in Nat \ {0} /\ acc[d] \in Nat \ {0}
    BY <1>1, <1>2
  <1>8. acc[c] * acc[d] <= (acc[c] + g) * (acc[d] - out)
    BY <1>1, <1>4, <1>5, <1>7, CurveKeepsProduct
  <1>9. settled(tx)[c] = acc[c] + g /\ settled(tx)[d] = acc[d] - out
    BY <1>1, <1>2, <1>6
  <1>10. acc[d] - out \in Nat /\ acc[c] + g \in Nat
    BY <1>1, <1>7
  <1>11. Product(acc) = acc[c] * acc[d]
    BY <1>2, <1>7 DEF Product
  <1>12. Product(settled(tx)) = (acc[c] + g) * (acc[d] - out)
    BY <1>2, <1>9, <1>10 DEF Product
  <1>13. acc[c] * acc[d] \in Nat /\ (acc[c] + g) * (acc[d] - out) \in Nat
    BY <1>7, <1>10
  <1> QED
    BY <1>1, <1>8, <1>11, <1>12, <1>13 DEF acc

\* A settling swap never lowers the product of the reserves it traded against,
\* after the protocol's skim and with every liquidation it made on the way.
THEOREM ProductKept == Spec => SwapKeepsProduct
  <1>1. SafeInv /\ SafeInv' /\ [Next]_vars =>
          (CommitSwap => Product(accounted(pool, real))' >=
                           Product(accounted(tx.pool, real)))
    BY ProductNext
  <1> QED
    BY <1>1, SafeAlways, PTL DEF Spec, SwapKeepsProduct

-------------------------------------------------------------------------------
(* The reference price.                                                        *)

\* A swap that starts in a slot already sampled carries the sampled price.
RefInv ==
    tx # IdleTx /\ pool.ref_price # 0 /\ pool.ref_price_slot = slot
       => tx.pool.ref_price = pool.ref_price

RefKept ==
    slot' = slot /\ pool.ref_price # 0 /\ pool.ref_price_slot = slot
       => pool'.ref_price = pool.ref_price

\* Every instruction that ends in one step keeps the reference price.
LEMMA RefInstruction ==
    ASSUME SafeInv, tx = IdleTx, tx' = IdleTx, Next
    PROVE  RefInv' /\ RefKept
  <1> DEFINE p == bump_indexes(pool, real, slot)
  <1>0. RefInv'
    BY DEF RefInv
  <1>1. pool \in PoolType /\ real \in [Side -> Nat] /\ slot \in Nat
    BY SystemAssumption DEF SafeInv, TypeOK
  <1>2. p \in PoolType /\ p.ref_price = pool.ref_price
    BY <1>1, BumpIndexes DEF SafeInv
  <1> HIDE DEF p
  <1>3. CASE \E d \in Deposits, min \in Mins : AddLiquidity(d[1], d[2], min)
    BY <1>0, <1>2, <1>3 DEF AddLiquidity, RefKept, p
  <1>4. CASE \E x \in Burns, a, b \in Mins : RemoveLiquidity(x, a, b)
    BY <1>0, <1>2, <1>4 DEF RemoveLiquidity, RefKept, p
  <1>5. CASE \E l \in LoanId, k \in LoanTerms : OpenLoan(l, k[1], k[2], k[3])
    <2>1. PICK l \in LoanId, k \in LoanTerms : OpenLoan(l, k[1], k[2], k[3])
      BY <1>5
    <2>2. PICK bits :
             pool' = [p EXCEPT !.total_collateral[k[1]] = @ + k[2],
                               !.total_debt[Other(k[1])] = @ + k[3],
                               !.open_loans = @ + 1,
                               !.band_bitmap[k[1]] = bits]
      BY <2>1 DEF OpenLoan, p
    <2>3. pool'.ref_price = p.ref_price
      BY <1>2, <2>2 DEF PoolType
    <2> QED
      BY <1>0, <1>2, <2>3 DEF RefKept
  <1>6. CASE \E l \in LoanId : RepayLoan(l)
    <2>1. PICK l \in LoanId : RepayLoan(l)
      BY <1>6
    <2>2. PICK c, d, x, y, bits :
             pool' = [p EXCEPT !.total_collateral[c] = @ - x,
                               !.total_debt[d] = @ - y,
                               !.open_loans = @ - 1,
                               !.band_bitmap[c] = bits]
      BY <2>1 DEF RepayLoan, p
    <2>3. pool'.ref_price = p.ref_price
      BY <1>2, <2>2 DEF PoolType
    <2> QED
      BY <1>0, <1>2, <2>3 DEF RefKept
  <1>7. CASE ClaimProtocolFees
    BY <1>0, <1>1, <1>7 DEF ClaimProtocolFees, RefKept, PoolType
  <1>8. CASE \/ \E l \in LoanId : ClaimLiquidatedRent(l)
             \/ \E k \in Donations : Donate(k[1], k[2])
             \/ \E x \in DirectBurns : BurnLp(x)
             \/ Tick
    BY <1>0, <1>8 DEF ClaimLiquidatedRent, Donate, BurnLp, Tick, RefKept
  <1>9. CASE \E k \in SwapIns, min \in Mins, boundary \in Boundaries :
               \E tail \in Tails(k[1]) : BeginSwap(k[1], k[2], min, boundary, tail)
    BY <1>0, <1>9 DEF BeginSwap, RefKept
  <1>10. CASE LiquidateNext \/ CommitSwap \/ AbortSwap
    BY <1>10 DEF LiquidateNext, CommitSwap, AbortSwap
  <1> QED
    BY <1>3, <1>4, <1>5, <1>6, <1>7, <1>8, <1>9, <1>10 DEF Next

\* So does every step of a swap.
LEMMA RefSwap ==
    ASSUME SafeInv, RefInv, Next, tx # IdleTx \/ tx' # IdleTx
    PROVE  RefInv' /\ RefKept
  <1>1. pool \in PoolType /\ real \in [Side -> Nat] /\ slot \in Nat
    BY SystemAssumption DEF SafeInv, TypeOK
  <1>2. ASSUME tx # IdleTx
        PROVE  tx \in TxType /\ tx.pool \in PoolType
    BY <1>2 DEF SafeInv, TypeOK, TxType
  <1>3. CASE \E k \in SwapIns, min \in Mins, boundary \in Boundaries :
               \E tail \in Tails(k[1]) : BeginSwap(k[1], k[2], min, boundary, tail)
    <2> DEFINE p == bump_indexes(pool, real, slot)
    <2>1. /\ tx'.pool = sample_ref_price(p, real, slot)
          /\ UNCHANGED <<pool, slot>>
      BY <1>3 DEF BeginSwap
    <2>2. p.ref_price = pool.ref_price /\ p.ref_price_slot = pool.ref_price_slot
      BY <1>1, BumpIndexes DEF SafeInv
    <2> HIDE DEF p
    <2> QED
      BY <2>1, <2>2 DEF RefInv, RefKept, sample_ref_price
  <1>4. CASE LiquidateNext
    <2>1. tx # IdleTx /\ UNCHANGED <<pool, slot>>
      BY <1>4 DEF LiquidateNext
    <2>2. PICK e \in Triggered(tx) :
             tx' = [tx EXCEPT !.liquidated = @ \cup {e},
                              !.pool = write_off(@, loan[LoanAt(tx.tail, e)])]
      BY <1>4 DEF LiquidateNext
    <2> DEFINE x == loan[LoanAt(tx.tail, e)]
    <2>3. tx'.pool = write_off(tx.pool, x)
      BY <1>2, <2>1, <2>2 DEF TxType
    <2> HIDE DEF x
    <2>4. tx'.pool.ref_price = tx.pool.ref_price
      BY <1>2, <2>1, <2>3 DEF write_off, PoolType
    <2> QED
      BY <2>1, <2>4 DEF RefInv, RefKept
  <1>5. CASE CommitSwap
    <2>1. tx # IdleTx /\ tx' = IdleTx
      BY <1>5 DEF CommitSwap
    <2>2. PICK c, fee, bits :
             pool' = [tx.pool EXCEPT !.protocol_fees[c] = @ + fee,
                                     !.band_bitmap[c] = bits]
      BY <1>5 DEF CommitSwap
    <2>3. pool'.ref_price = tx.pool.ref_price
      BY <1>2, <2>1, <2>2 DEF PoolType
    <2> QED
      BY <2>1, <2>3 DEF RefInv, RefKept
  <1>6. CASE AbortSwap
    BY <1>6 DEF AbortSwap, RefInv, RefKept
  <1> QED
    BY <1>3, <1>4, <1>5, <1>6
    DEF Next, AddLiquidity, RemoveLiquidity, OpenLoan, RepayLoan,
        ClaimLiquidatedRent, ClaimProtocolFees, Donate, BurnLp, Tick

\* Once the first swap of a slot has sampled the reference price, no instruction
\* of that slot changes it, liquidating swaps in flight included: a pump inside
\* a slot never reaches the loan-to-value check of OpenLoan.
THEOREM RefPriceFixed == Spec => RefPriceFixedInSlot
  <1>1. Init => RefInv
    BY DEF Init, RefInv
  <1>2. SafeInv /\ RefInv /\ [Next]_vars => RefInv' /\ (RefKept \/ UNCHANGED vars)
    BY RefInstruction, RefSwap DEF vars, RefInv
  <1>3. RefKept <=> (slot' = slot /\ pool.ref_price # 0 /\ pool.ref_price_slot = slot
                       => pool'.ref_price = pool.ref_price)
    BY DEF RefKept
  <1> QED
    BY <1>1, <1>2, <1>3, SafeAlways, PTL DEF Spec, RefPriceFixedInSlot

=============================================================================
