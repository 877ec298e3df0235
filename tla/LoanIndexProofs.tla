--------------------------- MODULE LoanIndexProofs ---------------------------
(* The books of a pool are exact: its totals are sums over the open loans, its *)
(* counters count them and its presence bits show where they are, for every    *)
(* value of the constants.  From this follow that a settled swap leaves no     *)
(* loan past its trigger, that every open loan can be repaid and that the last *)
(* LP token leaves an empty pool.                                              *)
EXTENDS LiquidityPoolProofs

-------------------------------------------------------------------------------
(* The inductive invariant.                                                    *)

Opens == {l \in LoanId : is_open(l)}

Coll == [l \in LoanId |-> loan[l].collateral]

Prin == [l \in LoanId |-> loan[l].principal]

\* What OpenLoan made of an open loan and nothing changes while it is open.
LoanOK(x) ==
    /\ x.collateral # 0 /\ x.principal # 0 /\ x.trigger # 0 /\ x.snapshot # 0
    /\ x.trigger = recompute_trigger(x.side, x.collateral, x.principal)
    /\ x.band_id = band_id_for_trigger(x.trigger)
    /\ x.band_id \in allocated[x.side]
    /\ x.snapshot <= pool.borrow_index[Other(x.side)]

\* The totals and the counter of Pool p are those of the open loans without the
\* ones in dead.
Books(p, dead) ==
    /\ \A c \in Side : p.total_collateral[c] = SumOf(Coll, OpenOn(c) \ dead)
    /\ \A c \in Side : p.total_debt[Other(c)] = SumOf(Prin, OpenOn(c) \ dead)
    /\ p.open_loans = Cardinality(Opens \ dead)

Bands ==
    \A c \in Side, b \in BandId :
       /\ count[c][b] = Cardinality(members(c, b))
       /\ b \in pool.band_bitmap[c] <=> count[c][b] # 0

\* The copy of the Pool a swap works on lacks exactly the loans it has taken.
Flight(t) ==
    /\ t.liquidated \subseteq Entries(t.tail)
    /\ Books(t.pool, Dead(t))
    /\ t.pool.band_bitmap = pool.band_bitmap
    /\ t.pool.protocol_fees = pool.protocol_fees
    /\ \A s \in Side : pool.borrow_index[s] <= t.pool.borrow_index[s]
    /\ complete_walk(pool, t.in, t.boundary, t.tail)

LoansOK == \A l \in LoanId : is_open(l) => LoanOK(loan[l])

IndexInv ==
    /\ LoansOK
    /\ \A s \in Side : pool.borrow_index[s] # 0
    /\ Books(pool, {})
    /\ Bands
    /\ tx # IdleTx => Flight(tx)

-------------------------------------------------------------------------------
(* The tail of a swap.                                                         *)

\* A listing of the parser, taken apart.
LEMMA ListingAt ==
    ASSUME TypeOK, NEW c \in Side, NEW t \in Tails(c), NEW i \in DOMAIN t
    PROVE  /\ i \in Nat
           /\ t[i].band \in allocated[c] /\ t[i].band \in BandId
           /\ count[c][t[i].band] \in Nat
           /\ t[i].loans \in [1..count[c][t[i].band] -> members(c, t[i].band)]
           /\ strictly_ascending(t[i].loans)
  <1>1. PICK n \in 0..MAX_TAIL : t \in [1..n -> Listings(c)]
    BY DEF Tails
  <1>2. i \in Nat /\ t[i] \in Listings(c)
    BY <1>1, SystemAssumption
  <1>3. PICK b \in allocated[c] :
           \E ls \in {f \in [1..count[c][b] -> members(c, b)] : strictly_ascending(f)} :
              t[i] = [band |-> b, loans |-> ls]
    BY <1>2 DEF Listings
  <1>4. PICK ls \in {f \in [1..count[c][b] -> members(c, b)] : strictly_ascending(f)} :
              t[i] = [band |-> b, loans |-> ls]
    BY <1>3
  <1>5. t[i].band = b /\ t[i].loans = ls
    BY <1>4
  <1>6. b \in BandId /\ count[c][b] \in Nat
    BY DEF TypeOK
  <1> QED
    BY <1>2, <1>4, <1>5, <1>6

\* A place of the tail: a listing and a position in it.
LEMMA EntryAt ==
    ASSUME TypeOK, NEW c \in Side, NEW t \in Tails(c), NEW e \in Entries(t)
    PROVE  e[1] \in DOMAIN t /\ e[2] \in DOMAIN t[e[1]].loans /\ e = <<e[1], e[2]>>
  BY DEF Entries

\* No loan is listed twice.
LEMMA ListedOnce ==
    ASSUME TypeOK, NEW c \in Side, NEW t \in Tails(c),
           NEW e \in Entries(t), NEW f \in Entries(t), LoanAt(t, e) = LoanAt(t, f)
    PROVE  e = f
  <1>1. /\ e[1] \in DOMAIN t /\ e[2] \in DOMAIN t[e[1]].loans /\ e = <<e[1], e[2]>>
        /\ f[1] \in DOMAIN t /\ f[2] \in DOMAIN t[f[1]].loans /\ f = <<f[1], f[2]>>
    BY EntryAt
  <1>2. t[e[1]].band = t[f[1]].band
    BY TailMembers
  <1>3. e[1] = f[1]
    BY <1>1, <1>2 DEF Tails, no_band_twice
  <1> DEFINE ls == t[e[1]].loans
             n  == count[c][t[e[1]].band]
             M  == members(c, t[e[1]].band)
  <1>4. n \in Nat /\ ls \in [1..n -> M] /\ strictly_ascending(ls)
    BY <1>1, ListingAt
  <1>5. M \subseteq Nat
    BY SystemAssumption DEF members
  <1>6. e[2] \in DOMAIN ls /\ f[2] \in DOMAIN ls /\ ls[e[2]] = ls[f[2]]
    BY <1>1, <1>3 DEF LoanAt
  <1> HIDE DEF ls, n, M
  <1>7. e[2] \in 1..n /\ f[2] \in 1..n /\ ls[e[2]] \in Nat /\ ls[f[2]] \in Nat
    BY <1>4, <1>5, <1>6
  <1>8. e[2] = f[2]
    <2>1. ~ (e[2] < f[2])
      BY <1>4, <1>6, <1>7 DEF strictly_ascending
    <2>2. ~ (f[2] < e[2])
      BY <1>4, <1>6, <1>7 DEF strictly_ascending
    <2> QED
      BY <1>4, <1>7, <2>1, <2>2
  <1> QED
    BY <1>1, <1>3, <1>8

\* A listed band is listed completely: its loans are strictly ascending members,
\* as many as the band has.
LEMMA ListedAll ==
    ASSUME TypeOK, NEW c \in Side, NEW t \in Tails(c), NEW i \in DOMAIN t,
           count[c][t[i].band] = Cardinality(members(c, t[i].band)),
           NEW l \in members(c, t[i].band)
    PROVE  \E e \in Entries(t) : LoanAt(t, e) = l
  <1> DEFINE ls == t[i].loans
             n  == count[c][t[i].band]
             M  == members(c, t[i].band)
  <1>1. n \in Nat /\ ls \in [1..n -> M] /\ strictly_ascending(ls)
    BY ListingAt
  <1>2. M \subseteq LoanId /\ M \subseteq Nat
    BY SystemAssumption DEF members
  <1>3. IsFiniteSet(M)
    BY <1>2, FS_Subset, SystemAssumption
  <1>4. n = Cardinality(M) /\ l \in M
    OBVIOUS
  <1> HIDE DEF n, M
  <1>5. ls \in Injection(1..n, M)
    <2>1. ASSUME NEW a \in 1..n, NEW b \in 1..n, ls[a] = ls[b] PROVE a = b
      <3> HIDE DEF ls
      <3>1. ls[a] \in Nat /\ DOMAIN ls = 1..n
        BY <1>1, <1>2
      <3>2. ~ (a < b) /\ ~ (b < a)
        BY <1>1, <2>1, <3>1 DEF strictly_ascending
      <3> QED
        BY <1>1, <3>2
    <2> HIDE DEF ls
    <2> QED
      BY <1>1, <2>1 DEF Injection, IsInjective
  <1>6. Cardinality(1..n) = n /\ IsFiniteSet(1..n)
    BY <1>1, FirstNaturals
  <1>7. ls \in Surjection(1..n, M)
    <2> HIDE DEF ls
    <2> QED
      BY <1>3, <1>4, <1>5, <1>6, FS_Injection
  <1>8. PICK j \in 1..n : ls[j] = l
    BY <1>4, <1>7 DEF Surjection
  <1>9. <<i, j>> \in Entries(t)
    <2>1. j \in DOMAIN t[i].loans
      BY <1>1, <1>8
    <2> QED
      BY <2>1 DEF Entries
  <1>10. LoanAt(t, <<i, j>>) = l
    BY <1>8 DEF LoanAt
  <1> QED
    BY <1>9, <1>10

\* What a swap has liquidated: open loans of its direction, as many in each band
\* as places of the tail taken there.
LEMMA DeadLoans ==
    ASSUME TypeOK, NEW t, t.in \in Side, t.tail \in Tails(t.in),
           IsFiniteSet(t.liquidated), t.liquidated \subseteq Entries(t.tail)
    PROVE  /\ Dead(t) \subseteq OpenOn(t.in)
           /\ \A b : liquidated_here(t, b)
                        = Cardinality({l \in Dead(t) : loan[l].band_id = b})
  <1>1. ASSUME NEW e \in t.liquidated
        PROVE  /\ LoanAt(t.tail, e) \in OpenOn(t.in)
               /\ loan[LoanAt(t.tail, e)].band_id = t.tail[e[1]].band
    BY TailMembers DEF OpenOn
  <1>2. Dead(t) \subseteq OpenOn(t.in)
    BY <1>1 DEF Dead
  <1>3. ASSUME NEW b
        PROVE  liquidated_here(t, b)
                  = Cardinality({l \in Dead(t) : loan[l].band_id = b})
    <2> DEFINE E == {e \in t.liquidated : t.tail[e[1]].band = b}
               D == {l \in Dead(t) : loan[l].band_id = b}
               f == [e \in E |-> LoanAt(t.tail, e)]
    <2>1. IsFiniteSet(E)
      BY FS_Subset
    <2>2. f \in [E -> D]
      BY <1>1 DEF Dead
    <2>3. \A x, y \in E : f[x] = f[y] => x = y
      BY ListedOnce
    <2>4. \A l \in D : \E e \in E : f[e] = l
      BY <1>1 DEF Dead
    <2> HIDE DEF E, D, f
    <2>5. f \in Bijection(E, D)
      BY <2>2, <2>3, <2>4 DEF Bijection, Injection, Surjection, IsInjective
    <2>6. Cardinality(D) = Cardinality(E)
      BY <2>1, <2>5, FS_Bijection DEF ExistsBijection
    <2> QED
      BY <2>6 DEF liquidated_here, E, D
  <1> QED
    BY <1>2, <1>3

-------------------------------------------------------------------------------
(* The sums of TotalsExact, as sums of a function over a set.                  *)

LEMMA CollSum ==
    ASSUME NEW S \in SUBSET LoanId
    PROVE  MapThenSumSet(LAMBDA l : loan[l].collateral, S) = SumOf(Coll, S)
  <1> DEFINE P(it) == it = [s \in SUBSET S |->
                              IF s = {} THEN 0
                              ELSE loan[Pick(s)].collateral + it[s \ {Pick(s)}]]
             g == CHOOSE it : P(it)
  <1>1. MapThenSumSet(LAMBDA l : loan[l].collateral, S) = g[S]
    BY Zenon DEF MapThenSumSet, MapThenFoldSet, Pick
  <1>2. IsFiniteSet(S)
    BY FS_Subset, SystemAssumption
  <1>3. ASSUME NEW it PROVE P(it) <=> Sums(Coll, S, it)
    <2>1. ASSUME NEW s \in SUBSET S
          PROVE  (IF s = {} THEN 0 ELSE loan[Pick(s)].collateral + it[s \ {Pick(s)}])
                  = (IF s = {} THEN 0 ELSE Coll[Pick(s)] + it[s \ {Pick(s)}])
      <3>1. s # {} => Pick(s) \in LoanId
        BY PickIn
      <3> QED
        BY <3>1 DEF Coll
    <2> QED
      BY <2>1 DEF Sums
  <1>4. \E it : P(it)
    BY <1>2, <1>3, SumsExist
  <1>5. P(g)
    BY <1>4, Zenon
  <1> HIDE DEF P, g
  <1>6. SumOf(Coll, S) = g[S]
    BY <1>2, <1>3, <1>5, SumOfAny
  <1> QED
    BY <1>1, <1>6

LEMMA PrinSum ==
    ASSUME NEW S \in SUBSET LoanId
    PROVE  MapThenSumSet(LAMBDA l : loan[l].principal, S) = SumOf(Prin, S)
  <1> DEFINE P(it) == it = [s \in SUBSET S |->
                              IF s = {} THEN 0
                              ELSE loan[Pick(s)].principal + it[s \ {Pick(s)}]]
             g == CHOOSE it : P(it)
  <1>1. MapThenSumSet(LAMBDA l : loan[l].principal, S) = g[S]
    BY Zenon DEF MapThenSumSet, MapThenFoldSet, Pick
  <1>2. IsFiniteSet(S)
    BY FS_Subset, SystemAssumption
  <1>3. ASSUME NEW it PROVE P(it) <=> Sums(Prin, S, it)
    <2>1. ASSUME NEW s \in SUBSET S
          PROVE  (IF s = {} THEN 0 ELSE loan[Pick(s)].principal + it[s \ {Pick(s)}])
                  = (IF s = {} THEN 0 ELSE Prin[Pick(s)] + it[s \ {Pick(s)}])
      <3>1. s # {} => Pick(s) \in LoanId
        BY PickIn
      <3> QED
        BY <3>1 DEF Prin
    <2> QED
      BY <2>1 DEF Sums
  <1>4. \E it : P(it)
    BY <1>2, <1>3, SumsExist
  <1>5. P(g)
    BY <1>4, Zenon
  <1> HIDE DEF P, g
  <1>6. SumOf(Prin, S) = g[S]
    BY <1>2, <1>3, <1>5, SumOfAny
  <1> QED
    BY <1>1, <1>6

\* Exact books are what the runs check as TotalsExact and IndexExact.
LEMMA BooksExact ==
    ASSUME Books(pool, {}), Bands
    PROVE  TotalsExact /\ IndexExact
  <1>1. ASSUME NEW c \in Side
        PROVE  /\ pool.total_collateral[c] =
                     MapThenSumSet(LAMBDA l : loan[l].collateral, OpenOn(c))
               /\ pool.total_debt[Other(c)] =
                     MapThenSumSet(LAMBDA l : loan[l].principal, OpenOn(c))
    <2>1. OpenOn(c) \in SUBSET LoanId /\ OpenOn(c) \ {} = OpenOn(c)
      BY DEF OpenOn
    <2>2. /\ pool.total_collateral[c] = SumOf(Coll, OpenOn(c))
          /\ pool.total_debt[Other(c)] = SumOf(Prin, OpenOn(c))
      BY <2>1 DEF Books
    <2>3. MapThenSumSet(LAMBDA l : loan[l].collateral, OpenOn(c)) = SumOf(Coll, OpenOn(c))
      BY <2>1, CollSum
    <2>4. MapThenSumSet(LAMBDA l : loan[l].principal, OpenOn(c)) = SumOf(Prin, OpenOn(c))
      BY <2>1, PrinSum
    <2> QED
      BY <2>2, <2>3, <2>4
  <1>2. TotalsExact
    BY <1>1 DEF TotalsExact
  <1>3. IndexExact
    <2>1. Opens \ {} = {l \in LoanId : is_open(l)}
      BY DEF Opens
    <2> QED
      BY <2>1 DEF Books, Bands, IndexExact
  <1> QED
    BY <1>2, <1>3

-------------------------------------------------------------------------------
(* Loans that stay and loans that go.                                          *)

\* A step closes the open loans in D and leaves the others as they are.
Kept(D) ==
    \A l \in LoanId :
       /\ loan'[l].status = "open" <=> is_open(l) /\ l \notin D
       /\ is_open(l) /\ l \notin D => loan'[l] = loan[l]

LEMMA KeptSets ==
    ASSUME NEW D, Kept(D)
    PROVE  /\ Opens' = Opens \ D
           /\ \A c : OpenOn(c)' = OpenOn(c) \ D
           /\ \A c, b : members(c, b)' = members(c, b) \ D
  BY DEF Kept, Opens, OpenOn, members, is_open

\* The sums over loans that stay do not change.
LEMMA KeptSums ==
    ASSUME NEW D, Kept(D), NEW S, S \subseteq Opens, S \cap D = {}
    PROVE  SumOf(Coll', S) = SumOf(Coll, S) /\ SumOf(Prin', S) = SumOf(Prin, S)
  <1>1. IsFiniteSet(S)
    BY FS_Subset, SystemAssumption DEF Opens
  <1>2. \A l \in S : Coll'[l] = Coll[l] /\ Prin'[l] = Prin[l]
    BY DEF Kept, Opens, Coll, Prin
  <1> QED
    BY <1>1, <1>2, SumSame

\* Closing the loans that the books of p lack makes the books of p exact.
LEMMA BooksKept ==
    ASSUME NEW D, Kept(D), NEW p, Books(p, D),
           pool'.total_collateral = p.total_collateral,
           pool'.total_debt = p.total_debt, pool'.open_loans = p.open_loans
    PROVE  Books(pool, {})'
  <1>1. ASSUME NEW c \in Side
        PROVE  /\ OpenOn(c)' \ {} = OpenOn(c) \ D
               /\ SumOf(Coll', OpenOn(c)' \ {}) = SumOf(Coll, OpenOn(c) \ D)
               /\ SumOf(Prin', OpenOn(c)' \ {}) = SumOf(Prin, OpenOn(c) \ D)
    <2> DEFINE S == OpenOn(c) \ D
    <2>1. OpenOn(c)' \ {} = S
      BY KeptSets
    <2>2. S \subseteq Opens /\ S \cap D = {}
      BY DEF OpenOn, Opens
    <2> HIDE DEF S
    <2>3. SumOf(Coll', S) = SumOf(Coll, S) /\ SumOf(Prin', S) = SumOf(Prin, S)
      BY <2>2, KeptSums
    <2> QED
      BY <2>1, <2>3 DEF S
  <1>2. Opens' \ {} = Opens \ D
    BY KeptSets
  <1> QED
    BY <1>1, <1>2 DEF Books

\* What holds of a loan keeps holding: bands stay allocated, indexes only grow.
LEMMA LoansKept ==
    ASSUME SafeInv, SafeInv', LoansOK, NEW D, Kept(D),
           \A c \in Side : allocated[c] \subseteq allocated'[c],
           \A s \in Side : pool.borrow_index[s] <= pool'.borrow_index[s]
    PROVE  LoansOK'
  <1> SUFFICES ASSUME NEW l \in LoanId, is_open(l)' PROVE LoanOK(loan[l])'
    BY DEF LoansOK
  <1>1. is_open(l) /\ loan'[l] = loan[l] /\ loan[l] \in LoanType
    BY DEF Kept, is_open, SafeInv, TypeOK
  <1>2. LoanOK(loan[l])
    BY <1>1 DEF LoansOK
  <1> DEFINE x == loan[l]
  <1>3. x.side \in Side /\ Other(x.side) \in Side /\ x.snapshot \in Nat
    BY <1>1, SideFacts DEF LoanType
  <1>4. /\ pool.borrow_index[Other(x.side)] \in Nat
        /\ pool'.borrow_index[Other(x.side)] \in Nat
    BY <1>3 DEF SafeInv, TypeOK, PoolType
  <1>5. x.snapshot <= pool'.borrow_index[Other(x.side)] /\ x.band_id \in allocated'[x.side]
    BY <1>2, <1>3, <1>4 DEF LoanOK
  <1> QED
    BY <1>1, <1>2, <1>5 DEF LoanOK

\* Taking one loan off the books.
LEMMA BooksTake ==
    ASSUME TypeOK, NEW p, NEW q, NEW D, Books(p, D), NEW l \in LoanId, is_open(l),
           l \notin D, p \in PoolType,
           q.total_collateral =
              [p.total_collateral EXCEPT ![loan[l].side] = @ - loan[l].collateral],
           q.total_debt =
              [p.total_debt EXCEPT ![Other(loan[l].side)] = @ - loan[l].principal],
           q.open_loans = p.open_loans - 1
    PROVE  Books(q, D \cup {l})
  <1> DEFINE s == loan[l].side
  <1>0. s \in Side /\ Other(s) \in Side /\ \A x \in LoanId : Coll[x] \in Nat /\ Prin[x] \in Nat
    BY SideFacts DEF TypeOK, LoanType, Coll, Prin
  <1>1. p.total_collateral \in [Side -> Nat] /\ p.total_debt \in [Side -> Nat]
        /\ p.open_loans \in Nat
    BY DEF PoolType
  <1>2. ASSUME NEW c \in Side
        PROVE  /\ q.total_collateral[c] = SumOf(Coll, OpenOn(c) \ (D \cup {l}))
               /\ q.total_debt[Other(c)] = SumOf(Prin, OpenOn(c) \ (D \cup {l}))
    <2> DEFINE S == OpenOn(c) \ D
    <2>1. S \subseteq LoanId /\ OpenOn(c) \ (D \cup {l}) = S \ {l}
      BY DEF OpenOn
    <2>2. p.total_collateral[c] = SumOf(Coll, S) /\ p.total_debt[Other(c)] = SumOf(Prin, S)
      BY DEF Books
    <2>3. IsFiniteSet(S)
      BY <2>1, FS_Subset, SystemAssumption
    <2>4. l \in S <=> c = s
      BY DEF OpenOn
    <2>5. Other(c) = Other(s) <=> c = s
      BY <1>0, SideFacts
    <2>6. Other(c) \in Side
      BY SideFacts
    <2>7. Coll[l] = loan[l].collateral /\ Prin[l] = loan[l].principal
      BY DEF Coll, Prin
    <2> HIDE DEF S, s
    <2>8. CASE c = s
      <3>1. l \in S /\ \A x \in S : Coll[x] \in Nat /\ Prin[x] \in Nat
        BY <1>0, <2>1, <2>4, <2>8
      <3> DEFINE u == SumOf(Coll, S \ {l})
                 v == SumOf(Prin, S \ {l})
      <3>2. /\ SumOf(Coll, S) = Coll[l] + u /\ u \in Nat
            /\ SumOf(Prin, S) = Prin[l] + v /\ v \in Nat
        <4>1. SumOf(Coll, S) = Coll[l] + u /\ u \in Nat
          BY <2>3, <3>1, SumTake
        <4>2. SumOf(Prin, S) = Prin[l] + v /\ v \in Nat
          BY <2>3, <3>1, SumTake
        <4> QED
          BY <4>1, <4>2
      <3>3. Coll[l] \in Nat /\ Prin[l] \in Nat
        BY <1>0
      <3>4. /\ q.total_collateral[c] = p.total_collateral[c] - Coll[l]
            /\ q.total_debt[Other(c)] = p.total_debt[Other(c)] - Prin[l]
        BY <1>1, <2>6, <2>7, <2>8 DEF s
      <3> HIDE DEF u, v
      <3>5. q.total_collateral[c] = u /\ q.total_debt[Other(c)] = v
        BY <2>2, <3>2, <3>3, <3>4
      <3> QED
        BY <2>1, <3>5 DEF u, v
    <2>9. CASE c # s
      <3>1. S \ {l} = S
        BY <2>4, <2>9
      <3>2. /\ q.total_collateral[c] = p.total_collateral[c]
            /\ q.total_debt[Other(c)] = p.total_debt[Other(c)]
        BY <1>1, <2>5, <2>6, <2>9 DEF s
      <3> QED
        BY <2>1, <2>2, <3>1, <3>2
    <2> QED
      BY <2>8, <2>9
  <1>3. q.open_loans = Cardinality(Opens \ (D \cup {l}))
    <2> DEFINE S == Opens \ D
    <2>1. l \in S /\ S \subseteq LoanId /\ Opens \ (D \cup {l}) = S \ {l}
      BY DEF Opens
    <2>2. p.open_loans = Cardinality(S)
      BY DEF Books
    <2> HIDE DEF S
    <2>3. IsFiniteSet(S)
      BY <2>1, FS_Subset, SystemAssumption
    <2>4. Cardinality(S \ {l}) = Cardinality(S) - 1
      BY <2>1, <2>3, FS_RemoveElement
    <2> QED
      BY <2>1, <2>2, <2>4
  <1> QED
    BY <1>2, <1>3 DEF Books

-------------------------------------------------------------------------------
(* One lemma per kind of action.                                               *)

LEMMA IndexInit == Init => IndexInv
  <1> SUFFICES ASSUME Init PROVE IndexInv
    OBVIOUS
  <1>1. \A l \in LoanId : ~ is_open(l)
    BY DEF Init, NoLoan, is_open
  <1>2. /\ Opens = {} /\ \A c \in Side : OpenOn(c) = {}
        /\ \A c \in Side, b \in BandId : members(c, b) = {}
    BY <1>1 DEF Opens, OpenOn, members
  <1>3. Cardinality({}) = 0 /\ SumOf(Coll, {}) = 0 /\ SumOf(Prin, {}) = 0
    BY FS_EmptySet, SumEmpty
  <1>4. \A s \in Side : pool.total_collateral[s] = 0 /\ pool.total_debt[s] = 0
    BY DEF Init, InitialPool, Zero
  <1>5. Books(pool, {})
    <2>1. ASSUME NEW c \in Side
          PROVE  /\ pool.total_collateral[c] = SumOf(Coll, OpenOn(c) \ {})
                 /\ pool.total_debt[Other(c)] = SumOf(Prin, OpenOn(c) \ {})
      <3>1. OpenOn(c) \ {} = {}
        BY <1>2
      <3>2. Other(c) \in Side
        BY SideFacts
      <3> QED
        BY <1>3, <1>4, <3>1, <3>2
    <2>2. Opens \ {} = {} /\ pool.open_loans = 0
      BY <1>2 DEF Init, InitialPool
    <2> QED
      BY <1>3, <2>1, <2>2 DEF Books
  <1>6. Bands
    BY <1>2, <1>3 DEF Bands, Init, InitialPool
  <1>7. LoansOK
    BY <1>1 DEF LoansOK
  <1>8. \A s \in Side : pool.borrow_index[s] # 0
    BY UnitsAssumption DEF Init, InitialPool
  <1>9. tx = IdleTx
    BY DEF Init
  <1> QED
    BY <1>5, <1>6, <1>7, <1>8, <1>9 DEF IndexInv

\* A step that neither opens nor closes a loan.
QuietStep ==
    /\ Kept({})
    /\ UNCHANGED <<allocated, count>>
    /\ pool'.total_collateral = pool.total_collateral
    /\ pool'.total_debt = pool.total_debt
    /\ pool'.open_loans = pool.open_loans
    /\ pool'.band_bitmap = pool.band_bitmap
    /\ \A s \in Side : pool.borrow_index[s] <= pool'.borrow_index[s]

\* Indexes that grow stay nonzero.
LEMMA IndexesKept ==
    ASSUME SafeInv, SafeInv', IndexInv,
           \A s \in Side : pool.borrow_index[s] <= pool'.borrow_index[s]
    PROVE  \A s \in Side : pool'.borrow_index[s] # 0
  <1> SUFFICES ASSUME NEW s \in Side PROVE pool'.borrow_index[s] # 0
    OBVIOUS
  <1>1. pool.borrow_index[s] \in Nat /\ pool'.borrow_index[s] \in Nat
    BY DEF SafeInv, TypeOK, PoolType
  <1> QED
    BY <1>1 DEF IndexInv

LEMMA IndexQuiet ==
    ASSUME SafeInv, SafeInv', IndexInv, QuietStep, tx' = IdleTx
    PROVE  IndexInv'
  <1>1. /\ Kept({}) /\ UNCHANGED <<allocated, count>>
        /\ pool'.total_collateral = pool.total_collateral
        /\ pool'.total_debt = pool.total_debt
        /\ pool'.open_loans = pool.open_loans
        /\ pool'.band_bitmap = pool.band_bitmap
        /\ \A s \in Side : pool.borrow_index[s] <= pool'.borrow_index[s]
    BY DEF QuietStep
  <1>2. LoansOK'
    BY <1>1, LoansKept DEF IndexInv
  <1>3. Books(pool, {})'
    BY <1>1, BooksKept DEF IndexInv
  <1>4. Bands'
    <2>1. \A c, b : members(c, b)' = members(c, b)
      BY <1>1, KeptSets
    <2> QED
      BY <1>1, <2>1 DEF IndexInv, Bands
  <1>5. \A s \in Side : pool'.borrow_index[s] # 0
    BY <1>1, IndexesKept
  <1> QED
    BY <1>2, <1>3, <1>4, <1>5 DEF IndexInv

\* The instructions and the chain's own steps that are quiet.
LEMMA QuietOnes ==
    ASSUME SafeInv,
           \/ \E d \in Deposits, min \in Mins : AddLiquidity(d[1], d[2], min)
           \/ \E x \in Burns, a, b \in Mins : RemoveLiquidity(x, a, b)
           \/ \E l \in LoanId : ClaimLiquidatedRent(l)
           \/ ClaimProtocolFees
           \/ AbortSwap
           \/ \E k \in Donations : Donate(k[1], k[2])
           \/ \E x \in DirectBurns : BurnLp(x)
           \/ Tick
    PROVE  QuietStep /\ tx' = IdleTx
  <1>0. pool \in PoolType /\ real \in [Side -> Nat] /\ slot \in Nat
        /\ loan \in [LoanId -> LoanType]
    BY SystemAssumption DEF SafeInv, TypeOK
  <1>1. loan' = loan => Kept({})
    BY DEF Kept, is_open
  <1>2. \A s \in Side : pool.borrow_index[s] <= pool.borrow_index[s]
    BY <1>0 DEF PoolType
  <1>3. CASE \/ \E d \in Deposits, min \in Mins : AddLiquidity(d[1], d[2], min)
             \/ \E x \in Burns, a, b \in Mins : RemoveLiquidity(x, a, b)
    <2> DEFINE p == bump_indexes(pool, real, slot)
    <2>1. pool' = p /\ tx' = IdleTx /\ UNCHANGED <<loan, allocated, count>>
      BY <1>3 DEF AddLiquidity, RemoveLiquidity
    <2>2. /\ p.total_debt = pool.total_debt
          /\ p.total_collateral = pool.total_collateral
          /\ p.open_loans = pool.open_loans
          /\ p.band_bitmap = pool.band_bitmap
          /\ \A s \in Side : pool.borrow_index[s] <= p.borrow_index[s]
      BY <1>0, BumpIndexes DEF SafeInv
    <2> HIDE DEF p
    <2> QED
      BY <1>1, <2>1, <2>2 DEF QuietStep
  <1>4. CASE \E l \in LoanId : ClaimLiquidatedRent(l)
    <2>1. PICK l \in LoanId : ClaimLiquidatedRent(l)
      BY <1>4
    <2>2. /\ loan[l].status = "liquidated" /\ loan' = [loan EXCEPT ![l] = NoLoan]
          /\ tx' = IdleTx /\ UNCHANGED <<pool, allocated, count>>
      BY <2>1 DEF ClaimLiquidatedRent
    <2>3. loan'[l].status = "none"
      BY <1>0, <2>2 DEF NoLoan
    <2>4. Kept({})
      BY <1>0, <2>2, <2>3 DEF Kept, is_open
    <2> QED
      BY <1>2, <2>2, <2>4 DEF QuietStep
  <1>5. CASE ClaimProtocolFees
    <2>1. /\ pool' = [pool EXCEPT !.protocol_fees = Zero]
          /\ tx' = IdleTx /\ UNCHANGED <<loan, allocated, count>>
      BY <1>5 DEF ClaimProtocolFees
    <2>2. /\ pool'.total_debt = pool.total_debt
          /\ pool'.total_collateral = pool.total_collateral
          /\ pool'.open_loans = pool.open_loans
          /\ pool'.band_bitmap = pool.band_bitmap
          /\ pool'.borrow_index = pool.borrow_index
      BY <1>0, <2>1 DEF PoolType
    <2> QED
      BY <1>1, <1>2, <2>1, <2>2 DEF QuietStep
  <1>6. CASE \/ AbortSwap
             \/ \E k \in Donations : Donate(k[1], k[2])
             \/ \E x \in DirectBurns : BurnLp(x)
             \/ Tick
    <2>1. tx' = IdleTx /\ UNCHANGED <<pool, loan, allocated, count>>
      BY <1>6 DEF AbortSwap, Donate, BurnLp, Tick
    <2> QED
      BY <1>1, <1>2, <2>1 DEF QuietStep
  <1> QED
    BY <1>3, <1>4, <1>5, <1>6

\* OpenLoan adds one loan to the open ones, in its direction and its band.
LEMMA OpenedSets ==
    ASSUME SafeInv, NEW l \in LoanId, NEW c \in Side, NEW k \in Nat, NEW m \in Nat,
           OpenFacts(l, c, k, m)
    PROVE  /\ l \notin Opens /\ Opens' = Opens \cup {l}
           /\ OpenOn(c)' = OpenOn(c) \cup {l}
           /\ \A s \in Side : s # c => OpenOn(s)' = OpenOn(s)
           /\ members(c, NewBand(c, k, m))' = members(c, NewBand(c, k, m)) \cup {l}
           /\ \A s \in Side, b \in BandId :
                 s # c \/ b # NewBand(c, k, m) => members(s, b)' = members(s, b)
           /\ Coll' = [Coll EXCEPT ![l] = k]
           /\ Prin' = [Prin EXCEPT ![l] = m]
  <1> DEFINE n == NewBand(c, k, m)
             i == pool'.borrow_index[Other(c)]
  <1>1. /\ loan[l].status = "none" /\ loan \in [LoanId -> LoanType]
        /\ loan' = [loan EXCEPT ![l] = NewLoan(c, k, m, i)]
    BY DEF OpenFacts, SafeInv, TypeOK
  <1>2. /\ NewLoan(c, k, m, i).status = "open" /\ NewLoan(c, k, m, i).side = c
        /\ NewLoan(c, k, m, i).band_id = n
        /\ NewLoan(c, k, m, i).collateral = k /\ NewLoan(c, k, m, i).principal = m
    BY DEF NewLoan
  <1>3. /\ loan'[l].status = "open" /\ loan'[l].side = c /\ loan'[l].band_id = n
        /\ loan'[l].collateral = k /\ loan'[l].principal = m
        /\ \A x \in LoanId : x # l => loan'[x] = loan[x]
    BY <1>1, <1>2
  <1> HIDE DEF n, i
  <1>4. l \notin Opens /\ Opens' = Opens \cup {l}
    BY <1>1, <1>3 DEF Opens, is_open
  <1>5. /\ OpenOn(c)' = OpenOn(c) \cup {l}
        /\ \A s \in Side : s # c => OpenOn(s)' = OpenOn(s)
    BY <1>1, <1>3 DEF OpenOn, is_open
  <1>6. /\ members(c, n)' = members(c, n) \cup {l}
        /\ \A s \in Side, b \in BandId : s # c \/ b # n => members(s, b)' = members(s, b)
    BY <1>1, <1>3 DEF members, is_open
  <1>7. Coll' = [Coll EXCEPT ![l] = k] /\ Prin' = [Prin EXCEPT ![l] = m]
    BY <1>3 DEF Coll, Prin
  <1> QED
    BY <1>4, <1>5, <1>6, <1>7 DEF n

\* Its collateral and its principal are added to the sums.
LEMMA OpenedBooks ==
    ASSUME SafeInv, SafeInv', IndexInv, NEW l \in LoanId, NEW c \in Side,
           NEW k \in Nat, NEW m \in Nat, OpenFacts(l, c, k, m)
    PROVE  Books(pool, {})'
  <1>0. /\ l \notin Opens /\ Opens' = Opens \cup {l}
        /\ OpenOn(c)' = OpenOn(c) \cup {l}
        /\ \A s \in Side : s # c => OpenOn(s)' = OpenOn(s)
        /\ Coll' = [Coll EXCEPT ![l] = k]
        /\ Prin' = [Prin EXCEPT ![l] = m]
    BY OpenedSets
  <1>1. /\ pool'.total_collateral = [pool.total_collateral EXCEPT ![c] = @ + k]
        /\ pool'.total_debt = [pool.total_debt EXCEPT ![Other(c)] = @ + m]
        /\ pool'.open_loans = pool.open_loans + 1
    BY DEF OpenFacts
  <1>2. /\ pool.total_collateral \in [Side -> Nat] /\ pool.total_debt \in [Side -> Nat]
        /\ pool.open_loans \in Nat
    BY DEF SafeInv, TypeOK, PoolType
  <1>3. \A x \in LoanId : Coll[x] \in Nat /\ Prin[x] \in Nat
    BY DEF SafeInv, TypeOK, LoanType, Coll, Prin
  <1>4. ASSUME NEW s \in Side
        PROVE  /\ IsFiniteSet(OpenOn(s)) /\ OpenOn(s) \subseteq LoanId
               /\ l \notin OpenOn(s)
               /\ SumOf(Coll', OpenOn(s)) = pool.total_collateral[s]
               /\ SumOf(Prin', OpenOn(s)) = pool.total_debt[Other(s)]
    <2>1. OpenOn(s) \subseteq LoanId /\ l \notin OpenOn(s) /\ OpenOn(s) \ {} = OpenOn(s)
      BY <1>0 DEF OpenOn, Opens
    <2>2. IsFiniteSet(OpenOn(s))
      BY <2>1, FS_Subset, SystemAssumption
    <2>3. \A x \in OpenOn(s) : Coll'[x] = Coll[x] /\ Prin'[x] = Prin[x]
      BY <1>0, <2>1 DEF Coll, Prin
    <2>4. SumOf(Coll', OpenOn(s)) = SumOf(Coll, OpenOn(s))
      BY <2>2, <2>3, SumSame
    <2>5. SumOf(Prin', OpenOn(s)) = SumOf(Prin, OpenOn(s))
      BY <2>2, <2>3, SumSame
    <2>6. /\ pool.total_collateral[s] = SumOf(Coll, OpenOn(s))
          /\ pool.total_debt[Other(s)] = SumOf(Prin, OpenOn(s))
      BY <2>1 DEF IndexInv, Books
    <2> QED
      BY <2>1, <2>2, <2>4, <2>5, <2>6
  <1>5. ASSUME NEW s \in Side
        PROVE  /\ pool'.total_collateral[s] = SumOf(Coll', OpenOn(s)')
               /\ pool'.total_debt[Other(s)] = SumOf(Prin', OpenOn(s)')
    <2>0. /\ Other(s) \in Side /\ Other(c) \in Side
          /\ (Other(s) = Other(c) <=> s = c)
      BY SideFacts
    <2>1. CASE s = c
      <3> DEFINE S == OpenOn(c)
                 u == SumOf(Coll', S)
                 v == SumOf(Prin', S)
      <3>1. /\ IsFiniteSet(S) /\ S \subseteq LoanId /\ l \notin S
            /\ u = pool.total_collateral[c]
            /\ v = pool.total_debt[Other(c)]
        BY <1>4
      <3>2. Coll'[l] = k /\ Prin'[l] = m
        BY <1>0 DEF Coll, Prin
      <3>3. \A x \in S \cup {l} : Coll'[x] \in Nat /\ Prin'[x] \in Nat
        BY <1>0, <1>3, <3>1 DEF Coll, Prin
      <3> HIDE DEF S
      <3>4. SumOf(Coll', S \cup {l}) = u + Coll'[l]
        BY <3>1, <3>3, SumAdd
      <3>5. SumOf(Prin', S \cup {l}) = v + Prin'[l]
        BY <3>1, <3>3, SumAdd
      <3>6. OpenOn(s)' = S \cup {l}
        BY <1>0, <2>1 DEF S
      <3> HIDE DEF u, v
      <3>7. pool'.total_collateral[s] = u + k /\ pool'.total_debt[Other(s)] = v + m
        BY <1>1, <1>2, <2>0, <2>1, <3>1
      <3> QED
        BY <3>2, <3>4, <3>5, <3>6, <3>7
    <2>2. CASE s # c
      <3>1. OpenOn(s)' = OpenOn(s)
        BY <1>0, <2>2
      <3>2. /\ pool'.total_collateral[s] = pool.total_collateral[s]
            /\ pool'.total_debt[Other(s)] = pool.total_debt[Other(s)]
        BY <1>1, <1>2, <2>0, <2>2
      <3> QED
        BY <1>4, <3>1, <3>2
    <2> QED
      BY <2>1, <2>2
  <1>6. pool'.open_loans = Cardinality(Opens')
    <2>1. IsFiniteSet(Opens)
      BY FS_Subset, SystemAssumption DEF Opens
    <2>2. Cardinality(Opens \cup {l}) = Cardinality(Opens) + 1
      BY <1>0, <2>1, FS_AddElement
    <2>3. pool.open_loans = Cardinality(Opens)
      <3>1. Opens \ {} = Opens
        OBVIOUS
      <3> QED
        BY <3>1 DEF IndexInv, Books
    <2> QED
      BY <1>0, <1>1, <2>2, <2>3
  <1>7. Opens' \ {} = Opens' /\ \A s \in Side : OpenOn(s)' \ {} = OpenOn(s)'
    OBVIOUS
  <1> QED
    BY <1>5, <1>6, <1>7 DEF Books

\* A loan in the index: opening it counts it in its band, whose presence bit is
\* then set, whether or not the account of the band existed before.
LEMMA IndexOpen ==
    ASSUME SafeInv, SafeInv', IndexInv, NEW l \in LoanId, NEW c \in Side,
           NEW k \in Nat, NEW m \in Nat, OpenLoan(l, c, k, m)
    PROVE  IndexInv'
  <1>0. OpenFacts(l, c, k, m)
    BY OpenEffect
  <1> DEFINE n == NewBand(c, k, m)
             i == pool'.borrow_index[Other(c)]
  <1>1. Books(pool, {})'
    BY <1>0, OpenedBooks
  <1>2. tx' = IdleTx /\ \A s \in Side : pool.borrow_index[s] <= pool'.borrow_index[s]
    BY <1>0 DEF OpenFacts
  <1>3. \A s \in Side : pool'.borrow_index[s] # 0
    BY <1>2, IndexesKept
  <1>4. LoansOK'
    <2> SUFFICES ASSUME NEW x \in LoanId, is_open(x)' PROVE LoanOK(loan[x])'
      BY DEF LoansOK
    <2>1. /\ loan \in [LoanId -> LoanType] /\ loan' \in [LoanId -> LoanType]
          /\ loan' = [loan EXCEPT ![l] = NewLoan(c, k, m, i)]
          /\ allocated' = [allocated EXCEPT ![c] = @ \cup {n}]
          /\ allocated \in [Side -> SUBSET BandId]
          /\ k # 0 /\ m # 0 /\ NewTrigger(c, k, m) # 0
      BY <1>0 DEF OpenFacts, SafeInv, TypeOK
    <2>2. Other(c) \in Side /\ i \in Nat
      BY SideFacts DEF SafeInv, TypeOK, PoolType
    <2>3. CASE x = l
      <3>1. loan'[x] = NewLoan(c, k, m, i)
        BY <2>1, <2>3
      <3>2. /\ loan'[x].side = c /\ loan'[x].collateral = k /\ loan'[x].principal = m
            /\ loan'[x].snapshot = i /\ loan'[x].trigger = NewTrigger(c, k, m)
            /\ loan'[x].band_id = n
        BY <3>1 DEF NewLoan
      <3>3. i # 0 /\ i <= i
        BY <1>3, <2>2
      <3>4. n \in allocated'[c]
        BY <2>1
      <3> QED
        BY <2>1, <3>2, <3>3, <3>4 DEF LoanOK, NewBand, NewTrigger
    <2>4. CASE x # l
      <3> DEFINE y == loan[x]
      <3>1. loan'[x] = y /\ y \in LoanType
        BY <2>1, <2>4
      <3>2. LoanOK(y)
        BY <3>1 DEF IndexInv, LoansOK, is_open
      <3>3. y.side \in Side /\ Other(y.side) \in Side /\ y.snapshot \in Nat
        BY <3>1, SideFacts DEF LoanType
      <3>4. /\ pool.borrow_index[Other(y.side)] \in Nat
            /\ pool'.borrow_index[Other(y.side)] \in Nat
            /\ pool.borrow_index[Other(y.side)] <= pool'.borrow_index[Other(y.side)]
        BY <1>2, <3>3 DEF SafeInv, TypeOK, PoolType
      <3>5. y.snapshot <= pool'.borrow_index[Other(y.side)]
        BY <3>2, <3>3, <3>4 DEF LoanOK
      <3>6. y.band_id \in allocated'[y.side]
        BY <2>1, <3>2, <3>3 DEF LoanOK
      <3> QED
        BY <3>1, <3>2, <3>5, <3>6 DEF LoanOK
    <2> QED
      BY <2>3, <2>4
  <1>5. Bands'
    <2>1. /\ n \in BandId /\ count \in [Side -> [BandId -> Nat]]
          /\ count' = [count EXCEPT ![c][n] = @ + 1]
          /\ pool.band_bitmap \in [Side -> SUBSET BandId]
          /\ pool'.band_bitmap =
                [pool.band_bitmap EXCEPT ![c] =
                   IF count[c][n] = 0 THEN @ \cup {n} ELSE @]
      BY <1>0 DEF OpenFacts, SafeInv, TypeOK, PoolType
    <2>2. /\ l \notin Opens
          /\ members(c, n)' = members(c, n) \cup {l}
          /\ \A s \in Side, b \in BandId : s # c \/ b # n => members(s, b)' = members(s, b)
      BY <1>0, OpenedSets
    <2> HIDE DEF n
    <2>3. Cardinality(members(c, n)') = Cardinality(members(c, n)) + 1
      <3>1. members(c, n) \subseteq LoanId /\ l \notin members(c, n)
        BY <2>2 DEF members, Opens
      <3>2. IsFiniteSet(members(c, n))
        BY <3>1, FS_Subset, SystemAssumption
      <3> QED
        BY <2>2, <3>1, <3>2, FS_AddElement
    <2>4. ASSUME NEW s \in Side, NEW b \in BandId
          PROVE  /\ count'[s][b] = Cardinality(members(s, b)')
                 /\ b \in pool'.band_bitmap[s] <=> count'[s][b] # 0
      <3>1. /\ count[s][b] = Cardinality(members(s, b)) /\ count[s][b] \in Nat
            /\ b \in pool.band_bitmap[s] <=> count[s][b] # 0
        BY <2>1 DEF IndexInv, Bands
      <3>2. CASE s = c /\ b = n
        <4>1. count'[s][b] = count[s][b] + 1
          BY <2>1, <3>2
        <4>2. b \in pool'.band_bitmap[s]
          BY <2>1, <3>1, <3>2
        <4> QED
          BY <2>3, <3>1, <3>2, <4>1, <4>2
      <3>3. CASE s # c \/ b # n
        <4>1. count'[s][b] = count[s][b]
          BY <2>1, <3>3
        <4>2. b \in pool'.band_bitmap[s] <=> b \in pool.band_bitmap[s]
          BY <2>1, <3>3
        <4> QED
          BY <2>2, <3>1, <3>3, <4>1, <4>2
      <3> QED
        BY <3>2, <3>3
    <2> QED
      BY <2>4 DEF Bands
  <1> QED
    BY <1>1, <1>2, <1>3, <1>4, <1>5 DEF IndexInv

\* RepayLoan takes its loan off the books, out of its band and, with the last
\* member, the band's presence bit.
LEMMA IndexRepay ==
    ASSUME SafeInv, SafeInv', IndexInv, NEW l \in LoanId, RepayLoan(l)
    PROVE  IndexInv'
  <1> DEFINE x == loan[l]
             c == x.side
             n == x.band_id
  <1>0. RepayFacts(l, x)
    BY RepayEffect
  <1>1. /\ x \in LoanType /\ x.status = "open" /\ loan \in [LoanId -> LoanType]
        /\ loan' = [loan EXCEPT ![l] = NoLoan]
        /\ tx' = IdleTx /\ allocated' = allocated
        /\ \A s \in Side : pool.borrow_index[s] <= pool'.borrow_index[s]
    BY <1>0 DEF RepayFacts, SafeInv, TypeOK
  <1>2. Kept({l})
    <2>1. NoLoan.status = "none"
      BY DEF NoLoan
    <2> QED
      BY <1>1, <2>1 DEF Kept, is_open
  <1>3. LoansOK'
    BY <1>1, <1>2, LoansKept DEF IndexInv
  <1>4. Books(pool, {})'
    <2>1. /\ pool'.total_collateral = [pool.total_collateral EXCEPT ![c] = @ - x.collateral]
          /\ pool'.total_debt = [pool.total_debt EXCEPT ![Other(c)] = @ - x.principal]
          /\ pool'.open_loans = pool.open_loans - 1
      BY <1>0 DEF RepayFacts
    <2>2. Books(pool', {} \cup {l})
      <3>1. TypeOK /\ pool \in PoolType /\ Books(pool, {}) /\ is_open(l) /\ l \notin {}
        BY <1>1 DEF SafeInv, TypeOK, IndexInv, is_open
      <3> QED
        BY <2>1, <3>1, BooksTake
    <2>3. {} \cup {l} = {l}
      OBVIOUS
    <2>4. Books(pool', {l})
      BY <2>2, <2>3
    <2> QED
      BY <1>2, <2>4, BooksKept
  <1>5. \A s \in Side : pool'.borrow_index[s] # 0
    BY <1>1, IndexesKept
  <1>6. Bands'
    <2>1. /\ c \in Side /\ n \in BandId /\ count \in [Side -> [BandId -> Nat]]
          /\ count' = [count EXCEPT ![c][n] = @ - 1]
          /\ count[c][n] >= 1
          /\ pool.band_bitmap \in [Side -> SUBSET BandId]
          /\ pool'.band_bitmap =
                [pool.band_bitmap EXCEPT ![c] =
                   IF count[c][n] = 1 THEN @ \ {n} ELSE @]
      BY <1>0 DEF RepayFacts, SafeInv, TypeOK, PoolType, LoanType
    <2>2. \A s, b : members(s, b)' = members(s, b) \ {l}
      BY <1>2, KeptSets
    <2>3. \A s, b : l \in members(s, b) <=> s = c /\ b = n
      BY <1>1 DEF members, is_open
    <2>4. \A s, b : IsFiniteSet(members(s, b))
      <3> SUFFICES ASSUME NEW s, NEW b PROVE IsFiniteSet(members(s, b))
        OBVIOUS
      <3>1. members(s, b) \subseteq LoanId
        BY DEF members
      <3> QED
        BY <3>1, FS_Subset, SystemAssumption
    <2> HIDE DEF c, n
    <2>5. ASSUME NEW s \in Side, NEW b \in BandId
          PROVE  /\ count'[s][b] = Cardinality(members(s, b)')
                 /\ b \in pool'.band_bitmap[s] <=> count'[s][b] # 0
      <3>1. /\ count[s][b] = Cardinality(members(s, b)) /\ count[s][b] \in Nat
            /\ b \in pool.band_bitmap[s] <=> count[s][b] # 0
        BY <2>1 DEF IndexInv, Bands
      <3>2. CASE s = c /\ b = n
        <4>1. count'[s][b] = count[s][b] - 1
          BY <2>1, <3>2
        <4>2. Cardinality(members(s, b) \ {l}) = Cardinality(members(s, b)) - 1
          BY <2>3, <2>4, <3>2, FS_RemoveElement
        <4>3. count'[s][b] = Cardinality(members(s, b)')
          BY <2>2, <3>1, <4>1, <4>2
        <4>4. b \in pool'.band_bitmap[s] <=> count[s][b] # 1
          BY <2>1, <3>1, <3>2
        <4> QED
          BY <3>1, <4>1, <4>3, <4>4
      <3>3. CASE s # c \/ b # n
        <4>1. count'[s][b] = count[s][b]
          BY <2>1, <3>3
        <4>2. b \in pool'.band_bitmap[s] <=> b \in pool.band_bitmap[s]
          BY <2>1, <3>3
        <4>3. members(s, b)' = members(s, b)
          BY <2>2, <2>3, <3>3
        <4> QED
          BY <3>1, <4>1, <4>2, <4>3
      <3> QED
        BY <3>2, <3>3
    <2> QED
      BY <2>5 DEF Bands
  <1> QED
    BY <1>1, <1>3, <1>4, <1>5, <1>6 DEF IndexInv

\* Nothing of the loans or the index changes while a swap is in flight.
Frozen == UNCHANGED <<pool, loan, allocated, count>>

LEMMA IndexFrozen ==
    ASSUME IndexInv, Frozen, tx' # IdleTx => Flight(tx)'
    PROVE  IndexInv'
  <1>1. /\ LoansOK' /\ Books(pool, {})' /\ Bands'
        /\ \A s \in Side : pool'.borrow_index[s] # 0
    <2>1. LoansOK'
      BY DEF IndexInv, Frozen, LoansOK, LoanOK, is_open
    <2>2. Books(pool, {})'
      BY DEF IndexInv, Frozen, Books, Coll, Prin, Opens, OpenOn, is_open
    <2>3. Bands'
      BY DEF IndexInv, Frozen, Bands, members, is_open
    <2> QED
      BY <2>1, <2>2, <2>3 DEF IndexInv, Frozen
  <1> QED
    BY <1>1 DEF IndexInv

\* Sampling the reference price changes nothing but it and its slot.
LEMMA SampleFields ==
    ASSUME NEW p \in PoolType, NEW r, NEW now
    PROVE  LET q == sample_ref_price(p, r, now)
           IN  /\ q.total_collateral = p.total_collateral
               /\ q.total_debt = p.total_debt
               /\ q.open_loans = p.open_loans
               /\ q.band_bitmap = p.band_bitmap
               /\ q.protocol_fees = p.protocol_fees
               /\ q.borrow_index = p.borrow_index
  BY DEF sample_ref_price, PoolType

\* A swap starts with the books as they are and a list of every populated band
\* it may cross.
LEMMA IndexBegin ==
    ASSUME SafeInv, SafeInv', IndexInv, NEW c \in Side, NEW amount \in Nat,
           NEW min \in Nat, NEW boundary \in Nat, NEW tail \in Tails(c),
           BeginSwap(c, amount, min, boundary, tail)
    PROVE  IndexInv'
  <1> DEFINE p == bump_indexes(pool, real, slot)
             q == sample_ref_price(p, real, slot)
  <1>0. pool \in PoolType /\ real \in [Side -> Nat] /\ slot \in Nat
    BY SystemAssumption DEF SafeInv, TypeOK
  <1>1. /\ p \in PoolType
        /\ p.total_debt = pool.total_debt
        /\ p.total_collateral = pool.total_collateral
        /\ p.protocol_fees = pool.protocol_fees
        /\ p.open_loans = pool.open_loans
        /\ p.band_bitmap = pool.band_bitmap
        /\ \A s \in Side : pool.borrow_index[s] <= p.borrow_index[s]
    BY <1>0, BumpIndexes DEF SafeInv
  <1>2. /\ tx' = [in |-> c, amount |-> amount, min |-> min,
                  boundary |-> boundary, tail |-> tail, liquidated |-> {},
                  pool |-> q]
        /\ complete_walk(pool, c, boundary, tail)
        /\ Frozen
    BY DEF BeginSwap, Frozen
  <1> HIDE DEF p
  <1>3. /\ q.total_collateral = p.total_collateral
        /\ q.total_debt = p.total_debt
        /\ q.open_loans = p.open_loans
        /\ q.band_bitmap = p.band_bitmap
        /\ q.protocol_fees = p.protocol_fees
        /\ q.borrow_index = p.borrow_index
    BY <1>1, SampleFields
  <1> HIDE DEF q
  <1>4. /\ tx'.in = c /\ tx'.boundary = boundary /\ tx'.tail = tail
        /\ tx'.liquidated = {} /\ tx'.pool = q
    BY <1>2
  <1>5. Dead(tx)' = {}
    BY <1>4 DEF Dead
  <1>6. Books(q, {})
    BY <1>1, <1>3 DEF IndexInv, Books
  <1>7. Books(tx.pool, Dead(tx))'
    BY <1>2, <1>4, <1>5, <1>6 DEF Books, Frozen, Coll, Prin, Opens, OpenOn, is_open
  <1>8. Flight(tx)'
    BY <1>1, <1>2, <1>3, <1>4, <1>7 DEF Flight, Frozen, complete_walk
  <1> QED
    BY <1>2, <1>8, IndexFrozen

\* A liquidation takes one more listed loan, not taken before, off the copy.
LEMMA IndexLiquidate ==
    ASSUME SafeInv, SafeInv', IndexInv, LiquidateNext
    PROVE  IndexInv'
  <1>1. PICK e : LiquidateFacts(e, LoanAt(tx.tail, e))
    BY LiquidateEffect
  <1> DEFINE l == LoanAt(tx.tail, e)
  <1>2. /\ tx # IdleTx
        /\ e \in Entries(tx.tail) /\ e \notin tx.liquidated
        /\ l \in LoanId /\ is_open(l) /\ loan[l].side = tx.in
        /\ tx'.in = tx.in /\ tx'.boundary = tx.boundary /\ tx'.tail = tx.tail
        /\ tx'.liquidated = tx.liquidated \cup {e}
        /\ tx'.pool.total_collateral =
              [tx.pool.total_collateral EXCEPT ![loan[l].side] = @ - loan[l].collateral]
        /\ tx'.pool.total_debt =
              [tx.pool.total_debt EXCEPT ![Other(loan[l].side)] = @ - loan[l].principal]
        /\ tx'.pool.open_loans = tx.pool.open_loans - 1
        /\ tx'.pool.protocol_fees = tx.pool.protocol_fees
        /\ tx'.pool.band_bitmap = tx.pool.band_bitmap
        /\ tx'.pool.borrow_index = tx.pool.borrow_index
        /\ Frozen
    BY <1>1 DEF LiquidateFacts, Frozen
  <1>3. /\ TypeOK /\ tx \in TxType /\ tx.in \in Side /\ tx.tail \in Tails(tx.in)
        /\ tx.pool \in PoolType /\ Flight(tx)
    BY <1>2 DEF SafeInv, TypeOK, SwapOK, TxType, IndexInv
  <1>4. l \notin Dead(tx)
    <2> SUFFICES ASSUME NEW f \in tx.liquidated, LoanAt(tx.tail, f) = l PROVE FALSE
      BY DEF Dead
    <2>1. f \in Entries(tx.tail)
      BY <1>3 DEF Flight
    <2>2. f = e
      BY <1>2, <1>3, <2>1, ListedOnce
    <2> QED
      BY <1>2, <2>2
  <1>5. Dead(tx)' = Dead(tx) \cup {l}
    <2>1. Dead(tx)' = {LoanAt(tx.tail, f) : f \in tx.liquidated \cup {e}}
      BY <1>2 DEF Dead, LoanAt
    <2> QED
      BY <2>1 DEF Dead
  <1> HIDE DEF l
  <1>6. Books(tx'.pool, Dead(tx) \cup {l})
    <2>1. Books(tx.pool, Dead(tx))
      BY <1>3 DEF Flight
    <2> QED
      BY <1>2, <1>3, <1>4, <2>1, BooksTake
  <1>7. Books(tx.pool, Dead(tx))'
    BY <1>2, <1>5, <1>6 DEF Books, Frozen, Coll, Prin, Opens, OpenOn, is_open
  <1>8. Flight(tx)'
    BY <1>2, <1>3, <1>7 DEF Flight, Frozen, complete_walk
  <1> QED
    BY <1>2, <1>8, IndexFrozen

\* A settling swap closes the loans it has taken: the copy it writes back lacks
\* exactly those, and each band's count and presence bit follow.
LEMMA CommitKept ==
    ASSUME SafeInv, IndexInv, CommitSwap
    PROVE  /\ Kept(Dead(tx)) /\ Dead(tx) \subseteq OpenOn(tx.in)
           /\ \A b : liquidated_here(tx, b)
                        = Cardinality({l \in Dead(tx) : loan[l].band_id = b})
  <1>0. CommitFacts
    BY CommitEffect
  <1>1. /\ tx # IdleTx /\ TypeOK /\ tx.in \in Side /\ tx.tail \in Tails(tx.in)
        /\ IsFiniteSet(tx.liquidated) /\ Flight(tx)
        /\ loan' = [l \in LoanId |->
                      IF l \in Dead(tx) THEN tombstone(loan[l]) ELSE loan[l]]
    BY <1>0 DEF CommitFacts, SafeInv, SwapOK, TxType, IndexInv
  <1>2. /\ Dead(tx) \subseteq OpenOn(tx.in)
        /\ \A b : liquidated_here(tx, b)
                     = Cardinality({l \in Dead(tx) : loan[l].band_id = b})
    <2>1. tx.liquidated \subseteq Entries(tx.tail)
      BY <1>1 DEF Flight
    <2> QED
      BY <1>1, <2>1, DeadLoans
  <1>3. \A l \in LoanId : tombstone(loan[l]).status = "liquidated"
    BY <1>1 DEF tombstone, TypeOK, LoanType
  <1>4. Kept(Dead(tx))
    BY <1>1, <1>3 DEF Kept, is_open
  <1> QED
    BY <1>2, <1>4

LEMMA IndexCommit ==
    ASSUME SafeInv, SafeInv', IndexInv, CommitSwap
    PROVE  IndexInv'
  <1> DEFINE c == tx.in
             D == Dead(tx)
             lh(b) == liquidated_here(tx, b)
  <1>0. CommitFacts
    BY CommitEffect
  <1>1. /\ tx # IdleTx /\ tx' = IdleTx /\ c \in Side /\ Flight(tx)
        /\ pool'.total_collateral = tx.pool.total_collateral
        /\ pool'.total_debt = tx.pool.total_debt
        /\ pool'.open_loans = tx.pool.open_loans
        /\ pool'.borrow_index = tx.pool.borrow_index
        /\ allocated' = allocated
    BY <1>0 DEF CommitFacts, IndexInv, TxType
  <1>2. Kept(D) /\ D \subseteq OpenOn(c)
        /\ \A b : lh(b) = Cardinality({l \in D : loan[l].band_id = b})
    BY CommitKept
  <1>3. \A s \in Side : pool.borrow_index[s] <= pool'.borrow_index[s]
    BY <1>1 DEF Flight
  <1>4. LoansOK'
    BY <1>1, <1>2, <1>3, LoansKept DEF IndexInv
  <1>5. Books(pool, {})'
    <2>1. Books(tx.pool, D)
      BY <1>1 DEF Flight
    <2> QED
      BY <1>1, <1>2, <2>1, BooksKept
  <1>6. \A s \in Side : pool'.borrow_index[s] # 0
    BY <1>3, IndexesKept
  <1>7. Bands'
    <2>1. /\ count \in [Side -> [BandId -> Nat]]
          /\ pool.band_bitmap \in [Side -> SUBSET BandId]
      BY DEF SafeInv, TypeOK, PoolType
    <2>2. /\ count' = [count EXCEPT ![c] = [b \in BandId |-> @[b] - lh(b)]]
          /\ pool'.band_bitmap =
                [pool.band_bitmap EXCEPT ![c] =
                   {b \in @ : lh(b) = 0 \/ count[c][b] # lh(b)}]
          /\ \A b \in BandId : lh(b) <= count[c][b]
      BY <1>0, <1>1 DEF CommitFacts, Flight, Settles
    <2>3. \A s, b : members(s, b)' = members(s, b) \ D
      BY <1>2, KeptSets
    <2>4. ASSUME NEW s \in Side, NEW b \in BandId
          PROVE  /\ IsFiniteSet(members(s, b))
                 /\ s = c => Cardinality(members(s, b) \cap D) = lh(b)
                 /\ s # c => members(s, b) \ D = members(s, b)
      <3>1. members(s, b) \subseteq LoanId
        BY DEF members
      <3>2. IsFiniteSet(members(s, b))
        BY <3>1, FS_Subset, SystemAssumption
      <3>3. s = c => members(s, b) \cap D = {l \in D : loan[l].band_id = b}
        BY <1>2 DEF members, OpenOn
      <3>4. s # c => members(s, b) \ D = members(s, b)
        BY <1>2 DEF members, OpenOn
      <3> QED
        BY <1>2, <3>2, <3>3, <3>4
    <2>5. \A b \in BandId : lh(b) \in Nat
      <3> SUFFICES ASSUME NEW b \in BandId PROVE lh(b) \in Nat
        OBVIOUS
      <3>1. IsFiniteSet(members(c, b) \cap D) /\ lh(b) = Cardinality(members(c, b) \cap D)
        BY <1>1, <2>4, FS_Intersection
      <3> QED
        BY <3>1, FS_CardinalityType
    <2> HIDE DEF c, D, lh
    <2>6. ASSUME NEW s \in Side, NEW b \in BandId
          PROVE  /\ count'[s][b] = Cardinality(members(s, b)')
                 /\ b \in pool'.band_bitmap[s] <=> count'[s][b] # 0
      <3>1. /\ count[s][b] = Cardinality(members(s, b)) /\ count[s][b] \in Nat
            /\ b \in pool.band_bitmap[s] <=> count[s][b] # 0
        BY <2>1 DEF IndexInv, Bands
      <3>2. CASE s = c
        <4>1. count'[s][b] = count[s][b] - lh(b) /\ lh(b) \in Nat /\ lh(b) <= count[s][b]
          <5>1. count'[c] = [a \in BandId |-> count[c][a] - lh(a)]
            BY <1>1, <2>1, <2>2
          <5> QED
            BY <2>2, <2>5, <3>2, <5>1
        <4>2. Cardinality(members(s, b) \ D) = Cardinality(members(s, b)) - lh(b)
          <5> DEFINE M == members(s, b)
          <5>1. IsFiniteSet(M) /\ Cardinality(M \cap D) = lh(b)
            BY <2>4, <3>2
          <5> HIDE DEF M
          <5>2. Cardinality(M \ D) = Cardinality(M) - Cardinality(M \cap D)
            BY <5>1, FS_Difference
          <5> QED
            BY <5>1, <5>2 DEF M
        <4>3. b \in pool'.band_bitmap[s] <=>
                 b \in pool.band_bitmap[s] /\ (lh(b) = 0 \/ count[s][b] # lh(b))
          BY <1>1, <2>1, <2>2, <3>2
        <4>4. count'[s][b] = Cardinality(members(s, b)')
          BY <2>3, <3>1, <4>1, <4>2
        <4> QED
          BY <3>1, <4>1, <4>3, <4>4
      <3>3. CASE s # c
        <4>1. count'[s][b] = count[s][b]
          BY <2>1, <2>2, <3>3
        <4>2. b \in pool'.band_bitmap[s] <=> b \in pool.band_bitmap[s]
          BY <2>1, <2>2, <3>3
        <4>3. members(s, b)' = members(s, b)
          BY <2>3, <2>4, <3>3
        <4> QED
          BY <3>1, <4>1, <4>2, <4>3
      <3> QED
        BY <3>2, <3>3
    <2> QED
      BY <2>6 DEF Bands
  <1> QED
    BY <1>1, <1>4, <1>5, <1>6, <1>7 DEF IndexInv

\* Every step keeps the books exact.
LEMMA IndexNext == SafeInv /\ SafeInv' /\ IndexInv /\ [Next]_vars => IndexInv'
  <1> SUFFICES ASSUME SafeInv, SafeInv', IndexInv, [Next]_vars PROVE IndexInv'
    OBVIOUS
  <1> USE InputsAssumption
  <1>1. CASE \/ \E d \in Deposits, min \in Mins : AddLiquidity(d[1], d[2], min)
             \/ \E x \in Burns, a, b \in Mins : RemoveLiquidity(x, a, b)
             \/ \E l \in LoanId : ClaimLiquidatedRent(l)
             \/ ClaimProtocolFees
             \/ AbortSwap
             \/ \E k \in Donations : Donate(k[1], k[2])
             \/ \E x \in DirectBurns : BurnLp(x)
             \/ Tick
    BY <1>1, QuietOnes, IndexQuiet
  <1>2. CASE \E l \in LoanId, k \in LoanTerms : OpenLoan(l, k[1], k[2], k[3])
    <2>1. PICK l \in LoanId, k \in LoanTerms : OpenLoan(l, k[1], k[2], k[3])
      BY <1>2
    <2>2. k[1] \in Side /\ k[2] \in Nat /\ k[3] \in Nat
      OBVIOUS
    <2> QED
      BY <2>1, <2>2, IndexOpen
  <1>3. CASE \E l \in LoanId : RepayLoan(l)
    BY <1>3, IndexRepay
  <1>4. CASE \E k \in SwapIns, min \in Mins, boundary \in Boundaries :
               \E tail \in Tails(k[1]) : BeginSwap(k[1], k[2], min, boundary, tail)
    <2>1. PICK k \in SwapIns, min \in Mins, boundary \in Boundaries :
             \E tail \in Tails(k[1]) : BeginSwap(k[1], k[2], min, boundary, tail)
      BY <1>4
    <2>2. PICK tail \in Tails(k[1]) : BeginSwap(k[1], k[2], min, boundary, tail)
      BY <2>1
    <2>3. k[1] \in Side /\ k[2] \in Nat /\ min \in Nat /\ boundary \in Nat
      OBVIOUS
    <2> QED
      BY <2>2, <2>3, IndexBegin
  <1>5. CASE LiquidateNext
    BY <1>5, IndexLiquidate
  <1>6. CASE CommitSwap
    BY <1>6, IndexCommit
  <1>7. CASE UNCHANGED vars
    <2>1. Frozen /\ tx' = tx
      BY <1>7 DEF vars, Frozen
    <2>2. tx # IdleTx => Flight(tx)'
      <3> SUFFICES ASSUME tx # IdleTx PROVE Flight(tx)'
        OBVIOUS
      <3>1. Flight(tx)
        BY DEF IndexInv
      <3>2. Books(tx.pool, Dead(tx))'
        BY <2>1, <3>1 DEF Flight, Books, Frozen, Coll, Prin, Opens, OpenOn, is_open,
                          Dead, LoanAt
      <3> QED
        BY <2>1, <3>1, <3>2 DEF Flight, Frozen, complete_walk
    <2> QED
      BY <2>1, <2>2, IndexFrozen
  <1> QED
    BY <1>1, <1>2, <1>3, <1>4, <1>5, <1>6, <1>7 DEF Next

-------------------------------------------------------------------------------
(* What holds of every behaviour.                                              *)

\* The books and the index are exact throughout, through a swap in flight too.
THEOREM IndexAlways == Spec => []IndexInv
  BY IndexInit, IndexNext, SafeAlways, PTL DEF Spec

\* Whatever the order of loans, repayments and liquidations, the totals of the
\* Pool are the sums over the open loans: OpenLoan, RepayLoan and Swap take off
\* exactly what was added.
THEOREM TotalsAlwaysExact == Spec => []TotalsExact
  <1>1. IndexInv => TotalsExact
    BY BooksExact DEF IndexInv
  <1> QED
    BY <1>1, IndexAlways, PTL

\* The counters of the bands and the presence bits that Swap's completeness
\* check reads show exactly where the open loans are.
THEOREM IndexAlwaysExact == Spec => []IndexExact
  <1>1. IndexInv => IndexExact
    BY BooksExact DEF IndexInv
  <1> QED
    BY <1>1, IndexAlways, PTL

\* What an open loan has booked is in the totals and the counters.
LEMMA LoanBooked ==
    ASSUME SafeInv, IndexInv, NEW l \in LoanId, is_open(l)
    PROVE  /\ loan[l] \in LoanType /\ LoanOK(loan[l])
           /\ loan[l].collateral <= pool.total_collateral[loan[l].side]
           /\ loan[l].principal <= pool.total_debt[Other(loan[l].side)]
           /\ pool.open_loans >= 1
           /\ count[loan[l].side][loan[l].band_id] >= 1
           /\ loan[l].band_id \in pool.band_bitmap[loan[l].side]
  <1> DEFINE x == loan[l]
             c == x.side
             b == x.band_id
  <1>1. /\ x \in LoanType /\ c \in Side /\ b \in BandId /\ LoanOK(x)
        /\ \A y \in LoanId : Coll[y] \in Nat /\ Prin[y] \in Nat
    BY DEF SafeInv, TypeOK, LoanType, IndexInv, LoansOK, Coll, Prin
  <1>2. x.collateral <= pool.total_collateral[c] /\ x.principal <= pool.total_debt[Other(c)]
    <2> DEFINE S == OpenOn(c)
    <2>1. l \in S /\ S \subseteq LoanId /\ S \ {} = S
      BY DEF OpenOn
    <2>2. IsFiniteSet(S)
      BY <2>1, FS_Subset, SystemAssumption
    <2>3. pool.total_collateral[c] = SumOf(Coll, S) /\ pool.total_debt[Other(c)] = SumOf(Prin, S)
      BY <1>1, <2>1 DEF IndexInv, Books
    <2> HIDE DEF S
    <2>4. Coll[l] <= SumOf(Coll, S)
      BY <1>1, <2>1, <2>2, SumBound
    <2>5. Prin[l] <= SumOf(Prin, S)
      BY <1>1, <2>1, <2>2, SumBound
    <2> QED
      BY <2>3, <2>4, <2>5 DEF Coll, Prin
  <1>3. pool.open_loans >= 1
    <2>1. l \in Opens /\ Opens \subseteq LoanId /\ Opens \ {} = Opens
      BY DEF Opens
    <2>2. IsFiniteSet(Opens)
      BY <2>1, FS_Subset, SystemAssumption
    <2>3. Cardinality(Opens) \in Nat /\ Cardinality(Opens) # 0
      BY <2>1, <2>2, FS_CardinalityType, FS_EmptySet
    <2> QED
      BY <2>1, <2>3 DEF IndexInv, Books
  <1>4. count[c][b] >= 1 /\ b \in pool.band_bitmap[c]
    <2> DEFINE M == members(c, b)
    <2>1. l \in M /\ M \subseteq LoanId
      BY DEF members
    <2>2. /\ count[c][b] = Cardinality(M) /\ count[c][b] \in Nat
          /\ b \in pool.band_bitmap[c] <=> count[c][b] # 0
      BY <1>1 DEF IndexInv, Bands, SafeInv, TypeOK
    <2> HIDE DEF M
    <2>3. IsFiniteSet(M)
      BY <2>1, FS_Subset, SystemAssumption
    <2>4. Cardinality(M) # 0
      BY <2>1, <2>3, FS_EmptySet
    <2> QED
      BY <2>2, <2>4
  <1> QED
    BY <1>1, <1>2, <1>3, <1>4

\* No check of RepayLoan but the borrower's own balance can ever refuse to close
\* an open loan: its band exists, the index is not below its snapshot, the
\* totals, the counters and the vault all cover it.
THEOREM AlwaysRepayable == Spec => []Repayable
  <1>1. SafeInv /\ IndexInv => Repayable
    <2> SUFFICES ASSUME SafeInv, IndexInv, NEW l \in LoanId, is_open(l)
                 PROVE  RepayChecks(l, bump_indexes(pool, real, slot))
      BY DEF Repayable
    <2> DEFINE x == loan[l]
               p == bump_indexes(pool, real, slot)
    <2>0. pool \in PoolType /\ real \in [Side -> Nat] /\ slot \in Nat /\ Covers(pool, real)
      BY SystemAssumption DEF SafeInv, TypeOK, PoolOK
    <2>1. /\ x \in LoanType /\ LoanOK(x)
          /\ x.collateral <= pool.total_collateral[x.side]
          /\ x.principal <= pool.total_debt[Other(x.side)]
          /\ pool.open_loans >= 1
          /\ count[x.side][x.band_id] >= 1
      BY LoanBooked
    <2>2. /\ p \in PoolType
          /\ p.total_debt = pool.total_debt
          /\ p.total_collateral = pool.total_collateral
          /\ p.open_loans = pool.open_loans
          /\ \A s \in Side : pool.borrow_index[s] <= p.borrow_index[s]
      BY <2>0, BumpIndexes DEF SafeInv
    <2>3. /\ x.side \in Side /\ Other(x.side) \in Side
          /\ x.collateral \in Nat /\ x.snapshot \in Nat
      BY <2>1, SideFacts DEF LoanType
    <2> HIDE DEF x, p
    <2>4. x.snapshot <= p.borrow_index[Other(x.side)]
      <3>1. /\ pool.borrow_index[Other(x.side)] \in Nat
            /\ p.borrow_index[Other(x.side)] \in Nat
            /\ pool.borrow_index[Other(x.side)] <= p.borrow_index[Other(x.side)]
        BY <2>0, <2>2, <2>3 DEF PoolType
      <3> QED
        BY <2>1, <2>3, <3>1 DEF LoanOK
    <2>5. x.collateral <= real[x.side]
      <3>1. /\ pool.total_collateral[x.side] \in Nat /\ pool.protocol_fees[x.side] \in Nat
            /\ real[x.side] \in Nat
            /\ pool.total_collateral[x.side] + pool.protocol_fees[x.side] <= real[x.side]
        BY <2>0, <2>3 DEF PoolType, Covers
      <3> QED
        BY <2>1, <2>3, <3>1
    <2> QED
      BY <2>1, <2>2, <2>4, <2>5 DEF RepayChecks, LoanOK, x, p
  <1> QED
    BY <1>1, SafeAlways, IndexAlways, PTL

\* A trigger in a band that the boundary shields from the settled price is not
\* reached by it.
LEMMA BeyondBoundary ==
    ASSUME NEW c \in Side, NEW trigger \in Nat, NEW price \in Nat, NEW boundary \in Nat,
           on_path(c, band_id_for_trigger(price), boundary),
           ~ on_path(c, band_id_for_trigger(trigger), boundary)
    PROVE  ~ is_liquidatable(c, trigger, price)
  <1>1. c = "A" \/ c = "B"
    BY DEF Side
  <1>2. CASE c = "A"
    <2> SUFFICES ASSUME price <= trigger PROVE FALSE
      BY <1>2 DEF is_liquidatable
    <2> DEFINE bp == band_id_for_trigger(price)
               bt == band_id_for_trigger(trigger)
    <2>1. bp \in Nat /\ bt \in Nat /\ bp <= bt
      BY BandMonotone
    <2> HIDE DEF bp, bt
    <2>2. bp >= boundary /\ ~ (bt >= boundary)
      BY <1>2 DEF on_path, bp, bt
    <2> QED
      BY <2>1, <2>2
  <1>3. CASE c = "B"
    <2>0. c # "A"
      BY <1>3
    <2> SUFFICES ASSUME price >= trigger PROVE FALSE
      BY <2>0 DEF is_liquidatable
    <2> DEFINE bp == band_id_for_trigger(price)
               bt == band_id_for_trigger(trigger)
    <2>1. bp \in Nat /\ bt \in Nat /\ bt <= bp
      BY BandMonotone
    <2> HIDE DEF bp, bt
    <2>2. bp <= boundary /\ ~ (bt <= boundary)
      BY <2>0 DEF on_path, bp, bt
    <2> QED
      BY <2>1, <2>2
  <1> QED
    BY <1>1, <1>2, <1>3

\* An open loan that a settling swap leaves is not past its trigger: either its
\* band was listed, completely, and the loop ended with none of its loans past
\* theirs, or the boundary shields the band from the settled price.
LEMMA LeftUntriggered ==
    ASSUME SafeInv, SafeInv', IndexInv, CommitSwap,
           NEW l \in LoanId, is_open(l), l \notin Dead(tx), loan[l].side = tx.in
    PROVE  ~ is_liquidatable(tx.in, loan[l].trigger, post_swap_price(tx))
  <1> DEFINE c == tx.in
             b == loan[l].band_id
             P == post_swap_price(tx)
  <1>0. CommitFacts
    BY CommitEffect
  <1>1. /\ tx # IdleTx /\ tx \in TxType /\ TypeOK /\ c \in Side
        /\ tx.tail \in Tails(c) /\ tx.boundary \in Nat
        /\ Settles(tx) /\ Flight(tx)
    BY <1>0 DEF CommitFacts, SafeInv, SwapOK, TxType, IndexInv
  <1>2. /\ loan[l] \in LoanType /\ LoanOK(loan[l])
        /\ b \in pool.band_bitmap[c]
    BY LoanBooked
  <1>3. CASE \E i \in DOMAIN tx.tail : tx.tail[i].band = b
    <2>1. PICK i \in DOMAIN tx.tail : tx.tail[i].band = b
      BY <1>3
    <2>2. l \in members(c, b) /\ count[c][b] = Cardinality(members(c, b))
      <3>1. b \in BandId
        BY <1>2 DEF LoanType
      <3> QED
        BY <1>1, <3>1 DEF members, IndexInv, Bands
    <2>3. PICK e \in Entries(tx.tail) : LoanAt(tx.tail, e) = l
      BY <1>1, <2>1, <2>2, ListedAll
    <2>4. e \notin tx.liquidated
      BY <2>3 DEF Dead
    <2>5. Triggered(tx) = {}
      BY <1>1 DEF Settles
    <2> QED
      BY <2>3, <2>4, <2>5 DEF Triggered
  <1>4. CASE ~ \E i \in DOMAIN tx.tail : tx.tail[i].band = b
    <2>1. ~ on_path(c, b, tx.boundary)
      BY <1>1, <1>2, <1>4 DEF Flight, complete_walk
    <2>2. on_path(c, band_id_for_trigger(P), tx.boundary)
      BY <1>1 DEF Settles, boundary_holds
    <2>3. b = band_id_for_trigger(loan[l].trigger) /\ loan[l].trigger \in Nat
      BY <1>2 DEF LoanOK, LoanType
    <2>4. P \in Nat
      <3>1. settled(tx) \in [Side -> Nat]
        BY SettledReserves, AccountedNext
      <3>2. settled(tx)["A"] \in Nat \ {0} /\ settled(tx)["B"] \in Nat
        BY <1>1, <3>1 DEF Settles, LoopReserves, Side
      <3> QED
        BY <3>2, PriceType DEF post_swap_price
    <2> HIDE DEF P, c, b
    <2>5. ~ is_liquidatable(c, loan[l].trigger, P)
      BY <1>1, <2>1, <2>2, <2>3, <2>4, BeyondBoundary
    <2> QED
      BY <2>5 DEF P, c
  <1> QED
    BY <1>3, <1>4

\* When a swap settles, no loan of its direction is past its trigger at the price
\* the pool then shows, whatever list and boundary the caller chose: the price
\* the loop works with is the one settled, and the presence bits it is checked
\* against miss no band.
THEOREM NoLoanLeftBehind == Spec => SwapLeavesNoTriggered
  <1>1. SafeInv /\ SafeInv' /\ IndexInv /\ [Next]_vars
          => [CommitSwap => \A c \in Side : tx.in = c => NoneTriggered(c)']_vars
    <2> SUFFICES ASSUME SafeInv, SafeInv', IndexInv, CommitSwap,
                        NEW c \in Side, tx.in = c
                 PROVE  NoneTriggered(c)'
      OBVIOUS
    <2>1. spot_price(pool', real') = post_swap_price(tx)
      BY SettledReserves DEF spot_price, post_swap_price
    <2>2. Kept(Dead(tx))
      BY CommitKept
    <2>3. OpenOn(c)' = OpenOn(c) \ Dead(tx)
      BY <2>2, KeptSets
    <2>4. ASSUME NEW l \in OpenOn(c)'
          PROVE  ~ is_liquidatable(c, loan'[l].trigger, spot_price(pool', real'))
      <3>1. l \in LoanId /\ is_open(l) /\ loan[l].side = c /\ l \notin Dead(tx)
        BY <2>3 DEF OpenOn
      <3>2. loan'[l] = loan[l]
        BY <2>2, <3>1 DEF Kept
      <3>3. ~ is_liquidatable(c, loan[l].trigger, post_swap_price(tx))
        BY <3>1, LeftUntriggered
      <3> QED
        BY <2>1, <3>2, <3>3
    <2> QED
      BY <2>4 DEF NoneTriggered
  <1> QED
    BY <1>1, SafeAlways, IndexAlways, PTL DEF Spec, SwapLeavesNoTriggered

\* The last LP token cannot leave while a loan is open: what it would be paid is
\* the whole reserve, which the vaults can only pay when nothing is lent out.
LEMMA LastExit ==
    ASSUME SafeInv, SafeInv', IndexInv, NEW x \in Nat, NEW ma \in Nat, NEW mb \in Nat,
           RemoveLiquidity(x, ma, mb), lp_supply' = 0, NEW c \in Side
    PROVE  OpenOn(c) = {} /\ pool.total_debt[c] = 0 /\ pool.total_collateral[c] = 0
  <1>1. ASSUME NEW s \in Side PROVE pool.total_debt[s] = 0
    <2>1. accounted(pool, real)[s] <= swappable(pool, real, s)
      BY WithdrawShares
    <2>2. /\ real[s] \in Nat /\ pool.total_collateral[s] \in Nat
          /\ pool.protocol_fees[s] \in Nat /\ pool.total_debt[s] \in Nat
          /\ accounted(pool, real)[s] =
                real[s] - pool.total_collateral[s] - pool.protocol_fees[s]
                + pool.total_debt[s]
      BY AccountedNow
    <2> QED
      BY <2>1, <2>2 DEF swappable
  <1>2. OpenOn(c) = {}
    <2> SUFFICES ASSUME NEW l \in OpenOn(c) PROVE FALSE
      OBVIOUS
    <2>1. l \in LoanId /\ is_open(l) /\ loan[l].side = c /\ Other(c) \in Side
      BY SideFacts DEF OpenOn
    <2>2. /\ loan[l].principal \in Nat /\ loan[l].principal # 0
          /\ loan[l].principal <= pool.total_debt[Other(c)]
      BY <2>1, LoanBooked DEF LoanType, LoanOK
    <2> QED
      BY <1>1, <2>1, <2>2
  <1>3. pool.total_collateral[c] = 0
    <2>1. OpenOn(c) \ {} = {}
      BY <1>2
    <2> QED
      BY <2>1, SumEmpty DEF IndexInv, Books
  <1> QED
    BY <1>1, <1>2, <1>3

\* Emptying the LP supply through RemoveLiquidity leaves no debt, no open loan
\* and no collateral behind: the argument in the comment of check_supply_floor.
THEOREM CleanExit == Spec => FullExitClean
  <1>1. SafeInv /\ SafeInv' /\ IndexInv /\ [Next]_vars
          => [(\E x \in Burns, a, b \in Mins : RemoveLiquidity(x, a, b)) /\ lp_supply' = 0
                => \A c \in Side : /\ OpenOn(c)' = {}
                                   /\ pool'.total_debt[c] = 0
                                   /\ pool'.total_collateral[c] = 0]_vars
    <2> SUFFICES ASSUME SafeInv, SafeInv', IndexInv,
                        \E x \in Burns, a, b \in Mins : RemoveLiquidity(x, a, b),
                        lp_supply' = 0, NEW c \in Side
                 PROVE  /\ OpenOn(c)' = {}
                        /\ pool'.total_debt[c] = 0
                        /\ pool'.total_collateral[c] = 0
      OBVIOUS
    <2>1. OpenOn(c) = {} /\ pool.total_debt[c] = 0 /\ pool.total_collateral[c] = 0
      BY InputsAssumption, LastExit
    <2>2. QuietStep
      BY QuietOnes
    <2>3. OpenOn(c)' = OpenOn(c) \ {}
      BY <2>2, KeptSets DEF QuietStep
    <2> QED
      BY <2>1, <2>2, <2>3 DEF QuietStep
  <1> QED
    BY <1>1, SafeAlways, IndexAlways, PTL DEF Spec, FullExitClean


-------------------------------------------------------------------------------
(* The loans a swap in flight has taken.                                       *)

\* The Pool a swap works on lacks what the liquidated loans had booked.
LEMMA SoldTotals ==
    ASSUME SafeInv, IndexInv, tx # IdleTx
    PROVE  LET c == tx.in
               d == Other(c)
               D == Dead(tx)
               p == tx.pool
           IN  /\ c \in Side /\ d \in Side /\ d # c
               /\ D \subseteq OpenOn(c)
               /\ SumOf(Coll, D) \in Nat /\ SumOf(Prin, D) \in Nat
               /\ p.total_collateral = [pool.total_collateral EXCEPT ![c] = @ - SumOf(Coll, D)]
               /\ p.total_debt = [pool.total_debt EXCEPT ![d] = @ - SumOf(Prin, D)]
               /\ p.open_loans = pool.open_loans - Cardinality(tx.liquidated)
               /\ p.protocol_fees = pool.protocol_fees
  <1> DEFINE c == tx.in
             d == Other(c)
             D == Dead(tx)
             p == tx.pool
  <1>1. /\ TypeOK /\ tx \in TxType /\ c \in Side /\ tx.tail \in Tails(c)
        /\ IsFiniteSet(tx.liquidated) /\ Flight(tx) /\ p \in PoolType
        /\ pool \in PoolType /\ real \in [Side -> Nat]
        /\ Covers(p, real) /\ Covers(pool, real)
    BY DEF SafeInv, TypeOK, SwapOK, TxType, IndexInv, PoolOK
  <1>2. D \subseteq OpenOn(c)
    BY <1>1, DeadLoans DEF Flight
  <1>3. d \in Side /\ d # c /\ Other(d) = c
    BY <1>1, SideFacts
  <1>4. \A l \in LoanId : Coll[l] \in Nat /\ Prin[l] \in Nat
    BY <1>1 DEF TypeOK, LoanType, Coll, Prin
  <1> DEFINE S == OpenOn(c)
             kept(f) == SumOf(f, S \ D)
             sold(f) == SumOf(f, D)
  <1>5. S \subseteq LoanId /\ IsFiniteSet(S)
    <2>1. S \subseteq LoanId
      BY DEF OpenOn
    <2> QED
      BY <2>1, FS_Subset, SystemAssumption
  <1>6. /\ pool.total_collateral[c] = SumOf(Coll, S)
        /\ pool.total_debt[d] = SumOf(Prin, S)
    <2>1. S \ {} = S
      OBVIOUS
    <2> QED
      BY <1>1, <2>1 DEF IndexInv, Books
  <1>7. p.total_collateral[c] = kept(Coll) /\ p.total_debt[d] = kept(Prin)
    BY <1>1 DEF Flight, Books
  <1>8. /\ p.total_collateral[d] = pool.total_collateral[d]
        /\ p.total_debt[c] = pool.total_debt[c]
        /\ p.protocol_fees = pool.protocol_fees
    <2>1. OpenOn(d) \ D = OpenOn(d) \ {}
      BY <1>2, <1>3 DEF OpenOn
    <2>2. /\ p.total_collateral[d] = SumOf(Coll, OpenOn(d) \ D)
          /\ p.total_debt[Other(d)] = SumOf(Prin, OpenOn(d) \ D)
          /\ pool.total_collateral[d] = SumOf(Coll, OpenOn(d) \ {})
          /\ pool.total_debt[Other(d)] = SumOf(Prin, OpenOn(d) \ {})
          /\ p.protocol_fees = pool.protocol_fees
      BY <1>1, <1>3 DEF IndexInv, Flight, Books
    <2> QED
      BY <1>3, <2>1, <2>2
  <1> HIDE DEF S
  <1>9. /\ SumOf(Coll, S) = sold(Coll) + kept(Coll)
        /\ sold(Coll) \in Nat /\ kept(Coll) \in Nat
    BY <1>2, <1>4, <1>5, SumSplit DEF S
  <1>10. /\ SumOf(Prin, S) = sold(Prin) + kept(Prin)
         /\ sold(Prin) \in Nat /\ kept(Prin) \in Nat
    BY <1>2, <1>4, <1>5, SumSplit DEF S
  <1> DEFINE uc == sold(Coll)
             vc == kept(Coll)
             up == sold(Prin)
             vp == kept(Prin)
  <1>11. /\ pool.total_collateral[c] = uc + vc /\ p.total_collateral[c] = vc
         /\ pool.total_debt[d] = up + vp /\ p.total_debt[d] = vp
         /\ uc \in Nat /\ vc \in Nat /\ up \in Nat /\ vp \in Nat
    BY <1>6, <1>7, <1>9, <1>10
  <1>12. p.open_loans = pool.open_loans - Cardinality(tx.liquidated)
    <2>1. Cardinality(D) = Cardinality(tx.liquidated)
      <3> DEFINE E == tx.liquidated
                 f == [e \in E |-> LoanAt(tx.tail, e)]
      <3>1. f \in [E -> D]
        BY DEF Dead
      <3>2. \A x, y \in E : f[x] = f[y] => x = y
        BY <1>1, ListedOnce DEF Flight
      <3>3. \A l \in D : \E e \in E : f[e] = l
        BY DEF Dead
      <3> HIDE DEF E, D, f
      <3>4. f \in Bijection(E, D)
        BY <3>1, <3>2, <3>3 DEF Bijection, Injection, Surjection, IsInjective
      <3>5. IsFiniteSet(E)
        BY <1>1 DEF E
      <3>6. Cardinality(D) = Cardinality(E)
        BY <3>4, <3>5, FS_Bijection DEF ExistsBijection
      <3> QED
        BY <3>6 DEF E
    <2>2. /\ p.open_loans = Cardinality(Opens \ D)
          /\ pool.open_loans = Cardinality(Opens \ {})
      BY <1>1 DEF IndexInv, Flight, Books
    <2>3. Opens \cap D = D /\ Opens \ {} = Opens
      BY <1>2 DEF OpenOn, Opens
    <2>4. IsFiniteSet(Opens)
      BY FS_Subset, SystemAssumption DEF Opens
    <2> HIDE DEF D, p
    <2>5. Cardinality(Opens \ D) = Cardinality(Opens) - Cardinality(Opens \cap D)
      BY <2>4, FS_Difference
    <2> QED
      BY <2>1, <2>2, <2>3, <2>5
  <1>13. /\ p.total_collateral \in [Side -> Nat] /\ pool.total_collateral \in [Side -> Nat]
         /\ p.total_debt \in [Side -> Nat] /\ pool.total_debt \in [Side -> Nat]
         /\ \A s \in Side : s = c \/ s = d
    BY <1>1, SideFacts DEF PoolType
  <1> HIDE DEF uc, vc, up, vp, c, d, p
  <1>14. p.total_collateral = [pool.total_collateral EXCEPT ![c] = @ - uc]
    BY <1>1, <1>3, <1>8, <1>11, <1>13
  <1>15. p.total_debt = [pool.total_debt EXCEPT ![d] = @ - up]
    BY <1>1, <1>3, <1>8, <1>11, <1>13
  <1> QED
    BY <1>1, <1>2, <1>3, <1>8, <1>11, <1>12, <1>14, <1>15 DEF c, d, p, uc, up
=============================================================================
