---------------------------- MODULE LedgerProofs -----------------------------
(* The pool as others see it, for every value of the constants: LiquidityPool  *)
(* implements LendingLedger, and the indexer of LiquidityEvents, which only    *)
(* adds up events, is never wrong about it.                                    *)
EXTENDS LedgerRefinement, LiquidityEvents, LoanIndexProofs

-------------------------------------------------------------------------------
(* The ledger's view of a state with exact books.                              *)

\* The ledger is instantiated with the arithmetic of the pool.
LEMMA LedgerSides ==
    /\ Ledger!Side = Side
    /\ \A s : Ledger!Other(s) = Other(s)
  BY DEF Ledger!Side, Side, Ledger!Other, Other

LEMMA LedgerLoans ==
    ASSUME TypeOK, NEW l \in LoanId
    PROVE  /\ LedgerLoan(loan[l]).status = loan[l].status
           /\ is_open(l) => /\ LedgerLoan(loan[l]).side = loan[l].side
                            /\ LedgerLoan(loan[l]).collateral = loan[l].collateral
                            /\ LedgerLoan(loan[l]).principal = loan[l].principal
  BY DEF LedgerLoan, TypeOK, LoanType, is_open

LEMMA LedgerSecured ==
    ASSUME TypeOK, NEW c
    PROVE  Ledger!Secured(c) = OpenOn(c)
  BY LedgerLoans DEF Ledger!Secured, OpenOn, is_open

LEMMA LedgerCollateral ==
    ASSUME TypeOK, NEW S, S \subseteq Opens
    PROVE  Ledger!Collateral(S) = SumOf(Coll, S)
  <1> DEFINE v(l) == [x \in LoanId |-> LedgerLoan(loan[x])][l].collateral
             P(it) == it = [s \in SUBSET S |->
                              IF s = {} THEN 0
                              ELSE v(Pick(s)) + it[s \ {Pick(s)}]]
             g == CHOOSE it : P(it)
  <1>1. Ledger!Collateral(S) = g[S]
    BY Zenon DEF Ledger!Collateral, Ledger!MapThenSumSet, Ledger!MapThenFoldSet, Pick
  <1>2. IsFiniteSet(S)
    BY FS_Subset, SystemAssumption DEF Opens
  <1>3. ASSUME NEW it PROVE P(it) <=> Sums(Coll, S, it)
    <2>1. ASSUME NEW s \in SUBSET S
          PROVE  (IF s = {} THEN 0 ELSE v(Pick(s)) + it[s \ {Pick(s)}])
                  = (IF s = {} THEN 0 ELSE Coll[Pick(s)] + it[s \ {Pick(s)}])
      <3>1. s # {} => Pick(s) \in LoanId /\ is_open(Pick(s))
        BY PickIn DEF Opens
      <3>2. s # {} => v(Pick(s)) = Coll[Pick(s)]
        BY <3>1, LedgerLoans DEF Coll
      <3> QED
        BY <3>2
    <2> HIDE DEF v
    <2> QED
      BY <2>1 DEF Sums
  <1>4. \E it : P(it)
    BY <1>2, <1>3, SumsExist
  <1>5. P(g)
    BY <1>4, Zenon
  <1> HIDE DEF P, g
  <1>6. SumOf(Coll, S) = g[S]
    BY <1>2, <1>3, <1>5, SumOfAny
  <1> QED
    BY <1>1, <1>6

LEMMA LedgerPrincipal ==
    ASSUME TypeOK, NEW S, S \subseteq Opens
    PROVE  Ledger!Principal(S) = SumOf(Prin, S)
  <1> DEFINE v(l) == [x \in LoanId |-> LedgerLoan(loan[x])][l].principal
             P(it) == it = [s \in SUBSET S |->
                              IF s = {} THEN 0
                              ELSE v(Pick(s)) + it[s \ {Pick(s)}]]
             g == CHOOSE it : P(it)
  <1>1. Ledger!Principal(S) = g[S]
    BY Zenon DEF Ledger!Principal, Ledger!MapThenSumSet, Ledger!MapThenFoldSet, Pick
  <1>2. IsFiniteSet(S)
    BY FS_Subset, SystemAssumption DEF Opens
  <1>3. ASSUME NEW it PROVE P(it) <=> Sums(Prin, S, it)
    <2>1. ASSUME NEW s \in SUBSET S
          PROVE  (IF s = {} THEN 0 ELSE v(Pick(s)) + it[s \ {Pick(s)}])
                  = (IF s = {} THEN 0 ELSE Prin[Pick(s)] + it[s \ {Pick(s)}])
      <3>1. s # {} => Pick(s) \in LoanId /\ is_open(Pick(s))
        BY PickIn DEF Opens
      <3>2. s # {} => v(Pick(s)) = Prin[Pick(s)]
        BY <3>1, LedgerLoans DEF Prin
      <3> QED
        BY <3>2
    <2> HIDE DEF v
    <2> QED
      BY <2>1 DEF Sums
  <1>4. \E it : P(it)
    BY <1>2, <1>3, SumsExist
  <1>5. P(g)
    BY <1>4, Zenon
  <1> HIDE DEF P, g
  <1>6. SumOf(Prin, S) = g[S]
    BY <1>2, <1>3, <1>5, SumOfAny
  <1> QED
    BY <1>1, <1>6

\* With exact books, what the ledger computes from the loans is what the pool
\* computes from its totals.
Agrees ==
    /\ \A s \in Side : Ledger!Free(s) = swappable(pool, real, s)
    /\ Ledger!Claims = accounted(pool, real)
    /\ Ledger!Price = spot_price(pool, real)

LEMMA LedgerNow == SafeInv /\ IndexInv => Agrees
  <1> SUFFICES ASSUME SafeInv, IndexInv PROVE Agrees
    OBVIOUS
  <1>0. TypeOK
    BY DEF SafeInv
  <1>1. ASSUME NEW s \in Side
        PROVE  /\ Ledger!Collateral(Ledger!Secured(s)) = pool.total_collateral[s]
               /\ Ledger!Principal(Ledger!Secured(Ledger!Other(s))) = pool.total_debt[s]
    <2>1. /\ Ledger!Secured(s) = OpenOn(s)
          /\ Ledger!Secured(Ledger!Other(s)) = OpenOn(Other(s))
      BY <1>0, LedgerSecured, LedgerSides
    <2>2. /\ OpenOn(s) \subseteq Opens /\ OpenOn(Other(s)) \subseteq Opens
          /\ OpenOn(s) \ {} = OpenOn(s) /\ OpenOn(Other(s)) \ {} = OpenOn(Other(s))
      BY DEF OpenOn, Opens
    <2>3. Other(s) \in Side /\ Other(Other(s)) = s
      BY SideFacts
    <2>4. /\ pool.total_collateral[s] = SumOf(Coll, OpenOn(s))
          /\ pool.total_debt[s] = SumOf(Prin, OpenOn(Other(s)))
      BY <2>2, <2>3 DEF IndexInv, Books
    <2>5. Ledger!Collateral(OpenOn(s)) = SumOf(Coll, OpenOn(s))
      BY <1>0, <2>2, LedgerCollateral
    <2>6. Ledger!Principal(OpenOn(Other(s))) = SumOf(Prin, OpenOn(Other(s)))
      BY <1>0, <2>2, LedgerPrincipal
    <2> QED
      BY <2>1, <2>4, <2>5, <2>6
  <1>2. \A s \in Side : Ledger!Free(s) = swappable(pool, real, s)
    BY <1>1 DEF Ledger!Free, swappable
  <1>3. Ledger!Claims = accounted(pool, real)
    BY <1>1, <1>2, LedgerSides DEF Ledger!Claims, accounted
  <1>4. Ledger!Price = spot_price(pool, real)
    BY <1>3 DEF Ledger!Price, Ledger!price_b_per_a_wad, Ledger!mul_div, spot_price,
                price_b_per_a_wad, mul_div
  <1> QED
    BY <1>2, <1>3, <1>4 DEF Agrees

LEMMA LedgerNext == SafeInv' /\ IndexInv' => Agrees'
  BY LedgerNow, PTL

-------------------------------------------------------------------------------
(* One lemma per instruction: the step of the ledger it is.                    *)

\* The share values of the ledger are those of the pool.
LEMMA LedgerShares ==
    ASSUME Agrees, Agrees',
           lp_supply > 0 => \A s \in Side :
              accounted(pool, real)[s] * lp_supply'
                 <= accounted(pool', real')[s] * lp_supply,
           accounted(pool, real) \in [Side -> Nat],
           accounted(pool', real') \in [Side -> Nat],
           lp_supply \in Nat, lp_supply' \in Nat
    PROVE  Ledger!ShareValueKept
  <1> SUFFICES ASSUME lp_supply > 0, NEW s \in Side
               PROVE  Ledger!Claims'[s] * lp_supply >= Ledger!Claims[s] * lp_supply'
    BY LedgerSides DEF Ledger!ShareValueKept
  <1> DEFINE old == accounted(pool, real)[s]
             new == accounted(pool', real')[s]
  <1>1. Ledger!Claims[s] = old /\ Ledger!Claims'[s] = new
    BY DEF Agrees
  <1>2. old \in Nat /\ new \in Nat /\ old * lp_supply' <= new * lp_supply
    OBVIOUS
  <1> HIDE DEF old, new
  <1>3. new * lp_supply >= old * lp_supply'
    BY <1>2
  <1> QED
    BY <1>1, <1>3

LEMMA DepositStep ==
    ASSUME SafeInv, SafeInv', Agrees, Agrees',
           NEW a \in Nat, NEW b \in Nat, NEW min \in Nat, AddLiquidity(a, b, min)
    PROVE  Ledger!Deposit
  <1> DEFINE p == bump_indexes(pool, real, slot)
             d == derive_deposit(a, b, accounted(p, real))
  <1>0. pool \in PoolType /\ real \in [Side -> Nat] /\ slot \in Nat
    BY SystemAssumption DEF SafeInv, TypeOK
  <1>1. p \in PoolType /\ PoolOK(p, real, slot) /\ p.protocol_fees = pool.protocol_fees
    BY <1>0, BumpIndexes DEF SafeInv
  <1>2. accounted(p, real) \in [Side -> Nat]
    BY <1>0, <1>1, AccountedType DEF PoolOK
  <1>3. /\ real' = [s \in Side |-> real[s] + d.in[s]]
        /\ lp_supply' = lp_supply + d.lp /\ d.lp # 0
        /\ pool' = p /\ loan' = loan
    BY DEF AddLiquidity
  <1>4. /\ accounted(pool, real) \in [Side -> Nat] /\ lp_supply \in Nat
        /\ accounted(pool', real') \in [Side -> Nat] /\ lp_supply' \in Nat
    BY AccountedNow, AccountedNext
  <1>5. d.lp \in Nat /\ d.in \in [Side -> Nat]
    BY <1>2, <1>4, DepositType
  <1>6. Ledger!ShareValueKept
    BY <1>4, DepositShares, LedgerShares
  <1> HIDE DEF p, d
  <1>7. (\A s \in Side : real'[s] >= real[s]) /\ lp_supply' > lp_supply
    BY <1>0, <1>3, <1>4, <1>5
  <1>8. UNCHANGED <<pool.protocol_fees, [l \in LoanId |-> LedgerLoan(loan[l])]>>
    BY <1>1, <1>3
  <1> QED
    BY <1>6, <1>7, <1>8, LedgerSides DEF Ledger!Deposit

LEMMA WithdrawStep ==
    ASSUME SafeInv, SafeInv', IndexInv, Agrees, Agrees',
           NEW x \in Nat, NEW ma \in Nat, NEW mb \in Nat, RemoveLiquidity(x, ma, mb)
    PROVE  Ledger!Withdraw
  <1> DEFINE p == bump_indexes(pool, real, slot)
             out == withdrawal_amounts(x, accounted(p, real), lp_supply)
  <1>0. pool \in PoolType /\ real \in [Side -> Nat] /\ slot \in Nat
    BY SystemAssumption DEF SafeInv, TypeOK
  <1>1. /\ p \in PoolType /\ PoolOK(p, real, slot)
        /\ p.protocol_fees = pool.protocol_fees
        /\ p.total_collateral = pool.total_collateral
    BY <1>0, BumpIndexes DEF SafeInv
  <1>2. accounted(p, real) \in [Side -> Nat]
    BY <1>0, <1>1, AccountedType DEF PoolOK
  <1>3. /\ real' = [s \in Side |-> real[s] - out[s]]
        /\ lp_supply' = lp_supply - x /\ x # 0 /\ lp_supply # 0
        /\ \A s \in Side : out[s] <= swappable(p, real, s)
        /\ pool' = p /\ loan' = loan
    BY DEF RemoveLiquidity, executable
  <1>4. /\ accounted(pool, real) \in [Side -> Nat] /\ lp_supply \in Nat
        /\ accounted(pool', real') \in [Side -> Nat] /\ lp_supply' \in Nat
    BY AccountedNow, AccountedNext
  <1>5. \A s \in Side : out[s] \in Nat
    <2> SUFFICES ASSUME NEW s \in Side PROVE out[s] \in Nat
      OBVIOUS
    <2>1. lp_supply \in Nat \ {0} /\ accounted(p, real)[s] \in Nat
      BY <1>2, <1>3, <1>4
    <2>2. out[s] = mul_div(x, accounted(p, real)[s], lp_supply)
      BY DEF withdrawal_amounts
    <2> QED
      BY <2>1, <2>2, MulDiv
  <1>6. Ledger!ShareValueKept
    BY <1>4, WithdrawShares, LedgerShares
  <1>7. \A s \in Side : swappable(p, real, s) = Ledger!Free(s)
    BY <1>1 DEF Agrees, swappable
  <1>8. lp_supply' = 0 => \A c \in Side : Ledger!Secured(c) = {}
    <2> SUFFICES ASSUME lp_supply' = 0, NEW c \in Side PROVE Ledger!Secured(c) = {}
      OBVIOUS
    <2>1. OpenOn(c) = {}
      BY LastExit
    <2> QED
      BY <2>1, LedgerSecured DEF SafeInv
  <1> HIDE DEF p, out
  <1>9. \A s \in Side : real'[s] <= real[s] /\ real[s] - real'[s] <= Ledger!Free(s)
    <2> SUFFICES ASSUME NEW s \in Side
                 PROVE  real'[s] <= real[s] /\ real[s] - real'[s] <= Ledger!Free(s)
      OBVIOUS
    <2>1. real[s] \in Nat /\ out[s] \in Nat /\ real'[s] = real[s] - out[s]
      BY <1>0, <1>3, <1>5
    <2>2. out[s] <= Ledger!Free(s)
      BY <1>3, <1>7
    <2>3. real[s] - real'[s] = out[s] /\ real'[s] <= real[s]
      BY <2>1
    <2> QED
      BY <2>2, <2>3
  <1>10. lp_supply' < lp_supply
    BY <1>3, <1>4
  <1>11. UNCHANGED <<pool.protocol_fees, [l \in LoanId |-> LedgerLoan(loan[l])]>>
    BY <1>1, <1>3
  <1> QED
    BY <1>6, <1>8, <1>9, <1>10, <1>11, LedgerSides DEF Ledger!Withdraw

\* The ledger's trigger of a loan, at the ledger's price.
LEMMA LedgerUnderwater ==
    ASSUME Agrees, NEW x
    PROVE  Ledger!Underwater(x) <=>
             is_liquidatable(x.side, recompute_trigger(x.side, x.collateral, x.principal),
                             spot_price(pool, real))
  BY DEF Agrees, Ledger!Underwater, Ledger!is_liquidatable, is_liquidatable,
         Ledger!recompute_trigger, recompute_trigger

\* The limit OpenLoan checks is no weaker than the one at the pool's own price.
LEMMA SpotLimit ==
    ASSUME NEW c \in Side, NEW k \in Nat \ {0}, NEW m \in Nat,
           NEW acc \in [Side -> Nat \ {0}], NEW ref \in Nat, c = "A" => ref # 0,
           loan_ltv_bps(c, k, m, acc, ref) <= MAX_LTV_BPS
    PROVE  ltv_bps(m, k, acc[c], acc[Other(c)]) <= MAX_LTV_BPS
  <1>0. BPS_DENOM \in Nat /\ WAD \in Nat \ {0} /\ MAX_LTV_BPS \in Nat
    BY UnitsAssumption, ParametersAssumption
  <1>1. ASSUME NEW u \in Nat, NEW v \in Nat \ {0} PROVE ltv_bps(m, k, u, v) \in Nat
    <2>1. m * BPS_DENOM * u \in Nat /\ k * v \in Nat \ {0}
      BY <1>0
    <2>2. \A i \in Nat, j \in Nat \ {0} : i \div j \in Nat
      OBVIOUS
    <2> QED
      BY <2>1, <2>2 DEF ltv_bps
  <1> DEFINE spot == ltv_bps(m, k, acc[c], acc[Other(c)])
             past == IF c = "A" THEN ltv_bps(m, k, WAD, ref) ELSE ltv_bps(m, k, ref, WAD)
  <1>2. spot \in Nat
    <2>1. acc[c] \in Nat /\ acc[Other(c)] \in Nat \ {0}
      BY SideFacts
    <2> QED
      BY <1>1, <2>1
  <1>3. past \in Nat
    BY <1>0, <1>1
  <1>4. MaxOf(spot, past) <= MAX_LTV_BPS
    BY DEF loan_ltv_bps
  <1> HIDE DEF spot, past
  <1>5. spot <= MAX_LTV_BPS
    BY <1>0, <1>2, <1>3, <1>4 DEF MaxOf
  <1> QED
    BY <1>5 DEF spot

LEMMA BorrowStep ==
    ASSUME SafeInv, SafeInv', Agrees, NEW l \in LoanId, NEW c \in Side,
           NEW k \in Nat, NEW m \in Nat, OpenLoan(l, c, k, m)
    PROVE  Ledger!Borrow(l)
  <1> DEFINE d == Other(c)
             p == bump_indexes(pool, real, slot)
             acc == accounted(p, real)
             spot == price_b_per_a_wad(acc["A"], acc["B"])
             ref == ref_price_at(p, spot, slot)
             t == recompute_trigger(c, k, m)
             x == [status |-> "open", side |-> c, collateral |-> k, principal |-> m]
             L == [y \in LoanId |-> LedgerLoan(loan[y])]
  <1>0. pool \in PoolType /\ real \in [Side -> Nat] /\ slot \in Nat
        /\ loan \in [LoanId -> LoanType]
    BY SystemAssumption DEF SafeInv, TypeOK
  <1>1. OpenFacts(l, c, k, m)
    BY OpenEffect
  <1>2. /\ p \in PoolType /\ PoolOK(p, real, slot)
        /\ p.total_debt = pool.total_debt
        /\ p.total_collateral = pool.total_collateral
        /\ p.protocol_fees = pool.protocol_fees
    BY <1>0, BumpIndexes DEF SafeInv
  <1>3. acc = accounted(pool, real)
    BY <1>2 DEF accounted, swappable
  <1>4. /\ k \in Nat \ {0} /\ m \in Nat \ {0}
        /\ acc["A"] # 0 /\ acc["B"] # 0
        /\ c = "A" => ref # 0
        /\ loan_ltv_bps(c, k, m, acc, ref) <= MAX_LTV_BPS
        /\ ~ is_liquidatable(c, t, spot)
    BY DEF OpenLoan
  <1>5. acc \in [Side -> Nat \ {0}]
    <2>1. acc \in [Side -> Nat]
      BY <1>3, AccountedNow
    <2> QED
      BY <1>4, <2>1 DEF Side
  <1>6. ref \in Nat
    <2>1. spot \in Nat
      BY <1>5, PriceType DEF Side
    <2>2. p.ref_price \in Nat /\ slot - p.ref_price_slot \in Nat
      BY <1>0, <1>2 DEF PoolType, PoolOK
    <2> QED
      BY <2>1, <2>2, EmaType DEF ref_price_at
  <1>7. ltv_bps(m, k, acc[c], acc[d]) <= MAX_LTV_BPS
    BY <1>4, <1>5, <1>6, SpotLimit
  <1>8. spot = spot_price(pool, real)
    BY <1>3 DEF spot_price
  <1>9. d \in Side
    BY SideFacts
  <1>10. /\ loan[l].status = "none"
         /\ loan' = [loan EXCEPT ![l] = NewLoan(c, k, m, pool'.borrow_index[d])]
         /\ m <= swappable(pool, real, d)
         /\ real' = [real EXCEPT ![c] = @ + k, ![d] = @ - m]
         /\ pool'.protocol_fees = pool.protocol_fees /\ lp_supply' = lp_supply
    BY <1>1 DEF OpenFacts
  <1>11. L[l] = [status |-> "none"] /\ L'[l] = x /\ L' = [L EXCEPT ![l] = x]
    <2>1. LedgerLoan(loan[l]) = [status |-> "none"]
      BY <1>10 DEF LedgerLoan
    <2>2. LedgerLoan(NewLoan(c, k, m, pool'.borrow_index[d])) = x
      BY DEF LedgerLoan, NewLoan
    <2>3. L'[l] = x /\ \A y \in LoanId \ {l} : L'[y] = L[y]
      BY <1>0, <1>10, <2>2
    <2> QED
      BY <2>1, <2>3
  <1>12. x.side = c /\ x.collateral = k /\ x.principal = m /\ x.status = "open"
    OBVIOUS
  <1>13. ~ Ledger!Underwater(x)
    <2>1. ~ is_liquidatable(x.side, recompute_trigger(x.side, x.collateral, x.principal),
                            spot_price(pool, real))
      BY <1>4, <1>8, <1>12
    <2> HIDE DEF x
    <2> QED
      BY <2>1, LedgerUnderwater
  <1>14. Ledger!ltv_bps(m, k, Ledger!Claims[c], Ledger!Claims[d]) <= MAX_LTV_BPS
    BY <1>3, <1>7 DEF Agrees, Ledger!ltv_bps, ltv_bps
  <1>15. m <= Ledger!Free(d)
    BY <1>9, <1>10 DEF Agrees
  <1> HIDE DEF d, p, acc, spot, ref, t, x
  <1>16. Ledger!Other(c) = d
    BY LedgerSides DEF d
  <1>17. /\ x.collateral > 0 /\ x.principal > 0
         /\ x.principal <= Ledger!Free(Ledger!Other(x.side))
         /\ Ledger!ltv_bps(x.principal, x.collateral, Ledger!Claims[x.side],
                            Ledger!Claims[Ledger!Other(x.side)]) <= MAX_LTV_BPS
         /\ ~ Ledger!Underwater(x)
         /\ real' = [real EXCEPT ![x.side] = @ + x.collateral,
                                 ![Ledger!Other(x.side)] = @ - x.principal]
    BY <1>4, <1>10, <1>12, <1>13, <1>14, <1>15, <1>16
  <1>18. /\ L[l] = Ledger!Absent
         /\ L'[l] = x
         /\ L' = [L EXCEPT ![l] = L'[l]]
    BY <1>11 DEF Ledger!Absent
  <1> QED
    BY <1>10, <1>12, <1>17, <1>18 DEF Ledger!Borrow

LEMMA RepayStep ==
    ASSUME SafeInv, NEW l \in LoanId, RepayLoan(l)
    PROVE  Ledger!Repay(l)
  <1> DEFINE x == loan[l]
             d == Other(x.side)
             L == [y \in LoanId |-> LedgerLoan(loan[y])]
  <1>0. real \in [Side -> Nat] /\ loan \in [LoanId -> LoanType] /\ TypeOK
    BY DEF SafeInv, TypeOK
  <1>1. RepayFacts(l, x)
    BY RepayEffect
  <1>2. /\ x \in LoanType /\ x.status = "open"
        /\ loan' = [loan EXCEPT ![l] = NoLoan]
        /\ pool'.protocol_fees = pool.protocol_fees /\ lp_supply' = lp_supply
    BY <1>1 DEF RepayFacts
  <1>3. PICK o \in Nat :
           /\ x.principal <= o
           /\ real' = [real EXCEPT ![d] = @ + o, ![x.side] = @ - x.collateral]
    BY <1>1 DEF RepayFacts
  <1>4. /\ x.side \in Side /\ d \in Side /\ d # x.side
        /\ x.principal \in Nat /\ x.collateral \in Nat
    BY <1>2, SideFacts DEF LoanType
  <1>5. L' = [L EXCEPT ![l] = [status |-> "none"]]
    <2>1. LedgerLoan(NoLoan) = [status |-> "none"]
      BY DEF LedgerLoan, NoLoan
    <2> QED
      BY <1>0, <1>2, <2>1
  <1>6. /\ L[l].status = "open" /\ L[l].side = x.side
        /\ L[l].collateral = x.collateral /\ L[l].principal = x.principal
    BY <1>0, <1>2, LedgerLoans DEF is_open
  <1> HIDE DEF x, d
  <1>7. real'[x.side] = real[x.side] - x.collateral /\ real'[d] >= real[d] + x.principal
    BY <1>0, <1>3, <1>4
  <1>8. Ledger!Other(x.side) = d
    BY LedgerSides DEF d
  <1> QED
    BY <1>2, <1>5, <1>6, <1>7, <1>8 DEF Ledger!Repay, Ledger!Absent

\* The reserves of the Pool a swap works on are the ledger's claims with the
\* loans it has taken sold.
LEMMA SoldReserves ==
    ASSUME SafeInv, IndexInv, tx # IdleTx
    PROVE  LET c == tx.in
               d == Other(c)
               D == Dead(tx)
           IN  /\ c \in Side /\ d \in Side
               /\ D \subseteq OpenOn(c)
               /\ accounted(tx.pool, real)[c] = accounted(pool, real)[c] + SumOf(Coll, D)
               /\ accounted(tx.pool, real)[d] = accounted(pool, real)[d] - SumOf(Prin, D)
               /\ swappable(tx.pool, real, d) = swappable(pool, real, d)
  <1> DEFINE c == tx.in
             d == Other(c)
             D == Dead(tx)
             p == tx.pool
             uc == SumOf(Coll, D)
             up == SumOf(Prin, D)
  <1>1. /\ c \in Side /\ d \in Side /\ d # c /\ D \subseteq OpenOn(c)
        /\ uc \in Nat /\ up \in Nat
        /\ p.total_collateral = [pool.total_collateral EXCEPT ![c] = @ - uc]
        /\ p.total_debt = [pool.total_debt EXCEPT ![d] = @ - up]
        /\ p.protocol_fees = pool.protocol_fees
    BY SoldTotals
  <1>2. /\ p \in PoolType /\ pool \in PoolType /\ real \in [Side -> Nat]
        /\ Covers(p, real) /\ Covers(pool, real)
    BY DEF SafeInv, TypeOK, SwapOK, TxType, PoolOK
  <1>3. ASSUME NEW s \in Side
        PROVE  /\ accounted(p, real)[s] =
                     real[s] - p.total_collateral[s] - p.protocol_fees[s] + p.total_debt[s]
               /\ accounted(pool, real)[s] =
                     real[s] - pool.total_collateral[s] - pool.protocol_fees[s]
                     + pool.total_debt[s]
               /\ real[s] \in Nat /\ pool.total_collateral[s] \in Nat
               /\ pool.protocol_fees[s] \in Nat /\ pool.total_debt[s] \in Nat
    BY <1>2, AccountedType DEF PoolType
  <1>4. /\ pool.total_collateral \in [Side -> Nat] /\ pool.total_debt \in [Side -> Nat]
    BY <1>2 DEF PoolType
  <1> HIDE DEF uc, up, c, d, p
  <1>5. /\ p.total_collateral[c] = pool.total_collateral[c] - uc
        /\ p.total_collateral[d] = pool.total_collateral[d]
        /\ p.total_debt[d] = pool.total_debt[d] - up
        /\ p.total_debt[c] = pool.total_debt[c]
    BY <1>1, <1>4
  <1>6. accounted(p, real)[c] = accounted(pool, real)[c] + uc
    <2>1. /\ accounted(p, real)[c] =
                real[c] - p.total_collateral[c] - p.protocol_fees[c] + p.total_debt[c]
          /\ accounted(pool, real)[c] =
                real[c] - pool.total_collateral[c] - pool.protocol_fees[c]
                + pool.total_debt[c]
          /\ real[c] \in Nat /\ pool.total_collateral[c] \in Nat
          /\ pool.protocol_fees[c] \in Nat /\ pool.total_debt[c] \in Nat
      BY <1>1, <1>3
    <2> QED
      BY <2>1, <1>1, <1>5
  <1>7. accounted(p, real)[d] = accounted(pool, real)[d] - up
    <2>1. /\ accounted(p, real)[d] =
                real[d] - p.total_collateral[d] - p.protocol_fees[d] + p.total_debt[d]
          /\ accounted(pool, real)[d] =
                real[d] - pool.total_collateral[d] - pool.protocol_fees[d]
                + pool.total_debt[d]
          /\ real[d] \in Nat /\ pool.total_collateral[d] \in Nat
          /\ pool.protocol_fees[d] \in Nat /\ pool.total_debt[d] \in Nat
      BY <1>1, <1>3
    <2> QED
      BY <2>1, <1>1, <1>5
  <1>8. swappable(p, real, d) = swappable(pool, real, d)
    BY <1>1, <1>5 DEF swappable
  <1> QED
    BY <1>1, <1>6, <1>7, <1>8 DEF c, d, p, uc, up

\* A settling swap is a trade that sells the loans it has taken.
LEMMA TradeStep ==
    ASSUME SafeInv, SafeInv', IndexInv, Agrees, Agrees', CommitSwap
    PROVE  /\ tx.in \in Ledger!Side
           /\ Dead(tx) \in SUBSET Ledger!Secured(tx.in)
           /\ Ledger!Trade(tx.in, Dead(tx))
  <1> DEFINE c == tx.in
             d == Other(c)
             D == Dead(tx)
             A == accounted(tx.pool, real)
             fee == protocol_portion(tx.amount)
             L == [y \in LoanId |-> LedgerLoan(loan[y])]
  <1>0. CommitFacts
    BY CommitEffect
  <1>1. /\ tx # IdleTx /\ TypeOK /\ tx \in TxType /\ Settles(tx)
        /\ real \in [Side -> Nat] /\ loan \in [LoanId -> LoanType]
        /\ tx.amount \in Nat \ {0} /\ Flight(tx)
        /\ quote(tx) \in Nat /\ quote(tx) # 0
        /\ quote(tx) <= swappable(tx.pool, real, d)
        /\ pool'.protocol_fees = [tx.pool.protocol_fees EXCEPT ![c] = @ + fee]
        /\ loan' = [l \in LoanId |-> IF l \in D THEN tombstone(loan[l]) ELSE loan[l]]
        /\ real' = [real EXCEPT ![c] = @ + tx.amount, ![d] = @ - quote(tx)]
        /\ lp_supply' = lp_supply
    BY <1>0 DEF CommitFacts, SafeInv, TypeOK, TxType, Settles, IndexInv
  <1>2. /\ c \in Side /\ d \in Side /\ D \subseteq OpenOn(c)
        /\ A[c] = accounted(pool, real)[c] + SumOf(Coll, D)
        /\ A[d] = accounted(pool, real)[d] - SumOf(Prin, D)
        /\ swappable(tx.pool, real, d) = swappable(pool, real, d)
    BY <1>1, SoldReserves
  <1>3. d # c /\ ((c = "A" /\ d = "B") \/ (c = "B" /\ d = "A"))
    BY <1>2 DEF Side, Other
  <1>4. Ledger!Secured(c) = OpenOn(c) /\ D \subseteq Opens /\ D \subseteq LoanId
    BY <1>1, <1>2, LedgerSecured DEF OpenOn, Opens
  <1>5. L' = [l \in LoanId |-> IF l \in D THEN Ledger!Dead ELSE L[l]]
    <2>1. ASSUME NEW l \in LoanId
          PROVE  LedgerLoan(tombstone(loan[l])) = Ledger!Dead
      <3>1. tombstone(loan[l]).status = "liquidated"
        BY <1>1 DEF tombstone, LoanType
      <3> QED
        BY <3>1 DEF LedgerLoan, Ledger!Dead
    <2>2. \A l \in LoanId : L'[l] = IF l \in D THEN Ledger!Dead ELSE L[l]
      BY <1>1, <2>1
    <2> QED
      BY <2>2
  <1>6. /\ fee \in Nat /\ fee <= tx.amount
        /\ pool'.protocol_fees[d] = pool.protocol_fees[d]
        /\ pool'.protocol_fees[c] = pool.protocol_fees[c] + fee
        /\ pool.protocol_fees[c] \in Nat
    <2>1. fee \in Nat /\ fee <= tx.amount
      BY <1>1, ProtocolPortion
    <2>2. tx.pool.protocol_fees = pool.protocol_fees /\ pool.protocol_fees \in [Side -> Nat]
      BY <1>1 DEF Flight, TypeOK, PoolType
    <2> HIDE DEF fee
    <2> QED
      BY <1>1, <1>2, <1>3, <2>1, <2>2
  <1>7. [Ledger!Claims EXCEPT ![c] = @ + Ledger!Collateral(D),
                              ![d] = @ - Ledger!Principal(D)] = A
    <2>1. Ledger!Collateral(D) = SumOf(Coll, D) /\ Ledger!Principal(D) = SumOf(Prin, D)
      BY <1>1, <1>4, LedgerCollateral, LedgerPrincipal
    <2> DEFINE acc == accounted(pool, real)
    <2>2. /\ Ledger!Claims = acc
          /\ A[c] = acc[c] + Ledger!Collateral(D)
          /\ A[d] = acc[d] - Ledger!Principal(D)
      BY <1>2, <2>1 DEF Agrees
    <2>3. acc = [s \in Side |-> acc[s]] /\ A = [s \in Side |-> A[s]]
      BY DEF accounted
    <2>4. \A s \in Side : s = c \/ s = d
      BY <1>2, SideFacts
    <2> HIDE DEF acc, A, c, d, D
    <2> QED
      BY <1>2, <1>3, <2>2, <2>3, <2>4
  <1>8. Ledger!Claims'["A"] * Ledger!Claims'["B"] >= A["A"] * A["B"]
    <2>1. Product(accounted(pool', real')) >= Product(A)
      BY ProductNext
    <2>2. Ledger!Claims' = accounted(pool', real')
      BY DEF Agrees
    <2> QED
      BY <2>1, <2>2 DEF Product
  <1>9. ASSUME NEW l \in Ledger!Secured(c) \ D
        PROVE  ~ Ledger!Underwater(L[l])'
    <2>1. l \in LoanId /\ is_open(l) /\ loan[l].side = c /\ l \notin D
      BY <1>4 DEF OpenOn
    <2>2. ~ is_liquidatable(c, loan[l].trigger, post_swap_price(tx))
      BY <2>1, LeftUntriggered
    <2>3. loan[l].trigger = recompute_trigger(c, loan[l].collateral, loan[l].principal)
      BY <2>1 DEF IndexInv, LoansOK, LoanOK
    <2>4. /\ L'[l].side = c /\ L'[l].collateral = loan[l].collateral
          /\ L'[l].principal = loan[l].principal
      BY <1>1, <1>5, <2>1, LedgerLoans
    <2>5. Ledger!Price' = post_swap_price(tx)
      <3>1. Ledger!Price' = spot_price(pool', real')
        BY DEF Agrees
      <3> QED
        BY <3>1, SettledReserves DEF spot_price, post_swap_price
    <2> HIDE DEF c
    <2>6. ~ is_liquidatable(L'[l].side,
               recompute_trigger(L'[l].side, L'[l].collateral, L'[l].principal),
               Ledger!Price')
      BY <2>2, <2>3, <2>4, <2>5
    <2> HIDE DEF L
    <2> QED
      BY <2>6 DEF Ledger!Underwater, Ledger!is_liquidatable, is_liquidatable,
                  Ledger!recompute_trigger, recompute_trigger
  <1>10. /\ real'[c] > real[c] /\ real'[d] < real[d]
         /\ real[d] - real'[d] <= Ledger!Free(d)
         /\ pool'.protocol_fees[c] - pool.protocol_fees[c] <= real'[c] - real[c]
         /\ pool.protocol_fees[c] <= pool'.protocol_fees[c]
    <2>1. quote(tx) <= Ledger!Free(d)
      BY <1>1, <1>2 DEF Agrees
    <2>2. /\ real'[c] = real[c] + tx.amount /\ real'[d] = real[d] - quote(tx)
          /\ real[c] \in Nat /\ real[d] \in Nat
      BY <1>1, <1>2, <1>3
    <2> HIDE DEF c, d, fee
    <2>3. real[d] - real'[d] = quote(tx)
      BY <1>1, <2>2
    <2> QED
      BY <1>1, <1>6, <2>1, <2>2, <2>3
  <1>11. Ledger!Other(c) = d
    BY LedgerSides
  <1>12. Ledger!Trade(c, D)
    <2> HIDE DEF c, d, D, A
    <2> QED
      BY <1>1, <1>5, <1>6, <1>7, <1>8, <1>9, <1>10, <1>11 DEF Ledger!Trade
  <1> QED
    BY <1>2, <1>4, <1>12, LedgerSides


LEMMA ReclaimStep ==
    ASSUME SafeInv, NEW l \in LoanId, ClaimLiquidatedRent(l)
    PROVE  Ledger!Reclaim(l)
  <1> DEFINE L == [y \in LoanId |-> LedgerLoan(loan[y])]
  <1>1. /\ loan \in [LoanId -> LoanType] /\ loan[l].status = "liquidated"
        /\ loan' = [loan EXCEPT ![l] = NoLoan]
        /\ UNCHANGED <<real, pool, lp_supply>>
    BY DEF SafeInv, TypeOK, ClaimLiquidatedRent
  <1>2. L[l] = Ledger!Dead
    BY <1>1 DEF LedgerLoan, Ledger!Dead
  <1>3. LedgerLoan(NoLoan) = Ledger!Absent
    BY DEF LedgerLoan, NoLoan, Ledger!Absent
  <1>4. L' = [L EXCEPT ![l] = Ledger!Absent]
    <2>1. \A y \in LoanId : L'[y] = IF y = l THEN Ledger!Absent ELSE L[y]
      BY <1>1, <1>3
    <2> QED
      BY <2>1
  <1>5. UNCHANGED <<real, pool.protocol_fees, lp_supply>>
    BY <1>1
  <1> HIDE DEF L
  <1> QED
    BY <1>2, <1>4, <1>5 DEF Ledger!Reclaim, L

LEMMA FeesStep ==
    ASSUME SafeInv, ClaimProtocolFees
    PROVE  Ledger!PayFees
  <1>1. /\ pool \in PoolType
        /\ real' = [s \in Side |-> real[s] - pool.protocol_fees[s]]
        /\ pool' = [pool EXCEPT !.protocol_fees = Zero]
        /\ UNCHANGED <<loan, lp_supply>>
    BY DEF SafeInv, TypeOK, ClaimProtocolFees
  <1>2. pool'.protocol_fees = [s \in Side |-> 0]
    BY <1>1 DEF PoolType, Zero
  <1>3. UNCHANGED <<[l \in LoanId |-> LedgerLoan(loan[l])], lp_supply>>
    BY <1>1
  <1> QED
    BY <1>1, <1>2, <1>3, LedgerSides DEF Ledger!PayFees

\* A gift to a vault and a burn of LP tokens.
LEMMA GiveStep ==
    ASSUME SafeInv,
           \/ \E s \in Side, n \in Nat : Donate(s, n)
           \/ \E n \in Nat : BurnLp(n)
    PROVE  Ledger!Give
  <1>1. real \in [Side -> Nat] /\ lp_supply \in Nat
    BY SystemAssumption DEF SafeInv, TypeOK
  <1>2. /\ \A s \in Side : real'[s] >= real[s]
        /\ lp_supply' <= lp_supply /\ UNCHANGED <<pool, loan>>
    BY <1>1 DEF Donate, BurnLp
  <1>3. UNCHANGED <<pool.protocol_fees, [l \in LoanId |-> LedgerLoan(loan[l])]>>
    BY <1>2
  <1> QED
    BY <1>2, <1>3, LedgerSides DEF Ledger!Give

\* A swap in flight or reverted and the clock are no steps of the ledger.
LEMMA SilentStep ==
    ASSUME UNCHANGED <<pool, real, lp_supply, loan>>
    PROVE  UNCHANGED Ledger!vars
  <1>1. UNCHANGED <<real, pool.protocol_fees,
                    [l \in LoanId |-> LedgerLoan(loan[l])], lp_supply>>
    OBVIOUS
  <1> QED
    BY <1>1 DEF Ledger!vars

-------------------------------------------------------------------------------
(* The refinement.                                                             *)

LEMMA LedgerInit == Init => Ledger!Init
  <1> SUFFICES ASSUME Init PROVE Ledger!Init
    OBVIOUS
  <1>1. /\ real = [s \in Side |-> 0] /\ lp_supply = 0
        /\ pool.protocol_fees = [s \in Side |-> 0]
        /\ loan = [l \in LoanId |-> NoLoan]
    BY DEF Init, InitialPool, Zero
  <1>2. LedgerLoan(NoLoan) = Ledger!Absent
    BY DEF LedgerLoan, NoLoan, Ledger!Absent
  <1>3. [l \in LoanId |-> LedgerLoan(loan[l])] = [l \in LoanId |-> Ledger!Absent]
    BY <1>1, <1>2
  <1> QED
    BY <1>1, <1>3, LedgerSides DEF Ledger!Init

LEMMA LedgerStep ==
    SafeInv /\ SafeInv' /\ IndexInv /\ IndexInv' /\ [Next]_vars
       => [Ledger!Next]_(Ledger!vars)
  <1> SUFFICES ASSUME SafeInv, SafeInv', IndexInv, IndexInv', [Next]_vars
               PROVE  Ledger!Next \/ UNCHANGED Ledger!vars
    OBVIOUS
  <1>0. Agrees /\ Agrees'
    BY LedgerNow, LedgerNext
  <1>1. CASE \E d \in Deposits, min \in Mins : AddLiquidity(d[1], d[2], min)
    <2>1. PICK d \in Deposits, min \in Mins : AddLiquidity(d[1], d[2], min)
      BY <1>1
    <2>2. d[1] \in Nat /\ d[2] \in Nat /\ min \in Nat
      BY InputsAssumption
    <2>3. Ledger!Deposit
      BY <1>0, <2>1, <2>2, DepositStep
    <2> QED
      BY <2>3 DEF Ledger!Next
  <1>2. CASE \E x \in Burns, a, b \in Mins : RemoveLiquidity(x, a, b)
    <2>1. PICK x \in Burns, a \in Mins, b \in Mins : RemoveLiquidity(x, a, b)
      BY <1>2
    <2>2. x \in Nat /\ a \in Nat /\ b \in Nat
      BY InputsAssumption
    <2>3. Ledger!Withdraw
      BY <1>0, <2>1, <2>2, WithdrawStep
    <2> QED
      BY <2>3 DEF Ledger!Next
  <1>3. CASE \E l \in LoanId, k \in LoanTerms : OpenLoan(l, k[1], k[2], k[3])
    <2>1. PICK l \in LoanId, k \in LoanTerms : OpenLoan(l, k[1], k[2], k[3])
      BY <1>3
    <2>2. k[1] \in Side /\ k[2] \in Nat /\ k[3] \in Nat
      BY InputsAssumption
    <2>3. Ledger!Borrow(l)
      BY <1>0, <2>1, <2>2, BorrowStep
    <2> QED
      BY <2>3 DEF Ledger!Next
  <1>4. CASE \E l \in LoanId : RepayLoan(l)
    <2>1. PICK l \in LoanId : RepayLoan(l)
      BY <1>4
    <2>2. Ledger!Repay(l)
      BY <2>1, RepayStep
    <2> QED
      BY <2>2 DEF Ledger!Next
  <1>5. CASE \E l \in LoanId : ClaimLiquidatedRent(l)
    <2>1. PICK l \in LoanId : ClaimLiquidatedRent(l)
      BY <1>5
    <2>2. Ledger!Reclaim(l)
      BY <2>1, ReclaimStep
    <2> QED
      BY <2>2 DEF Ledger!Next
  <1>6. CASE ClaimProtocolFees
    BY <1>6, FeesStep DEF Ledger!Next
  <1>7. CASE CommitSwap
    <2>1. /\ tx.in \in Ledger!Side /\ Dead(tx) \in SUBSET Ledger!Secured(tx.in)
          /\ Ledger!Trade(tx.in, Dead(tx))
      BY <1>0, <1>7, TradeStep
    <2> QED
      BY <2>1 DEF Ledger!Next
  <1>8. CASE \/ \E k \in Donations : Donate(k[1], k[2])
             \/ \E x \in DirectBurns : BurnLp(x)
    <2>1. /\ \A k \in Donations : k[1] \in Side /\ k[2] \in Nat
          /\ DirectBurns \subseteq Nat
      BY InputsAssumption
    <2>2. Ledger!Give
      BY <1>8, <2>1, GiveStep
    <2> QED
      BY <2>2 DEF Ledger!Next
  <1>9. CASE \/ \E k \in SwapIns, min \in Mins, boundary \in Boundaries :
                   \E tail \in Tails(k[1]) :
                      BeginSwap(k[1], k[2], min, boundary, tail)
             \/ LiquidateNext
             \/ AbortSwap
             \/ Tick
             \/ UNCHANGED vars
    <2>1. UNCHANGED <<pool, real, lp_supply, loan>>
      BY <1>9 DEF BeginSwap, LiquidateNext, AbortSwap, Tick, vars
    <2> QED
      BY <2>1, SilentStep
  <1> QED
    BY <1>1, <1>2, <1>3, <1>4, <1>5, <1>6, <1>7, <1>8, <1>9 DEF Next

\* The pool implements the ledger: whatever the order of instructions, what a
\* depositor, a borrower or a trader gets from the handlers is what the ledger
\* promises, although they compute it from running totals, bands and bitmaps
\* and spread a swap over its liquidation loop.
THEOREM PoolImplementsLedger == Spec => ImplementsLedger
  BY LedgerInit, LedgerStep, SafeAlways, IndexAlways, PTL
     DEF Spec, ImplementsLedger, Ledger!Spec

-------------------------------------------------------------------------------
(* Folding the events of a transaction into a view.                            *)

\* it is the recursive function behind FoldLeft(Apply, v, es).
Runs(es, v, it) ==
    it = [s \in SUBSET (DOMAIN es) |->
            IF s = {} THEN v ELSE Apply(it[s \ {Max(s)}], es[Max(s)])]

LEMMA FoldDef ==
    ASSUME NEW es, NEW v
    PROVE  FoldLeft(Apply, v, es) = (CHOOSE it : Runs(es, v, it))[DOMAIN es]
  BY Zenon DEF FoldLeft, MapThenFoldSet, Runs

\* The largest element of s is where the shortest interval that covers s ends.
LEMMA MaxIn ==
    ASSUME NEW n \in Nat, NEW s \in SUBSET (1..n), s # {}
    PROVE  Max(s) \in s /\ \A y \in s : y <= Max(s)
  <1> DEFINE F == {X \in SUBSET (1..n) : s \subseteq X /\ \E k \in Nat : X = 1..k}
  <1>1. PICK X \in F : \A Y \in SUBSET X : Y # X => Y \notin F
    <2> DEFINE I == 1..n
    <2>1. F \in SUBSET (SUBSET I)
      OBVIOUS
    <2>2. F # {}
      <3>1. 1..n \in F
        OBVIOUS
      <3> QED
        BY <3>1
    <2>3. IsFiniteSet(I)
      BY FirstNaturals
    <2> HIDE DEF F, I
    <2> QED
      BY <2>1, <2>2, <2>3, Smallest
  <1>2. PICK k \in Nat : X = 1..k
    OBVIOUS
  <1>3. s \subseteq 1..k /\ X \in SUBSET (1..n)
    BY <1>2
  <1>4. k \in s
    <2> SUFFICES ASSUME k \notin s PROVE FALSE
      OBVIOUS
    <2>1. k - 1 \in Nat
      <3>1. PICK y \in s : TRUE
        OBVIOUS
      <3>2. 1 <= y /\ y <= k /\ y \in Nat
        BY <1>3, <3>1
      <3> QED
        BY <3>2
    <2>2. s \subseteq 1..(k - 1) /\ 1..(k - 1) \in SUBSET X /\ 1..(k - 1) # X
      <3>1. s \subseteq 1..(k - 1)
        BY <1>3, <2>1
      <3>2. k \in 1..k /\ k \notin 1..(k - 1)
        BY <2>1
      <3> QED
        BY <1>2, <2>1, <3>1, <3>2
    <2>3. 1..(k - 1) \in F
      BY <1>3, <2>1, <2>2
    <2> HIDE DEF F
    <2> QED
      BY <1>1, <2>2, <2>3
  <1>5. \E x \in s : \A y \in s : x >= y
    BY <1>3, <1>4
  <1>6. Max(s) \in s /\ \A y \in s : Max(s) >= y
    BY <1>5, Zenon DEF Max
  <1> QED
    BY <1>6

\* A function that meets the recursion is what the fold computes.
LEMMA FoldIs ==
    ASSUME NEW es, NEW v, NEW n \in Nat, DOMAIN es = 1..n, NEW w, Runs(es, v, w)
    PROVE  FoldLeft(Apply, v, es) = w[1..n]
  <1> DEFINE g == CHOOSE it : Runs(es, v, it)
  <1>1. Runs(es, v, g)
    BY Zenon
  <1>2. FoldLeft(Apply, v, es) = g[1..n]
    BY FoldDef
  <1> HIDE DEF g
  <1>3. ASSUME NEW it, Runs(es, v, it), NEW s \in SUBSET (1..n)
        PROVE  it[s] = IF s = {} THEN v ELSE Apply(it[s \ {Max(s)}], es[Max(s)])
    BY <1>3 DEF Runs
  <1> DEFINE Bad == {s \in SUBSET (1..n) : g[s] # w[s]}
  <1>4. Bad = {}
    <2> SUFFICES ASSUME Bad # {} PROVE FALSE
      OBVIOUS
    <2>1. PICK X \in Bad : \A Y \in SUBSET X : Y # X => Y \notin Bad
      <3>1. Bad \in SUBSET (SUBSET (1..n)) /\ IsFiniteSet(1..n)
        BY FirstNaturals
      <3> HIDE DEF Bad
      <3> QED
        BY <3>1, Smallest
    <2>2. X \in SUBSET (1..n) /\ g[X] # w[X]
      OBVIOUS
    <2>3. X # {}
      BY <1>1, <1>3, <2>2
    <2> DEFINE Y == X \ {Max(X)}
    <2>4. Y \in SUBSET X /\ Y # X
      BY <2>2, <2>3, MaxIn
    <2>5. g[Y] = w[Y]
      BY <2>1, <2>4
    <2>6. g[X] = Apply(g[Y], es[Max(X)]) /\ w[X] = Apply(w[Y], es[Max(X)])
      BY <1>1, <1>3, <2>2, <2>3
    <2> QED
      BY <2>2, <2>5, <2>6
  <1> QED
    BY <1>2, <1>4

\* A transaction with one event.
LEMMA EmitOne ==
    ASSUME NEW e, Emit(<<e>>)
    PROVE  view' = Apply(view, e)
  <1> DEFINE es == <<e>>
             w == [s \in SUBSET (1..1) |-> IF s = {} THEN view ELSE Apply(view, e)]
  <1>1. DOMAIN es = 1..1 /\ es[1] = e
    OBVIOUS
  <1>2. ASSUME NEW s \in SUBSET (1..1), s # {}
        PROVE  Max(s) = 1 /\ s \ {Max(s)} = {}
    <2>1. Max(s) \in s /\ 1 \in Nat
      BY <1>2, MaxIn
    <2>2. \A y \in s : y = 1
      OBVIOUS
    <2> QED
      BY <2>1, <2>2
  <1>3. w[{}] = view
    OBVIOUS
  <1> HIDE DEF es
  <1>4. \A s \in SUBSET (1..1) :
           w[s] = IF s = {} THEN view ELSE Apply(w[s \ {Max(s)}], es[Max(s)])
    BY <1>1, <1>2, <1>3
  <1>5. w = [s \in SUBSET (1..1) |-> w[s]]
    OBVIOUS
  <1> HIDE DEF w
  <1>6. Runs(es, view, w)
    BY <1>1, <1>4, <1>5 DEF Runs
  <1>7. FoldLeft(Apply, view, es) = w[1..1]
    BY <1>1, <1>6, FoldIs
  <1>8. w[1..1] = Apply(view, e)
    BY DEF w
  <1> QED
    BY <1>7, <1>8 DEF Emit, es

-------------------------------------------------------------------------------
(* What each event does to a view.                                             *)

View(r, lp, f, td, tc, n, pos) ==
    [vault |-> r, lp |-> lp, fees |-> f, total_debt |-> td, total_collateral |-> tc,
     open_loans |-> n, position |-> pos]

-------------------------------------------------------------------------------
(* The view of an indexer that has missed nothing.                             *)

Positions == [l \in LoanId |-> PositionOf(loan[l])]

TrueView ==
    View(real, lp_supply, pool.protocol_fees, pool.total_debt, pool.total_collateral,
         pool.open_loans, Positions)

\* An instruction that moves tokens and LP tokens and touches nothing else.
Moves ==
    /\ pool'.protocol_fees = pool.protocol_fees
    /\ pool'.total_debt = pool.total_debt
    /\ pool'.total_collateral = pool.total_collateral
    /\ pool'.open_loans = pool.open_loans
    /\ loan' = loan

LEMMA MovedView ==
    ASSUME Moves
    PROVE  TrueView' = View(real', lp_supply', pool.protocol_fees, pool.total_debt,
                            pool.total_collateral, pool.open_loans, Positions)
  <1>1. Positions' = Positions
    BY DEF Moves, Positions
  <1> QED
    BY <1>1 DEF Moves, TrueView

LEMMA LiquidityMoves ==
    ASSUME SafeInv, \/ \E a, b, m : AddLiquidity(a, b, m)
                    \/ \E x, a, b : RemoveLiquidity(x, a, b)
    PROVE  Moves
  <1> DEFINE p == bump_indexes(pool, real, slot)
  <1>0. pool \in PoolType /\ real \in [Side -> Nat] /\ slot \in Nat
    BY SystemAssumption DEF SafeInv, TypeOK
  <1>1. /\ p.total_debt = pool.total_debt /\ p.total_collateral = pool.total_collateral
        /\ p.protocol_fees = pool.protocol_fees /\ p.open_loans = pool.open_loans
    BY <1>0, BumpIndexes DEF SafeInv
  <1>2. pool' = p /\ loan' = loan
    BY DEF AddLiquidity, RemoveLiquidity
  <1> HIDE DEF p
  <1> QED
    BY <1>1, <1>2 DEF Moves

LEMMA AddedView ==
    ASSUME SafeInv, NEW a, NEW b, NEW min, AddLiquidity(a, b, min),
           view = TrueView, Emit(<<LiquidityAdded(a, b)>>)
    PROVE  view' = TrueView'
  <1> DEFINE e == LiquidityAdded(a, b)
             d == derive_deposit(a, b, accounted(bump_indexes(pool, real, slot), real))
  <1>1. view' = Apply(TrueView, e)
    BY EmitOne
  <1>2. e.event = "LiquidityAdded" /\ e.amount_in = d.in /\ e.lp_minted = d.lp
    BY DEF LiquidityAdded
  <1>3. real' = [s \in Side |-> real[s] + d.in[s]] /\ lp_supply' = lp_supply + d.lp
    BY DEF AddLiquidity
  <1> HIDE DEF e, d
  <1>4. Apply(TrueView, e) =
          View([s \in Side |-> real[s] + d.in[s]], lp_supply + d.lp,
               pool.protocol_fees, pool.total_debt, pool.total_collateral,
               pool.open_loans, Positions)
    BY <1>2 DEF Apply, View, TrueView
  <1>5. Moves
    BY LiquidityMoves
  <1> QED
    BY <1>1, <1>3, <1>4, <1>5, MovedView

LEMMA RemovedView ==
    ASSUME SafeInv, NEW x, NEW a, NEW b, RemoveLiquidity(x, a, b),
           view = TrueView, Emit(<<LiquidityRemoved(x)>>)
    PROVE  view' = TrueView'
  <1> DEFINE e   == LiquidityRemoved(x)
             acc == accounted(bump_indexes(pool, real, slot), real)
             out == withdrawal_amounts(x, acc, lp_supply)
  <1>1. view' = Apply(TrueView, e)
    BY EmitOne
  <1>2. e.event = "LiquidityRemoved" /\ e.amount_out = out /\ e.lp_burned = x
    BY DEF LiquidityRemoved
  <1>3. real' = [s \in Side |-> real[s] - out[s]] /\ lp_supply' = lp_supply - x
    BY DEF RemoveLiquidity
  <1> HIDE DEF e, out
  <1>4. Apply(TrueView, e) =
          View([s \in Side |-> real[s] - out[s]], lp_supply - x,
               pool.protocol_fees, pool.total_debt, pool.total_collateral,
               pool.open_loans, Positions)
    BY <1>2 DEF Apply, View, TrueView
  <1>5. Moves
    BY LiquidityMoves
  <1> QED
    BY <1>1, <1>3, <1>4, <1>5, MovedView

\* A transfer to a vault or a burn of LP tokens that bypasses the program.
LEMMA GiftView ==
    ASSUME NEW given \in [Side -> Nat], NEW burned,
           real' = [s \in Side |-> real[s] + given[s]],
           lp_supply' = lp_supply - burned, UNCHANGED <<pool, loan>>,
           view = TrueView, Emit(<<GiftSeen(given, burned)>>)
    PROVE  view' = TrueView'
  <1> DEFINE e == GiftSeen(given, burned)
  <1>1. view' = Apply(TrueView, e)
    BY EmitOne
  <1>2. e.event = "Gift" /\ e.amount = given /\ e.lp_burned = burned
    BY DEF GiftSeen
  <1> HIDE DEF e
  <1>3. Apply(TrueView, e) =
          View([s \in Side |-> real[s] + given[s]], lp_supply - burned,
               pool.protocol_fees, pool.total_debt, pool.total_collateral,
               pool.open_loans, Positions)
    BY <1>2 DEF Apply, View, TrueView
  <1>4. Moves
    BY DEF Moves
  <1> QED
    BY <1>1, <1>3, <1>4, MovedView

LEMMA ClaimedView ==
    ASSUME SafeInv, SafeInv', ClaimProtocolFees,
           view = TrueView, Emit(<<ProtocolFeesClaimed>>)
    PROVE  view' = TrueView'
  <1> DEFINE e == ProtocolFeesClaimed
             f == pool.protocol_fees
  <1>1. view' = Apply(TrueView, e)
    BY EmitOne
  <1>2. e.event = "ProtocolFeesClaimed" /\ e.amount = f
    BY DEF ProtocolFeesClaimed
  <1> HIDE DEF e
  <1>3. Apply(TrueView, e) =
          View([s \in Side |-> real[s] - f[s]], lp_supply, [s \in Side |-> f[s] - f[s]],
               pool.total_debt, pool.total_collateral, pool.open_loans, Positions)
    BY <1>2 DEF Apply, View, TrueView
  <1>4. /\ pool \in PoolType /\ f \in [Side -> Nat]
        /\ real' = [s \in Side |-> real[s] - f[s]]
        /\ pool' = [pool EXCEPT !.protocol_fees = Zero] /\ UNCHANGED <<loan, lp_supply>>
    BY DEF SafeInv, TypeOK, PoolType, ClaimProtocolFees
  <1>5. /\ pool'.protocol_fees = Zero
        /\ pool'.total_debt = pool.total_debt
        /\ pool'.total_collateral = pool.total_collateral
        /\ pool'.open_loans = pool.open_loans
    BY <1>4 DEF PoolType
  <1>6. [s \in Side |-> f[s] - f[s]] = Zero
    <2>1. \A s \in Side : f[s] - f[s] = 0
      BY <1>4
    <2> QED
      BY <2>1 DEF Zero
  <1>7. Positions' = Positions
    BY <1>4 DEF Positions
  <1> HIDE DEF f
  <1> QED
    BY <1>1, <1>3, <1>4, <1>5, <1>6, <1>7 DEF TrueView

\* One loan account changes.
LEMMA PositionSet ==
    ASSUME loan \in [LoanId -> LoanType], NEW l \in LoanId, NEW y,
           loan' = [loan EXCEPT ![l] = y]
    PROVE  Positions' = [Positions EXCEPT ![l] = PositionOf(y)]
  <1>1. \A k \in LoanId : loan'[k] = IF k = l THEN y ELSE loan[k]
    OBVIOUS
  <1>2. \A k \in LoanId : Positions'[k] = IF k = l THEN PositionOf(y) ELSE Positions[k]
    BY <1>1 DEF Positions
  <1>3. /\ Positions' = [k \in LoanId |-> Positions'[k]]
        /\ Positions = [k \in LoanId |-> Positions[k]]
    BY DEF Positions
  <1> QED
    BY <1>2, <1>3

LEMMA NoPositionOf == PositionOf(NoLoan) = NoPosition
  BY DEF PositionOf, NoLoan, NoPosition

LEMMA ReclaimedView ==
    ASSUME SafeInv, NEW l \in LoanId, ClaimLiquidatedRent(l),
           view = TrueView, Emit(<<LiquidatedRentClaimed(l)>>)
    PROVE  view' = TrueView'
  <1> DEFINE e == LiquidatedRentClaimed(l)
  <1>1. view' = Apply(TrueView, e)
    BY EmitOne
  <1>2. e.event = "LiquidatedRentClaimed" /\ e.loan = l
    BY DEF LiquidatedRentClaimed
  <1> HIDE DEF e
  <1>3. Apply(TrueView, e) =
          View(real, lp_supply, pool.protocol_fees, pool.total_debt,
               pool.total_collateral, pool.open_loans,
               [Positions EXCEPT ![l] = NoPosition])
    BY <1>2 DEF Apply, View, TrueView
  <1>4. /\ loan \in [LoanId -> LoanType] /\ loan' = [loan EXCEPT ![l] = NoLoan]
        /\ UNCHANGED <<real, pool, lp_supply>>
    BY DEF SafeInv, TypeOK, ClaimLiquidatedRent
  <1>5. Positions' = [Positions EXCEPT ![l] = NoPosition]
    BY <1>4, PositionSet, NoPositionOf
  <1> QED
    BY <1>1, <1>3, <1>4, <1>5 DEF TrueView

LEMMA OpenedView ==
    ASSUME SafeInv, NEW l \in LoanId, NEW c \in Side, NEW k \in Nat, NEW m \in Nat,
           OpenLoan(l, c, k, m), view = TrueView, Emit(<<LoanOpened(l, c, k, m)>>)
    PROVE  view' = TrueView'
  <1> DEFINE e == LoanOpened(l, c, k, m)
             d == Other(c)
             x == NewLoan(c, k, m, pool'.borrow_index[d])
             pos == [status |-> "open", side |-> c, collateral |-> k, debt |-> m,
                     band_id |-> x.band_id, trigger |-> x.trigger]
  <1>1. view' = Apply(TrueView, e)
    BY EmitOne
  <1>2. /\ loan \in [LoanId -> LoanType] /\ loan' = [loan EXCEPT ![l] = x]
        /\ pool'.total_collateral = [pool.total_collateral EXCEPT ![c] = @ + k]
        /\ pool'.total_debt = [pool.total_debt EXCEPT ![d] = @ + m]
        /\ pool'.protocol_fees = pool.protocol_fees
        /\ pool'.open_loans = pool.open_loans + 1
        /\ real' = [real EXCEPT ![c] = @ + k, ![d] = @ - m]
        /\ lp_supply' = lp_supply
    <2>1. OpenFacts(l, c, k, m)
      BY OpenEffect
    <2>2. loan \in [LoanId -> LoanType]
      BY DEF SafeInv, TypeOK
    <2> QED
      BY <2>1, <2>2 DEF OpenFacts
  <1> HIDE DEF x
  <1>3. loan'[l] = x
    BY <1>2
  <1>4. /\ e.event = "LoanOpened" /\ e.loan = l /\ e.side = c /\ e.collateral = k
        /\ e.debt = m /\ e.band_id = x.band_id /\ e.trigger = x.trigger
    BY <1>3 DEF LoanOpened
  <1> HIDE DEF e
  <1>5. Apply(TrueView, e) =
          View([real EXCEPT ![c] = @ + k, ![d] = @ - m], lp_supply, pool.protocol_fees,
               [pool.total_debt EXCEPT ![d] = @ + m],
               [pool.total_collateral EXCEPT ![c] = @ + k], pool.open_loans + 1,
               [Positions EXCEPT ![l] = pos])
    <2>1. Apply(TrueView, e) =
            View([real EXCEPT ![e.side] = @ + e.collateral, ![Other(e.side)] = @ - e.debt],
                 lp_supply, pool.protocol_fees,
                 [pool.total_debt EXCEPT ![Other(e.side)] = @ + e.debt],
                 [pool.total_collateral EXCEPT ![e.side] = @ + e.collateral],
                 pool.open_loans + 1,
                 [Positions EXCEPT ![e.loan] =
                    [status |-> "open", side |-> e.side, collateral |-> e.collateral,
                     debt |-> e.debt, band_id |-> e.band_id, trigger |-> e.trigger]])
      BY <1>4 DEF Apply, View, TrueView
    <2>2. [status |-> "open", side |-> e.side, collateral |-> e.collateral,
           debt |-> e.debt, band_id |-> e.band_id, trigger |-> e.trigger] = pos
      BY <1>4
    <2> QED
      BY <1>4, <2>1, <2>2, Zenon
  <1>6. Positions' = [Positions EXCEPT ![l] = pos]
    <2>1. x.status = "open" /\ x.side = c /\ x.collateral = k /\ x.principal = m
      BY DEF x, NewLoan
    <2>2. PositionOf(x) = pos
      BY <2>1 DEF PositionOf
    <2> QED
      BY <1>2, <2>2, PositionSet
  <1> HIDE DEF pos, d
  <1> QED
    BY <1>1, <1>2, <1>5, <1>6 DEF TrueView

LEMMA RepaidView ==
    ASSUME SafeInv, NEW l \in LoanId, RepayLoan(l), view = TrueView, Emit(<<LoanRepaid(l)>>)
    PROVE  view' = TrueView'
  <1> DEFINE e == LoanRepaid(l)
             x == loan[l]
             c == x.side
             d == Other(c)
             o == owed(x, pool')
             pos == Positions[l]
  <1>1. view' = Apply(TrueView, e)
    BY EmitOne
  <1>2. /\ loan \in [LoanId -> LoanType] /\ loan' = [loan EXCEPT ![l] = NoLoan]
        /\ x \in LoanType /\ x.status = "open"
        /\ pool'.total_collateral = [pool.total_collateral EXCEPT ![c] = @ - x.collateral]
        /\ pool'.total_debt = [pool.total_debt EXCEPT ![d] = @ - x.principal]
        /\ pool'.protocol_fees = pool.protocol_fees
        /\ pool'.open_loans = pool.open_loans - 1
        /\ lp_supply' = lp_supply
    BY RepayEffect DEF RepayFacts, SafeInv, TypeOK
  <1>3. real' = [real EXCEPT ![c] = @ - x.collateral, ![d] = @ + o]
    <2> DEFINE p == bump_indexes(pool, real, slot)
    <2>1. p \in PoolType
      <3>1. pool \in PoolType /\ real \in [Side -> Nat] /\ slot \in Nat
        BY SystemAssumption DEF SafeInv, TypeOK
      <3> QED
        BY <3>1, BumpIndexes DEF SafeInv
    <2>2. /\ real' = [real EXCEPT ![d] = @ + owed(x, p), ![c] = @ - x.collateral]
          /\ pool' = [p EXCEPT !.total_collateral[c] = @ - x.collateral,
                               !.total_debt[d] = @ - debt_removed(x, p),
                               !.open_loans = @ - 1,
                               !.band_bitmap[c] =
                                  IF count[c][x.band_id] = 1
                                  THEN @ \ {x.band_id} ELSE @]
      BY DEF RepayLoan
    <2> HIDE DEF p
    <2>3. pool'.borrow_index = p.borrow_index
      BY <2>1, <2>2 DEF PoolType
    <2>4. owed(x, p) = o
      BY <2>3 DEF owed
    <2>5. c \in Side /\ d \in Side /\ c # d /\ real \in [Side -> Nat]
      BY <1>2, SideFacts DEF LoanType, SafeInv, TypeOK
    <2> HIDE DEF o, c, d, x
    <2> QED
      BY <2>2, <2>4, <2>5
  <1>4. pos.side = c /\ pos.collateral = x.collateral
    BY <1>2 DEF Positions, PositionOf
  <1>5. /\ e.event = "LoanRepaid" /\ e.loan = l
        /\ e.debt_principal = x.principal /\ e.total_owed = o
    BY DEF LoanRepaid
  <1> HIDE DEF e, o
  <1>6. Apply(TrueView, e) =
          View([real EXCEPT ![pos.side] = @ - pos.collateral,
                            ![Other(pos.side)] = @ + o],
               lp_supply, pool.protocol_fees,
               [pool.total_debt EXCEPT ![Other(pos.side)] = @ - x.principal],
               [pool.total_collateral EXCEPT ![pos.side] = @ - pos.collateral],
               pool.open_loans - 1, [Positions EXCEPT ![l] = NoPosition])
    <2>1. pos = Positions[e.loan]
      BY <1>5
    <2> HIDE DEF pos
    <2>2. Apply(TrueView, e) =
            View([real EXCEPT ![pos.side] = @ - pos.collateral,
                              ![Other(pos.side)] = @ + e.total_owed],
                 lp_supply, pool.protocol_fees,
                 [pool.total_debt EXCEPT ![Other(pos.side)] = @ - e.debt_principal],
                 [pool.total_collateral EXCEPT ![pos.side] = @ - pos.collateral],
                 pool.open_loans - 1, [Positions EXCEPT ![e.loan] = NoPosition])
      BY <1>5, <2>1 DEF Apply, View, TrueView
    <2> QED
      BY <1>5, <2>2, Zenon
  <1>7. Positions' = [Positions EXCEPT ![l] = NoPosition]
    BY <1>2, PositionSet, NoPositionOf
  <1> HIDE DEF pos, x
  <1> QED
    BY <1>1, <1>2, <1>3, <1>4, <1>6, <1>7 DEF TrueView

-------------------------------------------------------------------------------
(* The events of a swap: one for each loan it takes, in any order, and its own. *)

LEMMA SeqOfSet ==
    ASSUME NEW S, IsFiniteSet(S)
    PROVE  /\ Cardinality(S) \in Nat
           /\ SetToSeq(S) \in [1..Cardinality(S) -> S]
           /\ \A i, j \in 1..Cardinality(S) : SetToSeq(S)[i] = SetToSeq(S)[j] => i = j
           /\ \A x \in S : \E i \in 1..Cardinality(S) : SetToSeq(S)[i] = x
  <1> DEFINE n == Cardinality(S)
             f == SetToSeq(S)
  <1>1. n \in Nat /\ ExistsBijection(1..n, S)
    BY FS_CardinalityType
  <1>2. \E g \in [1..n -> S] : IsInjective(g)
    BY <1>1 DEF ExistsBijection, Bijection, Injection
  <1>3. f \in [1..n -> S] /\ IsInjective(f)
    BY <1>2, Zenon DEF SetToSeq
  <1> HIDE DEF f, n
  <1>4. f \in Injection(1..n, S)
    BY <1>3 DEF Injection
  <1>5. Cardinality(1..n) = n
    BY <1>1, FirstNaturals
  <1>6. f \in Surjection(1..n, S)
    BY <1>4, <1>5, FS_Injection DEF n
  <1> QED
    BY <1>1, <1>3, <1>6 DEF IsInjective, Surjection, f, n

\* The view once the loans in K, collateral on side c, are seen liquidated.
SoldView(c, K) ==
    View(real, lp_supply, pool.protocol_fees,
         [pool.total_debt EXCEPT ![Other(c)] = @ - SumOf(Prin, K)],
         [pool.total_collateral EXCEPT ![c] = @ - SumOf(Coll, K)], pool.open_loans,
         [l \in LoanId |-> IF l \in K THEN [status |-> "liquidated"] ELSE Positions[l]])

LEMMA SoldNone ==
    ASSUME SafeInv, NEW c \in Side
    PROVE  SoldView(c, {}) = TrueView
  <1>1. pool.total_debt \in [Side -> Nat] /\ pool.total_collateral \in [Side -> Nat]
    BY DEF SafeInv, TypeOK, PoolType
  <1>2. SumOf(Prin, {}) = 0 /\ SumOf(Coll, {}) = 0
    BY SumEmpty
  <1>3. Other(c) \in Side
    BY SideFacts
  <1>4. /\ [pool.total_debt EXCEPT ![Other(c)] = @ - SumOf(Prin, {})] = pool.total_debt
        /\ [pool.total_collateral EXCEPT ![c] = @ - SumOf(Coll, {})] = pool.total_collateral
    BY <1>1, <1>2, <1>3
  <1>5. [l \in LoanId |-> IF l \in {} THEN [status |-> "liquidated"] ELSE Positions[l]]
          = Positions
    BY DEF Positions
  <1> QED
    BY <1>4, <1>5 DEF SoldView, TrueView

LEMMA SoldOne ==
    ASSUME SafeInv, NEW c \in Side, NEW K, NEW l, K \subseteq OpenOn(c),
           l \in OpenOn(c), l \notin K
    PROVE  Apply(SoldView(c, K), LoanLiquidated(l)) = SoldView(c, K \cup {l})
  <1> DEFINE e == LoanLiquidated(l)
             d == Other(c)
             td == [pool.total_debt EXCEPT ![d] = @ - SumOf(Prin, K)]
             tc == [pool.total_collateral EXCEPT ![c] = @ - SumOf(Coll, K)]
             gone == [status |-> "liquidated"]
             at(M) == [y \in LoanId |-> IF y \in M THEN gone ELSE Positions[y]]
  <1>1. /\ e.event = "LoanLiquidated" /\ e.loan = l /\ e.side = loan[l].side
        /\ e.collateral = loan[l].collateral /\ e.debt_principal = loan[l].principal
    BY DEF LoanLiquidated
  <1>2. l \in LoanId /\ loan[l].side = c /\ d \in Side
    BY SideFacts DEF OpenOn
  <1>3. /\ pool.total_debt \in [Side -> Nat] /\ pool.total_collateral \in [Side -> Nat]
        /\ \A y \in LoanId : Coll[y] \in Nat /\ Prin[y] \in Nat
    BY DEF SafeInv, TypeOK, PoolType, LoanType, Coll, Prin
  <1>4. K \subseteq LoanId /\ IsFiniteSet(K)
    <2>1. K \subseteq LoanId
      BY DEF OpenOn
    <2> QED
      BY <2>1, FS_Subset, SystemAssumption
  <1>5. /\ SumOf(Coll, K) \in Nat
        /\ SumOf(Coll, K \cup {l}) = SumOf(Coll, K) + e.collateral
        /\ e.collateral \in Nat
    <2>1. \A x \in K \cup {l} : Coll[x] \in Nat
      BY <1>2, <1>3, <1>4
    <2>2. SumOf(Coll, K) \in Nat
      BY <1>4, <2>1, SumNat
    <2>3. SumOf(Coll, K \cup {l}) = SumOf(Coll, K) + Coll[l]
      BY <1>4, <2>1, SumAdd
    <2>4. Coll[l] = e.collateral
      BY <1>1, <1>2 DEF Coll
    <2> QED
      BY <2>1, <2>2, <2>3, <2>4
  <1>6. /\ SumOf(Prin, K) \in Nat
        /\ SumOf(Prin, K \cup {l}) = SumOf(Prin, K) + e.debt_principal
        /\ e.debt_principal \in Nat
    <2>1. \A x \in K \cup {l} : Prin[x] \in Nat
      BY <1>2, <1>3, <1>4
    <2>2. SumOf(Prin, K) \in Nat
      BY <1>4, <2>1, SumNat
    <2>3. SumOf(Prin, K \cup {l}) = SumOf(Prin, K) + Prin[l]
      BY <1>4, <2>1, SumAdd
    <2>4. Prin[l] = e.debt_principal
      BY <1>1, <1>2 DEF Prin
    <2> QED
      BY <2>1, <2>2, <2>3, <2>4
  <1> HIDE DEF e, d
  <1>7. [td EXCEPT ![d] = @ - e.debt_principal]
          = [pool.total_debt EXCEPT ![d] = @ - SumOf(Prin, K \cup {l})]
    BY <1>2, <1>3, <1>6
  <1>8. [tc EXCEPT ![c] = @ - e.collateral]
          = [pool.total_collateral EXCEPT ![c] = @ - SumOf(Coll, K \cup {l})]
    BY <1>3, <1>5
  <1>9. [at(K) EXCEPT ![l] = gone] = at(K \cup {l})
    BY <1>2
  <1>10. e.side = c /\ Other(e.side) = d
    BY <1>1, <1>2 DEF d
  <1>11. SoldView(c, K) =
           View(real, lp_supply, pool.protocol_fees, td, tc, pool.open_loans, at(K))
    BY DEF SoldView, d
  <1>12. SoldView(c, K \cup {l}) =
           View(real, lp_supply, pool.protocol_fees,
                [pool.total_debt EXCEPT ![d] = @ - SumOf(Prin, K \cup {l})],
                [pool.total_collateral EXCEPT ![c] = @ - SumOf(Coll, K \cup {l})],
                pool.open_loans, at(K \cup {l}))
    BY DEF SoldView, d
  <1> DEFINE pos == at(K)
  <1> HIDE DEF td, tc, pos, gone
  <1>13. Apply(View(real, lp_supply, pool.protocol_fees, td, tc, pool.open_loans, pos), e) =
           View(real, lp_supply, pool.protocol_fees,
                [td EXCEPT ![d] = @ - e.debt_principal],
                [tc EXCEPT ![c] = @ - e.collateral],
                pool.open_loans, [pos EXCEPT ![l] = gone])
    BY <1>1, <1>10 DEF Apply, View, gone
  <1> QED
    BY <1>7, <1>8, <1>9, <1>11, <1>12, <1>13 DEF pos, e

\* Whatever the order of the liquidations in the log, the last event is applied
\* to the view with all of them seen.
LEMMA SoldFold ==
    ASSUME SafeInv, NEW c \in Side, NEW D, D \subseteq OpenOn(c), NEW x
    PROVE  FoldLeft(Apply, TrueView, SetToSeq({LoanLiquidated(l) : l \in D}) \o <<x>>)
             = Apply(SoldView(c, D), x)
  <1> DEFINE E == {LoanLiquidated(l) : l \in D}
             f == SetToSeq(E)
             n == Cardinality(E)
             es == f \o <<x>>
             Of(s) == {f[i].loan : i \in s}
             W(s) == IF n + 1 \in s THEN Apply(SoldView(c, Of(s \ {n + 1})), x)
                                    ELSE SoldView(c, Of(s))
             w == [s \in SUBSET (1..(n + 1)) |-> W(s)]
  <1>1. IsFiniteSet(E)
    <2>1. IsFiniteSet(D)
      BY FS_Subset, SystemAssumption DEF OpenOn
    <2> DEFINE g == [l \in D |-> LoanLiquidated(l)]
    <2>2. g \in Surjection(D, E)
      BY DEF Surjection
    <2> HIDE DEF g, E
    <2> QED
      BY <2>1, <2>2, FS_Surjection
  <1>2. \A l \in D : LoanLiquidated(l).loan = l
    BY DEF LoanLiquidated
  <1> HIDE DEF E
  <1>3. /\ n \in Nat /\ f \in [1..n -> E]
        /\ \A i, j \in 1..n : f[i] = f[j] => i = j
        /\ \A y \in E : \E i \in 1..n : f[i] = y
    BY <1>1, SeqOfSet
  <1> HIDE DEF f, n
  <1>4. /\ \A i \in 1..n : f[i].loan \in D /\ f[i] = LoanLiquidated(f[i].loan)
        /\ \A i, j \in 1..n : f[i].loan = f[j].loan => i = j
        /\ Of(1..n) = D
    <2>1. \A i \in 1..n : f[i].loan \in D /\ f[i] = LoanLiquidated(f[i].loan)
      BY <1>2, <1>3 DEF E
    <2>2. \A i, j \in 1..n : f[i].loan = f[j].loan => i = j
      BY <1>3, <2>1
    <2>3. \A l \in D : \E i \in 1..n : f[i].loan = l
      <3> SUFFICES ASSUME NEW l \in D PROVE \E i \in 1..n : f[i].loan = l
        OBVIOUS
      <3>1. LoanLiquidated(l) \in E
        BY DEF E
      <3>2. PICK i \in 1..n : f[i] = LoanLiquidated(l)
        BY <1>3, <3>1
      <3> QED
        BY <1>2, <3>2
    <2> QED
      BY <2>1, <2>2, <2>3
  <1>5. /\ DOMAIN es = 1..(n + 1) /\ es[n + 1] = x
        /\ \A i \in 1..n : es[i] = f[i]
    <2>1. f \in Seq(E) /\ Len(f) = n
      BY <1>3
    <2> QED
      BY <1>3, <2>1
  <1> HIDE DEF es
  <1>6. ASSUME NEW s \in SUBSET (1..(n + 1))
        PROVE  w[s] = IF s = {} THEN TrueView ELSE Apply(w[s \ {Max(s)}], es[Max(s)])
    <2>1. CASE s = {}
      <3>1. W(s) = SoldView(c, {})
        BY <2>1
      <3> HIDE DEF W
      <3> QED
        BY <2>1, <3>1, SoldNone
    <2>2. CASE s # {}
      <3> DEFINE m == Max(s)
                 t == s \ {m}
      <3>1. m \in s /\ (\A y \in s : y <= m) /\ n + 1 \in Nat
        <4> DEFINE k == n + 1
        <4>1. k \in Nat /\ s \in SUBSET (1..k)
          BY <1>3
        <4> HIDE DEF k
        <4>2. Max(s) \in s /\ \A y \in s : y <= Max(s)
          BY <2>2, <4>1, MaxIn
        <4> QED
          BY <4>1, <4>2 DEF k
      <3> HIDE DEF m
      <3>2. w[s] = W(s) /\ w[t] = W(t) /\ t \in SUBSET (1..(n + 1))
        OBVIOUS
      <3>3. CASE m = n + 1
        <4>1. W(s) = Apply(SoldView(c, Of(t)), x)
          BY <3>1, <3>3
        <4>2. W(t) = SoldView(c, Of(t))
          BY <3>3
        <4> HIDE DEF W, w, t, Of
        <4> QED
          BY <1>5, <2>2, <3>2, <3>3, <4>1, <4>2 DEF m, t
      <3>4. CASE m # n + 1
        <4>1. m \in 1..n /\ n + 1 \notin s /\ n + 1 \notin t /\ s \subseteq 1..n
          BY <1>3, <3>1, <3>4
        <4>2. W(s) = SoldView(c, Of(s)) /\ W(t) = SoldView(c, Of(t))
          BY <4>1
        <4> DEFINE l == f[m].loan
        <4>3. /\ Of(t) \subseteq OpenOn(c) /\ l \in OpenOn(c) /\ l \notin Of(t)
              /\ Of(s) = Of(t) \cup {l}
          <5>1. t \subseteq 1..n /\ m \notin t /\ s = t \cup {m}
            BY <3>1, <4>1
          <5> HIDE DEF t
          <5> QED
            BY <1>4, <4>1, <5>1
        <4>4. es[m] = LoanLiquidated(l)
          BY <1>4, <1>5, <4>1
        <4> HIDE DEF Of, l
        <4>5. Apply(SoldView(c, Of(t)), LoanLiquidated(l)) = SoldView(c, Of(t) \cup {l})
          BY <4>3, SoldOne
        <4> HIDE DEF W, w, t
        <4> QED
          BY <2>2, <3>2, <4>2, <4>3, <4>4, <4>5 DEF m, t
      <3> QED
        BY <3>3, <3>4
    <2> QED
      BY <2>1, <2>2
  <1>7. w = [s \in SUBSET (1..(n + 1)) |-> w[s]]
    OBVIOUS
  <1>8. w[1..(n + 1)] = Apply(SoldView(c, D), x)
    <2>1. n + 1 \in 1..(n + 1) /\ (1..(n + 1)) \ {n + 1} = 1..n
      BY <1>3
    <2>2. W(1..(n + 1)) = Apply(SoldView(c, Of(1..n)), x)
      BY <2>1
    <2>3. w[1..(n + 1)] = W(1..(n + 1))
      OBVIOUS
    <2> HIDE DEF W, w, Of
    <2> QED
      BY <1>4, <2>2, <2>3
  <1> HIDE DEF w
  <1>9. Runs(es, TrueView, w)
    BY <1>5, <1>6, <1>7 DEF Runs
  <1>10. FoldLeft(Apply, TrueView, es) = w[1..(n + 1)]
    <2> DEFINE k == n + 1
    <2>1. k \in Nat /\ DOMAIN es = 1..k
      BY <1>3, <1>5
    <2> HIDE DEF k
    <2>2. FoldLeft(Apply, TrueView, es) = w[1..k]
      BY <1>9, <2>1, FoldIs
    <2> QED
      BY <2>2 DEF k
  <1> QED
    BY <1>8, <1>10 DEF es, f, E

LEMMA SwapView ==
    ASSUME SafeInv, IndexInv, CommitSwap, view = TrueView,
           Emit(SetToSeq({LoanLiquidated(LoanAt(tx.tail, e)) : e \in tx.liquidated})
                  \o <<SwapExecuted>>)
    PROVE  view' = TrueView'
  <1> DEFINE c == tx.in
             d == Other(c)
             D == Dead(tx)
             x == SwapExecuted
             q == quote(tx)
             k == Cardinality(tx.liquidated)
             fee == protocol_portion(tx.amount)
             gone == [status |-> "liquidated"]
             pos == [l \in LoanId |-> IF l \in D THEN gone ELSE Positions[l]]
             td == [pool.total_debt EXCEPT ![d] = @ - SumOf(Prin, D)]
             tc == [pool.total_collateral EXCEPT ![c] = @ - SumOf(Coll, D)]
  <1>0. CommitFacts
    BY CommitEffect
  <1>1. /\ tx # IdleTx
        /\ pool'.total_collateral = tx.pool.total_collateral
        /\ pool'.total_debt = tx.pool.total_debt
        /\ pool'.open_loans = tx.pool.open_loans
        /\ pool'.protocol_fees = [tx.pool.protocol_fees EXCEPT ![c] = @ + fee]
        /\ loan' = [l \in LoanId |-> IF l \in D THEN tombstone(loan[l]) ELSE loan[l]]
        /\ real' = [real EXCEPT ![c] = @ + tx.amount, ![d] = @ - q]
        /\ lp_supply' = lp_supply
    BY <1>0 DEF CommitFacts
  <1>2. /\ c \in Side /\ D \subseteq OpenOn(c)
        /\ tx.pool.total_collateral = tc /\ tx.pool.total_debt = td
        /\ tx.pool.open_loans = pool.open_loans - k
        /\ tx.pool.protocol_fees = pool.protocol_fees
    BY <1>1, SoldTotals
  <1>3. {LoanLiquidated(LoanAt(tx.tail, e)) : e \in tx.liquidated}
          = {LoanLiquidated(l) : l \in D}
    BY DEF Dead
  <1>4. view' = Apply(SoldView(c, D), x)
    <2>1. view' = FoldLeft(Apply, TrueView, SetToSeq({LoanLiquidated(l) : l \in D}) \o <<x>>)
      BY <1>3, Zenon DEF Emit
    <2> HIDE DEF c, D, x
    <2> QED
      BY <1>2, <2>1, SoldFold
  <1>5. /\ x.event = "SwapExecuted" /\ x.side = c /\ x.amount_in = tx.amount
        /\ x.amount_out = q /\ x.liquidations = k /\ x.protocol_fee = fee
    BY DEF SwapExecuted
  <1>6. Positions' = pos
    <2>1. ASSUME NEW l \in LoanId PROVE PositionOf(tombstone(loan[l])) = gone
      <3>1. loan[l] \in LoanType
        BY DEF SafeInv, TypeOK
      <3>2. tombstone(loan[l]).status = "liquidated"
        BY <3>1 DEF tombstone, LoanType
      <3> QED
        BY <3>2 DEF PositionOf
    <2>2. \A l \in LoanId : Positions'[l] = pos[l]
      BY <1>1, <2>1 DEF Positions
    <2> QED
      BY <2>2 DEF Positions
  <1>7. SoldView(c, D) =
          View(real, lp_supply, pool.protocol_fees, td, tc, pool.open_loans, pos)
    BY DEF SoldView
  <1> HIDE DEF c, d, D, x, q, k, fee, pos, td, tc
  <1>8. Apply(View(real, lp_supply, pool.protocol_fees, td, tc, pool.open_loans, pos), x) =
          View([real EXCEPT ![c] = @ + tx.amount, ![d] = @ - q], lp_supply,
               [pool.protocol_fees EXCEPT ![c] = @ + fee], td, tc, pool.open_loans - k, pos)
    BY <1>5 DEF Apply, View, d
  <1> QED
    BY <1>1, <1>2, <1>4, <1>6, <1>7, <1>8 DEF TrueView

-------------------------------------------------------------------------------
(* The indexer is right in every behaviour.                                    *)

\* Emitting adds nothing to what the pool may do.
LEMMA EventsStep == [EventsNext]_events_vars => [Next]_vars
  BY DEF EventsNext, Next, events_vars

LEMMA EventsPool == EventsSpec => Spec
  BY EventsStep, PTL DEF EventsSpec, EventsInit, Spec

ViewInv == view = TrueView

LEMMA ViewInit == EventsInit => ViewInv
  <1> SUFFICES ASSUME EventsInit PROVE view = TrueView
    BY DEF ViewInv
  <1>1. /\ real = Zero /\ lp_supply = 0 /\ loan = [l \in LoanId |-> NoLoan]
        /\ view = InitialView
        /\ pool.protocol_fees = Zero /\ pool.total_debt = Zero
        /\ pool.total_collateral = Zero /\ pool.open_loans = 0
    BY DEF EventsInit, Init, InitialPool
  <1>2. Positions = [l \in LoanId |-> NoPosition]
    BY <1>1, NoPositionOf DEF Positions
  <1> QED
    BY <1>1, <1>2 DEF InitialView, TrueView, View

LEMMA ViewNext ==
    SafeInv /\ SafeInv' /\ IndexInv /\ ViewInv /\ [EventsNext]_events_vars => ViewInv'
  <1> SUFFICES ASSUME SafeInv, SafeInv', IndexInv, view = TrueView,
                      [EventsNext]_events_vars
               PROVE  view' = TrueView'
    BY DEF ViewInv
  <1>0. real \in [Side -> Nat] /\ lp_supply \in Nat /\ Zero \in [Side -> Nat]
    BY SystemAssumption DEF SafeInv, TypeOK, Zero
  <1>1. CASE \E d \in Deposits, min \in Mins :
                AddLiquidity(d[1], d[2], min) /\ Emit(<<LiquidityAdded(d[1], d[2])>>)
    BY <1>1, AddedView
  <1>2. CASE \E x \in Burns, a, b \in Mins :
                RemoveLiquidity(x, a, b) /\ Emit(<<LiquidityRemoved(x)>>)
    BY <1>2, RemovedView
  <1>3. CASE \E l \in LoanId, k \in LoanTerms :
                OpenLoan(l, k[1], k[2], k[3]) /\ Emit(<<LoanOpened(l, k[1], k[2], k[3])>>)
    <2>1. PICK l \in LoanId, k \in LoanTerms :
             OpenLoan(l, k[1], k[2], k[3]) /\ Emit(<<LoanOpened(l, k[1], k[2], k[3])>>)
      BY <1>3
    <2>2. k[1] \in Side /\ k[2] \in Nat /\ k[3] \in Nat
      BY InputsAssumption
    <2> QED
      BY <2>1, <2>2, OpenedView
  <1>4. CASE \E l \in LoanId : RepayLoan(l) /\ Emit(<<LoanRepaid(l)>>)
    BY <1>4, RepaidView
  <1>5. CASE \E l \in LoanId :
                ClaimLiquidatedRent(l) /\ Emit(<<LiquidatedRentClaimed(l)>>)
    BY <1>5, ReclaimedView
  <1>6. CASE ClaimProtocolFees /\ Emit(<<ProtocolFeesClaimed>>)
    BY <1>6, ClaimedView
  <1>7. CASE /\ CommitSwap
             /\ Emit(SetToSeq({LoanLiquidated(LoanAt(tx.tail, e)) : e \in tx.liquidated})
                       \o <<SwapExecuted>>)
    BY <1>7, SwapView
  <1>8. CASE \E k \in Donations :
                Donate(k[1], k[2]) /\ Emit(<<GiftSeen([Zero EXCEPT ![k[1]] = k[2]], 0)>>)
    <2>1. PICK k \in Donations :
             Donate(k[1], k[2]) /\ Emit(<<GiftSeen([Zero EXCEPT ![k[1]] = k[2]], 0)>>)
      BY <1>8
    <2> DEFINE given == [Zero EXCEPT ![k[1]] = k[2]]
    <2>2. k[1] \in Side /\ k[2] \in Nat
      BY InputsAssumption
    <2>3. given \in [Side -> Nat] /\ \A s \in Side : given[s] = IF s = k[1] THEN k[2] ELSE 0
      BY <1>0, <2>2 DEF Zero
    <2>4. /\ real' = [real EXCEPT ![k[1]] = @ + k[2]]
          /\ lp_supply' = lp_supply /\ UNCHANGED <<pool, loan>>
      BY <2>1 DEF Donate
    <2>5. Emit(<<GiftSeen(given, 0)>>)
      BY <2>1
    <2> HIDE DEF given
    <2>6. lp_supply' = lp_supply - 0
      BY <1>0, <2>4
    <2>7. \A s \in Side : real'[s] = real[s] + given[s]
      BY <1>0, <2>2, <2>3, <2>4
    <2>8. real' = [s \in Side |-> real[s] + given[s]]
      BY <1>0, <2>4, <2>7
    <2> QED
      BY <2>3, <2>4, <2>5, <2>6, <2>8, GiftView
  <1>9. CASE \E x \in DirectBurns : BurnLp(x) /\ Emit(<<GiftSeen(Zero, x)>>)
    <2>1. PICK x \in DirectBurns : BurnLp(x) /\ Emit(<<GiftSeen(Zero, x)>>)
      BY <1>9
    <2>2. lp_supply' = lp_supply - x /\ UNCHANGED <<pool, real, loan>>
      BY <2>1 DEF BurnLp
    <2>3. \A s \in Side : Zero[s] = 0
      BY DEF Zero
    <2>4. real' = [s \in Side |-> real[s] + Zero[s]]
      BY <1>0, <2>2, <2>3
    <2> QED
      BY <1>0, <2>1, <2>2, <2>4, GiftView
  <1>10. CASE /\ \/ \E k \in SwapIns, min \in Mins, boundary \in Boundaries :
                     \E tail \in Tails(k[1]) :
                        BeginSwap(k[1], k[2], min, boundary, tail)
                \/ LiquidateNext
                \/ AbortSwap
                \/ Tick
             /\ UNCHANGED view
    <2>1. UNCHANGED <<pool, real, lp_supply, loan, view>>
      BY <1>10 DEF BeginSwap, LiquidateNext, AbortSwap, Tick
    <2> QED
      BY <2>1 DEF TrueView, Positions
  <1>11. CASE UNCHANGED events_vars
    <2>1. UNCHANGED <<pool, real, lp_supply, loan, view>>
      BY <1>11 DEF events_vars, vars
    <2> QED
      BY <2>1 DEF TrueView, Positions
  <1> QED
    BY <1>1, <1>2, <1>3, <1>4, <1>5, <1>6, <1>7, <1>8, <1>9, <1>10, <1>11 DEF EventsNext

\* Whoever adds up the events knows the state of the pool: every open loan with
\* its band and trigger, every tombstone, the totals, the fees and the vaults,
\* after any sequence of instructions and in whatever order a swap reports the
\* loans it liquidates.
THEOREM EventsSuffice == EventsSpec => []ViewExact
  <1>1. ViewInv => ViewExact
    BY DEF ViewInv, ViewExact, TrueView, View, Positions
  <1> QED
    BY <1>1, ViewInit, ViewNext, EventsPool, SafeAlways, IndexAlways, PTL DEF EventsSpec

=============================================================================
