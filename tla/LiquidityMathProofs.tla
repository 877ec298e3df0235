------------------------- MODULE LiquidityMathProofs -------------------------
(* Facts about the operators of LiquidityMath that the proofs about the pool   *)
(* cite: ranges, rounding and monotonicity; and about sums over finite sets.   *)
EXTENDS LiquidityMath, FiniteSetsExt, FiniteSetTheorems, WellFoundedInduction, TLAPS

\* The two sides are distinct and each is the other's other.
LEMMA SideFacts ==
    ASSUME NEW s \in Side
    PROVE  /\ Other(s) \in Side
           /\ Other(s) # s
           /\ Other(Other(s)) = s
           /\ \A u \in Side : u = s \/ u = Other(s)
  BY DEF Side, Other

\* mul_div is a natural number, rounded down.
LEMMA MulDiv ==
    ASSUME NEW a \in Nat, NEW b \in Nat, NEW c \in Nat \ {0}
    PROVE  /\ mul_div(a, b, c) \in Nat
           /\ mul_div(a, b, c) * c <= a * b
           /\ a * b < (mul_div(a, b, c) + 1) * c
  <1>1. a * b \in Nat
    OBVIOUS
  <1>2. ASSUME NEW n \in Nat
        PROVE  /\ n \div c \in Nat
               /\ (n \div c) * c <= n
               /\ n < ((n \div c) + 1) * c
    OBVIOUS
  <1> QED
    BY <1>1, <1>2 DEF mul_div

\* Scaling by a ratio of at most one does not increase.
LEMMA MulDivShrinks ==
    ASSUME NEW a \in Nat, NEW b \in Nat, NEW c \in Nat \ {0}, b <= c
    PROVE  mul_div(a, b, c) <= a
  <1> DEFINE q == mul_div(a, b, c)
  <1>1. q \in Nat /\ q * c <= a * b
    BY MulDiv
  <1>2. a * b <= a * c
    OBVIOUS
  <1> HIDE DEF q
  <1>3. q * c <= a * c
    BY <1>1, <1>2
  <1>4. q <= a
    BY <1>1, <1>3
  <1> QED
    BY <1>4 DEF q

\* mul_div_ceil is a natural number, rounded up.
LEMMA MulDivCeil ==
    ASSUME NEW a \in Nat, NEW b \in Nat, NEW c \in Nat \ {0}
    PROVE  /\ mul_div_ceil(a, b, c) \in Nat
           /\ a * b <= mul_div_ceil(a, b, c) * c
           /\ mul_div(a, b, c) <= mul_div_ceil(a, b, c)
  <1>1. a * b \in Nat
    OBVIOUS
  <1>2. ASSUME NEW n \in Nat
        PROVE  /\ n \div c \in Nat
               /\ n = c * (n \div c) + (n % c)
               /\ n < ((n \div c) + 1) * c
    OBVIOUS
  <1> QED
    BY <1>1, <1>2 DEF mul_div, mul_div_ceil

\* isqrt returns a natural number.
LEMMA IsqrtType ==
    ASSUME NEW n \in Nat
    PROVE  isqrt(n) \in Nat
  <1>1. IsFiniteSet(1..n)
    BY FS_Interval
  <1>2. IsFiniteSet({k \in 1..n : k * k <= n})
    BY <1>1, FS_Subset
  <1> QED
    BY <1>2, FS_CardinalityType DEF isqrt

\* The share of the fee skimmed for the protocol is at most the amount paid in.
LEMMA ProtocolPortion ==
    ASSUME NEW amount \in Nat
    PROVE  protocol_portion(amount) \in Nat /\ protocol_portion(amount) <= amount
  <1>1. CASE SWAP_FEE_BPS = 0 \/ PROTOCOL_FEE_BPS = 0
    BY <1>1 DEF protocol_portion
  <1>2. CASE ~ (SWAP_FEE_BPS = 0 \/ PROTOCOL_FEE_BPS = 0)
    <2> DEFINE fee == mul_div(amount, SWAP_FEE_BPS, BPS_DENOM)
    <2>1. fee \in Nat /\ fee <= amount
      BY MulDiv, MulDivShrinks, UnitsAssumption, ParametersAssumption
    <2>2. protocol_portion(amount) = mul_div(fee, PROTOCOL_FEE_BPS, SWAP_FEE_BPS)
      BY <1>2 DEF protocol_portion
    <2> HIDE DEF fee
    <2>3. SWAP_FEE_BPS \in Nat \ {0} /\ PROTOCOL_FEE_BPS \in Nat
          /\ PROTOCOL_FEE_BPS <= SWAP_FEE_BPS
      BY <1>2, ParametersAssumption
    <2>4. /\ mul_div(fee, PROTOCOL_FEE_BPS, SWAP_FEE_BPS) \in Nat
          /\ mul_div(fee, PROTOCOL_FEE_BPS, SWAP_FEE_BPS) <= fee
      BY <2>1, <2>3, MulDiv, MulDivShrinks
    <2> QED
      BY <2>1, <2>2, <2>4
  <1> QED
    BY <1>1, <1>2

\* A quote is a natural number, less than the reserve it is paid from.
LEMMA QuoteOut ==
    ASSUME NEW amount \in Nat, NEW rin \in Nat \ {0}, NEW rout \in Nat \ {0}
    PROVE  /\ cpmm_quote_out(amount, rin, rout) \in Nat
           /\ cpmm_quote_out(amount, rin, rout) < rout
  <1> DEFINE x == mul_div(amount, BPS_DENOM - SWAP_FEE_BPS, BPS_DENOM)
             q == mul_div(x, rout, rin + x)
  <1>1. x \in Nat
    <2>1. BPS_DENOM - SWAP_FEE_BPS \in Nat /\ BPS_DENOM \in Nat \ {0}
      BY UnitsAssumption, ParametersAssumption
    <2> QED
      BY <2>1, MulDiv
  <1>2. cpmm_quote_out(amount, rin, rout) = q
    BY DEF cpmm_quote_out
  <1> HIDE DEF x
  <1>3. rin + x \in Nat \ {0}
    BY <1>1
  <1>4. q \in Nat /\ q * (rin + x) <= x * rout
    BY <1>1, <1>3, MulDiv
  <1> HIDE DEF q
  <1>5. q < rout
    <2> SUFFICES ASSUME q >= rout PROVE FALSE
      BY <1>4
    <2>1. rout * (rin + x) <= q * (rin + x)
      BY <1>1, <1>3, <1>4
    <2>2. rout * (rin + x) = rout * rin + x * rout
      BY <1>1
    <2>3. rout * rin > 0
      OBVIOUS
    <2>4. rout * (rin + x) \in Nat /\ q * (rin + x) \in Nat /\ x * rout \in Nat
          /\ rout * rin \in Nat
      BY <1>1, <1>4
    <2> QED
      BY <1>4, <2>1, <2>2, <2>3, <2>4
  <1> QED
    BY <1>2, <1>4, <1>5

\* The band of a price never falls when the price rises.
LEMMA BandMonotone ==
    ASSUME NEW x \in Nat, NEW y \in Nat, x <= y
    PROVE  /\ band_id_for_trigger(x) \in Nat
           /\ band_id_for_trigger(y) \in Nat
           /\ band_id_for_trigger(x) <= band_id_for_trigger(y)
  <1> DEFINE P(z) == {k \in 1..(WORD_BITS - 1) : 2^k <= z}
  <1>1. IsFiniteSet(1..(WORD_BITS - 1))
    BY FS_Interval, UnitsAssumption
  <1>2. IsFiniteSet(P(x)) /\ IsFiniteSet(P(y))
    BY <1>1, FS_Subset
  <1>3. P(x) \subseteq P(y)
    <2>1. ASSUME NEW k \in 1..(WORD_BITS - 1), 2^k <= x PROVE 2^k <= y
      BY <2>1, PowersAssumption, UnitsAssumption
    <2> QED
      BY <2>1
  <1>4. Cardinality(P(x)) \in Nat /\ Cardinality(P(y)) \in Nat
        /\ Cardinality(P(x)) <= Cardinality(P(y))
    BY <1>2, <1>3, FS_Subset, FS_CardinalityType
  <1>5. floor_log2(x) = Cardinality(P(x)) /\ floor_log2(y) = Cardinality(P(y))
    BY DEF floor_log2
  <1> HIDE DEF P
  <1> QED
    BY <1>4, <1>5, UnitsAssumption DEF band_id_for_trigger

LEMMA FirstNaturals ==
    ASSUME NEW n \in Nat
    PROVE  IsFiniteSet(1..n) /\ Cardinality(1..n) = n
  BY FS_Interval

\* floor_log2 is what its name says, for every price that fits its word.  A set
\* of m powers that contains a power with each smaller one is that of the first
\* m: otherwise it would be a subset of the first m - 1, or contain m + 1 powers.
LEMMA FloorLog2 ==
    ASSUME NEW x \in Nat \ {0}, x < 2^WORD_BITS
    PROVE  /\ floor_log2(x) \in 0..(WORD_BITS - 1)
           /\ 2^floor_log2(x) <= x
           /\ x < 2^(floor_log2(x) + 1)
  <1> DEFINE P == {k \in 1..(WORD_BITS - 1) : 2^k <= x}
             m == Cardinality(P)
  <1>0. /\ WORD_BITS \in Nat \ {0}
        /\ 2^0 = 1
        /\ \A k \in 0..WORD_BITS : 2^k \in Nat
        /\ \A j, k \in 0..WORD_BITS : j < k => 2^j < 2^k
    BY UnitsAssumption, PowersAssumption
  <1>1. /\ IsFiniteSet(1..(WORD_BITS - 1))
        /\ Cardinality(1..(WORD_BITS - 1)) = WORD_BITS - 1
    BY <1>0, FS_Interval
  <1>2. IsFiniteSet(P) /\ m \in Nat /\ m <= WORD_BITS - 1
    BY <1>1, FS_Subset, FS_CardinalityType
  <1>3. floor_log2(x) = m
    BY DEF floor_log2
  <1>4. \A k \in 1..(WORD_BITS - 1) : k \in P <=> 2^k <= x
    OBVIOUS
  <1>5. P \subseteq 1..(WORD_BITS - 1)
    OBVIOUS
  <1> HIDE DEF P, m
  <1>6. 2^m <= x
    <2> SUFFICES ASSUME m # 0, 2^m > x PROVE FALSE
      <3>1. 2^m \in Nat
        BY <1>0, <1>2
      <3>2. m = 0 => 2^m = 1
        BY <1>0, Zenon
      <3> QED
        BY <3>1, <3>2
    <2>1. \A k \in P : k < m
      <3> SUFFICES ASSUME NEW k \in P, k >= m PROVE FALSE
        BY <1>2, <1>5
      <3>1. k \in 1..(WORD_BITS - 1) /\ 2^k <= x
        BY <1>4, <1>5
      <3>2. 2^m <= 2^k
        BY <1>0, <1>2, <3>1
      <3> QED
        BY <1>0, <1>2, <3>1, <3>2
    <2>2. P \subseteq 1..(m - 1)
      BY <1>2, <1>5, <2>1
    <2>3. IsFiniteSet(1..(m - 1)) /\ Cardinality(1..(m - 1)) = m - 1
      <3>1. m - 1 \in Nat
        BY <1>2
      <3> QED
        BY <3>1, FirstNaturals
    <2>4. Cardinality(P) <= Cardinality(1..(m - 1))
      BY <2>2, <2>3, FS_Subset
    <2> QED
      BY <1>2, <2>3, <2>4 DEF m
  <1>7. x < 2^(m + 1)
    <2> SUFFICES ASSUME m + 1 <= WORD_BITS - 1, 2^(m + 1) <= x PROVE FALSE
      <3>1. m + 1 \in 0..WORD_BITS /\ 2^(m + 1) \in Nat
        BY <1>0, <1>2
      <3>2. m + 1 > WORD_BITS - 1 => m + 1 = WORD_BITS
        BY <1>0, <1>2
      <3> QED
        BY <1>0, <1>2, <3>1, <3>2
    <2>1. \A k \in 1..(m + 1) : k \in P
      <3> TAKE k \in 1..(m + 1)
      <3>1. 2^k <= 2^(m + 1)
        BY <1>0, <1>2
      <3> QED
        BY <1>0, <1>2, <1>4, <3>1
    <2>2. Cardinality(1..(m + 1)) = m + 1
      BY <1>2, FirstNaturals
    <2>3. 1..(m + 1) \subseteq P
      BY <2>1
    <2>4. Cardinality(1..(m + 1)) <= Cardinality(P)
      BY <1>2, <2>3, FS_Subset
    <2> QED
      BY <1>2, <2>2, <2>4 DEF m
  <1> QED
    BY <1>0, <1>2, <1>3, <1>6, <1>7

\* Quotients compare as the ratios they round down.
LEMMA DivMonotone ==
    ASSUME NEW a \in Nat, NEW b \in Nat \ {0}, NEW c \in Nat, NEW d \in Nat \ {0},
           a * d <= c * b
    PROVE  a \div b <= c \div d
  <1> DEFINE q == a \div b
             r == c \div d
  <1>1. q \in Nat /\ q * b <= a
    OBVIOUS
  <1>2. r \in Nat /\ c < (r + 1) * d
    OBVIOUS
  <1> HIDE DEF q, r
  <1> SUFFICES ASSUME q >= r + 1 PROVE FALSE
    BY <1>1, <1>2 DEF q, r
  <1>3. (r + 1) * d <= q * d
    BY <1>1, <1>2
  <1>4. c < q * d
    BY <1>1, <1>2, <1>3
  <1>5. c * b < (q * d) * b
    BY <1>1, <1>4
  <1>6. (q * d) * b = (q * b) * d
    BY <1>1
  <1>7. (q * b) * d <= a * d
    BY <1>1
  <1> QED
    BY <1>1, <1>5, <1>6, <1>7

\* A price of nonempty reserves is a natural number.
LEMMA PriceType ==
    ASSUME NEW a \in Nat \ {0}, NEW b \in Nat
    PROVE  price_b_per_a_wad(a, b) \in Nat
  BY MulDiv, UnitsAssumption DEF price_b_per_a_wad

\* What a loan owes is never less than its principal: the index has not fallen
\* since it was taken, and the product is rounded up.
LEMMA OwedCovers ==
    ASSUME NEW principal \in Nat, NEW snapshot \in Nat \ {0}, NEW current \in Nat,
           snapshot <= current
    PROVE  /\ owed_from_index(principal, snapshot, current) \in Nat
           /\ principal <= owed_from_index(principal, snapshot, current)
  <1> DEFINE o == owed_from_index(principal, snapshot, current)
  <1>1. o \in Nat /\ principal * current <= o * snapshot
    BY MulDivCeil DEF owed_from_index
  <1> HIDE DEF o
  <1>2. principal * snapshot <= principal * current
    OBVIOUS
  <1>3. principal * snapshot <= o * snapshot
    BY <1>1, <1>2
  <1>4. ~ (o + 1 <= principal)
    <2> SUFFICES ASSUME o + 1 <= principal PROVE FALSE
      OBVIOUS
    <2>1. (o + 1) * snapshot <= principal * snapshot
      BY <1>1
    <2>2. (o + 1) * snapshot = o * snapshot + snapshot
      BY <1>1
    <2>3. o * snapshot \in Nat /\ principal * snapshot \in Nat
      BY <1>1
    <2> QED
      BY <1>3, <2>1, <2>2, <2>3
  <1> QED
    BY <1>1, <1>4 DEF o

\* The reference price stays a natural number as it moves towards spot.
LEMMA EmaType ==
    ASSUME NEW prev \in Nat, NEW spot \in Nat, NEW elapsed \in Nat
    PROVE  ema_ref_price_wad(prev, spot, elapsed) \in Nat
  <1> DEFINE H == REF_PRICE_WINDOW_SLOTS
  <1>0. H \in Nat \ {0}
    BY ParametersAssumption
  <1>1. CASE prev = 0 \/ elapsed >= H
    BY <1>1 DEF ema_ref_price_wad
  <1>2. CASE ~ (prev = 0 \/ elapsed >= H) /\ spot >= prev
    <2>1. mul_div(spot - prev, elapsed, H) \in Nat
      BY <1>0, <1>2, MulDiv
    <2> QED
      BY <1>2, <2>1 DEF ema_ref_price_wad
  <1>3. CASE ~ (prev = 0 \/ elapsed >= H) /\ ~ (spot >= prev)
    <2>1. prev - spot \in Nat /\ elapsed <= H
      BY <1>0, <1>3
    <2>2. mul_div(prev - spot, elapsed, H) \in Nat
          /\ mul_div(prev - spot, elapsed, H) <= prev - spot
      BY <1>0, <2>1, MulDiv, MulDivShrinks
    <2> QED
      BY <1>3, <2>1, <2>2 DEF ema_ref_price_wad
  <1> QED
    BY <1>1, <1>2, <1>3

\* A trigger price is a natural number.
LEMMA TriggerType ==
    ASSUME NEW c \in Side, NEW collateral \in Nat \ {0}, NEW debt \in Nat \ {0}
    PROVE  recompute_trigger(c, collateral, debt) \in Nat
  <1>0. /\ LIQ_RATIO_BPS \in Nat \ {0} /\ BPS_DENOM \in Nat \ {0}
        /\ WAD \in Nat \ {0}
    BY UnitsAssumption, ParametersAssumption
  <1>1. /\ debt * LIQ_RATIO_BPS * WAD \in Nat
        /\ collateral * BPS_DENOM \in Nat \ {0}
        /\ collateral * BPS_DENOM * WAD \in Nat
        /\ debt * LIQ_RATIO_BPS \in Nat \ {0}
    BY <1>0
  <1>2. \A n \in Nat, m \in Nat \ {0} : n \div m \in Nat
    OBVIOUS
  <1> QED
    BY <1>1, <1>2 DEF recompute_trigger

\* The rate curve yields a natural number for every utilisation.
LEMMA RateType ==
    ASSUME NEW util \in Nat
    PROVE  compute_borrow_rate(util) \in Nat
  <1>1. \A n \in Nat : bps_to_wad(n) \in Nat
    BY UnitsAssumption DEF bps_to_wad
  <1>2. /\ INTEREST_BASE_BPS \in Nat /\ INTEREST_SLOPE1_BPS \in Nat
        /\ INTEREST_SLOPE2_BPS \in Nat
    BY ParametersAssumption
  <1>3. kink_wad \in Nat \ {0} /\ WAD - kink_wad \in Nat \ {0}
    <2>0. /\ INTEREST_KINK_BPS \in Nat /\ INTEREST_KINK_BPS < BPS_DENOM
          /\ BPS_DENOM \in Nat \ {0} /\ WAD \in Nat \ {0}
      BY UnitsAssumption, ParametersAssumption
    <2>1. kink_wad = mul_div(INTEREST_KINK_BPS, WAD, BPS_DENOM)
      BY DEF kink_wad, mul_div
    <2>2. kink_wad \in Nat /\ kink_wad * BPS_DENOM <= INTEREST_KINK_BPS * WAD
      BY <2>0, <2>1, MulDiv
    <2>3. INTEREST_KINK_BPS * WAD < BPS_DENOM * WAD
      BY <2>0
    <2>4. kink_wad * BPS_DENOM < WAD * BPS_DENOM
      BY <2>0, <2>2, <2>3
    <2>5. kink_wad < WAD
      BY <2>0, <2>2, <2>4
    <2>6. kink_wad > 0
      BY ParametersAssumption DEF kink_wad
    <2> QED
      BY <2>0, <2>2, <2>5, <2>6
  <1>4. CASE util <= kink_wad
    <2>1. mul_div(bps_to_wad(INTEREST_SLOPE1_BPS), util, kink_wad) \in Nat
      BY <1>1, <1>2, <1>3, MulDiv
    <2> QED
      BY <1>1, <1>2, <1>4, <2>1 DEF compute_borrow_rate
  <1>5. CASE ~ (util <= kink_wad)
    <2>1. util - kink_wad \in Nat
      BY <1>3, <1>5
    <2>2. mul_div(bps_to_wad(INTEREST_SLOPE2_BPS), util - kink_wad, WAD - kink_wad)
            \in Nat
      BY <1>1, <1>2, <1>3, <2>1, MulDiv
    <2> QED
      BY <1>1, <1>2, <1>5, <2>2 DEF compute_borrow_rate
  <1> QED
    BY <1>4, <1>5

\* Utilisation is a natural number of at most one WAD.
LEMMA UtilizationType ==
    ASSUME NEW debt \in Nat, NEW acc \in Nat
    PROVE  utilization_wad(debt, acc) \in Nat
  <1>1. CASE acc = 0
    BY <1>1 DEF utilization_wad
  <1>2. CASE acc # 0
    <2>1. mul_div(debt, WAD, acc) \in Nat
      BY <1>2, MulDiv, UnitsAssumption
    <2> QED
      BY <1>2, <2>1, UnitsAssumption DEF utilization_wad, MinOf
  <1> QED
    BY <1>1, <1>2

\* A borrow index never falls and never passes the cap.
LEMMA BumpIndex ==
    ASSUME NEW index \in Nat, index <= INDEX_CAP_WAD,
           NEW rate \in Nat, NEW slots \in Nat
    PROVE  /\ bump_index_wad(index, rate, slots) \in Nat
           /\ index <= bump_index_wad(index, rate, slots)
           /\ bump_index_wad(index, rate, slots) <= INDEX_CAP_WAD
  <1>0. /\ INDEX_CAP_WAD \in Nat /\ SLOTS_PER_YEAR \in Nat \ {0}
        /\ WAD \in Nat \ {0}
    BY UnitsAssumption, ParametersAssumption
  <1>1. CASE rate = 0 \/ slots = 0 \/ index >= INDEX_CAP_WAD
    BY <1>1 DEF bump_index_wad
  <1>2. CASE ~ (rate = 0 \/ slots = 0 \/ index >= INDEX_CAP_WAD)
    <2> DEFINE delta == (index * rate * slots) \div (SLOTS_PER_YEAR * WAD)
    <2>1. index * rate * slots \in Nat /\ SLOTS_PER_YEAR * WAD \in Nat \ {0}
      BY <1>0
    <2>2. \A n \in Nat, m \in Nat \ {0} : n \div m \in Nat
      OBVIOUS
    <2>3. delta \in Nat
      BY <2>1, <2>2
    <2>4. bump_index_wad(index, rate, slots) = MinOf(index + delta, INDEX_CAP_WAD)
      BY <1>2 DEF bump_index_wad
    <2> HIDE DEF delta
    <2> QED
      BY <1>0, <2>3, <2>4 DEF MinOf
  <1> QED
    BY <1>1, <1>2

-------------------------------------------------------------------------------
(* Who the rounding favours.                                                   *)

\* Products of naturals grow with their factors.
LEMMA ProductMonotone ==
    ASSUME NEW a \in Nat, NEW b \in Nat, NEW c \in Nat, NEW d \in Nat,
           a <= c, b <= d
    PROVE  a * b \in Nat /\ c * d \in Nat /\ a * b <= c * d
  <1>1. a * b <= c * b /\ c * b <= c * d
    OBVIOUS
  <1>2. a * b \in Nat /\ c * b \in Nat /\ c * d \in Nat
    OBVIOUS
  <1> QED
    BY <1>1, <1>2

\* A deposit is charged at least its share of each reserve.
LEMMA DepositFair ==
    ASSUME NEW m \in [Side -> Nat], NEW acc \in [Side -> Nat \ {0}],
           NEW supply \in Nat \ {0}, NEW s \in Side
    PROVE  /\ lp_for(m, acc, supply) \in Nat
           /\ deposit_charge(lp_for(m, acc, supply), m, acc, supply)[s] \in Nat
           /\ lp_for(m, acc, supply) * acc[s]
                <= deposit_charge(lp_for(m, acc, supply), m, acc, supply)[s] * supply
  <1> DEFINE lp == lp_for(m, acc, supply)
             ch == mul_div_ceil(lp, acc[s], supply)
             share(u) == mul_div(m[u], supply, acc[u])
  <1>1. \A u \in Side : share(u) \in Nat /\ share(u) * acc[u] <= m[u] * supply
    BY MulDiv
  <1>2. "A" \in Side /\ "B" \in Side /\ (s = "A" \/ s = "B")
    BY DEF Side
  <1>3. lp = MinOf(share("A"), share("B"))
    BY DEF lp_for
  <1>4. acc[s] \in Nat /\ m[s] \in Nat
    OBVIOUS
  <1> HIDE DEF share, lp
  <1>5. lp \in Nat /\ lp <= share(s)
    BY <1>1, <1>2, <1>3 DEF MinOf
  <1>6. lp * acc[s] <= m[s] * supply
    <2>1. lp * acc[s] <= share(s) * acc[s]
      BY <1>1, <1>4, <1>5
    <2> QED
      BY <1>1, <1>4, <1>5, <2>1
  <1>7. ch \in Nat /\ lp * acc[s] <= ch * supply
    BY <1>4, <1>5, MulDivCeil
  <1> HIDE DEF ch
  <1>8. deposit_charge(lp, m, acc, supply)[s] = MinOf(ch, m[s])
    BY DEF deposit_charge, ch
  <1> QED
    BY <1>4, <1>5, <1>6, <1>7, <1>8 DEF MinOf, lp

\* A withdrawal is paid at most its share, and leaves something on a side that
\* holds something unless it burns the whole supply.
LEMMA WithdrawFair ==
    ASSUME NEW x \in Nat, NEW acc \in Nat, NEW supply \in Nat \ {0}, x <= supply
    PROVE  /\ mul_div(x, acc, supply) \in Nat
           /\ mul_div(x, acc, supply) * supply <= x * acc
           /\ x < supply /\ acc > 0 => mul_div(x, acc, supply) < acc
           /\ x = supply => mul_div(x, acc, supply) = acc
  <1> DEFINE q == mul_div(x, acc, supply)
  <1>1. q \in Nat /\ q * supply <= x * acc /\ x * acc < (q + 1) * supply
    BY MulDiv
  <1> HIDE DEF q
  <1>2. ASSUME x < supply, acc > 0 PROVE q < acc
    <2> SUFFICES ASSUME acc <= q PROVE FALSE
      BY <1>1
    <2>1. acc * supply <= q * supply
      BY <1>1
    <2>2. x * acc < supply * acc
      BY <1>2
    <2>3. acc * supply = supply * acc /\ x * acc \in Nat /\ q * supply \in Nat
      BY <1>1
    <2> QED
      BY <1>1, <2>1, <2>2, <2>3
  <1>3. ASSUME x = supply PROVE q = acc
    <2>1. q * supply <= acc * supply /\ acc * supply < (q + 1) * supply
      BY <1>1, <1>3
    <2>2. ~ (acc + 1 <= q)
      <3> SUFFICES ASSUME acc + 1 <= q PROVE FALSE
        OBVIOUS
      <3>1. (acc + 1) * supply <= q * supply
        BY <1>1
      <3>2. (acc + 1) * supply = acc * supply + supply
        OBVIOUS
      <3>3. acc * supply \in Nat /\ q * supply \in Nat
        BY <1>1
      <3> QED
        BY <2>1, <3>1, <3>2, <3>3
    <2>3. ~ (q + 1 <= acc)
      <3> SUFFICES ASSUME q + 1 <= acc PROVE FALSE
        OBVIOUS
      <3>1. (q + 1) * supply <= acc * supply
        BY <1>1
      <3>2. (q + 1) * supply \in Nat /\ acc * supply \in Nat
        BY <1>1
      <3> QED
        BY <2>1, <3>1, <3>2
    <2> QED
      BY <1>1, <2>2, <2>3
  <1> QED
    BY <1>1, <1>2, <1>3 DEF q

\* The protocol's skim and the part of the input that trades fit in the input.
LEMMA SkimFits ==
    ASSUME NEW amount \in Nat
    PROVE  protocol_portion(amount)
             + mul_div(amount, BPS_DENOM - SWAP_FEE_BPS, BPS_DENOM) <= amount
  <1> DEFINE B == BPS_DENOM
             F == SWAP_FEE_BPS
             fee == mul_div(amount, F, B)
             x == mul_div(amount, B - F, B)
             pp == protocol_portion(amount)
  <1>0. B \in Nat \ {0} /\ F \in Nat /\ F < B /\ B - F \in Nat
        /\ PROTOCOL_FEE_BPS \in Nat /\ PROTOCOL_FEE_BPS <= F
    BY UnitsAssumption, ParametersAssumption
  <1>1. fee \in Nat /\ fee * B <= amount * F
    BY <1>0, MulDiv
  <1>2. x \in Nat /\ x * B <= amount * (B - F)
    BY <1>0, MulDiv
  <1>3. pp \in Nat /\ pp <= fee
    <2>1. CASE F = 0 \/ PROTOCOL_FEE_BPS = 0
      BY <1>1, <2>1 DEF protocol_portion
    <2>2. CASE ~ (F = 0 \/ PROTOCOL_FEE_BPS = 0)
      <3>1. F \in Nat \ {0}
        BY <1>0, <2>2
      <3>2. pp = mul_div(fee, PROTOCOL_FEE_BPS, F)
        BY <2>2 DEF protocol_portion
      <3> HIDE DEF pp, fee, F
      <3>3. mul_div(fee, PROTOCOL_FEE_BPS, F) \in Nat
            /\ mul_div(fee, PROTOCOL_FEE_BPS, F) <= fee
        BY <1>0, <1>1, <3>1, MulDiv, MulDivShrinks
      <3> QED
        BY <3>2, <3>3
    <2> QED
      BY <2>1, <2>2
  <1> HIDE DEF B, F, fee, x, pp
  <1>4. (fee + x) * B <= amount * B
    <2>1. (fee + x) * B = fee * B + x * B
      BY <1>0, <1>1, <1>2
    <2>2. amount * F + amount * (B - F) = amount * B
      BY <1>0
    <2>3. fee * B \in Nat /\ x * B \in Nat /\ amount * F \in Nat
          /\ amount * (B - F) \in Nat /\ amount * B \in Nat
      BY <1>0, <1>1, <1>2
    <2> QED
      BY <1>1, <1>2, <2>1, <2>2, <2>3
  <1>5. ~ (amount + 1 <= fee + x)
    <2> SUFFICES ASSUME amount + 1 <= fee + x PROVE FALSE
      OBVIOUS
    <2>1. (amount + 1) * B <= (fee + x) * B
      BY <1>0, <1>1, <1>2
    <2>2. (amount + 1) * B = amount * B + B
      BY <1>0
    <2>3. amount * B \in Nat /\ (fee + x) * B \in Nat
      BY <1>0, <1>1, <1>2
    <2> QED
      BY <1>0, <1>4, <2>1, <2>2, <2>3
  <1>6. pp + x <= amount
    BY <1>1, <1>2, <1>3, <1>5
  <1> QED
    BY <1>6 DEF pp, x, B, F

\* The curve: what a trade pays out for the part x of its input keeps the
\* product, and any larger growth g of the input reserve does too.
LEMMA CurveKeepsProduct ==
    ASSUME NEW x \in Nat, NEW g \in Nat, x <= g,
           NEW rin \in Nat \ {0}, NEW rout \in Nat \ {0}
    PROVE  rin * rout <= (rin + g) * (rout - mul_div(x, rout, rin + x))
  <1> DEFINE q == mul_div(x, rout, rin + x)
  <1>1. q \in Nat /\ q * (rin + x) <= x * rout
    <2>1. rin + x \in Nat \ {0} /\ rout \in Nat
      OBVIOUS
    <2> QED
      BY <2>1, MulDiv
  <1> HIDE DEF q
  <1>2. q <= rout
    <2> SUFFICES ASSUME rout + 1 <= q PROVE FALSE
      BY <1>1
    <2>1. (rout + 1) * (rin + x) <= q * (rin + x)
      BY <1>1
    <2>2. (rout + 1) * (rin + x) = rout * rin + rout * x + rin + x
      OBVIOUS
    <2>3. rout * rin \in Nat /\ rout * x \in Nat /\ rout * x = x * rout
          /\ q * (rin + x) \in Nat
      BY <1>1
    <2> QED
      BY <1>1, <2>1, <2>2, <2>3
  <1> DEFINE k == rout - q
  <1>3. k \in Nat
    BY <1>1, <1>2
  <1>4. (rin + x) * k = rin * rout + x * rout - q * (rin + x)
    BY <1>1
  <1> HIDE DEF k
  <1>5. (rin + x) * k <= (rin + g) * k
    BY <1>3
  <1>6. rin * rout \in Nat /\ x * rout \in Nat /\ q * (rin + x) \in Nat
        /\ (rin + g) * k \in Nat
    BY <1>1, <1>3
  <1>7. rin * rout <= (rin + g) * k
    BY <1>1, <1>4, <1>5, <1>6
  <1> QED
    BY <1>7 DEF q, k

-------------------------------------------------------------------------------
(* Sums.  What MapThenSumSet computes, for every finite set: the totals of the *)
(* Pool are such sums over the open loans.                                     *)
(*                                                                             *)
(* The library's induction theorems take the induction hypothesis as an        *)
(* operator, which the provers cannot instantiate.  The proofs here take a     *)
(* smallest counterexample instead: a set, whose existence is a theorem about  *)
(* well-founded relations without such a parameter.                            *)

\* The sum of the values of the function f over the set S.
SumOf(f, S) == MapThenSumSet(LAMBDA x : f[x], S)

-------------------------------------------------------------------------------
(* The recursion behind it.                                                    *)

Pick(s) == CHOOSE x \in s : TRUE

\* it is the recursive function that MapThenFoldSet defines on the subsets of S.
Sums(f, S, it) ==
    it = [s \in SUBSET S |-> IF s = {} THEN 0 ELSE f[Pick(s)] + it[s \ {Pick(s)}]]

LEMMA SumOfDef ==
    ASSUME NEW f, NEW S
    PROVE  SumOf(f, S) = (CHOOSE it : Sums(f, S, it))[S]
  BY Zenon DEF SumOf, MapThenSumSet, MapThenFoldSet, Sums, Pick

LEMMA PickIn == ASSUME NEW s, s # {} PROVE Pick(s) \in s
  BY Zenon DEF Pick

\* A nonempty family of subsets of a finite set has a member none of whose
\* proper subsets is in the family.
LEMMA Smallest ==
    ASSUME NEW S, IsFiniteSet(S), NEW F \in SUBSET (SUBSET S), F # {}
    PROVE  \E X \in F : \A Y \in SUBSET X : Y # X => Y \notin F
<1>1. F \subseteq FiniteSubsetsOf(S)
  BY FS_Subset DEF FiniteSubsetsOf
<1>2. \E X \in F : \A Y \in F : ~ (<<Y, X>> \in StrictSubsetOrdering(S))
  BY <1>1, WFMin, FS_StrictSubsetOrderingWellFounded
<1> QED
  BY <1>2 DEF StrictSubsetOrdering

LEMMA SumsStep ==
    ASSUME NEW f, NEW S, NEW it, Sums(f, S, it), NEW X \in SUBSET S
    PROVE  /\ X = {} => it[X] = 0
           /\ X # {} => /\ Pick(X) \in X
                        /\ X \ {Pick(X)} \in SUBSET X
                        /\ X \ {Pick(X)} # X
                        /\ it[X] = f[Pick(X)] + it[X \ {Pick(X)}]
<1>1. it[X] = IF X = {} THEN 0 ELSE f[Pick(X)] + it[X \ {Pick(X)}]
  BY DEF Sums
<1> QED
  BY <1>1, PickIn

\* Two such functions agree where the functions they sum do.
LEMMA SumsAgree ==
    ASSUME NEW f, NEW h, NEW S, NEW T, NEW i, NEW j,
           Sums(f, S, i), Sums(h, T, j),
           NEW U, U \subseteq S, U \subseteq T, IsFiniteSet(U),
           \A x \in U : f[x] = h[x]
    PROVE  i[U] = j[U]
<1> DEFINE Bad == {X \in SUBSET U : i[X] # j[X]}
<1> SUFFICES ASSUME Bad # {} PROVE FALSE
  OBVIOUS
<1>1. PICK X \in Bad : \A Y \in SUBSET X : Y # X => Y \notin Bad
  <2>1. Bad \in SUBSET (SUBSET U)
    OBVIOUS
  <2> HIDE DEF Bad
  <2> QED
    BY <2>1, Smallest
<1>2. X \in SUBSET S /\ X \in SUBSET T /\ X \subseteq U /\ i[X] # j[X]
  OBVIOUS
<1> DEFINE p == Pick(X)
<1>3. X # {}
  BY <1>2, SumsStep
<1>4. /\ p \in X /\ X \ {p} \in SUBSET X /\ X \ {p} # X
      /\ i[X] = f[p] + i[X \ {p}] /\ j[X] = h[p] + j[X \ {p}]
  BY <1>2, <1>3, SumsStep
<1> HIDE DEF p
<1>5. i[X \ {p}] = j[X \ {p}]
  BY <1>1, <1>2, <1>4
<1>6. f[p] = h[p]
  BY <1>2, <1>4
<1> QED
  BY <1>2, <1>4, <1>5, <1>6

LEMMA SumsExist ==
    ASSUME NEW f, NEW S, IsFiniteSet(S)
    PROVE  \E it : Sums(f, S, it)
<1> DEFINE Good(X) == \E it : Sums(f, X, it)
           Bad     == {X \in SUBSET S : ~ Good(X)}
<1> SUFFICES ASSUME Bad # {} PROVE FALSE
  OBVIOUS
<1>1. PICK X \in Bad : \A Y \in SUBSET X : Y # X => Y \notin Bad
  <2>1. Bad \in SUBSET (SUBSET S)
    OBVIOUS
  <2> HIDE DEF Bad
  <2> QED
    BY <2>1, Smallest
<1>2. X \in SUBSET S /\ ~ Good(X) /\ \A Y \in SUBSET X : Y # X => Good(Y)
  BY <1>1
<1> DEFINE G(Y) == CHOOSE it : Sums(f, Y, it)
           h    == [Y \in SUBSET X |->
                      IF Y = {} THEN 0
                      ELSE f[Pick(Y)] + G(Y \ {Pick(Y)})[Y \ {Pick(Y)}]]
<1>3. ASSUME NEW Y \in SUBSET X, Y # X PROVE Sums(f, Y, G(Y))
  <2>1. \E it : Sums(f, Y, it)
    BY <1>2, <1>3
  <2> QED
    BY <2>1, Zenon
<1> HIDE DEF G, Good, Bad
<1>4. ASSUME NEW Z \in SUBSET X, Z # X PROVE h[Z] = G(Z)[Z]
  <2>1. Sums(f, Z, G(Z))
    BY <1>3, <1>4
  <2>2. CASE Z = {}
    BY <2>1, <2>2, SumsStep
  <2>3. CASE Z # {}
    <3> DEFINE p == Pick(Z)
               W == Z \ {p}
    <3>1. p \in Z /\ W \in SUBSET Z /\ W # Z /\ G(Z)[Z] = f[p] + G(Z)[W]
      BY <2>1, <2>3, SumsStep
    <3>2. W \in SUBSET X /\ W # X
      BY <3>1
    <3>3. Sums(f, W, G(W))
      BY <3>2, <1>3
    <3>4. IsFiniteSet(W)
      BY <3>2, <1>2, FS_Subset
    <3>5. G(Z)[W] = G(W)[W]
      <4> HIDE DEF W
      <4> QED
        BY <2>1, <3>1, <3>3, <3>4, SumsAgree
    <3>6. h[Z] = f[p] + G(W)[W]
      BY <2>3
    <3> QED
      BY <3>1, <3>5, <3>6
  <2> QED
    BY <2>2, <2>3
<1>5. ASSUME NEW Y \in SUBSET X
      PROVE  h[Y] = IF Y = {} THEN 0 ELSE f[Pick(Y)] + h[Y \ {Pick(Y)}]
  <2>1. CASE Y = {}
    BY <2>1
  <2>2. CASE Y # {}
    <3> DEFINE Z == Y \ {Pick(Y)}
    <3>1. Z \in SUBSET X /\ Z # X
      BY <2>2, PickIn
    <3>2. h[Y] = f[Pick(Y)] + G(Z)[Z]
      BY <2>2
    <3>3. h[Z] = G(Z)[Z]
      BY <3>1, <1>4
    <3> HIDE DEF h
    <3> QED
      BY <2>2, <3>2, <3>3
  <2> QED
    BY <2>1, <2>2
<1>6. h = [Y \in SUBSET X |-> h[Y]]
  OBVIOUS
<1> HIDE DEF h
<1>7. Sums(f, X, h)
  BY <1>5, <1>6 DEF Sums
<1> QED
  BY <1>2, <1>7 DEF Good

\* The value of SumOf is that of any function the recursion describes.
LEMMA SumOfAny ==
    ASSUME NEW f, NEW S, IsFiniteSet(S), NEW T, S \subseteq T, NEW it, Sums(f, T, it)
    PROVE  SumOf(f, S) = it[S]
<1> DEFINE g == CHOOSE i : Sums(f, S, i)
<1>1. Sums(f, S, g)
  BY SumsExist, Zenon
<1>2. SumOf(f, S) = g[S]
  BY SumOfDef
<1> HIDE DEF g
<1> QED
  BY <1>1, <1>2, SumsAgree

-------------------------------------------------------------------------------
(* The facts.                                                                  *)

LEMMA SumEmpty == ASSUME NEW f PROVE SumOf(f, {}) = 0
<1>1. PICK it : Sums(f, {}, it)
  BY SumsExist, FS_EmptySet
<1>2. it[{}] = 0
  BY <1>1, SumsStep
<1> QED
  BY <1>1, <1>2, SumOfAny, FS_EmptySet

\* Functions that agree on a set have the same sum over it.
LEMMA SumSame ==
    ASSUME NEW f, NEW g, NEW S, IsFiniteSet(S), \A x \in S : f[x] = g[x]
    PROVE  SumOf(f, S) = SumOf(g, S)
<1>1. PICK i : Sums(f, S, i)
  BY SumsExist
<1>2. PICK j : Sums(g, S, j)
  BY SumsExist
<1>3. i[S] = j[S]
  BY <1>1, <1>2, SumsAgree
<1> QED
  BY <1>1, <1>2, <1>3, SumOfAny

LEMMA SumNat ==
    ASSUME NEW f, NEW S, IsFiniteSet(S), \A x \in S : f[x] \in Nat
    PROVE  SumOf(f, S) \in Nat
<1>1. PICK it : Sums(f, S, it)
  BY SumsExist
<1> DEFINE Bad == {X \in SUBSET S : it[X] \notin Nat}
<1>2. Bad = {}
  <2> SUFFICES ASSUME Bad # {} PROVE FALSE
    OBVIOUS
  <2>1. PICK X \in Bad : \A Y \in SUBSET X : Y # X => Y \notin Bad
    <3>1. Bad \in SUBSET (SUBSET S)
      OBVIOUS
    <3> HIDE DEF Bad
    <3> QED
      BY <3>1, Smallest
  <2>2. X \in SUBSET S /\ it[X] \notin Nat
    OBVIOUS
  <2> DEFINE p == Pick(X)
  <2>3. X # {}
    <3>1. X = {} => it[X] = 0
      BY <1>1, <2>2, SumsStep
    <3>2. 0 \in Nat
      OBVIOUS
    <3> QED
      BY <2>2, <3>1, <3>2
  <2>4. p \in X /\ X \ {p} \in SUBSET X /\ X \ {p} # X /\ it[X] = f[p] + it[X \ {p}]
    BY <1>1, <2>2, <2>3, SumsStep
  <2> HIDE DEF p
  <2>5. it[X \ {p}] \in Nat
    BY <2>1, <2>2, <2>4
  <2>6. f[p] \in Nat
    BY <2>2, <2>4
  <2> QED
    BY <2>2, <2>4, <2>5, <2>6
<1>3. it[S] \in Nat
  BY <1>2
<1> QED
  BY <1>1, <1>3, SumOfAny

\* Any element can be taken out, not only the one the recursion picks.
LEMMA SumTake ==
    ASSUME NEW f, NEW S, IsFiniteSet(S), \A x \in S : f[x] \in Nat, NEW y \in S
    PROVE  /\ SumOf(f, S) = f[y] + SumOf(f, S \ {y})
           /\ SumOf(f, S \ {y}) \in Nat
<1>1. PICK it : Sums(f, S, it)
  BY SumsExist
<1>2. ASSUME NEW X \in SUBSET S PROVE it[X] \in Nat
  <2>1. IsFiniteSet(X) /\ \A x \in X : f[x] \in Nat
    BY FS_Subset
  <2>2. SumOf(f, X) \in Nat
    BY <2>1, SumNat
  <2>3. SumOf(f, X) = it[X]
    BY <2>1, <1>1, SumOfAny
  <2> QED
    BY <2>2, <2>3
<1> DEFINE Bad == {X \in SUBSET S : \E z \in X : it[X] # f[z] + it[X \ {z}]}
<1>3. Bad = {}
  <2> SUFFICES ASSUME Bad # {} PROVE FALSE
    OBVIOUS
  <2>1. PICK X \in Bad : \A Y \in SUBSET X : Y # X => Y \notin Bad
    <3>1. Bad \in SUBSET (SUBSET S)
      OBVIOUS
    <3> HIDE DEF Bad
    <3> QED
      BY <3>1, Smallest
  <2>2. PICK z \in X : it[X] # f[z] + it[X \ {z}]
    OBVIOUS
  <2>3. X \in SUBSET S
    OBVIOUS
  <2> DEFINE p == Pick(X)
  <2>4. p \in X /\ it[X] = f[p] + it[X \ {p}]
    BY <1>1, <2>2, <2>3, SumsStep
  <2> HIDE DEF p
  <2>5. p # z
    BY <2>2, <2>4
  <2>6. \A Y \in SUBSET X : Y # X => \A w \in Y : it[Y] = f[w] + it[Y \ {w}]
    BY <2>1, <2>3
  <2>7. it[X \ {p}] = f[z] + it[(X \ {p}) \ {z}]
    BY <2>4, <2>5, <2>6
  <2>8. it[X \ {z}] = f[p] + it[(X \ {z}) \ {p}]
    BY <2>4, <2>5, <2>6
  <2>9. (X \ {p}) \ {z} = (X \ {z}) \ {p}
    OBVIOUS
  <2>10. it[(X \ {z}) \ {p}] \in Nat /\ f[p] \in Nat /\ f[z] \in Nat
    BY <1>2, <2>3, <2>4
  <2>11. it[X] = f[p] + (f[z] + it[(X \ {z}) \ {p}])
    BY <2>4, <2>7, <2>9
  <2>12. it[X] # f[z] + (f[p] + it[(X \ {z}) \ {p}])
    BY <2>2, <2>8
  <2> QED
    BY <2>10, <2>11, <2>12
<1>4. it[S] = f[y] + it[S \ {y}]
  BY <1>3
<1>5. IsFiniteSet(S \ {y}) /\ S \ {y} \subseteq S
  BY FS_Subset
<1> QED
  BY <1>1, <1>2, <1>4, <1>5, SumOfAny

LEMMA SumAdd ==
    ASSUME NEW f, NEW S, IsFiniteSet(S), NEW y, y \notin S,
           \A x \in S \cup {y} : f[x] \in Nat
    PROVE  SumOf(f, S \cup {y}) = SumOf(f, S) + f[y]
<1>1. IsFiniteSet(S \cup {y})
  BY FS_AddElement
<1>2. (S \cup {y}) \ {y} = S
  OBVIOUS
<1> DEFINE T == S \cup {y}
<1>3. y \in T /\ IsFiniteSet(T) /\ (\A x \in T : f[x] \in Nat) /\ T \ {y} = S
  BY <1>1, <1>2
<1> HIDE DEF T
<1>4. SumOf(f, T) = f[y] + SumOf(f, T \ {y}) /\ SumOf(f, T \ {y}) \in Nat
  BY <1>3, SumTake
<1>5. SumOf(f, T) = f[y] + SumOf(f, S) /\ SumOf(f, S) \in Nat
  BY <1>3, <1>4
<1>6. f[y] \in Nat
  BY <1>3
<1> QED
  BY <1>5, <1>6 DEF T

\* No summand exceeds the sum, and a sum of zero has no positive summand.
LEMMA SumBound ==
    ASSUME NEW f, NEW S, IsFiniteSet(S), \A x \in S : f[x] \in Nat, NEW y \in S
    PROVE  f[y] <= SumOf(f, S)
<1>1. SumOf(f, S) = f[y] + SumOf(f, S \ {y}) /\ SumOf(f, S \ {y}) \in Nat
  BY SumTake
<1>2. f[y] \in Nat
  OBVIOUS
<1> QED
  BY <1>1, <1>2

\* A sum falls apart into the sums over a subset and over the rest.
LEMMA SumSplit ==
    ASSUME NEW f, NEW S, IsFiniteSet(S), \A x \in S : f[x] \in Nat,
           NEW D, D \subseteq S
    PROVE  /\ SumOf(f, S) = SumOf(f, D) + SumOf(f, S \ D)
           /\ SumOf(f, D) \in Nat /\ SumOf(f, S \ D) \in Nat
<1>0. \A X \in SUBSET S : IsFiniteSet(X) /\ SumOf(f, X) \in Nat
  <2> SUFFICES ASSUME NEW X \in SUBSET S PROVE IsFiniteSet(X) /\ SumOf(f, X) \in Nat
    OBVIOUS
  <2>1. IsFiniteSet(X)
    BY FS_Subset
  <2>2. \A x \in X : f[x] \in Nat
    OBVIOUS
  <2> QED
    BY <2>1, <2>2, SumNat
<1> DEFINE Good(X) == SumOf(f, S) = SumOf(f, X) + SumOf(f, S \ X)
           Bad     == {X \in SUBSET S : ~ Good(X)}
<1>1. Bad = {}
  <2> SUFFICES ASSUME Bad # {} PROVE FALSE
    OBVIOUS
  <2>1. PICK X \in Bad : \A Y \in SUBSET X : Y # X => Y \notin Bad
    <3>1. Bad \in SUBSET (SUBSET S)
      OBVIOUS
    <3> HIDE DEF Bad
    <3> QED
      BY <3>1, Smallest
  <2>2. X \in SUBSET S /\ ~ Good(X) /\ \A Y \in SUBSET X : Y # X => Good(Y)
    BY <2>1
  <2>3. X # {}
    <3>1. SumOf(f, {}) = 0 /\ S \ {} = S /\ SumOf(f, S) \in Nat
      BY <1>0, SumEmpty
    <3>2. Good({})
      BY <3>1
    <3> HIDE DEF Good
    <3> QED
      BY <2>2, <3>2
  <2>4. PICK y : y \in X
    BY <2>3
  <2> DEFINE Y == X \ {y}
             R == S \ Y
  <2>5. SumOf(f, S) = SumOf(f, Y) + SumOf(f, R)
    <3>1. Y \in SUBSET X /\ Y # X
      BY <2>4
    <3> HIDE DEF Y
    <3> QED
      BY <2>2, <3>1
  <2>6. SumOf(f, X) = f[y] + SumOf(f, Y)
    <3>1. IsFiniteSet(X) /\ \A x \in X : f[x] \in Nat
      BY <1>0, <2>2
    <3> QED
      BY <2>4, <3>1, SumTake
  <2>7. SumOf(f, R) = f[y] + SumOf(f, S \ X)
    <3>1. R \ {y} = S \ X /\ y \in R /\ R \in SUBSET S
      BY <2>2, <2>4
    <3> HIDE DEF R
    <3>2. IsFiniteSet(R) /\ \A x \in R : f[x] \in Nat
      BY <1>0, <3>1
    <3>3. SumOf(f, R) = f[y] + SumOf(f, R \ {y})
      BY <3>1, <3>2, SumTake
    <3> QED
      BY <3>1, <3>3
  <2> DEFINE a == SumOf(f, Y)
             b == SumOf(f, S \ X)
             u == SumOf(f, S)
             v == SumOf(f, X)
             w == SumOf(f, R)
  <2>8. a \in Nat /\ b \in Nat /\ f[y] \in Nat
    BY <1>0, <2>2, <2>4
  <2>9. u = a + w /\ v = f[y] + a /\ w = f[y] + b /\ ~ (u = v + b)
    BY <2>2, <2>5, <2>6, <2>7
  <2> HIDE DEF a, b, u, v, w
  <2> QED
    BY <2>8, <2>9
<1>2. Good(D)
  BY <1>1
<1> QED
  BY <1>0, <1>2

=============================================================================
