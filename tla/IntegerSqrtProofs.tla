-------------------------- MODULE IntegerSqrtProofs --------------------------
(* Proofs about IntegerSqrt: isqrt_u128 returns the floor of the root and its  *)
(* sum stays in the word, for words of any width from four bits.               *)
(*                                                                             *)
(* Newton's iteration is correct because no estimate is below the root.  The   *)
(* seed is not, being a power of two whose square passes the argument, and the *)
(* mean of x and n / x is not, whatever x is.                                  *)
EXTENDS IntegerSqrt, FiniteSetTheorems, TLAPS

\* The exponent of the largest seed.
TopExp == (W + 1) \div 2

\* x + 1 is past the root, and x no larger than the largest seed.
Above(k, e) == e \in Nat \ {0} /\ k < (e + 1) * (e + 1) /\ e <= 2^TopExp

SqrtInv ==
    /\ n \in Nat /\ n < 2^W
    /\ pc \in {"start", "loop", "done"}
    /\ pc = "loop" => n # 0 /\ Above(n, x)
    /\ FloorSqrt

LEMMA Exponents ==
    /\ TopExp \in Nat /\ TopExp + 1 <= W - 1 /\ TopExp <= W
    /\ \A m \in 0..W : /\ (m + 1) \div 2 \in 0..TopExp
                       /\ (m + 1) \div 2 + (m + 1) \div 2 >= m
                       /\ (m + 1) \div 2 + (m + 1) \div 2 <= W + 1
  BY WidthAssumption DEF TopExp

\* The bit length of an argument is that of a power of two above it.
LEMMA BitsAbove ==
    ASSUME NEW k \in Nat, k < 2^W
    PROVE  bits(k) \in 0..W /\ k < 2^bits(k)
<1> DEFINE P == {i \in 0..(W - 1) : 2^i <= k}
           m == Cardinality(P)
<1>0. /\ W \in Nat /\ W >= 4
      /\ \A j \in 0..(W + 1) : 2^j \in Nat
      /\ \A i, j \in 0..(W + 1) : i < j => 2^i < 2^j
  BY WidthAssumption, PowersAssumption
<1>1. IsFiniteSet(0..(W - 1)) /\ Cardinality(0..(W - 1)) = W
  BY <1>0, FS_Interval
<1>2. IsFiniteSet(P) /\ m \in Nat /\ m <= W
  BY <1>1, FS_Subset, FS_CardinalityType
<1>3. \A i \in 0..(W - 1) : i \in P <=> 2^i <= k
  OBVIOUS
<1>4. bits(k) = m
  BY DEF bits
<1> HIDE DEF P, m
<1>5. k < 2^m
  <2>1. 2^m \in Nat
    BY <1>0, <1>2
  <2>2. CASE m = W
    BY <2>2
  <2>3. CASE m # W
    <3> SUFFICES ASSUME 2^m <= k PROVE FALSE
      BY <2>1
    <3>1. ASSUME NEW i \in 0..m PROVE i \in P
      <4>1. i \in 0..(W - 1) /\ i \in 0..(W + 1) /\ m \in 0..(W + 1)
        BY <1>0, <1>2, <2>3
      <4>2. 2^i <= 2^m /\ 2^i \in Nat
        BY <1>0, <4>1
      <4> QED
        BY <1>3, <2>1, <4>1, <4>2
    <3>2. 0..m \subseteq P
      BY <3>1
    <3>3. Cardinality(0..m) = m + 1
      BY <1>2, FS_Interval
    <3>4. Cardinality(0..m) <= Cardinality(P)
      BY <1>2, <3>2, FS_Subset
    <3> QED
      BY <1>2, <3>3, <3>4 DEF m
  <2> QED
    BY <2>2, <2>3
<1> QED
  BY <1>0, <1>2, <1>4, <1>5

\* The seed is not below the root.
LEMMA SeedAbove ==
    ASSUME NEW k \in Nat, k < 2^W
    PROVE  Above(k, seed(k))
<1> DEFINE m == bits(k)
           h == (m + 1) \div 2
           s == 2^h
<1>1. m \in 0..W /\ k < 2^m
  BY BitsAbove
<1>2. /\ h \in 0..TopExp /\ h + h >= m /\ h + h <= W + 1
      /\ TopExp \in Nat /\ TopExp <= W
  BY <1>1, Exponents
<1>3. /\ W \in Nat
      /\ \A j \in 0..(W + 1) : 2^j \in Nat
      /\ \A i, j \in 0..(W + 1) : i < j => 2^i < 2^j
      /\ \A i, j \in 0..W : i + j <= W + 1 => 2^(i + j) = 2^i * 2^j
      /\ 2^0 = 1
  BY WidthAssumption, PowersAssumption
<1>4. seed(k) = s
  BY DEF seed
<1> HIDE DEF m, h
<1>5. 2^(h + h) = s * s
  BY <1>2, <1>3
<1>6. 2^m <= 2^(h + h)
  BY <1>1, <1>2, <1>3
<1>7. s \in Nat /\ s >= 1
  BY <1>2, <1>3
<1>8. s <= 2^TopExp
  BY <1>2, <1>3
<1> HIDE DEF s
<1>9. 2^m \in Nat
  BY <1>1, <1>3
<1>10. k < s * s
  BY <1>1, <1>5, <1>6, <1>7, <1>9
<1>11. s * s <= (s + 1) * (s + 1)
  BY <1>7
<1> QED
  BY <1>4, <1>7, <1>8, <1>10, <1>11 DEF Above

\* One iteration: with q the quotient and y the mean of x and q, y is not below
\* the root either, because four times the product of two numbers is at most the
\* square of their sum.
LEMMA MeanAbove ==
    ASSUME NEW k \in Nat \ {0}, NEW e \in Nat \ {0}
    PROVE  /\ estimate(k, e) \in Nat \ {0}
           /\ k < (estimate(k, e) + 1) * (estimate(k, e) + 1)
           /\ estimate(k, e) >= e => e * e <= k
<1> DEFINE q == k \div e
           y == (e + q) \div 2
<1>1. q \in Nat /\ q * e <= k /\ k < (q + 1) * e
  OBVIOUS
<1>2. estimate(k, e) = y
  BY DEF estimate
<1> HIDE DEF q
<1>3. y \in Nat /\ 2 * y <= e + q /\ e + q <= 2 * y + 1
  BY <1>1
<1>4. e + q >= 2
  <2>1. e = 1 => q >= 1
    BY <1>1
  <2> QED
    BY <1>1, <2>1
<1> HIDE DEF y
<1>5. y >= 1
  BY <1>1, <1>3, <1>4
<1>6. k < (y + 1) * (y + 1)
  <2> DEFINE a == q + 1
             t == e + a
             u == 2 * (y + 1)
  <2>1. a \in Nat /\ t \in Nat /\ u \in Nat /\ t <= u
    BY <1>1, <1>3
  <2>2. 4 * (a * e) <= (e + a) * (e + a)
    <3>1. (e + a) * (e + a) = (e - a) * (e - a) + 4 * (a * e)
      BY <2>1
    <3>2. (e - a) * (e - a) >= 0
      BY <2>1
    <3> QED
      BY <2>1, <3>1, <3>2
  <2>3. t * t <= u * u
    <3> HIDE DEF t, u
    <3>1. t * t <= u * t
      BY <2>1
    <3>2. u * t <= u * u
      BY <2>1
    <3> QED
      BY <2>1, <3>1, <3>2
  <2>4. u * u = 4 * ((y + 1) * (y + 1))
    BY <1>3
  <2>5. k < a * e
    BY <1>1
  <2> DEFINE Y == (y + 1) * (y + 1)
             Z == a * e
             T == t * t
  <2>6. Y \in Nat /\ Z \in Nat /\ T \in Nat /\ 4 * Z <= T /\ T <= 4 * Y /\ k < Z
    BY <1>3, <2>1, <2>2, <2>3, <2>4, <2>5
  <2> HIDE DEF Y, Z, T
  <2>7. k < Y
    BY <2>6
  <2> QED
    BY <2>7 DEF Y
<1>7. y >= e => e * e <= k
  <2> SUFFICES ASSUME y >= e PROVE e * e <= k
    OBVIOUS
  <2>1. q >= e
    BY <1>1, <1>3
  <2>2. e * e <= q * e
    BY <1>1, <2>1
  <2> QED
    BY <1>1, <2>2
<1> QED
  BY <1>2, <1>3, <1>5, <1>6, <1>7

LEMMA SqrtInit == Init => SqrtInv
  BY WidthAssumption, PowersAssumption DEF Init, SqrtInv, FloorSqrt

LEMMA SqrtNext == SqrtInv /\ [Next]_vars => SqrtInv'
<1> SUFFICES ASSUME SqrtInv, [Next]_vars PROVE SqrtInv'
  OBVIOUS
<1>1. CASE Start
  <2>1. CASE n = 0
    BY <1>1, <2>1 DEF Start, SqrtInv, FloorSqrt
  <2>2. CASE n # 0
    <3>1. Above(n, seed(n))
      BY SeedAbove DEF SqrtInv
    <3> QED
      BY <1>1, <2>2, <3>1 DEF Start, SqrtInv, FloorSqrt
  <2> QED
    BY <2>1, <2>2
<1>2. CASE Iterate
  <2> DEFINE y == estimate(n, x)
  <2>1. n \in Nat \ {0} /\ Above(n, x)
    BY <1>2 DEF Iterate, SqrtInv
  <2>2. x \in Nat \ {0} /\ x <= 2^TopExp /\ n < (x + 1) * (x + 1)
    BY <2>1 DEF Above
  <2>3. /\ y \in Nat \ {0} /\ n < (y + 1) * (y + 1)
        /\ y >= x => x * x <= n
    BY <2>1, <2>2, MeanAbove
  <2> HIDE DEF y
  <2>4. CASE converged(y, x)
    <3>1. pc' = "done" /\ x' = x /\ n' = n
      BY <1>2, <2>4 DEF Iterate, y
    <3>2. x * x <= n
      BY <2>3, <2>4 DEF converged
    <3> QED
      BY <2>2, <3>1, <3>2 DEF SqrtInv, FloorSqrt
  <2>5. CASE ~ converged(y, x)
    <3>1. pc' = "loop" /\ x' = y /\ n' = n
      BY <1>2, <2>5 DEF Iterate, y
    <3>2. y < x
      BY <2>2, <2>3, <2>5 DEF converged
    <3>3. 2^TopExp \in Nat
      BY Exponents, PowersAssumption, WidthAssumption
    <3>4. Above(n, y)
      BY <2>2, <2>3, <3>2, <3>3 DEF Above
    <3> QED
      BY <2>1, <3>1, <3>4 DEF SqrtInv, FloorSqrt
  <2> QED
    BY <2>4, <2>5
<1>3. CASE UNCHANGED vars
  BY <1>3 DEF vars, SqrtInv, FloorSqrt
<1> QED
  BY <1>1, <1>2, <1>3 DEF Next

\* isqrt_u128 returns the floor of the root of every word, perfect squares, their
\* neighbours and the largest word included, so the LP minted to the first
\* depositor is never rounded up.
THEOREM RootExact == Spec => []FloorSqrt
<1>1. SqrtInv => FloorSqrt
  BY DEF SqrtInv
<1> QED
  BY SqrtInit, SqrtNext, <1>1, PTL DEF Spec

\* In every iteration the divisor is nonzero and the sum `x + n / x' fits the
\* word: no estimate passes the largest seed, and n / x is at most x + 2 once x
\* is not below the root.
THEOREM SumInWord == Spec => []StaysInWord
<1>1. SqrtInv => StaysInWord
  <2> SUFFICES ASSUME SqrtInv, pc = "loop"
               PROVE  x # 0 /\ x < 2^W /\ x + n \div x < 2^W
    BY DEF StaysInWord
  <2> DEFINE q == n \div x
             H == 2^TopExp
  <2>1. n \in Nat /\ x \in Nat \ {0} /\ n < (x + 1) * (x + 1) /\ x <= H
    BY DEF SqrtInv, Above
  <2>2. q \in Nat /\ q * x <= n
    BY <2>1
  <2> HIDE DEF q
  <2>3. q <= x + 2
    <3> SUFFICES ASSUME q >= x + 3 PROVE FALSE
      BY <2>1, <2>2
    <3>1. (x + 3) * x <= q * x
      BY <2>1, <2>2
    <3>2. (x + 3) * x < (x + 1) * (x + 1)
      BY <2>1, <2>2, <3>1
    <3>3. (x + 3) * x = x * x + 3 * x /\ (x + 1) * (x + 1) = x * x + 2 * x + 1
      BY <2>1
    <3> QED
      BY <2>1, <3>2, <3>3
  <2>4. /\ H \in Nat /\ 2 * H = 2^(TopExp + 1) /\ 2^(TopExp + 1) <= 2^(W - 1)
        /\ 2^W = 2 * 2^(W - 1) /\ 2^(W - 1) >= 8 /\ 2^(W - 1) \in Nat
    <3>1. /\ W \in Nat /\ W >= 4
          /\ TopExp \in Nat /\ TopExp + 1 <= W - 1
      BY Exponents, WidthAssumption
    <3>2. /\ \A j \in 0..(W + 1) : 2^j \in Nat
          /\ \A i, j \in 0..(W + 1) : i < j => 2^i < 2^j
          /\ \A i, j \in 0..W : i + j <= W + 1 => 2^(i + j) = 2^i * 2^j
          /\ 2^1 = 2 /\ 2^3 = 8
      BY PowersAssumption
    <3>3. H \in Nat /\ 2^(W - 1) \in Nat
      BY <3>1, <3>2
    <3>4. ASSUME NEW i \in 0..W PROVE 2^(i + 1) = 2^i * 2
      <4> DEFINE j == 1
      <4>1. j \in 0..W /\ i + j <= W + 1 /\ 2^j = 2
        BY <3>1, <3>2
      <4> HIDE DEF j
      <4>2. 2^(i + j) = 2^i * 2^j
        BY <3>2, <4>1
      <4> QED
        BY <4>1, <4>2 DEF j
    <3>5. 2^(TopExp + 1) = 2^TopExp * 2 /\ 2^((W - 1) + 1) = 2^(W - 1) * 2
      BY <3>1, <3>4
    <3>7. (W - 1) + 1 = W
      BY <3>1
    <3>6. 2^(TopExp + 1) <= 2^(W - 1) /\ 2^3 <= 2^(W - 1)
      BY <3>1, <3>2
    <3> QED
      BY <3>2, <3>3, <3>5, <3>6, <3>7
  <2> DEFINE G == 2^(W - 1)
  <2>5. 2^W = 2 * G /\ 2 * H <= G /\ G >= 8 /\ G \in Nat /\ H \in Nat
    BY <2>4
  <2> HIDE DEF G, H
  <2>6. x + q < 2 * G /\ x < 2 * G
    BY <2>1, <2>2, <2>3, <2>5
  <2> QED
    BY <2>1, <2>5, <2>6 DEF q
<1> QED
  BY SqrtInit, SqrtNext, <1>1, PTL DEF Spec

=============================================================================
