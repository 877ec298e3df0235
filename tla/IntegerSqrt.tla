---------------------------- MODULE IntegerSqrt ------------------------------
(* isqrt_u128 of math.rs, loop iteration by loop iteration, on words of W bits *)
(* (128 in the code).  The first deposit of a pool mints floor(sqrt(a * b)) LP *)
(* tokens; LiquidityMath uses the result, this module the iteration.           *)
EXTENDS Integers, FiniteSets

CONSTANT W    \* word width

ASSUME WidthAssumption == W \in Nat /\ W >= 4

\* What the provers need to know of the powers of two: facts of arithmetic,
\* stated here because they do not interpret `^'.
ASSUME PowersAssumption ==
    /\ \A k \in 0..(W + 1) : 2^k \in Nat
    /\ 2^0 = 1 /\ 2^1 = 2 /\ 2^3 = 8
    /\ \A j, k \in 0..(W + 1) : j < k => 2^j < 2^k
    /\ \A j, k \in 0..W : j + k <= W + 1 => 2^(j + k) = 2^j * 2^k

VARIABLES
    n,    \* the argument
    x,    \* the current estimate, and at the end the result
    pc    \* "start", "loop" or "done"

vars == <<n, x, pc>>

\* Bit length: the width less the leading zeros.
bits(k) == Cardinality({i \in 0..(W - 1) : 2^i <= k})

seed_low(k) == 2^(bits(k) \div 2)    \* rounds the exponent down

seed_high(k) == 2^bits(k)            \* forgets to halve it

\* The first estimate: a power of two not below the root.
seed(k) == 2^((bits(k) + 1) \div 2)

estimate(k, e) == (e + k \div e) \div 2

converged_fault(y, e) == y = e    \* waits for a fixed point

converged(y, e) == y >= e

Init ==
    /\ n \in 0..(2^W - 1)
    /\ x = 0
    /\ pc = "start"

Start ==
    /\ pc = "start"
    /\ IF n = 0
       THEN pc' = "done" /\ x' = 0
       ELSE pc' = "loop" /\ x' = seed(n)
    /\ UNCHANGED n

Iterate ==
    /\ pc = "loop"
    /\ IF converged(estimate(n, x), x)
       THEN pc' = "done" /\ x' = x
       ELSE pc' = "loop" /\ x' = estimate(n, x)
    /\ UNCHANGED n

Next == Start \/ Iterate

\* The runtime keeps executing an instruction it has started.
Spec == Init /\ [][Next]_vars /\ WF_vars(Next)

-------------------------------------------------------------------------------
(* Properties.                                                                 *)

\* The result is floor(sqrt(n)), on and next to perfect squares and up to the
\* largest word: LP shares of a first deposit are never rounded up.
FloorSqrt == pc = "done" => x * x <= n /\ n < (x + 1) * (x + 1)

\* No iteration divides by zero or overflows the word in `x + n / x`.
StaysInWord == pc = "loop" => x # 0 /\ x < 2^W /\ x + n \div x < 2^W

\* The loop ends: the estimates fall until they stop falling, and never
\* oscillate between two neighbours of the root.
Terminates == <>(pc = "done")

=============================================================================
