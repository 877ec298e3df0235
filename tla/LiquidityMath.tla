---------------------------- MODULE LiquidityMath ----------------------------
(* The arithmetic of programs/chiefliquidity/src/math.rs, and the pure parts   *)
(* of the instructions: prices, quotes, triggers, bands, interest, LP shares.  *)
(*                                                                             *)
(* Every operator is the code's formula with the code's rounding.  The 128/256 *)
(* bit intermediates never overflow for u64 amounts (math.rs says why at each  *)
(* product), so unbounded integers stand for them; a division whose divisor is *)
(* zero, and a subtraction that underflows, are errors in the code and appear  *)
(* as guards of the actions that use these operators.                          *)
(*                                                                             *)
(* An operator named ..._fault is a plausible defect of the one that follows   *)
(* it.  No specification uses it; each shows that some property notices.       *)
EXTENDS Integers, FiniteSets

CONSTANTS
    WAD,                     \* fixed-point one, 10^18
    BPS_DENOM,               \* basis points in one, 10^4
    WORD_BITS,               \* width of a price: 128
    LOG2_WAD,                \* floor(log2(WAD)): 59
    BAND_OFFSET,             \* band of price one: 64
    MAX_BAND_ID,             \* largest band the bitmap holds: 127
    SWAP_FEE_BPS, PROTOCOL_FEE_BPS,
    LIQ_RATIO_BPS, MAX_LTV_BPS,
    INTEREST_BASE_BPS, INTEREST_SLOPE1_BPS, INTEREST_SLOPE2_BPS,
    INTEREST_KINK_BPS,
    SLOTS_PER_YEAR,
    INDEX_CAP_WAD,           \* saturation value of a borrow index
    REF_PRICE_WINDOW_SLOTS,  \* window of the reference price's average: 150
    MIN_FIRST_DEPOSIT,       \* least first deposit on each side
    MINIMUM_LIQUIDITY        \* floor of a nonzero LP supply: 1000

ASSUME UnitsAssumption ==
    /\ WAD \in Nat \ {0}
    /\ BPS_DENOM \in Nat \ {0}
    /\ BPS_DENOM <= WAD
    /\ WORD_BITS \in Nat \ {0}
    /\ LOG2_WAD \in Nat
    /\ BAND_OFFSET \in Nat
    /\ LOG2_WAD <= BAND_OFFSET
    /\ MAX_BAND_ID \in Nat

\* The compile-time asserts of initialize_pool.rs, without their upper limits
\* on individual parameters, which nothing here depends on.
ASSUME ParametersAssumption ==
    /\ SWAP_FEE_BPS \in Nat /\ SWAP_FEE_BPS < BPS_DENOM
    /\ PROTOCOL_FEE_BPS \in Nat /\ PROTOCOL_FEE_BPS <= SWAP_FEE_BPS
    /\ LIQ_RATIO_BPS \in Nat /\ LIQ_RATIO_BPS > BPS_DENOM
    /\ MAX_LTV_BPS \in Nat \ {0}
    /\ MAX_LTV_BPS * LIQ_RATIO_BPS < BPS_DENOM * BPS_DENOM
    /\ INTEREST_BASE_BPS \in Nat
    /\ INTEREST_SLOPE1_BPS \in Nat
    /\ INTEREST_SLOPE2_BPS \in Nat
    /\ INTEREST_KINK_BPS \in Nat /\ INTEREST_KINK_BPS < BPS_DENOM
    /\ (INTEREST_KINK_BPS * WAD) \div BPS_DENOM > 0
    /\ SLOTS_PER_YEAR \in Nat \ {0}
    /\ INDEX_CAP_WAD \in Nat /\ INDEX_CAP_WAD >= WAD
    /\ REF_PRICE_WINDOW_SLOTS \in Nat \ {0}
    /\ MINIMUM_LIQUIDITY \in Nat \ {0}
    /\ MIN_FIRST_DEPOSIT \in Nat /\ MIN_FIRST_DEPOSIT >= MINIMUM_LIQUIDITY

\* What the provers need to know of the powers of two a price is compared with:
\* facts of arithmetic, stated here because they do not interpret `^'.
ASSUME PowersAssumption ==
    /\ 2^0 = 1
    /\ \A k \in 0..WORD_BITS : 2^k \in Nat
    /\ \A j, k \in 0..WORD_BITS : j < k => 2^j < 2^k

-------------------------------------------------------------------------------
(* The two tokens.  A loan with collateral on side c owes on the other side,   *)
(* and its trigger direction is a function of c: "A" stands for CollateralA    *)
(* and OnFall, "B" for CollateralB and OnRise (recompute_trigger).  A swap     *)
(* that pays in side c moves the price towards the triggers of those loans.    *)

Side == {"A", "B"}

Other(s) == IF s = "A" THEN "B" ELSE "A"

BandId == 0..MAX_BAND_ID

MinOf(x, y) == IF x <= y THEN x ELSE y

MaxOf(x, y) == IF x <= y THEN y ELSE x

mul_div(a, b, c) == (a * b) \div c

mul_div_ceil(a, b, c) ==
    IF (a * b) % c = 0 THEN (a * b) \div c ELSE (a * b) \div c + 1

\* floor(sqrt(n)): what the Newton iteration of isqrt_u128 returns.
isqrt(n) == Cardinality({k \in 1..n : k * k <= n})

-------------------------------------------------------------------------------
(* Interest: utilisation, the kinked rate curve, the borrow index.             *)

utilization_wad(debt, accounted) ==
    IF accounted = 0 THEN 0 ELSE MinOf(mul_div(debt, WAD, accounted), WAD)

bps_to_wad(bps) == bps * (WAD \div BPS_DENOM)

kink_wad == (INTEREST_KINK_BPS * WAD) \div BPS_DENOM

compute_borrow_rate(util) ==
    IF util <= kink_wad
    THEN bps_to_wad(INTEREST_BASE_BPS)
         + mul_div(bps_to_wad(INTEREST_SLOPE1_BPS), util, kink_wad)
    ELSE bps_to_wad(INTEREST_BASE_BPS) + bps_to_wad(INTEREST_SLOPE1_BPS)
         + mul_div(bps_to_wad(INTEREST_SLOPE2_BPS), util - kink_wad,
                   WAD - kink_wad)

bump_index_wad_fault(index, rate, slots) ==    \* wraps instead of saturating
    (index + (index * rate * slots) \div (SLOTS_PER_YEAR * WAD))
       % (INDEX_CAP_WAD + 1)

bump_index_wad(index, rate, slots) ==
    IF rate = 0 \/ slots = 0 \/ index >= INDEX_CAP_WAD
    THEN index
    ELSE MinOf(index + (index * rate * slots) \div (SLOTS_PER_YEAR * WAD),
               INDEX_CAP_WAD)

owed_from_index(principal, snapshot, current) ==
    mul_div_ceil(principal, current, snapshot)

-------------------------------------------------------------------------------
(* Prices are B per A, WAD-scaled, rounded down.                               *)

price_b_per_a_wad(a, b) == mul_div(b, WAD, a)

cpmm_quote_out_fault(amount_in, reserve_in, reserve_out) ==    \* rounds up
    LET in_after_fee == mul_div(amount_in, BPS_DENOM - SWAP_FEE_BPS, BPS_DENOM)
    IN  mul_div_ceil(in_after_fee, reserve_out, reserve_in + in_after_fee)

cpmm_quote_out(amount_in, reserve_in, reserve_out) ==
    LET in_after_fee == mul_div(amount_in, BPS_DENOM - SWAP_FEE_BPS, BPS_DENOM)
    IN  mul_div(in_after_fee, reserve_out, reserve_in + in_after_fee)

\* The protocol's share of the fee, skimmed from the input (swap.rs).
protocol_portion(amount_in) ==
    IF SWAP_FEE_BPS = 0 \/ PROTOCOL_FEE_BPS = 0
    THEN 0
    ELSE mul_div(mul_div(amount_in, SWAP_FEE_BPS, BPS_DENOM),
                 PROTOCOL_FEE_BPS, SWAP_FEE_BPS)

recompute_trigger_fault(c, collateral, debt) ==    \* rounds up
    IF c = "A"
    THEN mul_div_ceil(debt * LIQ_RATIO_BPS, WAD, collateral * BPS_DENOM)
    ELSE mul_div_ceil(collateral * BPS_DENOM, WAD, debt * LIQ_RATIO_BPS)

recompute_trigger(c, collateral, debt) ==
    IF c = "A"
    THEN (debt * LIQ_RATIO_BPS * WAD) \div (collateral * BPS_DENOM)
    ELSE (collateral * BPS_DENOM * WAD) \div (debt * LIQ_RATIO_BPS)

is_liquidatable(c, trigger, price) ==
    IF c = "A" THEN price <= trigger ELSE price >= trigger

ltv_bps(debt, collateral, price_num, price_den) ==
    (debt * BPS_DENOM * price_num) \div (collateral * price_den)

floor_log2_fault(x) ==    \* rounds up
    Cardinality({k \in 0..(WORD_BITS - 1) : 2^k < x})

\* floor(log2(x)) for 1 <= x < 2^WORD_BITS, the number of powers of two in 2..x;
\* the code reads it off the leading zeros.
floor_log2(x) == Cardinality({k \in 1..(WORD_BITS - 1) : 2^k <= x})

band_id_for_trigger(x) == floor_log2(x) + BAND_OFFSET - LOG2_WAD

\* The least price of a band, and the least one beyond it; log2 values of
\* WORD_BITS and more are errors in the code.
band_min_wad(b) ==
    IF b + LOG2_WAD < BAND_OFFSET THEN 0 ELSE 2^(b + LOG2_WAD - BAND_OFFSET)

band_max_wad(b) == band_min_wad(b + 1)

ema_ref_price_wad(prev, spot, elapsed) ==
    IF prev = 0 \/ elapsed >= REF_PRICE_WINDOW_SLOTS
    THEN spot
    ELSE IF spot >= prev
         THEN prev + mul_div(spot - prev, elapsed, REF_PRICE_WINDOW_SLOTS)
         ELSE prev - mul_div(prev - spot, elapsed, REF_PRICE_WINDOW_SLOTS)

-------------------------------------------------------------------------------
(* LP shares.  acc is the pair of accounted reserves, supply the LP supply.    *)

\* The amounts of a later deposit matched to the pool's ratio.
matched_deposit(a_max, b_max, acc) ==
    LET ideal_b == mul_div(a_max, acc["B"], acc["A"])
    IN  IF ideal_b <= b_max
        THEN [s \in Side |-> IF s = "A" THEN a_max ELSE ideal_b]
        ELSE [s \in Side |->
                IF s = "A" THEN mul_div(b_max, acc["A"], acc["B"]) ELSE b_max]

\* LP minted for matched amounts m.
lp_for(m, acc, supply) ==
    MinOf(mul_div(m["A"], supply, acc["A"]), mul_div(m["B"], supply, acc["B"]))

deposit_charge_fault(lp, m, acc, supply) ==    \* rounds down
    [s \in Side |-> MinOf(mul_div(lp, acc[s], supply), m[s])]

\* What the depositor is charged for lp, rounded up, never more than matched.
deposit_charge(lp, m, acc, supply) ==
    [s \in Side |-> MinOf(mul_div_ceil(lp, acc[s], supply), m[s])]

withdrawal_amounts_fault(lp, acc, supply) ==    \* rounds up
    [s \in Side |-> mul_div_ceil(lp, acc[s], supply)]

\* Proportional share of each side for lp burned, rounded down.
withdrawal_amounts(lp, acc, supply) ==
    [s \in Side |-> mul_div(lp, acc[s], supply)]

\* TRUE when burning lp leaves a supply the floor allows.
check_supply_floor(supply, lp) ==
    ~ (supply >= MINIMUM_LIQUIDITY /\ supply - lp # 0
       /\ supply - lp < MINIMUM_LIQUIDITY)

=============================================================================
