---------------------------- MODULE LoanTriggers -----------------------------
(* One loan from its opening, while trades move the reserves: the cached       *)
(* trigger price and its band against the loan-to-value definition they stand  *)
(* for, in exact arithmetic.  LiquidityPool compares rounded numbers; here is  *)
(* what the comparisons mean.                                                  *)
EXTENDS LiquidityMath

CONSTANTS
    Amounts,   \* collateral and debt amounts
    Reserves   \* accounted reserves of either side

ASSUME AmountsAssumption ==
    Amounts \subseteq Nat \ {0} /\ Reserves \subseteq Nat \ {0}

VARIABLES
    terms,    \* [side, collateral, debt] of the loan
    reserve   \* reserve[s]: the accounted reserve of side s

vars == <<terms, reserve>>

spot == price_b_per_a_wad(reserve["A"], reserve["B"])

trigger == recompute_trigger(terms.side, terms.collateral, terms.debt)

\* The checks of OpenLoan on the terms, with the reference price at spot; a
\* trigger that does not fit its word is an error of recompute_trigger.
Accepted ==
    LET c == terms.side
    IN  /\ ltv_bps(terms.debt, terms.collateral, reserve[c], reserve[Other(c)])
              <= MAX_LTV_BPS
        /\ ~ is_liquidatable(c, trigger, spot)
        /\ trigger # 0 /\ trigger < 2^WORD_BITS

Init ==
    /\ terms \in [side: Side, collateral: Amounts, debt: Amounts]
    /\ reserve \in [Side -> Reserves]
    /\ Accepted

\* A swap, or anything else that changes the reserves.
Move(r) ==
    /\ r # reserve
    /\ reserve' = r
    /\ UNCHANGED terms

Next == \E r \in [Side -> Reserves] : Move(r)

Spec == Init /\ [][Next]_vars

-------------------------------------------------------------------------------
(* Properties.                                                                 *)

\* The collateral is worth at most the debt times the liquidation ratio, at the
\* exact ratio of the reserves.
Undercollateralised ==
    LET c == terms.side
        d == Other(c)
    IN  terms.collateral * reserve[d] * BPS_DENOM
           <= terms.debt * reserve[c] * LIQ_RATIO_BPS

\* Rounding the price and the trigger never lets a loan that has reached the
\* liquidation ratio look healthy, on either side.
NoneEscapes == Undercollateralised => is_liquidatable(terms.side, trigger, spot)

\* A liquidatable loan is within one unit of the rounded price of its exact
\* liquidation ratio: a healthy loan is not taken for an unhealthy one.
TakenInTime ==
    is_liquidatable(terms.side, trigger, spot) =>
       LET A == reserve["A"]
           B == reserve["B"]
           C == terms.collateral * BPS_DENOM
           D == terms.debt * LIQ_RATIO_BPS
       IN  IF terms.side = "A"
           THEN (B * WAD - A) * C < D * WAD * A
           ELSE C * WAD * A < (B * WAD + A) * D

\* The band of a loan holds its trigger, powers of two included, and once the
\* price is in a band beyond it the loan is not liquidatable: a swap need not
\* list the bands on the far side of the one it ends in.
BandHolds ==
    LET b == band_id_for_trigger(trigger)
    IN  /\ band_min_wad(b) <= trigger /\ trigger < band_max_wad(b)
        /\ spot # 0 /\ (IF terms.side = "A" THEN b < band_id_for_trigger(spot)
                                            ELSE b > band_id_for_trigger(spot))
              => ~ is_liquidatable(terms.side, trigger, spot)

=============================================================================
