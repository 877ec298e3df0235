------------------------- MODULE LoanTriggersProofs --------------------------
(* Proofs about LoanTriggers: what the comparison of a rounded price with a    *)
(* rounded trigger means, for any amounts, reserves and parameters.            *)
EXTENDS LoanTriggers, LiquidityMathProofs

\* The terms and the reserves stay amounts, and the trigger is one OpenLoan
\* accepts: it is a function of the terms, which do not change.
TriggersInv ==
    /\ terms \in [side: Side, collateral: Amounts, debt: Amounts]
    /\ reserve \in [Side -> Reserves]
    /\ trigger # 0 /\ trigger < 2^WORD_BITS

LEMMA TriggersInit == Init => TriggersInv
  BY DEF Init, Accepted, TriggersInv

LEMMA TriggersNext == TriggersInv /\ [Next]_vars => TriggersInv'
<1>1. ASSUME TriggersInv, [Next]_vars
      PROVE  terms' = terms /\ reserve' \in [Side -> Reserves]
  BY <1>1 DEF TriggersInv, Next, Move, vars
<1> QED
  BY <1>1 DEF TriggersInv, trigger

\* The amounts the properties multiply, and the two divisions: the trigger is
\* the quotient of C and D or of D and C, the price that of the reserves.
LEMMA Quantities ==
    ASSUME TriggersInv
    PROVE  LET A == reserve["A"]
               B == reserve["B"]
               C == terms.collateral * BPS_DENOM
               D == terms.debt * LIQ_RATIO_BPS
           IN  /\ A \in Nat \ {0} /\ B \in Nat \ {0} /\ WAD \in Nat \ {0}
               /\ C \in Nat \ {0} /\ D \in Nat \ {0}
               /\ spot = (B * WAD) \div A
               /\ terms.side = "A" => trigger = (D * WAD) \div C
               /\ terms.side = "B" => trigger = (C * WAD) \div D
               /\ terms.side \in {"A", "B"}
               /\ trigger \in Nat /\ spot \in Nat
<1>1. /\ terms.side \in Side /\ terms.collateral \in Nat \ {0}
      /\ terms.debt \in Nat \ {0}
      /\ reserve["A"] \in Nat \ {0} /\ reserve["B"] \in Nat \ {0}
  BY AmountsAssumption DEF TriggersInv, Side
<1>2. /\ BPS_DENOM \in Nat \ {0} /\ LIQ_RATIO_BPS \in Nat \ {0} /\ WAD \in Nat \ {0}
  BY UnitsAssumption, ParametersAssumption
<1>3. trigger \in Nat /\ spot \in Nat
  BY <1>1, TriggerType, PriceType DEF trigger, spot
<1>4. /\ terms.collateral * BPS_DENOM \in Nat \ {0}
      /\ terms.debt * LIQ_RATIO_BPS \in Nat \ {0}
  BY <1>1, <1>2
<1> QED
  BY <1>1, <1>2, <1>3, <1>4 DEF Side, spot, trigger, price_b_per_a_wad, mul_div, recompute_trigger

\* Rounding the price and the trigger down never hides a loan that has reached
\* its liquidation ratio from the loop of Swap, in either direction: the floors
\* compare as the exact ratios do.
THEOREM LiquidatableWhenDue == Spec => []NoneEscapes
<1>1. TriggersInv => NoneEscapes
  <2> SUFFICES ASSUME TriggersInv, Undercollateralised
               PROVE  is_liquidatable(terms.side, trigger, spot)
    BY DEF NoneEscapes
  <2> DEFINE A == reserve["A"]
             B == reserve["B"]
             C == terms.collateral * BPS_DENOM
             D == terms.debt * LIQ_RATIO_BPS
  <2>1. /\ A \in Nat \ {0} /\ B \in Nat \ {0} /\ WAD \in Nat \ {0}
        /\ C \in Nat \ {0} /\ D \in Nat \ {0}
        /\ spot = (B * WAD) \div A
        /\ terms.side = "A" => trigger = (D * WAD) \div C
        /\ terms.side = "B" => trigger = (C * WAD) \div D
        /\ terms.side \in {"A", "B"}
        /\ trigger \in Nat /\ spot \in Nat
    BY Quantities
  <2>2. /\ terms.collateral \in Nat /\ terms.debt \in Nat
        /\ BPS_DENOM \in Nat /\ LIQ_RATIO_BPS \in Nat
    BY AmountsAssumption, UnitsAssumption, ParametersAssumption DEF TriggersInv
  <2>3. CASE terms.side = "A"
    <3>1. terms.collateral * B * BPS_DENOM <= terms.debt * A * LIQ_RATIO_BPS
      BY <2>3 DEF Undercollateralised, Other
    <3>2. C * B <= D * A
      BY <2>1, <2>2, <3>1
    <3> HIDE DEF A, B, C, D
    <3>3. (C * B) * WAD <= (D * A) * WAD
      BY <2>1, <3>2
    <3>4. (B * WAD) * C <= (D * WAD) * A
      BY <2>1, <3>3
    <3>5. B * WAD \in Nat /\ D * WAD \in Nat
      BY <2>1
    <3>6. (B * WAD) \div A <= (D * WAD) \div C
      BY <2>1, <3>4, <3>5, DivMonotone
    <3> QED
      BY <2>1, <2>3, <3>6 DEF is_liquidatable
  <2>4. CASE terms.side = "B"
    <3>1. terms.collateral * A * BPS_DENOM <= terms.debt * B * LIQ_RATIO_BPS
      BY <2>4 DEF Undercollateralised, Other
    <3>2. C * A <= D * B
      BY <2>1, <2>2, <3>1
    <3> HIDE DEF A, B, C, D
    <3>3. (C * A) * WAD <= (D * B) * WAD
      BY <2>1, <3>2
    <3>4. (C * WAD) * A <= (B * WAD) * D
      BY <2>1, <3>3
    <3>5. B * WAD \in Nat /\ C * WAD \in Nat
      BY <2>1
    <3>6. (C * WAD) \div D <= (B * WAD) \div A
      BY <2>1, <3>4, <3>5, DivMonotone
    <3> QED
      BY <2>1, <2>4, <3>6 DEF is_liquidatable
  <2> QED
    BY <2>1, <2>3, <2>4
<1> QED
  BY TriggersInit, TriggersNext, <1>1, PTL DEF Spec

\* A loan the loop of Swap liquidates is within one unit of the rounded price of
\* its liquidation ratio.
THEOREM LiquidatedInTime == Spec => []TakenInTime
<1>1. TriggersInv => TakenInTime
  <2> SUFFICES ASSUME TriggersInv, is_liquidatable(terms.side, trigger, spot)
               PROVE  LET A == reserve["A"]
                          B == reserve["B"]
                          C == terms.collateral * BPS_DENOM
                          D == terms.debt * LIQ_RATIO_BPS
                      IN  IF terms.side = "A"
                          THEN (B * WAD - A) * C < D * WAD * A
                          ELSE C * WAD * A < (B * WAD + A) * D
    BY DEF TakenInTime
  <2> DEFINE A == reserve["A"]
             B == reserve["B"]
             C == terms.collateral * BPS_DENOM
             D == terms.debt * LIQ_RATIO_BPS
             BW == B * WAD
             CW == C * WAD
             DW == D * WAD
  <2>1. /\ A \in Nat \ {0} /\ B \in Nat \ {0} /\ WAD \in Nat \ {0}
        /\ C \in Nat \ {0} /\ D \in Nat \ {0}
        /\ spot = BW \div A
        /\ terms.side = "A" => trigger = DW \div C
        /\ terms.side = "B" => trigger = CW \div D
        /\ terms.side \in {"A", "B"}
        /\ trigger \in Nat /\ spot \in Nat
    BY Quantities
  <2> HIDE DEF A, B, C, D
  <2>2. BW \in Nat /\ CW \in Nat /\ DW \in Nat
    BY <2>1
  <2> HIDE DEF BW, CW, DW
  <2>3. \A n \in Nat, m \in Nat \ {0} :
           n \div m \in Nat /\ (n \div m) * m <= n /\ n < ((n \div m) + 1) * m
    OBVIOUS
  <2>4. spot * A <= BW /\ BW < (spot + 1) * A
    BY <2>1, <2>2, <2>3
  <2>5. CASE terms.side = "A"
    <3>1. trigger * C <= DW /\ spot <= trigger
      BY <2>1, <2>2, <2>3, <2>5 DEF is_liquidatable
    <3>2. BW - A < spot * A
      BY <2>1, <2>2, <2>4
    <3>3. (BW - A) * C < (spot * A) * C
      BY <2>1, <2>2, <3>2
    <3>4. (spot * A) * C = (spot * C) * A
      BY <2>1
    <3>5. spot * C <= trigger * C
      BY <2>1, <3>1
    <3>6. (spot * C) * A <= DW * A
      BY <2>1, <2>2, <3>1, <3>5
    <3>7. (BW - A) * C < DW * A
      BY <2>1, <2>2, <3>3, <3>4, <3>6
    <3> QED
      BY <2>5, <3>7 DEF A, B, C, D, BW, DW
  <2>6. CASE terms.side = "B"
    <3>1. CW < (trigger + 1) * D /\ trigger <= spot
      BY <2>1, <2>2, <2>3, <2>6 DEF is_liquidatable
    <3>2. (trigger + 1) * D <= (spot + 1) * D
      BY <2>1, <3>1
    <3>3. CW < (spot + 1) * D
      BY <2>1, <2>2, <3>1, <3>2
    <3>4. CW * A < ((spot + 1) * D) * A
      BY <2>1, <2>2, <3>3
    <3>5. ((spot + 1) * D) * A = (spot * A + A) * D
      BY <2>1
    <3>6. (spot * A + A) * D <= (BW + A) * D
      BY <2>1, <2>2, <2>4
    <3>7. CW * A < (BW + A) * D
      BY <2>1, <2>2, <3>4, <3>5, <3>6
    <3> QED
      BY <2>6, <3>7 DEF A, B, C, D, BW, CW
  <2> QED
    BY <2>1, <2>5, <2>6 DEF A, B, C, D
<1> QED
  BY TriggersInit, TriggersNext, <1>1, PTL DEF Spec

\* The band index sorts loans as their triggers do: each band holds the triggers
\* between its two powers of two, and a swap whose price ends in some band need
\* not list the bands beyond it.
THEOREM BandsSortTriggers == Spec => []BandHolds
<1>1. TriggersInv => BandHolds
  <2> SUFFICES ASSUME TriggersInv PROVE BandHolds
    OBVIOUS
  <2> DEFINE k == floor_log2(trigger)
             b == band_id_for_trigger(trigger)
  <2>1. trigger \in Nat \ {0} /\ spot \in Nat /\ trigger < 2^WORD_BITS
        /\ terms.side \in {"A", "B"}
    BY Quantities DEF TriggersInv
  <2>2. k \in Nat /\ 2^k <= trigger /\ trigger < 2^(k + 1)
    BY <2>1, FloorLog2, UnitsAssumption
  <2>3. b = k + BAND_OFFSET - LOG2_WAD
    BY DEF band_id_for_trigger
  <2> HIDE DEF k, b
  <2>4. /\ ~ (b + LOG2_WAD < BAND_OFFSET) /\ b + LOG2_WAD - BAND_OFFSET = k
        /\ ~ (b + 1 + LOG2_WAD < BAND_OFFSET) /\ b + 1 + LOG2_WAD - BAND_OFFSET = k + 1
    BY <2>2, <2>3, UnitsAssumption
  <2>5. band_min_wad(b) = 2^k /\ band_max_wad(b) = 2^(k + 1)
    BY <2>4 DEF band_min_wad, band_max_wad
  <2>6. band_min_wad(b) <= trigger /\ trigger < band_max_wad(b)
    BY <2>2, <2>5
  <2>7. b < band_id_for_trigger(spot) => ~ (spot <= trigger)
    BY <2>1, BandMonotone DEF b
  <2>8. b > band_id_for_trigger(spot) => ~ (spot >= trigger)
    BY <2>1, BandMonotone DEF b
  <2> QED
    BY <2>1, <2>6, <2>7, <2>8 DEF BandHolds, is_liquidatable, b
<1> QED
  BY TriggersInit, TriggersNext, <1>1, PTL DEF Spec

=============================================================================
