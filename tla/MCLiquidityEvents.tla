-------------------------- MODULE MCLiquidityEvents --------------------------
(* The instance of LiquidityEvents and of LedgerRefinement for TLC, with the   *)
(* values of MCLiquidityPool.  Ledger.cfg: every instruction, two slots.       *)
EXTENDS LiquidityEvents, LedgerRefinement, MCLiquidityPool

LedgerSupply == [s \in Side |-> IF s = "A" THEN 13 ELSE 10]
LedgerTerms == {<<"A", 2, 1>>, <<"B", 4, 3>>}
LedgerSwaps == {<<"A", 6>>, <<"B", 4>>}
LedgerDonations == {<<"B", 4>>}

=============================================================================
