--------------------------- MODULE MCLiquidityPool ---------------------------
(* Small instances of LiquidityPool for TLC: the values its .cfg files give to *)
(* the constants that are not plain numbers.                                   *)
EXTENDS LiquidityPool

Nothing == {}

\* Lending.cfg: two loans, swaps in both directions, one slot.  The first and
\* third terms share a band, the second is one band below; the third borrows a
\* whole side.
LendingSupply == [s \in Side |-> IF s = "A" THEN 16 ELSE 12]
LendingDeposits == {<<6, 6>>}
LendingTerms == {<<"A", 2, 1>>, <<"A", 4, 1>>, <<"A", 9, 6>>, <<"B", 4, 3>>}
LendingSwaps == {<<"A", 4>>, <<"A", 8>>, <<"B", 5>>}

\* Interest.cfg: interest over several slots, up to the cap of the index.
InterestSupply == [s \in Side |-> IF s = "A" THEN 20 ELSE 18]
InterestDeposits == {<<8, 8>>}
InterestTerms == {<<"A", 8, 6>>, <<"B", 5, 2>>}
InterestSwaps == {<<"A", 5>>}

\* Shares.cfg: deposits, withdrawals, LP burns and donations around a loan.
SharesSupply == [s \in Side |-> IF s = "A" THEN 13 ELSE 12]
SharesDeposits == {<<6, 6>>, <<3, 2>>}
SharesTerms == {<<"A", 3, 1>>, <<"B", 3, 1>>}
SharesDonations == {<<"A", 2>>}

\* Exit.cfg: trades and liquidations, one per swap, while providers leave.
ExitSupply == [s \in Side |-> IF s = "A" THEN 19 ELSE 12]
ExitDeposits == {<<6, 6>>, <<3, 2>>}
ExitTerms == {<<"A", 3, 1>>}
ExitSwaps == {<<"A", 5>>, <<"B", 5>>}

\* Progress.cfg: swaps that trigger none, one or two loans, with room for one.
ProgressTerms == {<<"A", 2, 1>>, <<"A", 4, 1>>}
ProgressSwaps == {<<"A", 8>>, <<"B", 5>>}

\* Insolvent.cfg: a pool lent out almost completely.
LentOutSupply == [s \in Side |-> 30]
LentOutDeposits == {<<8, 8>>}
LentOutTerms == {<<"A", 16, 7>>}
LentOutSwaps == {<<"A", 5>>}

=============================================================================
