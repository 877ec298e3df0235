--------------------------- MODULE MCLoanAccounts ----------------------------
(* Instances of LoanAccounts for TLC.  Addresses are interchangeable: loans    *)
(* among themselves and bands among themselves.                                *)
EXTENDS LoanAccounts, TLC

Symmetry == Permutations(LoanAddr) \cup Permutations(BandAddr)

=============================================================================
