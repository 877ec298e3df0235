--------------------------- MODULE MCLoanTriggers ----------------------------
(* The instance of LoanTriggers for TLC: LoanTriggers.cfg.                     *)
EXTENDS LoanTriggers

SmallAmounts == 1..9
SmallReserves == 1..10

=============================================================================
