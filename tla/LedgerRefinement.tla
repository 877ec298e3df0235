-------------------------- MODULE LedgerRefinement ---------------------------
(* LiquidityPool implements LendingLedger: the totals, counters, bands and     *)
(* bitmaps it keeps, the accounts a caller of Swap must list and the loop over *)
(* them never show.                                                            *)
EXTENDS LiquidityPool

\* A Loan account as the ledger sees it.
LedgerLoan(x) ==
    CASE x.status = "open"       -> [status |-> "open", side |-> x.side,
                                     collateral |-> x.collateral,
                                     principal |-> x.principal]
      [] x.status = "liquidated" -> [status |-> "liquidated"]
      [] x.status = "none"       -> [status |-> "none"]

Ledger == INSTANCE LendingLedger
             WITH cash   <- real,
                  fees   <- pool.protocol_fees,
                  loans  <- [l \in LoanId |-> LedgerLoan(loan[l])],
                  shares <- lp_supply

\* Every behaviour of the pool is one of the ledger: each instruction is one of
\* the ledger's steps, a settling swap a single trade, and a swap in flight or
\* reverted, a tick of the clock or an accrual of interest no step at all.
ImplementsLedger == Ledger!Spec

=============================================================================
