--------------------------- MODULE LiquidityEvents ---------------------------
(* The events of events.rs, and an off-chain indexer that follows one pool     *)
(* from its creation by the events of committed transactions: it never reads   *)
(* an account.  Transfers to a vault and burns of LP tokens that bypass the    *)
(* program it sees as instructions of the token program.  Amounts that repeat  *)
(* in several events must agree with what the instructions did to the          *)
(* accounts, or its books drift.                                               *)
EXTENDS LiquidityPool, SequencesExt

VARIABLE view    \* what the indexer believes

events_vars == <<vars, view>>

-------------------------------------------------------------------------------
(* The events, with the fields an indexer adds up.  A primed variable is what  *)
(* the instruction has written when it emits.                                  *)

\* The amounts are those the handler computed before its transfers.
LiquidityAdded(a_max, b_max) ==
    LET p == bump_indexes(pool, real, slot)
        d == derive_deposit(a_max, b_max, accounted(p, real))
    IN  [event |-> "LiquidityAdded", amount_in |-> d.in, lp_minted |-> d.lp]

LiquidityRemoved(lp_amount) ==
    LET acc == accounted(bump_indexes(pool, real, slot), real)
    IN  [event |-> "LiquidityRemoved", lp_burned |-> lp_amount,
         amount_out |-> withdrawal_amounts(lp_amount, acc, lp_supply)]

LoanOpened(l, c, collateral, debt) ==
    [event |-> "LoanOpened", loan |-> l, side |-> c, collateral |-> collateral,
     debt |-> debt, band_id |-> loan'[l].band_id, trigger |-> loan'[l].trigger]

LoanRepaid(l) ==
    [event |-> "LoanRepaid", loan |-> l, debt_principal |-> loan[l].principal,
     total_owed |-> owed(loan[l], pool')]

LoanLiquidated_fault(l) ==    \* reads the account after it was zeroed
    [event |-> "LoanLiquidated", loan |-> l, side |-> loan'[l].side,
     collateral |-> loan'[l].collateral, debt_principal |-> loan'[l].principal]

\* The amounts are those the swap loaded, before the tombstone zeroes them.
LoanLiquidated(l) ==
    [event |-> "LoanLiquidated", loan |-> l, side |-> loan[l].side,
     collateral |-> loan[l].collateral, debt_principal |-> loan[l].principal]

SwapExecuted ==
    [event |-> "SwapExecuted", side |-> tx.in, amount_in |-> tx.amount,
     amount_out |-> quote(tx), liquidations |-> Cardinality(tx.liquidated),
     protocol_fee |-> protocol_portion(tx.amount)]

ProtocolFeesClaimed ==
    [event |-> "ProtocolFeesClaimed", amount |-> pool.protocol_fees]

LiquidatedRentClaimed(l) == [event |-> "LiquidatedRentClaimed", loan |-> l]

-------------------------------------------------------------------------------
(* The indexer (external).                                                     *)

\* A transfer to a vault, or a burn of LP tokens, outside the program.
GiftSeen(amount, lp_burned) ==
    [event |-> "Gift", amount |-> amount, lp_burned |-> lp_burned]

NoPosition == [status |-> "none"]

\* What it knows once it has seen PoolInitialized.
InitialView ==
    [vault |-> Zero, lp |-> 0, fees |-> Zero, total_debt |-> Zero,
     total_collateral |-> Zero, open_loans |-> 0,
     position |-> [l \in LoanId |-> NoPosition]]

Apply(v, e) ==
    CASE e.event = "LiquidityAdded" ->
           [v EXCEPT !.vault = [s \in Side |-> @[s] + e.amount_in[s]],
                     !.lp = @ + e.lp_minted]
      [] e.event = "LiquidityRemoved" ->
           [v EXCEPT !.vault = [s \in Side |-> @[s] - e.amount_out[s]],
                     !.lp = @ - e.lp_burned]
      [] e.event = "LoanOpened" ->
           [v EXCEPT !.vault[e.side] = @ + e.collateral,
                     !.vault[Other(e.side)] = @ - e.debt,
                     !.total_collateral[e.side] = @ + e.collateral,
                     !.total_debt[Other(e.side)] = @ + e.debt,
                     !.open_loans = @ + 1,
                     !.position[e.loan] =
                        [status |-> "open", side |-> e.side,
                         collateral |-> e.collateral, debt |-> e.debt,
                         band_id |-> e.band_id, trigger |-> e.trigger]]
      [] e.event = "LoanRepaid" ->
           LET x == v.position[e.loan]
           IN  [v EXCEPT !.vault[x.side] = @ - x.collateral,
                         !.vault[Other(x.side)] = @ + e.total_owed,
                         !.total_collateral[x.side] = @ - x.collateral,
                         !.total_debt[Other(x.side)] = @ - e.debt_principal,
                         !.open_loans = @ - 1,
                         !.position[e.loan] = NoPosition]
      [] e.event = "LoanLiquidated" ->
           [v EXCEPT !.total_collateral[e.side] = @ - e.collateral,
                     !.total_debt[Other(e.side)] = @ - e.debt_principal,
                     !.position[e.loan] = [status |-> "liquidated"]]
      [] e.event = "SwapExecuted" ->
           [v EXCEPT !.vault[e.side] = @ + e.amount_in,
                     !.vault[Other(e.side)] = @ - e.amount_out,
                     !.fees[e.side] = @ + e.protocol_fee,
                     !.open_loans = @ - e.liquidations]
      [] e.event = "ProtocolFeesClaimed" ->
           [v EXCEPT !.vault = [s \in Side |-> @[s] - e.amount[s]],
                     !.fees = [s \in Side |-> @[s] - e.amount[s]]]
      [] e.event = "Gift" ->
           [v EXCEPT !.vault = [s \in Side |-> @[s] + e.amount[s]],
                     !.lp = @ - e.lp_burned]
      [] e.event = "LiquidatedRentClaimed" ->
           [v EXCEPT !.position[e.loan] = NoPosition]

\* The transaction commits with these events in its log.  emit also has a branch
\* that drops an event whose serialisation fails; the code notes that it is not
\* reached, because the program would have aborted before.
Emit(es) == view' = FoldLeft(Apply, view, es)

-------------------------------------------------------------------------------

EventsInit == Init /\ view = InitialView

EventsNext ==
    \/ \E d \in Deposits, min \in Mins :
          AddLiquidity(d[1], d[2], min) /\ Emit(<<LiquidityAdded(d[1], d[2])>>)
    \/ \E x \in Burns, a, b \in Mins :
          RemoveLiquidity(x, a, b) /\ Emit(<<LiquidityRemoved(x)>>)
    \/ \E l \in LoanId, k \in LoanTerms :
          OpenLoan(l, k[1], k[2], k[3]) /\ Emit(<<LoanOpened(l, k[1], k[2], k[3])>>)
    \/ \E l \in LoanId : RepayLoan(l) /\ Emit(<<LoanRepaid(l)>>)
    \/ \E l \in LoanId :
          ClaimLiquidatedRent(l) /\ Emit(<<LiquidatedRentClaimed(l)>>)
    \/ ClaimProtocolFees /\ Emit(<<ProtocolFeesClaimed>>)
    \/ /\ CommitSwap
       /\ Emit(SetToSeq({LoanLiquidated(LoanAt(tx.tail, e)) : e \in tx.liquidated})
                 \o <<SwapExecuted>>)
    \/ /\ \/ \E k \in SwapIns, min \in Mins, boundary \in Boundaries :
               \E tail \in Tails(k[1]) : BeginSwap(k[1], k[2], min, boundary, tail)
          \/ LiquidateNext
          \/ AbortSwap
          \/ Tick
       /\ UNCHANGED view
    \/ \E k \in Donations :
          Donate(k[1], k[2]) /\ Emit(<<GiftSeen([Zero EXCEPT ![k[1]] = k[2]], 0)>>)
    \/ \E x \in DirectBurns : BurnLp(x) /\ Emit(<<GiftSeen(Zero, x)>>)

EventsSpec == EventsInit /\ [][EventsNext]_events_vars

-------------------------------------------------------------------------------
(* Properties.                                                                 *)

\* The position the indexer should hold for loan account x.
PositionOf(x) ==
    CASE x.status = "open"       -> [status |-> "open", side |-> x.side,
                                     collateral |-> x.collateral,
                                     debt |-> x.principal,
                                     band_id |-> x.band_id, trigger |-> x.trigger]
      [] x.status = "liquidated" -> [status |-> "liquidated"]
      [] x.status = "none"       -> NoPosition

\* The events are complete and consistent: whoever adds them up knows every open
\* loan with its band and trigger, which a caller of Swap must list, every
\* tombstone, the totals, counters and fees of the Pool account and the balances
\* of the vaults.
ViewExact ==
    /\ \A l \in LoanId : view.position[l] = PositionOf(loan[l])
    /\ view.total_debt = pool.total_debt
    /\ view.total_collateral = pool.total_collateral
    /\ view.open_loans = pool.open_loans
    /\ view.fees = pool.protocol_fees
    /\ view.vault = real
    /\ view.lp = lp_supply

=============================================================================
