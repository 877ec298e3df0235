---------------------------- MODULE LendingLedger ----------------------------
(* What the pool promises its users, without how it keeps the promise.         *)
(*                                                                             *)
(* A ledger of two vaults, the fees earmarked in them, the loans and the LP    *)
(* shares.  What is locked, lent and free is computed from the loans.  There   *)
(* are no running totals, no open-loan counter, no bands, bitmaps, indexes or  *)
(* reference price, nobody lists accounts, and a trade with all the            *)
(* liquidations it causes is one step.                                         *)
EXTENDS LiquidityMath, FiniteSetsExt

CONSTANT LoanId

VARIABLES
    cash,   \* cash[s]: tokens in the vault of side s
    fees,   \* fees[s]: the part of it that is the protocol's
    loans,  \* loans[l]: Absent, Dead or an open loan
    shares  \* LP tokens outstanding

vars == <<cash, fees, loans, shares>>

Absent == [status |-> "none"]

Dead == [status |-> "liquidated"]

OpenLoan(c, collateral, principal) ==
    [status |-> "open", side |-> c, collateral |-> collateral, principal |-> principal]

-------------------------------------------------------------------------------

\* The open loans with collateral on side c.
Secured(c) == {l \in LoanId : loans[l].status = "open" /\ loans[l].side = c}

Collateral(S) == MapThenSumSet(LAMBDA l : loans[l].collateral, S)

Principal(S) == MapThenSumSet(LAMBDA l : loans[l].principal, S)

\* What can be paid out of a vault: neither collateral nor fees.
Free(s) == cash[s] - Collateral(Secured(s)) - fees[s]

\* What the shares stand for: free tokens and tokens lent.
Claims == [s \in Side |-> Free(s) + Principal(Secured(Other(s)))]

Price == price_b_per_a_wad(Claims["A"], Claims["B"])

\* Loan x is past its trigger at the pool's price.
Underwater(x) ==
    is_liquidatable(x.side, recompute_trigger(x.side, x.collateral, x.principal), Price)

\* No side of a share shrinks in the step.
ShareValueKept ==
    shares > 0 => \A s \in Side : Claims[s]' * shares >= Claims[s] * shares'

-------------------------------------------------------------------------------

Init ==
    /\ cash = [s \in Side |-> 0]
    /\ fees = [s \in Side |-> 0]
    /\ loans = [l \in LoanId |-> Absent]
    /\ shares = 0

Deposit ==
    /\ \A s \in Side : cash'[s] >= cash[s]
    /\ shares' > shares
    /\ ShareValueKept
    /\ UNCHANGED <<fees, loans>>

\* Paid from what is free; the last share leaves no loan behind.
Withdraw ==
    /\ \A s \in Side : cash'[s] <= cash[s] /\ cash[s] - cash'[s] <= Free(s)
    /\ shares' < shares
    /\ shares' = 0 => \A c \in Side : Secured(c) = {}
    /\ ShareValueKept
    /\ UNCHANGED <<fees, loans>>

\* A loan is paid from what is free, within the limit at the pool's price and
\* not yet past its trigger.
Borrow(l) ==
    /\ loans[l] = Absent
    /\ loans'[l].status = "open"
    /\ loans' = [loans EXCEPT ![l] = loans'[l]]
    /\ LET x == loans'[l]
           c == x.side
           d == Other(c)
       IN  /\ x.collateral > 0 /\ x.principal > 0
           /\ x.principal <= Free(d)
           /\ ltv_bps(x.principal, x.collateral, Claims[c], Claims[d]) <= MAX_LTV_BPS
           /\ ~ Underwater(x)
           /\ cash' = [cash EXCEPT ![c] = @ + x.collateral, ![d] = @ - x.principal]
    /\ UNCHANGED <<fees, shares>>

\* The borrower returns the principal and interest, and gets the collateral.
Repay(l) ==
    /\ loans[l].status = "open"
    /\ loans' = [loans EXCEPT ![l] = Absent]
    /\ LET x == loans[l]
       IN  /\ cash'[x.side] = cash[x.side] - x.collateral
           /\ cash'[Other(x.side)] >= cash[Other(x.side)] + x.principal
    /\ UNCHANGED <<fees, shares>>

\* Side c is paid in, the other side out.  The loans in sold are written off:
\* their collateral joins the claims and their debt leaves them.  Afterwards no
\* open loan with collateral on side c is past its trigger.
Trade(c, sold) ==
    LET d      == Other(c)
        before == [Claims EXCEPT ![c] = @ + Collateral(sold),
                                 ![d] = @ - Principal(sold)]
    IN  /\ loans' = [l \in LoanId |-> IF l \in sold THEN Dead ELSE loans[l]]
        /\ cash'[c] > cash[c]
        /\ cash'[d] < cash[d]
        /\ cash[d] - cash'[d] <= Free(d)
        /\ fees'[d] = fees[d]
        /\ fees[c] <= fees'[c] /\ fees'[c] - fees[c] <= cash'[c] - cash[c]
        /\ Claims["A"]' * Claims["B"]' >= before["A"] * before["B"]
        /\ \A l \in Secured(c) \ sold : ~ Underwater(loans[l])'
        /\ UNCHANGED shares

\* The address of a liquidated loan is given back.
Reclaim(l) ==
    /\ loans[l] = Dead
    /\ loans' = [loans EXCEPT ![l] = Absent]
    /\ UNCHANGED <<cash, fees, shares>>

PayFees ==
    /\ cash' = [s \in Side |-> cash[s] - fees[s]]
    /\ fees' = [s \in Side |-> 0]
    /\ UNCHANGED <<loans, shares>>

\* Gifts: tokens sent to a vault, shares destroyed by their holder.
Give ==
    /\ \A s \in Side : cash'[s] >= cash[s]
    /\ shares' <= shares
    /\ UNCHANGED <<fees, loans>>

Next ==
    \/ Deposit
    \/ Withdraw
    \/ \E l \in LoanId : Borrow(l) \/ Repay(l) \/ Reclaim(l)
    \/ \E c \in Side : \E sold \in SUBSET Secured(c) : Trade(c, sold)
    \/ PayFees
    \/ Give

Spec == Init /\ [][Next]_vars

=============================================================================
