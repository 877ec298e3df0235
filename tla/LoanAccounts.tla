---------------------------- MODULE LoanAccounts -----------------------------
(* The life of the Loan and LoanIndexBand accounts of one pool and direction,  *)
(* instruction by instruction within transactions.                             *)
(*                                                                             *)
(* LiquidityPool sees each instruction alone.  On chain a transaction carries  *)
(* several: an account closed by one of them is still there, drained, for the  *)
(* next; anyone can send lamports to it and so keep it alive past the end of   *)
(* the transaction; and a failure reverts them all.  This module keeps the     *)
(* accounts and their lamports, and leaves out prices and amounts: which loans *)
(* a swap liquidates is a choice.                                              *)
EXTENDS AccountUtils, FiniteSets

CONSTANTS
    LoanAddr, BandAddr,   \* the addresses, each a program-derived one
    LOAN_RENT, BAND_RENT, \* rent-exempt minimum of a Loan and of a band
    EMPTY_RENT,           \* rent-exempt minimum of an account without data
    MAX_LOANS,            \* cap on the open loans of one band: 64
    FUNDS,                \* bound: lamports in the users' wallets
    Transfers,            \* amounts users send to an address
    MAX_IX                \* bound: instructions in a transaction

ASSUME AddressAssumption ==
    /\ LoanAddr \cap BandAddr = {}
    /\ IsFiniteSet(LoanAddr) /\ IsFiniteSet(BandAddr)

ASSUME RentAssumption ==
    /\ EMPTY_RENT \in Nat \ {0}
    /\ LOAN_RENT \in Nat /\ LOAN_RENT > EMPTY_RENT
    /\ BAND_RENT \in Nat /\ BAND_RENT > EMPTY_RENT
    /\ MAX_LOANS \in Nat /\ FUNDS \in Nat /\ MAX_IX \in Nat
    /\ Transfers \subseteq Nat

Addr == LoanAddr \cup BandAddr

VARIABLES
    acct,     \* acct[a]: the account at address a
    present,  \* the presence bits of the Pool, as a set of bands
    wallet,   \* lamports of the users
    saved,    \* the state a failing transaction reverts to, or NoTx
    ixs       \* instructions the transaction has executed

vars == <<acct, present, wallet, saved, ixs>>

-------------------------------------------------------------------------------
(* Account data.                                                               *)

LoanData(b, status) == [kind |-> "loan", band |-> b, status |-> status]

BandData(n) == [kind |-> "band", count |-> n]

is_open(l) == acct[l].data.kind = "loan" /\ acct[l].data.status = "open"

members(b) == {l \in LoanAddr : is_open(l) /\ acct[l].data.band = b}

\* The band at b is initialised.
is_live(b) == acct[b].data.kind = "band"

band_count(b) == acct[b].data.count

NoTx == [in |-> FALSE]

\* An account that a version of the program that closed its bands left behind,
\* or a loan closed and topped up in one transaction.
Revived(rent) == [lamports |-> rent, owner |-> "program", data |-> Zeroed]

Init ==
    /\ \E old \in SUBSET Addr :
          acct = [a \in Addr |->
                    IF a \notin old THEN NoAccount
                    ELSE Revived(IF a \in LoanAddr THEN LOAN_RENT ELSE BAND_RENT)]
    /\ present = {}
    /\ wallet = FUNDS
    /\ saved = NoTx
    /\ ixs = 0

-------------------------------------------------------------------------------
(* Transactions: the Solana runtime.                                           *)

BeginTx ==
    /\ saved = NoTx
    /\ saved' = [in |-> TRUE, acct |-> acct, present |-> present, wallet |-> wallet]
    /\ ixs' = 0
    /\ UNCHANGED <<acct, present, wallet>>

\* One more instruction of the transaction in flight.
Step ==
    /\ saved # NoTx
    /\ ixs < MAX_IX
    /\ ixs' = ixs + 1
    /\ UNCHANGED saved

\* The minimum balance of the account at address a with the data it has.
rent_of(a) ==
    IF acct[a].data = Empty THEN EMPTY_RENT
    ELSE IF a \in LoanAddr THEN LOAN_RENT ELSE BAND_RENT

\* The runtime refuses to end a transaction that leaves an account with a
\* balance between zero and its minimum; accounts without lamports are removed.
EndTx ==
    /\ saved # NoTx
    /\ \A a \in Addr : acct[a].lamports = 0 \/ acct[a].lamports >= rent_of(a)
    /\ acct' = [a \in Addr |-> IF acct[a].lamports = 0 THEN NoAccount ELSE acct[a]]
    /\ saved' = NoTx
    /\ ixs' = 0
    /\ UNCHANGED <<present, wallet>>

\* Some instruction of the transaction, or its rent check, fails.
AbortTx ==
    /\ saved # NoTx
    /\ acct' = saved.acct /\ present' = saved.present /\ wallet' = saved.wallet
    /\ saved' = NoTx
    /\ ixs' = 0

\* Anyone may send lamports to any address.
Transfer(a, amount) ==
    /\ Step
    /\ amount <= wallet
    /\ acct' = [acct EXCEPT ![a].lamports = @ + amount]
    /\ wallet' = wallet - amount
    /\ UNCHANGED present

-------------------------------------------------------------------------------
(* The instructions that create, rewrite or close these accounts.              *)

\* The three cases of OpenLoan's band account: absent or pre-funded, zeroed, or
\* live.  Anything else is refused.
band_usable(b) ==
    \/ adoptable(acct[b])
    \/ is_zeroed_program_account(acct[b], "program")
    \/ is_live(b)

\* The band account once OpenLoan has created or re-initialised it.
ensure_band(b) ==
    IF acct[b].data = Empty
    THEN [create_pda_account(acct[b], BAND_RENT, "program")
            EXCEPT !.data = BandData(0)]
    ELSE IF is_zeroed_program_account(acct[b], "program")
    THEN [acct[b] EXCEPT !.lamports = @ + missing_rent(acct[b], BAND_RENT),
                         !.data = BandData(0)]
    ELSE acct[b]

\* The loan address carries no data and create_pda_account accepts it.
loan_address_free(l) == acct[l].data = Empty /\ adoptable(acct[l])

has_room_fault(n) == n <= MAX_LOANS    \* one too many

has_room(n) == n < MAX_LOANS

\* OpenLoan sets the presence bit of a band that has no member yet.
sets_bit(b) == ensure_band(b).data.count = 0

OpenLoan(l, b) ==
    LET band == ensure_band(b)
        loan == create_pda_account(acct[l], LOAN_RENT, "program")
        cost == (band.lamports - acct[b].lamports) + (loan.lamports - acct[l].lamports)
    IN  /\ Step
        /\ loan_address_free(l)
        /\ band_usable(b)
        /\ has_room(band.data.count)
        /\ cost <= wallet
        /\ acct' = [acct EXCEPT
                      ![l] = [loan EXCEPT !.data = LoanData(b, "open")],
                      ![b] = [band EXCEPT !.data = BandData(band.data.count + 1)]]
        /\ present' = IF sets_bit(b) THEN present \cup {b} ELSE present
        /\ wallet' = wallet - cost

\* RepayLoan writes the loan as repaid, closes it and refunds the rent.  The
\* band stays, empty or not.
RepayLoan(l) ==
    LET b == acct[l].data.band
        n == band_count(b)
    IN  /\ Step
        /\ acct[l].owner = "program"
        /\ is_open(l)
        /\ is_live(b)
        /\ n >= 1
        /\ acct' = [acct EXCEPT
                      ![b].data = BandData(n - 1),
                      ![l] = close_account([@ EXCEPT !.data = LoanData(b, "repaid")])]
        /\ present' = IF n = 1 THEN present \ {b} ELSE present
        /\ wallet' = wallet + acct[l].lamports

\* What a liquidation writes to the loan; its lamports stay.
tombstone(a) == [a EXCEPT !.data = LoanData(a.data.band, "liquidated")]

\* The account writes of a settling Swap that liquidates the loans in dead.  It
\* must list their bands, each with as many distinct open members as it counts.
Swap(dead) ==
    LET bands   == {acct[l].data.band : l \in dead}
        left(b) == band_count(b) - Cardinality(dead \cap members(b))
    IN  /\ Step
        /\ dead # {}
        /\ \A l \in dead : is_open(l)
        /\ \A b \in bands :
              /\ is_live(b)
              /\ Cardinality(dead \cap members(b)) <= band_count(b)
              /\ band_count(b) <= Cardinality(members(b))
        /\ acct' = [a \in Addr |->
                      IF a \in dead THEN tombstone(acct[a])
                      ELSE IF a \in bands
                      THEN [acct[a] EXCEPT !.data = BandData(left(a))]
                      ELSE acct[a]]
        /\ present' = present \ {b \in bands : left(b) = 0}
        /\ UNCHANGED wallet

ClaimLiquidatedRent(l) ==
    /\ Step
    /\ acct[l].owner = "program"
    /\ acct[l].data.kind = "loan"
    /\ acct[l].data.status = "liquidated"
    /\ acct' = [acct EXCEPT ![l] = close_account(@)]
    /\ wallet' = wallet + acct[l].lamports
    /\ UNCHANGED present

Next ==
    \/ BeginTx
    \/ EndTx
    \/ AbortTx
    \/ \E a \in Addr, amount \in Transfers : Transfer(a, amount)
    \/ \E l \in LoanAddr, b \in BandAddr : OpenLoan(l, b)
    \/ \E l \in LoanAddr : RepayLoan(l)
    \/ \E dead \in SUBSET LoanAddr : Swap(dead)
    \/ \E l \in LoanAddr : ClaimLiquidatedRent(l)

Spec == Init /\ [][Next]_vars

-------------------------------------------------------------------------------
(* Properties.                                                                 *)

DataType ==
    [kind: {"empty", "zeroed"}]
      \cup [kind: {"loan"}, band: BandAddr, status: {"open", "liquidated"}]
      \cup [kind: {"band"}, count: 0..MAX_LOANS]

AccountType == [lamports: Nat, owner: {"system", "program"}, data: DataType]

\* Each address holds an account of its own kind, with a count within the cap
\* of a band, and the users' lamports cover what they paid.
TypeOK ==
    /\ acct \in [Addr -> AccountType]
    /\ \A l \in LoanAddr : acct[l].data.kind # "band"
    /\ \A b \in BandAddr : acct[b].data.kind # "loan"
    /\ \A a \in Addr : acct[a].owner = "system" <=> acct[a].data = Empty
    /\ present \in SUBSET BandAddr
    /\ wallet \in Nat
    /\ ixs \in 0..MAX_IX

\* After every instruction, in the middle of a transaction as well as between
\* transactions, each band counts exactly its open loans and its presence bit
\* says whether it has any.  Re-initialising a band account that is live, or a
\* second close of the same loan, would break it; RepayLoan and Swap of the
\* remaining members rely on it.
MembersExact ==
    \A b \in BandAddr :
       /\ Cardinality(members(b)) = IF is_live(b) THEN band_count(b) ELSE 0
       /\ b \in present <=> members(b) # {}

\* No transfer of lamports blocks an address: every band, closed and topped up
\* ones included, can always take a loan, and every loan address without data
\* can be opened (account_utils.rs: "anyone could permanently block the creation
\* of such an address").  A loan closed and topped up before its transaction
\* ends keeps its bytes, all zero, and is not covered: OpenLoan refuses it, and the
\* borrower picks another nonce.
NeverBlocked ==
    /\ \A b \in BandAddr : band_usable(b)
    /\ \A l \in LoanAddr : acct[l].data = Empty => loan_address_free(l)

\* The program's own accounts are rent-exempt as soon as the instruction that
\* creates them ends, whatever they held before: no transaction is refused by
\* the runtime's rent check because of them, and each tombstone still holds the
\* rent its borrower may claim.
RentExempt ==
    \A a \in Addr :
       acct[a].data.kind \in {"loan", "band"} => acct[a].lamports >= rent_of(a)

=============================================================================
