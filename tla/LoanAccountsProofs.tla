------------------------- MODULE LoanAccountsProofs --------------------------
(* Proofs about LoanAccounts, for any addresses, rents, funds and lengths of a *)
(* transaction.                                                                *)
(*                                                                             *)
(* A failing transaction puts back the state it began with, so the inductive   *)
(* invariant says the same of the accounts as they are and as they were saved. *)
(* It is therefore stated of an account map and a set of presence bits, not of *)
(* the variables.                                                              *)
EXTENDS LoanAccounts, FiniteSetTheorems, TLAPS

-------------------------------------------------------------------------------
(* The inductive invariant.                                                    *)

\* What may be at the address of a loan and at that of a band.
LoanOK(x) ==
    /\ x \in AccountType
    /\ x.data.kind # "band"
    /\ x.owner = "system" <=> x.data = Empty
    /\ x.data.kind = "loan" => x.lamports >= LOAN_RENT

BandOK(x) ==
    /\ x \in AccountType
    /\ x.data.kind # "loan"
    /\ x.owner = "system" <=> x.data = Empty
    /\ x.data.kind = "band" => x.lamports >= BAND_RENT

\* The open loans of band b among the accounts ac, and the number it counts.
MembersIn(ac, b) ==
    {l \in LoanAddr : /\ ac[l].data.kind = "loan"
                      /\ ac[l].data.status = "open"
                      /\ ac[l].data.band = b}

CountOf(x) == IF x.data.kind = "band" THEN x.data.count ELSE 0

BandExact(ac, pr, b) ==
    /\ Cardinality(MembersIn(ac, b)) = CountOf(ac[b])
    /\ b \in pr <=> MembersIn(ac, b) # {}

\* A state of the accounts and presence bits that instructions can leave.
Sound(ac, pr) ==
    /\ ac \in [Addr -> AccountType]
    /\ \A l \in LoanAddr : LoanOK(ac[l])
    /\ \A b \in BandAddr : BandOK(ac[b])
    /\ \A b \in BandAddr : BandExact(ac, pr, b)
    /\ pr \in SUBSET BandAddr

AccountsInv ==
    /\ Sound(acct, present)
    /\ wallet \in Nat
    /\ ixs \in 0..MAX_IX
    /\ saved # NoTx => Sound(saved.acct, saved.present) /\ saved.wallet \in Nat

-------------------------------------------------------------------------------
(* Account data.                                                               *)

LEMMA DataCases ==
    ASSUME NEW d \in DataType
    PROVE  /\ d.kind \in {"empty", "zeroed", "loan", "band"}
           /\ d.kind = "empty" <=> d = Empty
           /\ d.kind = "zeroed" <=> d = Zeroed
           /\ d.kind = "loan" => d.band \in BandAddr /\ d.status \in {"open", "liquidated"}
           /\ d.kind = "band" => d.count \in 0..MAX_LOANS
  BY DEF DataType, Empty, Zeroed

LEMMA DataType1 ==
    /\ Empty \in DataType /\ Empty.kind = "empty"
    /\ Zeroed \in DataType /\ Zeroed.kind = "zeroed" /\ Zeroed # Empty
    /\ \A b \in BandAddr, s \in {"open", "liquidated"} :
          /\ LoanData(b, s) \in DataType
          /\ LoanData(b, s).kind = "loan"
          /\ LoanData(b, s).band = b
          /\ LoanData(b, s).status = s
          /\ LoanData(b, s) # Empty
    /\ \A n \in 0..MAX_LOANS :
          /\ BandData(n) \in DataType
          /\ BandData(n).kind = "band"
          /\ BandData(n).count = n
          /\ BandData(n) # Empty
  BY DEF DataType, Empty, Zeroed, LoanData, BandData

LEMMA NoAccountOK == LoanOK(NoAccount) /\ BandOK(NoAccount)
<1>1. NoAccount \in AccountType /\ NoAccount.data = Empty /\ NoAccount.owner = "system"
  BY DataType1 DEF NoAccount, AccountType
<1> QED
  BY <1>1, DataType1 DEF LoanOK, BandOK

LEMMA AddressFacts ==
    /\ \A a \in Addr : a \in LoanAddr \/ a \in BandAddr
    /\ \A a \in LoanAddr : a \in Addr /\ a \notin BandAddr
    /\ \A a \in BandAddr : a \in Addr /\ a \notin LoanAddr
  BY AddressAssumption DEF Addr

LEMMA MembersFinite ==
    ASSUME NEW ac, NEW b
    PROVE  IsFiniteSet(MembersIn(ac, b)) /\ Cardinality(MembersIn(ac, b)) \in Nat
<1>1. MembersIn(ac, b) \in SUBSET LoanAddr
  BY DEF MembersIn
<1> QED
  BY <1>1, AddressAssumption, FS_Subset, FS_CardinalityType

LEMMA OneMore ==
    ASSUME NEW S, NEW T, NEW x, IsFiniteSet(S), T = S \cup {x}, x \notin S
    PROVE  Cardinality(T) = Cardinality(S) + 1
  BY FS_AddElement

LEMMA OneLess ==
    ASSUME NEW S, NEW T, NEW x, IsFiniteSet(S), T = S \ {x}, x \in S
    PROVE  Cardinality(T) = Cardinality(S) - 1
  BY FS_RemoveElement

LEMMA NoMembers ==
    ASSUME NEW ac, NEW b
    PROVE  MembersIn(ac, b) = {} <=> Cardinality(MembersIn(ac, b)) = 0
<1> DEFINE M == MembersIn(ac, b)
<1>1. IsFiniteSet(M)
  BY MembersFinite
<1> HIDE DEF M
<1>2. M = {} <=> Cardinality(M) = 0
  BY <1>1, FS_EmptySet
<1> QED
  BY <1>2 DEF M

-------------------------------------------------------------------------------
(* Account maps.                                                               *)

\* Two account maps in which the same loans are open, in the same bands.
SameLoans(ac, new) ==
    \A l \in LoanAddr :
       /\ ac[l].data.kind = "loan" /\ ac[l].data.status = "open"
             <=> new[l].data.kind = "loan" /\ new[l].data.status = "open"
       /\ ac[l].data.kind = "loan" /\ ac[l].data.status = "open"
             => new[l].data.band = ac[l].data.band

\* A step that opens and closes no loan and leaves every band's count alone.
LEMMA SameLoansSound ==
    ASSUME NEW ac, NEW pr, Sound(ac, pr),
           NEW new \in [Addr -> AccountType],
           \A l \in LoanAddr : LoanOK(new[l]),
           \A b \in BandAddr : BandOK(new[b]) /\ CountOf(new[b]) = CountOf(ac[b]),
           SameLoans(ac, new)
    PROVE  Sound(new, pr)
<1>1. \A b \in BandAddr : MembersIn(new, b) = MembersIn(ac, b)
  BY DEF SameLoans, MembersIn
<1>2. \A b \in BandAddr : BandExact(new, pr, b)
  BY <1>1 DEF Sound, BandExact
<1> QED
  BY <1>2 DEF Sound

LEMMA AccountsInit == Init => AccountsInv
<1> SUFFICES ASSUME NEW old \in SUBSET Addr,
                    acct = [a \in Addr |->
                              IF a \notin old THEN NoAccount
                              ELSE Revived(IF a \in LoanAddr THEN LOAN_RENT ELSE BAND_RENT)],
                    present = {}, wallet = FUNDS, saved = NoTx, ixs = 0
             PROVE  AccountsInv
  BY DEF Init
<1>1. ASSUME NEW r \in Nat
      PROVE  LoanOK(Revived(r)) /\ BandOK(Revived(r)) /\ Revived(r).data = Zeroed
  <2>1. Revived(r) \in AccountType /\ Revived(r).data = Zeroed
        /\ Revived(r).owner = "program"
    BY DataType1 DEF Revived, AccountType
  <2> QED
    BY <2>1, DataType1 DEF LoanOK, BandOK
<1>2. \A a \in Addr : /\ LoanOK(acct[a]) /\ BandOK(acct[a])
                      /\ acct[a].data.kind \in {"empty", "zeroed"}
  <2> TAKE a \in Addr
  <2>1. CASE a \notin old
    <3>1. acct[a] = NoAccount
      BY <2>1
    <3> QED
      BY <3>1, NoAccountOK, DataType1 DEF NoAccount
  <2>2. CASE a \in old
    <3> DEFINE r == IF a \in LoanAddr THEN LOAN_RENT ELSE BAND_RENT
    <3>1. acct[a] = Revived(r) /\ r \in Nat
      BY <2>2, RentAssumption
    <3> HIDE DEF r
    <3> QED
      BY <1>1, <3>1, DataType1
  <2> QED
    BY <2>1, <2>2
<1>3. acct \in [Addr -> AccountType]
  BY <1>2 DEF LoanOK
<1>4. \A b \in BandAddr : MembersIn(acct, b) = {}
  BY <1>2, AddressFacts DEF MembersIn
<1>5. \A b \in BandAddr : CountOf(acct[b]) = 0
  BY <1>2, AddressFacts DEF CountOf
<1>6. Sound(acct, present)
  BY <1>2, <1>3, <1>4, <1>5, AddressFacts, FS_EmptySet DEF Sound, BandExact
<1> QED
  BY <1>6, RentAssumption DEF AccountsInv

-------------------------------------------------------------------------------
(* Transactions.                                                               *)

LEMMA KeepBeginTx == ASSUME AccountsInv, BeginTx PROVE AccountsInv'
<1>1. saved'.acct = acct /\ saved'.present = present /\ saved'.wallet = wallet
  BY DEF BeginTx
<1> QED
  BY <1>1, RentAssumption DEF AccountsInv, BeginTx

LEMMA KeepAbortTx == ASSUME AccountsInv, AbortTx PROVE AccountsInv'
  BY RentAssumption DEF AccountsInv, AbortTx

\* An account without lamports at the end of a transaction holds no data that
\* counts: a closed loan, or an address nobody used.
LEMMA KeepEndTx == ASSUME AccountsInv, EndTx PROVE AccountsInv'
<1> DEFINE new == [a \in Addr |-> IF acct[a].lamports = 0 THEN NoAccount ELSE acct[a]]
<1>1. Sound(acct, present)
  BY DEF AccountsInv
<1>2. ASSUME NEW l \in LoanAddr
      PROVE  /\ LoanOK(new[l])
             /\ new[l].data.kind = "loan" <=> acct[l].data.kind = "loan"
             /\ acct[l].data.kind = "loan" => new[l] = acct[l]
  BY <1>1, AddressFacts, NoAccountOK, DataType1, RentAssumption
     DEF Sound, LoanOK, NoAccount
<1>3. ASSUME NEW b \in BandAddr
      PROVE  BandOK(new[b]) /\ CountOf(new[b]) = CountOf(acct[b])
  BY <1>1, AddressFacts, NoAccountOK, DataType1, RentAssumption
     DEF Sound, BandOK, NoAccount, CountOf
<1>4. new \in [Addr -> AccountType]
  BY <1>1, NoAccountOK DEF Sound, LoanOK
<1>5. SameLoans(acct, new)
  BY <1>2 DEF SameLoans
<1>6. Sound(new, present)
  BY <1>1, <1>2, <1>3, <1>4, <1>5, SameLoansSound
<1> QED
  BY <1>6, RentAssumption DEF AccountsInv, EndTx

\* An instruction keeps the invariant when it leaves sound accounts.
LEMMA InstructionStep ==
    ASSUME AccountsInv, Step, Sound(acct', present'), wallet' \in Nat
    PROVE  AccountsInv'
  BY RentAssumption DEF AccountsInv, Step

LEMMA KeepTransfer ==
    ASSUME AccountsInv, NEW a \in Addr, NEW amount \in Transfers, Transfer(a, amount)
    PROVE  AccountsInv'
<1>1. Sound(acct, present) /\ wallet \in Nat /\ amount \in Nat
  BY RentAssumption DEF AccountsInv
<1>2. acct[a] \in AccountType
  BY <1>1 DEF Sound
<1> DEFINE x == [acct[a] EXCEPT !.lamports = @ + amount]
<1>3. /\ x \in AccountType /\ x.data = acct[a].data /\ x.owner = acct[a].owner
      /\ x.lamports >= acct[a].lamports /\ x.lamports \in Nat
      /\ acct[a].lamports \in Nat
  BY <1>1, <1>2 DEF AccountType
<1>4. acct' = [acct EXCEPT ![a] = x]
  BY DEF Transfer
<1>5. LoanOK(acct[a]) => LoanOK(x)
  BY <1>3, RentAssumption DEF LoanOK
<1>6. BandOK(acct[a]) => BandOK(x)
  BY <1>3, RentAssumption DEF BandOK
<1> HIDE DEF x
<1>7. acct' \in [Addr -> AccountType] /\ acct'[a] = x
      /\ \A c \in Addr : c # a => acct'[c] = acct[c]
  BY <1>1, <1>3, <1>4 DEF Sound
<1>8. \A c \in Addr : acct'[c].data = acct[c].data
  BY <1>3, <1>7
<1>9. Sound(acct', present)
  <2>1. \A l \in LoanAddr : LoanOK(acct'[l])
    BY <1>1, <1>5, <1>7, AddressFacts DEF Sound
  <2>2. \A b \in BandAddr : BandOK(acct'[b])
    BY <1>1, <1>6, <1>7, AddressFacts DEF Sound
  <2>3. SameLoans(acct, acct') /\ \A b \in BandAddr : CountOf(acct'[b]) = CountOf(acct[b])
    BY <1>8, AddressFacts DEF SameLoans, CountOf
  <2> QED
    BY <1>1, <1>7, <2>1, <2>2, <2>3, SameLoansSound
<1> QED
  BY <1>1, <1>9, InstructionStep DEF Transfer

-------------------------------------------------------------------------------
(* The instructions of the program.                                            *)

\* What OpenLoan makes of a band account, whichever of the three cases it is in.
LEMMA EnsureBand ==
    ASSUME Sound(acct, present), NEW b \in BandAddr, band_usable(b)
    PROVE  /\ ensure_band(b) \in AccountType
           /\ ensure_band(b).owner = "program"
           /\ ensure_band(b).lamports >= BAND_RENT
           /\ ensure_band(b).lamports >= acct[b].lamports
           /\ ensure_band(b).data = BandData(CountOf(acct[b]))
           /\ CountOf(acct[b]) \in 0..MAX_LOANS
<1> DEFINE x == acct[b]
<1>1. BandOK(x) /\ x \in AccountType /\ x.lamports \in Nat /\ x.data \in DataType
  BY DEF Sound, BandOK, AccountType
<1>2. /\ x.lamports + missing_rent(x, BAND_RENT) \in Nat
      /\ x.lamports + missing_rent(x, BAND_RENT) >= BAND_RENT
      /\ x.lamports + missing_rent(x, BAND_RENT) >= x.lamports
  BY <1>1, RentAssumption DEF missing_rent
<1>3. 0 \in 0..MAX_LOANS /\ BandData(0) \in DataType
  BY RentAssumption, DataType1
<1>4. x.data = Empty \/ x.data = Zeroed \/ x.data.kind = "band"
  BY <1>1, DataCases DEF BandOK
<1>5. CASE x.data = Empty
  <2>1. ensure_band(b) = [lamports |-> x.lamports + missing_rent(x, BAND_RENT),
                          owner |-> "program", data |-> BandData(0)]
    BY <1>5 DEF ensure_band, create_pda_account
  <2>2. CountOf(x) = 0
    BY <1>5, DataType1 DEF CountOf
  <2> QED
    BY <1>2, <1>3, <2>1, <2>2 DEF AccountType
<1>6. CASE x.data = Zeroed
  <2>1. x.owner = "program"
    BY <1>1, <1>6, DataType1 DEF BandOK, AccountType
  <2>2. ensure_band(b) = [x EXCEPT !.lamports = @ + missing_rent(x, BAND_RENT),
                                   !.data = BandData(0)]
    BY <1>6, <2>1, DataType1 DEF ensure_band, is_zeroed_program_account
  <2>3. CountOf(x) = 0
    BY <1>6, DataType1 DEF CountOf
  <2> QED
    BY <1>1, <1>2, <1>3, <2>1, <2>2, <2>3 DEF AccountType
<1>7. CASE x.data.kind = "band"
  <2>1. x.data # Empty /\ x.data # Zeroed
    BY <1>7, DataType1
  <2>2. ensure_band(b) = x
    BY <2>1 DEF ensure_band, is_zeroed_program_account
  <2>3. x.owner = "program" /\ x.lamports >= BAND_RENT
    BY <1>1, <1>7, <2>1 DEF BandOK, AccountType
  <2>4. x.data = BandData(x.data.count) /\ x.data.count \in 0..MAX_LOANS
    BY <1>1, <1>7 DEF DataType, BandData
  <2> QED
    BY <1>1, <1>7, <2>2, <2>3, <2>4 DEF CountOf
<1> QED
  BY <1>4, <1>5, <1>6, <1>7

\* What create_pda_account leaves at a free loan address.
LEMMA NewLoan ==
    ASSUME Sound(acct, present), NEW l \in LoanAddr, NEW b \in BandAddr
    PROVE  LET x == create_pda_account(acct[l], LOAN_RENT, "program")
           IN  /\ LoanOK([x EXCEPT !.data = LoanData(b, "open")])
               /\ [x EXCEPT !.data = LoanData(b, "open")].data = LoanData(b, "open")
               /\ x.lamports \in Nat /\ x.lamports >= acct[l].lamports
               /\ acct[l].lamports \in Nat
<1> DEFINE n == acct[l].lamports + missing_rent(acct[l], LOAN_RENT)
           x == create_pda_account(acct[l], LOAN_RENT, "program")
           y == [x EXCEPT !.data = LoanData(b, "open")]
<1>1. acct[l].lamports \in Nat
  BY DEF Sound, LoanOK, AccountType
<1>2. n \in Nat /\ n >= LOAN_RENT /\ n >= acct[l].lamports
  BY <1>1, RentAssumption DEF missing_rent
<1>3. x.lamports = n
  BY DEF create_pda_account
<1>4. y = [lamports |-> n, owner |-> "program", data |-> LoanData(b, "open")]
  BY DEF create_pda_account
<1>5. y \in AccountType /\ y.owner = "program" /\ y.data = LoanData(b, "open")
      /\ y.lamports = n
  BY <1>2, <1>4, DataType1 DEF AccountType
<1>6. LoanOK(y)
  BY <1>2, <1>5, DataType1 DEF LoanOK
<1> QED
  BY <1>1, <1>2, <1>3, <1>5, <1>6

LEMMA KeepOpenLoan ==
    ASSUME AccountsInv, NEW l \in LoanAddr, NEW b \in BandAddr, OpenLoan(l, b)
    PROVE  AccountsInv'
<1> DEFINE band == ensure_band(b)
           loan == create_pda_account(acct[l], LOAN_RENT, "program")
           n    == CountOf(acct[b])
           newL == [loan EXCEPT !.data = LoanData(b, "open")]
           newB == [band EXCEPT !.data = BandData(n + 1)]
           cost == (band.lamports - acct[b].lamports) + (loan.lamports - acct[l].lamports)
<1>1. Sound(acct, present) /\ wallet \in Nat
  BY DEF AccountsInv
<1>2. /\ band \in AccountType /\ band.owner = "program"
      /\ band.lamports >= BAND_RENT /\ band.lamports >= acct[b].lamports
      /\ band.data = BandData(n) /\ n \in 0..MAX_LOANS
  BY <1>1, EnsureBand DEF OpenLoan
<1>3. /\ LoanOK(newL) /\ newL.data = LoanData(b, "open")
      /\ loan.lamports \in Nat /\ loan.lamports >= acct[l].lamports
      /\ acct[l].lamports \in Nat
  BY <1>1, NewLoan
<1>4. band.data.count = n /\ n + 1 \in 0..MAX_LOANS
  BY <1>2, DataType1, RentAssumption DEF OpenLoan, has_room
<1>5. /\ BandOK(newB) /\ newB.data = BandData(n + 1)
  <2>1. newB \in AccountType /\ newB.owner = "program" /\ newB.data = BandData(n + 1)
        /\ newB.lamports = band.lamports
    BY <1>2, <1>4, DataType1 DEF AccountType
  <2> QED
    BY <1>2, <1>4, <2>1, DataType1 DEF BandOK
<1>6. /\ acct' = [acct EXCEPT ![l] = newL, ![b] = newB]
      /\ present' = IF n = 0 THEN present \cup {b} ELSE present
      /\ cost <= wallet /\ wallet' = wallet - cost
  BY <1>4 DEF OpenLoan, sets_bit
<1>7. cost \in Nat
  BY <1>1, <1>2, <1>3 DEF Sound, BandOK, AccountType
<1>8. acct[l].data = Empty
  BY DEF OpenLoan, loan_address_free
<1> HIDE DEF newL, newB, cost, band, loan
<1>9. /\ acct' \in [Addr -> AccountType] /\ acct'[l] = newL /\ acct'[b] = newB
      /\ \A c \in Addr \ {l, b} : acct'[c] = acct[c]
  <2>1. acct \in [Addr -> AccountType] /\ newL \in AccountType /\ newB \in AccountType
    BY <1>1, <1>3, <1>5 DEF Sound, LoanOK, BandOK
  <2> QED
    BY <1>6, <2>1, AddressFacts
<1>10. \A c \in LoanAddr : LoanOK(acct'[c])
  BY <1>1, <1>3, <1>9, AddressFacts DEF Sound
<1>11. \A c \in BandAddr : BandOK(acct'[c])
  BY <1>1, <1>5, <1>9, AddressFacts DEF Sound
<1>12. MembersIn(acct', b) = MembersIn(acct, b) \cup {l} /\ l \notin MembersIn(acct, b)
  BY <1>3, <1>8, <1>9, AddressFacts, DataType1 DEF MembersIn
<1>13. \A c \in BandAddr \ {b} : MembersIn(acct', c) = MembersIn(acct, c)
  BY <1>3, <1>8, <1>9, AddressFacts, DataType1 DEF MembersIn
<1>14. CountOf(acct'[b]) = n + 1
  BY <1>4, <1>5, <1>9, DataType1 DEF CountOf
<1>15. Cardinality(MembersIn(acct, b)) = n /\ (b \in present <=> MembersIn(acct, b) # {})
  BY <1>1 DEF Sound, BandExact
<1>16. BandExact(acct', present', b)
  <2>1. Cardinality(MembersIn(acct', b)) = n + 1
    BY <1>12, <1>15, MembersFinite, OneMore
  <2>2. n # 0 => b \in present
    BY <1>15, NoMembers
  <2>3. b \in present'
    BY <1>6, <2>2
  <2> QED
    BY <1>12, <1>14, <2>1, <2>3 DEF BandExact
<1>17. \A c \in BandAddr \ {b} : BandExact(acct', present', c)
  <2>1. \A c \in BandAddr \ {b} : acct'[c] = acct[c] /\ (c \in present' <=> c \in present)
    BY <1>6, <1>9, AddressFacts
  <2> QED
    BY <1>1, <1>13, <2>1 DEF Sound, BandExact
<1>18. present' \in SUBSET BandAddr
  BY <1>1, <1>6 DEF Sound
<1>19. Sound(acct', present')
  BY <1>9, <1>10, <1>11, <1>16, <1>17, <1>18 DEF Sound
<1>20. wallet' \in Nat
  BY <1>1, <1>6, <1>7
<1> QED
  BY <1>19, <1>20, InstructionStep DEF OpenLoan

\* Closing a loan account leaves one that may be at its address.
LEMMA Closed ==
    ASSUME NEW x, LoanOK(x), x.owner = "program"
    PROVE  LoanOK(close_account(x)) /\ close_account(x).data = Zeroed
<1>1. x \in AccountType
  BY DEF LoanOK
<1>2. /\ close_account(x) \in AccountType /\ close_account(x).data = Zeroed
      /\ close_account(x).owner = "program"
  BY <1>1, DataType1 DEF close_account, AccountType
<1> QED
  BY <1>2, DataType1 DEF LoanOK

LEMMA KeepRepayLoan ==
    ASSUME AccountsInv, NEW l \in LoanAddr, RepayLoan(l)
    PROVE  AccountsInv'
<1> DEFINE b    == acct[l].data.band
           n    == band_count(b)
           newL == close_account([acct[l] EXCEPT !.data = LoanData(b, "repaid")])
           newB == [acct[b] EXCEPT !.data = BandData(n - 1)]
<1>1. Sound(acct, present) /\ wallet \in Nat
  BY DEF AccountsInv
<1>2. /\ acct[l].data.kind = "loan" /\ acct[l].data.status = "open"
      /\ acct[l].owner = "program"
      /\ acct[b].data.kind = "band" /\ n = acct[b].data.count /\ n >= 1
  BY DEF RepayLoan, is_open, is_live, band_count
<1>3. acct[l] \in AccountType /\ acct[l].data \in DataType /\ acct[l].lamports \in Nat
  BY <1>1 DEF Sound, LoanOK, AccountType
<1>4. b \in BandAddr
  BY <1>2, <1>3, DataCases
<1>5. acct[b] \in AccountType /\ acct[b].data \in DataType
      /\ acct[b].lamports >= BAND_RENT /\ acct[b].owner = "program"
  BY <1>1, <1>2, <1>4, DataType1 DEF Sound, BandOK, AccountType
<1>6. n \in 0..MAX_LOANS /\ n - 1 \in 0..MAX_LOANS
  BY <1>2, <1>5, DataCases, RentAssumption
<1>7. newL = close_account(acct[l])
  BY <1>3 DEF close_account, AccountType
<1>8. LoanOK(newL) /\ newL.data = Zeroed
  BY <1>1, <1>2, <1>7, Closed DEF Sound
<1>9. BandOK(newB) /\ newB.data = BandData(n - 1)
  <2>1. /\ newB \in AccountType /\ newB.data = BandData(n - 1)
        /\ newB.lamports = acct[b].lamports /\ newB.owner = "program"
    BY <1>5, <1>6, DataType1 DEF AccountType
  <2> QED
    BY <1>5, <1>6, <2>1, DataType1 DEF BandOK
<1>10. /\ acct' = [acct EXCEPT ![b] = newB, ![l] = newL]
       /\ present' = IF n = 1 THEN present \ {b} ELSE present
       /\ wallet' = wallet + acct[l].lamports
  <2>1. b # l
    BY <1>4, AddressFacts
  <2> QED
    BY <2>1 DEF RepayLoan
<1>11. n = CountOf(acct[b])
  BY <1>2 DEF CountOf
<1> HIDE DEF newL, newB, n
<1>12. /\ acct' \in [Addr -> AccountType] /\ acct'[l] = newL /\ acct'[b] = newB
       /\ \A c \in Addr \ {l, b} : acct'[c] = acct[c]
  <2>1. acct \in [Addr -> AccountType] /\ newL \in AccountType /\ newB \in AccountType
    BY <1>1, <1>8, <1>9 DEF Sound, LoanOK, BandOK
  <2> QED
    BY <1>4, <1>10, <2>1, AddressFacts
<1>13. \A c \in LoanAddr : LoanOK(acct'[c])
  BY <1>1, <1>4, <1>8, <1>12, AddressFacts DEF Sound
<1>14. \A c \in BandAddr : BandOK(acct'[c])
  BY <1>1, <1>9, <1>12, AddressFacts DEF Sound
<1>15. MembersIn(acct', b) = MembersIn(acct, b) \ {l} /\ l \in MembersIn(acct, b)
  BY <1>2, <1>4, <1>8, <1>12, AddressFacts, DataType1 DEF MembersIn
<1>16. \A c \in BandAddr \ {b} : MembersIn(acct', c) = MembersIn(acct, c)
  BY <1>2, <1>4, <1>8, <1>12, AddressFacts, DataType1 DEF MembersIn
<1>17. CountOf(acct'[b]) = n - 1
  BY <1>6, <1>9, <1>12, DataType1 DEF CountOf
<1>18. Cardinality(MembersIn(acct, b)) = n /\ (b \in present <=> MembersIn(acct, b) # {})
  BY <1>1, <1>4, <1>11 DEF Sound, BandExact
<1>19. BandExact(acct', present', b)
  <2>1. Cardinality(MembersIn(acct', b)) = n - 1
    BY <1>15, <1>18, MembersFinite, OneLess
  <2>2. MembersIn(acct', b) = {} <=> n = 1
    BY <1>6, <2>1, NoMembers
  <2>3. b \in present' <=> n # 1
    BY <1>10, <1>15, <1>18
  <2> QED
    BY <1>17, <2>1, <2>2, <2>3 DEF BandExact
<1>20. \A c \in BandAddr \ {b} : BandExact(acct', present', c)
  <2>1. \A c \in BandAddr \ {b} : acct'[c] = acct[c] /\ (c \in present' <=> c \in present)
    BY <1>10, <1>12, AddressFacts
  <2> QED
    BY <1>1, <1>16, <2>1 DEF Sound, BandExact
<1>21. present' \in SUBSET BandAddr
  BY <1>1, <1>10 DEF Sound
<1>22. Sound(acct', present')
  BY <1>12, <1>13, <1>14, <1>19, <1>20, <1>21 DEF Sound
<1>23. wallet' \in Nat
  BY <1>1, <1>3, <1>10
<1> QED
  BY <1>22, <1>23, InstructionStep DEF RepayLoan

LEMMA KeepSwap ==
    ASSUME AccountsInv, NEW dead \in SUBSET LoanAddr, Swap(dead)
    PROVE  AccountsInv'
<1> DEFINE bands   == {acct[l].data.band : l \in dead}
           M(b)    == MembersIn(acct, b)
           left(b) == band_count(b) - Cardinality(dead \cap members(b))
<1>1. Sound(acct, present) /\ wallet \in Nat
  BY DEF AccountsInv
<1>2. \A b \in BandAddr : members(b) = M(b)
  BY DEF members, MembersIn, is_open
<1>3. \A l \in dead : acct[l].data.kind = "loan" /\ acct[l].data.status = "open"
  BY DEF Swap, is_open
<1>4. ASSUME NEW a \in Addr PROVE acct[a] \in AccountType /\ acct[a].data \in DataType
                                  /\ acct[a].lamports \in Nat
  BY <1>1 DEF Sound, AccountType
<1>5. \A l \in dead : acct[l].data.band \in BandAddr
  BY <1>3, <1>4, AddressFacts, DataCases
<1>6. bands \subseteq BandAddr
  BY <1>5
<1>7. \A b \in bands : acct[b].data.kind = "band"
                       /\ Cardinality(dead \cap members(b)) <= band_count(b)
  BY DEF Swap, is_live
<1>8. ASSUME NEW b \in bands
      PROVE  /\ left(b) \in 0..MAX_LOANS
             /\ left(b) = Cardinality(M(b) \ dead)
             /\ left(b) = 0 <=> M(b) \ dead = {}
  <2>1. b \in BandAddr
    BY <1>6
  <2>2. band_count(b) \in 0..MAX_LOANS
    BY <1>4, <1>7, <2>1, AddressFacts, DataCases DEF band_count
  <2>3. band_count(b) = Cardinality(M(b))
    BY <1>1, <1>7, <2>1 DEF Sound, BandExact, CountOf, band_count
  <2>4. IsFiniteSet(M(b))
    BY MembersFinite
  <2> HIDE DEF M
  <2>5. /\ IsFiniteSet(M(b) \ dead)
        /\ Cardinality(M(b) \ dead) = Cardinality(M(b)) - Cardinality(M(b) \cap dead)
    BY <2>4, FS_Difference
  <2>6. M(b) \cap dead = dead \cap members(b)
    BY <1>2, <2>1
  <2>7. left(b) = Cardinality(M(b) \ dead)
    BY <2>3, <2>5, <2>6
  <2>8. Cardinality(M(b) \ dead) \in Nat
        /\ (Cardinality(M(b) \ dead) = 0 <=> M(b) \ dead = {})
    BY <2>5, FS_CardinalityType, FS_EmptySet
  <2>9. Cardinality(dead \cap members(b)) \in Nat
    <3>1. IsFiniteSet(dead \cap members(b))
      BY <2>4, <2>6, FS_Intersection
    <3> QED
      BY <3>1, FS_CardinalityType
  <2>10. left(b) <= MAX_LOANS
    BY <2>2, <2>9, RentAssumption
  <2> QED
    BY <2>7, <2>8, <2>10, RentAssumption
<1> HIDE DEF left, M, bands
<1>9. /\ acct' = [a \in Addr |->
                    IF a \in dead THEN tombstone(acct[a])
                    ELSE IF a \in bands
                    THEN [acct[a] EXCEPT !.data = BandData(left(a))]
                    ELSE acct[a]]
      /\ present' = present \ {b \in bands : left(b) = 0}
      /\ wallet' = wallet
  BY DEF Swap, bands, left
<1>10. ASSUME NEW l \in dead
       PROVE  /\ LoanOK(acct'[l])
              /\ acct'[l].data.status = "liquidated"
  <2>1. l \in Addr /\ acct'[l] = tombstone(acct[l]) /\ l \in LoanAddr
    BY <1>9, AddressFacts
  <2>2. acct[l] \in AccountType /\ LoanOK(acct[l]) /\ acct[l].data.band \in BandAddr
        /\ acct[l].data.kind = "loan"
    BY <1>1, <1>3, <1>4, <1>5, <2>1 DEF Sound
  <2>3. /\ tombstone(acct[l]) \in AccountType
        /\ tombstone(acct[l]).data = LoanData(acct[l].data.band, "liquidated")
        /\ tombstone(acct[l]).owner = acct[l].owner
        /\ tombstone(acct[l]).lamports = acct[l].lamports
    BY <2>2, DataType1 DEF tombstone, AccountType
  <2>4. acct[l].data # Empty
    BY <2>2, DataType1
  <2> QED
    BY <2>1, <2>2, <2>3, <2>4, DataType1 DEF LoanOK
<1>11. ASSUME NEW b \in bands
       PROVE  /\ BandOK(acct'[b])
              /\ CountOf(acct'[b]) = left(b)
  <2>1. b \in BandAddr /\ b \in Addr /\ b \notin dead
    BY <1>6, AddressFacts
  <2>2. acct'[b] = [acct[b] EXCEPT !.data = BandData(left(b))]
    BY <1>9, <2>1
  <2>3. BandOK(acct[b]) /\ acct[b] \in AccountType /\ acct[b].data.kind = "band"
        /\ acct[b].data # Empty
    BY <1>1, <1>7, <2>1, DataType1 DEF Sound, BandOK
  <2>4. left(b) \in 0..MAX_LOANS
    BY <1>8
  <2>5. /\ acct'[b] \in AccountType /\ acct'[b].data = BandData(left(b))
        /\ acct'[b].owner = acct[b].owner /\ acct'[b].lamports = acct[b].lamports
    BY <2>2, <2>3, <2>4, DataType1 DEF AccountType
  <2> QED
    BY <2>3, <2>4, <2>5, DataType1 DEF BandOK, CountOf
<1>12. \A a \in Addr : a \notin dead /\ a \notin bands => acct'[a] = acct[a]
  BY <1>9
<1>13. \A c \in LoanAddr : LoanOK(acct'[c]) /\ (c \notin dead => acct'[c] = acct[c])
  BY <1>1, <1>6, <1>10, <1>12, AddressFacts DEF Sound
<1>14. \A c \in BandAddr : BandOK(acct'[c]) /\ (c \notin bands => acct'[c] = acct[c])
  BY <1>1, <1>11, <1>12, AddressFacts DEF Sound
<1>15. acct' \in [Addr -> AccountType]
  <2>1. \A a \in Addr : acct'[a] \in AccountType
    BY <1>13, <1>14, AddressFacts DEF LoanOK, BandOK
  <2> QED
    BY <1>9, <2>1
<1>16. \A b \in BandAddr : MembersIn(acct', b) = M(b) \ dead
  BY <1>10, <1>13 DEF MembersIn, M
<1>17. ASSUME NEW b \in BandAddr PROVE BandExact(acct', present', b)
  <2>1. CASE b \in bands
    <3>1. b \in present <=> M(b) # {}
      BY <1>1 DEF Sound, BandExact, M
    <3>2. b \in present' <=> b \in present /\ left(b) # 0
      BY <1>9, <2>1
    <3> QED
      BY <1>8, <1>11, <1>16, <2>1, <3>1, <3>2 DEF BandExact
  <2>2. CASE b \notin bands
    <3>1. M(b) \ dead = M(b)
      BY <2>2 DEF M, MembersIn, bands
    <3>2. acct'[b] = acct[b] /\ (b \in present' <=> b \in present)
      BY <1>9, <1>14, <2>2
    <3> QED
      BY <1>1, <1>16, <3>1, <3>2 DEF Sound, BandExact, M
  <2> QED
    BY <2>1, <2>2
<1>18. present' \in SUBSET BandAddr
  BY <1>1, <1>9 DEF Sound
<1>19. Sound(acct', present')
  BY <1>13, <1>14, <1>15, <1>17, <1>18 DEF Sound
<1> QED
  BY <1>1, <1>9, <1>19, InstructionStep DEF Swap

LEMMA KeepClaim ==
    ASSUME AccountsInv, NEW l \in LoanAddr, ClaimLiquidatedRent(l)
    PROVE  AccountsInv'
<1> DEFINE x == close_account(acct[l])
<1>1. Sound(acct, present) /\ wallet \in Nat
  BY DEF AccountsInv
<1>2. LoanOK(acct[l]) /\ acct[l].lamports \in Nat
  BY <1>1 DEF Sound, LoanOK, AccountType
<1>3. LoanOK(x) /\ x.data = Zeroed /\ x \in AccountType
  BY <1>2, Closed DEF ClaimLiquidatedRent, LoanOK
<1>4. /\ acct' = [acct EXCEPT ![l] = x] /\ present' = present
      /\ wallet' = wallet + acct[l].lamports
      /\ acct[l].data.kind = "loan" /\ acct[l].data.status = "liquidated"
  BY DEF ClaimLiquidatedRent
<1> HIDE DEF x
<1>5. /\ acct' \in [Addr -> AccountType] /\ acct'[l] = x
      /\ \A c \in Addr : c # l => acct'[c] = acct[c]
  BY <1>1, <1>3, <1>4, AddressFacts DEF Sound
<1>6. \A c \in LoanAddr : LoanOK(acct'[c])
  BY <1>1, <1>3, <1>5, AddressFacts DEF Sound
<1>7. \A b \in BandAddr : BandOK(acct'[b]) /\ CountOf(acct'[b]) = CountOf(acct[b])
  BY <1>1, <1>5, AddressFacts DEF Sound
<1>8. SameLoans(acct, acct')
  BY <1>3, <1>4, <1>5, AddressFacts, DataType1 DEF SameLoans
<1>9. Sound(acct', present)
  BY <1>1, <1>5, <1>6, <1>7, <1>8, SameLoansSound
<1>10. wallet' \in Nat
  BY <1>1, <1>2, <1>4
<1> QED
  BY <1>4, <1>9, <1>10, InstructionStep DEF ClaimLiquidatedRent

-------------------------------------------------------------------------------

LEMMA AccountsNext == AccountsInv /\ [Next]_vars => AccountsInv'
<1>1. AccountsInv /\ Next => AccountsInv'
  BY KeepBeginTx, KeepEndTx, KeepAbortTx, KeepTransfer, KeepOpenLoan, KeepRepayLoan,
     KeepSwap, KeepClaim DEF Next
<1>2. AccountsInv /\ UNCHANGED vars => AccountsInv'
  BY DEF AccountsInv, vars
<1> QED
  BY <1>1, <1>2

\* Whatever a transaction does to the accounts and wherever it fails, each
\* address holds an account of its own kind, and no count passes the cap.
THEOREM AccountTypes == Spec => []TypeOK
<1>1. AccountsInv => TypeOK
  BY AddressFacts DEF AccountsInv, Sound, LoanOK, BandOK, TypeOK
<1> QED
  BY AccountsInit, AccountsNext, <1>1, PTL DEF Spec

\* After every instruction of every transaction, each band counts exactly its
\* open loans and its presence bit says whether it has any, whichever of them
\* OpenLoan, RepayLoan and Swap opened, closed or liquidated and whatever
\* reverted: the reason why the counters RepayLoan and Swap subtract from never
\* underflow and Swap can always list all the members of a band.
THEOREM CountsExact == Spec => []MembersExact
<1>1. AccountsInv => MembersExact
  <2> SUFFICES ASSUME AccountsInv, NEW b \in BandAddr
               PROVE  /\ Cardinality(members(b)) = IF is_live(b) THEN band_count(b) ELSE 0
                      /\ b \in present <=> members(b) # {}
    BY DEF MembersExact
  <2>1. members(b) = MembersIn(acct, b)
    BY DEF members, MembersIn, is_open
  <2> QED
    BY <2>1 DEF AccountsInv, Sound, BandExact, CountOf, is_live, band_count
<1> QED
  BY AccountsInit, AccountsNext, <1>1, PTL DEF Spec

\* OpenLoan finds every band usable and every loan address without data free:
\* create_pda_account and is_zeroed_program_account between them accept whatever
\* transfers leave there, and at a band what a close and a top-up leave.
THEOREM AddressesUsable == Spec => []NeverBlocked
<1>1. AccountsInv => NeverBlocked
  <2> SUFFICES ASSUME AccountsInv PROVE NeverBlocked
    OBVIOUS
  <2>1. ASSUME NEW b \in BandAddr PROVE band_usable(b)
    <3>1. BandOK(acct[b]) /\ acct[b].owner \in {"system", "program"}
          /\ acct[b].data \in DataType
      BY DEF AccountsInv, Sound, BandOK, AccountType
    <3>2. acct[b].data = Empty \/ acct[b].data = Zeroed \/ acct[b].data.kind = "band"
      BY <3>1, DataCases DEF BandOK
    <3> QED
      BY <3>1, <3>2, DataType1
         DEF BandOK, band_usable, adoptable, is_zeroed_program_account, is_live
  <2>2. ASSUME NEW l \in LoanAddr, acct[l].data = Empty PROVE loan_address_free(l)
    BY <2>2 DEF AccountsInv, Sound, LoanOK, loan_address_free, adoptable
  <2> QED
    BY <2>1, <2>2 DEF NeverBlocked
<1> QED
  BY AccountsInit, AccountsNext, <1>1, PTL DEF Spec

\* Every loan and band account holds its rent from the instruction that creates
\* it to the one that closes it, tombstones of liquidated loans included.
THEOREM AlwaysRentExempt == Spec => []RentExempt
<1>1. AccountsInv => RentExempt
  <2> SUFFICES ASSUME AccountsInv, NEW a \in Addr, acct[a].data.kind \in {"loan", "band"}
               PROVE  acct[a].lamports >= rent_of(a)
    BY DEF RentExempt
  <2>1. acct[a].data # Empty
    BY DataType1
  <2> QED
    BY <2>1, AddressFacts DEF AccountsInv, Sound, LoanOK, BandOK, rent_of
<1> QED
  BY AccountsInit, AccountsNext, <1>1, PTL DEF Spec

=============================================================================
