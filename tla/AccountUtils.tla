---------------------------- MODULE AccountUtils -----------------------------
(* Solana accounts as the program creates, adopts and closes them:             *)
(* account_utils.rs and the closing helpers of the instructions.               *)
(*                                                                             *)
(* An account is a record of its lamports, its owner and its data.  The data   *)
(* is Empty (no bytes), Zeroed (all its bytes zero) or what was written to it. *)
(* An address nobody ever funded reads as NoAccount.                           *)
EXTENDS Integers

Empty == [kind |-> "empty"]

Zeroed == [kind |-> "zeroed"]

NoAccount == [lamports |-> 0, owner |-> "system", data |-> Empty]

missing_rent_fault(a, rent) ==    \* funds new accounts only
    IF a.lamports = 0 THEN rent ELSE 0

\* What the payer still has to add for a to be rent-exempt.
missing_rent(a, rent) == IF a.lamports < rent THEN rent - a.lamports ELSE 0

adoptable_fault(a) == a = NoAccount    \* plain create_account

\* create_pda_account succeeds on a: the system program creates an account
\* without lamports, and a pre-funded one is allocated and assigned.
adoptable(a) == a.owner = "system" /\ a.data = Empty

\* The account create_pda_account leaves at a, given to owner.
create_pda_account(a, rent, owner) ==
    [lamports |-> a.lamports + missing_rent(a, rent),
     owner    |-> owner,
     data     |-> Zeroed]

is_zeroed_program_account_fault(a, program) ==    \* does not read the bytes
    a.owner = program /\ a.data # Empty

\* A closed account of the program whose lamports were topped up before the
\* closing transaction ended.  At the address of a band it has a band's length.
is_zeroed_program_account(a, program) == a.owner = program /\ a.data = Zeroed

\* Closing drains the lamports and zeroes the data; the owner and the length
\* stay until the transaction ends.
close_account(a) == [a EXCEPT !.lamports = 0, !.data = Zeroed]

=============================================================================
