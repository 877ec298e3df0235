---------------------------- MODULE PoolCreation -----------------------------
(* InitializePool: which mints a pool accepts and how its four accounts are    *)
(* created at predictable addresses.                                           *)
(*                                                                             *)
(* The mints belong to the two token programs and to whoever created them.     *)
(* They are modelled as far as the mint policy of initialize_pool.rs depends   *)
(* on them: a Token-2022 mint whose close authority is set can be closed at    *)
(* zero supply and created again, differently, at the same address; an         *)
(* authority once unset stays unset; metadata may be added at any time.        *)
EXTENDS AccountUtils

CONSTANTS
    Mint,         \* mint addresses, as naturals: the order is the key order
    Decimals,     \* the decimals a mint may have
    Funding,      \* the lamports somebody may send to an address in advance
    RENT,         \* rent-exempt minimum of the pool's accounts
    Prefundable   \* bound: the roles whose addresses are pre-funded

\* The accounts InitializePool creates.
Role == {"pool", "vault_a", "vault_b", "lp_mint"}

ASSUME MintAssumption == Mint \subseteq Nat /\ Decimals \subseteq Nat

ASSUME FundingAssumption ==
    /\ RENT \in Nat /\ Funding \subseteq Nat
    /\ Prefundable \subseteq Role

VARIABLES
    mint,  \* mint[m]: the mint at address m
    acct   \* acct[<<a, b>>][r]: the account of role r derived for mints a, b

vars == <<mint, acct>>

-------------------------------------------------------------------------------
(* Mints (external).  Extensions fall into three classes: the close authority, *)
(* the other allowlisted ones, and all the rest.                               *)

Extension == {"close_authority", "listed", "unlisted"}

NoMint ==
    [program |-> "none", ext |-> {}, closer |-> FALSE, decimals |-> 0, supply |-> 0]

Exists(m) == mint[m].program # "none"

CreateMint(m, program, ext, closer, decimals) ==
    /\ ~ Exists(m)
    /\ program = "spl_token" => ext = {}
    /\ closer => "close_authority" \in ext
    /\ mint' = [mint EXCEPT ![m] =
                  [program |-> program, ext |-> ext, closer |-> closer,
                   decimals |-> decimals, supply |-> 0]]
    /\ UNCHANGED acct

\* Tokens are issued, or the last of them burned.
SetSupply(m, supply) ==
    /\ Exists(m)
    /\ mint[m].supply # supply
    /\ mint' = [mint EXCEPT ![m].supply = supply]
    /\ UNCHANGED acct

CloseMint(m) ==
    /\ mint[m].closer
    /\ mint[m].supply = 0
    /\ mint' = [mint EXCEPT ![m] = NoMint]
    /\ UNCHANGED acct

UnsetCloser(m) ==
    /\ mint[m].closer
    /\ mint' = [mint EXCEPT ![m].closer = FALSE]
    /\ UNCHANGED acct

AddMetadata(m) ==
    /\ mint[m].program = "token_2022"
    /\ "listed" \notin mint[m].ext
    /\ mint' = [mint EXCEPT ![m].ext = @ \cup {"listed"}]
    /\ UNCHANGED acct

-------------------------------------------------------------------------------
(* The pool's accounts.                                                        *)

is_pool(a, b) == acct[<<a, b>>]["pool"].data.kind = "pool"

\* Anyone may send lamports to an address before it is created, less than its
\* rent or more; one transfer to each address.
Prefund(a, b, r, lamports) ==
    /\ a # b
    /\ acct[<<a, b>>][r] = NoAccount
    /\ acct' = [acct EXCEPT ![<<a, b>>][r].lamports = lamports]
    /\ UNCHANGED mint

canonical_order(a, b) == a < b

validate_mint_extensions_fault(x) ==    \* any close authority
    x.program = "token_2022" => x.ext \subseteq {"close_authority", "listed"}

\* The allowlist: a close authority only while it is unset.
validate_mint_extensions(x) ==
    x.program = "token_2022" =>
       /\ x.ext \subseteq {"close_authority", "listed"}
       /\ ~ x.closer

\* The owner of the account of each role: every vault under its own mint's
\* token program, the LP mint under that of mint A.
vault_program(a, b, r) ==
    CASE r = "pool"    -> "program"
      [] r = "vault_b" -> mint[b].program
      [] OTHER         -> mint[a].program

InitializePool(a, b) ==
    LET pda == acct[<<a, b>>]
    IN  /\ Exists(a) /\ Exists(b)
        /\ canonical_order(a, b)
        /\ validate_mint_extensions(mint[a])
        /\ validate_mint_extensions(mint[b])
        /\ pda["pool"].data = Empty
        /\ \A r \in Role : adoptable(pda[r])
        /\ acct' = [acct EXCEPT ![<<a, b>>] =
                      [r \in Role |->
                         [create_pda_account(pda[r], RENT, vault_program(a, b, r))
                            EXCEPT !.data = [kind |-> r]]]]
        /\ UNCHANGED mint

-------------------------------------------------------------------------------

Init ==
    /\ mint = [m \in Mint |-> NoMint]
    /\ acct = [p \in Mint \X Mint |-> [r \in Role |-> NoAccount]]

Next ==
    \/ \E m \in Mint, p \in {"spl_token", "token_2022"}, e \in SUBSET Extension,
          c \in BOOLEAN, d \in Decimals : CreateMint(m, p, e, c, d)
    \/ \E m \in Mint, n \in {0, 1} : SetSupply(m, n)
    \/ \E m \in Mint : CloseMint(m)
    \/ \E m \in Mint : UnsetCloser(m)
    \/ \E m \in Mint : AddMetadata(m)
    \/ \E a, b \in Mint, r \in Prefundable, x \in Funding : Prefund(a, b, r, x)
    \/ \E a, b \in Mint : InitializePool(a, b)

Spec == Init /\ [][Next]_vars

-------------------------------------------------------------------------------
(* Properties.                                                                 *)

AccountType ==
    [lamports: Nat, owner: {"system", "program", "spl_token", "token_2022"},
     data: [kind: {"empty"} \cup Role]]

MintType ==
    [program: {"none", "spl_token", "token_2022"}, ext: SUBSET Extension,
     closer: BOOLEAN, decimals: Decimals \cup {0}, supply: {0, 1}]

\* The mints of a pool stay what InitializePool checked, for as long as the pool
\* exists and whatever their creators do: they exist, carry no extension outside
\* the allowlist, and each vault belongs to the token program its mint has now,
\* so that no later instruction is refused and no transfer is short.
MintsStayVetted ==
    \A a, b \in Mint : is_pool(a, b) =>
       /\ \A m \in {a, b} : Exists(m) /\ "unlisted" \notin mint[m].ext
       /\ acct[<<a, b>>]["vault_a"].owner = mint[a].program
       /\ acct[<<a, b>>]["vault_b"].owner = mint[b].program

\* The decimals of a pool's mints never change: Swap and the others pass them to
\* transfer_checked, and prices in the pool are in raw amounts.
DecimalsFixed ==
    [][\A a, b \in Mint : is_pool(a, b) =>
          \A m \in {a, b} : mint'[m].decimals = mint[m].decimals]_vars

\* No transfer to the predictable addresses can keep the accounts of a pool
\* from being created.
CreationNeverBlocked ==
    \A a, b \in Mint :
       ~ is_pool(a, b) => \A r \in Role : adoptable(acct[<<a, b>>][r])

\* Accounts and mints hold values of their types, and every account of a pool is
\* rent-exempt from the instruction that creates it.
TypeOK ==
    /\ mint \in [Mint -> MintType]
    /\ acct \in [Mint \X Mint -> [Role -> AccountType]]
    /\ \A p \in Mint \X Mint, r \in Role :
          acct[p][r].data # Empty => acct[p][r].lamports >= RENT

=============================================================================
