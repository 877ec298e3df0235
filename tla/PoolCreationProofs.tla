------------------------- MODULE PoolCreationProofs --------------------------
(* Proofs about PoolCreation, for any mints, decimals and rents.               *)
(*                                                                             *)
(* A pool's mints stay vetted because nobody can close them any more, which is *)
(* a fact about their close authority that MintsStayVetted does not mention:   *)
(* the inductive invariant adds it, for mints of both token programs, and that *)
(* the four accounts of a pool come into existence together.                   *)
EXTENDS PoolCreation, TLAPS

-------------------------------------------------------------------------------
(* The inductive invariant.                                                    *)

\* Only Token-2022 mints have extensions, and a closer is one of them.
MintsSane ==
    \A m \in Mint : mint[m].program = "spl_token" => mint[m].ext = {} /\ ~ mint[m].closer

\* A mint of a pool exists, passes the allowlist and can never be closed.
Vetted(m) ==
    /\ mint[m].program # "none"
    /\ "unlisted" \notin mint[m].ext
    /\ ~ mint[m].closer

PoolsVetted ==
    \A a, b \in Mint : is_pool(a, b) =>
       /\ Vetted(a) /\ Vetted(b)
       /\ acct[<<a, b>>]["vault_a"].owner = mint[a].program
       /\ acct[<<a, b>>]["vault_b"].owner = mint[b].program

CreationInv == TypeOK /\ MintsSane /\ PoolsVetted /\ CreationNeverBlocked

-------------------------------------------------------------------------------

\* A step of the token programs on one mint m keeps the invariant when it leaves
\* a sane mint of the type and keeps a vetted one vetted, with its program.
LEMMA MintStep ==
    ASSUME CreationInv, NEW m \in Mint, NEW x \in MintType,
           mint' = [mint EXCEPT ![m] = x], acct' = acct,
           x.program = "spl_token" => x.ext = {} /\ ~ x.closer,
           Vetted(m) => /\ x.program = mint[m].program
                        /\ "unlisted" \notin x.ext
                        /\ ~ x.closer
    PROVE  CreationInv'
<1>1. TypeOK'
  BY DEF CreationInv, TypeOK
<1>2. MintsSane'
  BY DEF CreationInv, MintsSane, TypeOK
<1>3. \A k \in Mint : Vetted(k) => Vetted(k)' /\ mint'[k].program = mint[k].program
  BY DEF CreationInv, TypeOK, Vetted
<1>4. PoolsVetted'
  BY <1>3 DEF CreationInv, PoolsVetted, is_pool
<1>5. CreationNeverBlocked'
  BY DEF CreationInv, CreationNeverBlocked, is_pool
<1> QED
  BY <1>1, <1>2, <1>4, <1>5 DEF CreationInv

LEMMA KeepCreateMint ==
    ASSUME CreationInv, NEW m \in Mint, NEW p \in {"spl_token", "token_2022"},
           NEW e \in SUBSET Extension, NEW c \in BOOLEAN, NEW d \in Decimals,
           CreateMint(m, p, e, c, d)
    PROVE  CreationInv'
<1> DEFINE x == [program |-> p, ext |-> e, closer |-> c, decimals |-> d, supply |-> 0]
<1>1. x \in MintType
  BY DEF MintType
<1>2. ~ Vetted(m)
  BY DEF CreateMint, Exists, Vetted
<1>3. p = "spl_token" => e = {} /\ ~ c
  BY DEF CreateMint
<1>4. mint' = [mint EXCEPT ![m] = x] /\ acct' = acct
  BY DEF CreateMint
<1> QED
  BY <1>1, <1>2, <1>3, <1>4, MintStep

LEMMA KeepSetSupply ==
    ASSUME CreationInv, NEW m \in Mint, NEW n \in {0, 1}, SetSupply(m, n)
    PROVE  CreationInv'
<1> DEFINE x == [mint[m] EXCEPT !.supply = n]
<1>1. mint[m] \in MintType
  BY DEF CreationInv, TypeOK
<1>2. x \in MintType /\ x.program = mint[m].program /\ x.ext = mint[m].ext
      /\ x.closer = mint[m].closer
  BY <1>1 DEF MintType
<1>3. mint' = [mint EXCEPT ![m] = x] /\ acct' = acct
  BY DEF SetSupply
<1> QED
  BY <1>2, <1>3, MintStep DEF CreationInv, MintsSane, Vetted

LEMMA KeepCloseMint ==
    ASSUME CreationInv, NEW m \in Mint, CloseMint(m)
    PROVE  CreationInv'
<1>1. NoMint \in MintType /\ NoMint.program # "spl_token"
  BY DEF MintType, NoMint
<1>2. ~ Vetted(m)
  BY DEF CloseMint, Vetted
<1> QED
  BY <1>1, <1>2, MintStep DEF CloseMint

LEMMA KeepUnsetCloser ==
    ASSUME CreationInv, NEW m \in Mint, UnsetCloser(m)
    PROVE  CreationInv'
<1> DEFINE x == [mint[m] EXCEPT !.closer = FALSE]
<1>1. mint[m] \in MintType
  BY DEF CreationInv, TypeOK
<1>2. x \in MintType /\ x.program = mint[m].program /\ x.ext = mint[m].ext
      /\ x.closer = FALSE
  BY <1>1 DEF MintType
<1>3. mint' = [mint EXCEPT ![m] = x] /\ acct' = acct
  BY DEF UnsetCloser
<1> QED
  BY <1>2, <1>3, MintStep DEF CreationInv, MintsSane, Vetted

LEMMA KeepAddMetadata ==
    ASSUME CreationInv, NEW m \in Mint, AddMetadata(m)
    PROVE  CreationInv'
<1> DEFINE x == [mint[m] EXCEPT !.ext = @ \cup {"listed"}]
<1>1. mint[m] \in MintType
  BY DEF CreationInv, TypeOK
<1>2. x \in MintType /\ x.program = mint[m].program
      /\ x.ext = mint[m].ext \cup {"listed"} /\ x.closer = mint[m].closer
  BY <1>1 DEF MintType, Extension
<1>3. mint' = [mint EXCEPT ![m] = x] /\ acct' = acct
  BY DEF AddMetadata
<1>4. x.program # "spl_token"
  BY <1>2 DEF AddMetadata
<1>5. Vetted(m) => "unlisted" \notin x.ext /\ ~ x.closer
  BY <1>2 DEF Vetted
<1> QED
  BY <1>2, <1>3, <1>4, <1>5, MintStep

-------------------------------------------------------------------------------
(* Steps on the accounts.                                                      *)

\* A step that rewrites the accounts derived for one pair and no mint keeps the
\* invariant when what it leaves there does.
LEMMA PairStep ==
    ASSUME CreationInv, NEW a \in Mint, NEW b \in Mint,
           NEW new \in [Role -> AccountType],
           acct' = [acct EXCEPT ![<<a, b>>] = new], mint' = mint,
           \A r \in Role : new[r].data # Empty => new[r].lamports >= RENT,
           new["pool"].data.kind # "pool" => \A r \in Role : adoptable(new[r]),
           new["pool"].data.kind = "pool" =>
              /\ Vetted(a) /\ Vetted(b)
              /\ new["vault_a"].owner = mint[a].program
              /\ new["vault_b"].owner = mint[b].program
    PROVE  CreationInv'
<1>1. <<a, b>> \in Mint \X Mint
  OBVIOUS
<1>2. acct' \in [Mint \X Mint -> [Role -> AccountType]] /\ acct'[<<a, b>>] = new
      /\ \A p \in Mint \X Mint : p # <<a, b>> => acct'[p] = acct[p]
  BY <1>1 DEF CreationInv, TypeOK
<1>3. TypeOK'
  BY <1>2 DEF CreationInv, TypeOK
<1>4. \A k, l \in Mint : \/ k = a /\ l = b /\ acct'[<<k, l>>] = new
                         \/ acct'[<<k, l>>] = acct[<<k, l>>]
  BY <1>2
<1>5. PoolsVetted'
  BY <1>4 DEF CreationInv, PoolsVetted, is_pool, Vetted
<1>6. CreationNeverBlocked'
  BY <1>4 DEF CreationInv, CreationNeverBlocked, is_pool
<1>7. MintsSane'
  BY DEF CreationInv, MintsSane
<1> QED
  BY <1>3, <1>5, <1>6, <1>7 DEF CreationInv

LEMMA KeepPrefund ==
    ASSUME CreationInv, NEW a \in Mint, NEW b \in Mint, NEW r \in Prefundable,
           NEW x \in Funding, Prefund(a, b, r, x)
    PROVE  CreationInv'
<1> DEFINE p   == <<a, b>>
           new == [acct[p] EXCEPT ![r].lamports = x]
<1>1. p \in Mint \X Mint /\ acct[p] \in [Role -> AccountType] /\ r \in Role
  BY FundingAssumption DEF CreationInv, TypeOK
<1>2. acct[p][r] = NoAccount
  BY DEF Prefund
<1>3. new[r] = [lamports |-> x, owner |-> "system", data |-> Empty]
  BY <1>1, <1>2 DEF NoAccount
<1>4. \A q \in Role : q # r => new[q] = acct[p][q]
  BY <1>1
<1>5. new \in [Role -> AccountType]
  BY <1>1, <1>2, FundingAssumption DEF AccountType, NoAccount, Empty
<1>6. acct' = [acct EXCEPT ![p] = new] /\ mint' = mint
  BY DEF Prefund
<1>7. \A q \in Role : new[q].data # Empty => new[q].lamports >= RENT
  <2>1. \A q \in Role : acct[p][q].data # Empty => acct[p][q].lamports >= RENT
    BY <1>1 DEF CreationInv, TypeOK
  <2>2. new[r].data = Empty
    BY <1>3
  <2> QED
    BY <1>4, <2>1, <2>2
<1>8. \A q \in Role : new[q].data = acct[p][q].data /\ new[q].owner = acct[p][q].owner
  BY <1>2, <1>3, <1>4 DEF NoAccount
<1>9. "pool" \in Role /\ "vault_a" \in Role /\ "vault_b" \in Role
  BY DEF Role
<1>10. new["pool"].data.kind # "pool" => \A q \in Role : adoptable(new[q])
  BY <1>8, <1>9 DEF CreationInv, CreationNeverBlocked, is_pool, adoptable
<1>11. new["pool"].data.kind = "pool" =>
          /\ Vetted(a) /\ Vetted(b)
          /\ new["vault_a"].owner = mint[a].program
          /\ new["vault_b"].owner = mint[b].program
  BY <1>8, <1>9 DEF CreationInv, PoolsVetted, is_pool
<1> QED
  BY <1>5, <1>6, <1>7, <1>10, <1>11, PairStep

LEMMA KeepInitializePool ==
    ASSUME CreationInv, NEW a \in Mint, NEW b \in Mint, InitializePool(a, b)
    PROVE  CreationInv'
<1> DEFINE p   == <<a, b>>
           new == [r \in Role |->
                     [create_pda_account(acct[p][r], RENT, vault_program(a, b, r))
                        EXCEPT !.data = [kind |-> r]]]
<1>1. p \in Mint \X Mint /\ acct[p] \in [Role -> AccountType]
  BY DEF CreationInv, TypeOK
<1>2. \A r \in Role : vault_program(a, b, r) \in {"program", "spl_token", "token_2022"}
  <2>1. mint[a] \in MintType /\ mint[b] \in MintType
    BY DEF CreationInv, TypeOK
  <2>2. mint[a].program \in {"spl_token", "token_2022"}
        /\ mint[b].program \in {"spl_token", "token_2022"}
    BY <2>1 DEF InitializePool, Exists, MintType
  <2> QED
    BY <2>2 DEF vault_program, Role
<1>3. ASSUME NEW r \in Role
      PROVE  /\ new[r] \in AccountType
             /\ new[r].lamports >= RENT
             /\ new[r].data.kind = r
             /\ new[r].owner = vault_program(a, b, r)
  <2>1. acct[p][r].lamports \in Nat
    BY <1>1 DEF AccountType
  <2>2. new[r] = [lamports |-> acct[p][r].lamports + missing_rent(acct[p][r], RENT),
                  owner |-> vault_program(a, b, r), data |-> [kind |-> r]]
    BY DEF create_pda_account
  <2>3. acct[p][r].lamports + missing_rent(acct[p][r], RENT) \in Nat
        /\ acct[p][r].lamports + missing_rent(acct[p][r], RENT) >= RENT
    BY <2>1, FundingAssumption DEF missing_rent
  <2> QED
    BY <2>2, <2>3, <1>2 DEF AccountType
<1>4. new \in [Role -> AccountType]
  BY <1>3
<1>5. Vetted(a) /\ Vetted(b)
  <2>1. ASSUME NEW m \in Mint, Exists(m), validate_mint_extensions(mint[m])
        PROVE  Vetted(m)
    <3>1. mint[m].program \in {"spl_token", "token_2022"}
      BY <2>1 DEF CreationInv, TypeOK, MintType, Exists
    <3> QED
      BY <2>1, <3>1 DEF CreationInv, MintsSane, Vetted, Exists, validate_mint_extensions
  <2> QED
    BY <2>1 DEF InitializePool
<1>6. new["pool"].data.kind = "pool" /\ new["vault_a"].owner = mint[a].program
      /\ new["vault_b"].owner = mint[b].program
  BY <1>3 DEF Role, vault_program
<1>7. acct' = [acct EXCEPT ![p] = new] /\ mint' = mint
  BY DEF InitializePool
<1> QED
  BY <1>3, <1>4, <1>5, <1>6, <1>7, PairStep

-------------------------------------------------------------------------------

LEMMA CreationInit == Init => CreationInv
<1> SUFFICES ASSUME Init PROVE CreationInv
  OBVIOUS
<1>1. NoMint \in MintType /\ NoMint.program = "none" /\ NoAccount \in AccountType
      /\ NoAccount.data = Empty /\ NoAccount.data.kind = "empty"
      /\ adoptable(NoAccount)
  BY DEF NoMint, MintType, NoAccount, AccountType, Empty, adoptable
<1>2. mint \in [Mint -> MintType] /\ \A m \in Mint : mint[m] = NoMint
  BY <1>1 DEF Init
<1>3. acct \in [Mint \X Mint -> [Role -> AccountType]]
      /\ \A p \in Mint \X Mint, r \in Role : acct[p][r] = NoAccount
  BY <1>1 DEF Init
<1>4. TypeOK
  BY <1>1, <1>2, <1>3 DEF TypeOK
<1>5. MintsSane
  BY <1>1, <1>2 DEF MintsSane
<1>6. \A a, b \in Mint : ~ is_pool(a, b) /\ \A r \in Role : adoptable(acct[<<a, b>>][r])
  BY <1>1, <1>3 DEF is_pool, Role
<1> QED
  BY <1>4, <1>5, <1>6 DEF CreationInv, PoolsVetted, CreationNeverBlocked

LEMMA CreationNext == CreationInv /\ [Next]_vars => CreationInv'
<1>1. CreationInv /\ Next => CreationInv'
  BY KeepCreateMint, KeepSetSupply, KeepCloseMint, KeepUnsetCloser,
     KeepAddMetadata, KeepPrefund, KeepInitializePool DEF Next
<1>2. CreationInv /\ UNCHANGED vars => CreationInv'
  BY DEF vars, CreationInv, TypeOK, MintsSane, PoolsVetted, CreationNeverBlocked,
         Vetted, is_pool
<1> QED
  BY <1>1, <1>2

\* Accounts and mints keep their types, and the accounts InitializePool creates
\* are rent-exempt whatever was sent to their addresses before.
THEOREM CreationTypes == Spec => []TypeOK
<1>1. CreationInv => TypeOK
  BY DEF CreationInv
<1> QED
  BY CreationInit, CreationNext, <1>1, PTL DEF Spec

\* Whatever their creators do later, the mints InitializePool accepted stay
\* vetted: they exist, have no forbidden extension, and keep the token program
\* their vaults were created under.
THEOREM VettedForGood == Spec => []MintsStayVetted
<1>1. CreationInv => MintsStayVetted
  BY DEF CreationInv, PoolsVetted, Vetted, MintsStayVetted, Exists
<1> QED
  BY CreationInit, CreationNext, <1>1, PTL DEF Spec

\* Lamports sent in advance never keep create_pda_account from adopting one of
\* the four addresses InitializePool needs.
THEOREM AlwaysCreatable == Spec => []CreationNeverBlocked
<1>1. CreationInv => CreationNeverBlocked
  BY DEF CreationInv
<1> QED
  BY CreationInit, CreationNext, <1>1, PTL DEF Spec

\* A mint of a pool keeps its decimals: no step of the token programs changes
\* those of a mint that exists, and a mint that has no close authority is never
\* created anew.
THEOREM DecimalsForGood == Spec => DecimalsFixed
<1>1. ASSUME CreationInv, [Next]_vars, NEW m \in Mint, Vetted(m)
      PROVE  mint'[m].decimals = mint[m].decimals
  <2>1. mint \in [Mint -> MintType] /\ mint[m] \in MintType
    BY <1>1 DEF CreationInv, TypeOK
  <2>2. ASSUME NEW k \in Mint, NEW p \in {"spl_token", "token_2022"},
               NEW e \in SUBSET Extension, NEW c \in BOOLEAN, NEW d \in Decimals,
               CreateMint(k, p, e, c, d)
        PROVE  mint'[m] = mint[m]
    BY <1>1, <2>1, <2>2 DEF CreateMint, Exists, Vetted
  <2>3. ASSUME NEW k \in Mint, NEW n \in {0, 1}, SetSupply(k, n)
        PROVE  mint'[m].decimals = mint[m].decimals
    BY <2>1, <2>3 DEF SetSupply, MintType
  <2>4. ASSUME NEW k \in Mint, CloseMint(k)
        PROVE  mint'[m] = mint[m]
    BY <1>1, <2>1, <2>4 DEF CloseMint, Vetted
  <2>5. ASSUME NEW k \in Mint, UnsetCloser(k)
        PROVE  mint'[m] = mint[m]
    BY <1>1, <2>1, <2>5 DEF UnsetCloser, Vetted
  <2>6. ASSUME NEW k \in Mint, AddMetadata(k)
        PROVE  mint'[m].decimals = mint[m].decimals
    BY <2>1, <2>6 DEF AddMetadata, MintType
  <2>7. ASSUME NEW a \in Mint, NEW b \in Mint,
               \/ InitializePool(a, b)
               \/ \E r \in Prefundable, x \in Funding : Prefund(a, b, r, x)
        PROVE  mint' = mint
    BY <2>7 DEF InitializePool, Prefund
  <2>8. UNCHANGED vars => mint' = mint
    BY DEF vars
  <2> QED
    BY <1>1, <2>2, <2>3, <2>4, <2>5, <2>6, <2>7, <2>8 DEF Next
<1>2. CreationInv /\ [Next]_vars =>
         [\A a, b \in Mint : is_pool(a, b) =>
             \A m \in {a, b} : mint'[m].decimals = mint[m].decimals]_vars
  BY <1>1 DEF CreationInv, PoolsVetted
<1> QED
  BY CreationInit, CreationNext, <1>2, PTL DEF Spec, DecimalsFixed

=============================================================================
