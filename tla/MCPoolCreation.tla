--------------------------- MODULE MCPoolCreation ----------------------------
(* The instance of PoolCreation for TLC: PoolCreation.cfg.                     *)
EXTENDS PoolCreation

PrefundedRoles == {"pool", "vault_b"}

=============================================================================
