---------------------------- MODULE MCIntegerSqrt ----------------------------
(* The instance of IntegerSqrt for TLC: every word of W bits, IntegerSqrt.cfg. *)
EXTENDS IntegerSqrt

=============================================================================
