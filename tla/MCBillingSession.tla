-------------------------- MODULE MCBillingSession --------------------------
(***************************************************************************)
(* Small instances of BillingSession for TLC.                              *)
(***************************************************************************)
EXTENDS BillingSession, TLC

CONSTANTS r1, r2

RequestSymmetry == Permutations(Requests)

=============================================================================
