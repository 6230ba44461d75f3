---------------------------- MODULE MCLifecycle ----------------------------
(* Model checking of Lifecycle: one session slot, the seven bypasses cut   *)
(* down to two.                                                            *)
EXTENDS LifecycleInv, TLC

\* The administrator's contents of resolv.conf have no identity.
Interchangeable == Permutations(Contents)
=============================================================================
