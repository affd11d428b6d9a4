----------------------------- MODULE MCLockStore -----------------------------
(* LockStore on a few processes of one host.                                *)
EXTENDS LockStore, TLC

Symmetry == Permutations(Proc)
==============================================================================
