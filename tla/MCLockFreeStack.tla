--------------------------- MODULE MCLockFreeStack --------------------------
(* Instances of LockFreeStack for TLC. *)
EXTENDS LockFreeStack, TLC

Symmetry == Permutations(Thread) \cup Permutations(Value)
=============================================================================
