----------------------------- MODULE UnsignedInt -----------------------------
(* unsigned int, the type of every counter and index of DataLoader and of   *)
(* main: arithmetic is modulo 2^32.                                         *)
EXTENDS Integers

CONSTANT UIntMod  \* 2^32

ASSUME UIntAssumption == UIntMod \in Nat \ {0}

UInt(n) == n % UIntMod
=============================================================================
