---------------------------- MODULE MCSpinRWLock ----------------------------
(* The instance of SpinRWLock for TLC.  No symmetry: TryReturns is a         *)
(* liveness property.                                                        *)
EXTENDS SpinRWLock
=============================================================================
