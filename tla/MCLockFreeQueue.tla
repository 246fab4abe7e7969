--------------------------- MODULE MCLockFreeQueue --------------------------
EXTENDS LockFreeQueue, TLC

CONSTANTS t1, t2

Calls == (t1 :> 2) @@ (t2 :> 3)
FewCalls == (t1 :> 2) @@ (t2 :> 2)
=============================================================================
