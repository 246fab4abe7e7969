----------------------------- MODULE MCOwnership ----------------------------
(***************************************************************************)
(* The classes of the library that own or share objects, each by itself: a *)
(* behaviour belongs to one part and leaves the state of the others alone. *)
(***************************************************************************)
EXTENDS FutureClosure, ScopedPtr, RefCounted, FuturePtr, TLC

CONSTANTS c1, c2, o1, o2, o3, s1, s2, s3

VARIABLE part

AnyShape == {s \in (0 .. 7) \X (0 .. 7) : s[1] + s[2] <= 7}
Shapes == (c1 :> AnyShape) @@ (c2 :> {<<1, 1>>})
Kinds == (o1 :> "new") @@ (o2 :> "new") @@ (o3 :> "malloc")
           @@ (s1 :> "new") @@ (s2 :> "new") @@ (s3 :> "malloc")

Init ==
    /\ part \in {"closure", "future", "scoped", "ref", "futureptr"}
    /\ ClosureInit /\ FcInit /\ ScopedInit /\ FuturePtrInit
    /\ IF part = "ref" THEN RefInit
       ELSE RefInit /\ safe /\ refs = [u \in RefThread |-> IF u = Worker THEN 1 ELSE 0]

Next ==
    \/ /\ part = "closure" /\ ClosureNext
       /\ UNCHANGED <<part, fcVars, scopedVars, refVars, futurePtrVars>>
    \/ /\ part = "future" /\ FcNext
       /\ UNCHANGED <<part, scopedVars, refVars, futurePtrVars>>
    \/ /\ part = "scoped" /\ ScopedNext
       /\ UNCHANGED <<part, closureVars, fcVars, refVars, futurePtrVars>>
    \/ /\ part = "ref" /\ RefNext
       /\ UNCHANGED <<part, closureVars, fcVars, scopedVars, futurePtrVars>>
    \/ /\ part = "futureptr" /\ FuturePtrNext
       /\ UNCHANGED <<part, closureVars, fcVars, scopedVars, refVars>>

vars == <<part, closureVars, fcVars, scopedVars, refVars, futurePtrVars>>

(* The worker runs what it was given; the owner of a future waits for it. *)
Spec ==
    /\ Init /\ [][Next]_vars
    /\ WF_vars(part = "future" /\ WorkerStep /\ UNCHANGED <<part, scopedVars, refVars, futurePtrVars>>)
    /\ WF_vars(part = "future" /\ (FcRegister \/ FcWait)
                /\ UNCHANGED <<part, scopedVars, refVars, futurePtrVars>>)
=============================================================================
