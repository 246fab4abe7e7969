------------------------------ MODULE FuturePtr -----------------------------
(***************************************************************************)
(* FuturePtr of apsara/stone/threading/sync: a pointer that counts its     *)
(* Future, which is made with a count of one for whoever takes it over.    *)
(* Ref and Unref are the library's: they count, and Unref deletes at zero. *)
(* Assigning is two steps, because the new Future is counted only after    *)
(* the old one was let go.                                                 *)
(***************************************************************************)
EXTENDS Naturals, FiniteSets

CONSTANTS
    FutureId,
    Pointer     \* the FuturePtr variables, each used by one thread

VARIABLES
    mFuture,    \* mFuture[p]: what p points to
    mRefCount,  \* mRefCount[f]: the count of f
    futures,    \* futures[f]: "none", "live", "deleted"
    bare,       \* the Futures whose count the program has without a FuturePtr
    assigning   \* assigning[p]: the pointer that p is being assigned, or NoPointer:
                \* p has let go of the old Future and not counted the new one

futurePtrVars == <<mFuture, mRefCount, futures, bare, assigning>>

NoFuture == "NULL"
NoPointer == "none"

ASSUME FuturePtrAssumption ==
    /\ IsFiniteSet(Pointer) /\ NoFuture \notin FutureId /\ NoPointer \notin Pointer

(* p is not in the middle of an assignment, on either side. *)
Idle(p) == assigning[p] = NoPointer /\ (\A r \in Pointer : assigning[r] # p)

FuturePtrInit ==
    /\ mFuture = [p \in Pointer |-> NoFuture]
    /\ mRefCount = [f \in FutureId |-> 0]
    /\ futures = [f \in FutureId |-> "none"]
    /\ bare = {} /\ assigning = [p \in Pointer |-> NoPointer]

(* Ref and Unref, on the counts c and the states s of all Futures. *)
Refed(c, f) == IF f = NoFuture THEN c ELSE [c EXCEPT ![f] = @ + 1]
Unrefed(c, f) == IF f = NoFuture THEN c ELSE [c EXCEPT ![f] = @ - 1]
Unref(f) ==
    /\ mRefCount' = Unrefed(mRefCount, f)
    /\ futures' = [g \in FutureId |-> IF g = f /\ mRefCount[f] = 1 THEN "deleted" ELSE futures[g]]

CreateFuture(f) ==
    /\ futures[f] = "none"
    /\ futures' = [futures EXCEPT ![f] = "live"]
    /\ mRefCount' = [mRefCount EXCEPT ![f] = 1]
    /\ bare' = bare \cup {f}
    /\ UNCHANGED <<mFuture, assigning>>

(* The copy constructor, for a pointer that points nowhere. *)
CopyConstruct(p, q) ==
    /\ p # q /\ mFuture[p] = NoFuture /\ Idle(p) /\ Idle(q)
    /\ mFuture' = [mFuture EXCEPT ![p] = mFuture[q]]
    /\ mRefCount' = Refed(mRefCount, mFuture[q])
    /\ UNCHANGED <<futures, bare, assigning>>

(* Reset with a Future that p takes over (as the explicit constructor does) *)
(* or with NULL (as the destructor does).                                   *)
ResetTo(p, f) ==
    /\ Idle(p) /\ f \in bare \cup {NoFuture}
    /\ Unref(mFuture[p])
    /\ mFuture' = [mFuture EXCEPT ![p] = f]
    /\ bare' = bare \ {f}
    /\ UNCHANGED assigning

(* operator=: the old Future is let go, then the new one is counted. *)
SameFutureNever(p, q) == FALSE   \* deviation: an assignment to itself is not noticed
SameFuture(p, q) == mFuture[p] = mFuture[q]

Assign(p, q) ==
    /\ Idle(p) /\ Idle(q) /\ ~SameFuture(p, q)
    /\ Unref(mFuture[p])
    /\ mFuture' = [mFuture EXCEPT ![p] = mFuture[q]]
    /\ assigning' = [assigning EXCEPT ![p] = q]
    /\ UNCHANGED bare

AssignRef(p) ==
    /\ assigning[p] # NoPointer
    /\ mRefCount' = Refed(mRefCount, mFuture[p])
    /\ assigning' = [assigning EXCEPT ![p] = NoPointer]
    /\ UNCHANGED <<mFuture, futures, bare>>

(* Release gives the count back to the program. *)
GiveUp(p) ==
    /\ Idle(p) /\ mFuture[p] # NoFuture /\ mFuture[p] \notin bare
    /\ bare' = bare \cup {mFuture[p]}
    /\ mFuture' = [mFuture EXCEPT ![p] = NoFuture]
    /\ UNCHANGED <<mRefCount, futures, assigning>>

FuturePtrNext ==
    \/ \E f \in FutureId : CreateFuture(f)
    \/ \E p, q \in Pointer : CopyConstruct(p, q) \/ Assign(p, q)
    \/ \E p \in Pointer : AssignRef(p) \/ GiveUp(p) \/ (\E f \in FutureId \cup {NoFuture} : ResetTo(p, f))

FuturePtrSpec == FuturePtrInit /\ [][FuturePtrNext]_futurePtrVars

-----------------------------------------------------------------------------
Counted(f) == {p \in Pointer : mFuture[p] = f /\ assigning[p] = NoPointer}

(* A Future is counted once for every pointer to it and once for the        *)
(* program, is deleted when nobody is left, and no pointer, not even one in *)
(* the middle of an assignment, points to a Future that is gone.            *)
FuturesCounted ==
    \A f \in FutureId :
        /\ mRefCount[f] = Cardinality(Counted(f)) + Cardinality({f} \cap bare)
        /\ futures[f] = "live" <=> mRefCount[f] > 0
        /\ (\E p \in Pointer : mFuture[p] = f) => futures[f] = "live"
=============================================================================
