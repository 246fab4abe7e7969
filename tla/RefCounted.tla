----------------------------- MODULE RefCounted -----------------------------
(***************************************************************************)
(* RefCounted of apsara/stone/memory: an object with a counter of the      *)
(* references to it, deleted by the Release that counts to zero.  A thread *)
(* that has a reference may count another one and hand it to a thread; the *)
(* counter is atomic, so a Release is two steps, the decrement and, if it  *)
(* gave zero, the deletion.  RefCountedUnsafe is the same for one thread,  *)
(* except that Release returns the counter, which is gone if the object is.*)
(***************************************************************************)
EXTENDS Integers, FiniteSets, Functions

CONSTANTS
    RefThread,
    MaxRefs     \* bound: the references at any time

ASSUME RefAssumption ==
    /\ IsFiniteSet(RefThread) /\ MaxRefs \in Nat

VARIABLES
    safe,       \* TRUE: RefCounted; FALSE: RefCountedUnsafe, used by one thread
    mRefCnt,
    object,     \* "live", "deleted"
    refs,       \* refs[t]: the references that t has
    releasing,  \* releasing[t]: what t's Release is about to do: "no", "delete", "return"
    refCnt,     \* refCnt[t]: the local variable of t's Release
    told,       \* told[t]: what the last Release of t returned
    deletes     \* how often the object was deleted

refVars == <<safe, mRefCnt, object, refs, releasing, refCnt, told, deletes>>

Unread == -1
Garbage == 0 .. 1   \* what the memory of a deleted object may be read as

(* The object is made by a thread, which takes the first reference. *)
RefInit ==
    /\ safe \in BOOLEAN
    /\ mRefCnt = 1 /\ object = "live" /\ deletes = 0
    /\ \E t \in RefThread : refs = [u \in RefThread |-> IF u = t THEN 1 ELSE 0]
    /\ releasing = [t \in RefThread |-> "no"]
    /\ refCnt = [t \in RefThread |-> 0] /\ told = [t \in RefThread |-> Unread]

(* Whoever uses the object has a reference; only one thread has any to an   *)
(* object of the class that is not safe.                                    *)
May(t) == refs[t] > 0 /\ releasing[t] = "no"

(* AddRef, and the new reference goes to u. *)
AddRef(t, u) ==
    /\ May(t) /\ SumFunction(refs) < MaxRefs /\ (safe \/ u = t)
    /\ mRefCnt' = mRefCnt + 1
    /\ refs' = [refs EXCEPT ![u] = @ + 1]
    /\ UNCHANGED <<safe, object, releasing, refCnt, told, deletes>>

(* Release of RefCounted: the decrement, the deletion by the one who gave   *)
(* up the last reference, and the value that the decrement gave.            *)
LastReferenceEarly(n) == n <= 1  \* deviation: one reference is left
LastReference(n) == n = 0

ReleaseDecrement(t) ==
    /\ May(t) /\ safe
    /\ refs' = [refs EXCEPT ![t] = @ - 1]
    /\ mRefCnt' = mRefCnt - 1
    /\ refCnt' = [refCnt EXCEPT ![t] = mRefCnt - 1]
    /\ releasing' = [releasing EXCEPT ![t] = IF LastReference(mRefCnt - 1) THEN "delete" ELSE "return"]
    /\ UNCHANGED <<safe, object, told, deletes>>

ReleaseDelete(t) ==
    /\ releasing[t] = "delete"
    /\ object' = "deleted" /\ deletes' = deletes + 1
    /\ releasing' = [releasing EXCEPT ![t] = "return"]
    /\ UNCHANGED <<safe, mRefCnt, refs, refCnt, told>>

ReturnedCounter(t) == mRefCnt    \* deviation: the counter is read again
Returned(t) == refCnt[t]

ReleaseReturn(t) ==
    /\ releasing[t] = "return"
    /\ told' = [told EXCEPT ![t] = Returned(t)]
    /\ refCnt' = [refCnt EXCEPT ![t] = 0]
    /\ releasing' = [releasing EXCEPT ![t] = "no"]
    /\ UNCHANGED <<safe, mRefCnt, object, refs, deletes>>

(* Release of RefCountedUnsafe: the counter is read after the deletion. *)
ReleaseUnsafe(t) ==
    /\ May(t) /\ ~safe
    /\ refs' = [refs EXCEPT ![t] = @ - 1]
    /\ mRefCnt' = mRefCnt - 1
    /\ IF mRefCnt - 1 = 0
       THEN /\ object' = "deleted" /\ deletes' = deletes + 1
            /\ \E g \in Garbage : told' = [told EXCEPT ![t] = g]
       ELSE /\ told' = [told EXCEPT ![t] = mRefCnt - 1]
            /\ UNCHANGED <<object, deletes>>
    /\ UNCHANGED <<safe, releasing, refCnt>>

HasOneRefAny(t) == mRefCnt >= 1  \* deviation: at least one reference
HasOneRef(t) == mRefCnt = 1

RefNext ==
    \E t \in RefThread :
        \/ \E u \in RefThread : AddRef(t, u)
        \/ ReleaseDecrement(t) \/ ReleaseDelete(t) \/ ReleaseReturn(t) \/ ReleaseUnsafe(t)

RefSpec == RefInit /\ [][RefNext]_refVars

-----------------------------------------------------------------------------
(* The counter is the number of references; the object is deleted once, by  *)
(* the thread that gave up the last one, and not while anyone has one.      *)
CountIsReferences ==
    /\ mRefCnt = SumFunction(refs)
    /\ deletes <= 1
    /\ object = "deleted" => SumFunction(refs) = 0
    /\ SumFunction(refs) = 0 /\ object = "live"
         => Cardinality({t \in RefThread : releasing[t] = "delete"}) = 1

(* A thread with a reference that is told it is the only one has the object *)
(* for itself: nobody else can use it.                                      *)
OneRefIsExclusive ==
    \A t \in RefThread : refs[t] > 0 /\ HasOneRef(t)
        => object = "live" /\ (\A u \in RefThread \ {t} : refs[u] = 0)

(* Of all threads only the one that deleted the object is told 0, which is  *)
(* what RefCounted is for and RefCountedUnsafe does not give.               *)
ZeroOnlyForLast ==
    safe /\ (\E t \in RefThread : told[t] = 0)
        => /\ object = "deleted"
           /\ Cardinality({t \in RefThread : told[t] = 0}) = 1

(* The count tells the truth about the references: when to delete, whether  *)
(* the object is shared, and who was the last.                              *)
ReferencesCounted == CountIsReferences /\ OneRefIsExclusive /\ ZeroOnlyForLast
=============================================================================
