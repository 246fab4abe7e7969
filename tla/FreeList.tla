------------------------------ MODULE FreeList ------------------------------
(***************************************************************************)
(* FreeList of apsara/stone/threading/lockfree: a stack of objects that    *)
(* any thread may push to and pop from, linked through a LinkNode member.  *)
(* The head is an address and a tag of 16 bits in one word; every exchange *)
(* of the head takes the next tag.  Unlike LockFreeStack the objects are   *)
(* the program's, and a Pop leaves the link of its object as it was.       *)
(*                                                                         *)
(* One action is one access to memory that other threads use.              *)
(***************************************************************************)
EXTENDS Integers, Sequences, FiniteSets

CONSTANTS
    PoolThread,
    PoolObject,
    PoolTagMod,   \* 2^16, the number of tags
    PoolSizeMod,  \* 2^64, the modulus of size_t
    PoolCalls     \* bound: the number of calls in a behaviour

Void == "NULL"

(* The tags do not come round. *)
ASSUME FreeListAssumption ==
    /\ IsFiniteSet(PoolThread) /\ PoolThread # {}
    /\ IsFiniteSet(PoolObject) /\ Void \notin PoolObject
    /\ PoolCalls \in Nat /\ PoolTagMod \in Nat /\ PoolTagMod > PoolCalls
    /\ PoolSizeMod \in Nat /\ PoolSizeMod > 2 * Cardinality(PoolObject)

VARIABLES
    poolHead, poolSize,   \* mHead and mSize
    poolLink,             \* poolLink[o]: the LinkNode of o
    poolPc, poolDone,     \* where each thread is; the calls begun
    poolWas,              \* poolWas[t]: the head that t has read
    poolArg,              \* poolArg[t]: the object that t pushes
    poolNext,             \* poolNext[t]: the link that t has read
    mine,                 \* mine[t]: the objects that t has, to push or popped
    poolSeq               \* history: the objects in the list, the top first

poolVars == <<poolHead, poolSize, poolLink, poolPc, poolDone, poolWas, poolArg, poolNext, mine, poolSeq>>

(* All objects belong to threads. *)
PoolInit ==
    /\ poolHead = [obj |-> Void, tag |-> 0] /\ poolSize = 0
    /\ poolLink = [o \in PoolObject |-> Void]
    /\ poolPc = [t \in PoolThread |-> "idle"] /\ poolDone = 0
    /\ poolWas = [t \in PoolThread |-> poolHead] /\ poolNext = [t \in PoolThread |-> Void]
    /\ poolArg = poolNext
    /\ mine = [t \in PoolThread |-> IF t = CHOOSE u \in PoolThread : TRUE THEN PoolObject ELSE {}]
    /\ poolSeq = <<>>

PoolGoto(t, l) == poolPc' = [poolPc EXCEPT ![t] = l]

(* MakePointer(obj, GetTag(head) + 1); the address of the next object is    *)
(* computed from the address of its link.                                   *)
PoolSwingSameTag(h, o) == [obj |-> o, tag |-> h.tag]  \* deviation: the tag is kept
PoolSwing(h, o) == [obj |-> o, tag |-> (h.tag + 1) % PoolTagMod]

(* Push: the head is read and the object linked to it; the exchange; the    *)
(* count.                                                                   *)
PoolPushLoad(t, o) ==
    /\ \/ poolPc[t] = "idle" /\ poolDone < PoolCalls /\ poolDone' = poolDone + 1
       \/ poolPc[t] = "push" /\ poolArg[t] = o /\ UNCHANGED poolDone
    /\ o \in mine[t]
    /\ poolArg' = [poolArg EXCEPT ![t] = o]
    /\ poolWas' = [poolWas EXCEPT ![t] = poolHead]
    /\ poolLink' = [poolLink EXCEPT ![o] = poolHead.obj]
    /\ PoolGoto(t, "pushCas")
    /\ UNCHANGED <<poolHead, poolSize, poolNext, mine, poolSeq>>

PoolPushCas(t) ==
    /\ poolPc[t] = "pushCas"
    /\ IF poolHead = poolWas[t]
       THEN /\ poolHead' = PoolSwing(poolHead, poolArg[t])
            /\ mine' = [mine EXCEPT ![t] = @ \ {poolArg[t]}]
            /\ poolSeq' = <<poolArg[t]>> \o poolSeq
            /\ PoolGoto(t, "pushSize")
       ELSE PoolGoto(t, "push") /\ UNCHANGED <<poolHead, mine, poolSeq>>
    /\ UNCHANGED <<poolSize, poolLink, poolDone, poolWas, poolArg, poolNext>>

PoolPushSize(t) ==
    /\ poolPc[t] = "pushSize"
    /\ poolSize' = (poolSize + 1) % PoolSizeMod
    /\ PoolGoto(t, "idle")
    /\ UNCHANGED <<poolHead, poolLink, poolDone, poolWas, poolArg, poolNext, mine, poolSeq>>

(* Pop: the head is read; its link; the exchange; the count. *)
PoolPopLoad(t) ==
    /\ \/ poolPc[t] = "idle" /\ poolDone < PoolCalls /\ poolDone' = poolDone + 1
       \/ poolPc[t] = "pop" /\ UNCHANGED poolDone
    /\ poolWas' = [poolWas EXCEPT ![t] = poolHead]
    /\ PoolGoto(t, IF poolHead.obj = Void THEN "idle" ELSE "popLink")
    /\ UNCHANGED <<poolHead, poolSize, poolLink, poolArg, poolNext, mine, poolSeq>>

PoolPopLink(t) ==
    /\ poolPc[t] = "popLink"
    /\ poolNext' = [poolNext EXCEPT ![t] = poolLink[poolWas[t].obj]]
    /\ PoolGoto(t, "popCas")
    /\ UNCHANGED <<poolHead, poolSize, poolLink, poolDone, poolWas, poolArg, mine, poolSeq>>

PoolPopCas(t) ==
    /\ poolPc[t] = "popCas"
    /\ IF poolHead = poolWas[t]
       THEN /\ poolHead' = PoolSwing(poolHead, poolNext[t])
            /\ mine' = [mine EXCEPT ![t] = @ \cup {poolHead.obj}]
            /\ poolSeq' = SubSeq(poolSeq, 2, Len(poolSeq))
            /\ PoolGoto(t, "popSize")
       ELSE PoolGoto(t, "pop") /\ UNCHANGED <<poolHead, mine, poolSeq>>
    /\ UNCHANGED <<poolSize, poolLink, poolDone, poolWas, poolArg, poolNext>>

PoolPopSizeMissing(t) ==  \* deviation: the count is forgotten
    /\ poolPc[t] = "popSize"
    /\ PoolGoto(t, "idle")
    /\ UNCHANGED <<poolHead, poolSize, poolLink, poolDone, poolWas, poolArg, poolNext, mine, poolSeq>>

PoolPopSize(t) ==
    /\ poolPc[t] = "popSize"
    /\ poolSize' = (poolSize - 1) % PoolSizeMod
    /\ PoolGoto(t, "idle")
    /\ UNCHANGED <<poolHead, poolLink, poolDone, poolWas, poolArg, poolNext, mine, poolSeq>>

PoolNext ==
    \E t \in PoolThread :
        \/ \E o \in PoolObject : PoolPushLoad(t, o)
        \/ PoolPushCas(t) \/ PoolPushSize(t)
        \/ PoolPopLoad(t) \/ PoolPopLink(t) \/ PoolPopCas(t) \/ PoolPopSize(t)

PoolSpec == PoolInit /\ [][PoolNext]_poolVars

-----------------------------------------------------------------------------
(* The list in memory is what the exchanges made it, and every object is in *)
(* the list or with one thread, although a Pop may use a link that it read  *)
(* from an object which has been popped and pushed again since.             *)
PoolIsItsSequence ==
    LET n == Len(poolSeq) IN
    /\ poolHead.obj = IF n = 0 THEN Void ELSE poolSeq[1]
    /\ \A i \in 1 .. n : poolLink[poolSeq[i]] = IF i = n THEN Void ELSE poolSeq[i + 1]
    /\ \A o \in PoolObject :
          Cardinality({i \in 1 .. n : poolSeq[i] = o})
            + Cardinality({t \in PoolThread : o \in mine[t]}) = 1

(* mSize lags behind the list by the calls that have not counted yet. *)
PoolSizeAccounted ==
    poolSize = (Len(poolSeq) - Cardinality({t \in PoolThread : poolPc[t] = "pushSize"})
                  + Cardinality({t \in PoolThread : poolPc[t] = "popSize"})) % PoolSizeMod

(* The pool is the sequence that the exchanges made of it, and its count    *)
(* catches up with it.                                                      *)
PoolKept == PoolIsItsSequence /\ PoolSizeAccounted
=============================================================================
