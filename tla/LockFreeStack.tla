---------------------------- MODULE LockFreeStack ---------------------------
(***************************************************************************)
(* LockFreeStack of apsara/stone/threading/lockfree: two linked lists over *)
(* one buffer of nodes, the stack (mHead, linked by mNext) and the free    *)
(* list (mFreeNodeHead, linked by mNextFreeNode).  A head is an index and  *)
(* a tag in one 64-bit word; every successful compare-and-exchange on it   *)
(* increments the tag, so that a thread that was delayed between reading   *)
(* the head and exchanging it notices that the same node came back.        *)
(*                                                                         *)
(* One action is one access to memory that other threads use.  Accesses to *)
(* a node that the thread has taken out of both lists go with the next     *)
(* shared access.  Calls are bounded by MaxCalls, which also bounds tags.  *)
(***************************************************************************)
EXTENDS Integers, Sequences, FiniteSets

CONSTANTS
    Thread,
    Value,     \* the elements pushed
    Limit,     \* mLimit, the size of the node buffer
    TagMod,    \* 2^32, the number of tags
    SizeMod,   \* 2^64, the modulus of size_t
    MaxCalls   \* bound: the number of Push and Pop calls in a behaviour

(* Normalize aborts on a size of 0.  At most four exchanges per call: the   *)
(* tags do not come round.                                                  *)
ASSUME StackAssumption ==
    /\ IsFiniteSet(Thread)
    /\ Limit \in Nat \ {0} /\ MaxCalls \in Nat
    /\ TagMod \in Nat /\ TagMod > 4 * MaxCalls + Limit
    /\ SizeMod \in Nat /\ SizeMod > 2 * Limit

Node == 1 .. Limit
Null == 0           \* kLockFreeNullPointer
T0 == "T()"         \* the value of a node that holds none

VARIABLES
    mHead, mFreeNodeHead,          \* tagged heads: [idx, tag]
    mNext, mNextFreeNode, mValue,  \* the node buffer
    mSize,
    pc, calls,
    head, next, node, elem,        \* the callers' local variables
    result,                        \* result[t]: what the last call of t reported
    stack, free                    \* history: the nodes of the two lists in order

shared == <<mHead, mFreeNodeHead, mNext, mNextFreeNode, mValue, mSize>>
vars == <<shared, pc, calls, head, next, node, elem, result, stack, free>>

-----------------------------------------------------------------------------
MakePointer(i, tag) == [idx |-> i, tag |-> tag % TagMod]

(* The head that replaces h: another index, the next tag. *)
SwingSameTag(h, i) == MakePointer(i, h.tag)  \* deviation: the tag is not advanced
Swing(h, i) == MakePointer(i, h.tag + 1)

Goto(t, l) == pc' = [pc EXCEPT ![t] = l]
Set(f, t, v) == [f EXCEPT ![t] = v]
Rest(s) == SubSeq(s, 2, Len(s))

(* The constructor releases the nodes one by one, in shuffled order; all    *)
(* orders are alike, so the last one released is node 1.                    *)
Init ==
    /\ mHead = MakePointer(Null, 0)
    /\ mFreeNodeHead = MakePointer(1, Limit)
    /\ mNext = [n \in Node |-> 0]
    /\ mNextFreeNode = [n \in Node |-> IF n < Limit THEN n + 1 ELSE Null]
    /\ mValue = [n \in Node |-> T0]
    /\ mSize = 0
    /\ pc = [t \in Thread |-> "idle"] /\ calls = 0
    /\ head = [t \in Thread |-> mHead] /\ next = [t \in Thread |-> Null]
    /\ node = [t \in Thread |-> Null] /\ elem = [t \in Thread |-> T0]
    /\ result = [t \in Thread |-> "none"]
    /\ stack = <<>> /\ free = [n \in Node |-> n]

CallPush(t, v) ==
    /\ pc[t] = "idle" /\ calls < MaxCalls
    /\ calls' = calls + 1
    /\ elem' = Set(elem, t, v)
    /\ Goto(t, "acquire")
    /\ UNCHANGED <<shared, head, next, node, result, stack, free>>

CallPop(t) ==
    /\ pc[t] = "idle" /\ calls < MaxCalls
    /\ calls' = calls + 1
    /\ Goto(t, "pop")
    /\ UNCHANGED <<shared, head, next, node, elem, result, stack, free>>

(* AcquireNode: read the head of the free list; Push fails if it is null.   *)
AcquireLoad(t) ==
    /\ pc[t] = "acquire"
    /\ head' = Set(head, t, mFreeNodeHead)
    /\ IF mFreeNodeHead.idx = Null
       THEN Goto(t, "idle") /\ result' = Set(result, t, "full")
       ELSE Goto(t, "acquireNext") /\ UNCHANGED result
    /\ UNCHANGED <<shared, calls, next, node, elem, stack, free>>

(* The node may have been taken by another thread meanwhile. *)
AcquireNext(t) ==
    /\ pc[t] = "acquireNext"
    /\ next' = Set(next, t, mNextFreeNode[head[t].idx])
    /\ Goto(t, "acquireCas")
    /\ UNCHANGED <<shared, calls, head, node, elem, result, stack, free>>

(* The exchange; with the node in hand Push stores the element. *)
AcquireCas(t) ==
    /\ pc[t] = "acquireCas"
    /\ IF mFreeNodeHead = head[t]
       THEN /\ mFreeNodeHead' = Swing(head[t], next[t])
            /\ node' = Set(node, t, head[t].idx)
            /\ mValue' = Set(mValue, head[t].idx, elem[t])
            /\ free' = Rest(free)
            /\ Goto(t, "push")
       ELSE /\ Goto(t, "acquire")
            /\ UNCHANGED <<mFreeNodeHead, node, mValue, free>>
    /\ UNCHANGED <<mHead, mNext, mNextFreeNode, mSize, calls, head, next, elem, result, stack>>

(* Push: read the head and link the node in front of it. *)
PushLoad(t) ==
    /\ pc[t] = "push"
    /\ head' = Set(head, t, mHead)
    /\ mNext' = Set(mNext, node[t], mHead.idx)
    /\ Goto(t, "pushCas")
    /\ UNCHANGED <<mHead, mFreeNodeHead, mNextFreeNode, mValue, mSize,
                   calls, next, node, elem, result, stack, free>>

PushCas(t) ==
    /\ pc[t] = "pushCas"
    /\ IF mHead = head[t]
       THEN /\ mHead' = Swing(head[t], node[t])
            /\ stack' = <<node[t]>> \o stack
            /\ Goto(t, "pushSize")
       ELSE Goto(t, "push") /\ UNCHANGED <<mHead, stack>>
    /\ UNCHANGED <<mFreeNodeHead, mNext, mNextFreeNode, mValue, mSize,
                   calls, head, next, node, elem, result, free>>

PushSize(t) ==
    /\ pc[t] = "pushSize"
    /\ mSize' = (mSize + 1) % SizeMod
    /\ Goto(t, "idle")
    /\ UNCHANGED <<mHead, mFreeNodeHead, mNext, mNextFreeNode, mValue,
                   calls, head, next, node, elem, result, stack, free>>

(* Pop: read the head; the stack is empty if it is null. *)
PopLoad(t) ==
    /\ pc[t] = "pop"
    /\ head' = Set(head, t, mHead)
    /\ IF mHead.idx = Null
       THEN Goto(t, "idle") /\ result' = Set(result, t, "empty")
       ELSE Goto(t, "popNext") /\ UNCHANGED result
    /\ UNCHANGED <<shared, calls, next, node, elem, stack, free>>

PopNext(t) ==
    /\ pc[t] = "popNext"
    /\ next' = Set(next, t, mNext[head[t].idx])
    /\ Goto(t, "popCas")
    /\ UNCHANGED <<shared, calls, head, node, elem, result, stack, free>>

PopCasIndexOnly(t) ==  \* deviation: the exchange compares the index only
    /\ pc[t] = "popCas"
    /\ IF mHead.idx = head[t].idx
       THEN /\ mHead' = Swing(head[t], next[t])
            /\ node' = Set(node, t, head[t].idx)
            /\ stack' = Rest(stack)
            /\ Goto(t, "take")
       ELSE Goto(t, "pop") /\ UNCHANGED <<mHead, node, stack>>
    /\ UNCHANGED <<mFreeNodeHead, mNext, mNextFreeNode, mValue, mSize,
                   calls, head, next, elem, result, free>>

PopCas(t) ==
    /\ pc[t] = "popCas"
    /\ IF mHead = head[t]
       THEN /\ mHead' = Swing(head[t], next[t])
            /\ node' = Set(node, t, head[t].idx)
            /\ stack' = Rest(stack)
            /\ Goto(t, "take")
       ELSE Goto(t, "pop") /\ UNCHANGED <<mHead, node, stack>>
    /\ UNCHANGED <<mFreeNodeHead, mNext, mNextFreeNode, mValue, mSize,
                   calls, head, next, elem, result, free>>

(* The value is taken out and the node cleared (the start of ReleaseNode). *)
TakeAfterClear(t) ==  \* deviation: the node is cleared first
    /\ pc[t] = "take"
    /\ result' = Set(result, t, T0)
    /\ mValue' = Set(mValue, node[t], T0)
    /\ Goto(t, "release")
    /\ UNCHANGED <<mHead, mFreeNodeHead, mNext, mNextFreeNode, mSize,
                   calls, head, next, node, elem, stack, free>>

Take(t) ==
    /\ pc[t] = "take"
    /\ result' = Set(result, t, mValue[node[t]])
    /\ mValue' = Set(mValue, node[t], T0)
    /\ Goto(t, "release")
    /\ UNCHANGED <<mHead, mFreeNodeHead, mNext, mNextFreeNode, mSize,
                   calls, head, next, node, elem, stack, free>>

(* ReleaseNode: read the head of the free list and link the node to it. *)
ReleaseLoad(t) ==
    /\ pc[t] = "release"
    /\ head' = Set(head, t, mFreeNodeHead)
    /\ mNextFreeNode' = Set(mNextFreeNode, node[t], mFreeNodeHead.idx)
    /\ Goto(t, "releaseCas")
    /\ UNCHANGED <<mHead, mFreeNodeHead, mNext, mValue, mSize,
                   calls, next, node, elem, result, stack, free>>

ReleaseCas(t) ==
    /\ pc[t] = "releaseCas"
    /\ IF mFreeNodeHead = head[t]
       THEN /\ mFreeNodeHead' = Swing(head[t], node[t])
            /\ free' = <<node[t]>> \o free
            /\ Goto(t, "popSize")
       ELSE Goto(t, "release") /\ UNCHANGED <<mFreeNodeHead, free>>
    /\ UNCHANGED <<mHead, mNext, mNextFreeNode, mValue, mSize,
                   calls, head, next, node, elem, result, stack>>

PopSizeMissing(t) ==  \* deviation: the count is forgotten
    /\ pc[t] = "popSize"
    /\ UNCHANGED mSize
    /\ Goto(t, "idle")
    /\ UNCHANGED <<mHead, mFreeNodeHead, mNext, mNextFreeNode, mValue,
                   calls, head, next, node, elem, result, stack, free>>

PopSize(t) ==
    /\ pc[t] = "popSize"
    /\ mSize' = (mSize - 1) % SizeMod
    /\ Goto(t, "idle")
    /\ UNCHANGED <<mHead, mFreeNodeHead, mNext, mNextFreeNode, mValue,
                   calls, head, next, node, elem, result, stack, free>>

(* A step of a call that t has begun. *)
Step(t) ==
    \/ AcquireLoad(t) \/ AcquireNext(t) \/ AcquireCas(t)
    \/ PushLoad(t) \/ PushCas(t) \/ PushSize(t)
    \/ PopLoad(t) \/ PopNext(t) \/ PopCas(t) \/ Take(t)
    \/ ReleaseLoad(t) \/ ReleaseCas(t) \/ PopSize(t)

Quiet == calls = MaxCalls /\ (\A t \in Thread : pc[t] = "idle") /\ UNCHANGED vars

Next ==
    \/ \E t \in Thread : CallPop(t) \/ Step(t) \/ (\E v \in Value : CallPush(t, v))
    \/ Quiet

Spec == Init /\ [][Next]_vars

-----------------------------------------------------------------------------
TypeOK ==
    /\ mHead \in [idx : Node \cup {Null}, tag : 0 .. TagMod - 1]
    /\ mFreeNodeHead \in [idx : Node \cup {Null}, tag : 0 .. TagMod - 1]
    /\ mNext \in [Node -> Node \cup {Null}] /\ mNextFreeNode \in [Node -> Node \cup {Null}]
    /\ mValue \in [Node -> Value \cup {T0}]
    /\ mSize \in 0 .. SizeMod - 1
    /\ pc \in [Thread -> {"idle", "acquire", "acquireNext", "acquireCas", "push", "pushCas",
                          "pushSize", "pop", "popNext", "popCas", "take", "release",
                          "releaseCas", "popSize"}]
    /\ node \in [Thread -> Node \cup {Null}] /\ next \in [Thread -> Node \cup {Null}]

(* The threads that have a node in hand, in neither list. *)
Owners == {t \in Thread : pc[t] \in {"push", "pushCas", "take", "release", "releaseCas"}}

Elements(s) == {s[i] : i \in 1 .. Len(s)}

(* Every node is in exactly one place: once in the stack, once in the free  *)
(* list, or in the hands of one thread.  A delayed exchange that succeeds   *)
(* although its node went away and came back (ABA) would lose or double one.*)
EachNodeInOnePlace ==
    /\ Len(stack) + Len(free) + Cardinality(Owners) = Limit
    /\ Elements(stack) \cup Elements(free) \cup {node[t] : t \in Owners} = Node

(* s is the chain of nodes that hd and the links lead through. *)
IsChain(hd, link, s) ==
    /\ hd.idx = IF s = <<>> THEN Null ELSE s[1]
    /\ \A i \in 1 .. Len(s) - 1 : link[s[i]] = s[i + 1]
    /\ s # <<>> => link[s[Len(s)]] = Null

(* The memory agrees with the history: each list, followed from its head,   *)
(* is what the successful exchanges made of it, the oldest node last.       *)
ListsAreChains ==
    /\ IsChain(mHead, mNext, stack)
    /\ IsChain(mFreeNodeHead, mNextFreeNode, free)

(* mSize lags behind the stack by exactly the calls between their exchange  *)
(* and their count; it may wrap below zero meanwhile, but not for good.     *)
Uncounted(S) == Cardinality({t \in Thread : pc[t] \in S})
SizeAccounted ==
    mSize = (Len(stack) - Uncounted({"pushSize"})
               + Uncounted({"take", "release", "releaseCas", "popSize"})) % SizeMod

(* Both lists are intact and counted, whatever the threads that were        *)
(* delayed between two accesses have seen.                                  *)
ListsIntact == TypeOK /\ EachNodeInOnePlace /\ ListsAreChains /\ SizeAccounted

(* The stack implements BoundedStack: pushes and pops take effect at their  *)
(* exchange, what a pop reports is the value that was on top at that        *)
(* moment, "empty" and "full" are reported only when that is so.            *)
Abs == INSTANCE BoundedStack WITH
    Capacity <- Limit,
    stk <- [i \in 1 .. Len(stack) |-> mValue[stack[i]]],
    busy <- Owners,
    out <- [t \in Thread |-> IF pc[t] = "take" THEN mValue[node[t]] ELSE result[t]]

ImplementsBoundedStack == Abs!Spec

(* The stack is lock-free: an exchange fails only when another one on the   *)
(* same head has succeeded since the head was read, so a call is delayed    *)
(* only by the progress of others.                                          *)
CasFailsOnlyForProgress ==
    [][\A t \in Thread :
         /\ pc[t] \in {"acquireCas", "releaseCas"} /\ pc'[t] \in {"acquire", "release"}
                => mFreeNodeHead.tag > head[t].tag
         /\ pc[t] \in {"pushCas", "popCas"} /\ pc'[t] \in {"push", "pop"}
                => mHead.tag > head[t].tag]_vars
=============================================================================
