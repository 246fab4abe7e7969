---------------------------- MODULE LockFreeQueue ---------------------------
(***************************************************************************)
(* LockFreeQueue of apsara/stone/threading/lockfree: a list of nodes from  *)
(* the newest, mTail, along mNext to the oldest, mHead, which is a dummy   *)
(* whose value is gone.  Popping needs the opposite direction, mPrev,      *)
(* which Push writes only after its exchange.  So mPrev may be late, may   *)
(* be overwritten by a late writer, or may be whatever the allocator left  *)
(* in a new node; the tag it carries says whether it can be used, and      *)
(* FixList rebuilds it from mNext when it cannot.                          *)
(*                                                                         *)
(* One action is one access to memory that other threads use.  Accesses to *)
(* a node in the hands of one thread go with the next shared access.       *)
(***************************************************************************)
EXTENDS Integers, Sequences, FiniteSets, Functions, Chains

CONSTANTS
    Thread,
    TagMod,      \* 2^16, the number of tags
    InvalidTag,  \* kInvalidTag, 0xdead
    FreshTag,    \* the tags that a word of new memory can be read as
    SizeMod,     \* 2^64, the modulus of size_t
    MaxCalls     \* bound: MaxCalls[t] is the number of Push and Pop calls of t

AllCalls == SumFunction(MaxCalls)

(* Somebody calls, and the tags do not come round: all calls together make *)
(* fewer exchanges than there are tags.  New memory may hold any tag bits. *)
ASSUME QueueAssumption ==
    /\ IsFiniteSet(Thread)
    /\ MaxCalls \in [Thread -> Nat] /\ AllCalls > 0
    /\ TagMod \in Nat /\ TagMod > 2 * AllCalls + 3
    /\ InvalidTag \in 2 .. TagMod - 2
    /\ FreshTag \subseteq 0 .. TagMod - 1 /\ FreshTag # {}
    /\ SizeMod \in Nat /\ SizeMod > 2 * AllCalls

Null == 0
None == -1                  \* what a Pop that returns false reports
Wild == -2                  \* the address that nobody has written to a word
Node == 1 .. AllCalls + 1   \* a dummy and a node for every Push
Cell == Node \cup {Null}     \* Null: where an access through a null pointer would go
T0 == 0                     \* the value T() of a node that holds none
Value == 1 .. AllCalls      \* the elements pushed: the k-th call pushes k

VARIABLES
    mHead, mTail, mFreeNodeHead, mSize,
    mPrev, mNext, mNextFreeNode, mValue,  \* the nodes
    allocated,          \* the number of nodes allocated so far
    deleted,            \* the nodes that the destructor has deleted
    pc, calls,
    loc,                \* loc[t]: the local variables of t's call
    result,             \* result[t]: what the last Pop of t reported
    queue, free         \* history: the nodes of the two lists, the oldest first

heads == <<mHead, mTail, mFreeNodeHead>>
nodes == <<mPrev, mNext, mNextFreeNode, mValue>>
vars == <<heads, mSize, nodes, allocated, deleted, pc, calls, loc, result, queue, free>>

-----------------------------------------------------------------------------
MakePointer(p, tag) == [ptr |-> p, tag |-> tag]

GetNextTag(w) ==
    LET tag == (w.tag + 1) % TagMod
    IN  IF tag = InvalidTag THEN (tag + 1) % TagMod ELSE tag

GetPrevTagPlain(w) == (w.tag - 1) % TagMod  \* deviation: the invalid tag is not skipped
GetPrevTag(w) ==
    LET tag == (w.tag - 1) % TagMod
    IN  IF tag = InvalidTag THEN (tag - 1) % TagMod ELSE tag

kNullPointer == MakePointer(Null, TagMod - 1)
Word == [ptr : Cell, tag : 0 .. TagMod - 1]
AnyWord == [ptr : Cell \cup {Wild}, tag : 0 .. TagMod - 1]  \* mPrev may be uninitialised

(* The local variables of a call that has not read anything. *)
Locals == [node |-> Null, elem |-> T0, head |-> kNullPointer, tail |-> kNullPointer,
           prev |-> kNullPointer, next |-> Null]

(* AtomicCompareExchange: the word still is what was read. *)
SameAddress(w, read) == w.ptr = read.ptr  \* deviation: the tag is not compared
Same(w, read) == w = read

(* What Push stores in mPrev of the old tail, and the FixList loop in mPrev *)
(* of the node behind current: the tag is the one of the node written to.   *)
Link(l) == MakePointer(l.node, l.tail.tag)
Relink(l) == MakePointer(l.tail.ptr, GetPrevTag(l.tail))

(* The head that a Pop installs. *)
NewHeadSameTag(l) == MakePointer(l.prev.ptr, l.head.tag)  \* deviation: the tag is kept
NewHead(l) == MakePointer(l.prev.ptr, GetNextTag(l.head))

(* The count of a Pop. *)
SizeKept(n) == n                     \* deviation: the count is forgotten
SizeAfterPop(n) == (n - 1) % SizeMod

(* The nodes that the destructor deletes.  It pops until the queue is empty *)
(* and so puts every dummy but the last into the free list, those on the    *)
(* way along mNext from the tail to the head, by which Pop finds the next;  *)
(* it acquires and deletes the nodes of the free list, then the last dummy. *)
FreeChain == Chain(mNextFreeNode, Node, mFreeNodeHead.ptr)
QueueChain ==
    Chain([n \in Cell |-> IF n = mHead.ptr THEN Null ELSE mNext[n].ptr], Node, mTail.ptr)
DeletedButDummy == FreeChain \cup {mHead.ptr}  \* deviation: the queue is not popped
Deleted == FreeChain \cup QueueChain

Goto(t, l) == pc' = [pc EXCEPT ![t] = l]
Set(f, i, v) == [f EXCEPT ![i] = v]
Return(t) == Goto(t, "idle") /\ loc' = Set(loc, t, Locals)

(* The constructor allocates the dummy. *)
Constructed ==
    /\ mHead = MakePointer(1, 0) /\ mTail = mHead
    /\ mFreeNodeHead = kNullPointer
    /\ mPrev = [n \in Cell |-> MakePointer(1, TagMod - 1)]
    /\ mNext = [n \in Cell |-> kNullPointer]
    /\ mNextFreeNode = [n \in Cell |-> Null]
    /\ mValue = [n \in Cell |-> T0]
    /\ allocated = 1 /\ queue = <<1>> /\ free = <<>>

(* A queue that one Push and one Pop have been through: the first node is   *)
(* free and has the invalid mPrev, the second one is the dummy, its mPrev   *)
(* not yet written.                                                         *)
Used ==
    /\ mHead = MakePointer(2, 1) /\ mTail = mHead
    /\ mFreeNodeHead = MakePointer(1, 0)
    /\ \E tag \in FreshTag :
          mPrev = [n \in Cell |-> IF n = 1 THEN MakePointer(Null, InvalidTag)
                                          ELSE MakePointer(Wild, tag)]
    /\ mNext = [n \in Cell |-> IF n = 2 THEN MakePointer(1, 1) ELSE kNullPointer]
    /\ mNextFreeNode = [n \in Cell |-> Null]
    /\ mValue = [n \in Cell |-> IF n = 2 THEN 1 ELSE T0]
    /\ allocated = 2 /\ queue = <<2>> /\ free = <<1>>

Init ==
    /\ Constructed \/ Used
    /\ mSize = 0 /\ deleted = {}
    /\ pc = [t \in Thread |-> "idle"] /\ calls = [t \in Thread |-> 0]
    /\ loc = [t \in Thread |-> Locals]
    /\ result = [t \in Thread |-> T0]

Called == SumFunction(calls)

CallPush(t) ==
    /\ pc[t] = "idle" /\ calls[t] < MaxCalls[t] /\ deleted = {}
    /\ calls' = [calls EXCEPT ![t] = @ + 1]
    /\ loc' = [loc EXCEPT ![t].elem = Called + 1]
    /\ Goto(t, "acquire")
    /\ UNCHANGED <<heads, mSize, nodes, allocated, deleted, result, queue, free>>

CallPop(t) ==
    /\ pc[t] = "idle" /\ calls[t] < MaxCalls[t] /\ deleted = {}
    /\ calls' = [calls EXCEPT ![t] = @ + 1]
    /\ Goto(t, "head")
    /\ UNCHANGED <<heads, mSize, nodes, allocated, deleted, loc, result, queue, free>>

-----------------------------------------------------------------------------
(* AcquireNode *)

(* The head of the free list is read; without one a node is allocated, its  *)
(* mPrev and mNext as new memory has them, and Push stores the element.     *)
AcquireLoad(t) ==
    /\ pc[t] = "acquire"
    /\ IF mFreeNodeHead.ptr = Null
       THEN LET n == allocated + 1 IN
            /\ allocated' = n
            /\ \E tag \in FreshTag : mPrev' = Set(mPrev, n, MakePointer(Wild, tag))
            /\ mValue' = Set(mValue, n, loc[t].elem)
            /\ loc' = [loc EXCEPT ![t].node = n]
            /\ Goto(t, "push")
       ELSE /\ loc' = [loc EXCEPT ![t].head = mFreeNodeHead]
            /\ Goto(t, "acquireNext")
            /\ UNCHANGED <<allocated, mPrev, mValue>>
    /\ UNCHANGED <<heads, mSize, mNext, mNextFreeNode, deleted, calls, result, queue, free>>

AcquireNext(t) ==
    /\ pc[t] = "acquireNext"
    /\ loc' = [loc EXCEPT ![t].next = mNextFreeNode[loc[t].head.ptr]]
    /\ Goto(t, "acquireCas")
    /\ UNCHANGED <<heads, mSize, nodes, allocated, deleted, calls, result, queue, free>>

AcquireCas(t) ==
    /\ pc[t] = "acquireCas"
    /\ LET n == loc[t].head.ptr IN
       IF Same(mFreeNodeHead, loc[t].head)
       THEN /\ mFreeNodeHead' = MakePointer(loc[t].next, GetNextTag(mFreeNodeHead))
            /\ mValue' = Set(mValue, n, loc[t].elem)
            /\ loc' = [loc EXCEPT ![t] = [Locals EXCEPT !.node = n, !.elem = loc[t].elem]]
            /\ free' = SubSeq(free, 1, Len(free) - 1)
            /\ Goto(t, "push")
       ELSE /\ Goto(t, "acquire")
            /\ UNCHANGED <<mFreeNodeHead, mValue, loc, free>>
    /\ UNCHANGED <<mHead, mTail, mSize, mPrev, mNext, mNextFreeNode, allocated, deleted,
                   calls, result, queue>>

-----------------------------------------------------------------------------
(* Push *)

PushLoad(t) ==
    /\ pc[t] = "push"
    /\ loc' = [loc EXCEPT ![t].tail = mTail]
    /\ mNext' = Set(mNext, loc[t].node, MakePointer(mTail.ptr, GetNextTag(mTail)))
    /\ Goto(t, "pushCas")
    /\ UNCHANGED <<heads, mSize, mPrev, mNextFreeNode, mValue, allocated, deleted,
                   calls, result, queue, free>>

PushCas(t) ==
    /\ pc[t] = "pushCas"
    /\ IF Same(mTail, loc[t].tail)
       THEN /\ mTail' = MakePointer(loc[t].node, GetNextTag(loc[t].tail))
            /\ queue' = Append(queue, loc[t].node)
            /\ Goto(t, "pushLink")
       ELSE Goto(t, "push") /\ UNCHANGED <<mTail, queue>>
    /\ UNCHANGED <<mHead, mFreeNodeHead, mSize, nodes, allocated, deleted, calls, loc,
                   result, free>>

(* The node that was the tail learns its predecessor.  It may have been     *)
(* popped, released and pushed again since the exchange.                    *)
PushLink(t) ==
    /\ pc[t] = "pushLink"
    /\ mPrev' = Set(mPrev, loc[t].tail.ptr, Link(loc[t]))
    /\ Goto(t, "pushSize")
    /\ UNCHANGED <<heads, mSize, mNext, mNextFreeNode, mValue, allocated, deleted, calls, loc,
                   result, queue, free>>

PushSize(t) ==
    /\ pc[t] = "pushSize"
    /\ mSize' = (mSize + 1) % SizeMod
    /\ Return(t)
    /\ UNCHANGED <<heads, nodes, allocated, deleted, calls, result, queue, free>>

-----------------------------------------------------------------------------
(* Pop *)

PopHead(t) ==
    /\ pc[t] = "head"
    /\ loc' = [loc EXCEPT ![t] = [Locals EXCEPT !.head = mHead]]
    /\ Goto(t, "tail")
    /\ UNCHANGED <<heads, mSize, nodes, allocated, deleted, calls, result, queue, free>>

PopTail(t) ==
    /\ pc[t] = "tail"
    /\ loc' = [loc EXCEPT ![t].tail = mTail]
    /\ Goto(t, "prev")
    /\ UNCHANGED <<heads, mSize, nodes, allocated, deleted, calls, result, queue, free>>

PopPrev(t) ==
    /\ pc[t] = "prev"
    /\ loc' = [loc EXCEPT ![t].prev = mPrev[loc[t].head.ptr]]
    /\ Goto(t, "again")
    /\ UNCHANGED <<heads, mSize, nodes, allocated, deleted, calls, result, queue, free>>

(* The head is read again, and what the three reads say is acted upon.  A   *)
(* link with the head's tag is followed, also one that nobody has written:  *)
(* that is undefined, and nothing is said of the thread afterwards.         *)
PopAgain(t) ==
    /\ pc[t] = "again"
    /\ LET l == loc[t] IN
       \/ /\ l.head # mHead
          /\ Goto(t, "head") /\ UNCHANGED <<loc, result>>
       \/ /\ l.head = mHead /\ l.tail = l.head
          /\ Return(t) /\ result' = Set(result, t, None)
       \/ /\ l.head = mHead /\ l.tail # l.head /\ l.prev.tag = InvalidTag
          /\ Goto(t, "head") /\ UNCHANGED <<loc, result>>
       \/ /\ l.head = mHead /\ l.tail # l.head /\ l.prev.tag \notin {InvalidTag, l.head.tag}
          /\ Goto(t, "fix") /\ UNCHANGED <<loc, result>>
       \/ /\ l.head = mHead /\ l.tail # l.head /\ l.prev.tag = l.head.tag
          /\ Goto(t, IF l.prev.ptr = Wild THEN "wild" ELSE "value")
          /\ UNCHANGED <<loc, result>>
    /\ UNCHANGED <<heads, mSize, nodes, allocated, deleted, calls, queue, free>>

(* *elem is assigned although the exchange may fail. *)
PopValue(t) ==
    /\ pc[t] = "value"
    /\ loc' = [loc EXCEPT ![t].elem = mValue[loc[t].prev.ptr]]
    /\ Goto(t, "popCas")
    /\ UNCHANGED <<heads, mSize, nodes, allocated, deleted, calls, result, queue, free>>

(* The old dummy leaves the queue for the hands of t. *)
PopCas(t) ==
    /\ pc[t] = "popCas"
    /\ LET l == loc[t] IN
       IF Same(mHead, l.head)
       THEN /\ mHead' = NewHead(l)
            /\ result' = Set(result, t, l.elem)
            /\ queue' = Tail(queue)
            /\ loc' = [loc EXCEPT ![t] = [Locals EXCEPT !.node = l.head.ptr]]
            /\ Goto(t, "release")
       ELSE Goto(t, "head") /\ UNCHANGED <<mHead, result, queue, loc>>
    /\ UNCHANGED <<mTail, mFreeNodeHead, mSize, nodes, allocated, deleted, calls, free>>

(* FixList: the loop test reads the head; current is loc.tail. *)
FixTest(t) ==
    /\ pc[t] = "fix"
    /\ IF loc[t].head = mHead /\ loc[t].tail # loc[t].head
       THEN Goto(t, "fixNext")
       ELSE Goto(t, "head")
    /\ UNCHANGED <<heads, mSize, nodes, allocated, deleted, calls, loc, result, queue, free>>

FixNext(t) ==
    /\ pc[t] = "fixNext"
    /\ loc' = [loc EXCEPT ![t].next = mNext[loc[t].tail.ptr].ptr]
    /\ Goto(t, "fixPrev")
    /\ UNCHANGED <<heads, mSize, nodes, allocated, deleted, calls, result, queue, free>>

FixPrev(t) ==
    /\ pc[t] = "fixPrev"
    /\ LET l == loc[t] IN
       /\ mPrev' = Set(mPrev, l.next, Relink(l))
       /\ loc' = [loc EXCEPT ![t].tail = MakePointer(l.next, GetPrevTag(l.tail))]
    /\ Goto(t, "fix")
    /\ UNCHANGED <<heads, mSize, mNext, mNextFreeNode, mValue, allocated, deleted, calls,
                   result, queue, free>>

-----------------------------------------------------------------------------
(* ReleaseNode; the node loses its value and its mPrev before the exchange. *)

ReleaseLoad(t) ==
    /\ pc[t] = "release"
    /\ loc' = [loc EXCEPT ![t].head = mFreeNodeHead]
    /\ mPrev' = Set(mPrev, loc[t].node, MakePointer(Null, InvalidTag))
    /\ mNextFreeNode' = Set(mNextFreeNode, loc[t].node, mFreeNodeHead.ptr)
    /\ mValue' = Set(mValue, loc[t].node, T0)
    /\ Goto(t, "releaseCas")
    /\ UNCHANGED <<heads, mSize, mNext, allocated, deleted, calls, result, queue, free>>

ReleaseCas(t) ==
    /\ pc[t] = "releaseCas"
    /\ IF Same(mFreeNodeHead, loc[t].head)
       THEN /\ mFreeNodeHead' = MakePointer(loc[t].node, GetNextTag(mFreeNodeHead))
            /\ free' = Append(free, loc[t].node)
            /\ Goto(t, "popSize")
       ELSE Goto(t, "release") /\ UNCHANGED <<mFreeNodeHead, free>>
    /\ UNCHANGED <<mHead, mTail, mSize, nodes, allocated, deleted, calls, loc, result, queue>>

PopSize(t) ==
    /\ pc[t] = "popSize"
    /\ mSize' = SizeAfterPop(mSize)
    /\ Return(t)
    /\ UNCHANGED <<heads, nodes, allocated, deleted, calls, result, queue, free>>

(* The destructor, alone: it pops what is left, which puts every dummy but  *)
(* the last into the free list, deletes the free list and the last dummy.   *)
Destroy ==
    /\ calls = MaxCalls /\ (\A t \in Thread : pc[t] = "idle") /\ deleted = {}
    /\ deleted' = Deleted
    /\ UNCHANGED <<heads, mSize, nodes, allocated, pc, calls, loc, result, queue, free>>

(* A step of a call that t has begun. *)
Step(t) ==
    \/ AcquireLoad(t) \/ AcquireNext(t) \/ AcquireCas(t)
    \/ PushLoad(t) \/ PushCas(t) \/ PushLink(t) \/ PushSize(t)
    \/ PopHead(t) \/ PopTail(t) \/ PopPrev(t) \/ PopAgain(t) \/ PopValue(t) \/ PopCas(t)
    \/ FixTest(t) \/ FixNext(t) \/ FixPrev(t)
    \/ ReleaseLoad(t) \/ ReleaseCas(t) \/ PopSize(t)

(* The end: the queue is gone, or the behaviour is undefined. *)
Gone == (deleted # {} \/ \E t \in Thread : pc[t] = "wild") /\ UNCHANGED vars

Next ==
    \/ \E t \in Thread : CallPush(t) \/ CallPop(t) \/ Step(t)
    \/ Destroy \/ Gone

(* A thread inside a call keeps running; nothing makes anyone call. *)
Spec == Init /\ [][Next]_vars /\ (\A t \in Thread : WF_vars(Step(t)))

-----------------------------------------------------------------------------
TypeOK ==
    /\ {mHead, mTail, mFreeNodeHead} \subseteq Word
    /\ mSize \in 0 .. SizeMod - 1
    /\ mPrev \in [Cell -> AnyWord] /\ mNext \in [Cell -> Word]
    /\ mNextFreeNode \in [Cell -> Cell] /\ mValue \in [Cell -> Value \cup {T0}]
    /\ pc \in [Thread -> {"idle", "acquire", "acquireNext", "acquireCas", "push", "pushCas",
                          "pushLink", "pushSize", "head", "tail", "prev", "again", "value",
                          "popCas", "wild", "fix", "fixNext", "fixPrev", "release", "releaseCas",
                          "popSize"}]
    /\ loc \in [Thread -> [node : Cell, elem : Value \cup {T0}, head : Word, tail : Word,
                           prev : AnyWord, next : Cell]]

(* The threads that have a node in hand, in neither list. *)
Owners == {t \in Thread : pc[t] \in {"push", "pushCas", "release", "releaseCas"}}

Elements(s) == {s[i] : i \in 1 .. Len(s)}

(* Every allocated node is in exactly one place, the queue, the free list   *)
(* or one thread's hands, both lists are what the links in memory say, and  *)
(* the destructor deletes every node.  A delayed exchange that succeeds     *)
(* although its node went away and came back would lose or double a node.   *)
EachNodeInOnePlace ==
    /\ Len(queue) + Len(free) + Cardinality(Owners) = allocated
    /\ Elements(queue) \cup Elements(free) \cup {loc[t].node : t \in Owners} = 1 .. allocated
    /\ mHead.ptr = queue[1] /\ mTail.ptr = queue[Len(queue)]
    /\ \A i \in 2 .. Len(queue) : mNext[queue[i]].ptr = queue[i - 1]
    /\ mFreeNodeHead.ptr = IF free = <<>> THEN Null ELSE free[Len(free)]
    /\ \A i \in 2 .. Len(free) : mNextFreeNode[free[i]] = free[i - 1]
    /\ deleted # {} => deleted = 1 .. allocated

(* An mPrev that Push, FixList or ReleaseNode wrote and whose tag is the   *)
(* one of the head is the successor of the head, whenever it was written:   *)
(* before or after its node was recycled, or for a head that has moved on.  *)
(* The node that a Pop is about to make the head is therefore the right     *)
(* one, and nothing is read or written through a null pointer.  An mPrev    *)
(* that nobody has written is followed only if the memory happened to hold  *)
(* the head's tag, and never if its tag bits were 0.                        *)
MatchingTagTellsTruth ==
    /\ LET w == mPrev[mHead.ptr]
       IN  w.tag = mHead.tag =>
              IF w.ptr = Wild THEN w.tag # 0 ELSE Len(queue) > 1 /\ w.ptr = queue[2]
    /\ \A t \in Thread :
          /\ pc[t] \in {"value", "popCas"} => loc[t].prev.ptr # Null
          /\ pc[t] = "popCas" /\ loc[t].head = mHead => loc[t].prev.ptr = queue[2]
          /\ pc[t] = "wild" => loc[t].prev.tag # 0
          /\ pc[t] = "fixPrev" => loc[t].next # Null

(* mSize lags behind the queue by exactly the calls between their exchange  *)
(* and their count; it may wrap below zero meanwhile, but not for good.     *)
Uncounted(S) == Cardinality({t \in Thread : pc[t] \in S})
SizeAccounted ==
    mSize = (Len(queue) - 1 - Uncounted({"pushLink", "pushSize"})
               + Uncounted({"release", "releaseCas", "popSize"})) % SizeMod

(* Both lists are intact and counted, whatever the threads that were        *)
(* delayed between two accesses have seen.                                  *)
ListsIntact == TypeOK /\ EachNodeInOnePlace /\ SizeAccounted

(* The queue implements Fifo: a push takes effect at its exchange of the    *)
(* tail, a pop at its exchange of the head with the value it had read       *)
(* before, and "empty" was true when the tail was read.                     *)
Abs == INSTANCE Fifo WITH
    Nothing <- T0,
    que <- [i \in 1 .. Len(queue) - 1 |-> mValue[queue[i + 1]]],
    out <- result,
    seen <- [t \in Thread |-> /\ pc[t] \in {"prev", "again"}
                              /\ loc[t].tail = loc[t].head]

ImplementsFifo == Abs!Spec

(* Every call returns, unless it follows a link that nobody has written.  A *)
(* Pop that meets an invalid mPrev waits for the Push that is to write it,  *)
(* and FixList ends although the queue moves.                               *)
CallsReturn == \A t \in Thread : pc[t] # "idle" ~> pc[t] \in {"idle", "wild"}
=============================================================================
