------------------------- MODULE LockFreeQueueProofs ------------------------
(***************************************************************************)
(* LockFreeQueue keeps its two lists and implements Fifo for every number  *)
(* of threads and calls that QueueAssumption admits, and every invalid tag *)
(* that is not at the border.                                              *)
(*                                                                         *)
(* Every node that is in the queue has a tag, the one the tail had when it *)
(* was pushed.  The heart of the argument is GoodLink: an mPrev, and what  *)
(* a delayed Push or FixList is still to write to one, has the tag of a    *)
(* node that has left the queue, or it tells the truth about the node with *)
(* that tag, whichever node it is written to; or nobody has written it.    *)
(***************************************************************************)
EXTENDS LockFreeQueue, LibraryLemmas

(* The tags in the order in which they are used, and back. *)
Ord(tag) == IF tag < InvalidTag THEN tag ELSE tag - 1
TagOf(k) == IF k < InvalidTag THEN k ELSE k + 1
FreeOrd(tag) == IF tag = TagMod - 1 THEN 0 ELSE Ord(tag) + 1

(* The tag that the tail had when the i-th node of the queue was newest, if *)
(* the head is h; and that tail.                                            *)
TagAt(h, i) == TagOf(Ord(h.tag) + i - 1)
At(i) == MakePointer(queue[i], TagAt(mHead, i))

Acquiring == {"acquire", "acquireNext", "acquireCas"}
Pushing == {"push", "pushCas"}
Popping == {"head", "tail", "prev", "again", "value", "popCas", "fix", "fixNext", "fixPrev"}
Releasing == {"release", "releaseCas"}
Owning == Pushing \cup Releasing
Places == Acquiring \cup Owning \cup Popping \cup {"idle", "pushLink", "pushSize", "popSize", "wild"}

(* Who still may exchange the tail, and who the head of the free list. *)
TailUsers == Acquiring \cup Pushing
FreeUsers == Acquiring \cup Popping \cup Releasing

LocalVars == [node : Cell, elem : Value \cup {T0}, head : Word, tail : Word, prev : AnyWord,
              next : Cell]

Types ==
    /\ TypeOK
    /\ queue \in Seq(Node) /\ Len(queue) > 0 /\ free \in Seq(Node)
    /\ allocated \in 1 .. AllCalls + 1
    /\ calls \in [Thread -> Nat] /\ (\A t \in Thread : calls[t] <= MaxCalls[t])
    /\ result \in [Thread -> Value \cup {T0, None}]

(* Every node is in one place. *)
NoRepeats(s) == \A i, j \in 1 .. Len(s) : s[i] = s[j] => i = j
Placed ==
    /\ Len(queue) + Len(free) + Cardinality(Owners) = allocated
    /\ Elements(queue) \cup Elements(free) \cup {loc[t].node : t \in Owners} = 1 .. allocated
    /\ NoRepeats(queue) /\ NoRepeats(free)
    /\ Elements(queue) \cap Elements(free) = {}
    /\ \A t \in Owners : loc[t].node \in (1 .. allocated) \ (Elements(queue) \cup Elements(free))
    /\ \A t, u \in Owners : loc[t].node = loc[u].node => t = u

(* The links in memory make the two lists. *)
QueueLinked ==
    /\ mHead.ptr = queue[1] /\ mTail.ptr = queue[Len(queue)]
    /\ \A i \in 2 .. Len(queue) : mNext[queue[i]].ptr = queue[i - 1]
FreeLinked ==
    /\ mFreeNodeHead.ptr = IF free = <<>> THEN Null ELSE free[Len(free)]
    /\ \A i \in 2 .. Len(free) : mNextFreeNode[free[i]] = free[i - 1]
    /\ free # <<>> => mNextFreeNode[free[1]] = Null

Ended == deleted # {} => deleted = 1 .. allocated /\ \A t \in Thread : pc[t] = "idle"

(* A node is allocated only if none is free, each call exchanges each head  *)
(* at most once, and the tags do not come round.                            *)
Counted ==
    /\ allocated + Uncounted(Acquiring) <= Called + 1 + Len(free)
    /\ mHead.tag \notin {InvalidTag, TagMod - 1} /\ mFreeNodeHead.tag # InvalidTag
    /\ mTail.tag = TagAt(mHead, Len(queue))
    /\ Ord(mHead.tag) + Len(queue) - 1 + Uncounted(TailUsers) <= Called + 1
    /\ FreeOrd(mFreeNodeHead.tag) + Uncounted(FreeUsers) <= Called + 1

(* The link w has no node's tag, or the tag of a node that is no longer in  *)
(* the queue q with the head h, or it tells the truth; x may have it as its *)
(* mPrev also if nobody has written it, and then its tag is not 0 as long   *)
(* as x is the head that the constructor made.                              *)
TrueLink(w, h, q) ==
    \/ w.tag \in {InvalidTag, TagMod - 1}
    \/ w.tag < h.tag
    \/ \E i \in 1 .. Len(q) - 1 : w.tag = TagAt(h, i) /\ w.ptr = q[i + 1]
GoodLink(x, w, h, q) == TrueLink(w, h, q) \/ (w.ptr = Wild /\ (w.tag = 0 => x # q[1]))

(* The head h was read before: it is the head m, or m has a later tag. *)
Seen(h, m) == h.tag <= m.tag /\ (h.tag = m.tag => h = m)
FreeSeen(h, m) == FreeOrd(h.tag) <= FreeOrd(m.tag) /\ (h.tag = m.tag => h = m)

(* What a thread with the local variables l knows between two accesses: at  *)
(* the place p, about the free list, about the node in hand, and about the  *)
(* queue.                                                                   *)
KnowsFree(p, l) ==
    /\ p \in {"acquireNext", "acquireCas"} =>
          l.head.ptr \in Node /\ l.head.tag # InvalidTag /\ FreeSeen(l.head, mFreeNodeHead)
    /\ p = "acquireCas" /\ l.head = mFreeNodeHead => l.next = mNextFreeNode[l.head.ptr]

KnowsNode(p, l) ==
    /\ p \in Acquiring => l.elem \in Value
    /\ p = "releaseCas" => mNextFreeNode[l.node] = l.head.ptr
    /\ p \in Pushing => mValue[l.node] \in Value
    /\ p = "pushCas" => mNext[l.node].ptr = l.tail.ptr

KnowsQueue(p, l) ==
    /\ p = "pushLink" => TrueLink(Link(l), mHead, queue)
    /\ p \in Popping \ {"head"} => l.head.ptr \in Node /\ Seen(l.head, mHead)
    /\ p \in {"prev", "again", "fix"} /\ l.head = mHead =>
          \E i \in 1 .. Len(queue) : l.tail = At(i)
    /\ p \in {"again", "value", "popCas"} => GoodLink(l.head.ptr, l.prev, mHead, queue)
    /\ p \in {"value", "popCas"} => l.prev.tag = l.head.tag /\ l.prev.ptr \in Node
    /\ p = "wild" => l.prev.tag # 0
    /\ p = "popCas" /\ l.head = mHead => l.elem = mValue[l.prev.ptr]
    /\ p \in {"fixNext", "fixPrev"} /\ l.head = mHead =>
          \E i \in 2 .. Len(queue) : l.tail = At(i) /\ (p = "fixPrev" => l.next = queue[i - 1])
    /\ p \in {"fixNext", "fixPrev"} => TrueLink(Relink(l), mHead, queue)
    /\ p = "fixNext" => mNext[l.tail.ptr].ptr \in Node
    /\ p = "fixPrev" => l.next \in Node

Delayed(t) ==
    KnowsFree(pc[t], loc[t]) /\ KnowsNode(pc[t], loc[t]) /\ KnowsQueue(pc[t], loc[t])

PrevGood == \A n \in Cell : GoodLink(n, mPrev[n], mHead, queue)

QueueInv ==
    /\ Types /\ Placed /\ QueueLinked /\ FreeLinked /\ Ended /\ Counted /\ SizeAccounted
    /\ PrevGood /\ \A t \in Thread : Delayed(t)

(* Remainders of the numbers next to the range of the tags. *)
LEMMA ModAround ==
    ASSUME NEW m \in Nat \ {0}
    PROVE  /\ \A x \in 0 .. m - 1 : x % m = x
           /\ m % m = 0
           /\ (-1) % m = m - 1
<1>1. ASSUME NEW x \in 0 .. m - 1 PROVE x % m = x
  BY SMT
<1>2. m % m = 0 BY SMT
<1>3. (-1) % m = m - 1 BY SMT
<1> QED BY <1>1, <1>2, <1>3

(* No tag that GetNextTag or GetPrevTag makes is the invalid one, which     *)
(* marks a link that must not be used, and GetPrevTag undoes GetNextTag: so *)
(* FixList gives a link the tag that Push gave it, at the invalid tag and   *)
(* where the tags come round too.                                           *)
THEOREM TagsUndone ==
    ASSUME NEW ptr, NEW tag \in (0 .. TagMod - 1) \ {InvalidTag}
    PROVE  LET next == GetNextTag(MakePointer(ptr, tag))
           IN  /\ next \in (0 .. TagMod - 1) \ {InvalidTag}
               /\ GetPrevTag(MakePointer(ptr, next)) = tag
<1> DEFINE next == GetNextTag(MakePointer(ptr, tag))
<1>0. TagMod \in Nat \ {0} /\ InvalidTag \in 2 .. TagMod - 2
  BY QueueAssumption
<1>m. /\ \A x \in 0 .. TagMod - 1 : x % TagMod = x
      /\ TagMod % TagMod = 0
      /\ (-1) % TagMod = TagMod - 1
  BY <1>0, ModAround
<1>1. CASE tag = TagMod - 1
  <2>1. next = 0 BY <1>0, <1>m, <1>1 DEF GetNextTag, MakePointer
  <2>2. GetPrevTag(MakePointer(ptr, 0)) = TagMod - 1 BY <1>0, <1>m DEF GetPrevTag, MakePointer
  <2> QED BY <1>0, <1>1, <2>1, <2>2
<1>2. CASE tag = InvalidTag - 1
  <2>1. next = InvalidTag + 1 BY <1>0, <1>m, <1>2 DEF GetNextTag, MakePointer
  <2>2. GetPrevTag(MakePointer(ptr, InvalidTag + 1)) = InvalidTag - 1
    BY <1>0, <1>m DEF GetPrevTag, MakePointer
  <2> QED BY <1>0, <1>2, <2>1, <2>2
<1>3. CASE tag # TagMod - 1 /\ tag # InvalidTag - 1
  <2>1. next = tag + 1 BY <1>0, <1>m, <1>3 DEF GetNextTag, MakePointer
  <2>2. GetPrevTag(MakePointer(ptr, tag + 1)) = tag
    BY <1>0, <1>m, <1>3 DEF GetPrevTag, MakePointer
  <2> QED BY <1>0, <1>3, <2>1, <2>2
<1> QED BY <1>1, <1>2, <1>3

-----------------------------------------------------------------------------
(* The tags in their order: the invalid one is skipped. *)
LEMMA TagsOrdered ==
    /\ InvalidTag \in Nat /\ TagMod \in Nat /\ 1 < InvalidTag /\ InvalidTag < TagMod - 1
    /\ \A k \in Nat : /\ TagOf(k) \in Nat /\ TagOf(k) # InvalidTag /\ Ord(TagOf(k)) = k
                      /\ k <= TagOf(k) /\ TagOf(k) <= k + 1
    /\ \A j, k \in Nat : (TagOf(j) < TagOf(k) <=> j < k) /\ (TagOf(j) = TagOf(k) <=> j = k)
    /\ \A tag \in Nat \ {InvalidTag} : Ord(tag) \in Nat /\ TagOf(Ord(tag)) = tag /\ Ord(tag) <= tag
<1>1. InvalidTag \in Nat /\ TagMod \in Nat /\ 1 < InvalidTag /\ InvalidTag < TagMod - 1
  BY QueueAssumption
<1> QED
  BY <1>1 DEF TagOf, Ord

(* GetNextTag of the tag of one count is the tag of the next. *)
LEMMA NextTag ==
    ASSUME NEW w, NEW k \in Nat, w.tag = TagOf(k), k + 2 < TagMod
    PROVE  GetNextTag(w) = TagOf(k + 1) /\ TagOf(k + 1) \in 0 .. TagMod - 1
<1>1. InvalidTag \in Nat /\ TagMod \in Nat \ {0} /\ 1 < InvalidTag /\ InvalidTag < TagMod - 1
  BY TagsOrdered
<1>2. \A x \in 0 .. TagMod - 1 : x % TagMod = x
  BY <1>1, ModAround
<1> QED
  BY <1>1, <1>2 DEF GetNextTag, TagOf

(* GetPrevTag goes back to it. *)
LEMMA PrevTag ==
    ASSUME NEW w, NEW k \in Nat, w.tag = TagOf(k + 1), k + 2 < TagMod
    PROVE  GetPrevTag(w) = TagOf(k) /\ TagOf(k) \in 0 .. TagMod - 1
<1>1. InvalidTag \in Nat /\ TagMod \in Nat \ {0} /\ 1 < InvalidTag /\ InvalidTag < TagMod - 1
  BY TagsOrdered
<1>2. \A x \in 0 .. TagMod - 1 : x % TagMod = x
  BY <1>1, ModAround
<1> QED
  BY <1>1, <1>2 DEF GetPrevTag, TagOf

(* The free list starts with the last tag, whose successor is 0. *)
LEMMA NextFreeTag ==
    ASSUME NEW w \in Word, w.tag # InvalidTag, FreeOrd(w.tag) + 2 < TagMod
    PROVE  /\ FreeOrd(w.tag) \in Nat
           /\ GetNextTag(w) \in 0 .. TagMod - 1 /\ GetNextTag(w) # InvalidTag
           /\ FreeOrd(GetNextTag(w)) = FreeOrd(w.tag) + 1
<1>1. InvalidTag \in Nat /\ TagMod \in Nat \ {0} /\ 1 < InvalidTag /\ InvalidTag < TagMod - 1
  BY TagsOrdered
<1>2. (\A x \in 0 .. TagMod - 1 : x % TagMod = x) /\ TagMod % TagMod = 0
  BY <1>1, ModAround
<1>3. w.tag \in 0 .. TagMod - 1
  BY DEF Word
<1>4. CASE w.tag = TagMod - 1
  <2>1. GetNextTag(w) = 0
    BY <1>1, <1>2, <1>4 DEF GetNextTag
  <2> QED
    BY <1>1, <1>4, <2>1 DEF FreeOrd, Ord
<1>5. CASE w.tag # TagMod - 1
  <2>1. GetNextTag(w) = IF w.tag + 1 = InvalidTag THEN w.tag + 2 ELSE w.tag + 1
    BY <1>1, <1>2, <1>3, <1>5 DEF GetNextTag
  <2> QED
    BY <1>1, <1>3, <1>5, <2>1 DEF FreeOrd, Ord
<1> QED
  BY <1>4, <1>5

(* The bound on the calls leaves room for the next tag. *)
LEMMA CallsBounded ==
    ASSUME Types
    PROVE  Called \in Nat /\ AllCalls \in Nat /\ Called <= AllCalls /\ 2 * AllCalls + 3 < TagMod
<1>1. IsFiniteSet(Thread) /\ calls \in [Thread -> Nat] /\ MaxCalls \in [Thread -> Nat]
  BY QueueAssumption DEF Types
<1>2. calls \in [Thread -> Int] /\ MaxCalls \in [Thread -> Int]
  BY <1>1
<1>3. SumFunction(calls) \in Nat /\ SumFunction(MaxCalls) \in Nat
  BY <1>1, SumOfNaturals
<1>4. SumFunction(calls) <= SumFunction(MaxCalls)
  BY <1>1, <1>2, SumChanged DEF Types
<1> QED
  BY <1>3, <1>4, QueueAssumption DEF Called, AllCalls

(* The tag of the i-th node: the next one is GetNextTag of it, and it is in *)
(* range as long as the calls are counted.                                  *)
LEMMA TagAtStep ==
    ASSUME NEW h, h.tag \in Nat \ {InvalidTag}, NEW i \in Nat \ {0}
    PROVE  /\ TagAt(h, i) \in Nat \ {InvalidTag} /\ TagAt(h, 1) = h.tag
           /\ h.tag <= TagAt(h, i)
           /\ Ord(TagAt(h, i)) = Ord(h.tag) + i - 1 /\ Ord(h.tag) \in Nat
           /\ \A j \in Nat \ {0} : /\ TagAt(h, i) = TagAt(h, j) <=> i = j
                                   /\ TagAt(h, i) < TagAt(h, j) <=> i < j
<1>1. Ord(h.tag) \in Nat /\ TagOf(Ord(h.tag)) = h.tag
  BY TagsOrdered
<1>2. \A j \in Nat \ {0} : Ord(h.tag) + j - 1 \in Nat
  BY <1>1
<1>3. Ord(h.tag) + 1 - 1 = Ord(h.tag) /\ Ord(h.tag) <= Ord(h.tag) + i - 1
  BY <1>1
<1>4. TagAt(h, 1) = h.tag
  BY <1>1, <1>3 DEF TagAt
<1>5. TagAt(h, i) \in Nat \ {InvalidTag} /\ Ord(TagAt(h, i)) = Ord(h.tag) + i - 1
  BY <1>2, TagsOrdered DEF TagAt
<1>6. ASSUME NEW j \in Nat \ {0}
      PROVE  (TagAt(h, i) = TagAt(h, j) <=> i = j) /\ (TagAt(h, i) < TagAt(h, j) <=> i < j)
  <2> DEFINE x == Ord(h.tag) + i - 1
             y == Ord(h.tag) + j - 1
  <2>1. x \in Nat /\ y \in Nat /\ (x = y <=> i = j) /\ (x < y <=> i < j)
    BY <1>1, <1>2
  <2> HIDE DEF x, y
  <2>2. (TagOf(x) < TagOf(y) <=> x < y) /\ (TagOf(x) = TagOf(y) <=> x = y)
    BY <2>1, TagsOrdered
  <2> QED
    BY <2>1, <2>2 DEF TagAt, x, y
<1>7. h.tag <= TagAt(h, i)
  <2>1. TagAt(h, 1) = TagAt(h, i) \/ TagAt(h, 1) < TagAt(h, i)
    <3>1. CASE i = 1
      BY <3>1
    <3>2. CASE i # 1
      <4>1. ~ (i < 1) /\ ~ (i = 1) /\ 1 \in Nat \ {0}
        BY <3>2
      <4>2. TagAt(h, 1) # TagAt(h, i) /\ ~(TagAt(h, i) < TagAt(h, 1))
        BY <1>6, <4>1
      <4> QED
        BY <1>4, <1>5, <4>2
    <3> QED
      BY <3>1, <3>2
  <2> QED
    BY <1>4, <1>5, <2>1
<1> QED
  BY <1>1, <1>4, <1>5, <1>6, <1>7

(* How the two lists change: a node is added at the end, or taken from the  *)
(* end or from the front.                                                   *)
LEMMA EndAdded ==
    ASSUME NEW s \in Seq(Node), NEW n \in Node
    PROVE  /\ Append(s, n) \in Seq(Node) /\ Len(Append(s, n)) = Len(s) + 1 /\ Len(s) \in Nat
           /\ Append(s, n)[Len(s) + 1] = n
           /\ \A i \in 1 .. Len(s) : Append(s, n)[i] = s[i]
           /\ Elements(Append(s, n)) = Elements(s) \cup {n}
           /\ NoRepeats(s) /\ n \notin Elements(s) => NoRepeats(Append(s, n))
<1> DEFINE r == Append(s, n)
<1>1. /\ r \in Seq(Node) /\ Len(r) = Len(s) + 1 /\ Len(s) \in Nat
      /\ r[Len(s) + 1] = n
      /\ \A i \in 1 .. Len(s) : r[i] = s[i]
  BY AppendProperties, LenProperties
<1> HIDE DEF r
<1>2. \A i \in 1 .. Len(r) : i \in 1 .. Len(s) \/ i = Len(s) + 1
  BY <1>1
<1>3. Len(s) + 1 \in 1 .. Len(r) /\ (\A i \in 1 .. Len(s) : i \in 1 .. Len(r))
  BY <1>1
<1>4. Elements(r) = Elements(s) \cup {n}
  <2>1. \A i \in 1 .. Len(r) : r[i] \in Elements(s) \cup {n}
    BY <1>1, <1>2 DEF Elements
  <2>2. n \in Elements(r) /\ (\A i \in 1 .. Len(s) : s[i] \in Elements(r))
    BY <1>1, <1>3 DEF Elements
  <2> QED
    BY <2>1, <2>2 DEF Elements
<1>5. NoRepeats(s) /\ n \notin Elements(s) => NoRepeats(r)
  BY <1>1, <1>2 DEF NoRepeats, Elements
<1> QED
  BY <1>1, <1>4, <1>5 DEF r

(* A sequence without repetitions that loses its last element. *)
LEMMA EndTaken ==
    ASSUME NEW s \in Seq(Node), s # <<>>, NoRepeats(s)
    PROVE  LET r == SubSeq(s, 1, Len(s) - 1)
           IN  /\ r \in Seq(Node) /\ Len(r) = Len(s) - 1 /\ Len(s) \in Nat \ {0}
               /\ \A i \in 1 .. Len(r) : r[i] = s[i]
               /\ s[Len(s)] \in Node /\ s[Len(s)] \notin Elements(r)
               /\ Elements(s) = Elements(r) \cup {s[Len(s)]}
               /\ NoRepeats(r)
<1> DEFINE r == SubSeq(s, 1, Len(s) - 1)
<1>1. Len(s) \in Nat \ {0} /\ (\A i \in 1 .. Len(s) : s[i] \in Node)
  BY EmptySeq, LenProperties, ElementOfSeq
<1>2. r \in Seq(Node) /\ Len(r) = Len(s) - 1 /\ (\A i \in 1 .. Len(r) : r[i] = s[i])
  <2> DEFINE n == Len(s) - 1
  <2>1. n \in Nat /\ (\A i \in 1 .. n : s[i] \in Node)
    BY <1>1
  <2> HIDE DEF n
  <2>2. /\ SubSeq(s, 1, n) \in Seq(Node) /\ Len(SubSeq(s, 1, n)) = IF 1 <= n THEN n - 1 + 1 ELSE 0
        /\ \A i \in 1 .. n - 1 + 1 : SubSeq(s, 1, n)[i] = s[1 + i - 1]
    BY <2>1, SubSeqProperties
  <2>3. n - 1 + 1 = n /\ (\A i \in 1 .. n : 1 + i - 1 = i) /\ (IF 1 <= n THEN n - 1 + 1 ELSE 0) = n
    BY <2>1
  <2>4. Len(SubSeq(s, 1, n)) = n /\ (\A i \in 1 .. n : SubSeq(s, 1, n)[i] = s[i])
    BY <2>2, <2>3
  <2> QED
    BY <2>2, <2>4 DEF n
<1> HIDE DEF r
<1>3. \A i \in 1 .. Len(s) : i \in 1 .. Len(r) \/ i = Len(s)
  BY <1>1, <1>2
<1>4. Len(s) \in 1 .. Len(s) /\ (\A i \in 1 .. Len(r) : i \in 1 .. Len(s) /\ i # Len(s))
  BY <1>1, <1>2
<1>5. NoRepeats(r) /\ s[Len(s)] \notin Elements(r)
  BY <1>2, <1>4 DEF NoRepeats, Elements
<1>6. Elements(s) = Elements(r) \cup {s[Len(s)]}
  <2>1. \A i \in 1 .. Len(s) : s[i] \in Elements(r) \cup {s[Len(s)]}
    BY <1>2, <1>3 DEF Elements
  <2>2. s[Len(s)] \in Elements(s) /\ (\A i \in 1 .. Len(r) : r[i] \in Elements(s))
    BY <1>2, <1>4 DEF Elements
  <2> QED
    BY <2>1, <2>2 DEF Elements
<1> QED
  BY <1>1, <1>2, <1>4, <1>5, <1>6 DEF r

(* A sequence without repetitions that loses its first element. *)
LEMMA FirstTaken ==
    ASSUME NEW s \in Seq(Node), Len(s) > 0, NoRepeats(s)
    PROVE  /\ Tail(s) \in Seq(Node) /\ Len(Tail(s)) = Len(s) - 1 /\ Len(s) \in Nat \ {0}
           /\ \A i \in 1 .. Len(s) - 1 : Tail(s)[i] = s[i + 1]
           /\ s[1] \in Node /\ s[1] \notin Elements(Tail(s))
           /\ Elements(s) = Elements(Tail(s)) \cup {s[1]}
           /\ NoRepeats(Tail(s))
<1> DEFINE r == Tail(s)
<1>1. Len(s) \in Nat \ {0} /\ (\A i \in 1 .. Len(s) : s[i] \in Node) /\ s # <<>>
  BY EmptySeq, LenProperties, ElementOfSeq
<1>2. r \in Seq(Node) /\ Len(r) = Len(s) - 1 /\ (\A i \in 1 .. Len(r) : r[i] = s[i + 1])
  BY <1>1, HeadTailProperties
<1> HIDE DEF r
<1>3. \A i \in 1 .. Len(s) : i = 1 \/ (i - 1 \in 1 .. Len(r) /\ (i - 1) + 1 = i)
  BY <1>1, <1>2
<1>4. 1 \in 1 .. Len(s) /\ (\A i \in 1 .. Len(r) : i + 1 \in 1 .. Len(s) /\ i + 1 # 1)
  BY <1>1, <1>2
<1>5. \A i, j \in 1 .. Len(r) : i + 1 = j + 1 => i = j
  OBVIOUS
<1>6. NoRepeats(r) /\ s[1] \notin Elements(r)
  BY <1>2, <1>4, <1>5 DEF NoRepeats, Elements
<1>7. Elements(s) = Elements(r) \cup {s[1]}
  <2>1. ASSUME NEW i \in 1 .. Len(s) PROVE s[i] \in Elements(r) \cup {s[1]}
    <3>1. CASE i = 1
      BY <3>1
    <3>2. CASE i # 1
      <4>1. r[i - 1] = s[i] /\ i - 1 \in 1 .. Len(r)
        BY <1>2, <1>3, <3>2
      <4> QED
        BY <4>1 DEF Elements
    <3> QED
      BY <3>1, <3>2
  <2>2. s[1] \in Elements(s) /\ (\A i \in 1 .. Len(r) : r[i] \in Elements(s))
    BY <1>2, <1>4 DEF Elements
  <2> QED
    BY <2>1, <2>2 DEF Elements
<1> QED
  BY <1>1, <1>2, <1>4, <1>6, <1>7 DEF r

(* How the number of threads at given places changes when one of them moves.*)
LEMMA Moved ==
    ASSUME TypeOK, NEW t \in Thread, NEW l, Goto(t, l), NEW P
    PROVE  /\ Uncounted(P) \in Nat /\ Uncounted(P)' \in Nat
           /\ pc[t] \in P => Uncounted(P) > 0
           /\ Uncounted(P)' <= Uncounted(P) + 1
           /\ (l \in P => pc[t] \in P) => Uncounted(P)' <= Uncounted(P)
           /\ (l \in P <=> pc[t] \in P) => Uncounted(P)' = Uncounted(P)
           /\ l \in P /\ pc[t] \notin P => Uncounted(P)' = Uncounted(P) + 1
           /\ l \notin P /\ pc[t] \in P => Uncounted(P)' = Uncounted(P) - 1
<1> DEFINE A == {u \in Thread : pc[u] \in P}
           B == {u \in Thread : pc'[u] \in P}
<1>1. Uncounted(P) = Cardinality(A) /\ Uncounted(P)' = Cardinality(B)
  BY DEF Uncounted
<1>2. pc \in [Thread -> {pc[u] : u \in Thread}] /\ pc' = [pc EXCEPT ![t] = l]
  BY DEF TypeOK, Goto
<1>3. A \in SUBSET Thread /\ B \in SUBSET Thread /\ A \ {t} = B \ {t}
  BY <1>2
<1>4. (t \in A <=> pc[t] \in P) /\ (t \in B <=> l \in P)
  BY <1>2
<1>5. IsFiniteSet(Thread)
  BY QueueAssumption
<1> HIDE DEF A, B
<1>6. /\ Cardinality(A) \in Nat /\ Cardinality(B) \in Nat
      /\ t \in A => Cardinality(A) > 0
      /\ Cardinality(B) = Cardinality(A) + (IF t \in B THEN 1 ELSE 0) - (IF t \in A THEN 1 ELSE 0)
  BY <1>3, <1>5, CountMoved
<1>7. /\ Cardinality(B) <= Cardinality(A) + 1
      /\ (t \in B => t \in A) => Cardinality(B) <= Cardinality(A)
      /\ (t \in B <=> t \in A) => Cardinality(B) = Cardinality(A)
      /\ t \in B /\ t \notin A => Cardinality(B) = Cardinality(A) + 1
      /\ t \notin B /\ t \in A => Cardinality(B) = Cardinality(A) - 1
  BY <1>6
<1> QED
  BY <1>1, <1>4, <1>6, <1>7

(* The threads with a node in hand, when t goes on. *)
LEMMA OwnersMoved ==
    ASSUME TypeOK, NEW t \in Thread, NEW l, Goto(t, l)
    PROVE  /\ t \in Owners <=> pc[t] \in Owning
           /\ Owners' = IF l \in Owning THEN Owners \cup {t} ELSE Owners \ {t}
           /\ Owners \subseteq Thread
           /\ Cardinality(Owners) \in Nat
           /\ (l \in Owning <=> pc[t] \in Owning) => Owners' = Owners
           /\ l \in Owning /\ pc[t] \notin Owning => Cardinality(Owners') = Cardinality(Owners) + 1
           /\ l \notin Owning /\ pc[t] \in Owning => Cardinality(Owners') = Cardinality(Owners) - 1
<1>1. /\ t \in Owners <=> pc[t] \in Owning
      /\ Owners' = IF l \in Owning THEN Owners \cup {t} ELSE Owners \ {t}
      /\ Owners \subseteq Thread
  BY DEF TypeOK, Goto, Owners, Owning, Pushing, Releasing
<1>2. Owners = {u \in Thread : pc[u] \in Owning} /\ Owners' = {u \in Thread : pc'[u] \in Owning}
  BY DEF Owners, Owning, Pushing, Releasing
<1>3. Uncounted(Owning) = Cardinality(Owners) /\ Uncounted(Owning)' = Cardinality(Owners')
  BY <1>2 DEF Uncounted, Owning, Pushing, Releasing
<1>4. /\ Uncounted(Owning) \in Nat
      /\ l \in Owning /\ pc[t] \notin Owning => Uncounted(Owning)' = Uncounted(Owning) + 1
      /\ l \notin Owning /\ pc[t] \in Owning => Uncounted(Owning)' = Uncounted(Owning) - 1
  BY Moved DEF Owning, Pushing, Releasing
<1> QED
  BY <1>1, <1>3, <1>4

(* A call is one more, and the bound leaves room for it. *)
LEMMA CalledOnce ==
    ASSUME Types, NEW t \in Thread, calls[t] < MaxCalls[t], calls' = [calls EXCEPT ![t] = @ + 1]
    PROVE  /\ Called' = Called + 1 /\ Called + 1 \in Value
           /\ calls' \in [Thread -> Nat] /\ (\A u \in Thread : calls'[u] <= MaxCalls[u])
<1>1. IsFiniteSet(Thread) /\ calls \in [Thread -> Nat] /\ MaxCalls \in [Thread -> Nat]
  BY QueueAssumption DEF Types
<1>2. calls' \in [Thread -> Nat] /\ (\A u \in Thread : calls'[u] <= MaxCalls[u])
  BY <1>1 DEF Types
<1>3. /\ calls \in [Thread -> Int] /\ calls' \in [Thread -> Int] /\ MaxCalls \in [Thread -> Int]
      /\ \A u \in Thread \ {t} : calls[u] = calls'[u]
      /\ calls'[t] = calls[t] + 1 /\ calls[t] \in Nat
  BY <1>1, <1>2
<1>4. SumFunction(calls') = SumFunction(calls) + calls'[t] - calls[t] /\ SumFunction(calls) \in Int
  <2> DEFINE f == calls
             g == calls'
  <2>1. f \in [Thread -> Int] /\ g \in [Thread -> Int] /\ (\A u \in Thread \ {t} : f[u] = g[u])
    BY <1>3
  <2> HIDE DEF f, g
  <2>2. /\ SumFunction(f) \in Int
        /\ \A v \in Thread : (\A u \in Thread \ {v} : f[u] = g[u])
              => SumFunction(g) = SumFunction(f) + g[v] - f[v]
    BY <1>1, <2>1, SumChanged
  <2>3. SumFunction(g) = SumFunction(f) + g[t] - f[t]
    BY <2>1, <2>2
  <2> QED
    BY <2>2, <2>3 DEF f, g
<1>5. SumFunction(calls') <= SumFunction(MaxCalls)
  BY <1>1, <1>2, <1>3, SumChanged
<1>6. SumFunction(calls') = SumFunction(calls) + 1
  BY <1>3, <1>4
<1>7. Called \in Nat /\ AllCalls \in Nat
  BY CallsBounded
<1> QED
  BY <1>2, <1>5, <1>6, <1>7 DEF Called, AllCalls, Value

-----------------------------------------------------------------------------
(* How the queue q with the head h can change. *)
ListStep(h, q, h2, q2) ==
    \/ h2 = h /\ q2 = q
    \/ h2 = h /\ \E n \in Node : q2 = Append(q, n)
    \/ Len(q) > 1 /\ q2 = Tail(q) /\ h2 = MakePointer(q[2], TagAt(h, 2))

IsQueue(h, q) == h.tag \in Nat \ {InvalidTag} /\ q \in Seq(Node) /\ Len(q) > 0

(* The head's tag never goes back, and a node keeps its tag. *)
LEMMA StepTags ==
    ASSUME NEW h, NEW q, IsQueue(h, q), NEW h2, NEW q2, ListStep(h, q, h2, q2)
    PROVE  /\ IsQueue(h2, q2) /\ Len(q) \in Nat /\ Len(q2) \in Nat
           /\ \/ /\ h2 = h /\ Len(q2) >= Len(q)
                 /\ \A i \in 1 .. Len(q) : q2[i] = q[i]
              \/ /\ h.tag < h2.tag /\ Len(q) > 1 /\ Len(q2) = Len(q) - 1
                 /\ \A i \in 2 .. Len(q) : q2[i - 1] = q[i] /\ TagAt(h2, i - 1) = TagAt(h, i)
<1>1. Len(q) \in Nat \ {0} /\ q \in Seq(Node) /\ h.tag \in Nat \ {InvalidTag} /\ q # <<>>
  BY LenProperties DEF IsQueue
<1>2. CASE h2 = h /\ q2 = q
  BY <1>1, <1>2 DEF IsQueue
<1>3. ASSUME h2 = h, NEW n \in Node, q2 = Append(q, n)
      PROVE  IsQueue(h2, q2) /\ Len(q2) \in Nat /\ Len(q2) >= Len(q) /\ (\A i \in 1 .. Len(q) : q2[i] = q[i])
  <2>1. q2 \in Seq(Node) /\ Len(q2) = Len(q) + 1 /\ (\A i \in 1 .. Len(q) : q2[i] = q[i])
    BY <1>1, <1>3, EndAdded
  <2> QED
    BY <1>1, <1>3, <2>1 DEF IsQueue
<1>4. CASE Len(q) > 1 /\ q2 = Tail(q) /\ h2 = MakePointer(q[2], TagAt(h, 2))
  <2>1. q2 \in Seq(Node) /\ Len(q2) = Len(q) - 1 /\ (\A i \in 1 .. Len(q2) : q2[i] = q[i + 1])
    BY <1>1, <1>4, HeadTailProperties
  <2>2. h2.tag = TagAt(h, 2) /\ 2 \in Nat \ {0} /\ 1 \in Nat \ {0}
    BY <1>4 DEF MakePointer
  <2>3. h2.tag \in Nat \ {InvalidTag} /\ h.tag < h2.tag /\ Ord(h2.tag) = Ord(h.tag) + 2 - 1 /\ Ord(h.tag) \in Nat
    <3>1. /\ TagAt(h, 2) \in Nat \ {InvalidTag} /\ TagAt(h, 1) = h.tag
          /\ Ord(TagAt(h, 2)) = Ord(h.tag) + 2 - 1 /\ Ord(h.tag) \in Nat
      BY <1>1, <2>2, TagAtStep
    <3>2. TagAt(h, 1) < TagAt(h, 2) <=> 1 < 2
      BY <1>1, <2>2, TagAtStep
    <3> QED
      BY <2>2, <3>1, <3>2
  <2>4. ASSUME NEW i \in 2 .. Len(q) PROVE q2[i - 1] = q[i] /\ TagAt(h2, i - 1) = TagAt(h, i)
    <3>1. i - 1 \in 1 .. Len(q2) /\ (i - 1) + 1 = i
      BY <1>1, <2>1
    <3>2. Ord(h2.tag) + (i - 1) - 1 = Ord(h.tag) + i - 1
      BY <2>3, <3>1
    <3> QED
      BY <2>1, <3>1, <3>2 DEF TagAt
  <2>5. IsQueue(h2, q2) /\ Len(q2) \in Nat
    BY <1>1, <1>4, <2>1, <2>3 DEF IsQueue
  <2> QED
    BY <1>1, <1>4, <2>1, <2>3, <2>4, <2>5
<1> QED
  BY <1>1, <1>2, <1>3, <1>4 DEF ListStep

(* A link that tells the truth does so for ever. *)
LEMMA LinkKept ==
    ASSUME NEW h, NEW q, IsQueue(h, q), NEW h2, NEW q2, ListStep(h, q, h2, q2), NEW w, w.tag \in Nat
    PROVE  /\ TrueLink(w, h, q) => TrueLink(w, h2, q2)
           /\ \A x : GoodLink(x, w, h, q) => GoodLink(x, w, h2, q2)
<1>1. IsQueue(h2, q2) /\ Len(q) \in Nat \ {0} /\ Len(q2) \in Nat /\ h.tag \in Nat /\ h2.tag \in Nat
  BY StepTags DEF IsQueue
<1>2. CASE /\ h2 = h /\ Len(q2) >= Len(q)
           /\ \A i \in 1 .. Len(q) : q2[i] = q[i]
  <2>1. ASSUME NEW i \in 1 .. Len(q) - 1, w.ptr = q[i + 1]
        PROVE  i \in 1 .. Len(q2) - 1 /\ w.ptr = q2[i + 1]
    BY <1>1, <1>2, <2>1
  <2>2. TrueLink(w, h, q) => TrueLink(w, h2, q2)
    BY <1>2, <2>1 DEF TrueLink
  <2>3. q2[1] = q[1]
    BY <1>1, <1>2
  <2> QED
    BY <2>2, <2>3 DEF GoodLink
<1>3. CASE /\ h.tag < h2.tag /\ Len(q) > 1 /\ Len(q2) = Len(q) - 1
           /\ \A i \in 2 .. Len(q) : q2[i - 1] = q[i] /\ TagAt(h2, i - 1) = TagAt(h, i)
  <2>1. ASSUME NEW i \in 1 .. Len(q) - 1, w.tag = TagAt(h, i), w.ptr = q[i + 1]
        PROVE  TrueLink(w, h2, q2)
    <3>1. CASE i = 1
      <4>1. w.tag = h.tag
        BY <2>1, <3>1, TagAtStep DEF IsQueue
      <4> QED
        BY <1>3, <4>1 DEF TrueLink
    <3>2. CASE i # 1
      <4>1. i \in 2 .. Len(q) /\ i + 1 \in 2 .. Len(q) /\ i - 1 \in 1 .. Len(q2) - 1 /\ (i + 1) - 1 = (i - 1) + 1
        BY <1>1, <1>3, <3>2
      <4>2. w.tag = TagAt(h2, i - 1) /\ w.ptr = q2[(i - 1) + 1]
        BY <1>3, <2>1, <4>1
      <4> QED
        BY <4>1, <4>2 DEF TrueLink
    <3> QED
      BY <3>1, <3>2
  <2>2. w.tag < h.tag => w.tag < h2.tag
    BY <1>1, <1>3
  <2>3. TrueLink(w, h, q) => TrueLink(w, h2, q2)
    BY <2>1, <2>2 DEF TrueLink
  <2>4. w.tag = 0 => TrueLink(w, h2, q2)
    BY <1>1, <1>3 DEF TrueLink
  <2> QED
    BY <2>3, <2>4 DEF GoodLink
<1> QED
  BY <1>2, <1>3, StepTags

(* A link with the tag of the head is the successor of the head. *)
LEMMA PrevTrue ==
    ASSUME NEW h, NEW q, IsQueue(h, q), h.ptr = q[1], h.tag # TagMod - 1,
           NEW w, w.tag = h.tag, w.ptr # Wild, GoodLink(h.ptr, w, h, q)
    PROVE  Len(q) > 1 /\ Len(q) \in Nat /\ w.ptr = q[2]
<1>1. Len(q) \in Nat /\ h.tag \in Nat \ {InvalidTag}
  BY LenProperties DEF IsQueue
<1>2. w.tag \notin {InvalidTag, TagMod - 1} /\ ~(w.tag < h.tag)
  BY <1>1
<1>3. PICK i \in 1 .. Len(q) - 1 : w.tag = TagAt(h, i) /\ w.ptr = q[i + 1]
  BY <1>2 DEF GoodLink, TrueLink
<1>4. i \in Nat \ {0} /\ 1 \in Nat \ {0} /\ TagAt(h, 1) = TagAt(h, i)
  <2>1. i \in Nat \ {0} /\ 1 \in Nat \ {0}
    BY <1>1
  <2>2. TagAt(h, 1) = h.tag
    BY <1>1, <2>1, TagAtStep
  <2> QED
    BY <1>3, <2>1, <2>2
<1>5. i = 1
  BY <1>1, <1>4, TagAtStep
<1> QED
  BY <1>1, <1>3, <1>5

(* A link of the queue was written, and other words may not have been. *)
LEMMA WildApart ==
    /\ Wild \notin Node /\ Wild \notin Cell
    /\ \A w \in Word : w \in AnyWord
    /\ \A w \in AnyWord : w.tag \in Nat /\ w.tag \in 0 .. TagMod - 1
<1>1. Wild \notin Node /\ Wild # Null
  BY DEF Wild, Node, Null
<1>2. \A w \in AnyWord : w.tag \in Nat /\ w.tag \in 0 .. TagMod - 1
  BY TagsOrdered DEF AnyWord
<1>3. \A w \in Word : w \in AnyWord
  BY DEF Word, AnyWord
<1>4. Wild \notin Cell
  BY <1>1 DEF Cell
<1> QED
  BY <1>1, <1>2, <1>3, <1>4

(* A link that nobody has written has not the tag of the first dummy. *)
LEMMA WildHead ==
    ASSUME NEW h, NEW q, IsQueue(h, q), h.ptr = q[1], h.tag # TagMod - 1, \A i \in 1 .. Len(q) : q[i] \in Node,
           NEW w, w.tag = h.tag, w.ptr = Wild, GoodLink(h.ptr, w, h, q)
    PROVE  w.tag # 0
<1>1. Len(q) \in Nat /\ h.tag \in Nat \ {InvalidTag}
  BY LenProperties DEF IsQueue
<1>2. w.tag \notin {InvalidTag, TagMod - 1} /\ ~(w.tag < h.tag)
  BY <1>1
<1>3. \A i \in 1 .. Len(q) - 1 : q[i + 1] # Wild
  <2>1. \A i \in 1 .. Len(q) - 1 : i + 1 \in 1 .. Len(q)
    BY <1>1
  <2> QED
    BY <2>1, WildApart
<1>4. ~TrueLink(w, h, q)
  BY <1>2, <1>3 DEF TrueLink
<1> QED
  BY <1>4 DEF GoodLink

(* The tags that GetNextTag and GetPrevTag make are tags. *)
LEMMA TagsInRange ==
    ASSUME NEW w \in Word
    PROVE  /\ w.tag \in Nat /\ w.ptr \in Cell /\ w.tag \in 0 .. TagMod - 1
           /\ GetNextTag(w) \in 0 .. TagMod - 1 /\ GetPrevTag(w) \in 0 .. TagMod - 1
<1>1. TagMod \in Nat \ {0} /\ w.tag \in 0 .. TagMod - 1 /\ w.ptr \in Cell
  BY TagsOrdered DEF Word
<1>2. \A x \in Int : x % TagMod \in 0 .. TagMod - 1
  BY <1>1
<1>3. w.tag \in Int /\ w.tag + 1 \in Int /\ w.tag - 1 \in Int
  BY <1>1
<1>4. (w.tag + 1) % TagMod \in 0 .. TagMod - 1 /\ (w.tag - 1) % TagMod \in 0 .. TagMod - 1
  BY <1>2, <1>3
<1>5. /\ \A x \in 0 .. TagMod - 1 : (x + 1) % TagMod \in 0 .. TagMod - 1
      /\ \A x \in 0 .. TagMod - 1 : (x - 1) % TagMod \in 0 .. TagMod - 1
  <2>1. \A x \in 0 .. TagMod - 1 : x + 1 \in Int /\ x - 1 \in Int
    BY <1>1
  <2> QED
    BY <1>2, <2>1
<1>6. GetNextTag(w) \in 0 .. TagMod - 1
  BY <1>4, <1>5 DEF GetNextTag
<1>7. GetPrevTag(w) \in 0 .. TagMod - 1
  BY <1>4, <1>5 DEF GetPrevTag
<1> QED
  BY <1>1, <1>6, <1>7

(* What a thread knows about the queue outlives the steps of the others. *)
LEMMA QueueKnown ==
    ASSUME IsQueue(mHead, queue), mHead.ptr = queue[1], mHead.tag # TagMod - 1,
           ListStep(mHead, queue, mHead', queue'),
           \A n \in Elements(queue) : mValue'[n] = mValue[n],
           \A n \in Cell : mNext'[n] = mNext[n] \/ mNext'[n].ptr \in Node,
           NEW p, NEW l \in LocalVars, KnowsQueue(p, l)
    PROVE  KnowsQueue(p, l)'
<1>1. /\ IsQueue(mHead', queue') /\ Len(queue) \in Nat /\ Len(queue') \in Nat
      /\ \/ /\ mHead' = mHead /\ Len(queue') >= Len(queue)
            /\ \A i \in 1 .. Len(queue) : queue'[i] = queue[i]
         \/ mHead.tag < mHead'.tag
  BY StepTags
<1>2. mHead.tag \in Nat /\ mHead'.tag \in Nat
  BY <1>1 DEF IsQueue
<1>3. /\ l.head \in Word /\ l.tail \in Word /\ l.prev \in AnyWord /\ l.next \in Cell
      /\ l.head.tag \in Nat /\ l.tail.tag \in Nat /\ l.prev.tag \in Nat
      /\ l.tail.ptr \in Cell /\ GetPrevTag(l.tail) \in Nat
  BY TagsInRange, WildApart DEF LocalVars
<1>4. Link(l).tag \in Nat /\ Relink(l).tag \in Nat
  BY <1>3 DEF Link, Relink, MakePointer
<1>5. /\ TrueLink(Link(l), mHead, queue) => TrueLink(Link(l), mHead', queue')
      /\ TrueLink(Relink(l), mHead, queue) => TrueLink(Relink(l), mHead', queue')
      /\ GoodLink(l.head.ptr, l.prev, mHead, queue) => GoodLink(l.head.ptr, l.prev, mHead', queue')
  BY <1>3, <1>4, LinkKept
<1>6. Seen(l.head, mHead) => Seen(l.head, mHead') /\ (l.head = mHead' => mHead' = mHead)
  BY <1>1, <1>2, <1>3 DEF Seen
<1>7. mHead' = mHead => \A i \in 1 .. Len(queue) : /\ i \in 1 .. Len(queue') /\ queue'[i] = queue[i]
                                                   /\ At(i)' = At(i)
  <2>1. mHead' = mHead => ~(mHead.tag < mHead'.tag)
    BY <1>2
  <2> QED
    BY <1>1, <2>1 DEF At
<1>8. p = "pushLink" => TrueLink(Link(l), mHead', queue')
  BY <1>5 DEF KnowsQueue
<1>9. p \in Popping \ {"head"} =>
         l.head.ptr \in Node /\ Seen(l.head, mHead') /\ (l.head = mHead' => mHead' = mHead)
  BY <1>6 DEF KnowsQueue
<1>10. p \in {"prev", "again", "fix"} /\ l.head = mHead' => \E i \in 1 .. Len(queue') : l.tail = At(i)'
  <2> SUFFICES ASSUME p \in {"prev", "again", "fix"}, l.head = mHead'
               PROVE  \E i \in 1 .. Len(queue') : l.tail = At(i)'
    OBVIOUS
  <2>1. mHead' = mHead
    BY <1>9 DEF Popping
  <2>2. PICK i \in 1 .. Len(queue) : l.tail = At(i)
    BY <2>1 DEF KnowsQueue
  <2> QED
    BY <1>7, <2>1, <2>2
<1>11. p \in {"again", "value", "popCas"} => GoodLink(l.head.ptr, l.prev, mHead', queue')
  BY <1>5 DEF KnowsQueue
<1>12. p = "popCas" /\ l.head = mHead' => l.elem = mValue'[l.prev.ptr]
  <2> SUFFICES ASSUME p = "popCas", l.head = mHead'
               PROVE  l.elem = mValue'[l.prev.ptr]
    OBVIOUS
  <2>1. mHead' = mHead
    BY <1>9 DEF Popping
  <2>2. /\ l.elem = mValue[l.prev.ptr] /\ GoodLink(mHead.ptr, l.prev, mHead, queue) /\ l.prev.tag = mHead.tag
        /\ l.prev.ptr # Wild
    BY <2>1, WildApart DEF KnowsQueue
  <2>3. Len(queue) > 1 /\ l.prev.ptr = queue[2]
    BY <2>2, PrevTrue
  <2>4. l.prev.ptr \in Elements(queue)
    BY <1>1, <2>3 DEF Elements
  <2> QED
    BY <2>2, <2>4
<1>13. p \in {"fixNext", "fixPrev"} /\ l.head = mHead' =>
          \E i \in 2 .. Len(queue') : l.tail = At(i)' /\ (p = "fixPrev" => l.next = queue'[i - 1])
  <2> SUFFICES ASSUME p \in {"fixNext", "fixPrev"}, l.head = mHead'
               PROVE  \E i \in 2 .. Len(queue') : l.tail = At(i)' /\ (p = "fixPrev" => l.next = queue'[i - 1])
    OBVIOUS
  <2>1. mHead' = mHead
    BY <1>9 DEF Popping
  <2>2. PICK i \in 2 .. Len(queue) : l.tail = At(i) /\ (p = "fixPrev" => l.next = queue[i - 1])
    BY <2>1 DEF KnowsQueue
  <2>3. i \in 1 .. Len(queue) /\ i - 1 \in 1 .. Len(queue) /\ i \in 2 .. Len(queue')
    BY <1>1, <1>7, <2>1
  <2>4. At(i)' = At(i) /\ queue'[i - 1] = queue[i - 1]
    BY <1>7, <2>1, <2>3
  <2> QED
    BY <2>2, <2>3, <2>4
<1>14. p \in {"fixNext", "fixPrev"} => TrueLink(Relink(l), mHead', queue')
  BY <1>5 DEF KnowsQueue
<1>15. p = "fixNext" => mNext'[l.tail.ptr].ptr \in Node
  BY <1>3 DEF KnowsQueue
<1> QED
  BY <1>8, <1>9, <1>10, <1>11, <1>12, <1>13, <1>14, <1>15 DEF KnowsQueue

(* The head of the free list may be exchanged for one with a later tag. *)
FreeStep(m, n) == n = m \/ (n \in Word /\ n.tag # InvalidTag /\ FreeOrd(n.tag) > FreeOrd(m.tag))

(* A tag of the free list has its place in their order. *)
LEMMA FreeOrdered ==
    ASSUME NEW w \in Word
    PROVE  w.tag # InvalidTag => FreeOrd(w.tag) \in Nat
<1>1. w.tag \in Nat
  BY TagsInRange
<1>2. w.tag # InvalidTag => Ord(w.tag) \in Nat
  BY <1>1, TagsOrdered
<1> QED
  BY <1>2 DEF FreeOrd

(* What a thread knows about the free list, and about the node in its       *)
(* hands, outlives the steps of the others too.                             *)
LEMMA FreeKnown ==
    ASSUME Types, FreeLinked, mFreeNodeHead.tag # InvalidTag, FreeStep(mFreeNodeHead, mFreeNodeHead'),
           \A n \in Elements(free) : mNextFreeNode'[n] = mNextFreeNode[n],
           NEW p, NEW l \in LocalVars, KnowsFree(p, l)
    PROVE  KnowsFree(p, l)'
<1>1. mFreeNodeHead \in Word /\ l.head \in Word /\ free \in Seq(Node) /\ Len(free) \in Nat
  BY LenProperties DEF Types, TypeOK, LocalVars
<1>2. FreeOrd(mFreeNodeHead.tag) \in Nat /\ (l.head.tag # InvalidTag => FreeOrd(l.head.tag) \in Nat)
  BY <1>1, FreeOrdered
<1>3. mFreeNodeHead' = mFreeNodeHead \/
         (FreeOrd(mFreeNodeHead'.tag) \in Nat /\ FreeOrd(mFreeNodeHead'.tag) > FreeOrd(mFreeNodeHead.tag))
  BY FreeOrdered DEF FreeStep
<1>4. l.head.tag # InvalidTag /\ FreeSeen(l.head, mFreeNodeHead) =>
         FreeSeen(l.head, mFreeNodeHead') /\ (l.head = mFreeNodeHead' => mFreeNodeHead' = mFreeNodeHead)
  BY <1>2, <1>3 DEF FreeSeen
<1>5. mFreeNodeHead.ptr \in Node => mFreeNodeHead.ptr \in Elements(free)
  <2>1. Null \notin Node /\ (free # <<>> => Len(free) \in 1 .. Len(free))
    BY <1>1, EmptySeq DEF Null, Node
  <2> QED
    BY <2>1 DEF FreeLinked, Elements
<1> QED
  BY <1>4, <1>5 DEF KnowsFree

(* What a thread knows of the node in its hands stays true while nobody     *)
(* writes to it.                                                            *)
LEMMA NodeKnown ==
    ASSUME NEW p, NEW l, KnowsNode(p, l),
           p \in Owning => /\ mNext'[l.node] = mNext[l.node]
                           /\ mNextFreeNode'[l.node] = mNextFreeNode[l.node]
                           /\ mValue'[l.node] = mValue[l.node]
    PROVE  KnowsNode(p, l)'
  BY DEF KnowsNode, Owning, Pushing, Releasing

(* So what the others know outlives a step of t. *)
LEMMA OthersKnow ==
    ASSUME QueueInv, NEW u \in Thread, pc'[u] = pc[u], loc'[u] = loc[u],
           ListStep(mHead, queue, mHead', queue'), FreeStep(mFreeNodeHead, mFreeNodeHead'),
           \A n \in Elements(queue) : mValue'[n] = mValue[n],
           \A n \in Elements(free) : mNextFreeNode'[n] = mNextFreeNode[n],
           \A n \in Cell : mNext'[n] = mNext[n] \/ mNext'[n].ptr \in Node,
           u \in Owners => /\ mNext'[loc[u].node] = mNext[loc[u].node]
                           /\ mNextFreeNode'[loc[u].node] = mNextFreeNode[loc[u].node]
                           /\ mValue'[loc[u].node] = mValue[loc[u].node]
    PROVE  Delayed(u)'
<1>1. PICK p, l : p = pc[u] /\ l = loc[u]
  OBVIOUS
<1>2. Types /\ FreeLinked /\ QueueLinked /\ Counted /\ Delayed(u)
  BY DEF QueueInv
<1>3. l \in LocalVars /\ KnowsFree(p, l) /\ KnowsNode(p, l) /\ KnowsQueue(p, l)
  BY <1>1, <1>2 DEF Types, TypeOK, LocalVars, Delayed
<1>4. IsQueue(mHead, queue) /\ mHead.ptr = queue[1] /\ mHead.tag # TagMod - 1 /\ mFreeNodeHead.tag # InvalidTag
  <2>1. mHead \in Word
    BY <1>2 DEF Types, TypeOK
  <2> QED
    BY <1>2, <2>1, TagsInRange DEF Types, IsQueue, QueueLinked, Counted
<1>5. KnowsQueue(p, l)'
  BY <1>3, <1>4, QueueKnown
<1>6. KnowsFree(p, l)'
  BY <1>2, <1>3, <1>4, FreeKnown
<1>7. KnowsNode(p, l)'
  <2>1. p \in Owning => u \in Owners
    BY <1>1 DEF Owners, Owning, Pushing, Releasing
  <2> QED
    BY <1>1, <1>3, <2>1, NodeKnown
<1>8. p = pc'[u] /\ l = loc'[u]
  BY <1>1
<1>9. KnowsQueue(pc[u], loc[u])' /\ KnowsFree(pc[u], loc[u])' /\ KnowsNode(pc[u], loc[u])'
  BY <1>5, <1>6, <1>7, <1>8 
<1> QED
  BY <1>9 DEF Delayed

-----------------------------------------------------------------------------
(* The steps that leave both lists alone. *)
LEMMA PlacesStay ==
    ASSUME Types, Placed, NEW t \in Thread, NEW l, NEW r, Goto(t, l), loc' = Set(loc, t, r),
           UNCHANGED <<queue, free, allocated>>,
           pc[t] \in Owning <=> l \in Owning, pc[t] \in Owning => r.node = loc[t].node
    PROVE  Placed'
<1>1. TypeOK
  BY DEF Types
<1>2. Owners' = Owners /\ (t \in Owners <=> pc[t] \in Owning) /\ Owners \subseteq Thread
  BY <1>1, OwnersMoved
<1>3. loc'[t] = r /\ (\A u \in Thread \ {t} : loc'[u] = loc[u])
  BY <1>1 DEF TypeOK, Set
<1>4. \A u \in Owners : loc'[u].node = loc[u].node
  BY <1>2, <1>3
<1>5. {loc'[u].node : u \in Owners'} = {loc[u].node : u \in Owners}
  BY <1>2, <1>4
<1>6. /\ Elements(queue)' = Elements(queue) /\ Elements(free)' = Elements(free)
      /\ NoRepeats(queue)' = NoRepeats(queue) /\ NoRepeats(free)' = NoRepeats(free)
      /\ Cardinality(Owners)' = Cardinality(Owners) /\ Len(queue)' = Len(queue) /\ Len(free)' = Len(free)
  BY <1>2 DEF Elements, NoRepeats
<1>7. \A u \in Owners' : loc'[u].node \in (1 .. allocated) \ (Elements(queue) \cup Elements(free))
  BY <1>2, <1>4 DEF Placed
<1>8. \A u, v \in Owners' : loc'[u].node = loc'[v].node => u = v
  BY <1>2, <1>4 DEF Placed
<1> QED
  BY <1>5, <1>6, <1>7, <1>8 DEF Placed

(* How the counts change. *)
CountsKept(p, l) ==
    /\ l \in Acquiring => p \in Acquiring
    /\ l \in TailUsers => p \in TailUsers
    /\ l \in FreeUsers => p \in FreeUsers

(* The tags stay within the bound when a thread begins a call, or goes on   *)
(* without having made an exchange.                                         *)
LEMMA CountsStay ==
    ASSUME Types, Counted, NEW t \in Thread, NEW l, Goto(t, l), UNCHANGED <<heads, queue, free, allocated>>,
           Called' = Called + 1 \/ (Called' = Called /\ CountsKept(pc[t], l))
    PROVE  Counted'
<1>1. TypeOK /\ Called \in Nat /\ allocated \in Nat /\ Len(free) \in Nat /\ Len(queue) \in Nat
  BY CallsBounded, LenProperties DEF Types
<1>2. Ord(mHead.tag) \in Nat /\ FreeOrd(mFreeNodeHead.tag) \in Nat
  <2>1. mHead \in Word /\ mFreeNodeHead \in Word
    BY <1>1 DEF TypeOK
  <2>2. mHead.tag \in Nat \ {InvalidTag}
    BY <2>1, TagsInRange DEF Counted
  <2>3. Ord(mHead.tag) \in Nat
    BY <2>2, TagsOrdered
  <2> QED
    BY <2>1, <2>3, FreeOrdered DEF Counted
<1>3. /\ Uncounted(Acquiring) \in Nat /\ Uncounted(Acquiring)' \in Nat
      /\ Uncounted(Acquiring)' <= Uncounted(Acquiring) + 1
      /\ (l \in Acquiring => pc[t] \in Acquiring) => Uncounted(Acquiring)' <= Uncounted(Acquiring)
  BY <1>1, Moved DEF Acquiring
<1>4. /\ Uncounted(TailUsers) \in Nat /\ Uncounted(TailUsers)' \in Nat
      /\ Uncounted(TailUsers)' <= Uncounted(TailUsers) + 1
      /\ (l \in TailUsers => pc[t] \in TailUsers) => Uncounted(TailUsers)' <= Uncounted(TailUsers)
  BY <1>1, Moved DEF TailUsers, Acquiring, Pushing
<1>5. /\ Uncounted(FreeUsers) \in Nat /\ Uncounted(FreeUsers)' \in Nat
      /\ Uncounted(FreeUsers)' <= Uncounted(FreeUsers) + 1
      /\ (l \in FreeUsers => pc[t] \in FreeUsers) => Uncounted(FreeUsers)' <= Uncounted(FreeUsers)
  BY <1>1, Moved DEF FreeUsers, Acquiring, Popping, Releasing
<1>7. allocated + Uncounted(Acquiring)' <= Called' + 1 + Len(free)
  <2> DEFINE n == Uncounted(Acquiring)
             m == Uncounted(Acquiring)'
             c == Called
             d == Called'
  <2>1. n \in Nat /\ m \in Nat /\ c \in Nat /\ allocated + n <= c + 1 + Len(free)
    BY <1>1, <1>3 DEF Counted
  <2>2. (d = c + 1 /\ m <= n + 1) \/ (d = c /\ m <= n)
    BY <1>1, <1>3 DEF CountsKept
  <2> HIDE DEF n, m, c, d
  <2>3. allocated + m <= d + 1 + Len(free)
    BY <1>1, <1>2, <2>1, <2>2
  <2> QED
    BY <2>3 DEF m, d
<1>8. Ord(mHead.tag) + Len(queue) - 1 + Uncounted(TailUsers)' <= Called' + 1
  <2> DEFINE n == Uncounted(TailUsers)
             m == Uncounted(TailUsers)'
             c == Called
             d == Called'
  <2>1. n \in Nat /\ m \in Nat /\ c \in Nat /\ Ord(mHead.tag) + Len(queue) - 1 + n <= c + 1
    BY <1>1, <1>4 DEF Counted
  <2>2. (d = c + 1 /\ m <= n + 1) \/ (d = c /\ m <= n)
    BY <1>1, <1>4 DEF CountsKept
  <2> HIDE DEF n, m, c, d
  <2>3. Ord(mHead.tag) + Len(queue) - 1 + m <= d + 1
    BY <1>1, <1>2, <2>1, <2>2
  <2> QED
    BY <2>3 DEF m, d
<1>9. FreeOrd(mFreeNodeHead.tag) + Uncounted(FreeUsers)' <= Called' + 1
  <2> DEFINE n == Uncounted(FreeUsers)
             m == Uncounted(FreeUsers)'
             c == Called
             d == Called'
  <2>1. n \in Nat /\ m \in Nat /\ c \in Nat /\ FreeOrd(mFreeNodeHead.tag) + n <= c + 1
    BY <1>1, <1>5 DEF Counted
  <2>2. (d = c + 1 /\ m <= n + 1) \/ (d = c /\ m <= n)
    BY <1>1, <1>5 DEF CountsKept
  <2> HIDE DEF n, m, c, d
  <2>3. FreeOrd(mFreeNodeHead.tag) + m <= d + 1
    BY <1>1, <1>2, <2>1, <2>2
  <2> QED
    BY <2>3 DEF m, d
<1>10. UNCHANGED <<mHead, mTail, mFreeNodeHead>> /\ Len(queue)' = Len(queue) /\ Len(free)' = Len(free)
  BY DEF heads
<1> QED
  BY <1>7, <1>8, <1>9, <1>10 DEF Counted

PushUncounted == {"pushLink", "pushSize"}
PopUncounted == {"release", "releaseCas", "popSize"}
(* mSize still accounts for the queue when nobody has to count more, or     *)
(* less.                                                                    *)
LEMMA SizeStays ==
    ASSUME TypeOK, SizeAccounted, NEW t \in Thread, NEW l, Goto(t, l), UNCHANGED <<queue, mSize>>,
           l \in PushUncounted <=> pc[t] \in PushUncounted,
           l \in PopUncounted <=> pc[t] \in PopUncounted
    PROVE  SizeAccounted'
<1>1. Uncounted(PushUncounted)' = Uncounted(PushUncounted)
  BY Moved DEF PushUncounted
<1>2. Uncounted(PopUncounted)' = Uncounted(PopUncounted)
  BY Moved DEF PopUncounted
<1> QED
  BY <1>1, <1>2 DEF SizeAccounted, PushUncounted, PopUncounted

(* The node in hand is the only one whose links and value t may write, and  *)
(* what it writes to any mPrev is true.                                     *)
WritesInHand(t) ==
    \A n \in Cell : t \notin Owners \/ n # loc[t].node =>
        mNext'[n] = mNext[n] /\ mNextFreeNode'[n] = mNextFreeNode[n] /\ mValue'[n] = mValue[n]
WritesNodes == \A n \in Cell : mNext'[n] = mNext[n] \/ mNext'[n].ptr \in Node
WritesTruth == \A n \in Cell : mPrev'[n] = mPrev[n] \/ TrueLink(mPrev'[n], mHead, queue)

(* A step that moves neither heads nor nodes keeps the invariant, if what   *)
(* it writes and what its thread knows then is true.                        *)
LEMMA QuietStep ==
    ASSUME QueueInv, NEW t \in Thread, NEW l, NEW r, Goto(t, l), loc' = Set(loc, t, r), Types',
           UNCHANGED <<heads, queue, free, allocated, deleted>>, deleted = {},
           pc[t] \in Owning <=> l \in Owning, pc[t] \in Owning => r.node = loc[t].node,
           Called' = Called + 1 \/ (Called' = Called /\ CountsKept(pc[t], l)),
           SizeAccounted', WritesInHand(t), WritesNodes, WritesTruth,
           KnowsFree(l, r)' /\ KnowsNode(l, r)' /\ KnowsQueue(l, r)'
    PROVE  QueueInv'
<1>1. Types /\ TypeOK /\ Placed /\ QueueLinked /\ FreeLinked /\ Counted /\ PrevGood
  BY DEF QueueInv, Types
<1>2. Placed'
  BY <1>1, PlacesStay
<1>3. Counted'
  BY <1>1, CountsStay
<1>4. /\ \A n \in Elements(queue) \cup Elements(free) : n \in Cell
      /\ \A u \in Owners : loc[u].node \in Cell /\ loc[u].node \notin Elements(queue) \cup Elements(free)
      /\ \A u, v \in Owners : loc[u].node = loc[v].node => u = v
  <2>1. allocated \in 1 .. AllCalls + 1 /\ AllCalls \in Nat
    BY <1>1, CallsBounded DEF Types
  <2>2. 1 .. allocated \subseteq Cell
    BY <2>1 DEF Cell, Node
  <2> QED
    BY <1>1, <2>2 DEF Placed
<1>5. \A n \in Elements(queue) \cup Elements(free) :
          mNext'[n] = mNext[n] /\ mNextFreeNode'[n] = mNextFreeNode[n] /\ mValue'[n] = mValue[n]
  BY <1>4 DEF WritesInHand
<1>6. UNCHANGED <<mHead, mTail, mFreeNodeHead>>
  BY DEF heads
<1>7. Len(queue) \in Nat \ {0} /\ Len(free) \in Nat
  BY <1>1, LenProperties DEF Types
<1>8. QueueLinked'
  <2>1. \A i \in 2 .. Len(queue) : queue[i] \in Elements(queue)
    BY <1>7 DEF Elements
  <2>2. \A i \in 2 .. Len(queue) : mNext'[queue[i]].ptr = queue[i - 1]
    BY <1>1, <1>5, <2>1 DEF QueueLinked
  <2> QED
    BY <1>1, <1>6, <2>2 DEF QueueLinked
<1>9. FreeLinked'
  <2>1. \A i \in 1 .. Len(free) : free[i] \in Elements(free)
    BY DEF Elements
  <2>2. \A i \in 2 .. Len(free) : mNextFreeNode'[free[i]] = free[i - 1]
    BY <1>1, <1>5, <1>7, <2>1 DEF FreeLinked
  <2>3. free # <<>> => 1 \in 1 .. Len(free)
    BY <1>1, <1>7, EmptySeq DEF Types
  <2>4. free # <<>> => mNextFreeNode'[free[1]] = Null
    BY <1>1, <1>5, <2>1, <2>3 DEF FreeLinked
  <2> QED
    BY <1>1, <1>6, <2>2, <2>4 DEF FreeLinked
<1>10. PrevGood'
  BY <1>1, <1>6 DEF PrevGood, WritesTruth, GoodLink
<1>11. ASSUME NEW u \in Thread PROVE Delayed(u)'
  <2>1. CASE u = t
    <3>1. l = pc'[u] /\ r = loc'[u]
      BY <1>1, <2>1 DEF Goto, Set, TypeOK
    <3>2. KnowsFree(pc[u], loc[u])' /\ KnowsNode(pc[u], loc[u])' /\ KnowsQueue(pc[u], loc[u])'
      BY <3>1
    <3> QED
      BY <3>2 DEF Delayed
  <2>2. CASE u # t
    <3>1. pc'[u] = pc[u] /\ loc'[u] = loc[u]
      BY <1>1, <2>2 DEF Goto, Set, TypeOK
    <3>2. u \in Owners => /\ mNext'[loc[u].node] = mNext[loc[u].node]
                          /\ mNextFreeNode'[loc[u].node] = mNextFreeNode[loc[u].node]
                          /\ mValue'[loc[u].node] = mValue[loc[u].node]
      BY <1>4, <2>2 DEF WritesInHand
    <3>3. ListStep(mHead, queue, mHead', queue') /\ FreeStep(mFreeNodeHead, mFreeNodeHead')
      BY <1>6 DEF ListStep, FreeStep
    <3> QED
      BY <1>5, <3>1, <3>2, <3>3, OthersKnow DEF WritesNodes
  <2> QED
    BY <2>1, <2>2
<1>12. Ended'
  BY DEF Ended
<1> QED
  BY <1>2, <1>3, <1>8, <1>9, <1>10, <1>11, <1>12 DEF QueueInv

(* A step that changes nothing but the place of t, its local variables and  *)
(* what it reports.                                                         *)
LEMMA LocalStep ==
    ASSUME QueueInv, NEW t \in Thread, NEW l \in Places, NEW r \in LocalVars,
           Goto(t, l), loc' = Set(loc, t, r), pc[t] # "idle",
           UNCHANGED <<heads, mSize, nodes, allocated, deleted, calls, queue, free>>,
           result' = result \/ \E v \in Value \cup {T0, None} : result' = Set(result, t, v),
           pc[t] \in Owning <=> l \in Owning, pc[t] \in Owning => r.node = loc[t].node,
           CountsKept(pc[t], l),
           l \in PushUncounted <=> pc[t] \in PushUncounted,
           l \in PopUncounted <=> pc[t] \in PopUncounted,
           KnowsFree(l, r) /\ KnowsNode(l, r) /\ KnowsQueue(l, r)
    PROVE  QueueInv'
<1>1. Types /\ TypeOK /\ QueueLinked /\ FreeLinked /\ Counted /\ SizeAccounted /\ Ended
  BY DEF QueueInv, Types
<1>2. UNCHANGED <<mHead, mTail, mFreeNodeHead, mPrev, mNext, mNextFreeNode, mValue>>
  BY DEF heads, nodes
<1>3. Types'
  <2>1. pc' \in [Thread -> Places] /\ loc' \in [Thread -> LocalVars]
    <3>1. pc \in [Thread -> Places] /\ loc \in [Thread -> LocalVars]
      BY <1>1 DEF TypeOK, LocalVars, Places, Acquiring, Owning, Pushing, Popping, Releasing
    <3> HIDE DEF Places, LocalVars
    <3> QED
      BY <3>1 DEF Goto, Set
  <2>2. TypeOK'
    BY <1>1, <1>2, <2>1 DEF TypeOK, LocalVars, Places, Acquiring, Owning, Pushing, Popping, Releasing
  <2>3. result' \in [Thread -> Value \cup {T0, None}]
    BY <1>1 DEF Types, Set
  <2> QED
    BY <1>1, <2>2, <2>3 DEF Types
<1>4. SizeAccounted'
  BY <1>1, SizeStays
<1>5. deleted = {}
  BY <1>1 DEF Ended
<1>6. Called' = Called
  BY DEF Called
<1>7. WritesInHand(t) /\ WritesNodes /\ WritesTruth
  BY <1>2 DEF WritesInHand, WritesNodes, WritesTruth
<1>8. KnowsFree(l, r)' /\ KnowsNode(l, r)' /\ KnowsQueue(l, r)'
  <2>1. IsQueue(mHead, queue) /\ mHead.ptr = queue[1] /\ mHead.tag # TagMod - 1 /\ mFreeNodeHead.tag # InvalidTag
    <3>1. mHead \in Word
      BY <1>1 DEF TypeOK
    <3> QED
      BY <1>1, <3>1, TagsInRange DEF Types, IsQueue, QueueLinked, Counted
  <2>2. ListStep(mHead, queue, mHead', queue') /\ FreeStep(mFreeNodeHead, mFreeNodeHead')
    BY <1>2 DEF ListStep, FreeStep
  <2>3. KnowsQueue(l, r)'
    BY <1>2, <2>1, <2>2, QueueKnown
  <2>4. KnowsFree(l, r)'
    BY <1>1, <1>2, <2>1, <2>2, FreeKnown
  <2>5. KnowsNode(l, r)'
    BY <1>2, NodeKnown
  <2> QED
    BY <2>3, <2>4, <2>5
<1> QED
  BY <1>3, <1>4, <1>5, <1>6, <1>7, <1>8, QuietStep

(* The moves of such a step. *)
LocalMoves ==
    {<<"acquire", "acquireNext">>, <<"acquireNext", "acquireCas">>, <<"acquireCas", "acquire">>,
     <<"pushCas", "push">>, <<"releaseCas", "release">>, <<"popCas", "head">>,
     <<"head", "tail">>, <<"tail", "prev">>, <<"prev", "again">>, <<"value", "popCas">>,
     <<"again", "head">>, <<"again", "idle">>, <<"again", "fix">>, <<"again", "value">>,
     <<"again", "wild">>,
     <<"fix", "fixNext">>, <<"fix", "head">>, <<"fixNext", "fixPrev">>}
(* The steps within a call that concern nobody else. *)
LEMMA LocalMove ==
    ASSUME NEW p, NEW l, <<p, l>> \in LocalMoves
    PROVE  /\ l \in Places /\ p # "idle" /\ (p \in Owning <=> l \in Owning) /\ CountsKept(p, l)
           /\ (l \in PushUncounted <=> p \in PushUncounted) /\ (l \in PopUncounted <=> p \in PopUncounted)
<1>1. l \in Places /\ p # "idle" /\ (p \in Owning <=> l \in Owning)
  BY DEF LocalMoves, Places, Acquiring, Owning, Pushing, Popping, Releasing
<1>2. CountsKept(p, l)
  BY DEF LocalMoves, CountsKept, TailUsers, FreeUsers, Acquiring, Pushing, Popping, Releasing
<1>3. (l \in PushUncounted <=> p \in PushUncounted) /\ (l \in PopUncounted <=> p \in PopUncounted)
  BY DEF LocalMoves, PushUncounted, PopUncounted
<1> QED
  BY <1>1, <1>2, <1>3

(* What the invariant says about the queue, for use in every step. *)
LEMMA QueueFacts ==
    ASSUME QueueInv
    PROVE  /\ IsQueue(mHead, queue) /\ Len(queue) \in Nat \ {0} /\ queue \in Seq(Node)
           /\ mHead \in Word /\ mTail \in Word /\ mFreeNodeHead \in Word
           /\ mHead.tag \in Nat \ {InvalidTag} /\ mHead.tag # TagMod - 1
           /\ mHead.ptr = queue[1] /\ (\A i \in 1 .. Len(queue) : queue[i] \in Node)
           /\ mHead = At(1) /\ mTail = At(Len(queue))
           /\ loc \in [Thread -> LocalVars] /\ pc \in [Thread -> Places] /\ Locals \in LocalVars
           /\ \A w \in Word : w.tag \in Nat /\ w.ptr \in Cell
<1>1. Types /\ TypeOK /\ QueueLinked /\ Counted
  BY DEF QueueInv, Types
<1>2. queue \in Seq(Node) /\ Len(queue) \in Nat \ {0} /\ mHead \in Word /\ mTail \in Word /\ mFreeNodeHead \in Word
  BY <1>1, LenProperties DEF Types, TypeOK
<1>3. mHead.tag \in Nat \ {InvalidTag} /\ mHead.tag # TagMod - 1
  BY <1>1, <1>2, TagsInRange DEF Counted
<1>4. mHead.ptr = queue[1] /\ (\A i \in 1 .. Len(queue) : queue[i] \in Node)
  BY <1>1, <1>2, ElementOfSeq DEF QueueLinked
<1>5. mHead = At(1)
  <2>1. TagAt(mHead, 1) = mHead.tag
    BY <1>3, TagAtStep
  <2>2. mHead = [ptr |-> mHead.ptr, tag |-> mHead.tag]
    BY <1>2 DEF Word
  <2> QED
    BY <1>4, <2>1, <2>2 DEF At, MakePointer
<1>6. mTail = At(Len(queue))
  <2>1. mTail = [ptr |-> mTail.ptr, tag |-> mTail.tag]
    BY <1>2 DEF Word
  <2> QED
    BY <1>1, <2>1 DEF At, MakePointer, QueueLinked, Counted
<1>7. loc \in [Thread -> LocalVars] /\ pc \in [Thread -> Places]
  BY <1>1 DEF TypeOK, LocalVars, Places, Acquiring, Owning, Pushing, Popping, Releasing
<1>8. Locals \in LocalVars
  <2>1. kNullPointer \in Word /\ kNullPointer \in AnyWord
    BY TagsOrdered DEF kNullPointer, MakePointer, Word, AnyWord, Cell
  <2> QED
    BY <2>1 DEF Locals, LocalVars, Cell
<1> QED
  BY <1>2, <1>3, <1>4, <1>5, <1>6, <1>7, <1>8, TagsInRange DEF IsQueue

(* AcquireNode reads the head of the free list, and then its link. *)
LEMMA AcquireReadInv ==
    ASSUME QueueInv, NEW t \in Thread, AcquireLoad(t), mFreeNodeHead.ptr # Null
    PROVE  QueueInv'
<1>1. loc[t] \in LocalVars /\ mFreeNodeHead \in Word /\ mFreeNodeHead.ptr \in Node
  BY QueueFacts DEF Cell
<1>2. PICK r : r = [loc[t] EXCEPT !.head = mFreeNodeHead]
  OBVIOUS
<1>3. r \in LocalVars /\ r.head = mFreeNodeHead /\ r.elem = loc[t].elem
  BY <1>1, <1>2 DEF LocalVars
<1>4. /\ pc[t] = "acquire" /\ Goto(t, "acquireNext") /\ loc' = Set(loc, t, r)
      /\ UNCHANGED <<heads, mSize, nodes, allocated, deleted, calls, queue, free, result>>
  BY <1>2 DEF AcquireLoad, Set, nodes
<1>5. KnowsNode("acquireNext", r)
  BY <1>3, <1>4 DEF QueueInv, Delayed, KnowsNode, Acquiring, Pushing
<1>6. KnowsFree("acquireNext", r)
  BY <1>1, <1>3, FreeOrdered DEF QueueInv, Counted, KnowsFree, FreeSeen
<1>7. KnowsQueue("acquireNext", r)
  BY DEF KnowsQueue, Popping
<1>8. <<pc[t], "acquireNext">> \in LocalMoves
  BY <1>4 DEF LocalMoves
<1>9. pc[t] \notin Owning
  BY <1>4 DEF Owning, Pushing, Releasing
<1> QED
  BY <1>3, <1>4, <1>5, <1>6, <1>7, <1>8, <1>9, LocalMove, LocalStep

(* AcquireNode reads the link of the first free node. *)
LEMMA AcquireNextInv ==
    ASSUME QueueInv, NEW t \in Thread, AcquireNext(t)
    PROVE  QueueInv'
<1>1. /\ loc[t] \in LocalVars /\ mNextFreeNode \in [Cell -> Cell] /\ pc[t] = "acquireNext"
      /\ KnowsFree("acquireNext", loc[t]) /\ KnowsNode("acquireNext", loc[t])
  BY QueueFacts DEF AcquireNext, QueueInv, Delayed, Types, TypeOK
<1>2. PICK r : r = [loc[t] EXCEPT !.next = mNextFreeNode[loc[t].head.ptr]]
  OBVIOUS
<1>3. /\ r \in LocalVars /\ r.head = loc[t].head /\ r.elem = loc[t].elem
      /\ r.next = mNextFreeNode[loc[t].head.ptr]
  <2>1. loc[t].head.ptr \in Cell
    BY <1>1 DEF KnowsFree, Cell
  <2>2. mNextFreeNode[loc[t].head.ptr] \in Cell
    BY <1>1, <2>1
  <2> QED
    BY <1>1, <1>2, <2>2 DEF LocalVars
<1>4. /\ Goto(t, "acquireCas") /\ loc' = Set(loc, t, r)
      /\ UNCHANGED <<heads, mSize, nodes, allocated, deleted, calls, queue, free, result>>
  BY <1>2 DEF AcquireNext, Set
<1>5. KnowsNode("acquireCas", r)
  BY <1>1, <1>3 DEF KnowsNode, Acquiring, Pushing
<1>6. KnowsFree("acquireCas", r)
  BY <1>1, <1>3 DEF KnowsFree
<1>7. KnowsQueue("acquireCas", r)
  BY DEF KnowsQueue, Popping
<1>8. <<pc[t], "acquireCas">> \in LocalMoves
  BY <1>1 DEF LocalMoves
<1>9. pc[t] \notin Owning
  BY <1>1 DEF Owning, Pushing, Releasing
<1> QED
  BY <1>3, <1>4, <1>5, <1>6, <1>7, <1>8, <1>9, LocalMove, LocalStep

(* An exchange that fails: the loop starts again. *)
LEMMA FailedCas ==
    ASSUME QueueInv, NEW t \in Thread, NEW l, Goto(t, l),
           <<pc[t], l>> \in {<<"acquireCas", "acquire">>, <<"pushCas", "push">>, <<"popCas", "head">>,
                             <<"releaseCas", "release">>, <<"fix", "head">>, <<"again", "head">>},
           UNCHANGED <<heads, mSize, nodes, allocated, deleted, calls, loc, result, queue, free>>
    PROVE  QueueInv'
<1>1. PICK r : r = loc[t]
  OBVIOUS
<1>2. r \in LocalVars /\ loc' = Set(loc, t, r) /\ r.node = loc[t].node
  BY <1>1, QueueFacts DEF Set
<1>3. KnowsNode(l, r)
  BY <1>1 DEF QueueInv, Delayed, KnowsNode, Acquiring, Pushing
<1>4. KnowsFree(l, r)
  BY DEF KnowsFree
<1>5. KnowsQueue(l, r)
  BY DEF KnowsQueue, Popping
<1>6. <<pc[t], l>> \in LocalMoves
  BY DEF LocalMoves
<1> QED
  BY <1>2, <1>3, <1>4, <1>5, <1>6, LocalMove, LocalStep

(* Pop reads the head, the tail and the mPrev of the head. *)
LEMMA PopHeadInv ==
    ASSUME QueueInv, NEW t \in Thread, PopHead(t)
    PROVE  QueueInv'
<1>1. Locals \in LocalVars /\ mHead \in Word /\ mHead.ptr \in Node /\ pc[t] = "head" /\ mHead.tag \in Nat
  BY QueueFacts DEF PopHead
<1>2. PICK r : r = [Locals EXCEPT !.head = mHead]
  OBVIOUS
<1>3. r \in LocalVars /\ r.head = mHead
  BY <1>1, <1>2 DEF LocalVars
<1>4. /\ Goto(t, "tail") /\ loc' = Set(loc, t, r)
      /\ UNCHANGED <<heads, mSize, nodes, allocated, deleted, calls, queue, free, result>>
  BY <1>2 DEF PopHead, Set
<1>5. KnowsNode("tail", r) /\ KnowsFree("tail", r)
  BY DEF KnowsNode, KnowsFree, Acquiring, Pushing
<1>6. KnowsQueue("tail", r)
  BY <1>1, <1>3 DEF KnowsQueue, Seen
<1>7. <<pc[t], "tail">> \in LocalMoves
  BY <1>1 DEF LocalMoves
<1>8. pc[t] \notin Owning
  BY <1>1 DEF Owning, Pushing, Releasing
<1> QED
  BY <1>3, <1>4, <1>5, <1>6, <1>7, <1>8, LocalMove, LocalStep

(* Pop reads the tail. *)
LEMMA PopTailInv ==
    ASSUME QueueInv, NEW t \in Thread, PopTail(t)
    PROVE  QueueInv'
<1>1. /\ loc[t] \in LocalVars /\ mTail \in Word /\ pc[t] = "tail" /\ KnowsQueue("tail", loc[t])
      /\ mTail = At(Len(queue)) /\ Len(queue) \in Nat \ {0}
  BY QueueFacts DEF PopTail, QueueInv, Delayed
<1>2. PICK r : r = [loc[t] EXCEPT !.tail = mTail]
  OBVIOUS
<1>3. r \in LocalVars /\ r.head = loc[t].head /\ r.tail = mTail
  BY <1>1, <1>2 DEF LocalVars
<1>4. /\ Goto(t, "prev") /\ loc' = Set(loc, t, r)
      /\ UNCHANGED <<heads, mSize, nodes, allocated, deleted, calls, queue, free, result>>
  BY <1>2 DEF PopTail, Set
<1>5. KnowsNode("prev", r) /\ KnowsFree("prev", r)
  BY DEF KnowsNode, KnowsFree, Acquiring, Pushing
<1>6. KnowsQueue("prev", r)
  <2>1. r.head.ptr \in Node /\ Seen(r.head, mHead)
    BY <1>1, <1>3 DEF KnowsQueue, Popping
  <2>2. Len(queue) \in 1 .. Len(queue)
    BY <1>1
  <2>3. \E i \in 1 .. Len(queue) : r.tail = At(i)
    BY <1>1, <1>3, <2>2
  <2> QED
    BY <2>1, <2>3 DEF KnowsQueue
<1>7. <<pc[t], "prev">> \in LocalMoves
  BY <1>1 DEF LocalMoves
<1>8. pc[t] \notin Owning
  BY <1>1 DEF Owning, Pushing, Releasing
<1> QED
  BY <1>3, <1>4, <1>5, <1>6, <1>7, <1>8, LocalMove, LocalStep

(* Pop reads the backward link of the head. *)
LEMMA PopPrevInv ==
    ASSUME QueueInv, NEW t \in Thread, PopPrev(t)
    PROVE  QueueInv'
<1>1. /\ loc[t] \in LocalVars /\ pc[t] = "prev" /\ KnowsQueue("prev", loc[t])
      /\ mPrev \in [Cell -> AnyWord] /\ PrevGood
  BY QueueFacts DEF PopPrev, QueueInv, Delayed, Types, TypeOK
<1>2. PICK r : r = [loc[t] EXCEPT !.prev = mPrev[loc[t].head.ptr]]
  OBVIOUS
<1>3. loc[t].head.ptr \in Cell /\ loc[t].head.ptr \in Node /\ Seen(loc[t].head, mHead)
  BY <1>1 DEF KnowsQueue, Popping, Cell
<1>4. /\ r \in LocalVars /\ r.head = loc[t].head /\ r.tail = loc[t].tail
      /\ r.prev = mPrev[loc[t].head.ptr]
  <2>1. mPrev[loc[t].head.ptr] \in AnyWord
    BY <1>1, <1>3
  <2> QED
    BY <1>1, <1>2, <2>1 DEF LocalVars
<1>5. /\ Goto(t, "again") /\ loc' = Set(loc, t, r)
      /\ UNCHANGED <<heads, mSize, nodes, allocated, deleted, calls, queue, free, result>>
  BY <1>2 DEF PopPrev, Set
<1>6. KnowsNode("again", r) /\ KnowsFree("again", r)
  BY DEF KnowsNode, KnowsFree, Acquiring, Pushing
<1>7. KnowsQueue("again", r)
  <2>1. GoodLink(r.head.ptr, r.prev, mHead, queue)
    BY <1>1, <1>3, <1>4 DEF PrevGood
  <2>2. r.head = mHead => \E i \in 1 .. Len(queue) : r.tail = At(i)
    BY <1>1, <1>4 DEF KnowsQueue
  <2> QED
    BY <1>3, <1>4, <2>1, <2>2 DEF KnowsQueue
<1>8. <<pc[t], "again">> \in LocalMoves
  BY <1>1 DEF LocalMoves
<1>9. pc[t] \notin Owning
  BY <1>1 DEF Owning, Pushing, Releasing
<1> QED
  BY <1>4, <1>5, <1>6, <1>7, <1>8, <1>9, LocalMove, LocalStep

(* The head is still the one read: an mPrev with its tag is its successor.  *)
LEMMA PopAgainInv ==
    ASSUME QueueInv, NEW t \in Thread, PopAgain(t)
    PROVE  QueueInv'
<1>1. /\ loc[t] \in LocalVars /\ Locals \in LocalVars /\ pc[t] = "again" /\ KnowsQueue("again", loc[t])
      /\ UNCHANGED <<heads, mSize, nodes, allocated, deleted, calls, queue, free>>
  BY QueueFacts DEF PopAgain, QueueInv, Delayed
<1>2. pc[t] \notin Owning /\ (\A l \in {"head", "idle", "fix", "value", "wild"} : <<pc[t], l>> \in LocalMoves)
  BY <1>1 DEF LocalMoves, Owning, Pushing, Releasing
<1>3. \A l \in {"head", "idle", "fix", "value", "wild"} : \A r : KnowsNode(l, r) /\ KnowsFree(l, r)
  BY DEF KnowsNode, KnowsFree, Acquiring, Pushing
<1>4. CASE Goto(t, "head") /\ UNCHANGED <<loc, result>>
  BY <1>1, <1>4, FailedCas
<1>5. CASE Return(t) /\ result' = Set(result, t, None)
  <2>1. Goto(t, "idle") /\ loc' = Set(loc, t, Locals)
    BY <1>5 DEF Return
  <2>2. PICK r : r = Locals
    OBVIOUS
  <2>3. KnowsQueue("idle", r)
    BY DEF KnowsQueue, Popping
  <2>4. \E v \in Value \cup {T0, None} : result' = Set(result, t, v)
    BY <1>5
  <2>5. KnowsNode("idle", r) /\ KnowsFree("idle", r) /\ <<pc[t], "idle">> \in LocalMoves
    BY <1>2, <1>3
  <2> QED
    BY <1>1, <1>2, <2>1, <2>2, <2>3, <2>4, <2>5, LocalMove, LocalStep
<1>6. CASE Goto(t, "fix") /\ UNCHANGED <<loc, result>>
  <2>1. PICK r : r = loc[t]
    OBVIOUS
  <2>2. loc' = Set(loc, t, r)
    BY <1>6, <2>1, QueueFacts DEF Set
  <2>3. KnowsQueue("fix", r)
    BY <1>1, <2>1 DEF KnowsQueue, Popping
  <2>4. KnowsNode("fix", r) /\ KnowsFree("fix", r) /\ <<pc[t], "fix">> \in LocalMoves
    BY <1>2, <1>3
  <2> QED
    BY <1>1, <1>2, <1>6, <2>1, <2>2, <2>3, <2>4, LocalMove, LocalStep
<1>7. CASE /\ loc[t].head = mHead /\ loc[t].prev.tag = loc[t].head.tag /\ loc[t].prev.ptr # Wild
           /\ Goto(t, "value") /\ UNCHANGED <<loc, result>>
  <2>1. PICK r : r = loc[t]
    OBVIOUS
  <2>2. loc' = Set(loc, t, r)
    BY <1>7, <2>1, QueueFacts DEF Set
  <2>3. /\ GoodLink(r.head.ptr, r.prev, mHead, queue) /\ r.prev.tag = mHead.tag /\ r.head = mHead
        /\ r.head.ptr \in Node /\ Seen(r.head, mHead) /\ r.prev.ptr # Wild
    BY <1>1, <1>7, <2>1 DEF KnowsQueue, Popping
  <2>4. Len(queue) > 1 /\ r.prev.ptr = queue[2]
    BY <2>3, PrevTrue, QueueFacts
  <2>5. 2 \in 1 .. Len(queue)
    BY <2>4, QueueFacts
  <2>6. r.prev.ptr \in Node
    BY <2>4, <2>5, QueueFacts
  <2>7. KnowsQueue("value", r)
    BY <2>3, <2>6 DEF KnowsQueue
  <2>8. KnowsNode("value", r) /\ KnowsFree("value", r) /\ <<pc[t], "value">> \in LocalMoves
    BY <1>2, <1>3
  <2> QED
    BY <1>1, <1>2, <1>7, <2>1, <2>2, <2>7, <2>8, LocalMove, LocalStep
<1>8. CASE /\ loc[t].head = mHead /\ loc[t].prev.tag = loc[t].head.tag /\ loc[t].prev.ptr = Wild
           /\ Goto(t, "wild") /\ UNCHANGED <<loc, result>>
  <2>1. PICK r : r = loc[t]
    OBVIOUS
  <2>2. loc' = Set(loc, t, r)
    BY <1>8, <2>1, QueueFacts DEF Set
  <2>3. GoodLink(mHead.ptr, r.prev, mHead, queue) /\ r.prev.tag = mHead.tag /\ r.prev.ptr = Wild
    BY <1>1, <1>8, <2>1 DEF KnowsQueue
  <2>4. r.prev.tag # 0
    BY <2>3, WildHead, QueueFacts
  <2>5. KnowsQueue("wild", r)
    BY <2>4 DEF KnowsQueue, Popping
  <2>6. KnowsNode("wild", r) /\ KnowsFree("wild", r) /\ <<pc[t], "wild">> \in LocalMoves
    BY <1>2, <1>3
  <2> QED
    BY <1>1, <1>2, <1>8, <2>1, <2>2, <2>5, <2>6, LocalMove, LocalStep
<1> QED
  BY <1>4, <1>5, <1>6, <1>7, <1>8 DEF PopAgain

(* Pop reads the value. *)
LEMMA PopValueInv ==
    ASSUME QueueInv, NEW t \in Thread, PopValue(t)
    PROVE  QueueInv'
<1>1. /\ loc[t] \in LocalVars /\ pc[t] = "value" /\ KnowsQueue("value", loc[t])
      /\ mValue \in [Cell -> Value \cup {T0}]
  BY QueueFacts DEF PopValue, QueueInv, Delayed, Types, TypeOK
<1>2. PICK r : r = [loc[t] EXCEPT !.elem = mValue[loc[t].prev.ptr]]
  OBVIOUS
<1>3. /\ r \in LocalVars /\ r.head = loc[t].head /\ r.prev = loc[t].prev
      /\ r.elem = mValue[loc[t].prev.ptr]
  <2>1. loc[t].prev.ptr \in Cell
    BY <1>1 DEF KnowsQueue, Cell
  <2>2. mValue[loc[t].prev.ptr] \in Value \cup {T0}
    BY <1>1, <2>1
  <2> QED
    BY <1>1, <1>2, <2>2 DEF LocalVars
<1>4. /\ Goto(t, "popCas") /\ loc' = Set(loc, t, r)
      /\ UNCHANGED <<heads, mSize, nodes, allocated, deleted, calls, queue, free, result>>
  BY <1>2 DEF PopValue, Set
<1>5. KnowsNode("popCas", r) /\ KnowsFree("popCas", r)
  BY DEF KnowsNode, KnowsFree, Acquiring, Pushing
<1>6. KnowsQueue("popCas", r)
  BY <1>1, <1>3 DEF KnowsQueue, Popping
<1>7. <<pc[t], "popCas">> \in LocalMoves
  BY <1>1 DEF LocalMoves
<1>8. pc[t] \notin Owning
  BY <1>1 DEF Owning, Pushing, Releasing
<1> QED
  BY <1>3, <1>4, <1>5, <1>6, <1>7, <1>8, LocalMove, LocalStep

(* No tag comes round: there are more tags than exchanges. *)
LEMMA TagRoom ==
    ASSUME QueueInv
    PROVE  /\ TagMod \in Nat /\ Ord(mHead.tag) \in Nat /\ FreeOrd(mFreeNodeHead.tag) \in Nat
           /\ Ord(mHead.tag) + Len(queue) + 1 < TagMod
           /\ FreeOrd(mFreeNodeHead.tag) + 2 < TagMod
<1>1. Called \in Nat /\ AllCalls \in Nat /\ Called <= AllCalls /\ 2 * AllCalls + 3 < TagMod /\ AllCalls > 0
  BY CallsBounded, QueueAssumption DEF QueueInv
<1>2. \A P : Uncounted(P) \in Nat
  <2> TAKE P
  <2> DEFINE S == {t \in Thread : pc[t] \in P}
  <2>1. S \in SUBSET Thread /\ IsFiniteSet(Thread)
    BY QueueAssumption
  <2> HIDE DEF S
  <2>2. Cardinality(S) \in Nat
    BY <2>1, FS_Subset, FS_CardinalityType
  <2> QED
    BY <2>2 DEF S, Uncounted
<1>3. /\ mHead.tag \in Nat \ {InvalidTag} /\ mFreeNodeHead \in Word /\ mFreeNodeHead.tag # InvalidTag
      /\ Len(queue) \in Nat
  BY QueueFacts DEF QueueInv, Counted
<1>4. Ord(mHead.tag) \in Nat /\ FreeOrd(mFreeNodeHead.tag) \in Nat /\ TagMod \in Nat
  BY <1>3, TagsOrdered, FreeOrdered
<1> DEFINE m == Uncounted(TailUsers)
           n == Uncounted(FreeUsers)
<1>5. /\ m \in Nat /\ Ord(mHead.tag) + Len(queue) - 1 + m <= Called + 1
      /\ n \in Nat /\ FreeOrd(mFreeNodeHead.tag) + n <= Called + 1
  BY <1>2 DEF QueueInv, Counted
<1> HIDE DEF m, n
<1>6. Ord(mHead.tag) + Len(queue) + 1 < TagMod
  BY <1>1, <1>3, <1>4, <1>5
<1>7. FreeOrd(mFreeNodeHead.tag) + 2 < TagMod
  BY <1>1, <1>4, <1>5
<1> QED
  BY <1>4, <1>6, <1>7

(* What FixList is to write to the mPrev of the node behind the i-th one is *)
(* true: it has the tag of that node.                                       *)
LEMMA RelinkTrue ==
    ASSUME QueueInv, NEW l, NEW i \in 2 .. Len(queue), l.tail = At(i)
    PROVE  /\ TrueLink(Relink(l), mHead, queue)
           /\ GetPrevTag(l.tail) = TagAt(mHead, i - 1)
<1>1. /\ Len(queue) \in Nat /\ mHead.tag \in Nat \ {InvalidTag} /\ IsQueue(mHead, queue)
      /\ Ord(mHead.tag) \in Nat
  BY QueueFacts, TagsOrdered
<1>2. Ord(mHead.tag) + Len(queue) + 1 < TagMod /\ TagMod \in Nat
  BY TagRoom
<1>3. PICK k : k = Ord(mHead.tag) + i - 2
  OBVIOUS
<1>4. k \in Nat /\ k + 1 = Ord(mHead.tag) + i - 1 /\ k = Ord(mHead.tag) + (i - 1) - 1 /\ k + 2 < TagMod
  BY <1>1, <1>2, <1>3
<1>5. l.tail.tag = TagOf(k + 1) /\ l.tail.ptr = queue[i]
  BY <1>4 DEF At, TagAt, MakePointer
<1>6. GetPrevTag(l.tail) = TagOf(k) /\ TagOf(k) = TagAt(mHead, i - 1)
  BY <1>4, <1>5, PrevTag DEF TagAt
<1>7. i - 1 \in 1 .. Len(queue) - 1 /\ (i - 1) + 1 = i
  BY <1>1
<1>8. Relink(l).tag = TagAt(mHead, i - 1) /\ Relink(l).ptr = queue[(i - 1) + 1]
  BY <1>5, <1>6, <1>7 DEF Relink, MakePointer
<1> QED
  BY <1>6, <1>7, <1>8 DEF TrueLink

(* FixList goes on while the head is the one read; then every node that it  *)
(* meets before it gets there is behind the head in the queue.              *)
LEMMA FixTestInv ==
    ASSUME QueueInv, NEW t \in Thread, FixTest(t)
    PROVE  QueueInv'
<1>1. /\ loc[t] \in LocalVars /\ pc[t] = "fix" /\ KnowsQueue("fix", loc[t])
      /\ UNCHANGED <<heads, mSize, nodes, allocated, deleted, calls, loc, result, queue, free>>
  BY QueueFacts DEF FixTest, QueueInv, Delayed
<1>2. CASE ~(loc[t].head = mHead /\ loc[t].tail # loc[t].head)
  BY <1>1, <1>2, FailedCas DEF FixTest
<1>3. CASE loc[t].head = mHead /\ loc[t].tail # loc[t].head
  <2>1. PICK r : r = loc[t]
    OBVIOUS
  <2>2. r \in LocalVars /\ loc' = Set(loc, t, r) /\ Goto(t, "fixNext")
    BY <1>1, <1>3, <2>1, QueueFacts DEF Set, FixTest
  <2>3. PICK i \in 1 .. Len(queue) : r.tail = At(i)
    BY <1>1, <1>3, <2>1 DEF KnowsQueue
  <2>4. i \in 2 .. Len(queue)
    <3>1. i # 1
      BY <1>3, <2>1, <2>3, QueueFacts
    <3> QED
      BY <2>3, <3>1, QueueFacts
  <2>5. TrueLink(Relink(r), mHead, queue)
    BY <2>3, <2>4, RelinkTrue
  <2>6. mNext[r.tail.ptr].ptr \in Node
    <3>1. r.tail.ptr = queue[i]
      BY <2>3 DEF At, MakePointer
    <3>2. mNext[queue[i]].ptr = queue[i - 1] /\ i - 1 \in 1 .. Len(queue)
      BY <2>4, QueueFacts DEF QueueInv, QueueLinked
    <3> QED
      BY <3>1, <3>2, QueueFacts
  <2>7. r.head.ptr \in Node /\ Seen(r.head, mHead)
    BY <1>1, <2>1 DEF KnowsQueue, Popping
  <2>8. KnowsQueue("fixNext", r)
    BY <2>3, <2>4, <2>5, <2>6, <2>7 DEF KnowsQueue
  <2>9. KnowsNode("fixNext", r) /\ KnowsFree("fixNext", r)
    BY DEF KnowsNode, KnowsFree, Acquiring, Pushing
  <2>10. <<pc[t], "fixNext">> \in LocalMoves /\ pc[t] \notin Owning
    BY <1>1 DEF LocalMoves, Owning, Pushing, Releasing
  <2> QED
    BY <1>1, <2>2, <2>8, <2>9, <2>10, LocalMove, LocalStep
<1> QED
  BY <1>2, <1>3

(* FixList reads a forward link. *)
LEMMA FixNextInv ==
    ASSUME QueueInv, NEW t \in Thread, FixNext(t)
    PROVE  QueueInv'
<1>1. /\ loc[t] \in LocalVars /\ pc[t] = "fixNext" /\ KnowsQueue("fixNext", loc[t])
      /\ QueueLinked
  BY QueueFacts DEF FixNext, QueueInv, Delayed
<1>2. PICK r : r = [loc[t] EXCEPT !.next = mNext[loc[t].tail.ptr].ptr]
  OBVIOUS
<1>3. mNext[loc[t].tail.ptr].ptr \in Node
  BY <1>1 DEF KnowsQueue
<1>4. /\ r \in LocalVars /\ r.head = loc[t].head /\ r.tail = loc[t].tail
      /\ r.next = mNext[loc[t].tail.ptr].ptr
  BY <1>1, <1>2, <1>3 DEF LocalVars, Cell
<1>5. /\ Goto(t, "fixPrev") /\ loc' = Set(loc, t, r)
      /\ UNCHANGED <<heads, mSize, nodes, allocated, deleted, calls, queue, free, result>>
  BY <1>2 DEF FixNext, Set
<1>6. KnowsNode("fixPrev", r) /\ KnowsFree("fixPrev", r)
  BY DEF KnowsNode, KnowsFree, Acquiring, Pushing
<1>7. KnowsQueue("fixPrev", r)
  <2>1. r.head.ptr \in Node /\ Seen(r.head, mHead) /\ r.next \in Node
    BY <1>1, <1>3, <1>4 DEF KnowsQueue, Popping
  <2>2. TrueLink(Relink(r), mHead, queue)
    BY <1>1, <1>4 DEF KnowsQueue, Relink
  <2>3. r.head = mHead => \E i \in 2 .. Len(queue) : r.tail = At(i) /\ r.next = queue[i - 1]
    <3> SUFFICES ASSUME r.head = mHead
                 PROVE  \E i \in 2 .. Len(queue) : r.tail = At(i) /\ r.next = queue[i - 1]
      OBVIOUS
    <3>1. PICK i \in 2 .. Len(queue) : r.tail = At(i)
      BY <1>1, <1>4 DEF KnowsQueue
    <3>2. r.tail.ptr = queue[i]
      BY <3>1 DEF At, MakePointer
    <3>3. r.next = queue[i - 1]
      BY <1>1, <1>4, <3>2 DEF QueueLinked
    <3> QED
      BY <3>1, <3>3
  <2> QED
    BY <2>1, <2>2, <2>3 DEF KnowsQueue
<1>8. <<pc[t], "fixPrev">> \in LocalMoves /\ pc[t] \notin Owning
  BY <1>1 DEF LocalMoves, Owning, Pushing, Releasing
<1> QED
  BY <1>4, <1>5, <1>6, <1>7, <1>8, LocalMove, LocalStep

-----------------------------------------------------------------------------
(* The steps that leave the lists alone but write to memory or are counted. *)
LEMMA TypesStay ==
    ASSUME QueueInv, NEW t \in Thread, NEW l \in Places, NEW r \in LocalVars,
           Goto(t, l), loc' = Set(loc, t, r), UNCHANGED <<heads, queue, free, allocated, result>>,
           mSize' \in 0 .. SizeMod - 1,
           mPrev' \in [Cell -> AnyWord], mNext' \in [Cell -> Word],
           mNextFreeNode' \in [Cell -> Cell], mValue' \in [Cell -> Value \cup {T0}],
           calls' \in [Thread -> Nat], \A u \in Thread : calls'[u] <= MaxCalls[u]
    PROVE  Types'
<1>1. Types /\ TypeOK
  BY DEF QueueInv, Types
<1>2. pc' \in [Thread -> Places] /\ loc' \in [Thread -> LocalVars]
  <2>1. pc \in [Thread -> Places] /\ loc \in [Thread -> LocalVars]
    BY QueueFacts
  <2> HIDE DEF Places, LocalVars
  <2> QED
    BY <2>1 DEF Goto, Set
<1>3. UNCHANGED <<mHead, mTail, mFreeNodeHead>>
  BY DEF heads
<1>4. TypeOK'
  BY <1>1, <1>2, <1>3 DEF TypeOK, LocalVars, Places, Acquiring, Owning, Pushing, Popping, Releasing
<1> QED
  BY <1>1, <1>4 DEF Types

(* A call begins. *)
LEMMA CallPushInv ==
    ASSUME QueueInv, NEW t \in Thread, CallPush(t)
    PROVE  QueueInv'
<1>1. Types /\ TypeOK /\ SizeAccounted /\ loc[t] \in LocalVars /\ pc[t] = "idle"
  BY QueueFacts DEF QueueInv, Types, CallPush
<1>2. PICK r : r = [loc[t] EXCEPT !.elem = Called + 1]
  OBVIOUS
<1>3. /\ Called' = Called + 1 /\ Called + 1 \in Value
      /\ calls' \in [Thread -> Nat] /\ (\A u \in Thread : calls'[u] <= MaxCalls[u])
  BY <1>1, CalledOnce DEF CallPush
<1>4. r \in LocalVars /\ r.elem \in Value
  BY <1>1, <1>2, <1>3 DEF LocalVars
<1>5. /\ Goto(t, "acquire") /\ loc' = Set(loc, t, r) /\ deleted = {}
      /\ UNCHANGED <<heads, mSize, nodes, allocated, deleted, result, queue, free>>
      /\ UNCHANGED <<mPrev, mNext, mNextFreeNode, mValue>>
  BY <1>2 DEF CallPush, Set, nodes
<1>6. "acquire" \in Places /\ pc[t] \notin Owning /\ "acquire" \notin Owning
  BY <1>1 DEF Places, Acquiring, Owning, Pushing, Releasing
<1>7. Types'
  BY <1>1, <1>3, <1>4, <1>5, <1>6, TypesStay DEF TypeOK
<1>8. SizeAccounted'
  BY <1>1, <1>5, SizeStays DEF PushUncounted, PopUncounted
<1>9. WritesInHand(t) /\ WritesNodes /\ WritesTruth
  BY <1>5 DEF WritesInHand, WritesNodes, WritesTruth
<1>10. KnowsFree("acquire", r)' /\ KnowsNode("acquire", r)' /\ KnowsQueue("acquire", r)'
  BY <1>4 DEF KnowsFree, KnowsNode, KnowsQueue, Pushing, Popping
<1> QED
  BY <1>3, <1>5, <1>6, <1>7, <1>8, <1>9, <1>10, QuietStep

(* A call of Pop begins. *)
LEMMA CallPopInv ==
    ASSUME QueueInv, NEW t \in Thread, CallPop(t)
    PROVE  QueueInv'
<1>1. Types /\ TypeOK /\ SizeAccounted /\ loc[t] \in LocalVars /\ pc[t] = "idle"
  BY QueueFacts DEF QueueInv, Types, CallPop
<1>2. PICK r : r = loc[t]
  OBVIOUS
<1>3. /\ Called' = Called + 1
      /\ calls' \in [Thread -> Nat] /\ (\A u \in Thread : calls'[u] <= MaxCalls[u])
  BY <1>1, CalledOnce DEF CallPop
<1>4. /\ Goto(t, "head") /\ loc' = Set(loc, t, r) /\ deleted = {}
      /\ UNCHANGED <<heads, mSize, nodes, allocated, deleted, result, queue, free>>
      /\ UNCHANGED <<mPrev, mNext, mNextFreeNode, mValue>>
  BY <1>2, QueueFacts DEF CallPop, Set, nodes
<1>5. "head" \in Places /\ pc[t] \notin Owning /\ "head" \notin Owning
  BY <1>1 DEF Places, Popping, Owning, Pushing, Releasing
<1>6. Types'
  BY <1>1, <1>2, <1>3, <1>4, <1>5, TypesStay DEF TypeOK
<1>7. SizeAccounted'
  BY <1>1, <1>4, SizeStays DEF PushUncounted, PopUncounted
<1>8. WritesInHand(t) /\ WritesNodes /\ WritesTruth
  BY <1>4 DEF WritesInHand, WritesNodes, WritesTruth
<1>9. KnowsFree("head", r)' /\ KnowsNode("head", r)' /\ KnowsQueue("head", r)'
  BY DEF KnowsFree, KnowsNode, KnowsQueue, Acquiring, Pushing, Popping
<1> QED
  BY <1>3, <1>4, <1>5, <1>6, <1>7, <1>8, <1>9, QuietStep

(* A thread that is inside a call runs before the destructor. *)
LEMMA NotEnded ==
    ASSUME QueueInv, NEW t \in Thread, pc[t] # "idle"
    PROVE  deleted = {}
  BY DEF QueueInv, Ended

(* A node in hand is in neither list. *)
LEMMA InHand ==
    ASSUME QueueInv, NEW t \in Thread, pc[t] \in Owning
    PROVE  /\ t \in Owners /\ loc[t].node \in Node /\ loc[t].node \in Cell
           /\ loc[t].node \in 1 .. allocated
           /\ loc[t].node \notin Elements(queue) /\ loc[t].node \notin Elements(free)
<1>1. t \in Owners
  BY DEF Owners, Owning, Pushing, Releasing
<1>2. loc[t].node \in (1 .. allocated) \ (Elements(queue) \cup Elements(free))
  BY <1>1 DEF QueueInv, Placed
<1>3. allocated \in 1 .. AllCalls + 1 /\ AllCalls \in Nat
  BY CallsBounded DEF QueueInv, Types
<1>4. loc[t].node \in Node
  BY <1>2, <1>3 DEF Node
<1> QED
  BY <1>1, <1>2, <1>4 DEF Cell

(* Push links its node to the tail that it has read. *)
LEMMA PushLoadInv ==
    ASSUME QueueInv, NEW t \in Thread, PushLoad(t)
    PROVE  QueueInv'
<1>1. /\ Types /\ TypeOK /\ SizeAccounted /\ loc[t] \in LocalVars /\ pc[t] = "push"
      /\ KnowsNode("push", loc[t])
  BY QueueFacts DEF QueueInv, Types, PushLoad, Delayed
<1>2. pc[t] \in Owning /\ "pushCas" \in Owning /\ "pushCas" \in Places
  BY <1>1 DEF Owning, Pushing, Places
<1>3. t \in Owners /\ loc[t].node \in Cell
  BY <1>2, InHand
<1>4. mTail \in Word /\ mTail.ptr \in Node
  <2>1. mTail \in Word /\ mTail = At(Len(queue)) /\ Len(queue) \in 1 .. Len(queue)
    BY QueueFacts
  <2> QED
    BY <2>1, QueueFacts DEF At, MakePointer
<1>5. PICK w : w = MakePointer(mTail.ptr, GetNextTag(mTail))
  OBVIOUS
<1>6. w \in Word /\ w.ptr = mTail.ptr
  BY <1>4, <1>5, TagsInRange DEF MakePointer, Word, Cell
<1>7. PICK r : r = [loc[t] EXCEPT !.tail = mTail]
  OBVIOUS
<1>8. r \in LocalVars /\ r.tail = mTail /\ r.node = loc[t].node
  BY <1>1, <1>4, <1>7 DEF LocalVars
<1>9. /\ Goto(t, "pushCas") /\ loc' = Set(loc, t, r) /\ deleted = {}
      /\ mNext' = [mNext EXCEPT ![loc[t].node] = w]
      /\ UNCHANGED <<heads, mSize, mPrev, mNextFreeNode, mValue, allocated, deleted, calls, result, queue, free>>
  BY <1>1, <1>5, <1>7, NotEnded DEF PushLoad, Set
<1>10. mNext' \in [Cell -> Word] /\ mNext'[loc[t].node] = w
       /\ (\A n \in Cell : n # loc[t].node => mNext'[n] = mNext[n])
  BY <1>1, <1>3, <1>6, <1>9 DEF TypeOK
<1>11. Types'
  BY <1>1, <1>2, <1>8, <1>9, <1>10, TypesStay DEF Types, TypeOK
<1>12. SizeAccounted'
  BY <1>1, <1>9, SizeStays DEF PushUncounted, PopUncounted
<1>13. WritesInHand(t) /\ WritesNodes /\ WritesTruth
  BY <1>3, <1>4, <1>6, <1>9, <1>10 DEF WritesInHand, WritesNodes, WritesTruth
<1>14. KnowsFree("pushCas", r)' /\ KnowsQueue("pushCas", r)'
  BY DEF KnowsFree, KnowsQueue, Popping
<1>15. KnowsNode("pushCas", r)'
  BY <1>1, <1>6, <1>8, <1>9, <1>10 DEF KnowsNode, Acquiring, Pushing
<1>16. Called' = Called /\ CountsKept(pc[t], "pushCas")
  BY <1>1, <1>9 DEF Called, CountsKept, TailUsers, FreeUsers, Acquiring, Pushing, Popping, Releasing
<1> QED
  BY <1>2, <1>8, <1>9, <1>11, <1>12, <1>13, <1>14, <1>15, <1>16, QuietStep

(* Push tells the old tail its predecessor, whatever has become of it. *)
LEMMA PushLinkInv ==
    ASSUME QueueInv, NEW t \in Thread, PushLink(t)
    PROVE  QueueInv'
<1>1. /\ Types /\ TypeOK /\ SizeAccounted /\ loc[t] \in LocalVars /\ pc[t] = "pushLink"
      /\ KnowsQueue("pushLink", loc[t])
  BY QueueFacts DEF QueueInv, Types, PushLink, Delayed
<1>2. pc[t] \notin Owning /\ "pushSize" \notin Owning /\ "pushSize" \in Places
  BY <1>1 DEF Owning, Pushing, Releasing, Places
<1>3. PICK w : w = Link(loc[t])
  OBVIOUS
<1>4. w \in Word /\ loc[t].tail.ptr \in Cell /\ TrueLink(w, mHead, queue)
  <2>1. loc[t].tail \in Word /\ loc[t].node \in Cell
    BY <1>1 DEF LocalVars
  <2> QED
    BY <1>1, <1>3, <2>1, TagsInRange DEF Link, MakePointer, Word, KnowsQueue
<1>5. PICK r : r = loc[t]
  OBVIOUS
<1>6. /\ Goto(t, "pushSize") /\ loc' = Set(loc, t, r) /\ deleted = {}
      /\ mPrev' = [mPrev EXCEPT ![loc[t].tail.ptr] = w]
      /\ UNCHANGED <<heads, mSize, mNext, mNextFreeNode, mValue, allocated, deleted, calls, result, queue, free>>
  BY <1>1, <1>3, <1>5, NotEnded, QueueFacts DEF PushLink, Set
<1>7. mPrev' \in [Cell -> AnyWord] /\ (\A n \in Cell : mPrev'[n] = mPrev[n] \/ mPrev'[n] = w)
  BY <1>1, <1>4, <1>6, WildApart DEF TypeOK
<1>8. Types'
  BY <1>1, <1>2, <1>5, <1>6, <1>7, TypesStay DEF Types, TypeOK
<1>9. SizeAccounted'
  BY <1>1, <1>6, SizeStays DEF PushUncounted, PopUncounted
<1>10. WritesInHand(t) /\ WritesNodes /\ WritesTruth
  BY <1>4, <1>6, <1>7 DEF WritesInHand, WritesNodes, WritesTruth
<1>11. KnowsFree("pushSize", r)' /\ KnowsQueue("pushSize", r)' /\ KnowsNode("pushSize", r)'
  BY DEF KnowsFree, KnowsQueue, KnowsNode, Popping, Acquiring, Pushing
<1>12. Called' = Called /\ CountsKept(pc[t], "pushSize")
  BY <1>1, <1>6 DEF Called, CountsKept, TailUsers, FreeUsers, Acquiring, Pushing, Popping, Releasing
<1> QED
  BY <1>2, <1>5, <1>6, <1>8, <1>9, <1>10, <1>11, <1>12, QuietStep

(* FixList tells a node its predecessor, whatever has become of it. *)
LEMMA FixPrevInv ==
    ASSUME QueueInv, NEW t \in Thread, FixPrev(t)
    PROVE  QueueInv'
<1>1. /\ Types /\ TypeOK /\ SizeAccounted /\ loc[t] \in LocalVars /\ pc[t] = "fixPrev"
      /\ KnowsQueue("fixPrev", loc[t])
  BY QueueFacts DEF QueueInv, Types, FixPrev, Delayed
<1>2. pc[t] \notin Owning /\ "fix" \notin Owning /\ "fix" \in Places
  BY <1>1 DEF Owning, Pushing, Releasing, Places, Popping
<1>3. PICK w : w = Relink(loc[t])
  OBVIOUS
<1>4. w \in Word /\ loc[t].next \in Cell /\ loc[t].next \in Node /\ TrueLink(w, mHead, queue)
      /\ GetPrevTag(loc[t].tail) \in 0 .. TagMod - 1
  <2>1. loc[t].tail \in Word /\ loc[t].next \in Cell
    BY <1>1 DEF LocalVars
  <2> QED
    BY <1>1, <1>3, <2>1, TagsInRange DEF Relink, MakePointer, Word, KnowsQueue
<1>5. PICK r : r = [loc[t] EXCEPT !.tail = MakePointer(loc[t].next, GetPrevTag(loc[t].tail))]
  OBVIOUS
<1>6. /\ r \in LocalVars /\ r.head = loc[t].head
      /\ r.tail = MakePointer(loc[t].next, GetPrevTag(loc[t].tail))
  <2>1. MakePointer(loc[t].next, GetPrevTag(loc[t].tail)) \in Word
    BY <1>4 DEF MakePointer, Word
  <2> QED
    BY <1>1, <1>5, <2>1 DEF LocalVars
<1>7. /\ Goto(t, "fix") /\ loc' = Set(loc, t, r) /\ deleted = {}
      /\ mPrev' = [mPrev EXCEPT ![loc[t].next] = w]
      /\ UNCHANGED <<heads, mSize, mNext, mNextFreeNode, mValue, allocated, deleted, calls, result, queue, free>>
  BY <1>1, <1>3, <1>5, NotEnded DEF FixPrev, Set
<1>8. mPrev' \in [Cell -> AnyWord] /\ (\A n \in Cell : mPrev'[n] = mPrev[n] \/ mPrev'[n] = w)
  BY <1>1, <1>4, <1>7, WildApart DEF TypeOK
<1>9. Types'
  BY <1>1, <1>2, <1>6, <1>7, <1>8, TypesStay DEF Types, TypeOK
<1>10. SizeAccounted'
  BY <1>1, <1>7, SizeStays DEF PushUncounted, PopUncounted
<1>11. WritesInHand(t) /\ WritesNodes /\ WritesTruth
  BY <1>4, <1>7, <1>8 DEF WritesInHand, WritesNodes, WritesTruth
<1>12. KnowsFree("fix", r)' /\ KnowsNode("fix", r)'
  BY DEF KnowsFree, KnowsNode, Acquiring, Pushing
<1>13. KnowsQueue("fix", r)
  <2>1. r.head.ptr \in Node /\ Seen(r.head, mHead)
    BY <1>1, <1>6 DEF KnowsQueue, Popping
  <2>2. ASSUME r.head = mHead PROVE \E i \in 1 .. Len(queue) : r.tail = At(i)
    <3>1. PICK i \in 2 .. Len(queue) : loc[t].tail = At(i) /\ loc[t].next = queue[i - 1]
      BY <1>1, <1>6, <2>2 DEF KnowsQueue
    <3>2. GetPrevTag(loc[t].tail) = TagAt(mHead, i - 1)
      BY <3>1, RelinkTrue
    <3>3. r.tail = At(i - 1)
      BY <1>6, <3>1, <3>2 DEF At
    <3>4. i - 1 \in 1 .. Len(queue)
      BY <3>1, QueueFacts
    <3> QED
      BY <3>3, <3>4
  <2> QED
    BY <2>1, <2>2 DEF KnowsQueue
<1>14. KnowsQueue("fix", r)'
  <2>1. IsQueue(mHead, queue) /\ mHead.ptr = queue[1] /\ mHead.tag # TagMod - 1
    BY QueueFacts
  <2>2. ListStep(mHead, queue, mHead', queue')
    BY <1>7 DEF ListStep, heads
  <2>3. /\ \A n \in Elements(queue) : mValue'[n] = mValue[n]
        /\ \A n \in Cell : mNext'[n] = mNext[n] \/ mNext'[n].ptr \in Node
    BY <1>7
  <2> QED
    BY <1>6, <1>13, <2>1, <2>2, <2>3, QueueKnown
<1>15. Called' = Called /\ CountsKept(pc[t], "fix")
  BY <1>1, <1>7 DEF Called, CountsKept, TailUsers, FreeUsers, Acquiring, Pushing, Popping, Releasing
<1> QED
  BY <1>2, <1>7, <1>9, <1>10, <1>11, <1>12, <1>14, <1>15, QuietStep

(* ReleaseNode clears the node and links it to the free list's head. *)
LEMMA ReleaseLoadInv ==
    ASSUME QueueInv, NEW t \in Thread, ReleaseLoad(t)
    PROVE  QueueInv'
<1>1. Types /\ TypeOK /\ SizeAccounted /\ loc[t] \in LocalVars /\ pc[t] = "release"
  BY QueueFacts DEF QueueInv, Types, ReleaseLoad
<1>2. pc[t] \in Owning /\ "releaseCas" \in Owning /\ "releaseCas" \in Places
  BY <1>1 DEF Owning, Releasing, Places
<1>3. t \in Owners /\ loc[t].node \in Cell /\ mFreeNodeHead \in Word /\ mFreeNodeHead.ptr \in Cell
  BY <1>2, InHand, QueueFacts
<1>4. PICK w : w = MakePointer(Null, InvalidTag)
  OBVIOUS
<1>5. w \in Word /\ TrueLink(w, mHead, queue)
  BY <1>4, TagsOrdered DEF MakePointer, Word, Cell, TrueLink
<1>6. PICK r : r = [loc[t] EXCEPT !.head = mFreeNodeHead]
  OBVIOUS
<1>7. r \in LocalVars /\ r.head = mFreeNodeHead /\ r.node = loc[t].node
  BY <1>1, <1>3, <1>6 DEF LocalVars
<1>8. /\ Goto(t, "releaseCas") /\ loc' = Set(loc, t, r) /\ deleted = {}
      /\ mPrev' = [mPrev EXCEPT ![loc[t].node] = w]
      /\ mNextFreeNode' = [mNextFreeNode EXCEPT ![loc[t].node] = mFreeNodeHead.ptr]
      /\ mValue' = [mValue EXCEPT ![loc[t].node] = T0]
      /\ UNCHANGED <<heads, mSize, mNext, allocated, deleted, calls, result, queue, free>>
  BY <1>1, <1>4, <1>6, NotEnded DEF ReleaseLoad, Set
<1>9. mPrev' \in [Cell -> AnyWord] /\ (\A n \in Cell : mPrev'[n] = mPrev[n] \/ mPrev'[n] = w)
  BY <1>1, <1>5, <1>8, WildApart DEF TypeOK
<1>10. /\ mNextFreeNode' \in [Cell -> Cell] /\ mNextFreeNode'[loc[t].node] = mFreeNodeHead.ptr
       /\ mValue' \in [Cell -> Value \cup {T0}]
       /\ \A n \in Cell : n # loc[t].node => mNextFreeNode'[n] = mNextFreeNode[n] /\ mValue'[n] = mValue[n]
  BY <1>1, <1>3, <1>8 DEF TypeOK
<1>11. Types'
  BY <1>1, <1>2, <1>7, <1>8, <1>9, <1>10, TypesStay DEF Types, TypeOK
<1>12. SizeAccounted'
  BY <1>1, <1>8, SizeStays DEF PushUncounted, PopUncounted
<1>13. WritesInHand(t) /\ WritesNodes /\ WritesTruth
  BY <1>3, <1>5, <1>8, <1>9, <1>10 DEF WritesInHand, WritesNodes, WritesTruth
<1>14. KnowsFree("releaseCas", r)' /\ KnowsQueue("releaseCas", r)'
  BY DEF KnowsFree, KnowsQueue, Popping
<1>15. KnowsNode("releaseCas", r)'
  BY <1>7, <1>10 DEF KnowsNode, Acquiring, Pushing
<1>16. Called' = Called /\ CountsKept(pc[t], "releaseCas")
  BY <1>1, <1>8 DEF Called, CountsKept, TailUsers, FreeUsers, Acquiring, Pushing, Popping, Releasing
<1> QED
  BY <1>2, <1>7, <1>8, <1>11, <1>12, <1>13, <1>14, <1>15, <1>16, QuietStep

(* A call counts itself and returns. *)
LEMMA SizeInv ==
    ASSUME QueueInv, NEW t \in Thread, PushSize(t) \/ PopSize(t)
    PROVE  QueueInv'
<1>1. Types /\ TypeOK /\ SizeAccounted /\ Locals \in LocalVars /\ pc[t] \in {"pushSize", "popSize"}
  BY QueueFacts DEF QueueInv, Types, PushSize, PopSize
<1>2. pc[t] \notin Owning /\ "idle" \notin Owning /\ "idle" \in Places
  BY <1>1 DEF Owning, Pushing, Releasing, Places
<1>3. PICK r : r = Locals
  OBVIOUS
<1>4. /\ Goto(t, "idle") /\ loc' = Set(loc, t, r) /\ deleted = {}
      /\ UNCHANGED <<heads, nodes, allocated, deleted, calls, result, queue, free>>
      /\ UNCHANGED <<mPrev, mNext, mNextFreeNode, mValue>>
  BY <1>1, <1>3, NotEnded DEF PushSize, PopSize, Return, nodes
<1>5. SizeMod \in Nat \ {0} /\ mSize \in 0 .. SizeMod - 1
  <2>1. AllCalls \in Nat /\ SizeMod \in Nat /\ SizeMod > 2 * AllCalls
    BY <1>1, CallsBounded, QueueAssumption
  <2>2. SizeMod # 0
    BY <2>1
  <2> QED
    BY <1>1, <2>1, <2>2 DEF TypeOK
<1> DEFINE p == Uncounted(PushUncounted)
           q == Uncounted(PopUncounted)
           x == Len(queue) - 1 - p + q
<1>6. p \in Nat /\ p' \in Nat /\ q \in Nat /\ q' \in Nat /\ Len(queue) \in Nat /\ Len(queue)' = Len(queue)
  BY <1>1, <1>4, Moved, LenProperties DEF Types, PushUncounted, PopUncounted
<1>7. mSize = x % SizeMod
  BY <1>1 DEF SizeAccounted, PushUncounted, PopUncounted
<1>8. /\ mSize' \in 0 .. SizeMod - 1
      /\ mSize' = x' % SizeMod
  <2>1. CASE PushSize(t)
    <3>1. pc[t] = "pushSize" /\ mSize' = (mSize + 1) % SizeMod
      BY <2>1 DEF PushSize
    <3>2. p' = p - 1 /\ q' = q
      BY <1>1, <1>4, <3>1, Moved DEF PushUncounted, PopUncounted
    <3> HIDE DEF p, q
    <3>3. x \in Int /\ x' = x + 1
      BY <1>6, <3>2
    <3> HIDE DEF x
    <3>4. ((x % SizeMod) + 1) % SizeMod = (x + 1) % SizeMod
      BY <1>5, <3>3, ModUpDown
    <3>5. x + 1 \in Int
      BY <3>3
    <3>6. (x + 1) % SizeMod \in 0 .. SizeMod - 1
      BY <1>5, <3>5
    <3> QED
      BY <1>7, <3>1, <3>3, <3>4, <3>6
  <2>2. CASE PopSize(t)
    <3>1. pc[t] = "popSize" /\ mSize' = (mSize - 1) % SizeMod
      BY <2>2 DEF PopSize, SizeAfterPop
    <3>2. p' = p /\ q' = q - 1
      BY <1>1, <1>4, <3>1, Moved DEF PushUncounted, PopUncounted
    <3> HIDE DEF p, q
    <3>3. x \in Int /\ x' = x - 1
      BY <1>6, <3>2
    <3> HIDE DEF x
    <3>4. ((x % SizeMod) - 1) % SizeMod = (x - 1) % SizeMod
      BY <1>5, <3>3, ModUpDown
    <3>5. x - 1 \in Int
      BY <3>3
    <3>6. (x - 1) % SizeMod \in 0 .. SizeMod - 1
      BY <1>5, <3>5
    <3> QED
      BY <1>7, <3>1, <3>3, <3>4, <3>6
  <2> QED
    BY <2>1, <2>2
<1>9. SizeAccounted'
  BY <1>8 DEF SizeAccounted, PushUncounted, PopUncounted
<1>10. Types'
  BY <1>1, <1>2, <1>3, <1>4, <1>8, TypesStay DEF Types, TypeOK
<1>11. WritesInHand(t) /\ WritesNodes /\ WritesTruth
  BY <1>4 DEF WritesInHand, WritesNodes, WritesTruth
<1>12. KnowsFree("idle", r)' /\ KnowsQueue("idle", r)' /\ KnowsNode("idle", r)'
  BY DEF KnowsFree, KnowsQueue, KnowsNode, Popping, Acquiring, Pushing
<1>13. Called' = Called /\ CountsKept(pc[t], "idle")
  BY <1>1, <1>4 DEF Called, CountsKept, TailUsers, FreeUsers, Acquiring, Pushing, Popping, Releasing
<1> QED
  BY <1>2, <1>4, <1>9, <1>10, <1>11, <1>12, <1>13, QuietStep

-----------------------------------------------------------------------------
(* The steps that change a list.  First the places of the nodes: one comes  *)
(* into the hands of t, from a list or from the allocator, or leaves them.  *)
LEMMA TakenInHand ==
    ASSUME Types, Placed, NEW t \in Thread, NEW l, NEW r, Goto(t, l), loc' = Set(loc, t, r),
           pc[t] \notin Owning, l \in Owning,
           \/ /\ free # <<>> /\ r.node = free[Len(free)] /\ free' = SubSeq(free, 1, Len(free) - 1)
              /\ UNCHANGED <<queue, allocated>>
           \/ r.node = queue[1] /\ queue' = Tail(queue) /\ UNCHANGED <<free, allocated>>
           \/ r.node = allocated + 1 /\ allocated' = allocated + 1 /\ UNCHANGED <<queue, free>>
    PROVE  Placed'
<1> DEFINE E == Elements(queue) \cup Elements(free)
           F == Elements(queue') \cup Elements(free')
           n == r.node
<1>1. /\ TypeOK /\ queue \in Seq(Node) /\ free \in Seq(Node) /\ Len(queue) \in Nat /\ Len(free) \in Nat
      /\ Len(queue) > 0 /\ allocated \in Nat
  BY LenProperties, CallsBounded DEF Types
<1>2. t \notin Owners /\ Owners' = Owners \cup {t} /\ Owners \subseteq Thread
      /\ Cardinality(Owners) \in Nat /\ Cardinality(Owners') = Cardinality(Owners) + 1
  BY <1>1, OwnersMoved
<1>3. loc'[t] = r /\ (\A u \in Owners : loc'[u].node = loc[u].node /\ u # t)
  BY <1>1, <1>2 DEF TypeOK, Set
<1>4. {loc'[u].node : u \in Owners'} = {loc[u].node : u \in Owners} \cup {n}
  BY <1>2, <1>3
<1>5. /\ Len(queue) + Len(free) + Cardinality(Owners) = allocated
      /\ E \cup {loc[u].node : u \in Owners} = 1 .. allocated
      /\ NoRepeats(queue) /\ NoRepeats(free) /\ Elements(queue) \cap Elements(free) = {}
      /\ \A u \in Owners : loc[u].node \in (1 .. allocated) \ E
      /\ \A u, v \in Owners : loc[u].node = loc[v].node => u = v
  BY DEF Placed
<1>6. /\ Len(queue') + Len(free') + Cardinality(Owners') = allocated'
      /\ F \cup {loc[u].node : u \in Owners} \cup {n} = 1 .. allocated'
      /\ NoRepeats(queue') /\ NoRepeats(free') /\ Elements(queue') \cap Elements(free') = {}
      /\ F \subseteq E /\ n \notin F /\ n \in 1 .. allocated' /\ 1 .. allocated \subseteq 1 .. allocated'
      /\ \A u \in Owners : loc[u].node # n
  <2>1. CASE /\ free # <<>> /\ n = free[Len(free)] /\ free' = SubSeq(free, 1, Len(free) - 1)
             /\ UNCHANGED <<queue, allocated>>
    <3>1. /\ Len(free') = Len(free) - 1 /\ NoRepeats(free') /\ n \notin Elements(free')
          /\ Elements(free) = Elements(free') \cup {n}
      BY <1>1, <1>5, <2>1, EndTaken
    <3>2. Elements(queue') = Elements(queue) /\ NoRepeats(queue') /\ queue' = queue /\ allocated' = allocated
      BY <1>5, <2>1
    <3>3. Len(queue') + Len(free') + Cardinality(Owners') = allocated'
      BY <1>1, <1>2, <1>5, <3>1, <3>2
    <3> HIDE DEF n
    <3> QED
      BY <1>5, <3>1, <3>2, <3>3
  <2>2. CASE n = queue[1] /\ queue' = Tail(queue) /\ UNCHANGED <<free, allocated>>
    <3>1. /\ Len(queue') = Len(queue) - 1 /\ NoRepeats(queue') /\ n \notin Elements(queue')
          /\ Elements(queue) = Elements(queue') \cup {n}
      BY <1>1, <1>5, <2>2, FirstTaken
    <3>2. Elements(free') = Elements(free) /\ NoRepeats(free') /\ free' = free /\ allocated' = allocated
      BY <1>5, <2>2
    <3>3. Len(queue') + Len(free') + Cardinality(Owners') = allocated'
      BY <1>1, <1>2, <1>5, <3>1, <3>2
    <3> HIDE DEF n
    <3> QED
      BY <1>5, <3>1, <3>2, <3>3
  <2>3. CASE n = allocated + 1 /\ allocated' = allocated + 1 /\ UNCHANGED <<queue, free>>
    <3>1. /\ Elements(queue') = Elements(queue) /\ Elements(free') = Elements(free)
          /\ NoRepeats(queue') /\ NoRepeats(free') /\ queue' = queue /\ free' = free
      BY <1>5, <2>3
    <3>2. n \notin 1 .. allocated /\ 1 .. allocated' = (1 .. allocated) \cup {n}
      BY <1>1, <2>3
    <3>3. Len(queue') + Len(free') + Cardinality(Owners') = allocated'
      BY <1>1, <1>2, <1>5, <2>3, <3>1, SMTT(30)
    <3> HIDE DEF n
    <3> QED
      BY <1>5, <3>1, <3>2, <3>3
  <2> QED
    BY <2>1, <2>2, <2>3
<1> HIDE DEF E, F
<1>7. F \cup {loc'[u].node : u \in Owners'} = 1 .. allocated'
  BY <1>4, <1>6
<1>8. \A u \in Owners' : loc'[u].node \in (1 .. allocated') \ F
  BY <1>2, <1>3, <1>5, <1>6
<1>9. \A u, v \in Owners' : loc'[u].node = loc'[v].node => u = v
  BY <1>2, <1>3, <1>5, <1>6
<1> QED
  BY <1>6, <1>7, <1>8, <1>9 DEF Placed, F, Elements, NoRepeats

(* A node goes from the hands of a thread to the end of a sequence. *)
LEMMA PutAtEnd ==
    ASSUME Types, Placed, NEW t \in Thread, NEW l, NEW r, Goto(t, l), loc' = Set(loc, t, r),
           pc[t] \in Owning, l \notin Owning, UNCHANGED allocated, loc[t].node \in Node,
           \/ free' = Append(free, loc[t].node) /\ queue' = queue
           \/ queue' = Append(queue, loc[t].node) /\ free' = free
    PROVE  Placed'
<1> DEFINE E == Elements(queue) \cup Elements(free)
           F == Elements(queue') \cup Elements(free')
           n == loc[t].node
<1>1. /\ TypeOK /\ queue \in Seq(Node) /\ free \in Seq(Node) /\ Len(queue) \in Nat /\ Len(free) \in Nat
      /\ allocated \in Nat
  BY LenProperties, CallsBounded DEF Types
<1>2. t \in Owners /\ Owners' = Owners \ {t} /\ Owners \subseteq Thread
      /\ Cardinality(Owners) \in Nat /\ Cardinality(Owners') = Cardinality(Owners) - 1
  BY <1>1, OwnersMoved
<1>3. \A u \in Owners' : loc'[u].node = loc[u].node /\ u \in Owners /\ u # t
  BY <1>1, <1>2 DEF TypeOK, Set
<1>4. {loc[u].node : u \in Owners} = {loc'[u].node : u \in Owners'} \cup {n}
  BY <1>2, <1>3
<1>5. /\ Len(queue) + Len(free) + Cardinality(Owners) = allocated
      /\ E \cup {loc[u].node : u \in Owners} = 1 .. allocated
      /\ NoRepeats(queue) /\ NoRepeats(free) /\ Elements(queue) \cap Elements(free) = {}
      /\ \A u \in Owners : loc[u].node \in (1 .. allocated) \ E
      /\ \A u, v \in Owners : loc[u].node = loc[v].node => u = v
      /\ n \in (1 .. allocated) \ E
  BY <1>2 DEF Placed
<1>6. /\ Len(queue') + Len(free') + Cardinality(Owners') = allocated
      /\ NoRepeats(queue') /\ NoRepeats(free') /\ Elements(queue') \cap Elements(free') = {}
      /\ F = E \cup {n}
  <2>1. CASE free' = Append(free, n) /\ queue' = queue
    <3>1. /\ Len(free') = Len(free) + 1 /\ NoRepeats(free') /\ Elements(free') = Elements(free) \cup {n}
      BY <1>1, <1>5, <2>1, EndAdded
    <3>2. Elements(queue') = Elements(queue) /\ NoRepeats(queue') /\ queue' = queue
      BY <1>5, <2>1
    <3>3. Len(queue') + Len(free') + Cardinality(Owners') = allocated
      BY <1>1, <1>2, <1>5, <3>1, <3>2
    <3> HIDE DEF n
    <3> QED
      BY <1>5, <3>1, <3>2, <3>3
  <2>2. CASE queue' = Append(queue, n) /\ free' = free
    <3>1. /\ Len(queue') = Len(queue) + 1 /\ NoRepeats(queue') /\ Elements(queue') = Elements(queue) \cup {n}
      BY <1>1, <1>5, <2>2, EndAdded
    <3>2. Elements(free') = Elements(free) /\ NoRepeats(free') /\ free' = free
      BY <1>5, <2>2
    <3>3. Len(queue') + Len(free') + Cardinality(Owners') = allocated
      BY <1>1, <1>2, <1>5, <3>1, <3>2
    <3> HIDE DEF n
    <3> QED
      BY <1>5, <3>1, <3>2, <3>3
  <2> QED
    BY <2>1, <2>2
<1>7. \A u \in Owners' : loc'[u].node # n
  BY <1>2, <1>3, <1>5
<1> HIDE DEF E, F
<1>8. F \cup {loc'[u].node : u \in Owners'} = 1 .. allocated
  BY <1>4, <1>5, <1>6
<1>9. \A u \in Owners' : loc'[u].node \in (1 .. allocated) \ F
  BY <1>3, <1>5, <1>6, <1>7
<1>10. \A u, v \in Owners' : loc'[u].node = loc'[v].node => u = v
  BY <1>3, <1>5
<1> QED
  BY <1>6, <1>8, <1>9, <1>10 DEF Placed, F, Elements, NoRepeats

(* A list changes, and the nodes of the others are left alone: it remains   *)
(* to look at the parts of the invariant about the lists, and at t.         *)
LEMMA ExchangeStep ==
    ASSUME QueueInv, NEW t \in Thread, NEW l, NEW r, Goto(t, l), loc' = Set(loc, t, r),
           Types', Placed', QueueLinked', FreeLinked', Counted', SizeAccounted',
           UNCHANGED <<mNext, mNextFreeNode, deleted>>, deleted = {},
           ListStep(mHead, queue, mHead', queue'), FreeStep(mFreeNodeHead, mFreeNodeHead'),
           \A n \in Cell : mPrev'[n] = mPrev[n] \/ GoodLink(n, mPrev'[n], mHead, queue),
           \A n \in Elements(queue) : mValue'[n] = mValue[n],
           \A u \in Owners \ {t} : mValue'[loc[u].node] = mValue[loc[u].node],
           KnowsFree(l, r)' /\ KnowsNode(l, r)' /\ KnowsQueue(l, r)'
    PROVE  QueueInv'
<1>1. TypeOK /\ PrevGood /\ TypeOK'
  BY DEF QueueInv, Types
<1>2. PrevGood'
  <2> SUFFICES ASSUME NEW n \in Cell PROVE GoodLink(n, mPrev'[n], mHead', queue')
    BY DEF PrevGood
  <2>1. GoodLink(n, mPrev'[n], mHead, queue)
    BY <1>1 DEF PrevGood
  <2>2. mPrev'[n] \in AnyWord /\ IsQueue(mHead, queue)
    BY <1>1, QueueFacts DEF TypeOK
  <2>3. mPrev'[n].tag \in Nat
    BY <2>2, WildApart
  <2> QED
    BY <2>1, <2>2, <2>3, LinkKept
<1>3. ASSUME NEW u \in Thread PROVE Delayed(u)'
  <2>1. CASE u = t
    <3>1. l = pc'[u] /\ r = loc'[u]
      BY <1>1, <2>1 DEF Goto, Set, TypeOK
    <3>2. KnowsFree(pc[u], loc[u])' /\ KnowsNode(pc[u], loc[u])' /\ KnowsQueue(pc[u], loc[u])'
      BY <3>1
    <3> QED
      BY <3>2 DEF Delayed
  <2>2. CASE u # t
    <3>1. pc'[u] = pc[u] /\ loc'[u] = loc[u]
      BY <1>1, <2>2 DEF Goto, Set, TypeOK
    <3>2. u \in Owners => mValue'[loc[u].node] = mValue[loc[u].node]
      BY <2>2
    <3> QED
      BY <3>1, <3>2, OthersKnow
  <2> QED
    BY <2>1, <2>2
<1>4. Ended'
  BY DEF Ended
<1> QED
  BY <1>2, <1>3, <1>4 DEF QueueInv

(* A new node: the free list is empty, and fewer nodes than calls exist. *)
LEMMA AllocateInv ==
    ASSUME QueueInv, NEW t \in Thread, AcquireLoad(t), mFreeNodeHead.ptr = Null
    PROVE  QueueInv'
<1> DEFINE n == allocated + 1
<1>1. /\ Types /\ TypeOK /\ Placed /\ QueueLinked /\ FreeLinked /\ Counted /\ SizeAccounted
      /\ loc[t] \in LocalVars /\ pc[t] = "acquire" /\ KnowsNode("acquire", loc[t]) /\ deleted = {}
  BY QueueFacts, NotEnded DEF QueueInv, Types, AcquireLoad, Delayed
<1>2. free \in Seq(Node) /\ free = <<>> /\ Len(free) = 0
  <2>1. free \in Seq(Node) /\ Len(free) \in Nat
    BY <1>1, LenProperties DEF Types
  <2>2. free # <<>> => Len(free) \in 1 .. Len(free)
    BY <2>1, EmptySeq
  <2>3. free # <<>> => free[Len(free)] \in Node
    BY <2>1, <2>2, ElementOfSeq
  <2>4. Null \notin Node
    BY DEF Null, Node
  <2> QED
    BY <1>1, <2>1, <2>3, <2>4, EmptySeq DEF FreeLinked
<1>3. /\ Called \in Nat /\ AllCalls \in Nat /\ Called <= AllCalls /\ allocated \in Nat /\ 1 <= allocated
      /\ Len(queue) \in Nat /\ Len(queue) > 0
  BY <1>1, CallsBounded, LenProperties DEF Types
<1>4. /\ Uncounted(Acquiring) \in Nat /\ Uncounted(Acquiring) > 0 /\ Uncounted(Acquiring)' \in Nat
      /\ Uncounted(Acquiring)' = Uncounted(Acquiring) - 1
      /\ Goto(t, "push")
  <2>1. Goto(t, "push")
    BY DEF AcquireLoad
  <2> QED
    BY <1>1, <2>1, Moved DEF Acquiring
<1>5. allocated + Uncounted(Acquiring) <= Called + 1
  BY <1>1, <1>2, <1>3 DEF Counted
<1>6. allocated + 1 <= AllCalls + 1 /\ allocated + 1 + Uncounted(Acquiring)' <= Called + 1
  <2> DEFINE a == Uncounted(Acquiring)
             b == Uncounted(Acquiring)'
  <2>1. a \in Nat /\ a > 0 /\ b \in Nat /\ b = a - 1 /\ allocated + a <= Called + 1
    BY <1>4, <1>5
  <2> HIDE DEF a, b
  <2>2. allocated + 1 <= AllCalls + 1 /\ allocated + 1 + b <= Called + 1
    BY <1>3, <2>1
  <2> QED
    BY <2>2 DEF b
<1>7. n \in Node /\ n \in Cell /\ n \notin 1 .. allocated
  BY <1>3, <1>6 DEF Node, Cell
<1>8. PICK r : r = [loc[t] EXCEPT !.node = n]
  OBVIOUS
<1>9. PICK tag \in FreshTag : mPrev' = [mPrev EXCEPT ![n] = MakePointer(Wild, tag)]
  BY DEF AcquireLoad, Set
<1>w. PICK w : mPrev' = [mPrev EXCEPT ![n] = w] /\ w = MakePointer(Wild, tag)
  BY <1>9
<1>10. w \in AnyWord /\ w.ptr = Wild
  BY <1>w, QueueAssumption DEF MakePointer, AnyWord
<1>11. /\ allocated' = n /\ mValue' = [mValue EXCEPT ![n] = loc[t].elem] /\ loc' = Set(loc, t, r)
       /\ UNCHANGED <<heads, mSize, mNext, mNextFreeNode, deleted, calls, result, queue, free>>
       /\ UNCHANGED <<mHead, mTail, mFreeNodeHead>>
  BY <1>8 DEF AcquireLoad, Set, heads
<1>12. r \in LocalVars /\ r.node = n /\ loc[t].elem \in Value
  BY <1>1, <1>7, <1>8 DEF LocalVars, KnowsNode, Acquiring
<1> HIDE DEF n
<1>13. pc[t] \notin Owning /\ "push" \in Owning /\ "push" \in Places
  BY <1>1 DEF Owning, Pushing, Releasing, Places
<1>14. Placed'
  BY <1>1, <1>4, <1>11, <1>12, <1>13, TakenInHand DEF n
<1>15. /\ mPrev' \in [Cell -> AnyWord] /\ mPrev'[n] = w /\ (\A x \in Cell : x # n => mPrev'[x] = mPrev[x])
       /\ mValue' \in [Cell -> Value \cup {T0}] /\ mValue'[n] = loc[t].elem
       /\ \A x \in Cell : x # n => mValue'[x] = mValue[x]
  BY <1>1, <1>7, <1>w, <1>10, <1>11, <1>12 DEF TypeOK
<1>16. Types'
  <2>1. pc' \in [Thread -> Places] /\ loc' \in [Thread -> LocalVars]
    <3>1. pc \in [Thread -> Places] /\ loc \in [Thread -> LocalVars]
      BY QueueFacts
    <3> HIDE DEF Places, LocalVars
    <3> QED
      BY <1>4, <1>11, <1>12, <1>13, <3>1 DEF Goto, Set
  <2>2. TypeOK'
    BY <1>1, <1>11, <1>15, <2>1 DEF TypeOK, LocalVars, Places, Acquiring, Owning, Pushing, Popping, Releasing
  <2>3. allocated' \in 1 .. AllCalls + 1
    BY <1>7, <1>11 DEF Node
  <2> QED
    BY <1>1, <1>11, <2>2, <2>3 DEF Types
<1>17. QueueLinked' /\ FreeLinked'
  BY <1>1, <1>11 DEF QueueLinked, FreeLinked
<1>18. Counted'
  <2>1. Uncounted(TailUsers)' = Uncounted(TailUsers)
    BY <1>1, <1>4, Moved DEF TailUsers, Acquiring, Pushing
  <2>2. /\ Uncounted(FreeUsers) \in Nat /\ Uncounted(FreeUsers)' \in Nat
        /\ Uncounted(FreeUsers)' <= Uncounted(FreeUsers)
    BY <1>1, <1>4, Moved DEF FreeUsers, Acquiring, Popping, Releasing
  <2>3. FreeOrd(mFreeNodeHead.tag) + Uncounted(FreeUsers)' <= Called + 1
    <3> DEFINE a == Uncounted(FreeUsers)
               b == Uncounted(FreeUsers)'
    <3>1. a \in Nat /\ b \in Nat /\ b <= a /\ FreeOrd(mFreeNodeHead.tag) + a <= Called + 1
      BY <1>1, <2>2 DEF Counted
    <3> HIDE DEF a, b
    <3>2. FreeOrd(mFreeNodeHead.tag) + b <= Called + 1
      BY <1>3, <3>1, TagRoom
    <3> QED
      BY <3>2 DEF b
  <2>4. Called' = Called
    BY <1>11 DEF Called
  <2>5. allocated' + Uncounted(Acquiring)' <= Called + 1 + Len(free)
    <3>1. Called + 1 + Len(free) = Called + 1
      BY <1>2, <1>3
    <3> QED
      BY <1>6, <1>11, <3>1 DEF n
  <2> QED
    BY <1>1, <1>11, <2>1, <2>3, <2>4, <2>5 DEF Counted
<1>19. SizeAccounted'
  BY <1>1, <1>4, <1>11, SizeStays DEF PushUncounted, PopUncounted
<1>20. ListStep(mHead, queue, mHead', queue') /\ FreeStep(mFreeNodeHead, mFreeNodeHead')
  BY <1>11 DEF ListStep, FreeStep
<1>21. /\ \A x \in Elements(queue) : x # n /\ x \in Cell
       /\ \A u \in Owners : loc[u].node # n /\ loc[u].node \in Cell
  <2>1. \A x \in 1 .. allocated : x \in Cell /\ x # n
    <3>1. \A x \in 1 .. allocated : x \in Node
      BY <1>3, <1>6 DEF Node
    <3> QED
      BY <1>7, <3>1 DEF Cell
  <2> QED
    BY <1>1, <2>1 DEF Placed
<1>22. /\ \A x \in Elements(queue) : mValue'[x] = mValue[x]
       /\ \A u \in Owners \ {t} : mValue'[loc[u].node] = mValue[loc[u].node]
  BY <1>15, <1>21
<1>23. \A x \in Cell : mPrev'[x] = mPrev[x] \/ GoodLink(x, mPrev'[x], mHead, queue)
  <2>1. n # queue[1]
    <3>1. 1 \in 1 .. Len(queue)
      BY <1>3
    <3> QED
      BY <1>21, <3>1 DEF Elements
  <2> QED
    BY <1>10, <1>15, <2>1 DEF GoodLink
<1>24. KnowsFree("push", r)' /\ KnowsQueue("push", r)'
  BY DEF KnowsFree, KnowsQueue, Popping
<1>25. KnowsNode("push", r)'
  BY <1>12, <1>15 DEF KnowsNode, Acquiring
<1> QED
  BY <1>1, <1>4, <1>11, <1>14, <1>16, <1>17, <1>18, <1>19, <1>20, <1>22, <1>23, <1>24, <1>25, ExchangeStep

(* A call that leaves the places where it may allocate, or exchange a head, *)
(* makes room for the one that it has made.                                 *)
LEMMA CountsLeft ==
    ASSUME QueueInv, NEW t \in Thread, NEW l, Goto(t, l), calls' = calls
    PROVE  /\ Called' = Called /\ Called \in Nat
           /\ Uncounted(Acquiring)' \in Nat
           /\ (l \in Acquiring => pc[t] \in Acquiring) => allocated + Uncounted(Acquiring)' <= Called + 1 + Len(free)
           /\ pc[t] \in Acquiring /\ l \notin Acquiring => allocated + 1 + Uncounted(Acquiring)' <= Called + 1 + Len(free)
           /\ Uncounted(TailUsers)' \in Nat
           /\ (l \in TailUsers => pc[t] \in TailUsers) => Ord(mHead.tag) + Len(queue) - 1 + Uncounted(TailUsers)' <= Called + 1
           /\ pc[t] \in TailUsers /\ l \notin TailUsers => Ord(mHead.tag) + Len(queue) - 1 + 1 + Uncounted(TailUsers)' <= Called + 1
           /\ Uncounted(FreeUsers)' \in Nat
           /\ (l \in FreeUsers => pc[t] \in FreeUsers) => FreeOrd(mFreeNodeHead.tag) + Uncounted(FreeUsers)' <= Called + 1
           /\ pc[t] \in FreeUsers /\ l \notin FreeUsers => FreeOrd(mFreeNodeHead.tag) + 1 + Uncounted(FreeUsers)' <= Called + 1
<1>1. TypeOK /\ Counted /\ Called \in Nat /\ Called' = Called
  BY CallsBounded DEF QueueInv, Types, Called
<1>2. /\ allocated \in Nat /\ Len(free) \in Nat /\ Len(queue) \in Nat /\ Called \in Nat
      /\ Ord(mHead.tag) \in Nat /\ FreeOrd(mFreeNodeHead.tag) \in Nat
  BY <1>1, TagRoom, QueueFacts, LenProperties DEF QueueInv, Types
<1>3. /\ Uncounted(Acquiring)' \in Nat
      /\ (l \in Acquiring => pc[t] \in Acquiring) => allocated + Uncounted(Acquiring)' <= Called + 1 + Len(free)
      /\ pc[t] \in Acquiring /\ l \notin Acquiring => allocated + 1 + Uncounted(Acquiring)' <= Called + 1 + Len(free)
  <2> DEFINE a == Uncounted(Acquiring)
             b == Uncounted(Acquiring)'
             x == allocated
             c == Called + 1 + Len(free)
  <2>1. /\ a \in Nat /\ b \in Nat
        /\ (l \in Acquiring => pc[t] \in Acquiring) => b <= a
        /\ pc[t] \in Acquiring /\ l \notin Acquiring => b = a - 1
    BY <1>1, Moved DEF Acquiring
  <2>2. x + a <= c /\ x \in Int /\ c \in Int
    BY <1>1, <1>2 DEF Counted
  <2> HIDE DEF a, b, x, c
  <2>3. /\ (l \in Acquiring => pc[t] \in Acquiring) => x + b <= c
        /\ pc[t] \in Acquiring /\ l \notin Acquiring => x + 1 + b <= c
    BY <2>1, <2>2
  <2> QED
    BY <2>1, <2>3 DEF b, x, c
<1>4. /\ Uncounted(TailUsers)' \in Nat
      /\ (l \in TailUsers => pc[t] \in TailUsers) => Ord(mHead.tag) + Len(queue) - 1 + Uncounted(TailUsers)' <= Called + 1
      /\ pc[t] \in TailUsers /\ l \notin TailUsers => Ord(mHead.tag) + Len(queue) - 1 + 1 + Uncounted(TailUsers)' <= Called + 1
  <2> DEFINE a == Uncounted(TailUsers)
             b == Uncounted(TailUsers)'
             x == Ord(mHead.tag) + Len(queue) - 1
             c == Called + 1
  <2>1. /\ a \in Nat /\ b \in Nat
        /\ (l \in TailUsers => pc[t] \in TailUsers) => b <= a
        /\ pc[t] \in TailUsers /\ l \notin TailUsers => b = a - 1
    BY <1>1, Moved DEF TailUsers, Acquiring, Pushing
  <2>2. x + a <= c /\ x \in Int /\ c \in Int
    BY <1>1, <1>2 DEF Counted
  <2> HIDE DEF a, b, x, c
  <2>3. /\ (l \in TailUsers => pc[t] \in TailUsers) => x + b <= c
        /\ pc[t] \in TailUsers /\ l \notin TailUsers => x + 1 + b <= c
    BY <2>1, <2>2
  <2> QED
    BY <2>1, <2>3 DEF b, x, c
<1>5. /\ Uncounted(FreeUsers)' \in Nat
      /\ (l \in FreeUsers => pc[t] \in FreeUsers) => FreeOrd(mFreeNodeHead.tag) + Uncounted(FreeUsers)' <= Called + 1
      /\ pc[t] \in FreeUsers /\ l \notin FreeUsers => FreeOrd(mFreeNodeHead.tag) + 1 + Uncounted(FreeUsers)' <= Called + 1
  <2> DEFINE a == Uncounted(FreeUsers)
             b == Uncounted(FreeUsers)'
             x == FreeOrd(mFreeNodeHead.tag)
             c == Called + 1
  <2>1. /\ a \in Nat /\ b \in Nat
        /\ (l \in FreeUsers => pc[t] \in FreeUsers) => b <= a
        /\ pc[t] \in FreeUsers /\ l \notin FreeUsers => b = a - 1
    BY <1>1, Moved DEF FreeUsers, Acquiring, Popping, Releasing
  <2>2. x + a <= c /\ x \in Int /\ c \in Int
    BY <1>1, <1>2 DEF Counted
  <2> HIDE DEF a, b, x, c
  <2>3. /\ (l \in FreeUsers => pc[t] \in FreeUsers) => x + b <= c
        /\ pc[t] \in FreeUsers /\ l \notin FreeUsers => x + 1 + b <= c
    BY <2>1, <2>2
  <2> QED
    BY <2>1, <2>3 DEF b, x, c
<1> QED
  BY <1>1, <1>3, <1>4, <1>5

(* Types of a step that changes a head or a sequence. *)
LEMMA TypesStep ==
    ASSUME QueueInv, NEW t \in Thread, NEW l \in Places, NEW r \in LocalVars,
           Goto(t, l), loc' = Set(loc, t, r), UNCHANGED <<mSize, mPrev, mNext, mNextFreeNode, allocated, calls>>,
           mHead' \in Word, mTail' \in Word, mFreeNodeHead' \in Word,
           queue' \in Seq(Node), Len(queue') > 0, free' \in Seq(Node),
           mValue' \in [Cell -> Value \cup {T0}], result' \in [Thread -> Value \cup {T0, None}]
    PROVE  Types'
<1>1. Types /\ TypeOK
  BY DEF QueueInv, Types
<1>2. pc' \in [Thread -> Places] /\ loc' \in [Thread -> LocalVars]
  <2>1. pc \in [Thread -> Places] /\ loc \in [Thread -> LocalVars]
    BY QueueFacts
  <2> HIDE DEF Places, LocalVars
  <2> QED
    BY <2>1 DEF Goto, Set
<1>3. TypeOK'
  BY <1>1, <1>2 DEF TypeOK, LocalVars, Places, Acquiring, Owning, Pushing, Popping, Releasing
<1> QED
  BY <1>1, <1>3 DEF Types

(* The next tag of the free list is a later one. *)
LEMMA FreeExchanged ==
    ASSUME QueueInv, NEW p \in Cell
    PROVE  LET m == MakePointer(p, GetNextTag(mFreeNodeHead))
           IN  /\ m \in Word /\ m.ptr = p /\ m.tag # InvalidTag
               /\ FreeOrd(m.tag) = FreeOrd(mFreeNodeHead.tag) + 1
               /\ FreeStep(mFreeNodeHead, m)
<1> DEFINE m == MakePointer(p, GetNextTag(mFreeNodeHead))
<1>1. /\ mFreeNodeHead \in Word /\ mFreeNodeHead.tag # InvalidTag
      /\ FreeOrd(mFreeNodeHead.tag) + 2 < TagMod /\ FreeOrd(mFreeNodeHead.tag) \in Nat
  BY QueueFacts, TagRoom DEF QueueInv, Counted
<1>2. /\ GetNextTag(mFreeNodeHead) \in 0 .. TagMod - 1 /\ GetNextTag(mFreeNodeHead) # InvalidTag
      /\ FreeOrd(GetNextTag(mFreeNodeHead)) = FreeOrd(mFreeNodeHead.tag) + 1
  BY <1>1, NextFreeTag
<1>3. m.ptr = p /\ m.tag = GetNextTag(mFreeNodeHead) /\ m \in Word
  BY <1>2 DEF MakePointer, Word
<1> HIDE DEF m
<1>4. FreeOrd(m.tag) = FreeOrd(mFreeNodeHead.tag) + 1 /\ m.tag # InvalidTag
  BY <1>2, <1>3
<1>5. FreeStep(mFreeNodeHead, m)
  BY <1>1, <1>3, <1>4 DEF FreeStep
<1> QED
  BY <1>3, <1>4, <1>5 DEF m

(* AcquireNode takes the newest node of the free list. *)
LEMMA AcquireCasInv ==
    ASSUME QueueInv, NEW t \in Thread, AcquireCas(t)
    PROVE  QueueInv'
<1>1. /\ Types /\ TypeOK /\ Placed /\ QueueLinked /\ FreeLinked /\ Counted /\ SizeAccounted
      /\ loc[t] \in LocalVars /\ pc[t] = "acquireCas" /\ deleted = {}
      /\ KnowsNode("acquireCas", loc[t]) /\ KnowsFree("acquireCas", loc[t])
  BY QueueFacts, NotEnded DEF QueueInv, Types, AcquireCas, Delayed
<1>2. CASE mFreeNodeHead # loc[t].head
  <2>1. Goto(t, "acquire") /\ UNCHANGED <<heads, mSize, nodes, allocated, deleted, calls, loc, result, queue, free>>
    BY <1>2 DEF AcquireCas, Same, heads, nodes
  <2> QED
    BY <1>1, <2>1, FailedCas
<1>3. CASE mFreeNodeHead = loc[t].head
  <2> DEFINE n == loc[t].head.ptr
             k == loc[t].next
  <2>1. PICK r : r = [Locals EXCEPT !.node = n, !.elem = loc[t].elem]
    OBVIOUS
  <2>2. /\ Goto(t, "push") /\ loc' = Set(loc, t, r)
        /\ mFreeNodeHead' = MakePointer(k, GetNextTag(mFreeNodeHead))
        /\ mValue' = [mValue EXCEPT ![n] = loc[t].elem]
        /\ free' = SubSeq(free, 1, Len(free) - 1)
        /\ UNCHANGED <<mHead, mTail, mSize, mPrev, mNext, mNextFreeNode, allocated, deleted, calls, result, queue>>
    BY <1>3, <2>1 DEF AcquireCas, Same, Set
  <2>3. n \in Node /\ n \in Cell /\ k \in Cell /\ k = mNextFreeNode[n] /\ n = mFreeNodeHead.ptr /\ loc[t].elem \in Value
    BY <1>1, <1>3 DEF KnowsNode, KnowsFree, Acquiring, LocalVars, Cell
  <2>4. r \in LocalVars /\ r.node = n
    BY <1>1, <2>1, <2>3, QueueFacts DEF LocalVars, Locals
  <2> HIDE DEF n, k
  <2>5. free # <<>> /\ n = free[Len(free)]
    <3>1. Null \notin Node
      BY DEF Null, Node
    <3> QED
      BY <1>1, <2>3, <3>1 DEF FreeLinked
  <2>6. /\ free \in Seq(Node) /\ free' \in Seq(Node) /\ Len(free) \in Nat \ {0} /\ Len(free') = Len(free) - 1
        /\ (\A i \in 1 .. Len(free') : free'[i] = free[i])
        /\ n \in Elements(free)
    <3>1. free \in Seq(Node) /\ NoRepeats(free)
      BY <1>1 DEF Types, Placed
    <3>2. /\ free' \in Seq(Node) /\ Len(free) \in Nat \ {0} /\ Len(free') = Len(free) - 1
          /\ \A i \in 1 .. Len(free') : free'[i] = free[i]
          /\ Elements(free) = Elements(free') \cup {n}
      BY <2>2, <2>5, <3>1, EndTaken
    <3> QED
      BY <3>1, <3>2
  <2>7. pc[t] \notin Owning /\ "push" \in Owning /\ "push" \in Places
    BY <1>1 DEF Owning, Pushing, Releasing, Places
  <2>8. Placed'
    BY <1>1, <2>2, <2>4, <2>5, <2>7, TakenInHand
  <2>9. /\ mFreeNodeHead' \in Word /\ mFreeNodeHead'.ptr = k /\ mFreeNodeHead'.tag # InvalidTag
        /\ FreeOrd(mFreeNodeHead'.tag) = FreeOrd(mFreeNodeHead.tag) + 1
        /\ FreeStep(mFreeNodeHead, mFreeNodeHead')
    BY <2>2, <2>3, FreeExchanged
  <2>10. /\ mValue' \in [Cell -> Value \cup {T0}] /\ mValue'[n] = loc[t].elem
         /\ \A x \in Cell : x # n => mValue'[x] = mValue[x]
    BY <1>1, <2>2, <2>3 DEF TypeOK
  <2>11. Types'
    BY <1>1, <2>2, <2>4, <2>6, <2>7, <2>9, <2>10, QueueFacts, TypesStep DEF Types
  <2>12. FreeLinked'
    <3>1. \A i \in 2 .. Len(free') : i \in 2 .. Len(free) /\ i \in 1 .. Len(free') /\ i - 1 \in 1 .. Len(free')
      BY <2>6
    <3>2. \A i \in 2 .. Len(free') : mNextFreeNode[free'[i]] = free'[i - 1]
      BY <1>1, <2>6, <3>1 DEF FreeLinked
    <3>3. CASE Len(free) = 1
      <4>1. free' = <<>> /\ k = Null
        <5>1. free' = <<>>
          BY <2>6, <3>3, EmptySeq
        <5> QED
          BY <1>1, <2>3, <2>5, <3>3, <5>1 DEF FreeLinked
      <4> QED
        BY <2>2, <2>9, <3>2, <4>1 DEF FreeLinked
    <3>4. CASE Len(free) # 1
      <4>1. Len(free) \in 2 .. Len(free) /\ Len(free') = Len(free) - 1 /\ Len(free') \in 1 .. Len(free') /\ 1 \in 1 .. Len(free')
        BY <2>6, <3>4
      <4>2. free' # <<>>
        BY <2>6, <4>1, EmptySeq
      <4>3. k = free'[Len(free')]
        BY <1>1, <2>3, <2>5, <2>6, <4>1 DEF FreeLinked
      <4>4. mNextFreeNode[free'[1]] = Null
        BY <1>1, <2>5, <2>6, <4>1 DEF FreeLinked
      <4> QED
        BY <2>2, <2>9, <3>2, <4>2, <4>3, <4>4 DEF FreeLinked
    <3> QED
      BY <3>3, <3>4
  <2>13. QueueLinked'
    BY <1>1, <2>2 DEF QueueLinked
  <2>14. Counted'
    <3>1. /\ pc[t] \in Acquiring /\ "push" \notin Acquiring /\ pc[t] \in TailUsers
          /\ pc[t] \in FreeUsers /\ "push" \notin FreeUsers
      BY <1>1 DEF TailUsers, FreeUsers, Acquiring, Popping, Releasing
    <3>2. /\ Called' = Called /\ Called \in Nat
          /\ Uncounted(Acquiring)' \in Nat
          /\ allocated + 1 + Uncounted(Acquiring)' <= Called + 1 + Len(free)
          /\ Ord(mHead.tag) + Len(queue) - 1 + Uncounted(TailUsers)' <= Called + 1
          /\ Uncounted(FreeUsers)' \in Nat
          /\ FreeOrd(mFreeNodeHead.tag) + 1 + Uncounted(FreeUsers)' <= Called + 1
      BY <2>2, <3>1, CountsLeft
    <3>3. allocated + Uncounted(Acquiring)' <= Called + 1 + Len(free')
      <4> DEFINE b == Uncounted(Acquiring)'
      <4>1. b \in Nat /\ allocated + 1 + b <= Called + 1 + Len(free) /\ allocated \in Nat
        BY <1>1, <3>2, CallsBounded DEF Types
      <4> HIDE DEF b
      <4>2. allocated + b <= Called + 1 + Len(free')
        BY <2>6, <3>2, <4>1
      <4> QED
        BY <4>2 DEF b
    <3>4. FreeOrd(mFreeNodeHead'.tag) + Uncounted(FreeUsers)' <= Called + 1
      BY <2>9, <3>2
    <3> QED
      BY <1>1, <2>2, <2>9, <3>2, <3>3, <3>4 DEF Counted
  <2>15. SizeAccounted'
    BY <1>1, <2>2, SizeStays DEF PushUncounted, PopUncounted
  <2>16. ListStep(mHead, queue, mHead', queue')
    BY <2>2 DEF ListStep
  <2>17. /\ \A x \in Elements(queue) : mValue'[x] = mValue[x]
         /\ \A u \in Owners \ {t} : mValue'[loc[u].node] = mValue[loc[u].node]
    <3>1. \A x \in Elements(queue) : x # n /\ x \in Cell
      <4>1. \A i \in 1 .. Len(queue) : queue[i] \in Node
        BY QueueFacts
      <4> QED
        BY <1>1, <2>6, <4>1 DEF Placed, Elements, Cell
    <3>2. \A u \in Owners : loc[u].node # n /\ loc[u].node \in Cell
      BY <1>1, <2>6 DEF Placed, TypeOK, Owners
    <3> QED
      BY <2>10, <3>1, <3>2
  <2>18. KnowsFree("push", r)' /\ KnowsQueue("push", r)'
    BY DEF KnowsFree, KnowsQueue, Popping
  <2>19. KnowsNode("push", r)'
    BY <2>3, <2>4, <2>10 DEF KnowsNode, Acquiring
  <2> QED
    BY <1>1, <2>2, <2>8, <2>9, <2>11, <2>12, <2>13, <2>14, <2>15, <2>16, <2>17, <2>18, <2>19, ExchangeStep
<1> QED
  BY <1>2, <1>3

(* The exchange of Push or of Pop changes the queue, and the count that is  *)
(* still to be made makes up for it.                                        *)
LEMMA SizeOwed ==
    ASSUME QueueInv, NEW t \in Thread, NEW l, Goto(t, l), mSize' = mSize,
           \/ /\ Len(queue') = Len(queue) + 1 /\ l \in PushUncounted /\ pc[t] \notin PushUncounted
              /\ l \in PopUncounted <=> pc[t] \in PopUncounted
           \/ /\ Len(queue') = Len(queue) - 1 /\ l \in PopUncounted /\ pc[t] \notin PopUncounted
              /\ l \in PushUncounted <=> pc[t] \in PushUncounted
    PROVE  SizeAccounted'
<1>1. TypeOK /\ SizeAccounted /\ Len(queue) \in Nat
  BY QueueFacts DEF QueueInv, Types
<1> DEFINE a == Uncounted(PushUncounted)
           a2 == Uncounted(PushUncounted)'
           b == Uncounted(PopUncounted)
           b2 == Uncounted(PopUncounted)'
           n == Len(queue)
           n2 == Len(queue')
<1>2. /\ a \in Nat /\ a2 \in Nat
      /\ (l \in PushUncounted <=> pc[t] \in PushUncounted) => a2 = a
      /\ l \in PushUncounted /\ pc[t] \notin PushUncounted => a2 = a + 1
  BY <1>1, Moved DEF PushUncounted
<1>3. /\ b \in Nat /\ b2 \in Nat
      /\ (l \in PopUncounted <=> pc[t] \in PopUncounted) => b2 = b
      /\ l \in PopUncounted /\ pc[t] \notin PopUncounted => b2 = b + 1
  BY <1>1, Moved DEF PopUncounted
<1>4. mSize = (n - 1 - a + b) % SizeMod
  BY <1>1 DEF SizeAccounted, PushUncounted, PopUncounted
<1>5. \/ n2 = n + 1 /\ a2 = a + 1 /\ b2 = b
      \/ n2 = n - 1 /\ a2 = a /\ b2 = b + 1
  BY <1>2, <1>3
<1>6. n \in Nat
  BY <1>1
<1> HIDE DEF a, a2, b, b2, n, n2
<1>7. n2 - 1 - a2 + b2 = n - 1 - a + b
  BY <1>2, <1>3, <1>5, <1>6
<1>8. mSize' = (n2 - 1 - a2 + b2) % SizeMod
  BY <1>4, <1>7
<1> QED
  BY <1>8 DEF a2, b2, n2, SizeAccounted, PushUncounted, PopUncounted

(* Push makes its node the tail: the node gets the next tag, and what is to *)
(* be written to the mPrev of the old tail is true.                         *)
LEMMA PushCasInv ==
    ASSUME QueueInv, NEW t \in Thread, PushCas(t)
    PROVE  QueueInv'
<1>1. /\ Types /\ TypeOK /\ Placed /\ QueueLinked /\ FreeLinked /\ Counted
      /\ loc[t] \in LocalVars /\ pc[t] = "pushCas" /\ deleted = {}
      /\ KnowsNode("pushCas", loc[t])
  BY QueueFacts, NotEnded DEF QueueInv, Types, PushCas, Delayed
<1>2. CASE mTail # loc[t].tail
  <2>1. Goto(t, "push") /\ UNCHANGED <<heads, mSize, nodes, allocated, deleted, calls, loc, result, queue, free>>
    BY <1>2 DEF PushCas, Same, heads, nodes
  <2> QED
    BY <1>1, <2>1, FailedCas
<1>3. CASE mTail = loc[t].tail
  <2> DEFINE n == loc[t].node
  <2>1. PICK r : r = loc[t]
    OBVIOUS
  <2>2. /\ Goto(t, "pushLink") /\ loc' = Set(loc, t, r) /\ r \in LocalVars
        /\ mTail' = MakePointer(n, GetNextTag(mTail)) /\ queue' = Append(queue, n)
        /\ UNCHANGED <<mHead, mFreeNodeHead, mSize, mPrev, mNext, mNextFreeNode, mValue, allocated, deleted, calls,
                       result, free>>
    BY <1>1, <1>3, <2>1 DEF PushCas, Same, Set, nodes, TypeOK
  <2>3. pc[t] \in Owning /\ "pushLink" \notin Owning /\ "pushLink" \in Places
    BY <1>1 DEF Owning, Pushing, Releasing, Places
  <2>4. n \in Node /\ n \in Cell /\ mNext[n].ptr = mTail.ptr
    BY <1>1, <1>3, <2>3, InHand DEF KnowsNode
  <2>5. r.node = n /\ r.tail = mTail
    BY <1>3, <2>1
  <2> HIDE DEF n
  <2>6. /\ queue \in Seq(Node) /\ queue' \in Seq(Node) /\ Len(queue) \in Nat \ {0} /\ Len(queue') = Len(queue) + 1
        /\ queue'[Len(queue) + 1] = n
        /\ \A i \in 1 .. Len(queue) : queue'[i] = queue[i]
    BY <2>2, <2>4, EndAdded, QueueFacts
  <2>7. Placed'
    BY <1>1, <2>2, <2>3, <2>4, PutAtEnd DEF n
  <2>8. ListStep(mHead, queue, mHead', queue') /\ FreeStep(mFreeNodeHead, mFreeNodeHead')
    BY <2>2, <2>4 DEF ListStep, FreeStep
  <2>9. /\ mTail.tag = TagAt(mHead, Len(queue)) /\ mHead.tag \in Nat \ {InvalidTag}
        /\ mTail.ptr = queue[Len(queue)] /\ mHead.ptr = queue[1]
    BY <1>1, QueueFacts DEF Counted, QueueLinked
  <2>10. GetNextTag(mTail) = TagAt(mHead, Len(queue) + 1) /\ GetNextTag(mTail) \in 0 .. TagMod - 1
    <3> DEFINE k == Ord(mHead.tag) + Len(queue) - 1
    <3>1. TagMod \in Nat /\ Ord(mHead.tag) \in Nat /\ Ord(mHead.tag) + Len(queue) + 1 < TagMod
      BY TagRoom
    <3>2. k \in Nat /\ k + 2 < TagMod /\ k + 1 = Ord(mHead.tag) + (Len(queue) + 1) - 1
      BY <2>6, <3>1
    <3>3. mTail.tag = TagOf(k)
      BY <2>9 DEF TagAt
    <3> HIDE DEF k
    <3>4. GetNextTag(mTail) = TagOf(k + 1) /\ TagOf(k + 1) \in 0 .. TagMod - 1
      BY <3>2, <3>3, NextTag
    <3> QED
      BY <3>2, <3>4 DEF TagAt
  <2>11. mTail' \in Word /\ mTail'.ptr = n /\ mTail'.tag = TagAt(mHead, Len(queue) + 1)
    BY <2>2, <2>4, <2>10 DEF MakePointer, Word
  <2>12. Types'
    <3>1. free' \in Seq(Node) /\ Len(queue') > 0 /\ result' \in [Thread -> Value \cup {T0, None}]
          /\ mValue' \in [Cell -> Value \cup {T0}]
      BY <1>1, <2>2, <2>6 DEF Types, TypeOK
    <3> QED
      BY <2>2, <2>3, <2>6, <2>11, <3>1, QueueFacts, TypesStep
  <2>13. QueueLinked'
    <3>1. \A i \in 2 .. Len(queue') : \/ i \in 2 .. Len(queue) /\ i \in 1 .. Len(queue) /\ i - 1 \in 1 .. Len(queue)
                                      \/ i = Len(queue) + 1 /\ i - 1 = Len(queue) /\ i - 1 \in 1 .. Len(queue)
      BY <2>6
    <3>2. \A i \in 2 .. Len(queue') : mNext[queue'[i]].ptr = queue'[i - 1]
      BY <1>1, <2>4, <2>6, <2>9, <3>1 DEF QueueLinked
    <3>3. queue'[1] = queue[1]
      BY <2>6
    <3> QED
      BY <2>2, <2>6, <2>9, <2>11, <3>2, <3>3 DEF QueueLinked
  <2>14. FreeLinked'
    BY <1>1, <2>2 DEF FreeLinked
  <2>15. Counted'
    <3>1. /\ pc[t] \notin Acquiring /\ "pushLink" \notin Acquiring /\ pc[t] \in TailUsers /\ "pushLink" \notin TailUsers
          /\ pc[t] \notin FreeUsers /\ "pushLink" \notin FreeUsers
      BY <1>1 DEF TailUsers, FreeUsers, Acquiring, Pushing, Popping, Releasing
    <3>2. /\ Called' = Called /\ Called \in Nat
          /\ allocated + Uncounted(Acquiring)' <= Called + 1 + Len(free)
          /\ Uncounted(TailUsers)' \in Nat
          /\ Ord(mHead.tag) + Len(queue) - 1 + 1 + Uncounted(TailUsers)' <= Called + 1
          /\ FreeOrd(mFreeNodeHead.tag) + Uncounted(FreeUsers)' <= Called + 1
      BY <2>2, <3>1, CountsLeft
    <3>3. Ord(mHead.tag) + Len(queue') - 1 + Uncounted(TailUsers)' <= Called + 1
      <4>1. Ord(mHead.tag) + Len(queue') - 1 = Ord(mHead.tag) + Len(queue) - 1 + 1
        BY <2>6, TagRoom
      <4> QED
        BY <3>2, <4>1
    <3> QED
      BY <1>1, <2>2, <2>6, <2>11, <3>2, <3>3 DEF Counted
  <2>16. SizeAccounted'
    <3>1. "pushLink" \in PushUncounted /\ pc[t] \notin PushUncounted /\ "pushLink" \notin PopUncounted /\ pc[t] \notin PopUncounted
      BY <1>1 DEF PushUncounted, PopUncounted
    <3> QED
      BY <2>2, <2>6, <3>1, SizeOwed
  <2>17. TrueLink(Link(r), mHead', queue')
    <3>1. Link(r).tag = TagAt(mHead', Len(queue)) /\ Link(r).ptr = queue'[Len(queue) + 1]
      BY <2>2, <2>5, <2>6, <2>9 DEF Link, MakePointer
    <3>2. Len(queue) \in 1 .. Len(queue') - 1
      BY <2>6
    <3> QED
      BY <3>1, <3>2 DEF TrueLink
  <2>18. KnowsFree("pushLink", r)' /\ KnowsNode("pushLink", r)' /\ KnowsQueue("pushLink", r)'
    BY <2>17 DEF KnowsFree, KnowsQueue, KnowsNode, Acquiring, Pushing, Popping
  <2> QED
    BY <1>1, <2>2, <2>7, <2>8, <2>12, <2>13, <2>14, <2>15, <2>16, <2>18, ExchangeStep
<1> QED
  BY <1>2, <1>3

(* Pop makes the successor of the head the head, and has the old head in    *)
(* hand: a matching tag told the truth.                                     *)
LEMMA PopCasInv ==
    ASSUME QueueInv, NEW t \in Thread, PopCas(t)
    PROVE  QueueInv'
<1>1. /\ Types /\ TypeOK /\ Placed /\ QueueLinked /\ FreeLinked /\ Counted
      /\ loc[t] \in LocalVars /\ pc[t] = "popCas" /\ deleted = {}
      /\ KnowsQueue("popCas", loc[t])
  BY QueueFacts, NotEnded DEF QueueInv, Types, PopCas, Delayed
<1>2. CASE mHead # loc[t].head
  <2>1. Goto(t, "head") /\ UNCHANGED <<heads, mSize, nodes, allocated, deleted, calls, loc, result, queue, free>>
    BY <1>2 DEF PopCas, Same, heads, nodes
  <2> QED
    BY <1>1, <2>1, FailedCas
<1>3. CASE mHead = loc[t].head
  <2>1. PICK r : r = [Locals EXCEPT !.node = mHead.ptr]
    OBVIOUS
  <2>2. /\ Goto(t, "release") /\ loc' = Set(loc, t, r)
        /\ mHead' = MakePointer(loc[t].prev.ptr, GetNextTag(mHead)) /\ queue' = Tail(queue)
        /\ result' = Set(result, t, loc[t].elem)
        /\ UNCHANGED <<mTail, mFreeNodeHead, mSize, mPrev, mNext, mNextFreeNode, mValue, allocated, deleted, calls, free>>
    BY <1>3, <2>1 DEF PopCas, NewHead, Same, Set, nodes
  <2>3. pc[t] \notin Owning /\ "release" \in Owning /\ "release" \in Places
    BY <1>1 DEF Owning, Pushing, Releasing, Places
  <2>4. r \in LocalVars /\ r.node = mHead.ptr /\ mHead.ptr = queue[1]
    BY <2>1, QueueFacts DEF LocalVars, Locals
  <2>5. IsQueue(mHead, queue) /\ mHead.tag # TagMod - 1 /\ mHead.tag \in Nat \ {InvalidTag}
    BY QueueFacts
  <2>6. Len(queue) > 1 /\ Len(queue) \in Nat /\ loc[t].prev.ptr = queue[2]
    <3>1. /\ loc[t].prev.tag = mHead.tag /\ GoodLink(mHead.ptr, loc[t].prev, mHead, queue)
          /\ loc[t].prev.ptr # Wild
      BY <1>1, <1>3, WildApart DEF KnowsQueue
    <3> QED
      BY <2>4, <2>5, <3>1, PrevTrue
  <2>7. /\ queue \in Seq(Node) /\ queue' \in Seq(Node) /\ Len(queue') = Len(queue) - 1
        /\ \A i \in 1 .. Len(queue') : queue'[i] = queue[i + 1]
        /\ \A i \in 1 .. Len(queue) : queue[i] \in Node
    <3>1. queue \in Seq(Node) /\ NoRepeats(queue)
      BY <1>1 DEF Types, Placed
    <3> QED
      BY <2>2, <2>6, <3>1, FirstTaken, ElementOfSeq
  <2>8. Placed'
    BY <1>1, <2>2, <2>3, <2>4, TakenInHand
  <2>9. GetNextTag(mHead) = TagAt(mHead, 2) /\ GetNextTag(mHead) \in 0 .. TagMod - 1
    <3> DEFINE k == Ord(mHead.tag)
    <3>1. TagMod \in Nat /\ k \in Nat /\ k + Len(queue) + 1 < TagMod
      BY TagRoom
    <3>2. k + 2 < TagMod /\ k + 1 = k + 2 - 1
      BY <2>6, <3>1
    <3>3. mHead.tag = TagOf(k)
      BY <2>5, TagsOrdered
    <3> HIDE DEF k
    <3>4. GetNextTag(mHead) = TagOf(k + 1) /\ TagOf(k + 1) \in 0 .. TagMod - 1
      BY <3>1, <3>2, <3>3, NextTag
    <3> QED
      BY <3>2, <3>4 DEF TagAt, k
  <2>10. mHead' \in Word /\ mHead' = MakePointer(queue[2], TagAt(mHead, 2)) /\ mHead'.ptr = queue[2] /\ mHead'.tag = TagAt(mHead, 2)
    <3>1. queue[2] \in Cell
      BY <2>6, <2>7 DEF Cell
    <3> QED
      BY <2>2, <2>6, <2>9, <3>1 DEF MakePointer, Word
  <2>11. ListStep(mHead, queue, mHead', queue') /\ FreeStep(mFreeNodeHead, mFreeNodeHead')
    BY <2>2, <2>6, <2>10 DEF ListStep, FreeStep
  <2>12. mHead'.tag # InvalidTag /\ mHead'.tag # TagMod - 1 /\ Ord(mHead'.tag) = Ord(mHead.tag) + 1
    <3> DEFINE k == Ord(mHead.tag) + 1
    <3>1. TagAt(mHead, 2) = TagOf(k) /\ k \in Nat
      BY TagRoom DEF TagAt
    <3>2. k + 2 < TagMod /\ TagMod \in Nat
      BY <2>6, TagRoom
    <3> HIDE DEF k
    <3>3. TagOf(k) # InvalidTag /\ TagOf(k) \in Nat /\ Ord(TagOf(k)) = k /\ TagOf(k) <= k + 1
      BY <3>1, TagsOrdered
    <3>4. TagOf(k) # TagMod - 1
      BY <3>1, <3>2, <3>3
    <3> QED
      BY <2>10, <3>1, <3>3, <3>4 DEF k
  <2>13. mTail.tag = TagAt(mHead', Len(queue'))
    <3>1. Len(queue) \in 2 .. Len(queue) /\ mHead' # mHead
      <4>1. Ord(mHead'.tag) # Ord(mHead.tag)
        BY <2>12, TagRoom
      <4> QED
        BY <2>6, <4>1
    <3>2. \A i \in 2 .. Len(queue) : TagAt(mHead', i - 1) = TagAt(mHead, i)
      BY <2>5, <2>11, <3>1, StepTags
    <3> QED
      BY <1>1, <2>7, <3>1, <3>2 DEF Counted
  <2>14. result' \in [Thread -> Value \cup {T0, None}]
    BY <1>1, <2>2 DEF Types, Set, LocalVars
  <2>15. Types'
    <3>1. free' \in Seq(Node) /\ Len(queue') > 0 /\ mValue' \in [Cell -> Value \cup {T0}]
      BY <1>1, <2>2, <2>6, <2>7 DEF Types, TypeOK
    <3> QED
      BY <2>2, <2>3, <2>4, <2>7, <2>10, <2>14, <3>1, QueueFacts, TypesStep
  <2>16. QueueLinked'
    <3>1. \A i \in 2 .. Len(queue') : /\ i + 1 \in 2 .. Len(queue) /\ i \in 1 .. Len(queue') /\ i - 1 \in 1 .. Len(queue')
                                      /\ (i + 1) - 1 = i /\ (i - 1) + 1 = i
      BY <2>6, <2>7
    <3>2. \A i \in 2 .. Len(queue') : mNext[queue'[i]].ptr = queue'[i - 1]
      <4> SUFFICES ASSUME NEW i \in 2 .. Len(queue') PROVE mNext[queue'[i]].ptr = queue'[i - 1]
        OBVIOUS
      <4>1. PICK j \in 2 .. Len(queue) : j = i + 1 /\ j - 1 = i
        BY <3>1
      <4>2. mNext[queue[j]].ptr = queue[j - 1]
        BY <1>1 DEF QueueLinked
      <4>3. queue'[i] = queue[j]
        BY <2>7, <3>1, <4>1
      <4>4. queue'[i - 1] = queue[i]
        BY <2>7, <3>1
      <4> QED
        BY <4>1, <4>2, <4>3, <4>4
    <3>3. queue'[1] = queue[2] /\ queue'[Len(queue')] = queue[Len(queue)]
      BY <2>6, <2>7
    <3> QED
      BY <1>1, <2>2, <2>10, <3>2, <3>3 DEF QueueLinked
  <2>17. FreeLinked'
    BY <1>1, <2>2 DEF FreeLinked
  <2>18. Counted'
    <3>1. /\ pc[t] \notin Acquiring /\ "release" \notin Acquiring /\ pc[t] \notin TailUsers /\ "release" \notin TailUsers
          /\ pc[t] \in FreeUsers
      BY <1>1 DEF TailUsers, FreeUsers, Acquiring, Pushing, Popping, Releasing
    <3>2. /\ Called' = Called
          /\ allocated + Uncounted(Acquiring)' <= Called + 1 + Len(free)
          /\ Ord(mHead.tag) + Len(queue) - 1 + Uncounted(TailUsers)' <= Called + 1
          /\ FreeOrd(mFreeNodeHead.tag) + Uncounted(FreeUsers)' <= Called + 1
      BY <2>2, <3>1, CountsLeft
    <3>3. Ord(mHead'.tag) + Len(queue') - 1 = Ord(mHead.tag) + Len(queue) - 1
      BY <2>6, <2>7, <2>12, TagRoom
    <3> QED
      BY <1>1, <2>2, <2>12, <2>13, <3>2, <3>3 DEF Counted
  <2>19. SizeAccounted'
    <3>1. "release" \notin PushUncounted /\ pc[t] \notin PushUncounted /\ "release" \in PopUncounted /\ pc[t] \notin PopUncounted
      BY <1>1 DEF PushUncounted, PopUncounted
    <3> QED
      BY <2>2, <2>7, <3>1, SizeOwed
  <2>20. KnowsFree("release", r)' /\ KnowsNode("release", r)' /\ KnowsQueue("release", r)'
    BY DEF KnowsFree, KnowsQueue, KnowsNode, Acquiring, Pushing, Popping
  <2> QED
    BY <1>1, <2>2, <2>8, <2>11, <2>15, <2>16, <2>17, <2>18, <2>19, <2>20, ExchangeStep
<1> QED
  BY <1>2, <1>3

(* ReleaseNode makes the node in hand the newest one of the free list. *)
LEMMA ReleaseCasInv ==
    ASSUME QueueInv, NEW t \in Thread, ReleaseCas(t)
    PROVE  QueueInv'
<1>1. /\ Types /\ TypeOK /\ Placed /\ QueueLinked /\ FreeLinked /\ Counted /\ SizeAccounted
      /\ loc[t] \in LocalVars /\ pc[t] = "releaseCas" /\ deleted = {}
      /\ KnowsNode("releaseCas", loc[t])
  BY QueueFacts, NotEnded DEF QueueInv, Types, ReleaseCas, Delayed
<1>2. CASE mFreeNodeHead # loc[t].head
  <2>1. Goto(t, "release") /\ UNCHANGED <<heads, mSize, nodes, allocated, deleted, calls, loc, result, queue, free>>
    BY <1>2 DEF ReleaseCas, Same, heads, nodes
  <2> QED
    BY <1>1, <2>1, FailedCas
<1>3. CASE mFreeNodeHead = loc[t].head
  <2> DEFINE n == loc[t].node
  <2>1. PICK r : r = loc[t]
    OBVIOUS
  <2>2. /\ Goto(t, "popSize") /\ loc' = Set(loc, t, r) /\ r \in LocalVars
        /\ mFreeNodeHead' = MakePointer(n, GetNextTag(mFreeNodeHead)) /\ free' = Append(free, n)
        /\ UNCHANGED <<mHead, mTail, mSize, mPrev, mNext, mNextFreeNode, mValue, allocated, deleted, calls,
                       result, queue>>
    BY <1>1, <1>3, <2>1 DEF ReleaseCas, Same, Set, nodes, TypeOK
  <2>3. pc[t] \in Owning /\ "popSize" \notin Owning /\ "popSize" \in Places
    BY <1>1 DEF Owning, Pushing, Releasing, Places
  <2>4. n \in Node /\ n \in Cell /\ mNextFreeNode[n] = mFreeNodeHead.ptr
    BY <1>1, <1>3, <2>3, InHand DEF KnowsNode
  <2> HIDE DEF n
  <2>5. /\ free \in Seq(Node) /\ free' \in Seq(Node) /\ Len(free) \in Nat /\ Len(free') = Len(free) + 1
        /\ free'[Len(free) + 1] = n
        /\ \A i \in 1 .. Len(free) : free'[i] = free[i]
    BY <1>1, <2>2, <2>4, EndAdded DEF Types
  <2>6. Placed'
    BY <1>1, <2>2, <2>3, <2>4, PutAtEnd DEF n
  <2>7. /\ mFreeNodeHead' \in Word /\ mFreeNodeHead'.ptr = n /\ mFreeNodeHead'.tag # InvalidTag
        /\ FreeOrd(mFreeNodeHead'.tag) = FreeOrd(mFreeNodeHead.tag) + 1
        /\ FreeStep(mFreeNodeHead, mFreeNodeHead')
    BY <2>2, <2>4, FreeExchanged
  <2>8. ListStep(mHead, queue, mHead', queue')
    BY <2>2 DEF ListStep
  <2>9. Types'
    <3>1. /\ queue' \in Seq(Node) /\ Len(queue') > 0 /\ result' \in [Thread -> Value \cup {T0, None}]
          /\ mValue' \in [Cell -> Value \cup {T0}] /\ mHead' \in Word /\ mTail' \in Word
      BY <1>1, <2>2, QueueFacts DEF Types, TypeOK
    <3> QED
      BY <2>2, <2>3, <2>5, <2>7, <3>1, TypesStep
  <2>10. QueueLinked'
    BY <1>1, <2>2 DEF QueueLinked
  <2>11. FreeLinked'
    <3>1. free' # <<>>
      BY <2>5, EmptySeq
    <3>2. CASE free = <<>>
      <4>1. Len(free) = 0 /\ Len(free') = 1 /\ free'[1] = n /\ mFreeNodeHead.ptr = Null
        BY <1>1, <2>5, <3>2, EmptySeq DEF FreeLinked
      <4> QED
        BY <2>2, <2>4, <2>7, <3>1, <4>1 DEF FreeLinked
    <3>3. CASE free # <<>>
      <4>1. Len(free) \in Nat \ {0} /\ mFreeNodeHead.ptr = free[Len(free)] /\ mNextFreeNode[free[1]] = Null
        BY <1>1, <2>5, <3>3, EmptySeq DEF FreeLinked
      <4>2. \A i \in 2 .. Len(free') : \/ i \in 2 .. Len(free) /\ i \in 1 .. Len(free) /\ i - 1 \in 1 .. Len(free)
                                       \/ i = Len(free) + 1 /\ i - 1 = Len(free) /\ i - 1 \in 1 .. Len(free)
        BY <2>5, <4>1
      <4>3. \A i \in 2 .. Len(free') : mNextFreeNode[free'[i]] = free'[i - 1]
        BY <1>1, <2>4, <2>5, <4>1, <4>2 DEF FreeLinked
      <4>4. free'[1] = free[1] /\ free'[Len(free')] = n
        BY <2>5, <4>1
      <4> QED
        BY <2>2, <2>7, <3>1, <4>1, <4>3, <4>4 DEF FreeLinked
    <3> QED
      BY <3>2, <3>3
  <2>12. Counted'
    <3>1. /\ pc[t] \notin Acquiring /\ "popSize" \notin Acquiring /\ pc[t] \notin TailUsers /\ "popSize" \notin TailUsers
          /\ pc[t] \in FreeUsers /\ "popSize" \notin FreeUsers
      BY <1>1 DEF TailUsers, FreeUsers, Acquiring, Pushing, Popping, Releasing
    <3>2. /\ Called' = Called /\ Called \in Nat
          /\ Uncounted(Acquiring)' \in Nat
          /\ allocated + Uncounted(Acquiring)' <= Called + 1 + Len(free)
          /\ Ord(mHead.tag) + Len(queue) - 1 + Uncounted(TailUsers)' <= Called + 1
          /\ FreeOrd(mFreeNodeHead.tag) + 1 + Uncounted(FreeUsers)' <= Called + 1
      BY <2>2, <3>1, CountsLeft
    <3>3. allocated + Uncounted(Acquiring)' <= Called + 1 + Len(free')
      <4> DEFINE b == Uncounted(Acquiring)'
      <4>1. b \in Nat /\ allocated + b <= Called + 1 + Len(free) /\ allocated \in Nat
        BY <1>1, <3>2, CallsBounded DEF Types
      <4> HIDE DEF b
      <4>2. allocated + b <= Called + 1 + Len(free')
        BY <2>5, <3>2, <4>1
      <4> QED
        BY <4>2 DEF b
    <3> QED
      BY <1>1, <2>2, <2>7, <3>2, <3>3 DEF Counted
  <2>13. SizeAccounted'
    BY <1>1, <2>2, SizeStays DEF PushUncounted, PopUncounted
  <2>14. KnowsFree("popSize", r)' /\ KnowsNode("popSize", r)' /\ KnowsQueue("popSize", r)'
    BY DEF KnowsFree, KnowsQueue, KnowsNode, Acquiring, Pushing, Popping
  <2> QED
    BY <1>1, <2>2, <2>6, <2>7, <2>8, <2>9, <2>10, <2>11, <2>12, <2>13, <2>14, ExchangeStep
<1> QED
  BY <1>2, <1>3

(* The loops of the destructor visit the two lists. *)
LEMMA FreeWalked ==
    ASSUME QueueInv
    PROVE  FreeChain = Elements(free)
<1>1. free \in Seq(Node) /\ Len(free) \in Nat /\ FreeLinked /\ Null \notin Node
  BY LenProperties DEF QueueInv, Types, Null, Node
<1>2. CASE free = <<>>
  <2>1. Len(free) = 0 /\ mFreeNodeHead.ptr = Null
    BY <1>1, <1>2 DEF FreeLinked
  <2>2. FreeChain = {}
    BY <1>1, <2>1, ChainOutside DEF FreeChain
  <2> QED
    BY <2>1, <2>2 DEF Elements
<1>3. CASE free # <<>>
  <2>1. PICK n : n = Len(free)
    OBVIOUS
  <2>2. n \in Nat \ {0} /\ free \in [1 .. n -> Node]
    BY <1>1, <1>3, <2>1, EmptySeq
  <2>3. LinkedBackward(mNextFreeNode, Node, n, free)
    BY <1>1, <1>3, <2>1, <2>2 DEF FreeLinked, LinkedBackward
  <2>4. Chain(mNextFreeNode, Node, free[n]) = Visited(free, n)
    BY <2>3, ChainBackward
  <2> QED
    BY <1>1, <1>3, <2>1, <2>4 DEF FreeChain, FreeLinked, Elements, Visited
<1> QED
  BY <1>2, <1>3

LEMMA QueueWalked ==
    ASSUME QueueInv
    PROVE  QueueChain = Elements(queue)
<1>1. PICK n, next : /\ n = Len(queue)
                     /\ next = [x \in Cell |-> IF x = mHead.ptr THEN Null ELSE mNext[x].ptr]
  OBVIOUS
<1>2. /\ n \in Nat \ {0} /\ queue \in [1 .. n -> Node] /\ QueueLinked /\ NoRepeats(queue)
      /\ Null \notin Node
  BY <1>1, QueueFacts DEF QueueInv, Placed, Null, Node
<1>3. next[queue[1]] \notin Node
  BY <1>1, <1>2 DEF QueueLinked, Cell
<1>4. ASSUME NEW i \in 2 .. n PROVE next[queue[i]] = queue[i - 1]
  <2>1. 1 \in 1 .. n /\ i \in 1 .. n /\ i # 1
    BY <1>2
  <2>2. queue[i] # mHead.ptr /\ queue[i] \in Cell
    BY <1>1, <1>2, <2>1 DEF QueueLinked, NoRepeats, Cell
  <2> QED
    BY <1>1, <1>2, <2>2 DEF QueueLinked
<1>5. LinkedBackward(next, Node, n, queue)
  BY <1>2, <1>3, <1>4 DEF LinkedBackward
<1>6. Chain(next, Node, queue[n]) = Visited(queue, n)
  BY <1>5, ChainBackward
<1> QED
  BY <1>1, <1>2, <1>6 DEF QueueChain, QueueLinked, Elements, Visited

(* The destructor deletes every node: none is in the hands of a thread. *)
LEMMA DestroyInv ==
    ASSUME QueueInv, Destroy
    PROVE  QueueInv'
<1>1. Owners = {}
  BY DEF Destroy, Owners
<1>2. Elements(queue) \cup Elements(free) = 1 .. allocated
  BY <1>1 DEF QueueInv, Placed
<1>3. deleted' = 1 .. allocated
  BY <1>2, QueueWalked, FreeWalked DEF Destroy, Deleted
<1>4. UNCHANGED <<mHead, mTail, mFreeNodeHead, mSize, mPrev, mNext, mNextFreeNode, mValue, allocated,
                  pc, calls, loc, result, queue, free>>
  BY DEF Destroy, heads, nodes
<1>5. Ended'
  BY <1>3, <1>4 DEF Ended, Destroy
<1>6. Types' /\ Counted' /\ SizeAccounted'
  BY <1>4 DEF QueueInv, Types, TypeOK, Counted, SizeAccounted, Uncounted, Called
<1>7. Placed'
  <2>1. Owners' = Owners
    BY <1>4 DEF Owners
  <2>2. /\ Elements(queue)' = Elements(queue) /\ Elements(free)' = Elements(free) /\ Cardinality(Owners)' = Cardinality(Owners)
        /\ NoRepeats(queue)' = NoRepeats(queue) /\ NoRepeats(free)' = NoRepeats(free)
    BY <1>4, <2>1 DEF Elements, NoRepeats
  <2> QED
    BY <1>4, <2>1, <2>2 DEF QueueInv, Placed
<1>8. QueueLinked' /\ FreeLinked' /\ PrevGood'
  BY <1>4 DEF QueueInv, QueueLinked, FreeLinked, PrevGood
<1>9. \A t \in Thread : Delayed(t)'
  BY <1>4 DEF QueueInv, Delayed, KnowsFree, KnowsNode, KnowsQueue, At
<1> QED
  BY <1>5, <1>6, <1>7, <1>8, <1>9 DEF QueueInv

(* A state in which nothing changes. *)
LEMMA StutterInv ==
    ASSUME QueueInv, UNCHANGED vars
    PROVE  QueueInv'
<1>1. UNCHANGED <<mHead, mTail, mFreeNodeHead, mSize, mPrev, mNext, mNextFreeNode, mValue, allocated, deleted,
                  pc, calls, loc, result, queue, free>>
  BY DEF vars, heads, nodes
<1>2. Types' /\ Counted' /\ SizeAccounted' /\ Ended'
  BY <1>1 DEF QueueInv, Types, TypeOK, Counted, SizeAccounted, Uncounted, Called, Ended
<1>3. Placed'
  <2>1. Owners' = Owners
    BY <1>1 DEF Owners
  <2>2. /\ Elements(queue)' = Elements(queue) /\ Elements(free)' = Elements(free) /\ Cardinality(Owners)' = Cardinality(Owners)
        /\ NoRepeats(queue)' = NoRepeats(queue) /\ NoRepeats(free)' = NoRepeats(free)
    BY <1>1, <2>1 DEF Elements, NoRepeats
  <2> QED
    BY <1>1, <2>1, <2>2 DEF QueueInv, Placed
<1>4. QueueLinked' /\ FreeLinked' /\ PrevGood'
  BY <1>1 DEF QueueInv, QueueLinked, FreeLinked, PrevGood
<1>5. \A t \in Thread : Delayed(t)'
  BY <1>1 DEF QueueInv, Delayed, KnowsFree, KnowsNode, KnowsQueue, At
<1> QED
  BY <1>2, <1>3, <1>4, <1>5 DEF QueueInv

(* The constructor, and a queue that one element has been through. *)
LEMMA InitInv == Init => QueueInv
<1> SUFFICES ASSUME Init PROVE QueueInv
  OBVIOUS
<1>1. /\ TagMod \in Nat /\ InvalidTag \in Nat /\ 1 < InvalidTag /\ InvalidTag < TagMod - 1
      /\ SizeMod \in Nat \ {0} /\ AllCalls \in Nat \ {0}
  <2>1. IsFiniteSet(Thread) /\ MaxCalls \in [Thread -> Nat]
    BY QueueAssumption
  <2>2. AllCalls \in Nat
    BY <2>1, SumOfNaturals DEF AllCalls
  <2> QED
    BY <2>2, TagsOrdered, QueueAssumption
<1>2. {1, 2} \subseteq Node /\ {0, 1, 2} \subseteq Cell /\ Null = 0 /\ 1 \in Value /\ {0, 1, TagMod - 1, InvalidTag} \subseteq 0 .. TagMod - 1
  BY <1>1 DEF Node, Cell, Null, Value
<1>3. \A p \in {0, 1, 2}, tag \in {0, 1, TagMod - 1, InvalidTag} :
          MakePointer(p, tag) \in Word /\ MakePointer(p, tag) \in AnyWord
  BY <1>2 DEF MakePointer, Word, AnyWord
<1>4. kNullPointer \in Word /\ kNullPointer \in AnyWord /\ kNullPointer = MakePointer(0, TagMod - 1)
  BY <1>2, <1>3 DEF kNullPointer
<1>5. /\ {mHead, mTail, mFreeNodeHead} \subseteq Word /\ mPrev \in [Cell -> AnyWord] /\ mNext \in [Cell -> Word]
      /\ mNextFreeNode \in [Cell -> Cell] /\ mValue \in [Cell -> Value \cup {T0}]
  <2>1. CASE Constructed
    BY <1>2, <1>3, <1>4, <2>1 DEF Constructed
  <2>2. CASE Used
    <3>1. mNext \in [Cell -> Word]
      BY <1>2, <1>3, <1>4, <2>2 DEF Used
    <3>2. mPrev \in [Cell -> AnyWord]
      <4>1. PICK tag \in FreshTag :
              mPrev = [n \in Cell |-> IF n = 1 THEN MakePointer(Null, InvalidTag) ELSE MakePointer(Wild, tag)]
        BY <2>2 DEF Used
      <4>2. MakePointer(Wild, tag) \in AnyWord /\ MakePointer(Null, InvalidTag) \in AnyWord
        BY <1>2, <1>3, QueueAssumption DEF MakePointer, AnyWord
      <4> QED
        BY <4>1, <4>2
    <3> QED
      BY <1>2, <1>3, <2>2, <3>1, <3>2 DEF Used
  <2> QED
    BY <2>1, <2>2 DEF Init
<1>6. Locals \in LocalVars
  BY <1>2, <1>4 DEF Locals, LocalVars
<1>7. TypeOK
  <2>1. mSize \in 0 .. SizeMod - 1 /\ pc = [t \in Thread |-> "idle"]
    BY <1>1 DEF Init
  <2>2. loc \in [Thread -> LocalVars]
    BY <1>6 DEF Init
  <2> QED
    BY <1>5, <2>1, <2>2 DEF TypeOK, LocalVars
<1>8. \/ queue = <<1>> /\ free = <<>> /\ allocated = 1
      \/ queue = <<2>> /\ free = <<1>> /\ allocated = 2
  BY DEF Init, Constructed, Used
<1>9. /\ queue \in Seq(Node) /\ Len(queue) = 1 /\ free \in Seq(Node) /\ Len(free) = allocated - 1
      /\ allocated \in 1 .. 2
  <2>1. CASE queue = <<1>> /\ free = <<>> /\ allocated = 1
    <3>1. <<1>> \in Seq(Node) /\ Len(<<1>>) = 1 /\ <<>> \in Seq(Node) /\ Len(<<>>) = 0
      BY <1>2
    <3> QED
      BY <2>1, <3>1
  <2>2. CASE queue = <<2>> /\ free = <<1>> /\ allocated = 2
    <3>1. <<2>> \in Seq(Node) /\ Len(<<2>>) = 1 /\ <<1>> \in Seq(Node) /\ Len(<<1>>) = 1
      BY <1>2
    <3> QED
      BY <2>2, <3>1
  <2> QED
    BY <1>8, <2>1, <2>2
<1>10. Types
  <2>1. calls \in [Thread -> Nat] /\ (\A t \in Thread : calls[t] <= MaxCalls[t])
    BY QueueAssumption DEF Init
  <2>2. allocated \in 1 .. AllCalls + 1 /\ Len(queue) > 0
    BY <1>1, <1>9
  <2>3. result \in [Thread -> Value \cup {T0, None}]
    BY DEF Init
  <2> QED
    BY <1>7, <1>9, <2>1, <2>2, <2>3 DEF Types
<1>11. Owners = {} /\ (\A P : "idle" \notin P => Uncounted(P) = 0)
  BY FS_EmptySet DEF Init, Owners, Uncounted
<1>12. Elements(queue) = {allocated} /\ Elements(free) = 1 .. allocated - 1
  BY <1>8 DEF Elements
<1>13. Placed
  <2>1. Len(queue) + Len(free) + Cardinality(Owners) = allocated
    BY <1>9, <1>11, FS_EmptySet
  <2>2. {allocated} \cup (1 .. allocated - 1) = 1 .. allocated /\ {allocated} \cap (1 .. allocated - 1) = {}
    BY <1>9
  <2>3. NoRepeats(queue) /\ NoRepeats(free)
    BY <1>9 DEF NoRepeats
  <2> QED
    BY <1>11, <1>12, <2>1, <2>2, <2>3 DEF Placed
<1>14. QueueLinked /\ FreeLinked
  <2>1. queue[1] = mHead.ptr /\ mTail.ptr = mHead.ptr /\ (\A i \in 2 .. Len(queue) : FALSE)
    BY <1>9 DEF Init, Constructed, Used, MakePointer
  <2>2. CASE Constructed
    <3>1. free = <<>> /\ Len(free) = 0 /\ mFreeNodeHead.ptr = Null
      BY <2>2 DEF Constructed, kNullPointer, MakePointer
    <3> QED
      BY <1>9, <2>1, <3>1 DEF QueueLinked, FreeLinked
  <2>3. CASE Used
    <3>1. free = <<1>> /\ free # <<>> /\ Len(free) = 1 /\ free[1] = 1 /\ mFreeNodeHead.ptr = 1 /\ mNextFreeNode[1] = Null
      BY <1>2, <2>3 DEF Used, MakePointer
    <3> QED
      BY <1>9, <2>1, <3>1 DEF QueueLinked, FreeLinked
  <2> QED
    BY <2>2, <2>3 DEF Init
<1>15. Counted
  <2>1. Called \in Nat
    BY <1>10, CallsBounded
  <2>2. Uncounted(Acquiring) = 0 /\ Uncounted(TailUsers) = 0 /\ Uncounted(FreeUsers) = 0
    BY <1>11 DEF Acquiring, TailUsers, FreeUsers, Pushing, Popping, Releasing
  <2>3. /\ mHead.tag \in {0, 1} /\ mTail.tag = mHead.tag
        /\ mFreeNodeHead.tag \in {0, TagMod - 1}
    BY DEF Init, Constructed, Used, kNullPointer, MakePointer
  <2>4. Ord(mHead.tag) = mHead.tag /\ FreeOrd(mFreeNodeHead.tag) \in {0, 1}
    BY <1>1, <2>3 DEF Ord, FreeOrd
  <2>5. mHead.tag \notin {InvalidTag, TagMod - 1} /\ mFreeNodeHead.tag # InvalidTag
    BY <1>1, <2>3
  <2>6. mTail.tag = TagAt(mHead, Len(queue))
    BY <1>1, <1>9, <2>3, <2>4 DEF TagAt, TagOf
  <2> QED
    BY <1>9, <2>1, <2>2, <2>3, <2>4, <2>5, <2>6 DEF Counted
<1>16. SizeAccounted
  <2>1. 0 % SizeMod = 0
    BY <1>1, SmallRemainder
  <2>2. Uncounted(PushUncounted) = 0 /\ Uncounted(PopUncounted) = 0
    BY <1>11 DEF PushUncounted, PopUncounted
  <2> QED
    BY <1>9, <2>1, <2>2 DEF SizeAccounted, Init, PushUncounted, PopUncounted
<1>17. PrevGood
  <2>1. CASE Constructed
    BY <2>1 DEF Constructed, PrevGood, GoodLink, TrueLink, MakePointer
  <2>2. CASE Used
    <3>1. PICK tag \in FreshTag :
            mPrev = [n \in Cell |-> IF n = 1 THEN MakePointer(Null, InvalidTag) ELSE MakePointer(Wild, tag)]
      BY <2>2 DEF Used
    <3>2. mHead.tag = 1 /\ (tag = 0 => tag < mHead.tag)
      BY <2>2 DEF Used, MakePointer
    <3> QED
      BY <3>1, <3>2 DEF PrevGood, GoodLink, TrueLink, MakePointer
  <2> QED
    BY <2>1, <2>2 DEF Init
<1>18. \A t \in Thread : Delayed(t)
  BY DEF Init, Delayed, KnowsFree, KnowsNode, KnowsQueue, Acquiring, Pushing, Popping
<1>19. Ended
  BY DEF Init, Ended
<1> QED
  BY <1>10, <1>13, <1>14, <1>15, <1>16, <1>17, <1>18, <1>19 DEF QueueInv

(* Every step keeps the invariant. *)
LEMMA StepInv == QueueInv /\ [Next]_vars => QueueInv'
<1> SUFFICES ASSUME QueueInv, [Next]_vars PROVE QueueInv'
  OBVIOUS
<1>1. ASSUME NEW t \in Thread, Step(t) PROVE QueueInv'
  BY <1>1, AcquireReadInv, AllocateInv, AcquireNextInv, AcquireCasInv, PushLoadInv, PushCasInv, PushLinkInv, SizeInv,
     PopHeadInv, PopTailInv, PopPrevInv, PopAgainInv, PopValueInv, PopCasInv, FixTestInv, FixNextInv,
     FixPrevInv, ReleaseLoadInv, ReleaseCasInv DEF Step
<1> QED
  BY <1>1, CallPushInv, CallPopInv, DestroyInv, StutterInv DEF Next, Gone

(* The inductive invariant of the queue. *)
THEOREM QueueInvariant == Spec => []QueueInv
  BY InitInv, StepInv, PTL DEF Spec

(* Whatever the delayed calls have seen, every node of LockFreeQueue is in  *)
(* the queue, in the free list or in one thread's hands, both lists are     *)
(* what the links say, the size is right but for the calls that have yet to *)
(* count, and the destructor deletes every node once: for any number of     *)
(* threads and calls, as long as the tags do not come round.                *)
THEOREM QueueListsIntact == Spec => []ListsIntact
<1>1. QueueInv => ListsIntact
  BY DEF QueueInv, Types, Placed, QueueLinked, FreeLinked, Ended, ListsIntact, EachNodeInOnePlace
<1> QED
  BY <1>1, QueueInvariant, PTL

(* An mPrev that Push, FixList or ReleaseNode wrote and that has the tag of *)
(* the head is the successor of the head: the Pop that trusts it makes the  *)
(* right node the head, and nothing is read or written through a null       *)
(* pointer.  One that nobody has written, of a node that new memory gave    *)
(* arbitrary tag bits, can be trusted too, but not if those bits are 0.     *)
THEOREM QueueTagsTell == Spec => []MatchingTagTellsTruth
<1>1. ASSUME QueueInv PROVE MatchingTagTellsTruth
  <2>1. /\ IsQueue(mHead, queue) /\ mHead.ptr = queue[1] /\ mHead.tag # TagMod - 1 /\ mHead.ptr \in Cell
        /\ \A i \in 1 .. Len(queue) : queue[i] \in Node
    BY <1>1, QueueFacts
  <2>2. PICK w : w = mPrev[mHead.ptr] /\ GoodLink(mHead.ptr, w, mHead, queue)
    BY <1>1, <2>1 DEF QueueInv, PrevGood
  <2>3. w.tag = mHead.tag =>
           IF w.ptr = Wild THEN w.tag # 0 ELSE Len(queue) > 1 /\ w.ptr = queue[2]
    <3>1. CASE w.tag = mHead.tag /\ w.ptr = Wild
      BY <2>1, <2>2, <3>1, WildHead
    <3>2. CASE w.tag = mHead.tag /\ w.ptr # Wild
      BY <2>1, <2>2, <3>2, PrevTrue
    <3> QED
      BY <3>1, <3>2
  <2>4. ASSUME NEW t \in Thread
        PROVE  /\ pc[t] \in {"value", "popCas"} => loc[t].prev.ptr # Null
               /\ pc[t] = "popCas" /\ loc[t].head = mHead => loc[t].prev.ptr = queue[2]
               /\ pc[t] = "wild" => loc[t].prev.tag # 0
               /\ pc[t] = "fixPrev" => loc[t].next # Null
    <3>1. KnowsQueue(pc[t], loc[t]) /\ Null \notin Node
      BY <1>1 DEF QueueInv, Delayed, Null, Node
    <3>2. CASE pc[t] = "popCas" /\ loc[t].head = mHead
      <4>1. /\ loc[t].prev.tag = mHead.tag /\ GoodLink(mHead.ptr, loc[t].prev, mHead, queue)
            /\ loc[t].prev.ptr # Wild
        BY <3>1, <3>2, WildApart DEF KnowsQueue
      <4> QED
        BY <2>1, <3>1, <3>2, <4>1, PrevTrue DEF KnowsQueue
    <3> QED
      BY <3>1, <3>2 DEF KnowsQueue
  <2> QED
    BY <2>2, <2>3, <2>4 DEF MatchingTagTellsTruth
<1> QED
  BY <1>1, QueueInvariant, PTL

-----------------------------------------------------------------------------
(* LockFreeQueue implements Fifo.  What the queue holds, and who has seen   *)
(* it empty.                                                                *)
AbsQue == [i \in 1 .. Len(queue) - 1 |-> mValue[queue[i + 1]]]
AbsSeen == [t \in Thread |-> /\ pc[t] \in {"prev", "again"}
                             /\ loc[t].tail = loc[t].head]

(* A step of t changes what t has seen, and nobody else's. *)
LEMMA ChangedAt ==
    ASSUME NEW S, NEW f, NEW g, NEW t \in S, NEW b,
           f = [u \in S |-> f[u]], g = [u \in S |-> g[u]],
           \A u \in S \ {t} : g[u] = f[u], g[t] = b
    PROVE  g = [f EXCEPT ![t] = b] /\ (f[t] = b => g = f)
  OBVIOUS

(* Whether a Pop has seen the queue empty is up to its own thread. *)
LEMMA SeenMoves ==
    ASSUME QueueInv, NEW t \in Thread, NEW l, NEW r, Goto(t, l), loc' = Set(loc, t, r),
           NEW b \in BOOLEAN, b <=> l \in {"prev", "again"} /\ r.tail = r.head
    PROVE  /\ AbsSeen' = [AbsSeen EXCEPT ![t] = b]
           /\ (b <=> pc[t] \in {"prev", "again"} /\ loc[t].tail = loc[t].head) => AbsSeen' = AbsSeen
<1>1. pc'[t] = l /\ loc'[t] = r /\ (\A u \in Thread \ {t} : pc'[u] = pc[u] /\ loc'[u] = loc[u])
  BY DEF QueueInv, Types, TypeOK, Goto, Set
<1> DEFINE f == AbsSeen
           g == AbsSeen'
<1>2. f = [u \in Thread |-> f[u]] /\ g = [u \in Thread |-> g[u]]
  BY Zenon DEF AbsSeen
<1>3. \A u \in Thread : /\ f[u] = (pc[u] \in {"prev", "again"} /\ loc[u].tail = loc[u].head)
                        /\ g[u] = (pc'[u] \in {"prev", "again"} /\ loc'[u].tail = loc'[u].head)
  BY Zenon DEF AbsSeen
<1> HIDE DEF f, g
<1>4. \A u \in Thread \ {t} : g[u] = f[u]
  BY <1>1, <1>3, Zenon
<1>5. g[t] = b
  BY <1>1, <1>3, Zenon
<1>6. g = [f EXCEPT ![t] = b] /\ (f[t] = b => g = f)
  BY <1>2, <1>4, <1>5, ChangedAt
<1>7. (b <=> pc[t] \in {"prev", "again"} /\ loc[t].tail = loc[t].head) => f[t] = b
  BY <1>3, Zenon
<1> QED
  BY <1>6, <1>7, Zenon DEF f, g

(* The values in the queue are as many as its nodes but the dummy. *)
LEMMA AbsLength ==
    ASSUME QueueInv
    PROVE  /\ AbsQue \in Seq(Value \cup {T0}) /\ Len(AbsQue) = Len(queue) - 1
           /\ AbsQue = <<>> <=> Len(queue) = 1
           /\ \A i \in 1 .. Len(queue) - 1 : AbsQue[i] = mValue[queue[i + 1]]
<1>1. Len(queue) \in Nat \ {0} /\ (\A i \in 1 .. Len(queue) : queue[i] \in Cell)
  BY QueueFacts DEF Cell
<1>2. \A i \in 1 .. Len(queue) - 1 : i + 1 \in 1 .. Len(queue)
  BY <1>1
<1>3. \A i \in 1 .. Len(queue) - 1 : mValue[queue[i + 1]] \in Value \cup {T0}
  BY <1>1, <1>2 DEF QueueInv, Types, TypeOK
<1>4. Len(queue) - 1 \in Nat
  BY <1>1
<1>5. AbsQue \in Seq(Value \cup {T0}) /\ Len(AbsQue) = Len(queue) - 1
  BY <1>3, <1>4 DEF AbsQue
<1>6. AbsQue = <<>> <=> Len(queue) = 1
  BY <1>1, <1>5, EmptySeq
<1> QED
  BY <1>5, <1>6 DEF AbsQue

(* A step that leaves the nodes of the queue and their values alone. *)
LEMMA QueueUnseen ==
    ASSUME QueueInv, queue' = queue, \A n \in Elements(queue) : mValue'[n] = mValue[n]
    PROVE  AbsQue' = AbsQue
<1>1. Len(queue) \in Nat
  BY QueueFacts
<1>2. \A i \in 1 .. Len(queue) - 1 : queue[i + 1] \in Elements(queue)
  BY <1>1 DEF Elements
<1>3. AbsQue' = [i \in 1 .. Len(queue) - 1 |-> mValue'[queue[i + 1]]]
  BY DEF AbsQue
<1> QED
  BY <1>2, <1>3 DEF AbsQue

(* The abstract queue does not notice a step that moves no value, outside   *)
(* the part of Pop in which emptiness may have been seen.                   *)
LEMMA Unseen ==
    ASSUME QueueInv, NEW t \in Thread, NEW l, NEW r, Goto(t, l), loc' = Set(loc, t, r),
           UNCHANGED <<queue, result>>, \A n \in Elements(queue) : mValue'[n] = mValue[n],
           pc[t] \notin {"prev", "again"}, l \notin {"prev", "again"}
    PROVE  UNCHANGED <<AbsQue, result, AbsSeen>>
<1>1. AbsSeen' = AbsSeen
  BY SeenMoves
<1> QED
  BY <1>1, QueueUnseen

(* Push takes effect at its exchange. *)
LEMMA PushCasRefines ==
    ASSUME QueueInv, NEW t \in Thread, PushCas(t)
    PROVE  Abs!Enqueue \/ UNCHANGED <<AbsQue, result, AbsSeen>>
<1>1. PICK r : r = loc[t]
  OBVIOUS
<1>2. pc[t] = "pushCas" /\ loc' = Set(loc, t, r) /\ UNCHANGED <<result, mValue>>
  BY <1>1, QueueFacts DEF PushCas, Set, nodes
<1>3. CASE mTail # loc[t].tail
  <2>1. Goto(t, "push") /\ queue' = queue
    BY <1>3 DEF PushCas, Same
  <2> QED
    BY <1>2, <2>1, Unseen
<1>4. CASE mTail = loc[t].tail
  <2> DEFINE n == loc[t].node
  <2>1. Goto(t, "pushLink") /\ queue' = Append(queue, n)
    BY <1>4 DEF PushCas, Same
  <2>2. n \in Node /\ mValue[n] \in Value
    <3>1. pc[t] \in Owning /\ pc[t] \in Pushing
      BY <1>2 DEF Owning, Pushing
    <3> QED
      BY <3>1, InHand DEF QueueInv, Delayed, KnowsNode
  <2>3. PICK v \in Value : v = mValue[n]
    BY <2>2
  <2> HIDE DEF n
  <2>4. AbsSeen' = AbsSeen
    BY <1>2, <2>1, SeenMoves
  <2>5. /\ Len(queue) \in Nat \ {0} /\ Len(queue') = Len(queue) + 1 /\ queue'[Len(queue) + 1] = n
        /\ \A i \in 1 .. Len(queue) : queue'[i] = queue[i]
    BY <2>1, <2>2, EndAdded, QueueFacts
  <2>6. AbsQue' = Append(AbsQue, v)
    <3> DEFINE a == AbsQue
               s == Append(a, v)
    <3>1. /\ a \in Seq(Value \cup {T0}) /\ Len(a) = Len(queue) - 1
          /\ \A i \in 1 .. Len(queue) - 1 : a[i] = mValue[queue[i + 1]]
      BY AbsLength
    <3> HIDE DEF a
    <3>2. /\ s \in Seq(Value \cup {T0}) /\ Len(s) = Len(queue) /\ s[Len(queue)] = v
          /\ \A i \in 1 .. Len(queue) - 1 : s[i] = a[i]
      BY <2>5, <3>1, AppendProperties
    <3> HIDE DEF s
    <3>3. ASSUME NEW i \in 1 .. Len(queue) PROVE mValue[queue'[i + 1]] = s[i]
      <4>1. CASE i = Len(queue)
        BY <2>3, <2>5, <3>2, <4>1
      <4>2. CASE i # Len(queue)
        <5>1. i \in 1 .. Len(queue) - 1 /\ i + 1 \in 1 .. Len(queue)
          BY <2>5, <4>2
        <5> QED
          BY <2>5, <3>1, <3>2, <5>1
      <4> QED
        BY <4>1, <4>2
    <3>4. AbsQue' = [i \in 1 .. Len(queue) |-> mValue[queue'[i + 1]]]
      <4>1. Len(queue') - 1 = Len(queue)
        BY <2>5
      <4> QED
        BY <1>2, <4>1 DEF AbsQue
    <3>5. s = [i \in 1 .. Len(queue) |-> s[i]]
      BY <3>2
    <3> QED
      BY <3>3, <3>4, <3>5 DEF s, a
  <2> QED
    BY <1>2, <2>4, <2>6 DEF Abs!Enqueue, AbsQue, AbsSeen
<1> QED
  BY <1>3, <1>4

(* Pop takes effect at its exchange, with the value that it read before. *)
LEMMA PopCasRefines ==
    ASSUME QueueInv, NEW t \in Thread, PopCas(t)
    PROVE  Abs!Dequeue(t) \/ UNCHANGED <<AbsQue, result, AbsSeen>>
<1>1. pc[t] = "popCas" /\ mValue' = mValue
  BY DEF PopCas, nodes
<1>2. CASE mHead # loc[t].head
  <2>1. PICK r : r = loc[t]
    OBVIOUS
  <2>2. Goto(t, "head") /\ loc' = Set(loc, t, r) /\ UNCHANGED <<queue, result>>
    BY <1>2, <2>1, QueueFacts DEF PopCas, Same, Set
  <2> QED
    BY <1>1, <2>2, Unseen
<1>3. CASE mHead = loc[t].head
  <2>1. PICK r : r = [Locals EXCEPT !.node = mHead.ptr]
    OBVIOUS
  <2>2. /\ Goto(t, "release") /\ loc' = Set(loc, t, r) /\ queue' = Tail(queue)
        /\ result' = [result EXCEPT ![t] = loc[t].elem]
    BY <1>3, <2>1 DEF PopCas, Same, Set
  <2>3. AbsSeen' = AbsSeen
    BY <1>1, <2>2, SeenMoves
  <2>4. /\ loc[t].prev.tag = mHead.tag /\ GoodLink(mHead.ptr, loc[t].prev, mHead, queue)
        /\ loc[t].elem = mValue[loc[t].prev.ptr] /\ loc[t].prev.ptr # Wild
    BY <1>1, <1>3, WildApart DEF QueueInv, Delayed, KnowsQueue
  <2>5. Len(queue) > 1 /\ Len(queue) \in Nat /\ loc[t].elem = mValue[queue[2]]
    BY <2>4, PrevTrue, QueueFacts
  <2>6. Len(queue') = Len(queue) - 1 /\ (\A i \in 1 .. Len(queue) - 1 : queue'[i] = queue[i + 1])
    <3>1. NoRepeats(queue) /\ queue \in Seq(Node)
      BY QueueFacts DEF QueueInv, Placed
    <3> QED
      BY <2>2, <2>5, <3>1, FirstTaken
  <2>7. /\ AbsQue \in Seq(Value \cup {T0}) /\ Len(AbsQue) = Len(queue) - 1 /\ AbsQue # <<>>
        /\ \A i \in 1 .. Len(queue) - 1 : AbsQue[i] = mValue[queue[i + 1]]
    BY <2>5, AbsLength
  <2>8. Head(AbsQue) = loc[t].elem
    <3>1. AbsQue[1] = mValue[queue[2]]
      BY <2>5, <2>7
    <3> QED
      BY <2>5, <2>7, <3>1
  <2>9. AbsQue' = Tail(AbsQue)
    <3> DEFINE a == AbsQue
               s == Tail(a)
    <3>1. /\ a \in Seq(Value \cup {T0}) /\ Len(a) = Len(queue) - 1 /\ a # <<>>
          /\ \A i \in 1 .. Len(queue) - 1 : a[i] = mValue[queue[i + 1]]
      BY <2>7
    <3> HIDE DEF a
    <3>2. /\ s \in Seq(Value \cup {T0}) /\ Len(s) = Len(queue) - 2
          /\ \A i \in 1 .. Len(queue) - 2 : s[i] = a[i + 1]
      <4>1. s \in Seq(Value \cup {T0}) /\ Len(s) = Len(a) - 1 /\ (\A i \in 1 .. Len(s) : s[i] = a[i + 1])
        BY <3>1, HeadTailProperties
      <4> QED
        BY <2>5, <3>1, <4>1
    <3> HIDE DEF s
    <3>3. ASSUME NEW i \in 1 .. Len(queue) - 2 PROVE mValue[queue'[i + 1]] = s[i]
      <4>1. i + 1 \in 1 .. Len(queue) - 1
        BY <2>5
      <4> QED
        BY <2>6, <3>1, <3>2, <4>1
    <3>4. AbsQue' = [i \in 1 .. Len(queue) - 2 |-> mValue[queue'[i + 1]]]
      <4>1. Len(queue') - 1 = Len(queue) - 2
        BY <2>5, <2>6
      <4> QED
        BY <1>1, <4>1 DEF AbsQue
    <3>5. s = [i \in 1 .. Len(queue) - 2 |-> s[i]]
      BY <3>2
    <3> QED
      BY <3>3, <3>4, <3>5 DEF s, a
  <2> QED
    BY <2>2, <2>3, <2>7, <2>8, <2>9 DEF Abs!Dequeue, AbsQue, AbsSeen
<1> QED
  BY <1>2, <1>3

(* Pop has seen the queue empty if the tail is the head that it read: no    *)
(* node has both tags unless it is the only one.                            *)
LEMMA PopTailRefines ==
    ASSUME QueueInv, NEW t \in Thread, PopTail(t)
    PROVE  Abs!SeeEmpty(t) \/ UNCHANGED <<AbsQue, result, AbsSeen>>
<1>1. PICK r : r = [loc[t] EXCEPT !.tail = mTail]
  OBVIOUS
<1>2. /\ pc[t] = "tail" /\ Goto(t, "prev") /\ loc' = Set(loc, t, r) /\ UNCHANGED <<queue, result, mValue>>
      /\ r.tail = mTail /\ r.head = loc[t].head
  <2>1. loc[t] \in LocalVars
    BY QueueFacts
  <2> QED
    BY <1>1, <2>1 DEF PopTail, Set, nodes, LocalVars
<1>3. AbsQue' = AbsQue
  BY <1>2, QueueUnseen
<1>4. CASE mTail # loc[t].head
  <2>1. AbsSeen' = AbsSeen
    BY <1>2, <1>4, SeenMoves
  <2> QED
    BY <1>2, <1>3, <2>1
<1>5. CASE mTail = loc[t].head
  <2>1. AbsSeen' = [AbsSeen EXCEPT ![t] = TRUE]
    <3>1. "prev" \in {"prev", "again"} /\ r.tail = r.head
      BY <1>2, <1>5
    <3>2. PICK b \in BOOLEAN : b = TRUE
      OBVIOUS
    <3>3. AbsSeen' = [AbsSeen EXCEPT ![t] = b]
      BY <1>2, <3>1, <3>2, SeenMoves
    <3> QED
      BY <3>2, <3>3
  <2>2. mTail.tag <= mHead.tag
    BY <1>2, <1>5 DEF QueueInv, Delayed, KnowsQueue, Popping, Seen
  <2>3. /\ mTail.tag = TagAt(mHead, Len(queue)) /\ Len(queue) \in Nat \ {0} /\ mHead.tag \in Nat \ {InvalidTag}
    BY QueueFacts DEF QueueInv, Counted
  <2>4. mHead.tag = TagAt(mHead, 1) /\ TagAt(mHead, Len(queue)) \in Nat /\ 1 \in Nat \ {0}
    BY <2>3, TagAtStep
  <2>5. ~(1 < Len(queue))
    <3>1. ~(TagAt(mHead, 1) < TagAt(mHead, Len(queue)))
      BY <2>2, <2>3, <2>4
    <3> QED
      BY <2>3, <2>4, <3>1, TagAtStep
  <2>6. AbsQue = <<>>
    BY <2>3, <2>5, AbsLength
  <2> QED
    BY <1>2, <1>3, <2>1, <2>6 DEF Abs!SeeEmpty, AbsQue, AbsSeen
<1> QED
  BY <1>4, <1>5

(* Pop reports an empty queue if it has seen one, and tries again or goes   *)
(* on otherwise.                                                            *)
LEMMA PopAgainRefines ==
    ASSUME QueueInv, NEW t \in Thread, PopAgain(t)
    PROVE  Abs!ReportEmpty(t) \/ Abs!TryAgain(t)
<1>1. pc[t] = "again" /\ UNCHANGED <<queue, mValue>>
  BY DEF PopAgain, nodes
<1>2. AbsQue' = AbsQue
  BY <1>1, QueueUnseen
<1>3. PICK b \in BOOLEAN : b = FALSE
  OBVIOUS
<1>4. CASE Return(t) /\ loc[t].tail = loc[t].head /\ result' = Set(result, t, None)
  <2>1. PICK r : r = Locals
    OBVIOUS
  <2>2. Goto(t, "idle") /\ loc' = Set(loc, t, r) /\ result' = [result EXCEPT ![t] = None]
    BY <1>4, <2>1 DEF Return, Set
  <2>3. AbsSeen' = [AbsSeen EXCEPT ![t] = b]
    <3>1. b <=> "idle" \in {"prev", "again"} /\ r.tail = r.head
      BY <1>3
    <3> QED
      BY <2>2, <3>1, SeenMoves
  <2>4. AbsSeen' = [AbsSeen EXCEPT ![t] = FALSE]
    BY <1>3, <2>3
  <2>5. AbsSeen[t]
    BY <1>1, <1>4, Zenon DEF AbsSeen
  <2> QED
    BY <1>2, <2>2, <2>4, <2>5 DEF Abs!ReportEmpty, AbsQue, AbsSeen
<1>5. CASE \E l \in {"head", "fix", "value", "wild"} : Goto(t, l) /\ UNCHANGED <<loc, result>>
  <2>1. PICK l \in {"head", "fix", "value", "wild"} : Goto(t, l) /\ UNCHANGED <<loc, result>>
    BY <1>5
  <2>2. PICK r : r = loc[t]
    OBVIOUS
  <2>3. loc' = Set(loc, t, r)
    BY <2>1, <2>2, QueueFacts DEF Set
  <2>4. AbsSeen' = [AbsSeen EXCEPT ![t] = b]
    BY <1>3, <2>1, <2>3, SeenMoves
  <2>5. AbsSeen' = [AbsSeen EXCEPT ![t] = FALSE]
    BY <1>3, <2>4
  <2> QED
    BY <1>2, <2>1, <2>5 DEF Abs!TryAgain, AbsQue, AbsSeen
<1> QED
  BY <1>4, <1>5 DEF PopAgain

(* What is written to the node in hand, and to a node that comes into the   *)
(* hands of t, is not seen in the queue.                                    *)
LEMMA AcquireRefines ==
    ASSUME QueueInv, NEW t \in Thread, AcquireLoad(t) \/ AcquireCas(t) \/ ReleaseLoad(t)
    PROVE  UNCHANGED <<AbsQue, result, AbsSeen>>
<1>1. /\ pc[t] \in {"acquire", "acquireCas", "release"} /\ UNCHANGED <<queue, result>>
      /\ loc[t] \in LocalVars /\ Types /\ Placed /\ FreeLinked
      /\ mValue \in [Cell -> Value \cup {T0}] /\ loc \in [Thread -> LocalVars]
  BY QueueFacts DEF AcquireLoad, AcquireCas, ReleaseLoad, QueueInv, Types, TypeOK
<1>2. \E l, r : Goto(t, l) /\ l \notin {"prev", "again"} /\ loc' = Set(loc, t, r)
  BY <1>1 DEF AcquireLoad, AcquireCas, ReleaseLoad, Set
<1>3. PICK n : n \notin Elements(queue) /\ (mValue' = mValue \/ \E v : mValue' = Set(mValue, n, v))
  <2>1. CASE AcquireLoad(t)
    <3>1. allocated + 1 \notin Elements(queue)
      <4>1. allocated \in Nat /\ Elements(queue) \subseteq 1 .. allocated
        BY <1>1, CallsBounded DEF Types, Placed
      <4> QED
        BY <4>1
    <3>2. mValue' = mValue \/ \E v : mValue' = Set(mValue, allocated + 1, v)
      BY <2>1 DEF AcquireLoad
    <3> QED
      BY <3>1, <3>2
  <2>2. CASE AcquireCas(t)
    <3>1. CASE mFreeNodeHead # loc[t].head
      <4>1. mValue' = mValue
        BY <2>2, <3>1 DEF AcquireCas, Same
      <4>2. Null \notin Elements(queue)
        BY <1>1 DEF Null, Placed
      <4> QED
        BY <4>1, <4>2
    <3>2. CASE mFreeNodeHead = loc[t].head
      <4>1. mValue' = Set(mValue, mFreeNodeHead.ptr, loc[t].elem)
        BY <2>2, <3>2 DEF AcquireCas, Same
      <4>2. mFreeNodeHead.ptr \in Node /\ Null \notin Node
        BY <2>2, <3>2 DEF AcquireCas, QueueInv, Delayed, KnowsFree, Null, Node
      <4>3. free # <<>> /\ mFreeNodeHead.ptr = free[Len(free)]
        BY <1>1, <4>2 DEF FreeLinked
      <4>4. mFreeNodeHead.ptr \in Elements(free)
        <5>1. free \in Seq(Node)
          BY <1>1 DEF Types
        <5>2. Len(free) \in 1 .. Len(free)
          BY <4>3, <5>1, EmptySeq, LenProperties
        <5> QED
          BY <4>3, <5>2 DEF Elements
      <4>5. mFreeNodeHead.ptr \notin Elements(queue)
        BY <1>1, <4>4 DEF Placed
      <4> QED
        BY <4>1, <4>5
    <3> QED
      BY <3>1, <3>2
  <2>3. CASE ReleaseLoad(t)
    <3>1. mValue' = Set(mValue, loc[t].node, T0) /\ pc[t] \in Owning
      BY <2>3 DEF ReleaseLoad, Owning, Releasing
    <3>2. loc[t].node \notin Elements(queue)
      BY <3>1, InHand
    <3> QED
      BY <3>1, <3>2
  <2> QED
    BY <2>1, <2>2, <2>3
<1>4. \A x \in Elements(queue) : mValue'[x] = mValue[x]
  <2>1. \A x \in Elements(queue) : x \in Cell
    BY QueueFacts DEF Elements, Cell
  <2> QED
    BY <1>1, <1>3, <2>1 DEF Set
<1> QED
  BY <1>1, <1>2, <1>4, Unseen

(* The other steps. *)
LEMMA OtherUnseen ==
    ASSUME QueueInv, NEW t \in Thread,
           \/ CallPush(t) \/ CallPop(t) \/ AcquireNext(t) \/ PushLoad(t) \/ PushLink(t)
           \/ PushSize(t) \/ PopHead(t) \/ PopValue(t) \/ FixTest(t) \/ FixNext(t) \/ FixPrev(t)
           \/ ReleaseCas(t) \/ PopSize(t)
    PROVE  UNCHANGED <<AbsQue, result, AbsSeen>>
<1>1. loc = [loc EXCEPT ![t] = loc[t]]
  BY QueueFacts
<1>2. UNCHANGED <<queue, result, mValue>> /\ pc[t] \notin {"prev", "again"}
  BY DEF CallPush, CallPop, AcquireNext, PushLoad, PushLink, PushSize, PopHead, PopValue, FixTest, FixNext,
         FixPrev, ReleaseCas, PopSize, nodes
<1>3. \E l : Goto(t, l) /\ l \notin {"prev", "again"}
  BY DEF CallPush, CallPop, AcquireNext, PushLoad, PushLink, PushSize, PopHead, PopValue, FixTest, FixNext,
         FixPrev, ReleaseCas, PopSize, Return
<1>4. \E r : loc' = Set(loc, t, r)
  BY <1>1 DEF CallPush, CallPop, AcquireNext, PushLoad, PushLink, PushSize, PopHead, PopValue, FixTest, FixNext,
         FixPrev, ReleaseCas, PopSize, Return, Set
<1> QED
  BY <1>2, <1>3, <1>4, Unseen

(* Nor does it notice that the backward link is read. *)
LEMMA PopPrevUnseen ==
    ASSUME QueueInv, NEW t \in Thread, PopPrev(t)
    PROVE  UNCHANGED <<AbsQue, result, AbsSeen>>
<1>1. PICK r : r = [loc[t] EXCEPT !.prev = mPrev[loc[t].head.ptr]]
  OBVIOUS
<1>2. /\ pc[t] = "prev" /\ Goto(t, "again") /\ loc' = Set(loc, t, r) /\ UNCHANGED <<queue, result, mValue>>
      /\ r.tail = loc[t].tail /\ r.head = loc[t].head
  <2>1. loc[t] \in LocalVars
    BY QueueFacts
  <2> QED
    BY <1>1, <2>1 DEF PopPrev, Set, nodes, LocalVars
<1>3. PICK b \in BOOLEAN : b <=> "again" \in {"prev", "again"} /\ r.tail = r.head
  OBVIOUS
<1>4. b <=> pc[t] \in {"prev", "again"} /\ loc[t].tail = loc[t].head
  BY <1>2, <1>3
<1>5. AbsSeen' = AbsSeen
  BY <1>2, <1>3, <1>4, SeenMoves
<1> QED
  BY <1>2, <1>5, QueueUnseen

(* Every step is a step of Fifo, or is not noticed there. *)
LEMMA StepRefines == QueueInv /\ [Next]_vars => [Abs!Next]_<<AbsQue, result, AbsSeen>>
<1> SUFFICES ASSUME QueueInv, [Next]_vars PROVE Abs!Next \/ UNCHANGED <<AbsQue, result, AbsSeen>>
  OBVIOUS
<1>1. CASE UNCHANGED <<queue, mValue, result, pc, loc>>
  BY <1>1 DEF AbsQue, AbsSeen
<1>2. ASSUME NEW t \in Thread, Step(t) \/ CallPush(t) \/ CallPop(t)
      PROVE  Abs!Next \/ UNCHANGED <<AbsQue, result, AbsSeen>>
  BY <1>2, PushCasRefines, PopCasRefines, PopTailRefines, PopAgainRefines, AcquireRefines, OtherUnseen,
     PopPrevUnseen DEF Step, Abs!Next
<1>3. UNCHANGED vars \/ Destroy \/ Gone => UNCHANGED <<queue, mValue, result, pc, loc>>
  BY DEF Destroy, Gone, vars, nodes
<1> QED
  BY <1>1, <1>2, <1>3 DEF Next

(* LockFreeQueue implements Fifo for any number of threads and calls: what  *)
(* was pushed is popped in the order of the exchanges of the tail, each     *)
(* once, and Pop reports an empty queue only if it was empty at the moment  *)
(* at which it read the tail.                                               *)
THEOREM QueueImplements == Spec => ImplementsFifo
<1>1. Init => Abs!Init
  <2> SUFFICES ASSUME Init PROVE Abs!Init
    OBVIOUS
  <2>1. Len(queue) = 1
    BY DEF Init, Constructed, Used
  <2>2. AbsQue = <<>>
    BY <2>1, InitInv, AbsLength
  <2>3. AbsSeen = [t \in Thread |-> FALSE]
    <3>1. \A t \in Thread : (pc[t] \in {"prev", "again"} /\ loc[t].tail = loc[t].head) = FALSE
      BY DEF Init
    <3> QED
      BY <3>1, Zenon DEF AbsSeen
  <2> QED
    BY <2>2, <2>3 DEF Abs!Init, Init, AbsQue, AbsSeen
<1>2. QueueInv /\ [Next]_vars =>
         [Abs!Next]_<<[i \in 1 .. Len(queue) - 1 |-> mValue[queue[i + 1]]], result,
                      [t \in Thread |-> /\ pc[t] \in {"prev", "again"}
                                        /\ loc[t].tail = loc[t].head]>>
  BY StepRefines DEF AbsQue, AbsSeen
<1> QED
  BY <1>1, <1>2, QueueInvariant, PTL DEF Spec, ImplementsFifo, Abs!Spec
=============================================================================
