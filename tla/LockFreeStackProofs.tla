------------------------- MODULE LockFreeStackProofs ------------------------
(***************************************************************************)
(* LockFreeStack keeps its two lists and implements BoundedStack for every *)
(* number of threads, nodes and calls that StackAssumption admits.         *)
(*                                                                         *)
(* The heart of the argument is Delayed, which says what a thread that has *)
(* read a head and waits to exchange it may rely on: its head carries a    *)
(* tag that is not ahead of the current one, equal tags mean equal heads,  *)
(* and only as long as they are equal is the link that it has read the     *)
(* link of the first node.                                                 *)
(***************************************************************************)
EXTENDS LockFreeStack, LibraryLemmas

TaggedHead == [idx : Node \cup {Null}, tag : 0 .. TagMod - 1]

Acquiring == {"acquire", "acquireNext", "acquireCas"}
Pushing == {"push", "pushCas"}
Popping == {"pop", "popNext", "popCas"}
Releasing == {"take", "release", "releaseCas"}
Places == {"idle", "pushSize", "popSize"} \cup Acquiring \cup Pushing \cup Popping \cup Releasing

Types ==
    /\ TypeOK
    /\ head \in [Thread -> TaggedHead]
    /\ elem \in [Thread -> Value \cup {T0}]
    /\ result \in [Thread -> Value \cup {T0, "none", "full", "empty"}]
    /\ calls \in 0 .. MaxCalls
    /\ stack \in Seq(Node) /\ free \in Seq(Node)

(* Every node is in one place only. *)
NoRepeats(s) == \A i, j \in 1 .. Len(s) : s[i] = s[j] => i = j
OnePlaceOnly ==
    /\ NoRepeats(stack) /\ NoRepeats(free)
    /\ Elements(stack) \cap Elements(free) = {}
    /\ \A t \in Owners : node[t] \in Node \ (Elements(stack) \cup Elements(free))
    /\ \A t, u \in Owners : node[t] = node[u] => t = u

(* The head h was read before: it is the head m, or m has a later tag. *)
Seen(h, m) == h.tag <= m.tag /\ (h.tag = m.tag => h = m)

(* What thread t knows between two accesses. *)
Delayed(t) ==
    /\ pc[t] \in {"acquireNext", "acquireCas", "releaseCas"} => Seen(head[t], mFreeNodeHead)
    /\ pc[t] \in {"pushCas", "popNext", "popCas"} => Seen(head[t], mHead)
    /\ pc[t] \in {"acquireNext", "acquireCas", "popNext", "popCas"} => head[t].idx \in Node
    /\ pc[t] = "acquireCas" /\ head[t] = mFreeNodeHead => next[t] = mNextFreeNode[head[t].idx]
    /\ pc[t] = "popCas" /\ head[t] = mHead => next[t] = mNext[head[t].idx]
    /\ pc[t] = "pushCas" => mNext[node[t]] = head[t].idx
    /\ pc[t] = "releaseCas" => mNextFreeNode[node[t]] = head[t].idx
    /\ pc[t] \in Acquiring => elem[t] \in Value
    /\ pc[t] \in Pushing => mValue[node[t]] \in Value

(* Each call exchanges each head at most once: the tags do not come round. *)
TagsCounted ==
    /\ mHead.tag + Uncounted(Acquiring \cup Pushing \cup Popping) <= calls
    /\ mFreeNodeHead.tag + Uncounted(Acquiring \cup Popping \cup Releasing) <= Limit + calls

StackInv ==
    /\ Types /\ EachNodeInOnePlace /\ OnePlaceOnly
    /\ ListsAreChains /\ TagsCounted /\ SizeAccounted
    /\ \A t \in Thread : Delayed(t)

-----------------------------------------------------------------------------
(* Three ways in which a list changes: a node whose link is the head is     *)
(* exchanged for the head; the head is exchanged for its link; a node that  *)
(* is not in the list is linked elsewhere.                                  *)
LEMMA ChainAdded ==
    ASSUME NEW hd, NEW hd2, NEW link, NEW s \in Seq(Node), NEW n \in Node,
           IsChain(hd, link, s), link[n] = hd.idx, hd2.idx = n
    PROVE  IsChain(hd2, link, <<n>> \o s)
<1> DEFINE r == <<n>> \o s
<1>1. /\ Len(r) = Len(s) + 1 /\ Len(s) \in Nat /\ r \in Seq(Node)
      /\ r[1] = n /\ (\A i \in 1 .. Len(s) : r[i + 1] = s[i])
  BY FrontAdded
<1>2. s = <<>> <=> Len(s) = 0
  BY EmptySeq
<1> HIDE DEF r
<1>3. r # <<>>
  BY <1>1, EmptySeq
<1>4. ASSUME NEW i \in 1 .. Len(r) - 1 PROVE link[r[i]] = r[i + 1]
  <2>1. CASE i = 1
    BY <1>1, <1>2, <2>1 DEF IsChain
  <2>2. CASE i # 1
    <3>1. i - 1 \in 1 .. Len(s) - 1 /\ (i - 1) + 1 = i /\ i \in 1 .. Len(s)
      BY <1>1, <2>2
    <3>2. r[i] = s[i - 1] /\ r[i + 1] = s[i] /\ link[s[i - 1]] = s[i]
      <4>1. r[(i - 1) + 1] = s[i - 1] /\ r[i + 1] = s[i]
        BY <1>1, <3>1
      <4>2. link[s[i - 1]] = s[(i - 1) + 1]
        BY <3>1 DEF IsChain
      <4> QED
        BY <3>1, <4>1, <4>2
    <3> QED
      BY <3>2
  <2> QED
    BY <2>1, <2>2
<1>5. link[r[Len(r)]] = Null
  <2>1. CASE s = <<>>
    BY <1>1, <1>2, <2>1 DEF IsChain
  <2>2. CASE s # <<>>
    <3>1. Len(s) \in 1 .. Len(s)
      BY <1>1, <1>2, <2>2
    <3>2. r[Len(r)] = s[Len(s)]
      BY <1>1, <3>1
    <3> QED
      BY <2>2, <3>2 DEF IsChain
  <2> QED
    BY <2>1, <2>2
<1> QED
  BY <1>1, <1>3, <1>4, <1>5 DEF IsChain, r

(* A chain that loses its first node. *)
LEMMA ChainTaken ==
    ASSUME NEW hd, NEW hd2, NEW link, NEW s \in Seq(Node),
           IsChain(hd, link, s), s # <<>>, hd2.idx = link[hd.idx]
    PROVE  IsChain(hd2, link, Rest(s))
<1> DEFINE r == Rest(s)
<1>1. /\ Len(r) = Len(s) - 1 /\ Len(s) \in Nat \ {0} /\ r \in Seq(Node)
      /\ \A i \in 1 .. Len(r) : r[i] = s[i + 1]
  BY FrontTaken DEF Rest
<1> HIDE DEF r
<1>2. r = <<>> <=> Len(r) = 0
  BY <1>1, EmptySeq
<1>3. hd2.idx = IF r = <<>> THEN Null ELSE r[1]
  <2>1. CASE Len(s) = 1
    BY <1>1, <1>2, <2>1 DEF IsChain
  <2>2. CASE Len(s) # 1
    <3>1. 1 \in 1 .. Len(s) - 1 /\ 1 \in 1 .. Len(r) /\ 1 + 1 = 2
      BY <1>1, <2>2
    <3>2. link[s[1]] = s[2] /\ r[1] = s[2] /\ r # <<>>
      BY <1>1, <1>2, <3>1 DEF IsChain
    <3> QED
      BY <3>2 DEF IsChain
  <2> QED
    BY <2>1, <2>2
<1>4. ASSUME NEW i \in 1 .. Len(r) - 1 PROVE link[r[i]] = r[i + 1]
  <2>1. i \in 1 .. Len(r) /\ i + 1 \in 1 .. Len(r) /\ i + 1 \in 1 .. Len(s) - 1
    BY <1>1
  <2>2. r[i] = s[i + 1] /\ r[i + 1] = s[(i + 1) + 1] /\ link[s[i + 1]] = s[(i + 1) + 1]
    BY <1>1, <2>1 DEF IsChain
  <2> QED
    BY <2>2
<1>5. r # <<>> => link[r[Len(r)]] = Null
  <2> SUFFICES ASSUME r # <<>> PROVE link[r[Len(r)]] = Null
    OBVIOUS
  <2>1. Len(r) \in 1 .. Len(r) /\ Len(r) + 1 = Len(s)
    BY <1>1, <1>2
  <2>2. r[Len(r)] = s[Len(s)]
    BY <1>1, <2>1
  <2> QED
    BY <2>2 DEF IsChain
<1> QED
  BY <1>3, <1>4, <1>5 DEF IsChain, r

(* A chain whose links nobody writes. *)
LEMMA ChainKept ==
    ASSUME NEW hd, NEW link, NEW link2, NEW s \in Seq(Node), IsChain(hd, link, s),
           \A n \in Elements(s) : link2[n] = link[n]
    PROVE  IsChain(hd, link2, s)
<1>1. Len(s) \in Nat /\ (s # <<>> => Len(s) # 0)
  BY EmptySeq, LenProperties
<1>2. \A i \in 1 .. Len(s) : link2[s[i]] = link[s[i]]
  BY DEF Elements
<1>3. ASSUME NEW i \in 1 .. Len(s) - 1 PROVE link2[s[i]] = s[i + 1]
  BY <1>1, <1>2 DEF IsChain
<1>4. s # <<>> => link2[s[Len(s)]] = Null
  BY <1>1, <1>2 DEF IsChain
<1> QED
  BY <1>3, <1>4 DEF IsChain

(* How the number of threads at given places changes when one of them moves.*)
LEMMA Moved ==
    ASSUME TypeOK, NEW t \in Thread, NEW l, Goto(t, l), NEW P
    PROVE  /\ Uncounted(P) \in Nat /\ Uncounted(P)' \in Nat
           /\ pc[t] \in P => Uncounted(P) > 0
           /\ l \in P => Uncounted(P)' > 0
           /\ Uncounted(P)' = Uncounted(P) + (IF l \in P THEN 1 ELSE 0)
                                           - (IF pc[t] \in P THEN 1 ELSE 0)
<1> DEFINE A == {u \in Thread : pc[u] \in P}
           B == {u \in Thread : pc'[u] \in P}
<1>1. Uncounted(P) = Cardinality(A) /\ Uncounted(P)' = Cardinality(B)
  BY DEF Uncounted
<1>2. pc \in [Thread -> {pc[u] : u \in Thread}] /\ pc' = [pc EXCEPT ![t] = l]
  BY DEF TypeOK, Goto
<1>3. A \in SUBSET Thread /\ B \in SUBSET Thread /\ A \ {t} = B \ {t}
  BY <1>2
<1>4. (t \in A <=> pc[t] \in P) /\ (t \in B <=> l \in P)
  BY <1>2
<1>5. IsFiniteSet(Thread)
  BY StackAssumption
<1> HIDE DEF A, B
<1>6. /\ Cardinality(A) \in Nat /\ Cardinality(B) \in Nat
      /\ t \in A => Cardinality(A) > 0
      /\ t \in B => Cardinality(B) > 0
      /\ Cardinality(B) = Cardinality(A) + (IF t \in B THEN 1 ELSE 0) - (IF t \in A THEN 1 ELSE 0)
  BY <1>3, <1>5, CountMoved
<1> QED
  BY <1>1, <1>4, <1>6

(* An exchange that has not come round takes the next tag. *)
LEMMA SwingNext ==
    ASSUME NEW h \in TaggedHead, h.tag + 1 < TagMod, NEW i \in Node \cup {Null}
    PROVE  Swing(h, i) \in TaggedHead /\ Swing(h, i).idx = i /\ Swing(h, i).tag = h.tag + 1
<1>1. h.tag + 1 \in 0 .. TagMod - 1 /\ TagMod \in Nat \ {0}
  BY StackAssumption DEF TaggedHead
<1>2. (h.tag + 1) % TagMod = h.tag + 1
  BY <1>1, SmallRemainder
<1> QED
  BY <1>1, <1>2 DEF Swing, MakePointer, TaggedHead

-----------------------------------------------------------------------------
(* The constructor leaves all nodes free. *)
LEMMA InitInv == Init => StackInv
<1> SUFFICES ASSUME Init PROVE StackInv
  OBVIOUS
<1>1. Limit \in Nat \ {0} /\ TagMod \in Nat /\ Limit < TagMod /\ SizeMod \in Nat \ {0} /\ MaxCalls \in Nat
  BY StackAssumption
<1>2. 0 % TagMod = 0 /\ Limit % TagMod = Limit /\ 0 % SizeMod = 0
  BY <1>1, SmallRemainder
<1>3. free \in Seq(Node) /\ Len(free) = Limit /\ (\A i \in 1 .. Limit : free[i] = i)
  BY <1>1 DEF Init, Node
<1>4. stack \in Seq(Node) /\ Len(stack) = 0 /\ stack = <<>>
  BY DEF Init
<1>5. TypeOK
  BY <1>1, <1>2 DEF Init, TypeOK, MakePointer, Node, Null, T0
<1>6. Types
  <2>1. mHead \in TaggedHead
    BY <1>5 DEF TypeOK, TaggedHead
  <2> QED
    BY <1>1, <1>3, <1>4, <1>5, <2>1 DEF Init, Types
<1>7. Owners = {} /\ (\A P : "idle" \notin P => Uncounted(P) = 0)
  BY FS_EmptySet DEF Init, Owners, Uncounted
<1>8. Elements(stack) = {} /\ Elements(free) = Node
  BY <1>3, <1>4 DEF Elements, Node
<1>9. EachNodeInOnePlace /\ OnePlaceOnly
  BY <1>1, <1>3, <1>4, <1>7, <1>8, FS_EmptySet DEF EachNodeInOnePlace, OnePlaceOnly, NoRepeats
<1>10. ListsAreChains
  <2>1. IsChain(mHead, mNext, stack)
    BY <1>4 DEF IsChain, Init, MakePointer
  <2>2. free # <<>>
    BY <1>1, <1>3, EmptySeq
  <2>3. mFreeNodeHead.idx = 1 /\ free[1] = 1 /\ free[Limit] = Limit
    BY <1>1, <1>3 DEF Init, MakePointer
  <2>4. \A n \in 1 .. Limit : mNextFreeNode[n] = IF n < Limit THEN n + 1 ELSE Null
    BY <1>1 DEF Init, Node
  <2>5. \A i \in 1 .. Limit - 1 : mNextFreeNode[free[i]] = free[i + 1]
    BY <1>1, <1>3, <2>4
  <2>6. mNextFreeNode[free[Limit]] = Null
    BY <1>1, <2>3, <2>4
  <2>7. IsChain(mFreeNodeHead, mNextFreeNode, free)
    BY <1>3, <2>2, <2>3, <2>5, <2>6 DEF IsChain
  <2> QED
    BY <2>1, <2>7 DEF ListsAreChains
<1>11. TagsCounted
  BY <1>1, <1>2, <1>7 DEF TagsCounted, Init, MakePointer, Acquiring, Pushing, Popping, Releasing
<1>12. SizeAccounted
  BY <1>2, <1>4, <1>7 DEF SizeAccounted, Init
<1>13. \A t \in Thread : Delayed(t)
  BY DEF Init, Delayed, Acquiring, Pushing
<1> QED
  BY <1>6, <1>9, <1>10, <1>11, <1>12, <1>13 DEF StackInv

-----------------------------------------------------------------------------
(* A head that is not null is the first node of its list.                   *)
LEMMA HeadFirst ==
    ASSUME NEW hd, NEW link, NEW s \in Seq(Node), IsChain(hd, link, s)
    PROVE  /\ hd.idx = Null <=> s = <<>>
           /\ s # <<>> => hd.idx = s[1] /\ hd.idx \in Elements(s) /\ hd.idx \in Node
<1>1. Len(s) \in Nat /\ (s = <<>> <=> Len(s) = 0) /\ (\A i \in 1 .. Len(s) : s[i] \in Node)
  BY EmptySeq, LenProperties, ElementOfSeq
<1>2. s # <<>> => 1 \in 1 .. Len(s)
  BY <1>1
<1>3. Null \notin Node
  BY DEF Null, Node
<1> QED
  BY <1>1, <1>2, <1>3 DEF IsChain, Elements

(* What is in a list after a node was taken from its front or added there.  *)
LEMMA NodeTaken ==
    ASSUME NEW s \in Seq(Node), s # <<>>, NoRepeats(s)
    PROVE  /\ Rest(s) \in Seq(Node) /\ Len(Rest(s)) = Len(s) - 1 /\ Len(s) \in Nat \ {0}
           /\ NoRepeats(Rest(s))
           /\ s[1] \in Node /\ s[1] \notin Elements(Rest(s))
           /\ Elements(s) = Elements(Rest(s)) \cup {s[1]}
<1> DEFINE r == Rest(s)
<1>1. /\ r \in Seq(Node) /\ Len(r) = Len(s) - 1 /\ Len(s) \in Nat \ {0} /\ s[1] \in Node
      /\ \A i \in 1 .. Len(r) : r[i] = s[i + 1]
      /\ {s[i] : i \in 1 .. Len(s)} = {r[i] : i \in 1 .. Len(r)} \cup {s[1]}
  BY FrontTaken DEF Rest
<1> HIDE DEF r
<1>2. ASSUME NEW i \in 1 .. Len(r), NEW j \in 1 .. Len(r), r[i] = r[j] PROVE i = j
  <2>1. i + 1 \in 1 .. Len(s) /\ j + 1 \in 1 .. Len(s)
    BY <1>1
  <2>2. s[i + 1] = s[j + 1]
    BY <1>1, <1>2
  <2>3. i + 1 = j + 1
    BY <2>1, <2>2 DEF NoRepeats
  <2> QED
    BY <2>3
<1>3. ASSUME NEW i \in 1 .. Len(r) PROVE r[i] # s[1]
  <2>1. i + 1 \in 1 .. Len(s) /\ 1 \in 1 .. Len(s) /\ i + 1 # 1
    BY <1>1
  <2>2. s[i + 1] # s[1]
    BY <2>1 DEF NoRepeats
  <2> QED
    BY <1>1, <2>2
<1> QED
  BY <1>1, <1>2, <1>3 DEF NoRepeats, Elements, r

(* A sequence without repetitions that is given a new first element. *)
LEMMA NodeAdded ==
    ASSUME NEW s \in Seq(Node), NoRepeats(s), NEW n \in Node, n \notin Elements(s)
    PROVE  /\ <<n>> \o s \in Seq(Node) /\ Len(<<n>> \o s) = Len(s) + 1 /\ Len(s) \in Nat
           /\ NoRepeats(<<n>> \o s)
           /\ Elements(<<n>> \o s) = Elements(s) \cup {n}
<1> DEFINE r == <<n>> \o s
<1>1. /\ r \in Seq(Node) /\ Len(r) = Len(s) + 1 /\ Len(s) \in Nat
      /\ r[1] = n /\ (\A i \in 1 .. Len(s) : r[i + 1] = s[i])
  BY FrontAdded
<1> HIDE DEF r
<1>2. \A k \in 1 .. Len(r) : k # 1 => k - 1 \in 1 .. Len(s) /\ r[k] = s[k - 1]
  <2> TAKE k \in 1 .. Len(r)
  <2> HAVE k # 1
  <2>1. k - 1 \in 1 .. Len(s) /\ (k - 1) + 1 = k
    BY <1>1
  <2> QED
    BY <1>1, <2>1
<1>3. \A k \in 1 .. Len(s) : s[k] # n
  BY DEF Elements
<1>4. ASSUME NEW i \in 1 .. Len(r), NEW j \in 1 .. Len(r), r[i] = r[j] PROVE i = j
  <2>1. CASE i = 1 \/ j = 1
    BY <1>1, <1>2, <1>3, <1>4, <2>1
  <2>2. CASE i # 1 /\ j # 1
    <3>1. i - 1 = j - 1
      BY <1>2, <1>4, <2>2 DEF NoRepeats
    <3> QED
      BY <3>1
  <2> QED
    BY <2>1, <2>2
<1>5. 1 \in 1 .. Len(r) /\ (\A k \in 1 .. Len(s) : k + 1 \in 1 .. Len(r))
  BY <1>1
<1>6. \A k \in 1 .. Len(r) : r[k] \in Elements(s) \cup {n}
  BY <1>1, <1>2 DEF Elements
<1>7. n \in Elements(r) /\ (\A k \in 1 .. Len(s) : s[k] \in Elements(r))
  BY <1>1, <1>5 DEF Elements
<1>8. Elements(r) = Elements(s) \cup {n}
  BY <1>6, <1>7 DEF Elements
<1> QED
  BY <1>1, <1>4, <1>8 DEF NoRepeats, r

-----------------------------------------------------------------------------
(* What a step leaves alone stays true.  The next lemmas have one conjunct   *)
(* of the invariant each, and name the part of the state it depends on.      *)
LEMMA OwnersMoved ==
    ASSUME TypeOK, NEW t \in Thread, NEW l, Goto(t, l)
    PROVE  /\ t \in Owners <=> pc[t] \in Pushing \cup Releasing
           /\ Owners' = IF l \in Pushing \cup Releasing THEN Owners \cup {t} ELSE Owners \ {t}
  BY DEF TypeOK, Goto, Owners, Pushing, Releasing

(* Every node stays where it is when no sequence and no owner changes. *)
LEMMA PlacesStay ==
    ASSUME EachNodeInOnePlace, OnePlaceOnly, Owners' = Owners, UNCHANGED <<stack, free, node>>
    PROVE  EachNodeInOnePlace' /\ OnePlaceOnly'
<1>1. EachNodeInOnePlace'
  BY DEF EachNodeInOnePlace, Elements
<1>2. /\ Elements(stack)' = Elements(stack) /\ Elements(free)' = Elements(free)
      /\ NoRepeats(stack)' = NoRepeats(stack) /\ NoRepeats(free)' = NoRepeats(free)
  BY DEF Elements, NoRepeats
<1>3. OnePlaceOnly'
  BY <1>2 DEF OnePlaceOnly
<1> QED
  BY <1>1, <1>3

HeadExchangers == Acquiring \cup Pushing \cup Popping
FreeExchangers == Acquiring \cup Popping \cup Releasing
(* The tags stay within the bound when a call begins, or a thread goes on   *)
(* without an exchange.                                                     *)
LEMMA TagsStay ==
    ASSUME Types, TagsCounted, NEW t \in Thread, NEW l, Goto(t, l),
           UNCHANGED <<mHead, mFreeNodeHead>>,
           \/ calls' = calls + 1
           \/ /\ calls' = calls
              /\ l \in HeadExchangers => pc[t] \in HeadExchangers
              /\ l \in FreeExchangers => pc[t] \in FreeExchangers
    PROVE  TagsCounted'
<1> DEFINE H == HeadExchangers
           F == FreeExchangers
<1>1. TypeOK /\ calls \in Nat /\ mHead.tag \in Nat /\ mFreeNodeHead.tag \in Nat /\ Limit \in Nat
  BY StackAssumption DEF Types, TypeOK
<1>2. /\ Uncounted(H) \in Nat /\ Uncounted(H)' \in Nat
      /\ Uncounted(H)' = Uncounted(H) + (IF l \in H THEN 1 ELSE 0) - (IF pc[t] \in H THEN 1 ELSE 0)
  BY <1>1, Moved
<1>3. /\ Uncounted(F) \in Nat /\ Uncounted(F)' \in Nat
      /\ Uncounted(F)' = Uncounted(F) + (IF l \in F THEN 1 ELSE 0) - (IF pc[t] \in F THEN 1 ELSE 0)
  BY <1>1, Moved
<1>4. /\ mHead.tag + Uncounted(H) <= calls
      /\ mFreeNodeHead.tag + Uncounted(F) <= Limit + calls
  BY DEF TagsCounted, HeadExchangers, FreeExchangers
<1> HIDE DEF H, F
<1>5. /\ mHead.tag + Uncounted(H)' <= calls'
      /\ mFreeNodeHead.tag + Uncounted(F)' <= Limit + calls'
  BY <1>1, <1>2, <1>3, <1>4 DEF H, F
<1> QED
  BY <1>5 DEF TagsCounted, HeadExchangers, FreeExchangers, H, F

(* mSize still accounts for the stack when nobody has to count more, or     *)
(* less.                                                                    *)
LEMMA SizeStays ==
    ASSUME TypeOK, SizeAccounted, NEW t \in Thread, NEW l, Goto(t, l), UNCHANGED <<stack, mSize>>,
           l = "pushSize" <=> pc[t] = "pushSize",
           l \in Releasing \cup {"popSize"} <=> pc[t] \in Releasing \cup {"popSize"}
    PROVE  SizeAccounted'
<1> DEFINE R == {"take", "release", "releaseCas", "popSize"}
           P == {"pushSize"}
<1>1. /\ Uncounted(R) \in Nat /\ Uncounted(R)' \in Nat
      /\ Uncounted(R)' = Uncounted(R) + (IF l \in R THEN 1 ELSE 0) - (IF pc[t] \in R THEN 1 ELSE 0)
  BY Moved
<1>2. /\ Uncounted(P) \in Nat /\ Uncounted(P)' \in Nat
      /\ Uncounted(P)' = Uncounted(P) + (IF l \in P THEN 1 ELSE 0) - (IF pc[t] \in P THEN 1 ELSE 0)
  BY Moved
<1>3. (l \in R <=> pc[t] \in R) /\ (l \in P <=> pc[t] \in P)
  BY DEF Releasing
<1> HIDE DEF R, P
<1>4. Uncounted(R)' = Uncounted(R) /\ Uncounted(P)' = Uncounted(P)
  BY <1>1, <1>2, <1>3
<1> QED
  BY <1>4 DEF SizeAccounted, R, P

(* What a thread u knows outlives the steps of the others: they exchange a  *)
(* head for one with a later tag, and write neither to the nodes of the     *)
(* lists nor to the node that u has in hand.                                *)
Later(m, n) == n = m \/ (n \in TaggedHead /\ n.tag > m.tag)
(* What a thread knows survives the steps of others: heads only move on,    *)
(* and links in a chain are not written.                                    *)
LEMMA OthersKnow ==
    ASSUME StackInv, NEW u \in Thread,
           pc'[u] = pc[u], head'[u] = head[u], next'[u] = next[u], node'[u] = node[u],
           elem'[u] = elem[u], Later(mHead, mHead'), Later(mFreeNodeHead, mFreeNodeHead'),
           \A n \in Elements(stack) : mNext'[n] = mNext[n],
           \A n \in Elements(free) : mNextFreeNode'[n] = mNextFreeNode[n],
           u \in Owners => /\ mNext'[node[u]] = mNext[node[u]]
                           /\ mNextFreeNode'[node[u]] = mNextFreeNode[node[u]]
                           /\ mValue'[node[u]] = mValue[node[u]]
    PROVE  Delayed(u)'
<1>1. Types /\ ListsAreChains /\ Delayed(u)
  BY DEF StackInv
<1>2. mHead \in TaggedHead /\ mFreeNodeHead \in TaggedHead /\ head[u] \in TaggedHead
  BY <1>1 DEF Types, TypeOK, TaggedHead
<1>3. \A m \in TaggedHead : m.tag \in Int
  BY StackAssumption DEF TaggedHead
<1>4. mHead.idx \in Node => mHead.idx \in Elements(stack)
  BY <1>1, HeadFirst DEF Types, ListsAreChains, Node, Null
<1>5. mFreeNodeHead.idx \in Node => mFreeNodeHead.idx \in Elements(free)
  BY <1>1, HeadFirst DEF Types, ListsAreChains, Node, Null
<1>6. /\ mHead' \in TaggedHead /\ mFreeNodeHead' \in TaggedHead
      /\ Seen(head[u], mHead) => Seen(head[u], mHead') /\ (head[u] = mHead' => mHead' = mHead)
      /\ Seen(head[u], mFreeNodeHead) =>
            Seen(head[u], mFreeNodeHead') /\ (head[u] = mFreeNodeHead' => mFreeNodeHead' = mFreeNodeHead)
  BY <1>2, <1>3 DEF Later, Seen
<1>7. pc[u] \in {"acquireNext", "acquireCas", "releaseCas"} => Seen(head[u], mFreeNodeHead')
  BY <1>1, <1>6 DEF Delayed
<1>8. pc[u] \in {"pushCas", "popNext", "popCas"} => Seen(head[u], mHead')
  BY <1>1, <1>6 DEF Delayed
<1>9. pc[u] = "acquireCas" /\ head[u] = mFreeNodeHead' => next[u] = mNextFreeNode'[head[u].idx]
  BY <1>1, <1>5, <1>6 DEF Delayed
<1>10. pc[u] = "popCas" /\ head[u] = mHead' => next[u] = mNext'[head[u].idx]
  BY <1>1, <1>4, <1>6 DEF Delayed
<1>11. pc[u] \in Pushing \/ pc[u] = "releaseCas" => u \in Owners
  BY DEF Owners, Pushing
<1>12. /\ pc[u] = "pushCas" => mNext'[node[u]] = head[u].idx
       /\ pc[u] = "releaseCas" => mNextFreeNode'[node[u]] = head[u].idx
       /\ pc[u] \in Pushing => mValue'[node[u]] \in Value
  BY <1>1, <1>11 DEF Delayed, Pushing
<1> QED
  BY <1>1, <1>7, <1>8, <1>9, <1>10, <1>12 DEF Delayed

(* The node in hand is the only one that t may write to. *)
WritesInHand(t) ==
    \A n \in Node : t \notin Owners \/ n # node[t] =>
        mNext'[n] = mNext[n] /\ mNextFreeNode'[n] = mNextFreeNode[n] /\ mValue'[n] = mValue[n]

OthersLocals(t) ==
    \A u \in Thread \ {t} : head'[u] = head[u] /\ next'[u] = next[u] /\ elem'[u] = elem[u] /\ node'[u] = node[u]

(* A step that exchanges no head. *)
LEMMA QuietStep ==
    ASSUME StackInv, NEW t \in Thread, NEW l, Goto(t, l), Types',
           UNCHANGED <<mHead, mFreeNodeHead, stack, free, node>>,
           pc[t] \in Pushing \cup Releasing <=> l \in Pushing \cup Releasing,
           \/ calls' = calls + 1
           \/ /\ calls' = calls
              /\ l \in HeadExchangers => pc[t] \in HeadExchangers
              /\ l \in FreeExchangers => pc[t] \in FreeExchangers,
           SizeAccounted', WritesInHand(t), OthersLocals(t), Delayed(t)'
    PROVE  StackInv'
<1>1. Types /\ EachNodeInOnePlace /\ OnePlaceOnly /\ ListsAreChains /\ TagsCounted
  BY DEF StackInv
<1>2. TypeOK
  BY <1>1 DEF Types
<1>3. Owners' = Owners
  BY <1>2, OwnersMoved
<1>4. EachNodeInOnePlace' /\ OnePlaceOnly'
  BY <1>1, <1>3, PlacesStay
<1>5. TagsCounted'
  BY <1>1, TagsStay
<1>6. \A n \in Elements(stack) \cup Elements(free) : n \in Node
  BY <1>1 DEF EachNodeInOnePlace
<1>7. /\ \A n \in Elements(stack) : mNext'[n] = mNext[n]
      /\ \A n \in Elements(free) : mNextFreeNode'[n] = mNextFreeNode[n]
  BY <1>1, <1>6 DEF WritesInHand, OnePlaceOnly
<1>8. ListsAreChains'
  <2>1. IsChain(mHead, mNext', stack)
    BY <1>1, <1>7, ChainKept DEF Types, ListsAreChains
  <2>2. IsChain(mFreeNodeHead, mNextFreeNode', free)
    BY <1>1, <1>7, ChainKept DEF Types, ListsAreChains
  <2> QED
    BY <2>1, <2>2 DEF ListsAreChains
<1>9. ASSUME NEW u \in Thread PROVE Delayed(u)'
  <2>1. CASE u = t
    BY <2>1
  <2>2. CASE u # t
    <3>1. pc'[u] = pc[u]
      BY <1>2, <2>2 DEF Goto, TypeOK
    <3>2. u \in Owners => /\ mNext'[node[u]] = mNext[node[u]]
                          /\ mNextFreeNode'[node[u]] = mNextFreeNode[node[u]]
                          /\ mValue'[node[u]] = mValue[node[u]]
      BY <1>1, <2>2 DEF OnePlaceOnly, WritesInHand
    <3>3. Later(mHead, mHead') /\ Later(mFreeNodeHead, mFreeNodeHead')
      BY DEF Later
    <3>4. head'[u] = head[u] /\ next'[u] = next[u] /\ elem'[u] = elem[u] /\ node'[u] = node[u]
      BY <2>2 DEF OthersLocals
    <3> QED
      BY <1>7, <3>1, <3>2, <3>3, <3>4, OthersKnow
  <2> QED
    BY <2>1, <2>2
<1> QED
  BY <1>4, <1>5, <1>8, <1>9 DEF StackInv

-----------------------------------------------------------------------------
(* The steps that exchange no head. *)
LEMMA InHand ==
    ASSUME StackInv, NEW t \in Thread, pc[t] \in Pushing \cup Releasing
    PROVE  t \in Owners /\ node[t] \in Node
  BY DEF StackInv, OnePlaceOnly, Owners, Pushing, Releasing

(* A call of Push begins. *)
LEMMA CallPushInv ==
    ASSUME StackInv, NEW t \in Thread, NEW v \in Value, CallPush(t, v)
    PROVE  StackInv'
<1>0. MaxCalls \in Nat /\ calls \in 0 .. MaxCalls
  BY StackAssumption DEF StackInv, Types
<1>1. Types /\ TypeOK /\ SizeAccounted /\ Delayed(t)
  BY DEF StackInv, Types
<1>2. Goto(t, "acquire") /\ UNCHANGED <<mHead, mFreeNodeHead, stack, free, node>>
  BY DEF CallPush, shared
<1>3. Types'
  <2>1. TypeOK'
    BY <1>1, <1>0 DEF CallPush, shared, Goto, Set, Types, TypeOK, TaggedHead
  <2> QED
    BY <1>1, <2>1, <1>0 DEF CallPush, shared, Goto, Set, Types, TypeOK, TaggedHead
<1>4. SizeAccounted'
  BY <1>1, <1>2, SizeStays DEF CallPush, shared, Releasing
<1>5. WritesInHand(t)
  BY <1>1, <1>0 DEF CallPush, shared, WritesInHand, Set, TypeOK, Owners
<1>6. OthersLocals(t)
  BY <1>1 DEF CallPush, OthersLocals, Set, Types, TypeOK
<1>7. Delayed(t)'
  BY <1>1, <1>2, <1>0 DEF CallPush, shared, Set, Goto, Delayed, Types, TypeOK, Seen, Acquiring, Pushing
<1>8. /\ pc[t] \in Pushing \cup Releasing <=> "acquire" \in Pushing \cup Releasing
      /\ \/ calls' = calls + 1
         \/ /\ calls' = calls
            /\ "acquire" \in HeadExchangers => pc[t] \in HeadExchangers
            /\ "acquire" \in FreeExchangers => pc[t] \in FreeExchangers
  BY DEF CallPush, Pushing, Releasing, Acquiring, Popping, HeadExchangers, FreeExchangers
<1> QED
  BY <1>2, <1>3, <1>4, <1>5, <1>6, <1>7, <1>8, QuietStep

(* A call of Pop begins. *)
LEMMA CallPopInv ==
    ASSUME StackInv, NEW t \in Thread, CallPop(t)
    PROVE  StackInv'
<1>0. MaxCalls \in Nat /\ calls \in 0 .. MaxCalls
  BY StackAssumption DEF StackInv, Types
<1>1. Types /\ TypeOK /\ SizeAccounted /\ Delayed(t)
  BY DEF StackInv, Types
<1>2. Goto(t, "pop") /\ UNCHANGED <<mHead, mFreeNodeHead, stack, free, node>>
  BY DEF CallPop, shared
<1>3. Types'
  <2>1. TypeOK'
    BY <1>1, <1>0 DEF CallPop, shared, Goto, Set, Types, TypeOK, TaggedHead
  <2> QED
    BY <1>1, <2>1, <1>0 DEF CallPop, shared, Goto, Set, Types, TypeOK, TaggedHead
<1>4. SizeAccounted'
  BY <1>1, <1>2, SizeStays DEF CallPop, shared, Releasing
<1>5. WritesInHand(t)
  BY <1>1, <1>0 DEF CallPop, shared, WritesInHand, Set, TypeOK, Owners
<1>6. OthersLocals(t)
  BY <1>1 DEF CallPop, OthersLocals, Set, Types, TypeOK
<1>7. Delayed(t)'
  BY <1>1, <1>2, <1>0 DEF CallPop, shared, Set, Goto, Delayed, Types, TypeOK, Seen, Acquiring, Pushing
<1>8. /\ pc[t] \in Pushing \cup Releasing <=> "pop" \in Pushing \cup Releasing
      /\ \/ calls' = calls + 1
         \/ /\ calls' = calls
            /\ "pop" \in HeadExchangers => pc[t] \in HeadExchangers
            /\ "pop" \in FreeExchangers => pc[t] \in FreeExchangers
  BY DEF CallPop, Pushing, Releasing, Acquiring, Popping, HeadExchangers, FreeExchangers
<1> QED
  BY <1>2, <1>3, <1>4, <1>5, <1>6, <1>7, <1>8, QuietStep

(* AcquireNode reads the link of the first free node. *)
LEMMA AcquireNextInv ==
    ASSUME StackInv, NEW t \in Thread, AcquireNext(t)
    PROVE  StackInv'
<1>0. head[t].idx \in Node
  BY DEF StackInv, Delayed, AcquireNext
<1>1. Types /\ TypeOK /\ SizeAccounted /\ Delayed(t)
  BY DEF StackInv, Types
<1>2. Goto(t, "acquireCas") /\ UNCHANGED <<mHead, mFreeNodeHead, stack, free, node>>
  BY DEF AcquireNext, shared
<1>3. Types'
  <2>1. TypeOK'
    BY <1>1, <1>0 DEF AcquireNext, shared, Goto, Set, Types, TypeOK, TaggedHead
  <2> QED
    BY <1>1, <2>1, <1>0 DEF AcquireNext, shared, Goto, Set, Types, TypeOK, TaggedHead
<1>4. SizeAccounted'
  BY <1>1, <1>2, SizeStays DEF AcquireNext, shared, Releasing
<1>5. WritesInHand(t)
  BY <1>1, <1>0 DEF AcquireNext, shared, WritesInHand, Set, TypeOK, Owners
<1>6. OthersLocals(t)
  BY <1>1 DEF AcquireNext, OthersLocals, Set, Types, TypeOK
<1>7. Delayed(t)'
  BY <1>1, <1>2, <1>0 DEF AcquireNext, shared, Set, Goto, Delayed, Types, TypeOK, Seen, Acquiring, Pushing
<1>8. /\ pc[t] \in Pushing \cup Releasing <=> "acquireCas" \in Pushing \cup Releasing
      /\ \/ calls' = calls + 1
         \/ /\ calls' = calls
            /\ "acquireCas" \in HeadExchangers => pc[t] \in HeadExchangers
            /\ "acquireCas" \in FreeExchangers => pc[t] \in FreeExchangers
  BY DEF AcquireNext, Pushing, Releasing, Acquiring, Popping, HeadExchangers, FreeExchangers
<1> QED
  BY <1>2, <1>3, <1>4, <1>5, <1>6, <1>7, <1>8, QuietStep

(* Pop reads the link of the first node. *)
LEMMA PopNextInv ==
    ASSUME StackInv, NEW t \in Thread, PopNext(t)
    PROVE  StackInv'
<1>0. head[t].idx \in Node
  BY DEF StackInv, Delayed, PopNext
<1>1. Types /\ TypeOK /\ SizeAccounted /\ Delayed(t)
  BY DEF StackInv, Types
<1>2. Goto(t, "popCas") /\ UNCHANGED <<mHead, mFreeNodeHead, stack, free, node>>
  BY DEF PopNext, shared
<1>3. Types'
  <2>1. TypeOK'
    BY <1>1, <1>0 DEF PopNext, shared, Goto, Set, Types, TypeOK, TaggedHead
  <2> QED
    BY <1>1, <2>1, <1>0 DEF PopNext, shared, Goto, Set, Types, TypeOK, TaggedHead
<1>4. SizeAccounted'
  BY <1>1, <1>2, SizeStays DEF PopNext, shared, Releasing
<1>5. WritesInHand(t)
  BY <1>1, <1>0 DEF PopNext, shared, WritesInHand, Set, TypeOK, Owners
<1>6. OthersLocals(t)
  BY <1>1 DEF PopNext, OthersLocals, Set, Types, TypeOK
<1>7. Delayed(t)'
  BY <1>1, <1>2, <1>0 DEF PopNext, shared, Set, Goto, Delayed, Types, TypeOK, Seen, Acquiring, Pushing
<1>8. /\ pc[t] \in Pushing \cup Releasing <=> "popCas" \in Pushing \cup Releasing
      /\ \/ calls' = calls + 1
         \/ /\ calls' = calls
            /\ "popCas" \in HeadExchangers => pc[t] \in HeadExchangers
            /\ "popCas" \in FreeExchangers => pc[t] \in FreeExchangers
  BY DEF PopNext, Pushing, Releasing, Acquiring, Popping, HeadExchangers, FreeExchangers
<1> QED
  BY <1>2, <1>3, <1>4, <1>5, <1>6, <1>7, <1>8, QuietStep

(* Push reads the head and links its node to it. *)
LEMMA PushLoadInv ==
    ASSUME StackInv, NEW t \in Thread, PushLoad(t)
    PROVE  StackInv'
<1>0. t \in Owners /\ node[t] \in Node
  BY InHand DEF PushLoad, Pushing, Releasing
<1>1. Types /\ TypeOK /\ SizeAccounted /\ Delayed(t)
  BY DEF StackInv, Types
<1>2. Goto(t, "pushCas") /\ UNCHANGED <<mHead, mFreeNodeHead, stack, free, node>>
  BY DEF PushLoad, shared
<1>3. Types'
  <2>1. TypeOK'
    BY <1>1, <1>0 DEF PushLoad, shared, Goto, Set, Types, TypeOK, TaggedHead
  <2> QED
    BY <1>1, <2>1, <1>0 DEF PushLoad, shared, Goto, Set, Types, TypeOK, TaggedHead
<1>4. SizeAccounted'
  BY <1>1, <1>2, SizeStays DEF PushLoad, shared, Releasing
<1>5. WritesInHand(t)
  BY <1>1, <1>0 DEF PushLoad, shared, WritesInHand, Set, TypeOK, Owners
<1>6. OthersLocals(t)
  BY <1>1 DEF PushLoad, OthersLocals, Set, Types, TypeOK
<1>7. Delayed(t)'
  BY <1>1, <1>2, <1>0 DEF PushLoad, shared, Set, Goto, Delayed, Types, TypeOK, Seen, Acquiring, Pushing
<1>8. /\ pc[t] \in Pushing \cup Releasing <=> "pushCas" \in Pushing \cup Releasing
      /\ \/ calls' = calls + 1
         \/ /\ calls' = calls
            /\ "pushCas" \in HeadExchangers => pc[t] \in HeadExchangers
            /\ "pushCas" \in FreeExchangers => pc[t] \in FreeExchangers
  BY DEF PushLoad, Pushing, Releasing, Acquiring, Popping, HeadExchangers, FreeExchangers
<1> QED
  BY <1>2, <1>3, <1>4, <1>5, <1>6, <1>7, <1>8, QuietStep

(* ReleaseNode reads the head and links its node to it. *)
LEMMA ReleaseLoadInv ==
    ASSUME StackInv, NEW t \in Thread, ReleaseLoad(t)
    PROVE  StackInv'
<1>0. t \in Owners /\ node[t] \in Node
  BY InHand DEF ReleaseLoad, Pushing, Releasing
<1>1. Types /\ TypeOK /\ SizeAccounted /\ Delayed(t)
  BY DEF StackInv, Types
<1>2. Goto(t, "releaseCas") /\ UNCHANGED <<mHead, mFreeNodeHead, stack, free, node>>
  BY DEF ReleaseLoad, shared
<1>3. Types'
  <2>1. TypeOK'
    BY <1>1, <1>0 DEF ReleaseLoad, shared, Goto, Set, Types, TypeOK, TaggedHead
  <2> QED
    BY <1>1, <2>1, <1>0 DEF ReleaseLoad, shared, Goto, Set, Types, TypeOK, TaggedHead
<1>4. SizeAccounted'
  BY <1>1, <1>2, SizeStays DEF ReleaseLoad, shared, Releasing
<1>5. WritesInHand(t)
  BY <1>1, <1>0 DEF ReleaseLoad, shared, WritesInHand, Set, TypeOK, Owners
<1>6. OthersLocals(t)
  BY <1>1 DEF ReleaseLoad, OthersLocals, Set, Types, TypeOK
<1>7. Delayed(t)'
  BY <1>1, <1>2, <1>0 DEF ReleaseLoad, shared, Set, Goto, Delayed, Types, TypeOK, Seen, Acquiring, Pushing
<1>8. /\ pc[t] \in Pushing \cup Releasing <=> "releaseCas" \in Pushing \cup Releasing
      /\ \/ calls' = calls + 1
         \/ /\ calls' = calls
            /\ "releaseCas" \in HeadExchangers => pc[t] \in HeadExchangers
            /\ "releaseCas" \in FreeExchangers => pc[t] \in FreeExchangers
  BY DEF ReleaseLoad, Pushing, Releasing, Acquiring, Popping, HeadExchangers, FreeExchangers
<1> QED
  BY <1>2, <1>3, <1>4, <1>5, <1>6, <1>7, <1>8, QuietStep

(* Pop copies the value out of its node. *)
LEMMA TakeInv ==
    ASSUME StackInv, NEW t \in Thread, Take(t)
    PROVE  StackInv'
<1>0. t \in Owners /\ node[t] \in Node
  BY InHand DEF Take, Pushing, Releasing
<1>1. Types /\ TypeOK /\ SizeAccounted /\ Delayed(t)
  BY DEF StackInv, Types
<1>2. Goto(t, "release") /\ UNCHANGED <<mHead, mFreeNodeHead, stack, free, node>>
  BY DEF Take, shared
<1>3. Types'
  <2>1. TypeOK'
    BY <1>1, <1>0 DEF Take, shared, Goto, Set, Types, TypeOK, TaggedHead
  <2> QED
    BY <1>1, <2>1, <1>0 DEF Take, shared, Goto, Set, Types, TypeOK, TaggedHead
<1>4. SizeAccounted'
  BY <1>1, <1>2, SizeStays DEF Take, shared, Releasing
<1>5. WritesInHand(t)
  BY <1>1, <1>0 DEF Take, shared, WritesInHand, Set, TypeOK, Owners
<1>6. OthersLocals(t)
  BY <1>1 DEF Take, OthersLocals, Set, Types, TypeOK
<1>7. Delayed(t)'
  BY <1>1, <1>2, <1>0 DEF Take, shared, Set, Goto, Delayed, Types, TypeOK, Seen, Acquiring, Pushing
<1>8. /\ pc[t] \in Pushing \cup Releasing <=> "release" \in Pushing \cup Releasing
      /\ \/ calls' = calls + 1
         \/ /\ calls' = calls
            /\ "release" \in HeadExchangers => pc[t] \in HeadExchangers
            /\ "release" \in FreeExchangers => pc[t] \in FreeExchangers
  BY DEF Take, Pushing, Releasing, Acquiring, Popping, HeadExchangers, FreeExchangers
<1> QED
  BY <1>2, <1>3, <1>4, <1>5, <1>6, <1>7, <1>8, QuietStep

(* Push counts. *)
LEMMA PushSizeInv ==
    ASSUME StackInv, NEW t \in Thread, PushSize(t)
    PROVE  StackInv'
<1>0. SizeMod \in Nat \ {0} /\ mSize \in Int
  BY StackAssumption DEF StackInv, Types, TypeOK
<1>1. Types /\ TypeOK /\ SizeAccounted /\ Delayed(t)
  BY DEF StackInv, Types
<1>2. Goto(t, "idle") /\ UNCHANGED <<mHead, mFreeNodeHead, stack, free, node>>
  BY DEF PushSize, shared
<1>3. Types'
  <2>1. TypeOK'
    BY <1>1, <1>0 DEF PushSize, shared, Goto, Set, Types, TypeOK, TaggedHead
  <2> QED
    BY <1>1, <2>1, <1>0 DEF PushSize, shared, Goto, Set, Types, TypeOK, TaggedHead
<1>4. SizeAccounted'
  <2> DEFINE P == {"pushSize"}
             R == {"take", "release", "releaseCas", "popSize"}
             x == Len(stack) - Uncounted(P) + Uncounted(R)
  <2>1. /\ Uncounted(P) \in Nat /\ Uncounted(P)' \in Nat
        /\ Uncounted(P)' = Uncounted(P) + (IF "idle" \in P THEN 1 ELSE 0) - (IF pc[t] \in P THEN 1 ELSE 0)
    BY <1>1, <1>2, Moved
  <2>2. /\ Uncounted(R) \in Nat /\ Uncounted(R)' \in Nat
        /\ Uncounted(R)' = Uncounted(R) + (IF "idle" \in R THEN 1 ELSE 0) - (IF pc[t] \in R THEN 1 ELSE 0)
    BY <1>1, <1>2, Moved
  <2>3. Len(stack) \in Nat /\ x \in Int /\ SizeMod \in Nat \ {0} /\ mSize = x % SizeMod
    <3>1. Len(stack) \in Nat
      BY <1>1, LenProperties DEF Types
    <3>2. SizeMod \in Nat \ {0} /\ mSize = x % SizeMod
      BY <1>1, StackAssumption DEF SizeAccounted
    <3> QED
      BY <2>1, <2>2, <3>1, <3>2
  <2>4. "idle" \notin P /\ "idle" \notin R /\ pc[t] \in P /\ pc[t] \notin R
    BY DEF PushSize
  <2> HIDE DEF P, R
  <2>5. Len(stack) - Uncounted(P)' + Uncounted(R)' = x + 1
    BY <2>1, <2>2, <2>3, <2>4
  <2> HIDE DEF x
  <2>6. ((x % SizeMod) + 1) % SizeMod = (x + 1) % SizeMod
    BY <1>0, <2>3, ModUpDown
  <2>7. mSize' = (x + 1) % SizeMod
    BY <2>3, <2>6 DEF PushSize
  <2> QED
    BY <1>2, <2>5, <2>7 DEF SizeAccounted, P, R
<1>5. WritesInHand(t)
  BY <1>1, <1>0 DEF PushSize, shared, WritesInHand, Set, TypeOK, Owners
<1>6. OthersLocals(t)
  BY <1>1 DEF PushSize, OthersLocals, Set, Types, TypeOK
<1>7. Delayed(t)'
  BY <1>1, <1>2, <1>0 DEF PushSize, shared, Set, Goto, Delayed, Types, TypeOK, Seen, Acquiring, Pushing
<1>8. /\ pc[t] \in Pushing \cup Releasing <=> "idle" \in Pushing \cup Releasing
      /\ \/ calls' = calls + 1
         \/ /\ calls' = calls
            /\ "idle" \in HeadExchangers => pc[t] \in HeadExchangers
            /\ "idle" \in FreeExchangers => pc[t] \in FreeExchangers
  BY DEF PushSize, Pushing, Releasing, Acquiring, Popping, HeadExchangers, FreeExchangers
<1> QED
  BY <1>2, <1>3, <1>4, <1>5, <1>6, <1>7, <1>8, QuietStep

(* Pop counts. *)
LEMMA PopSizeInv ==
    ASSUME StackInv, NEW t \in Thread, PopSize(t)
    PROVE  StackInv'
<1>0. SizeMod \in Nat \ {0} /\ mSize \in Int
  BY StackAssumption DEF StackInv, Types, TypeOK
<1>1. Types /\ TypeOK /\ SizeAccounted /\ Delayed(t)
  BY DEF StackInv, Types
<1>2. Goto(t, "idle") /\ UNCHANGED <<mHead, mFreeNodeHead, stack, free, node>>
  BY DEF PopSize, shared
<1>3. Types'
  <2>1. TypeOK'
    BY <1>1, <1>0 DEF PopSize, shared, Goto, Set, Types, TypeOK, TaggedHead
  <2> QED
    BY <1>1, <2>1, <1>0 DEF PopSize, shared, Goto, Set, Types, TypeOK, TaggedHead
<1>4. SizeAccounted'
  <2> DEFINE P == {"pushSize"}
             R == {"take", "release", "releaseCas", "popSize"}
             x == Len(stack) - Uncounted(P) + Uncounted(R)
  <2>1. /\ Uncounted(P) \in Nat /\ Uncounted(P)' \in Nat
        /\ Uncounted(P)' = Uncounted(P) + (IF "idle" \in P THEN 1 ELSE 0) - (IF pc[t] \in P THEN 1 ELSE 0)
    BY <1>1, <1>2, Moved
  <2>2. /\ Uncounted(R) \in Nat /\ Uncounted(R)' \in Nat
        /\ Uncounted(R)' = Uncounted(R) + (IF "idle" \in R THEN 1 ELSE 0) - (IF pc[t] \in R THEN 1 ELSE 0)
    BY <1>1, <1>2, Moved
  <2>3. Len(stack) \in Nat /\ x \in Int /\ SizeMod \in Nat \ {0} /\ mSize = x % SizeMod
    <3>1. Len(stack) \in Nat
      BY <1>1, LenProperties DEF Types
    <3>2. SizeMod \in Nat \ {0} /\ mSize = x % SizeMod
      BY <1>1, StackAssumption DEF SizeAccounted
    <3> QED
      BY <2>1, <2>2, <3>1, <3>2
  <2>4. "idle" \notin P /\ "idle" \notin R /\ pc[t] \notin P /\ pc[t] \in R
    BY DEF PopSize
  <2> HIDE DEF P, R
  <2>5. Len(stack) - Uncounted(P)' + Uncounted(R)' = x - 1
    BY <2>1, <2>2, <2>3, <2>4
  <2> HIDE DEF x
  <2>6. ((x % SizeMod) - 1) % SizeMod = (x - 1) % SizeMod
    BY <1>0, <2>3, ModUpDown
  <2>7. mSize' = (x - 1) % SizeMod
    BY <2>3, <2>6 DEF PopSize
  <2> QED
    BY <1>2, <2>5, <2>7 DEF SizeAccounted, P, R
<1>5. WritesInHand(t)
  BY <1>1, <1>0 DEF PopSize, shared, WritesInHand, Set, TypeOK, Owners
<1>6. OthersLocals(t)
  BY <1>1 DEF PopSize, OthersLocals, Set, Types, TypeOK
<1>7. Delayed(t)'
  BY <1>1, <1>2, <1>0 DEF PopSize, shared, Set, Goto, Delayed, Types, TypeOK, Seen, Acquiring, Pushing
<1>8. /\ pc[t] \in Pushing \cup Releasing <=> "idle" \in Pushing \cup Releasing
      /\ \/ calls' = calls + 1
         \/ /\ calls' = calls
            /\ "idle" \in HeadExchangers => pc[t] \in HeadExchangers
            /\ "idle" \in FreeExchangers => pc[t] \in FreeExchangers
  BY DEF PopSize, Pushing, Releasing, Acquiring, Popping, HeadExchangers, FreeExchangers
<1> QED
  BY <1>2, <1>3, <1>4, <1>5, <1>6, <1>7, <1>8, QuietStep

(* AcquireNode reads the head, or finds no free node. *)
LEMMA AcquireLoadInv ==
    ASSUME StackInv, NEW t \in Thread, AcquireLoad(t)
    PROVE  StackInv'
<1>1. Types /\ TypeOK /\ SizeAccounted /\ Delayed(t)
  BY DEF StackInv, Types
<1>2. PICK l \in {"idle", "acquireNext"} : Goto(t, l) /\ (l = "acquireNext" => mFreeNodeHead.idx # Null)
  BY DEF AcquireLoad
<1>3. UNCHANGED <<shared, stack, free, node, next, elem, calls>> /\ head' = Set(head, t, mFreeNodeHead)
  BY DEF AcquireLoad
<1>4. Types'
  <2>1. TypeOK'
    BY <1>1, <1>2, <1>3 DEF shared, Goto, TypeOK
  <2>2. result' \in [Thread -> Value \cup {T0, "none", "full", "empty"}]
    BY <1>1 DEF AcquireLoad, Set, Types
  <2>3. head' \in [Thread -> TaggedHead]
    BY <1>1, <1>3 DEF Set, Types, TypeOK, TaggedHead
  <2> QED
    BY <1>1, <1>3, <2>1, <2>2, <2>3 DEF Types
<1>5. SizeAccounted'
  BY <1>1, <1>2, <1>3, SizeStays DEF AcquireLoad, shared, Releasing
<1>6. WritesInHand(t)
  BY <1>3 DEF shared, WritesInHand
<1>7. OthersLocals(t)
  BY <1>1, <1>3 DEF OthersLocals, Set, Types, TypeOK
<1>8. Delayed(t)'
  BY <1>1, <1>2, <1>3 DEF AcquireLoad, shared, Set, Goto, Delayed, Types, TypeOK, Seen, Acquiring, Pushing
<1>9. /\ pc[t] \in Pushing \cup Releasing <=> l \in Pushing \cup Releasing
      /\ l \in HeadExchangers => pc[t] \in HeadExchangers
      /\ l \in FreeExchangers => pc[t] \in FreeExchangers
  BY <1>2 DEF AcquireLoad, Pushing, Releasing, Acquiring, Popping, HeadExchangers, FreeExchangers
<1> QED
  BY <1>2, <1>3, <1>4, <1>5, <1>6, <1>7, <1>8, <1>9, QuietStep DEF shared

(* Pop reads the head, or finds the stack empty. *)
LEMMA PopLoadInv ==
    ASSUME StackInv, NEW t \in Thread, PopLoad(t)
    PROVE  StackInv'
<1>1. Types /\ TypeOK /\ SizeAccounted /\ Delayed(t)
  BY DEF StackInv, Types
<1>2. PICK l \in {"idle", "popNext"} : Goto(t, l) /\ (l = "popNext" => mHead.idx # Null)
  BY DEF PopLoad
<1>3. UNCHANGED <<shared, stack, free, node, next, elem, calls>> /\ head' = Set(head, t, mHead)
  BY DEF PopLoad
<1>4. Types'
  <2>1. TypeOK'
    BY <1>1, <1>2, <1>3 DEF shared, Goto, TypeOK
  <2>2. result' \in [Thread -> Value \cup {T0, "none", "full", "empty"}]
    BY <1>1 DEF PopLoad, Set, Types
  <2>3. head' \in [Thread -> TaggedHead]
    BY <1>1, <1>3 DEF Set, Types, TypeOK, TaggedHead
  <2> QED
    BY <1>1, <1>3, <2>1, <2>2, <2>3 DEF Types
<1>5. SizeAccounted'
  BY <1>1, <1>2, <1>3, SizeStays DEF PopLoad, shared, Releasing
<1>6. WritesInHand(t)
  BY <1>3 DEF shared, WritesInHand
<1>7. OthersLocals(t)
  BY <1>1, <1>3 DEF OthersLocals, Set, Types, TypeOK
<1>8. Delayed(t)'
  BY <1>1, <1>2, <1>3 DEF PopLoad, shared, Set, Goto, Delayed, Types, TypeOK, Seen, Acquiring, Pushing
<1>9. /\ pc[t] \in Pushing \cup Releasing <=> l \in Pushing \cup Releasing
      /\ l \in HeadExchangers => pc[t] \in HeadExchangers
      /\ l \in FreeExchangers => pc[t] \in FreeExchangers
  BY <1>2 DEF PopLoad, Pushing, Releasing, Acquiring, Popping, HeadExchangers, FreeExchangers
<1> QED
  BY <1>2, <1>3, <1>4, <1>5, <1>6, <1>7, <1>8, <1>9, QuietStep DEF shared

(* An exchange that fails: the call starts again from the head. *)
LEMMA FailedCas ==
    ASSUME StackInv, NEW t \in Thread, NEW l, Goto(t, l),
           \/ pc[t] = "acquireCas" /\ l = "acquire"
           \/ pc[t] = "pushCas" /\ l = "push"
           \/ pc[t] = "popCas" /\ l = "pop"
           \/ pc[t] = "releaseCas" /\ l = "release",
           UNCHANGED <<shared, calls, head, next, node, elem, result, stack, free>>
    PROVE  StackInv'
<1>1. Types /\ TypeOK /\ SizeAccounted /\ Delayed(t)
  BY DEF StackInv, Types
<1>4. Types'
  <2>1. TypeOK'
    BY <1>1 DEF shared, Goto, TypeOK
  <2> QED
    BY <1>1, <2>1 DEF shared, Types
<1>5. SizeAccounted'
  BY <1>1, SizeStays DEF shared, Releasing
<1>6. WritesInHand(t)
  BY DEF shared, WritesInHand
<1>7. OthersLocals(t)
  BY DEF OthersLocals
<1>8. Delayed(t)'
  BY <1>1 DEF shared, Goto, Delayed, Types, TypeOK, Acquiring, Pushing
<1>9. /\ pc[t] \in Pushing \cup Releasing <=> l \in Pushing \cup Releasing
      /\ l \in HeadExchangers => pc[t] \in HeadExchangers
      /\ l \in FreeExchangers => pc[t] \in FreeExchangers
  BY DEF Pushing, Releasing, Acquiring, Popping, HeadExchangers, FreeExchangers
<1> QED
  BY <1>4, <1>5, <1>6, <1>7, <1>8, <1>9, QuietStep DEF shared

-----------------------------------------------------------------------------
(* The steps that exchange a head.  First what they do to the places of the *)
(* nodes: an exchange takes the first node n of a list into the hands of t, *)
(* or puts the node that t had in hand to the front of a list.              *)
LEMMA OwnersNumber ==
    ASSUME TypeOK, NEW t \in Thread, NEW l, Goto(t, l)
    PROVE  /\ Cardinality(Owners) \in Nat
           /\ Cardinality(Owners') = Cardinality(Owners) + (IF l \in Pushing \cup Releasing THEN 1 ELSE 0)
                                                         - (IF pc[t] \in Pushing \cup Releasing THEN 1 ELSE 0)
<1> DEFINE P == Pushing \cup Releasing
<1>1. Owners = {u \in Thread : pc[u] \in P} /\ Owners' = {u \in Thread : pc'[u] \in P}
  BY DEF Owners, Pushing, Releasing
<1>2. Uncounted(P) = Cardinality(Owners) /\ Uncounted(P)' = Cardinality(Owners')
  BY <1>1 DEF Uncounted
<1> HIDE DEF P
<1>3. /\ Uncounted(P) \in Nat
      /\ Uncounted(P)' = Uncounted(P) + (IF l \in P THEN 1 ELSE 0) - (IF pc[t] \in P THEN 1 ELSE 0)
  BY Moved
<1> QED
  BY <1>2, <1>3 DEF P

(* The first node of a chain goes into the hands of a thread. *)
LEMMA TakenInHand ==
    ASSUME Types, EachNodeInOnePlace, OnePlaceOnly, NEW t \in Thread, NEW l, Goto(t, l),
           pc[t] \notin Pushing \cup Releasing, l \in Pushing \cup Releasing, NEW n \in Node,
           node' = [node EXCEPT ![t] = n],
           \/ free # <<>> /\ n = free[1] /\ free' = Rest(free) /\ stack' = stack
           \/ stack # <<>> /\ n = stack[1] /\ stack' = Rest(stack) /\ free' = free
    PROVE  EachNodeInOnePlace' /\ OnePlaceOnly' /\ stack' \in Seq(Node) /\ free' \in Seq(Node)
<1> DEFINE E == Elements(stack) \cup Elements(free)
           F == Elements(stack') \cup Elements(free')
<1>1. TypeOK /\ stack \in Seq(Node) /\ free \in Seq(Node) /\ Len(stack) \in Nat /\ Len(free) \in Nat
  BY LenProperties DEF Types
<1>2. t \notin Owners /\ Owners' = Owners \cup {t} /\ Owners \subseteq Thread
  BY <1>1, OwnersMoved DEF Owners
<1>3. Cardinality(Owners) \in Nat /\ Cardinality(Owners') = Cardinality(Owners) + 1
  BY <1>1, OwnersNumber
<1>4. /\ stack' \in Seq(Node) /\ free' \in Seq(Node)
      /\ Len(stack') + Len(free') + 1 = Len(stack) + Len(free)
      /\ Len(stack') \in Nat /\ Len(free') \in Nat
      /\ NoRepeats(stack') /\ NoRepeats(free')
      /\ Elements(stack') \cap Elements(free') = {}
      /\ E = F \cup {n} /\ n \notin F
  <2>1. CASE free # <<>> /\ n = free[1] /\ free' = Rest(free) /\ stack' = stack
    <3>1. /\ free' \in Seq(Node) /\ Len(free') = Len(free) - 1 /\ Len(free) \in Nat \ {0}
          /\ NoRepeats(free') /\ n \notin Elements(free') /\ Elements(free) = Elements(free') \cup {n}
      BY <1>1, <2>1, NodeTaken DEF OnePlaceOnly
    <3>2. NoRepeats(stack') /\ Elements(stack') = Elements(stack) /\ Len(stack') = Len(stack)
      BY <2>1 DEF OnePlaceOnly
    <3> QED
      BY <1>1, <2>1, <3>1, <3>2 DEF OnePlaceOnly
  <2>2. CASE stack # <<>> /\ n = stack[1] /\ stack' = Rest(stack) /\ free' = free
    <3>1. /\ stack' \in Seq(Node) /\ Len(stack') = Len(stack) - 1 /\ Len(stack) \in Nat \ {0}
          /\ NoRepeats(stack') /\ n \notin Elements(stack') /\ Elements(stack) = Elements(stack') \cup {n}
      BY <1>1, <2>2, NodeTaken DEF OnePlaceOnly
    <3>2. NoRepeats(free') /\ Elements(free') = Elements(free) /\ Len(free') = Len(free)
      BY <2>2 DEF OnePlaceOnly
    <3> QED
      BY <1>1, <2>2, <3>1, <3>2 DEF OnePlaceOnly
  <2> QED
    BY <2>1, <2>2
<1>5. node'[t] = n /\ (\A u \in Owners : node'[u] = node[u] /\ u # t)
  BY <1>1, <1>2 DEF TypeOK
<1>6. \A u \in Owners : node[u] \in Node \ E
  BY DEF OnePlaceOnly
<1>7. {node'[u] : u \in Owners'} = {node[u] : u \in Owners} \cup {n}
  BY <1>2, <1>5
<1> HIDE DEF E, F
<1>8. EachNodeInOnePlace'
  <2>1. Len(stack) + Len(free) + Cardinality(Owners) = Limit /\ E \cup {node[u] : u \in Owners} = Node
    BY DEF EachNodeInOnePlace, E
  <2>2. Len(stack') + Len(free') + Cardinality(Owners') = Limit
    BY <1>1, <1>3, <1>4, <2>1
  <2>3. F \cup {node'[u] : u \in Owners'} = Node
    BY <1>4, <1>7, <2>1
  <2> QED
    BY <2>2, <2>3 DEF EachNodeInOnePlace, F, Elements
<1>9. \A u \in Owners' : node'[u] \in Node \ F
  BY <1>2, <1>4, <1>5, <1>6
<1>10. \A u, v \in Owners' : node'[u] = node'[v] => u = v
  BY <1>2, <1>4, <1>5, <1>6 DEF OnePlaceOnly
<1> QED
  BY <1>4, <1>8, <1>9, <1>10 DEF OnePlaceOnly, F, Elements, NoRepeats

(* A node goes from the hands of a thread to the front of a chain. *)
LEMMA PutInFront ==
    ASSUME Types, EachNodeInOnePlace, OnePlaceOnly, NEW t \in Thread, NEW l, Goto(t, l),
           pc[t] \in Pushing \cup Releasing, l \notin Pushing \cup Releasing, UNCHANGED node,
           \/ free' = <<node[t]>> \o free /\ stack' = stack
           \/ stack' = <<node[t]>> \o stack /\ free' = free
    PROVE  EachNodeInOnePlace' /\ OnePlaceOnly' /\ stack' \in Seq(Node) /\ free' \in Seq(Node)
<1> DEFINE E == Elements(stack) \cup Elements(free)
           F == Elements(stack') \cup Elements(free')
           n == node[t]
<1>1. TypeOK /\ stack \in Seq(Node) /\ free \in Seq(Node) /\ Len(stack) \in Nat /\ Len(free) \in Nat
  BY LenProperties DEF Types
<1>2. t \in Owners /\ Owners' = Owners \ {t} /\ Owners \subseteq Thread
  BY <1>1, OwnersMoved DEF Owners
<1>3. Cardinality(Owners) \in Nat /\ Cardinality(Owners') = Cardinality(Owners) - 1
  BY <1>1, OwnersNumber
<1>4. n \in Node /\ n \notin E
  BY <1>2 DEF OnePlaceOnly
<1> HIDE DEF n
<1>5. /\ stack' \in Seq(Node) /\ free' \in Seq(Node)
      /\ Len(stack') + Len(free') = Len(stack) + Len(free) + 1
      /\ NoRepeats(stack') /\ NoRepeats(free')
      /\ Elements(stack') \cap Elements(free') = {}
      /\ F = E \cup {n}
  <2>1. CASE free' = <<n>> \o free /\ stack' = stack
    <3>1. /\ free' \in Seq(Node) /\ Len(free') = Len(free) + 1
          /\ NoRepeats(free') /\ Elements(free') = Elements(free) \cup {n}
      BY <1>1, <1>4, <2>1, NodeAdded DEF OnePlaceOnly
    <3>2. NoRepeats(stack') /\ Elements(stack') = Elements(stack) /\ Len(stack') = Len(stack)
      BY <2>1 DEF OnePlaceOnly
    <3> QED
      BY <1>1, <1>4, <2>1, <3>1, <3>2 DEF OnePlaceOnly
  <2>2. CASE stack' = <<n>> \o stack /\ free' = free
    <3>1. /\ stack' \in Seq(Node) /\ Len(stack') = Len(stack) + 1
          /\ NoRepeats(stack') /\ Elements(stack') = Elements(stack) \cup {n}
      BY <1>1, <1>4, <2>2, NodeAdded DEF OnePlaceOnly
    <3>2. NoRepeats(free') /\ Elements(free') = Elements(free) /\ Len(free') = Len(free)
      BY <2>2 DEF OnePlaceOnly
    <3> QED
      BY <1>1, <1>4, <2>2, <3>1, <3>2 DEF OnePlaceOnly
  <2> QED
    BY <2>1, <2>2 DEF n
<1>6. \A u \in Owners : node[u] \in Node \ E
  BY DEF OnePlaceOnly
<1>7. {node[u] : u \in Owners} = {node[u] : u \in Owners'} \cup {n}
  BY <1>2 DEF n
<1>8. \A u \in Owners' : node[u] # n
  BY <1>2 DEF n, OnePlaceOnly
<1> HIDE DEF E, F
<1>9. EachNodeInOnePlace'
  <2>1. Len(stack) + Len(free) + Cardinality(Owners) = Limit /\ E \cup {node[u] : u \in Owners} = Node
    BY DEF EachNodeInOnePlace, E
  <2>2. Len(stack') + Len(free') + Cardinality(Owners') = Limit
    <3>1. Len(stack') \in Nat /\ Len(free') \in Nat
      BY <1>5, LenProperties
    <3> QED
      BY <1>1, <1>3, <1>5, <2>1, <3>1
  <2>3. F \cup {node[u] : u \in Owners'} = Node
    BY <1>5, <1>7, <2>1
  <2> QED
    BY <2>2, <2>3 DEF EachNodeInOnePlace, F, Elements
<1>10. \A u \in Owners' : node[u] \in Node \ F
  BY <1>2, <1>5, <1>6, <1>8
<1> QED
  BY <1>2, <1>5, <1>9, <1>10 DEF OnePlaceOnly, F, Elements, NoRepeats

(* At an exchange the caller itself is still counted: the tag is not the last. *)
LEMMA TagFree ==
    ASSUME Types, TagsCounted, NEW t \in Thread, NEW l, Goto(t, l)
    PROVE  /\ mHead \in TaggedHead /\ mFreeNodeHead \in TaggedHead
           /\ \A h \in TaggedHead : h.tag \in Nat
           /\ pc[t] \in HeadExchangers => mHead.tag + 1 < TagMod
           /\ pc[t] \in FreeExchangers => mFreeNodeHead.tag + 1 < TagMod
           /\ pc[t] \in HeadExchangers /\ l \notin HeadExchangers =>
                 mHead.tag + 1 + Uncounted(HeadExchangers)' <= calls
           /\ (l \in HeadExchangers <=> pc[t] \in HeadExchangers) =>
                 mHead.tag + Uncounted(HeadExchangers)' <= calls
           /\ pc[t] \in FreeExchangers /\ l \notin FreeExchangers =>
                 mFreeNodeHead.tag + 1 + Uncounted(FreeExchangers)' <= Limit + calls
           /\ (l \in FreeExchangers <=> pc[t] \in FreeExchangers) =>
                 mFreeNodeHead.tag + Uncounted(FreeExchangers)' <= Limit + calls
<1> DEFINE H == HeadExchangers
           F == FreeExchangers
<1>1. TypeOK /\ calls \in 0 .. MaxCalls /\ Limit \in Nat /\ TagMod \in Nat /\ MaxCalls \in Nat
      /\ TagMod > 4 * MaxCalls + Limit
  BY StackAssumption DEF Types
<1>2. mHead \in TaggedHead /\ mFreeNodeHead \in TaggedHead
  BY <1>1 DEF TypeOK, TaggedHead
<1>3. \A h \in TaggedHead : h.tag \in Nat
  BY <1>1 DEF TaggedHead
<1>4. /\ Uncounted(H) \in Nat /\ Uncounted(H)' \in Nat /\ (pc[t] \in H => Uncounted(H) > 0)
      /\ Uncounted(H)' = Uncounted(H) + (IF l \in H THEN 1 ELSE 0) - (IF pc[t] \in H THEN 1 ELSE 0)
  BY <1>1, Moved
<1>5. /\ Uncounted(F) \in Nat /\ Uncounted(F)' \in Nat /\ (pc[t] \in F => Uncounted(F) > 0)
      /\ Uncounted(F)' = Uncounted(F) + (IF l \in F THEN 1 ELSE 0) - (IF pc[t] \in F THEN 1 ELSE 0)
  BY <1>1, Moved
<1>6. /\ mHead.tag + Uncounted(H) <= calls
      /\ mFreeNodeHead.tag + Uncounted(F) <= Limit + calls
  BY DEF TagsCounted, HeadExchangers, FreeExchangers
<1>7. mHead.tag \in Nat /\ mFreeNodeHead.tag \in Nat
  BY <1>2, <1>3
<1> HIDE DEF H, F
<1>8. /\ pc[t] \in H => mHead.tag + 1 < TagMod
      /\ pc[t] \in F => mFreeNodeHead.tag + 1 < TagMod
  BY <1>1, <1>4, <1>5, <1>6, <1>7
<1>9. /\ pc[t] \in H /\ l \notin H => mHead.tag + 1 + Uncounted(H)' <= calls
      /\ (l \in H <=> pc[t] \in H) => mHead.tag + Uncounted(H)' <= calls
  BY <1>1, <1>4, <1>6, <1>7
<1>10. /\ pc[t] \in F /\ l \notin F => mFreeNodeHead.tag + 1 + Uncounted(F)' <= Limit + calls
       /\ (l \in F <=> pc[t] \in F) => mFreeNodeHead.tag + Uncounted(F)' <= Limit + calls
  BY <1>1, <1>5, <1>6, <1>7
<1> QED
  BY <1>2, <1>3, <1>8, <1>9, <1>10 DEF H, F

(* AcquireNode takes the first node of the free list. *)
LEMMA AcquireCasInv ==
    ASSUME StackInv, NEW t \in Thread, AcquireCas(t)
    PROVE  StackInv'
<1>1. Types /\ TypeOK /\ SizeAccounted /\ Delayed(t) /\ EachNodeInOnePlace /\ OnePlaceOnly
      /\ ListsAreChains /\ TagsCounted
  BY DEF StackInv, Types
<1>2. CASE mFreeNodeHead # head[t]
  <2>1. Goto(t, "acquire") /\ UNCHANGED <<shared, calls, head, next, node, elem, result, stack, free>>
    BY <1>2 DEF AcquireCas, shared
  <2> QED
    BY <2>1, FailedCas DEF AcquireCas
<1>3. CASE mFreeNodeHead = head[t]
  <2> DEFINE n == head[t].idx
  <2>1. /\ Goto(t, "push") /\ free' = Rest(free) /\ stack' = stack
        /\ node' = [node EXCEPT ![t] = n] /\ mValue' = [mValue EXCEPT ![n] = elem[t]]
        /\ mFreeNodeHead' = Swing(mFreeNodeHead, next[t])
        /\ UNCHANGED <<mHead, mNext, mNextFreeNode, mSize, calls, head, next, elem, result>>
    BY <1>3 DEF AcquireCas, Set
  <2>2. /\ n \in Node /\ n = mFreeNodeHead.idx /\ next[t] = mNextFreeNode[n] /\ elem[t] \in Value
        /\ next[t] \in Node \cup {Null}
    BY <1>1, <1>3 DEF AcquireCas, Delayed, Acquiring, TypeOK
  <2>3. free # <<>> /\ n = free[1] /\ n \in Elements(free)
    <3>1. free \in Seq(Node) /\ IsChain(mFreeNodeHead, mNextFreeNode, free) /\ n # Null
      BY <1>1, <2>2 DEF Types, ListsAreChains, Node, Null
    <3> QED
      BY <2>2, <3>1, HeadFirst
  <2>4. pc[t] = "acquireCas"
    BY DEF AcquireCas
  <2>5. /\ pc[t] \notin Pushing \cup Releasing /\ "push" \in Pushing \cup Releasing
        /\ pc[t] \in FreeExchangers /\ "push" \notin FreeExchangers
        /\ pc[t] \in HeadExchangers /\ "push" \in HeadExchangers
    BY <2>4 DEF Pushing, Releasing, Acquiring, Popping, FreeExchangers, HeadExchangers
  <2>6. /\ mFreeNodeHead \in TaggedHead /\ mHead \in TaggedHead /\ mFreeNodeHead.tag \in Nat
        /\ mFreeNodeHead.tag + 1 < TagMod
        /\ mFreeNodeHead.tag + 1 + Uncounted(FreeExchangers)' <= Limit + calls
        /\ mHead.tag + Uncounted(HeadExchangers)' <= calls
    BY <1>1, <2>1, <2>5, TagFree
  <2>7. /\ mFreeNodeHead' \in TaggedHead /\ mFreeNodeHead'.idx = next[t]
        /\ mFreeNodeHead'.tag = mFreeNodeHead.tag + 1
    BY <2>1, <2>2, <2>6, SwingNext
  <2> HIDE DEF n
  <2>8. EachNodeInOnePlace' /\ OnePlaceOnly' /\ stack' \in Seq(Node) /\ free' \in Seq(Node)
    BY <1>1, <2>1, <2>2, <2>3, <2>5, TakenInHand
  <2>9. TypeOK'
    BY <1>1, <2>1, <2>2, <2>7 DEF TypeOK, Goto, TaggedHead
  <2>10. Types'
    BY <1>1, <2>1, <2>8, <2>9 DEF Types
  <2>11. ListsAreChains'
    <3>1. IsChain(mFreeNodeHead', mNextFreeNode, Rest(free))
      BY <1>1, <2>2, <2>3, <2>7, ChainTaken DEF ListsAreChains, Types
    <3> QED
      BY <1>1, <2>1, <3>1 DEF ListsAreChains
  <2>12. TagsCounted'
    BY <2>1, <2>6, <2>7 DEF TagsCounted, HeadExchangers, FreeExchangers
  <2>13. SizeAccounted'
    BY <1>1, <2>1, <2>4, SizeStays DEF Releasing
  <2>14. ASSUME NEW u \in Thread PROVE Delayed(u)'
    <3>1. CASE u = t
      <4>1. pc'[u] = "push" /\ node'[u] = n /\ mValue'[n] \in Value
        BY <1>1, <2>1, <2>2, <3>1 DEF Goto, TypeOK
      <4> QED
        BY <4>1 DEF Delayed, Acquiring, Pushing
    <3>2. CASE u # t
      <4>1. pc'[u] = pc[u] /\ node'[u] = node[u]
        BY <1>1, <2>1, <3>2 DEF Goto, TypeOK
      <4>2. Later(mHead, mHead') /\ Later(mFreeNodeHead, mFreeNodeHead')
        BY <2>1, <2>6, <2>7 DEF Later
      <4>3. u \in Owners => node[u] \in Node /\ node[u] # n
        BY <1>1, <2>3 DEF OnePlaceOnly
      <4>4. u \in Owners => mValue'[node[u]] = mValue[node[u]]
        BY <1>1, <2>1, <4>3 DEF TypeOK
      <4> QED
        BY <2>1, <4>1, <4>2, <4>4, OthersKnow
    <3> QED
      BY <3>1, <3>2
  <2> QED
    BY <2>8, <2>10, <2>11, <2>12, <2>13, <2>14 DEF StackInv
<1> QED
  BY <1>2, <1>3

(* Pop takes the first node of the stack. *)
LEMMA PopCasInv ==
    ASSUME StackInv, NEW t \in Thread, PopCas(t)
    PROVE  StackInv'
<1>1. Types /\ TypeOK /\ SizeAccounted /\ Delayed(t) /\ EachNodeInOnePlace /\ OnePlaceOnly
      /\ ListsAreChains /\ TagsCounted
  BY DEF StackInv, Types
<1>2. CASE mHead # head[t]
  <2>1. Goto(t, "pop") /\ UNCHANGED <<shared, calls, head, next, node, elem, result, stack, free>>
    BY <1>2 DEF PopCas, shared
  <2> QED
    BY <2>1, FailedCas DEF PopCas
<1>3. CASE mHead = head[t]
  <2> DEFINE n == head[t].idx
  <2>1. /\ Goto(t, "take") /\ stack' = Rest(stack) /\ free' = free
        /\ node' = [node EXCEPT ![t] = n] /\ mHead' = Swing(mHead, next[t])
        /\ UNCHANGED <<mFreeNodeHead, mNext, mNextFreeNode, mValue, mSize, calls, head, next, elem, result>>
    BY <1>3 DEF PopCas, Set
  <2>2. /\ n \in Node /\ n = mHead.idx /\ next[t] = mNext[n]
        /\ next[t] \in Node \cup {Null}
    BY <1>1, <1>3 DEF PopCas, Delayed, TypeOK
  <2>3. stack # <<>> /\ n = stack[1] /\ n \in Elements(stack)
    <3>1. stack \in Seq(Node) /\ IsChain(mHead, mNext, stack) /\ n # Null
      BY <1>1, <2>2 DEF Types, ListsAreChains, Node, Null
    <3> QED
      BY <2>2, <3>1, HeadFirst
  <2>4. pc[t] = "popCas"
    BY DEF PopCas
  <2>5. /\ pc[t] \notin Pushing \cup Releasing /\ "take" \in Pushing \cup Releasing
        /\ pc[t] \in HeadExchangers /\ "take" \notin HeadExchangers
        /\ pc[t] \in FreeExchangers /\ "take" \in FreeExchangers
    BY <2>4 DEF Pushing, Releasing, Acquiring, Popping, FreeExchangers, HeadExchangers
  <2>6. /\ mFreeNodeHead \in TaggedHead /\ mHead \in TaggedHead /\ mHead.tag \in Nat
        /\ mHead.tag + 1 < TagMod
        /\ mHead.tag + 1 + Uncounted(HeadExchangers)' <= calls
        /\ mFreeNodeHead.tag + Uncounted(FreeExchangers)' <= Limit + calls
    BY <1>1, <2>1, <2>5, TagFree
  <2>7. mHead' \in TaggedHead /\ mHead'.idx = next[t] /\ mHead'.tag = mHead.tag + 1
    BY <2>1, <2>2, <2>6, SwingNext
  <2> HIDE DEF n
  <2>8. EachNodeInOnePlace' /\ OnePlaceOnly' /\ stack' \in Seq(Node) /\ free' \in Seq(Node)
    BY <1>1, <2>1, <2>2, <2>3, <2>5, TakenInHand
  <2>9. TypeOK'
    BY <1>1, <2>1, <2>2, <2>7 DEF TypeOK, Goto, TaggedHead
  <2>10. Types'
    BY <1>1, <2>1, <2>8, <2>9 DEF Types
  <2>11. ListsAreChains'
    <3>1. IsChain(mHead', mNext, Rest(stack))
      BY <1>1, <2>2, <2>3, <2>7, ChainTaken DEF ListsAreChains, Types
    <3> QED
      BY <1>1, <2>1, <3>1 DEF ListsAreChains
  <2>12. TagsCounted'
    BY <2>1, <2>6, <2>7 DEF TagsCounted, HeadExchangers, FreeExchangers
  <2>13. SizeAccounted'
    <3> DEFINE P == {"pushSize"}
               R == {"take", "release", "releaseCas", "popSize"}
    <3>1. /\ Uncounted(P) \in Nat /\ Uncounted(P)' \in Nat
          /\ Uncounted(P)' = Uncounted(P) + (IF "take" \in P THEN 1 ELSE 0) - (IF pc[t] \in P THEN 1 ELSE 0)
      BY <1>1, <2>1, Moved
    <3>2. /\ Uncounted(R) \in Nat /\ Uncounted(R)' \in Nat
          /\ Uncounted(R)' = Uncounted(R) + (IF "take" \in R THEN 1 ELSE 0) - (IF pc[t] \in R THEN 1 ELSE 0)
      BY <1>1, <2>1, Moved
    <3>3. Len(stack) \in Nat /\ Len(stack') = Len(stack) - 1
      BY <1>1, <2>1, <2>2, <2>3, FrontTaken DEF Types, Rest
    <3>4. pc[t] \notin P /\ pc[t] \notin R /\ "take" \notin P /\ "take" \in R
      BY <2>4
    <3> HIDE DEF P, R
    <3>5. Len(stack') - Uncounted(P)' + Uncounted(R)' = Len(stack) - Uncounted(P) + Uncounted(R)
      BY <3>1, <3>2, <3>3, <3>4
    <3> QED
      BY <1>1, <2>1, <3>5 DEF SizeAccounted, P, R
  <2>14. ASSUME NEW u \in Thread PROVE Delayed(u)'
    <3>1. CASE u = t
      <4>1. pc'[u] = "take"
        BY <1>1, <2>1, <3>1 DEF Goto, TypeOK
      <4> QED
        BY <4>1 DEF Delayed, Acquiring, Pushing
    <3>2. CASE u # t
      <4>1. pc'[u] = pc[u] /\ node'[u] = node[u]
        BY <1>1, <2>1, <3>2 DEF Goto, TypeOK
      <4>2. Later(mHead, mHead') /\ Later(mFreeNodeHead, mFreeNodeHead')
        BY <2>1, <2>6, <2>7 DEF Later
      <4> QED
        BY <2>1, <4>1, <4>2, OthersKnow
    <3> QED
      BY <3>1, <3>2
  <2> QED
    BY <2>8, <2>10, <2>11, <2>12, <2>13, <2>14 DEF StackInv
<1> QED
  BY <1>2, <1>3

(* Push puts its node in front of the stack. *)
LEMMA PushCasInv ==
    ASSUME StackInv, NEW t \in Thread, PushCas(t)
    PROVE  StackInv'
<1>1. Types /\ TypeOK /\ SizeAccounted /\ Delayed(t) /\ EachNodeInOnePlace /\ OnePlaceOnly
      /\ ListsAreChains /\ TagsCounted
  BY DEF StackInv, Types
<1>2. CASE mHead # head[t]
  <2>1. Goto(t, "push") /\ UNCHANGED <<shared, calls, head, next, node, elem, result, stack, free>>
    BY <1>2 DEF PushCas, shared
  <2> QED
    BY <2>1, FailedCas DEF PushCas
<1>3. CASE mHead = head[t]
  <2> DEFINE n == node[t]
  <2>1. /\ Goto(t, "pushSize") /\ stack' = <<n>> \o stack /\ free' = free
        /\ mHead' = Swing(mHead, n)
        /\ UNCHANGED <<mFreeNodeHead, mNext, mNextFreeNode, mValue, mSize, calls, head, next, node, elem, result>>
    BY <1>3 DEF PushCas
  <2>2. n \in Node /\ mNext[n] = mHead.idx
    BY <1>1, <1>3, InHand DEF PushCas, Delayed, Pushing, Releasing
  <2>4. pc[t] = "pushCas"
    BY DEF PushCas
  <2>5. /\ pc[t] \in Pushing \cup Releasing /\ "pushSize" \notin Pushing \cup Releasing
        /\ pc[t] \in HeadExchangers /\ "pushSize" \notin HeadExchangers
        /\ pc[t] \notin FreeExchangers /\ "pushSize" \notin FreeExchangers
    BY <2>4 DEF Pushing, Releasing, Acquiring, Popping, FreeExchangers, HeadExchangers
  <2>6. /\ mFreeNodeHead \in TaggedHead /\ mHead \in TaggedHead /\ mHead.tag \in Nat
        /\ mHead.tag + 1 < TagMod
        /\ mHead.tag + 1 + Uncounted(HeadExchangers)' <= calls
        /\ mFreeNodeHead.tag + Uncounted(FreeExchangers)' <= Limit + calls
    BY <1>1, <2>1, <2>5, TagFree
  <2>7. mHead' \in TaggedHead /\ mHead'.idx = n /\ mHead'.tag = mHead.tag + 1
    BY <2>1, <2>2, <2>6, SwingNext
  <2>8. EachNodeInOnePlace' /\ OnePlaceOnly' /\ stack' \in Seq(Node) /\ free' \in Seq(Node)
    BY <1>1, <2>1, <2>5, PutInFront
  <2> HIDE DEF n
  <2>9. TypeOK'
    BY <1>1, <2>1, <2>2, <2>7 DEF TypeOK, Goto, TaggedHead
  <2>10. Types'
    BY <1>1, <2>1, <2>8, <2>9 DEF Types
  <2>11. ListsAreChains'
    <3>1. IsChain(mHead', mNext, <<n>> \o stack)
      BY <1>1, <2>2, <2>7, ChainAdded DEF ListsAreChains, Types
    <3> QED
      BY <1>1, <2>1, <3>1 DEF ListsAreChains
  <2>12. TagsCounted'
    BY <2>1, <2>6, <2>7 DEF TagsCounted, HeadExchangers, FreeExchangers
  <2>13. SizeAccounted'
    <3> DEFINE P == {"pushSize"}
               R == {"take", "release", "releaseCas", "popSize"}
    <3>1. /\ Uncounted(P) \in Nat /\ Uncounted(P)' \in Nat
          /\ Uncounted(P)' = Uncounted(P) + (IF "pushSize" \in P THEN 1 ELSE 0) - (IF pc[t] \in P THEN 1 ELSE 0)
      BY <1>1, <2>1, Moved
    <3>2. /\ Uncounted(R) \in Nat /\ Uncounted(R)' \in Nat
          /\ Uncounted(R)' = Uncounted(R) + (IF "pushSize" \in R THEN 1 ELSE 0) - (IF pc[t] \in R THEN 1 ELSE 0)
      BY <1>1, <2>1, Moved
    <3>3. Len(stack) \in Nat /\ Len(stack') = Len(stack) + 1
      BY <1>1, <2>1, <2>2, FrontAdded DEF Types
    <3>4. pc[t] \notin P /\ pc[t] \notin R /\ "pushSize" \in P /\ "pushSize" \notin R
      BY <2>4
    <3> HIDE DEF P, R
    <3>5. Len(stack') - Uncounted(P)' + Uncounted(R)' = Len(stack) - Uncounted(P) + Uncounted(R)
      BY <3>1, <3>2, <3>3, <3>4
    <3> QED
      BY <1>1, <2>1, <3>5 DEF SizeAccounted, P, R
  <2>14. ASSUME NEW u \in Thread PROVE Delayed(u)'
    <3>1. CASE u = t
      <4>1. pc'[u] = "pushSize"
        BY <1>1, <2>1, <3>1 DEF Goto, TypeOK
      <4> QED
        BY <4>1 DEF Delayed, Acquiring, Pushing
    <3>2. CASE u # t
      <4>1. pc'[u] = pc[u]
        BY <1>1, <2>1, <3>2 DEF Goto, TypeOK
      <4>2. Later(mHead, mHead') /\ Later(mFreeNodeHead, mFreeNodeHead')
        BY <2>1, <2>6, <2>7 DEF Later
      <4> QED
        BY <2>1, <4>1, <4>2, OthersKnow
    <3> QED
      BY <3>1, <3>2
  <2> QED
    BY <2>8, <2>10, <2>11, <2>12, <2>13, <2>14 DEF StackInv
<1> QED
  BY <1>2, <1>3

(* ReleaseNode puts the node in front of the free list. *)
LEMMA ReleaseCasInv ==
    ASSUME StackInv, NEW t \in Thread, ReleaseCas(t)
    PROVE  StackInv'
<1>1. Types /\ TypeOK /\ SizeAccounted /\ Delayed(t) /\ EachNodeInOnePlace /\ OnePlaceOnly
      /\ ListsAreChains /\ TagsCounted
  BY DEF StackInv, Types
<1>2. CASE mFreeNodeHead # head[t]
  <2>1. Goto(t, "release") /\ UNCHANGED <<shared, calls, head, next, node, elem, result, stack, free>>
    BY <1>2 DEF ReleaseCas, shared
  <2> QED
    BY <2>1, FailedCas DEF ReleaseCas
<1>3. CASE mFreeNodeHead = head[t]
  <2> DEFINE n == node[t]
  <2>1. /\ Goto(t, "popSize") /\ free' = <<n>> \o free /\ stack' = stack
        /\ mFreeNodeHead' = Swing(mFreeNodeHead, n)
        /\ UNCHANGED <<mHead, mNext, mNextFreeNode, mValue, mSize, calls, head, next, node, elem, result>>
    BY <1>3 DEF ReleaseCas
  <2>2. n \in Node /\ mNextFreeNode[n] = mFreeNodeHead.idx
    BY <1>1, <1>3, InHand DEF ReleaseCas, Delayed, Pushing, Releasing
  <2>4. pc[t] = "releaseCas"
    BY DEF ReleaseCas
  <2>5. /\ pc[t] \in Pushing \cup Releasing /\ "popSize" \notin Pushing \cup Releasing
        /\ pc[t] \in FreeExchangers /\ "popSize" \notin FreeExchangers
        /\ pc[t] \notin HeadExchangers /\ "popSize" \notin HeadExchangers
    BY <2>4 DEF Pushing, Releasing, Acquiring, Popping, FreeExchangers, HeadExchangers
  <2>6. /\ mFreeNodeHead \in TaggedHead /\ mHead \in TaggedHead /\ mFreeNodeHead.tag \in Nat
        /\ mFreeNodeHead.tag + 1 < TagMod
        /\ mFreeNodeHead.tag + 1 + Uncounted(FreeExchangers)' <= Limit + calls
        /\ mHead.tag + Uncounted(HeadExchangers)' <= calls
    BY <1>1, <2>1, <2>5, TagFree
  <2>7. mFreeNodeHead' \in TaggedHead /\ mFreeNodeHead'.idx = n /\ mFreeNodeHead'.tag = mFreeNodeHead.tag + 1
    BY <2>1, <2>2, <2>6, SwingNext
  <2>8. EachNodeInOnePlace' /\ OnePlaceOnly' /\ stack' \in Seq(Node) /\ free' \in Seq(Node)
    BY <1>1, <2>1, <2>5, PutInFront
  <2> HIDE DEF n
  <2>9. TypeOK'
    BY <1>1, <2>1, <2>2, <2>7 DEF TypeOK, Goto, TaggedHead
  <2>10. Types'
    BY <1>1, <2>1, <2>8, <2>9 DEF Types
  <2>11. ListsAreChains'
    <3>1. IsChain(mFreeNodeHead', mNextFreeNode, <<n>> \o free)
      BY <1>1, <2>2, <2>7, ChainAdded DEF ListsAreChains, Types
    <3> QED
      BY <1>1, <2>1, <3>1 DEF ListsAreChains
  <2>12. TagsCounted'
    BY <2>1, <2>6, <2>7 DEF TagsCounted, HeadExchangers, FreeExchangers
  <2>13. SizeAccounted'
    BY <1>1, <2>1, <2>4, SizeStays DEF Releasing
  <2>14. ASSUME NEW u \in Thread PROVE Delayed(u)'
    <3>1. CASE u = t
      <4>1. pc'[u] = "popSize"
        BY <1>1, <2>1, <3>1 DEF Goto, TypeOK
      <4> QED
        BY <4>1 DEF Delayed, Acquiring, Pushing
    <3>2. CASE u # t
      <4>1. pc'[u] = pc[u]
        BY <1>1, <2>1, <3>2 DEF Goto, TypeOK
      <4>2. Later(mHead, mHead') /\ Later(mFreeNodeHead, mFreeNodeHead')
        BY <2>1, <2>6, <2>7 DEF Later
      <4> QED
        BY <2>1, <4>1, <4>2, OthersKnow
    <3> QED
      BY <3>1, <3>2
  <2> QED
    BY <2>8, <2>10, <2>11, <2>12, <2>13, <2>14 DEF StackInv
<1> QED
  BY <1>2, <1>3

-----------------------------------------------------------------------------
(* Every step keeps the invariant. *)
LEMMA InvStep == StackInv /\ [Next]_vars => StackInv'
<1> SUFFICES ASSUME StackInv, [Next]_vars PROVE StackInv'
  OBVIOUS
<1>1. CASE UNCHANGED vars
  <2>1. UNCHANGED <<Types, EachNodeInOnePlace, OnePlaceOnly, ListsAreChains, TagsCounted, SizeAccounted>>
    BY <1>1 DEF vars, shared, Types, TypeOK, EachNodeInOnePlace, OnePlaceOnly, NoRepeats, Elements,
                Owners, ListsAreChains, IsChain, TagsCounted, Uncounted, SizeAccounted
  <2>2. \A t \in Thread : Delayed(t)' = Delayed(t)
    BY <1>1 DEF vars, shared, Delayed, Seen
  <2> QED
    BY <2>1, <2>2 DEF StackInv
<1>2. ASSUME NEW t \in Thread, CallPop(t) \/ Step(t) \/ (\E v \in Value : CallPush(t, v))
      PROVE  StackInv'
  BY <1>2, CallPushInv, CallPopInv, AcquireLoadInv, AcquireNextInv, AcquireCasInv, PushLoadInv,
     PushCasInv, PushSizeInv, PopLoadInv, PopNextInv, PopCasInv, TakeInv, ReleaseLoadInv,
     ReleaseCasInv, PopSizeInv DEF Step
<1> QED
  BY <1>1, <1>2 DEF Next, Quiet

(* The invariant holds in every state. *)
LEMMA StackInvariant == Spec => []StackInv
<1> QED
  BY InitInv, InvStep, PTL DEF Spec

(* Both lists are intact at all times, for any number of threads, nodes and *)
(* calls: every node of the buffer is in one list or in one thread's hands, *)
(* the links lead through the lists in order, and mSize is right up to the  *)
(* calls that have not counted yet (lockfree_stack.h, Push and Pop).        *)
THEOREM StackListsIntact == Spec => []ListsIntact
<1>1. StackInv => ListsIntact
  BY DEF StackInv, ListsIntact, Types
<1> QED
  BY <1>1, StackInvariant, PTL

(* An exchange of a head fails only if another thread's has succeeded since *)
(* this one read the head: the loops of Push, Pop, AcquireNode and          *)
(* ReleaseNode start again only when somebody made progress.                *)
THEOREM StackLockFree == Spec => CasFailsOnlyForProgress
<1> DEFINE A == \A t \in Thread :
         /\ pc[t] \in {"acquireCas", "releaseCas"} /\ pc'[t] \in {"acquire", "release"}
                => mFreeNodeHead.tag > head[t].tag
         /\ pc[t] \in {"pushCas", "popCas"} /\ pc'[t] \in {"push", "pop"}
                => mHead.tag > head[t].tag
<1>1. ASSUME StackInv, Next PROVE A
  <2> SUFFICES ASSUME NEW t \in Thread
               PROVE  /\ pc[t] \in {"acquireCas", "releaseCas"} /\ pc'[t] \in {"acquire", "release"}
                             => mFreeNodeHead.tag > head[t].tag
                      /\ pc[t] \in {"pushCas", "popCas"} /\ pc'[t] \in {"push", "pop"}
                             => mHead.tag > head[t].tag
    OBVIOUS
  <2>1. Types /\ TypeOK /\ Delayed(t)
    BY <1>1 DEF StackInv, Types
  <2>2. head[t].tag \in Int /\ mHead.tag \in Int /\ mFreeNodeHead.tag \in Int
    BY <2>1, StackAssumption DEF Types, TypeOK, TaggedHead
  <2>3. CASE pc'[t] = pc[t]
    BY <2>3
  <2>4. CASE pc'[t] # pc[t]
    <3>1. CallPop(t) \/ Step(t) \/ (\E v \in Value : CallPush(t, v))
      <4>1. PICK u \in Thread : CallPop(u) \/ Step(u) \/ (\E v \in Value : CallPush(u, v))
        BY <1>1, <2>4 DEF Next, Quiet, vars
      <4>2. \E l : Goto(u, l)
        BY <4>1 DEF CallPop, CallPush, Step, AcquireLoad, AcquireNext, AcquireCas, PushLoad, PushCas,
                    PushSize, PopLoad, PopNext, PopCas, Take, ReleaseLoad, ReleaseCas, PopSize
      <4>3. u = t
        BY <2>1, <2>4, <4>2 DEF Goto, TypeOK
      <4> QED
        BY <4>1, <4>3
    <3>2. CASE pc[t] \in {"acquireCas", "releaseCas"} /\ pc'[t] \in {"acquire", "release"}
      <4>1. AcquireCas(t) \/ ReleaseCas(t)
        BY <3>1, <3>2 DEF CallPop, CallPush, Step, AcquireLoad, AcquireNext, PushLoad, PushCas,
                    PushSize, PopLoad, PopNext, PopCas, Take, ReleaseLoad, PopSize
      <4>2. mFreeNodeHead # head[t]
        BY <2>1, <3>2, <4>1 DEF AcquireCas, ReleaseCas, Goto, TypeOK
      <4> QED
        BY <2>1, <2>2, <3>2, <4>2 DEF Delayed, Seen
    <3>3. CASE pc[t] \in {"pushCas", "popCas"} /\ pc'[t] \in {"push", "pop"}
      <4>1. PushCas(t) \/ PopCas(t)
        BY <3>1, <3>3 DEF CallPop, CallPush, Step, AcquireLoad, AcquireNext, AcquireCas, PushLoad,
                    PushSize, PopLoad, PopNext, Take, ReleaseLoad, ReleaseCas, PopSize
      <4>2. mHead # head[t]
        BY <2>1, <3>3, <4>1 DEF PushCas, PopCas, Goto, TypeOK
      <4> QED
        BY <2>1, <2>2, <3>3, <4>2 DEF Delayed, Seen
    <3> QED
      BY <3>2, <3>3
  <2> QED
    BY <2>3, <2>4
<1>2. StackInv /\ [Next]_vars => [A]_vars
  BY <1>1
<1> QED
  BY <1>2, StackInvariant, PTL DEF Spec, CasFailsOnlyForProgress

-----------------------------------------------------------------------------
(* The refinement.  What BoundedStack sees of a state: *)
AbsStk == [i \in 1 .. Len(stack) |-> mValue[stack[i]]]
AbsOut == [t \in Thread |-> IF pc[t] = "take" THEN mValue[node[t]] ELSE result[t]]

(* The state of the abstract stack, spelled out. *)
LEMMA AbsVars ==
    /\ Abs!vars = <<AbsStk, Owners, AbsOut>>
    /\ Abs!vars' = <<AbsStk', Owners', AbsOut'>>
  BY DEF Abs!vars, AbsStk, AbsOut

(* The abstract stack stays while its nodes and their values do. *)
LEMMA AbsStkStays ==
    ASSUME UNCHANGED stack, \A n \in Elements(stack) : mValue'[n] = mValue[n]
    PROVE  AbsStk' = AbsStk
<1>1. \A i \in 1 .. Len(stack) : mValue'[stack[i]] = mValue[stack[i]]
  BY DEF Elements
<1> QED
  BY <1>1 DEF AbsStk

(* What a thread was answered is up to its own steps. *)
LEMMA AbsOutMoves ==
    ASSUME TypeOK, NEW t \in Thread, NEW l, Goto(t, l),
           \A u \in Thread \ {t} : /\ node'[u] = node[u] /\ result'[u] = result[u]
                                   /\ pc[u] = "take" => mValue'[node[u]] = mValue[node[u]]
    PROVE  AbsOut' = [AbsOut EXCEPT ![t] = IF l = "take" THEN mValue'[node'[t]] ELSE result'[t]]
<1>1. pc'[t] = l /\ (\A u \in Thread \ {t} : pc'[u] = pc[u])
  BY DEF Goto, TypeOK
<1> DEFINE f == [AbsOut EXCEPT ![t] = IF l = "take" THEN mValue'[node'[t]] ELSE result'[t]]
<1>2. AbsOut' = [u \in Thread |-> IF pc'[u] = "take" THEN mValue'[node'[u]] ELSE result'[u]]
  BY DEF AbsOut
<1>3. f = [u \in Thread |-> IF u = t THEN (IF l = "take" THEN mValue'[node'[t]] ELSE result'[t])
                                    ELSE (IF pc[u] = "take" THEN mValue[node[u]] ELSE result[u])]
  BY DEF AbsOut
<1>4. \A u \in Thread : (IF pc'[u] = "take" THEN mValue'[node'[u]] ELSE result'[u])
           = IF u = t THEN (IF l = "take" THEN mValue'[node'[t]] ELSE result'[t])
                      ELSE (IF pc[u] = "take" THEN mValue[node[u]] ELSE result[u])
  BY <1>1
<1> QED
  BY <1>2, <1>3, <1>4

(* A step that no caller of the stack can see. *)
LEMMA Unseen ==
    ASSUME StackInv, NEW t \in Thread, NEW l, Goto(t, l), pc[t] # "take", l # "take",
           UNCHANGED <<mValue, stack, node, result>>,
           pc[t] \in Pushing \cup Releasing <=> l \in Pushing \cup Releasing
    PROVE  UNCHANGED Abs!vars
<1>1. TypeOK
  BY DEF StackInv, Types
<1>2. AbsStk' = AbsStk
  BY AbsStkStays
<1>3. AbsOut' = [AbsOut EXCEPT ![t] = result[t]]
  BY <1>1, AbsOutMoves
<1>4. AbsOut' = AbsOut
  BY <1>3 DEF AbsOut
<1>5. Owners' = Owners
  BY <1>1, OwnersMoved
<1> QED
  BY <1>2, <1>4, <1>5, AbsVars

(* BoundedStack counts with an instance of Cardinality of its own. *)
LEMMA AbsCardinality == \A S : Abs!Cardinality(S) = Cardinality(S)
  BY DEF Abs!Cardinality, Cardinality

(* The abstract lengths: a slot is free exactly if the free list is not empty. *)
LEMMA AbsLengths ==
    ASSUME StackInv
    PROVE  /\ AbsStk \in Seq(Value \cup {T0}) /\ Len(AbsStk) = Len(stack)
           /\ (AbsStk = <<>> <=> stack = <<>>)
           /\ Len(AbsStk) + Cardinality(Owners) <= Limit
           /\ Len(AbsStk) + Cardinality(Owners) = Limit <=> free = <<>>
<1>1. Types /\ TypeOK /\ EachNodeInOnePlace
  BY DEF StackInv, Types
<1>2. /\ Len(stack) \in Nat /\ Len(free) \in Nat /\ (\A i \in 1 .. Len(stack) : stack[i] \in Node)
      /\ (stack = <<>> <=> Len(stack) = 0) /\ (free = <<>> <=> Len(free) = 0)
  BY <1>1, LenProperties, ElementOfSeq, EmptySeq DEF Types
<1>3. \A i \in 1 .. Len(stack) : mValue[stack[i]] \in Value \cup {T0}
  BY <1>1, <1>2 DEF TypeOK
<1>4. AbsStk \in Seq(Value \cup {T0}) /\ Len(AbsStk) = Len(stack)
  BY <1>2, <1>3 DEF AbsStk
<1>5. AbsStk = <<>> <=> Len(AbsStk) = 0
  BY <1>4, EmptySeq
<1>6. IsFiniteSet(Owners) /\ Cardinality(Owners) \in Nat
  BY StackAssumption, FS_Subset, FS_CardinalityType DEF Owners
<1>7. Len(stack) + Len(free) + Cardinality(Owners) = Limit
  BY <1>1 DEF EachNodeInOnePlace
<1> QED
  BY <1>2, <1>4, <1>5, <1>6, <1>7

(* That the value is copied is not noticed: it was answered before. *)
LEMMA TakeUnseen ==
    ASSUME StackInv, NEW t \in Thread, Take(t)
    PROVE  UNCHANGED Abs!vars
<1>1. Types /\ TypeOK /\ Delayed(t) /\ EachNodeInOnePlace /\ OnePlaceOnly /\ ListsAreChains
  BY DEF StackInv, Types
<1>2. t \in Owners /\ node[t] \in Node
  BY InHand DEF Take, Releasing
<1>3. /\ Goto(t, "release") /\ mValue' = [mValue EXCEPT ![node[t]] = T0] /\ UNCHANGED <<stack, node>>
      /\ result' = [result EXCEPT ![t] = mValue[node[t]]] /\ pc[t] = "take"
  BY DEF Take, Set
<1>4. \A n \in Node \ {node[t]} : mValue'[n] = mValue[n]
  BY <1>1, <1>3 DEF TypeOK
<1>5. AbsStk' = AbsStk
  <2>1. \A n \in Elements(stack) : n \in Node \ {node[t]}
    BY <1>1, <1>2 DEF EachNodeInOnePlace, OnePlaceOnly
  <2> QED
    BY <1>3, <1>4, <2>1, AbsStkStays
<1>6. ASSUME NEW u \in Thread \ {t}
      PROVE  /\ node'[u] = node[u] /\ result'[u] = result[u]
             /\ pc[u] = "take" => mValue'[node[u]] = mValue[node[u]]
  <2>1. node'[u] = node[u] /\ result'[u] = result[u]
    BY <1>1, <1>3 DEF Types
  <2>2. pc[u] = "take" => node[u] \in Node \ {node[t]}
    BY <1>1, <1>2 DEF OnePlaceOnly, Owners
  <2> QED
    BY <1>4, <2>1, <2>2
<1>7. AbsOut' = [AbsOut EXCEPT ![t] = result'[t]]
  BY <1>1, <1>3, <1>6, AbsOutMoves
<1>8. result'[t] = mValue[node[t]]
  BY <1>1, <1>3 DEF Types
<1>9. AbsOut' = AbsOut
  <2>1. AbsOut[t] = mValue[node[t]] /\ AbsOut = [u \in Thread |-> AbsOut[u]]
    BY <1>3 DEF AbsOut
  <2> QED
    BY <1>7, <1>8, <2>1
<1>10. Owners' = Owners
  BY <1>1, <1>2, <1>3, OwnersMoved DEF Releasing
<1> QED
  BY <1>5, <1>9, <1>10, AbsVars

(* The calls that fail: the list they want a node from is empty. *)
LEMMA AcquireLoadRefines ==
    ASSUME StackInv, NEW t \in Thread, AcquireLoad(t)
    PROVE  Abs!PushFails(t) \/ UNCHANGED Abs!vars
<1>1. Types /\ TypeOK /\ Delayed(t) /\ EachNodeInOnePlace /\ OnePlaceOnly /\ ListsAreChains
  BY DEF StackInv, Types
<1>2. pc[t] = "acquire" /\ UNCHANGED <<mValue, stack, node>>
  BY DEF AcquireLoad, shared
<1>3. CASE mFreeNodeHead.idx # Null
  <2>1. Goto(t, "acquireNext") /\ UNCHANGED result
    BY <1>3 DEF AcquireLoad
  <2> QED
    BY <1>2, <2>1, Unseen DEF Pushing, Releasing
<1>4. CASE mFreeNodeHead.idx = Null
  <2>1. Goto(t, "idle") /\ result' = [result EXCEPT ![t] = "full"]
    BY <1>4 DEF AcquireLoad, Set
  <2>2. free = <<>>
    BY <1>1, <1>4, HeadFirst DEF Types, ListsAreChains
  <2>3. Len(AbsStk) + Cardinality(Owners) = Limit
    BY <2>2, AbsLengths
  <2>4. t \notin Owners /\ Owners' = Owners
    BY <1>1, <1>2, <2>1, OwnersMoved DEF Pushing, Releasing
  <2>5. AbsStk' = AbsStk
    BY <1>2, AbsStkStays
  <2>6. \A u \in Thread \ {t} : /\ node'[u] = node[u] /\ result'[u] = result[u]
                                /\ pc[u] = "take" => mValue'[node[u]] = mValue[node[u]]
    BY <1>1, <1>2, <2>1 DEF Types
  <2>7. AbsOut' = [AbsOut EXCEPT ![t] = "full"]
    BY <1>1, <2>1, <2>6, AbsOutMoves DEF Types
  <2> QED
    BY <2>3, <2>4, <2>5, <2>7, AbsCardinality, Zenon DEF Abs!PushFails, Abs!Report, AbsStk, AbsOut
<1> QED
  BY <1>3, <1>4

(* Pop of an empty stack is refused at the moment it reads the head. *)
LEMMA PopLoadRefines ==
    ASSUME StackInv, NEW t \in Thread, PopLoad(t)
    PROVE  Abs!PopFails(t) \/ UNCHANGED Abs!vars
<1>1. Types /\ TypeOK /\ Delayed(t) /\ EachNodeInOnePlace /\ OnePlaceOnly /\ ListsAreChains
  BY DEF StackInv, Types
<1>2. pc[t] = "pop" /\ UNCHANGED <<mValue, stack, node>>
  BY DEF PopLoad, shared
<1>3. CASE mHead.idx # Null
  <2>1. Goto(t, "popNext") /\ UNCHANGED result
    BY <1>3 DEF PopLoad
  <2> QED
    BY <1>2, <2>1, Unseen DEF Pushing, Releasing
<1>4. CASE mHead.idx = Null
  <2>1. Goto(t, "idle") /\ result' = [result EXCEPT ![t] = "empty"]
    BY <1>4 DEF PopLoad, Set
  <2>2. stack = <<>>
    BY <1>1, <1>4, HeadFirst DEF Types, ListsAreChains
  <2>3. AbsStk = <<>>
    BY <2>2, AbsLengths
  <2>4. t \notin Owners /\ Owners' = Owners
    BY <1>1, <1>2, <2>1, OwnersMoved DEF Pushing, Releasing
  <2>5. AbsStk' = AbsStk
    BY <1>2, AbsStkStays
  <2>6. \A u \in Thread \ {t} : /\ node'[u] = node[u] /\ result'[u] = result[u]
                                /\ pc[u] = "take" => mValue'[node[u]] = mValue[node[u]]
    BY <1>1, <1>2, <2>1 DEF Types
  <2>7. AbsOut' = [AbsOut EXCEPT ![t] = "empty"]
    BY <1>1, <2>1, <2>6, AbsOutMoves DEF Types
  <2> QED
    BY <2>3, <2>4, <2>5, <2>7 DEF Abs!PopFails, Abs!Report, AbsStk, AbsOut
<1> QED
  BY <1>3, <1>4

(* The exchanges: each is the moment at which its call takes effect. *)
LEMMA AcquireCasRefines ==
    ASSUME StackInv, NEW t \in Thread, AcquireCas(t)
    PROVE  Abs!Reserve(t) \/ UNCHANGED Abs!vars
<1>1. Types /\ TypeOK /\ Delayed(t) /\ EachNodeInOnePlace /\ OnePlaceOnly /\ ListsAreChains
  BY DEF StackInv, Types
<1>2. pc[t] = "acquireCas" /\ UNCHANGED <<stack, result>>
  BY DEF AcquireCas
<1>3. CASE mFreeNodeHead # head[t]
  <2>1. Goto(t, "acquire") /\ UNCHANGED <<mValue, node>>
    BY <1>3 DEF AcquireCas
  <2> QED
    BY <1>2, <2>1, Unseen DEF Pushing, Releasing
<1>4. CASE mFreeNodeHead = head[t]
  <2> DEFINE n == mFreeNodeHead.idx
  <2>1. /\ Goto(t, "push") /\ mValue' = [mValue EXCEPT ![n] = elem[t]]
        /\ node' = [node EXCEPT ![t] = n]
    BY <1>4 DEF AcquireCas, Set
  <2>2. n \in Node /\ n # Null
    BY <1>1, <1>2, <1>4 DEF Delayed, Node, Null
  <2>3. free # <<>> /\ n \in Elements(free)
    BY <1>1, <2>2, HeadFirst DEF Types, ListsAreChains
  <2>4. Len(AbsStk) + Cardinality(Owners) < Limit
    <3>1. Len(AbsStk) + Cardinality(Owners) <= Limit /\ Len(AbsStk) + Cardinality(Owners) # Limit
      BY <2>3, AbsLengths
    <3>2. Len(AbsStk) \in Nat /\ Cardinality(Owners) \in Nat /\ Limit \in Nat
      BY <1>1, <2>1, AbsLengths, LenProperties, OwnersNumber, StackAssumption
    <3> QED
      BY <3>1, <3>2
  <2>5. t \notin Owners /\ Owners' = Owners \cup {t}
    BY <1>1, <1>2, <2>1, OwnersMoved DEF Pushing, Releasing
  <2> HIDE DEF n
  <2>6. \A x \in Node \ {n} : mValue'[x] = mValue[x]
    BY <1>1, <2>1 DEF TypeOK
  <2>7. AbsStk' = AbsStk
    <3>1. \A x \in Elements(stack) : x \in Node \ {n}
      BY <1>1, <2>3 DEF EachNodeInOnePlace, OnePlaceOnly
    <3> QED
      BY <1>2, <2>6, <3>1, AbsStkStays
  <2>8. ASSUME NEW u \in Thread \ {t}
        PROVE  /\ node'[u] = node[u] /\ result'[u] = result[u]
               /\ pc[u] = "take" => mValue'[node[u]] = mValue[node[u]]
    <3>1. node'[u] = node[u]
      BY <1>1, <2>1 DEF TypeOK
    <3>2. pc[u] = "take" => node[u] \in Node \ {n}
      BY <1>1, <2>3 DEF OnePlaceOnly, Owners
    <3> QED
      BY <1>2, <2>6, <3>1, <3>2
  <2>9. AbsOut' = [AbsOut EXCEPT ![t] = result[t]]
    BY <1>1, <1>2, <2>1, <2>8, AbsOutMoves
  <2>10. AbsOut' = AbsOut
    BY <1>2, <2>9 DEF AbsOut
  <2> QED
    BY <2>4, <2>5, <2>7, <2>10, AbsCardinality, Zenon DEF Abs!Reserve, AbsStk, AbsOut
<1> QED
  BY <1>3, <1>4

(* A node that is free again may be used by the bounded stack. *)
LEMMA ReleaseCasRefines ==
    ASSUME StackInv, NEW t \in Thread, ReleaseCas(t)
    PROVE  Abs!Recycle(t) \/ UNCHANGED Abs!vars
<1>1. Types /\ TypeOK /\ Delayed(t) /\ EachNodeInOnePlace /\ OnePlaceOnly /\ ListsAreChains
  BY DEF StackInv, Types
<1>2. pc[t] = "releaseCas" /\ UNCHANGED <<stack, result, mValue, node>>
  BY DEF ReleaseCas
<1>3. CASE mFreeNodeHead # head[t]
  <2>1. Goto(t, "release")
    BY <1>3 DEF ReleaseCas
  <2> QED
    BY <1>2, <2>1, Unseen DEF Pushing, Releasing
<1>4. CASE mFreeNodeHead = head[t]
  <2>1. Goto(t, "popSize")
    BY <1>4 DEF ReleaseCas
  <2>2. t \in Owners /\ Owners' = Owners \ {t}
    BY <1>1, <1>2, <2>1, OwnersMoved DEF Pushing, Releasing
  <2>3. AbsStk' = AbsStk
    BY <1>2, AbsStkStays
  <2>4. AbsOut' = [AbsOut EXCEPT ![t] = result[t]]
    BY <1>1, <1>2, <2>1, AbsOutMoves
  <2>5. AbsOut' = AbsOut
    BY <1>2, <2>4 DEF AbsOut
  <2> QED
    BY <2>2, <2>3, <2>5 DEF Abs!Recycle, AbsStk, AbsOut
<1> QED
  BY <1>3, <1>4

(* A push happens at its exchange. *)
LEMMA PushCasRefines ==
    ASSUME StackInv, NEW t \in Thread, PushCas(t)
    PROVE  (\E v \in Value : Abs!Push(t, v)) \/ UNCHANGED Abs!vars
<1>1. Types /\ TypeOK /\ Delayed(t) /\ EachNodeInOnePlace /\ OnePlaceOnly /\ ListsAreChains
  BY DEF StackInv, Types
<1>2. pc[t] = "pushCas" /\ UNCHANGED <<result, mValue, node>>
  BY DEF PushCas
<1>3. CASE mHead # head[t]
  <2>1. Goto(t, "push") /\ UNCHANGED stack
    BY <1>3 DEF PushCas
  <2> QED
    BY <1>2, <2>1, Unseen DEF Pushing, Releasing
<1>4. CASE mHead = head[t]
  <2> DEFINE n == node[t]
             v == mValue[n]
  <2>1. Goto(t, "pushSize") /\ stack' = <<n>> \o stack
    BY <1>4 DEF PushCas
  <2>2. v \in Value /\ n \in Node
    BY <1>1, <1>2, InHand DEF Delayed, Pushing
  <2>3. t \in Owners /\ Owners' = Owners \ {t}
    BY <1>1, <1>2, <2>1, OwnersMoved DEF Pushing, Releasing
  <2>4. AbsOut' = [AbsOut EXCEPT ![t] = result[t]]
    BY <1>1, <1>2, <2>1, AbsOutMoves
  <2>5. AbsOut' = AbsOut
    BY <1>2, <2>4 DEF AbsOut
  <2>6. AbsStk' = <<v>> \o AbsStk
    <3> HIDE DEF n
    <3>1. /\ Len(stack') = Len(stack) + 1 /\ Len(stack) \in Nat
          /\ stack'[1] = n /\ (\A i \in 1 .. Len(stack) : stack'[i + 1] = stack[i])
      BY <1>1, <2>1, <2>2, FrontAdded DEF Types
    <3>2. AbsStk \in Seq(Value \cup {T0}) /\ Len(AbsStk) = Len(stack)
      BY AbsLengths
    <3> DEFINE a == AbsStk
               r == <<v>> \o a
    <3>3. v \in Value \cup {T0}
      BY <2>2
    <3> HIDE DEF v, a
    <3>4. a \in Seq(Value \cup {T0}) /\ Len(a) = Len(stack)
      BY <3>2 DEF a
    <3>5. /\ r \in Seq(Value \cup {T0}) /\ Len(r) = Len(stack) + 1
          /\ r[1] = v /\ (\A i \in 1 .. Len(stack) : r[i + 1] = a[i])
      BY <3>3, <3>4, FrontAdded
    <3> HIDE DEF r
    <3>6. r = [i \in 1 .. Len(r) |-> r[i]]
      BY <3>5
    <3>7. AbsStk' = [i \in 1 .. Len(stack') |-> mValue[stack'[i]]]
      BY <1>2 DEF AbsStk
    <3>8. ASSUME NEW i \in 1 .. Len(stack') PROVE mValue[stack'[i]] = r[i]
      <4>1. CASE i = 1
        BY <3>1, <3>5, <4>1 DEF v
      <4>2. CASE i # 1
        <5>1. i - 1 \in 1 .. Len(stack) /\ (i - 1) + 1 = i
          BY <3>1, <4>2
        <5>2. stack'[i] = stack[i - 1] /\ r[i] = a[i - 1]
          BY <3>1, <3>5, <5>1
        <5>3. a[i - 1] = mValue[stack[i - 1]]
          BY <5>1 DEF a, AbsStk
        <5> QED
          BY <5>2, <5>3
      <4> QED
        BY <4>1, <4>2
    <3> QED
      BY <3>1, <3>5, <3>6, <3>7, <3>8 DEF r, a
  <2> HIDE DEF v, n
  <2>7. \E x \in Value : x = v
    BY <2>2
  <2>8. PICK x \in Value : x = v
    BY <2>7
  <2>9. Abs!Push(t, x)
    BY <2>3, <2>5, <2>6, <2>8 DEF Abs!Push, AbsStk, AbsOut
  <2> QED
    BY <2>9
<1> QED
  BY <1>3, <1>4

(* A pop happens at its exchange. *)
LEMMA PopCasRefines ==
    ASSUME StackInv, NEW t \in Thread, PopCas(t)
    PROVE  Abs!Pop(t) \/ UNCHANGED Abs!vars
<1>1. Types /\ TypeOK /\ Delayed(t) /\ EachNodeInOnePlace /\ OnePlaceOnly /\ ListsAreChains
  BY DEF StackInv, Types
<1>2. pc[t] = "popCas" /\ UNCHANGED <<result, mValue>>
  BY DEF PopCas
<1>3. CASE mHead # head[t]
  <2>1. Goto(t, "pop") /\ UNCHANGED <<stack, node>>
    BY <1>3 DEF PopCas
  <2> QED
    BY <1>2, <2>1, Unseen DEF Pushing, Releasing
<1>4. CASE mHead = head[t]
  <2> DEFINE n == mHead.idx
  <2>1. Goto(t, "take") /\ stack' = Rest(stack) /\ node' = [node EXCEPT ![t] = n]
    BY <1>4 DEF PopCas, Set
  <2>2. n \in Node /\ n # Null
    BY <1>1, <1>2, <1>4 DEF Delayed, Node, Null
  <2>3. stack # <<>> /\ n = stack[1]
    BY <1>1, <2>2, HeadFirst DEF Types, ListsAreChains
  <2> HIDE DEF n
  <2>4. t \notin Owners /\ Owners' = Owners \cup {t}
    BY <1>1, <1>2, <2>1, OwnersMoved DEF Pushing, Releasing
  <2>5. \A u \in Thread \ {t} : /\ node'[u] = node[u] /\ result'[u] = result[u]
                                /\ pc[u] = "take" => mValue'[node[u]] = mValue[node[u]]
    BY <1>1, <1>2, <2>1 DEF TypeOK
  <2>6. node'[t] = n
    BY <1>1, <2>1 DEF TypeOK
  <2>7. AbsOut' = [AbsOut EXCEPT ![t] = mValue[n]]
    BY <1>1, <1>2, <2>1, <2>5, <2>6, AbsOutMoves
  <2>8. /\ Len(stack') = Len(stack) - 1 /\ Len(stack) \in Nat \ {0}
        /\ \A i \in 1 .. Len(stack') : stack'[i] = stack[i + 1]
    BY <1>1, <2>1, <2>3, FrontTaken DEF Types, Rest
  <2>9. AbsStk # <<>> /\ AbsStk \in Seq(Value \cup {T0}) /\ Len(AbsStk) = Len(stack)
    BY <2>3, AbsLengths
  <2>10. Head(AbsStk) = mValue[n]
    <3>1. AbsStk[1] = mValue[stack[1]]
      BY <2>8 DEF AbsStk
    <3> QED
      BY <2>3, <2>9, <3>1
  <2>11. AbsStk' = Tail(AbsStk)
    <3> DEFINE a == AbsStk
               r == Tail(a)
    <3> HIDE DEF a
    <3>1. a \in Seq(Value \cup {T0}) /\ Len(a) = Len(stack) /\ a # <<>>
      BY <2>9 DEF a
    <3>2. /\ r \in Seq(Value \cup {T0}) /\ Len(r) = Len(stack) - 1
          /\ \A i \in 1 .. Len(r) : r[i] = a[i + 1]
      BY <3>1, HeadTailProperties
    <3>3. AbsStk' = [i \in 1 .. Len(stack') |-> mValue[stack'[i]]]
      BY <1>2 DEF AbsStk
    <3>4. ASSUME NEW i \in 1 .. Len(stack') PROVE mValue[stack'[i]] = a[i + 1]
      <4>1. i + 1 \in 1 .. Len(stack)
        BY <2>8
      <4>2. a[i + 1] = mValue[stack[i + 1]]
        BY <4>1 DEF a, AbsStk
      <4> QED
        BY <2>8, <4>2
    <3> HIDE DEF r
    <3>5. r = [i \in 1 .. Len(r) |-> r[i]]
      BY <3>2
    <3> QED
      BY <2>8, <3>2, <3>3, <3>4, <3>5 DEF r, a
  <2> QED
    BY <2>4, <2>7, <2>9, <2>10, <2>11 DEF Abs!Pop, Abs!Report, AbsStk, AbsOut
<1> QED
  BY <1>3, <1>4

(* Every step is a step of BoundedStack, or is not noticed there. *)
LEMMA StepRefines == StackInv /\ [Next]_vars => [Abs!Next]_(Abs!vars)
<1> SUFFICES ASSUME StackInv, [Next]_vars PROVE Abs!Next \/ UNCHANGED Abs!vars
  OBVIOUS
<1>1. CASE UNCHANGED vars
  <2>1. AbsStk' = AbsStk /\ Owners' = Owners /\ AbsOut' = AbsOut
    BY <1>1 DEF vars, shared, AbsStk, AbsOut, Owners
  <2> QED
    BY <2>1, AbsVars
<1>2. ASSUME NEW t \in Thread, NEW v \in Value, CallPush(t, v) PROVE UNCHANGED Abs!vars
  <2>1. /\ pc[t] = "idle" /\ Goto(t, "acquire") /\ UNCHANGED <<mValue, stack, node, result>>
    BY <1>2 DEF CallPush, shared
  <2> QED
    BY <2>1, Unseen DEF Pushing, Releasing
<1>3. ASSUME NEW t \in Thread, CallPop(t) PROVE UNCHANGED Abs!vars
  <2>1. /\ pc[t] = "idle" /\ Goto(t, "pop") /\ UNCHANGED <<mValue, stack, node, result>>
    BY <1>3 DEF CallPop, shared
  <2> QED
    BY <2>1, Unseen DEF Pushing, Releasing
<1>4. ASSUME NEW t \in Thread, AcquireNext(t) \/ PopNext(t) \/ PushLoad(t) \/ ReleaseLoad(t)
      PROVE  UNCHANGED Abs!vars
  <2>1. PICK l : /\ Goto(t, l) /\ UNCHANGED <<mValue, stack, node, result>>
                 /\ pc[t] # "take" /\ l # "take"
                 /\ pc[t] \in Pushing \cup Releasing <=> l \in Pushing \cup Releasing
    BY <1>4 DEF AcquireNext, PopNext, PushLoad, ReleaseLoad, shared, Pushing, Releasing
  <2> QED
    BY <2>1, Unseen
<1>5. ASSUME NEW t \in Thread, PushSize(t) \/ PopSize(t) PROVE UNCHANGED Abs!vars
  <2>1. /\ Goto(t, "idle") /\ UNCHANGED <<mValue, stack, node, result>>
        /\ pc[t] # "take" /\ pc[t] \notin Pushing \cup Releasing
    BY <1>5 DEF PushSize, PopSize, Pushing, Releasing
  <2> QED
    BY <2>1, Unseen DEF Pushing, Releasing
<1>6. ASSUME NEW t \in Thread, Step(t) PROVE Abs!Next \/ UNCHANGED Abs!vars
  BY <1>4, <1>5, <1>6, AcquireLoadRefines, AcquireCasRefines, PushCasRefines, PopLoadRefines,
     PopCasRefines, TakeUnseen, ReleaseCasRefines DEF Step, Abs!Next
<1> QED
  BY <1>1, <1>2, <1>3, <1>6 DEF Next, Quiet

(* LockFreeStack implements BoundedStack for any number of threads, nodes   *)
(* and calls: each Push and Pop takes effect at its exchange, a pop reports *)
(* the value that was on top then, and "full" or "empty" only if it is so.  *)
THEOREM StackImplements == Spec => ImplementsBoundedStack
<1>1. Init => Abs!Init
  <2> SUFFICES ASSUME Init PROVE Abs!Init
    OBVIOUS
  <2>1. stack = <<>> /\ Len(stack) = 0 /\ Owners = {}
    BY DEF Init, Owners
  <2>2. [i \in 1 .. Len(stack) |-> mValue[stack[i]]] = <<>>
    BY <2>1
  <2>3. [t \in Thread |-> IF pc[t] = "take" THEN mValue[node[t]] ELSE result[t]]
            = [t \in Thread |-> "none"]
    BY DEF Init
  <2> QED
    BY <2>1, <2>2, <2>3 DEF Abs!Init
<1> QED
  BY <1>1, StackInvariant, StepRefines, PTL DEF Spec, ImplementsBoundedStack, Abs!Spec
=============================================================================
