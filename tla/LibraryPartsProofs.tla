-------------------------- MODULE LibraryPartsProofs -------------------------
(***************************************************************************)
(* The smaller parts of the library for every number of threads, objects,  *)
(* locks, levels and characters: the free list keeps its objects, the      *)
(* scoped lockers hold what their scopes say, a sampled log statement logs *)
(* the counts its function asks for, a record passes the test it was       *)
(* written for, and a StringPiece is to its users the string it shows.     *)
(* The parts share no state, and each section proves about the             *)
(* specification of its own part.                                          *)
(***************************************************************************)
EXTENDS FreeList, Locks, Logging, Singleton, StringPiece, LibraryLemmas

-----------------------------------------------------------------------------
(* FreeList.  As in LockFreeStack, what has to be added to PoolKept is what *)
(* a thread that has read the head may rely on while it is delayed: its tag *)
(* is not ahead of the current one, equal tags mean equal heads, and as     *)
(* long as they are equal the link it has read is the link of the first     *)
(* object.  A tag counts exchanges, and a call makes one at most.           *)
PoolPlace == {"idle", "push", "pushCas", "pushSize", "pop", "popLink", "popCas", "popSize"}
BeforeSwing == {"push", "pushCas", "pop", "popLink", "popCas"}
HeadWord == [obj : PoolObject \cup {Void}, tag : Nat]

PoolTypes ==
    /\ poolHead \in HeadWord /\ poolSize \in Int
    /\ poolLink \in [PoolObject -> PoolObject \cup {Void}]
    /\ poolPc \in [PoolThread -> PoolPlace] /\ poolDone \in 0 .. PoolCalls
    /\ poolWas \in [PoolThread -> HeadWord]
    /\ poolArg \in [PoolThread -> PoolObject \cup {Void}]
    /\ poolNext \in [PoolThread -> PoolObject \cup {Void}]
    /\ mine \in [PoolThread -> SUBSET PoolObject]
    /\ poolSeq \in Seq(PoolObject)

PoolChain ==
    /\ poolHead.obj = IF Len(poolSeq) = 0 THEN Void ELSE poolSeq[1]
    /\ \A i \in 1 .. Len(poolSeq) :
          poolLink[poolSeq[i]] = IF i = Len(poolSeq) THEN Void ELSE poolSeq[i + 1]

(* Every object is in the list, once, or with one thread. *)
PoolOnePlace ==
    /\ \A i, j \in 1 .. Len(poolSeq) : poolSeq[i] = poolSeq[j] => i = j
    /\ \A t, u \in PoolThread : \A o \in mine[t] : o \in mine[u] => t = u
    /\ \A t \in PoolThread : \A i \in 1 .. Len(poolSeq) : poolSeq[i] \notin mine[t]
    /\ \A o \in PoolObject :
          (\E i \in 1 .. Len(poolSeq) : poolSeq[i] = o) \/ (\E t \in PoolThread : o \in mine[t])

PoolAt(P) == Cardinality({t \in PoolThread : poolPc[t] \in P})

PoolTagCounts == poolHead.tag + PoolAt(BeforeSwing) <= poolDone

PoolSizes ==
    poolSize = (Len(poolSeq) - PoolAt({"pushSize"}) + PoolAt({"popSize"})) % PoolSizeMod

(* What thread t knows between two accesses. *)
PoolDelayed(t) ==
    /\ poolPc[t] \in {"pushCas", "popLink", "popCas"} =>
          /\ poolWas[t].tag <= poolHead.tag
          /\ poolWas[t].tag = poolHead.tag => poolWas[t] = poolHead
    /\ poolPc[t] \in {"push", "pushCas"} => poolArg[t] \in mine[t]
    /\ poolPc[t] = "pushCas" => poolLink[poolArg[t]] = poolWas[t].obj
    /\ poolPc[t] \in {"popLink", "popCas"} => poolWas[t].obj \in PoolObject
    /\ poolPc[t] = "popCas" /\ poolWas[t] = poolHead => poolNext[t] = poolLink[poolWas[t].obj]

PoolInv ==
    /\ PoolTypes /\ PoolChain /\ PoolOnePlace /\ PoolTagCounts /\ PoolSizes
    /\ \A t \in PoolThread : PoolDelayed(t)

(* How the number of threads at given places changes when one of them moves.*)
LEMMA PoolMoved ==
    ASSUME PoolTypes, NEW t \in PoolThread, NEW l, PoolGoto(t, l), NEW P
    PROVE  /\ PoolAt(P) \in Nat /\ PoolAt(P)' \in Nat
           /\ poolPc[t] \in P => PoolAt(P) > 0
           /\ PoolAt(P)' = PoolAt(P) + (IF l \in P THEN 1 ELSE 0)
                                     - (IF poolPc[t] \in P THEN 1 ELSE 0)
<1> DEFINE A == {u \in PoolThread : poolPc[u] \in P}
           B == {u \in PoolThread : poolPc'[u] \in P}
<1>1. PoolAt(P) = Cardinality(A) /\ PoolAt(P)' = Cardinality(B)
  BY DEF PoolAt
<1>2. poolPc \in [PoolThread -> PoolPlace] /\ poolPc' = [poolPc EXCEPT ![t] = l]
  BY DEF PoolTypes, PoolGoto
<1>3. A \in SUBSET PoolThread /\ B \in SUBSET PoolThread /\ A \ {t} = B \ {t}
  BY <1>2
<1>4. (t \in A <=> poolPc[t] \in P) /\ (t \in B <=> l \in P)
  BY <1>2
<1>5. IsFiniteSet(PoolThread)
  BY FreeListAssumption
<1> HIDE DEF A, B
<1>6. /\ Cardinality(A) \in Nat /\ Cardinality(B) \in Nat
      /\ t \in A => Cardinality(A) > 0
      /\ Cardinality(B) = Cardinality(A) + (IF t \in B THEN 1 ELSE 0) - (IF t \in A THEN 1 ELSE 0)
  BY <1>3, <1>5, CountMoved
<1> QED
  BY <1>1, <1>4, <1>6

(* The list is empty in the beginning, and one thread has all objects. *)
LEMMA PoolInitInv == PoolInit => PoolInv
<1> SUFFICES ASSUME PoolInit PROVE PoolInv
  OBVIOUS
<1> DEFINE first == CHOOSE u \in PoolThread : TRUE
<1>1. first \in PoolThread /\ PoolCalls \in Nat
  BY FreeListAssumption
<1>2. mine = [t \in PoolThread |-> IF t = first THEN PoolObject ELSE {}]
  BY DEF PoolInit
<1> HIDE DEF first
<1>3. poolSeq = <<>> /\ Len(poolSeq) = 0 /\ poolSeq \in Seq(PoolObject)
  BY DEF PoolInit
<1>4. PoolTypes
  BY <1>1, <1>2, <1>3 DEF PoolInit, PoolTypes, HeadWord, PoolPlace
<1>5. ASSUME NEW P, "idle" \notin P PROVE PoolAt(P) = 0
  <2>1. {t \in PoolThread : poolPc[t] \in P} = {}
    BY <1>5 DEF PoolInit
  <2> QED
    BY <2>1, FS_EmptySet DEF PoolAt
<1>6. PoolAt({"pushSize"}) = 0 /\ PoolAt({"popSize"}) = 0 /\ PoolAt(BeforeSwing) = 0
  BY <1>5 DEF BeforeSwing
<1>7. PoolSizes
  <2>1. PoolSizeMod \in Nat \ {0}
    BY FreeListAssumption, FS_CardinalityType
  <2>2. 0 % PoolSizeMod = 0
    BY <2>1
  <2> QED
    BY <1>3, <1>6, <2>2 DEF PoolSizes, PoolInit
<1>8. PoolChain /\ PoolTagCounts
  BY <1>3, <1>6 DEF PoolChain, PoolTagCounts, PoolInit
<1>9. PoolOnePlace
  BY <1>1, <1>2, <1>3 DEF PoolOnePlace
<1>10. \A t \in PoolThread : PoolDelayed(t)
  BY DEF PoolDelayed, PoolInit
<1> QED
  BY <1>4, <1>7, <1>8, <1>9, <1>10 DEF PoolInv

(* What only thread t may change: its own locals and the links of its own   *)
(* objects.                                                                 *)
PoolOwn(t) ==
    /\ \A u \in PoolThread \ {t} :
          /\ poolPc'[u] = poolPc[u] /\ poolWas'[u] = poolWas[u] /\ poolArg'[u] = poolArg[u]
          /\ poolNext'[u] = poolNext[u] /\ mine'[u] = mine[u]
    /\ \A o \in PoolObject \ mine[t] : poolLink'[o] = poolLink[o]

(* Another thread still knows what it knew, whether the head stays or moves *)
(* on.                                                                      *)
LEMMA PoolOthersKnow ==
    ASSUME PoolInv, NEW t \in PoolThread, PoolOwn(t), NEW u \in PoolThread \ {t},
           poolHead' = poolHead \/ poolHead'.tag = poolHead.tag + 1
    PROVE  PoolDelayed(u)'
<1>1. /\ PoolDelayed(u) /\ poolHead.tag \in Nat /\ poolWas[u] \in HeadWord
      /\ poolPc'[u] = poolPc[u] /\ poolWas'[u] = poolWas[u] /\ poolArg'[u] = poolArg[u]
      /\ poolNext'[u] = poolNext[u] /\ mine'[u] = mine[u]
      /\ poolWas[u].tag \in Nat
  BY DEF PoolInv, PoolTypes, HeadWord, PoolOwn
<1>2. ASSUME poolPc[u] \in {"pushCas", "popLink", "popCas"}
      PROVE  /\ poolWas[u].tag <= poolHead'.tag
             /\ poolWas[u].tag = poolHead'.tag => poolWas[u] = poolHead' /\ poolHead' = poolHead
  BY <1>1, <1>2 DEF PoolDelayed
<1>3. ASSUME poolPc[u] \in {"push", "pushCas"}
      PROVE  poolArg[u] \in mine[u] /\ poolLink'[poolArg[u]] = poolLink[poolArg[u]]
  <2>1. poolArg[u] \in mine[u] /\ poolArg[u] \in PoolObject /\ poolArg[u] \notin mine[t]
    BY <1>1, <1>3 DEF PoolDelayed, PoolInv, PoolTypes, PoolOnePlace
  <2> QED
    BY <2>1 DEF PoolOwn
<1>4. ASSUME poolPc[u] = "popCas", poolWas[u] = poolHead'
      PROVE  poolNext[u] = poolLink'[poolWas[u].obj]
  <2>1. poolWas[u] = poolHead /\ poolWas[u].obj \in PoolObject
    BY <1>1, <1>2, <1>4 DEF PoolDelayed
  <2>2. poolHead.obj = poolSeq[1] /\ 1 \in 1 .. Len(poolSeq)
    BY <2>1, FreeListAssumption, LenProperties DEF PoolInv, PoolTypes, PoolChain
  <2>3. poolWas[u].obj \notin mine[t]
    BY <2>1, <2>2 DEF PoolInv, PoolOnePlace
  <2> QED
    BY <1>1, <1>4, <2>1, <2>3 DEF PoolOwn, PoolDelayed
<1> QED
  BY <1>1, <1>2, <1>3, <1>4 DEF PoolDelayed

(* A step that leaves the list alone and links no object in it. *)
LEMMA PoolQuiet ==
    ASSUME PoolInv, NEW t \in PoolThread, PoolOwn(t), NEW l \in PoolPlace, PoolGoto(t, l),
           UNCHANGED <<poolHead, poolSize, mine, poolSeq>>,
           poolPc[t] \notin {"pushSize", "popSize"}, l \notin {"pushSize", "popSize"},
           \/ poolDone' = poolDone + 1
           \/ poolDone' = poolDone /\ (l \in BeforeSwing => poolPc[t] \in BeforeSwing),
           PoolTypes', PoolDelayed(t)'
    PROVE  PoolInv'
<1>1. PoolTypes /\ poolHead \in HeadWord /\ poolDone \in Nat
  BY FreeListAssumption DEF PoolInv, PoolTypes
<1>2. PoolOnePlace'
  BY DEF PoolInv, PoolOnePlace
<1>3. PoolChain'
  <2>1. ASSUME NEW i \in 1 .. Len(poolSeq) PROVE poolLink'[poolSeq[i]] = poolLink[poolSeq[i]]
    <3>1. poolSeq[i] \in PoolObject \ mine[t]
      BY ElementOfSeq DEF PoolInv, PoolTypes, PoolOnePlace
    <3> QED
      BY <3>1 DEF PoolOwn
  <2> QED
    BY <2>1 DEF PoolInv, PoolChain
<1>4. PoolSizes'
  <2>1. ASSUME NEW P, poolPc[t] \notin P, l \notin P PROVE PoolAt(P)' = PoolAt(P)
    BY <1>1, <2>1, PoolMoved
  <2>2. PoolAt({"pushSize"})' = PoolAt({"pushSize"})
    BY <2>1
  <2>3. PoolAt({"popSize"})' = PoolAt({"popSize"})
    BY <2>1
  <2> QED
    BY <2>2, <2>3 DEF PoolInv, PoolSizes
<1>5. PoolTagCounts'
  <2>1. /\ PoolAt(BeforeSwing) \in Nat /\ PoolAt(BeforeSwing)' \in Nat
        /\ PoolAt(BeforeSwing)' = PoolAt(BeforeSwing) + (IF l \in BeforeSwing THEN 1 ELSE 0)
                                    - (IF poolPc[t] \in BeforeSwing THEN 1 ELSE 0)
    BY <1>1, PoolMoved
  <2>2. poolHead.tag \in Nat /\ poolHead.tag + PoolAt(BeforeSwing) <= poolDone
    BY <1>1 DEF PoolInv, PoolTagCounts, HeadWord
  <2>3. PoolAt(BeforeSwing)' - PoolAt(BeforeSwing) <= poolDone' - poolDone
    BY <1>1, <2>1
  <2>4. poolHead' = poolHead /\ poolDone' \in Nat
    BY <1>1
  <2> QED
    BY <1>1, <2>1, <2>2, <2>3, <2>4 DEF PoolTagCounts
<1>6. \A u \in PoolThread \ {t} : PoolDelayed(u)'
  BY PoolOthersKnow
<1> QED
  BY <1>2, <1>3, <1>4, <1>5, <1>6 DEF PoolInv

(* Push reads the head and links its object to it. *)
LEMMA PoolPushLoadInv ==
    ASSUME PoolInv, NEW t \in PoolThread, NEW o \in PoolObject, PoolPushLoad(t, o)
    PROVE  PoolInv'
<1>1. PoolTypes /\ PoolCalls \in Nat /\ o \in mine[t] /\ poolHead.obj \in PoolObject \cup {Void}
  BY FreeListAssumption DEF PoolInv, PoolPushLoad, PoolTypes, HeadWord
<1>2. PoolTypes'
  BY <1>1 DEF PoolPushLoad, PoolGoto, PoolTypes, PoolPlace
<1>3. PoolOwn(t)
  BY <1>1 DEF PoolPushLoad, PoolGoto, PoolOwn, PoolTypes
<1>4. PoolDelayed(t)'
  BY <1>1 DEF PoolPushLoad, PoolGoto, PoolDelayed, PoolTypes, HeadWord
<1>5. /\ "pushCas" \in PoolPlace /\ PoolGoto(t, "pushCas")
      /\ UNCHANGED <<poolHead, poolSize, mine, poolSeq>>
      /\ poolPc[t] \notin {"pushSize", "popSize"}
      /\ \/ poolDone' = poolDone + 1
         \/ poolDone' = poolDone /\ ("pushCas" \in BeforeSwing => poolPc[t] \in BeforeSwing)
  BY DEF PoolPushLoad, PoolPlace, BeforeSwing
<1> QED
  BY <1>2, <1>3, <1>4, <1>5, PoolQuiet

(* Pop reads the head; an empty list is the end of it. *)
LEMMA PoolPopLoadInv ==
    ASSUME PoolInv, NEW t \in PoolThread, PoolPopLoad(t)
    PROVE  PoolInv'
<1> PICK l \in {"idle", "popLink"} : l = IF poolHead.obj = Void THEN "idle" ELSE "popLink"
  OBVIOUS
<1>1. PoolTypes /\ PoolCalls \in Nat /\ poolHead.obj \in PoolObject \cup {Void}
  BY FreeListAssumption DEF PoolInv, PoolTypes, HeadWord
<1>2. /\ l \in PoolPlace /\ PoolGoto(t, l) /\ l \notin {"pushSize", "popSize"}
      /\ UNCHANGED <<poolHead, poolSize, mine, poolSeq>>
      /\ poolPc[t] \notin {"pushSize", "popSize"}
      /\ \/ poolDone' = poolDone + 1
         \/ poolDone' = poolDone /\ (l \in BeforeSwing => poolPc[t] \in BeforeSwing)
  BY DEF PoolPopLoad, PoolPlace, BeforeSwing
<1>3. PoolTypes'
  BY <1>1, <1>2 DEF PoolPopLoad, PoolGoto, PoolTypes
<1>4. PoolOwn(t)
  BY <1>1, <1>2 DEF PoolPopLoad, PoolGoto, PoolOwn, PoolTypes
<1>5. PoolDelayed(t)'
  BY <1>1, <1>2 DEF PoolPopLoad, PoolGoto, PoolDelayed, PoolTypes, HeadWord
<1> QED
  BY <1>2, <1>3, <1>4, <1>5, PoolQuiet

(* Pop reads the link of what was the first object. *)
LEMMA PoolPopLinkInv ==
    ASSUME PoolInv, NEW t \in PoolThread, PoolPopLink(t)
    PROVE  PoolInv'
<1>1. PoolTypes /\ poolWas[t].obj \in PoolObject /\ PoolDelayed(t)
  BY DEF PoolInv, PoolPopLink, PoolDelayed
<1>2. PoolTypes'
  BY <1>1 DEF PoolPopLink, PoolGoto, PoolTypes, PoolPlace
<1>3. PoolOwn(t)
  BY <1>1 DEF PoolPopLink, PoolGoto, PoolOwn, PoolTypes
<1>4. PoolDelayed(t)'
  BY <1>1 DEF PoolPopLink, PoolGoto, PoolDelayed, PoolTypes
<1>5. /\ "popCas" \in PoolPlace /\ PoolGoto(t, "popCas")
      /\ UNCHANGED <<poolHead, poolSize, mine, poolSeq>>
      /\ poolPc[t] \notin {"pushSize", "popSize"}
      /\ poolDone' = poolDone /\ ("popCas" \in BeforeSwing => poolPc[t] \in BeforeSwing)
  BY DEF PoolPopLink, PoolPlace, BeforeSwing
<1> QED
  BY <1>2, <1>3, <1>4, <1>5, PoolQuiet

(* An exchange that fails changes nothing, and the call begins again. *)
LEMMA PoolCasFails ==
    ASSUME PoolInv, NEW t \in PoolThread, PoolPushCas(t) \/ PoolPopCas(t), poolHead # poolWas[t]
    PROVE  PoolInv'
<1> PICK l \in {"push", "pop"} : l = IF poolPc[t] = "pushCas" THEN "push" ELSE "pop"
  OBVIOUS
<1>1. PoolTypes /\ PoolDelayed(t)
  BY DEF PoolInv
<1>2. /\ l \in PoolPlace /\ PoolGoto(t, l) /\ l \notin {"pushSize", "popSize"}
      /\ UNCHANGED <<poolHead, poolSize, poolLink, poolWas, poolArg, poolNext, mine, poolSeq>>
      /\ poolPc[t] \notin {"pushSize", "popSize"} /\ poolPc[t] \in {"pushCas", "popCas"}
      /\ poolDone' = poolDone /\ (l \in BeforeSwing => poolPc[t] \in BeforeSwing)
  BY DEF PoolPushCas, PoolPopCas, PoolPlace, BeforeSwing
<1>3. PoolTypes'
  BY <1>1, <1>2 DEF PoolGoto, PoolTypes
<1>4. PoolOwn(t)
  BY <1>1, <1>2 DEF PoolGoto, PoolOwn, PoolTypes
<1>5. PoolDelayed(t)'
  BY <1>1, <1>2 DEF PoolGoto, PoolDelayed, PoolTypes
<1> QED
  BY <1>2, <1>3, <1>4, <1>5, PoolQuiet

(* The count of a call catches up with its exchange. *)
LEMMA PoolCountInv ==
    ASSUME PoolInv, NEW t \in PoolThread, PoolPushSize(t) \/ PoolPopSize(t)
    PROVE  PoolInv'
<1> DEFINE P == {"pushSize"}
           R == {"popSize"}
           x == Len(poolSeq) - PoolAt(P) + PoolAt(R)
<1>1. PoolTypes /\ PoolSizeMod \in Nat \ {0}
  BY FreeListAssumption, FS_CardinalityType DEF PoolInv
<1>2. /\ PoolGoto(t, "idle") /\ poolPc[t] \in {"pushSize", "popSize"}
      /\ UNCHANGED <<poolHead, poolLink, poolDone, poolWas, poolArg, poolNext, mine, poolSeq>>
  BY DEF PoolPushSize, PoolPopSize
<1>3. /\ PoolAt(P) \in Nat /\ PoolAt(P)' \in Nat
      /\ PoolAt(P)' = PoolAt(P) + (IF "idle" \in P THEN 1 ELSE 0) - (IF poolPc[t] \in P THEN 1 ELSE 0)
  BY <1>1, <1>2, PoolMoved
<1>4. /\ PoolAt(R) \in Nat /\ PoolAt(R)' \in Nat
      /\ PoolAt(R)' = PoolAt(R) + (IF "idle" \in R THEN 1 ELSE 0) - (IF poolPc[t] \in R THEN 1 ELSE 0)
  BY <1>1, <1>2, PoolMoved
<1>5. x \in Int /\ Len(poolSeq) \in Nat /\ poolSize = x % PoolSizeMod
  BY <1>1, <1>3, <1>4, LenProperties DEF PoolTypes, PoolInv, PoolSizes
<1>6. "idle" \notin P /\ "idle" \notin R
  OBVIOUS
<1>7. PoolSizes' /\ poolSize' \in Int
  <2>1. CASE PoolPushSize(t)
    <3>1. poolPc[t] \in P /\ poolPc[t] \notin R
      BY <2>1 DEF PoolPushSize
    <3> HIDE DEF P, R
    <3>2. Len(poolSeq) - PoolAt(P)' + PoolAt(R)' = x + 1
      BY <1>3, <1>4, <1>5, <1>6, <3>1
    <3> HIDE DEF x
    <3>3. ((x % PoolSizeMod) + 1) % PoolSizeMod = (x + 1) % PoolSizeMod
      BY <1>1, <1>5, ModUpDown
    <3>4. poolSize' = (x + 1) % PoolSizeMod /\ poolSize' \in Int
      BY <2>1, <1>1, <1>5, <3>3 DEF PoolPushSize
    <3> QED
      BY <1>2, <3>2, <3>4 DEF PoolSizes, P, R
  <2>2. CASE PoolPopSize(t)
    <3>1. poolPc[t] \in R /\ poolPc[t] \notin P
      BY <2>2 DEF PoolPopSize
    <3> HIDE DEF P, R
    <3>2. Len(poolSeq) - PoolAt(P)' + PoolAt(R)' = x - 1
      BY <1>3, <1>4, <1>5, <1>6, <3>1
    <3> HIDE DEF x
    <3>3. ((x % PoolSizeMod) - 1) % PoolSizeMod = (x - 1) % PoolSizeMod
      BY <1>1, <1>5, ModUpDown
    <3>4. poolSize' = (x - 1) % PoolSizeMod /\ poolSize' \in Int
      BY <2>2, <1>1, <1>5, <3>3 DEF PoolPopSize
    <3> QED
      BY <1>2, <3>2, <3>4 DEF PoolSizes, P, R
  <2> QED
    BY <2>1, <2>2
<1>8. PoolTypes'
  BY <1>1, <1>2, <1>7 DEF PoolTypes, PoolGoto, PoolPlace
<1>9. PoolOwn(t) /\ PoolDelayed(t)'
  BY <1>1, <1>2 DEF PoolGoto, PoolOwn, PoolDelayed, PoolTypes
<1>10. PoolOnePlace' /\ PoolChain'
  BY <1>2 DEF PoolInv, PoolOnePlace, PoolChain
<1>11. PoolTagCounts'
  <2>1. /\ PoolAt(BeforeSwing)' = PoolAt(BeforeSwing) + (IF "idle" \in BeforeSwing THEN 1 ELSE 0)
                                    - (IF poolPc[t] \in BeforeSwing THEN 1 ELSE 0)
        /\ PoolAt(BeforeSwing) \in Nat
    BY <1>1, <1>2, PoolMoved
  <2>2. "idle" \notin BeforeSwing /\ poolPc[t] \notin BeforeSwing
    BY <1>2 DEF BeforeSwing
  <2>3. PoolAt(BeforeSwing)' = PoolAt(BeforeSwing)
    BY <2>1, <2>2
  <2> QED
    BY <1>2, <2>3 DEF PoolInv, PoolTagCounts
<1>12. \A u \in PoolThread \ {t} : PoolDelayed(u)'
  BY <1>2, <1>9, PoolOthersKnow
<1> QED
  BY <1>7, <1>8, <1>9, <1>10, <1>11, <1>12 DEF PoolInv

(* What both exchanges do when they succeed: the head takes the next tag,   *)
(* so that whoever has read it before knows, and the size lags by one more. *)
LEMMA PoolExchanged ==
    ASSUME PoolInv, NEW t \in PoolThread, poolPc[t] \in {"pushCas", "popCas"},
           NEW o \in PoolObject \cup {Void}, poolHead' = PoolSwing(poolHead, o),
           NEW l \in {"pushSize", "popSize"}, PoolGoto(t, l),
           NEW d \in {1, -1}, d = IF l = "pushSize" THEN 1 ELSE -1,
           Len(poolSeq') = Len(poolSeq) + d,
           UNCHANGED <<poolSize, poolDone>>, PoolOwn(t)
    PROVE  /\ poolHead' \in HeadWord /\ poolHead'.obj = o
           /\ PoolTagCounts' /\ PoolSizes' /\ (\A u \in PoolThread : PoolDelayed(u)')
<1>1. /\ PoolTypes /\ poolHead.tag \in Nat /\ poolDone \in Nat /\ poolDone <= PoolCalls
      /\ PoolCalls \in Nat /\ PoolTagMod \in Nat /\ PoolCalls < PoolTagMod
  BY FreeListAssumption DEF PoolInv, PoolTypes, HeadWord
<1>2. poolPc[t] \in BeforeSwing /\ l \notin BeforeSwing
  BY DEF BeforeSwing
<1>3. /\ PoolAt(BeforeSwing) \in Nat /\ PoolAt(BeforeSwing) > 0
      /\ PoolAt(BeforeSwing)' = PoolAt(BeforeSwing) + (IF l \in BeforeSwing THEN 1 ELSE 0)
                                    - (IF poolPc[t] \in BeforeSwing THEN 1 ELSE 0)
  BY <1>1, <1>2, PoolMoved
<1>4. PoolAt(BeforeSwing)' = PoolAt(BeforeSwing) - 1
  BY <1>2, <1>3
<1>5. poolHead.tag + PoolAt(BeforeSwing) <= poolDone
  BY DEF PoolInv, PoolTagCounts
<1>6. poolHead.tag + 1 \in 0 .. PoolTagMod - 1
  BY <1>1, <1>3, <1>5
<1>7. (poolHead.tag + 1) % PoolTagMod = poolHead.tag + 1
  <2>1. PICK x, M : x = poolHead.tag + 1 /\ M = PoolTagMod
    OBVIOUS
  <2>2. M \in Nat \ {0} /\ x \in 0 .. M - 1
    BY <1>1, <1>6, <2>1
  <2>3. x % M = x
    BY <2>2, SmallRemainder
  <2> QED
    BY <2>1, <2>3
<1>8. poolHead' = [obj |-> o, tag |-> poolHead.tag + 1]
  BY <1>7 DEF PoolSwing
<1>9. poolHead' \in HeadWord /\ poolHead'.obj = o /\ poolHead'.tag = poolHead.tag + 1
  BY <1>1, <1>8 DEF HeadWord
<1>10. PoolTagCounts'
  BY <1>1, <1>3, <1>4, <1>5, <1>9 DEF PoolTagCounts
<1>11. PoolDelayed(t)'
  BY <1>1 DEF PoolGoto, PoolDelayed, PoolTypes
<1>12. \A u \in PoolThread \ {t} : PoolDelayed(u)'
  BY <1>9, PoolOthersKnow
<1>13. PoolSizes'
  <2> DEFINE P == {"pushSize"}
             R == {"popSize"}
  <2>1. /\ PoolAt(P) \in Nat /\ PoolAt(P)' \in Nat
        /\ PoolAt(P)' = PoolAt(P) + (IF l \in P THEN 1 ELSE 0) - (IF poolPc[t] \in P THEN 1 ELSE 0)
    BY <1>1, PoolMoved
  <2>2. /\ PoolAt(R) \in Nat /\ PoolAt(R)' \in Nat
        /\ PoolAt(R)' = PoolAt(R) + (IF l \in R THEN 1 ELSE 0) - (IF poolPc[t] \in R THEN 1 ELSE 0)
    BY <1>1, PoolMoved
  <2>3. poolPc[t] \notin P /\ poolPc[t] \notin R /\ (l \in P <=> l = "pushSize") /\ (l \in R <=> l # "pushSize")
    OBVIOUS
  <2>4. Len(poolSeq) \in Nat
    BY <1>1, LenProperties DEF PoolTypes
  <2> HIDE DEF P, R
  <2>5. Len(poolSeq') - PoolAt(P)' + PoolAt(R)' = Len(poolSeq) - PoolAt(P) + PoolAt(R)
    BY <2>1, <2>2, <2>3, <2>4
  <2> QED
    BY <2>5 DEF PoolInv, PoolSizes, P, R
<1> QED
  BY <1>9, <1>10, <1>11, <1>12, <1>13

(* The exchange of Push puts its object in front of the list. *)
LEMMA PoolPushCasInv ==
    ASSUME PoolInv, NEW t \in PoolThread, PoolPushCas(t), poolHead = poolWas[t]
    PROVE  PoolInv'
<1> DEFINE o == poolArg[t]
           s == poolSeq
           r == <<o>> \o s
<1>1. /\ PoolTypes /\ s \in Seq(PoolObject) /\ o \in mine[t] /\ o \in PoolObject
      /\ poolLink[o] = poolHead.obj /\ mine[t] \in SUBSET PoolObject
  BY DEF PoolInv, PoolTypes, PoolPushCas, PoolDelayed
<1>2. /\ poolPc[t] = "pushCas" /\ poolHead' = PoolSwing(poolHead, o)
      /\ mine' = [mine EXCEPT ![t] = @ \ {o}] /\ poolSeq' = r /\ PoolGoto(t, "pushSize")
      /\ UNCHANGED <<poolSize, poolLink, poolDone, poolWas, poolArg, poolNext>>
  BY DEF PoolPushCas
<1>3. /\ r \in Seq(PoolObject) /\ Len(r) = Len(s) + 1 /\ Len(s) \in Nat /\ r[1] = o
      /\ (\A i \in 1 .. Len(s) : r[i + 1] = s[i])
  BY <1>1, FrontAdded
<1>4. \A i \in 1 .. Len(r) : i = 1 \/ (i - 1 \in 1 .. Len(s) /\ r[i] = s[i - 1])
  BY <1>3
<1> HIDE DEF o, r, s
<1>5. \A u \in PoolThread : mine'[u] = IF u = t THEN mine[t] \ {o} ELSE mine[u]
  BY <1>1, <1>2 DEF PoolTypes
<1>6. PoolOwn(t)
  BY <1>1, <1>2, <1>5 DEF PoolGoto, PoolOwn, PoolTypes
<1>7. /\ poolHead' \in HeadWord /\ poolHead'.obj = o
      /\ PoolTagCounts' /\ PoolSizes' /\ (\A u \in PoolThread : PoolDelayed(u)')
  BY <1>1, <1>2, <1>3, <1>6, PoolExchanged DEF s
<1>8. PoolTypes'
  BY <1>1, <1>2, <1>3, <1>7 DEF PoolTypes, PoolGoto, PoolPlace
<1>9. PoolOnePlace'
  <2>1. /\ \A i, j \in 1 .. Len(s) : s[i] = s[j] => i = j
        /\ \A u, w \in PoolThread : \A x \in mine[u] : x \in mine[w] => u = w
        /\ \A u \in PoolThread : \A i \in 1 .. Len(s) : s[i] \notin mine[u]
        /\ \A x \in PoolObject :
              (\E i \in 1 .. Len(s) : s[i] = x) \/ (\E u \in PoolThread : x \in mine[u])
    BY DEF PoolInv, PoolOnePlace, s
  <2>0. \A i \in 1 .. Len(s) : s[i] # o
    BY <1>1, <2>1
  <2>2. ASSUME NEW i \in 1 .. Len(r), NEW j \in 1 .. Len(r), r[i] = r[j] PROVE i = j
    <3>1. CASE i = 1 \/ j = 1
      BY <1>3, <1>4, <2>0, <2>2, <3>1
    <3>2. CASE i # 1 /\ j # 1
      <4>1. i - 1 = j - 1
        BY <1>4, <2>1, <2>2, <3>2
      <4> QED
        BY <4>1
    <3> QED
      BY <3>1, <3>2
  <2>3. \A u, w \in PoolThread : \A x \in mine'[u] : x \in mine'[w] => u = w
    BY <1>5, <2>1
  <2>4. ASSUME NEW u \in PoolThread, NEW i \in 1 .. Len(r) PROVE r[i] \notin mine'[u]
    <3>1. CASE i = 1
      BY <1>1, <1>3, <1>5, <2>1, <3>1
    <3>2. CASE i # 1
      <4>1. r[i] \notin mine[u]
        BY <1>4, <2>1, <3>2
      <4> QED
        BY <1>5, <4>1
    <3> QED
      BY <3>1, <3>2
  <2>5. ASSUME NEW x \in PoolObject
        PROVE  (\E i \in 1 .. Len(r) : r[i] = x) \/ (\E u \in PoolThread : x \in mine'[u])
    <3>1. CASE x = o
      <4>1. 1 \in 1 .. Len(r)
        BY <1>3
      <4> QED
        BY <1>3, <3>1, <4>1
    <3>2. CASE \E i \in 1 .. Len(s) : s[i] = x
      <4>1. PICK i \in 1 .. Len(s) : s[i] = x
        BY <3>2
      <4>2. i + 1 \in 1 .. Len(r) /\ r[i + 1] = x
        BY <1>3, <4>1
      <4> QED
        BY <4>2
    <3>3. CASE x # o /\ (\E u \in PoolThread : x \in mine[u])
      BY <1>5, <3>3
    <3> QED
      BY <2>1, <3>1, <3>2, <3>3
  <2> QED
    BY <1>2, <2>2, <2>3, <2>4, <2>5 DEF PoolOnePlace
<1>10. PoolChain'
  <2>1. /\ poolHead.obj = IF Len(s) = 0 THEN Void ELSE s[1]
        /\ \A i \in 1 .. Len(s) : poolLink[s[i]] = IF i = Len(s) THEN Void ELSE s[i + 1]
    BY DEF PoolInv, PoolChain, s
  <2>2. ASSUME NEW i \in 1 .. Len(r)
        PROVE  poolLink[r[i]] = IF i = Len(r) THEN Void ELSE r[i + 1]
    <3>1. CASE i = 1
      <4>1. Len(s) # 0 => r[1 + 1] = s[1]
        BY <1>3
      <4> QED
        BY <1>1, <1>3, <2>1, <3>1, <4>1
    <3>2. CASE i # 1
      <4>1. i - 1 \in 1 .. Len(s) /\ r[i] = s[i - 1] /\ (i - 1) + 1 = i
        BY <1>3, <1>4, <3>2
      <4>2. i # Len(r) => i \in 1 .. Len(s) /\ r[i + 1] = s[i]
        BY <1>3, <3>2
      <4>3. i = Len(r) <=> i - 1 = Len(s)
        BY <1>3
      <4>4. poolLink[s[i - 1]] = IF i - 1 = Len(s) THEN Void ELSE s[(i - 1) + 1]
        BY <2>1, <4>1
      <4> QED
        BY <4>1, <4>2, <4>3, <4>4
    <3> QED
      BY <3>1, <3>2
  <2>3. Len(r) # 0
    BY <1>3
  <2> QED
    BY <1>2, <1>3, <1>7, <2>2, <2>3 DEF PoolChain
<1> QED
  BY <1>7, <1>8, <1>9, <1>10 DEF PoolInv

(* The exchange of Pop takes the first object out of the list: the link it  *)
(* has read is the one of that object because the tag is the current one.   *)
LEMMA PoolPopCasInv ==
    ASSUME PoolInv, NEW t \in PoolThread, PoolPopCas(t), poolHead = poolWas[t]
    PROVE  PoolInv'
<1> DEFINE o == poolHead.obj
           s == poolSeq
           r == SubSeq(s, 2, Len(s))
           n == poolNext[t]
<1>1. /\ PoolTypes /\ s \in Seq(PoolObject) /\ o \in PoolObject /\ n = poolLink[o]
      /\ n \in PoolObject \cup {Void} /\ o # Void /\ Len(s) \in Nat
  BY FreeListAssumption, LenProperties DEF PoolInv, PoolTypes, PoolPopCas, PoolDelayed
<1>2. /\ poolPc[t] = "popCas" /\ poolHead' = PoolSwing(poolHead, n)
      /\ mine' = [mine EXCEPT ![t] = @ \cup {o}] /\ poolSeq' = r /\ PoolGoto(t, "popSize")
      /\ UNCHANGED <<poolSize, poolLink, poolDone, poolWas, poolArg, poolNext>>
  BY DEF PoolPopCas
<1>3. /\ o = s[1] /\ Len(s) # 0
      /\ \A i \in 1 .. Len(s) : poolLink[s[i]] = IF i = Len(s) THEN Void ELSE s[i + 1]
  BY <1>1 DEF PoolInv, PoolChain
<1>4. s # <<>>
  BY <1>1, <1>3, EmptySeq
<1>5. /\ r \in Seq(PoolObject) /\ Len(r) = Len(s) - 1
      /\ \A i \in 1 .. Len(r) : r[i] = s[i + 1]
  BY <1>1, <1>4, FrontTaken
<1> HIDE DEF o, r, s, n
<1>6. \A u \in PoolThread : mine'[u] = IF u = t THEN mine[t] \cup {o} ELSE mine[u]
  BY <1>1, <1>2 DEF PoolTypes
<1>7. PoolOwn(t)
  BY <1>1, <1>2, <1>6 DEF PoolGoto, PoolOwn, PoolTypes
<1>8. /\ poolHead' \in HeadWord /\ poolHead'.obj = n
      /\ PoolTagCounts' /\ PoolSizes' /\ (\A u \in PoolThread : PoolDelayed(u)')
  <2>1. Len(poolSeq') = Len(poolSeq) + (-1)
    BY <1>1, <1>2, <1>5 DEF s
  <2> QED
    BY <1>1, <1>2, <1>7, <2>1, PoolExchanged
<1>9. PoolTypes'
  BY <1>1, <1>2, <1>5, <1>8 DEF PoolTypes, PoolGoto, PoolPlace
<1>10. PoolOnePlace'
  <2>1. /\ \A i, j \in 1 .. Len(s) : s[i] = s[j] => i = j
        /\ \A u, w \in PoolThread : \A x \in mine[u] : x \in mine[w] => u = w
        /\ \A u \in PoolThread : \A i \in 1 .. Len(s) : s[i] \notin mine[u]
        /\ \A x \in PoolObject :
              (\E i \in 1 .. Len(s) : s[i] = x) \/ (\E u \in PoolThread : x \in mine[u])
    BY DEF PoolInv, PoolOnePlace, s
  <2>2. \A i \in 1 .. Len(r) : i + 1 \in 1 .. Len(s) /\ r[i] = s[i + 1] /\ i + 1 # 1
    BY <1>1, <1>3, <1>5
  <2>3. 1 \in 1 .. Len(s)
    BY <1>1, <1>3
  <2>4. ASSUME NEW i \in 1 .. Len(r), NEW j \in 1 .. Len(r), r[i] = r[j] PROVE i = j
    <3>1. i + 1 = j + 1
      BY <2>1, <2>2, <2>4
    <3> QED
      BY <3>1
  <2>5. \A u \in PoolThread : o \notin mine[u]
    BY <1>3, <2>1, <2>3
  <2>6. \A u, w \in PoolThread : \A x \in mine'[u] : x \in mine'[w] => u = w
    BY <1>6, <2>1, <2>5
  <2>7. ASSUME NEW u \in PoolThread, NEW i \in 1 .. Len(r) PROVE r[i] \notin mine'[u]
    <3>1. r[i] # o /\ r[i] \notin mine[u]
      BY <1>3, <2>1, <2>2, <2>3
    <3> QED
      BY <1>6, <3>1
  <2>8. ASSUME NEW x \in PoolObject
        PROVE  (\E i \in 1 .. Len(r) : r[i] = x) \/ (\E u \in PoolThread : x \in mine'[u])
    <3>1. CASE x = o
      BY <1>6, <3>1
    <3>2. CASE x # o /\ \E i \in 1 .. Len(s) : s[i] = x
      <4>1. PICK i \in 1 .. Len(s) : s[i] = x
        BY <3>2
      <4>2. i # 1
        BY <1>3, <3>2, <4>1
      <4>3. i - 1 \in 1 .. Len(r) /\ (i - 1) + 1 = i
        BY <1>1, <1>5, <4>2
      <4>4. r[i - 1] = x
        BY <1>5, <4>1, <4>3
      <4> QED
        BY <4>3, <4>4
    <3>3. CASE \E u \in PoolThread : x \in mine[u]
      BY <1>6, <3>3
    <3> QED
      BY <2>1, <3>1, <3>2, <3>3
  <2> QED
    BY <1>2, <2>4, <2>6, <2>7, <2>8 DEF PoolOnePlace
<1>11. PoolChain'
  <2>1. n = IF Len(r) = 0 THEN Void ELSE r[1]
    <3>1. 1 \in 1 .. Len(s) /\ (1 = Len(s) <=> Len(r) = 0) /\ (Len(r) # 0 => r[1] = s[1 + 1])
      BY <1>1, <1>3, <1>5
    <3> QED
      BY <1>1, <1>3, <3>1
  <2>2. ASSUME NEW i \in 1 .. Len(r)
        PROVE  poolLink[r[i]] = IF i = Len(r) THEN Void ELSE r[i + 1]
    <3>1. i + 1 \in 1 .. Len(s) /\ r[i] = s[i + 1] /\ (i + 1 = Len(s) <=> i = Len(r))
      BY <1>1, <1>5
    <3>2. i # Len(r) => r[i + 1] = s[(i + 1) + 1]
      BY <1>1, <1>5
    <3> QED
      BY <1>3, <3>1, <3>2
  <2> QED
    BY <1>2, <1>8, <2>1, <2>2 DEF PoolChain
<1> QED
  BY <1>8, <1>9, <1>10, <1>11 DEF PoolInv

(* Every step of every thread keeps the invariant. *)
LEMMA PoolStepInv == PoolInv /\ [PoolNext]_poolVars => PoolInv'
<1> SUFFICES ASSUME PoolInv, [PoolNext]_poolVars PROVE PoolInv'
  OBVIOUS
<1>1. CASE UNCHANGED poolVars
  <2>1. PoolTypes' /\ PoolChain' /\ PoolOnePlace'
    BY <1>1 DEF poolVars, PoolInv, PoolTypes, PoolChain, PoolOnePlace
  <2>2. PoolTagCounts' /\ PoolSizes' /\ (\A t \in PoolThread : PoolDelayed(t)')
    BY <1>1 DEF poolVars, PoolInv, PoolTagCounts, PoolSizes, PoolAt, PoolDelayed
  <2> QED
    BY <2>1, <2>2 DEF PoolInv
<1>2. ASSUME NEW t \in PoolThread, NEW o \in PoolObject, PoolPushLoad(t, o) PROVE PoolInv'
  BY <1>2, PoolPushLoadInv
<1>3. ASSUME NEW t \in PoolThread, PoolPushCas(t) PROVE PoolInv'
  BY <1>3, PoolPushCasInv, PoolCasFails
<1>4. ASSUME NEW t \in PoolThread, PoolPushSize(t) \/ PoolPopSize(t) PROVE PoolInv'
  BY <1>4, PoolCountInv
<1>5. ASSUME NEW t \in PoolThread, PoolPopLoad(t) \/ PoolPopLink(t) PROVE PoolInv'
  BY <1>5, PoolPopLoadInv, PoolPopLinkInv
<1>6. ASSUME NEW t \in PoolThread, PoolPopCas(t) PROVE PoolInv'
  BY <1>6, PoolPopCasInv, PoolCasFails
<1> QED
  BY <1>1, <1>2, <1>3, <1>4, <1>5, <1>6 DEF PoolNext

(* FreeList: for any number of threads and objects, and as many calls as    *)
(* there are tags, no object is lost or given to two threads, the links are *)
(* the list that the exchanges made, and mSize catches up with it.          *)
THEOREM PoolIsKept == PoolSpec => []PoolKept
<1>1. PoolInv => PoolKept
  <2> SUFFICES ASSUME PoolInv PROVE PoolKept
    OBVIOUS
  <2>1. PoolAt({"pushSize"}) = Cardinality({t \in PoolThread : poolPc[t] = "pushSize"})
    <3>1. {t \in PoolThread : poolPc[t] \in {"pushSize"}} = {t \in PoolThread : poolPc[t] = "pushSize"}
      OBVIOUS
    <3> QED
      BY <3>1 DEF PoolAt
  <2>2. PoolAt({"popSize"}) = Cardinality({t \in PoolThread : poolPc[t] = "popSize"})
    <3>1. {t \in PoolThread : poolPc[t] \in {"popSize"}} = {t \in PoolThread : poolPc[t] = "popSize"}
      OBVIOUS
    <3> QED
      BY <3>1 DEF PoolAt
  <2>3. PoolSizeAccounted
    BY <2>1, <2>2 DEF PoolInv, PoolSizes, PoolSizeAccounted
  <2>4. ASSUME NEW o \in PoolObject
        PROVE  Cardinality({i \in 1 .. Len(poolSeq) : poolSeq[i] = o})
                 + Cardinality({t \in PoolThread : o \in mine[t]}) = 1
    <3> DEFINE A == {i \in 1 .. Len(poolSeq) : poolSeq[i] = o}
               B == {t \in PoolThread : o \in mine[t]}
    <3>1. (A = {} /\ \E t : B = {t}) \/ (B = {} /\ \E i : A = {i})
      <4>1. CASE \E i \in 1 .. Len(poolSeq) : poolSeq[i] = o
        <5>1. PICK i \in 1 .. Len(poolSeq) : poolSeq[i] = o
          BY <4>1
        <5>2. A = {i} /\ B = {}
          BY <5>1 DEF PoolInv, PoolOnePlace
        <5> QED
          BY <5>2
      <4>2. CASE \E t \in PoolThread : o \in mine[t]
        <5>1. PICK t \in PoolThread : o \in mine[t]
          BY <4>2
        <5>2. B = {t} /\ A = {}
          BY <5>1 DEF PoolInv, PoolOnePlace
        <5> QED
          BY <5>2
      <4> QED
        BY <4>1, <4>2 DEF PoolInv, PoolOnePlace
    <3> HIDE DEF A, B
    <3>2. CASE A = {} /\ (\E t : B = {t})
      <4>1. Cardinality(A) = 0 /\ Cardinality(B) = 1
        BY <3>2, FS_EmptySet, FS_Singleton
      <4> QED
        BY <4>1 DEF A, B
    <3>3. CASE B = {} /\ (\E i : A = {i})
      <4>1. Cardinality(A) = 1 /\ Cardinality(B) = 0
        BY <3>3, FS_EmptySet, FS_Singleton
      <4> QED
        BY <4>1 DEF A, B
    <3> QED
      BY <3>1, <3>2, <3>3
  <2>5. PoolIsItsSequence
    BY <2>4 DEF PoolInv, PoolChain, PoolIsItsSequence
  <2> QED
    BY <2>3, <2>5 DEF PoolKept
<1> QED
  BY <1>1, PoolInitInv, PoolStepInv, PTL DEF PoolSpec

-----------------------------------------------------------------------------
(* The scoped lockers.  ScopesHoldLocks says what is true between scopes;   *)
(* to leave a scope one has to know how it was entered: the lockers and     *)
(* unlockers of a thread on one lock are nested so that no prefix of its    *)
(* scopes has more unlockers than lockers and, but for a recursive lock,    *)
(* none has two lockers more.  RWLocks have scopes of their own kinds only. *)
ScopeKind == {"locker", "unlocker", "reader", "writer"}
ScopeOf == [kind : ScopeKind, lock : Lock]

(* How often x is among the first n elements of s. *)
Upto(s, x, n) == Cardinality({i \in 1 .. n : s[i] = x})
DepthUpto(s, l, n) ==
    Upto(s, [kind |-> "locker", lock |-> l], n) - Upto(s, [kind |-> "unlocker", lock |-> l], n)

LocksTypes ==
    /\ lockKind \in [Lock -> LockKinds]
    /\ holds \in [Lock -> [LockThread -> Int]]
    /\ reads \in [Lock -> [LockThread -> Int]]
    /\ scopes \in [LockThread -> Seq(ScopeOf)]

KindsSorted(l) ==
    \A t \in LockThread :
        IF lockKind[l] = "rw" THEN Count(t, "locker", l) = 0 /\ Count(t, "unlocker", l) = 0
                              ELSE Count(t, "reader", l) = 0 /\ Count(t, "writer", l) = 0

HeldByScopes(l) ==
    \A t \in LockThread :
        /\ holds[l][t] = Depth(t, l) + Count(t, "writer", l)
        /\ reads[l][t] = Count(t, "reader", l)

Nested(l) ==
    lockKind[l] # "rw" =>
        \A t \in LockThread : \A n \in 0 .. Len(scopes[t]) :
            /\ DepthUpto(scopes[t], l, n) >= 0
            /\ lockKind[l] # "recursive" => DepthUpto(scopes[t], l, n) <= 1

Exclusive(l) ==
    \A t \in LockThread :
        holds[l][t] > 0 =>
            /\ lockKind[l] # "recursive" => holds[l][t] <= 1
            /\ reads[l][t] = 0
            /\ \A u \in Others(t) : holds[l][u] = 0 /\ reads[l][u] = 0

LockGood(l) ==
    /\ KindsSorted(l)
    /\ lockKind[l] # "null" => HeldByScopes(l) /\ Nested(l) /\ Exclusive(l)

LocksInv == LocksTypes /\ AbortHasCause /\ (\A l \in Lock : LockGood(l))

(* Counting in a prefix goes on element by element. *)
LEMMA UptoNext ==
    ASSUME NEW s, NEW x, NEW n \in Nat
    PROVE  /\ Upto(s, x, n) \in Nat /\ Upto(s, x, 0) = 0
           /\ Upto(s, x, n + 1) = Upto(s, x, n) + (IF s[n + 1] = x THEN 1 ELSE 0)
<1> DEFINE A == {i \in 1 .. n : s[i] = x}
           B == {i \in 1 .. n + 1 : s[i] = x}
           Z == {i \in 1 .. 0 : s[i] = x}
<1>1. IsFiniteSet(1 .. n + 1)
  BY FS_Interval
<1>2. A \in SUBSET (1 .. n + 1) /\ B \in SUBSET (1 .. n + 1) /\ n + 1 \in 1 .. n + 1 /\ Z = {}
  OBVIOUS
<1>3. A \ {n + 1} = B \ {n + 1} /\ n + 1 \notin A /\ (n + 1 \in B <=> s[n + 1] = x)
  OBVIOUS
<1> HIDE DEF A, B, Z
<1>4. /\ Cardinality(A) \in Nat
      /\ Cardinality(B) = Cardinality(A) + (IF n + 1 \in B THEN 1 ELSE 0) - (IF n + 1 \in A THEN 1 ELSE 0)
  <2>1. PICK T, m : T = 1 .. n + 1 /\ m = n + 1
    OBVIOUS
  <2>2. /\ IsFiniteSet(T) /\ A \in SUBSET T /\ B \in SUBSET T /\ m \in T /\ A \ {m} = B \ {m}
    BY <1>1, <1>2, <1>3, <2>1
  <2>3. /\ Cardinality(A) \in Nat
        /\ Cardinality(B) = Cardinality(A) + (IF m \in B THEN 1 ELSE 0) - (IF m \in A THEN 1 ELSE 0)
    BY <2>2, CountMoved
  <2> QED
    BY <2>1, <2>3
<1>5. Cardinality(Z) = 0
  BY <1>2, FS_EmptySet
<1>6. Upto(s, x, n) = Cardinality(A) /\ Upto(s, x, n + 1) = Cardinality(B) /\ Upto(s, x, 0) = Cardinality(Z)
  BY DEF Upto, A, B, Z
<1> QED
  BY <1>3, <1>4, <1>5, <1>6

(* Sequences with the same first n elements have the same counts. *)
LEMMA UptoSame ==
    ASSUME NEW r, NEW s, NEW x, NEW n \in Nat, \A i \in 1 .. n : r[i] = s[i]
    PROVE  Upto(r, x, n) = Upto(s, x, n)
<1>1. {i \in 1 .. n : r[i] = x} = {i \in 1 .. n : s[i] = x}
  OBVIOUS
<1> QED
  BY <1>1 DEF Upto

(* The counts are natural numbers, and the depth is that of the whole. *)
LEMMA CountsAre ==
    ASSUME LocksTypes, NEW t \in LockThread
    PROVE  /\ Len(scopes[t]) \in Nat
           /\ \A k, l : Count(t, k, l) \in Nat
           /\ \A k, l : Count(t, k, l) = Upto(scopes[t], [kind |-> k, lock |-> l], Len(scopes[t]))
           /\ \A l : Depth(t, l) \in Int /\ Depth(t, l) = DepthUpto(scopes[t], l, Len(scopes[t]))
<1>1. Len(scopes[t]) \in Nat
  BY LenProperties DEF LocksTypes
<1>2. \A k, l : Count(t, k, l) = Upto(scopes[t], [kind |-> k, lock |-> l], Len(scopes[t]))
  BY DEF Count, Upto
<1>3. ASSUME NEW k, NEW l PROVE Count(t, k, l) \in Nat
  <2>1. PICK s, x, n : s = scopes[t] /\ x = [kind |-> k, lock |-> l] /\ n = Len(scopes[t])
    OBVIOUS
  <2>2. Upto(s, x, n) \in Nat
    BY <1>1, <2>1, UptoNext
  <2> QED
    BY <1>2, <2>1, <2>2
<1>4. \A l : Depth(t, l) \in Int /\ Depth(t, l) = DepthUpto(scopes[t], l, Len(scopes[t]))
  BY <1>2, <1>3 DEF Depth, DepthUpto
<1> QED
  BY <1>1, <1>2, <1>3, <1>4

(* What a scope that is entered, or left, changes: one count, by one.  Every*)
(* prefix of the new scopes is as deep as a prefix of the old ones, except  *)
(* all of them when one was entered.                                        *)
ScopeMoved(t, k, l, d) ==
    /\ scopes' \in [LockThread -> Seq(ScopeOf)]
    /\ \A u \in LockThread : \A j, m :
          Count(u, j, m)' = Count(u, j, m) + (IF u = t /\ j = k /\ m = l THEN d ELSE 0)
    /\ \A u \in LockThread, m \in Lock : \A n \in 0 .. Len(scopes'[u]) :
          \/ \E j \in 0 .. Len(scopes[u]) : DepthUpto(scopes'[u], m, n) = DepthUpto(scopes[u], m, j)
          \/ d = 1 /\ u = t /\ m = l /\ DepthUpto(scopes'[u], m, n) = Depth(t, l)'

(* The constructors push one scope. *)
LEMMA ScopePushed ==
    ASSUME LocksTypes, NEW t \in LockThread, NEW k \in ScopeKind, NEW l \in Lock, Pushed(t, k, l)
    PROVE  ScopeMoved(t, k, l, 1)
<1> DEFINE s == scopes[t]
           e == [kind |-> k, lock |-> l]
           n0 == Len(s)
           r == Append(s, e)
<1>1. scopes' = [scopes EXCEPT ![t] = r] /\ s \in Seq(ScopeOf) /\ e \in ScopeOf /\ n0 \in Nat
  BY LenProperties DEF Pushed, LocksTypes, ScopeOf
<1>2. r \in Seq(ScopeOf) /\ Len(r) = n0 + 1 /\ (\A i \in 1 .. n0 : r[i] = s[i]) /\ r[n0 + 1] = e
  BY <1>1, AppendProperties
<1> HIDE DEF r
<1>3. scopes' \in [LockThread -> Seq(ScopeOf)] /\ scopes'[t] = r
      /\ (\A u \in LockThread \ {t} : scopes'[u] = scopes[u])
  BY <1>1, <1>2 DEF LocksTypes
<1>4. \A x : \A n \in 0 .. n0 : Upto(r, x, n) = Upto(s, x, n)
  BY <1>1, <1>2, UptoSame
<1>5. \A x : Upto(r, x, n0 + 1) = Upto(s, x, n0) + (IF e = x THEN 1 ELSE 0)
  <2> TAKE x
  <2>1. n0 \in Nat
    BY <1>1
  <2> HIDE DEF n0
  <2>2. Upto(r, x, n0 + 1) = Upto(r, x, n0) + (IF r[n0 + 1] = x THEN 1 ELSE 0)
    BY <2>1, UptoNext
  <2> QED
    BY <1>2, <1>4, <2>1, <2>2
<1>6. ASSUME NEW u \in LockThread, NEW j, NEW m
      PROVE  Count(u, j, m)' = Count(u, j, m) + (IF u = t /\ j = k /\ m = l THEN 1 ELSE 0)
  <2>1. CASE u = t
    <3> DEFINE x == [kind |-> j, lock |-> m]
    <3>1. Count(t, j, m)' = Upto(r, x, n0 + 1) /\ Count(t, j, m) = Upto(s, x, n0)
      BY <1>2, <1>3 DEF Count, Upto
    <3>2. e = x <=> j = k /\ m = l
      OBVIOUS
    <3> HIDE DEF x, e
    <3> QED
      BY <1>5, <2>1, <3>1, <3>2
  <2>2. CASE u # t
    <3>1. Count(u, j, m)' = Count(u, j, m)
      BY <1>3, <2>2 DEF Count
    <3>2. Count(u, j, m) \in Nat
      BY CountsAre
    <3> QED
      BY <2>2, <3>1, <3>2
  <2> QED
    BY <2>1, <2>2
<1>7. ASSUME NEW u \in LockThread, NEW m \in Lock, NEW n \in 0 .. Len(scopes'[u])
      PROVE  \/ \E j \in 0 .. Len(scopes[u]) : DepthUpto(scopes'[u], m, n) = DepthUpto(scopes[u], m, j)
             \/ u = t /\ m = l /\ DepthUpto(scopes'[u], m, n) = Depth(t, l)'
  <2>1. CASE u # t
    BY <1>3, <2>1
  <2>2. CASE u = t /\ n <= n0
    <3>1. n \in 0 .. n0 /\ DepthUpto(r, m, n) = DepthUpto(s, m, n)
      BY <1>1, <1>2, <1>3, <1>4, <2>2 DEF DepthUpto
    <3> QED
      BY <1>3, <2>2, <3>1
  <2>3. CASE u = t /\ n > n0
    <3>1. n = n0 + 1
      BY <1>1, <1>2, <1>3, <2>3
    <3>2. CASE m = l
      <4>1. Depth(t, l)' = DepthUpto(r, l, n)
        BY <1>2, <1>3, <3>1 DEF Depth, Count, DepthUpto, Upto
      <4> QED
        BY <1>3, <2>3, <3>2, <4>1
    <3>3. CASE m # l
      <4>1. e # [kind |-> "locker", lock |-> m] /\ e # [kind |-> "unlocker", lock |-> m]
        BY <3>3
      <4>2. \A x : Upto(s, x, n0) \in Nat
        BY <1>1, UptoNext
      <4> HIDE DEF e
      <4>3. DepthUpto(r, m, n) = DepthUpto(s, m, n0) /\ n0 \in 0 .. n0
        BY <1>1, <1>5, <3>1, <4>1, <4>2 DEF DepthUpto
      <4> QED
        BY <1>3, <2>3, <4>3
    <3> QED
      BY <3>2, <3>3
  <2> QED
    BY <1>1, <1>2, <1>3, <2>1, <2>2, <2>3
<1> QED
  BY <1>3, <1>6, <1>7 DEF ScopeMoved

OnTop(t, k, l) == scopes[t] # <<>> /\ Top(t) = [kind |-> k, lock |-> l]

(* The destructors take the last scope away. *)
LEMMA ScopePopped ==
    ASSUME LocksTypes, NEW t \in LockThread, NEW k \in ScopeKind, NEW l \in Lock,
           OnTop(t, k, l), Popped(t)
    PROVE  ScopeMoved(t, k, l, -1)
<1> DEFINE s == scopes[t]
           e == [kind |-> k, lock |-> l]
           n1 == Len(s) - 1
           r == SubSeq(s, 1, n1)
<1>1. scopes' = [scopes EXCEPT ![t] = r] /\ s \in Seq(ScopeOf)
  BY DEF Popped, LocksTypes
<1>2. r \in Seq(ScopeOf) /\ Len(r) = n1 /\ (\A i \in 1 .. n1 : r[i] = s[i]) /\ n1 \in Nat /\ Len(s) = n1 + 1
  BY <1>1, LastTaken DEF OnTop
<1>3. s[n1 + 1] = e
  BY <1>2 DEF OnTop, Top
<1> HIDE DEF r, n1
<1>4. scopes' \in [LockThread -> Seq(ScopeOf)] /\ scopes'[t] = r
      /\ (\A u \in LockThread \ {t} : scopes'[u] = scopes[u])
  BY <1>1, <1>2 DEF LocksTypes
<1>5. \A x : \A n \in 0 .. n1 : Upto(r, x, n) = Upto(s, x, n)
  BY <1>2, UptoSame
<1>6. \A x : /\ Upto(s, x, n1 + 1) = Upto(s, x, n1) + (IF e = x THEN 1 ELSE 0)
             /\ Upto(s, x, n1) \in Nat
  <2> TAKE x
  <2>1. n1 \in Nat
    BY <1>2
  <2> HIDE DEF s, e
  <2>2. /\ Upto(s, x, n1 + 1) = Upto(s, x, n1) + (IF s[n1 + 1] = x THEN 1 ELSE 0)
        /\ Upto(s, x, n1) \in Nat
    BY <2>1, UptoNext
  <2> QED
    BY <1>3, <2>2
<1>7. ASSUME NEW u \in LockThread, NEW j, NEW m
      PROVE  Count(u, j, m)' = Count(u, j, m) + (IF u = t /\ j = k /\ m = l THEN -1 ELSE 0)
  <2>1. CASE u = t
    <3> DEFINE x == [kind |-> j, lock |-> m]
    <3>1. Count(t, j, m)' = Upto(r, x, n1) /\ Count(t, j, m) = Upto(s, x, n1 + 1)
      BY <1>2, <1>4 DEF Count, Upto
    <3>2. e = x <=> j = k /\ m = l
      OBVIOUS
    <3> HIDE DEF x, e
    <3>3. Upto(r, x, n1) = Upto(s, x, n1)
      BY <1>2, <1>5
    <3> QED
      BY <1>6, <2>1, <3>1, <3>2, <3>3
  <2>2. CASE u # t
    <3>1. Count(u, j, m)' = Count(u, j, m)
      BY <1>4, <2>2 DEF Count
    <3>2. Count(u, j, m) \in Nat
      BY CountsAre
    <3> QED
      BY <2>2, <3>1, <3>2
  <2> QED
    BY <2>1, <2>2
<1>8. ASSUME NEW u \in LockThread, NEW m \in Lock, NEW n \in 0 .. Len(scopes'[u])
      PROVE  \E j \in 0 .. Len(scopes[u]) : DepthUpto(scopes'[u], m, n) = DepthUpto(scopes[u], m, j)
  <2>1. CASE u # t
    BY <1>4, <2>1
  <2>2. CASE u = t
    <3>1. n \in 0 .. n1 /\ n \in 0 .. Len(s) /\ DepthUpto(r, m, n) = DepthUpto(s, m, n)
      BY <1>2, <1>4, <1>5, <2>2 DEF DepthUpto
    <3> QED
      BY <1>4, <2>2, <3>1
  <2> QED
    BY <2>1, <2>2
<1> QED
  BY <1>4, <1>7, <1>8 DEF ScopeMoved

(* In the beginning no scope is open and nothing is held. *)
LEMMA LocksInitInv == LocksInit => LocksInv
<1> SUFFICES ASSUME LocksInit PROVE LocksInv
  OBVIOUS
<1>1. LocksTypes
  BY DEF LocksInit, LocksTypes
<1>2. \A t \in LockThread : scopes[t] = <<>> /\ Len(scopes[t]) = 0
  BY DEF LocksInit
<1>3. \A s, x : Upto(s, x, 0) = 0
  BY UptoNext
<1>4. ASSUME NEW t \in LockThread, NEW k, NEW l PROVE Count(t, k, l) = 0
  <2>1. Count(t, k, l) = Upto(scopes[t], [kind |-> k, lock |-> l], Len(scopes[t]))
    BY <1>1, CountsAre
  <2>2. Upto(scopes[t], [kind |-> k, lock |-> l], 0) = 0
    BY <1>3
  <2> QED
    BY <1>2, <2>1, <2>2
<1>5. \A t \in LockThread : \A l : Depth(t, l) = 0
  BY <1>4 DEF Depth
<1>6. \A t \in LockThread : \A l : DepthUpto(scopes[t], l, 0) = 0
  BY <1>3 DEF DepthUpto
<1>7. ASSUME NEW l \in Lock PROVE LockGood(l)
  <2>1. KindsSorted(l)
    BY <1>4 DEF KindsSorted
  <2>2. HeldByScopes(l)
    BY <1>4, <1>5 DEF HeldByScopes, LocksInit
  <2>3. Nested(l)
    BY <1>2, <1>6 DEF Nested
  <2>4. Exclusive(l)
    BY DEF Exclusive, LocksInit
  <2> QED
    BY <2>1, <2>2, <2>3, <2>4 DEF LockGood
<1>8. AbortHasCause
  BY DEF AbortHasCause, LocksInit
<1> QED
  BY <1>1, <1>7, <1>8 DEF LocksInv

(* The holders of a lock that is not in question do not notice a scope. *)
LEMMA OtherLocks ==
    ASSUME LocksInv, NEW t \in LockThread, NEW k, NEW l, NEW d, ScopeMoved(t, k, l, d),
           lockKind' = lockKind, NEW m \in Lock, m # l, holds'[m] = holds[m], reads'[m] = reads[m]
    PROVE  LockGood(m)'
<1>1. LocksTypes /\ LockGood(m)
  BY DEF LocksInv
<1>2. ASSUME NEW u \in LockThread
      PROVE  (\A j : Count(u, j, m)' = Count(u, j, m)) /\ Depth(u, m)' = Depth(u, m)
  <2>1. \A j : Count(u, j, m) \in Nat
    BY <1>1, CountsAre
  <2>2. \A j : Count(u, j, m)' = Count(u, j, m)
    BY <2>1 DEF ScopeMoved
  <2> QED
    BY <2>2 DEF Depth
<1>3. KindsSorted(m)'
  BY <1>1, <1>2 DEF LockGood, KindsSorted
<1>4. lockKind[m] # "null" => HeldByScopes(m)'
  BY <1>1, <1>2 DEF LockGood, HeldByScopes
<1>5. lockKind[m] # "null" => Exclusive(m)'
  BY <1>1 DEF LockGood, Exclusive, Others
<1>6. lockKind[m] # "null" => Nested(m)'
  <2> SUFFICES ASSUME lockKind[m] # "null", lockKind[m] # "rw", NEW u \in LockThread,
                      NEW n \in 0 .. Len(scopes'[u])
               PROVE  /\ DepthUpto(scopes'[u], m, n) >= 0
                      /\ lockKind[m] # "recursive" => DepthUpto(scopes'[u], m, n) <= 1
    BY DEF Nested
  <2>1. PICK j \in 0 .. Len(scopes[u]) : DepthUpto(scopes'[u], m, n) = DepthUpto(scopes[u], m, j)
    BY DEF ScopeMoved
  <2> QED
    BY <1>1, <2>1 DEF LockGood, Nested
<1> QED
  BY <1>3, <1>4, <1>5, <1>6 DEF LockGood

(* The lock in question: what remains to be shown of it. *)
LEMMA ThisLock ==
    ASSUME LocksInv, NEW t \in LockThread, NEW k \in ScopeKind, NEW l \in Lock, NEW d \in {1, -1},
           ScopeMoved(t, k, l, d), lockKind' = lockKind,
           k \in {"reader", "writer"} <=> lockKind[l] = "rw",
           lockKind[l] # "null" => /\ HeldByScopes(l)' /\ Exclusive(l)'
                                   /\ holds'[l][t] \in Nat
    PROVE  LockGood(l)'
<1>1. LocksTypes /\ LockGood(l)
  BY DEF LocksInv
<1>2. \A u \in LockThread : \A j : Count(u, j, l) \in Nat /\ (j # k => Count(u, j, l)' = Count(u, j, l))
  <2>1. \A u \in LockThread : \A j : Count(u, j, l) \in Nat
    BY <1>1, CountsAre
  <2> QED
    BY <2>1 DEF ScopeMoved
<1>3. KindsSorted(l)'
  BY <1>1, <1>2 DEF LockGood, KindsSorted, ScopeKind
<1>4. lockKind[l] # "null" => Nested(l)'
  <2> SUFFICES ASSUME lockKind[l] # "null", lockKind[l] # "rw", NEW u \in LockThread,
                      NEW n \in 0 .. Len(scopes'[u])
               PROVE  /\ DepthUpto(scopes'[u], l, n) >= 0
                      /\ lockKind[l] # "recursive" => DepthUpto(scopes'[u], l, n) <= 1
    BY DEF Nested
  <2>1. CASE \E j \in 0 .. Len(scopes[u]) : DepthUpto(scopes'[u], l, n) = DepthUpto(scopes[u], l, j)
    BY <1>1, <2>1 DEF LockGood, Nested
  <2>2. CASE DepthUpto(scopes'[u], l, n) = Depth(t, l)'
    <3>1. Count(t, "writer", l)' = 0
      BY <1>3 DEF KindsSorted
    <3>2. \A j : Count(t, j, l)' \in Int
      BY <1>2 DEF ScopeMoved
    <3>3. Depth(t, l)' \in Int
      BY <3>2 DEF Depth
    <3>4. holds'[l][t] = Depth(t, l)'
      BY <3>1, <3>3 DEF HeldByScopes
    <3>5. holds'[l][t] > 0 /\ lockKind[l] # "recursive" => holds'[l][t] <= 1
      BY DEF Exclusive
    <3> QED
      BY <2>2, <3>4, <3>5
  <2> QED
    BY <2>1, <2>2 DEF ScopeMoved
<1> QED
  BY <1>3, <1>4 DEF LockGood

(* The scope that is left was entered: what its lock then must be like. *)
LEMMA TopKnown ==
    ASSUME LocksInv, NEW t \in LockThread, NEW k \in ScopeKind, NEW l \in Lock, OnTop(t, k, l)
    PROVE  /\ Count(t, k, l) > 0 /\ (k \in {"reader", "writer"} <=> lockKind[l] = "rw")
           /\ k = "locker" /\ lockKind[l] # "null" => Depth(t, l) > 0
           /\ k = "unlocker" /\ lockKind[l] \notin {"null", "recursive"} => Depth(t, l) <= 0
<1> DEFINE s == scopes[t]
           n1 == Len(s) - 1
           x == [kind |-> "locker", lock |-> l]
           y == [kind |-> "unlocker", lock |-> l]
           z == [kind |-> k, lock |-> l]
<1>1. LocksTypes /\ LockGood(l) /\ s \in Seq(ScopeOf)
  BY DEF LocksInv, LocksTypes
<1>2. n1 \in Nat /\ Len(s) = n1 + 1 /\ s[n1 + 1] = z
  BY <1>1, EmptySeq, LenProperties DEF OnTop, Top
<1>3. /\ Count(t, k, l) = Upto(s, z, n1 + 1)
      /\ Depth(t, l) = Upto(s, x, n1 + 1) - Upto(s, y, n1 + 1)
  BY <1>1, <1>2, CountsAre DEF DepthUpto
<1>4. lockKind[l] \notin {"rw", "null"} =>
        /\ Upto(s, x, n1) - Upto(s, y, n1) >= 0
        /\ lockKind[l] # "recursive" => Upto(s, x, n1) - Upto(s, y, n1) <= 1
  <2>1. n1 \in 0 .. Len(scopes[t])
    BY <1>2
  <2> QED
    BY <1>1, <2>1 DEF LockGood, Nested, DepthUpto
<1>5. x # y /\ (k = "locker" <=> z = x) /\ (k = "unlocker" <=> z = y)
  OBVIOUS
<1>6. /\ k \in {"locker", "unlocker", "reader", "writer"}
      /\ IF lockKind[l] = "rw" THEN Count(t, "locker", l) = 0 /\ Count(t, "unlocker", l) = 0
                               ELSE Count(t, "reader", l) = 0 /\ Count(t, "writer", l) = 0
  BY <1>1 DEF LockGood, KindsSorted, ScopeKind
<1> HIDE DEF s, n1, x, y, z
<1>7. ASSUME NEW w
      PROVE  Upto(s, w, n1) \in Nat /\ Upto(s, w, n1 + 1) = Upto(s, w, n1) + (IF z = w THEN 1 ELSE 0)
  <2>1. PICK q, n : q = s /\ n = n1
    OBVIOUS
  <2>2. n \in Nat
    BY <1>2, <2>1
  <2>3. Upto(q, w, n) \in Nat /\ Upto(q, w, n + 1) = Upto(q, w, n) + (IF q[n + 1] = w THEN 1 ELSE 0)
    BY <2>2, UptoNext
  <2> QED
    BY <1>2, <2>1, <2>3
<1>8. Count(t, k, l) > 0
  BY <1>3, <1>7
<1>9. k \in {"reader", "writer"} <=> lockKind[l] = "rw"
  BY <1>6, <1>8
<1>10. /\ Upto(s, x, n1) \in Nat /\ Upto(s, x, n1 + 1) = Upto(s, x, n1) + (IF z = x THEN 1 ELSE 0)
       /\ Upto(s, y, n1) \in Nat /\ Upto(s, y, n1 + 1) = Upto(s, y, n1) + (IF z = y THEN 1 ELSE 0)
  BY <1>7, Zenon
<1>11. k = "locker" /\ lockKind[l] # "null" => Depth(t, l) > 0
  <2> SUFFICES ASSUME k = "locker", lockKind[l] # "null" PROVE Depth(t, l) > 0
    OBVIOUS
  <2>1. z = x /\ z # y /\ lockKind[l] # "rw"
    BY <1>5, <1>9
  <2> QED
    BY <1>3, <1>4, <1>10, <2>1
<1>12. k = "unlocker" /\ lockKind[l] \notin {"null", "recursive"} => Depth(t, l) <= 0
  <2> SUFFICES ASSUME k = "unlocker", lockKind[l] \notin {"null", "recursive"} PROVE Depth(t, l) <= 0
    OBVIOUS
  <2>1. z = y /\ z # x /\ lockKind[l] # "rw"
    BY <1>5, <1>9
  <2> QED
    BY <1>3, <1>4, <1>10, <2>1
<1> QED
  BY <1>8, <1>9, <1>11, <1>12

(* What is held is a number of scopes, of the kinds that the lock has. *)
LEMMA HoldsAre ==
    ASSUME LocksInv, NEW l \in Lock, lockKind[l] # "null", NEW u \in LockThread
    PROVE  /\ holds[l][u] \in Nat /\ reads[l][u] \in Nat
           /\ lockKind[l] # "rw" => holds[l][u] = Depth(u, l) /\ reads[l][u] = 0
           /\ lockKind[l] = "rw" => holds[l][u] = Count(u, "writer", l) /\ Depth(u, l) = 0
           /\ reads[l][u] = Count(u, "reader", l)
<1>1. LocksTypes /\ KindsSorted(l) /\ HeldByScopes(l) /\ Nested(l)
  BY DEF LocksInv, LockGood
<1>2. /\ Len(scopes[u]) \in Nat /\ (\A k : Count(u, k, l) \in Nat)
      /\ Depth(u, l) \in Int /\ Depth(u, l) = DepthUpto(scopes[u], l, Len(scopes[u]))
  BY <1>1, CountsAre
<1>3. reads[l][u] = Count(u, "reader", l) /\ holds[l][u] = Depth(u, l) + Count(u, "writer", l)
  BY <1>1 DEF HeldByScopes
<1>4. CASE lockKind[l] = "rw"
  <2>1. Count(u, "locker", l) = 0 /\ Count(u, "unlocker", l) = 0
    BY <1>1, <1>4 DEF KindsSorted
  <2>2. Depth(u, l) = 0
    BY <2>1 DEF Depth
  <2> QED
    BY <1>2, <1>3, <1>4, <2>2
<1>5. CASE lockKind[l] # "rw"
  <2>1. Count(u, "reader", l) = 0 /\ Count(u, "writer", l) = 0
    BY <1>1, <1>5 DEF KindsSorted
  <2>2. Len(scopes[u]) \in 0 .. Len(scopes[u])
    BY <1>2
  <2>3. Depth(u, l) >= 0
    BY <1>1, <1>2, <1>5, <2>2 DEF Nested
  <2> QED
    BY <1>2, <1>3, <1>5, <2>1, <2>3
<1> QED
  BY <1>4, <1>5

(* The lock l held h times, and r times by readers, is held as the scopes   *)
(* say after a step of t.                                                   *)
HeldAs(t, l, h, r) ==
    /\ h[t] \in Nat
    /\ \A u \in LockThread :
          /\ h[u] = Depth(u, l)' + Count(u, "writer", l)'
          /\ r[u] = Count(u, "reader", l)'
          /\ h[u] > 0 => /\ lockKind[l] # "recursive" => h[u] <= 1
                         /\ r[u] = 0
                         /\ \A v \in Others(u) : h[v] = 0 /\ r[v] = 0

LockBecomes(l, h, r) ==
    /\ h \in [LockThread -> Int] /\ holds' = [holds EXCEPT ![l] = h]
    /\ r \in [LockThread -> Int] /\ reads' = [reads EXCEPT ![l] = r]

(* A step of t that enters, or leaves, a scope of a kind that l has. *)
ScopeStepOf(t, k, l, d) ==
    /\ ScopeMoved(t, k, l, d) /\ UNCHANGED lockKind
    /\ aborted = Nobody /\ UNCHANGED aborted
    /\ k \in {"reader", "writer"} <=> lockKind[l] = "rw"

(* A scope that is entered or left keeps the invariant if its lock is held  *)
(* as the scopes then say.                                                  *)
LEMMA ScopeStep ==
    ASSUME LocksInv, NEW t \in LockThread, NEW k \in ScopeKind, NEW l \in Lock, NEW d \in {1, -1},
           ScopeStepOf(t, k, l, d), NEW h, NEW r, LockBecomes(l, h, r),
           lockKind[l] # "null" => HeldAs(t, l, h, r)
    PROVE  LocksInv'
<1> USE DEF ScopeStepOf, LockBecomes
<1>1. LocksTypes
  BY DEF LocksInv
<1>2. holds'[l] = h /\ reads'[l] = r /\ (\A m \in Lock : m # l => holds'[m] = holds[m] /\ reads'[m] = reads[m])
  BY <1>1 DEF LocksTypes
<1>3. LocksTypes'
  BY <1>1 DEF LocksTypes, ScopeMoved
<1>4. \A m \in Lock : m # l => LockGood(m)'
  BY <1>2, OtherLocks
<1>5. lockKind[l] # "null" => HeldByScopes(l)' /\ Exclusive(l)' /\ holds'[l][t] \in Nat
  BY <1>2 DEF HeldAs, HeldByScopes, Exclusive, Others
<1>6. LockGood(l)'
  BY <1>5, ThisLock
<1>7. AbortHasCause'
  BY DEF AbortHasCause, Nobody
<1> QED
  BY <1>3, <1>4, <1>6, <1>7 DEF LocksInv

(* Lock, by a ScopedLocker or at the end of a ScopedUnlocker. *)
LEMMA Acquired ==
    ASSUME LocksInv, NEW t \in LockThread, NEW k \in ScopeKind, NEW l \in Lock, NEW d \in {1, -1},
           ScopeStepOf(t, k, l, d),
           (k = "locker" /\ d = 1) \/ (k = "unlocker" /\ d = -1),
           lockKind[l] \notin {"null", "rw"}, LockReturns(t, l),
           holds' = [holds EXCEPT ![l][t] = @ + 1], UNCHANGED reads
    PROVE  LocksInv'
<1>1. LocksTypes /\ HeldByScopes(l) /\ Exclusive(l) /\ ScopeMoved(t, k, l, d)
  BY DEF LocksInv, LockGood, ScopeStepOf
<1>2. \A u \in LockThread : /\ holds[l][u] \in Nat /\ reads[l][u] = 0 /\ holds[l][u] = Depth(u, l)
                            /\ reads[l][u] = Count(u, "reader", l)
  BY HoldsAre
<1>3. PICK h, r : h = [holds[l] EXCEPT ![t] = @ + 1] /\ r = reads[l]
  OBVIOUS
<1>4. LockBecomes(l, h, r)
  BY <1>1, <1>3 DEF LocksTypes, LockBecomes
<1>5. \A u \in LockThread : h[u] = (IF u = t THEN holds[l][u] + 1 ELSE holds[l][u]) /\ r[u] = reads[l][u]
  BY <1>1, <1>3 DEF LocksTypes
<1>6. /\ \A u \in Others(t) : holds[l][u] = 0
      /\ lockKind[l] = "recursive" \/ holds[l][t] = 0
  BY DEF LockReturns
<1>7. ASSUME NEW u \in LockThread
      PROVE  /\ Depth(u, l)' = Depth(u, l) + (IF u = t THEN 1 ELSE 0)
             /\ Count(u, "writer", l)' = 0 /\ Count(u, "reader", l)' = Count(u, "reader", l)
  <2>1. \A j : Count(u, j, l) \in Nat
    BY <1>1, CountsAre
  <2>2. /\ Count(u, "locker", l)' = Count(u, "locker", l) + (IF u = t /\ "locker" = k /\ l = l THEN d ELSE 0)
        /\ Count(u, "unlocker", l)' = Count(u, "unlocker", l) + (IF u = t /\ "unlocker" = k /\ l = l THEN d ELSE 0)
        /\ Count(u, "reader", l)' = Count(u, "reader", l) + (IF u = t /\ "reader" = k /\ l = l THEN d ELSE 0)
        /\ Count(u, "writer", l)' = Count(u, "writer", l) + (IF u = t /\ "writer" = k /\ l = l THEN d ELSE 0)
    BY <1>1 DEF ScopeMoved
  <2>3. Count(u, "writer", l) = 0
    BY DEF LocksInv, LockGood, KindsSorted
  <2> QED
    BY <2>1, <2>2, <2>3 DEF Depth
<1>8. h[t] \in Nat
  BY <1>2, <1>5
<1>9. ASSUME NEW u \in LockThread
      PROVE  /\ h[u] = Depth(u, l)' + Count(u, "writer", l)'
             /\ r[u] = Count(u, "reader", l)'
  BY <1>2, <1>5, <1>7
<1>10. ASSUME NEW u \in LockThread, h[u] > 0
       PROVE  /\ lockKind[l] # "recursive" => h[u] <= 1
              /\ r[u] = 0
              /\ \A v \in Others(u) : h[v] = 0 /\ r[v] = 0
  <2>1. u = t
    BY <1>5, <1>6, <1>10 DEF Others
  <2> QED
    BY <1>2, <1>5, <1>6, <2>1 DEF Others
<1>11. HeldAs(t, l, h, r)
  BY <1>8, <1>9, <1>10 DEF HeldAs
<1> QED
  BY <1>4, <1>11, ScopeStep

(* Unlock, by a ScopedUnlocker or at the end of a ScopedLocker. *)
LEMMA Released ==
    ASSUME LocksInv, NEW t \in LockThread, NEW k \in ScopeKind, NEW l \in Lock, NEW d \in {1, -1},
           ScopeStepOf(t, k, l, d),
           (k = "unlocker" /\ d = 1) \/ (k = "locker" /\ d = -1),
           lockKind[l] \notin {"null", "rw"}, ~UnlockRefused(t, l), Depth(t, l) > 0 \/ ChecksOwner(l),
           holds' = Unlocked(t, l), UNCHANGED reads
    PROVE  LocksInv'
<1>1. LocksTypes /\ HeldByScopes(l) /\ Exclusive(l) /\ ScopeMoved(t, k, l, d)
  BY DEF LocksInv, LockGood, ScopeStepOf
<1>2. \A u \in LockThread : /\ holds[l][u] \in Nat /\ reads[l][u] = 0 /\ holds[l][u] = Depth(u, l)
                            /\ reads[l][u] = Count(u, "reader", l)
  BY HoldsAre
<1>3. holds[l][t] > 0
  BY <1>2 DEF UnlockRefused
<1>4. /\ lockKind[l] # "recursive" => holds[l][t] = 1
      /\ \A u \in LockThread : u # t => holds[l][u] = 0
  BY <1>1, <1>2, <1>3 DEF Exclusive, Others
<1>5. PICK h, r : /\ h = IF ChecksOwner(l) THEN [holds[l] EXCEPT ![t] = @ - 1] ELSE [u \in LockThread |-> 0]
                  /\ r = reads[l]
  OBVIOUS
<1>6. LockBecomes(l, h, r)
  <2>1. CASE ChecksOwner(l)
    BY <1>1, <1>5, <2>1 DEF LocksTypes, Unlocked, LockBecomes
  <2>2. CASE ~ChecksOwner(l)
    BY <1>1, <1>5, <2>2 DEF LocksTypes, Unlocked, LockBecomes
  <2> QED
    BY <2>1, <2>2
<1>7. \A u \in LockThread : h[u] = (IF u = t THEN holds[l][u] - 1 ELSE holds[l][u]) /\ r[u] = reads[l][u]
  <2>1. CASE ChecksOwner(l)
    BY <1>1, <1>5, <2>1 DEF LocksTypes
  <2>2. CASE ~ChecksOwner(l)
    <3>1. holds[l][t] = 1
      BY <1>4, <2>2 DEF ChecksOwner
    <3> QED
      BY <1>4, <1>5, <2>2, <3>1
  <2> QED
    BY <2>1, <2>2
<1>8. ASSUME NEW u \in LockThread
      PROVE  /\ Depth(u, l)' = Depth(u, l) - (IF u = t THEN 1 ELSE 0)
             /\ Count(u, "writer", l)' = 0 /\ Count(u, "reader", l)' = Count(u, "reader", l)
  <2>1. \A j : Count(u, j, l) \in Nat
    BY <1>1, CountsAre
  <2>2. /\ Count(u, "locker", l)' = Count(u, "locker", l) + (IF u = t /\ "locker" = k /\ l = l THEN d ELSE 0)
        /\ Count(u, "unlocker", l)' = Count(u, "unlocker", l) + (IF u = t /\ "unlocker" = k /\ l = l THEN d ELSE 0)
        /\ Count(u, "reader", l)' = Count(u, "reader", l) + (IF u = t /\ "reader" = k /\ l = l THEN d ELSE 0)
        /\ Count(u, "writer", l)' = Count(u, "writer", l) + (IF u = t /\ "writer" = k /\ l = l THEN d ELSE 0)
    BY <1>1 DEF ScopeMoved
  <2>3. Count(u, "writer", l) = 0
    BY DEF LocksInv, LockGood, KindsSorted
  <2> QED
    BY <2>1, <2>2, <2>3 DEF Depth
<1>9. h[t] \in Nat
  BY <1>2, <1>3, <1>7
<1>10. ASSUME NEW u \in LockThread
       PROVE  /\ h[u] = Depth(u, l)' + Count(u, "writer", l)'
              /\ r[u] = Count(u, "reader", l)'
  BY <1>2, <1>7, <1>8
<1>11. ASSUME NEW u \in LockThread, h[u] > 0
       PROVE  /\ lockKind[l] # "recursive" => h[u] <= 1
              /\ r[u] = 0
              /\ \A v \in Others(u) : h[v] = 0 /\ r[v] = 0
  <2>1. u = t
    BY <1>4, <1>7, <1>11
  <2>2. \A v \in LockThread : v # t => h[v] = 0
    BY <1>4, <1>7
  <2>3. lockKind[l] # "recursive" => h[t] <= 1
    BY <1>4, <1>7
  <2> QED
    BY <1>2, <1>7, <2>1, <2>2, <2>3 DEF Others
<1>12. HeldAs(t, l, h, r)
  BY <1>9, <1>10, <1>11 DEF HeldAs
<1> QED
  BY <1>6, <1>12, ScopeStep

(* The counts of reader and writer scopes after a step on an RWLock. *)
LEMMA RwCounts ==
    ASSUME LocksInv, NEW t \in LockThread, NEW k \in {"reader", "writer"}, NEW l \in Lock,
           NEW d \in {1, -1}, ScopeStepOf(t, k, l, d), NEW u \in LockThread
    PROVE  /\ Depth(u, l)' = 0
           /\ Count(u, "writer", l)' = holds[l][u] + (IF u = t /\ k = "writer" THEN d ELSE 0)
           /\ Count(u, "reader", l)' = reads[l][u] + (IF u = t /\ k = "reader" THEN d ELSE 0)
           /\ holds[l][u] \in Nat /\ reads[l][u] \in Nat /\ lockKind[l] = "rw"
<1>1. lockKind[l] = "rw" /\ LocksTypes /\ KindsSorted(l) /\ ScopeMoved(t, k, l, d)
  BY DEF LocksInv, LockGood, ScopeStepOf
<1>2. holds[l][u] \in Nat /\ reads[l][u] \in Nat /\ holds[l][u] = Count(u, "writer", l)
        /\ reads[l][u] = Count(u, "reader", l)
  BY <1>1, HoldsAre
<1>3. Count(u, "locker", l) = 0 /\ Count(u, "unlocker", l) = 0
  BY <1>1 DEF KindsSorted
<1>4. /\ Count(u, "locker", l)' = Count(u, "locker", l) + (IF u = t /\ "locker" = k /\ l = l THEN d ELSE 0)
      /\ Count(u, "unlocker", l)' = Count(u, "unlocker", l) + (IF u = t /\ "unlocker" = k /\ l = l THEN d ELSE 0)
      /\ Count(u, "reader", l)' = Count(u, "reader", l) + (IF u = t /\ "reader" = k /\ l = l THEN d ELSE 0)
      /\ Count(u, "writer", l)' = Count(u, "writer", l) + (IF u = t /\ "writer" = k /\ l = l THEN d ELSE 0)
  BY <1>1 DEF ScopeMoved
<1>5. Count(u, "locker", l)' = 0 /\ Count(u, "unlocker", l)' = 0
  BY <1>3, <1>4
<1>6. Depth(u, l)' = 0
  BY <1>5 DEF Depth
<1> QED
  BY <1>1, <1>2, <1>4, <1>6

(* The write lock is taken. *)
LEMMA WriterIn ==
    ASSUME LocksInv, NEW t \in LockThread, NEW l \in Lock, ScopeStepOf(t, "writer", l, 1),
           WriteReturns(t, l), holds' = [holds EXCEPT ![l][t] = @ + 1], UNCHANGED reads
    PROVE  LocksInv'
<1>1. LocksTypes
  BY DEF LocksInv
<1>2. PICK h, r : h = [holds[l] EXCEPT ![t] = @ + 1] /\ r = reads[l]
  OBVIOUS
<1>3. LockBecomes(l, h, r)
  BY <1>1, <1>2 DEF LocksTypes, LockBecomes
<1>4. \A u \in LockThread : h[u] = (IF u = t THEN 1 ELSE 0) /\ r[u] = 0 /\ holds[l][u] = 0 /\ reads[l][u] = 0
  BY <1>1, <1>2 DEF LocksTypes, WriteReturns
<1>5. ASSUME NEW u \in LockThread
      PROVE  /\ Depth(u, l)' = 0
             /\ Count(u, "writer", l)' = holds[l][u] + (IF u = t /\ "writer" = "writer" THEN 1 ELSE 0)
             /\ Count(u, "reader", l)' = reads[l][u] + (IF u = t /\ "writer" = "reader" THEN 1 ELSE 0)
  BY RwCounts
<1>6. HeldAs(t, l, h, r)
  BY <1>4, <1>5 DEF HeldAs, Others
<1> QED
  BY <1>3, <1>6, ScopeStep DEF ScopeKind

(* A read lock is taken. *)
LEMMA ReaderIn ==
    ASSUME LocksInv, NEW t \in LockThread, NEW l \in Lock, ScopeStepOf(t, "reader", l, 1),
           ReadReturns(t, l), reads' = [reads EXCEPT ![l][t] = @ + 1], UNCHANGED holds
    PROVE  LocksInv'
<1>1. LocksTypes
  BY DEF LocksInv
<1>2. PICK h, r : r = [reads[l] EXCEPT ![t] = @ + 1] /\ h = holds[l]
  OBVIOUS
<1>3. LockBecomes(l, h, r)
  BY <1>1, <1>2 DEF LocksTypes, LockBecomes
<1>4. \A u \in LockThread : h[u] = 0 /\ r[u] = (IF u = t THEN reads[l][u] + 1 ELSE reads[l][u]) /\ holds[l][u] = 0
  BY <1>1, <1>2 DEF LocksTypes, ReadReturns
<1>5. ASSUME NEW u \in LockThread
      PROVE  /\ Depth(u, l)' = 0 /\ reads[l][u] \in Nat
             /\ Count(u, "writer", l)' = holds[l][u] + (IF u = t /\ "reader" = "writer" THEN 1 ELSE 0)
             /\ Count(u, "reader", l)' = reads[l][u] + (IF u = t /\ "reader" = "reader" THEN 1 ELSE 0)
  BY RwCounts
<1>6. HeldAs(t, l, h, r)
  BY <1>4, <1>5 DEF HeldAs, Others
<1> QED
  BY <1>3, <1>6, ScopeStep DEF ScopeKind

(* The one unlock of an RWLock gives up what the scope that is left took.   *)
LEMMA RwOut ==
    ASSUME LocksInv, NEW t \in LockThread, NEW k \in {"reader", "writer"}, NEW l \in Lock,
           ScopeStepOf(t, k, l, -1), Count(t, k, l) > 0,
           IF \E u \in LockThread : holds[l][u] > 0
           THEN holds' = [holds EXCEPT ![l] = [u \in LockThread |-> 0]] /\ UNCHANGED reads
           ELSE reads' = [reads EXCEPT ![l][t] = @ - 1] /\ UNCHANGED holds
    PROVE  LocksInv'
<1>1. LocksTypes /\ LockGood(l)
  BY DEF LocksInv
<1>2. ASSUME NEW u \in LockThread
      PROVE  /\ Depth(u, l)' = 0
             /\ Count(u, "writer", l)' = holds[l][u] + (IF u = t /\ k = "writer" THEN -1 ELSE 0)
             /\ Count(u, "reader", l)' = reads[l][u] + (IF u = t /\ k = "reader" THEN -1 ELSE 0)
             /\ holds[l][u] \in Nat /\ reads[l][u] \in Nat /\ lockKind[l] = "rw"
  BY RwCounts
<1>3. lockKind[l] = "rw" /\ Exclusive(l)
  BY <1>1, <1>2 DEF LockGood
<1>4. holds[l][t] = Count(t, "writer", l) /\ reads[l][t] = Count(t, "reader", l)
  BY <1>3, HoldsAre
<1>5. CASE k = "writer"
  <2>1. holds[l][t] = 1 /\ (\A u \in LockThread : reads[l][u] = 0 /\ (u # t => holds[l][u] = 0))
    BY <1>2, <1>3, <1>4, <1>5 DEF Exclusive, Others
  <2>2. PICK h, r : h = [u \in LockThread |-> 0] /\ r = reads[l]
    OBVIOUS
  <2>3. \E u \in LockThread : holds[l][u] > 0
    BY <2>1
  <2>4. LockBecomes(l, h, r)
    <3>1. h \in [LockThread -> Int] /\ r \in [LockThread -> Int]
      BY <1>1, <2>2 DEF LocksTypes
    <3>2. holds' = [holds EXCEPT ![l] = h] /\ reads' = [reads EXCEPT ![l] = r]
      BY <1>1, <2>2, <2>3 DEF LocksTypes
    <3> QED
      BY <3>1, <3>2 DEF LockBecomes
  <2>5. HeldAs(t, l, h, r)
    BY <1>2, <1>5, <2>1, <2>2 DEF HeldAs, Others
  <2> QED
    BY <2>4, <2>5, ScopeStep DEF ScopeKind
<1>6. CASE k = "reader"
  <2>1. \A u \in LockThread : holds[l][u] = 0
    BY <1>2, <1>3, <1>4, <1>6 DEF Exclusive, Others
  <2>2. PICK h, r : h = holds[l] /\ r = [reads[l] EXCEPT ![t] = @ - 1]
    OBVIOUS
  <2>3. ~\E u \in LockThread : holds[l][u] > 0
    BY <2>1
  <2>4. LockBecomes(l, h, r)
    BY <1>1, <2>2, <2>3 DEF LocksTypes, LockBecomes
  <2>5. \A u \in LockThread : h[u] = 0 /\ r[u] = (IF u = t THEN reads[l][u] - 1 ELSE reads[l][u])
    BY <1>1, <2>1, <2>2 DEF LocksTypes
  <2>6. HeldAs(t, l, h, r)
    BY <1>2, <1>6, <2>1, <2>5 DEF HeldAs, Others
  <2> QED
    BY <2>4, <2>6, ScopeStep DEF ScopeKind
<1> QED
  BY <1>5, <1>6

(* A NullLock: nothing is held. *)
LEMMA NullStep ==
    ASSUME LocksInv, NEW t \in LockThread, NEW k \in {"locker", "unlocker"}, NEW l \in Lock,
           NEW d \in {1, -1}, ScopeStepOf(t, k, l, d), lockKind[l] = "null", UNCHANGED <<holds, reads>>
    PROVE  LocksInv'
<1>1. PICK h, r : h = holds[l] /\ r = reads[l]
  OBVIOUS
<1>2. LockBecomes(l, h, r)
  BY <1>1 DEF LocksInv, LocksTypes, LockBecomes
<1> QED
  BY <1>2, ScopeStep DEF ScopeKind

(* A step that leaves the locks and the scopes alone. *)
LEMMA AbortStep ==
    ASSUME LocksInv, UNCHANGED <<lockKind, holds, reads, scopes>>, AbortHasCause'
    PROVE  LocksInv'
<1>1. LocksTypes'
  BY DEF LocksInv, LocksTypes
<1>2. ASSUME NEW u, NEW k, NEW l PROVE Count(u, k, l)' = Count(u, k, l)
  BY DEF Count
<1>3. ASSUME NEW u, NEW l PROVE Depth(u, l)' = Depth(u, l)
  BY <1>2 DEF Depth
<1>4. ASSUME NEW l \in Lock PROVE LockGood(l)'
  <2>1. KindsSorted(l)'
    BY <1>2 DEF LocksInv, LockGood, KindsSorted
  <2>2. lockKind[l] # "null" => Nested(l)' /\ Exclusive(l)'
    BY DEF LocksInv, LockGood, Nested, Exclusive, DepthUpto, Upto
  <2>3. lockKind[l] # "null" => HeldByScopes(l)'
    BY <1>2, <1>3 DEF LocksInv, LockGood, HeldByScopes
  <2> QED
    BY <2>1, <2>2, <2>3 DEF LockGood
<1> QED
  BY <1>1, <1>4 DEF LocksInv

(* The program ends, for a cause. *)
LEMMA AbortFor ==
    ASSUME LocksInv, UNCHANGED lockKind, NEW t \in LockThread, NEW l \in Lock, NEW call,
           Aborts(t, call, l),
           \/ call = "locker" /\ lockKind[l] = "restrict" /\ Depth(t, l) > 0
           \/ call = "unlocker" /\ ChecksOwner(l) /\ Depth(t, l) = 0
           \/ call \in {"reader", "writer"} /\ Count(t, "writer", l) > 0
           \/ call = "destroy" /\ \E u \in LockThread : Depth(u, l) > 0
    PROVE  LocksInv'
<1>1. aborted'.thread = t /\ aborted'.call = call /\ aborted'.lock = l /\ scopes' = scopes
  BY DEF Aborts
<1>2. AbortHasCause'
  BY <1>1 DEF AbortHasCause, Depth, Count, ChecksOwner
<1> QED
  BY <1>2, AbortStep DEF Aborts

(* A scope that is entered, and one that is left. *)
LEMMA Entered ==
    ASSUME LocksInv, NEW t \in LockThread, NEW k \in ScopeKind, NEW l \in Lock,
           UNCHANGED <<lockKind, aborted>>, aborted = Nobody, Pushed(t, k, l),
           k \in {"reader", "writer"} <=> lockKind[l] = "rw"
    PROVE  ScopeStepOf(t, k, l, 1)
<1>1. ScopeMoved(t, k, l, 1)
  BY ScopePushed DEF LocksInv
<1> QED
  BY <1>1 DEF ScopeStepOf

(* A scope that is left: its kind is one of the kinds its lock has. *)
LEMMA Left ==
    ASSUME LocksInv, NEW t \in LockThread, NEW k \in ScopeKind, NEW l \in Lock, OnTop(t, k, l),
           UNCHANGED <<lockKind, aborted>>, aborted = Nobody, Popped(t)
    PROVE  ScopeStepOf(t, k, l, -1)
<1>1. ScopeMoved(t, k, l, -1)
  BY ScopePopped DEF LocksInv
<1>2. k \in {"reader", "writer"} <=> lockKind[l] = "rw"
  BY TopKnown
<1> QED
  BY <1>1, <1>2 DEF ScopeStepOf

(* The constructors and the try calls. *)
LEMMA ScopedLockerInv ==
    ASSUME LocksInv, UNCHANGED lockKind, NEW t \in LockThread, NEW l \in Lock, ScopedLocker(t, l)
    PROVE  LocksInv'
<1>1. PICK k : k = "locker"
  OBVIOUS
<1>2. k \in ScopeKind /\ k \in {"locker", "unlocker"} /\ k \notin {"reader", "writer"}
  BY <1>1 DEF ScopeKind
<1>3. aborted = Nobody /\ lockKind[l] # "rw"
  BY DEF ScopedLocker, Room
<1>4. CASE /\ lockKind[l] = "null" /\ Pushed(t, k, l) /\ UNCHANGED <<holds, reads, aborted>>
  <2>1. ScopeStepOf(t, k, l, 1)
    BY <1>2, <1>3, <1>4, Entered
  <2> QED
    BY <1>2, <1>4, <2>1, NullStep
<1>5. CASE /\ lockKind[l] \notin {"null", "rw"} /\ LockReturns(t, l) /\ Pushed(t, k, l)
           /\ holds' = [holds EXCEPT ![l][t] = @ + 1] /\ UNCHANGED <<reads, aborted>>
  <2>1. ScopeStepOf(t, k, l, 1)
    BY <1>2, <1>3, <1>5, Entered
  <2> QED
    BY <1>1, <1>2, <1>5, <2>1, Acquired
<1>6. CASE LockRefused(t, l) /\ Aborts(t, k, l)
  <2>1. lockKind[l] = "restrict" /\ holds[l][t] > 0
    BY <1>6 DEF LockRefused
  <2>2. holds[l][t] = Depth(t, l)
    BY <2>1, HoldsAre
  <2> QED
    BY <1>1, <1>6, <2>1, <2>2, AbortFor
<1> QED
  BY <1>1, <1>4, <1>5, <1>6 DEF ScopedLocker, DoLock

(* The constructor of ScopedUnlocker. *)
LEMMA ScopedUnlockerInv ==
    ASSUME LocksInv, UNCHANGED lockKind, NEW t \in LockThread, NEW l \in Lock, ScopedUnlocker(t, l)
    PROVE  LocksInv'
<1>1. PICK k : k = "unlocker"
  OBVIOUS
<1>2. k \in ScopeKind /\ k \in {"locker", "unlocker"} /\ k \notin {"reader", "writer"}
  BY <1>1 DEF ScopeKind
<1>3. aborted = Nobody /\ lockKind[l] # "rw" /\ (Depth(t, l) > 0 \/ ChecksOwner(l))
  BY DEF ScopedUnlocker, Room
<1>4. CASE /\ lockKind[l] = "null" /\ Pushed(t, k, l) /\ UNCHANGED <<holds, reads, aborted>>
  <2>1. ScopeStepOf(t, k, l, 1)
    BY <1>2, <1>3, <1>4, Entered
  <2> QED
    BY <1>2, <1>4, <2>1, NullStep
<1>5. CASE /\ lockKind[l] \notin {"null", "rw"} /\ ~UnlockRefused(t, l) /\ Pushed(t, k, l)
           /\ holds' = Unlocked(t, l) /\ UNCHANGED <<reads, aborted>>
  <2>1. ScopeStepOf(t, k, l, 1)
    BY <1>2, <1>3, <1>5, Entered
  <2> QED
    BY <1>1, <1>2, <1>3, <1>5, <2>1, Released
<1>6. CASE lockKind[l] # "null" /\ UnlockRefused(t, l) /\ Aborts(t, k, l)
  <2>1. ChecksOwner(l) /\ holds[l][t] = 0
    BY <1>6 DEF UnlockRefused
  <2>2. holds[l][t] = Depth(t, l)
    BY <1>3, <1>6, HoldsAre
  <2> QED
    BY <1>1, <1>6, <2>1, <2>2, AbortFor
<1> QED
  BY <1>1, <1>4, <1>5, <1>6 DEF ScopedUnlocker, DoUnlock

(* An RWLock is entered, is refused because the thread has the write lock,  *)
(* or is busy.                                                              *)
LEMMA RwEnterInv ==
    ASSUME LocksInv, UNCHANGED lockKind, NEW t \in LockThread, NEW l \in Lock,
           \/ ScopedReaderLocker(t, l) \/ ScopedWriterLocker(t, l)
           \/ TryReadLock(t, l) \/ TryWriteLock(t, l)
    PROVE  LocksInv'
<1>1. PICK rd, wr : rd = "reader" /\ wr = "writer"
  OBVIOUS
<1>2. rd \in ScopeKind /\ wr \in ScopeKind /\ rd \in {"reader", "writer"} /\ wr \in {"reader", "writer"}
  BY <1>1 DEF ScopeKind
<1>3. aborted = Nobody /\ lockKind[l] = "rw"
  BY DEF ScopedReaderLocker, ScopedWriterLocker, TryReadLock, TryWriteLock, Room
<1>4. CASE /\ ReadReturns(t, l) /\ Pushed(t, rd, l)
           /\ reads' = [reads EXCEPT ![l][t] = @ + 1] /\ UNCHANGED <<holds, aborted>>
  <2>1. ScopeStepOf(t, rd, l, 1)
    BY <1>2, <1>3, <1>4, Entered
  <2> QED
    BY <1>1, <1>4, <2>1, ReaderIn
<1>5. CASE /\ WriteReturns(t, l) /\ Pushed(t, wr, l)
           /\ holds' = [holds EXCEPT ![l][t] = @ + 1] /\ UNCHANGED <<reads, aborted>>
  <2>1. ScopeStepOf(t, wr, l, 1)
    BY <1>2, <1>3, <1>5, Entered
  <2> QED
    BY <1>1, <1>5, <2>1, WriterIn
<1>6. CASE RwRefused(t, l) /\ (Aborts(t, rd, l) \/ Aborts(t, wr, l))
  <2>1. holds[l][t] = Count(t, "writer", l) /\ holds[l][t] > 0
    BY <1>3, <1>6, HoldsAre DEF RwRefused
  <2>2. Count(t, "writer", l) > 0
    BY <2>1
  <2> QED
    BY <1>2, <1>6, <2>2, AbortFor
<1>7. CASE UNCHANGED <<holds, reads, scopes, aborted>>
  <2>1. AbortHasCause'
    BY <1>3, <1>7 DEF AbortHasCause, Nobody
  <2> QED
    BY <1>7, <2>1, AbortStep
<1>8. CASE ScopedReaderLocker(t, l)
  BY <1>1, <1>4, <1>6, <1>8 DEF ScopedReaderLocker
<1>9. CASE ScopedWriterLocker(t, l)
  BY <1>1, <1>5, <1>6, <1>9 DEF ScopedWriterLocker
<1>10. CASE TryReadLock(t, l)
  BY <1>1, <1>4, <1>7, <1>10 DEF TryReadLock
<1>11. CASE TryWriteLock(t, l)
  BY <1>1, <1>5, <1>7, <1>11 DEF TryWriteLock
<1> QED
  BY <1>8, <1>9, <1>10, <1>11

(* The destructors: the one of a ScopedLocker is never refused its unlock,  *)
(* and the one of a ScopedUnlocker never its lock.                          *)
LEMMA LockerEndsInv ==
    ASSUME LocksInv, UNCHANGED lockKind, NEW t \in LockThread, NEW l \in Lock, aborted = Nobody,
           OnTop(t, "locker", l), LockerEnds(t, l)
    PROVE  LocksInv'
<1>1. PICK k : k = "locker"
  OBVIOUS
<1>2. k \in ScopeKind /\ k \in {"locker", "unlocker"} /\ k \notin {"reader", "writer"} /\ OnTop(t, k, l)
  BY <1>1 DEF ScopeKind
<1>3. lockKind[l] # "rw" /\ (lockKind[l] # "null" => Depth(t, l) > 0)
  BY <1>1, <1>2, TopKnown
<1>4. CASE /\ lockKind[l] = "null" /\ Popped(t) /\ UNCHANGED <<holds, reads, aborted>>
  <2>1. ScopeStepOf(t, k, l, -1)
    BY <1>2, <1>4, Left
  <2> QED
    BY <1>2, <1>4, <2>1, NullStep
<1>5. CASE /\ lockKind[l] \notin {"null", "rw"} /\ ~UnlockRefused(t, l) /\ Popped(t)
           /\ holds' = Unlocked(t, l) /\ UNCHANGED <<reads, aborted>>
  <2>1. ScopeStepOf(t, k, l, -1)
    BY <1>2, <1>5, Left
  <2>2. Depth(t, l) > 0
    BY <1>3, <1>5
  <2> QED
    BY <1>1, <1>2, <1>5, <2>1, <2>2, Released
<1>6. CASE lockKind[l] # "null" /\ UnlockRefused(t, l)
  <2>1. holds[l][t] = 0 /\ holds[l][t] = Depth(t, l)
    BY <1>3, <1>6, HoldsAre DEF UnlockRefused
  <2> QED
    BY <1>3, <1>6, <2>1
<1> QED
  BY <1>1, <1>4, <1>5, <1>6 DEF LockerEnds, DoUnlock

(* The destructor of ScopedUnlocker. *)
LEMMA UnlockerEndsInv ==
    ASSUME LocksInv, UNCHANGED lockKind, NEW t \in LockThread, NEW l \in Lock, aborted = Nobody,
           OnTop(t, "unlocker", l), UnlockerEnds(t, l)
    PROVE  LocksInv'
<1>1. PICK k : k = "unlocker"
  OBVIOUS
<1>2. k \in ScopeKind /\ k \in {"locker", "unlocker"} /\ k \notin {"reader", "writer"} /\ OnTop(t, k, l)
  BY <1>1 DEF ScopeKind
<1>3. lockKind[l] # "rw" /\ (lockKind[l] \notin {"null", "recursive"} => Depth(t, l) <= 0)
  BY <1>1, <1>2, TopKnown
<1>4. CASE /\ lockKind[l] = "null" /\ Popped(t) /\ UNCHANGED <<holds, reads, aborted>>
  <2>1. ScopeStepOf(t, k, l, -1)
    BY <1>2, <1>4, Left
  <2> QED
    BY <1>2, <1>4, <2>1, NullStep
<1>5. CASE /\ lockKind[l] \notin {"null", "rw"} /\ LockReturns(t, l) /\ Popped(t)
           /\ holds' = [holds EXCEPT ![l][t] = @ + 1] /\ UNCHANGED <<reads, aborted>>
  <2>1. ScopeStepOf(t, k, l, -1)
    BY <1>2, <1>5, Left
  <2> QED
    BY <1>1, <1>2, <1>5, <2>1, Acquired
<1>6. CASE LockRefused(t, l)
  <2>1. lockKind[l] = "restrict" /\ holds[l][t] > 0
    BY <1>6 DEF LockRefused
  <2>2. holds[l][t] = Depth(t, l) /\ holds[l][t] \in Nat
    BY <2>1, HoldsAre
  <2> QED
    BY <1>3, <2>1, <2>2
<1> QED
  BY <1>1, <1>4, <1>5, <1>6 DEF UnlockerEnds, DoLock

(* The destructors of ScopedReaderLocker and ScopedWriterLocker. *)
LEMMA RwUnlockInv ==
    ASSUME LocksInv, UNCHANGED lockKind, NEW t \in LockThread, NEW l \in Lock, aborted = Nobody,
           NEW k \in {"reader", "writer"}, OnTop(t, k, l), RwUnlock(t, l)
    PROVE  LocksInv'
<1>1. k \in ScopeKind
  BY DEF ScopeKind
<1>2. ScopeStepOf(t, k, l, -1)
  BY <1>1, Left DEF RwUnlock
<1>3. Count(t, k, l) > 0
  BY <1>1, TopKnown
<1> QED
  BY <1>2, <1>3, RwOut DEF RwUnlock

(* A thread leaves its innermost scope, whichever it is. *)
LEMMA LeaveInv ==
    ASSUME LocksInv, UNCHANGED lockKind, NEW t \in LockThread, Leave(t)
    PROVE  LocksInv'
<1>1. PICK k, l : k = Top(t).kind /\ l = Top(t).lock
  OBVIOUS
<1>2. Top(t) \in ScopeOf /\ scopes[t] # <<>> /\ aborted = Nobody
  <2>1. scopes[t] \in Seq(ScopeOf) /\ scopes[t] # <<>> /\ aborted = Nobody
    BY DEF LocksInv, LocksTypes, Leave
  <2>2. Len(scopes[t]) \in 1 .. Len(scopes[t])
    BY <2>1, EmptySeq, LenProperties
  <2> QED
    BY <2>1, <2>2, ElementOfSeq DEF Top
<1>3. l \in Lock /\ OnTop(t, k, l)
  BY <1>1, <1>2 DEF OnTop, ScopeOf
<1>4. CASE k = "locker" /\ LockerEnds(t, l)
  BY <1>2, <1>3, <1>4, LockerEndsInv
<1>5. CASE k = "unlocker" /\ UnlockerEnds(t, l)
  BY <1>2, <1>3, <1>5, UnlockerEndsInv
<1>6. CASE k \in {"reader", "writer"} /\ RwUnlock(t, l)
  BY <1>2, <1>3, <1>6, RwUnlockInv
<1> QED
  BY <1>1, <1>4, <1>5, <1>6 DEF Leave

(* A mutex is destroyed that somebody holds. *)
LEMMA MutexDestroyedInv ==
    ASSUME LocksInv, UNCHANGED lockKind, NEW t \in LockThread, NEW l \in Lock, MutexDestroyed(t, l)
    PROVE  LocksInv'
<1>1. PICK u \in LockThread : holds[l][u] > 0
  BY DEF MutexDestroyed
<1>2. holds[l][u] = Depth(u, l)
  BY HoldsAre DEF MutexDestroyed, Mutex
<1>3. Aborts(t, "destroy", l) /\ Depth(u, l) > 0
  BY <1>1, <1>2 DEF MutexDestroyed
<1> QED
  BY <1>3, AbortFor

(* Every step keeps the invariant. *)
LEMMA LocksStepInv == LocksInv /\ [LocksNext]_lockVars => LocksInv'
<1> SUFFICES ASSUME LocksInv, [LocksNext]_lockVars PROVE LocksInv'
  OBVIOUS
<1>1. CASE LocksNext
  <2>1. PICK t \in LockThread :
            \/ Leave(t)
            \/ \E l \in Lock : \/ ScopedLocker(t, l) \/ ScopedUnlocker(t, l)
                               \/ ScopedReaderLocker(t, l) \/ ScopedWriterLocker(t, l)
                               \/ TryReadLock(t, l) \/ TryWriteLock(t, l)
                               \/ MutexDestroyed(t, l)
    BY <1>1 DEF LocksNext
  <2>2. UNCHANGED lockKind
    BY <1>1 DEF LocksNext
  <2> QED
    BY <2>1, <2>2, LeaveInv, ScopedLockerInv, ScopedUnlockerInv, RwEnterInv,
       MutexDestroyedInv
<1>2. CASE UNCHANGED lockVars
  <2>1. AbortHasCause'
    BY <1>2 DEF LocksInv, AbortHasCause, lockVars, Depth, Count, ChecksOwner
  <2> QED
    BY <1>2, <2>1, AbortStep DEF lockVars
<1> QED
  BY <1>1, <1>2

(* The open scopes say what is held, and say it of one thread at a time. *)
LEMMA LocksInvExcludes == LocksInv => ScopesHoldLocks
<1> SUFFICES ASSUME LocksInv PROVE ScopesHoldLocks
  OBVIOUS
<1>1. AbortHasCause
  BY DEF LocksInv
<1>2. ASSUME NEW l \in Lock, lockKind[l] # "null", NEW t \in LockThread
      PROVE  /\ holds[l][t] = Depth(t, l) + Count(t, "writer", l)
             /\ reads[l][t] = Count(t, "reader", l)
  BY <1>2 DEF LocksInv, LockGood, HeldByScopes
<1>3. ASSUME NEW l \in Lock, lockKind[l] # "null", NEW t \in LockThread, holds[l][t] > 0,
             NEW u \in Others(t)
      PROVE  Depth(u, l) <= 0 /\ Count(u, "writer", l) = 0 /\ Count(u, "reader", l) = 0
  <2>1. u \in LockThread
    BY DEF Others
  <2>2. holds[l][u] = 0 /\ reads[l][u] = 0 /\ KindsSorted(l)
    BY <1>3 DEF LocksInv, LockGood, Exclusive
  <2>3. /\ lockKind[l] # "rw" => holds[l][u] = Depth(u, l)
        /\ lockKind[l] = "rw" => holds[l][u] = Count(u, "writer", l) /\ Depth(u, l) = 0
        /\ reads[l][u] = Count(u, "reader", l)
    BY <1>3, <2>1, HoldsAre
  <2>4. lockKind[l] # "rw" => Count(u, "writer", l) = 0
    BY <2>1, <2>2 DEF KindsSorted
  <2> QED
    BY <2>2, <2>3, <2>4
<1>4. ScopesExclude
  BY <1>2, <1>3 DEF ScopesExclude
<1> QED
  BY <1>1, <1>4 DEF ScopesHoldLocks

(* However lockers and unlockers are nested, blocked or left by an          *)
(* exception, the thread whose scopes say that it holds a lock (lock.h)     *)
(* holds it, nobody else's scopes say so, and CheckPthreadError ends the    *)
(* program only for a lock or unlock against the thread's own scopes, or a  *)
(* mutex that is destroyed while a scope holds it.                          *)
THEOREM ScopesAreHeld == LocksSpec => []ScopesHoldLocks
<1>1. LocksInit => LocksInv
  BY LocksInitInv
<1>2. LocksInv /\ [LocksNext]_lockVars => LocksInv'
  BY LocksStepInv
<1>3. LocksInv => ScopesHoldLocks
  BY LocksInvExcludes
<1> QED
  BY <1>1, <1>2, <1>3, PTL DEF LocksSpec

-----------------------------------------------------------------------------
(* Logging, the test of a record.  A thread that has passed the test and    *)
(* whose site keeps its level is between the level it tested and the one it *)
(* appends with; a block has the tested level in a variable of its own.     *)
LogPlace == {"idle", "build", "append", "buildTracer", "appendTracer", "end", "lock", "touch",
             "compare", "next", "unlock", "trace"}
LogRecord == [in : Nat, with : Nat, at : Nat, min : Nat, steady : BOOLEAN]

LogTypes ==
    /\ initNext \in Nat /\ level \in Nat /\ mLevel \in Nat /\ mMinLevel \in Nat
    /\ nextFunc \in {"const", "linear", "double"}
    /\ mCounter \in Nat /\ sNext \in Nat
    /\ lpc \in [LogThread -> LogPlace]
    /\ lv \in [LogThread -> Nat] /\ count \in [LogThread -> Nat] /\ minAt \in [LogThread -> Nat]
    /\ steady \in [LogThread -> BOOLEAN]
    /\ records \in Seq(LogRecord)

LogForms ==
    \A t \in LogThread :
        /\ lpc[t] \in {"lock", "touch", "compare", "next", "unlock"} => form = "sampled"
        /\ lpc[t] = "end" => form = "block"
        /\ lpc[t] \in {"trace", "buildTracer", "appendTracer"} => form = "trace"
        /\ lpc[t] \in {"build", "append"} => form # "block"

LogTested ==
    \A t \in LogThread :
        /\ lpc[t] = "end" => lv[t] >= minAt[t]
        /\ steady[t] /\ form # "trace" /\ lpc[t] \in {"build", "append", "lock", "touch", "compare"} =>
              mLevel >= minAt[t]
        /\ steady[t] /\ lpc[t] \in {"append", "appendTracer"} => lv[t] = mLevel

LogInv == LogTypes /\ LogForms /\ LogTested /\ RecordsAsTested

(* A record is appended behind the others. *)
LEMMA RecordAppended ==
    ASSUME LogTypes, NEW t \in LogThread, NEW with \in Nat, Appended(t, with)
    PROVE  /\ records' \in Seq(LogRecord)
           /\ DOMAIN records = 1 .. Len(records) /\ Len(records) \in Nat
           /\ DOMAIN records' = 1 .. Len(records) + 1
           /\ \A i \in DOMAIN records : records'[i] = records[i] /\ records[i] \in LogRecord
           /\ records'[Len(records) + 1] =
                [in |-> lv[t], with |-> with, at |-> count[t], min |-> minAt[t], steady |-> steady[t]]
<1>1. PICK e : e = [in |-> lv[t], with |-> with, at |-> count[t], min |-> minAt[t], steady |-> steady[t]]
  OBVIOUS
<1>2. e \in LogRecord
  BY <1>1 DEF LogTypes, LogRecord
<1>3. records \in Seq(LogRecord) /\ records' = Append(records, e)
  BY <1>1 DEF LogTypes, Appended
<1>4. /\ records' \in Seq(LogRecord) /\ Len(records') = Len(records) + 1
      /\ (\A i \in 1 .. Len(records) : records'[i] = records[i]) /\ records'[Len(records) + 1] = e
  BY <1>2, <1>3, AppendProperties
<1>5. /\ Len(records) \in Nat /\ DOMAIN records = 1 .. Len(records)
      /\ DOMAIN records' = 1 .. Len(records')
  BY <1>3, <1>4, LenProperties
<1>6. \A i \in 1 .. Len(records) : records[i] \in LogRecord
  BY <1>3, ElementOfSeq
<1> QED
  BY <1>1, <1>4, <1>5, <1>6

(* A record that is as tested may be appended. *)
LEMMA AppendTested ==
    ASSUME LogTypes, RecordsAsTested, NEW t \in LogThread, NEW with \in Nat, Appended(t, with),
           UNCHANGED form,
           form = "block" \/ steady[t] =>
               lv[t] = with /\ (form # "trace" => lv[t] >= minAt[t])
    PROVE  RecordsAsTested'
<1>1. /\ DOMAIN records = 1 .. Len(records) /\ Len(records) \in Nat
      /\ DOMAIN records' = 1 .. Len(records) + 1
      /\ \A i \in DOMAIN records : records'[i] = records[i]
  BY RecordAppended
<1>2. records'[Len(records) + 1] =
        [in |-> lv[t], with |-> with, at |-> count[t], min |-> minAt[t], steady |-> steady[t]]
  BY RecordAppended
<1>3. ASSUME NEW i \in DOMAIN records', form' = "block" \/ records'[i].steady
      PROVE  /\ records'[i].in = records'[i].with
             /\ form' # "trace" => records'[i].in >= records'[i].min
  <2>1. CASE i \in DOMAIN records
    BY <1>1, <1>3, <2>1 DEF RecordsAsTested
  <2>2. CASE i = Len(records) + 1
    BY <1>2, <1>3, <2>2
  <2> QED
    BY <1>1, <2>1, <2>2
<1> QED
  BY <1>3 DEF RecordsAsTested

(* In the beginning no statement has begun. *)
LEMMA LogInitInv == LoggingInit => LogInv
<1> SUFFICES ASSUME LoggingInit PROVE LogInv
  OBVIOUS
<1>1. nextFunc \in {"const", "linear", "double"} /\ initNext \in Nat
  <2>1. CASE form = "sampled"
    BY <2>1, LoggingAssumption DEF LoggingInit
  <2>2. CASE form # "sampled"
    BY <2>2 DEF LoggingInit
  <2> QED
    BY <2>1, <2>2
<1>2. records = <<>> /\ records \in Seq(LogRecord) /\ DOMAIN records = {}
  BY EmptySeq DEF LoggingInit
<1>3. LogTypes
  BY <1>1, <1>2, LoggingAssumption DEF LoggingInit, LogTypes, LogPlace
<1>4. LogForms /\ LogTested
  BY DEF LoggingInit, LogForms, LogTested
<1>5. RecordsAsTested
  BY <1>2 DEF RecordsAsTested
<1> QED
  BY <1>3, <1>4, <1>5 DEF LogInv

(* A step that appends nothing. *)
LEMMA NothingAppended ==
    ASSUME LogInv, UNCHANGED <<records, form>>, LogTypes', LogForms', LogTested'
    PROVE  LogInv'
BY DEF LogInv, RecordsAsTested

(* A thread goes on from one place of the statement to the next. *)
LEMMA LogMoves ==
    ASSUME LogInv, NEW t \in LogThread,
           \/ \E c \in BOOLEAN : IfTest(t, c) \/ TraceTest(t, c)
           \/ BuildRecord(t) \/ BlockBegin(t) \/ SampledTest(t) \/ SampledLock(t)
           \/ Compare(t) \/ SampledUnlock(t) \/ TraceLogger(t)
    PROVE  LogInv'
<1> USE DEF LogInv, LGoto, siteVars, infoVars
<1>1. CASE \E c \in BOOLEAN : IfTest(t, c)
  <2>1. LogTypes'
    BY <1>1 DEF LogTypes, LogPlace, IfTest, Begins
  <2>2. LogForms' /\ LogTested'
    BY <1>1 DEF LogTypes, LogForms, LogTested, IfTest, Begins, Passes
  <2> QED
    BY <1>1, <2>1, <2>2, NothingAppended DEF IfTest
<1>2. CASE \E c \in BOOLEAN : TraceTest(t, c)
  <2>1. LogTypes'
    BY <1>2 DEF LogTypes, LogPlace, TraceTest, Begins
  <2>2. LogForms' /\ LogTested'
    BY <1>2 DEF LogTypes, LogForms, LogTested, TraceTest, Begins
  <2> QED
    BY <1>2, <2>1, <2>2, NothingAppended DEF TraceTest
<1>3. CASE BuildRecord(t)
  <2>1. LogTypes'
    BY <1>3 DEF LogTypes, LogPlace, BuildRecord
  <2>2. LogForms' /\ LogTested'
    BY <1>3 DEF LogTypes, LogForms, LogTested, BuildRecord
  <2> QED
    BY <1>3, <2>1, <2>2, NothingAppended DEF BuildRecord
<1>4. CASE BlockBegin(t)
  <2>1. LogTypes'
    BY <1>4 DEF LogTypes, LogPlace, BlockBegin, Begins
  <2>2. LogForms' /\ LogTested'
    BY <1>4 DEF LogTypes, LogForms, LogTested, BlockBegin, Begins, Passes
  <2> QED
    BY <1>4, <2>1, <2>2, NothingAppended DEF BlockBegin
<1>5. CASE SampledTest(t)
  <2>1. LogTypes'
    BY <1>5 DEF LogTypes, LogPlace, SampledTest, Begins
  <2>2. LogForms' /\ LogTested'
    BY <1>5 DEF LogTypes, LogForms, LogTested, SampledTest, Begins, Passes
  <2> QED
    BY <1>5, <2>1, <2>2, NothingAppended DEF SampledTest
<1>6. CASE SampledLock(t)
  <2>1. LogTypes'
    BY <1>6 DEF LogTypes, LogPlace, SampledLock
  <2>2. LogForms' /\ LogTested'
    BY <1>6 DEF LogTypes, LogForms, LogTested, SampledLock
  <2> QED
    BY <1>6, <2>1, <2>2, NothingAppended DEF SampledLock
<1>7. CASE Compare(t)
  <2>1. LogTypes'
    BY <1>7 DEF LogTypes, LogPlace, Compare
  <2>2. LogForms' /\ LogTested'
    BY <1>7 DEF LogTypes, LogForms, LogTested, Compare
  <2> QED
    BY <1>7, <2>1, <2>2, NothingAppended DEF Compare
<1>8. CASE SampledUnlock(t)
  <2>1. LogTypes'
    BY <1>8 DEF LogTypes, LogPlace, SampledUnlock
  <2>2. LogForms' /\ LogTested'
    BY <1>8 DEF LogTypes, LogForms, LogTested, SampledUnlock
  <2> QED
    BY <1>8, <2>1, <2>2, NothingAppended DEF SampledUnlock
<1>9. CASE TraceLogger(t)
  <2>1. LogTypes'
    BY <1>9 DEF LogTypes, LogPlace, TraceLogger
  <2>2. LogForms' /\ LogTested'
    BY <1>9 DEF LogTypes, LogForms, LogTested, TraceLogger
  <2> QED
    BY <1>9, <2>1, <2>2, NothingAppended DEF TraceLogger
<1> QED
  BY <1>1, <1>2, <1>3, <1>4, <1>5, <1>6, <1>7, <1>8, <1>9

(* A sampled site counts and moves its next count on. *)
LEMMA LogCounts ==
    ASSUME LogInv, NEW t \in LogThread, Touch(t) \/ MoveOn(t)
    PROVE  LogInv'
<1> USE DEF LogInv, LGoto, siteVars, infoVars
<1>1. CASE Touch(t)
  <2>1. LogTypes'
    BY <1>1 DEF LogTypes, LogPlace, Touch
  <2>2. LogForms' /\ LogTested'
    BY <1>1 DEF LogTypes, LogForms, LogTested, Touch
  <2> QED
    BY <1>1, <2>1, <2>2, NothingAppended DEF Touch
<1>2. CASE MoveOn(t)
  <2>1. NextCount(count[t]) \in Nat
    BY DEF LogTypes, NextCount
  <2>2. LogTypes'
    BY <1>2, <2>1 DEF LogTypes, LogPlace, MoveOn
  <2>3. LogForms' /\ LogTested'
    BY <1>2 DEF LogTypes, LogForms, LogTested, MoveOn
  <2> QED
    BY <1>2, <2>2, <2>3, NothingAppended DEF MoveOn
<1> QED
  BY <1>1, <1>2

(* A record is appended, at the end of each form of statement. *)
LEMMA LogAppends ==
    ASSUME LogInv, NEW t \in LogThread,
           AppendLog(t) \/ BlockEnd(t) \/ SampledAppend(t) \/ AppendTracer(t)
    PROVE  LogInv'
<1> USE DEF LGoto, siteVars, infoVars
<1>1. PICK with \in Nat : /\ Appended(t, with)
                          /\ form = "block" \/ steady[t] =>
                                lv[t] = with /\ (form # "trace" => lv[t] >= minAt[t])
  <2>1. CASE AppendLog(t)
    BY <2>1 DEF LogInv, LogTypes, LogTested, AppendLog
  <2>2. CASE BlockEnd(t)
    BY <2>2 DEF LogInv, LogTypes, LogTested, BlockEnd, EndLevel
  <2>3. CASE SampledAppend(t)
    BY <2>3 DEF LogInv, LogTypes, LogTested, SampledAppend
  <2>4. CASE AppendTracer(t)
    BY <2>4 DEF LogInv, LogTypes, LogForms, LogTested, AppendTracer
  <2> QED
    BY <2>1, <2>2, <2>3, <2>4
<1>2. /\ UNCHANGED <<siteVars, infoVars, mCounter, sNext, lv, count, steady, minAt>>
      /\ \E p \in {"idle", "next", "trace"} :
            /\ lpc' = [lpc EXCEPT ![t] = p]
            /\ p = "next" => form = "sampled"
            /\ p = "trace" => form = "trace"
  BY DEF AppendLog, BlockEnd, SampledAppend, AppendTracer, LogInv, LogForms
<1>3. records' \in Seq(LogRecord)
  BY <1>1, RecordAppended DEF LogInv
<1>4. LogTypes'
  BY <1>2, <1>3 DEF LogInv, LogTypes, LogPlace
<1>5. LogForms' /\ LogTested'
  BY <1>2 DEF LogInv, LogTypes, LogForms, LogTested
<1>6. RecordsAsTested'
  BY <1>1, <1>2, AppendTested DEF LogInv
<1> QED
  BY <1>4, <1>5, <1>6 DEF LogInv

(* The administrator: a change of the level makes every statement that is   *)
(* under way unsteady.                                                      *)
LEMMA LogAdministered ==
    ASSUME LogInv,
           \/ \E t \in LogThread, c \in BOOLEAN : EnableThreadLog(t, c)
           \/ \E e \in BOOLEAN : Enable(e)
           \/ \E l \in Level : SetLevel(l) \/ SetMinLevel(l)
           \/ Reset
    PROVE  LogInv'
<1> USE DEF siteVars, infoVars
<1>1. UNCHANGED <<siteVars, mCounter, sNext, lpc, lv, count, records, minAt>>
  BY DEF EnableThreadLog, Enable, SetLevel, SetMinLevel, Reset, Administers
<1>2. /\ mLevel' \in Nat /\ mMinLevel' \in Nat
      /\ \/ UNCHANGED <<mLevel, steady>>
         \/ steady' = [t \in LogThread |-> FALSE]
  BY LoggingAssumption DEF LogInv, LogTypes, EnableThreadLog, Enable, SetLevel, SetMinLevel, Reset,
                           Unsteady
<1>3. LogTypes'
  BY <1>1, <1>2 DEF LogInv, LogTypes
<1>4. LogForms' /\ LogTested'
  BY <1>1, <1>2 DEF LogInv, LogTypes, LogForms, LogTested
<1> QED
  BY <1>1, <1>3, <1>4, NothingAppended

(* Every step keeps the invariant. *)
LEMMA LogStepInv == LogInv /\ [LoggingNext]_logVars => LogInv'
<1> SUFFICES ASSUME LogInv, [LoggingNext]_logVars PROVE LogInv'
  OBVIOUS
<1>1. CASE LoggingNext
  BY <1>1, LogMoves, LogCounts, LogAppends, LogAdministered DEF LoggingNext
<1>2. CASE UNCHANGED logVars
  <2>1. LogTypes' /\ LogForms' /\ LogTested'
    BY <1>2 DEF logVars, siteVars, infoVars, LogInv, LogTypes, LogForms, LogTested
  <2> QED
    BY <1>2, <2>1, NothingAppended DEF logVars, siteVars
<1> QED
  BY <1>1, <1>2

(* Whatever the administrator of the logs changes and whenever, a record    *)
(* whose site kept its level (logging.h) is appended with the level that is *)
(* in it, one that passed the minimal level it was tested against; that of  *)
(* a block always.                                                          *)
THEOREM RecordsPassTheirTest == LoggingSpec => []RecordsAsTested
<1>1. LoggingInit => LogInv
  BY LogInitInv
<1>2. LogInv /\ [LoggingNext]_logVars => LogInv'
  BY LogStepInv
<1>3. LogInv => RecordsAsTested
  BY DEF LogInv
<1> QED
  BY <1>1, <1>2, <1>3, PTL DEF LoggingSpec

-----------------------------------------------------------------------------
(* Logging, the counts of a sampled site.  Whoever has the lock of the site *)
(* knows what has been logged so far and that sNext is the next count that  *)
(* the function of the site asks for; the set of the doublings is the least *)
(* one, so that no count lies between one of them and its double.           *)
DoneUpto(m) == {records[i].at : i \in DOMAIN records} = {c \in 1 .. m : Sampled(c)}
InOrder == \A i, j \in DOMAIN records : i < j => records[i].at < records[j].at

(* sNext is what is asked for behind the count m. *)
Due(m) ==
    /\ initNext = 0 => sNext = 0
    /\ initNext > 0 =>
        \A c \in Nat :
            /\ c = sNext => Sampled(c)
            /\ Sampled(c) /\ c > m => c >= sNext
            /\ nextFunc # "const" => sNext > m
            /\ nextFunc = "double" /\ Sampled(c) /\ c < sNext => 2 * c <= sNext

Settled == \E m \in Nat : mCounter = m /\ DoneUpto(m) /\ Due(m)
Pending(t) == \E m \in Nat : mCounter = m + 1 /\ count[t] = m + 1 /\ DoneUpto(m) /\ Due(m)
Logged(t) == \E m \in Nat : /\ mCounter = m + 1 /\ count[t] = m + 1 /\ sNext = m + 1
                            /\ DoneUpto(m + 1) /\ Due(m)

InSite == {"touch", "compare", "build", "append", "next", "unlock"}

SiteKnows(t) ==
    /\ lpc[t] \in InSite <=> siteLock = t
    /\ lpc[t] \in {"touch", "unlock"} => Settled
    /\ lpc[t] \in {"compare", "build", "append"} => Pending(t)
    /\ lpc[t] \in {"build", "append"} => mCounter = sNext
    /\ lpc[t] = "next" => Logged(t)

SampleInv ==
    form = "sampled" =>
        /\ siteLock = NoOne => Settled
        /\ \A t \in LogThread : SiteKnows(t)
        /\ InOrder

(* What the site asks for is a matter of its source text. *)
LEMMA SampledStays ==
    ASSUME UNCHANGED <<initNext, nextFunc>>
    PROVE  \A c : Sampled(c)' <=> Sampled(c)
BY DEF Sampled, Doubled

(* What has been logged stays so while nothing is appended. *)
LEMMA DoneStays ==
    ASSUME UNCHANGED <<initNext, nextFunc, records>>
    PROVE  (\A m : DoneUpto(m)' <=> DoneUpto(m)) /\ (InOrder' <=> InOrder)
<1>1. \A c : Sampled(c)' <=> Sampled(c)
  BY SampledStays
<1> QED
  BY <1>1 DEF DoneUpto, InOrder

(* The next count stays due while nobody moves it. *)
LEMMA DueStays ==
    ASSUME UNCHANGED <<initNext, nextFunc, sNext>>
    PROVE  \A m : Due(m)' <=> Due(m)
<1>1. \A c : Sampled(c)' <=> Sampled(c)
  BY SampledStays
<1> QED
  BY <1>1 DEF Due

(* The first count that is asked for is the initial one. *)
LEMMA FirstDue ==
    ASSUME LogTypes, sNext = initNext
    PROVE  Due(0)
<1>1. initNext \in Nat /\ nextFunc \in {"const", "linear", "double"}
  BY DEF LogTypes
<1>2. ASSUME initNext > 0 PROVE Sampled(initNext)
  <2>1. initNext % initNext = 0
    <3>1. PICK M \in Nat \ {0} : M = initNext
      BY <1>1, <1>2
    <3>2. (M * 1 + 0) % M = 0
      BY ModUnique
    <3> QED
      BY <3>1, <3>2
  <2>2. Doubled(initNext)
    BY <1>1 DEF Doubled
  <2> QED
    BY <1>1, <1>2, <2>1, <2>2 DEF Sampled
<1>3. ASSUME initNext > 0, NEW c \in Nat, Sampled(c), c > 0 PROVE c >= initNext
  <2>1. CASE nextFunc = "const"
    BY <1>1, <1>3, <2>1 DEF Sampled
  <2>2. CASE nextFunc = "linear"
    <3>1. c % initNext = 0
      BY <1>1, <1>3, <2>2 DEF Sampled
    <3>2. c < initNext => c % initNext = c
      BY <1>1, <1>3, SmallRemainder
    <3> QED
      BY <1>1, <1>3, <3>1, <3>2
  <2>3. CASE nextFunc = "double"
    BY <1>1, <1>3, <2>3 DEF Sampled, Doubled
  <2> QED
    BY <1>1, <2>1, <2>2, <2>3
<1>4. ASSUME initNext > 0, nextFunc = "double", NEW c \in Nat, Sampled(c) PROVE c >= initNext
  BY <1>1, <1>4 DEF Sampled, Doubled
<1> QED
  BY <1>1, <1>2, <1>3, <1>4 DEF Due

(* The double of a doubling is one, and none is between them. *)
LEMMA DoubledOnce ==
    ASSUME initNext \in Nat, initNext > 0, NEW n \in Nat, Doubled(n),
           \A c \in Nat : Doubled(c) /\ c < n => 2 * c <= n
    PROVE  /\ Doubled(2 * n)
           /\ \A c \in Nat : Doubled(c) /\ c > n => c >= 2 * n
<1>1. \A c \in Nat : Doubled(c) => initNext <= c
  BY DEF Doubled
<1>2. ASSUME NEW c \in Nat, Doubled(c) PROVE Doubled(2 * c)
  <2> SUFFICES ASSUME NEW S \in SUBSET (initNext .. 2 * c), initNext \in S,
                      \A x \in S : 2 * x <= 2 * c => 2 * x \in S
               PROVE  2 * c \in S
    BY <1>1, <1>2 DEF Doubled
  <2> DEFINE R == S \cap (initNext .. c)
  <2>1. R \in SUBSET (initNext .. c) /\ initNext \in R
    BY <1>1, <1>2
  <2>2. \A x \in R : 2 * x <= c => 2 * x \in R
    BY <1>2
  <2>3. c \in R
    <3> HIDE DEF R
    <3> QED
      BY <1>2, <2>1, <2>2 DEF Doubled
  <2> QED
    BY <2>3
<1>3. ASSUME NEW c \in Nat, Doubled(c), c > n, c < 2 * n PROVE FALSE
  <2> DEFINE R == {x \in initNext .. c : Doubled(x) /\ x <= n}
  <2>1. Doubled(initNext)
    BY DEF Doubled
  <2>2. R \in SUBSET (initNext .. c) /\ initNext \in R
    BY <1>1, <1>3, <2>1
  <2>3. ASSUME NEW x \in R, 2 * x <= c PROVE 2 * x \in R
    <3>1. x \in Nat /\ Doubled(x) /\ x <= n /\ initNext <= x
      OBVIOUS
    <3>2. x < n
      BY <1>3, <2>3, <3>1
    <3>3. 2 * x <= n /\ Doubled(2 * x)
      BY <1>2, <3>1, <3>2
    <3> QED
      BY <2>3, <3>1, <3>3
  <2>4. c \in R
    <3> HIDE DEF R
    <3> QED
      BY <1>3, <2>2, <2>3 DEF Doubled
  <2> QED
    BY <1>3, <2>4
<1> QED
  BY <1>2, <1>3

(* Behind the count that was logged the next one is asked for. *)
LEMMA NextDue ==
    ASSUME LogTypes, NEW m \in Nat, sNext = m + 1, Due(m), UNCHANGED <<initNext, nextFunc>>,
           sNext' = NextCount(m + 1)
    PROVE  Due(m + 1)'
<1>1. initNext \in Nat /\ nextFunc \in {"const", "linear", "double"}
  BY DEF LogTypes
<1>2. initNext > 0 /\ Sampled(m + 1)
  BY <1>1 DEF Due
<1>3. \A c : Sampled(c)' <=> Sampled(c)
  BY SampledStays
<1>4. CASE nextFunc = "const"
  <2>1. sNext' = initNext /\ \A c \in Nat : Sampled(c) <=> c = initNext
    BY <1>2, <1>4 DEF NextCount, Sampled
  <2> QED
    BY <1>1, <1>2, <1>3, <1>4, <2>1 DEF Due
<1>5. CASE nextFunc = "linear"
  <2>1. sNext' = m + 1 + initNext /\ (\A c \in Nat : Sampled(c) <=> c % initNext = 0)
    BY <1>1, <1>2, <1>5 DEF NextCount, Sampled
  <2>2. PICK M \in Nat \ {0} : M = initNext
    BY <1>1, <1>2
  <2>3. PICK q \in Int : m + 1 = M * q + 0
    <3>1. (m + 1) % M = 0
      BY <1>2, <2>1, <2>2
    <3> QED
      BY <3>1
  <2>4. (m + 1 + M) % M = 0
    <3>1. (M * (q + 1) + 0) % M = 0
      BY ModUnique
    <3>2. M * (q + 1) + 0 = m + 1 + M
      BY <2>3
    <3> QED
      BY <3>1, <3>2
  <2>5. ASSUME NEW c \in Nat, c % M = 0, c > m + 1 PROVE c >= m + 1 + M
    <3>1. PICK p \in Int : c = M * p
      BY <2>5
    <3>2. M * (p - q) > 0
      BY <2>3, <2>5, <3>1
    <3>3. p - q >= 1
      BY <3>2
    <3>4. M * (p - q) >= M
      BY <3>3
    <3> QED
      BY <2>3, <3>1, <3>4
  <2> QED
    BY <1>1, <1>2, <1>3, <1>5, <2>1, <2>2, <2>4, <2>5 DEF Due
<1>6. CASE nextFunc = "double"
  <2>1. sNext' = 2 * (m + 1) /\ (\A c \in Nat : Sampled(c) <=> Doubled(c))
    BY <1>1, <1>2, <1>6 DEF NextCount, Sampled
  <2>2. PICK n \in Nat : n = m + 1
    OBVIOUS
  <2>3. Doubled(n) /\ \A c \in Nat : Doubled(c) /\ c < n => 2 * c <= n
    BY <1>2, <1>6, <2>1, <2>2 DEF Due
  <2>4. Doubled(2 * n) /\ \A c \in Nat : Doubled(c) /\ c > n => c >= 2 * n
    BY <1>1, <1>2, <2>3, DoubledOnce
  <2>5. \A c \in Nat : Doubled(c) /\ c < 2 * n => c <= n
    BY <2>4
  <2> QED
    BY <1>1, <1>2, <1>3, <1>6, <2>1, <2>2, <2>4, <2>5 DEF Due
<1> QED
  BY <1>1, <1>4, <1>5, <1>6

(* A count that is not the one asked for is passed over. *)
LEMMA PassedOver ==
    ASSUME LogTypes, NEW m \in Nat, DoneUpto(m), Due(m), sNext # m + 1
    PROVE  DoneUpto(m + 1) /\ Due(m + 1)
<1>1. initNext \in Nat /\ sNext \in Nat /\ nextFunc \in {"const", "linear", "double"}
  BY DEF LogTypes
<1>2. ~Sampled(m + 1)
  <2> SUFFICES ASSUME Sampled(m + 1) PROVE FALSE
    OBVIOUS
  <2>1. initNext > 0
    BY DEF Sampled
  <2>2. m + 1 >= sNext /\ Sampled(sNext) /\ (nextFunc # "const" => sNext > m)
    BY <1>1, <2>1 DEF Due
  <2>3. nextFunc = "const" => m + 1 = sNext
    BY <2>2 DEF Sampled
  <2> QED
    BY <1>1, <2>2, <2>3
<1>3. {c \in 1 .. m + 1 : Sampled(c)} = {c \in 1 .. m : Sampled(c)}
  BY <1>2
<1> QED
  BY <1>1, <1>3 DEF DoneUpto, Due

(* The count that is asked for is logged, behind all the others. *)
LEMMA CountLogged ==
    ASSUME LogTypes, NEW m \in Nat, NEW t \in LogThread, NEW with \in Nat, DoneUpto(m), InOrder,
           count[t] = m + 1, Sampled(m + 1), Appended(t, with), UNCHANGED <<initNext, nextFunc>>
    PROVE  DoneUpto(m + 1)' /\ InOrder'
<1>1. /\ DOMAIN records = 1 .. Len(records) /\ Len(records) \in Nat
      /\ DOMAIN records' = 1 .. Len(records) + 1
      /\ \A i \in DOMAIN records : records'[i] = records[i]
  BY RecordAppended
<1>2. records'[Len(records) + 1].at = m + 1
  <2>1. records'[Len(records) + 1] =
          [in |-> lv[t], with |-> with, at |-> count[t], min |-> minAt[t], steady |-> steady[t]]
    BY RecordAppended
  <2> QED
    BY <2>1
<1>3. \A c : Sampled(c)' <=> Sampled(c)
  BY SampledStays
<1>4. {records'[i].at : i \in DOMAIN records'} = {records[i].at : i \in DOMAIN records} \cup {m + 1}
  BY <1>1, <1>2
<1>5. {c \in 1 .. m + 1 : Sampled(c)} = {c \in 1 .. m : Sampled(c)} \cup {m + 1}
  OBVIOUS
<1>6. DoneUpto(m + 1)'
  BY <1>3, <1>4, <1>5 DEF DoneUpto
<1>7. \A i \in DOMAIN records : records[i].at \in 1 .. m
  BY DEF DoneUpto
<1>8. InOrder'
  BY <1>1, <1>2, <1>7 DEF InOrder
<1> QED
  BY <1>6, <1>8

(* What a thread knows of the site stays true while nobody moves. *)
LEMMA KnownStays ==
    ASSUME UNCHANGED <<initNext, nextFunc, records, mCounter, sNext>>
    PROVE  /\ Settled' <=> Settled
           /\ \A t \in LogThread : count'[t] = count[t] =>
                 (Pending(t)' <=> Pending(t)) /\ (Logged(t)' <=> Logged(t))
<1>1. \A m : (DoneUpto(m)' <=> DoneUpto(m)) /\ (Due(m)' <=> Due(m))
  BY DoneStays, DueStays
<1>2. Settled' <=> Settled
  BY <1>1 DEF Settled
<1>3. ASSUME NEW t \in LogThread, count'[t] = count[t]
      PROVE  (Pending(t)' <=> Pending(t)) /\ (Logged(t)' <=> Logged(t))
  BY <1>1, <1>3 DEF Pending, Logged
<1> QED
  BY <1>2, <1>3

(* A step of t at most, and not within the site: nobody else notices. *)
SiteOutside(t) ==
    /\ UNCHANGED <<siteVars, records, mCounter, sNext, siteLock, count>>
    /\ \A u \in LogThread : u # t => lpc'[u] = lpc[u]
    /\ lpc[t] \notin InSite /\ lpc'[t] \notin InSite

(* Such a step keeps the invariant. *)
LEMMA OutsideInv ==
    ASSUME LogInv, SampleInv, NEW t \in LogThread, form = "sampled" => SiteOutside(t), UNCHANGED form
    PROVE  SampleInv'
<1> SUFFICES ASSUME form = "sampled" PROVE SampleInv'
  BY DEF SampleInv
<1>1. UNCHANGED <<initNext, nextFunc, records, mCounter, sNext, siteLock, count>>
  BY DEF SiteOutside, siteVars
<1>2. /\ Settled' <=> Settled
      /\ \A u \in LogThread : (Pending(u)' <=> Pending(u)) /\ (Logged(u)' <=> Logged(u))
  BY <1>1, KnownStays
<1>3. InOrder'
  BY <1>1, DoneStays DEF SampleInv
<1>4. ASSUME NEW u \in LogThread PROVE SiteKnows(u)'
  <2>1. SiteKnows(u)
    BY DEF SampleInv
  <2>2. CASE u = t
    BY <1>1, <2>1, <2>2 DEF SiteKnows, SiteOutside, InSite
  <2>3. CASE u # t
    <3>1. lpc'[u] = lpc[u]
      BY <2>3 DEF SiteOutside
    <3> QED
      BY <1>1, <1>2, <2>1, <3>1 DEF SiteKnows
  <2> QED
    BY <2>2, <2>3
<1> QED
  BY <1>1, <1>2, <1>3, <1>4 DEF SampleInv

(* A step within the site: the one thread that has its lock is the only one *)
(* that is told anything.                                                   *)
SiteStep(t, to) ==
    /\ form = "sampled" /\ lpc[t] \in InSite /\ to \in InSite
    /\ UNCHANGED <<siteVars, siteLock>> /\ lpc' = [lpc EXCEPT ![t] = to]

(* Such a step keeps the invariant if its thread knows what it should. *)
LEMMA InsideInv ==
    ASSUME LogInv, SampleInv, NEW t \in LogThread, NEW to, SiteStep(t, to), InOrder',
           to \in {"touch", "unlock"} => Settled',
           to \in {"compare", "build", "append"} => Pending(t)',
           to \in {"build", "append"} => mCounter' = sNext',
           to = "next" => Logged(t)'
    PROVE  SampleInv'
<1>1. form = "sampled" /\ siteLock = t /\ siteLock' = t /\ siteLock' # NoOne
  BY LoggingAssumption DEF SiteStep, SampleInv, SiteKnows
<1>2. lpc'[t] = to /\ (\A u \in LogThread : u # t => lpc'[u] = lpc[u])
  BY DEF SiteStep, LogInv, LogTypes
<1>3. SiteKnows(t)'
  BY <1>1, <1>2 DEF SiteKnows, SiteStep
<1>4. ASSUME NEW u \in LogThread, u # t PROVE SiteKnows(u)'
  <2>1. lpc'[u] = lpc[u] /\ lpc[u] \notin InSite
    BY <1>1, <1>2, <1>4 DEF SampleInv, SiteKnows
  <2> QED
    BY <1>1, <1>4, <2>1 DEF SiteKnows, InSite
<1> QED
  BY <1>1, <1>3, <1>4 DEF SampleInv

(* In the beginning nothing has been counted, and nothing logged. *)
LEMMA SampleInitInv == LoggingInit => SampleInv
<1> SUFFICES ASSUME LoggingInit PROVE SampleInv
  OBVIOUS
<1>1. LogTypes /\ sNext = initNext /\ mCounter = 0 /\ records = <<>> /\ siteLock = NoOne
  BY LogInitInv DEF LogInv, LoggingInit
<1>2. DOMAIN records = {}
  BY <1>1
<1>3. DoneUpto(0) /\ InOrder
  BY <1>2 DEF DoneUpto, InOrder
<1>4. Settled
  BY <1>1, <1>3, FirstDue DEF Settled
<1>5. \A t \in LogThread : SiteKnows(t)
  BY LoggingAssumption DEF LoggingInit, SiteKnows, InSite
<1> QED
  BY <1>3, <1>4, <1>5 DEF SampleInv

(* The steps outside the locked block. *)
LEMMA SampleOutside ==
    ASSUME LogInv, SampleInv, NEW t \in LogThread,
           \/ \E c \in BOOLEAN : IfTest(t, c) \/ TraceTest(t, c) \/ EnableThreadLog(t, c)
           \/ BlockBegin(t) \/ BlockEnd(t) \/ SampledTest(t) \/ AppendTracer(t) \/ TraceLogger(t)
           \/ AppendLog(t)
    PROVE  SampleInv'
<1> USE DEF siteVars, infoVars, LGoto
<1>1. UNCHANGED form
  BY DEF IfTest, TraceTest, EnableThreadLog, Administers, BlockBegin, BlockEnd, SampledTest, AppendTracer,
         TraceLogger, AppendLog
<1>2. ASSUME form = "sampled" PROVE SiteOutside(t)
  <2>1. (\E c \in BOOLEAN : EnableThreadLog(t, c)) \/ SampledTest(t)
    BY <1>2 DEF IfTest, TraceTest, BlockBegin, BlockEnd, AppendTracer, TraceLogger, AppendLog, LogInv,
                LogForms
  <2>2. CASE \E c \in BOOLEAN : EnableThreadLog(t, c)
    BY <2>2 DEF EnableThreadLog, Administers, SiteOutside, InSite
  <2>3. CASE SampledTest(t)
    BY <2>3 DEF SampledTest, Begins, SiteOutside, InSite, LogInv, LogTypes
  <2> QED
    BY <2>1, <2>2, <2>3
<1> QED
  BY <1>1, <1>2, OutsideInv

(* The lock of the site is taken, and given back. *)
LEMMA SampleLocks ==
    ASSUME LogInv, SampleInv, NEW t \in LogThread, SampledLock(t) \/ SampledUnlock(t)
    PROVE  SampleInv'
<1> USE DEF siteVars, infoVars, LGoto
<1>1. form = "sampled"
  BY DEF SampledLock, SampledUnlock, LogInv, LogForms
<1>2. UNCHANGED <<form, initNext, nextFunc, records, mCounter, sNext, count>>
  BY DEF SampledLock, SampledUnlock
<1>3. /\ Settled' <=> Settled
      /\ \A u \in LogThread : (Pending(u)' <=> Pending(u)) /\ (Logged(u)' <=> Logged(u))
  BY <1>2, KnownStays
<1>4. InOrder'
  BY <1>1, <1>2, DoneStays DEF SampleInv
<1>5. \A u \in LogThread : u # t => lpc'[u] = lpc[u]
  BY DEF SampledLock, SampledUnlock, LogInv, LogTypes
<1>6. Settled /\ \A u \in LogThread : u # t => lpc[u] \notin InSite
  <2>1. CASE SampledLock(t)
    BY <1>1, <2>1, LoggingAssumption DEF SampledLock, SiteFree, SampleInv, SiteKnows
  <2>2. CASE SampledUnlock(t)
    BY <1>1, <2>2 DEF SampledUnlock, SampleInv, SiteKnows, InSite
  <2> QED
    BY <2>1, <2>2
<1>7. \/ siteLock' = t /\ lpc'[t] = "touch"
      \/ siteLock' = NoOne /\ lpc'[t] = "idle"
  BY DEF SampledLock, SampledUnlock, LogInv, LogTypes
<1>8. SiteKnows(t)'
  BY <1>3, <1>6, <1>7, LoggingAssumption DEF SiteKnows, InSite
<1>9. ASSUME NEW u \in LogThread, u # t PROVE SiteKnows(u)'
  BY <1>5, <1>6, <1>7, <1>9, LoggingAssumption DEF SiteKnows, InSite
<1> QED
  BY <1>3, <1>4, <1>6, <1>8, <1>9 DEF SampleInv

(* The steps within the locked block. *)
LEMMA TouchSamples ==
    ASSUME LogInv, SampleInv, NEW t \in LogThread, Touch(t)
    PROVE  SampleInv'
<1> USE DEF siteVars, infoVars, LGoto
<1>1. PICK to : to = "compare"
  OBVIOUS
<1>2. form = "sampled" /\ lpc[t] = "touch"
  BY DEF Touch, LogInv, LogForms
<1>3. SiteStep(t, to)
  BY <1>1, <1>2 DEF SiteStep, Touch, InSite
<1>4. PICK m \in Nat : mCounter = m /\ DoneUpto(m) /\ Due(m)
  BY <1>2 DEF SampleInv, SiteKnows, Settled
<1>5. UNCHANGED <<initNext, nextFunc, records, sNext>> /\ mCounter' = m + 1 /\ count'[t] = m + 1
  BY <1>4 DEF Touch, LogInv, LogTypes
<1>6. DoneUpto(m)' /\ Due(m)' /\ InOrder'
  BY <1>2, <1>4, <1>5, DoneStays, DueStays DEF SampleInv
<1>7. Pending(t)'
  BY <1>5, <1>6 DEF Pending
<1> QED
  BY <1>1, <1>3, <1>6, <1>7, InsideInv

(* The comparison: the count is the next one, or it is passed over. *)
LEMMA CompareSamples ==
    ASSUME LogInv, SampleInv, NEW t \in LogThread, Compare(t)
    PROVE  SampleInv'
<1> USE DEF siteVars, infoVars, LGoto
<1>1. form = "sampled" /\ lpc[t] = "compare"
  BY DEF Compare, LogInv, LogForms
<1>2. PICK m \in Nat : mCounter = m + 1 /\ count[t] = m + 1 /\ DoneUpto(m) /\ Due(m)
  BY <1>1 DEF SampleInv, SiteKnows, Pending
<1>3. UNCHANGED <<initNext, nextFunc, records, sNext, mCounter, count>>
  BY DEF Compare
<1>4. InOrder' /\ (Pending(t)' <=> Pending(t)) /\ (Settled' <=> Settled)
  BY <1>1, <1>3, DoneStays, KnownStays DEF SampleInv
<1>5. CASE sNext = m + 1
  <2>1. PICK to : to = "build"
    OBVIOUS
  <2>2. SiteStep(t, to)
    BY <1>1, <1>2, <1>5, <2>1 DEF SiteStep, Compare, InSite
  <2>3. Pending(t)' /\ mCounter' = sNext'
    BY <1>2, <1>3, <1>4, <1>5 DEF Pending
  <2> QED
    BY <1>4, <2>1, <2>2, <2>3, InsideInv
<1>6. CASE sNext # m + 1
  <2>1. PICK to : to = "unlock"
    OBVIOUS
  <2>2. SiteStep(t, to)
    BY <1>1, <1>2, <1>6, <2>1 DEF SiteStep, Compare, InSite
  <2>3. DoneUpto(m + 1) /\ Due(m + 1)
    BY <1>2, <1>6, PassedOver DEF LogInv
  <2>4. Settled
    BY <1>2, <2>3 DEF Settled
  <2> QED
    BY <1>4, <2>1, <2>2, <2>4, InsideInv
<1> QED
  BY <1>5, <1>6

(* A record is built for whatever form; only a sampled site has its lock.   *)
LEMMA BuildSamples ==
    ASSUME LogInv, SampleInv, NEW t \in LogThread, BuildRecord(t)
    PROVE  SampleInv'
<1> USE DEF siteVars, infoVars, LGoto
<1>1. UNCHANGED <<form, initNext, nextFunc, records, sNext, mCounter, count>>
  BY DEF BuildRecord
<1>2. CASE form # "sampled"
  BY <1>1, <1>2 DEF SampleInv
<1>3. CASE form = "sampled"
  <2>1. PICK to : to = "append"
    OBVIOUS
  <2>2. lpc[t] = "build"
    BY <1>3 DEF BuildRecord, LogInv, LogForms
  <2>3. SiteStep(t, to)
    BY <1>3, <2>1, <2>2 DEF SiteStep, BuildRecord, InSite
  <2>4. InOrder' /\ (Pending(t)' <=> Pending(t)) /\ Pending(t) /\ mCounter = sNext
    BY <1>1, <1>3, <2>2, DoneStays, KnownStays DEF SampleInv, SiteKnows
  <2> QED
    BY <1>1, <2>1, <2>3, <2>4, InsideInv
<1> QED
  BY <1>2, <1>3

(* The record of the count that was asked for. *)
LEMMA AppendSamples ==
    ASSUME LogInv, SampleInv, NEW t \in LogThread, SampledAppend(t)
    PROVE  SampleInv'
<1> USE DEF siteVars, infoVars, LGoto
<1>1. PICK to : to = "next"
  OBVIOUS
<1>2. form = "sampled" /\ lpc[t] = "append" /\ LogTypes
  BY DEF SampledAppend, LogInv
<1>3. SiteStep(t, to)
  BY <1>1, <1>2 DEF SiteStep, SampledAppend, InSite
<1>4. PICK m \in Nat : mCounter = m + 1 /\ count[t] = m + 1 /\ DoneUpto(m) /\ Due(m)
  BY <1>2 DEF SampleInv, SiteKnows, Pending
<1>5. UNCHANGED <<initNext, nextFunc, sNext, mCounter, count>> /\ sNext = m + 1 /\ InOrder
  BY <1>2, <1>4 DEF SampledAppend, SampleInv, SiteKnows
<1>6. Sampled(m + 1)
  BY <1>2, <1>4, <1>5 DEF Due, LogTypes
<1>7. DoneUpto(m + 1)' /\ InOrder'
  <2>1. PICK with \in Nat : Appended(t, with)
    BY <1>2 DEF SampledAppend, LogTypes
  <2> QED
    BY <1>2, <1>4, <1>5, <1>6, <2>1, CountLogged
<1>8. Due(m)'
  BY <1>4, <1>5, DueStays
<1>9. Logged(t)'
  BY <1>4, <1>5, <1>7, <1>8 DEF Logged
<1> QED
  BY <1>1, <1>3, <1>7, <1>9, InsideInv

(* The next count is computed. *)
LEMMA MoveOnSamples ==
    ASSUME LogInv, SampleInv, NEW t \in LogThread, MoveOn(t)
    PROVE  SampleInv'
<1> USE DEF siteVars, infoVars, LGoto
<1>1. PICK to : to = "unlock"
  OBVIOUS
<1>2. form = "sampled" /\ lpc[t] = "next" /\ LogTypes
  BY DEF MoveOn, LogInv, LogForms
<1>3. SiteStep(t, to)
  BY <1>1, <1>2 DEF SiteStep, MoveOn, InSite
<1>4. PICK m \in Nat : /\ mCounter = m + 1 /\ count[t] = m + 1 /\ sNext = m + 1
                       /\ DoneUpto(m + 1) /\ Due(m)
  BY <1>2 DEF SampleInv, SiteKnows, Logged
<1>5. UNCHANGED <<initNext, nextFunc, records, mCounter>> /\ sNext' = NextCount(m + 1)
  BY <1>4 DEF MoveOn
<1>6. Due(m + 1)'
  BY <1>2, <1>4, <1>5, NextDue
<1>7. DoneUpto(m + 1)' /\ InOrder'
  BY <1>2, <1>4, <1>5, DoneStays DEF SampleInv
<1>8. Settled'
  BY <1>4, <1>5, <1>6, <1>7 DEF Settled
<1> QED
  BY <1>1, <1>3, <1>7, <1>8, InsideInv

(* Nobody moves: the administrator changes the site, or nothing happens. *)
LEMMA NobodySamples ==
    ASSUME LogInv, SampleInv, UNCHANGED <<siteVars, records, mCounter, sNext, siteLock, count, lpc>>
    PROVE  SampleInv'
<1>1. UNCHANGED <<form, initNext, nextFunc, records, mCounter, sNext, siteLock, count, lpc>>
  BY DEF siteVars
<1>2. /\ Settled' <=> Settled
      /\ \A u \in LogThread : (Pending(u)' <=> Pending(u)) /\ (Logged(u)' <=> Logged(u))
  BY <1>1, KnownStays
<1>3. InOrder' <=> InOrder
  BY <1>1, DoneStays
<1>4. \A u \in LogThread : SiteKnows(u)' <=> SiteKnows(u)
  BY <1>1, <1>2 DEF SiteKnows
<1> QED
  BY <1>1, <1>2, <1>3, <1>4 DEF SampleInv

(* Every step keeps what is known of a sampled site. *)
LEMMA SampleStepInv == LogInv /\ SampleInv /\ [LoggingNext]_logVars => SampleInv'
<1> SUFFICES ASSUME LogInv, SampleInv, [LoggingNext]_logVars PROVE SampleInv'
  OBVIOUS
<1>1. CASE LoggingNext
  <2>1. CASE \/ \E e \in BOOLEAN : Enable(e)
             \/ \E l \in Level : SetLevel(l) \/ SetMinLevel(l)
             \/ Reset
    BY <2>1, NobodySamples DEF Enable, SetLevel, SetMinLevel, Reset, Administers
  <2> QED
    BY <1>1, <2>1, SampleOutside, SampleLocks, TouchSamples, CompareSamples, BuildSamples, AppendSamples,
       MoveOnSamples DEF LoggingNext
<1>2. CASE UNCHANGED logVars
  BY <1>2, NobodySamples DEF logVars
<1> QED
  BY <1>1, <1>2

(* Whichever threads execute a sampled statement (logging.h), and however   *)
(* they are delayed, it has logged every count that its function asks for,  *)
(* once and in order, whenever nobody has the lock of the site.             *)
THEOREM SamplesAreLogged == LoggingSpec => []SampledAsPromised
<1>1. LoggingInit => LogInv /\ SampleInv
  BY LogInitInv, SampleInitInv
<1>2. LogInv /\ SampleInv /\ [LoggingNext]_logVars => (LogInv /\ SampleInv)'
  BY LogStepInv, SampleStepInv
<1>3. LogInv /\ SampleInv => SampledAsPromised
  <2> SUFFICES ASSUME SampleInv, form = "sampled", siteLock = NoOne PROVE SampledAsPromised
    BY DEF SampledAsPromised
  <2>1. Settled /\ InOrder
    BY DEF SampleInv
  <2> QED
    BY <2>1 DEF SampledAsPromised, Settled, DoneUpto, InOrder
<1> QED
  BY <1>1, <1>2, <1>3, PTL DEF LoggingSpec

-----------------------------------------------------------------------------
(* Singleton, for every set of threads and every bound on the objects made: *)
(* SingletonInv is inductive and implies what the run checks.               *)

(* Static initialisation: no object, nothing registered. *)
LEMMA SingletonInitInv == SingletonInit => SingletonInv
<1> SUFFICES ASSUME SingletonInit PROVE SingletonInv OBVIOUS
<1> USE DEF SingletonInit
<1>1. sDestroyed \in BOOLEAN /\ wasLive \in [SThread -> BOOLEAN] /\ overtaken \in [SThread -> BOOLEAN]
  BY Zenon
<1>2. SingletonTypes BY <1>1 DEF SingletonTypes, InInstance, NULL
<1>3. LockHolder BY SingletonAssumption DEF LockHolder, UnderLock
<1>4. AtRest BY DEF AtRest
<1>5. InstanceReturnsLive BY Zenon DEF InstanceReturnsLive
<1>6. \A t \in SThread : Maker(t) /\ Returner(t) BY DEF Maker, Returner, InDestroy
<1> QED BY <1>2, <1>3, <1>4, <1>5, <1>6 DEF SingletonInv

(* The steps of Instance before the object is made: a thread that has       *)
(* decided under the lock to make one finds that there is none.             *)
LEMMA EnterInv ==
    ASSUME SingletonInv, NEW t \in SThread, FirstTest(t) \/ SLock(t) \/ SecondTest(t)
    PROVE  SingletonInv'
<1>1. CASE FirstTest(t)
  <2> USE <1>1 DEF FirstTest, SGoto
  <2>1. SingletonTypes' BY DEF SingletonInv, SingletonTypes, InInstance, Making
  <2>2. LockHolder' BY DEF SingletonInv, SingletonTypes, LockHolder, UnderLock
  <2>3. AtRest' BY DEF SingletonInv, SingletonTypes, AtRest, InDestroy
  <2>4. InstanceReturnsLive' BY DEF SingletonInv, SingletonTypes, InstanceReturnsLive
  <2>5. \A u \in SThread : Maker(u)' BY DEF SingletonInv, SingletonTypes, Maker, InDestroy
  <2>6. ASSUME NEW u \in SThread PROVE Returner(u)'
    <3>1. CASE u # t BY <3>1 DEF SingletonInv, SingletonTypes, Returner, InDestroy
    <3>2. CASE u = t
      <4>1. ~InDestroy /\ sInstance # NULL => live = {sInstance}
        BY DEF SingletonInv, AtRest, Maker, NULL
      <4> QED BY <3>2, <4>1 DEF SingletonInv, SingletonTypes, Returner, InDestroy
    <3> QED BY <3>1, <3>2
  <2> QED BY <2>1, <2>2, <2>3, <2>4, <2>5, <2>6 DEF SingletonInv
<1>2. CASE SLock(t)
  <2> USE <1>2 DEF SLock, SGoto
  <2>1. SingletonTypes' BY DEF SingletonInv, SingletonTypes, InInstance
  <2>2. LockHolder'
    BY SingletonAssumption DEF SingletonInv, SingletonTypes, LockHolder, UnderLock
  <2>3. AtRest' /\ InstanceReturnsLive'
    BY DEF SingletonInv, SingletonTypes, AtRest, InDestroy, InstanceReturnsLive
  <2>4. \A u \in SThread : Maker(u)' BY DEF SingletonInv, SingletonTypes, Maker, InDestroy
  <2>5. \A u \in SThread : Returner(u)' BY DEF SingletonInv, SingletonTypes, Returner, InDestroy
  <2> QED BY <2>1, <2>2, <2>3, <2>4, <2>5 DEF SingletonInv
<1>3. CASE SecondTest(t)
  <2> USE <1>3 DEF SecondTest, SGoto
  <2>0. \A u \in SThread : u # t => spc[u] \notin UnderLock
    BY DEF SingletonInv, LockHolder, UnderLock
  <2>1. SingletonTypes' BY DEF SingletonInv, SingletonTypes, InInstance
  <2>2. LockHolder' BY DEF SingletonInv, SingletonTypes, LockHolder, UnderLock
  <2>3. AtRest' BY DEF SingletonInv, SingletonTypes, AtRest, InDestroy
  <2>4. InstanceReturnsLive' BY DEF SingletonInv, SingletonTypes, InstanceReturnsLive
  <2>5. \A u \in SThread : Maker(u)'
    <3>1. sInstance = NULL => live = {} /\ handlers = 0 /\ ~InDestroy
      BY <2>0 DEF SingletonInv, AtRest, UnderLock, InDestroy
    <3> QED BY <3>1, <2>0 DEF SingletonInv, SingletonTypes, Maker, InDestroy, UnderLock
  <2>6. \A u \in SThread : Returner(u)'
    <3>1. ~InDestroy /\ sInstance # NULL => live = {sInstance}
      BY <2>0 DEF SingletonInv, AtRest, UnderLock, InDestroy
    <3> QED BY <3>1 DEF SingletonInv, SingletonTypes, Returner, InDestroy
  <2> QED BY <2>1, <2>2, <2>3, <2>4, <2>5, <2>6 DEF SingletonInv
<1> QED BY <1>1, <1>2, <1>3

(* The steps of Instance that make, publish and register the object: nobody *)
(* else is under the lock, and nobody is about to return.                   *)
LEMMA MakeInv ==
    ASSUME SingletonInv, NEW t \in SThread, New(t) \/ Publish(t) \/ AtExit(t)
    PROVE  SingletonInv'
<1>0. \A u \in SThread : u # t => spc[u] \notin UnderLock
  BY DEF SingletonInv, LockHolder, UnderLock, New, Publish, AtExit
<1>1. CASE New(t)
  <2> USE <1>1 DEF New, SGoto
  <2>1. SingletonTypes'
    <3>1. live' \subseteq 1 .. made' BY DEF SingletonInv, SingletonTypes
    <3> QED BY <3>1 DEF SingletonInv, SingletonTypes, InInstance
  <2>2. LockHolder' BY DEF SingletonInv, SingletonTypes, LockHolder, UnderLock
  <2>3. live' = {made + 1} /\ fresh'[t] = made + 1 /\ made + 1 # NULL /\ sInstance = NULL
    <3>1. live = {} /\ sInstance = NULL BY DEF SingletonInv, Maker
    <3>2. fresh'[t] = made + 1 BY DEF SingletonInv, SingletonTypes
    <3>3. made + 1 # NULL BY DEF SingletonInv, SingletonTypes, NULL
    <3> QED BY <3>1, <3>2, <3>3
  <2>4. AtRest' BY DEF SingletonInv, SingletonTypes, AtRest, Maker, InDestroy
  <2>5. InstanceReturnsLive' BY DEF SingletonInv, SingletonTypes, InstanceReturnsLive
  <2>6. \A u \in SThread : Maker(u)'
    BY <1>0, <2>3 DEF SingletonInv, SingletonTypes, Maker, InDestroy, UnderLock
  <2>7. \A u \in SThread : Returner(u)'
    BY <1>0, <2>3 DEF SingletonInv, SingletonTypes, Returner, InDestroy, UnderLock
  <2> QED BY <2>1, <2>2, <2>4, <2>5, <2>6, <2>7 DEF SingletonInv
<1>2. CASE Publish(t)
  <2> USE <1>2 DEF Publish, SGoto
  <2>1. SingletonTypes' BY DEF SingletonInv, SingletonTypes, InInstance
  <2>2. LockHolder' BY DEF SingletonInv, SingletonTypes, LockHolder, UnderLock
  <2>3. sInstance = NULL /\ live = {fresh[t]} /\ fresh[t] # NULL /\ handlers = 0 /\ ~InDestroy
    BY DEF SingletonInv, Maker
  <2>4. AtRest' BY <2>3 DEF SingletonInv, SingletonTypes, AtRest, InDestroy
  <2>5. InstanceReturnsLive' BY DEF SingletonInv, SingletonTypes, InstanceReturnsLive
  <2>6. \A u \in SThread : Maker(u)'
    BY <1>0, <2>3 DEF SingletonInv, SingletonTypes, Maker, InDestroy, UnderLock
  <2>7. \A u \in SThread : Returner(u)'
    BY <1>0, <2>3 DEF SingletonInv, SingletonTypes, Returner, InDestroy, UnderLock
  <2> QED BY <2>1, <2>2, <2>4, <2>5, <2>6, <2>7 DEF SingletonInv
<1>3. CASE AtExit(t)
  <2> USE <1>3 DEF AtExit, SGoto, Registered
  <2>1. SingletonTypes' BY DEF SingletonInv, SingletonTypes, InInstance
  <2>2. LockHolder' BY DEF SingletonInv, SingletonTypes, LockHolder, UnderLock
  <2>3. sInstance # NULL /\ live = {sInstance} /\ handlers = 0 /\ ~InDestroy /\ exiting # "done"
    BY DEF SingletonInv, Maker, Running
  <2>4. AtRest' BY <2>3 DEF SingletonInv, SingletonTypes, AtRest, InDestroy
  <2>5. InstanceReturnsLive' BY DEF SingletonInv, SingletonTypes, InstanceReturnsLive
  <2>6. \A u \in SThread : Maker(u)'
    BY <1>0, <2>3 DEF SingletonInv, SingletonTypes, Maker, InDestroy, UnderLock
  <2>7. \A u \in SThread : Returner(u)'
    BY <1>0, <2>3 DEF SingletonInv, SingletonTypes, Returner, InDestroy, UnderLock
  <2> QED BY <2>1, <2>2, <2>4, <2>5, <2>6, <2>7 DEF SingletonInv
<1> QED BY <1>1, <1>2, <1>3

(* The way out of Instance: what is returned is there unless Destroy came.  *)
LEMMA ReturnInv ==
    ASSUME SingletonInv, NEW t \in SThread, SUnlock(t) \/ ReturnInstance(t)
    PROVE  SingletonInv'
<1>1. CASE SUnlock(t)
  <2> USE <1>1 DEF SUnlock, SUnlocked, SGoto
  <2>1. SingletonTypes' BY DEF SingletonInv, SingletonTypes, InInstance
  <2>2. LockHolder'
    BY SingletonAssumption DEF SingletonInv, SingletonTypes, LockHolder, UnderLock, NoThread
  <2>3. AtRest' /\ InstanceReturnsLive'
    BY DEF SingletonInv, SingletonTypes, AtRest, InDestroy, InstanceReturnsLive
  <2>4. \A u \in SThread : Maker(u)' BY DEF SingletonInv, SingletonTypes, Maker, InDestroy
  <2>5. \A u \in SThread : Returner(u)' BY DEF SingletonInv, SingletonTypes, Returner, InDestroy
  <2> QED BY <2>1, <2>2, <2>3, <2>4, <2>5 DEF SingletonInv
<1>2. CASE ReturnInstance(t)
  <2> USE <1>2 DEF ReturnInstance, SGoto
  <2>1. SingletonTypes' BY DEF SingletonInv, SingletonTypes, InInstance
  <2>2. LockHolder' BY DEF SingletonInv, SingletonTypes, LockHolder, UnderLock
  <2>3. AtRest' BY DEF SingletonInv, SingletonTypes, AtRest, InDestroy
  <2>4. InstanceReturnsLive'
    <3>1. ~overtaken[t] => sInstance \in live BY DEF SingletonInv, Returner
    <3> QED BY <3>1 DEF SingletonInv, SingletonTypes, InstanceReturnsLive
  <2>5. \A u \in SThread : Maker(u)' BY DEF SingletonInv, SingletonTypes, Maker, InDestroy
  <2>6. \A u \in SThread : Returner(u)' BY DEF SingletonInv, SingletonTypes, Returner, InDestroy
  <2> QED BY <2>1, <2>2, <2>3, <2>4, <2>5, <2>6 DEF SingletonInv
<1> QED BY <1>1, <1>2

(* The steps of exit: a Destroy that runs was registered, so nobody is      *)
(* making an object meanwhile.                                              *)
LEMMA ExitInv ==
    ASSUME SingletonInv, Exit \/ DestroyFlag \/ DestroyDelete \/ DestroyClear \/ ExitEnds
    PROVE  SingletonInv'
<1>1. SingletonTypes'
  <2>1. CASE DestroyFlag
    <3>1. overtaken' \in [SThread -> BOOLEAN] BY <2>1, Zenon DEF DestroyFlag
    <3> QED BY <2>1, <3>1 DEF DestroyFlag, SingletonInv, SingletonTypes
  <2>2. CASE Exit BY <2>2 DEF Exit, SingletonInv, SingletonTypes
  <2>3. CASE DestroyDelete
    <3>1. live' \subseteq 1 .. made' BY <2>3 DEF DestroyDelete, SingletonInv, SingletonTypes
    <3> QED BY <2>3, <3>1 DEF DestroyDelete, SingletonInv, SingletonTypes
  <2>4. CASE DestroyClear
    BY <2>4 DEF DestroyClear, Cleared, NULL, SingletonInv, SingletonTypes
  <2>5. CASE ExitEnds BY <2>5 DEF ExitEnds, SingletonInv, SingletonTypes
  <2> QED BY <2>1, <2>2, <2>3, <2>4, <2>5
<1>2. LockHolder'
  BY DEF SingletonInv, LockHolder, Exit, DestroyFlag, DestroyDelete, DestroyClear, ExitEnds
<1>3. InstanceReturnsLive'
  BY DEF SingletonInv, InstanceReturnsLive, Exit, DestroyFlag, DestroyDelete, DestroyClear, ExitEnds
<1>4. AtRest' /\ \A u \in SThread : Maker(u)' /\ Returner(u)'
  <2>1. CASE Exit
    BY <2>1 DEF Exit, SingletonInv, AtRest, Maker, Returner, InDestroy
  <2>2. CASE DestroyFlag
    BY <2>2 DEF DestroyFlag, SingletonInv, SingletonTypes, AtRest, Maker, Returner, InDestroy
  <2>3. CASE DestroyDelete
    BY <2>3 DEF DestroyDelete, SingletonInv, SingletonTypes, AtRest, Maker, Returner, InDestroy
  <2>4. CASE DestroyClear
    BY <2>4 DEF DestroyClear, Cleared, SingletonInv, SingletonTypes, AtRest, Maker, Returner, InDestroy
  <2>5. CASE ExitEnds
    BY <2>5 DEF ExitEnds, SingletonInv, AtRest, Maker, Returner, InDestroy
  <2> QED BY <2>1, <2>2, <2>3, <2>4, <2>5
<1> QED BY <1>1, <1>2, <1>3, <1>4 DEF SingletonInv

(* The invariant holds in every behaviour of Instance and exit. *)
THEOREM SingletonInvariance == SingletonSpec => []SingletonInv
<1>1. ASSUME SingletonInv, [SingletonNext]_singletonVars PROVE SingletonInv'
  <2>1. CASE \E t \in SThread : FirstTest(t) \/ InstanceStep(t)
    <3>1. PICK t \in SThread : FirstTest(t) \/ InstanceStep(t) BY <2>1
    <3> QED BY <1>1, <3>1, EnterInv, MakeInv, ReturnInv DEF InstanceStep
  <2>2. CASE Exit \/ DestroyFlag \/ DestroyDelete \/ DestroyClear \/ ExitEnds
    BY <1>1, <2>2, ExitInv
  <2>3. CASE UNCHANGED singletonVars
    BY <1>1, <2>3
       DEF singletonVars, SingletonInv, SingletonTypes, LockHolder, AtRest, InstanceReturnsLive,
           Maker, Returner, InDestroy
  <2> QED BY <1>1, <2>1, <2>2, <2>3 DEF SingletonNext
<1> QED BY <1>1, SingletonInitInv, PTL DEF SingletonSpec

(* Double-checked locking makes one object at a time, for every number of   *)
(* threads, also while the process exits.                                   *)
THEOREM OneObject == SingletonSpec => []OneInstance
<1>1. ASSUME SingletonInv PROVE OneInstance
  <2>1. CASE \E t \in SThread : spc[t] \in {"new", "publish", "atexit"}
    BY <1>1, <2>1 DEF SingletonInv, Maker, OneInstance
  <2>2. CASE \A t \in SThread : spc[t] \notin {"new", "publish", "atexit"}
    BY <1>1, <2>2 DEF SingletonInv, AtRest, InDestroy, SingletonTypes, OneInstance
  <2> QED BY <2>1, <2>2
<1> QED BY <1>1, SingletonInvariance, PTL

(* Instance returns the object that is there to every call that Destroy did *)
(* not run into.                                                            *)
THEOREM ReturnsLive == SingletonSpec => []InstanceReturnsLive
<1>1. SingletonInv => InstanceReturnsLive BY DEF SingletonInv
<1> QED BY <1>1, SingletonInvariance, PTL

(* Nothing is left when exit is over, however often the object was made     *)
(* again while the handlers ran.                                            *)
THEOREM NothingLeft == SingletonSpec => []AllDestroyedAtExit
<1>1. ASSUME SingletonInv PROVE AllDestroyedAtExit
  BY <1>1 DEF SingletonInv, AtRest, Maker, InDestroy, AllDestroyedAtExit
<1> QED BY <1>1, SingletonInvariance, PTL
-----------------------------------------------------------------------------
(* StringPiece.  Each search is a loop, a recursive function that CHOOSE    *)
(* picks: the function that gives the first hit from k on (or the last one  *)
(* up to k) satisfies its equation, so there is one, and all that satisfy   *)
(* it agree by induction on the distance to the end of the loop.  A cut of  *)
(* a cut of the text is a cut of the text.                                  *)

(* A lower bound in the set is its least member. *)
LEMMA LeastIs ==
    ASSUME NEW T \in SUBSET Int, NEW b \in T, \A y \in T : b <= y
    PROVE  Min(T) = b
<1>1. PICK c \in T : c = Min(T) /\ \A y \in T : c <= y
  BY DEF Min
<1>2. c \in Int /\ b \in Int /\ b <= c /\ c <= b
  BY <1>1
<1> QED
  BY <1>1, <1>2

(* An upper bound in the set is its greatest member. *)
LEMMA GreatestIs ==
    ASSUME NEW T \in SUBSET Int, NEW b \in T, \A y \in T : b >= y
    PROVE  Max(T) = b
<1>1. PICK c \in T : c = Max(T) /\ \A y \in T : c >= y
  BY DEF Max
<1>2. c \in Int /\ b \in Int /\ b >= c /\ c >= b
  BY <1>1
<1> QED
  BY <1>1, <1>2

(* A set of natural numbers has a least one. *)
LEMMA LeastThereIs ==
    ASSUME NEW T \in SUBSET Nat, T # {}
    PROVE  Min(T) \in T /\ \A y \in T : Min(T) <= y
<1>1. \E x \in T : \A y \in T : x <= y
  BY LeastNumber
<1> QED
  BY <1>1 DEF Min

(* The smaller of two. *)
LEMMA SmallerOf ==
    ASSUME NEW a \in Int, NEW b \in Int
    PROVE  Min({a, b}) = IF a <= b THEN a ELSE b
<1>1. CASE a <= b
  BY <1>1, LeastIs
<1>2. CASE ~(a <= b)
  BY <1>2, LeastIs
<1> QED
  BY <1>1, <1>2

-----------------------------------------------------------------------------
(* The loop upwards: the hits from k on, and what the loop computes for k. *)
UpTo(hits, k, to) == {h \in k .. to : h \in hits}
IsUpScan(g, hits, from, to) ==
    g = [k \in from .. to + 1 |-> IF k = to + 1 THEN npos ELSE IF k \in hits THEN k ELSE g[k + 1]]

(* One turn of it. *)
LEMMA UpStep ==
    ASSUME NEW hits, NEW k \in Int, NEW to \in Int, k <= to
    PROVE  SmallestOr(UpTo(hits, k, to)) = IF k \in hits THEN k ELSE SmallestOr(UpTo(hits, k + 1, to))
<1>1. CASE k \in hits
  <2>1. UpTo(hits, k, to) \in SUBSET Int /\ k \in UpTo(hits, k, to) /\ \A y \in UpTo(hits, k, to) : k <= y
    BY <1>1 DEF UpTo
  <2>2. Min(UpTo(hits, k, to)) = k
    BY <2>1, LeastIs
  <2> QED
    BY <1>1, <2>1, <2>2 DEF SmallestOr
<1>2. CASE k \notin hits
  <2>1. UpTo(hits, k, to) = UpTo(hits, k + 1, to)
    BY <1>2 DEF UpTo
  <2> QED
    BY <1>2, <2>1
<1> QED
  BY <1>1, <1>2

(* It finds the first hit. *)
LEMMA ScanUpIs ==
    ASSUME NEW hits, NEW from \in Nat, NEW to \in Int
    PROVE  ScanUp(hits, from, to) = SmallestOr(UpTo(hits, from, to))
<1>1. CASE from > to
  <2>1. UpTo(hits, from, to) = {}
    BY <1>1 DEF UpTo
  <2> QED
    BY <1>1, <2>1 DEF ScanUp, SmallestOr
<1>2. CASE ~(from > to)
  <2> DEFINE R == [k \in from .. to + 1 |-> SmallestOr(UpTo(hits, k, to))]
             F == CHOOSE g : IsUpScan(g, hits, from, to)
  <2>1. UpTo(hits, to + 1, to) = {}
    BY DEF UpTo
  <2>2. ASSUME NEW k \in from .. to + 1
        PROVE  R[k] = IF k = to + 1 THEN npos ELSE IF k \in hits THEN k ELSE R[k + 1]
    <3>1. CASE k = to + 1
      BY <3>1, <2>1 DEF SmallestOr
    <3>2. CASE k # to + 1
      <4>1. k \in Int /\ k <= to /\ k + 1 \in from .. to + 1
        BY <3>2
      <4>2. R[k + 1] = SmallestOr(UpTo(hits, k + 1, to))
        BY <4>1
      <4> QED
        BY <3>2, <4>1, <4>2, UpStep
    <3> QED
      BY <3>1, <3>2
  <2>3. IsUpScan(R, hits, from, to)
    BY <2>2 DEF IsUpScan
  <2> HIDE DEF R
  <2>4. IsUpScan(F, hits, from, to)
    BY <2>3
  <2>5. ScanUp(hits, from, to) = F[from]
    BY <1>2 DEF ScanUp, IsUpScan
  <2> HIDE DEF F
  <2>6. \A k \in from .. to + 1 : F[k] = SmallestOr(UpTo(hits, k, to))
    <3> DEFINE T == {n \in Nat : to + 1 - n >= from => F[to + 1 - n] = SmallestOr(UpTo(hits, to + 1 - n, to))}
    <3>1. 0 \in T
      <4>1. to + 1 - 0 = to + 1 /\ to + 1 \in from .. to + 1
        BY <1>2
      <4>2. F[to + 1] = npos
        BY <2>4, <4>1 DEF IsUpScan
      <4> QED
        BY <4>1, <4>2, <2>1 DEF SmallestOr
    <3>2. ASSUME NEW n \in T PROVE n + 1 \in T
      <4> SUFFICES ASSUME to + 1 - (n + 1) >= from
                   PROVE  F[to + 1 - (n + 1)] = SmallestOr(UpTo(hits, to + 1 - (n + 1), to))
        OBVIOUS
      <4>1. PICK k \in from .. to + 1 : k = to + 1 - (n + 1) /\ k + 1 = to + 1 - n /\ k <= to /\ k # to + 1
                                        /\ to + 1 - n >= from
        OBVIOUS
      <4>2. F[k + 1] = SmallestOr(UpTo(hits, k + 1, to))
        BY <4>1
      <4>3. F[k] = IF k \in hits THEN k ELSE F[k + 1]
        BY <2>4, <4>1 DEF IsUpScan
      <4> QED
        BY <4>1, <4>2, <4>3, UpStep
    <3>3. T = Nat
      <4>1. T \in SUBSET Nat
        OBVIOUS
      <4> HIDE DEF T
      <4> QED
        BY <3>1, <3>2, <4>1, SetInduction
    <3>4. ASSUME NEW k \in from .. to + 1 PROVE F[k] = SmallestOr(UpTo(hits, k, to))
      <4>1. PICK n \in Nat : n = to + 1 - k /\ to + 1 - n = k /\ to + 1 - n >= from
        OBVIOUS
      <4> QED
        BY <4>1, <3>3
    <3> QED
      BY <3>4
  <2>7. from \in from .. to + 1
    BY <1>2
  <2> QED
    BY <2>5, <2>6, <2>7
<1> QED
  BY <1>1, <1>2

(* The loop downwards: the hits up to k, and what the loop computes for k. *)
DownTo(hits, k) == {h \in 0 .. k : h \in hits}
IsDownScan(g, hits, from) ==
    g = [k \in 0 .. from |-> IF k \in hits THEN k ELSE IF k = 0 THEN npos ELSE g[k - 1]]

(* One turn of it. *)
LEMMA DownStep ==
    ASSUME NEW hits, NEW k \in Nat
    PROVE  LargestOr(DownTo(hits, k)) =
               IF k \in hits THEN k ELSE IF k = 0 THEN npos ELSE LargestOr(DownTo(hits, k - 1))
<1>1. CASE k \in hits
  <2>1. DownTo(hits, k) \in SUBSET Int /\ k \in DownTo(hits, k) /\ \A y \in DownTo(hits, k) : k >= y
    BY <1>1 DEF DownTo
  <2>2. Max(DownTo(hits, k)) = k
    BY <2>1, GreatestIs
  <2> QED
    BY <1>1, <2>1, <2>2 DEF LargestOr
<1>2. CASE k \notin hits /\ k = 0
  <2>1. DownTo(hits, k) = {}
    BY <1>2 DEF DownTo
  <2> QED
    BY <1>2, <2>1 DEF LargestOr
<1>3. CASE k \notin hits /\ k # 0
  <2>1. DownTo(hits, k) = DownTo(hits, k - 1)
    BY <1>3 DEF DownTo
  <2> QED
    BY <1>3, <2>1
<1> QED
  BY <1>1, <1>2, <1>3

(* It finds the last hit. *)
LEMMA ScanDownIs ==
    ASSUME NEW hits, NEW from \in Nat
    PROVE  ScanDown(hits, from) = LargestOr(DownTo(hits, from))
<1> DEFINE R == [k \in 0 .. from |-> LargestOr(DownTo(hits, k))]
           F == CHOOSE g : IsDownScan(g, hits, from)
<1>1. ASSUME NEW k \in 0 .. from
      PROVE  R[k] = IF k \in hits THEN k ELSE IF k = 0 THEN npos ELSE R[k - 1]
  <2>1. CASE k = 0
    BY <2>1, DownStep
  <2>2. CASE k # 0
    <3>1. k \in Nat /\ k - 1 \in 0 .. from
      BY <2>2
    <3>2. R[k - 1] = LargestOr(DownTo(hits, k - 1))
      BY <3>1
    <3> QED
      BY <2>2, <3>1, <3>2, DownStep
  <2> QED
    BY <2>1, <2>2
<1>2. IsDownScan(R, hits, from)
  BY <1>1 DEF IsDownScan
<1> HIDE DEF R
<1>3. IsDownScan(F, hits, from)
  BY <1>2
<1>4. ScanDown(hits, from) = F[from]
  BY DEF ScanDown, IsDownScan
<1> HIDE DEF F
<1> DEFINE T == {k \in Nat : k <= from => F[k] = LargestOr(DownTo(hits, k))}
<1>5. 0 \in T
  <2>1. F[0] = IF 0 \in hits THEN 0 ELSE npos
    BY <1>3 DEF IsDownScan
  <2> QED
    BY <2>1, DownStep
<1>6. ASSUME NEW n \in T PROVE n + 1 \in T
  <2> SUFFICES ASSUME n + 1 <= from PROVE F[n + 1] = LargestOr(DownTo(hits, n + 1))
    OBVIOUS
  <2>1. PICK k \in 0 .. from : k = n + 1 /\ k - 1 = n /\ k # 0 /\ n <= from
    OBVIOUS
  <2>2. F[k] = IF k \in hits THEN k ELSE F[k - 1]
    BY <1>3, <2>1 DEF IsDownScan
  <2>3. F[k - 1] = LargestOr(DownTo(hits, k - 1))
    BY <2>1
  <2> QED
    BY <2>1, <2>2, <2>3, DownStep
<1>7. T = Nat
  <2>1. T \in SUBSET Nat
    OBVIOUS
  <2> HIDE DEF T
  <2> QED
    BY <1>5, <1>6, <2>1, SetInduction
<1> QED
  BY <1>4, <1>7

(* What std::string promises of a search, for one text, pattern and start. *)
FindsAsStd(d, s, pos) == find(d, s, pos) = SmallestOr({i \in 0 .. Len(d) : i >= pos /\ Matches(d, s, i)})
RFindsAsStd(d, s, pos) == rfind(d, s, pos) = LargestOr({i \in 0 .. Len(d) : i <= pos /\ Matches(d, s, i)})

(* find, which relies on std::search. *)
LEMMA FindIs ==
    ASSUME NEW S, NEW d \in Seq(S), NEW s \in Seq(S), NEW pos \in Nat
    PROVE  FindsAsStd(d, s, pos)
<1>1. PICK n \in Nat, m \in Nat : n = Len(d) /\ m = Len(s)
  BY LenProperties
<1> DEFINE A == {i \in 0 .. n : i >= pos /\ Matches(d, s, i)}
           B == {i \in pos .. n : Matches(d, s, i)}
<1>2. A = B
  OBVIOUS
<1>3. \A i \in A : i + m <= n
  BY <1>1 DEF Matches
<1>4. StdSearch(d, pos, s) = IF B = {} THEN n ELSE Min(B)
  BY <1>1 DEF StdSearch
<1>5. find(d, s, pos) = IF pos <= n /\ m <= n - pos /\ (StdSearch(d, pos, s) # n \/ m = 0)
                        THEN StdSearch(d, pos, s) ELSE npos
  BY <1>1 DEF find
<1>6. A \in SUBSET Nat /\ \A i \in A : i >= pos /\ i <= n
  OBVIOUS
<1>7. m = 0 /\ pos <= n => pos \in A
  <2> SUFFICES ASSUME m = 0, pos <= n PROVE Matches(d, s, pos)
    OBVIOUS
  <2>1. s = <<>>
    BY <1>1, EmptySeq
  <2>2. SubSeq(d, pos + 1, pos + m) = <<>>
    BY SubSeqEmpty
  <2> QED
    BY <2>1, <2>2, <1>1 DEF Matches
<1> HIDE DEF A, B
<1>8. CASE A = {}
  <2>1. StdSearch(d, pos, s) = n
    BY <1>2, <1>4, <1>8
  <2>2. find(d, s, pos) = npos
    BY <2>1, <1>5, <1>7, <1>8
  <2> QED
    BY <2>2, <1>1, <1>8 DEF FindsAsStd, SmallestOr, A
<1>9. CASE A # {}
  <2>1. PICK i \in A : i = Min(A)
    BY <1>6, <1>9, LeastThereIs
  <2>2. i \in Nat /\ i >= pos /\ i + m <= n /\ pos <= n /\ m <= n - pos
    BY <1>3, <1>6
  <2>3. StdSearch(d, pos, s) = i
    BY <2>1, <1>2, <1>4, <1>9
  <2>4. i # n \/ m = 0
    BY <2>2
  <2>5. find(d, s, pos) = i
    BY <2>2, <2>3, <2>4, <1>5
  <2> QED
    BY <2>1, <2>5, <1>1, <1>9 DEF FindsAsStd, SmallestOr, A
<1> QED
  BY <1>8, <1>9

(* rfind compares at every place from the last possible one downwards. *)
LEMMA RFindIs ==
    ASSUME NEW S, NEW d \in Seq(S), NEW s \in Seq(S), NEW pos \in Nat
    PROVE  RFindsAsStd(d, s, pos)
<1>1. PICK n \in Nat, m \in Nat : n = Len(d) /\ m = Len(s)
  BY LenProperties
<1> DEFINE H == {i \in 0 .. Len(d) : Matches(d, s, i)}
           A == {i \in 0 .. Len(d) : i <= pos /\ Matches(d, s, i)}
<1>2. \A i \in H : i + m <= n /\ i \in Nat
  BY <1>1 DEF Matches
<1>3. CASE m <= n
  <2>1. PICK k \in Nat : k = Min({n - m, pos}) /\ k = IF n - m <= pos THEN n - m ELSE pos
    BY <1>3, SmallerOf
  <2>2. rfind(d, s, pos) = ScanDown(H, k)
    BY <2>1, <1>1, <1>3 DEF rfind
  <2>3. DownTo(H, k) = A
    <3>1. ASSUME NEW i \in A PROVE i \in DownTo(H, k)
      BY <2>1, <1>1, <1>2 DEF DownTo
    <3>2. ASSUME NEW i \in DownTo(H, k) PROVE i \in A
      BY <2>1, <1>1 DEF DownTo
    <3> QED
      BY <3>1, <3>2
  <2> QED
    BY <2>2, <2>3, ScanDownIs DEF RFindsAsStd
<1>4. CASE ~(m <= n)
  <2>1. A = {}
    BY <1>1, <1>2, <1>4
  <2> QED
    BY <2>1, <1>1, <1>4 DEF rfind, RFindsAsStd, LargestOr
<1> QED
  BY <1>3, <1>4

-----------------------------------------------------------------------------
(* The searches for characters. *)
FirstHit(d, hits, pos) == SmallestOr({i \in {j \in 0 .. Len(d) - 1 : j >= pos} : i \in hits})
LastHit(d, hits, pos) == LargestOr({i \in {j \in 0 .. Len(d) - 1 : j <= pos} : i \in hits})

(* The loop upwards over a text. *)
LEMMA FirstHitIs ==
    ASSUME NEW S, NEW d \in Seq(S), NEW hits, NEW pos \in Nat
    PROVE  ScanUp(hits, pos, Len(d) - 1) = FirstHit(d, hits, pos)
<1>1. PICK n \in Nat : n = Len(d)
  BY LenProperties
<1>2. UpTo(hits, pos, n - 1) = {i \in {j \in 0 .. n - 1 : j >= pos} : i \in hits}
  BY DEF UpTo
<1> QED
  <2>1. PICK t \in Int : t = n - 1
    OBVIOUS
  <2>2. ScanUp(hits, pos, t) = SmallestOr(UpTo(hits, pos, t))
    BY ScanUpIs
  <2> QED
    BY <2>1, <2>2, <1>1, <1>2 DEF FirstHit

(* The loop downwards over a text that is not empty. *)
LEMMA LastHitIs ==
    ASSUME NEW S, NEW d \in Seq(S), Len(d) > 0, NEW hits, NEW pos \in Nat
    PROVE  ScanDown(hits, StartDown(d, pos)) = LastHit(d, hits, pos)
<1>1. PICK n \in Nat : n = Len(d) /\ n > 0
  BY LenProperties
<1>2. PICK k \in Nat : k = StartDown(d, pos) /\ k = IF n - 1 > pos THEN pos ELSE n - 1
  <2>1. (IF n - 1 > pos THEN pos ELSE n - 1) \in Nat
    BY <1>1
  <2> QED
    BY <2>1, <1>1 DEF StartDown
<1>3. DownTo(hits, k) = {i \in {j \in 0 .. n - 1 : j <= pos} : i \in hits}
  BY <1>2 DEF DownTo
<1> QED
  BY <1>1, <1>2, <1>3, ScanDownIs DEF LastHit

(* Without hits nothing is found. *)
LEMMA NoHit ==
    ASSUME NEW S, NEW d \in Seq(S), NEW hits, NEW pos \in Nat,
           Len(d) = 0 \/ hits = {}
    PROVE  FirstHit(d, hits, pos) = npos /\ LastHit(d, hits, pos) = npos
  BY DEF FirstHit, LastHit, SmallestOr, LargestOr

(* What std::string promises of the searches for characters. *)
CharsAsStd(d, s, pos) ==
    LET up == {i \in 0 .. Len(d) - 1 : i >= pos}
        down == {i \in 0 .. Len(d) - 1 : i <= pos}
    IN  /\ find_first_of(d, s, pos) = SmallestOr({i \in up : Among(d, s, i)})
        /\ find_last_of(d, s, pos) = LargestOr({i \in down : Among(d, s, i)})
        /\ find_first_not_of(d, s, pos) = SmallestOr({i \in up : ~Among(d, s, i)})
        /\ find_last_not_of(d, s, pos) = LargestOr({i \in down : ~Among(d, s, i)})

(* The four searches for one of some characters, or for any other one. *)
LEMMA CharsFound ==
    ASSUME NEW S, NEW d \in Seq(S), NEW s \in Seq(S), NEW pos \in Nat
    PROVE  /\ CharsAsStd(d, s, pos)
           /\ Len(s) = 1 => /\ find_char(d, s[1], pos) = find_first_of(d, s, pos)
                            /\ rfind_char(d, s[1], pos) = find_last_of(d, s, pos)
<1>1. Len(d) \in Nat /\ Len(s) \in Nat
  BY LenProperties
<1>2. FirstHit(d, PlacesOf(d, s), pos) = SmallestOr({i \in {j \in 0 .. Len(d) - 1 : j >= pos} : Among(d, s, i)})
  <2>1. {i \in {j \in 0 .. Len(d) - 1 : j >= pos} : i \in PlacesOf(d, s)}
            = {i \in {j \in 0 .. Len(d) - 1 : j >= pos} : Among(d, s, i)}
    BY DEF PlacesOf
  <2> QED
    BY <2>1 DEF FirstHit
<1>3. LastHit(d, PlacesOf(d, s), pos) = LargestOr({i \in {j \in 0 .. Len(d) - 1 : j <= pos} : Among(d, s, i)})
  <2>1. {i \in {j \in 0 .. Len(d) - 1 : j <= pos} : i \in PlacesOf(d, s)}
            = {i \in {j \in 0 .. Len(d) - 1 : j <= pos} : Among(d, s, i)}
    BY DEF PlacesOf
  <2> QED
    BY <2>1 DEF LastHit
<1>4. FirstHit(d, PlacesNotOf(d, s), pos) = SmallestOr({i \in {j \in 0 .. Len(d) - 1 : j >= pos} : ~Among(d, s, i)})
  <2>1. {i \in {j \in 0 .. Len(d) - 1 : j >= pos} : i \in PlacesNotOf(d, s)}
            = {i \in {j \in 0 .. Len(d) - 1 : j >= pos} : ~Among(d, s, i)}
    BY DEF PlacesNotOf
  <2> QED
    BY <2>1 DEF FirstHit
<1>5. LastHit(d, PlacesNotOf(d, s), pos) = LargestOr({i \in {j \in 0 .. Len(d) - 1 : j <= pos} : ~Among(d, s, i)})
  <2>1. {i \in {j \in 0 .. Len(d) - 1 : j <= pos} : i \in PlacesNotOf(d, s)}
            = {i \in {j \in 0 .. Len(d) - 1 : j <= pos} : ~Among(d, s, i)}
    BY DEF PlacesNotOf
  <2> QED
    BY <2>1 DEF LastHit
<1>6. Len(s) = 0 => PlacesOf(d, s) = {}
  BY DEF PlacesOf, Among
<1>7. find_first_of(d, s, pos) = FirstHit(d, PlacesOf(d, s), pos)
  <2>1. CASE Len(s) > 0
    BY <2>1, FirstHitIs DEF find_first_of
  <2>2. CASE Len(s) = 0
    <3>1. FirstHit(d, PlacesOf(d, s), pos) = npos
      BY <2>2, <1>6, NoHit
    <3> QED
      BY <2>2, <3>1 DEF find_first_of
  <2> QED
    BY <2>1, <2>2, <1>1
<1>8. find_last_of(d, s, pos) = LastHit(d, PlacesOf(d, s), pos)
  <2>1. CASE Len(d) > 0 /\ Len(s) > 0
    BY <2>1, LastHitIs DEF find_last_of
  <2>2. CASE Len(d) = 0 \/ Len(s) = 0
    <3>1. LastHit(d, PlacesOf(d, s), pos) = npos
      BY <2>2, <1>6, NoHit
    <3> QED
      BY <2>2, <3>1 DEF find_last_of
  <2> QED
    BY <2>1, <2>2, <1>1
<1>9. find_first_not_of(d, s, pos) = FirstHit(d, PlacesNotOf(d, s), pos)
  BY FirstHitIs DEF find_first_not_of
<1>10. find_last_not_of(d, s, pos) = LastHit(d, PlacesNotOf(d, s), pos)
  <2>1. CASE Len(d) > 0
    BY <2>1, LastHitIs DEF find_last_not_of
  <2>2. CASE Len(d) = 0
    <3>1. LastHit(d, PlacesNotOf(d, s), pos) = npos
      BY <2>2, NoHit
    <3> QED
      BY <2>2, <3>1 DEF find_last_not_of
  <2> QED
    BY <2>1, <2>2, <1>1
<1>11. ASSUME Len(s) = 1
       PROVE  /\ find_char(d, s[1], pos) = find_first_of(d, s, pos)
              /\ rfind_char(d, s[1], pos) = find_last_of(d, s, pos)
  <2> DEFINE H == {i \in 0 .. Len(d) - 1 : CharAt(d, i) = s[1]}
  <2>1. H = PlacesOf(d, s)
    <3>1. ASSUME NEW i \in 0 .. Len(d) - 1 PROVE CharAt(d, i) = s[1] <=> Among(d, s, i)
      BY <1>11 DEF Among
    <3> QED
      BY <3>1 DEF PlacesOf
  <2>2. find_char(d, s[1], pos) = IF pos < Len(d) THEN ScanUp(H, pos, Len(d) - 1) ELSE npos
    BY DEF find_char
  <2>3. rfind_char(d, s[1], pos) = IF Len(d) > 0 THEN ScanDown(H, StartDown(d, pos)) ELSE npos
    BY DEF rfind_char
  <2> HIDE DEF H
  <2>4. pos < Len(d) \/ ScanUp(H, pos, Len(d) - 1) = npos
    <3>1. pos > Len(d) - 1 \/ pos < Len(d)
      BY <1>1
    <3> QED
      BY <3>1 DEF ScanUp
  <2>5. find_first_of(d, s, pos) = ScanUp(H, pos, Len(d) - 1)
    BY <2>1, <1>11 DEF find_first_of
  <2>6. find_last_of(d, s, pos) = IF Len(d) > 0 THEN ScanDown(H, StartDown(d, pos)) ELSE npos
    BY <2>1, <1>11 DEF find_last_of
  <2> QED
    BY <2>2, <2>3, <2>4, <2>5, <2>6
<1>12. CharsAsStd(d, s, pos)
  BY <1>2, <1>3, <1>4, <1>5, <1>7, <1>8, <1>9, <1>10 DEF CharsAsStd
<1> QED
  BY <1>11, <1>12

(* The unsigned difference of two lengths becomes the difference, if an int *)
(* has room for it.                                                         *)
LEMMA DifferenceIs ==
    ASSUME NEW k \in -(IntHalf - 1) .. IntHalf - 1
    PROVE  ToInt(k % (SizeMax + 1)) = k
<1>1. /\ SizeMax \in Nat /\ IntHalf \in Nat \ {0}
      /\ (SizeMax + 1) % (2 * IntHalf) = 0
  BY PieceAssumption
<1>2. PICK h \in Nat \ {0}, M \in Nat \ {0} : h = IntHalf /\ M = 2 * h
  BY <1>1
<1>3. PICK N \in Nat \ {0} : N = SizeMax + 1
  BY <1>1
<1>4. N % M = 0
  BY <1>1, <1>2, <1>3
<1>5. PICK q \in Int : N = M * q
  <2>1. N \div M \in Int /\ N = M * (N \div M) + (N % M)
    OBVIOUS
  <2>2. N = M * (N \div M)
    BY <2>1, <1>4
  <2> QED
    BY <2>1, <2>2
<1>6. PICK c \in Int, t \in 0 .. N - 1 : t = k % N /\ k = N * c + t
  <2>1. k \in Int
    BY <1>1
  <2>2. k \div N \in Int /\ k % N \in 0 .. N - 1 /\ k = N * (k \div N) + (k % N)
    BY <2>1
  <2> QED
    BY <2>2
<1>7. PICK a \in Int : k % N = N * a + k
  <2>1. N * (-c) + N * c = 0 /\ -c \in Int
    OBVIOUS
  <2>2. t = N * (-c) + k
    BY <2>1, <1>6
  <2> QED
    BY <2>1, <2>2, <1>6
<1>8. PICK b \in Int : k % N = M * b + k
  <2>1. N * a = M * (q * a)
    BY <1>5
  <2>2. q * a \in Int
    OBVIOUS
  <2> QED
    BY <2>1, <2>2, <1>7
<1>9. CASE k >= 0
  <2>1. k \in 0 .. M - 1 /\ k < h
    BY <1>2, <1>9
  <2>2. (M * b + k) % M = k
    BY <2>1, ModUnique
  <2> QED
    BY <2>1, <2>2, <1>2, <1>3, <1>8 DEF ToInt
<1>10. CASE ~(k >= 0)
  <2>1. PICK r \in 0 .. M - 1 : r = k + M /\ r >= h /\ r - M = k
    BY <1>2, <1>10
  <2>2. M * b + k = M * (b - 1) + r
    BY <2>1
  <2>3. (M * (b - 1) + r) % M = r
    BY ModUnique
  <2> QED
    BY <2>1, <2>2, <2>3, <1>2, <1>3, <1>8 DEF ToInt
<1> QED
  BY <1>9, <1>10

(* What is said of compare, for two texts. *)
OrderedAs(d, e) ==
    Len(d) - Len(e) \in -(IntHalf - 1) .. IntHalf - 1
        => /\ compare(d, e) < 0 <=> Before(d, e)
           /\ compare(d, e) = 0 <=> d = e

(* compare orders two texts. *)
LEMMA CompareIs ==
    ASSUME NEW S, NEW d \in Seq(S), NEW e \in Seq(S)
    PROVE  OrderedAs(d, e)
<1>1. PICK n \in Nat, m \in Nat : n = Len(d) /\ m = Len(e)
  BY LenProperties
<1>2. PICK l \in Nat : l = Min({n, m}) /\ l = IF n <= m THEN n ELSE m
  BY SmallerOf
<1> DEFINE differ == {i \in 1 .. l : d[i] # e[i]}
<1>3. PICK r \in {-1, 0, 1} : r = StdCompare(d, e, l) /\ (r = 0 <=> differ = {})
  BY DEF StdCompare
<1>4. compare(d, e) = IF r = 0 THEN LengthsCompared(d, e) ELSE r
  BY <1>1, <1>2, <1>3 DEF compare
<1>5. Before(d, e) <=> r < 0 \/ (n < m /\ IsPrefix(d, e))
  BY <1>1, <1>2, <1>3 DEF Before
<1>6. CASE differ # {}
  <2>1. PICK i \in 1 .. l : d[i] # e[i]
    BY <1>6
  <2>2. i \in 1 .. n /\ i \in 1 .. m
    BY <2>1, <1>2
  <2>3. d # e
    BY <2>1
  <2>4. ~(n < m /\ IsPrefix(d, e))
    <3> SUFFICES ASSUME n < m, IsPrefix(d, e) PROVE FALSE
      OBVIOUS
    <3>1. SubSeq(d, 1, n) = SubSeq(e, 1, n)
      BY <1>1 DEF IsPrefix
    <3>2. SubSeq(d, 1, n)[i] = d[i] /\ SubSeq(e, 1, n)[i] = e[i]
      BY <2>2, <1>1, PrefixTaken
    <3> QED
      BY <2>1, <3>1, <3>2
  <2>5. r # 0 /\ compare(d, e) = r
    BY <1>3, <1>4, <1>6
  <2> QED
    BY <2>3, <2>4, <2>5, <1>3, <1>5 DEF OrderedAs
<1>7. CASE differ = {}
  <2>1. r = 0 /\ \A i \in 1 .. l : d[i] = e[i]
    BY <1>3, <1>7
  <2>2. n = m <=> d = e
    <3>1. ASSUME n = m PROVE d = e
      BY <2>1, <3>1, <1>1, <1>2, SeqEqual
    <3> QED
      BY <3>1, <1>1
  <2>3. n < m => IsPrefix(d, e)
    <3> SUFFICES ASSUME n < m PROVE SubSeq(d, 1, n) = SubSeq(e, 1, n)
      BY <1>1 DEF IsPrefix
    <3>1. n \in 0 .. Len(d) /\ n \in 0 .. Len(e) /\ n = l
      BY <1>1, <1>2
    <3>2. /\ SubSeq(d, 1, n) \in Seq(S) /\ Len(SubSeq(d, 1, n)) = n
          /\ \A i \in 1 .. n : SubSeq(d, 1, n)[i] = d[i]
      BY <3>1, PrefixTaken
    <3>3. /\ SubSeq(e, 1, n) \in Seq(S) /\ Len(SubSeq(e, 1, n)) = n
          /\ \A i \in 1 .. n : SubSeq(e, 1, n)[i] = e[i]
      BY <3>1, PrefixTaken
    <3>4. PICK a \in Seq(S), b \in Seq(S) : a = SubSeq(d, 1, n) /\ b = SubSeq(e, 1, n) /\ Len(a) = n /\ Len(b) = n
      BY <3>2, <3>3
    <3>5. \A i \in 1 .. n : a[i] = b[i]
      BY <2>1, <3>1, <3>2, <3>3, <3>4
    <3>6. a = b
      BY <3>4, <3>5, SeqEqual
    <3> QED
      BY <3>4, <3>6
  <2>4. ASSUME n - m \in -(IntHalf - 1) .. IntHalf - 1 PROVE compare(d, e) = n - m
    <3>1. ToInt((n - m) % (SizeMax + 1)) = n - m
      BY <2>4, DifferenceIs
    <3> QED
      BY <3>1, <2>1, <1>1, <1>4 DEF LengthsCompared
  <2> QED
    BY <2>1, <2>2, <2>3, <2>4, <1>1, <1>5 DEF OrderedAs
<1> QED
  BY <1>6, <1>7

(* Of n characters from the a-th on: their number, and each of them. *)
LEMMA CutIs ==
    ASSUME NEW S, NEW x \in Seq(S), NEW a \in Nat, NEW n \in Nat, a + n <= Len(x)
    PROVE  LET r == SubSeq(x, a + 1, a + n)
           IN  r \in Seq(S) /\ Len(r) = n /\ \A i \in 1 .. n : r[i] = x[a + i]
<1>1. PICK lo \in Int, hi \in Int : lo = a + 1 /\ hi = a + n
  OBVIOUS
<1>2. Len(x) \in Nat /\ \A i \in 1 .. Len(x) : x[i] \in S
  BY LenProperties
<1>3. \A i \in lo .. hi : x[i] \in S
  BY <1>1, <1>2
<1>4. /\ SubSeq(x, lo, hi) \in Seq(S)
      /\ Len(SubSeq(x, lo, hi)) = IF lo <= hi THEN hi - lo + 1 ELSE 0
      /\ \A i \in 1 .. hi - lo + 1 : SubSeq(x, lo, hi)[i] = x[lo + i - 1]
  BY <1>3, SubSeqProperties
<1>5. (IF lo <= hi THEN hi - lo + 1 ELSE 0) = n /\ hi - lo + 1 = n
  BY <1>1
<1>6. ASSUME NEW i \in 1 .. n PROVE SubSeq(x, lo, hi)[i] = x[a + i]
  <2>1. lo + i - 1 = a + i
    BY <1>1
  <2> QED
    BY <2>1, <1>4, <1>5
<1> QED
  BY <1>1, <1>4, <1>5, <1>6

(* A cut of a cut is a cut of the text. *)
LEMMA CutCut ==
    ASSUME NEW S, NEW x \in Seq(S), NEW a \in Nat, NEW n \in Nat, a + n <= Len(x),
           NEW b \in Nat, NEW k \in Nat, b + k <= n
    PROVE  SubSeq(SubSeq(x, a + 1, a + n), b + 1, b + k) = SubSeq(x, (a + b) + 1, (a + b) + k)
<1>1. PICK y \in Seq(S) : y = SubSeq(x, a + 1, a + n) /\ Len(y) = n /\ \A i \in 1 .. n : y[i] = x[a + i]
  <2>1. /\ SubSeq(x, a + 1, a + n) \in Seq(S) /\ Len(SubSeq(x, a + 1, a + n)) = n
        /\ \A i \in 1 .. n : SubSeq(x, a + 1, a + n)[i] = x[a + i]
    BY CutIs
  <2> QED
    BY <2>1
<1>2. b + k <= Len(y)
  BY <1>1
<1>3. PICK u \in Seq(S) : u = SubSeq(y, b + 1, b + k) /\ Len(u) = k /\ \A i \in 1 .. k : u[i] = y[b + i]
  <2>1. /\ SubSeq(y, b + 1, b + k) \in Seq(S) /\ Len(SubSeq(y, b + 1, b + k)) = k
        /\ \A i \in 1 .. k : SubSeq(y, b + 1, b + k)[i] = y[b + i]
    BY <1>2, CutIs
  <2> QED
    BY <2>1
<1>4. PICK e \in Nat : e = a + b /\ e + k <= Len(x)
  BY LenProperties
<1>5. PICK v \in Seq(S) : v = SubSeq(x, e + 1, e + k) /\ Len(v) = k /\ \A i \in 1 .. k : v[i] = x[e + i]
  <2>1. /\ SubSeq(x, e + 1, e + k) \in Seq(S) /\ Len(SubSeq(x, e + 1, e + k)) = k
        /\ \A i \in 1 .. k : SubSeq(x, e + 1, e + k)[i] = x[e + i]
    BY <1>4, CutIs
  <2> QED
    BY <2>1
<1>6. ASSUME NEW i \in 1 .. k PROVE u[i] = v[i]
  <2>1. b + i \in 1 .. n /\ a + (b + i) = e + i
    BY <1>4
  <2> QED
    BY <2>1, <1>1, <1>3, <1>5
<1>7. u = v
  BY <1>3, <1>5, <1>6, SeqEqual
<1> QED
  BY <1>1, <1>3, <1>4, <1>5, <1>7

(* n characters from the a-th on are inside the text x, and they are c. *)
Shows(x, a, n, c) == a \in Nat /\ n \in Nat /\ a + n <= Len(x) /\ c = SubSeq(x, a + 1, a + n)

PieceInv ==
    /\ text \in Text
    /\ mStr \in [Piece -> Nat] /\ mLength \in [Piece -> Nat] /\ content \in [Piece -> Seq(Char)]
    /\ \A p \in Piece : Shows(text, mStr[p], mLength[p], content[p])

(* What a piece shows is as long as the piece says. *)
LEMMA ShownLength ==
    ASSUME NEW x \in Seq(Char), NEW a, NEW n, NEW c, Shows(x, a, n, c)
    PROVE  /\ a \in Nat /\ n \in Nat /\ Len(x) \in Nat /\ a + n <= Len(x)
           /\ c \in Seq(Char) /\ Len(c) = n
<1>1. a \in Nat /\ n \in Nat /\ a + n <= Len(x) /\ c = SubSeq(x, a + 1, a + n)
  BY DEF Shows
<1>2. Len(x) \in Nat
  BY LenProperties
<1> QED
  BY <1>1, <1>2, CutIs

(* A piece that shows something still does when it is cut. *)
LEMMA ShownCut ==
    ASSUME NEW x \in Seq(Char), NEW a, NEW n, NEW c, Shows(x, a, n, c),
           NEW b \in Nat, NEW k \in Nat, b + k <= n
    PROVE  Shows(x, a + b, k, SubSeq(c, b + 1, b + k))
<1>1. a \in Nat /\ n \in Nat /\ a + n <= Len(x) /\ c = SubSeq(x, a + 1, a + n) /\ Len(x) \in Nat
  BY ShownLength DEF Shows
<1>2. SubSeq(c, b + 1, b + k) = SubSeq(x, (a + b) + 1, (a + b) + k)
  BY <1>1, CutCut
<1>3. a + b \in Nat /\ (a + b) + k <= Len(x)
  BY <1>1
<1> QED
  BY <1>2, <1>3 DEF Shows

(* One piece is given another part of the text to show. *)
LEMMA OnePieceCut ==
    ASSUME PieceInv, NEW p \in Piece, NEW a, NEW n, NEW c, Shows(text, a, n, c), UNCHANGED text,
           mStr' = [mStr EXCEPT ![p] = a], mLength' = [mLength EXCEPT ![p] = n],
           content' = [content EXCEPT ![p] = c]
    PROVE  PieceInv'
<1>1. text \in Text /\ text \in Seq(Char)
  BY PieceAssumption DEF PieceInv
<1>2. a \in Nat /\ n \in Nat /\ c \in Seq(Char)
  BY <1>1, ShownLength
<1>3. mStr' \in [Piece -> Nat] /\ mLength' \in [Piece -> Nat] /\ content' \in [Piece -> Seq(Char)]
  BY <1>2 DEF PieceInv
<1>4. ASSUME NEW q \in Piece PROVE Shows(text, mStr'[q], mLength'[q], content'[q])
  <2>1. CASE q = p
    BY <2>1 DEF PieceInv
  <2>2. CASE q # p
    BY <2>2 DEF PieceInv
  <2> QED
    BY <2>1, <2>2
<1> QED
  BY <1>1, <1>3, <1>4 DEF PieceInv

(* An empty piece shows nothing, and that is inside every text. *)
LEMMA ShowsNothing ==
    ASSUME NEW x \in Seq(Char)
    PROVE  Shows(x, 0, 0, <<>>)
<1>1. SubSeq(x, 0 + 1, 0 + 0) = <<>>
  BY SubSeqEmpty
<1>2. Len(x) \in Nat
  BY LenProperties
<1> QED
  BY <1>1, <1>2 DEF Shows

(* Where the pieces begin. *)
LEMMA PieceInitially == PieceInit => PieceInv
<1> SUFFICES ASSUME PieceInit PROVE PieceInv
  OBVIOUS
<1>1. text \in Text /\ text \in Seq(Char)
  BY PieceAssumption DEF PieceInit
<1>2. Shows(text, 0, 0, <<>>) /\ <<>> \in Seq(Char)
  BY <1>1, ShowsNothing, EmptySeq
<1> QED
  BY <1>1, <1>2 DEF PieceInit, PieceInv

(* set: a part of the text. *)
LEMMA PieceSetKeeps ==
    ASSUME PieceInv, NEW p \in Piece, NEW off \in Nat, NEW len \in Nat, PieceSet(p, off, len)
    PROVE  PieceInv'
<1>1. Shows(text, off, len, SubSeq(text, off + 1, off + len))
  BY DEF Shows, PieceSet
<1> QED
  BY <1>1, OnePieceCut DEF PieceSet

(* clear. *)
LEMMA PieceClearKeeps ==
    ASSUME PieceInv, NEW p \in Piece, PieceClear(p)
    PROVE  PieceInv'
<1>1. text \in Seq(Char)
  BY PieceAssumption DEF PieceInv
<1> QED
  BY <1>1, ShowsNothing, OnePieceCut DEF PieceClear

(* swap: each shows what the other showed. *)
LEMMA PieceSwapKeeps ==
    ASSUME PieceInv, NEW p \in Piece, NEW q \in Piece, PieceSwap(p, q)
    PROVE  PieceInv'
<1>1. text' \in Text
  BY DEF PieceInv, PieceSwap
<1>2. mStr' \in [Piece -> Nat] /\ mLength' \in [Piece -> Nat] /\ content' \in [Piece -> Seq(Char)]
  BY DEF PieceInv, PieceSwap
<1>3. ASSUME NEW r \in Piece PROVE Shows(text', mStr'[r], mLength'[r], content'[r])
  <2>1. text' = text
    BY DEF PieceSwap
  <2>2. CASE r = p
    BY <2>1, <2>2 DEF PieceInv, PieceSwap
  <2>3. CASE r = q
    BY <2>1, <2>3 DEF PieceInv, PieceSwap
  <2>4. CASE r # p /\ r # q
    BY <2>1, <2>4 DEF PieceInv, PieceSwap
  <2> QED
    BY <2>2, <2>3, <2>4
<1> QED
  BY <1>1, <1>2, <1>3 DEF PieceInv

(* A call that throws has changed nothing. *)
LEMMA PieceThrowsKeeps == PieceInv /\ UNCHANGED pieceVars => PieceInv'
  BY DEF PieceInv, pieceVars

(* What every piece may rely on, in one place. *)
LEMMA PieceFacts ==
    ASSUME PieceInv, NEW p \in Piece
    PROVE  /\ text \in Seq(Char) /\ Len(text) \in Nat /\ Len(text) < SizeMax /\ SizeMax \in Nat
           /\ Shows(text, mStr[p], mLength[p], content[p])
           /\ mStr[p] \in Nat /\ mLength[p] \in Nat /\ mStr[p] + mLength[p] <= Len(text)
           /\ content[p] \in Seq(Char) /\ Len(content[p]) = mLength[p]
<1>1. text \in Text /\ text \in Seq(Char)
  BY PieceAssumption DEF PieceInv
<1>2. Shows(text, mStr[p], mLength[p], content[p])
  BY DEF PieceInv
<1>3. Len(text) < SizeMax /\ SizeMax \in Nat
  BY <1>1, PieceAssumption
<1> QED
  BY <1>1, <1>2, <1>3, ShownLength

(* remove_prefix: the rest is shown, if there are n characters. *)
LEMMA RemovePrefixKeeps ==
    ASSUME PieceInv, NEW p \in Piece, NEW n \in Nat, RemovePrefix(p, n)
    PROVE  PieceInv'
<1>1. CASE mLength[p] < n /\ PieceThrows
  BY <1>1, PieceThrowsKeeps DEF PieceThrows
<1>2. CASE mLength[p] >= n /\ ~(mLength[p] < n /\ PieceThrows)
  <2>1. PICK a \in Nat, l \in Nat, k \in Nat : a = mStr[p] /\ l = mLength[p] /\ k = l - n
    BY <1>2, PieceFacts
  <2>2. content[p] \in Seq(Char) /\ Len(content[p]) = l /\ n + k = l /\ text \in Seq(Char)
    BY <2>1, PieceFacts
  <2>3. Shows(text, a + n, k, SubSeq(content[p], n + 1, n + k))
    <3>1. Shows(text, a, l, content[p])
      BY <2>1 DEF PieceInv
    <3>2. n + k <= l
      BY <2>2
    <3> QED
      BY <2>2, <3>1, <3>2, ShownCut
  <2>4. /\ mStr' = [mStr EXCEPT ![p] = a + n] /\ mLength' = [mLength EXCEPT ![p] = k]
        /\ content' = [content EXCEPT ![p] = SubSeq(content[p], n + 1, l)]
        /\ UNCHANGED text
    BY <1>2, <2>1, <2>2 DEF RemovePrefix
  <2> QED
    BY <2>2, <2>3, <2>4, OnePieceCut
<1> QED
  BY <1>1, <1>2 DEF RemovePrefix

(* remove_suffix: the beginning is shown, if there are n characters. *)
LEMMA RemoveSuffixKeeps ==
    ASSUME PieceInv, NEW p \in Piece, NEW n \in Nat, RemoveSuffix(p, n)
    PROVE  PieceInv'
<1>1. CASE mLength[p] < n /\ PieceThrows
  BY <1>1, PieceThrowsKeeps DEF PieceThrows
<1>2. CASE mLength[p] >= n /\ ~(mLength[p] < n /\ PieceThrows)
  <2>1. PICK a \in Nat, l \in Nat, k \in Nat : a = mStr[p] /\ l = mLength[p] /\ k = l - n
    BY <1>2, PieceFacts
  <2>2. /\ content[p] \in Seq(Char) /\ Len(content[p]) = l /\ text \in Seq(Char)
        /\ 0 + k <= l /\ a + 0 = a /\ 0 + 1 = 1 /\ 0 + k = k
    <3>1. content[p] \in Seq(Char) /\ Len(content[p]) = l /\ text \in Seq(Char)
      BY <2>1, PieceFacts
    <3>2. 0 + k <= l /\ a + 0 = a /\ 0 + 1 = 1 /\ 0 + k = k
      BY <2>1
    <3> QED
      BY <3>1, <3>2
  <2>3. Shows(text, a + 0, k, SubSeq(content[p], 0 + 1, 0 + k))
    BY <2>1, <2>2, PieceFacts, ShownCut
  <2>4. Shows(text, a, k, SubSeq(content[p], 1, k))
    BY <2>2, <2>3
  <2>5. mStr' = [mStr EXCEPT ![p] = a]
    BY <1>2, <2>1 DEF RemoveSuffix, PieceInv
  <2>6. /\ mLength' = [mLength EXCEPT ![p] = k]
        /\ content' = [content EXCEPT ![p] = SubSeq(content[p], 1, k)]
        /\ UNCHANGED text
    BY <1>2, <2>1, <2>2 DEF RemoveSuffix
  <2> QED
    BY <2>4, <2>5, <2>6, OnePieceCut
<1> QED
  BY <1>1, <1>2 DEF RemoveSuffix

(* substr: len characters from pos on, or fewer at the end, in any piece. *)
LEMMA SubstrKeeps ==
    ASSUME PieceInv, NEW p \in Piece, NEW q \in Piece, NEW pos \in Nat, NEW len \in Nat,
           len <= Len(text) \/ len = npos, Substr(q, p, pos, len)
    PROVE  PieceInv'
<1>1. CASE pos > size(p) /\ PieceThrows
  BY <1>1, PieceThrowsKeeps DEF PieceThrows
<1>2. CASE pos <= size(p) /\ ~(pos > size(p) /\ PieceThrows)
  <2>1. PICK a \in Nat, l \in Nat : a = mStr[p] /\ l = mLength[p]
    BY PieceFacts
  <2>2. /\ content[p] \in Seq(Char) /\ Len(content[p]) = l /\ text \in Seq(Char)
        /\ pos <= l /\ l < SizeMax /\ SizeMax \in Nat
    BY <1>2, <2>1, PieceFacts DEF size
  <2>3. PICK k \in Nat : k = IF l - pos <= len THEN l - pos ELSE len
    <3>1. l - pos \in Nat
      BY <2>2
    <3> QED
      BY <3>1
  <2>4. SubstrLength(p, pos, len) = k
    <3>1. size(p) = l
      BY <2>1 DEF size
    <3>2. CASE len = SizeMax
      BY <2>2, <2>3, <3>1, <3>2 DEF SubstrLength, npos
    <3>3. CASE len # SizeMax
      <4>1. l - pos \in Int
        BY <2>2
      <4>2. Min({l - pos, len}) = k
        BY <2>3, <4>1, SmallerOf
      <4> QED
        BY <4>2, <3>1, <3>3 DEF SubstrLength, npos
    <3> QED
      BY <3>2, <3>3
  <2>5. Min({pos + len, l}) = pos + k
    <3>1. pos + len \in Int /\ l \in Int
      OBVIOUS
    <3>2. Min({pos + len, l}) = IF pos + len <= l THEN pos + len ELSE l
      BY <3>1, SmallerOf
    <3>3. (IF pos + len <= l THEN pos + len ELSE l) = pos + k
      BY <2>2, <2>3
    <3> QED
      BY <3>2, <3>3
  <2>6. pos + k <= l
    BY <2>2, <2>3
  <2>7. Shows(text, a + pos, k, SubSeq(content[p], pos + 1, pos + k))
    BY <2>1, <2>2, <2>6, PieceFacts, ShownCut
  <2>8. /\ mStr' = [mStr EXCEPT ![q] = a + pos] /\ mLength' = [mLength EXCEPT ![q] = k]
        /\ content' = [content EXCEPT ![q] = SubSeq(content[p], pos + 1, pos + k)]
        /\ UNCHANGED text
    BY <1>2, <2>1, <2>2, <2>4, <2>5 DEF Substr
  <2> QED
    BY <2>7, <2>8, OnePieceCut
<1> QED
  BY <1>1, <1>2 DEF Substr

(* Every operation. *)
LEMMA PieceStepKeeps == PieceInv /\ [PieceNext]_pieceVars => PieceInv'
<1> SUFFICES ASSUME PieceInv, [PieceNext]_pieceVars PROVE PieceInv'
  OBVIOUS
<1>1. CASE UNCHANGED pieceVars
  BY <1>1, PieceThrowsKeeps
<1>2. CASE PieceNext
  <2>1. PICK p \in Piece :
            \/ PieceClear(p)
            \/ \E n \in 0 .. Len(text) : \E m \in 0 .. Len(text) : PieceSet(p, n, m)
            \/ \E n \in 0 .. Len(text) + 1 : RemovePrefix(p, n) \/ RemoveSuffix(p, n)
            \/ \E q \in Piece :
                  \/ PieceSwap(p, q)
                  \/ \E n \in 0 .. Len(text) + 1 : \E m \in (0 .. Len(text)) \cup {npos} : Substr(q, p, n, m)
    BY <1>2 DEF PieceNext
  <2>2. Len(text) \in Nat /\ npos \in Nat
    BY PieceFacts DEF npos
  <2>3. CASE PieceClear(p)
    BY <2>3, PieceClearKeeps
  <2>4. ASSUME NEW n \in 0 .. Len(text), NEW m \in 0 .. Len(text), PieceSet(p, n, m) PROVE PieceInv'
    BY <2>2, <2>4, PieceSetKeeps
  <2>5. ASSUME NEW n \in 0 .. Len(text) + 1, RemovePrefix(p, n) PROVE PieceInv'
    BY <2>2, <2>5, RemovePrefixKeeps
  <2>6. ASSUME NEW n \in 0 .. Len(text) + 1, RemoveSuffix(p, n) PROVE PieceInv'
    BY <2>2, <2>6, RemoveSuffixKeeps
  <2>7. ASSUME NEW q \in Piece, PieceSwap(p, q) PROVE PieceInv'
    BY <2>7, PieceSwapKeeps
  <2>8. ASSUME NEW q \in Piece, NEW n \in 0 .. Len(text) + 1, NEW m \in (0 .. Len(text)) \cup {npos},
               Substr(q, p, n, m)
        PROVE  PieceInv'
    <3>1. n \in Nat /\ m \in Nat /\ (m <= Len(text) \/ m = npos)
      BY <2>2
    <3> QED
      BY <3>1, <2>8, SubstrKeeps
  <2> QED
    BY <2>1, <2>3, <2>4, <2>5, <2>6, <2>7, <2>8
<1> QED
  BY <1>1, <1>2

-----------------------------------------------------------------------------
(* What the invariant says of a piece is what the property says. *)
LEMMA InvShows == PieceInv => PieceShowsItsContent
<1> SUFFICES ASSUME PieceInv, NEW p \in Piece
             PROVE  mStr[p] + mLength[p] <= Len(text) /\ data(p) = content[p]
  BY DEF PieceShowsItsContent
<1> QED
  BY PieceFacts DEF data, Shows

(* What is said of the searches, for one text, pattern and start. *)
AllAsStd(d, s, pos) ==
    LET up == {i \in 0 .. Len(d) - 1 : i >= pos}
        down == {i \in 0 .. Len(d) - 1 : i <= pos}
    IN  /\ find(d, s, pos) = SmallestOr({i \in 0 .. Len(d) : i >= pos /\ Matches(d, s, i)})
        /\ rfind(d, s, pos) = LargestOr({i \in 0 .. Len(d) : i <= pos /\ Matches(d, s, i)})
        /\ find_first_of(d, s, pos) = SmallestOr({i \in up : Among(d, s, i)})
        /\ find_last_of(d, s, pos) = LargestOr({i \in down : Among(d, s, i)})
        /\ find_first_not_of(d, s, pos) = SmallestOr({i \in up : ~Among(d, s, i)})
        /\ find_last_not_of(d, s, pos) = LargestOr({i \in down : ~Among(d, s, i)})
        /\ Len(s) = 1 => /\ find_char(d, s[1], pos) = find_first_of(d, s, pos)
                         /\ rfind_char(d, s[1], pos) = find_last_of(d, s, pos)

(* All the searches of one text, for one pattern and start. *)
LEMMA AllFound ==
    ASSUME NEW S, NEW d \in Seq(S), NEW s \in Seq(S), NEW pos \in Nat
    PROVE  AllAsStd(d, s, pos)
<1>1. FindsAsStd(d, s, pos) /\ RFindsAsStd(d, s, pos)
  BY FindIs, RFindIs
<1>2. /\ CharsAsStd(d, s, pos)
      /\ Len(s) = 1 => /\ find_char(d, s[1], pos) = find_first_of(d, s, pos)
                       /\ rfind_char(d, s[1], pos) = find_last_of(d, s, pos)
  BY CharsFound
<1> QED
  BY <1>1, <1>2 DEF AllAsStd, FindsAsStd, RFindsAsStd, CharsAsStd

(* The searches, for every piece, pattern and start. *)
LEMMA InvSearches == PieceInv => SearchesAsStdString
<1> SUFFICES ASSUME PieceInv PROVE SearchesAsStdString
  OBVIOUS
<1>1. ASSUME NEW p \in Piece, NEW s \in Pattern, NEW pos \in (0 .. Len(text) + 1) \cup {npos}
      PROVE  AllAsStd(content[p], s, pos)
  <2>1. content[p] \in Seq(Char) /\ s \in Seq(Char)
    BY PieceFacts, PieceAssumption
  <2>2. pos \in Nat
    BY PieceFacts DEF npos
  <2> QED
    BY <2>1, <2>2, AllFound
<1> QED
  BY <1>1 DEF SearchesAsStdString, AllAsStd

(* The order, for every two pieces. *)
LEMMA InvCompares == PieceInv => CompareOrders
<1> SUFFICES ASSUME PieceInv PROVE CompareOrders
  OBVIOUS
<1>1. ASSUME NEW p \in Piece, NEW q \in Piece PROVE OrderedAs(content[p], content[q])
  BY PieceFacts, CompareIs
<1> QED
  BY <1>1 DEF CompareOrders, OrderedAs

(* A piece is to its users what a std::string of the same characters is,    *)
(* however the pieces have been set, swapped and cut by remove_prefix,      *)
(* remove_suffix and substr: the searches, from any position and npos too,  *)
(* return what std::string returns, and compare orders pieces as their      *)
(* characters are ordered.  It holds for every text and pattern shorter     *)
(* than npos and every width of an int that divides that of size_t.         *)
THEOREM PieceAsString == PieceSpec => []PieceIsAString
<1>1. PieceInv => PieceIsAString
  BY InvShows, InvSearches, InvCompares DEF PieceIsAString
<1> QED
  BY <1>1, PieceInitially, PieceStepKeeps, PTL DEF PieceSpec
=============================================================================
