--------------------------- MODULE OwnershipProofs --------------------------
(***************************************************************************)
(* Proofs about the classes of the library that own or share something: a  *)
(* lock, a closure, an object.  Each part has its inductive invariant, one *)
(* lemma for each action and a theorem for each property that it is to     *)
(* have.                                                                   *)
(***************************************************************************)
EXTENDS FutureClosure, ScopedPtr, RefCounted, FuturePtr, SpinRWLock, LibraryLemmas

-----------------------------------------------------------------------------
(* SpinRWLock, for every finite set of threads, every kWrite and every      *)
(* width of int that satisfy LockAssumption.  The inductive invariant is    *)
(* the accounting equation QuotaAccounted: it alone says what a thread may  *)
(* conclude from the sign of the value it reads.                            *)

(* The part of TypeOK that says nothing about mQuota. *)
ControlOK ==
    /\ pc \in [Thread -> {"idle", "try", "undo", "reading", "writing"}]
    /\ op \in [Thread -> ReadOps \cup WriteOps]

(* At most one share per thread is out at a time. *)
SharesOK ==
    /\ IsFiniteSet(ReadShares) /\ Cardinality(ReadShares) \in Nat
    /\ IsFiniteSet(WriteShares) /\ Cardinality(WriteShares) \in Nat
    /\ Cardinality(ReadShares) + Cardinality(WriteShares) <= Cardinality(Thread)

IInv == ControlOK /\ QuotaAccounted /\ MutualExclusion

-----------------------------------------------------------------------------
(* An int that fits is not changed by two's complement wrapping. *)
LEMMA WrapFits ==
    ASSUME NEW n \in -IntHalf .. IntHalf - 1
    PROVE  Wrap(n) = n
<1> DEFINE m == 2 * IntHalf
<1>1. m \in Nat \ {0} /\ n + IntHalf \in 0 .. m - 1
  BY LockAssumption
<1>2. \A x \in Nat : x < m => x % m = x
  BY <1>1
<1> QED
  BY <1>1, <1>2, LockAssumption DEF Wrap

(* The quota left by any number of shares that the threads can hold fits an *)
(* int: this is where the bound on the number of threads is used.           *)
LEMMA QuotaFits ==
    ASSUME NEW r \in Nat, NEW w \in Nat, r + w <= Cardinality(Thread)
    PROVE  kInitQuota - kRead * r - kWrite * w \in -IntHalf .. IntHalf - 1
<1> DEFINE N == Cardinality(Thread)
<1>1. N \in Nat
  BY LockAssumption, FS_CardinalityType
<1>2. kWrite * w \in Nat /\ kWrite * (r + w) = kWrite * r + kWrite * w
  BY LockAssumption
<1>3. r <= kWrite * r
  BY LockAssumption
<1>4. kWrite * (r + w) <= kWrite * N
  BY <1>1, LockAssumption
<1>5. kWrite * N - kWrite <= IntHalf
  BY <1>1, LockAssumption
<1> QED
  BY <1>1, <1>2, <1>3, <1>4, <1>5, LockAssumption DEF kInitQuota, kRead

(* The shares are disjoint sets of threads, so there are at most as many as *)
(* threads.                                                                 *)
LEMMA SharesBounded == ControlOK => SharesOK
<1> SUFFICES ASSUME ControlOK PROVE SharesOK
  OBVIOUS
<1>1. ReadShares \subseteq Thread /\ WriteShares \subseteq Thread
  BY DEF ReadShares, WriteShares
<1>2. ReadShares \cap WriteShares = {}
  BY DEF ReadShares, WriteShares, ReadOps, WriteOps
<1>3. IsFiniteSet(ReadShares) /\ IsFiniteSet(WriteShares)
  BY <1>1, FS_Subset, LockAssumption
<1>4. Cardinality(ReadShares) \in Nat /\ Cardinality(WriteShares) \in Nat
  BY <1>3, FS_CardinalityType
<1>5. Cardinality(ReadShares \cup WriteShares)
        = Cardinality(ReadShares) + Cardinality(WriteShares)
  <2>1. Cardinality(ReadShares \cap WriteShares) = 0
    BY <1>2, FS_EmptySet
  <2>2. Cardinality(ReadShares \cup WriteShares)
          = Cardinality(ReadShares) + Cardinality(WriteShares)
            - Cardinality(ReadShares \cap WriteShares)
    BY <1>3, FS_Union, Zenon
  <2> QED
    BY <2>1, <2>2, <1>4
<1>6. Cardinality(ReadShares \cup WriteShares) <= Cardinality(Thread)
  BY <1>1, FS_Subset, LockAssumption
<1> QED
  BY <1>3, <1>4, <1>5, <1>6 DEF SharesOK

(* The same of the next state. *)
LEMMA SharesBoundedPrime == ControlOK' => SharesOK'
  BY SharesBounded, PTL

(* A step that leaves mQuota equal to the wrapped accounting value leaves   *)
(* it equal to the accounting value itself.                                 *)
LEMMA QuotaStep ==
    ASSUME ControlOK',
           mQuota' = Wrap(kInitQuota - kRead * Cardinality(ReadShares')
                                     - kWrite * Cardinality(WriteShares'))
    PROVE  QuotaAccounted'
<1>1. SharesOK'
  BY SharesBoundedPrime
<1>2. kInitQuota - kRead * Cardinality(ReadShares') - kWrite * Cardinality(WriteShares')
        \in -IntHalf .. IntHalf - 1
  BY <1>1, QuotaFits DEF SharesOK
<1> QED
  BY <1>2, WrapFits DEF QuotaAccounted

(* What a thread may conclude from mQuota: enough quota for a reader means  *)
(* that no write share is out, enough for a writer that no share is out.    *)
LEMMA QuotaMeaning ==
    ASSUME ControlOK, QuotaAccounted
    PROVE  /\ mQuota >= kRead => WriteShares = {}
           /\ mQuota >= kWrite => WriteShares = {} /\ ReadShares = {}
           /\ mQuota < kRead => WriteShares # {} \/ Cardinality(ReadShares) >= kWrite
           /\ mQuota < kWrite => WriteShares \cup ReadShares # {}
<1> DEFINE r == Cardinality(ReadShares)
           w == Cardinality(WriteShares)
<1>1. r \in Nat /\ w \in Nat /\ IsFiniteSet(ReadShares) /\ IsFiniteSet(WriteShares)
  BY SharesBounded DEF SharesOK
<1>2. (r = 0 <=> ReadShares = {}) /\ (w = 0 <=> WriteShares = {})
  BY <1>1, FS_EmptySet, Zenon
<1>3. mQuota = kWrite - r - kWrite * w
  BY <1>1, LockAssumption DEF QuotaAccounted, kInitQuota, kRead
<1>4. w # 0 => kWrite * w >= kWrite
  BY <1>1, LockAssumption
<1>5. w = 0 => kWrite * w = 0
  BY LockAssumption
<1> HIDE DEF r, w
<1>6. /\ mQuota >= 1 => w = 0
      /\ mQuota >= kWrite => w = 0 /\ r = 0
      /\ mQuota < 1 => w # 0 \/ r >= kWrite
      /\ mQuota < kWrite => w # 0 \/ r # 0
  BY <1>1, <1>3, <1>4, <1>5, LockAssumption
<1> QED
  BY <1>2, <1>6 DEF kRead, r

-----------------------------------------------------------------------------
(* In the beginning all of the quota is there. *)
LEMMA InitIInv == Init => IInv
<1> SUFFICES ASSUME Init PROVE IInv
  OBVIOUS
<1>1. ControlOK
  BY DEF Init, ControlOK, ReadOps
<1>2. ReadShares = {} /\ WriteShares = {}
  BY DEF Init, ReadShares, WriteShares
<1>3. QuotaAccounted
  BY <1>2, FS_EmptySet, LockAssumption DEF Init, QuotaAccounted, kInitQuota, kRead
<1>4. MutualExclusion
  BY DEF Init, MutualExclusion
<1> QED
  BY <1>1, <1>3, <1>4 DEF IInv

(* The thread that takes a share out of mQuota, and the one that gives it   *)
(* back: the only two ways in which a step moves a share.                   *)
LEMMA TakeShare ==
    ASSUME NEW S, NEW t, IsFiniteSet(S), Cardinality(S) \in Nat, t \notin S
    PROVE  Cardinality(S \cup {t}) = Cardinality(S) + 1
  BY FS_AddElement

(* A set that loses an element has one less. *)
LEMMA GiveShare ==
    ASSUME NEW S, NEW t, IsFiniteSet(S), Cardinality(S) \in Nat, t \in S
    PROVE  Cardinality(S \ {t}) = Cardinality(S) - 1
  BY FS_RemoveElement

(* Every step keeps the invariant. *)
LEMMA NextIInv == IInv /\ [Next]_vars => IInv'
<1> SUFFICES ASSUME IInv, [Next]_vars PROVE IInv'
  OBVIOUS
<1> DEFINE r == Cardinality(ReadShares)
           w == Cardinality(WriteShares)
<1> USE DEF IInv
<1>0. IsFiniteSet(ReadShares) /\ r \in Nat /\ IsFiniteSet(WriteShares) /\ w \in Nat
  BY SharesBounded DEF SharesOK
<1>q. mQuota = kWrite - r - kWrite * w
  BY <1>0, LockAssumption DEF QuotaAccounted, kInitQuota, kRead
<1>1. CASE UNCHANGED vars
  <2>1. ReadShares' = ReadShares /\ WriteShares' = WriteShares
    BY <1>1 DEF vars, ReadShares, WriteShares
  <2> QED
    BY <1>1, <2>1 DEF vars, ControlOK, QuotaAccounted, MutualExclusion
<1>2. ASSUME NEW t \in Thread, Call(t) PROVE IInv'
  <2>1. ControlOK'
    BY <1>2 DEF Call, Goto, ControlOK
  <2>2. ReadShares' = ReadShares /\ WriteShares' = WriteShares
    BY <1>2 DEF Call, Goto, ControlOK, ReadShares, WriteShares
  <2>3. QuotaAccounted'
    BY <1>2, <2>2 DEF Call, QuotaAccounted
  <2>4. MutualExclusion'
    BY <1>2 DEF Call, Goto, ControlOK, MutualExclusion
  <2> QED
    BY <2>1, <2>3, <2>4
<1>3. ASSUME NEW t \in Thread, TryReadLock(t) PROVE IInv'
  <2>1. ControlOK'
    BY <1>3 DEF TryReadLock, Goto, ControlOK
  <2>2. ReadShares' = ReadShares \cup {t} /\ WriteShares' = WriteShares /\ t \notin ReadShares
    BY <1>3 DEF TryReadLock, Goto, ControlOK, ReadShares, WriteShares, ReadOps, WriteOps
  <2>3. Cardinality(ReadShares') = r + 1 /\ Cardinality(WriteShares') = w
    BY <1>0, <2>2, TakeShare
  <2>4. mQuota' = Wrap(mQuota - 1)
    BY <1>3 DEF TryReadLock, AtomicSub, kRead
  <2>5. mQuota - 1 = kInitQuota - kRead * (r + 1) - kWrite * w
    BY <1>0, <1>q, LockAssumption DEF kInitQuota, kRead
  <2>6. QuotaAccounted'
    BY <2>1, <2>3, <2>4, <2>5, QuotaStep
  <2>7. MutualExclusion'
    <3>1. CASE WriteShares = {}
      BY <1>3, <3>1 DEF TryReadLock, Goto, ControlOK, MutualExclusion, WriteShares
    <3>2. CASE WriteShares # {}
      <4>1. w >= 1 /\ kWrite * w >= kWrite
        <5>1. w # 0
          BY <3>2, <1>0, FS_EmptySet, Zenon
        <5> QED
          BY <5>1, <1>0, LockAssumption
      <4>2. ~(mQuota' >= 0)
        BY <4>1, <2>3, <2>6, <1>0, LockAssumption DEF QuotaAccounted, kInitQuota, kRead
      <4>3. pc' = [pc EXCEPT ![t] = "undo"]
        BY <1>3, <4>2 DEF TryReadLock, Goto
      <4> QED
        BY <4>3 DEF ControlOK, MutualExclusion
    <3> QED
      BY <3>1, <3>2
  <2> QED
    BY <2>1, <2>6, <2>7
<1>4. ASSUME NEW t \in Thread, TryWriteLock(t) PROVE IInv'
  <2>1. ControlOK'
    BY <1>4 DEF TryWriteLock, Goto, ControlOK
  <2>2. WriteShares' = WriteShares \cup {t} /\ ReadShares' = ReadShares /\ t \notin WriteShares
    BY <1>4 DEF TryWriteLock, Goto, ControlOK, ReadShares, WriteShares, ReadOps, WriteOps
  <2>3. Cardinality(WriteShares') = w + 1 /\ Cardinality(ReadShares') = r
    BY <1>0, <2>2, TakeShare
  <2>4. mQuota' = Wrap(mQuota - kWrite)
    BY <1>4 DEF TryWriteLock, AtomicSub
  <2>5. mQuota - kWrite = kInitQuota - kRead * r - kWrite * (w + 1)
    BY <1>0, <1>q, LockAssumption DEF kInitQuota, kRead
  <2>6. QuotaAccounted'
    BY <2>1, <2>3, <2>4, <2>5, QuotaStep
  <2>7. MutualExclusion'
    <3>1. CASE mQuota' >= 0
      <4>1. mQuota' = mQuota - kWrite
        BY <2>3, <2>5, <2>6 DEF QuotaAccounted
      <4>2. mQuota >= kWrite
        <5>1. mQuota \in Int
          BY <1>0, <1>q, LockAssumption
        <5> QED
          BY <3>1, <4>1, <5>1, LockAssumption
      <4>3. WriteShares = {} /\ ReadShares = {}
        BY <4>2, QuotaMeaning
      <4> QED
        BY <1>4, <4>3 DEF TryWriteLock, Goto, ControlOK, MutualExclusion, ReadShares, WriteShares
    <3>2. CASE ~(mQuota' >= 0)
      <4>1. pc' = [pc EXCEPT ![t] = "undo"]
        BY <1>4, <3>2 DEF TryWriteLock, Goto
      <4> QED
        BY <4>1 DEF ControlOK, MutualExclusion
    <3> QED
      BY <3>1, <3>2
  <2> QED
    BY <2>1, <2>6, <2>7
<1>5. ASSUME NEW t \in Thread, UndoRead(t) PROVE IInv'
  <2>1. ControlOK'
    BY <1>5 DEF UndoRead, Goto, ControlOK, AfterFailure
  <2>2. ReadShares' = ReadShares \ {t} /\ WriteShares' = WriteShares /\ t \in ReadShares
    BY <1>5 DEF UndoRead, Goto, ControlOK, ReadShares, WriteShares, ReadOps, WriteOps, AfterFailure
  <2>3. Cardinality(ReadShares') = r - 1 /\ Cardinality(WriteShares') = w
    BY <1>0, <2>2, GiveShare
  <2>4. mQuota' = Wrap(mQuota + 1)
    BY <1>5 DEF UndoRead, AtomicAdd, kRead
  <2>5. mQuota + 1 = kInitQuota - kRead * (r - 1) - kWrite * w
    BY <1>0, <1>q, LockAssumption DEF kInitQuota, kRead
  <2>6. QuotaAccounted'
    BY <2>1, <2>3, <2>4, <2>5, QuotaStep
  <2>7. MutualExclusion'
    BY <1>5 DEF UndoRead, Goto, ControlOK, MutualExclusion, AfterFailure
  <2> QED
    BY <2>1, <2>6, <2>7
<1>6. ASSUME NEW t \in Thread, UndoWrite(t) PROVE IInv'
  <2>1. ControlOK'
    BY <1>6 DEF UndoWrite, Goto, ControlOK, AfterFailure
  <2>2. WriteShares' = WriteShares \ {t} /\ ReadShares' = ReadShares /\ t \in WriteShares
    BY <1>6 DEF UndoWrite, Goto, ControlOK, ReadShares, WriteShares, ReadOps, WriteOps, AfterFailure
  <2>3. Cardinality(WriteShares') = w - 1 /\ Cardinality(ReadShares') = r
    BY <1>0, <2>2, GiveShare
  <2>4. mQuota' = Wrap(mQuota + kWrite)
    BY <1>6 DEF UndoWrite, AtomicAdd
  <2>5. mQuota + kWrite = kInitQuota - kRead * r - kWrite * (w - 1)
    BY <1>0, <1>q, LockAssumption DEF kInitQuota, kRead
  <2>6. QuotaAccounted'
    BY <2>1, <2>3, <2>4, <2>5, QuotaStep
  <2>7. MutualExclusion'
    BY <1>6 DEF UndoWrite, Goto, ControlOK, MutualExclusion, AfterFailure
  <2> QED
    BY <2>1, <2>6, <2>7
<1>7. ASSUME NEW t \in Thread, ReadUnlock(t) PROVE IInv'
  <2>1. ControlOK'
    BY <1>7 DEF ReadUnlock, Goto, ControlOK
  <2>2. ReadShares' = ReadShares \ {t} /\ WriteShares' = WriteShares /\ t \in ReadShares
    BY <1>7 DEF ReadUnlock, Goto, ControlOK, ReadShares, WriteShares, ReadOps, WriteOps
  <2>3. Cardinality(ReadShares') = r - 1 /\ Cardinality(WriteShares') = w
    BY <1>0, <2>2, GiveShare
  <2>4. mQuota' = Wrap(mQuota + 1)
    BY <1>7 DEF ReadUnlock, AtomicAdd, kRead
  <2>5. mQuota + 1 = kInitQuota - kRead * (r - 1) - kWrite * w
    BY <1>0, <1>q, LockAssumption DEF kInitQuota, kRead
  <2>6. QuotaAccounted'
    BY <2>1, <2>3, <2>4, <2>5, QuotaStep
  <2>7. MutualExclusion'
    BY <1>7 DEF ReadUnlock, Goto, ControlOK, MutualExclusion
  <2> QED
    BY <2>1, <2>6, <2>7
<1>8. ASSUME NEW t \in Thread, WriteUnlock(t) PROVE IInv'
  <2>1. ControlOK'
    BY <1>8 DEF WriteUnlock, Goto, ControlOK
  <2>2. WriteShares' = WriteShares \ {t} /\ ReadShares' = ReadShares /\ t \in WriteShares
    BY <1>8 DEF WriteUnlock, Goto, ControlOK, ReadShares, WriteShares, ReadOps, WriteOps
  <2>3. Cardinality(WriteShares') = w - 1 /\ Cardinality(ReadShares') = r
    BY <1>0, <2>2, GiveShare
  <2>4. mQuota' = Wrap(mQuota + kWrite)
    BY <1>8 DEF WriteUnlock, AtomicAdd
  <2>5. mQuota + kWrite = kInitQuota - kRead * r - kWrite * (w - 1)
    BY <1>0, <1>q, LockAssumption DEF kInitQuota, kRead
  <2>6. QuotaAccounted'
    BY <2>1, <2>3, <2>4, <2>5, QuotaStep
  <2>7. MutualExclusion'
    BY <1>8 DEF WriteUnlock, Goto, ControlOK, MutualExclusion
  <2> QED
    BY <2>1, <2>6, <2>7
<1> QED
  BY <1>1, <1>2, <1>3, <1>4, <1>5, <1>6, <1>7, <1>8 DEF Next, Step

-----------------------------------------------------------------------------
(* The invariant holds in every state. *)
LEMMA Invariance == Spec => []IInv
  BY InitIInv, NextIInv, PTL DEF Spec

(* Every reachable state is type correct: in particular mQuota never leaves *)
(* the range of int, so no AtomicSub or AtomicAdd of the lock wraps.        *)
THEOREM TypeCorrect == Spec => []TypeOK
<1>1. IInv => TypeOK
  <2> SUFFICES ASSUME IInv PROVE TypeOK
    OBVIOUS
  <2>1. SharesOK
    BY SharesBounded DEF IInv
  <2>2. mQuota \in -IntHalf .. IntHalf - 1
    BY <2>1, QuotaFits DEF IInv, QuotaAccounted, SharesOK
  <2> QED
    BY <2>2 DEF IInv, ControlOK, TypeOK
<1> QED
  BY <1>1, Invariance, PTL

(* No share is lost or given back twice: mQuota is the initial quota less   *)
(* what holders and failed attempts have out.                               *)
THEOREM QuotaCorrect == Spec => []QuotaAccounted
  BY Invariance, PTL DEF IInv

(* The lock excludes: a writer is alone in its section, for every number of *)
(* threads LockAssumption allows.                                           *)
THEOREM Exclusion == Spec => []MutualExclusion
  BY Invariance, PTL DEF IInv

(* A reader fails only because of a writer or for want of a reader slot.    *)
THEOREM ReadFailure == Spec => ReadFailureHasCause
<1> DEFINE A == \A t \in Thread :
                  (pc[t] = "try" /\ op[t] \in ReadOps /\ pc'[t] = "undo")
                     => \/ WriteShares # {}
                        \/ Cardinality(ReadShares) >= kWrite
<1>1. IInv /\ IInv' /\ [Next]_vars => [A]_vars
  <2> SUFFICES ASSUME IInv, IInv', [Next]_vars, NEW t \in Thread,
                      pc[t] = "try", op[t] \in ReadOps, pc'[t] = "undo"
               PROVE  \/ WriteShares # {}
                      \/ Cardinality(ReadShares) >= kWrite
    BY DEF vars
  <2>1. TryReadLock(t)
    BY DEF Next, Step, vars, Call, Goto, TryReadLock, TryWriteLock, UndoRead, UndoWrite,
           ReadUnlock, WriteUnlock, AfterFailure, IInv, ControlOK, ReadOps, WriteOps
  <2>2. SharesOK
    BY SharesBounded DEF IInv
  <2>3. mQuota \in -IntHalf .. IntHalf - 1
    BY <2>2, QuotaFits DEF IInv, QuotaAccounted, SharesOK
  <2>4. mQuota' = Wrap(mQuota - 1) /\ ~(mQuota' >= 0)
    BY <2>1 DEF TryReadLock, Goto, AtomicSub, kRead, IInv, ControlOK
  <2>5. mQuota < kRead
    BY <2>3, <2>4, WrapFits, LockAssumption DEF kRead
  <2> QED
    BY <2>5, QuotaMeaning DEF IInv
<1> QED
  BY <1>1, Invariance, PTL DEF Spec, ReadFailureHasCause

(* A writer fails only because somebody else is in the lock or trying.      *)
THEOREM WriteFailure == Spec => WriteFailureHasCause
<1> DEFINE A == \A t \in Thread :
                  (pc[t] = "try" /\ op[t] \in WriteOps /\ pc'[t] = "undo")
                     => ReadShares \cup WriteShares # {}
<1>1. IInv /\ [Next]_vars => [A]_vars
  <2> SUFFICES ASSUME IInv, [Next]_vars, NEW t \in Thread,
                      pc[t] = "try", op[t] \in WriteOps, pc'[t] = "undo"
               PROVE  ReadShares \cup WriteShares # {}
    BY DEF vars
  <2>1. TryWriteLock(t)
    BY DEF Next, Step, vars, Call, Goto, TryReadLock, TryWriteLock, UndoRead, UndoWrite,
           ReadUnlock, WriteUnlock, AfterFailure, IInv, ControlOK, ReadOps, WriteOps
  <2>2. SharesOK
    BY SharesBounded DEF IInv
  <2>3. mQuota \in -IntHalf .. IntHalf - 1
    BY <2>2, QuotaFits DEF IInv, QuotaAccounted, SharesOK
  <2>4. mQuota' = Wrap(mQuota - kWrite) /\ ~(mQuota' >= 0)
    BY <2>1 DEF TryWriteLock, Goto, AtomicSub, IInv, ControlOK
  <2>5. mQuota < kWrite
    <3>1. mQuota >= kWrite => mQuota - kWrite \in 0 .. IntHalf - 1
      BY <2>3, LockAssumption
    <3> QED
      BY <2>3, <2>4, <3>1, WrapFits, LockAssumption
  <2> QED
    BY <2>5, QuotaMeaning DEF IInv
<1> QED
  BY <1>1, Invariance, PTL DEF Spec, WriteFailureHasCause

-----------------------------------------------------------------------------
(* Closures. *)

(* How much a condition counts. *)
One(b) == IF b THEN 1 ELSE 0

(* The arguments in order: the bound ones, then those of Run. *)
InOrder(k, m) == [p \in 1 .. k + m |-> IF p <= k THEN <<"bound", p>> ELSE <<"run", p>>]

(* The 36 classes for methods, one by one. *)
LEMMA MethodArgumentsInOrder ==
    ASSUME NEW k \in 0 .. 7, NEW m \in 0 .. 7 - k
    PROVE  MethodCall(BoundArgs(k), RunArgs(k, m))[k + m + 1][k + 1] = InOrder(k, m)
<1>1. CASE k + m = 0
  <2>1. CASE k = 0 /\ m = 0
    BY <2>1 DEF MethodCall, MethodClosure_0_0, BoundArgs, RunArgs, InOrder, Position
  <2> QED
    BY <1>1, <2>1
<1>2. CASE k + m = 1
  <2>1. CASE k = 0 /\ m = 1
    BY <2>1 DEF MethodCall, MethodClosure_0_1, BoundArgs, RunArgs, InOrder, Position
  <2>2. CASE k = 1 /\ m = 0
    BY <2>2 DEF MethodCall, MethodClosure_1_0, BoundArgs, RunArgs, InOrder, Position
  <2> QED
    BY <1>2, <2>1, <2>2
<1>3. CASE k + m = 2
  <2>1. CASE k = 0 /\ m = 2
    BY <2>1 DEF MethodCall, MethodClosure_0_2, BoundArgs, RunArgs, InOrder, Position
  <2>2. CASE k = 1 /\ m = 1
    BY <2>2 DEF MethodCall, MethodClosure_1_1, BoundArgs, RunArgs, InOrder, Position
  <2>3. CASE k = 2 /\ m = 0
    BY <2>3 DEF MethodCall, MethodClosure_2_0, BoundArgs, RunArgs, InOrder, Position
  <2> QED
    BY <1>3, <2>1, <2>2, <2>3
<1>4. CASE k + m = 3
  <2>1. CASE k = 0 /\ m = 3
    BY <2>1 DEF MethodCall, MethodClosure_0_3, BoundArgs, RunArgs, InOrder, Position
  <2>2. CASE k = 1 /\ m = 2
    BY <2>2 DEF MethodCall, MethodClosure_1_2, BoundArgs, RunArgs, InOrder, Position
  <2>3. CASE k = 2 /\ m = 1
    BY <2>3 DEF MethodCall, MethodClosure_2_1, BoundArgs, RunArgs, InOrder, Position
  <2>4. CASE k = 3 /\ m = 0
    BY <2>4 DEF MethodCall, MethodClosure_3_0, BoundArgs, RunArgs, InOrder, Position
  <2> QED
    BY <1>4, <2>1, <2>2, <2>3, <2>4
<1>5. CASE k + m = 4
  <2>1. CASE k = 0 /\ m = 4
    BY <2>1 DEF MethodCall, MethodClosure_0_4, BoundArgs, RunArgs, InOrder, Position
  <2>2. CASE k = 1 /\ m = 3
    BY <2>2 DEF MethodCall, MethodClosure_1_3, BoundArgs, RunArgs, InOrder, Position
  <2>3. CASE k = 2 /\ m = 2
    BY <2>3 DEF MethodCall, MethodClosure_2_2, BoundArgs, RunArgs, InOrder, Position
  <2>4. CASE k = 3 /\ m = 1
    BY <2>4 DEF MethodCall, MethodClosure_3_1, BoundArgs, RunArgs, InOrder, Position
  <2>5. CASE k = 4 /\ m = 0
    BY <2>5 DEF MethodCall, MethodClosure_4_0, BoundArgs, RunArgs, InOrder, Position
  <2> QED
    BY <1>5, <2>1, <2>2, <2>3, <2>4, <2>5
<1>6. CASE k + m = 5
  <2>1. CASE k = 0 /\ m = 5
    BY <2>1 DEF MethodCall, MethodClosure_0_5, BoundArgs, RunArgs, InOrder, Position
  <2>2. CASE k = 1 /\ m = 4
    BY <2>2 DEF MethodCall, MethodClosure_1_4, BoundArgs, RunArgs, InOrder, Position
  <2>3. CASE k = 2 /\ m = 3
    BY <2>3 DEF MethodCall, MethodClosure_2_3, BoundArgs, RunArgs, InOrder, Position
  <2>4. CASE k = 3 /\ m = 2
    BY <2>4 DEF MethodCall, MethodClosure_3_2, BoundArgs, RunArgs, InOrder, Position
  <2>5. CASE k = 4 /\ m = 1
    BY <2>5 DEF MethodCall, MethodClosure_4_1, BoundArgs, RunArgs, InOrder, Position
  <2>6. CASE k = 5 /\ m = 0
    BY <2>6 DEF MethodCall, MethodClosure_5_0, BoundArgs, RunArgs, InOrder, Position
  <2> QED
    BY <1>6, <2>1, <2>2, <2>3, <2>4, <2>5, <2>6
<1>7. CASE k + m = 6
  <2>1. CASE k = 0 /\ m = 6
    BY <2>1 DEF MethodCall, MethodClosure_0_6, BoundArgs, RunArgs, InOrder, Position
  <2>2. CASE k = 1 /\ m = 5
    BY <2>2 DEF MethodCall, MethodClosure_1_5, BoundArgs, RunArgs, InOrder, Position
  <2>3. CASE k = 2 /\ m = 4
    BY <2>3 DEF MethodCall, MethodClosure_2_4, BoundArgs, RunArgs, InOrder, Position
  <2>4. CASE k = 3 /\ m = 3
    BY <2>4 DEF MethodCall, MethodClosure_3_3, BoundArgs, RunArgs, InOrder, Position
  <2>5. CASE k = 4 /\ m = 2
    BY <2>5 DEF MethodCall, MethodClosure_4_2, BoundArgs, RunArgs, InOrder, Position
  <2>6. CASE k = 5 /\ m = 1
    BY <2>6 DEF MethodCall, MethodClosure_5_1, BoundArgs, RunArgs, InOrder, Position
  <2>7. CASE k = 6 /\ m = 0
    BY <2>7 DEF MethodCall, MethodClosure_6_0, BoundArgs, RunArgs, InOrder, Position
  <2> QED
    BY <1>7, <2>1, <2>2, <2>3, <2>4, <2>5, <2>6, <2>7
<1>8. CASE k + m = 7
  <2>1. CASE k = 0 /\ m = 7
    BY <2>1 DEF MethodCall, MethodClosure_0_7, BoundArgs, RunArgs, InOrder, Position
  <2>2. CASE k = 1 /\ m = 6
    BY <2>2 DEF MethodCall, MethodClosure_1_6, BoundArgs, RunArgs, InOrder, Position
  <2>3. CASE k = 2 /\ m = 5
    BY <2>3 DEF MethodCall, MethodClosure_2_5, BoundArgs, RunArgs, InOrder, Position
  <2>4. CASE k = 3 /\ m = 4
    BY <2>4 DEF MethodCall, MethodClosure_3_4, BoundArgs, RunArgs, InOrder, Position
  <2>5. CASE k = 4 /\ m = 3
    BY <2>5 DEF MethodCall, MethodClosure_4_3, BoundArgs, RunArgs, InOrder, Position
  <2>6. CASE k = 5 /\ m = 2
    BY <2>6 DEF MethodCall, MethodClosure_5_2, BoundArgs, RunArgs, InOrder, Position
  <2>7. CASE k = 6 /\ m = 1
    BY <2>7 DEF MethodCall, MethodClosure_6_1, BoundArgs, RunArgs, InOrder, Position
  <2>8. CASE k = 7 /\ m = 0
    BY <2>8 DEF MethodCall, MethodClosure_7_0, BoundArgs, RunArgs, InOrder, Position
  <2> QED
    BY <1>8, <2>1, <2>2, <2>3, <2>4, <2>5, <2>6, <2>7, <2>8
<1> QED
  BY <1>1, <1>2, <1>3, <1>4, <1>5, <1>6, <1>7, <1>8

(* The 36 classes for functions, one by one. *)
LEMMA FunctionArgumentsInOrder ==
    ASSUME NEW k \in 0 .. 7, NEW m \in 0 .. 7 - k
    PROVE  FunctionCall(BoundArgs(k), RunArgs(k, m))[k + m + 1][k + 1] = InOrder(k, m)
<1>1. CASE k + m = 0
  <2>1. CASE k = 0 /\ m = 0
    BY <2>1 DEF FunctionCall, FunctionClosure_0_0, BoundArgs, RunArgs, InOrder, Position
  <2> QED
    BY <1>1, <2>1
<1>2. CASE k + m = 1
  <2>1. CASE k = 0 /\ m = 1
    BY <2>1 DEF FunctionCall, FunctionClosure_0_1, BoundArgs, RunArgs, InOrder, Position
  <2>2. CASE k = 1 /\ m = 0
    BY <2>2 DEF FunctionCall, FunctionClosure_1_0, BoundArgs, RunArgs, InOrder, Position
  <2> QED
    BY <1>2, <2>1, <2>2
<1>3. CASE k + m = 2
  <2>1. CASE k = 0 /\ m = 2
    BY <2>1 DEF FunctionCall, FunctionClosure_0_2, BoundArgs, RunArgs, InOrder, Position
  <2>2. CASE k = 1 /\ m = 1
    BY <2>2 DEF FunctionCall, FunctionClosure_1_1, BoundArgs, RunArgs, InOrder, Position
  <2>3. CASE k = 2 /\ m = 0
    BY <2>3 DEF FunctionCall, FunctionClosure_2_0, BoundArgs, RunArgs, InOrder, Position
  <2> QED
    BY <1>3, <2>1, <2>2, <2>3
<1>4. CASE k + m = 3
  <2>1. CASE k = 0 /\ m = 3
    BY <2>1 DEF FunctionCall, FunctionClosure_0_3, BoundArgs, RunArgs, InOrder, Position
  <2>2. CASE k = 1 /\ m = 2
    BY <2>2 DEF FunctionCall, FunctionClosure_1_2, BoundArgs, RunArgs, InOrder, Position
  <2>3. CASE k = 2 /\ m = 1
    BY <2>3 DEF FunctionCall, FunctionClosure_2_1, BoundArgs, RunArgs, InOrder, Position
  <2>4. CASE k = 3 /\ m = 0
    BY <2>4 DEF FunctionCall, FunctionClosure_3_0, BoundArgs, RunArgs, InOrder, Position
  <2> QED
    BY <1>4, <2>1, <2>2, <2>3, <2>4
<1>5. CASE k + m = 4
  <2>1. CASE k = 0 /\ m = 4
    BY <2>1 DEF FunctionCall, FunctionClosure_0_4, BoundArgs, RunArgs, InOrder, Position
  <2>2. CASE k = 1 /\ m = 3
    BY <2>2 DEF FunctionCall, FunctionClosure_1_3, BoundArgs, RunArgs, InOrder, Position
  <2>3. CASE k = 2 /\ m = 2
    BY <2>3 DEF FunctionCall, FunctionClosure_2_2, BoundArgs, RunArgs, InOrder, Position
  <2>4. CASE k = 3 /\ m = 1
    BY <2>4 DEF FunctionCall, FunctionClosure_3_1, BoundArgs, RunArgs, InOrder, Position
  <2>5. CASE k = 4 /\ m = 0
    BY <2>5 DEF FunctionCall, FunctionClosure_4_0, BoundArgs, RunArgs, InOrder, Position
  <2> QED
    BY <1>5, <2>1, <2>2, <2>3, <2>4, <2>5
<1>6. CASE k + m = 5
  <2>1. CASE k = 0 /\ m = 5
    BY <2>1 DEF FunctionCall, FunctionClosure_0_5, BoundArgs, RunArgs, InOrder, Position
  <2>2. CASE k = 1 /\ m = 4
    BY <2>2 DEF FunctionCall, FunctionClosure_1_4, BoundArgs, RunArgs, InOrder, Position
  <2>3. CASE k = 2 /\ m = 3
    BY <2>3 DEF FunctionCall, FunctionClosure_2_3, BoundArgs, RunArgs, InOrder, Position
  <2>4. CASE k = 3 /\ m = 2
    BY <2>4 DEF FunctionCall, FunctionClosure_3_2, BoundArgs, RunArgs, InOrder, Position
  <2>5. CASE k = 4 /\ m = 1
    BY <2>5 DEF FunctionCall, FunctionClosure_4_1, BoundArgs, RunArgs, InOrder, Position
  <2>6. CASE k = 5 /\ m = 0
    BY <2>6 DEF FunctionCall, FunctionClosure_5_0, BoundArgs, RunArgs, InOrder, Position
  <2> QED
    BY <1>6, <2>1, <2>2, <2>3, <2>4, <2>5, <2>6
<1>7. CASE k + m = 6
  <2>1. CASE k = 0 /\ m = 6
    BY <2>1 DEF FunctionCall, FunctionClosure_0_6, BoundArgs, RunArgs, InOrder, Position
  <2>2. CASE k = 1 /\ m = 5
    BY <2>2 DEF FunctionCall, FunctionClosure_1_5, BoundArgs, RunArgs, InOrder, Position
  <2>3. CASE k = 2 /\ m = 4
    BY <2>3 DEF FunctionCall, FunctionClosure_2_4, BoundArgs, RunArgs, InOrder, Position
  <2>4. CASE k = 3 /\ m = 3
    BY <2>4 DEF FunctionCall, FunctionClosure_3_3, BoundArgs, RunArgs, InOrder, Position
  <2>5. CASE k = 4 /\ m = 2
    BY <2>5 DEF FunctionCall, FunctionClosure_4_2, BoundArgs, RunArgs, InOrder, Position
  <2>6. CASE k = 5 /\ m = 1
    BY <2>6 DEF FunctionCall, FunctionClosure_5_1, BoundArgs, RunArgs, InOrder, Position
  <2>7. CASE k = 6 /\ m = 0
    BY <2>7 DEF FunctionCall, FunctionClosure_6_0, BoundArgs, RunArgs, InOrder, Position
  <2> QED
    BY <1>7, <2>1, <2>2, <2>3, <2>4, <2>5, <2>6, <2>7
<1>8. CASE k + m = 7
  <2>1. CASE k = 0 /\ m = 7
    BY <2>1 DEF FunctionCall, FunctionClosure_0_7, BoundArgs, RunArgs, InOrder, Position
  <2>2. CASE k = 1 /\ m = 6
    BY <2>2 DEF FunctionCall, FunctionClosure_1_6, BoundArgs, RunArgs, InOrder, Position
  <2>3. CASE k = 2 /\ m = 5
    BY <2>3 DEF FunctionCall, FunctionClosure_2_5, BoundArgs, RunArgs, InOrder, Position
  <2>4. CASE k = 3 /\ m = 4
    BY <2>4 DEF FunctionCall, FunctionClosure_3_4, BoundArgs, RunArgs, InOrder, Position
  <2>5. CASE k = 4 /\ m = 3
    BY <2>5 DEF FunctionCall, FunctionClosure_4_3, BoundArgs, RunArgs, InOrder, Position
  <2>6. CASE k = 5 /\ m = 2
    BY <2>6 DEF FunctionCall, FunctionClosure_5_2, BoundArgs, RunArgs, InOrder, Position
  <2>7. CASE k = 6 /\ m = 1
    BY <2>7 DEF FunctionCall, FunctionClosure_6_1, BoundArgs, RunArgs, InOrder, Position
  <2>8. CASE k = 7 /\ m = 0
    BY <2>8 DEF FunctionCall, FunctionClosure_7_0, BoundArgs, RunArgs, InOrder, Position
  <2> QED
    BY <1>8, <2>1, <2>2, <2>3, <2>4, <2>5, <2>6, <2>7, <2>8
<1> QED
  BY <1>1, <1>2, <1>3, <1>4, <1>5, <1>6, <1>7, <1>8

ClosureObject ==
    {o \in [kind : {"method", "function"}, del : BOOLEAN, k : 0 .. 7, m : 0 .. 7, mA : {BoundArgs(k) : k \in 0 .. 7}] :
        o.k + o.m <= 7 /\ o.mA = BoundArgs(o.k)}

Frame == [c : ClosureId, args : {InOrder(k, m) : k \in 0 .. 7, m \in 0 .. 7}]

ClosureTypes ==
    /\ closures \in [ClosureId -> ClosureObject \cup {NoClosure}]
    /\ held \in SUBSET ClosureId
    /\ frames \in [ClosureThread -> Seq(Frame)]
    /\ deletions \in [ClosureId -> Nat]

InFrame(c, t, i) == i \in 1 .. Len(frames[t]) /\ frames[t][i].c = c

(* Where a closure is: one that deletes itself is with the program, in the  *)
(* one Run it has, or deleted; a permanent one is with the program or       *)
(* deleted, whoever runs it.                                                *)
OneOwner(c) ==
    IF IsAutoDelete(c)
    THEN /\ c \in held => ~Running(c) /\ deletions[c] = 0
         /\ Running(c) => deletions[c] = 0
         /\ c \notin held /\ ~Running(c) => deletions[c] = 1
         /\ \A t, u \in ClosureThread : \A i, j \in Nat : InFrame(c, t, i) /\ InFrame(c, u, j) => t = u /\ i = j
    ELSE deletions[c] = IF c \in held THEN 0 ELSE 1

FramesInOrder ==
    \A t \in ClosureThread : \A i \in 1 .. Len(frames[t]) :
        frames[t][i].args = InOrder(closures[frames[t][i].c].k, closures[frames[t][i].c].m)

ClosureInv ==
    /\ ClosureTypes
    /\ \A c \in ClosureId :
         IF closures[c] = NoClosure THEN c \notin held /\ ~Running(c) /\ deletions[c] = 0 ELSE OneOwner(c)
    /\ FramesInOrder

(* What a closure that exists is, and what it passes. *)
LEMMA ClosureFacts ==
    ASSUME ClosureTypes, NEW c \in ClosureId, closures[c] # NoClosure
    PROVE  /\ closures[c] \in ClosureObject /\ closures[c].del \in BOOLEAN
           /\ Passed(closures[c], RunArgs(closures[c].k, closures[c].m)) = InOrder(closures[c].k, closures[c].m)
           /\ closures[c].k \in 0 .. 7 /\ closures[c].m \in 0 .. 7
<1>1. closures[c] \in ClosureObject
  BY DEF ClosureTypes
<1>2. PICK o \in ClosureObject : o = closures[c]
  BY <1>1
<1>3. o.k \in 0 .. 7 /\ o.m \in 0 .. 7 - o.k /\ o.mA = BoundArgs(o.k) /\ o.kind \in {"method", "function"} /\ o.del \in BOOLEAN
  BY DEF ClosureObject
<1>4. PICK k \in 0 .. 7 : k = o.k
  BY <1>3
<1>5. PICK m \in 0 .. 7 - k : m = o.m
  BY <1>3, <1>4
<1>6. /\ MethodCall(BoundArgs(k), RunArgs(k, m))[k + m + 1][k + 1] = InOrder(k, m)
      /\ FunctionCall(BoundArgs(k), RunArgs(k, m))[k + m + 1][k + 1] = InOrder(k, m)
  BY MethodArgumentsInOrder, FunctionArgumentsInOrder
<1>7. Passed(o, RunArgs(o.k, o.m)) = InOrder(o.k, o.m)
  BY <1>3, <1>4, <1>5, <1>6 DEF Passed
<1> QED
  BY <1>1, <1>2, <1>3, <1>7

(* In the beginning there are no closures. *)
LEMMA ClosureInitInv == ClosureInit => ClosureInv
<1> SUFFICES ASSUME ClosureInit PROVE ClosureInv
  OBVIOUS
<1>1. ClosureTypes
  BY DEF ClosureInit, ClosureTypes
<1>2. \A t \in ClosureThread : Len(frames[t]) = 0
  BY DEF ClosureInit
<1>3. FramesInOrder /\ (\A c \in ClosureId : ~Running(c))
  BY <1>2 DEF FramesInOrder, Running
<1> QED
  BY <1>1, <1>3 DEF ClosureInit, ClosureInv

(* A new closure is with the program. *)
LEMMA MakeInv ==
    ASSUME ClosureInv, NEW c \in ClosureId, NEW kind \in {"method", "function"}, NEW del \in BOOLEAN,
           NEW s, s[1] \in 0 .. 7, s[2] \in 0 .. 7 - s[1], Make(c, kind, del, s)
    PROVE  ClosureInv'
<1> DEFINE o == [kind |-> kind, del |-> del, k |-> s[1], m |-> s[2], mA |-> BoundArgs(s[1])]
<1>1. /\ ClosureTypes /\ closures[c] = NoClosure /\ closures' = [closures EXCEPT ![c] = o]
      /\ held' = held \cup {c} /\ UNCHANGED <<frames, deletions>>
  BY DEF ClosureInv, Make
<1>2. o \in ClosureObject /\ o # NoClosure
  <2>1. s[2] \in 0 .. 7 /\ s[1] + s[2] <= 7
    OBVIOUS
  <2> QED
    BY <2>1 DEF ClosureObject, NoClosure
<1> HIDE DEF o
<1>3. ClosureTypes' /\ closures'[c] = o /\ (\A d \in ClosureId \ {c} : closures'[d] = closures[d])
  BY <1>1, <1>2 DEF ClosureTypes
<1>4. \A d \in ClosureId : Running(d)' <=> Running(d)
  BY <1>1 DEF Running
<1>5. c \notin held /\ ~Running(c) /\ deletions[c] = 0
  BY <1>1 DEF ClosureInv
<1>6. OneOwner(c)'
  <2>1. \A t \in ClosureThread : \A i \in Nat : ~InFrame(c, t, i)
    BY <1>5 DEF Running, InFrame
  <2>2. \A t \in ClosureThread : \A i \in Nat : ~InFrame(c, t, i)'
    BY <1>1, <2>1 DEF InFrame
  <2> QED
    BY <1>1, <1>4, <1>5, <2>2 DEF OneOwner
<1>7. \A d \in ClosureId \ {c} :
         IF closures'[d] = NoClosure THEN d \notin held' /\ ~Running(d)' /\ deletions'[d] = 0 ELSE OneOwner(d)'
  BY <1>1, <1>3, <1>4 DEF ClosureInv, OneOwner, IsAutoDelete, InFrame
<1>8. FramesInOrder'
  <2>1. \A t \in ClosureThread : \A i \in 1 .. Len(frames[t]) : frames[t][i].c \in ClosureId \ {c}
    <3>1. ASSUME NEW t \in ClosureThread, NEW i \in 1 .. Len(frames[t]) PROVE frames[t][i].c \in ClosureId \ {c}
      <4>1. frames[t] \in Seq(Frame)
        BY <1>1 DEF ClosureTypes
      <4>2. frames[t][i] \in Frame
        BY <4>1, ElementOfSeq
      <4>3. frames[t][i].c \in ClosureId
        BY <4>2 DEF Frame
      <4> QED
        BY <1>5, <4>3 DEF Running
    <3> QED
      BY <3>1
  <2> QED
    BY <1>1, <1>3, <2>1 DEF ClosureInv, FramesInOrder
<1> QED
  BY <1>2, <1>3, <1>6, <1>7, <1>8 DEF ClosureInv

(* A Run begins. *)
LEMMA RunInv ==
    ASSUME ClosureInv, NEW t \in ClosureThread, NEW c \in ClosureId, Run(t, c)
    PROVE  ClosureInv'
<1>1. /\ ClosureTypes /\ c \in held /\ UNCHANGED <<closures, deletions>> /\ EnterRun(t, c)
      /\ held' = IF IsAutoDelete(c) THEN held \ {c} ELSE held
  BY DEF ClosureInv, Run
<1>2. closures[c] # NoClosure /\ OneOwner(c)
  BY <1>1 DEF ClosureInv
<1> DEFINE k == closures[c].k
           m == closures[c].m
           f == [c |-> c, args |-> InOrder(k, m)]
           n == Len(frames[t])
<1>3. /\ Passed(closures[c], RunArgs(k, m)) = InOrder(k, m) /\ k \in 0 .. 7 /\ m \in 0 .. 7
      /\ closures[c].del \in BOOLEAN
  BY <1>1, <1>2, ClosureFacts
<1>4. f \in Frame /\ frames' = [frames EXCEPT ![t] = Append(frames[t], f)]
  BY <1>1, <1>3 DEF EnterRun, Frame
<1>5. /\ frames' \in [ClosureThread -> Seq(Frame)] /\ frames'[t] = Append(frames[t], f)
      /\ (\A u \in ClosureThread \ {t} : frames'[u] = frames[u]) /\ frames[t] \in Seq(Frame)
  BY <1>1, <1>4 DEF ClosureTypes
<1>6. f.c = c /\ f.args = InOrder(k, m)
  OBVIOUS
<1> HIDE DEF f
<1>7. n \in Nat /\ Len(frames'[t]) = n + 1 /\ frames'[t][n + 1] = f /\ (\A i \in 1 .. n : frames'[t][i] = frames[t][i])
  BY <1>4, <1>5
<1> HIDE DEF n
<1>8. /\ \A d \in ClosureId \ {c} : \A u \in ClosureThread : \A i \in Nat : InFrame(d, u, i)' <=> InFrame(d, u, i)
      /\ \A u \in ClosureThread : \A i \in Nat : InFrame(c, u, i)' <=> InFrame(c, u, i) \/ (u = t /\ i = n + 1)
  <2>1. ASSUME NEW d \in ClosureId, NEW i \in Nat
        PROVE  InFrame(d, t, i)' <=> InFrame(d, t, i) \/ (d = c /\ i = n + 1)
    <3>1. CASE i \in 1 .. n
      BY <1>7, <3>1 DEF InFrame, n
    <3>2. CASE i = n + 1
      BY <1>6, <1>7, <3>2 DEF InFrame, n
    <3>3. CASE i \notin 1 .. n /\ i # n + 1
      BY <1>7, <3>3 DEF InFrame, n
    <3> QED
      BY <3>1, <3>2, <3>3
  <2>2. \A d \in ClosureId : \A u \in ClosureThread \ {t} : \A i \in Nat : InFrame(d, u, i)' <=> InFrame(d, u, i)
    BY <1>5 DEF InFrame
  <2> QED
    BY <2>1, <2>2
<1>9. \A d \in ClosureId : /\ Running(d) <=> (\E u \in ClosureThread : \E i \in Nat : InFrame(d, u, i))
                           /\ Running(d)' <=> (\E u \in ClosureThread : \E i \in Nat : InFrame(d, u, i)')
  BY DEF Running, InFrame
<1>10. (\A d \in ClosureId \ {c} : Running(d)' <=> Running(d)) /\ Running(c)'
  BY <1>7, <1>8, <1>9
<1>11. ClosureTypes'
  BY <1>1, <1>5 DEF ClosureTypes
<1>12. OneOwner(c)'
  <2>1. CASE IsAutoDelete(c)
    <3>1. deletions[c] = 0 /\ ~Running(c) /\ c \notin held'
      BY <1>1, <1>2, <2>1 DEF OneOwner
    <3>2. \A u \in ClosureThread : \A i \in Nat : InFrame(c, u, i)' <=> u = t /\ i = n + 1
      BY <1>8, <1>9, <3>1
    <3> QED
      BY <1>1, <1>10, <2>1, <3>1, <3>2 DEF OneOwner, IsAutoDelete
  <2>2. CASE ~IsAutoDelete(c)
    BY <1>1, <1>2, <2>2 DEF OneOwner, IsAutoDelete
  <2> QED
    BY <2>1, <2>2
<1>13. \A d \in ClosureId \ {c} :
         IF closures'[d] = NoClosure THEN d \notin held' /\ ~Running(d)' /\ deletions'[d] = 0 ELSE OneOwner(d)'
  BY <1>1, <1>8, <1>10 DEF ClosureInv, OneOwner, IsAutoDelete
<1>14. FramesInOrder'
  <2>1. ASSUME NEW u \in ClosureThread, NEW i \in 1 .. Len(frames'[u])
        PROVE  frames'[u][i].args = InOrder(closures[frames'[u][i].c].k, closures[frames'[u][i].c].m)
    <3>1. CASE u = t /\ i = n + 1
      BY <1>6, <1>7, <3>1
    <3>2. CASE ~(u = t /\ i = n + 1)
      <4>1. i \in 1 .. Len(frames[u]) /\ frames'[u][i] = frames[u][i]
        BY <1>5, <1>7, <3>2 DEF n
      <4> QED
        BY <4>1 DEF ClosureInv, FramesInOrder
    <3> QED
      BY <3>1, <3>2
  <2> QED
    BY <1>1, <2>1 DEF FramesInOrder
<1> QED
  BY <1>1, <1>2, <1>11, <1>12, <1>13, <1>14 DEF ClosureInv

(* Runs end, one by a return or several by an exception. *)
LEMMA UnwindInv ==
    ASSUME ClosureInv, NEW t \in ClosureThread, NEW j \in 1 .. Len(frames[t]), Unwind(t, j),
           UNCHANGED <<closures, held>>
    PROVE  ClosureInv'
<1> DEFINE n == Len(frames[t])
           l == n - j
           Ended(c) == {i \in n - j + 1 .. n : frames[t][i].c = c}
<1>1. ClosureTypes /\ frames[t] \in Seq(Frame) /\ n \in Nat /\ l \in 0 .. n
  BY DEF ClosureInv, ClosureTypes
<1>2. /\ frames' = [frames EXCEPT ![t] = SubSeq(frames[t], 1, l)]
      /\ deletions' = [c \in ClosureId |-> deletions[c] + Cardinality(Ended(c)) * SelfDeleter(c)]
  BY DEF Unwind
<1>3. /\ frames'[t] = SubSeq(frames[t], 1, l) /\ (\A u \in ClosureThread \ {t} : frames'[u] = frames[u])
      /\ frames' \in [ClosureThread -> Seq(Frame)] /\ Len(frames'[t]) = l
      /\ \A i \in 1 .. l : frames'[t][i] = frames[t][i]
  <2>1. /\ SubSeq(frames[t], 1, l) \in Seq(Frame) /\ Len(SubSeq(frames[t], 1, l)) = l
        /\ \A i \in 1 .. l : SubSeq(frames[t], 1, l)[i] = frames[t][i]
    BY <1>1, PrefixTaken
  <2> HIDE DEF l
  <2>2. frames'[t] = SubSeq(frames[t], 1, l) /\ (\A u \in ClosureThread \ {t} : frames'[u] = frames[u])
    BY <1>1, <1>2 DEF ClosureTypes
  <2>3. frames' \in [ClosureThread -> Seq(Frame)]
    BY <1>1, <1>2, <2>1 DEF ClosureTypes
  <2> QED
    BY <2>1, <2>2, <2>3
<1>4. j \in 1 .. n
  OBVIOUS
<1> HIDE DEF n
<1>5. \A d \in ClosureId : \A u \in ClosureThread : \A i \in Nat :
         InFrame(d, u, i)' <=> InFrame(d, u, i) /\ ~(u = t /\ i \in Ended(d))
  <2>1. ASSUME NEW d \in ClosureId, NEW i \in Nat
        PROVE  InFrame(d, t, i)' <=> InFrame(d, t, i) /\ i \notin Ended(d)
    <3>1. CASE i \in 1 .. l
      BY <1>1, <1>3, <1>4, <3>1 DEF InFrame, n
    <3>2. CASE i \notin 1 .. l
      BY <1>1, <1>3, <1>4, <3>2 DEF InFrame, n
    <3> QED
      BY <3>1, <3>2
  <2>2. \A d \in ClosureId : \A u \in ClosureThread \ {t} : \A i \in Nat : InFrame(d, u, i)' <=> InFrame(d, u, i)
    BY <1>3 DEF InFrame
  <2> QED
    BY <2>1, <2>2
<1>6. \A d \in ClosureId : /\ Running(d) <=> (\E u \in ClosureThread : \E i \in Nat : InFrame(d, u, i))
                           /\ Running(d)' <=> (\E u \in ClosureThread : \E i \in Nat : InFrame(d, u, i)')
  BY DEF Running, InFrame
<1>7. \A d \in ClosureId : /\ IsFiniteSet(Ended(d)) /\ Cardinality(Ended(d)) \in Nat
                           /\ \A i \in Ended(d) : i \in Nat /\ InFrame(d, t, i)
  <2>1. IsFiniteSet(n - j + 1 .. n) /\ n - j + 1 \in Nat
    BY <1>1, <1>4, FS_Interval
  <2>2. \A d \in ClosureId : Ended(d) \in SUBSET (n - j + 1 .. n)
    OBVIOUS
  <2>3. \A d \in ClosureId : \A i \in Ended(d) : i \in Nat /\ InFrame(d, t, i)
    BY <1>1, <1>4, <2>1 DEF InFrame, n
  <2> QED
    BY <2>1, <2>2, <2>3, FS_Subset, FS_CardinalityType
<1> HIDE DEF Ended
<1>8. ASSUME NEW d \in ClosureId
      PROVE  /\ ~IsAutoDelete(d) => deletions'[d] = deletions[d]
             /\ IsAutoDelete(d) => deletions'[d] = deletions[d] + Cardinality(Ended(d))
             /\ deletions'[d] \in Nat
  <2>1. deletions'[d] = deletions[d] + Cardinality(Ended(d)) * SelfDeleter(d) /\ deletions[d] \in Nat
    BY <1>1, <1>2 DEF ClosureTypes
  <2> QED
    BY <1>7, <2>1 DEF SelfDeleter
<1>9. ClosureTypes'
  <2>1. deletions' \in [ClosureId -> Nat]
    BY <1>2, <1>8
  <2> QED
    BY <1>1, <1>3, <2>1 DEF ClosureTypes
<1>10. ASSUME NEW d \in ClosureId, closures[d] # NoClosure, IsAutoDelete(d) PROVE OneOwner(d)'
  <2>1. OneOwner(d) /\ deletions[d] \in Nat
    BY <1>1, <1>10 DEF ClosureInv, ClosureTypes
  <2>2. IsAutoDelete(d)'
    BY <1>10 DEF IsAutoDelete
  <2>3. CASE Ended(d) = {}
    <3>1. deletions'[d] = deletions[d]
      <4>1. Cardinality(Ended(d)) = 0
        BY <2>3, FS_EmptySet
      <4> QED
        BY <1>8, <1>10, <2>1, <4>1
    <3>2. \A u \in ClosureThread : \A i \in Nat : InFrame(d, u, i)' <=> InFrame(d, u, i)
      BY <1>5, <2>3
    <3>3. Running(d)' <=> Running(d)
      BY <1>6, <3>2
    <3> QED
      BY <1>10, <2>1, <2>2, <3>1, <3>2, <3>3 DEF OneOwner
  <2>4. CASE Ended(d) # {}
    <3>1. PICK i \in Nat : i \in Ended(d) /\ InFrame(d, t, i)
      BY <1>7, <2>4
    <3>2. Ended(d) = {i} /\ Running(d) /\ (\A u \in ClosureThread : \A x \in Nat : InFrame(d, u, x) => u = t /\ x = i)
      BY <1>6, <1>7, <1>10, <2>1, <3>1 DEF OneOwner
    <3>3. Cardinality(Ended(d)) = 1
      BY <3>2, FS_Singleton
    <3>4. deletions[d] = 0 /\ d \notin held
      BY <1>10, <2>1, <3>2 DEF OneOwner
    <3>5. deletions'[d] = 1
      BY <1>8, <1>10, <3>3, <3>4
    <3>6. \A u \in ClosureThread : \A x \in Nat : ~InFrame(d, u, x)'
      BY <1>5, <3>1, <3>2
    <3>7. ~Running(d)'
      BY <1>6, <3>6
    <3> QED
      BY <2>2, <3>4, <3>5, <3>6, <3>7 DEF OneOwner
  <2> QED
    BY <2>3, <2>4
<1>11. ASSUME NEW d \in ClosureId, closures[d] # NoClosure, ~IsAutoDelete(d) PROVE OneOwner(d)'
  BY <1>8, <1>11 DEF ClosureInv, OneOwner, IsAutoDelete
<1>12. ASSUME NEW d \in ClosureId, closures[d] = NoClosure
       PROVE  d \notin held' /\ ~Running(d)' /\ deletions'[d] = 0
  <2>1. d \notin held /\ ~Running(d) /\ deletions[d] = 0 /\ ~IsAutoDelete(d)
    BY <1>12 DEF ClosureInv, IsAutoDelete, NoClosure
  <2> QED
    BY <1>5, <1>6, <1>8, <2>1
<1>13. FramesInOrder'
  <2>1. ASSUME NEW u \in ClosureThread, NEW i \in 1 .. Len(frames'[u])
        PROVE  i \in 1 .. Len(frames[u]) /\ frames'[u][i] = frames[u][i]
    <3>1. CASE u = t
      BY <1>1, <1>3, <3>1 DEF n
    <3>2. CASE u # t
      BY <1>3, <3>2
    <3> QED
      BY <3>1, <3>2
  <2> QED
    BY <2>1 DEF ClosureInv, FramesInOrder
<1> QED
  BY <1>9, <1>10, <1>11, <1>12, <1>13 DEF ClosureInv

(* The program deletes a closure that it has. *)
LEMMA DeleteInv ==
    ASSUME ClosureInv, NEW c \in ClosureId, Delete(c)
    PROVE  ClosureInv'
<1>1. /\ ClosureTypes /\ c \in held /\ held' = held \ {c} /\ UNCHANGED <<closures, frames>>
      /\ deletions' = [deletions EXCEPT ![c] = @ + 1]
  BY DEF ClosureInv, Delete
<1>2. closures[c] # NoClosure /\ OneOwner(c) /\ deletions[c] = 0
  BY <1>1 DEF ClosureInv, OneOwner
<1>3. deletions'[c] = 1 /\ (\A d \in ClosureId \ {c} : deletions'[d] = deletions[d]) /\ ClosureTypes'
  BY <1>1, <1>2 DEF ClosureTypes
<1>4. \A d \in ClosureId : (Running(d)' <=> Running(d)) /\ (IsAutoDelete(d)' <=> IsAutoDelete(d))
  BY <1>1 DEF Running, IsAutoDelete
<1>5. \A d \in ClosureId : \A u \in ClosureThread : \A i \in Nat : InFrame(d, u, i)' <=> InFrame(d, u, i)
  BY <1>1 DEF InFrame
<1>6. OneOwner(c)'
  BY <1>1, <1>2, <1>3, <1>4, <1>5 DEF OneOwner
<1>7. \A d \in ClosureId \ {c} :
         IF closures'[d] = NoClosure THEN d \notin held' /\ ~Running(d)' /\ deletions'[d] = 0 ELSE OneOwner(d)'
  BY <1>1, <1>3, <1>4, <1>5 DEF ClosureInv, OneOwner
<1>8. FramesInOrder'
  BY <1>1 DEF ClosureInv, FramesInOrder
<1> QED
  BY <1>1, <1>2, <1>3, <1>6, <1>7, <1>8 DEF ClosureInv

(* Steps of others leave the closures alone. *)
LEMMA ClosureStutters == ClosureInv /\ UNCHANGED closureVars => ClosureInv'
<1> SUFFICES ASSUME ClosureInv, UNCHANGED closureVars PROVE ClosureInv'
  OBVIOUS
<1>1. UNCHANGED <<closures, held, frames, deletions>>
  BY DEF closureVars
<1>2. ClosureTypes' /\ FramesInOrder'
  BY <1>1 DEF ClosureInv, ClosureTypes, FramesInOrder
<1>3. \A d \in ClosureId : (Running(d)' <=> Running(d)) /\ (OneOwner(d) => OneOwner(d)')
  BY <1>1 DEF Running, OneOwner, IsAutoDelete, InFrame
<1> QED
  BY <1>1, <1>2, <1>3 DEF ClosureInv

(* Every step on closures keeps the invariant. *)
LEMMA ClosureStepInv == ClosureInv /\ [ClosureNext]_closureVars => ClosureInv'
<1> SUFFICES ASSUME ClosureInv, [ClosureNext]_closureVars PROVE ClosureInv'
  OBVIOUS
<1>1. ASSUME NEW c \in ClosureId, NEW s \in Shape[c], NewClosureOf(c, s) PROVE ClosureInv'
  <2>1. s[1] \in 0 .. 7 /\ s[2] \in 0 .. 7 - s[1]
    BY ClosureAssumption
  <2> QED
    BY <1>1, <2>1, MakeInv DEF NewClosureOf, NewClosureOfMethod, NewPermanentClosureOfMethod,
                               NewClosureOfFunction, NewPermanentClosureOfFunction
<1>2. ASSUME NEW t \in ClosureThread, Return(t) \/ (\E j \in 2 .. MaxDepth : Throw(t, j)) PROVE ClosureInv'
  <2>1. PICK j \in 1 .. Len(frames[t]) : Unwind(t, j) /\ UNCHANGED <<closures, held>>
    <3>1. CASE Return(t)
      <4>1. frames[t] \in Seq(Frame) /\ frames[t] # <<>>
        BY <3>1 DEF Return, ClosureInv, ClosureTypes
      <4>2. 1 \in 1 .. Len(frames[t])
        BY <4>1, EmptySeq, LenProperties
      <4> QED
        BY <3>1, <4>2 DEF Return
    <3>2. CASE \E j \in 2 .. MaxDepth : Throw(t, j)
      <4>1. PICK j \in 2 .. MaxDepth : Throw(t, j)
        BY <3>2
      <4>2. j \in 1 .. Len(frames[t])
        BY <4>1 DEF Throw
      <4> QED
        BY <4>1, <4>2 DEF Throw
    <3> QED
      BY <1>2, <3>1, <3>2
  <2> QED
    BY <2>1, UnwindInv
<1> QED
  BY <1>1, <1>2, RunInv, DeleteInv, ClosureStutters DEF ClosureNext

(* Every closure class passes its arguments in order: the method or         *)
(* function that a Run calls gets the arguments bound by the factory and    *)
(* then those of Run, for all 72 classes.                                   *)
THEOREM ClosureArguments == ClosureSpec => []ArgumentsInOrder
<1>1. ClosureInv => ArgumentsInOrder
  BY DEF ClosureInv, FramesInOrder, ArgumentsInOrder, InOrder
<1> QED
  BY <1>1, ClosureInitInv, ClosureStepInv, PTL DEF ClosureSpec

(* However Runs nest, return, throw and delete the closure they run, a      *)
(* closure is deleted at most once, and it exists exactly as long as the    *)
(* program may use it or its self-deleting Run lasts.                       *)
THEOREM ClosureDeletions == ClosureSpec => []ClosuresDeletedOnce
<1>1. ClosureInv => ClosuresDeletedOnce
  <2> SUFFICES ASSUME ClosureInv, NEW c \in ClosureId
               PROVE  /\ deletions[c] <= 1
                      /\ closures[c] # NoClosure =>
                           (deletions[c] = 0 <=> c \in held \/ (IsAutoDelete(c) /\ Running(c)))
    BY DEF ClosuresDeletedOnce
  <2>1. CASE closures[c] = NoClosure
    BY <2>1 DEF ClosureInv
  <2>2. CASE closures[c] # NoClosure
    <3>1. OneOwner(c)
      BY <2>2 DEF ClosureInv
    <3>2. CASE IsAutoDelete(c)
      BY <3>1, <3>2 DEF OneOwner
    <3>3. CASE ~IsAutoDelete(c)
      BY <3>1, <3>3 DEF OneOwner
    <3> QED
      BY <3>2, <3>3
  <2> QED
    BY <2>1, <2>2
<1> QED
  BY <1>1, ClosureInitInv, ClosureStepInv, PTL DEF ClosureSpec

-----------------------------------------------------------------------------
(* FutureClosure, on top of the closures. *)

FcObject ==
    [state : {"none", "live", "gone"}, kind : {"void", "A1"}, mClosure : ClosureId \cup {None},
     wrapped : ClosureId \cup {None}, mA1 : {Argument, None}, mCompletionCallback : {"callback", None}]

FcTypes ==
    /\ fc \in FcObject
    /\ future \in [state : {"pending", "completing", "completed"}, callback : {"this", None}]
    /\ worker \in {"none", "run", "inner", "clear", "complete", "notify", "completing", "done"}
    /\ owner \in {"new", "made", "assigned", "registered", "woken", "gone"}
    /\ answer \in {"none", "true", "false"}
    /\ notified \in Nat

(* How far the worker is, and what the future shows of it. *)
BeforeRun == {"none", "run"}
Phases ==
    /\ owner = "new" <=> fc.state = "none"
    /\ owner = "gone" <=> fc.state = "gone"
    /\ owner = "new" => worker = "none"
    /\ owner = "woken" => worker = "done"
    /\ owner = "gone" => worker \in {"none", "done"}
    /\ future.state = "completed" <=> worker = "done"
    /\ future.state = "completing" <=> worker \in {"notify", "completing"}
    /\ fc.kind = "A1" /\ worker \notin BeforeRun => fc.mA1 = Argument

(* Whose the wrapped closure is: with the object until the worker runs it,  *)
(* with its own Run during that, and with nobody but its maker afterwards.  *)
Wrapping ==
    /\ fc.mClosure # None => fc.mClosure = fc.wrapped /\ fc.kind = "void"
    /\ owner = "new" => fc.wrapped = None
    /\ fc.mClosure # None => worker \in BeforeRun \cup {"inner", "clear"} /\ owner # "gone"
    /\ fc.wrapped # None => closures[fc.wrapped] # NoClosure
    /\ fc.mClosure # None /\ worker \in BeforeRun => fc.mClosure \in held
    /\ worker = "inner" => /\ fc.mClosure # None /\ Len(frames[Worker]) = 1
                           /\ frames[Worker][1].c = fc.mClosure
    /\ worker # "inner" => frames[Worker] = <<>>
    /\ \A t \in ClosureThread \ {Worker} : frames[t] = <<>>
    /\ fc.wrapped # None /\ IsAutoDelete(fc.wrapped) /\ worker # "inner" /\ ~(fc.mClosure # None /\ worker \in BeforeRun)
         => deletions[fc.wrapped] = 1

(* The callback is with the future if and only if the owner was told so,    *)
(* and it is called when the future completes.                              *)
Answers ==
    /\ future.callback # None <=> answer = "true"
    /\ owner = "assigned" => fc.mCompletionCallback # None
    /\ answer = "true" => fc.mCompletionCallback # None /\ owner \in {"registered", "woken", "gone"}
    /\ worker \notin {"completing", "done"} => notified = 0
    /\ worker \in {"completing", "done"} => notified = IF answer = "true" THEN 1 ELSE 0

FcInv == ClosureInv /\ FcTypes /\ Phases /\ Wrapping /\ Answers

(* In the beginning there is no FutureClosure. *)
LEMMA FcInitInv == ClosureInit /\ FcInit => FcInv
<1> SUFFICES ASSUME ClosureInit, FcInit PROVE FcInv
  OBVIOUS
<1>1. ClosureInv
  BY ClosureInitInv
<1>2. FcTypes /\ Phases /\ Answers
  BY DEF FcInit, FcTypes, FcObject, Phases, Answers, None, BeforeRun
<1>3. Wrapping
  BY FutureClosureAssumption DEF FcInit, ClosureInit, Wrapping
<1> QED
  BY <1>1, <1>2, <1>3 DEF FcInv

(* Steps of the owner or the worker that touch no closure. *)
LEMMA QuietFcStep ==
    ASSUME FcInv, UNCHANGED closureVars, FcTypes', Phases', Answers',
           fc'.mClosure = fc.mClosure, fc'.wrapped = fc.wrapped, fc'.kind = fc.kind,
           owner' # "new", owner' # "gone" \/ owner = "gone",
           \/ worker' = worker
           \/ /\ worker # "inner" /\ worker' # "inner"
              /\ fc.mClosure = None \/ (worker \in BeforeRun /\ worker' \in BeforeRun)
    PROVE  FcInv'
<1>1. ClosureInv'
  BY ClosureStutters DEF FcInv
<1>2. UNCHANGED <<closures, held, frames, deletions>>
  BY DEF closureVars
<1>3. \A c \in ClosureId : IsAutoDelete(c)' <=> IsAutoDelete(c)
  BY <1>2 DEF IsAutoDelete
<1>4. fc.wrapped \in ClosureId \cup {None} /\ fc.mClosure \in ClosureId \cup {None}
  BY DEF FcInv, FcTypes, FcObject
<1>5. Wrapping'
  BY <1>2, <1>3, <1>4 DEF FcInv, Wrapping, IsAutoDelete
<1> QED
  BY <1>1, <1>5 DEF FcInv

(* The owner makes a closure to wrap. *)
LEMMA FcNewClosureInv ==
    ASSUME FcInv, NEW c \in ClosureId, owner = "new", NewClosureOf(c, <<0, 0>>), UNCHANGED fcVars
    PROVE  FcInv'
<1>1. ClosureInv'
  <2>1. <<0, 0>>[1] \in 0 .. 7 /\ <<0, 0>>[2] \in 0 .. 7 - <<0, 0>>[1]
    OBVIOUS
  <2>2. PICK s : s = <<0, 0>>
    OBVIOUS
  <2>3. s[1] \in 0 .. 7 /\ s[2] \in 0 .. 7 - s[1]
    BY <2>1, <2>2
  <2>4. NewClosureOf(c, s) /\ ClosureInv
    BY <2>2 DEF FcInv
  <2> QED
    BY <2>3, <2>4, MakeInv DEF NewClosureOf, NewClosureOfMethod, NewPermanentClosureOfMethod,
                               NewClosureOfFunction, NewPermanentClosureOfFunction
<1>2. UNCHANGED frames
  BY DEF NewClosureOf, NewClosureOfMethod, NewPermanentClosureOfMethod, NewClosureOfFunction,
         NewPermanentClosureOfFunction, Make
<1>3. UNCHANGED <<fc, future, worker, owner, answer, notified>>
  BY DEF fcVars
<1>4. FcTypes' /\ Phases' /\ Answers'
  BY <1>3 DEF FcInv, FcTypes, Phases, Answers
<1>5. worker = "none" /\ fc.wrapped = None /\ fc.mClosure = None
  BY DEF FcInv, Phases, Wrapping
<1>6. Wrapping'
  BY <1>2, <1>3, <1>5 DEF FcInv, Wrapping
<1> QED
  BY <1>1, <1>4, <1>6 DEF FcInv

(* The constructors. *)
LEMMA FcMakeInv ==
    ASSUME FcInv, NEW kind \in {"void", "A1"}, NEW inner \in ClosureId \cup {None},
           inner # None => inner \in held /\ kind = "void", FcMake(kind, inner)
    PROVE  FcInv'
<1>1. /\ owner = "new" /\ owner' = "made" /\ UNCHANGED <<future, worker, answer, notified>>
      /\ UNCHANGED closureVars /\ UNCHANGED <<closures, held, frames, deletions>>
      /\ fc' = [fc EXCEPT !.state = "live", !.kind = kind, !.mClosure = inner, !.wrapped = inner]
  BY DEF FcMake, closureVars
<1>2. /\ fc \in FcObject /\ fc' \in FcObject /\ fc'.state = "live" /\ fc'.kind = kind /\ fc'.mClosure = inner
      /\ fc'.wrapped = inner /\ fc'.mCompletionCallback = fc.mCompletionCallback
  BY <1>1 DEF FcInv, FcTypes, FcObject
<1>3. worker = "none"
  BY <1>1 DEF FcInv, Phases
<1>4. FcTypes' /\ Phases' /\ Answers'
  BY <1>1, <1>2, <1>3 DEF FcInv, FcTypes, Phases, Answers, BeforeRun
<1>5. inner # None => inner \in held /\ closures[inner] # NoClosure
  BY <1>1 DEF FcInv, ClosureInv
<1>6. Wrapping'
  BY <1>1, <1>2, <1>3, <1>5 DEF FcInv, Wrapping, BeforeRun
<1> QED
  BY <1>1, <1>4, <1>6, ClosureStutters DEF FcInv

(* What the owner does with a FutureClosure that exists. *)
LEMMA FcOwnerInv ==
    ASSUME FcInv, FcSubmit \/ FcSetCallback \/ FcRegister \/ FcWait
    PROVE  FcInv'
<1>1. FcTypes /\ Phases /\ Answers /\ Wrapping
  BY DEF FcInv
<1>2. CASE FcSubmit
  <2>1. /\ owner \in {"made", "assigned", "registered"} /\ worker = "none" /\ worker' = "run"
        /\ UNCHANGED closureVars /\ UNCHANGED <<fc, future, owner, answer, notified>>
    BY <1>2 DEF FcSubmit
  <2>2. FcTypes' /\ Phases' /\ Answers'
    BY <1>1, <2>1 DEF FcTypes, Phases, Answers, BeforeRun
  <2> QED
    BY <2>1, <2>2, QuietFcStep DEF BeforeRun
<1>3. CASE FcSetCallback
  <2>1. /\ owner = "made" /\ owner' = "assigned" /\ UNCHANGED closureVars
        /\ UNCHANGED <<future, worker, answer, notified>>
        /\ fc' = [fc EXCEPT !.mCompletionCallback = "callback"]
    BY <1>3 DEF FcSetCallback
  <2>2. /\ fc' \in FcObject /\ fc'.state = fc.state /\ fc'.kind = fc.kind /\ fc'.mClosure = fc.mClosure
        /\ fc'.wrapped = fc.wrapped /\ fc'.mA1 = fc.mA1 /\ fc'.mCompletionCallback = "callback"
    BY <1>1, <2>1 DEF FcTypes, FcObject
  <2>3. FcTypes' /\ Phases' /\ Answers'
    BY <1>1, <2>1, <2>2 DEF FcTypes, Phases, Answers, BeforeRun, None
  <2> QED
    BY <2>1, <2>2, <2>3, QuietFcStep
<1>4. CASE FcRegister
  <2>1. /\ owner = "assigned" /\ owner' = "registered" /\ UNCHANGED closureVars /\ UNCHANGED <<worker, notified>>
        /\ answer # "true" /\ future.callback = None
    BY <1>1, <1>4 DEF FcRegister, Answers
  <2>2. CASE FutureAccepts /\ answer' = "true" /\ UNCHANGED fc
    <3>1. /\ future.state = "pending" /\ future' = [future EXCEPT !.callback = "this"]
      BY <2>2 DEF FutureAccepts
    <3>2. /\ future' \in [state : {"pending", "completing", "completed"}, callback : {"this", None}]
          /\ future'.state = future.state /\ future'.callback = "this"
      BY <1>1, <3>1 DEF FcTypes
    <3>3. worker \notin {"completing", "done"}
      BY <1>1, <3>1 DEF Phases
    <3>4. fc.mCompletionCallback # None
      BY <1>1, <2>1 DEF Answers
    <3>5. FcTypes' /\ Phases' /\ Answers'
      BY <1>1, <2>1, <2>2, <3>2, <3>3, <3>4 DEF FcTypes, Phases, Answers, BeforeRun, None
    <3> QED
      BY <2>1, <2>2, <3>5, QuietFcStep
  <2>3. CASE FutureRefuses /\ answer' = "false" /\ fc' = [fc EXCEPT !.mCompletionCallback = None]
    <3>1. UNCHANGED future
      BY <2>3 DEF FutureRefuses
    <3>2. /\ fc' \in FcObject /\ fc'.state = fc.state /\ fc'.kind = fc.kind /\ fc'.mClosure = fc.mClosure
          /\ fc'.wrapped = fc.wrapped /\ fc'.mA1 = fc.mA1
      BY <1>1, <2>3 DEF FcTypes, FcObject
    <3>3. FcTypes' /\ Phases' /\ Answers'
      BY <1>1, <2>1, <2>3, <3>1, <3>2 DEF FcTypes, Phases, Answers, BeforeRun, None
    <3> QED
      BY <2>1, <3>2, <3>3, QuietFcStep
  <2> QED
    BY <1>4, <2>2, <2>3 DEF FcRegister
<1>5. CASE FcWait
  <2>1. /\ owner \in {"made", "registered"} /\ worker # "none" /\ future.state = "completed" /\ owner' = "woken"
        /\ UNCHANGED closureVars /\ UNCHANGED <<fc, future, worker, answer, notified>>
    BY <1>5 DEF FcWait
  <2>2. FcTypes' /\ Phases' /\ Answers'
    BY <1>1, <2>1 DEF FcTypes, Phases, Answers, BeforeRun
  <2> QED
    BY <2>1, <2>2, QuietFcStep
<1> QED
  BY <1>2, <1>3, <1>4, <1>5

(* The destructor deletes a wrapped closure that was to delete itself and   *)
(* has not been run; after Wait it finds none.                              *)
LEMMA FcDestroyInv ==
    ASSUME FcInv, FcDestroy
    PROVE  FcInv'
<1>1. FcTypes /\ Phases /\ Answers /\ Wrapping /\ ClosureInv
  BY DEF FcInv
<1>2. /\ owner = "woken" \/ (owner \in {"made", "registered"} /\ worker = "none")
      /\ owner' = "gone"
      /\ fc' = [fc EXCEPT !.state = "gone", !.mClosure = None] /\ UNCHANGED <<future, worker, answer, notified>>
  BY DEF FcDestroy
<1>3. /\ fc' \in FcObject /\ fc'.state = "gone" /\ fc'.kind = fc.kind /\ fc'.mClosure = None
      /\ fc'.wrapped = fc.wrapped /\ fc'.mA1 = fc.mA1 /\ fc'.mCompletionCallback = fc.mCompletionCallback
  BY <1>1, <1>2 DEF FcTypes, FcObject
<1>4. worker \in {"none", "done"}
  BY <1>1, <1>2 DEF Phases
<1>5. FcTypes' /\ Phases' /\ Answers'
  BY <1>1, <1>2, <1>3, <1>4 DEF FcTypes, Phases, Answers, BeforeRun, None
<1>6. fc.wrapped \in ClosureId \cup {None} /\ fc.mClosure \in ClosureId \cup {None}
  BY <1>1 DEF FcTypes, FcObject
<1>7. CASE fc.mClosure # None /\ IsAutoDelete(fc.mClosure)
  <2>1. PICK c \in ClosureId : c = fc.mClosure
    BY <1>6, <1>7
  <2>2. c = fc.wrapped /\ Delete(c) /\ ClosureInv'
    BY <1>1, <1>7, <2>1, DeleteInv DEF FcDestroy, DestructorDeletes, Wrapping
  <2>3. /\ c \in held /\ UNCHANGED <<closures, frames>> /\ deletions' = [deletions EXCEPT ![c] = @ + 1]
    BY <2>2 DEF Delete
  <2>4. closures[c] # NoClosure /\ deletions[c] = 0
    BY <1>1, <2>3 DEF ClosureInv, OneOwner
  <2>5. deletions'[c] = 1
    BY <1>1, <2>3, <2>4 DEF ClosureInv, ClosureTypes
  <2>6. Wrapping'
    BY <1>1, <1>2, <1>3, <1>4, <2>2, <2>3, <2>4, <2>5 DEF Wrapping
  <2> QED
    BY <1>5, <2>2, <2>6 DEF FcInv
<1>8. CASE ~(fc.mClosure # None /\ IsAutoDelete(fc.mClosure))
  <2>1. UNCHANGED closureVars /\ UNCHANGED <<closures, held, frames, deletions>>
    BY <1>8 DEF FcDestroy, DestructorDeletes, closureVars
  <2>2. Wrapping'
    BY <1>1, <1>2, <1>3, <1>4, <1>6, <1>8, <2>1 DEF Wrapping, IsAutoDelete
  <2> QED
    BY <1>1, <1>5, <2>1, <2>2, ClosureStutters DEF FcInv
<1> QED
  BY <1>7, <1>8

(* Its maker deletes another closure, or the wrapped one if it is           *)
(* permanent: one that deletes itself is no longer there to be deleted.     *)
LEMMA FcDeletePermanentInv ==
    ASSUME FcInv, NEW c \in ClosureId, FcDeletePermanent(c)
    PROVE  FcInv'
<1>1. FcTypes /\ Phases /\ Answers /\ Wrapping /\ ClosureInv
  BY DEF FcInv
<1>2. /\ owner \in {"woken", "gone"} /\ Delete(c) /\ UNCHANGED <<fc, future, worker, owner, answer, notified>>
  BY DEF FcDeletePermanent, fcVars
<1>3. /\ c \in held /\ UNCHANGED <<closures, frames>> /\ deletions' = [deletions EXCEPT ![c] = @ + 1]
  BY <1>2 DEF Delete
<1>4. fc.mClosure = None /\ worker \in {"none", "done"}
  BY <1>1, <1>2 DEF Phases, Wrapping, BeforeRun
<1>5. deletions[c] = 0 /\ deletions \in [ClosureId -> Nat]
  BY <1>1, <1>3 DEF ClosureInv, ClosureTypes, OneOwner
<1>6. fc.wrapped \in ClosureId \cup {None}
  BY <1>1 DEF FcTypes, FcObject
<1>7. fc.wrapped # None /\ IsAutoDelete(fc.wrapped) => deletions'[fc.wrapped] = 1
  BY <1>1, <1>3, <1>4, <1>5, <1>6 DEF Wrapping
<1>8. Wrapping'
  BY <1>1, <1>2, <1>3, <1>4, <1>7 DEF Wrapping, IsAutoDelete
<1>9. FcTypes' /\ Phases' /\ Answers'
  BY <1>1, <1>2 DEF FcTypes, Phases, Answers
<1> QED
  BY <1>1, <1>2, <1>8, <1>9, DeleteInv DEF FcInv

(* The worker's steps that leave the wrapped closure alone. *)
LEMMA FcWorkerInv ==
    ASSUME FcInv,
           FcRunStore \/ FcRunNothing \/ FcRunComplete \/ FcOnFutureComplete \/ FcRunCompleted
    PROVE  FcInv'
<1>1. FcTypes /\ Phases /\ Answers /\ Wrapping
  BY DEF FcInv
<1>2. CASE FcRunStore
  <2>1. /\ worker = "run" /\ fc.kind = "A1" /\ worker' = "complete" /\ UNCHANGED closureVars
        /\ fc' = [fc EXCEPT !.mA1 = Argument] /\ UNCHANGED <<future, notified, owner, answer>>
    BY <1>2 DEF FcRunStore, WorkerGoesTo
  <2>2. /\ fc' \in FcObject /\ fc'.state = fc.state /\ fc'.kind = fc.kind /\ fc'.mClosure = fc.mClosure
        /\ fc'.wrapped = fc.wrapped /\ fc'.mA1 = Argument /\ fc'.mCompletionCallback = fc.mCompletionCallback
    BY <1>1, <2>1 DEF FcTypes, FcObject
  <2>3. FcTypes' /\ Phases' /\ Answers' /\ fc.mClosure = None /\ owner \notin {"new", "gone"}
    BY <1>1, <2>1, <2>2 DEF FcTypes, Phases, Answers, Wrapping, BeforeRun
  <2> QED
    BY <2>1, <2>2, <2>3, QuietFcStep
<1>3. CASE FcRunNothing
  <2>1. /\ worker = "run" /\ fc.kind = "void" /\ fc.mClosure = None /\ worker' = "complete"
        /\ UNCHANGED closureVars /\ UNCHANGED <<fc, future, notified, owner, answer>>
    BY <1>3 DEF FcRunNothing, WorkerGoesTo, AfterNothing
  <2>2. FcTypes' /\ Phases' /\ Answers' /\ owner \notin {"new", "gone"}
    BY <1>1, <2>1 DEF FcTypes, Phases, Answers, BeforeRun
  <2> QED
    BY <2>1, <2>2, QuietFcStep
<1>4. CASE FcRunComplete
  <2>1. /\ worker = "complete" /\ worker' = "notify" /\ future' = [future EXCEPT !.state = "completing"]
        /\ UNCHANGED closureVars /\ UNCHANGED <<fc, notified, owner, answer>>
    BY <1>4 DEF FcRunComplete, WorkerGoesTo, FutureCompleting
  <2>2. /\ future' \in [state : {"pending", "completing", "completed"}, callback : {"this", None}]
        /\ future'.state = "completing" /\ future'.callback = future.callback
    BY <1>1, <2>1 DEF FcTypes
  <2>3. FcTypes' /\ Phases' /\ Answers' /\ owner \notin {"new", "gone"} /\ fc.mClosure = None
    BY <1>1, <2>1, <2>2 DEF FcTypes, Phases, Answers, Wrapping, BeforeRun
  <2> QED
    BY <2>1, <2>3, QuietFcStep
<1>5. CASE FcOnFutureComplete
  <2>1. /\ worker = "notify" /\ worker' = "completing" /\ UNCHANGED closureVars
        /\ UNCHANGED <<fc, future, owner, answer>>
        /\ notified' = IF future.callback # None /\ fc.mCompletionCallback # None THEN notified + 1 ELSE notified
    BY <1>5 DEF FcOnFutureComplete, WorkerGoesTo
  <2>2. notified = 0 /\ notified' = IF answer = "true" THEN 1 ELSE 0
    BY <1>1, <2>1 DEF Answers
  <2>3. FcTypes' /\ Phases' /\ Answers' /\ owner \notin {"new", "gone"} /\ fc.mClosure = None
    BY <1>1, <2>1, <2>2 DEF FcTypes, Phases, Answers, Wrapping, BeforeRun
  <2> QED
    BY <2>1, <2>3, QuietFcStep
<1>6. CASE FcRunCompleted
  <2>1. /\ worker = "completing" /\ worker' = "done" /\ future' = [future EXCEPT !.state = "completed"]
        /\ UNCHANGED closureVars /\ UNCHANGED <<fc, notified, owner, answer>>
    BY <1>6 DEF FcRunCompleted, WorkerGoesTo, FutureCompleted
  <2>2. /\ future' \in [state : {"pending", "completing", "completed"}, callback : {"this", None}]
        /\ future'.state = "completed" /\ future'.callback = future.callback
    BY <1>1, <2>1 DEF FcTypes
  <2>3. FcTypes' /\ Phases' /\ Answers' /\ owner \notin {"new", "gone"} /\ fc.mClosure = None
    BY <1>1, <2>1, <2>2 DEF FcTypes, Phases, Answers, Wrapping, BeforeRun
  <2> QED
    BY <2>1, <2>3, QuietFcStep
<1> QED
  BY <1>2, <1>3, <1>4, <1>5, <1>6

(* The worker runs the wrapped closure. *)
LEMMA FcRunInnerInv ==
    ASSUME FcInv, FcRunInner
    PROVE  FcInv'
<1>1. FcTypes /\ Phases /\ Answers /\ Wrapping /\ ClosureInv /\ ClosureTypes
  BY DEF FcInv, ClosureInv
<1>2. /\ worker = "run" /\ fc.kind = "void" /\ fc.mClosure # None /\ Run(Worker, fc.mClosure)
      /\ worker' = "inner" /\ UNCHANGED <<fc, future, notified, owner, answer>>
  BY DEF FcRunInner, WorkerGoesTo
<1>3. PICK c \in ClosureId : c = fc.mClosure
  BY <1>1, <1>2 DEF FcTypes, FcObject
<1>4. ClosureInv' /\ UNCHANGED <<closures, deletions>> /\ EnterRun(Worker, c)
  BY <1>1, <1>2, <1>3, RunInv, FutureClosureAssumption DEF Run
<1>5. Len(frames'[Worker]) = 1 /\ frames'[Worker][1].c = c /\ (\A t \in ClosureThread \ {Worker} : frames'[t] = frames[t])
  <2> DEFINE f == [c |-> c, args |-> Passed(closures[c], RunArgs(closures[c].k, closures[c].m))]
  <2>1. frames[Worker] = <<>> /\ frames \in [ClosureThread -> Seq(Frame)] /\ f.c = c
    BY <1>1, <1>2 DEF Wrapping, ClosureTypes
  <2>2. frames' = [frames EXCEPT ![Worker] = Append(frames[Worker], f)]
    BY <1>4 DEF EnterRun
  <2> HIDE DEF f
  <2>3. frames'[Worker] = Append(<<>>, f) /\ (\A t \in ClosureThread \ {Worker} : frames'[t] = frames[t])
    BY <2>1, <2>2, FutureClosureAssumption
  <2>4. Append(<<>>, f) = <<f>>
    OBVIOUS
  <2> QED
    BY <2>1, <2>3, <2>4
<1>6. FcTypes' /\ Phases' /\ Answers'
  BY <1>1, <1>2 DEF FcTypes, Phases, Answers, BeforeRun
<1>7. Wrapping'
  BY <1>1, <1>2, <1>3, <1>4, <1>5 DEF Wrapping, Phases, BeforeRun
<1> QED
  BY <1>4, <1>6, <1>7 DEF FcInv

(* The wrapped closure returns, and is gone if it was to delete itself. *)
LEMMA FcInnerReturnsInv ==
    ASSUME FcInv, FcInnerReturns
    PROVE  FcInv'
<1>1. FcTypes /\ Phases /\ Answers /\ Wrapping /\ ClosureInv /\ ClosureTypes
  BY DEF FcInv, ClosureInv
<1>2. /\ worker = "inner" /\ Return(Worker) /\ worker' = "clear" /\ UNCHANGED <<fc, future, notified, owner, answer>>
  BY DEF FcInnerReturns, WorkerGoesTo, AfterInner
<1>3. fc.mClosure # None /\ Len(frames[Worker]) = 1 /\ frames[Worker][1].c = fc.mClosure /\ fc.mClosure = fc.wrapped
  BY <1>1, <1>2 DEF Wrapping
<1>4. PICK c \in ClosureId : c = fc.mClosure
  BY <1>1, <1>3 DEF FcTypes, FcObject
<1>5. Unwind(Worker, 1) /\ UNCHANGED <<closures, held>>
  BY <1>2 DEF Return
<1>6. ClosureInv'
  <2>1. 1 \in 1 .. Len(frames[Worker])
    BY <1>3
  <2> QED
    BY <1>1, <1>5, <2>1, UnwindInv, FutureClosureAssumption
<1>7. frames'[Worker] = <<>> /\ (\A t \in ClosureThread \ {Worker} : frames'[t] = frames[t])
  <2>1. frames' = [frames EXCEPT ![Worker] = SubSeq(frames[Worker], 1, 0)]
    BY <1>3, <1>5 DEF Unwind
  <2>2. /\ frames'[Worker] = SubSeq(frames[Worker], 1, 0)
        /\ (\A t \in ClosureThread \ {Worker} : frames'[t] = frames[t]) /\ frames[Worker] \in Seq(Frame)
    BY <1>1, <2>1, FutureClosureAssumption DEF ClosureTypes
  <2>3. 0 \in 0 .. Len(frames[Worker])
    BY <1>3
  <2>4. SubSeq(frames[Worker], 1, 0) \in Seq(Frame) /\ Len(SubSeq(frames[Worker], 1, 0)) = 0
    BY <2>2, <2>3, PrefixTaken
  <2> QED
    BY <2>2, <2>4, EmptySeq
<1>8. IsAutoDelete(c) => deletions'[c] = 1
  <2> SUFFICES ASSUME IsAutoDelete(c) PROVE deletions'[c] = 1
    OBVIOUS
  <2>1. Running(c)
    BY <1>3, <1>4, FutureClosureAssumption DEF Running
  <2>2. closures[c] # NoClosure /\ OneOwner(c)
    BY <1>1, <2>1 DEF ClosureInv
  <2>3. c \notin held
    BY <2>1, <2>2 DEF OneOwner
  <2>4. ~Running(c)'
    <3>1. \A t \in ClosureThread : Len(frames'[t]) = 0
      BY <1>1, <1>7 DEF Wrapping
    <3> QED
      BY <3>1 DEF Running
  <2>5. closures'[c] # NoClosure /\ OneOwner(c)' /\ IsAutoDelete(c)' /\ c \notin held'
    BY <1>5, <1>6, <2>2, <2>3 DEF ClosureInv, IsAutoDelete
  <2> QED
    BY <2>4, <2>5 DEF OneOwner
<1>9. FcTypes' /\ Phases' /\ Answers'
  BY <1>1, <1>2 DEF FcTypes, Phases, Answers, BeforeRun
<1>10. Wrapping'
  BY <1>1, <1>2, <1>3, <1>4, <1>5, <1>7, <1>8 DEF Wrapping, IsAutoDelete, BeforeRun
<1> QED
  BY <1>6, <1>9, <1>10 DEF FcInv

(* The worker forgets the closure that it has run. *)
LEMMA FcRunClearInv ==
    ASSUME FcInv, FcRunClear
    PROVE  FcInv'
<1>1. FcTypes /\ Phases /\ Answers /\ Wrapping /\ ClosureInv
  BY DEF FcInv
<1>2. /\ worker = "clear" /\ fc' = [fc EXCEPT !.mClosure = None] /\ worker' = "complete"
      /\ UNCHANGED <<closures, held, frames, deletions>> /\ UNCHANGED closureVars
      /\ UNCHANGED <<future, notified, owner, answer>>
  BY DEF FcRunClear, WorkerGoesTo, closureVars
<1>3. /\ fc' \in FcObject /\ fc'.state = fc.state /\ fc'.kind = fc.kind /\ fc'.mClosure = None
      /\ fc'.wrapped = fc.wrapped /\ fc'.mA1 = fc.mA1 /\ fc'.mCompletionCallback = fc.mCompletionCallback
  BY <1>1, <1>2 DEF FcTypes, FcObject
<1>4. FcTypes' /\ Phases' /\ Answers'
  BY <1>1, <1>2, <1>3 DEF FcTypes, Phases, Answers, BeforeRun
<1>5. Wrapping'
  BY <1>1, <1>2, <1>3 DEF Wrapping, IsAutoDelete, BeforeRun
<1> QED
  BY <1>1, <1>2, <1>4, <1>5, ClosureStutters DEF FcInv

(* Every step of owner and worker keeps the invariant. *)
LEMMA FcStepInv == FcInv /\ [FcNext]_<<closureVars, fcVars>> => FcInv'
<1> SUFFICES ASSUME FcInv, [FcNext]_<<closureVars, fcVars>> PROVE FcInv'
  OBVIOUS
<1>1. CASE UNCHANGED <<closureVars, fcVars>>
  <2>1. UNCHANGED closureVars /\ UNCHANGED <<fc, future, worker, owner, answer, notified>>
        /\ UNCHANGED <<closures, held, frames, deletions>>
    BY <1>1 DEF fcVars, closureVars
  <2>2. FcTypes' /\ Phases' /\ Answers' /\ Wrapping'
    BY <2>1 DEF FcInv, FcTypes, Phases, Answers, Wrapping, IsAutoDelete
  <2> QED
    BY <2>1, <2>2, ClosureStutters DEF FcInv
<1>2. CASE FcMake("A1", None) \/ FcMake("void", None)
  <2>1. PICK inner \in ClosureId \cup {None} : inner = None
    OBVIOUS
  <2> QED
    BY <1>2, <2>1, FcMakeInv
<1>3. ASSUME NEW c \in ClosureId, FcMakeWith(c) PROVE FcInv'
  BY <1>3, FcMakeInv DEF FcMakeWith
<1> QED
  BY <1>1, <1>2, <1>3, FcNewClosureInv, FcOwnerInv, FcDestroyInv, FcDeletePermanentInv, FcWorkerInv,
     FcRunInnerInv, FcInnerReturnsInv, FcRunClearInv DEF FcNext, WorkerStep

(* Whenever the owner registers a callback, waits and destroys the object,  *)
(* and wherever the worker is in Run then: Run never finds the object or    *)
(* the wrapped closure gone, the destructor never finds a closure that has  *)
(* deleted itself, and a wrapped closure that was to delete itself has been *)
(* deleted once when the object is gone.                                    *)
THEOREM FutureClosureOwns == FcSpec => []WrappedClosureOwned
<1>1. FcInv => WrappedClosureOwned
  <2> SUFFICES ASSUME FcInv PROVE WrappedClosureOwned
    OBVIOUS
  <2>1. WakingIsTheLastStep
    <3>1. worker \notin {"none", "done"} => fc.state = "live"
      BY DEF FcInv, FcTypes, FcObject, Phases
    <3>2. ASSUME fc.mClosure # None, worker \notin {"inner", "clear"} PROVE Live(fc.mClosure)
      <4>1. fc.mClosure \in held /\ fc.mClosure \in ClosureId
        BY <3>2 DEF FcInv, FcTypes, FcObject, Wrapping
      <4> QED
        BY <4>1 DEF FcInv, ClosureInv, OneOwner, Live
    <3>3. owner = "woken" /\ fc.kind = "A1" => fc.mA1 = Argument
      BY DEF FcInv, Phases, BeforeRun
    <3> QED
      BY <3>1, <3>2, <3>3 DEF WakingIsTheLastStep
  <2>2. WrappedClosureDeleted
    BY DEF FcInv, Phases, Wrapping, WrappedClosureDeleted
  <2> QED
    BY <2>1, <2>2 DEF WrappedClosureOwned
<1> QED
  BY <1>1, FcInitInv, FcStepInv, PTL DEF FcSpec

(* A completion callback is called once if SetCompletionCallback returned   *)
(* true and never if it returned false, although the worker may complete    *)
(* the future between the two assignments that set it.                      *)
THEOREM FutureClosureAnswers == FcSpec => []CallbackAsAnswered
<1>1. FcInv => CallbackAsAnswered
  BY DEF FcInv, Phases, Answers, CallbackAsAnswered
<1> QED
  BY <1>1, FcInitInv, FcStepInv, PTL DEF FcSpec

-----------------------------------------------------------------------------
(* scoped_ptr and scoped_array. *)

DestructorName == {"delete", "delete[]", "free"}

ScopedTypes ==
    /\ mPtr \in [Scope -> Object \cup {NULL}]
    /\ scope \in [Scope -> {"none", "live", "dying", "gone"}]
    /\ loose \in SUBSET Object /\ unmade \in SUBSET Object
    /\ dying \in Seq([obj : Object, by : DestructorName, scope : Scope])
    /\ destroyed \in [Object -> Seq(DestructorName)]

Dying(o) == {i \in 1 .. Len(dying) : dying[i].obj = o}

(* The places where an object is: with a pointer, with the program, in a    *)
(* destruction, and among what has been destroyed.                          *)
Places(o) == Cardinality(Owners(o)) + One(o \in loose) + Cardinality(Dying(o)) + Len(destroyed[o])

(* Objects are of the kind of the pointer that has them. *)
KindsAgree ==
    /\ \A s \in Scope : scope[s] = "live" /\ mPtr[s] # NULL => Kind[mPtr[s]] = Kind[s]
    /\ \A i \in 1 .. Len(dying) : dying[i].by = Destructor(Kind[dying[i].obj])
    /\ \A o \in Object : \A i \in 1 .. Len(destroyed[o]) : destroyed[o][i] = Destructor(Kind[o])

ScopedInv ==
    /\ ScopedTypes
    /\ KindsAgree
    /\ \A o \in Object : Places(o) = One(o \notin unmade)

(* Two members of a finite set come into a subset or leave it. *)
LEMMA TwoMoved ==
    ASSUME NEW T, IsFiniteSet(T), NEW A \in SUBSET T, NEW B \in SUBSET T,
           NEW s \in T, NEW r \in T, s # r, A \ {s, r} = B \ {s, r}
    PROVE  Cardinality(B) = Cardinality(A) + One(s \in B) - One(s \in A) + One(r \in B) - One(r \in A)
<1> DEFINE M == (A \ {s}) \cup (B \cap {s})
<1>1. /\ M \in SUBSET T /\ A \ {s} = M \ {s} /\ M \ {r} = B \ {r}
      /\ (s \in M <=> s \in B) /\ (r \in M <=> r \in A)
  OBVIOUS
<1> HIDE DEF M
<1>2. /\ Cardinality(A) \in Nat /\ Cardinality(M) \in Nat
      /\ Cardinality(M) = Cardinality(A) + One(s \in M) - One(s \in A)
  BY <1>1, CountMoved DEF One
<1>3. /\ Cardinality(B) \in Nat
      /\ Cardinality(B) = Cardinality(M) + One(r \in B) - One(r \in M)
  BY <1>1, CountMoved DEF One
<1> QED
  BY <1>1, <1>2, <1>3 DEF One

(* A step that moves one pointer. *)
LEMMA OwnersMoved ==
    ASSUME NEW s \in Scope, NEW o \in Object,
           \A r \in Scope \ {s} : mPtr'[r] = mPtr[r] /\ (scope'[r] = "live" <=> scope[r] = "live")
    PROVE  /\ Cardinality(Owners(o)) \in Nat
           /\ Cardinality(Owners(o)') = Cardinality(Owners(o)) + One(s \in Owners(o)') - One(s \in Owners(o))
<1> DEFINE A == Owners(o)
           B == Owners(o)'
<1>1. A \in SUBSET Scope /\ B \in SUBSET Scope /\ A \ {s} = B \ {s} /\ IsFiniteSet(Scope)
  BY ScopedPtrAssumption DEF Owners
<1> HIDE DEF A, B
<1>2. Cardinality(A) \in Nat /\ Cardinality(B) = Cardinality(A) + One(s \in B) - One(s \in A)
  BY <1>1, CountMoved DEF One
<1> QED
  BY <1>2 DEF A, B

(* A destruction begins: one more under way. *)
LEMMA DyingAdded ==
    ASSUME ScopedTypes, NEW d \in [obj : Object, by : DestructorName, scope : Scope],
           dying' = Append(dying, d)
    PROVE  /\ dying' \in Seq([obj : Object, by : DestructorName, scope : Scope])
           /\ Len(dying') = Len(dying) + 1 /\ Len(dying) \in Nat /\ dying'[Len(dying) + 1] = d
           /\ \A i \in 1 .. Len(dying) : dying'[i] = dying[i]
           /\ \A o \in Object : /\ Cardinality(Dying(o)) \in Nat
                                /\ Cardinality(Dying(o)') = Cardinality(Dying(o)) + One(d.obj = o)
<1> DEFINE D == [obj : Object, by : DestructorName, scope : Scope]
           n == Len(dying)
<1>1. dying \in Seq(D) /\ n \in Nat /\ dying' = Append(dying, d) /\ d \in D
  BY DEF ScopedTypes
<1> HIDE DEF D
<1>2. /\ dying' \in Seq(D) /\ Len(dying') = n + 1 /\ dying'[n + 1] = d
      /\ \A i \in 1 .. n : dying'[i] = dying[i]
  BY <1>1
<1> HIDE DEF n
<1>3. ASSUME NEW o \in Object
      PROVE  /\ Cardinality(Dying(o)) \in Nat
             /\ Cardinality(Dying(o)') = Cardinality(Dying(o)) + One(d.obj = o)
  <2> DEFINE A == Dying(o)
             B == Dying(o)'
             T == 1 .. n + 1
  <2>1. IsFiniteSet(T) /\ n + 1 \in T
    BY <1>1, FS_Interval
  <2>2. A \in SUBSET T /\ B \in SUBSET T
    BY <1>1, <1>2 DEF Dying, n
  <2>3. A \ {n + 1} = B \ {n + 1} /\ n + 1 \notin A
    BY <1>1, <1>2 DEF Dying, n
  <2>4. n + 1 \in B <=> d.obj = o
    BY <1>1, <1>2 DEF Dying, n
  <2> HIDE DEF A, B, T
  <2>5. Cardinality(A) \in Nat /\ Cardinality(B) = Cardinality(A) + One(n + 1 \in B) - One(n + 1 \in A)
    BY <2>1, <2>2, <2>3, CountMoved DEF One
  <2>6. Cardinality(B) = Cardinality(A) + One(d.obj = o)
    BY <2>3, <2>4, <2>5 DEF One
  <2> QED
    BY <2>5, <2>6 DEF A, B
<1> QED
  BY <1>1, <1>2, <1>3 DEF D, n

(* The innermost destruction ends. *)
LEMMA DyingTaken ==
    ASSUME ScopedTypes, dying # <<>>, dying' = SubSeq(dying, 1, Len(dying) - 1)
    PROVE  /\ dying' \in Seq([obj : Object, by : DestructorName, scope : Scope])
           /\ Len(dying') = Len(dying) - 1 /\ Len(dying) \in Nat \ {0}
           /\ dying[Len(dying)] \in [obj : Object, by : DestructorName, scope : Scope]
           /\ \A i \in 1 .. Len(dying) - 1 : dying'[i] = dying[i]
           /\ \A o \in Object : /\ Cardinality(Dying(o)) \in Nat
                                /\ Cardinality(Dying(o)') = Cardinality(Dying(o)) - One(dying[Len(dying)].obj = o)
<1> DEFINE D == [obj : Object, by : DestructorName, scope : Scope]
           n == Len(dying)
<1>1. dying \in Seq(D)
  BY DEF ScopedTypes
<1> HIDE DEF D
<1>2. /\ dying' \in Seq(D) /\ Len(dying') = n - 1 /\ n \in Nat \ {0} /\ dying[n] \in D
      /\ \A i \in 1 .. n - 1 : dying'[i] = dying[i]
  BY <1>1, LastTaken
<1> HIDE DEF n
<1>3. ASSUME NEW o \in Object
      PROVE  /\ Cardinality(Dying(o)) \in Nat
             /\ Cardinality(Dying(o)') = Cardinality(Dying(o)) - One(dying[n].obj = o)
  <2> DEFINE A == Dying(o)
             B == Dying(o)'
             T == 1 .. n
  <2>1. IsFiniteSet(T) /\ n \in T
    BY <1>2, FS_Interval
  <2>2. A \in SUBSET T /\ B \in SUBSET T
    BY <1>1, <1>2 DEF Dying, n
  <2>3. A \ {n} = B \ {n} /\ n \notin B
    BY <1>1, <1>2 DEF Dying, n
  <2>4. n \in A <=> dying[n].obj = o
    BY <1>2 DEF Dying, n
  <2> HIDE DEF A, B, T
  <2>5. Cardinality(A) \in Nat /\ Cardinality(B) = Cardinality(A) + One(n \in B) - One(n \in A)
    BY <2>1, <2>2, <2>3, CountMoved DEF One
  <2>6. Cardinality(B) = Cardinality(A) - One(dying[n].obj = o)
    BY <2>3, <2>4, <2>5 DEF One
  <2> QED
    BY <2>5, <2>6 DEF A, B
<1> QED
  BY <1>1, <1>2, <1>3 DEF D, n

(* An operation on one pointer s that puts the object g in it, takes it     *)
(* from where the program had it, and starts to destroy the object h that   *)
(* was in it: construction, reset and the end of the scope.                 *)
LEMMA PointerStep ==
    ASSUME ScopedInv, NEW s \in Scope, NEW g \in Object \cup {NULL}, NEW h \in Object \cup {NULL},
           mPtr' \in [Scope -> Object \cup {NULL}], scope' \in [Scope -> {"none", "live", "dying", "gone"}],
           \A r \in Scope \ {s} : mPtr'[r] = mPtr[r] /\ (scope'[r] = "live" <=> scope[r] = "live"),
           \A o \in Object : (s \in Owners(o) <=> o = h) /\ (s \in Owners(o)' <=> o = g),
           g \in loose \cup {NULL}, loose' = loose \ {g}, Destruct(s, h), UNCHANGED <<destroyed, unmade>>,
           g # NULL => Kind[g] = Kind[s], h # NULL => Kind[h] = Kind[s]
    PROVE  ScopedInv'
<1>1. ScopedTypes /\ KindsAgree /\ (\A o \in Object : Places(o) = One(o \notin unmade))
  BY DEF ScopedInv
<1>2. Kind[s] \in {"new", "new[]", "malloc"} /\ Destructor(Kind[s]) \in DestructorName
  BY ScopedPtrAssumption DEF Destructor, DestructorName
<1> DEFINE d == [obj |-> h, by |-> Destructor(Kind[s]), scope |-> s]
<1>3. h # NULL => /\ d \in [obj : Object, by : DestructorName, scope : Scope]
                  /\ dying' = Append(dying, d) /\ d.obj = h /\ d.by = Destructor(Kind[s])
  BY <1>2 DEF Destruct
<1> HIDE DEF d
<1>4. h = NULL => dying' = dying
  BY DEF Destruct
<1>5. dying' \in Seq([obj : Object, by : DestructorName, scope : Scope])
  BY <1>1, <1>3, <1>4, DyingAdded DEF ScopedTypes
<1>6. ScopedTypes'
  BY <1>1, <1>5 DEF ScopedTypes
<1>7. KindsAgree'
  <2>1. \A r \in Scope : scope'[r] = "live" /\ mPtr'[r] # NULL => Kind[mPtr'[r]] = Kind[r]
    <3>1. ASSUME NEW r \in Scope, scope'[r] = "live", mPtr'[r] # NULL PROVE Kind[mPtr'[r]] = Kind[r]
      <4>1. CASE r = s
        <5>1. PICK x \in Object : x = mPtr'[s]
          BY <3>1, <4>1
        <5>2. s \in Owners(x)'
          BY <3>1, <4>1, <5>1 DEF Owners
        <5>3. mPtr'[s] = g
          BY <5>1, <5>2
        <5> QED
          BY <3>1, <4>1, <5>3
      <4>2. CASE r # s
        BY <1>1, <3>1, <4>2 DEF KindsAgree
      <4> QED
        BY <4>1, <4>2
    <3> QED
      BY <3>1
  <2>2. \A i \in 1 .. Len(dying') : dying'[i].by = Destructor(Kind[dying'[i].obj])
    <3>1. CASE h = NULL
      BY <1>1, <1>4, <3>1 DEF KindsAgree
    <3>2. CASE h # NULL
      <4>1. /\ Len(dying') = Len(dying) + 1 /\ Len(dying) \in Nat /\ dying'[Len(dying) + 1] = d
            /\ \A i \in 1 .. Len(dying) : dying'[i] = dying[i]
        BY <1>1, <1>3, <3>2, DyingAdded
      <4>2. d.by = Destructor(Kind[d.obj])
        BY <1>3, <3>2
      <4> QED
        BY <1>1, <4>1, <4>2 DEF KindsAgree
    <3> QED
      BY <3>1, <3>2
  <2> QED
    BY <1>1, <2>1, <2>2 DEF KindsAgree
<1>8. ASSUME NEW o \in Object PROVE Places(o)' = One(o \notin unmade')
  <2> DEFINE a == Cardinality(Owners(o))
             b == Cardinality(Owners(o)')
             c == Cardinality(Dying(o))
             e == Cardinality(Dying(o)')
             l == Len(destroyed[o])
  <2>1. a \in Nat /\ b = a + One(s \in Owners(o)') - One(s \in Owners(o))
    BY OwnersMoved
  <2>2. b = a + One(o = g) - One(o = h)
    BY <2>1 DEF One
  <2>3. c \in Nat /\ e = c + One(o = h)
    <3>1. CASE h = NULL
      <4>1. Dying(o)' = Dying(o) /\ o # h
        BY <1>4, <3>1, ScopedPtrAssumption DEF Dying
      <4>2. Dying(o) \in SUBSET (1 .. Len(dying)) /\ IsFiniteSet(1 .. Len(dying))
        BY <1>1, FS_Interval DEF Dying, ScopedTypes
      <4>3. c \in Nat
        BY <4>2, FS_Subset, FS_CardinalityType
      <4>4. e = c
        BY <4>1
      <4> QED
        BY <4>1, <4>3, <4>4 DEF One
    <3>2. CASE h # NULL
      <4>1. c \in Nat /\ e = c + One(d.obj = o)
        BY <1>1, <1>3, <3>2, DyingAdded
      <4> QED
        BY <1>3, <3>2, <4>1 DEF One
    <3> QED
      BY <3>1, <3>2
  <2>4. One(o \in loose') = One(o \in loose) - One(o = g)
    BY ScopedPtrAssumption DEF One
  <2>5. l \in Nat /\ Len(destroyed'[o]) = l
    BY <1>1 DEF ScopedTypes
  <2>6. a + One(o \in loose) + c + l = One(o \notin unmade)
    BY <1>1 DEF Places
  <2>7. Places(o)' = b + One(o \in loose') + e + l /\ One(o \notin unmade') = One(o \notin unmade)
    BY <2>5 DEF Places
  <2>8. One(o \in loose) \in Nat /\ One(o = g) \in Nat /\ One(o = h) \in Nat /\ One(o \notin unmade) \in Nat
    BY DEF One
  <2> HIDE DEF a, b, c, e, l
  <2> QED
    BY <2>1, <2>2, <2>3, <2>4, <2>5, <2>6, <2>7, <2>8
<1> QED
  BY <1>6, <1>7, <1>8 DEF ScopedInv

(* In the beginning nothing is owned. *)
LEMMA ScopedInitInv == ScopedInit => ScopedInv
<1> SUFFICES ASSUME ScopedInit PROVE ScopedInv
  OBVIOUS
<1>1. ScopedTypes
  BY DEF ScopedInit, ScopedTypes
<1>2. \A o \in Object : Owners(o) = {} /\ Dying(o) = {} /\ Len(destroyed[o]) = 0
  BY DEF ScopedInit, Owners, Dying
<1>3. \A o \in Object : Cardinality(Owners(o)) = 0 /\ Cardinality(Dying(o)) = 0
  BY <1>2, FS_EmptySet
<1>4. KindsAgree
  BY <1>2 DEF ScopedInit, KindsAgree
<1> QED
  BY <1>1, <1>2, <1>3, <1>4 DEF ScopedInit, ScopedInv, Places, One

(* An object is made, for nobody yet. *)
LEMMA NewInv ==
    ASSUME ScopedInv, NEW x \in Object, New(x)
    PROVE  ScopedInv'
<1>1. ScopedTypes /\ KindsAgree /\ x \in unmade /\ unmade' = unmade \ {x} /\ loose' = loose \cup {x}
      /\ UNCHANGED <<mPtr, scope, dying, destroyed>>
  BY DEF ScopedInv, New
<1>2. ScopedTypes' /\ KindsAgree'
  BY <1>1 DEF ScopedTypes, KindsAgree
<1>3. ASSUME NEW o \in Object PROVE Places(o)' = One(o \notin unmade')
  <2> DEFINE a == Cardinality(Owners(o))
             c == Cardinality(Dying(o))
             l == Len(destroyed[o])
  <2>1. a \in Nat /\ c \in Nat /\ l \in Nat
    <3>1. Dying(o) \in SUBSET (1 .. Len(dying)) /\ IsFiniteSet(1 .. Len(dying)) /\ Owners(o) \in SUBSET Scope
      BY <1>1, FS_Interval DEF Dying, ScopedTypes, Owners
    <3>2. l \in Nat
      BY <1>1 DEF ScopedTypes
    <3> QED
      BY <3>1, <3>2, ScopedPtrAssumption, FS_Subset, FS_CardinalityType
  <2>2. a + One(o \in loose) + c + l = One(o \notin unmade)
    BY DEF Places, ScopedInv
  <2>3. Owners(o)' = Owners(o) /\ Dying(o)' = Dying(o)
    BY <1>1 DEF Owners, Dying
  <2>4. Places(o)' = a + One(o \in loose') + c + l
    BY <1>1, <2>3 DEF Places
  <2> HIDE DEF a, c, l
  <2>5. x = o => One(o \notin unmade) = 0 /\ One(o \notin unmade') = 1 /\ One(o \in loose') = 1
    BY <1>1 DEF One
  <2>6. x # o => One(o \notin unmade') = One(o \notin unmade) /\ One(o \in loose') = One(o \in loose)
    BY <1>1 DEF One
  <2>7. One(o \in loose) \in Nat
    BY DEF One
  <2> QED
    BY <2>1, <2>2, <2>4, <2>5, <2>6, <2>7
<1> QED
  BY <1>2, <1>3 DEF ScopedInv

(* The constructor of scoped_ptr. *)
LEMMA ConstructInv ==
    ASSUME ScopedInv, NEW s \in Scope, NEW p \in Object \cup {NULL}, Construct(s, p)
    PROVE  ScopedInv'
<1>1. /\ ScopedTypes /\ scope[s] = "none" /\ p \in Given(s) /\ scope' = [scope EXCEPT ![s] = "live"]
      /\ mPtr' = [mPtr EXCEPT ![s] = p] /\ loose' = loose \ {p} /\ UNCHANGED <<dying, destroyed, unmade>>
  BY DEF ScopedInv, Construct
<1>2. PICK h \in Object \cup {NULL} : h = NULL
  OBVIOUS
<1>3. mPtr' \in [Scope -> Object \cup {NULL}] /\ scope' \in [Scope -> {"none", "live", "dying", "gone"}]
  BY <1>1 DEF ScopedTypes
<1>4. \A r \in Scope \ {s} : mPtr'[r] = mPtr[r] /\ (scope'[r] = "live" <=> scope[r] = "live")
  BY <1>1 DEF ScopedTypes
<1>5. \A o \in Object : (s \in Owners(o) <=> o = h) /\ (s \in Owners(o)' <=> o = p)
  BY <1>1, <1>2, ScopedPtrAssumption DEF ScopedTypes, Owners
<1>6. p \in loose \cup {NULL} /\ Destruct(s, h) /\ (p # NULL => Kind[p] = Kind[s]) /\ (h # NULL => Kind[h] = Kind[s])
  BY <1>1, <1>2 DEF Given, Destruct
<1> QED
  BY <1>1, <1>3, <1>4, <1>5, <1>6, PointerStep

(* reset, up to the destructor of the object it gives up. *)
LEMMA ResetInv ==
    ASSUME ScopedInv, NEW s \in Scope, NEW p \in Object \cup {NULL}, Reset(s, p)
    PROVE  ScopedInv'
<1>1. /\ ScopedTypes /\ scope[s] = "live" /\ p \in Given(s) /\ UNCHANGED <<scope, destroyed, unmade>>
      /\ mPtr' = [mPtr EXCEPT ![s] = p] /\ loose' = loose \ {p} /\ Destruct(s, mPtr[s])
  BY DEF ScopedInv, Reset
<1>2. PICK h \in Object \cup {NULL} : h = mPtr[s]
  BY <1>1 DEF ScopedTypes
<1>3. mPtr' \in [Scope -> Object \cup {NULL}] /\ scope' \in [Scope -> {"none", "live", "dying", "gone"}]
  BY <1>1 DEF ScopedTypes
<1>4. \A r \in Scope \ {s} : mPtr'[r] = mPtr[r] /\ (scope'[r] = "live" <=> scope[r] = "live")
  BY <1>1 DEF ScopedTypes
<1>5. \A o \in Object : (s \in Owners(o) <=> o = h) /\ (s \in Owners(o)' <=> o = p)
  BY <1>1, <1>2 DEF ScopedTypes, Owners
<1>6. p \in loose \cup {NULL} /\ Destruct(s, h) /\ (p # NULL => Kind[p] = Kind[s]) /\ (h # NULL => Kind[h] = Kind[s])
  BY <1>1, <1>2 DEF Given, ScopedInv, KindsAgree
<1> QED
  BY <1>1, <1>3, <1>4, <1>5, <1>6, PointerStep

(* The destructor of scoped_ptr, up to that of its object. *)
LEMMA EndOfScopeInv ==
    ASSUME ScopedInv, NEW s \in Scope, EndOfScope(s)
    PROVE  ScopedInv'
<1>1. /\ ScopedTypes /\ scope[s] = "live" /\ UNCHANGED <<mPtr, loose, destroyed, unmade>>
      /\ scope' = [scope EXCEPT ![s] = IF mPtr[s] = NULL THEN "gone" ELSE "dying"] /\ Destruct(s, mPtr[s])
  BY DEF ScopedInv, EndOfScope
<1>2. PICK h \in Object \cup {NULL} : h = mPtr[s]
  BY <1>1 DEF ScopedTypes
<1>3. PICK g \in Object \cup {NULL} : g = NULL
  OBVIOUS
<1>4. mPtr' \in [Scope -> Object \cup {NULL}] /\ scope' \in [Scope -> {"none", "live", "dying", "gone"}]
  BY <1>1 DEF ScopedTypes
<1>5. \A r \in Scope \ {s} : mPtr'[r] = mPtr[r] /\ (scope'[r] = "live" <=> scope[r] = "live")
  BY <1>1 DEF ScopedTypes
<1>6. \A o \in Object : (s \in Owners(o) <=> o = h) /\ (s \in Owners(o)' <=> o = g)
  BY <1>1, <1>2, <1>3, ScopedPtrAssumption DEF ScopedTypes, Owners
<1>7. /\ g \in loose \cup {NULL} /\ Destruct(s, h) /\ (g # NULL => Kind[g] = Kind[s])
      /\ (h # NULL => Kind[h] = Kind[s]) /\ loose' = loose \ {g}
  BY <1>1, <1>2, <1>3, ScopedPtrAssumption DEF ScopedInv, KindsAgree, ScopedTypes
<1> QED
  BY <1>1, <1>4, <1>5, <1>6, <1>7, PointerStep

(* Operations that only move objects between pointers and the program. *)
LEMMA MoveStep ==
    ASSUME ScopedInv, ScopedTypes', KindsAgree', UNCHANGED <<dying, destroyed, unmade>>,
           \A o \in Object : Cardinality(Owners(o)') + One(o \in loose') = Cardinality(Owners(o)) + One(o \in loose)
    PROVE  ScopedInv'
<1>1. ASSUME NEW o \in Object PROVE Places(o)' = Places(o)
  <2>1. Dying(o)' = Dying(o) /\ destroyed'[o] = destroyed[o]
    BY DEF Dying
  <2>2. Places(o)' = (Cardinality(Owners(o)') + One(o \in loose')) + Cardinality(Dying(o)) + Len(destroyed[o])
    BY <2>1 DEF Places
  <2> QED
    BY <2>2 DEF Places
<1> QED
  BY <1>1 DEF ScopedInv

(* swap. *)
LEMMA SwapInv ==
    ASSUME ScopedInv, NEW s \in Scope, NEW r \in Scope, Swap(s, r)
    PROVE  ScopedInv'
<1>1. /\ ScopedTypes /\ KindsAgree /\ s # r /\ scope[s] = "live" /\ scope[r] = "live" /\ Kind[s] = Kind[r]
      /\ mPtr' = [mPtr EXCEPT ![s] = mPtr[r], ![r] = mPtr[s]]
      /\ UNCHANGED <<scope, loose, dying, destroyed, unmade>>
  BY DEF ScopedInv, Swap
<1>2. mPtr'[s] = mPtr[r] /\ mPtr'[r] = mPtr[s] /\ (\A x \in Scope \ {s, r} : mPtr'[x] = mPtr[x])
      /\ mPtr' \in [Scope -> Object \cup {NULL}]
  BY <1>1 DEF ScopedTypes
<1>3. ScopedTypes' /\ KindsAgree'
  BY <1>1, <1>2 DEF ScopedTypes, KindsAgree
<1>4. ASSUME NEW o \in Object PROVE Cardinality(Owners(o)') = Cardinality(Owners(o)) /\ One(o \in loose') = One(o \in loose)
  <2> DEFINE A == Owners(o)
             B == Owners(o)'
  <2>1. /\ A \in SUBSET Scope /\ B \in SUBSET Scope /\ A \ {s, r} = B \ {s, r}
        /\ (s \in B <=> r \in A) /\ (r \in B <=> s \in A)
    BY <1>1, <1>2 DEF Owners
  <2>2. IsFiniteSet(Scope)
    BY ScopedPtrAssumption
  <2> HIDE DEF A, B
  <2>3. Cardinality(B) = Cardinality(A) + One(s \in B) - One(s \in A) + One(r \in B) - One(r \in A)
    BY <1>1, <2>1, <2>2, TwoMoved
  <2>4. Cardinality(A) \in Nat
    BY <2>1, <2>2, FS_Subset, FS_CardinalityType
  <2>5. Cardinality(B) = Cardinality(A)
    BY <2>1, <2>3, <2>4 DEF One
  <2> QED
    BY <1>1, <2>5 DEF A, B
<1> QED
  BY <1>1, <1>3, <1>4, MoveStep

(* release gives the object back to the program. *)
LEMMA ReleaseInv ==
    ASSUME ScopedInv, NEW s \in Scope, Release(s)
    PROVE  ScopedInv'
<1>1. /\ ScopedTypes /\ KindsAgree /\ scope[s] = "live" /\ mPtr[s] # NULL
      /\ loose' = loose \cup {mPtr[s]} /\ mPtr' = [mPtr EXCEPT ![s] = NULL]
      /\ UNCHANGED <<scope, dying, destroyed, unmade>>
  BY DEF ScopedInv, Release
<1>2. PICK h \in Object : h = mPtr[s]
  BY <1>1 DEF ScopedTypes
<1>3. ScopedTypes' /\ KindsAgree'
  BY <1>1, <1>2 DEF ScopedTypes, KindsAgree
<1>4. \A r \in Scope \ {s} : mPtr'[r] = mPtr[r] /\ (scope'[r] = "live" <=> scope[r] = "live")
  BY <1>1 DEF ScopedTypes
<1>5. ASSUME NEW o \in Object
      PROVE  Cardinality(Owners(o)') + One(o \in loose') = Cardinality(Owners(o)) + One(o \in loose)
  <2> DEFINE a == Cardinality(Owners(o))
             b == Cardinality(Owners(o)')
             c == Cardinality(Dying(o))
             l == Len(destroyed[o])
  <2>1. a \in Nat /\ b = a + One(s \in Owners(o)') - One(s \in Owners(o))
    BY <1>4, OwnersMoved
  <2>2. (s \in Owners(o) <=> o = h) /\ s \notin Owners(o)'
    BY <1>1, <1>2, ScopedPtrAssumption DEF ScopedTypes, Owners
  <2>3. b = a - One(o = h)
    <3>1. One(s \in Owners(o)') = 0
      BY <2>2 DEF One
    <3>2. One(s \in Owners(o)) = One(o = h) /\ One(o = h) \in Nat
      BY <2>2 DEF One
    <3>3. b = a + 0 - One(o = h)
      BY <2>1, <3>1, <3>2
    <3> HIDE DEF a, b
    <3>4. a + 0 - One(o = h) = a - One(o = h)
      BY <2>1, <3>2
    <3> QED
      BY <3>3, <3>4
  <2>4. c \in Nat /\ l \in Nat
    <3>1. Dying(o) \in SUBSET (1 .. Len(dying)) /\ IsFiniteSet(1 .. Len(dying))
      BY <1>1, FS_Interval DEF Dying, ScopedTypes
    <3>2. l \in Nat
      BY <1>1 DEF ScopedTypes
    <3> QED
      BY <3>1, <3>2, FS_Subset, FS_CardinalityType
  <2>5. a + One(o \in loose) + c + l = One(o \notin unmade)
    BY DEF ScopedInv, Places
  <2>6. o = h => a > 0
    <3>1. Owners(o) \in SUBSET Scope /\ IsFiniteSet(Scope) /\ Owners(o) \ {s} = Owners(o) \ {s}
      BY ScopedPtrAssumption DEF Owners
    <3> QED
      BY <2>2, <3>1, CountMoved
  <2> HIDE DEF a, b, c, l
  <2>7. o = h => o \notin loose
    BY <2>1, <2>4, <2>5, <2>6 DEF One
  <2>8. One(o \in loose') = One(o \in loose) + One(o = h)
    BY <1>1, <1>2, <2>7 DEF One
  <2>9. One(o \in loose) \in Nat /\ One(o = h) \in Nat
    BY DEF One
  <2>10. b + One(o \in loose') = a + One(o \in loose)
    BY <2>1, <2>3, <2>8, <2>9
  <2> QED
    BY <2>10 DEF a, b
<1> QED
  BY <1>1, <1>3, <1>5, MoveStep

(* The destructor of an object ends. *)
LEMMA DestroyedInv ==
    ASSUME ScopedInv, Destroyed
    PROVE  ScopedInv'
<1>1. /\ ScopedTypes /\ KindsAgree /\ dying # <<>> /\ dying' = SubSeq(dying, 1, Len(dying) - 1)
      /\ UNCHANGED <<mPtr, loose, unmade>>
  BY DEF ScopedInv, Destroyed
<1> DEFINE D == [obj : Object, by : DestructorName, scope : Scope]
           n == Len(dying)
<1>2. /\ dying' \in Seq(D) /\ Len(dying') = n - 1 /\ n \in Nat \ {0} /\ dying[n] \in D
      /\ \A i \in 1 .. n - 1 : dying'[i] = dying[i]
      /\ \A o \in Object : /\ Cardinality(Dying(o)) \in Nat
                           /\ Cardinality(Dying(o)') = Cardinality(Dying(o)) - One(dying[n].obj = o)
  BY <1>1, DyingTaken
<1>3. PICK d \in D : d = dying[n]
  BY <1>2
<1>4. d.obj \in Object /\ d.by \in DestructorName /\ d.scope \in Scope
  OBVIOUS
<1>5. /\ destroyed' = [destroyed EXCEPT ![d.obj] = Append(@, d.by)]
      /\ scope' = [scope EXCEPT ![d.scope] = IF @ = "dying" /\ mPtr[d.scope] = d.obj THEN "gone" ELSE @]
  BY <1>3 DEF Destroyed
<1> HIDE DEF D
<1>6. d.by = Destructor(Kind[d.obj])
  BY <1>1, <1>2, <1>3 DEF KindsAgree
<1>7. scope' \in [Scope -> {"none", "live", "dying", "gone"}] /\ (\A s \in Scope : scope'[s] = "live" <=> scope[s] = "live")
  BY <1>1, <1>4, <1>5 DEF ScopedTypes
<1>8. /\ destroyed' \in [Object -> Seq(DestructorName)]
      /\ destroyed'[d.obj] = Append(destroyed[d.obj], d.by) /\ destroyed[d.obj] \in Seq(DestructorName)
      /\ \A o \in Object \ {d.obj} : destroyed'[o] = destroyed[o]
  BY <1>1, <1>4, <1>5 DEF ScopedTypes
<1>9. ScopedTypes'
  BY <1>1, <1>2, <1>7, <1>8 DEF ScopedTypes, D
<1>10. KindsAgree'
  <2>1. \A s \in Scope : scope'[s] = "live" /\ mPtr'[s] # NULL => Kind[mPtr'[s]] = Kind[s]
    BY <1>1, <1>7 DEF KindsAgree
  <2>2. \A i \in 1 .. Len(dying') : dying'[i].by = Destructor(Kind[dying'[i].obj])
    BY <1>1, <1>2 DEF KindsAgree
  <2>3. \A o \in Object : \A i \in 1 .. Len(destroyed'[o]) : destroyed'[o][i] = Destructor(Kind[o])
    <3>1. \A i \in 1 .. Len(destroyed'[d.obj]) : destroyed'[d.obj][i] = Destructor(Kind[d.obj])
      <4>1. \A i \in 1 .. Len(destroyed[d.obj]) : destroyed[d.obj][i] = Destructor(Kind[d.obj])
        BY <1>1, <1>4 DEF KindsAgree
      <4> QED
        BY <1>4, <1>6, <1>8, <4>1
    <3>2. \A o \in Object \ {d.obj} : \A i \in 1 .. Len(destroyed'[o]) : destroyed'[o][i] = Destructor(Kind[o])
      BY <1>1, <1>8 DEF KindsAgree
    <3> QED
      BY <3>1, <3>2
  <2> QED
    BY <2>1, <2>2, <2>3 DEF KindsAgree
<1>11. ASSUME NEW o \in Object PROVE Places(o)' = Places(o)
  <2> DEFINE a == Cardinality(Owners(o))
             c == Cardinality(Dying(o))
             e == Cardinality(Dying(o)')
             l == Len(destroyed[o])
             m == Len(destroyed'[o])
  <2>1. Owners(o)' = Owners(o)
    BY <1>1, <1>7 DEF Owners
  <2>2. Owners(o) \in SUBSET Scope /\ IsFiniteSet(Scope)
    BY ScopedPtrAssumption DEF Owners
  <2>3. a \in Nat /\ Cardinality(Owners(o)') = a
    BY <2>1, <2>2, FS_Subset, FS_CardinalityType
  <2>4. c \in Nat /\ e = c - One(d.obj = o)
    BY <1>2, <1>3
  <2>5. l \in Nat /\ m = l + One(d.obj = o)
    <3>1. CASE d.obj = o
      <4>1. destroyed[o] \in Seq(DestructorName) /\ destroyed'[o] = Append(destroyed[o], d.by)
        BY <1>8, <3>1
      <4> QED
        BY <1>4, <3>1, <4>1 DEF One
    <3>2. CASE d.obj # o
      BY <1>1, <1>8, <3>2 DEF One, ScopedTypes
    <3> QED
      BY <3>1, <3>2
  <2>6. Places(o) = a + One(o \in loose) + c + l /\ Places(o)' = a + One(o \in loose) + e + m
    BY <1>1, <2>3 DEF Places
  <2>7. One(o \in loose) \in Nat /\ One(d.obj = o) \in Nat
    BY DEF One
  <2> HIDE DEF a, c, e, l, m
  <2> QED
    BY <2>3, <2>4, <2>5, <2>6, <2>7
<1> QED
  BY <1>1, <1>9, <1>10, <1>11 DEF ScopedInv

(* Every step on scoped pointers keeps the invariant. *)
LEMMA ScopedStepInv == ScopedInv /\ [ScopedNext]_scopedVars => ScopedInv'
<1> SUFFICES ASSUME ScopedInv, [ScopedNext]_scopedVars PROVE ScopedInv'
  OBVIOUS
<1>1. CASE UNCHANGED scopedVars
  BY <1>1 DEF scopedVars, ScopedInv, ScopedTypes, KindsAgree, Places, Owners, Dying
<1> QED
  BY <1>1, NewInv, ConstructInv, ResetInv, SwapInv, ReleaseInv, EndOfScopeInv, DestroyedInv DEF ScopedNext

(* Whatever is done with scoped pointers, also by the destructors that they *)
(* run: every object that was made has one owner until it is destroyed, and *)
(* it is destroyed once, with the function for the way it was made.         *)
THEOREM ScopedOwnership == ScopedSpec => []ObjectsOwnedOnce
<1>1. ASSUME ScopedInv PROVE ObjectsOwnedOnce
  <2> SUFFICES ASSUME NEW o \in Object \ unmade
               PROVE  /\ Cardinality(Owners(o)) + Cardinality({o} \cap loose)
                           + Cardinality({i \in 1 .. Len(dying) : dying[i].obj = o}) + Len(destroyed[o]) = 1
                      /\ \A i \in 1 .. Len(destroyed[o]) : destroyed[o][i] = Destructor(Kind[o])
    BY DEF ObjectsOwnedOnce
  <2>1. Cardinality({o} \cap loose) = One(o \in loose)
    <3>1. CASE o \in loose
      <4>1. {o} \cap loose = {o}
        BY <3>1
      <4> QED
        BY <3>1, <4>1, FS_Singleton DEF One
    <3>2. CASE o \notin loose
      <4>1. {o} \cap loose = {}
        BY <3>2
      <4> QED
        BY <3>2, <4>1, FS_EmptySet DEF One
    <3> QED
      BY <3>1, <3>2
  <2>2. Cardinality(Owners(o)) + One(o \in loose) + Cardinality(Dying(o)) + Len(destroyed[o]) = 1
    BY <1>1 DEF ScopedInv, Places, One
  <2> QED
    BY <1>1, <2>1, <2>2 DEF ScopedInv, KindsAgree, Dying
<1> QED
  BY <1>1, ScopedInitInv, ScopedStepInv, PTL DEF ScopedSpec

-----------------------------------------------------------------------------
(* RefCounted. *)

RefTypes ==
    /\ safe \in BOOLEAN /\ mRefCnt \in Int /\ object \in {"live", "deleted"}
    /\ refs \in [RefThread -> Nat]
    /\ releasing \in [RefThread -> {"no", "delete", "return"}]
    /\ refCnt \in [RefThread -> Int] /\ told \in [RefThread -> Int]

(* The Releases that gave up the last reference, and those that are past    *)
(* the deletion.                                                            *)
PastDelete(t) == told[t] = 0 \/ (releasing[t] = "return" /\ refCnt[t] = 0)
LastToGo(t) == PastDelete(t) \/ releasing[t] = "delete"

(* The counter is right; the object is deleted as soon as the last one to   *)
(* give up a reference gets to it, and there is one such thread.            *)
RefInv ==
    /\ RefTypes
    /\ mRefCnt = SumFunction(refs)
    /\ deletes = IF object = "live" THEN 0 ELSE 1
    /\ object = "deleted" => mRefCnt = 0
    /\ mRefCnt = 0 /\ object = "live" => \E t \in RefThread : releasing[t] = "delete"
    /\ \A t \in RefThread : releasing[t] = "delete" => safe /\ object = "live" /\ mRefCnt = 0
    /\ safe => /\ \A t, u \in RefThread : LastToGo(t) /\ LastToGo(u) => t = u
               /\ \A t \in RefThread : LastToGo(t) => mRefCnt = 0
               /\ \A t \in RefThread : PastDelete(t) => object = "deleted"

(* One reference more, or one less, is one more, or one less, in the sum. *)
LEMMA ReferencesChange ==
    ASSUME RefInv, NEW t \in RefThread, NEW n \in Nat, refs' = [refs EXCEPT ![t] = n]
    PROVE  /\ refs' \in [RefThread -> Nat] /\ SumFunction(refs') = mRefCnt + n - refs[t]
           /\ mRefCnt \in Nat /\ SumFunction(refs') \in Nat
           /\ refs[t] \in Nat /\ refs[t] <= mRefCnt
<1>1. IsFiniteSet(RefThread) /\ refs \in [RefThread -> Nat] /\ mRefCnt = SumFunction(refs)
  BY RefAssumption DEF RefInv, RefTypes
<1>2. refs' \in [RefThread -> Nat]
  BY <1>1
<1>3. \A u \in RefThread \ {t} : refs[u] = refs'[u]
  BY <1>1
<1>4. refs'[t] = n
  BY <1>1
<1> DEFINE f == refs
           g == refs'
<1>5. f \in [RefThread -> Nat] /\ g \in [RefThread -> Nat] /\ (\A u \in RefThread \ {t} : f[u] = g[u])
  BY <1>1, <1>2, <1>3
<1> HIDE DEF f, g
<1>6. f \in [RefThread -> Int] /\ g \in [RefThread -> Int]
  BY <1>5
<1>7. SumFunction(g) = SumFunction(f) + g[t] - f[t]
  BY <1>1, <1>5, <1>6, SumChanged
<1>8. SumFunction(f) \in Nat /\ SumFunction(g) \in Nat /\ f[t] <= SumFunction(f) /\ f[t] \in Nat
  BY <1>1, <1>5, SumOfNaturals
<1> QED
  BY <1>1, <1>2, <1>4, <1>7, <1>8 DEF f, g

(* In the beginning nobody has a reference. *)
LEMMA RefInitInv == RefInit => RefInv
<1> SUFFICES ASSUME RefInit PROVE RefInv
  OBVIOUS
<1>1. RefTypes
  BY DEF RefInit, RefTypes, Unread
<1>2. SumFunction(refs) = 1
  <2>1. PICK t \in RefThread : refs = [u \in RefThread |-> IF u = t THEN 1 ELSE 0]
    BY DEF RefInit
  <2> DEFINE f == [u \in RefThread |-> 0]
             g == refs
  <2>2. /\ f \in [RefThread -> Int] /\ g \in [RefThread -> Int] /\ (\A u \in RefThread : f[u] = 0)
        /\ (\A u \in RefThread \ {t} : f[u] = g[u]) /\ g[t] = 1
    BY <2>1
  <2> HIDE DEF f, g
  <2>3. IsFiniteSet(RefThread)
    BY RefAssumption
  <2>4. SumFunction(f) = 0 /\ SumFunction(g) = SumFunction(f) + g[t] - f[t]
    BY <2>2, <2>3, SumChanged
  <2> QED
    BY <2>2, <2>4 DEF g
<1> QED
  BY <1>1, <1>2 DEF RefInit, RefInv, LastToGo, PastDelete, Unread

(* AddRef counts a reference for a thread: it needs one itself, so the      *)
(* object is alive and nobody is the last to go.                            *)
LEMMA AddRefInv ==
    ASSUME RefInv, NEW t \in RefThread, NEW u \in RefThread, AddRef(t, u)
    PROVE  RefInv'
<1>1. RefTypes /\ refs[u] \in Nat
  BY DEF RefInv, RefTypes
<1>2. refs' = [refs EXCEPT ![u] = refs[u] + 1] /\ refs[u] + 1 \in Nat
  BY <1>1 DEF AddRef
<1>3. refs' \in [RefThread -> Nat] /\ SumFunction(refs') = mRefCnt + (refs[u] + 1) - refs[u] /\ mRefCnt \in Nat
  BY <1>2, ReferencesChange
<1>4. mRefCnt > 0
  <2>1. refs = [refs EXCEPT ![t] = refs[t]] /\ refs[t] \in Nat /\ refs[t] > 0
    BY <1>1 DEF RefTypes, AddRef, May
  <2>2. refs[t] <= SumFunction(refs)
    BY <1>1, RefAssumption, SumOfNaturals DEF RefTypes
  <2> QED
    BY <1>3, <2>1, <2>2 DEF RefInv
<1>5. mRefCnt' = mRefCnt + 1 /\ SumFunction(refs') = mRefCnt'
  BY <1>1, <1>3 DEF AddRef
<1>6. UNCHANGED <<safe, object, releasing, refCnt, told, deletes>>
  BY DEF AddRef
<1>7. RefTypes'
  BY <1>1, <1>3, <1>5, <1>6 DEF RefTypes
<1>8. \A x \in RefThread : (LastToGo(x)' <=> LastToGo(x)) /\ (PastDelete(x)' <=> PastDelete(x))
  BY <1>6 DEF LastToGo, PastDelete
<1> QED
  BY <1>3, <1>4, <1>5, <1>6, <1>7, <1>8 DEF RefInv

(* The decrement: if it gives zero, this thread is the last to go. *)
LEMMA ReleaseDecrementInv ==
    ASSUME RefInv, NEW t \in RefThread, ReleaseDecrement(t)
    PROVE  RefInv'
<1>1. RefTypes /\ refs[t] \in Nat /\ refs[t] > 0 /\ releasing[t] = "no" /\ safe
  BY DEF RefInv, RefTypes, ReleaseDecrement, May
<1>2. refs' = [refs EXCEPT ![t] = refs[t] - 1] /\ refs[t] - 1 \in Nat
  BY <1>1 DEF ReleaseDecrement
<1>3. /\ refs' \in [RefThread -> Nat] /\ SumFunction(refs') = mRefCnt + (refs[t] - 1) - refs[t] /\ mRefCnt \in Nat
      /\ SumFunction(refs') \in Nat /\ refs[t] <= mRefCnt
  BY <1>2, ReferencesChange
<1>4. mRefCnt' = mRefCnt - 1 /\ SumFunction(refs') = mRefCnt' /\ mRefCnt > 0 /\ mRefCnt' \in Nat
  BY <1>1, <1>3 DEF ReleaseDecrement
<1>5. UNCHANGED <<safe, object, told, deletes>>
  BY DEF ReleaseDecrement
<1>6. /\ refCnt' = [refCnt EXCEPT ![t] = mRefCnt']
      /\ releasing' = [releasing EXCEPT ![t] = IF mRefCnt' = 0 THEN "delete" ELSE "return"]
  BY <1>4 DEF ReleaseDecrement, LastReference
<1>7. RefTypes'
  BY <1>1, <1>3, <1>4, <1>5, <1>6 DEF RefTypes
<1>8. object = "live" /\ (\A x \in RefThread : ~LastToGo(x))
  BY <1>1, <1>4 DEF RefInv, RefTypes
<1>9. /\ \A x \in RefThread \ {t} : ~LastToGo(x)' /\ releasing'[x] # "delete"
      /\ \A x \in RefThread : ~PastDelete(x)'
      /\ LastToGo(t)' <=> mRefCnt' = 0
      /\ releasing'[t] = "delete" <=> mRefCnt' = 0
  <2>1. releasing'[t] = (IF mRefCnt' = 0 THEN "delete" ELSE "return") /\ refCnt'[t] = mRefCnt'
    BY <1>1, <1>6 DEF RefTypes
  <2>2. \A x \in RefThread \ {t} : releasing'[x] = releasing[x] /\ refCnt'[x] = refCnt[x] /\ told'[x] = told[x]
    BY <1>1, <1>5, <1>6 DEF RefTypes
  <2> QED
    BY <1>5, <1>8, <2>1, <2>2 DEF LastToGo, PastDelete
<1> QED
  BY <1>1, <1>4, <1>5, <1>7, <1>8, <1>9 DEF RefInv

(* The deletion, by the one thread that is to do it. *)
LEMMA ReleaseDeleteInv ==
    ASSUME RefInv, NEW t \in RefThread, ReleaseDelete(t)
    PROVE  RefInv'
<1>1. /\ RefTypes /\ releasing[t] = "delete" /\ safe /\ object = "live" /\ mRefCnt = 0 /\ deletes = 0
      /\ LastToGo(t) /\ (\A x \in RefThread \ {t} : ~LastToGo(x))
  BY DEF RefInv, ReleaseDelete, LastToGo, PastDelete
<1>2. /\ object' = "deleted" /\ deletes' = 1 /\ releasing' = [releasing EXCEPT ![t] = "return"]
      /\ UNCHANGED <<safe, mRefCnt, refs, refCnt, told>>
  BY <1>1 DEF ReleaseDelete
<1>3. RefTypes'
  BY <1>1, <1>2 DEF RefTypes
<1>4. \A x \in RefThread \ {t} : ~LastToGo(x)' /\ releasing'[x] # "delete"
  BY <1>1, <1>2 DEF RefTypes, LastToGo, PastDelete
<1>5. releasing'[t] = "return"
  BY <1>1, <1>2 DEF RefTypes
<1> QED
  BY <1>1, <1>2, <1>3, <1>4, <1>5 DEF RefInv

(* The return: what is returned is what the decrement gave. *)
LEMMA ReleaseReturnInv ==
    ASSUME RefInv, NEW t \in RefThread, ReleaseReturn(t)
    PROVE  RefInv'
<1>1. RefTypes /\ releasing[t] = "return" /\ UNCHANGED <<safe, mRefCnt, object, refs, deletes>>
  BY DEF RefInv, ReleaseReturn
<1>2. told'[t] = refCnt[t] /\ releasing'[t] = "no" /\ RefTypes'
  BY <1>1 DEF RefTypes, ReleaseReturn, Returned
<1>3. \A x \in RefThread \ {t} : releasing'[x] = releasing[x] /\ refCnt'[x] = refCnt[x] /\ told'[x] = told[x]
  BY <1>1 DEF RefTypes, ReleaseReturn
<1>4. \A x \in RefThread : (LastToGo(x)' => LastToGo(x)) /\ (PastDelete(x)' => PastDelete(x)) /\ (releasing'[x] = "delete" <=> releasing[x] = "delete")
  BY <1>1, <1>2, <1>3 DEF LastToGo, PastDelete
<1> QED
  BY <1>1, <1>2, <1>4 DEF RefInv

(* The Release of RefCountedUnsafe, in one step. *)
LEMMA ReleaseUnsafeInv ==
    ASSUME RefInv, NEW t \in RefThread, ReleaseUnsafe(t)
    PROVE  RefInv'
<1>1. RefTypes /\ refs[t] \in Nat /\ refs[t] > 0 /\ ~safe /\ (\A x \in RefThread : releasing[x] # "delete")
  BY DEF RefInv, RefTypes, ReleaseUnsafe, May
<1>2. refs' = [refs EXCEPT ![t] = refs[t] - 1] /\ refs[t] - 1 \in Nat
  BY <1>1 DEF ReleaseUnsafe
<1>3. /\ refs' \in [RefThread -> Nat] /\ SumFunction(refs') = mRefCnt + (refs[t] - 1) - refs[t] /\ mRefCnt \in Nat
      /\ SumFunction(refs') \in Nat /\ refs[t] <= mRefCnt
  BY <1>2, ReferencesChange
<1>4. mRefCnt' = mRefCnt - 1 /\ SumFunction(refs') = mRefCnt' /\ mRefCnt > 0 /\ mRefCnt' \in Nat
  BY <1>1, <1>3 DEF ReleaseUnsafe
<1>5. UNCHANGED <<safe, releasing, refCnt>> /\ object = "live" /\ deletes = 0
  BY <1>4 DEF ReleaseUnsafe, RefInv, RefTypes
<1>6. /\ mRefCnt' = 0 => object' = "deleted" /\ deletes' = 1
      /\ mRefCnt' # 0 => object' = "live" /\ deletes' = 0
      /\ told' \in [RefThread -> Int]
  BY <1>1, <1>4, <1>5 DEF ReleaseUnsafe, RefTypes, Garbage
<1>7. RefTypes'
  BY <1>1, <1>3, <1>4, <1>5, <1>6 DEF RefTypes
<1> QED
  BY <1>1, <1>4, <1>5, <1>6, <1>7 DEF RefInv

(* Every step on a counted object keeps the invariant. *)
LEMMA RefStepInv == RefInv /\ [RefNext]_refVars => RefInv'
<1> SUFFICES ASSUME RefInv, [RefNext]_refVars PROVE RefInv'
  OBVIOUS
<1>1. CASE UNCHANGED refVars
  BY <1>1 DEF refVars, RefInv, RefTypes, LastToGo, PastDelete
<1> QED
  BY <1>1, AddRefInv, ReleaseDecrementInv, ReleaseDeleteInv, ReleaseReturnInv, ReleaseUnsafeInv DEF RefNext

(* The counter of RefCounted is the number of references, whoever counts    *)
(* and in whatever order; the object is deleted once, by the Release that   *)
(* gave up the last reference and after it; HasOneRef means exclusive; and  *)
(* of all Releases only that one returns 0.                                 *)
THEOREM RefsCounted == RefSpec => []ReferencesCounted
<1>1. ASSUME RefInv PROVE ReferencesCounted
  <2>1. /\ RefTypes /\ mRefCnt = SumFunction(refs) /\ mRefCnt \in Nat
        /\ \A t \in RefThread : refs[t] <= mRefCnt
        /\ \A t, u \in RefThread : t # u => refs[t] + refs[u] <= mRefCnt
    BY <1>1, RefAssumption, SumOfNaturals DEF RefInv, RefTypes
  <2>3. CountIsReferences
    <3>1. ASSUME SumFunction(refs) = 0, object = "live"
          PROVE  Cardinality({t \in RefThread : releasing[t] = "delete"}) = 1
      <4>1. PICK t \in RefThread : releasing[t] = "delete" /\ safe
        BY <1>1, <2>1, <3>1 DEF RefInv
      <4>2. {u \in RefThread : releasing[u] = "delete"} = {t}
        BY <1>1, <4>1 DEF RefInv, LastToGo, PastDelete
      <4> QED
        BY <4>2, FS_Singleton
    <3> QED
      BY <1>1, <2>1, <3>1 DEF CountIsReferences, RefInv, RefTypes
  <2>4. OneRefIsExclusive
    <3>1. ASSUME NEW t \in RefThread, refs[t] > 0, mRefCnt = 1, NEW u \in RefThread \ {t} PROVE refs[u] = 0
      <4>1. refs[t] + refs[u] <= 1 /\ refs[t] \in Nat /\ refs[u] \in Nat
        BY <2>1, <3>1 DEF RefTypes
      <4> QED
        BY <3>1, <4>1
    <3> QED
      BY <1>1, <3>1 DEF OneRefIsExclusive, HasOneRef, RefInv, RefTypes
  <2>5. ZeroOnlyForLast
    <3> SUFFICES ASSUME safe, NEW t \in RefThread, told[t] = 0
                 PROVE  object = "deleted" /\ Cardinality({u \in RefThread : told[u] = 0}) = 1
      BY DEF ZeroOnlyForLast
    <3>1. LastToGo(t) /\ (\A u \in RefThread : LastToGo(u) => u = t)
      BY <1>1 DEF RefInv, LastToGo, PastDelete
    <3>2. {u \in RefThread : told[u] = 0} = {t}
      BY <3>1 DEF LastToGo, PastDelete
    <3>3. object = "deleted"
      BY <1>1, <3>1 DEF RefInv, RefTypes, LastToGo, PastDelete
    <3> QED
      BY <3>2, <3>3, FS_Singleton
  <2> QED
    BY <2>3, <2>4, <2>5 DEF ReferencesCounted
<1> QED
  BY <1>1, RefInitInv, RefStepInv, PTL DEF RefSpec

-----------------------------------------------------------------------------
(* FuturePtr. *)

FuturePtrTypes ==
    /\ mFuture \in [Pointer -> FutureId \cup {NoFuture}]
    /\ mRefCount \in [FutureId -> Nat]
    /\ futures \in [FutureId -> {"none", "live", "deleted"}]
    /\ bare \in SUBSET FutureId
    /\ assigning \in [Pointer -> Pointer \cup {NoPointer}]

(* The counts are right; a pointer in the middle of an assignment points    *)
(* where the other side does, which has its own count and keeps it.         *)
FuturePtrInv ==
    /\ FuturePtrTypes
    /\ \A f \in FutureId : /\ mRefCount[f] = Cardinality(Counted(f)) + One(f \in bare)
                           /\ futures[f] = "live" <=> mRefCount[f] > 0
    /\ \A p \in Pointer : assigning[p] # NoPointer =>
           /\ assigning[p] # p /\ assigning[assigning[p]] = NoPointer
           /\ mFuture[assigning[p]] = mFuture[p]

(* A step that moves one pointer changes the number of pointers to a Future *)
(* by as much as that pointer is counted.                                   *)
LEMMA PointerMoved ==
    ASSUME FuturePtrTypes, NEW p \in Pointer, NEW f \in FutureId,
           \A r \in Pointer \ {p} : /\ mFuture'[r] = mFuture[r]
                                    /\ assigning'[r] = NoPointer <=> assigning[r] = NoPointer
    PROVE  /\ Cardinality(Counted(f)) \in Nat /\ Cardinality(Counted(f)') \in Nat
           /\ p \in Counted(f) => Cardinality(Counted(f)) > 0
           /\ Cardinality(Counted(f)') = Cardinality(Counted(f)) + One(p \in Counted(f)') - One(p \in Counted(f))
<1> DEFINE A == Counted(f)
           B == Counted(f)'
<1>1. A \in SUBSET Pointer /\ B \in SUBSET Pointer /\ A \ {p} = B \ {p}
  BY DEF Counted
<1>2. IsFiniteSet(Pointer)
  BY FuturePtrAssumption
<1> HIDE DEF A, B
<1>3. /\ Cardinality(A) \in Nat /\ Cardinality(B) \in Nat
      /\ p \in A => Cardinality(A) > 0
      /\ Cardinality(B) = Cardinality(A) + One(p \in B) - One(p \in A)
  BY <1>1, <1>2, CountMoved DEF One
<1> QED
  BY <1>3 DEF A, B

(* A Future that a pointer points to is alive. *)
LEMMA PointedToIsLive ==
    ASSUME FuturePtrInv
    PROVE  /\ \A p \in Pointer : mFuture[p] # NoFuture =>
                 /\ mFuture[p] \in FutureId /\ mRefCount[mFuture[p]] > 0 /\ futures[mFuture[p]] = "live"
           /\ \A f \in bare : mRefCount[f] > 0 /\ futures[f] = "live"
<1>1. ASSUME NEW r \in Pointer, assigning[r] = NoPointer, mFuture[r] # NoFuture
      PROVE  mFuture[r] \in FutureId /\ mRefCount[mFuture[r]] > 0
  <2>1. PICK f \in FutureId : f = mFuture[r]
    BY <1>1 DEF FuturePtrInv, FuturePtrTypes
  <2>2. Counted(f) \in SUBSET Pointer /\ r \in Counted(f) /\ Counted(f) \ {r} = Counted(f) \ {r}
    BY <1>1, <2>1 DEF Counted
  <2>3. Cardinality(Counted(f)) \in Nat /\ Cardinality(Counted(f)) > 0
    BY <2>2, CountMoved, FuturePtrAssumption
  <2>4. One(f \in bare) \in Nat /\ mRefCount[f] = Cardinality(Counted(f)) + One(f \in bare)
    BY DEF One, FuturePtrInv
  <2> QED
    BY <2>1, <2>3, <2>4
<1>2. ASSUME NEW p \in Pointer, mFuture[p] # NoFuture
      PROVE  mFuture[p] \in FutureId /\ mRefCount[mFuture[p]] > 0 /\ futures[mFuture[p]] = "live"
  <2>1. PICK r \in Pointer : assigning[r] = NoPointer /\ mFuture[r] = mFuture[p]
    <3>1. CASE assigning[p] = NoPointer
      BY <3>1
    <3>2. CASE assigning[p] # NoPointer
      BY <3>2 DEF FuturePtrInv, FuturePtrTypes
    <3> QED
      BY <3>1, <3>2
  <2>2. mFuture[p] \in FutureId /\ mRefCount[mFuture[p]] > 0
    BY <1>1, <1>2, <2>1
  <2> QED
    BY <2>2 DEF FuturePtrInv
<1>3. ASSUME NEW f \in bare PROVE mRefCount[f] > 0 /\ futures[f] = "live"
  <2>1. f \in FutureId /\ Counted(f) \in SUBSET Pointer
    BY DEF FuturePtrInv, FuturePtrTypes, Counted
  <2>2. Cardinality(Counted(f)) \in Nat
    BY <2>1, FuturePtrAssumption, FS_Subset, FS_CardinalityType
  <2>3. mRefCount[f] = Cardinality(Counted(f)) + 1
    BY <2>1 DEF FuturePtrInv, One
  <2> QED
    BY <2>1, <2>2, <2>3 DEF FuturePtrInv
<1> QED
  BY <1>2, <1>3

(* In the beginning no pointer points anywhere. *)
LEMMA FuturePtrInitInv == FuturePtrInit => FuturePtrInv
<1> SUFFICES ASSUME FuturePtrInit PROVE FuturePtrInv
  OBVIOUS
<1>1. FuturePtrTypes
  BY DEF FuturePtrInit, FuturePtrTypes
<1>2. \A f \in FutureId : Counted(f) = {}
  BY FuturePtrAssumption DEF FuturePtrInit, Counted
<1>3. \A f \in FutureId : Cardinality(Counted(f)) = 0
  BY <1>2, FS_EmptySet
<1> QED
  BY <1>1, <1>3 DEF FuturePtrInit, FuturePtrInv, One

(* What every action has to give: counts that move with the pointer and     *)
(* with what the program has, and a state that moves with the count.        *)
LEMMA FutureStep ==
    ASSUME FuturePtrInv, FuturePtrTypes', NEW p \in Pointer,
           \A r \in Pointer \ {p} : /\ mFuture'[r] = mFuture[r]
                                    /\ assigning'[r] = NoPointer <=> assigning[r] = NoPointer,
           \A f \in FutureId :
             /\ mRefCount'[f] = mRefCount[f] + One(p \in Counted(f)') - One(p \in Counted(f))
                                             + One(f \in bare') - One(f \in bare)
             /\ futures'[f] = "live" <=> mRefCount'[f] > 0,
           \A r \in Pointer : assigning'[r] # NoPointer =>
             /\ assigning'[r] # r /\ assigning'[assigning'[r]] = NoPointer
             /\ mFuture'[assigning'[r]] = mFuture'[r]
    PROVE  FuturePtrInv'
<1>1. ASSUME NEW f \in FutureId
      PROVE  mRefCount'[f] = Cardinality(Counted(f)') + One(f \in bare')
  <2> DEFINE a == Cardinality(Counted(f))
             b == Cardinality(Counted(f)')
             i == One(p \in Counted(f))
             j == One(p \in Counted(f)')
             k == One(f \in bare)
             l == One(f \in bare')
  <2>1. a \in Nat /\ b \in Nat /\ b = a + j - i
    BY PointerMoved DEF FuturePtrInv
  <2>2. i \in Nat /\ j \in Nat /\ k \in Nat /\ l \in Nat
    BY DEF One
  <2>3. mRefCount[f] = a + k /\ mRefCount'[f] = mRefCount[f] + j - i + l - k
    BY DEF FuturePtrInv
  <2> HIDE DEF a, b, i, j, k, l
  <2>4. mRefCount'[f] = b + l
    BY <2>1, <2>2, <2>3
  <2> QED
    BY <2>4 DEF b, l
<1> QED
  BY <1>1 DEF FuturePtrInv

(* What letting a Future go does to its count and its state. *)
LEMMA LetGo ==
    ASSUME FuturePtrInv, NEW g \in FutureId \cup {NoFuture}, g # NoFuture => mRefCount[g] > 0, Unref(g)
    PROVE  /\ mRefCount' \in [FutureId -> Nat] /\ futures' \in [FutureId -> {"none", "live", "deleted"}]
           /\ \A f \in FutureId : /\ mRefCount'[f] = mRefCount[f] - One(f = g)
                                  /\ futures'[f] = "live" <=> mRefCount'[f] > 0
<1>1. FuturePtrTypes /\ \A f \in FutureId : mRefCount[f] \in Nat /\ (futures[f] = "live" <=> mRefCount[f] > 0)
  BY DEF FuturePtrInv, FuturePtrTypes
<1>2. CASE g = NoFuture
  <2>1. mRefCount' = mRefCount /\ \A f \in FutureId : f # g
    BY <1>2, FuturePtrAssumption DEF Unref, Unrefed
  <2>2. futures' = futures
    BY <1>1, <2>1 DEF Unref, FuturePtrTypes
  <2> QED
    BY <1>1, <2>1, <2>2 DEF FuturePtrTypes, One
<1>3. CASE g # NoFuture
  <2>1. g \in FutureId /\ mRefCount' = [mRefCount EXCEPT ![g] = @ - 1] /\ mRefCount[g] \in Nat /\ mRefCount[g] > 0
    BY <1>1, <1>3 DEF Unref, Unrefed
  <2>2. futures' = [h \in FutureId |-> IF h = g /\ mRefCount[g] = 1 THEN "deleted" ELSE futures[h]]
    BY DEF Unref
  <2>3. \A f \in FutureId : mRefCount'[f] = mRefCount[f] - One(f = g)
    BY <1>1, <2>1 DEF FuturePtrTypes, One
  <2>4. mRefCount' \in [FutureId -> Nat]
    BY <1>1, <2>1 DEF FuturePtrTypes
  <2>5. \A f \in FutureId : futures'[f] = "live" <=> mRefCount'[f] > 0
    BY <1>1, <2>1, <2>2, <2>3 DEF FuturePtrTypes, One
  <2>6. futures' \in [FutureId -> {"none", "live", "deleted"}]
    BY <1>1, <2>2 DEF FuturePtrTypes
  <2> QED
    BY <2>3, <2>4, <2>5, <2>6
<1> QED
  BY <1>2, <1>3

(* What counting a Future does. *)
LEMMA CountedOnce ==
    ASSUME FuturePtrInv, NEW g \in FutureId \cup {NoFuture}, g # NoFuture => mRefCount[g] > 0,
           mRefCount' = Refed(mRefCount, g), futures' = futures
    PROVE  /\ mRefCount' \in [FutureId -> Nat]
           /\ \A f \in FutureId : /\ mRefCount'[f] = mRefCount[f] + One(f = g)
                                  /\ futures'[f] = "live" <=> mRefCount'[f] > 0
<1>1. FuturePtrTypes /\ \A f \in FutureId : mRefCount[f] \in Nat /\ (futures[f] = "live" <=> mRefCount[f] > 0)
  BY DEF FuturePtrInv, FuturePtrTypes
<1>2. CASE g = NoFuture
  BY <1>1, <1>2, FuturePtrAssumption DEF FuturePtrTypes, Refed, One
<1>3. CASE g # NoFuture
  <2>1. g \in FutureId /\ mRefCount' = [mRefCount EXCEPT ![g] = @ + 1] /\ mRefCount[g] \in Nat /\ mRefCount[g] > 0
    BY <1>1, <1>3 DEF Refed
  <2>2. \A f \in FutureId : mRefCount'[f] = mRefCount[f] + One(f = g)
    BY <1>1, <2>1 DEF FuturePtrTypes, One
  <2> QED
    BY <1>1, <2>1, <2>2 DEF FuturePtrTypes, One
<1> QED
  BY <1>2, <1>3

(* A Future is made, with the reference of its maker. *)
LEMMA CreateFutureInv ==
    ASSUME FuturePtrInv, NEW f \in FutureId, CreateFuture(f)
    PROVE  FuturePtrInv'
<1>1. FuturePtrTypes /\ mRefCount[f] \in Nat /\ ~(mRefCount[f] > 0) /\ f \notin bare
  BY PointedToIsLive DEF FuturePtrInv, FuturePtrTypes, CreateFuture
<1>2. UNCHANGED <<mFuture, assigning>> /\ bare' = bare \cup {f} /\ mRefCount' = [mRefCount EXCEPT ![f] = 1]
      /\ futures' = [futures EXCEPT ![f] = "live"]
  BY DEF CreateFuture
<1>3. FuturePtrTypes'
  BY <1>1, <1>2 DEF FuturePtrTypes
<1>4. \A g \in FutureId : Counted(g)' = Counted(g)
  BY <1>2 DEF Counted
<1>5. \A g \in FutureId : Cardinality(Counted(g)) \in Nat
  BY FuturePtrAssumption, FS_Subset, FS_CardinalityType DEF Counted
<1>6. ASSUME NEW g \in FutureId
      PROVE  /\ mRefCount'[g] = Cardinality(Counted(g)') + One(g \in bare')
             /\ futures'[g] = "live" <=> mRefCount'[g] > 0
  <2>1. Cardinality(Counted(g)') = Cardinality(Counted(g)) /\ Cardinality(Counted(g)) \in Nat
    BY <1>4, <1>5
  <2>2. mRefCount[g] = Cardinality(Counted(g)) + One(g \in bare)
    BY DEF FuturePtrInv
  <2>3. CASE g = f
    <3>1. One(g \in bare) = 0 /\ One(g \in bare') = 1 /\ mRefCount'[g] = 1 /\ futures'[g] = "live"
      BY <1>1, <1>2, <2>3 DEF One, FuturePtrTypes
    <3> QED
      BY <1>1, <2>1, <2>2, <2>3, <3>1
  <2>4. CASE g # f
    BY <1>1, <1>2, <2>1, <2>2, <2>4 DEF One, FuturePtrTypes, FuturePtrInv
  <2> QED
    BY <2>3, <2>4
<1> QED
  BY <1>2, <1>3, <1>6 DEF FuturePtrInv

(* The copy constructor of FuturePtr. *)
LEMMA CopyConstructInv ==
    ASSUME FuturePtrInv, NEW p \in Pointer, NEW q \in Pointer, CopyConstruct(p, q)
    PROVE  FuturePtrInv'
<1>1. /\ FuturePtrTypes /\ p # q /\ mFuture[p] = NoFuture /\ Idle(p) /\ Idle(q)
      /\ mFuture' = [mFuture EXCEPT ![p] = mFuture[q]] /\ UNCHANGED <<futures, bare, assigning>>
  BY DEF FuturePtrInv, CopyConstruct
<1>2. PICK g \in FutureId \cup {NoFuture} : g = mFuture[q]
  BY <1>1 DEF FuturePtrTypes
<1>3. /\ mRefCount' \in [FutureId -> Nat]
      /\ \A f \in FutureId : /\ mRefCount'[f] = mRefCount[f] + One(f = g)
                             /\ futures'[f] = "live" <=> mRefCount'[f] > 0
  BY <1>1, <1>2, CountedOnce, PointedToIsLive DEF CopyConstruct
<1>4. FuturePtrTypes'
  BY <1>1, <1>3 DEF FuturePtrTypes
<1>5. \A f \in FutureId : p \notin Counted(f) /\ (p \in Counted(f)' <=> f = g)
  BY <1>1, <1>2, FuturePtrAssumption DEF Counted, FuturePtrTypes, Idle
<1>6. \A f \in FutureId : mRefCount'[f] = mRefCount[f] + One(p \in Counted(f)') - One(p \in Counted(f))
                                             + One(f \in bare') - One(f \in bare)
  BY <1>1, <1>3, <1>5 DEF One, FuturePtrTypes
<1>7. \A r \in Pointer \ {p} : mFuture'[r] = mFuture[r] /\ (assigning'[r] = NoPointer <=> assigning[r] = NoPointer)
  BY <1>1 DEF FuturePtrTypes
<1>8. \A r \in Pointer : assigning'[r] # NoPointer =>
             /\ assigning'[r] # r /\ assigning'[assigning'[r]] = NoPointer
             /\ mFuture'[assigning'[r]] = mFuture'[r]
  BY <1>1 DEF FuturePtrInv, FuturePtrTypes, Idle
<1> QED
  BY <1>3, <1>4, <1>6, <1>7, <1>8, FutureStep

(* Reset with a Future the pointer takes over, or with NULL. *)
LEMMA ResetToInv ==
    ASSUME FuturePtrInv, NEW p \in Pointer, NEW h \in FutureId \cup {NoFuture}, ResetTo(p, h)
    PROVE  FuturePtrInv'
<1>1. /\ FuturePtrTypes /\ Idle(p) /\ h \in bare \cup {NoFuture}
      /\ mFuture' = [mFuture EXCEPT ![p] = h] /\ bare' = bare \ {h} /\ UNCHANGED assigning
  BY DEF FuturePtrInv, ResetTo
<1>2. PICK g \in FutureId \cup {NoFuture} : g = mFuture[p]
  BY <1>1 DEF FuturePtrTypes
<1>3. /\ mRefCount' \in [FutureId -> Nat] /\ futures' \in [FutureId -> {"none", "live", "deleted"}]
      /\ \A f \in FutureId : /\ mRefCount'[f] = mRefCount[f] - One(f = g)
                             /\ futures'[f] = "live" <=> mRefCount'[f] > 0
  BY <1>1, <1>2, LetGo, PointedToIsLive DEF ResetTo
<1>4. FuturePtrTypes'
  BY <1>1, <1>3 DEF FuturePtrTypes
<1>5. \A f \in FutureId : (p \in Counted(f) <=> f = g) /\ (p \in Counted(f)' <=> f = h)
  BY <1>1, <1>2, FuturePtrAssumption DEF Counted, FuturePtrTypes, Idle
<1>6. \A f \in FutureId : (f \in bare' <=> f \in bare /\ f # h) /\ (f = h => f \in bare)
  BY <1>1, FuturePtrAssumption
<1>7. \A f \in FutureId : mRefCount'[f] = mRefCount[f] + One(p \in Counted(f)') - One(p \in Counted(f))
                                             + One(f \in bare') - One(f \in bare)
  BY <1>1, <1>3, <1>5, <1>6 DEF One, FuturePtrTypes
<1>8. \A r \in Pointer \ {p} : mFuture'[r] = mFuture[r] /\ (assigning'[r] = NoPointer <=> assigning[r] = NoPointer)
  BY <1>1 DEF FuturePtrTypes
<1>9. \A r \in Pointer : assigning'[r] # NoPointer =>
             /\ assigning'[r] # r /\ assigning'[assigning'[r]] = NoPointer
             /\ mFuture'[assigning'[r]] = mFuture'[r]
  BY <1>1 DEF FuturePtrInv, FuturePtrTypes, Idle
<1> QED
  BY <1>3, <1>4, <1>7, <1>8, <1>9, FutureStep

(* An assignment lets go of the old Future first: the new one lives on      *)
(* because the pointer that is assigned from counts it.                     *)
LEMMA AssignInv ==
    ASSUME FuturePtrInv, NEW p \in Pointer, NEW q \in Pointer, Assign(p, q)
    PROVE  FuturePtrInv'
<1>1. /\ FuturePtrTypes /\ Idle(p) /\ Idle(q) /\ mFuture[p] # mFuture[q] /\ UNCHANGED bare
      /\ mFuture' = [mFuture EXCEPT ![p] = mFuture[q]] /\ assigning' = [assigning EXCEPT ![p] = q]
  BY DEF FuturePtrInv, Assign, SameFuture
<1>2. PICK g \in FutureId \cup {NoFuture} : g = mFuture[p]
  BY <1>1 DEF FuturePtrTypes
<1>3. /\ mRefCount' \in [FutureId -> Nat] /\ futures' \in [FutureId -> {"none", "live", "deleted"}]
      /\ \A f \in FutureId : /\ mRefCount'[f] = mRefCount[f] - One(f = g)
                             /\ futures'[f] = "live" <=> mRefCount'[f] > 0
  BY <1>1, <1>2, LetGo, PointedToIsLive DEF Assign
<1>4. FuturePtrTypes'
  BY <1>1, <1>3 DEF FuturePtrTypes
<1>5. \A f \in FutureId : (p \in Counted(f) <=> f = g) /\ p \notin Counted(f)'
  BY <1>1, <1>2, FuturePtrAssumption DEF Counted, FuturePtrTypes, Idle
<1>6. \A f \in FutureId : mRefCount'[f] = mRefCount[f] + One(p \in Counted(f)') - One(p \in Counted(f))
                                             + One(f \in bare') - One(f \in bare)
  BY <1>1, <1>3, <1>5 DEF One, FuturePtrTypes
<1>7. \A r \in Pointer \ {p} : mFuture'[r] = mFuture[r] /\ (assigning'[r] = NoPointer <=> assigning[r] = NoPointer)
  BY <1>1 DEF FuturePtrTypes
<1>8. \A r \in Pointer : assigning'[r] # NoPointer =>
             /\ assigning'[r] # r /\ assigning'[assigning'[r]] = NoPointer
             /\ mFuture'[assigning'[r]] = mFuture'[r]
  BY <1>1 DEF FuturePtrInv, FuturePtrTypes, Idle
<1> QED
  BY <1>3, <1>4, <1>6, <1>7, <1>8, FutureStep

(* The assignment takes its new reference. *)
LEMMA AssignRefInv ==
    ASSUME FuturePtrInv, NEW p \in Pointer, AssignRef(p)
    PROVE  FuturePtrInv'
<1>1. /\ FuturePtrTypes /\ assigning[p] # NoPointer /\ UNCHANGED <<mFuture, futures, bare>>
      /\ assigning' = [assigning EXCEPT ![p] = NoPointer]
  BY DEF FuturePtrInv, AssignRef
<1>2. PICK g \in FutureId \cup {NoFuture} : g = mFuture[p]
  BY <1>1 DEF FuturePtrTypes
<1>3. /\ mRefCount' \in [FutureId -> Nat]
      /\ \A f \in FutureId : /\ mRefCount'[f] = mRefCount[f] + One(f = g)
                             /\ futures'[f] = "live" <=> mRefCount'[f] > 0
  BY <1>1, <1>2, CountedOnce, PointedToIsLive DEF AssignRef
<1>4. FuturePtrTypes'
  BY <1>1, <1>3 DEF FuturePtrTypes
<1>5. \A f \in FutureId : p \notin Counted(f) /\ (p \in Counted(f)' <=> f = g)
  BY <1>1, <1>2, FuturePtrAssumption DEF Counted, FuturePtrTypes
<1>6. \A f \in FutureId : mRefCount'[f] = mRefCount[f] + One(p \in Counted(f)') - One(p \in Counted(f))
                                             + One(f \in bare') - One(f \in bare)
  BY <1>1, <1>3, <1>5 DEF One, FuturePtrTypes
<1>7. \A r \in Pointer \ {p} : mFuture'[r] = mFuture[r] /\ (assigning'[r] = NoPointer <=> assigning[r] = NoPointer)
  BY <1>1 DEF FuturePtrTypes
<1>8. \A r \in Pointer : assigning'[r] # NoPointer =>
             /\ assigning'[r] # r /\ assigning'[assigning'[r]] = NoPointer
             /\ mFuture'[assigning'[r]] = mFuture'[r]
  BY <1>1, FuturePtrAssumption DEF FuturePtrInv, FuturePtrTypes
<1> QED
  BY <1>3, <1>4, <1>6, <1>7, <1>8, FutureStep

(* Release gives the count back to the program. *)
LEMMA GiveUpInv ==
    ASSUME FuturePtrInv, NEW p \in Pointer, GiveUp(p)
    PROVE  FuturePtrInv'
<1>1. /\ FuturePtrTypes /\ Idle(p) /\ mFuture[p] # NoFuture /\ mFuture[p] \notin bare
      /\ bare' = bare \cup {mFuture[p]} /\ mFuture' = [mFuture EXCEPT ![p] = NoFuture]
      /\ UNCHANGED <<mRefCount, futures, assigning>>
  BY DEF FuturePtrInv, GiveUp
<1>2. PICK g \in FutureId : g = mFuture[p]
  BY <1>1 DEF FuturePtrTypes
<1>3. FuturePtrTypes'
  BY <1>1, <1>2 DEF FuturePtrTypes
<1>4. \A f \in FutureId : (p \in Counted(f) <=> f = g) /\ p \notin Counted(f)'
  BY <1>1, <1>2, FuturePtrAssumption DEF Counted, FuturePtrTypes, Idle
<1>5. \A f \in FutureId : (f \in bare' <=> f \in bare \/ f = g) /\ (f = g => f \notin bare)
  BY <1>1, <1>2
<1>6. \A f \in FutureId : mRefCount'[f] = mRefCount[f] + One(p \in Counted(f)') - One(p \in Counted(f))
                                             + One(f \in bare') - One(f \in bare)
  BY <1>1, <1>4, <1>5 DEF One, FuturePtrTypes
<1>7. \A r \in Pointer \ {p} : mFuture'[r] = mFuture[r] /\ (assigning'[r] = NoPointer <=> assigning[r] = NoPointer)
  BY <1>1 DEF FuturePtrTypes
<1>8. \A r \in Pointer : assigning'[r] # NoPointer =>
             /\ assigning'[r] # r /\ assigning'[assigning'[r]] = NoPointer
             /\ mFuture'[assigning'[r]] = mFuture'[r]
  BY <1>1 DEF FuturePtrInv, FuturePtrTypes, Idle
<1>9. \A f \in FutureId : futures'[f] = "live" <=> mRefCount'[f] > 0
  BY <1>1 DEF FuturePtrInv
<1> QED
  BY <1>3, <1>6, <1>7, <1>8, <1>9, FutureStep

(* Every step on FuturePtrs keeps the invariant. *)
LEMMA FuturePtrStepInv == FuturePtrInv /\ [FuturePtrNext]_futurePtrVars => FuturePtrInv'
<1> SUFFICES ASSUME FuturePtrInv, [FuturePtrNext]_futurePtrVars PROVE FuturePtrInv'
  OBVIOUS
<1>1. CASE UNCHANGED futurePtrVars
  BY <1>1 DEF futurePtrVars, FuturePtrInv, FuturePtrTypes, Counted
<1> QED
  BY <1>1, CreateFutureInv, CopyConstructInv, ResetToInv, AssignInv, AssignRefInv, GiveUpInv DEF FuturePtrNext

(* Whatever the pointers do, also while one of them is in the middle of an  *)
(* assignment: a Future is counted once for every FuturePtr to it and once  *)
(* for the program, lives exactly as long as somebody counts it, and no     *)
(* FuturePtr points to one that is gone.                                    *)
THEOREM FutureCounts == FuturePtrSpec => []FuturesCounted
<1>1. ASSUME FuturePtrInv PROVE FuturesCounted
  <2> SUFFICES ASSUME NEW f \in FutureId
               PROVE  /\ mRefCount[f] = Cardinality(Counted(f)) + Cardinality({f} \cap bare)
                      /\ futures[f] = "live" <=> mRefCount[f] > 0
                      /\ (\E p \in Pointer : mFuture[p] = f) => futures[f] = "live"
    BY DEF FuturesCounted
  <2>1. Cardinality({f} \cap bare) = One(f \in bare)
    <3>1. CASE f \in bare
      <4>1. {f} \cap bare = {f}
        BY <3>1
      <4> QED
        BY <3>1, <4>1, FS_Singleton DEF One
    <3>2. CASE f \notin bare
      <4>1. {f} \cap bare = {}
        BY <3>2
      <4> QED
        BY <3>2, <4>1, FS_EmptySet DEF One
    <3> QED
      BY <3>1, <3>2
  <2>2. mRefCount[f] = Cardinality(Counted(f)) + One(f \in bare) /\ (futures[f] = "live" <=> mRefCount[f] > 0)
    BY <1>1 DEF FuturePtrInv
  <2>3. (\E p \in Pointer : mFuture[p] = f) => futures[f] = "live"
    BY <1>1, PointedToIsLive, FuturePtrAssumption
  <2> QED
    BY <2>1, <2>2, <2>3
<1> QED
  BY <1>1, FuturePtrInitInv, FuturePtrStepInv, PTL DEF FuturePtrSpec
=============================================================================
