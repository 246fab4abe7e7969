----------------------------- MODULE SpinRWLock -----------------------------
(***************************************************************************)
(* SpinRWLock of apsara/stone/threading/sync/lock.h: a spinning            *)
(* reader-writer lock made of one atomic int, mQuota.  An attempt first    *)
(* subtracts its share (kRead or kWrite) and, when the result is negative, *)
(* gives the share back in a SECOND atomic step.  Between the two steps    *)
(* the failed attempt is visible to every other thread, which is what      *)
(* makes the lock hard to reason about.                                    *)
(***************************************************************************)
EXTENDS Integers, FiniteSets

CONSTANTS
    Thread,    \* the threads that share the lock
    kWrite,    \* the writer's share, 0x01000000 in the code
    IntHalf    \* an int ranges over -IntHalf .. IntHalf - 1 (2^31 in the code)

(***************************************************************************)
(* The last conjunct is the only one that is not a matter of types: with   *)
(* one thread holding the write lock and all the others in a failed write  *)
(* attempt, mQuota must still be representable.  With the values of the    *)
(* code it allows 129 threads.                                             *)
(***************************************************************************)
ASSUME LockAssumption ==
    /\ IsFiniteSet(Thread)
    /\ kWrite \in Nat \ {0}
    /\ IntHalf \in Nat \ {0}
    /\ kWrite < IntHalf
    /\ (Cardinality(Thread) - 1) * kWrite <= IntHalf

kRead == 1
kInitQuota == kWrite

VARIABLES
    mQuota,  \* the lock word
    pc,      \* pc[t]: where thread t is in its call on the lock
    op       \* op[t]: the method t called last

vars == <<mQuota, pc, op>>

ReadOps == {"ReadLock", "TryReadLock"}
WriteOps == {"WriteLock", "TryWriteLock"}
BlockingOps == {"ReadLock", "WriteLock"}

-----------------------------------------------------------------------------
(* Two's complement arithmetic of AtomicSub<int> and AtomicAdd<int>. *)
Wrap(n) == ((n + IntHalf) % (2 * IntHalf)) - IntHalf

AtomicSub(n) == mQuota' = Wrap(mQuota - n)
AtomicAdd(n) == mQuota' = Wrap(mQuota + n)

Goto(t, l) == pc' = [pc EXCEPT ![t] = l]

Init ==
    /\ mQuota = kInitQuota
    /\ pc = [t \in Thread |-> "idle"]
    /\ op = [t \in Thread |-> "ReadLock"]

(* A thread that does not hold the lock calls one of the four methods. *)
Call(t) ==
    /\ pc[t] = "idle"
    /\ \E o \in ReadOps \cup WriteOps : op' = [op EXCEPT ![t] = o]
    /\ Goto(t, "try")
    /\ UNCHANGED mQuota

(* The subtraction and the test of its result are one atomic step. *)
TryReadLockStrict(t) ==  \* deviation: > 0 instead of >= 0
    /\ pc[t] = "try" /\ op[t] \in ReadOps
    /\ AtomicSub(kRead)
    /\ Goto(t, IF mQuota' > 0 THEN "reading" ELSE "undo")
    /\ UNCHANGED op

TryReadLock(t) ==
    /\ pc[t] = "try" /\ op[t] \in ReadOps
    /\ AtomicSub(kRead)
    /\ Goto(t, IF mQuota' >= 0 THEN "reading" ELSE "undo")
    /\ UNCHANGED op

TryWriteLockOldValue(t) ==  \* deviation: tests the value before the subtraction
    /\ pc[t] = "try" /\ op[t] \in WriteOps
    /\ AtomicSub(kWrite)
    /\ Goto(t, IF mQuota >= 0 THEN "writing" ELSE "undo")
    /\ UNCHANGED op

TryWriteLockStrict(t) ==  \* deviation: > 0 instead of >= 0
    /\ pc[t] = "try" /\ op[t] \in WriteOps
    /\ AtomicSub(kWrite)
    /\ Goto(t, IF mQuota' > 0 THEN "writing" ELSE "undo")
    /\ UNCHANGED op

TryWriteLock(t) ==
    /\ pc[t] = "try" /\ op[t] \in WriteOps
    /\ AtomicSub(kWrite)
    /\ Goto(t, IF mQuota' >= 0 THEN "writing" ELSE "undo")
    /\ UNCHANGED op

(* The else branches: give the share back; a Try method then returns false, *)
(* ReadLock and WriteLock yield the processor and try again.                *)
AfterFailureAlwaysSpin(t) == "try"  \* deviation: the Try methods spin too

AfterFailure(t) == IF op[t] \in BlockingOps THEN "try" ELSE "idle"

UndoRead(t) ==
    /\ pc[t] = "undo" /\ op[t] \in ReadOps
    /\ AtomicAdd(kRead)
    /\ Goto(t, AfterFailure(t))
    /\ UNCHANGED op

UndoWriteAsReader(t) ==  \* deviation: gives back kRead for kWrite
    /\ pc[t] = "undo" /\ op[t] \in WriteOps
    /\ AtomicAdd(kRead)
    /\ Goto(t, AfterFailure(t))
    /\ UNCHANGED op

UndoWrite(t) ==
    /\ pc[t] = "undo" /\ op[t] \in WriteOps
    /\ AtomicAdd(kWrite)
    /\ Goto(t, AfterFailure(t))
    /\ UNCHANGED op

ReadUnlock(t) ==
    /\ pc[t] = "reading"
    /\ AtomicAdd(kRead)
    /\ Goto(t, "idle")
    /\ UNCHANGED op

WriteUnlock(t) ==
    /\ pc[t] = "writing"
    /\ AtomicAdd(kWrite)
    /\ Goto(t, "idle")
    /\ UNCHANGED op

(* A step inside a method that t has entered. *)
Step(t) == TryReadLock(t) \/ TryWriteLock(t) \/ UndoRead(t) \/ UndoWrite(t)

Next == \E t \in Thread : Call(t) \/ Step(t) \/ ReadUnlock(t) \/ WriteUnlock(t)

(* The scheduler runs every thread that is inside a method of the lock; it  *)
(* promises nothing about when a thread calls or releases.                  *)
Fairness == \A t \in Thread : WF_vars(Step(t))

Spec == Init /\ [][Next]_vars
FairSpec == Spec /\ Fairness

-----------------------------------------------------------------------------
TypeOK ==
    /\ mQuota \in -IntHalf .. IntHalf - 1
    /\ pc \in [Thread -> {"idle", "try", "undo", "reading", "writing"}]
    /\ op \in [Thread -> ReadOps \cup WriteOps]

(* The threads whose kRead, or kWrite, is currently taken out of mQuota. *)
ReadShares == {t \in Thread : pc[t] = "reading" \/ (pc[t] = "undo" /\ op[t] \in ReadOps)}
WriteShares == {t \in Thread : pc[t] = "writing" \/ (pc[t] = "undo" /\ op[t] \in WriteOps)}

(* mQuota is at every moment the initial quota less the shares taken out of *)
(* it, failed attempts that are not undone yet included: no wrap-around of  *)
(* the int, no lost or doubled give-back.                                   *)
QuotaAccounted ==
    mQuota = kInitQuota - kRead * Cardinality(ReadShares) - kWrite * Cardinality(WriteShares)

(* The promise of a reader-writer lock: a thread in the write section is    *)
(* alone, however many failed attempts are in flight.                       *)
MutualExclusion ==
    \A t, u \in Thread :
        (pc[t] = "writing" /\ u # t) => pc[u] \notin {"reading", "writing"}

(* A failed TryReadLock has a cause: at that moment another thread holds    *)
(* the write lock or has a write attempt in flight, or the kWrite reader    *)
(* slots are all taken.  Readers alone never make a reader spin.            *)
ReadFailureHasCause ==
    [][\A t \in Thread :
         (pc[t] = "try" /\ op[t] \in ReadOps /\ pc'[t] = "undo")
            => \/ WriteShares # {}
               \/ Cardinality(ReadShares) >= kWrite]_vars

(* A failed TryWriteLock has a cause: another thread holds the lock, in     *)
(* either mode, or has an attempt in flight.  An uncontended writer never   *)
(* spins.                                                                   *)
WriteFailureHasCause ==
    [][\A t \in Thread :
         (pc[t] = "try" /\ op[t] \in WriteOps /\ pc'[t] = "undo")
            => ReadShares \cup WriteShares # {}]_vars

(* The Try methods are wait-free: whatever the others do, a thread inside   *)
(* one returns, with the lock or without it.                                *)
TryReturns ==
    \A t \in Thread :
        (pc[t] \in {"try", "undo"} /\ op[t] \notin BlockingOps)
            ~> (pc[t] \in {"idle", "reading", "writing"})
=============================================================================
