-------------------------------- MODULE Locks -------------------------------
(***************************************************************************)
(* The locks of apsara/stone/threading/sync that are a pthread object each *)
(* and the objects that hold them for the time of a scope: ScopedLocker,   *)
(* ScopedUnlocker, ScopedReaderLocker, ScopedWriterLocker.  A constructor  *)
(* is one action and the destructor another; a block, an iteration of      *)
(* STONE_SCOPED_LOCK, a return and an exception all leave scopes from the  *)
(* inside out.  A call that blocks is an action that is not enabled; one   *)
(* that pthread refuses ends the program in CheckPthreadError.             *)
(***************************************************************************)
EXTENDS Integers, Sequences, FiniteSets

CONSTANTS
    LockThread, Lock,
    LockKinds,    \* the classes that a lock may be of
    MaxScopes     \* bound: the scopes that a thread has open

ASSUME LocksAssumption ==
    /\ LockKinds \subseteq {"simple", "restrict", "recursive", "adaptive", "spin", "rw", "null"}
    /\ MaxScopes \in Nat

VARIABLES
    lockKind,  \* the class of each lock, fixed
    holds,     \* holds[l][t]: how often t holds l, for itself alone
    reads,     \* reads[l][t]: how often t holds l as a reader
    mLocked,   \* of a NullLock
    scopes,    \* scopes[t]: the open scopes of t, the outermost first
    aborted    \* who ended the program and with what call, if anybody did

lockVars == <<lockKind, holds, reads, mLocked, scopes, aborted>>

Nobody == [thread |-> "none", call |-> "none", lock |-> "none"]

LocksInit ==
    /\ lockKind \in [Lock -> LockKinds]
    /\ holds = [l \in Lock |-> [t \in LockThread |-> 0]]
    /\ reads = [l \in Lock |-> [t \in LockThread |-> 0]]
    /\ mLocked = [l \in Lock |-> FALSE]
    /\ scopes = [t \in LockThread |-> <<>>]
    /\ aborted = Nobody

-----------------------------------------------------------------------------
(* pthread, as lock.h uses it: when a call returns, when it refuses, and    *)
(* what it does.                                                            *)
ChecksOwner(l) == lockKind[l] \in {"restrict", "recursive"}
Others(t) == LockThread \ {t}

LockReturns(t, l) ==
    /\ \A u \in Others(t) : holds[l][u] = 0
    /\ lockKind[l] = "recursive" \/ holds[l][t] = 0
LockRefused(t, l) == lockKind[l] = "restrict" /\ holds[l][t] > 0

(* The kinds that do not check let anybody unlock: whoever holds it loses. *)
UnlockRefused(t, l) == ChecksOwner(l) /\ holds[l][t] = 0
Unlocked(t, l) ==
    IF ChecksOwner(l) THEN [holds EXCEPT ![l][t] = @ - 1]
                      ELSE [holds EXCEPT ![l] = [u \in LockThread |-> 0]]

ReadReturns(t, l) == \A u \in LockThread : holds[l][u] = 0
WriteReturns(t, l) == \A u \in LockThread : holds[l][u] = 0 /\ reads[l][u] = 0
RwRefused(t, l) == holds[l][t] > 0

-----------------------------------------------------------------------------
Top(t) == scopes[t][Len(scopes[t])]
Pushed(t, kind, l) == scopes' = [scopes EXCEPT ![t] = Append(@, [kind |-> kind, lock |-> l])]
Popped(t) == scopes' = [scopes EXCEPT ![t] = SubSeq(@, 1, Len(@) - 1)]

(* CheckPthreadError of a status that is not zero. *)
Aborts(t, call, l) ==
    /\ aborted' = [thread |-> t, call |-> call, lock |-> l]
    /\ UNCHANGED <<holds, reads, mLocked, scopes>>

(* Lock and Unlock of the classes, with what happens to the scope. *)
DoLock(t, l, call, Scope) ==
    \/ /\ lockKind[l] = "null" /\ mLocked' = [mLocked EXCEPT ![l] = TRUE]
       /\ Scope /\ UNCHANGED <<holds, reads, aborted>>
    \/ /\ lockKind[l] \notin {"null", "rw"} /\ LockReturns(t, l)
       /\ holds' = [holds EXCEPT ![l][t] = @ + 1]
       /\ Scope /\ UNCHANGED <<reads, mLocked, aborted>>
    \/ LockRefused(t, l) /\ Aborts(t, call, l)

DoUnlock(t, l, call, Scope) ==
    \/ /\ lockKind[l] = "null" /\ mLocked' = [mLocked EXCEPT ![l] = FALSE]
       /\ Scope /\ UNCHANGED <<holds, reads, aborted>>
    \/ /\ lockKind[l] \notin {"null", "rw"} /\ ~UnlockRefused(t, l)
       /\ holds' = Unlocked(t, l)
       /\ Scope /\ UNCHANGED <<reads, mLocked, aborted>>
    \/ lockKind[l] # "null" /\ UnlockRefused(t, l) /\ Aborts(t, call, l)

(* What the open scopes of t say about l. *)
Count(t, kind, l) ==
    Cardinality({i \in 1 .. Len(scopes[t]) : scopes[t][i] = [kind |-> kind, lock |-> l]})
Depth(t, l) == Count(t, "locker", l) - Count(t, "unlocker", l)

Room(t) == aborted = Nobody /\ Len(scopes[t]) < MaxScopes

ScopedLocker(t, l) ==
    Room(t) /\ lockKind[l] # "rw" /\ DoLock(t, l, "locker", Pushed(t, "locker", l))

(* A ScopedUnlocker stands inside a ScopedLocker, unless the lock is one    *)
(* that finds out.                                                          *)
ScopedUnlocker(t, l) ==
    /\ Room(t) /\ lockKind[l] # "rw"
    /\ Depth(t, l) > 0 \/ ChecksOwner(l)
    /\ DoUnlock(t, l, "unlocker", Pushed(t, "unlocker", l))

ScopedReaderLocker(t, l) ==
    /\ Room(t) /\ lockKind[l] = "rw"
    /\ \/ /\ ReadReturns(t, l)
          /\ reads' = [reads EXCEPT ![l][t] = @ + 1]
          /\ Pushed(t, "reader", l) /\ UNCHANGED <<holds, mLocked, aborted>>
       \/ RwRefused(t, l) /\ Aborts(t, "reader", l)

ScopedWriterLocker(t, l) ==
    /\ Room(t) /\ lockKind[l] = "rw"
    /\ \/ /\ WriteReturns(t, l)
          /\ holds' = [holds EXCEPT ![l][t] = @ + 1]
          /\ Pushed(t, "writer", l) /\ UNCHANGED <<reads, mLocked, aborted>>
       \/ RwRefused(t, l) /\ Aborts(t, "writer", l)

(* TryReadLock and TryWriteLock, false for EBUSY, and the scope that the    *)
(* caller closes by an unlock if they return true.                          *)
TryReadLock(t, l) ==
    /\ Room(t) /\ lockKind[l] = "rw" /\ UNCHANGED <<holds, mLocked, aborted>>
    /\ \/ ReadReturns(t, l) /\ reads' = [reads EXCEPT ![l][t] = @ + 1] /\ Pushed(t, "reader", l)
       \/ ~ReadReturns(t, l) /\ UNCHANGED <<reads, scopes>>

TryWriteLock(t, l) ==
    /\ Room(t) /\ lockKind[l] = "rw" /\ UNCHANGED <<reads, mLocked, aborted>>
    /\ \/ WriteReturns(t, l) /\ holds' = [holds EXCEPT ![l][t] = @ + 1] /\ Pushed(t, "writer", l)
       \/ ~WriteReturns(t, l) /\ UNCHANGED <<holds, scopes>>

(* The destructors.  An RWLock has one unlock for both sides: pthread gives *)
(* up the write lock if the lock is held so, and a read lock otherwise.     *)
LockerEnds(t, l) == DoUnlock(t, l, "lockerEnds", Popped(t))

UnlockerEndsBare(t, l) ==  \* deviation: the destructor does not lock again
    Popped(t) /\ UNCHANGED <<holds, reads, mLocked, aborted>>
UnlockerEnds(t, l) == DoLock(t, l, "unlockerEnds", Popped(t))

RwUnlock(t, l) ==
    /\ IF \E u \in LockThread : holds[l][u] > 0
       THEN holds' = [holds EXCEPT ![l] = [u \in LockThread |-> 0]] /\ UNCHANGED reads
       ELSE reads' = [reads EXCEPT ![l][t] = @ - 1] /\ UNCHANGED holds
    /\ Popped(t) /\ UNCHANGED <<mLocked, aborted>>

(* A mutex that somebody holds is destroyed: pthread refuses with EBUSY.    *)
(* One that nobody holds goes without a trace, and a new one in its place   *)
(* is as free; spin locks and RWLocks are destroyed without a look.         *)
Mutex == {"simple", "restrict", "recursive", "adaptive"}
MutexDestroyed(t, l) ==
    /\ aborted = Nobody /\ lockKind[l] \in Mutex
    /\ \E u \in LockThread : holds[l][u] > 0
    /\ Aborts(t, "destroy", l)

Leave(t) ==
    /\ aborted = Nobody /\ scopes[t] # <<>>
    /\ \/ Top(t).kind = "locker" /\ LockerEnds(t, Top(t).lock)
       \/ Top(t).kind = "unlocker" /\ UnlockerEnds(t, Top(t).lock)
       \/ Top(t).kind \in {"reader", "writer"} /\ RwUnlock(t, Top(t).lock)

LocksNext ==
    /\ UNCHANGED lockKind
    /\ \E t \in LockThread :
        \/ Leave(t)
        \/ \E l \in Lock :
              \/ ScopedLocker(t, l) \/ ScopedUnlocker(t, l)
              \/ ScopedReaderLocker(t, l) \/ ScopedWriterLocker(t, l)
              \/ TryReadLock(t, l) \/ TryWriteLock(t, l)
              \/ MutexDestroyed(t, l)

LocksSpec == LocksInit /\ [][LocksNext]_lockVars

-----------------------------------------------------------------------------
(* A thread whose open scopes say that it holds a lock does hold it, and    *)
(* nobody else's scopes say so, through every nesting of lockers and        *)
(* unlockers and every blocked destructor: a ScopedUnlocker is over only    *)
(* when the lock is held again.                                             *)
ScopesExclude ==
    \A l \in Lock : lockKind[l] # "null" =>
        \A t \in LockThread :
            /\ holds[l][t] = Depth(t, l) + Count(t, "writer", l)
            /\ reads[l][t] = Count(t, "reader", l)
            /\ holds[l][t] > 0 =>
                 \A u \in Others(t) :
                     Depth(u, l) <= 0 /\ Count(u, "writer", l) = 0 /\ Count(u, "reader", l) = 0

(* CheckPthreadError ends the program for three reasons only: a thread      *)
(* locks what its own scopes hold already, or unlocks what they do not      *)
(* hold, or a mutex is destroyed that somebody's scopes hold.  Leaving a    *)
(* scope, also by an exception, never does.                                 *)
AbortHasCause ==
    aborted # Nobody =>
        LET t == aborted.thread
            l == aborted.lock
        IN  \/ aborted.call = "locker" /\ lockKind[l] = "restrict" /\ Depth(t, l) > 0
            \/ aborted.call = "unlocker" /\ ChecksOwner(l) /\ Depth(t, l) = 0
            \/ aborted.call \in {"reader", "writer"} /\ Count(t, "writer", l) > 0
            \/ aborted.call = "destroy" /\ \E u \in LockThread : Depth(u, l) > 0

(* The open scopes are what is locked, and only a program that locks,       *)
(* unlocks or destroys against the open scopes is ended.                    *)
ScopesHoldLocks == ScopesExclude /\ AbortHasCause
=============================================================================
