------------------------------ MODULE ScopedPtr -----------------------------
(***************************************************************************)
(* scoped_ptr and scoped_array of apsara/stone/memory.  A pointer owns the *)
(* object it points to.  Destroying an object runs its destructor, which   *)
(* is code of the program and may use scoped pointers too, the one that    *)
(* has just let go of the object included: objects are destroyed in two    *)
(* steps, with any operation in between.                                   *)
(***************************************************************************)
EXTENDS Naturals, Sequences, FiniteSets

CONSTANTS
    Object,
    Scope,      \* the scoped pointers
    Kind        \* how an object was made and what a pointer is for:
                \* Kind[o] and Kind[s] are "new", "new[]" or "malloc"

NULL == "NULL"

ASSUME ScopedPtrAssumption ==
    /\ IsFiniteSet(Object) /\ IsFiniteSet(Scope) /\ NULL \notin Object
    /\ \A x \in Object \cup Scope : Kind[x] \in {"new", "new[]", "malloc"}

VARIABLES
    mPtr,       \* mPtr[s]: what s points to
    scope,      \* scope[s]: "none", "live", "dying" (in its destructor), "gone"
    loose,      \* the objects that the program owns without a scoped pointer
    dying,      \* the destructions under way, the innermost last: [obj, by]
    destroyed,  \* destroyed[o]: the functions that o has been destroyed with
    unmade      \* the objects that are still to be made

scopedVars == <<mPtr, scope, loose, dying, destroyed, unmade>>

ScopedInit ==
    /\ mPtr = [s \in Scope |-> NULL]
    /\ scope = [s \in Scope |-> "none"]
    /\ loose = {} /\ dying = <<>> /\ unmade = Object
    /\ destroyed = [o \in Object |-> <<>>]

(* ScopedPtrDelete, ScopedPtrDeleteArray and ScopedPtrFree: the function   *)
(* object that a pointer of a kind destroys with.                          *)
Destructor(kind) ==
    CASE kind = "new" -> "delete" [] kind = "new[]" -> "delete[]" [] kind = "malloc" -> "free"

(* destructor(p): a null pointer is nothing to destroy. *)
Destruct(s, p) ==
    dying' = IF p = NULL THEN dying
             ELSE Append(dying, [obj |-> p, by |-> Destructor(Kind[s]), scope |-> s])

(* What the program may pass to a pointer: nothing, or an object of the     *)
(* right kind that it owns.                                                 *)
Given(s) == {o \in loose : Kind[o] = Kind[s]} \cup {NULL}

New(o) ==
    /\ o \in unmade
    /\ unmade' = unmade \ {o} /\ loose' = loose \cup {o}
    /\ UNCHANGED <<mPtr, scope, dying, destroyed>>

Construct(s, p) ==
    /\ scope[s] = "none" /\ p \in Given(s)
    /\ scope' = [scope EXCEPT ![s] = "live"]
    /\ mPtr' = [mPtr EXCEPT ![s] = p]
    /\ loose' = loose \ {p}
    /\ UNCHANGED <<dying, destroyed, unmade>>

(* reset and operator=: a temporary pointer takes ptr, swaps with this one  *)
(* and dies with the old object, which this pointer has forgotten by then.  *)
ResetInPlace(s, p) ==  \* deviation: the old object is destroyed before the new one is stored
    /\ scope[s] = "live" /\ p \in Given(s)
    /\ Destruct(s, mPtr[s])
    /\ mPtr' = [mPtr EXCEPT ![s] = IF @ = NULL THEN p ELSE @]
    /\ loose' = loose \ {p}
    /\ UNCHANGED <<scope, destroyed, unmade>>

Reset(s, p) ==
    /\ scope[s] = "live" /\ p \in Given(s)
    /\ p = NULL \/ p # mPtr[s]
    /\ mPtr' = [mPtr EXCEPT ![s] = p]
    /\ loose' = loose \ {p}
    /\ Destruct(s, mPtr[s])
    /\ UNCHANGED <<scope, destroyed, unmade>>

Swap(s, r) ==
    /\ s # r /\ scope[s] = "live" /\ scope[r] = "live" /\ Kind[s] = Kind[r]
    /\ mPtr' = [mPtr EXCEPT ![s] = mPtr[r], ![r] = mPtr[s]]
    /\ UNCHANGED <<scope, loose, dying, destroyed, unmade>>

Release(s) ==
    /\ scope[s] = "live" /\ mPtr[s] # NULL
    /\ loose' = loose \cup {mPtr[s]}
    /\ mPtr' = [mPtr EXCEPT ![s] = NULL]
    /\ UNCHANGED <<scope, dying, destroyed, unmade>>

(* The destructor of the pointer; mPtr is not cleared. *)
EndOfScope(s) ==
    /\ scope[s] = "live"
    /\ Destruct(s, mPtr[s])
    /\ scope' = [scope EXCEPT ![s] = IF mPtr[s] = NULL THEN "gone" ELSE "dying"]
    /\ UNCHANGED <<mPtr, loose, destroyed, unmade>>

(* The destructor of an object ends. *)
Destroyed ==
    /\ dying # <<>>
    /\ LET d == dying[Len(dying)] IN
       /\ destroyed' = [destroyed EXCEPT ![d.obj] = Append(@, d.by)]
       /\ scope' = [scope EXCEPT ![d.scope] =
                      IF @ = "dying" /\ mPtr[d.scope] = d.obj THEN "gone" ELSE @]
    /\ dying' = SubSeq(dying, 1, Len(dying) - 1)
    /\ UNCHANGED <<mPtr, loose, unmade>>

ScopedNext ==
    \/ \E o \in Object : New(o)
    \/ \E s \in Scope :
          \/ \E p \in Object \cup {NULL} : Construct(s, p) \/ Reset(s, p)
          \/ \E r \in Scope : Swap(s, r)
          \/ Release(s) \/ EndOfScope(s)
    \/ Destroyed

ScopedSpec == ScopedInit /\ [][ScopedNext]_scopedVars

-----------------------------------------------------------------------------
Owners(o) == {s \in Scope : scope[s] = "live" /\ mPtr[s] = o}

(* Every object that was made has exactly one owner, a live pointer, the    *)
(* program or a destruction under way, until it is destroyed, once, with    *)
(* the function for its kind.  A pointer that code in a destructor may use  *)
(* therefore never shows an object that is being destroyed.                 *)
ObjectsOwnedOnce ==
    \A o \in Object \ unmade :
        /\ Cardinality(Owners(o)) + Cardinality({o} \cap loose)
             + Cardinality({i \in 1 .. Len(dying) : dying[i].obj = o}) + Len(destroyed[o]) = 1
        /\ \A i \in 1 .. Len(destroyed[o]) : destroyed[o][i] = Destructor(Kind[o])
=============================================================================
