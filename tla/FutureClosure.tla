--------------------------- MODULE FutureClosure ----------------------------
(***************************************************************************)
(* FutureClosure of apsara/stone/threading/sync: a closure that a worker   *)
(* runs and a future that its owner waits for, in one object.  It may wrap *)
(* a closure; it deletes that one in its destructor only if the wrapped    *)
(* closure would have deleted itself and has not been run.                 *)
(*                                                                         *)
(* The Future behind it (mFuture) is a library class, used as its          *)
(* interface shows: Complete goes through FS_COMPLETING, in which the      *)
(* registered callback is told, to FS_COMPLETED, which ends Wait;          *)
(* SetCompletionCallback refuses once completion has begun.                *)
(***************************************************************************)
EXTENDS Closure

CONSTANT Worker   \* the thread that runs the object; another one owns it

VARIABLES
    fc,        \* the object: its members, the closure it was made with, and its state,
               \* "none" before and "gone" after its life
    future,    \* mFuture: its state, and whether it has a callback
    worker,    \* where the worker is in Run
    owner,     \* what the owner has done
    answer,    \* what SetCompletionCallback returned: "none", "true", "false"
    notified   \* how often the owner's callback was called

fcVars == <<fc, future, worker, owner, answer, notified>>

None == "NULL"
Argument == "a1"   \* the argument of FutureClosure<_A1>::Run

ASSUME FutureClosureAssumption == Worker \in ClosureThread /\ None \notin ClosureId

FcInit ==
    /\ fc = [state |-> "none", kind |-> "void", mClosure |-> None, wrapped |-> None, mA1 |-> None,
             mCompletionCallback |-> None]
    /\ future = [state |-> "pending", callback |-> None]
    /\ worker = "none" /\ owner = "new" /\ answer = "none" /\ notified = 0

(* Future::SetCompletionCallback and the two halves of Future::Complete. *)
FutureAccepts ==
    future.state = "pending" /\ future' = [future EXCEPT !.callback = "this"]
FutureRefuses == future.state # "pending" /\ UNCHANGED future
FutureCompleting == future' = [future EXCEPT !.state = "completing"]
FutureCompleted == future' = [future EXCEPT !.state = "completed"]

(* The constructors. *)
FcMake(kind, inner) ==
    /\ owner = "new"
    /\ fc' = [fc EXCEPT !.state = "live", !.kind = kind, !.mClosure = inner,
                       !.wrapped = inner]
    /\ owner' = "made"
    /\ UNCHANGED <<closureVars, future, worker, answer, notified>>

FcMakeWith(c) == c \in held /\ FcMake("void", c)

(* The owner hands the object to the worker. *)
FcSubmit ==
    /\ owner \in {"made", "assigned", "registered"} /\ worker = "none"
    /\ worker' = "run"
    /\ UNCHANGED <<closureVars, fc, future, owner, answer, notified>>

(* SetCompletionCallback: the callback is stored before this object is      *)
(* registered with the future, and forgotten if that is refused.            *)
FcSetCallback ==
    /\ owner = "made"
    /\ fc' = [fc EXCEPT !.mCompletionCallback = "callback"]
    /\ owner' = "assigned"
    /\ UNCHANGED <<closureVars, future, worker, answer, notified>>

FcRegisterUnanswered ==  \* deviation: the future's answer is dropped
    /\ owner = "assigned"
    /\ owner' = "registered"
    /\ (FutureAccepts \/ FutureRefuses) /\ answer' = "true"
    /\ UNCHANGED <<closureVars, fc, worker, notified>>

FcRegister ==
    /\ owner = "assigned"
    /\ owner' = "registered"
    /\ \/ FutureAccepts /\ answer' = "true" /\ UNCHANGED fc
       \/ FutureRefuses /\ answer' = "false" /\ fc' = [fc EXCEPT !.mCompletionCallback = None]
    /\ UNCHANGED <<closureVars, worker, notified>>

FcWait ==
    /\ owner \in {"made", "registered"} /\ worker # "none"
    /\ future.state = "completed"
    /\ owner' = "woken"
    /\ UNCHANGED <<closureVars, fc, future, worker, answer, notified>>

(* The destructor, after Wait or for an object that was never handed over. *)
DestructorDeletesNone(c) == FALSE  \* deviation: the wrapped closure is left to itself
DestructorDeletes(c) == IsAutoDelete(c)

FcDestroy ==
    /\ owner = "woken" \/ (owner \in {"made", "registered"} /\ worker = "none")
    /\ IF fc.mClosure # None /\ DestructorDeletes(fc.mClosure)
       THEN Delete(fc.mClosure)
       ELSE UNCHANGED closureVars
    /\ fc' = [fc EXCEPT !.state = "gone", !.mClosure = None]
    /\ owner' = "gone"
    /\ UNCHANGED <<future, worker, answer, notified>>

(* A permanent closure is deleted by whoever made it, once no FutureClosure *)
(* points to it.                                                            *)
FcDeletePermanent(c) ==
    /\ owner \in {"woken", "gone"} /\ fc.mClosure # c
    /\ Delete(c)
    /\ UNCHANGED fcVars

-----------------------------------------------------------------------------
(* Run, in the worker. *)

WorkerGoesTo(l) == worker' = l /\ UNCHANGED <<owner, answer>>

(* FutureClosure<_A1> stores the argument. *)
FcRunStore ==
    /\ worker = "run" /\ fc.kind = "A1"
    /\ fc' = [fc EXCEPT !.mA1 = Argument]
    /\ WorkerGoesTo("complete")
    /\ UNCHANGED <<closureVars, future, notified>>

(* FutureClosure<void> runs the wrapped closure, if any. *)
AfterNothingDone == "done"  \* deviation: nothing to run, nothing to complete
AfterNothing == "complete"

FcRunNothing ==
    /\ worker = "run" /\ fc.kind = "void" /\ fc.mClosure = None
    /\ WorkerGoesTo(AfterNothing)
    /\ UNCHANGED <<closureVars, fc, future, notified>>

FcRunInner ==
    /\ worker = "run" /\ fc.kind = "void" /\ fc.mClosure # None
    /\ Run(Worker, fc.mClosure)
    /\ WorkerGoesTo("inner")
    /\ UNCHANGED <<fc, future, notified>>

AfterInnerKeeps == "complete"  \* deviation: mClosure is not cleared
AfterInner == "clear"

FcInnerReturns ==
    /\ worker = "inner"
    /\ Return(Worker)
    /\ WorkerGoesTo(AfterInner)
    /\ UNCHANGED <<fc, future, notified>>

FcRunClear ==
    /\ worker = "clear"
    /\ fc' = [fc EXCEPT !.mClosure = None]
    /\ WorkerGoesTo("complete")
    /\ UNCHANGED <<closureVars, future, notified>>

FcRunComplete ==
    /\ worker = "complete"
    /\ FutureCompleting
    /\ WorkerGoesTo("notify")
    /\ UNCHANGED <<closureVars, fc, notified>>

(* OnFutureComplete *)
FcOnFutureComplete ==
    /\ worker = "notify"
    /\ notified' = IF future.callback # None /\ fc.mCompletionCallback # None
                   THEN notified + 1 ELSE notified
    /\ WorkerGoesTo("completing")
    /\ UNCHANGED <<closureVars, fc, future>>

FcRunCompleted ==
    /\ worker = "completing"
    /\ FutureCompleted
    /\ WorkerGoesTo("done")
    /\ UNCHANGED <<closureVars, fc, notified>>

WorkerStep ==
    \/ FcRunStore \/ FcRunNothing \/ FcRunInner \/ FcInnerReturns \/ FcRunClear
    \/ FcRunComplete \/ FcOnFutureComplete \/ FcRunCompleted

FcNext ==
    \/ \E c \in ClosureId : owner = "new" /\ NewClosureOf(c, <<0, 0>>) /\ UNCHANGED fcVars
    \/ FcMake("A1", None) \/ FcMake("void", None) \/ (\E c \in ClosureId : FcMakeWith(c))
    \/ FcSubmit \/ FcSetCallback \/ FcRegister \/ FcWait \/ FcDestroy
    \/ \E c \in ClosureId : FcDeletePermanent(c)
    \/ WorkerStep

FcSpec == ClosureInit /\ FcInit /\ [][FcNext]_<<closureVars, fcVars>>

-----------------------------------------------------------------------------
(* Waking the owner is the last thing that Run does: the worker never finds *)
(* the object or the wrapped closure destroyed, the destructor never finds  *)
(* a closure that has deleted itself, and the owner finds the argument.     *)
(* Between the end of the wrapped closure and the assignment that follows,  *)
(* only the worker may look at mClosure.                                    *)
WakingIsTheLastStep ==
    /\ worker \notin {"none", "done"} => fc.state = "live"
    /\ fc.mClosure # None /\ worker \notin {"inner", "clear"} => Live(fc.mClosure)
    /\ owner = "woken" /\ fc.kind = "A1" => fc.mA1 = Argument

(* A wrapped closure that was to delete itself is gone, and was deleted     *)
(* once, when the object is: by its Run or, if it was never run, by the     *)
(* destructor.                                                              *)
WrappedClosureDeleted ==
    owner = "gone" /\ fc.wrapped # None /\ IsAutoDelete(fc.wrapped) => deletions[fc.wrapped] = 1

(* Whoever runs and whoever destroys, the wrapped closure has one owner at  *)
(* a time and is deleted as it was made to be.                              *)
WrappedClosureOwned == WakingIsTheLastStep /\ WrappedClosureDeleted

(* A callback is called exactly once if SetCompletionCallback returned true *)
(* and never if it returned false, whenever the worker completes.           *)
CallbackAsAnswered ==
    future.state = "completed" /\ owner \in {"registered", "woken", "gone"}
        => notified = IF answer = "true" THEN 1 ELSE 0

(* An owner that has handed the object over and waits is woken. *)
OwnerIsWoken == (worker # "none" /\ owner # "gone") ~> owner \in {"woken", "gone"}
=============================================================================
