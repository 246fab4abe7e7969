------------------------------ MODULE Singleton -----------------------------
(***************************************************************************)
(* Singleton of apsara/stone/memory: Instance makes the object under       *)
(* double-checked locking and registers its destruction with atexit.       *)
(* Threads go on calling Instance while the process exits: the handlers    *)
(* run in the thread that called exit, Destroy takes no lock, and a call   *)
(* after it makes a new object, which is destroyed by a handler of its own.*)
(***************************************************************************)
EXTENDS Integers, FiniteSets

CONSTANTS
    SThread,
    MaxObjects   \* bound: the objects that are ever made

NULL == 0
NoThread == "no thread"

ASSUME SingletonAssumption == NoThread \notin SThread /\ MaxObjects \in Nat \ {0}

VARIABLES
    sInstance,    \* 0 for NULL, or the number of an object
    sLock,        \* the thread that holds the mutex, or NoThread
    sDestroyed,
    made,         \* the number of objects made so far
    live,         \* the objects that were not deleted
    handlers,     \* how often Destroy is registered
    exiting,      \* "no", "between" two handlers, "delete", "clear" in Destroy, "done"
    spc,          \* where each thread is in Instance
    fresh,        \* the local variable of Instance
    wasLive,      \* history: the last reference returned was to an object that was there
    overtaken     \* history: Destroy ran during the call

singletonVars ==
    <<sInstance, sLock, sDestroyed, made, live, handlers, exiting, spc, fresh, wasLive, overtaken>>

SingletonInit ==
    /\ sInstance = NULL /\ sLock = NoThread /\ sDestroyed = FALSE
    /\ made = 0 /\ live = {} /\ handlers = 0 /\ exiting = "no"
    /\ spc = [t \in SThread |-> "idle"] /\ fresh = [t \in SThread |-> NULL]
    /\ wasLive = [t \in SThread |-> TRUE]
    /\ overtaken = [t \in SThread |-> FALSE]

Running == exiting # "done"   \* the process is there

SGoto(t, l) == spc' = [spc EXCEPT ![t] = l]

-----------------------------------------------------------------------------
(* The objects made and those that may be made by the calls under way. *)
Making == made + Cardinality({t \in SThread : spc[t] \in {"lock", "test", "new"}})

(* The test without the lock. *)
FirstTest(t) ==
    /\ Running /\ spc[t] = "idle" /\ (sInstance # NULL \/ Making < MaxObjects)
    /\ SGoto(t, IF sInstance = NULL THEN "lock" ELSE "return")
    /\ overtaken' = [overtaken EXCEPT ![t] = exiting \in {"delete", "clear"}]
    /\ wasLive' = [wasLive EXCEPT ![t] = TRUE]
    /\ UNCHANGED <<sInstance, sLock, sDestroyed, made, live, handlers, exiting, fresh>>

(* ScopedLocker<pthread_mutex_t> locker(sLock) *)
SLock(t) ==
    /\ Running /\ spc[t] = "lock" /\ sLock = NoThread
    /\ sLock' = t /\ SGoto(t, "test")
    /\ UNCHANGED <<sInstance, sDestroyed, made, live, handlers, exiting, fresh, wasLive, overtaken>>

SecondTestSkipped(t) ==  \* deviation: no test under the lock
    /\ Running /\ spc[t] = "test"
    /\ sDestroyed' = FALSE /\ SGoto(t, "new")
    /\ UNCHANGED <<sInstance, sLock, made, live, handlers, exiting, fresh, wasLive, overtaken>>
SecondTest(t) ==
    /\ Running /\ spc[t] = "test"
    /\ \/ sInstance # NULL /\ SGoto(t, "unlock") /\ UNCHANGED sDestroyed
       \/ sInstance = NULL /\ SGoto(t, "new") /\ sDestroyed' = FALSE
    /\ UNCHANGED <<sInstance, sLock, made, live, handlers, exiting, fresh, wasLive, overtaken>>

(* T *p = new T *)
New(t) ==
    /\ Running /\ spc[t] = "new"
    /\ made' = made + 1 /\ live' = live \cup {made + 1}
    /\ fresh' = [fresh EXCEPT ![t] = made + 1]
    /\ SGoto(t, "publish")
    /\ UNCHANGED <<sInstance, sLock, sDestroyed, handlers, exiting, wasLive, overtaken>>

Publish(t) ==
    /\ Running /\ spc[t] = "publish"
    /\ sInstance' = fresh[t] /\ SGoto(t, "atexit")
    /\ UNCHANGED <<sLock, sDestroyed, made, live, handlers, exiting, fresh, wasLive, overtaken>>

RegisteredOnce(t) == IF made > 1 THEN handlers ELSE handlers + 1  \* deviation: the first time only
Registered(t) == handlers + 1

AtExit(t) ==
    /\ Running /\ spc[t] = "atexit"
    /\ handlers' = Registered(t) /\ SGoto(t, "unlock")
    /\ UNCHANGED <<sInstance, sLock, sDestroyed, made, live, exiting, fresh, wasLive, overtaken>>

(* The destructor of the locker. *)
SUnlocked(t) == sLock' = NoThread

SUnlock(t) ==
    /\ Running /\ spc[t] = "unlock"
    /\ SUnlocked(t) /\ SGoto(t, "return")
    /\ UNCHANGED <<sInstance, sDestroyed, made, live, handlers, exiting, fresh, wasLive, overtaken>>

(* return *sInstance, which reads sInstance again. *)
ReturnInstance(t) ==
    /\ Running /\ spc[t] = "return"
    /\ wasLive' = [wasLive EXCEPT ![t] = sInstance \in live]
    /\ SGoto(t, "idle")
    /\ UNCHANGED <<sInstance, sLock, sDestroyed, made, live, handlers, exiting, fresh, overtaken>>

-----------------------------------------------------------------------------
(* exit: one handler after the other, those included that are registered    *)
(* meanwhile, and then the end of the process.                              *)
Exit ==
    /\ exiting = "no" /\ exiting' = "between"
    /\ UNCHANGED <<sInstance, sLock, sDestroyed, made, live, handlers, spc, fresh, wasLive, overtaken>>

DestroyFlag ==
    /\ exiting = "between" /\ handlers > 0
    /\ sDestroyed' = TRUE /\ handlers' = handlers - 1 /\ exiting' = "delete"
    /\ overtaken' = [t \in SThread |-> TRUE]
    /\ UNCHANGED <<sInstance, sLock, made, live, spc, fresh, wasLive>>

DestroyDelete ==
    /\ exiting = "delete"
    /\ live' = live \ {sInstance} /\ exiting' = "clear"
    /\ UNCHANGED <<sInstance, sLock, sDestroyed, made, handlers, spc, fresh, wasLive, overtaken>>

ClearedNever == UNCHANGED sInstance   \* deviation: the pointer is left
Cleared == sInstance' = NULL

DestroyClear ==
    /\ exiting = "clear"
    /\ Cleared /\ exiting' = "between"
    /\ UNCHANGED <<sLock, sDestroyed, made, live, handlers, spc, fresh, wasLive, overtaken>>

ExitEnds ==
    /\ exiting = "between" /\ handlers = 0 /\ exiting' = "done"
    /\ UNCHANGED <<sInstance, sLock, sDestroyed, made, live, handlers, spc, fresh, wasLive, overtaken>>

InstanceStep(t) ==
    \/ SLock(t) \/ SecondTest(t) \/ New(t) \/ Publish(t) \/ AtExit(t) \/ SUnlock(t) \/ ReturnInstance(t)

SingletonNext ==
    \/ \E t \in SThread : FirstTest(t) \/ InstanceStep(t)
    \/ Exit \/ DestroyFlag \/ DestroyDelete \/ DestroyClear \/ ExitEnds

SingletonSpec == SingletonInit /\ [][SingletonNext]_singletonVars

-----------------------------------------------------------------------------
(* There is at most one object at any time, whatever the order of the       *)
(* callers and of the destruction, and the pointer is to it or about to be. *)
OneInstance ==
    /\ \A x, y \in live : x = y
    /\ sInstance \in live \cup {NULL} \/ exiting = "clear"

(* Instance returns a reference to the object that is there, except to a    *)
(* call that Destroy ran into, which may get a deleted one or *NULL.        *)
InstanceReturnsLive == \A t \in SThread : wasLive[t] \/ overtaken[t]

(* Whatever was made is destroyed once exit is over, objects made again     *)
(* during the exit included, unless the process ended inside the call that  *)
(* was making it.                                                           *)
AllDestroyedAtExit ==
    exiting = "done" =>
        live = {} \/ \E t \in SThread : spc[t] \in {"publish", "atexit"}

-----------------------------------------------------------------------------
(* The parts of the inductive invariant. *)
InInstance == {"idle", "lock", "test", "new", "publish", "atexit", "unlock", "return"}
UnderLock == {"test", "new", "publish", "atexit", "unlock"}
InDestroy == exiting \in {"delete", "clear"}

SingletonTypes ==
    /\ sInstance \in Nat /\ made \in Nat /\ handlers \in Nat /\ live \subseteq 1 .. made
    /\ sLock \in SThread \cup {NoThread} /\ sDestroyed \in BOOLEAN
    /\ exiting \in {"no", "between", "delete", "clear", "done"}
    /\ spc \in [SThread -> InInstance] /\ fresh \in [SThread -> Nat]
    /\ wasLive \in [SThread -> BOOLEAN] /\ overtaken \in [SThread -> BOOLEAN]

LockHolder == \A t \in SThread : spc[t] \in UnderLock <=> sLock = t

(* While somebody makes the object there is none but his, nothing is        *)
(* registered, and Destroy does not run.                                    *)
Maker(t) ==
    /\ spc[t] \in {"new", "publish", "atexit"} => handlers = 0 /\ ~InDestroy
    /\ spc[t] \in {"new", "publish"} => sInstance = NULL
    /\ spc[t] = "new" => live = {}
    /\ spc[t] = "publish" => live = {fresh[t]} /\ fresh[t] # NULL
    /\ spc[t] = "atexit" => live = {sInstance} /\ sInstance # NULL

(* Otherwise there is an object if and only if its Destroy is registered or *)
(* runs.                                                                    *)
AtRest ==
    /\ exiting = "delete" => handlers = 0 /\ sInstance # NULL /\ live = {sInstance}
    /\ exiting = "clear" => handlers = 0 /\ sInstance # NULL /\ live = {}
    /\ ~InDestroy /\ (\A t \in SThread : spc[t] \notin {"new", "publish", "atexit"}) =>
         \/ sInstance = NULL /\ live = {} /\ handlers = 0
         \/ sInstance # NULL /\ live = {sInstance} /\ handlers = 1 /\ exiting # "done"

(* Who is going to return and was not overtaken finds the object. *)
Returner(t) ==
    /\ InDestroy /\ spc[t] # "idle" => overtaken[t]
    /\ spc[t] \in {"unlock", "return"} /\ ~overtaken[t] => sInstance # NULL /\ live = {sInstance}

SingletonInv ==
    /\ SingletonTypes /\ LockHolder /\ AtRest /\ InstanceReturnsLive
    /\ \A t \in SThread : Maker(t) /\ Returner(t)
=============================================================================
