# TLA+ verification of recommender-3

The repository holds a small program that trains a recommender network and the
headers of the C++ library (`apsara/stone`) it is shipped with.  This directory
models both in TLA+: what the program does with a raw export until CaffeLib is
given a batch, and the parts of the library whose code is in the repository and
whose correctness depends on interleavings, on who owns an object, on links
that several operations rewrite, or on the width of an integer.

Modules are checked by TLC on the instances in the `.cfg` files and, where the
name ends in `Proofs`, by TLAPS for every value of the constants.
`PROJECT.json` lists the runs, the source lines of every definition, the
deviations ("mutants") each property was seen to reject, and the hazards the
properties were chosen for.

## 1. Inventory

### 1.1 The program

| Component | State | Operations | Talks to |
|---|---|---|---|
| `python/dataproc/parse_data.py` (twice in the tree, differing in file names) | lines read, text written | read a line, strip it, drop four columns, write the rest with a comma after every field; end at the first empty line | writes the file the loader opens |
| `src/data_loader.cpp` `DataLoader` | three counters, an open file, two arrays | `LoadData` = count (`RunThroughFile`), allocate, rewind, fill (`AllocateData`); `ReadFloat`, `Peek`; `ReturnStats` | called twice by `main` with one object |
| `src/run_training.cpp` `main` | both data sets, `featureLen`, parameters, gradient, the loop counter | load, print, construct, draw a window, gradient, update, validate | calls `DataLoader` and CaffeLib |
| CaffeLib (not in the repository) | the parameters of the network | `ReturnParam`, `ComputeGradientWithDatum`, `SetParamsDense`, `Validate` | called by `main` |
| `python/plotting/parse_log.py` | numbers found in a log | plot | reads the log of `main` |

Everything in the program is sequential.  What makes it hard is that each part
trusts numbers another part computed: the second pass over the file trusts the
counts of the first although it parses rows differently, `main` cuts the array
of floats into rows of a hard coded length that is compared with nothing, and
windows are drawn in unsigned arithmetic.  A killed script leaves a file cut at
any character, and `ReadFloat` does not know the end of a file.

### 1.2 The library `apsara/stone`

Only headers are in the repository; most of them declare classes whose code is
in a binary.  A component can be modelled when its methods are in the header.

| Component | State | Operations | What is hard |
|---|---|---|---|
| `SpinRWLock` (`threading/sync/lock.h`) | one `int`, the quota | blocking and trying lock, unlock, for readers and writers | a failed attempt is visible until its second atomic step; `int` overflow |
| `LockFreeStack` (`threading/lockfree/lockfree_stack.h`) | two tagged heads, a node buffer, a size | `Push`, `Pop`, `AcquireNode`, `ReleaseNode`, `Size`, `Empty` | reads of nodes another thread reuses meanwhile (ABA); counting after the fact |
| `VariantInt` (`encoding/integer/integer_encoding.h`) | none | `Encode`, `Decode`, `GetLength`, `GetMaxCharsOfEncodedSize` | the bits of the last byte, limits inside an integer |
| `LockFreeQueue` (`threading/lockfree/lockfree_queue.h`) | head and tail with 16-bit tags, links in both directions, a list of free nodes, a size | constructor, `Push`, `Pop`, `FixList`, `AcquireNode`, `ReleaseNode`, destructor, `Size` | an optimistic algorithm: backward links may be late or stale and are repaired while others use them |
| `FreeList` (`threading/lockfree/free_list.h`) | a tagged head, links in the program's objects, a size | `Push`, `Pop`, `Size` | the same reads of a moved object, with 16-bit tags |
| `Closure` (`base/closure.h`) | bound arguments, whether it deletes itself | 72 classes, the functions that make them, `Run` | who deletes a closure, also when its function throws |
| `FutureClosure`, `FuturePtr` (`threading/sync/future.h`) | a wrapped closure, a `Future`, an argument; a counted pointer | construct, `SetCompletionCallback`, `Wait`, `Run`, destroy; copy, assign, reset | the owner may destroy the object as soon as it is woken |
| `FutureGroup` (same header) | two lists of futures with sentinels | `PushBack`, `RemoveFront`, `Empty` of its list; the rest is in a binary | relinking at the sentinels |
| `RefCounted`, `Singleton`, `scoped_ptr` (`memory`) | counts, one static pointer, one owned pointer | add, release; create once, destroy at exit; reset, swap, release | last release; double-checked creation against destruction; a destructor that comes back |
| `IntrusiveList`, `IntrusiveDList` (`containers/intrusive_list.h`) | links inside the elements, a root node, a count | push, pop, insert, erase, swap, clear, unlink | relinking at the ends; elements that must come back with clean links |
| locks and scoped lockers (`threading/sync/lock.h`) | one pthread object each; the scopes a thread has open | lock, unlock, for scopes and the inverse | a destructor that locks may block; a call that pthread refuses ends the program |
| `StringPiece` (`string/string_piece.h`) | a pointer and a length | cut, swap, search in both directions, compare | searches count an unsigned position down past zero |
| `Logging` macros (`logging/logging.h`) | a static `LogInfo` per call site, and the next count to log | conditional, block, sampled and trace statements; setters | a next count that is not ahead of the counter silences the site for ever; the level is read three times |
| raft, change log, record I/O, file system, thread pools, timeout queue, ini parser, checksum, base64 | - | declared only | nothing to translate: the code is in a binary |

### 1.3 What makes each modelled component correct

* The script and the loader: a load that returns, returns the rows of the raw
  export; a good and complete file does load.  Both as long as the fields of the
  file, labels included, can be counted by an `unsigned int`.
* The training loop: windows stay inside the arrays and keep labels and
  features together; gradient, update and validation use the parameters they
  are meant to use; training ends.
* The lock: a writer is alone; no share of the quota is lost or given twice; an
  attempt fails for a cause; the trying methods return.
* The stack and the queue: each is what its name says, with every node in one
  place, for any interleaving; calls of the queue return.
* The free list: no object is lost or given to two threads.
* Closures, future closures, scoped, counted and future pointers: everything is
  deleted once, by the one who has to, with the right function, and used by
  nobody afterwards; an owner who waits is woken.
* The singleton: one object at a time, no reference to a dead one unless the
  exit overtook the call, and nothing left over at the end.
* Lists and pieces: they are the sequences that their operations say.
* Scoped lockers: a thread is inside a scope only while it holds what the scope
  says, and the program is aborted only for a misuse of a scope or of a mutex.
* Log statements: a sampled site logs at the counts it promises, and a record
  carries the level it was tested with while nobody changes it.
* Variable length integers: decoding inverts encoding, and an integer that does
  not fit is refused.

## 2. Modules and their correspondence to the code

| Module | Models | One action is |
|---|---|---|
| `UnsignedInt` | `unsigned int`, for the counters of the loader and the indices of `main` | - |
| `DataLoader` (extends `UnsignedInt`) | `data_loader.cpp` | one turn of a loop of `RunThroughFile` or `AllocateData` |
| `Pipeline` (extends `DataLoader`) | `parse_data.py`, killed or not, and `main`'s two loads | one line of the script |
| `Trainer` (extends `UnsignedInt`) | the loop of `main` in `run_training.cpp` | one call or loop of the body |
| `Main` (extends `Pipeline`, `Trainer`) | the whole program | a step of either |
| `SpinRWLock` | the class of that name | one atomic operation on `mQuota` |
| `BoundedStack` | nothing: the promise of a bounded stack | a push, a pop or a refusal |
| `LockFreeStack` | the class of that name | one access to memory that other threads use |
| `Chains` | the nodes that a loop along a link visits | - |
| `Fifo` | nothing: the promise of a queue | a push, a pop, or the moment at which a pop sees it empty and its answer |
| `LockFreeQueue` | the class of that name, from its constructor to its destructor | one access to memory that other threads use |
| `FreeList` | the class template of that name | one access to memory that other threads use |
| `Closure` | `NewClosure`, `NewPermanentClosure` and the classes behind them | making, entering `Run`, leaving it by return or exception, deleting |
| `FutureClosure` (extends `Closure`) | both specialisations, with an owner and a worker | a step of `Run`, of `SetCompletionCallback`, or a call of the owner |
| `FuturePtr` | the class of that name | a method; the assignment is two steps |
| `ScopedPtr` | `scoped_ptr` with its destructor classes, `scoped_array` | a method up to the destructor it calls, and the end of a destructor |
| `RefCounted` | `RefCounted`, `RefCountedUnsafe` | the decrement, the delete and the return of `Release` |
| `IntrusiveList`, `IntrusiveDList`, `FutureList` | the lists of those names (`FutureList`: inside `FutureGroup`) | a method; nothing here is shared without a lock |
| `Lists` (extends these three) | nothing: what the three have in common | - |
| `StringPiece` | the class of that name | a method that changes a piece; searches and comparisons are operators |
| `Locks` | the lock classes and the scoped lockers and unlockers | a constructor or a destructor of a scope, a trying method, the destruction of a mutex in use |
| `Singleton` | `Instance`, `Destroy` | one access to a static variable, or a call of the mutex, `new`, `atexit`, `delete` |
| `Logging` | the log macros and `LogInfo` | one access to a static or to the logger; the test of a conditional statement (`Passes`) is one action for its three reads |
| `VariantInt` | the class template of that name | one group of bits |
| `MainProofs` | - | theorems about `Trainer`, `DataLoader` with `Pipeline`, and `Main` |
| `LockFreeStackProofs`, `LockFreeQueueProofs`, `VariantIntProofs` | - | theorems about the module of that name |
| `OwnershipProofs` | - | theorems about `SpinRWLock`, `Closure`, `FutureClosure`, `ScopedPtr`, `RefCounted`, `FuturePtr` |
| `LibraryPartsProofs` | - | theorems about `FreeList`, `Locks`, `Logging`, `Singleton`, `StringPiece` |
| `ListProofs` | - | theorems about `IntrusiveList`, `IntrusiveDList`, `FutureList` |
| `LibraryLemmas` | - | lemmas about finite sets, sums, sequences, chains and counters that these share |
| `MC...` | - | inputs for TLC |

`MCOwnership` and `MCLibraryParts` put several of these modules side by side:
the first state chooses one part, the behaviour belongs to it, and the state of
the others stays as it was.  The parts share no state in the code either; one
run for all of them only saves repetition.

**Data.**  A character of a file is a natural number (the text of a number) or
one of the negative codes for comma, newline, blank and a word; `atof` is
modelled by what it does on them, leading blanks and words included.  A
parameter vector is the number of updates that led to it, since only its age
matters to `main`.  Pointers of the stack are indices, as in the code.

**Failures that the code has.**  `hang` is `ReadFloat` at the end of a file,
`abort` a failed `assert`, `crash` a NULL stream or a division by zero.  A
write or read beyond an array is undefined: it goes unnoticed or it crashes,
and both are explored.

**Integers.**  `mQuota` wraps like an `int` (`IntHalf` for 2^31); the counters of
the loader, the size of the array it allocates from them, its write indices,
window positions and offsets wrap like `unsigned int` (`UIntMod`), tags like `uint32_t` in
the stack and like 16 bits in the queue and the free list (`TagMod`,
`PoolTagMod`), sizes and positions like `size_t` (`SizeMod`, `SizeMax`), decoded
integers like `T` (`Width`).

**History.**  `sources` in `Main` (the rows behind each load), the lists as
sequences (`stack`, `queue`, `free`, `poolSeq`, `sSeq`, `dSeq`, `fSeq`), the
callbacks counted in `FutureClosure`, the destructions counted in `ScopedPtr`
and `RefCounted`, and `begun`, `steady`, `minAt` in `Logging` record what
happened; the code neither reads nor writes them.

**External code.**  CaffeLib keeps the vector it is given.  `Future` refuses a
callback once completion has begun, calls a registered one once, and counts
references (`future.h` declares it; `FutureClosure` and `FuturePtr` use no more).
When a pthread call blocks or returns an error is what POSIX says of each kind
of mutex, and the destruction of a mutex that is held is refused with `EBUSY`.  `exit` runs the `atexit` handlers, the last registered first, also
those registered meanwhile.

**The program around a class.**  A class is used by a program that keeps the
rules its header gives or its asserts check: who gave up a pointer does not use
it, an element that is pushed is in no list, a thread releases only references
it has.  Within these rules every order of calls is explored.

## 3. Runs

| Run | Shows | Bounds and why they are enough |
|---|---|---|
| `pipeline` | `LoadedIsFaithful`, `UniformRowsFit`, `GoodFileLoads`: all raw exports of up to two lines, killed anywhere, twice through one loader | two lines make rows of different shape follow each other in either order, which is all that one pass over a row carries into the next; the second load meets every leftover of the first; `UIntMod` is 5, so that two rows of two fields are the most that can be counted and two of three wrap |
| `loader_assertions` | *violation*: a label-only row makes an assertion of `AllocateData` fail | |
| `training` | batches in bounds, parameters fresh, training completes, for arrays of the right size and one float off | counts on both sides of the batch size, and `UIntMod` small enough for offsets to wrap; two validations |
| `main` | what the loader delivers is usable, and each row of each batch is a row of the raw export | three lines and batches of two give two windows, so a wrong stride shows; `UIntMod` is 10, so that the nine fields of three such rows are the most that can be counted; with a row that is too long among the lines counters also wrap |
| `spin_rwlock` | `MutualExclusion`, `QuotaAccounted`, causes of failures, `TryReturns` | three threads for two reader slots; `IntHalf` is the least the assumption admits |
| `stack` | `ListsIntact` (nodes in one place, chains, size), refinement of `BoundedStack`, `CasFailsOnlyForProgress` | three threads on two nodes and five calls: a node can be popped, released, reacquired and pushed while another thread holds a stale head |
| `queue` | `ListsIntact`, `MatchingTagTellsTruth`, refinement of `Fifo` | two threads with two and three calls: a node is popped, recycled and pushed again while the other thread is anywhere inside `Push`, `Pop` or `FixList`; the invalid tag (3 for 0xdead) is passed in both directions; the tag bits of new memory are 0 (always safe), 1 (the tag of a head, so that the link may be followed) or 3 (the invalid tag) |
| `queue_returns` | `CallsReturn` | two threads with two calls each, and tags 0 or 1 in new memory: a `Pop` meets links that are missing, late or stale, and returns only after `FixList`; fewer calls than in `queue` since the check of liveness is the costly one |
| `ownership` | `ArgumentsInOrder`, `ClosuresDeletedOnce`, `WrappedClosureOwned`, `CallbackAsAnswered`, `OwnerIsWoken`, `ObjectsOwnedOnce`, `ReferencesCounted`, `FuturesCounted` | every arity once, and a second closure to nest; one object of each class is enough, as objects do not interact; two scoped pointers can swap, a third sees destructors come back; two threads race for the last of three references |
| `library_parts` | `ListsAreSequences`, `PoolKept`, `PieceIsAString`, `ScopesHoldLocks`, `OneInstance`, `InstanceReturnsLive`, `AllDestroyedAtExit`, `SampledAsPromised`, `RecordsAsTested` | three elements have two ends and a middle, two lists to move and swap between; texts and patterns with overlapping, missing and empty matches, at every position and `npos`; two threads, three nested scopes, two locks of every pair of classes; three objects of a singleton, that is, two made during the exit; four sampled counts on a site with each function |
| `variant_int` | `RoundTrip` under every limit, `EncodingFits`, and all foreign buffers | five bits in groups of two: the last group is partly used, as for 32 or 64 bits in groups of seven |
| `variant_int_overflow` | *violation*: bits beyond the type are accepted | |

Deadlock is checked in every run except `ownership` and `library_parts`.  Where
the program ends, or the bound on calls is reached, an explicit stuttering
action says so (`Terminated`, `Over`, `Quiet`), and its guard is the legitimate
end.  In `ownership` and `library_parts` a behaviour may really stop: every
object has been deleted, the process has exited or was aborted, or the threads
wait for locks that they hold in opposite order, which the scoped lockers do
not prevent.

Some properties are conjunctions of named parts (`ListsIntact`,
`WrappedClosureOwned`, `ReferencesCounted`, `PoolKept`, `PieceIsAString`,
`ScopesHoldLocks`, `ListsAreSequences`); `PROJECT.json` then has a deviation for
each part that can be broken by itself.

### Fairness

* `SpinRWLock!FairSpec`: weak fairness for each thread inside a method of the
  lock; the operating system schedules runnable threads, and nothing there
  blocks.  No fairness for calling or for unlocking.
* `Pipeline!FairSpec`: the script and the loader are single processes that run
  while they have something to do.
* `Trainer!FairTrainerSpec`: the same for `main`.
* `LockFreeQueue!Spec`: weak fairness for each thread inside a call; no thread
  blocks.  None for calling.
* `MCOwnership!Spec`: the worker goes on with what it was given, and the owner
  that has begun to register a callback or to wait goes on.

`TryReturns`, `GoodFileLoads`, `TrainingCompletes`, `CallsReturn` and
`OwnerIsWoken` are the liveness properties.  `CallsReturn` is about finitely
many calls, as `LockFreeQueue` is not wait-free either; what it excludes is a
`Pop` that spins on a backward link which nobody will ever write.  A call that
follows a link nobody has written is undefined and counts as over.  The blocking
methods of the lock are not claimed to return: two writers can undo each other's
attempts for ever.  `LockFreeStack` is lock-free
and not wait-free, which `CasFailsOnlyForProgress` states without fairness.

### Findings

1. `data_loader.cpp:121` asserts that the two passes agree; a raw line with a
   label and no feature makes the second pass take the features of that row
   from the next line, and the assertion fails (`loader_assertions`).  The same
   check is why `LoadedIsFaithful` holds: such a file aborts and is not
   trained on.
2. `integer_encoding.h:65` promises to return false if the maximum of `T` is
   exceeded; only the number of bytes is bounded (`variant_int_overflow`).

`run_training.cpp:22` also plans "Save parameters".  No statement saves anything,
so there is no state that a run could compare with that line, and it is not
modelled.

## 4. Proofs

**`MainProofs`.**  Three steps from the raw export to the batch.

*The training loop.*  From `TrainerAssumption` and `DataSetsAssumption` (ranges
of the constants, and of what a loader can deliver).  `BatchInBounds` needs two
facts about earlier steps: where the loop is in relation to the parameters
(`Progress`) and that the row drawn is below the number of windows
(`WindowFits`).  The conjunction of these with the type invariant and
`UsableDataNeverFaults` is `TInv`.  The arithmetic core is `WindowInArrays`: a
window that starts below the number of positions ends inside both arrays, and
its offset does not wrap if the array itself can be indexed.

*The way of the rows.*  From `PipelineAssumption` (raw files are finite lists of
finite lines, with a newline at the end of a line only; at least one column is
dropped), `LoaderAssumption` and `UIntAssumption`, for raw files whose fields an
`unsigned int` can count (`Countable`).  That hypothesis is the truth about the
code: from 2^32 fields on, the array of `data_loader.cpp:39` is too small.
`LoadedIsFaithful` compares rows, but between
the two ends there is only text, which `strip`, the column loop of
`parse_data.py`, `Peek` and `ReadFloat` take apart character by character.
`Layout` says where the rows are in a text: for each row the places of the
commas that end its columns, such that between two of them the first thing that
is no blank is the value (`FieldAt`), and that nothing but blanks is between two
rows.  `LineLaid` shows that `ParseLine` lays one more row, whatever blanks and
empty columns the line has, and `ScriptInv` that the output is always the layout
of the rows of the lines read; a text cut off anywhere is the layout of a prefix
of them and at most one incomplete row (`FileOf`).  `Reading` is the position
invariant of the loader: at each `pc` of either pass, `pos` is at a column of
the layout, the counters are what the rows before it have (`Counting`,
`CountedTo`), which no wrap has changed (`Bounded`), and in
the second pass `pLabel` and `pData` are the labels and features of the rows
before, with the part of the current one (`Partly`, `OneLabelEach`).  The passes agree as both
stop at the same row, also at a row that was cut off; what `Allocate` makes of
the counts then fits (`ExactDivision`, `UniformFit`).  `PipelineInv` is the
conjunction, and `Delivered` what a finished load keeps of it.

*The program.*  `ProgramInv` holds the invariant of the pipeline while `main`
loads, that every load was delivered from the source noted for it, and
afterwards that `train` and `val` are these loads (`TrainsOn`) and the drawn
window is inside them (`WindowOf`).  `RowsInArrays` turns `Delivered` into
indices: column `j` of row `i` is at `(i - 1) * FeatureLen + j`, and `WindowRow`
reads a row of the batch off it without a wrap, as `Suitable` bounds the number
of all fields, the labels that the first pass counts included, by the range of
an `unsigned int`.

**`LockFreeStackProofs`.**  From `StackAssumption`: finitely many threads, at
least one node, and fewer exchanges of a head than there are tags.
`ListsIntact` says where the nodes are now; it does not survive the exchange of
a thread that read head and link long ago.  `StackInv` adds `Delayed`: whatever
a thread remembers of a head was the head at that tag, so that, if the tag is
still the current one, the list has not been touched since and the link it read
is the link of now; and `TagsCounted`: a tag is at most the number of calls so far,
which `StackAssumption` keeps from coming round.  One lemma describes each way
in which a chain changes (`ChainAdded` and its siblings), one each action.  From
the invariant follow `StackListsIntact`, `StackLockFree` (an exchange fails only
because another one succeeded since the head was read) and `StackImplements`:
a successful exchange of the head of the stack is the push or the pop of
`BoundedStack`, a `Pop` that reads the null index and a `Push` that finds no
free node are its refusals, and every other step is a stutter.

**`LockFreeQueueProofs`.**  From `QueueAssumption`: finitely many threads, a
number of calls that the tags can count, and the invalid tag at least two away
from both ends.  New memory may hold any tag bits.  `TagsUndone` is the arithmetic on
which `FixList` rests: it numbers the backward links by counting tags down from
the tail, and `Pop` compares them with tags counted up.  `QueueInv` places every
node (`Placed`), says that the forward links from tail to head are the queue
with tags that increase by one (`QueueLinked`), and bounds all tags by the calls
made (`Counted`).  Its core is `PrevGood` and `Delayed`.  A backward link may be
missing, stale or garbage, but one whose tag is the tag a reader would compare
it with is the true neighbour, unless nobody has written it (`GoodLink`); and every thread that is about to write one
(after its exchange in `Push`, or anywhere in `FixList`) writes a true link for
a tag of the queue or one that no later reader will accept.  Proved:
`QueueListsIntact`, with the destructor's loops over the links, which reach every
node of both lists (`FreeWalked`, `QueueWalked`); `QueueTagsTell`, that a written
link whose tag matches is true, while one that nobody wrote matches only if its
memory held the head's tag, and never the tag 0; and `QueueImplements`, the refinement of
`Fifo`, with the exchange in `Push` and in `Pop` as the abstract push and pop and
the read of the tail, while head and tail are the same, as the moment at which
a `Pop` sees the queue empty.

**`OwnershipProofs`: the lock.**  From `LockAssumption` alone: finitely many threads, a
positive `kWrite`, and `(threads - 1) * kWrite` at most half the range of
`int`.  With the constants of the code that is 129 threads, and the assumption
is tight: one thread more lets the quota wrap.  `MutualExclusion` is not
inductive, since it says nothing of `mQuota`; `QuotaAccounted` is the missing
part: the quota is the initial one less the shares of the threads that hold the
lock *or have failed and not yet given back*.  The inductive invariant `IInv`
is the type of the control state and that equation.  The lemmas count the
threads with a share before and after a step (`TakeShare`, `GiveShare`) and show
that the counts keep the sum within `int` (`SharesBounded`, `QuotaFits`,
`WrapFits`).  Proved: type correctness, the accounting, exclusion, and the two
action properties on causes of failure.

**`OwnershipProofs`: closures and pointers.**  `ClosureInv`: a closure that exists is held by its maker,
running, or deleted, and exactly one of these (`OneOwner`); the frames of a
thread hold the arguments in order (`FramesInOrder`), which `PassedInOrder`
establishes class by class for all 72.  `FcInv` adds the worker's place in `Run`
against the owner's place in `SetCompletionCallback`, `Wait` and the destructor
(`Phases`), who has the wrapped closure (`Wrapping`), and what the callback is
owed (`Answers`); assumed is only that the worker is a thread and that "none" is
no closure.  `ScopedInv`: the places in which an object is - held by a pointer,
loose, about to be deleted, destroyed - add up to one (`Places`), and the
function with which it is destroyed is that of its kind (`KindsAgree`), also
while destructors are nested.  `RefInv`: the counter is the sum of the references
of all threads, and at most one thread has brought it to zero (`LastToGo`).
`FuturePtrInv`: a Future's count is the number of pointers to it less those in
the middle of an assignment, and the right-hand side of such an assignment
keeps its Future alive.  The theorems are the seven properties of the run
`ownership` that are not liveness.

**`LibraryPartsProofs`.**  `PoolInv` is for `FreeList` what `StackInv` is for the
stack: a delayed thread's head and tag determine the link (`PoolDelayed`).
`LocksInv` relates the scopes that a thread has open to what it holds, for any
depth of nesting: what it holds of a lock is what the scopes opened so far take
less what the unlockers among them give back, at every prefix of its stack of
scopes (`Nested`); of what kind its scopes are (`KindsSorted`); that holders
exclude each other (`Exclusive`); and `AbortHasCause`, which names the three ways
to be ended: to lock what one holds, to unlock what one does not hold, and to
destroy a mutex that is held.  `LogInv` keeps with each
statement in progress the level with which it passed its test.  `SampleInv` says
of a sampled site, whenever its lock is free, that everything up to the counter
has been logged and `sNext` is the next count due (`Settled`), and of the thread
inside what it still has to do (`SiteKnows`); the doublings of a count are
defined as the least set closed under doubling, so that no power is needed.
For the singleton, with any number of threads and `SingletonAssumption` (a bound
on the objects ever made, and a name for "no thread"), `OneInstance` alone does
not survive a step: `SingletonInv` adds who holds the mutex and that whoever is
past it does (`LockHolder`); that with nobody making or destroying, `sInstance`
is the one live object and has one handler, or there is neither (`AtRest`); what
the thread that makes an object has done so far (`Maker`); and that a thread
about to return has seen an object that is still alive unless `Destroy` came in
between (`Returner`).  From it follow `OneObject`, `ReturnsLive` and
`NothingLeft`.  For `StringPiece`, from `PieceAssumption` (characters are numbers,
texts and patterns are shorter than `npos`, and the width of an `int` divides
that of `size_t`): `PieceInv` says of each piece which part of the text it is and
that `content` is that part (`Shows`), and a cut of a cut is a cut of the text
(`CutCut`).  Everything else follows from it without another step.  The loops of
the searches are recursive functions; `ScanUpIs` and `ScanDownIs` show that there
is a function that satisfies the equation, and by induction on the distance to
the end of the loop that every such function gives the first hit, or the last;
`DownStep` is the turn at zero, where the unsigned index must not be decremented
once more.  `DifferenceIs` is the unsigned difference of the lengths in `compare`,
cut to an `int`.

**`ListProofs`.**  For any elements and lists, with `ListAssumption` and
`DListAssumption` (null is no element, and each `IntrusiveDList` has a root of
its own that is no element).  `ListIsItsSequence` and its like say where the links
of one list lead; they are kept because no element has two positions, in one
list or in two (`Apart`), so that what an operation writes at one place is
neither read nor written anywhere else.  The doubly linked lists are treated
together: a ring from its root back to it, or the chain between two sentinels,
is a line of nodes, and `LineAdded` and `LineTaken` say what two writes to
`next` and two to `prev` make of all lines.  The lemmas for the operations only
have to find the place: the end for `push_back`, the position of an iterator for
`insert` and `erase`, the ends for the pops.  `DInv` adds that the iterator is the
root of a list or an element of one (`ItGood`), which `erase` keeps as it reads
`next` before it unlinks; `clear`, which erases from the first element on along
`next`, reaches just the elements of its list (`ChainForward`); `ListInv` that a spare element has a null link, which
`push_back` relies on.  `ListsKept` is the conjunction.

**`VariantIntProofs`.**  From `VariantAssumption`: any positive size of a group
and any positive width.  `RoundTrip` relates the answer to an integer that
neither the buffer nor the accumulator shows; `VariantInv` adds the chain of
remainders between them (`Groups`: what is left after each group is that group
and the next remainder, and none but the first is zero), which `Encode` makes
from the front (`Encoding`) and `Decode` follows (`Gathered`: the groups put
together so far and the remainder are the integer).  `Needs` bounds the integer
by two weights; with the monotony of powers, `LengthIs` gets from it the value of
`GetLength`, and that the rounded-up quotient is large enough.  `Pow2Defined`
shows that the recursive function `Pow2` satisfies its own equation, which the
prover does not take for granted; `Pow2Sum` and `Pow2Less` are what is needed of
it.  Foreign buffers are in the model, but no property claims anything of
what `Decode` makes of them.

**`LibraryLemmas`.**  Induction over a finite set in the form that the provers
can use (a set of subsets that contains the empty set and is closed under
adding an element), sums of functions with `SumFunction`, cardinalities of sets
that differ in one element, the nodes reached along a link of a sequence
(`ChainForward`, `ChainBackward`, `ChainOutside`), adding and taking at the ends of a sequence, and
counters modulo a number.

**Only model-checked.**

* Liveness (`TryReturns`, `GoodFileLoads`, `TrainingCompletes`, `CallsReturn`,
  `OwnerIsWoken`): outside the reach of the prover.

## 5. Plan

Done: the program (`DataLoader`, `Pipeline`, `Trainer`, `Main`) with the proofs
of the training loop, of the way of the rows and of the whole; the reader-writer lock with its proofs; the stack and the
queue with their abstract specifications, the proofs of their invariants and of
both refinements; of the library the free list, closures, future closures, the
scoped, counted and future pointers, the singleton, the scoped lockers, the lists,
the string pieces and the log statements, each up to the operations that section
6 names, with the proofs of the singleton, of closures and pointers, of the free list, of
the scoped lockers, of the log statements, of the string pieces, of the linked
lists and of the variable length integers.

Every invariant and action property of the passing runs is a theorem, and so are
the refinements; nothing of the plan is left but what section 4 names as out of
the prover's reach and what section 6 leaves out.

## 6. Not modelled

* Code that is not in the repository: everything that `apsara/stone` only
  declares (raft, change log, record I/O, files, thread pools, task runner,
  timeout queue, ini parser, checksums, base64, crash traces) and CaffeLib
  beyond the parameters it holds.
* Generated code (`*.pb.h`) and the network definitions (`prototxt`).
* The arithmetic of floats, the learning rate, the wording of logs.
* Memory orders: atomic operations are sequentially consistent here, as the
  `__sync` builtins behind `atomic_detail.h` are full barriers; plain reads
  between them are single steps.
* Tags that come round.  The assumptions ask for more tags than the queue
  (`TagMod > 2 * AllCalls + 3`), the stack and the free list can use in the calls
  of their whole lifetime.  The code has 2^16 tags for the queue and the free list
  and 2^32 for the stack, so that for a longer life nothing is shown here; there
  it would be enough that tags do not come round while one thread is delayed,
  which is not proved.
* What `LockFreeQueue` does after it has followed the `mPrev` of a new node, which
  is uninitialised (`lockfree_queue.h:194`).  The model has the step (`wild`),
  and `MatchingTagTellsTruth` when it is possible; the behaviour behind it is
  undefined and ends there.
* Files with 2^32 fields or more.  The model loads them with wrapped counters,
  and they may overrun the arrays or load wrong; the properties are about smaller
  files.  `new` never fails.
* The destructor of `LockFreeQueue` is one action, as it may run only when nobody
  else uses the queue; what it deletes follows the links in memory.
* Misuse that the headers do not guard against.  `DLinkNode`'s destructor takes
  an element out of its list without correcting `mCount`
  (`intrusive_list.h:168`); `FreeList::Pop` reads the link of an object that
  the program may have deleted after another `Pop`; an exception out of
  `FutureClosure::Run` leaves `mClosure` set and the future incomplete.  The
  models stay within the rules that exclude these.  Also excluded are an
  assignment to a `FuturePtr` from one that lies inside an object which the
  assignment's `Unref` destroys (`future.h:99`), and coming back to a
  `scoped_ptr` from the object that its own destructor is deleting
  (`scoped_ptr.h:83`, where `mPtr` is not cleared).  A `NullLock` excludes nobody
  and remembers only the last call, so `ScopesHoldLocks` claims nothing of it.
* `find_last_not_of(const char*, size_type)` (`string_piece.h:258`) calls itself
  without end, and `STONE_LOG_FATAL_SAMPLED` (`logging.h:366`) passes its
  arguments in another order than its siblings: neither is instantiated in the
  repository, and neither has a state to check.
* `RefCountedUnsafe::Release` (`ref_counted.h:61`) reads the counter of the
  object it has just deleted; the model returns any value there, and
  `ReferencesCounted` says nothing of what that caller is told.
* Properties with a hypothesis say nothing outside it, where the code may go
  wrong: `BatchInBounds`, `UsableDataNeverFaults` and `TrainingCompletes` of data
  with fewer rows than a batch or more floats than an `unsigned int` indexes
  (line 82 of `run_training.cpp` then divides by zero or draws a window outside
  the arrays); `InstanceReturnsLive` of calls that `Destroy` overtakes;
  `RecordsAsTested`, but for the block form, of statements during which the level
  changes; `TryReturns` of the blocking methods; the properties of the lock of
  more threads than `LockAssumption` admits.
* `FutureClass::Reset` and `Run(Closure*)` (`future.h:237`, `280`),
  `Logger::AddSink` and `Logger::Inherit` (`logging.h:912`, `916`), which the loggers
  in the binary call, and what `logging.h` only declares.
  That a `Future` calls back before it reports completion is assumed of the binary.
* `Singleton`: `sInstance` is `volatile` and not atomic, so that the language gives
  the unlocked reader no order with the constructor; the model is sequentially
  consistent.  A failing `atexit` is ignored, as in the code.
* Locks: errors of the constructors, and counts of recursive or reader locks at
  their limit (`EAGAIN`), for which `TryReadLock` aborts.
* `RefCounted` begins with its first reference (the constructor sets 0 and the
  maker calls `AddRef`).  `VariantInt` is modelled for unsigned `T`; a negative
  value of a signed `T` is less than 0x80 and is cut to its last byte.
* `scoped_ptr.h` describes `reset` as deleting before storing, while the code
  stores first; the code is modelled, and `ObjectsOwnedOnce` shows why its order
  is the right one.
* `parse_log.py` (it plots, and refers to names that do not exist), `IsLocked`
  of the locks (it looks into pthread objects), and
  formatting anywhere.
