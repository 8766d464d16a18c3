# A TLA+ model of nobind

nobind is a header-only C++17 library that exposes C++ functions and classes to
JavaScript through Node-API. Its compile-time part (template expansion, type
inference, TypeScript generation) produces code whose run-time behaviour is
what this project models: proxies of C++ objects whose lives are decided by a
garbage collector, and calls that lock objects on several threads.

Line references are to `src/include/*.h` unless a path is given.

## 1. Inventory

| component | state | operations | interacts with |
|---|---|---|---|
| **Object store** `noobjectstore.h` | per class, a map address -> weak reference; a mutex | `Get`, `Put`, `Expire`, destructor | called by the wrappers and by the finalizers the collector schedules |
| **Object wrappers** `noobject.h` | per proxy: `self`, `OWNED`, `finalizer`, weak self reference, `async_lock`; the parent property | JS constructor, `New<OWNED>`, `SetupNested`, `ToJS`/`FromJS` typemaps, `Finalize` / destructor, external memory accounting | object store, garbage collector, C++ code |
| **Call wrappers and async locking** `noobject.h`, `nofunction.h`, `notypes.h`, `nostl.h` | one `std::mutex` per wrapper; `FromJSLockGuard`s on the stack; tasklets with persistent references | synchronous and asynchronous wrappers of functions, methods, getters, setters, extensions, constructors; `Lock`/`Unlock` in three contention modes | libuv thread pool, event loop, wrappers |
| **Environment data and module life** `nobind.h`, `noobject.h` | `EnvInstanceData`: store, class constructors, main thread id, job queue | module initialization, `~Module`, cleanup hook | everything |
| **Jobs for the JS main thread** `nohelpers.h`, `nobind.h` | queue of jobs, mutex, `uv_async_t` | `RunOnJSMainThread`, the async callback, teardown | smart pointers, foreign threads |
| **Smart pointers** `nosmartptr.h` | a `shared_ptr` held by a wrapper's finalizer; a persistent reference held by a `shared_ptr`'s deleter | `ToJS`/`FromJS` of `shared_ptr` | wrappers, store, jobs |
| **Iterators** `noiterator.h` | per iterator: `target`, `it`, a persistent reference if it is nested | `MakeJSIterator`, `next()`, `[Symbol.iterator]`, destructor | wrappers, parent property, garbage collector |
| **STL containers** `nostl.h` | the converted elements | `FromJS`/`ToJS` of vector, map, pair..., their `Lock`/`Unlock` | locking |
| **Class definitions** `noobject.h`, `nobind.h` | static class index, name and table of constructors; per environment the constructors, prototypes, exports and the TypeScript text | `Module::decl`/`def`, `Configure`, `~ClassDefinition`, `CheckInstance` | environment, calls |
| **Conversion of arguments and results** `nofunction.h`, `noobject.h`, `notypes.h` | the `FromJS` objects of a call, its `ToJS` object | conversion, `CheckArgLength`, moving into the tuple and the tasklet, call, `Get()`, destruction; overload resolution | typemaps, garbage collector |
| **String and buffer typemaps** `nostringmaps.h`, `nobuffer.h` | memory that a `FromJS` object owns, a persistent reference, external memory of a `Buffer` | constructors, moves, `Get()`, destructors, finalizer | conversions, garbage collector |
| **Numeric typemaps** `nonumbermaps.h` | none | kind checks, carriers and casts | conversions |
| **Return and property attributes** `noattributes.h` | none (compile-time flags) | `ShouldOwn`, `IsAsync`, `ReadOnly` and the like | all of these |
| **TypeScript generator** `notypescript.h` | the text of an environment | signatures of classes, functions and variables | class definitions |
| **Debug output** `nodebug.h` | none | formatting | - |

### What is hard

* **Two-step collection.** A proxy dies in two steps: its weak references are
  emptied, and later (or at once, with *basic finalizers*) its destructor runs.
  In between the object may be wrapped again, its address reused, the store
  swept, or the store deleted. No test can place a destructor at will.
* **Ownership.** The same pointer can reach JavaScript as a new object, as a
  static object, as `this` returned, as a member or base class of `this`. Some
  of these own the object, and the store decides which wrapper answers.
* **Threads.** Asynchronous calls take persistent references, lock all their
  objects on a pool thread, and wrap the result later on the JavaScript thread;
  synchronous calls lock on the event loop.
* **Lock order.** The order is fixed by the order of the arguments, the standard
  library's tuple and the elements of containers.
* **Teardown.** The cleanup hook deletes the store, then finalizers run.
* **Worker threads.** Every environment runs the same initialization over static data
  that they share, and may fail, end and start again.
* **Conversions half done.** A call can be refused at any argument, after others have been
  converted, and constructors are tried one after the other.

`PROJECT.json` lists these hazards at the lines where they bite.

### What makes each component correct

* store: it returns the living proxy of an object and never a stale or foreign one;
* wrappers: one proxy and one owner per object; nothing reachable is freed,
  nothing unowned is left; reported memory is exact; everything freed at exit;
* calls: no object used by two calls at once, every call settles, a failed call
  leaves nothing locked;
* jobs: a job runs once, on the main thread, or its owner is told that it will not;
* smart pointers: an object lives as long as its last owner on either side;
* iterators: a nested iterator and the elements it returned never outlive their container, and
  do not keep it for ever;
* class registry: each environment constructs and checks with its own constructors, in whatever order
  environments come and go; the TypeScript text describes what the JavaScript classes do;
* conversions: the C++ code runs only with arguments that match, they stay alive during the call,
  all memory has one owner however the call ends, and exact numbers keep their value.

## 2. Modules

| module | what it models | proofs |
|---|---|---|
| `ObjectStore` | the store as a value; `Lookup`/`Swept` (= `Get`), `Put`, `Expire` as operators | |
| `ProxyIdentity` | abstract specification: what JavaScript can see of the promise "one C++ object, one proxy" | |
| `ObjectWrap` | wrappers + store + collector + C++ objects + asynchronous results + end of the environment | `ObjectWrapProofs` |
| `AsyncLocking` | call wrappers, guards, mutexes, thread pool, event loop | `AsyncLockingProofs` |
| `JobQueue` | abstract specification: what `RunOnJSMainThread` promises its callers | |
| `JSMainThread` | the queue of jobs, its mutex, the `uv_async_t` handle, the event loop and the teardown | `JSMainThreadProofs` |
| `SmartPtr` | `shared_ptr` in both directions: custom finalizers, deleters, and their jobs | `SmartPtrProofs` |
| `ClassRegistry` | class definitions in several environments: static data, tables, prototypes, exports, TypeScript | `ClassRegistryProofs` |
| `NumberMaps` | the numeric typemaps as operators, with the widths as parameters | `NumberMapsProofs` |
| `Conversions` | arguments and results of calls, overloads, memory of strings and buffers | `ConversionsProofs` |
| `Iterators` | iterators, their containers and elements, and the collector | `IteratorsProofs` |

`MCObjectWrap`, `MCObjectWrapBuilds`, `MCAsyncLocking`, `MCAsyncLockingModes`, `MCSmartPtr`,
`MCClassRegistry` and `MCConversions` are instances for TLC; `Iterators` and `JSMainThread` need none.
The operators commented "Mutant of ..." are plausible mistakes in the operator that follows them.
They are no part of any specification; they show that the properties notice such mistakes.

How they compose: `ObjectWrap` and `SmartPtr` extend `ObjectStore` and use its operators where
the code calls the store; `ObjectWrap` is shown to implement `ProxyIdentity`, `JSMainThread` to
implement `JobQueue`; `SmartPtr` uses the actions of `JobQueue` where the code calls
`RunOnJSMainThread`, so that what is proved of the queue is what `SmartPtr` relies on.
`Conversions` extends `NumberMaps`. `MCObjectWrapBuilds` and `MCAsyncLockingModes` join two instances
of a specification, one for each value of a build option, in one state space.
`AsyncLocking` and `Conversions` divide a call between them: locks are in the one, values in the other.
The wrapper that a call returns is `ObjectWrap`'s; the table at which a class is checked is
`ClassRegistry`'s.

### ObjectWrap

`status[w]` tells `live` (JavaScript value exists), `collected` (value gone,
destructor pending) and `none` apart; `class`, `self`, `owned` are the template
parameter and the fields of `NoObjectWrap`; `parent` is the property
`NOBIND_PARENT_PROP`; `store` is `_Nobind_object_store`; `ext` is what
`AdjustExternalMemory` was told, in units of `sizeof(CLASS)`. `heap` and
`cppOwned` are the C++ objects and those of them that C++ will free. An address
is shared by an object, its first base class and its first member: `Views`.

| action | code |
|---|---|
| `Construct` | `NoObjectWrap` constructor with JavaScript arguments (noobject.h:537-580) |
| `CallFunction`, `CallMethod` | the synchronous wrappers: the C++ function returns, `ToJS::Get` wraps (noobject.h:255-290, 944-1088) |
| `CallAsync`, `Execute`, `ExecuteThrows`, `OnOK`, `OnError` | `MethodWrapperAsync` and its tasklet (noobject.h:54-122, 319-357) |
| `Deliver` = `New` + `SetupNested` | `ToJS::Get` of objects; `New` is `NewStored` (store hit) or `NewWrapped` |
| `Finalize` (`Finalization` for the choice of what the references read) | `~NoObjectWrap`, or `Finalize(BasicEnv)` with basic finalizers (noobject.h:478-515) |
| `EnvCleanup` | the cleanup hook deleting `EnvInstanceData` (nobind.h:52-82) |
| `Drop`, `Collect`, `CppCreate`, `CppDestroy` | the environment: program, collector, C++ code |

Choices worth knowing:

* Persistent references of tasklets (`this_ref`, `args_`) are the roots `Pinned`.
* When a destructor runs, what its own weak reference reads, and whether the
  references of other dying wrappers have already been emptied, is the
  collector's business: without basic finalizers all of them are empty, with
  basic finalizers both outcomes are allowed. Without basic finalizers anything
  may happen between collection and destructor; with them no JavaScript runs
  in between (`JSCanRun`).
* A wrapper identifier is reused only after no store entry mentions it, so that
  an old weak reference never comes to denote a new JavaScript object.
* `refers[w]` is a history variable: the object `w` was created for still
  exists. It tells an object from a later one at the same address.
* `DefineProperty` in `SetupNested` makes the parent permanent: a second, different
  parent throws, after the wrapper was put in the store.
* `CppDestroy` is the discipline README.md asks of the C++ side: a
  reference handed to JavaScript must outlive its proxies. It may free an object
  whose *collected* wrapper still awaits its destructor.
* A method is called only on wrappers whose object exists (`refers`): calling
  one on a freed object is undefined behaviour in the C++ code.
* The cleanup hook runs with no asynchronous call pending.

### AsyncLocking

A call is `Invoke`d (its `FromJS` constructors run: phase `converting`), may fail
there, and goes either to `workQueue` (`Queue`) or straight to locking
(`StartSync`). A thread in phase `locking` has constructed `run.guard - 1` guards
and locked `run.elem` objects of the current one: `Lock` is one `async_lock.lock()`
and `GuardConstructed` the return of the `FromJSLockGuard` constructor. `Call`
and `Return` bracket the C++ function, `Unlock` destroys one guard. `FinishSync`
returns to JavaScript, `FinishAsync` posts to the event loop, which runs
`Complete` and `Deliver` (`OnOK`/`OnError`). `ThrowOnContention` is
`NOBIND_THROW_ON_EVENT_LOOP_BLOCK`; warning and blocking take the same locks.
`Guards(c)` is the order in which guards are constructed: `this`, then the elements of the
tuple, whose order the C++ standard leaves to the library (`LastFirst`; libstdc++
constructs the last element first). Lock order within an array is array order.
`Converted` and `Copied` name the objects that the JavaScript thread reads outside the
locks: elements of a `std::map` (nostl.h:86-121) and the result of `ReturnCopy`
(noobject.h:944-960).

### JSMainThread

The steps of a background thread in `RunOnJSMainThread` are separate actions, because the
environment may end between any two of them:

| action | code (nohelpers.h) |
|---|---|
| `Skip`, `CheckInstanceData` | `GetInstanceData` returns null, or not (48-56) |
| `LockQueue`, `Emplace`, `Send`, `UnlockQueue` | 63-66 |
| `Crash` | one of these uses the instance data or the handle after they were deleted |
| `RunDirectly` | the call is made on the JavaScript thread (57-59) |
| `Wake` | libuv sees the signal and calls `RunMainThreadQueue` (16) |
| `EnterQueue`, `RunFront`, `Pop`, `LeaveQueue` | its lock, its loop, its return (20-25) |
| `CleanupHook`, `CloseCallback` | `uv_close` and its callback (nobind.h:57-76) |
| `DestroyInstance` | the environment deletes its instance data |

`pending` is one bit: `uv_async_send` coalesces. The handle is unreferenced (`uv_unref`), so nothing
makes the environment wait for the queue, and `CleanupHook` needs only that the event
loop is between callbacks. A job does not itself call `RunOnJSMainThread` (the
only jobs there are delete a reference). `ran` is a history variable.

What the environment leaves in the queue when it ends is abandoned: `JobQueue` says so (`End`), and
`Crash` is possible only for a thread that read the instance data before the environment
ended. Nothing in the code excludes it (section 4), and
`KeepsPromise`, which is about the jobs, does not see it.

### SmartPtr

A control block is named by what it deletes: the block of `make_shared` by its object, a block made
by `FromJS` by a member of `Blocks`. `cpp` is the set of blocks that C++ code has copies
of; `finalizer[w]` the copy in `finalizer_`; `target[b]` the object a `FromJS` block points to;
`pins[b]` the wrapper its persistent reference keeps. The number of copies does not
matter, only whether there are any: `InUse`.

| action | code |
|---|---|
| `Construct` | `NoObjectWrap` constructor (noobject.h:537-580) |
| `MakeShared` | C++ code |
| `ReturnPointer`, `ReturnReference` | `ToJS<shared_ptr>::Get` without and with `ReturnShared` (nosmartptr.h:70-87), `ToJS<T &>` |
| `New` = `NewStored` or `Wrap` and `Put` | `NoObjectWrap::New` with a finalizer (noobject.h:589-615) |
| `Take` | `FromJS<shared_ptr>` (nosmartptr.h:24-42) |
| `CppDrop`, and `Release` for the last copy | `~shared_ptr`, and the deleter (nosmartptr.h:31-41) |
| `RunJob` | the job, `delete persistent` |
| `Collect`, `Finalize` with `Destroy` | the collector, `~NoObjectWrap` (noobject.h:485-515) |
| `EnvCleanup`, `EnvDestroy` | the two stages of teardown |

`CppDrop` destroys any copy at any time: those that the program keeps, and those of the `FromJS`
objects, whose destructors run at the end of the call (nosmartptr.h:18). An object that JavaScript
has by reference is `Lent`: its wrapper does not own it, so what C++ gives up may take the object
away. The properties of the run `shared` except these objects, and say exactly which wrappers and
control blocks may then dangle; `SharedPtrsProtect` (run `shared_lost`) has no exception. Left
out: the memory reported to the collector (with a custom finalizer it is never taken back, so
`ext` would grow without bound), empty pointers, basic finalizers and the reuse of addresses (both
are in `ObjectWrap`). Each of `Blocks` and each address is used once.

### ClassRegistry

`program` is the module initialization, a sequence of class definitions chosen at the start and the
same in every environment. `declared`, `classIdx` and `cons` are static; `nextIdx`, `table`,
`proto`, `exports`, `types` and `maps` belong to an environment. `phase` cuts the initialization at
the points where another thread's can intervene between classes: before a class is declared and
before it is defined.

| action | code |
|---|---|
| `Load` | `require()`: `NOBIND_MODULE` makes instance data and a `Module` (nobind.h) |
| `Declare` | `Module::decl`, `Module::def` and the constructor of `ClassDefinition` |
| `Define` | `~ClassDefinition`: `GetClass`, `Configure`, the table, exports, prototype and text |
| `BaseMissing` | the same, when the base class is not exported yet: it throws after registering, and `~Module` still runs |
| `Abort` | the assertion of `Configure` |
| `Finish`, `Exit` | `~Module`; the end of the environment |

`Inputs` and `FromTSTypes` are two readings of one C++ signature, by the wrappers and by the
generator: `TypesMatchRuntime` says that they agree. `~ClassDefinition` is one step: that two
threads write one static word at the same moment is a data race, which the model does not show,
although both write the same value. `WellFormed` programs define no class twice and declare what
their signatures mention, and the properties are about these. Of the programs of `registry`, `Twice`
is not well-formed and must abort, and `WrongOrder` is but defines a base after the class that
inherits from it and never becomes ready.

### NumberMaps and Conversions

A C++ type of w bits is given by its number of values (`Mod16`, `Mod32`, `Mod64`), so that TLC can
check all numbers of small types and TLAPS all widths. A JavaScript number counts halves, or is
`NaN`: fractions are there to be truncated. `Carrier` is the typemap table; `Held` are the values
that both the type and its carrier can hold (`long` is 64 bits wide and travels in 32). On the way back
a number is a double: `ToDouble` rounds what is beyond `Significand` (2^53) to a multiple of one of
`Units` (the powers of two), to the even one of two that are equally near. `Exact` are the values
that are not rounded, and `Precise` is how far off the others may be. `float` is left out.

A call of `Conversions` goes through `Invoke`, `Convert` or `Refuse` (per constructor that is
tried), `Start`, `Return` or `Throw`, `Deliver` or `Fail`, and `Answer`; synchronous calls occupy
the JavaScript thread from one end to the other (`Busy`), asynchronous ones only at their ends.
`args[c]` are the `FromJS` objects: a number, a piece of memory the destructor deletes, and the
object that a persistent reference pins. `Cells` are the places memory can be allocated at, and can
be reused; `fault` is set when one is deleted twice. `Moves` says how often the objects are moved
before the call: a `FromJSChar` copies its pointer when moved, so that memory is gone after the
first move. `Drop` is the program between calls; `Collect` is the collector, which may run at any
time.

Conversion of all arguments is one step, because it runs on the JavaScript thread without
interruption and the `FromJS` objects are not visible elsewhere before it ends. Results that are
objects are `ObjectWrap`'s; strings are copies without an identity.

### Iterators

`phase` tells an object that is `alive` in JavaScript from one that is `collected` (the C++ object
still exists) and one that is `gone`. A nested iterator pins its container until its destructor has
run (`Pinned`); an element that it returned refers to the container (`parent`). `MakeJSIterator`,
`NextNested`, `NextCopy` and `Destroy` are noiterator.h:14-80 and `~JSIterator`; containers grow
(`Push`) up to `MaxLength`. `NextCopy` requires that the program still has the container: nothing
else keeps it, and reading a collected one is undefined.

## 3. Runs

| run | question | instance |
|---|---|---|
| `wrappers` | one proxy and one owner per object, a store that finds and is sound, when base or member views outlive their object | 3 wrappers, 2 addresses, 2 classes, both finalizer modes, `SharedViews` |
| `async` | nothing dangling, leaked or misreported with a call in flight; `ProxyIdentity` implemented; everything freed after the store is gone (liveness) | 2 wrappers, 2 addresses, 1 call, late destructors |
| `locking` | no reentrance, race or deadlock; exact locks; every call settles (liveness) | 2 objects, 2 pool threads, three programs of 4 calls: one waits for mutexes, one throws, one reads without locks |
| `jobs` | no lost wakeup, `JobQueue` implemented, every job run (liveness) | 3 jobs, 2 background threads |
| `shared` | life, deleters and references of shared objects, lent ones among them | 3 wrappers, 2 objects in 2 classes, 2 `FromJS` blocks, a C++ side that may give up anything |
| `registry` | static data and every environment's tables agree; checks are right; text matches behaviour | 3 environments, 4 programs of 2 or 3 classes |
| `calls` | memory, arguments, overloads and numbers | 2 calls, 2 buffers, 1 object, 2 cells, widths of 2, 3 and 6 bits, doubles of 3 |
| `iterators` | containers outlive their nested iterators and elements, and are freed (liveness) | 2 containers, 2 iterators, 2 elements each |
| `tuple_order`, `unlocked_read`, `shared_lost`, `char_argument` | *violated*, see findings | |

**Why the bounds are enough.** Every wrapper hazard concerns an address, the wrapper whose
destructor is pending, the wrapper that replaced it, and one bystander: three wrappers, two
addresses. Two classes, one a view of the other at the same address, make keys collide. One
asynchronous call suffices because synchronous calls are made while it is in flight, on its `this`
and on its result; two slots were checked once for the inductive invariant. A deadlock needs two
objects and two threads; the third thread is the event loop; four calls are more than the pool's
two threads, so calls queue. In the third program of `locking`, `record` reads `a` on the
JavaScript thread before its locks and `clone` reads `b` after them, while a getter and a setter
use both objects and the other of the two runs in the background. Three jobs on two threads are
enough for two jobs to share a signal and for a job to be added while the queue is being emptied.
For shared objects, a cycle through a finalizer and a reference needs one wrapper and one block, a
longer one two of each; a third wrapper is the one whose destructor is pending. A second object
makes that references and `shared_ptr`s of different objects live side by side. The registry's
hazards are of one environment that initializes while a second runs and a third starts over; three
classes make a chain of bases. Two calls compete for two cells, so that memory is reused while a
stale pointer is still around; lists of at most two values are one more than the shortest
signature that differs in its second parameter. The numbers are on both sides of each boundary of
the small types, with a fraction, and NaN; the results are those of 64 bits that lie on a double,
between two, and in the middle of two with the even one on either side. Two iterators over two
containers are enough for one of each kind on the same container and for one container to be
pinned by somebody else's iterator.

There are no counters to cap: `ext` is bounded by the number of wrappers. The bounds in the modules
are `Slots`, `Blocks`, `Cells`, `Lists` and `MaxLength`. Symmetry is used in `wrappers` and `calls`
only, which check no liveness.

**Deadlock checking is off** because a program may legitimately stop: all calls settled, the
environment gone, the process aborted, all objects collected, all jobs run. What could be stuck is
stated as `NoDeadlock`, `EveryCallSettles`, `EveryJobRuns`, `ContainerIsFreed` and `AllFreedAtExit`.

**Fairness.** `ObjectWrap!FairSpec`: weak fairness of the finalization of each wrapper
only - Node.js drains pending finalizers from its event loop and runs all
finalizers when the environment ends; nothing is assumed of the program, the C++
code or of when a collection happens. `AsyncLocking!FairSpec`: weak fairness of
every thread and of the event loop. Weak fairness is enough although a mutex is not
fair, because each call is made once: a waiting thread is overtaken finitely often. A called
function is assumed to return. `JSMainThread!FairSpec`: weak fairness of each background
thread once it is inside `RunOnJSMainThread`, and of the event loop; nobody has to hand over a job or
to end the environment. Here too each job is handed over once, so weak fairness of the lock suffices.
`Iterators!FairSpec`: what stays unreachable is collected some day and its destructor runs; nothing is
assumed of the program. `ContainerIsFreed` would be wrong if a reference could be released only by a
destructor that itself waits for the container.

## 4. Findings

* `tuple_order` (`NoDeadlock`): `a.method(b)` and `function(a, b)` deadlock with libstdc++ although
  both follow the README's advice to reference objects in the same order. (What order is enough is
  `OrderPreventsDeadlock`, section 5.)
* `unlocked_read` (`NoDataRace`): `FromJSMap` reads its elements before they are locked, and a
  `ReturnCopy` result of an asynchronous call is copied in `OnOK`, after its locks were released.
  One program has both; TLC reports the first that it meets.
* `shared_lost` (`SharedPtrsProtect`): an object is returned by reference, and then either returned as
  a `shared_ptr` - the second return finds the first wrapper in the store and drops the copy it was
  to keep - or passed back as one: `FromJS` makes a second control block, which pins a wrapper that
  does not own the object. Either way the object is freed when C++ destroys the `shared_ptr` it began
  with, under the wrapper or under the other `shared_ptr`, contrary to the README's account of smart
  pointers. TLC reports the first that it meets. `ProxiesPoint` and `SharedPtrsPoint` (section 5) show
  that only objects which JavaScript has by reference are concerned.
* `char_argument` (`StateLastsForTheCall`): `FromJSChar` has a destructor that deletes its memory
  and a defaulted move constructor that copies the pointer. Moving it into the tuple of arguments
  leaves the function with memory that is already deleted, and that the tuple deletes again. A
  setter has no tuple and deletes once, but the variable keeps the pointer.

Two limits that no run shows. When C++ returns a base or member of an object without its parent
(`SharedViews`), the wrapper of the view can outlive the object; `New` then finds it for a *new*
object at the same address (noobject.h:594), so that the new object has no owner.
noobjectstore.h:47-58 describes the scenario for wrappers that have been collected and solves it in
`Put()`, which `New` does not reach on a store hit. `async` and the theorems about memory therefore
exclude `SharedViews`; `wrappers` includes it.

And the environment can end between the moment a background thread finds its instance data and the
moment it uses the mutex, the queue or the handle (`Crash`): the handle is unreferenced, so nothing
makes the event loop wait. The comment at nohelpers.h:60-62 expects that "normally" it cannot. What
is queued after the last turn of the loop is never run, and what it would have released is lost.

## 5. Proofs

TLAPS checks every theorem for all values of the constants. The assumptions are the constants' own
(named `ASSUME`s, which TLC evaluates on the runs) and the hypotheses that a theorem states.

**`ObjectWrapProofs`**: `TypeCorrect` (`[]TypeOK`), `Uniqueness` (`[]OneProxyPerObject`),
`Findability` (`[]StoreFindsProxy`) and `Soundness` (`[]StoreIsSound`), for all view relations and
both finalizer modes. None of the last three is inductive: uniqueness holds because `New` looks in
the store and the store finds every living proxy; that survives destructors only because an entry
that is not expired belongs to the living wrapper it names. So `IInv == TypeOK /\ Safe`, where
`Safe` joins `Allocated` (a proxy that refers to an object has an allocated address, so a
constructor never lands on one), `Findable`, `Sound` and `OneProxyPerObject`.

Without `SharedViews` it also proves `NothingDangles` (`[]NoDanglingProxy`), `SingleOwnership`
(`[]SingleOwner`), `NothingLeaks` (`[]NoLeak`) and `Refinement` (`Spec => KeepsIdentity`). The first
three hold together or not at all, by the invariant `Memory`: what is in use is alive and so are its
parents (`Alive`); a set of wrappers closed under parents contains the owners of its objects
(`Rooted`), so the collector, which takes no wrapper that a survivor has for parent, never takes an
owner under its members; an object has one owner (`Owners`); the result of a pending call stays
deliverable, and no two calls have the same new object (`Awaited`); and every object has, or will
get, an owner (`Claimed`). The refinement maps `proxy` to the fields of the held wrappers: a
delivery is `Hand` because the store finds what the program holds (`Findable`) and a new address is
nobody's (`Alive`, `Allocated`); everything else is `Forget`. `ExactReports`
(`[]ExternalMemoryIsExact`) needs only finitely many wrappers.

`SingleOwnershipOfViews` (`[]SingleOwner`) allows `SharedViews` but no asynchronous call (`Slots =
{}`), as in the run `wrappers`. A base or member that outlives its parent breaks almost everything
that `Memory` says, but not that what is wrapped as owned is a new object or a wrapper that the
store still finds (`Rightful`). With both, the theorem is false: a call that is in flight on a
dangling wrapper returns its `this` as an owned pointer, `OnOK` wraps it after an object of another
owner was constructed at that address, and the object has two owners (TLC finds 13 states).

**`AsyncLockingProofs`**: `Locking` (`[]LInv`), `TypeCorrect`, `Ownership` (`[]LocksAreGuarded`),
`MutualExclusion` (`[]NoReentrance`), for both orders of construction. In the throwing mode they
need that every guard is for one object (`OneObjectPerGuard`): a vector that throws half-way
leaves its elements locked. `LocksAreGuarded` alone is not inductive. `Position` says where a
thread in each phase can be among its guards, so that a thread that calls has passed all of them;
`Apart` says that the guards it has passed have no object in common (a `std::mutex` that it holds
would have blocked it), so that destroying one guard gives back no object of another.
`DataRaceFreedom` (`[]NoDataRace`) assumes that an object which one call reads without a lock is
used by no other call that is asynchronous (`ReadsApart`); that the reads of a call do not meet
its own execution on the pool is `OnePlace`: a call is in one queue, or on one thread, and never
twice. `OrderPreventsDeadlock` (`[]NoDeadlock`) assumes that all calls lock in one order that has
no cycle and no endless ascent (`Follows`, `Ends`): of the objects that a set of threads waits
for, the last one has a holder that waits for a later one. `NumbersPreventDeadlock` is the form in
which a programmer can check it: number the objects, and let every call lock them in ascending
order; that numbers do not ascend for ever is the well-foundedness of the naturals.

**`JSMainThreadProofs`**: `TypeCorrect`, `Wakeups` (`[]NoLostWakeup`) and `Refinement` (`Spec =>
KeepsPromise`). The strengthening `IInv` has three parts: `Locks` (who is between which steps and
therefore holds the mutex, and what the queue looks like then), `Fresh` (a job is in one place only:
with a sender, in the queue, or run - this is "at most once") and `Teardown` (the order in which
handle and instance data go). Each step of the code is a step of `JobQueue` or a stutter: `Emplace`
is `Accept`, `RunFront` is `Run`, the first and the last step of the teardown are `End`.

**`SmartPtrProofs`**: `TypeCorrect`, `SingleDeleter`, `Acyclic`, `ReleasesReach`, `ProxiesPoint`
(`[]NoDanglingProxyUnlessLent`) and `SharedPtrsPoint` (`[]NoDanglingSharedPtrUnlessLent`) for any C++
code, whatever it gives up, and `SharedPtrsKeep`: where objects travel as `shared_ptr`s only,
`NoDanglingProxy` and `SharedPtrsProtect` hold without exception.
`IInv` joins `TypeOK`, `Tidy` (a finalizer points to its wrapper's object), `Fresh` (nobody knows a
block that has not been made or whose release is waiting), `References` (a pin is backed by a copy
or by a waiting job), `Deleters` and `NoCycle`. `Founded` is the reason why nothing dangles: every
set of live wrappers of one object contains one that is lent, or that is kept from outside the set.
`ReferencesDeletedOnce` says that the persistent reference of a `FromJS` block is deleted once
(nosmartptr.h:27-31), on whatever thread the last copy is destroyed: no block is twice in the
queue, none that has run is queued again, and it has its reference until then (`Single`). It also
shows that the guard of `JobQueue`'s `Accept`, which takes no job that it has seen, never keeps a
deleter in `SmartPtr` from its step.

**`ClassRegistryProofs`**: `TypeCorrect`, `AssertionHolds` (`[]NoAbort`), `Indexing`
(`[]IndexesAgree`), `Checks` (`[]ChecksAreSound`), `Stability` (`Spec => StableStatics`),
`SameTypes` (`[]SameTypesEverywhere`) and `TypesMatch` (`[]TypesMatchRuntime`). The invariant
relates an environment's table to the prefix of the program that it has come to, and the static
index of a class to its place in the program. The TypeScript text is the hard part: it depends on
which classes have a name in the static data, and other environments give names too. `Published`
says that where an environment describes a class, all the names that its signatures mention have
been given, so that what it appends is a function of the program alone (`TextSettles`); that this
text has as many parameters as the wrapper counts at runtime is a lemma about the operators
(`TextDescribes`).

**`NumberMapsProofs`**: `RoundTrip` (an integer that is held reaches C++ unchanged, an exact one
also comes back unchanged), `PreciseReturn` (one that is not exact comes back with the precision
of a double) and `InRange` (C++ gets a value of its type, whatever JavaScript passes), for all
widths that divide each other, and all significands and units such that every number has one
(`DoublesAssumption`). They rest on lemmas about `%`, which the SMT backend does not have for
variable moduli, and about rounding (`Rounds`, `DoubleOf`).

**`ConversionsProofs`**: `TypeCorrect`, `ObjectsStay` (`[]ArgumentsStay`) and `ExactNumbers`
(`[]NumbersArrive`), by an invariant per call: its values are on the stack or pinned (`Stacked`),
its `FromJS` objects are the conversions of what it was given (`Converted`), and its output is a
value of its type (`Produced`).

`FirstMatchWins` (`[]RunsIffMatches`) compares the wrapper's rule, which takes the values from left to
right and compares two counts, with the meaning of a match: an assignment of the values to the
parameters that take one, in order. Its hypothesis `ConstructorsTakeValues` excludes constructors
with a `Napi::Env` parameter: constructors are found by the number of their parameters
(noobject.h:542, :833), and one that counts the environment among them is not found by the number of
its values. `MemoryHasOneOwner` (`[]BlocksAreOwned`)
holds if only setters take a `char *` (`CharsInSettersOnly`; the finding `char_argument` is what
happens otherwise). `BlocksAreOwned` counts owners of three kinds; the invariant `Owned` names each
owner by its kind and place and says that two places never own the same memory, and that memory
without a place is free.

**`IteratorsProofs`**: `TypeCorrect` and `Outlives` (`[]ContainerOutlives`), by `TypeOK`,
`ContainerOutlives` and `Attached` (an element that has a wrapper refers to its container).

**Model-checked only:** `EveryCallSettles`, `AllFreedAtExit`, `EveryJobRuns` and `ContainerIsFreed`,
as all liveness (TLAPS here has neither `ENABLED` nor fairness). Every other property of a passing
run has a theorem; the hypotheses that some of them have are listed above and hold in the runs'
instances.

## 6. Not modelled, and the plan

* `ToJS` of vectors and maps: what remains of an array when an element's conversion throws.
* `char *` and `std::string` results, `ReturnNullAccept`/`ReturnNullThrow`, empty `shared_ptr`s.
* The memory reported for wrappers with a custom finalizer (noobject.h:603), which is never taken
  back and would be unbounded; the end of an environment whose wrappers C++ still pins.
* Return types, interfaces and custom fragments of the TypeScript text; its layout.
* Arguments that name the same object twice: a `std::mutex` is not recursive and the call blocks on
  itself, so no run issues one. A vector that throws half-way (only in the debugging mode) leaves
  its elements locked; the README documents that mode as leaving objects inconsistent, so the
  throwing program has single-object arguments.
* Debug output, template machinery, build files, tests and benchmarks: no state that anything reads.
  `src/bench/swig_wrap.cxx` is generated by SWIG, for comparison.

What is worth doing next, in this order: the results of containers in `Conversions`, with
conversions that fail half-way; null results; the composition of `Conversions` with
`AsyncLocking`, so that the values that are read without a lock are those that the typemaps read.
