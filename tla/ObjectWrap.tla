----------------------------- MODULE ObjectWrap -----------------------------
(***************************************************************************)
(* The life of the JavaScript wrappers of C++ objects: NoObjectWrap of     *)
(* src/include/noobject.h together with the ObjectStore it consults, the   *)
(* ToJS typemaps that return objects to JavaScript, and the environment    *)
(* that owns the store.                                                    *)
(*                                                                         *)
(* Three parties act on the same memory: the JavaScript program (it        *)
(* constructs, calls and drops), the C++ code (it allocates, returns and   *)
(* frees) and the garbage collector, which empties weak references first   *)
(* and runs the destructor of the wrapper either at once, while it is      *)
(* collecting ("basic finalizers"), or at some later time.                 *)
(***************************************************************************)
EXTENDS ObjectStore, Integers, FiniteSets

CONSTANTS
  Slots,            \* asynchronous calls that may be in flight at once
  Views,            \* Views[c]: the classes an object of class c can be
                    \* returned as (itself, a base, its first member): all of
                    \* them have the same address
  BasicFinalizers,  \* NODE_API_EXPERIMENTAL_HAS_POST_FINALIZER
  SharedViews       \* C++ also returns, as ReturnShared, a base or a member
                    \* of an object that JavaScript owns

ASSUME ViewsAssumption ==
  /\ Views \in [Classes -> SUBSET Classes]
  /\ \A c \in Classes : c \in Views[c]
ASSUME FlagsAssumption == BasicFinalizers \in BOOLEAN /\ SharedViews \in BOOLEAN

VARIABLES
  heap,      \* heap[p]: the class of the object living at p, or None
  cppOwned,  \* the objects that only C++ code will free
  store,     \* the object store of the environment
  env,       \* "running", or "exiting" after the cleanup hook
  status,    \* of a wrapper: "none", "live", "collected" (JS value gone,
             \* destructor pending)
  class,     \* the CLASS of the wrapper
  self,      \* the C++ object it points to
  owned,     \* whether its destructor frees that object
  parent,    \* NOBIND_PARENT_PROP: the wrapper it keeps reachable
  refers,    \* history: the object it was created for still exists
  held,      \* the wrappers the JavaScript program can name
  call,      \* the asynchronous calls
  ext        \* external memory reported to the collector, in sizeof(CLASS)

wrapper == <<status, class, self, owned, refers>>
memory  == <<heap, cppOwned>>
vars    == <<heap, cppOwned, store, env, status, class, self, owned, parent,
             refers, held, call, ext>>

(***************************************************************************)
(* State formulae.                                                         *)
(***************************************************************************)
\* what a call hands to JavaScript: the arguments of New<OWNED> and the
\* wrapper that SetupNested attaches
Results == [class : Classes, ptr : Ptrs, own : BOOLEAN,
            parent : Wrappers \cup {None}]

Idle == [phase |-> "idle"]

Calls == {Idle}
  \cup [phase : {"queued", "failed"}, this : Wrappers]
  \cup [phase : {"done"}, this : Wrappers, result : Results]

\* the persistent references held by the FromJS objects of a tasklet
Pinned == {call[s].this : s \in {t \in Slots : call[t].phase # "idle"}}

Live == {w \in Wrappers : status[w] = "live"}
Collected == {w \in Wrappers : status[w] = "collected"}
Expired == Wrappers \ Live

\* the least set that holds the roots and, with a wrapper, its parent
Reachable ==
  {w \in Live : \A S \in SUBSET Live :
     /\ held \cup Pinned \subseteq S
     /\ \A v \in S : parent[v] = None \/ parent[v] \in S
     => w \in S}

\* With basic finalizers the collector runs the destructors itself: no
\* JavaScript runs until all of them have run.
JSCanRun == env = "running" /\ (BasicFinalizers => Collected = {})

\* a JavaScript object that nothing has referred to yet
Unused(w) ==
  status[w] = "none" /\ \A c \in Classes, p \in Ptrs : store[c][p] # w

Init ==
  /\ heap = [p \in Ptrs |-> None]
  /\ cppOwned = {}
  /\ store = EmptyStore
  /\ env = "running"
  /\ status = [w \in Wrappers |-> "none"]
  /\ class = [w \in Wrappers |-> None]
  /\ self = [w \in Wrappers |-> None]
  /\ owned = [w \in Wrappers |-> FALSE]
  /\ parent = [w \in Wrappers |-> None]
  /\ refers = [w \in Wrappers |-> FALSE]
  /\ held = {}
  /\ call = [s \in Slots |-> Idle]
  /\ ext = 0

(***************************************************************************)
(* Wrapping.                                                               *)
(***************************************************************************)
\* Mutant of Wrap: the pointer is left uninitialized.
WrapWithoutSelf(w, c, p, own) ==
  /\ Unused(w)
  /\ status' = [status EXCEPT ![w] = "live"]
  /\ class' = [class EXCEPT ![w] = c]
  /\ owned' = [owned EXCEPT ![w] = own]
  /\ refers' = [refers EXCEPT ![w] = heap'[p] # None]
  /\ UNCHANGED self

\* the fields of a new wrapper of the object of class c at p
Wrap(w, c, p, own) ==
  /\ Unused(w)
  /\ status' = [status EXCEPT ![w] = "live"]
  /\ class' = [class EXCEPT ![w] = c]
  /\ self' = [self EXCEPT ![w] = p]
  /\ owned' = [owned EXCEPT ![w] = own]
  /\ refers' = [refers EXCEPT ![w] = heap'[p] # None]

\* NoObjectWrap::New<OWNED>: the stored wrapper w if there is one, otherwise
\* a new wrapper w that is put in the store.
NewStored(w, c, p) ==
  /\ w = Lookup(store, Expired, c, p)
  /\ w # None
  /\ UNCHANGED <<wrapper, store, ext>>

\* Mutant of NewWrapped: the memory is reported whoever owns it.
NewAlwaysReported(w, c, p, own) ==
  /\ Lookup(store, Expired, c, p) = None
  /\ Wrap(w, c, p, own)
  /\ ext' = ext + 1
  /\ store' = Put(Swept(store, Expired, c, p), c, p, w)

NewWrapped(w, c, p, own) ==
  /\ Lookup(store, Expired, c, p) = None
  /\ Wrap(w, c, p, own)
  /\ ext' = IF own THEN ext + 1 ELSE ext
  /\ store' = Put(Swept(store, Expired, c, p), c, p, w)

\* Mutant of New: the store is not consulted.
NewUnconditional(w, c, p, own) ==
  /\ Wrap(w, c, p, own)
  /\ ext' = IF own THEN ext + 1 ELSE ext
  /\ store' = Put(store, c, p, w)

New(w, c, p, own) == NewStored(w, c, p) \/ NewWrapped(w, c, p, own)

\* Mutant of SetupNested: the parent is not attached.
SetupNothing(w, r) == held' = held \cup {w} /\ UNCHANGED parent

\* SetupNested: DefineProperty makes the property permanent, so attaching
\* the same parent again is accepted and attaching another one throws, in
\* which case JavaScript receives the exception instead of w.
SetupNested(w, r) ==
  \/ /\ r.parent = None
     /\ held' = held \cup {w}
     /\ UNCHANGED parent
  \/ /\ r.parent # None
     /\ parent[w] \in {None, r.parent}
     /\ parent' = [parent EXCEPT ![w] = r.parent]
     /\ held' = held \cup {w}
  \/ /\ r.parent # None
     /\ parent[w] \notin {None, r.parent}
     /\ UNCHANGED <<parent, held>>

\* Mutant of Deliver: the default of ShouldOwn is FALSE.
DeliverShared(w, r) == New(w, r.class, r.ptr, FALSE) /\ SetupNested(w, r)

\* ToJS::Get() on the main thread
Deliver(w, r) == New(w, r.class, r.ptr, r.own) /\ SetupNested(w, r)

(***************************************************************************)
(* What the C++ code may legitimately return.                              *)
(***************************************************************************)
\* a new object, by pointer or by value (which is copied to the heap):
\* JavaScript is to own it
Fresh == {r \in Results : heap[r.ptr] = None /\ r.own /\ r.parent = None}

\* an object that belongs to C++, as a reference, possibly as ReturnNested
Static(parents) ==
  {r \in Results : /\ r.ptr \in cppOwned
                   /\ r.class \in Views[heap[r.ptr]]
                   /\ ~r.own
                   /\ r.parent \in parents}

\* this or an argument, returned as it came: by pointer or by reference
PassThrough(this) ==
  {r \in Results : /\ r.class = class[this]
                   /\ r.ptr = self[this]
                   /\ r.parent = None}

\* a member of this (ReturnNested, the default of a getter)
Member(this) ==
  {r \in Results : /\ r.class \in Views[class[this]] \ {class[this]}
                   /\ r.ptr = self[this]
                   /\ ~r.own
                   /\ r.parent = this}

\* this as its base class or its first member, without a parent
View(this) ==
  {r \in Results : /\ SharedViews
                   /\ r.class \in Views[class[this]] \ {class[this]}
                   /\ r.ptr = self[this]
                   /\ ~r.own
                   /\ r.parent = None}

MethodResults(this) ==
  Fresh \cup Static({None, this}) \cup PassThrough(this) \cup Member(this)
        \cup View(this)

\* the C++ code allocates a new object when it returns one
Allocate(r) == heap' = IF heap[r.ptr] = None
                         THEN [heap EXCEPT ![r.ptr] = r.class] ELSE heap

(***************************************************************************)
(* JavaScript.                                                             *)
(***************************************************************************)
\* `new Class(...)`: the constructor called with JavaScript arguments
Construct(w, c, p) ==
  /\ JSCanRun
  /\ heap[p] = None
  /\ heap' = [heap EXCEPT ![p] = c]
  /\ Wrap(w, c, p, TRUE)
  /\ store' = Put(store, c, p, w)
  /\ ext' = ext + 1
  /\ held' = held \cup {w}
  /\ UNCHANGED <<cppOwned, env, parent, call>>

\* a synchronous call of a global function
CallFunction(w) ==
  /\ JSCanRun
  /\ \E r \in Fresh \cup Static({None}) : Allocate(r) /\ Deliver(w, r)
  /\ UNCHANGED <<cppOwned, env, call>>

\* a synchronous call of a method of this
CallMethod(this, w) ==
  /\ JSCanRun
  /\ this \in held
  /\ refers[this]
  /\ \E r \in MethodResults(this) : Allocate(r) /\ Deliver(w, r)
  /\ UNCHANGED <<cppOwned, env, call>>

\* MethodWrapperAsync: the tasklet takes persistent references and is queued
CallAsync(s, this) ==
  /\ JSCanRun
  /\ call[s].phase = "idle"
  /\ this \in held
  /\ refers[this]
  /\ call' = [call EXCEPT ![s] = [phase |-> "queued", this |-> this]]
  /\ UNCHANGED <<memory, store, env, wrapper, parent, held, ext>>

\* Execute on a background thread, whatever the main thread is doing: the
\* result is computed, and copied to the heap when it is a value
Execute(s) ==
  /\ call[s].phase = "queued"
  /\ \E r \in MethodResults(call[s].this) :
       /\ Allocate(r)
       /\ call' = [call EXCEPT ![s] = [phase |-> "done", this |-> call[s].this,
                                       result |-> r]]
  /\ UNCHANGED <<cppOwned, store, env, wrapper, parent, held, ext>>

\* the C++ code throws: SetError
ExecuteThrows(s) ==
  /\ call[s].phase = "queued"
  /\ call' = [call EXCEPT ![s] = [phase |-> "failed", this |-> call[s].this]]
  /\ UNCHANGED <<memory, store, env, wrapper, parent, held, ext>>

\* OnOK on the main thread: the result is wrapped and the promise settled,
\* then the tasklet is deleted together with its persistent references
OnOK(s, w) ==
  /\ JSCanRun
  /\ call[s].phase = "done"
  /\ UNCHANGED <<memory, env>>
  /\ Deliver(w, call[s].result)
  /\ call' = [call EXCEPT ![s] = Idle]

OnError(s) ==
  /\ JSCanRun
  /\ call[s].phase = "failed"
  /\ call' = [call EXCEPT ![s] = Idle]
  /\ UNCHANGED <<memory, store, env, wrapper, parent, held, ext>>

\* the program loses its last reference to w
Drop(w) ==
  /\ JSCanRun
  /\ w \in held
  /\ held' = held \ {w}
  /\ UNCHANGED <<memory, store, env, wrapper, parent, call, ext>>

(***************************************************************************)
(* C++ objects that JavaScript does not own.                               *)
(***************************************************************************)
CppCreate(p, c) ==
  /\ env = "running"
  /\ heap[p] = None
  /\ heap' = [heap EXCEPT ![p] = c]
  /\ cppOwned' = cppOwned \cup {p}
  /\ UNCHANGED <<store, env, wrapper, parent, held, call, ext>>

\* A reference returned to JavaScript is taken for one to a static object:
\* C++ frees the object only once JavaScript has no value left for it and no
\* call is about to return it.  The wrapper's destructor may still be due.
CppDestroy(p) ==
  /\ p \in cppOwned
  /\ \A w \in Live : self[w] # p
  /\ \A s \in Slots : call[s].phase = "done" => call[s].result.ptr # p
  /\ heap' = [heap EXCEPT ![p] = None]
  /\ cppOwned' = cppOwned \ {p}
  /\ refers' = [w \in Wrappers |-> refers[w] /\ self[w] # p]
  /\ UNCHANGED <<store, env, status, class, self, owned, parent, held, call,
                 ext>>

(***************************************************************************)
(* The garbage collector.                                                  *)
(***************************************************************************)
\* A collection, of everything unreachable or of a part of it: what it takes
\* is not referred to by what it leaves.
Collect(S) ==
  /\ JSCanRun
  /\ S # {}
  /\ S \subseteq Live \ Reachable
  /\ \A w \in Live \ S : parent[w] \notin S
  /\ status' = [w \in Wrappers |-> IF w \in S THEN "collected" ELSE status[w]]
  /\ UNCHANGED <<memory, store, env, class, self, owned, parent, refers, held,
                 call, ext>>

\* Mutant of Free: a destructor that finds no store returns early.
FreeWhileRunning(w) ==
  IF owned[w] /\ env = "running"
    THEN /\ heap' = [heap EXCEPT ![self[w]] = None]
         /\ ext' = ext - 1
         /\ refers' = [v \in Wrappers |-> /\ refers[v]
                                          /\ self[v] # self[w]
                                          /\ v # w]
    ELSE /\ refers' = [refers EXCEPT ![w] = FALSE]
         /\ UNCHANGED <<heap, ext>>

\* an owned object is deleted with its wrapper
Free(w) ==
  IF owned[w]
    THEN /\ heap' = [heap EXCEPT ![self[w]] = None]
         /\ ext' = ext - 1
         /\ refers' = [v \in Wrappers |-> /\ refers[v]
                                          /\ self[v] # self[w]
                                          /\ v # w]
    ELSE /\ refers' = [refers EXCEPT ![w] = FALSE]
         /\ UNCHANGED <<heap, ext>>

\* ~NoObjectWrap or, with basic finalizers, Finalize.  js is what the
\* wrapper's own reference reads; stale is the set of wrappers whose
\* references the collector has not emptied yet.
Finalize(w, js, stale) ==
  /\ status[w] = "collected" \/ (env = "exiting" /\ status[w] = "live")
  /\ js = None \/ (js = w /\ BasicFinalizers)
  /\ stale = {} \/ (stale = Collected /\ BasicFinalizers)
  /\ store' = IF env = "running"
                THEN Expire(store, Expired \ stale, class[w], self[w], js)
                ELSE store
  /\ Free(w)
  /\ status' = [status EXCEPT ![w] = "none"]
  /\ class' = [class EXCEPT ![w] = None]
  /\ self' = [self EXCEPT ![w] = None]
  /\ owned' = [owned EXCEPT ![w] = FALSE]
  /\ parent' = [parent EXCEPT ![w] = None]
  /\ UNCHANGED <<cppOwned, env, held, call>>

\* The cleanup hook deletes the store.  The remaining wrappers are finalized
\* afterwards, reachable or not.
EnvCleanup ==
  /\ JSCanRun
  /\ \A s \in Slots : call[s].phase = "idle"
  /\ env' = "exiting"
  /\ store' = EmptyStore
  /\ held' = {}
  /\ UNCHANGED <<memory, wrapper, parent, call, ext>>

Finalization(w) ==
  \E js \in {None, w}, stale \in {{}, Collected} : Finalize(w, js, stale)

Next ==
  \/ \E w \in Wrappers, c \in Classes, p \in Ptrs : Construct(w, c, p)
  \/ \E w \in Wrappers : CallFunction(w)
  \/ \E this, w \in Wrappers : CallMethod(this, w)
  \/ \E s \in Slots, this \in Wrappers : CallAsync(s, this)
  \/ \E s \in Slots : Execute(s)
  \/ \E s \in Slots : ExecuteThrows(s)
  \/ \E s \in Slots, w \in Wrappers : OnOK(s, w)
  \/ \E s \in Slots : OnError(s)
  \/ \E w \in Wrappers : Drop(w)
  \/ \E p \in Ptrs, c \in Classes : CppCreate(p, c)
  \/ \E p \in Ptrs : CppDestroy(p)
  \/ \E S \in SUBSET Wrappers : Collect(S)
  \/ \E w \in Wrappers : Finalization(w)
  \/ EnvCleanup

Spec == Init /\ [][Next]_vars

\* Node.js runs every pending finalizer from its event loop, and all of them
\* when the environment ends.
FairSpec == Spec /\ \A w \in Wrappers : WF_vars(Finalization(w))
-----------------------------------------------------------------------------
(***************************************************************************)
(* Properties.                                                             *)
(***************************************************************************)
\* Every variable has its type, and a wrapper that is not alive is not held.
TypeOK ==
  /\ heap \in [Ptrs -> Classes \cup {None}]
  /\ cppOwned \subseteq Ptrs
  /\ store \in Stores
  /\ env \in {"running", "exiting"}
  /\ status \in [Wrappers -> {"none", "live", "collected"}]
  /\ class \in [Wrappers -> Classes \cup {None}]
  /\ self \in [Wrappers -> Ptrs \cup {None}]
  /\ owned \in [Wrappers -> BOOLEAN]
  /\ parent \in [Wrappers -> Wrappers \cup {None}]
  /\ refers \in [Wrappers -> BOOLEAN]
  /\ held \subseteq Wrappers
  /\ call \in [Slots -> Calls]
  /\ ext \in Int
  /\ \A w \in Wrappers :
       status[w] # "none" => class[w] \in Classes /\ self[w] \in Ptrs

\* "It ensures that only a single wrapper exists for a single object": two
\* JavaScript values never stand for the same C++ object as the same class.
\* The destructor of a collected wrapper, which may run after the object has
\* been wrapped again, must not make the store forget the newer wrapper.
OneProxyPerObject ==
  \A v, w \in Live :
    refers[v] /\ refers[w] /\ class[v] = class[w] /\ self[v] = self[w] => v = w

\* As long as a wrapper has not been collected, the store returns it for the
\* object it stands for, whatever destructors have run in the meantime.
StoreFindsProxy ==
  env = "running" =>
    \A w \in Live :
      refers[w] => Lookup(store, Expired, class[w], self[w]) = w

\* What the store returns for an address is a wrapper of that class at that
\* address, also after the address and the JavaScript heap have been reused.
StoreIsSound ==
  \A c \in Classes, p \in Ptrs :
    LET w == Lookup(store, Expired, c, p)
    IN  w # None => class[w] = c /\ self[w] = p

\* A JavaScript value that the program or a call in flight can still use
\* stands for an object that exists: nothing frees an object under a
\* reachable wrapper, of itself or of one of its members.
NoDanglingProxy ==
  env = "running" => \A w \in Reachable : refers[w]

\* An object that JavaScript owns is freed once: it has a single owning
\* wrapper, which exists as long as the object, and C++ does not own it too.
SingleOwner ==
  \A v \in Wrappers :
    status[v] # "none" /\ owned[v] =>
      /\ refers[v]
      /\ heap[self[v]] # None
      /\ self[v] \notin cppOwned
      /\ \A w \in Wrappers :
           status[w] # "none" /\ owned[w] /\ self[w] = self[v] => w = v

\* Every object has somebody who will free it: C++, a wrapper that owns it,
\* or a call that is about to create that wrapper.
NoLeak ==
  \A p \in Ptrs :
    heap[p] # None =>
      \/ p \in cppOwned
      \/ \E w \in Wrappers : status[w] # "none" /\ owned[w] /\ self[w] = p
      \/ \E s \in Slots : call[s].phase = "done" /\ call[s].result.ptr = p
                                                 /\ call[s].result.own

\* What is reported to the garbage collector is the memory of the objects
\* that JavaScript owns, also when the store makes New create nothing.
ExternalMemoryIsExact ==
  ext = Cardinality({w \in Wrappers : status[w] # "none" /\ owned[w]})

\* When the environment ends, every object that JavaScript owned is freed,
\* although the store is gone by the time the destructors run.
AllFreedAtExit ==
  env = "exiting" ~> \A p \in Ptrs : heap[p] # None => p \in cppOwned

(***************************************************************************)
(* The JavaScript program's view: the objects that its values stand for.   *)
(***************************************************************************)
NoObject == <<None, None>>

Identity == INSTANCE ProxyIdentity WITH
  Proxies  <- Wrappers,
  Objects  <- Classes \X Ptrs,
  NoObject <- NoObject,
  proxy    <- [w \in Wrappers |-> IF w \in held THEN <<class[w], self[w]>>
                                                ELSE NoObject]

\* The wrappers implement what the README promises of the object store.
KeepsIdentity == Identity!Spec
=============================================================================
