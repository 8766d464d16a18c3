------------------------------ MODULE SmartPtr ------------------------------
(***************************************************************************)
(* std::shared_ptr in both directions: the typemaps of                     *)
(* src/include/nosmartptr.h, the custom finalizers of noobject.h that they *)
(* register, and the jobs by which a deleter releases its persistent       *)
(* reference on the JavaScript thread (nohelpers.h, here as JobQueue).     *)
(*                                                                         *)
(* C++ -> JavaScript: the wrapper keeps a copy of the shared_ptr in its    *)
(* finalizer.  JavaScript -> C++: a second shared_ptr is made for the same *)
(* object, whose deleter keeps the wrapper from being collected.  An       *)
(* object that travels both ways is held through both at once.             *)
(*                                                                         *)
(* A control block is the block of an object that C++ made with            *)
(* make_shared, named as that object, or one of the Blocks made by FromJS. *)
(* Each object and each of the Blocks is used once: the reuse of addresses *)
(* is ObjectWrap's subject, and so are the memory reported to the          *)
(* collector and basic finalizers.  Here the destructor of a wrapper runs  *)
(* at any time after its collection.                                       *)
(***************************************************************************)
EXTENDS ObjectStore, Sequences

CONSTANTS
  Blocks,   \* the control blocks that FromJS may make
  Kinds     \* how C++ returns objects: as a "pointer" (std::shared_ptr) or as
            \* a "reference" (T &, or std::shared_ptr with ReturnShared)

ASSUME BlocksAssumption == Blocks \cap (Ptrs \cup {None}) = {}
ASSUME KindsAssumption == Kinds \subseteq {"pointer", "reference"}

VARIABLES
  heap,      \* heap[p]: "unused", "exists" or "freed"
  cpp,       \* the control blocks that C++ code has copies of
  target,    \* target[b]: the object a block made by FromJS points to
  pins,      \* pins[b]: the wrapper its persistent reference keeps, or None
  store,     \* the object store of the environment
  status,    \* of a wrapper: "none", "live" or "collected"
  class,     \* the CLASS of the wrapper
  self,      \* the C++ object it points to
  owned,     \* whether its destructor frees that object
  finalizer, \* the control block that finalizer_ has a copy of, or None
  promised,  \* history: C++ has returned it as a shared_ptr
  held,      \* the wrappers the JavaScript program can name
  waiting,   \* the jobs for the JavaScript thread: the release of a block
  done,      \* the jobs it has run
  mode       \* of the environment: "serving", "ending" or "ended"

wrapper == <<status, class, self, owned, finalizer>>
blocks  == <<target, pins>>
queue   == <<waiting, done, mode>>
vars    == <<heap, cpp, target, pins, store, status, class, self, owned,
             finalizer, promised, held, waiting, done, mode>>

Jobs == INSTANCE JobQueue WITH Jobs <- Blocks

Handles == Ptrs \cup Blocks

Live == {w \in Wrappers : status[w] = "live"}
Expired == Wrappers \ Live
Pinned == {pins[b] : b \in Blocks} \ {None}

\* the object that a shared_ptr of block k points to
Pointee(k) == IF k \in Ptrs THEN k ELSE target[k]

\* the wrappers whose finalizer has a copy of a shared_ptr of block k
Finalizing(k) == {w \in Wrappers : status[w] # "none" /\ finalizer[w] = k}

InUse(k) == k \in cpp \/ Finalizing(k) # {}

Unused(w) ==
  status[w] = "none" /\ \A c \in Classes, p \in Ptrs : store[c][p] # w

Init ==
  /\ heap = [p \in Ptrs |-> "unused"]
  /\ cpp = {}
  /\ target = [b \in Blocks |-> None]
  /\ pins = [b \in Blocks |-> None]
  /\ store = EmptyStore
  /\ status = [w \in Wrappers |-> "none"]
  /\ class = [w \in Wrappers |-> None]
  /\ self = [w \in Wrappers |-> None]
  /\ owned = [w \in Wrappers |-> FALSE]
  /\ finalizer = [w \in Wrappers |-> None]
  /\ promised = [w \in Wrappers |-> FALSE]
  /\ held = {}
  /\ Jobs!Init

(***************************************************************************)
(* The last copy of a shared_ptr.                                          *)
(***************************************************************************)
\* Mutant of Release: a deleter on a background thread does nothing.
ReleaseOnMainOnly(k, main) ==
  \/ /\ k \in Ptrs
     /\ heap' = [heap EXCEPT ![k] = "freed"]
     /\ UNCHANGED <<blocks, queue>>
  \/ /\ k \in Blocks
     /\ pins' = IF main THEN [pins EXCEPT ![k] = None] ELSE pins
     /\ UNCHANGED <<heap, target, queue>>

\* Nobody has a copy of k any more.  The block of make_shared deletes its
\* object.  The deleter of a block made by FromJS hands the release of its
\* persistent reference to the JavaScript thread, which does it at once when
\* it is the one to run the deleter; once the environment is gone it is
\* skipped.
Release(k, main) ==
  \/ /\ k \in Ptrs
     /\ heap' = [heap EXCEPT ![k] = "freed"]
     /\ UNCHANGED <<blocks, queue>>
  \/ /\ k \in Blocks
     /\ mode # "ended"
     /\ main
     /\ pins' = [pins EXCEPT ![k] = None]
     /\ UNCHANGED <<heap, target, queue>>
  \/ /\ k \in Blocks
     /\ mode # "ended"
     /\ ~main
     /\ Jobs!Accept(k)
     /\ UNCHANGED <<heap, blocks>>
  \/ /\ k \in Blocks
     /\ mode = "ended"
     /\ UNCHANGED <<heap, blocks, queue>>

(***************************************************************************)
(* Wrapping.                                                               *)
(***************************************************************************)
\* Mutant of Wrap: the pointer is left uninitialized.
WrapWithoutSelf(w, c, p, own, k) ==
  /\ Unused(w)
  /\ status' = [status EXCEPT ![w] = "live"]
  /\ class' = [class EXCEPT ![w] = c]
  /\ owned' = [owned EXCEPT ![w] = own]
  /\ finalizer' = [finalizer EXCEPT ![w] = k]
  /\ UNCHANGED self

\* Mutant of Wrap: the finalizer is not registered.
WrapWithoutFinalizer(w, c, p, own, k) ==
  /\ Unused(w)
  /\ status' = [status EXCEPT ![w] = "live"]
  /\ class' = [class EXCEPT ![w] = c]
  /\ self' = [self EXCEPT ![w] = p]
  /\ owned' = [owned EXCEPT ![w] = own]
  /\ UNCHANGED finalizer

Wrap(w, c, p, own, k) ==
  /\ Unused(w)
  /\ status' = [status EXCEPT ![w] = "live"]
  /\ class' = [class EXCEPT ![w] = c]
  /\ self' = [self EXCEPT ![w] = p]
  /\ owned' = [owned EXCEPT ![w] = own]
  /\ finalizer' = [finalizer EXCEPT ![w] = k]

\* Mutant of NewStored: the stored wrapper is given the finalizer.
NewStoredOwner(w, c, p, k) ==
  /\ w = Lookup(store, Expired, c, p)
  /\ w # None
  /\ finalizer' = [finalizer EXCEPT ![w] = k]
  /\ UNCHANGED <<status, class, self, owned, store>>

\* New<OWNED>(env, obj, finalizer) on a store hit: the finalizer, and with it
\* the copy of the shared_ptr, is dropped
NewStored(w, c, p, k) ==
  /\ w = Lookup(store, Expired, c, p)
  /\ w # None
  /\ UNCHANGED <<wrapper, store>>

New(w, c, p, own, k) ==
  \/ NewStored(w, c, p, k)
  \/ /\ Lookup(store, Expired, c, p) = None
     /\ Wrap(w, c, p, own, k)
     /\ store' = Put(Swept(store, Expired, c, p), c, p, w)

(***************************************************************************)
(* JavaScript and the C++ functions it calls.                              *)
(***************************************************************************)
\* `new Class(...)`, and a ReturnCopy result: JavaScript owns the object
Construct(w, c, p) ==
  /\ mode = "serving"
  /\ heap[p] = "unused"
  /\ heap' = [heap EXCEPT ![p] = "exists"]
  /\ Wrap(w, c, p, TRUE, None)
  /\ store' = Put(store, c, p, w)
  /\ held' = held \cup {w}
  /\ UNCHANGED <<cpp, blocks, promised, queue>>

\* C++ code makes an object with std::make_shared
MakeShared(p) ==
  /\ mode = "serving"
  /\ heap[p] = "unused"
  /\ heap' = [heap EXCEPT ![p] = "exists"]
  /\ cpp' = cpp \cup {p}
  /\ UNCHANGED <<blocks, store, wrapper, promised, held, queue>>

\* a C++ function returns a shared_ptr of k, as any of the classes that have
\* the object's address
ReturnPointer(w, c, k) ==
  /\ mode = "serving"
  /\ "pointer" \in Kinds
  /\ k \in cpp
  /\ New(w, c, Pointee(k), TRUE, k)
  /\ promised' = [promised EXCEPT ![w] = TRUE]
  /\ held' = held \cup {w}
  /\ UNCHANGED <<heap, cpp, blocks, queue>>

\* a C++ function returns a reference to the object that k points to
ReturnReference(w, c, k) ==
  /\ mode = "serving"
  /\ "reference" \in Kinds
  /\ k \in cpp
  /\ New(w, c, Pointee(k), FALSE, None)
  /\ held' = held \cup {w}
  /\ UNCHANGED <<heap, cpp, blocks, promised, queue>>

\* Mutant of Take: the persistent reference is not made.
TakeWithoutReference(w, b) ==
  /\ mode = "serving"
  /\ w \in held
  /\ target[b] = None
  /\ target' = [target EXCEPT ![b] = self[w]]
  /\ cpp' = cpp \cup {b}
  /\ UNCHANGED <<heap, pins, store, wrapper, promised, held, queue>>

\* JavaScript passes w as a shared_ptr: FromJS makes the block b, and the
\* function may keep a copy
Take(w, b) ==
  /\ mode = "serving"
  /\ w \in held
  /\ target[b] = None
  /\ target' = [target EXCEPT ![b] = self[w]]
  /\ pins' = [pins EXCEPT ![b] = w]
  /\ cpp' = cpp \cup {b}
  /\ UNCHANGED <<heap, store, wrapper, promised, held, queue>>

\* C++ destroys its last copy of k, on the JavaScript thread or on another one:
\* that of the program, or that of a FromJS object at the end of the call.
CppDrop(k, main) ==
  /\ k \in cpp
  /\ cpp' = cpp \ {k}
  /\ \/ Finalizing(k) # {} /\ UNCHANGED <<heap, blocks, queue>>
     \/ Finalizing(k) = {} /\ Release(k, main)
  /\ UNCHANGED <<store, wrapper, promised, held>>

\* the event loop runs the oldest job: delete persistent
RunJob ==
  /\ Jobs!Run
  /\ pins' = [pins EXCEPT ![Head(waiting)] = None]
  /\ UNCHANGED <<heap, cpp, target, store, wrapper, promised, held>>

Drop(w) ==
  /\ mode = "serving"
  /\ w \in held
  /\ held' = held \ {w}
  /\ UNCHANGED <<heap, cpp, blocks, store, wrapper, promised, queue>>

(***************************************************************************)
(* The garbage collector and the end of the environment.                   *)
(***************************************************************************)
Collect(w) ==
  /\ mode = "serving"
  /\ w \in Live \ (held \cup Pinned)
  /\ status' = [status EXCEPT ![w] = "collected"]
  /\ UNCHANGED <<heap, cpp, blocks, store, class, self, owned, finalizer,
                 promised, held, queue>>

\* Mutant of Destroy: the custom finalizer is not destroyed.
DestroyNoFinalizer(w) ==
  IF finalizer[w] = None /\ owned[w]
    THEN heap' = [heap EXCEPT ![self[w]] = "freed"] /\ UNCHANGED <<blocks, queue>>
    ELSE UNCHANGED <<heap, blocks, queue>>

\* what the destructor of w does to its object: a custom finalizer takes the
\* place of delete, and its copy of the shared_ptr goes with it
Destroy(w) ==
  LET k == finalizer[w] IN
  CASE k # None /\ k \notin cpp /\ Finalizing(k) = {w} -> Release(k, TRUE)
    [] k = None /\ owned[w] ->
         /\ heap' = [heap EXCEPT ![self[w]] = "freed"]
         /\ UNCHANGED <<blocks, queue>>
    [] OTHER -> UNCHANGED <<heap, blocks, queue>>

\* ~NoObjectWrap: at some time after the collection, or when the environment
\* ends, be the wrapper reachable or not
Finalize(w) ==
  /\ status[w] = "collected" \/ (mode = "ending" /\ status[w] = "live")
  /\ store' = IF mode = "serving"
                THEN Expire(store, Expired, class[w], self[w], None)
                ELSE store
  /\ Destroy(w)
  /\ status' = [status EXCEPT ![w] = "none"]
  /\ class' = [class EXCEPT ![w] = None]
  /\ self' = [self EXCEPT ![w] = None]
  /\ owned' = [owned EXCEPT ![w] = FALSE]
  /\ finalizer' = [finalizer EXCEPT ![w] = None]
  /\ promised' = [promised EXCEPT ![w] = FALSE]
  /\ UNCHANGED <<cpp, held>>

\* the cleanup hook deletes the store and closes the queue; the instance data
\* goes after the last wrapper
EnvCleanup ==
  /\ mode = "serving"
  /\ Jobs!End
  /\ store' = EmptyStore
  /\ held' = {}
  /\ UNCHANGED <<heap, cpp, blocks, wrapper, promised>>

EnvDestroy ==
  /\ mode = "ending"
  /\ \A w \in Wrappers : status[w] = "none"
  /\ Jobs!End
  /\ UNCHANGED <<heap, cpp, blocks, store, wrapper, promised, held>>

Next ==
  \/ \E w \in Wrappers, c \in Classes, p \in Ptrs : Construct(w, c, p)
  \/ \E p \in Ptrs : MakeShared(p)
  \/ \E w \in Wrappers, c \in Classes, k \in Handles :
       ReturnPointer(w, c, k) \/ ReturnReference(w, c, k)
  \/ \E w \in Wrappers, b \in Blocks : Take(w, b)
  \/ \E k \in Handles, main \in BOOLEAN : CppDrop(k, main)
  \/ RunJob
  \/ \E w \in Wrappers : Drop(w) \/ Collect(w) \/ Finalize(w)
  \/ EnvCleanup
  \/ EnvDestroy

Spec == Init /\ [][Next]_vars

-----------------------------------------------------------------------------
(***************************************************************************)
(* Properties.                                                             *)
(***************************************************************************)
\* Every variable has its type, and a wrapper that exists points to an object.
TypeOK ==
  /\ heap \in [Ptrs -> {"unused", "exists", "freed"}]
  /\ cpp \subseteq Handles
  /\ target \in [Blocks -> Ptrs \cup {None}]
  /\ pins \in [Blocks -> Wrappers \cup {None}]
  /\ store \in Stores
  /\ status \in [Wrappers -> {"none", "live", "collected"}]
  /\ class \in [Wrappers -> Classes \cup {None}]
  /\ self \in [Wrappers -> Ptrs \cup {None}]
  /\ owned \in [Wrappers -> BOOLEAN]
  /\ finalizer \in [Wrappers -> Handles \cup {None}]
  /\ promised \in [Wrappers -> BOOLEAN]
  /\ held \subseteq Wrappers
  /\ waiting \in Seq(Blocks)
  /\ done \in Seq(Blocks)
  /\ mode \in {"serving", "ending", "ended"}
  /\ \A w \in Wrappers : status[w] # "none" => self[w] \in Ptrs

\* The object of a wrapper that JavaScript or C++ can still reach exists.
NoDanglingProxy ==
  mode = "serving" =>
    \A w \in held \cup Pinned : w \in Live /\ heap[self[w]] = "exists"

\* "Shared pointers [...] are included in the JavaScript reference counting", and
\* a copy "on the C++ side [...] will prevent the object from being collected until
\* the last pointer on the C++ side is destroyed" (README.md:818): the object exists
\* as long as JavaScript has a wrapper that it received as a shared_ptr, or C++ has
\* a shared_ptr, its own or one that FromJS made.
SharedPtrsProtect ==
  mode = "serving" =>
    /\ \A w \in held : promised[w] => heap[self[w]] = "exists"
    /\ \A k \in cpp : heap[Pointee(k)] = "exists"

\* JavaScript has p by reference: it does not own it
Lent(p) == \E w \in Live : self[w] = p /\ ~owned[w]

\* What holds whatever C++ gives up, and when: a wrapper that can be reached is
\* alive, and its object exists, however many control blocks and wrappers of it
\* do not know of each other.  The one exception is an object that JavaScript has
\* by reference, and of its wrappers only the references themselves and those of
\* shared_ptrs that go back to a reference.
NoDanglingProxyUnlessLent ==
  mode = "serving" =>
    \A w \in held \cup Pinned :
      /\ w \in Live
      /\ \/ heap[self[w]] = "exists"
         \/ Lent(self[w]) /\ (owned[w] => finalizer[w] \in Blocks)

\* And so it is with the shared_ptrs that C++ keeps: the one that dangles was made
\* by FromJS of an object that JavaScript has by reference (nosmartptr.h:31).
NoDanglingSharedPtrUnlessLent ==
  mode = "serving" =>
    \A k \in cpp :
      \/ heap[Pointee(k)] = "exists"
      \/ k \in Blocks /\ Lent(Pointee(k))

\* JavaScript and C++ do not keep an object alive for each other: no wrapper
\* is pinned, through the finalizers of other wrappers, by itself.
NoOwnershipCycle ==
  \A S \in (SUBSET Wrappers) \ {{}} :
    \E w \in S : \A v \in S, b \in Blocks : pins[b] = w => finalizer[v] # b

\* An object that exists has exactly one deleter: a wrapper that owns it, and
\* no finalizer, or the control block of make_shared, of which somebody still
\* has a copy.
OneDeleter ==
  \A p \in Ptrs :
    LET owners == {w \in Wrappers : /\ status[w] # "none"
                                    /\ owned[w]
                                    /\ finalizer[w] = None
                                    /\ self[w] = p}
    IN  /\ heap[p] = "exists" =>
             IF InUse(p) THEN owners = {} ELSE \E w \in owners : owners = {w}
        /\ heap[p] # "exists" => owners = {}

\* A persistent reference is not forgotten: as long as the environment is
\* running somebody has a copy of its shared_ptr, or the job that releases it
\* is waiting, on whatever thread the last copy was destroyed.
NoLostRelease ==
  mode = "serving" =>
    \A b \in Blocks :
      pins[b] # None => InUse(b) \/ \E i \in DOMAIN waiting : waiting[i] = b
=============================================================================
