---------------------------- MODULE AsyncLocking ----------------------------
(***************************************************************************)
(* Async locking: the call wrappers of src/include/noobject.h and          *)
(* src/include/nofunction.h, which lock every object a call is given for   *)
(* the duration of the call, on the JavaScript thread for synchronous      *)
(* calls and on a thread of the background pool for asynchronous ones.     *)
(*                                                                         *)
(* Every wrapper object holds one std::mutex (async_lock).  A call locks   *)
(* this first and then its arguments, each through a FromJSLockGuard; the  *)
(* guards of the arguments are the elements of a std::tuple, whose order   *)
(* of construction the language leaves to the library.  An argument is a   *)
(* sequence of objects: one for an object, several for a std::vector or a  *)
(* std::map of objects, which the guard locks one after the other.         *)
(***************************************************************************)
EXTENDS Integers, SequencesExt

CONSTANTS
  Objects,     \* wrapper objects (each has its mutex)
  Calls,       \* the calls the program makes, each of them once
  Async,       \* those that were declared with ReturnAsync
  This,        \* This[c]: <<o>> for a method, getter, setter or extension
               \* of o, << >> for a function or a constructor
  Args,        \* Args[c]: the sequence of the arguments
  Converted,   \* Converted[c]: the objects whose value is read when the
               \* arguments are converted, on the JavaScript thread
  Copied,      \* Copied[c]: the objects whose value is read when the result
               \* is converted, on the JavaScript thread
  LastFirst,   \* the tuple constructs its last element first
  ThrowOnBlock,\* NOBIND_THROW_ON_EVENT_LOOP_BLOCK
  Pool,        \* the threads of the background pool
  Main,        \* the JavaScript thread
  None

ASSUME CallsAssumption ==
  /\ Async \subseteq Calls
  /\ This \in [Calls -> Seq(Objects)]
  /\ Args \in [Calls -> Seq(Seq(Objects))]
  /\ Converted \in [Calls -> SUBSET Objects]
  /\ Copied \in [Calls -> SUBSET Objects]
ASSUME ThreadsAssumption == Main \notin Pool /\ None \notin Pool \cup {Main}
ASSUME ModesAssumption == LastFirst \in BOOLEAN /\ ThrowOnBlock \in BOOLEAN

Threads == Pool \cup {Main}

VARIABLES
  lock,      \* lock[o]: the thread that holds the mutex of o, or None
  run,       \* run[t]: what thread t is executing
  issued,    \* the calls made so far
  workQueue, \* the queue of the background pool
  finished,  \* calls executed on the pool, waiting for the event loop
  settled    \* the calls that have returned, or whose promise has settled

vars == <<lock, run, issued, workQueue, finished, settled>>

(***************************************************************************)
(* The locks of a call.                                                    *)
(***************************************************************************)
\* Mutant of Guards: this is not locked.
GuardsWithoutThis(c) ==
  << << >> >> \o (IF LastFirst THEN Reverse(Args[c]) ELSE Args[c])

\* Mutant of Guards: this is locked after the arguments.
GuardsThisLast(c) ==
  (IF LastFirst THEN Reverse(Args[c]) ELSE Args[c]) \o <<This[c]>>

\* the guards in the order in which they are constructed
Guards(c) ==
  <<This[c]>> \o (IF LastFirst THEN Reverse(Args[c]) ELSE Args[c])

\* the objects the C++ function works on
Used(c) == ToSet(This[c]) \cup UNION {ToSet(Args[c][i]) : i \in DOMAIN Args[c]}

(***************************************************************************)
(* A thread that is locking has constructed the guards before run.guard    *)
(* and, for that guard, locked its first run.elem objects.                 *)
(***************************************************************************)
Idle == [phase |-> "idle"]

Phases == {"converting", "locking", "calling", "unlocking", "delivering"}

Running == [phase : Phases, call : Calls, guard : Nat, elem : Nat]

At(phase, c, guard, elem) ==
  [phase |-> phase, call |-> c, guard |-> guard, elem |-> elem]

Busy(t) == run[t].phase # "idle"

\* the objects whose mutex t has taken through its guards
Acquired(t) ==
  LET g == Guards(run[t].call) IN
  {o \in Objects :
     /\ Busy(t)
     /\ \/ \E i \in DOMAIN g : i < run[t].guard /\ o \in ToSet(g[i])
        \/ \E k \in 1 .. run[t].elem : o = g[run[t].guard][k]}

\* the object t is about to lock, if it is about to lock one
Awaited(t) ==
  IF run[t].phase # "locking" THEN {}
  ELSE LET g == Guards(run[t].call)
       IN  IF run[t].guard \in DOMAIN g /\ run[t].elem < Len(g[run[t].guard])
             THEN {g[run[t].guard][run[t].elem + 1]}
             ELSE {}

\* a thread that blocks on a mutex (the JavaScript thread may be configured
\* to throw instead)
Blocks(t) == ~(ThrowOnBlock /\ t = Main)

\* the objects whose value t is reading or writing
Accessed(t) ==
  CASE run[t].phase = "converting" -> Converted[run[t].call]
    [] run[t].phase = "calling"    -> Used(run[t].call)
    [] run[t].phase = "delivering" -> Copied[run[t].call]
    [] OTHER                       -> {}

Init ==
  /\ lock = [o \in Objects |-> None]
  /\ run = [t \in Threads |-> Idle]
  /\ issued = {}
  /\ workQueue = << >>
  /\ finished = << >>
  /\ settled = {}

(***************************************************************************)
(* The JavaScript thread.                                                  *)
(***************************************************************************)
\* JavaScript makes the call: the FromJS constructors are about to run
Invoke(c) ==
  /\ ~Busy(Main)
  /\ c \notin issued
  /\ issued' = issued \cup {c}
  /\ run' = [run EXCEPT ![Main] = At("converting", c, 1, 0)]
  /\ UNCHANGED <<lock, workQueue, finished, settled>>

\* a conversion or CheckArgLength throws: the caller gets the exception, or
\* a rejected promise
ConversionFails ==
  /\ run[Main].phase = "converting"
  /\ settled' = settled \cup {run[Main].call}
  /\ run' = [run EXCEPT ![Main] = Idle]
  /\ UNCHANGED <<lock, issued, workQueue, finished>>

\* Mutant of Queue: a synchronous call is queued like any other.
QueueAny ==
  /\ run[Main].phase = "converting"
  /\ workQueue' = Append(workQueue, run[Main].call)
  /\ run' = [run EXCEPT ![Main] = Idle]
  /\ UNCHANGED <<lock, issued, finished, settled>>

\* an asynchronous call leaves its tasklet in the queue of the pool
Queue ==
  /\ run[Main].phase = "converting"
  /\ run[Main].call \in Async
  /\ workQueue' = Append(workQueue, run[Main].call)
  /\ run' = [run EXCEPT ![Main] = Idle]
  /\ UNCHANGED <<lock, issued, finished, settled>>

\* a synchronous call goes on to lock on the JavaScript thread
StartSync ==
  /\ run[Main].phase = "converting"
  /\ run[Main].call \notin Async
  /\ run' = [run EXCEPT ![Main] = At("locking", run[Main].call, 1, 0)]
  /\ UNCHANGED <<lock, issued, workQueue, finished, settled>>

\* The event loop runs OnOK or OnError of an executed tasklet.
Complete ==
  /\ ~Busy(Main)
  /\ finished # << >>
  /\ run' = [run EXCEPT ![Main] = At("delivering", Head(finished), 1, 0)]
  /\ finished' = Tail(finished)
  /\ UNCHANGED <<lock, issued, workQueue, settled>>

Deliver ==
  /\ run[Main].phase = "delivering"
  /\ settled' = settled \cup {run[Main].call}
  /\ run' = [run EXCEPT ![Main] = Idle]
  /\ UNCHANGED <<lock, issued, workQueue, finished>>

(***************************************************************************)
(* Execution, on the JavaScript thread or on a thread of the pool.         *)
(***************************************************************************)
\* a free thread of the pool takes the tasklet at the head of the queue
Take(t) ==
  /\ t \in Pool
  /\ ~Busy(t)
  /\ workQueue # << >>
  /\ run' = [run EXCEPT ![t] = At("locking", Head(workQueue), 1, 0)]
  /\ workQueue' = Tail(workQueue)
  /\ UNCHANGED <<lock, issued, finished, settled>>

\* async_lock.lock() returns
Lock(t) ==
  \E o \in Awaited(t) :
    /\ lock[o] = None
    /\ lock' = [lock EXCEPT ![o] = t]
    /\ run' = [run EXCEPT ![t] =
                       At("locking", run[t].call, run[t].guard, run[t].elem + 1)]
    /\ UNCHANGED <<issued, workQueue, finished, settled>>

\* the constructor of the current FromJSLockGuard returns
GuardConstructed(t) ==
  LET g == Guards(run[t].call) IN
  /\ run[t].phase = "locking"
  /\ run[t].guard \in DOMAIN g
  /\ run[t].elem = Len(g[run[t].guard])
  /\ run' = [run EXCEPT ![t] =
                     At("locking", run[t].call, run[t].guard + 1, 0)]
  /\ UNCHANGED <<lock, issued, workQueue, finished, settled>>

\* Mutant of Call: the function is called before the last guard is there.
CallEarly(t) ==
  /\ run[t].phase = "locking"
  /\ run[t].guard >= Len(Guards(run[t].call))
  /\ run' = [run EXCEPT ![t] = At("calling", run[t].call, run[t].guard, 0)]
  /\ UNCHANGED <<lock, issued, workQueue, finished, settled>>

\* every guard is there: the C++ function is called
Call(t) ==
  /\ run[t].phase = "locking"
  /\ run[t].guard > Len(Guards(run[t].call))
  /\ run' = [run EXCEPT ![t] = At("calling", run[t].call, run[t].guard, 0)]
  /\ UNCHANGED <<lock, issued, workQueue, finished, settled>>

\* it returns, or throws: either way the guards go out of scope
Return(t) ==
  /\ run[t].phase = "calling"
  /\ run' = [run EXCEPT ![t] = At("unlocking", run[t].call, run[t].guard, 0)]
  /\ UNCHANGED <<lock, issued, workQueue, finished, settled>>

\* Mutant of Unlock: of several objects, only the first is unlocked.
UnlockFirst(t) ==
  LET g == run[t].guard - 1 IN
  /\ run[t].phase = "unlocking"
  /\ g >= 1
  /\ lock' = [o \in Objects |->
                IF \E i \in 1 .. Len(Guards(run[t].call)[g]) :
                     i = 1 /\ o = Guards(run[t].call)[g][i]
                THEN None ELSE lock[o]]
  /\ run' = [run EXCEPT ![t] = At("unlocking", run[t].call, g, 0)]
  /\ UNCHANGED <<issued, workQueue, finished, settled>>

\* ~FromJSLockGuard of the guard constructed last
Unlock(t) ==
  LET g == run[t].guard - 1 IN
  /\ run[t].phase = "unlocking"
  /\ g >= 1
  /\ lock' = [o \in Objects |->
                IF o \in ToSet(Guards(run[t].call)[g]) THEN None ELSE lock[o]]
  /\ run' = [run EXCEPT ![t] = At("unlocking", run[t].call, g, 0)]
  /\ UNCHANGED <<issued, workQueue, finished, settled>>

FinishSync ==
  /\ run[Main].phase = "unlocking"
  /\ run[Main].guard = 1
  /\ settled' = settled \cup {run[Main].call}
  /\ run' = [run EXCEPT ![Main] = Idle]
  /\ UNCHANGED <<lock, issued, workQueue, finished>>

FinishAsync(t) ==
  /\ t \in Pool
  /\ run[t].phase = "unlocking"
  /\ run[t].guard = 1
  /\ finished' = Append(finished, run[t].call)
  /\ run' = [run EXCEPT ![t] = Idle]
  /\ UNCHANGED <<lock, issued, workQueue, settled>>

\* Mutant of ThrowOnContention: the constructed guards are not destroyed.
ThrowWithoutUnwinding ==
  /\ ThrowOnBlock
  /\ \E o \in Awaited(Main) : lock[o] # None
  /\ settled' = settled \cup {run[Main].call}
  /\ run' = [run EXCEPT ![Main] = Idle]
  /\ UNCHANGED <<lock, issued, workQueue, finished>>

\* With NOBIND_THROW_ON_EVENT_LOOP_BLOCK the JavaScript thread only tries the
\* lock and throws when it is taken.  The complete guards are destroyed; the
\* one under construction is not, and what it has locked stays locked.
ThrowOnContention ==
  /\ ThrowOnBlock
  /\ \E o \in Awaited(Main) : lock[o] # None
  /\ lock' = [o \in Objects |->
       IF \E i \in DOMAIN Guards(run[Main].call) :
            i < run[Main].guard /\ o \in ToSet(Guards(run[Main].call)[i])
         THEN None ELSE lock[o]]
  /\ settled' = settled \cup {run[Main].call}
  /\ run' = [run EXCEPT ![Main] = Idle]
  /\ UNCHANGED <<issued, workQueue, finished>>

ThreadStep(t) ==
  \/ Take(t)
  \/ Lock(t)
  \/ GuardConstructed(t)
  \/ Call(t)
  \/ Return(t)
  \/ Unlock(t)
  \/ FinishAsync(t)

MainStep ==
  \/ ConversionFails
  \/ Queue
  \/ StartSync
  \/ Complete
  \/ Deliver
  \/ FinishSync
  \/ ThrowOnContention

Next ==
  \/ \E c \in Calls : Invoke(c)
  \/ \E t \in Threads : ThreadStep(t)
  \/ MainStep

Spec == Init /\ [][Next]_vars

\* Every thread keeps running, the called functions return, and the event
\* loop turns whenever JavaScript is not running.
FairSpec ==
  /\ Spec
  /\ \A t \in Threads : WF_vars(ThreadStep(t))
  /\ WF_vars(MainStep)

-----------------------------------------------------------------------------
(***************************************************************************)
(* Properties.                                                             *)
(***************************************************************************)
\* Every variable has its type: only asynchronous calls reach the pool.
TypeOK ==
  /\ lock \in [Objects -> Threads \cup {None}]
  /\ run \in [Threads -> {Idle} \cup Running]
  /\ issued \subseteq Calls
  /\ workQueue \in Seq(Async)
  /\ finished \in Seq(Async)
  /\ settled \subseteq Calls

\* "Automatically prevent reentrance of class objects": two C++ functions
\* never work on the same object at the same time, on whatever threads, as
\* this or as an argument or inside a container that is an argument.
NoReentrance ==
  \A t, u \in Threads :
    /\ t # u
    /\ run[t].phase = "calling"
    /\ run[u].phase = "calling"
    => Used(run[t].call) \cap Used(run[u].call) = {}

\* "Lock all the passed objects for the duration of the call", the wrapper's
\* own reading of an object included: while a function works on an object,
\* no other thread converts or copies it.
NoDataRace ==
  \A t, u \in Threads : t # u => Accessed(t) \cap Accessed(u) = {}

\* A mutex is held by the thread whose guards have taken it and by no other;
\* a thread that is not executing a call holds nothing.
LocksAreGuarded ==
  \A t \in Threads : {o \in Objects : lock[o] = t} = Acquired(t)

\* There is no set of threads in which each waits for a mutex that a thread
\* of the set holds.
NoDeadlock ==
  \A S \in (SUBSET Threads) \ {{}} :
    \E t \in S : Blocks(t) => \A o \in Awaited(t) : lock[o] \notin S

\* A call that JavaScript has made eventually returns or settles its promise,
\* with more calls than threads and with the event loop blocked on a mutex.
EveryCallSettles ==
  \A c \in Calls : c \in issued ~> c \in settled
=============================================================================
