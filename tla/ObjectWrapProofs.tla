-------------------------- MODULE ObjectWrapProofs --------------------------
(***************************************************************************)
(* What the object store and the wrappers guarantee, for every number of   *)
(* classes, addresses, wrappers and calls, with basic finalizers or        *)
(* without.  One proxy per object holds whatever views of an object C++    *)
(* returns; that nothing dangles or leaks, that an object is freed once,   *)
(* and the promise of ProxyIdentity, if it returns none without a parent;  *)
(* the single owner also if it does but no call is asynchronous.           *)
(***************************************************************************)
EXTENDS ObjectWrap, FiniteSetTheorems, TLAPS

-----------------------------------------------------------------------------
(***************************************************************************)
(* Type correctness.                                                       *)
(***************************************************************************)
\* The operators of the store map stores to stores.
LEMMA StoreTyping ==
  ASSUME NEW s \in Stores, NEW E, NEW c \in Classes, NEW p \in Ptrs,
         NEW w \in Wrappers, NEW js
  PROVE  /\ Lookup(s, E, c, p) \in Wrappers \cup {None}
         /\ Swept(s, E, c, p) \in Stores
         /\ Put(s, c, p, w) \in Stores
         /\ Expire(s, E, c, p, js) \in Stores
  BY DEF Stores, Lookup, Swept, Erase, Put, Expire

LEMMA MethodResultsTyping ==
  ASSUME NEW this
  PROVE  MethodResults(this) \subseteq Results
  BY DEF MethodResults, Fresh, Static, PassThrough, Member, View

\* Wrapping keeps the types of the wrapper's fields.
LEMMA DeliverTyping ==
  ASSUME TypeOK, NEW w \in Wrappers, NEW r \in Results, Deliver(w, r)
  PROVE  /\ store' \in Stores
         /\ status' \in [Wrappers -> {"none", "live", "collected"}]
         /\ class' \in [Wrappers -> Classes \cup {None}]
         /\ self' \in [Wrappers -> Ptrs \cup {None}]
         /\ owned' \in [Wrappers -> BOOLEAN]
         /\ parent' \in [Wrappers -> Wrappers \cup {None}]
         /\ refers' \in [Wrappers -> BOOLEAN]
         /\ held' \subseteq Wrappers
         /\ ext' \in Int
         /\ \A v \in Wrappers :
              status'[v] # "none" => class'[v] \in Classes /\ self'[v] \in Ptrs
<1>0. r.class \in Classes /\ r.ptr \in Ptrs /\ r.own \in BOOLEAN
      /\ r.parent \in Wrappers \cup {None}
  BY DEF Results
<1>1. parent' \in [Wrappers -> Wrappers \cup {None}] /\ held' \subseteq Wrappers
  BY <1>0 DEF TypeOK, Deliver, SetupNested
<1>2. CASE NewStored(w, r.class, r.ptr)
  BY <1>1, <1>2 DEF NewStored, TypeOK, wrapper
<1>3. CASE NewWrapped(w, r.class, r.ptr, r.own)
  <2>1. store' \in Stores
    BY <1>0, <1>3, StoreTyping DEF NewWrapped, TypeOK
  <2>2. ext' \in Int
    BY <1>3 DEF NewWrapped, TypeOK
  <2>. QED
    BY <1>0, <1>1, <1>3, <2>1, <2>2 DEF NewWrapped, Wrap, TypeOK
<1>. QED
  BY <1>2, <1>3 DEF Deliver, New

LEMMA TypeInit == Init => TypeOK
  BY DEF Init, TypeOK, Stores, EmptyStore, Calls, Idle

LEMMA TypeStep == TypeOK /\ [Next]_vars => TypeOK'
<1> SUFFICES ASSUME TypeOK, [Next]_vars PROVE TypeOK'
  OBVIOUS
<1>1. ASSUME NEW w \in Wrappers, NEW c \in Classes, NEW p \in Ptrs,
             Construct(w, c, p)
      PROVE  TypeOK'
  <2>1. store' \in Stores
    BY <1>1, StoreTyping DEF Construct, TypeOK
  <2>. QED
    BY <1>1, <2>1 DEF Construct, Wrap, TypeOK
<1>2. ASSUME NEW r \in Results, Allocate(r)
      PROVE  heap' \in [Ptrs -> Classes \cup {None}]
  BY <1>2 DEF Allocate, Results, TypeOK
<1>3. ASSUME NEW w \in Wrappers, CallFunction(w)
      PROVE  TypeOK'
  <2>1. PICK r \in Results : Allocate(r) /\ Deliver(w, r)
    BY <1>3 DEF CallFunction, Fresh, Static
  <2>. QED
    BY <1>2, <1>3, <2>1, DeliverTyping DEF CallFunction, TypeOK
<1>4. ASSUME NEW this \in Wrappers, NEW w \in Wrappers, CallMethod(this, w)
      PROVE  TypeOK'
  <2>1. PICK r \in Results : Allocate(r) /\ Deliver(w, r)
    BY <1>4, MethodResultsTyping DEF CallMethod
  <2>. QED
    BY <1>2, <1>4, <2>1, DeliverTyping DEF CallMethod, TypeOK
<1>5. ASSUME NEW s \in Slots, NEW this \in Wrappers, CallAsync(s, this)
      PROVE  TypeOK'
  BY <1>5 DEF CallAsync, TypeOK, memory, wrapper, Calls
<1>6. ASSUME NEW s \in Slots, Execute(s)
      PROVE  TypeOK'
  <2>1. PICK r \in Results :
          /\ Allocate(r)
          /\ call' = [call EXCEPT ![s] = [phase |-> "done",
                                          this |-> call[s].this, result |-> r]]
    BY <1>6, MethodResultsTyping DEF Execute
  <2>2. call[s].this \in Wrappers
    BY <1>6 DEF Execute, TypeOK, Calls, Idle
  <2>3. call' \in [Slots -> Calls]
    BY <2>1, <2>2 DEF TypeOK, Calls
  <2>. QED
    BY <1>2, <1>6, <2>1, <2>3 DEF Execute, TypeOK, wrapper
<1>7. ASSUME NEW s \in Slots, ExecuteThrows(s)
      PROVE  TypeOK'
  <2>1. call[s].this \in Wrappers
    BY <1>7 DEF ExecuteThrows, TypeOK, Calls, Idle
  <2>. QED
    BY <1>7, <2>1 DEF ExecuteThrows, TypeOK, memory, wrapper, Calls
<1>8. ASSUME NEW s \in Slots, NEW w \in Wrappers, OnOK(s, w)
      PROVE  TypeOK'
  <2>1. call[s].result \in Results
    BY <1>8 DEF OnOK, TypeOK, Calls, Idle
  <2>2. call' \in [Slots -> Calls]
    BY <1>8 DEF OnOK, TypeOK, Calls
  <2>. QED
    BY <1>8, <2>1, <2>2, DeliverTyping DEF OnOK, TypeOK, memory
<1>9. ASSUME NEW s \in Slots, OnError(s)
      PROVE  TypeOK'
  BY <1>9 DEF OnError, TypeOK, memory, wrapper, Calls
<1>10. ASSUME NEW w \in Wrappers, Drop(w)
       PROVE  TypeOK'
  BY <1>10 DEF Drop, TypeOK, memory, wrapper
<1>11. ASSUME NEW p \in Ptrs, NEW c \in Classes, CppCreate(p, c)
       PROVE  TypeOK'
  BY <1>11 DEF CppCreate, TypeOK, wrapper
<1>12. ASSUME NEW p \in Ptrs, CppDestroy(p)
       PROVE  TypeOK'
  BY <1>12 DEF CppDestroy, TypeOK
<1>13. ASSUME NEW S \in SUBSET Wrappers, Collect(S)
       PROVE  TypeOK'
  BY <1>13 DEF Collect, TypeOK, memory, Live
<1>14. ASSUME NEW w \in Wrappers, Finalization(w)
       PROVE  TypeOK'
  <2>1. PICK js, stale : Finalize(w, js, stale)
    BY <1>14 DEF Finalization
  <2>2. class[w] \in Classes /\ self[w] \in Ptrs
    BY <2>1 DEF Finalize, TypeOK
  <2>3. store' \in Stores
    BY <2>1, <2>2, StoreTyping DEF Finalize, TypeOK
  <2>4. heap' \in [Ptrs -> Classes \cup {None}] /\ ext' \in Int
    BY <2>1, <2>2 DEF Finalize, Free, TypeOK
  <2>5. refers' \in [Wrappers -> BOOLEAN]
    <3>1. CASE owned[w]
      BY <2>1, <3>1 DEF Finalize, Free, TypeOK
    <3>2. CASE ~owned[w]
      BY <2>1, <3>2 DEF Finalize, Free, TypeOK
    <3>. QED
      BY <3>1, <3>2
  <2>. QED
    BY <2>1, <2>3, <2>4, <2>5 DEF Finalize, TypeOK
<1>15. ASSUME EnvCleanup
       PROVE  TypeOK'
  BY <1>15 DEF EnvCleanup, TypeOK, memory, wrapper, Stores, EmptyStore
<1>16. ASSUME UNCHANGED vars
       PROVE  TypeOK'
  BY <1>16 DEF vars, TypeOK
<1>. QED
  BY <1>1, <1>3, <1>4, <1>5, <1>6, <1>7, <1>8, <1>9, <1>10, <1>11, <1>12,
     <1>13, <1>14, <1>15, <1>16 DEF Next

\* Every reachable state is well typed.
THEOREM TypeCorrect == Spec => []TypeOK
BY TypeInit, TypeStep, PTL DEF Spec

-----------------------------------------------------------------------------
(***************************************************************************)
(* One proxy per object.  That no two wrappers stand for one object is not *)
(* inductive: a new wrapper is created when the store finds none, so the   *)
(* invariant must say that the store finds every wrapper there is          *)
(* (Findable), that what it finds is a wrapper of that object (Sound), and *)
(* that an address the allocator gives out belongs to no wrapper           *)
(* (Allocated).                                                            *)
(***************************************************************************)
Allocated ==
  \A w \in Wrappers : refers[w] => heap[self[w]] # None /\ status[w] # "none"

Findable ==
  env = "running" =>
    \A w \in Wrappers :
      status[w] = "live" /\ refers[w] => store[class[w]][self[w]] = w

Sound ==
  \A c \in Classes, p \in Ptrs, w \in Wrappers :
    store[c][p] = w /\ status[w] = "live" => class[w] = c /\ self[w] = p

Safe == Allocated /\ Findable /\ Sound /\ OneProxyPerObject

IInv == TypeOK /\ Safe

\* For the store of a reachable state, the lookup ignores exactly the
\* entries whose wrapper is not alive.
LEMMA LookupLive ==
  ASSUME TypeOK, NEW c \in Classes, NEW p \in Ptrs
  PROVE  Lookup(store, Expired, c, p) =
           IF store[c][p] \in Live THEN store[c][p] ELSE None
  BY NoneAssumption DEF TypeOK, Stores, Lookup, Expired, Live

\* Wrapping an object for JavaScript keeps the invariant.
LEMMA DeliverSafe ==
  ASSUME IInv, NEW w \in Wrappers, NEW r \in Results, Deliver(w, r),
         env = "running", env' = env,
         \A q \in Ptrs : heap[q] # None => heap'[q] # None
  PROVE  Safe'
<1>0. r.class \in Classes /\ r.ptr \in Ptrs
  BY DEF Results
<1>1. CASE NewStored(w, r.class, r.ptr)
  BY <1>1 DEF NewStored, IInv, TypeOK, Safe, Allocated, Findable, Sound,
              OneProxyPerObject, Live, wrapper
<1>2. CASE NewWrapped(w, r.class, r.ptr, r.own)
  <2>. DEFINE c == r.class
              p == r.ptr
  <2>1. store[c][p] \notin Live
    BY <1>0, <1>2, LookupLive, NoneAssumption DEF NewWrapped, IInv, Live
  <2>2. /\ status[w] = "none" /\ ~refers[w]
        /\ \A d \in Classes, q \in Ptrs : store[d][q] # w
    BY <1>2 DEF NewWrapped, Wrap, Unused, IInv, Safe, Allocated
  <2>3. /\ status' = [status EXCEPT ![w] = "live"]
        /\ class' = [class EXCEPT ![w] = c]
        /\ self' = [self EXCEPT ![w] = p]
        /\ refers' = [refers EXCEPT ![w] = heap'[p] # None]
    BY <1>2 DEF NewWrapped, Wrap
  <2>4. store' = [store EXCEPT ![c][p] = w]
    <3>1. store \in Stores
      BY DEF IInv, TypeOK
    <3>. QED
      BY <1>0, <1>2, <3>1 DEF NewWrapped, Put, Swept, Erase, Stores
  <2>5. \A v \in Wrappers :
          status[v] = "live" /\ refers[v] => ~(class[v] = c /\ self[v] = p)
    BY <2>1 DEF IInv, Safe, Findable, Live
  <2>6. Allocated'
    BY <1>0, <2>3 DEF IInv, TypeOK, Safe, Allocated
  <2>7. Findable'
    <3> SUFFICES ASSUME NEW v \in Wrappers, status'[v] = "live", refers'[v]
                 PROVE  store'[class'[v]][self'[v]] = v
      BY DEF Findable
    <3>1. store \in [Classes -> [Ptrs -> Wrappers \cup {None}]]
      BY DEF IInv, TypeOK, Stores
    <3>2. CASE v = w
      BY <1>0, <2>3, <2>4, <3>1, <3>2 DEF IInv, TypeOK
    <3>3. CASE v # w
      <4>1. status[v] = "live" /\ refers[v] /\ class'[v] = class[v] /\ self'[v] = self[v]
        BY <2>3, <3>3 DEF IInv, TypeOK
      <4>2. class[v] \in Classes /\ self[v] \in Ptrs
        BY <4>1 DEF IInv, TypeOK
      <4>3. store[class[v]][self[v]] = v
        BY <4>1 DEF IInv, Safe, Findable
      <4>. QED
        BY <1>0, <2>4, <2>5, <3>1, <4>1, <4>2, <4>3
    <3>. QED
      BY <3>2, <3>3
  <2>8. Sound'
    <3> SUFFICES ASSUME NEW d \in Classes, NEW q \in Ptrs, NEW v \in Wrappers,
                        store'[d][q] = v, status'[v] = "live"
                 PROVE  class'[v] = d /\ self'[v] = q
      BY DEF Sound
    <3>1. store \in [Classes -> [Ptrs -> Wrappers \cup {None}]]
      BY DEF IInv, TypeOK, Stores
    <3>2. CASE v = w
      BY <1>0, <2>2, <2>3, <2>4, <3>1, <3>2 DEF IInv, TypeOK
    <3>3. CASE v # w
      <4>1. store[d][q] = v
        BY <1>0, <2>4, <3>1, <3>3
      <4>. QED
        BY <2>3, <3>3, <4>1 DEF IInv, TypeOK, Safe, Sound
    <3>. QED
      BY <3>2, <3>3
  <2>9. OneProxyPerObject'
    BY <1>0, <2>3, <2>5 DEF IInv, TypeOK, Safe, OneProxyPerObject, Live
  <2>. QED
    BY <2>6, <2>7, <2>8, <2>9 DEF Safe
<1>. QED
  BY <1>1, <1>2 DEF Deliver, New

\* What only adds objects, or makes wrappers refer to nothing or cease to be
\* alive, keeps the invariant as long as it leaves the store alone.
LEMMA ShrinkSafe ==
  ASSUME IInv, store' = store, class' = class, self' = self, env' = env,
         \A v \in Wrappers : refers'[v] => refers[v]
                                            /\ heap'[self[v]] # None,
         \A v \in Wrappers : status'[v] = "live" => status[v] = "live",
         \A v \in Wrappers : status'[v] = "none" => status[v] = "none"
  PROVE  Safe'
  BY DEF IInv, Safe, Allocated, Findable, Sound, OneProxyPerObject, Live

LEMMA AllocateKeeps ==
  ASSUME TypeOK, NEW r \in Results, Allocate(r)
  PROVE  \A q \in Ptrs : heap[q] # None => heap'[q] # None
  BY NoneAssumption DEF Allocate, Results, TypeOK

LEMMA SafeInit == Init => Safe
  BY NoneAssumption DEF Init, Safe, Allocated, Findable, Sound, EmptyStore,
                        OneProxyPerObject, Live

\* The destructor of a wrapper never makes the store forget a living one.
LEMMA FinalizeSafe ==
  ASSUME IInv, NEW w \in Wrappers, NEW js, NEW stale, Finalize(w, js, stale)
  PROVE  Safe'
<1>1. class[w] \in Classes /\ self[w] \in Ptrs /\ store \in Stores
  BY DEF Finalize, IInv, TypeOK
<1>2. /\ status' = [status EXCEPT ![w] = "none"]
      /\ class' = [class EXCEPT ![w] = None]
      /\ self' = [self EXCEPT ![w] = None]
      /\ env' = env
  BY DEF Finalize
<1>3. \A v \in Wrappers :
        refers'[v] => v # w /\ refers[v] /\ heap'[self[v]] # None
  <2>1. CASE owned[w]
    BY <1>1, <2>1 DEF Finalize, Free, IInv, TypeOK, Safe, Allocated
  <2>2. CASE ~owned[w]
    BY <2>2 DEF Finalize, Free, IInv, TypeOK, Safe, Allocated
  <2>. QED
    BY <2>1, <2>2
<1>4. \A c \in Classes, p \in Ptrs : store'[c][p] \in {store[c][p], None}
  BY <1>1 DEF Finalize, Expire, Swept, Erase, Lookup, Stores
<1>5. ASSUME env = "running", NEW c \in Classes, NEW p \in Ptrs,
             store[c][p] \in Live
      PROVE  store'[c][p] = store[c][p]
  <2>1. status[w] = "collected" /\ js \in {None, w}
    BY <1>5 DEF Finalize
  <2>2. store[c][p] # None /\ store[c][p] # js /\ store[c][p] \notin Expired
    BY <1>5, <2>1, NoneAssumption DEF Live, Expired
  <2>3. store' = Expire(store, Expired \ stale, class[w], self[w], js)
    BY <1>5 DEF Finalize
  <2>. QED
    BY <1>1, <2>2, <2>3 DEF Expire, Swept, Erase, Lookup, Stores
<1>6. Allocated'
  BY <1>2, <1>3 DEF IInv, TypeOK, Safe, Allocated
<1>7. Findable'
  BY <1>2, <1>3, <1>5 DEF IInv, TypeOK, Safe, Findable, Live
<1>8. Sound'
  BY <1>2, <1>4, NoneAssumption DEF IInv, TypeOK, Safe, Sound
<1>9. OneProxyPerObject'
  BY <1>2, <1>3 DEF IInv, TypeOK, Safe, OneProxyPerObject, Live
<1>. QED
  BY <1>6, <1>7, <1>8, <1>9 DEF Safe

\* new Class(...) may be given the address of a freed object whose wrapper
\* is still in the store; Put replaces it.
LEMMA ConstructSafe ==
  ASSUME IInv, NEW w \in Wrappers, NEW c \in Classes, NEW p \in Ptrs,
         Construct(w, c, p)
  PROVE  Safe'
<1>1. /\ status[w] = "none" /\ ~refers[w]
      /\ \A d \in Classes, q \in Ptrs : store[d][q] # w
  BY DEF Construct, Wrap, Unused, IInv, Safe, Allocated
<1>2. \A v \in Wrappers : refers[v] => self[v] # p
  BY DEF Construct, IInv, Safe, Allocated
<1>3. /\ status' = [status EXCEPT ![w] = "live"]
      /\ class' = [class EXCEPT ![w] = c]
      /\ self' = [self EXCEPT ![w] = p]
      /\ refers' = [refers EXCEPT ![w] = heap'[p] # None]
      /\ store' = [store EXCEPT ![c][p] = w]
      /\ heap' = [heap EXCEPT ![p] = c]
      /\ env' = env
  BY DEF Construct, Wrap, Put
<1>4. Allocated'
  BY <1>2, <1>3 DEF IInv, TypeOK, Safe, Allocated
<1>5. Findable'
  BY <1>2, <1>3 DEF IInv, TypeOK, Stores, Safe, Findable
<1>6. Sound'
  BY <1>1, <1>3 DEF IInv, TypeOK, Stores, Safe, Sound
<1>7. OneProxyPerObject'
  BY <1>2, <1>3 DEF IInv, TypeOK, Safe, OneProxyPerObject, Live
<1>. QED
  BY <1>4, <1>5, <1>6, <1>7 DEF Safe

LEMMA SafeStep == IInv /\ [Next]_vars => Safe'
<1> SUFFICES ASSUME IInv, [Next]_vars PROVE Safe'
  OBVIOUS
<1>1. ASSUME NEW w \in Wrappers, NEW c \in Classes, NEW p \in Ptrs,
             Construct(w, c, p)
      PROVE  Safe'
  BY <1>1, ConstructSafe
<1>2. ASSUME NEW w \in Wrappers, CallFunction(w)
      PROVE  Safe'
  <2>1. PICK r \in Results : Allocate(r) /\ Deliver(w, r)
    BY <1>2 DEF CallFunction, Fresh, Static
  <2>. QED
    BY <1>2, <2>1, AllocateKeeps, DeliverSafe DEF CallFunction, JSCanRun, IInv
<1>3. ASSUME NEW this \in Wrappers, NEW w \in Wrappers, CallMethod(this, w)
      PROVE  Safe'
  <2>1. PICK r \in Results : Allocate(r) /\ Deliver(w, r)
    BY <1>3, MethodResultsTyping DEF CallMethod
  <2>. QED
    BY <1>3, <2>1, AllocateKeeps, DeliverSafe DEF CallMethod, JSCanRun, IInv
<1>4. ASSUME NEW s \in Slots, NEW w \in Wrappers, OnOK(s, w)
      PROVE  Safe'
  <2>1. call[s].result \in Results
    BY <1>4 DEF OnOK, IInv, TypeOK, Calls, Idle
  <2>. QED
    BY <1>4, <2>1, DeliverSafe DEF OnOK, JSCanRun, memory
<1>5. ASSUME NEW s \in Slots, Execute(s)
      PROVE  Safe'
  <2>1. PICK r \in Results : Allocate(r)
    BY <1>5, MethodResultsTyping DEF Execute
  <2>2. \A v \in Wrappers : refers[v] => heap'[self[v]] # None
    BY <2>1, AllocateKeeps DEF IInv, TypeOK, Safe, Allocated
  <2>. QED
    BY <1>5, <2>2, ShrinkSafe DEF Execute, wrapper
<1>6. ASSUME \/ \E s \in Slots, this \in Wrappers : CallAsync(s, this)
             \/ \E s \in Slots : ExecuteThrows(s)
             \/ \E s \in Slots : OnError(s)
             \/ \E w \in Wrappers : Drop(w)
             \/ UNCHANGED vars
      PROVE  Safe'
  <2>1. UNCHANGED <<memory, store, env, wrapper>>
    BY <1>6 DEF CallAsync, ExecuteThrows, OnError, Drop, vars, memory, wrapper
  <2>. QED
    BY <2>1, ShrinkSafe DEF memory, wrapper, IInv, Safe, Allocated
<1>7. ASSUME NEW p \in Ptrs, NEW c \in Classes, CppCreate(p, c)
      PROVE  Safe'
  <2>1. \A v \in Wrappers : refers[v] => heap'[self[v]] # None
    BY <1>7, NoneAssumption DEF CppCreate, IInv, TypeOK, Safe, Allocated
  <2>. QED
    BY <1>7, <2>1, ShrinkSafe DEF CppCreate, wrapper
<1>8. ASSUME NEW p \in Ptrs, CppDestroy(p)
      PROVE  Safe'
  <2>1. \A v \in Wrappers : refers'[v] => refers[v] /\ heap'[self[v]] # None
    BY <1>8 DEF CppDestroy, IInv, TypeOK, Safe, Allocated
  <2>. QED
    BY <1>8, <2>1, ShrinkSafe DEF CppDestroy
<1>9. ASSUME NEW S \in SUBSET Wrappers, Collect(S)
      PROVE  Safe'
  <2>1. \A v \in Wrappers : /\ status'[v] = "live" => status[v] = "live"
                            /\ status'[v] = "none" => status[v] = "none"
    BY <1>9 DEF Collect
  <2>. QED
    BY <1>9, <2>1, ShrinkSafe DEF Collect, memory, IInv, Safe, Allocated
<1>10. ASSUME NEW w \in Wrappers, Finalization(w)
       PROVE  Safe'
  BY <1>10, FinalizeSafe DEF Finalization
<1>11. ASSUME EnvCleanup
       PROVE  Safe'
  BY <1>11, NoneAssumption
     DEF EnvCleanup, memory, wrapper, IInv, Safe, Allocated, Findable, Sound,
         EmptyStore, OneProxyPerObject, Live
<1>. QED
  BY <1>1, <1>2, <1>3, <1>4, <1>5, <1>6, <1>7, <1>8, <1>9, <1>10, <1>11
     DEF Next

LEMMA Invariance == Spec => []IInv
<1>1. Init => IInv
  BY TypeInit, SafeInit DEF IInv
<1>2. IInv /\ [Next]_vars => IInv'
  BY TypeStep, SafeStep DEF IInv
<1>. QED
  BY <1>1, <1>2, PTL DEF Spec

\* Two JavaScript values never stand for the same C++ object as the same
\* class, for any number of objects and wrappers, with late destructors or
\* immediate ones and addresses reused.
THEOREM Uniqueness == Spec => []OneProxyPerObject
<1>1. IInv => OneProxyPerObject
  BY DEF IInv, Safe
<1>. QED
  BY <1>1, Invariance, PTL

\* Whatever destructors have run, the store returns every living wrapper for
\* the object it stands for.
THEOREM Findability == Spec => []StoreFindsProxy
<1>1. IInv => StoreFindsProxy
  <2> SUFFICES ASSUME IInv, env = "running", NEW w \in Live, refers[w]
               PROVE  Lookup(store, Expired, class[w], self[w]) = w
    BY DEF StoreFindsProxy
  <2>1. w \in Wrappers /\ class[w] \in Classes /\ self[w] \in Ptrs
    BY DEF IInv, TypeOK, Live
  <2>2. store[class[w]][self[w]] = w
    BY <2>1 DEF IInv, Safe, Findable, Live
  <2>. QED
    BY <2>1, <2>2, LookupLive DEF IInv
<1>. QED
  BY <1>1, Invariance, PTL

\* What the store returns for an address is a wrapper of that class at that
\* address, although addresses and JavaScript objects are reused.
THEOREM Soundness == Spec => []StoreIsSound
<1>1. IInv => StoreIsSound
  <2> SUFFICES ASSUME IInv, NEW c \in Classes, NEW p \in Ptrs,
                      Lookup(store, Expired, c, p) # None
               PROVE  /\ class[Lookup(store, Expired, c, p)] = c
                      /\ self[Lookup(store, Expired, c, p)] = p
    BY DEF StoreIsSound
  <2>1. /\ store[c][p] \in Live
        /\ Lookup(store, Expired, c, p) = store[c][p]
    BY LookupLive DEF IInv
  <2>. QED
    BY <2>1 DEF IInv, Safe, Sound, Live
<1>. QED
  BY <1>1, Invariance, PTL

-----------------------------------------------------------------------------
(***************************************************************************)
(* Memory.  That nothing dangles, is freed twice or leaks holds together   *)
(* or not at all: an owner is not collected under a wrapper that is in use *)
(* because the parents of that wrapper lead to it (Rooted), and a result   *)
(* that a call has in store for JavaScript stays what it was (Awaited).    *)
(***************************************************************************)
\* the destructor of w frees p
Owner(w, p) == status[w] # "none" /\ owned[w] /\ self[w] = p

\* a result that is a new object: nothing refers to it yet
Unclaimed(r) ==
  /\ r.own
  /\ r.parent = None
  /\ r.ptr \notin cppOwned
  /\ \A w \in Wrappers : refers[w] => self[w] # r.ptr

\* an object of C++
Lent(r, t) ==
  /\ ~r.own
  /\ r.ptr \in cppOwned
  /\ r.parent = None \/ (r.parent = t /\ t \in Live)

\* t itself
Same(r, t) ==
  /\ t \in Live
  /\ r.class = class[t]
  /\ r.ptr = self[t]
  /\ r.parent = None

\* a member of t
Nested(r, t) ==
  /\ t \in Live
  /\ ~r.own
  /\ r.ptr = self[t]
  /\ r.parent = t

\* what a method of t may hand to JavaScript
Deliverable(r, t) == Lent(r, t) \/ Same(r, t) \/ Nested(r, t) \/ Unclaimed(r)

Done(s) == call[s].phase = "done"

\* Wrappers in use are alive, and so are the parents of what is alive; all of
\* them refer to objects that exist.
Alive ==
  /\ \A w \in Wrappers : status[w] = "none" => parent[w] = None
  /\ env = "running" =>
       /\ held \cup Pinned \subseteq Live
       /\ \A w \in Live : refers[w] /\ parent[w] \in Live \cup {None}

\* A set of wrappers that contains its parents contains the owners.
Closed(S) == \A v \in S : parent[v] \in S \cup {None}

RootedIn(w, S) == self[w] \in cppOwned \/ \E o \in S : owned[o] /\ self[o] = self[w]

Rooted ==
  env = "running" =>
    \A S \in SUBSET Live : Closed(S) => \A w \in S : RootedIn(w, S)

\* an object has one owner at most
Owners ==
  /\ \A p \in cppOwned : heap[p] # None
  /\ \A v \in Wrappers, p \in Ptrs :
       Owner(v, p) =>
         /\ refers[v]
         /\ p \notin cppOwned
         /\ \A w \in Wrappers : Owner(w, p) => w = v

\* The results of calls that JavaScript has not received yet can be delivered,
\* and no new object is the result of two of them.
Awaited ==
  /\ env = "exiting" => \A s \in Slots : call[s] = Idle
  /\ \A s \in Slots :
       Done(s) => /\ heap[call[s].result.ptr] # None
                  /\ Deliverable(call[s].result, call[s].this)
  /\ \A s, z \in Slots :
       /\ Done(s) /\ Unclaimed(call[s].result)
       /\ Done(z) /\ Unclaimed(call[z].result)
       /\ call[s].result.ptr = call[z].result.ptr
       => s = z

\* an object that exists has an owner, or will get one
Claimed ==
  \A p \in Ptrs :
    heap[p] # None =>
      \/ p \in cppOwned
      \/ \E w \in Wrappers : Owner(w, p)
      \/ \E s \in Slots : /\ Done(s) /\ Unclaimed(call[s].result)
                          /\ call[s].result.ptr = p

Memory == Alive /\ Rooted /\ Owners /\ Awaited /\ Claimed

\* What New does when the result is one that a call may deliver: it wraps a new
\* object, a member or an object of C++, or finds the wrapper; JavaScript does
\* not become the owner of what has been delivered before.
LEMMA DeliverEffect ==
  ASSUME IInv, Alive, env = "running", NEW w \in Wrappers, NEW r \in Results,
         NEW t, Deliver(w, r), Deliverable(r, t)
  PROVE  /\ held' \subseteq held \cup {w}
         /\ r.parent \in Live \cup {None}
         /\ \A v \in Wrappers \ {w} : parent'[v] = parent[v]
         /\ \/ /\ UNCHANGED <<status, class, self, owned, refers>>
               /\ w \in Live /\ ~Unclaimed(r)
               /\ \/ parent'[w] = parent[w]
                  \/ parent[w] = None /\ parent'[w] = r.parent
            \/ /\ status[w] = "none" /\ ~refers[w]
               /\ parent'[w] = r.parent
               /\ status' = [status EXCEPT ![w] = "live"]
               /\ self' = [self EXCEPT ![w] = r.ptr]
               /\ class' = [class EXCEPT ![w] = r.class]
               /\ owned' = [owned EXCEPT ![w] = r.own]
               /\ refers' = [refers EXCEPT ![w] = heap'[r.ptr] # None]
               /\ Unclaimed(r) \/ Lent(r, t) \/ (Nested(r, t) /\ ~r.own)
<1>0. r.class \in Classes /\ r.ptr \in Ptrs
  BY DEF Results
<1>1. held' \subseteq held \cup {w} /\ r.parent \in Live \cup {None}
  BY DEF Deliver, SetupNested, Deliverable, Lent, Same, Nested, Unclaimed
<1>2. \A v \in Wrappers \ {w} : parent'[v] = parent[v]
  BY DEF Deliver, SetupNested, IInv, TypeOK
<1>3. \/ parent'[w] = parent[w] /\ (r.parent = None \/ parent[w] # None)
      \/ parent[w] = None /\ parent'[w] = r.parent
  BY DEF Deliver, SetupNested, IInv, TypeOK
<1>4. CASE NewStored(w, r.class, r.ptr)
  <2>1. w \in Live /\ self[w] = r.ptr
    BY <1>0, <1>4, LookupLive, NoneAssumption
    DEF NewStored, IInv, TypeOK, Safe, Sound, Live
  <2>2. ~Unclaimed(r)
    BY <2>1 DEF Unclaimed, Alive, Live
  <2>. QED
    BY <1>1, <1>2, <1>3, <1>4, <2>1, <2>2 DEF NewStored, wrapper
<1>5. CASE NewWrapped(w, r.class, r.ptr, r.own)
  <2>1. /\ status[w] = "none" /\ parent[w] = None /\ ~refers[w]
    BY <1>5 DEF NewWrapped, Wrap, Unused, Alive, IInv, Safe, Allocated
  <2>2. ~Same(r, t)
    <3>1. ASSUME Same(r, t) PROVE FALSE
      <4>1. t \in Live /\ refers[t] /\ r.class = class[t] /\ r.ptr = self[t]
        BY <3>1 DEF Same, Alive
      <4>2. store[r.class][r.ptr] = t
        BY <4>1 DEF IInv, Safe, Findable, Live
      <4>. QED
        BY <1>0, <1>5, <4>1, <4>2, LookupLive, NoneAssumption
        DEF NewWrapped, IInv, Live
    <3>. QED
      BY <3>1
  <2>3. Unclaimed(r) \/ Lent(r, t) \/ (Nested(r, t) /\ ~r.own)
    BY <2>2 DEF Deliverable, Nested
  <2>4. parent'[w] = r.parent
    BY <1>3, <2>1
  <2>. QED
    BY <1>1, <1>2, <1>5, <2>1, <2>3, <2>4 DEF NewWrapped, Wrap
<1>. QED
  BY <1>4, <1>5 DEF Deliver, New

\* The delivery of a result keeps everything in order; the calls that are still
\* pending have other new objects.
LEMMA DeliverMemory ==
  ASSUME IInv, Memory, env = "running", env' = env, cppOwned' = cppOwned,
         NEW w \in Wrappers, NEW r \in Results, NEW t,
         Deliver(w, r), Deliverable(r, t),
         heap'[r.ptr] # None, heap[r.ptr] # None \/ Unclaimed(r),
         \A q \in Ptrs \ {r.ptr} : heap'[q] = heap[q],
         \A s \in Slots : \/ call'[s] = call[s]
                          \/ call'[s] = Idle /\ (Done(s) => call[s].result = r),
         Unclaimed(r) =>
           \A s \in Slots : /\ call'[s] = call[s] /\ Done(s)
                            /\ Unclaimed(call[s].result)
                            => call[s].result.ptr # r.ptr
  PROVE  Memory'
<1>. DEFINE Found == /\ UNCHANGED <<status, class, self, owned, refers>>
                     /\ w \in Live /\ ~Unclaimed(r)
                     /\ \/ parent'[w] = parent[w]
                        \/ parent[w] = None /\ parent'[w] = r.parent
            Made == /\ status[w] = "none" /\ ~refers[w]
                    /\ parent'[w] = r.parent
                    /\ status' = [status EXCEPT ![w] = "live"]
                    /\ self' = [self EXCEPT ![w] = r.ptr]
                    /\ class' = [class EXCEPT ![w] = r.class]
                    /\ owned' = [owned EXCEPT ![w] = r.own]
                    /\ refers' = [refers EXCEPT ![w] = heap'[r.ptr] # None]
                    /\ Unclaimed(r) \/ Lent(r, t) \/ Nested(r, t)
<1>0. /\ held' \subseteq held \cup {w} /\ r.parent \in Live \cup {None}
      /\ \A v \in Wrappers \ {w} : parent'[v] = parent[v]
      /\ Found \/ Made
  BY DeliverEffect DEF Memory
<1>. HIDE DEF Found
<1>t. /\ status \in [Wrappers -> {"none", "live", "collected"}]
      /\ self \in [Wrappers -> Ptrs \cup {None}]
      /\ class \in [Wrappers -> Classes \cup {None}]
      /\ owned \in [Wrappers -> BOOLEAN] /\ refers \in [Wrappers -> BOOLEAN]
      /\ r.ptr \in Ptrs /\ r.own \in BOOLEAN
  BY DEF IInv, TypeOK, Results
<1>w. ASSUME Made
      PROVE  /\ w \notin Live /\ Live' = Live \cup {w}
             /\ self'[w] = r.ptr /\ owned'[w] = r.own /\ refers'[w]
             /\ parent'[w] = r.parent
             /\ \A v \in Wrappers \ {w} :
                  /\ status'[v] = status[v] /\ self'[v] = self[v]
                  /\ class'[v] = class[v] /\ owned'[v] = owned[v]
                  /\ refers'[v] = refers[v] /\ parent'[v] = parent[v]
  BY <1>0, <1>w, <1>t DEF Live
<1>f. ASSUME Found
      PROVE  /\ UNCHANGED <<status, class, self, owned, refers>> /\ Live' = Live
             /\ w \in Live /\ ~Unclaimed(r)
             /\ \/ parent'[w] = parent[w]
                \/ parent[w] = None /\ parent'[w] = r.parent
  BY <1>f DEF Found, Live
<1>. HIDE DEF Made
<1>p. Pinned' \subseteq Pinned
  BY DEF Pinned, Idle
<1>1. Alive'
  <2>1. \A v \in Wrappers : status'[v] = "none" => parent'[v] = None
    <3>1. CASE Found
      BY <1>0, <1>f, <3>1 DEF Memory, Alive, Live
    <3>2. CASE Made
      BY <1>0, <1>w, <3>2 DEF Memory, Alive, Live
    <3>. QED
      BY <1>0, <3>1, <3>2
  <2>2. held' \cup Pinned' \subseteq Live'
    BY <1>0, <1>p, <1>w, <1>f DEF Memory, Alive
  <2>3. \A v \in Live' : refers'[v] /\ parent'[v] \in Live' \cup {None}
    <3>1. CASE Found
      BY <1>0, <1>f, <3>1 DEF Memory, Alive, Live
    <3>2. CASE Made
      BY <1>0, <1>w, <3>2 DEF Memory, Alive, Live
    <3>. QED
      BY <1>0, <3>1, <3>2
  <2>. QED
    BY <2>1, <2>2, <2>3 DEF Alive
<1>2. Rooted'
  <2>. SUFFICES ASSUME NEW S \in SUBSET Live', Closed(S)', NEW u \in S
                PROVE  RootedIn(u, S)'
    BY DEF Rooted
  <2>1. CASE Found
    <3>1. Closed(S)
      BY <1>0, <1>f, <2>1 DEF Closed, Live
    <3>2. RootedIn(u, S)
      BY <1>f, <2>1, <3>1 DEF Memory, Rooted
    <3>. QED
      BY <1>f, <2>1, <3>2 DEF RootedIn
  <2>2. CASE Made /\ w \notin S
    <3>1. S \subseteq Live /\ S \subseteq Wrappers \ {w}
      BY <1>w, <2>2 DEF Live
    <3>2. Closed(S)
      BY <1>w, <2>2, <3>1 DEF Closed
    <3>3. RootedIn(u, S)
      BY <3>1, <3>2 DEF Memory, Rooted
    <3>. QED
      BY <1>w, <2>2, <3>1, <3>3 DEF RootedIn
  <2>3. CASE Made /\ w \in S
    <3>. DEFINE T == S \ {w}
    <3>1. T \subseteq Live /\ T \subseteq Wrappers \ {w}
      BY <1>w, <2>3 DEF Live
    <3>2. Closed(T)
      BY <1>w, <2>3, <3>1 DEF Closed, Memory, Alive
    <3>3. ASSUME NEW v \in T PROVE RootedIn(v, S)'
      <4>1. RootedIn(v, T)
        BY <3>1, <3>2 DEF Memory, Rooted
      <4>. QED
        BY <1>w, <2>3, <3>1, <4>1 DEF RootedIn
    <3>4. RootedIn(w, S)'
      <4>1. CASE Unclaimed(r)
        BY <1>w, <2>3, <4>1 DEF Unclaimed, RootedIn
      <4>2. CASE Lent(r, t)
        BY <1>w, <2>3, <4>2 DEF Lent, RootedIn
      <4>3. CASE Nested(r, t)
        <5>1. t \in T /\ self'[t] = self'[w]
          BY <1>w, <2>3, <4>3, NoneAssumption DEF Nested, Closed, Live
        <5>. QED
          BY <3>3, <5>1 DEF RootedIn
      <4>. QED
        BY <2>3, <4>1, <4>2, <4>3 DEF Made
    <3>. QED
      BY <3>3, <3>4
  <2>. QED
    BY <1>0, <2>1, <2>2, <2>3
<1>o. ASSUME NEW v \in Wrappers, NEW p \in Ptrs
      PROVE  Owner(v, p)' <=> \/ Owner(v, p)
                              \/ v = w /\ p = r.ptr /\ r.own /\ Made
  <2>1. CASE Found
    BY <1>f, <2>1 DEF Owner, Made, Live
  <2>2. CASE Made
    <3>1. CASE v = w
      BY <1>w, <2>2, <3>1 DEF Owner, Made, Live
    <3>2. CASE v # w
      BY <1>w, <2>2, <3>2 DEF Owner
    <3>. QED
      BY <3>1, <3>2
  <2>. QED
    BY <1>0, <2>1, <2>2
<1>u. Made /\ r.own => Unclaimed(r)
  BY DEF Made, Lent, Nested
<1>3. Owners'
  <2>1. \A p \in cppOwned' : heap'[p] # None
    BY DEF Memory, Owners, IInv, TypeOK
  <2>. SUFFICES ASSUME NEW v \in Wrappers, NEW p \in Ptrs, Owner(v, p)'
                PROVE  /\ refers'[v] /\ p \notin cppOwned'
                       /\ \A z \in Wrappers : Owner(z, p)' => z = v
    BY <2>1 DEF Owners
  <2>2. CASE Unclaimed(r) /\ p = r.ptr /\ Made
    <3>1. \A z \in Wrappers : ~Owner(z, p)
      BY <2>2 DEF Unclaimed, Memory, Owners, Owner
    <3>. QED
      BY <1>o, <1>w, <2>2, <3>1 DEF Unclaimed
  <2>3. CASE ~(Unclaimed(r) /\ p = r.ptr /\ Made)
    <3>1. \A z \in Wrappers : Owner(z, p)' <=> Owner(z, p)
      BY <1>o, <1>u, <2>3
    <3>2. refers[v] /\ p \notin cppOwned /\ \A z \in Wrappers : Owner(z, p) => z = v
      BY <3>1 DEF Memory, Owners
    <3>3. refers'[v]
      BY <1>0, <1>f, <1>w, <3>2
    <3>. QED
      BY <3>1, <3>2, <3>3
  <2>. QED
    BY <2>2, <2>3
\* what is still awaited stays what it was
<1>4. ASSUME NEW s \in Slots, Done(s)'
      PROVE  /\ call'[s] = call[s] /\ Done(s)
             /\ call[s].result \in Results /\ call[s].this \in Wrappers
             /\ heap'[call[s].result.ptr] # None
  <2>1. call'[s] = call[s] /\ Done(s)
    BY <1>4 DEF Done, Idle
  <2>2. call[s].result \in Results /\ call[s].this \in Wrappers
    BY <2>1 DEF Done, IInv, TypeOK, Calls, Idle
  <2>. QED
    BY <2>1, <2>2 DEF Memory, Awaited, Results
<1>5. ASSUME NEW s \in Slots, Done(s)', NEW q, q = call[s].result
      PROVE  Unclaimed(q)' <=> Unclaimed(q)
  <2>1. Done(s) /\ call'[s] = call[s] /\ q \in Results
    BY <1>4, <1>5
  <2>2. CASE Found
    BY <1>f, <2>2 DEF Unclaimed
  <2>3. CASE Made
    <3>1. Unclaimed(q)' => Unclaimed(q)
      BY <1>w, <2>3 DEF Unclaimed, Made
    <3>2. ASSUME Unclaimed(q) PROVE q.ptr # r.ptr
      <4>1. CASE Unclaimed(r)
        BY <1>5, <2>1, <3>2, <4>1
      <4>2. CASE Lent(r, t)
        BY <3>2, <4>2 DEF Lent, Unclaimed
      <4>3. CASE Nested(r, t)
        BY <3>2, <4>3 DEF Nested, Unclaimed, Memory, Alive, Live
      <4>. QED
        BY <2>3, <4>1, <4>2, <4>3 DEF Made
    <3>3. Unclaimed(q) => Unclaimed(q)'
      BY <1>w, <2>3, <3>2 DEF Unclaimed
    <3>. QED
      BY <3>1, <3>3
  <2>. QED
    BY <1>0, <2>2, <2>3
<1>6. Awaited'
  <2>1. ASSUME NEW s \in Slots, Done(s)'
        PROVE  Deliverable(call[s].result, call[s].this)'
    <3>1. Done(s) /\ call'[s] = call[s]
      BY <1>4, <2>1
    <3>2. PICK x, y : x = call[s].result /\ y = call[s].this
      OBVIOUS
    <3>3. Deliverable(x, y)
      BY <3>1, <3>2 DEF Memory, Awaited
    <3>4. \A v \in Live : /\ v \in Live' /\ self'[v] = self[v]
                          /\ class'[v] = class[v]
      BY <1>0, <1>f, <1>w DEF Live
    <3>5. Unclaimed(x) => Unclaimed(x)'
      BY <1>5, <2>1, <3>2
    <3>6. Deliverable(x, y)'
      BY <3>3, <3>4, <3>5 DEF Deliverable, Lent, Same, Nested
    <3>. QED
      BY <3>1, <3>2, <3>6 DEF Deliverable, Lent, Same, Nested, Unclaimed
  <2>2. ASSUME NEW s \in Slots, NEW z \in Slots,
               Done(s)', Unclaimed(call[s].result)',
               Done(z)', Unclaimed(call[z].result)',
               call'[s].result.ptr = call'[z].result.ptr
        PROVE  s = z
    <3>1. /\ Done(s) /\ call'[s] = call[s] /\ Done(z) /\ call'[z] = call[z]
      BY <1>4, <2>2
    <3>2. PICK x, y : x = call[s].result /\ y = call[z].result
      OBVIOUS
    <3>3. Unclaimed(x)' /\ Unclaimed(y)'
      BY <2>2, <3>1, <3>2 DEF Unclaimed
    <3>4. Unclaimed(x) /\ Unclaimed(y)
      BY <1>5, <2>2, <3>2, <3>3
    <3>. QED
      BY <2>2, <3>1, <3>2, <3>4 DEF Memory, Awaited
  <2>3. \A s \in Slots : Done(s)' => heap'[call'[s].result.ptr] # None
    BY <1>4
  <2>. QED
    BY <2>1, <2>2, <2>3 DEF Awaited
<1>7. Claimed'
  <2>. SUFFICES ASSUME NEW p \in Ptrs, heap'[p] # None
                PROVE  \/ p \in cppOwned'
                       \/ \E v \in Wrappers : Owner(v, p)'
                       \/ \E s \in Slots : /\ Done(s)' /\ Unclaimed(call[s].result)'
                                           /\ call'[s].result.ptr = p
    BY DEF Claimed
  <2>1. CASE Unclaimed(r) /\ p = r.ptr
    <3>1. Made /\ r.own
      BY <1>0, <1>f, <2>1 DEF Unclaimed
    <3>. QED
      BY <1>o, <2>1, <3>1
  <2>2. CASE ~(Unclaimed(r) /\ p = r.ptr)
    <3>1. heap[p] # None
      BY <2>2
    <3>2. CASE p \in cppOwned
      BY <3>2
    <3>3. CASE \E v \in Wrappers : Owner(v, p)
      BY <1>o, <3>3
    <3>4. CASE \E s \in Slots : /\ Done(s) /\ Unclaimed(call[s].result)
                                /\ call[s].result.ptr = p
      <4>1. PICK s \in Slots : /\ Done(s) /\ Unclaimed(call[s].result)
                               /\ call[s].result.ptr = p
        BY <3>4
      <4>2. call'[s] = call[s] /\ Done(s)'
        BY <2>2, <4>1 DEF Done
      <4>3. PICK x : x = call[s].result
        OBVIOUS
      <4>4. Unclaimed(x)'
        BY <1>5, <4>1, <4>2, <4>3
      <4>5. Unclaimed(call[s].result)'
        BY <4>2, <4>3, <4>4 DEF Unclaimed
      <4>. QED
        BY <4>1, <4>2, <4>5
    <3>. QED
      BY <3>1, <3>2, <3>3, <3>4 DEF Memory, Claimed
  <2>. QED
    BY <2>1, <2>2
<1>. QED
  BY <1>1, <1>2, <1>3, <1>6, <1>7 DEF Memory

\* Constructing an object delivers it: no live wrapper is left at its address.
LEMMA ConstructDelivers ==
  ASSUME IInv, Memory, NEW w \in Wrappers, NEW c \in Classes, NEW p \in Ptrs,
         Construct(w, c, p), NEW r \in Results,
         r = [class |-> c, ptr |-> p, own |-> TRUE, parent |-> None]
  PROVE  Deliver(w, r) /\ Unclaimed(r)
<1>1. Unclaimed(r)
  BY DEF Construct, Unclaimed, Memory, Owners, IInv, Safe, Allocated
<1>2. Lookup(store, Expired, c, p) = None
  <2>1. store[c][p] \notin Live
    BY <1>1 DEF Unclaimed, Construct, JSCanRun, IInv, Safe, Sound, Memory, Alive,
                Live
  <2>. QED
    BY <2>1, LookupLive DEF IInv
<1>3. Put(Swept(store, Expired, c, p), c, p, w) = Put(store, c, p, w)
  <2>1. store \in Stores
    BY DEF IInv, TypeOK
  <2>. QED
    BY <2>1 DEF Put, Swept, Erase, Stores
<1>4. NewWrapped(w, c, p, TRUE)
  BY <1>2, <1>3 DEF Construct, NewWrapped
<1>5. SetupNested(w, r)
  BY DEF Construct, SetupNested
<1>. QED
  BY <1>1, <1>4, <1>5 DEF Deliver, New

\* What a method of a live wrapper returns can be delivered; it is unclaimed
\* only when it has just been allocated.
LEMMA MethodDeliverable ==
  ASSUME IInv, Memory, env = "running", ~SharedViews, NEW this \in Live,
         NEW r \in MethodResults(this), Allocate(r)
  PROVE  /\ r \in Results /\ Deliverable(r, this)
         /\ heap[r.ptr] # None \/ Unclaimed(r)
         /\ Unclaimed(r) => heap[r.ptr] = None
         /\ heap'[r.ptr] # None
         /\ \A q \in Ptrs \ {r.ptr} : heap'[q] = heap[q]
<1>0. this \in Wrappers /\ refers[this] /\ heap[self[this]] # None
  BY DEF Live, Memory, Alive, IInv, Safe, Allocated
<1>1. r \in Results /\ r.ptr \in Ptrs /\ r.class \in Classes
  BY MethodResultsTyping DEF Results
<1>2. /\ heap'[r.ptr] # None
      /\ \A q \in Ptrs \ {r.ptr} : heap'[q] = heap[q]
  BY <1>1, NoneAssumption DEF Allocate, IInv, TypeOK
<1>3. CASE r \in Fresh
  <2>1. Unclaimed(r) /\ heap[r.ptr] = None
    BY <1>3 DEF Fresh, Unclaimed, Memory, Owners, IInv, Safe, Allocated
  <2>. QED
    BY <1>1, <1>2, <2>1 DEF Deliverable
<1>4. CASE r \in Static({None, this})
  <2>1. Lent(r, this) /\ heap[r.ptr] # None /\ ~Unclaimed(r)
    BY <1>4 DEF Static, Lent, Memory, Owners, Unclaimed
  <2>. QED
    BY <1>1, <1>2, <2>1 DEF Deliverable
<1>5. CASE r \in PassThrough(this) \cup Member(this)
  <2>1. /\ Same(r, this) \/ Nested(r, this)
        /\ r.ptr = self[this]
    BY <1>5 DEF PassThrough, Member, Same, Nested
  <2>2. ~Unclaimed(r)
    BY <1>0, <2>1 DEF Unclaimed
  <2>. QED
    BY <1>0, <1>1, <1>2, <2>1, <2>2 DEF Deliverable
<1>6. r \notin View(this)
  BY DEF View
<1>. QED
  BY <1>3, <1>4, <1>5, <1>6 DEF MethodResults

\* A result that is awaited exists.
LEMMA AwaitedExist ==
  ASSUME IInv, Memory, NEW s \in Slots, Done(s)
  PROVE  /\ call[s].result \in Results /\ call[s].this \in Pinned
         /\ heap[call[s].result.ptr] # None
<1>1. call[s].result \in Results
  BY DEF Done, IInv, TypeOK, Calls, Idle
<1>. QED
  BY <1>1 DEF Memory, Awaited, Pinned, Done

\* Results stay what they are while wrappers and objects that they are not made
\* of come and go.
LEMMA AwaitedStays ==
  ASSUME IInv, Memory, Alive', env = "running", env' = env, call' = call,
         \A v \in Pinned : self'[v] = self[v] /\ class'[v] = class[v],
         \A v \in Wrappers : refers'[v] => refers[v] /\ self'[v] = self[v],
         \A s \in Slots :
           Done(s) => /\ heap'[call[s].result.ptr] # None
                      /\ call[s].result.ptr \in cppOwned'
                           <=> call[s].result.ptr \in cppOwned
  PROVE  /\ Awaited'
         /\ \A s \in Slots : Done(s) /\ Unclaimed(call[s].result)
                               => Unclaimed(call[s].result)'
<1>1. Pinned' = Pinned
  BY DEF Pinned
<1>2. \A v \in Pinned : v \in Live /\ v \in Live' /\ refers'[v] /\ v \in Wrappers
  BY <1>1 DEF Memory, Alive, Live
<1>3. ASSUME NEW s \in Slots, Done(s), NEW q, q = call[s].result,
             NEW d, d = call[s].this
      PROVE  /\ Deliverable(q, d)'
             /\ Unclaimed(q)' <=> Unclaimed(q)
  <2>1. Deliverable(q, d) /\ d \in Pinned
    BY <1>3, AwaitedExist DEF Memory, Awaited
  <2>2. Unclaimed(q) => Unclaimed(q)'
    BY <1>3 DEF Unclaimed
  <2>3. Lent(q, d) => Lent(q, d)' /\ ~Unclaimed(q)'
    BY <1>2, <1>3, <2>1 DEF Lent, Unclaimed
  <2>4. Same(q, d) => Same(q, d)' /\ ~Unclaimed(q)'
    BY <1>2, <2>1 DEF Same, Unclaimed
  <2>5. Nested(q, d) => Nested(q, d)' /\ ~Unclaimed(q)'
    BY <1>2, <2>1 DEF Nested, Unclaimed
  <2>. QED
    BY <2>1, <2>2, <2>3, <2>4, <2>5 DEF Deliverable
<1>4. ASSUME NEW s \in Slots, Done(s)
      PROVE  /\ Deliverable(call[s].result, call[s].this)'
             /\ Unclaimed(call[s].result)' <=> Unclaimed(call[s].result)
  <2>1. PICK x, y : x = call[s].result /\ y = call[s].this
    OBVIOUS
  <2>2. Deliverable(x, y)' /\ (Unclaimed(x)' <=> Unclaimed(x))
    BY <1>3, <1>4, <2>1
  <2>. QED
    BY <2>1, <2>2 DEF Deliverable, Lent, Same, Nested, Unclaimed
<1>5. \A s \in Slots : Done(s)' <=> Done(s)
  BY DEF Done
<1>6. Awaited'
  <2>1. ASSUME NEW s \in Slots, NEW z \in Slots,
               Done(s), Unclaimed(call[s].result)',
               Done(z), Unclaimed(call[z].result)',
               call[s].result.ptr = call[z].result.ptr
        PROVE  s = z
    BY <1>4, <2>1 DEF Memory, Awaited
  <2>. QED
    BY <1>4, <1>5, <2>1 DEF Awaited
<1>. QED
  BY <1>4, <1>6

\* Calls that begin, fail or end with an exception, and a reference that the
\* program drops.
LEMMA CallsMemory ==
  ASSUME IInv, Memory,
         \/ \E s \in Slots, this \in Wrappers : CallAsync(s, this)
         \/ \E s \in Slots : ExecuteThrows(s) \/ OnError(s)
         \/ \E w \in Wrappers : Drop(w)
  PROVE  Memory'
<1>1. /\ UNCHANGED <<heap, cppOwned, env, status, class, self, owned, refers, parent>>
      /\ held' \subseteq held
  BY DEF CallAsync, ExecuteThrows, OnError, Drop, memory, wrapper
<1>2. \A s \in Slots : Done(s) \/ Done(s)' => call'[s] = call[s]
  BY DEF CallAsync, ExecuteThrows, OnError, Drop, Done, IInv, TypeOK, Calls, Idle
<1>3. env = "running" => Pinned' \subseteq Pinned \cup held
  BY DEF CallAsync, ExecuteThrows, OnError, Drop, Pinned, IInv, TypeOK, Idle
<1>4. env = "exiting" => \A s \in Slots : call'[s] = Idle
  BY DEF CallAsync, ExecuteThrows, OnError, Drop, Memory, Awaited, Idle, JSCanRun
<1>5. Alive'
  BY <1>1, <1>3 DEF Memory, Alive, Live
<1>6. Rooted' /\ Owners'
  BY <1>1 DEF Memory, Rooted, RootedIn, Closed, Owners, Owner, Live
<1>7. \A s \in Slots : Done(s)' <=> Done(s)
  BY <1>2 DEF Done
<1>8. ASSUME NEW s \in Slots, Done(s)
      PROVE  /\ Deliverable(call[s].result, call[s].this)'
               <=> Deliverable(call[s].result, call[s].this)
             /\ Unclaimed(call[s].result)' <=> Unclaimed(call[s].result)
             /\ heap'[call'[s].result.ptr] = heap[call[s].result.ptr]
             /\ call'[s].result.ptr = call[s].result.ptr
  BY <1>1, <1>2, <1>8
  DEF Deliverable, Lent, Same, Nested, Unclaimed, Live
<1>9. Awaited'
  BY <1>1, <1>4, <1>7, <1>8 DEF Memory, Awaited
<1>10. Claimed'
  BY <1>1, <1>7, <1>8 DEF Memory, Claimed, Owner
<1>. QED
  BY <1>5, <1>6, <1>9, <1>10 DEF Memory

\* A background thread computes a result.
LEMMA ExecuteMemory ==
  ASSUME IInv, Memory, ~SharedViews, NEW s \in Slots, Execute(s)
  PROVE  Memory'
<1>0. PICK r \in MethodResults(call[s].this) :
        /\ Allocate(r)
        /\ call' = [call EXCEPT ![s] = [phase |-> "done", this |-> call[s].this,
                                        result |-> r]]
  BY DEF Execute
<1>1. /\ UNCHANGED <<cppOwned, env, status, class, self, owned, refers, parent, held>>
      /\ call[s].phase = "queued"
  BY DEF Execute, wrapper
<1>2. env = "running"
  BY <1>1 DEF Memory, Awaited, Idle, IInv, TypeOK
<1>3. PICK d \in Wrappers : d = call[s].this
  BY <1>1 DEF IInv, TypeOK, Calls, Idle
<1>4. d \in Live
  BY <1>1, <1>2, <1>3 DEF Memory, Alive, Pinned
<1>5. /\ r \in Results /\ Deliverable(r, d)
      /\ heap[r.ptr] # None \/ Unclaimed(r)
      /\ Unclaimed(r) => heap[r.ptr] = None
      /\ heap'[r.ptr] # None
      /\ \A q \in Ptrs \ {r.ptr} : heap'[q] = heap[q]
  BY <1>0, <1>2, <1>3, <1>4, MethodDeliverable
<1>6. /\ Done(s)' /\ call'[s].result = r /\ call'[s].this = d /\ ~Done(s)
      /\ \A z \in Slots \ {s} : call'[z] = call[z] /\ (Done(z)' <=> Done(z))
  BY <1>0, <1>1, <1>3 DEF Done, IInv, TypeOK
<1>7. Pinned' = Pinned
  <2>1. \A z \in Slots : /\ call'[z].phase # "idle" <=> call[z].phase # "idle"
                         /\ call[z].phase # "idle" => call'[z].this = call[z].this
    BY <1>1, <1>3, <1>6 DEF Done
  <2>. QED
    BY <2>1 DEF Pinned
<1>8. Alive'
  BY <1>1, <1>7 DEF Memory, Alive, Live
<1>9. Rooted' /\ Owners'
  <2>1. \A p \in cppOwned : heap'[p] # None
    BY <1>5 DEF Memory, Owners, IInv, TypeOK
  <2>. QED
    BY <1>1, <2>1 DEF Memory, Rooted, RootedIn, Closed, Owners, Owner, Live
<1>10. \A x : Unclaimed(x)' <=> Unclaimed(x)
  BY <1>1 DEF Unclaimed
<1>11. \A x, y : Deliverable(x, y)' <=> Deliverable(x, y)
  BY <1>1, <1>10 DEF Deliverable, Lent, Same, Nested, Live
<1>12. ASSUME NEW z \in Slots, Done(z)'
       PROVE  \/ z = s /\ call'[z].result = r /\ call'[z].this = d
              \/ /\ z # s /\ Done(z) /\ call'[z] = call[z]
                 /\ heap[call[z].result.ptr] # None
                 /\ Deliverable(call[z].result, call[z].this)
                 /\ call[z].result.ptr \in Ptrs
  BY <1>6, <1>12, AwaitedExist DEF Memory, Awaited, Results
<1>13. Awaited'
  <2>1. ASSUME NEW z \in Slots, Done(z)'
        PROVE  /\ heap'[call'[z].result.ptr] # None
               /\ Deliverable(call[z].result, call[z].this)'
    <3>1. PICK x, y : x = call'[z].result /\ y = call'[z].this
      OBVIOUS
    <3>2. Deliverable(x, y)'
      BY <1>5, <1>11, <1>12, <2>1, <3>1
    <3>3. Deliverable(call[z].result, call[z].this)'
      BY <3>1, <3>2 DEF Deliverable, Lent, Same, Nested, Unclaimed
    <3>. QED
      BY <1>5, <1>12, <2>1, <3>3
  <2>2. ASSUME NEW z \in Slots, NEW y \in Slots,
               Done(z)', Unclaimed(call[z].result)',
               Done(y)', Unclaimed(call[y].result)',
               call'[z].result.ptr = call'[y].result.ptr
        PROVE  z = y
    <3>1. PICK a, b : a = call'[z].result /\ b = call'[y].result
      OBVIOUS
    <3>2. Unclaimed(a) /\ Unclaimed(b)
      BY <1>1, <2>2, <3>1 DEF Unclaimed
    <3>. QED
      BY <1>5, <1>12, <2>2, <3>1, <3>2 DEF Memory, Awaited
  <2>. QED
    BY <1>1, <1>2, <2>1, <2>2 DEF Awaited
<1>14. Claimed'
  <2>. SUFFICES ASSUME NEW p \in Ptrs, heap'[p] # None
                PROVE  \/ p \in cppOwned'
                       \/ \E v \in Wrappers : Owner(v, p)'
                       \/ \E z \in Slots : /\ Done(z)' /\ Unclaimed(call[z].result)'
                                           /\ call'[z].result.ptr = p
    BY DEF Claimed
  <2>1. CASE heap[p] = None
    <3>1. p = r.ptr /\ Unclaimed(r)
      BY <1>5, <2>1
    <3>2. Unclaimed(call[s].result)'
      BY <1>1, <1>6, <3>1 DEF Unclaimed
    <3>. QED
      BY <1>6, <3>1, <3>2
  <2>2. CASE heap[p] # None
    <3>1. CASE \E z \in Slots : /\ Done(z) /\ Unclaimed(call[z].result)
                                /\ call[z].result.ptr = p
      <4>1. PICK z \in Slots : /\ Done(z) /\ Unclaimed(call[z].result)
                               /\ call[z].result.ptr = p
        BY <3>1
      <4>2. Done(z)' /\ call'[z] = call[z]
        BY <1>6, <4>1
      <4>3. Unclaimed(call[z].result)'
        BY <1>1, <4>1, <4>2 DEF Unclaimed
      <4>. QED
        BY <4>1, <4>2, <4>3
    <3>. QED
      BY <1>1, <2>2, <3>1 DEF Memory, Claimed, Owner
  <2>. QED
    BY <2>1, <2>2
<1>. QED
  BY <1>8, <1>9, <1>13, <1>14 DEF Memory

\* C++ makes and frees objects of its own.
LEMMA CppMemory ==
  ASSUME IInv, Memory, NEW p \in Ptrs,
         (\E c \in Classes : CppCreate(p, c)) \/ CppDestroy(p)
  PROVE  Memory'
<1>1. /\ UNCHANGED <<env, status, class, self, owned, parent, held, call>>
      /\ \A w \in Wrappers : refers'[w] => refers[w]
  BY DEF CppCreate, CppDestroy, wrapper
<1>2. /\ \A q \in Ptrs \ {p} : /\ heap'[q] = heap[q]
                               /\ q \in cppOwned' <=> q \in cppOwned
      /\ \A s \in Slots : Done(s) => call[s].result.ptr \in Ptrs \ {p}
      /\ heap'[p] # None <=> p \in cppOwned'
      /\ heap[p] = None \/ p \in cppOwned
  <2>1. \A s \in Slots :
          Done(s) => /\ call[s].result.ptr \in Ptrs
                     /\ heap[call[s].result.ptr] # None
    BY AwaitedExist DEF Results
  <2>2. CASE CppDestroy(p)
    BY <2>1, <2>2 DEF CppDestroy, Done, IInv, TypeOK
  <2>3. CASE \E c \in Classes : CppCreate(p, c)
    BY <2>1, <2>3, NoneAssumption DEF CppCreate, IInv, TypeOK
  <2>. QED
    BY <2>2, <2>3
<1>3. ASSUME NEW w \in Wrappers, NEW q \in Ptrs, Owner(w, q)
      PROVE  q # p /\ refers'[w]
  <2>1. q # p
    BY <1>2, <1>3 DEF Memory, Owners, Owner, IInv, Safe, Allocated
  <2>. QED
    BY <1>3, <2>1 DEF CppCreate, CppDestroy, wrapper, Memory, Owners, Owner
<1>4. env = "running" => \A w \in Live : refers'[w] /\ (p \in cppOwned => p \in cppOwned' \/ self[w] # p)
  BY DEF CppCreate, CppDestroy, wrapper, Memory, Alive, Live
<1>5. Alive'
  BY <1>1, <1>4 DEF Memory, Alive, Live, Pinned
<1>6. Rooted'
  <2>1. env = "running" =>
          \A w \in Live : self[w] \in cppOwned => self[w] \in cppOwned'
    BY <1>2, <1>4 DEF IInv, TypeOK
  <2>. QED
    BY <1>1, <2>1 DEF Memory, Rooted, RootedIn, Closed, Live
<1>7. Owners'
  <2>1. \A q \in cppOwned' : heap'[q] # None
    BY <1>2 DEF Memory, Owners, IInv, TypeOK, CppCreate, CppDestroy
  <2>2. \A w \in Wrappers, q \in Ptrs : Owner(w, q)' <=> Owner(w, q)
    BY <1>1 DEF Owner
  <2>. QED
    BY <1>2, <1>3, <2>1, <2>2 DEF Memory, Owners
<1>8. /\ Awaited'
      /\ \A s \in Slots : Done(s) /\ Unclaimed(call[s].result)
                            => Unclaimed(call[s].result)'
  <2>1. CASE env = "running"
    <3>1. \A s \in Slots :
            Done(s) => /\ heap'[call[s].result.ptr] # None
                       /\ call[s].result.ptr \in cppOwned'
                            <=> call[s].result.ptr \in cppOwned
      BY <1>2, AwaitedExist
    <3>. QED
      BY <1>1, <1>5, <2>1, <3>1, AwaitedStays
  <2>2. CASE env # "running"
    BY <1>1, <2>2 DEF Memory, Awaited, IInv, TypeOK, Done, Idle
  <2>. QED
    BY <2>1, <2>2
<1>9. Claimed'
  <2>. SUFFICES ASSUME NEW q \in Ptrs, heap'[q] # None, q # p
                PROVE  \/ q \in cppOwned'
                       \/ \E v \in Wrappers : Owner(v, q)'
                       \/ \E s \in Slots : /\ Done(s)' /\ Unclaimed(call[s].result)'
                                           /\ call'[s].result.ptr = q
    BY <1>2 DEF Claimed
  <2>1. /\ heap[q] # None
        /\ \A v \in Wrappers : Owner(v, q)' <=> Owner(v, q)
        /\ \A s \in Slots : Done(s)' <=> Done(s)
    BY <1>1, <1>2 DEF Owner, Done
  <2>. QED
    BY <1>1, <1>2, <1>8, <2>1 DEF Memory, Claimed
<1>. QED
  BY <1>5, <1>6, <1>7, <1>8, <1>9 DEF Memory

\* What is collected is neither in use nor the parent of what is.
LEMMA CollectMemory ==
  ASSUME IInv, Memory, NEW S \in SUBSET Wrappers, Collect(S)
  PROVE  Memory'
<1>1. /\ UNCHANGED <<heap, cppOwned, env, class, self, owned, parent, refers,
                     held, call>>
      /\ status' = [w \in Wrappers |-> IF w \in S THEN "collected" ELSE status[w]]
      /\ env = "running" /\ S \subseteq Live \ Reachable
      /\ \A w \in Live \ S : parent[w] \notin S
  BY DEF Collect, JSCanRun, memory
<1>2. Live' = Live \ S
  BY <1>1 DEF Live
<1>3. held \cup Pinned \subseteq Reachable
  BY <1>1 DEF Memory, Alive, Reachable
<1>4. Alive'
  BY <1>1, <1>2, <1>3, NoneAssumption DEF Memory, Alive, Live, Pinned
<1>5. Rooted'
  BY <1>1, <1>2 DEF Memory, Rooted, RootedIn, Closed
<1>6. \A w \in Wrappers : status'[w] # "none" <=> status[w] # "none"
  BY <1>1 DEF Live
<1>7. \A w \in Wrappers, p \in Ptrs : Owner(w, p)' <=> Owner(w, p)
  BY <1>1, <1>6 DEF Owner
<1>8. Owners'
  BY <1>1, <1>7 DEF Memory, Owners
<1>9. /\ Awaited'
      /\ \A s \in Slots : Done(s) /\ Unclaimed(call[s].result)
                            => Unclaimed(call[s].result)'
  BY <1>1, <1>4, AwaitedExist, AwaitedStays
<1>10. \A s \in Slots : Done(s)' <=> Done(s)
  BY <1>1 DEF Done
<1>11. Claimed'
  BY <1>1, <1>7, <1>9, <1>10 DEF Memory, Claimed
<1>. QED
  BY <1>4, <1>5, <1>8, <1>9, <1>11 DEF Memory

\* A destructor frees an object that no wrapper in use stands for.
LEMMA FinalizeMemory ==
  ASSUME IInv, Memory, NEW w \in Wrappers, NEW js, NEW stale, Finalize(w, js, stale)
  PROVE  Memory'
<1>1. /\ UNCHANGED <<cppOwned, env, held, call>>
      /\ status' = [status EXCEPT ![w] = "none"]
      /\ class' = [class EXCEPT ![w] = None]
      /\ self' = [self EXCEPT ![w] = None]
      /\ owned' = [owned EXCEPT ![w] = FALSE]
      /\ parent' = [parent EXCEPT ![w] = None]
      /\ status[w] # "none" /\ self[w] \in Ptrs
      /\ env = "running" => w \notin Live
  BY DEF Finalize, IInv, TypeOK, Live
<1>2. \A v \in Wrappers \ {w} :
        /\ status'[v] = status[v] /\ self'[v] = self[v] /\ owned'[v] = owned[v]
        /\ class'[v] = class[v] /\ parent'[v] = parent[v]
  BY <1>1 DEF IInv, TypeOK
<1>3. /\ status'[w] = "none" /\ parent'[w] = None /\ ~refers'[w] /\ ~owned'[w]
      /\ \A v \in Wrappers : refers'[v] => refers[v]
      /\ \A q \in Ptrs : heap'[q] = IF Owner(w, q) THEN None ELSE heap[q]
      /\ \A v \in Wrappers \ {w} :
           refers[v] /\ ~refers'[v] => Owner(w, self[v])
  <2>1. CASE owned[w]
    BY <1>1, <2>1 DEF Finalize, Free, Owner, IInv, TypeOK
  <2>2. CASE ~owned[w]
    BY <1>1, <2>2 DEF Finalize, Free, Owner, IInv, TypeOK
  <2>. QED
    BY <2>1, <2>2 DEF IInv, TypeOK
<1>4. \A v \in Wrappers, p \in Ptrs : Owner(v, p)' <=> v # w /\ Owner(v, p)
  BY <1>2, <1>3 DEF Owner
<1>5. ASSUME env = "running" PROVE Live' = Live
  BY <1>1, <1>2, <1>3, <1>5 DEF Live
\* the crux: what is alive has an owner that is alive
<1>6. ASSUME env = "running", NEW v \in Live PROVE ~Owner(w, self[v])
  <2>1. Closed(Live)
    BY <1>6 DEF Closed, Memory, Alive
  <2>2. RootedIn(v, Live) /\ self[v] \in Ptrs
    BY <1>6, <2>1 DEF Memory, Rooted, IInv, TypeOK, Live
  <2>3. \A o \in Live : owned[o] /\ self[o] = self[v] => Owner(o, self[v])
    BY DEF Owner, Live
  <2>. QED
    BY <1>1, <1>6, <2>2, <2>3 DEF RootedIn, Memory, Owners, Live
<1>7. Alive'
  <2>1. ASSUME env = "running", NEW v \in Live
        PROVE  refers'[v] /\ parent'[v] \in Live' \cup {None}
    <3>1. v \in Wrappers \ {w}
      BY <1>1, <2>1 DEF Live
    <3>. QED
      BY <1>2, <1>3, <1>5, <1>6, <2>1, <3>1 DEF Memory, Alive
  <2>2. \A v \in Wrappers : status'[v] = "none" => parent'[v] = None
    BY <1>2, <1>3 DEF Memory, Alive
  <2>3. Pinned' = Pinned
    BY <1>1 DEF Pinned
  <2>. QED
    BY <1>1, <1>5, <2>1, <2>2, <2>3 DEF Memory, Alive
<1>8. Rooted'
  <2>. SUFFICES ASSUME env = "running", NEW S \in SUBSET Live, Closed(S)',
                       NEW v \in S
                PROVE  RootedIn(v, S)'
    BY <1>1, <1>5 DEF Rooted
  <2>1. S \subseteq Wrappers \ {w}
    BY <1>1 DEF Live
  <2>2. RootedIn(v, S)
    BY <1>2, <2>1 DEF Closed, Memory, Rooted
  <2>. QED
    BY <1>1, <1>2, <2>1, <2>2 DEF RootedIn
<1>9. Owners'
  <2>1. \A q \in cppOwned : heap'[q] # None
    BY <1>3 DEF Memory, Owners, IInv, TypeOK
  <2>2. ASSUME NEW v \in Wrappers, NEW p \in Ptrs, Owner(v, p)'
        PROVE  /\ refers'[v] /\ p \notin cppOwned'
               /\ \A z \in Wrappers : Owner(z, p)' => z = v
    <3>1. v # w /\ Owner(v, p) /\ self[v] = p
      BY <1>4, <2>2 DEF Owner
    <3>2. ~Owner(w, p)
      BY <3>1 DEF Memory, Owners
    <3>. QED
      BY <1>1, <1>3, <1>4, <3>1, <3>2 DEF Memory, Owners
  <2>. QED
    BY <1>1, <2>1, <2>2 DEF Owners
<1>10. /\ Awaited'
       /\ \A s \in Slots : Done(s) /\ Unclaimed(call[s].result)
                             => Unclaimed(call[s].result)'
  <2>1. CASE env = "running"
    <3>1. \A v \in Pinned : self'[v] = self[v] /\ class'[v] = class[v]
      BY <1>1, <1>2, <2>1 DEF Memory, Alive, Live
    <3>2. \A v \in Wrappers : refers'[v] => refers[v] /\ self'[v] = self[v]
      BY <1>2, <1>3
    <3>3. ASSUME NEW s \in Slots, Done(s)
          PROVE  heap'[call[s].result.ptr] # None
      <4>. DEFINE q == call[s].result
      <4>1. q.ptr \in Ptrs /\ heap[q.ptr] # None /\ Deliverable(q, call[s].this)
        BY <3>3, AwaitedExist DEF Results, Memory, Awaited
      <4>2. ~Owner(w, q.ptr)
        BY <1>6, <2>1, <4>1
        DEF Deliverable, Lent, Same, Nested, Unclaimed, Memory, Owners, Owner
      <4>. QED
        BY <1>3, <4>1, <4>2
    <3>. QED
      BY <1>1, <1>7, <2>1, <3>1, <3>2, <3>3, AwaitedStays
  <2>2. CASE env # "running"
    BY <1>1, <2>2 DEF Memory, Awaited, IInv, TypeOK, Done, Idle
  <2>. QED
    BY <2>1, <2>2
<1>11. Claimed'
  <2>. SUFFICES ASSUME NEW q \in Ptrs, heap'[q] # None
                PROVE  \/ q \in cppOwned'
                       \/ \E v \in Wrappers : Owner(v, q)'
                       \/ \E s \in Slots : /\ Done(s)' /\ Unclaimed(call[s].result)'
                                           /\ call'[s].result.ptr = q
    BY DEF Claimed
  <2>1. /\ heap[q] # None /\ ~Owner(w, q)
        /\ \A s \in Slots : Done(s)' <=> Done(s)
    BY <1>1, <1>3 DEF Done
  <2>. QED
    BY <1>1, <1>4, <1>10, <2>1 DEF Memory, Claimed
<1>. QED
  BY <1>7, <1>8, <1>9, <1>10, <1>11 DEF Memory

LEMMA MemoryInit == Init => Memory
<1>. SUFFICES ASSUME Init PROVE Memory
  OBVIOUS
<1>1. /\ Live = {} /\ Pinned = {} /\ held = {} /\ cppOwned = {} /\ env = "running"
      /\ \A p \in Ptrs : heap[p] = None
      /\ \A w \in Wrappers : status[w] = "none" /\ parent[w] = None
      /\ \A s \in Slots : call[s] = Idle /\ ~Done(s)
  BY DEF Init, Live, Pinned, Idle, Done
<1>. QED
  BY <1>1 DEF Memory, Alive, Rooted, Owners, Owner, Awaited, Claimed

LEMMA MemoryStep ==
  ASSUME IInv, Memory, ~SharedViews, [Next]_vars
  PROVE  Memory'
<1>1. ASSUME NEW w \in Wrappers, NEW c \in Classes, NEW p \in Ptrs,
             Construct(w, c, p)
      PROVE  Memory'
  <2>. DEFINE q == [class |-> c, ptr |-> p, own |-> TRUE, parent |-> None]
  <2>1. PICK r \in Results : r = q
    BY DEF Results
  <2>2. Deliver(w, r) /\ Unclaimed(r) /\ r.ptr = p
    BY <1>1, <2>1, ConstructDelivers
  <2>3. /\ env = "running" /\ UNCHANGED <<env, cppOwned, call>>
        /\ heap[p] = None /\ heap'[p] # None
        /\ \A x \in Ptrs \ {p} : heap'[x] = heap[x]
    BY <1>1, NoneAssumption DEF Construct, JSCanRun, IInv, TypeOK
  <2>4. \A s \in Slots : Done(s) => call[s].result.ptr # r.ptr
    BY <2>2, <2>3, AwaitedExist
  <2>5. Deliverable(r, None)
    BY <2>2 DEF Deliverable
  <2>. QED
    BY <2>2, <2>3, <2>4, <2>5, DeliverMemory
<1>2. ASSUME NEW w \in Wrappers, CallFunction(w)
      PROVE  Memory'
  <2>1. PICK r \in Fresh \cup Static({None}) : Allocate(r) /\ Deliver(w, r)
    BY <1>2 DEF CallFunction
  <2>2. /\ env = "running" /\ UNCHANGED <<env, cppOwned, call>>
    BY <1>2 DEF CallFunction, JSCanRun
  <2>3. /\ r \in Results /\ r.ptr \in Ptrs /\ heap'[r.ptr] # None
        /\ \A x \in Ptrs \ {r.ptr} : heap'[x] = heap[x]
    BY <2>1, NoneAssumption DEF Fresh, Static, Results, Allocate, IInv, TypeOK
  <2>4. /\ Deliverable(r, None)
        /\ heap[r.ptr] # None \/ Unclaimed(r)
        /\ Unclaimed(r) => heap[r.ptr] = None
    <3>1. CASE r \in Fresh
      BY <3>1 DEF Fresh, Deliverable, Unclaimed, Memory, Owners, IInv, Safe, Allocated
    <3>2. CASE r \in Static({None})
      BY <3>2 DEF Static, Deliverable, Lent, Unclaimed, Memory, Owners
    <3>. QED
      BY <2>1, <3>1, <3>2
  <2>5. Unclaimed(r) => \A s \in Slots : Done(s) => call[s].result.ptr # r.ptr
    BY <2>4, AwaitedExist
  <2>6. Deliverable(r, None)
    BY <2>4 DEF Deliverable
  <2>. QED
    BY <2>1, <2>2, <2>3, <2>4, <2>5, <2>6, DeliverMemory
<1>3. ASSUME NEW this \in Wrappers, NEW w \in Wrappers, CallMethod(this, w)
      PROVE  Memory'
  <2>1. PICK r \in MethodResults(this) : Allocate(r) /\ Deliver(w, r)
    BY <1>3 DEF CallMethod
  <2>2. /\ env = "running" /\ UNCHANGED <<env, cppOwned, call>> /\ this \in Live
    BY <1>3 DEF CallMethod, JSCanRun, Memory, Alive
  <2>3. /\ r \in Results /\ Deliverable(r, this)
        /\ heap[r.ptr] # None \/ Unclaimed(r)
        /\ Unclaimed(r) => heap[r.ptr] = None
        /\ heap'[r.ptr] # None
        /\ \A q \in Ptrs \ {r.ptr} : heap'[q] = heap[q]
    BY <2>1, <2>2, MethodDeliverable
  <2>4. Unclaimed(r) => \A s \in Slots : Done(s) => call[s].result.ptr # r.ptr
    BY <2>3, AwaitedExist
  <2>. QED
    BY <2>1, <2>2, <2>3, <2>4, DeliverMemory
<1>4. ASSUME NEW s \in Slots, NEW w \in Wrappers, OnOK(s, w)
      PROVE  Memory'
  <2>1. PICK r, t : r = call[s].result /\ t = call[s].this
    OBVIOUS
  <2>2. /\ env = "running" /\ UNCHANGED <<env, cppOwned, heap>> /\ Done(s)
        /\ Deliver(w, r) /\ call' = [call EXCEPT ![s] = Idle]
    BY <1>4, <2>1 DEF OnOK, JSCanRun, memory, Done
  <2>3. r \in Results /\ Deliverable(r, t) /\ heap[r.ptr] # None
    BY <2>1, <2>2, AwaitedExist DEF Memory, Awaited
  <2>4. \A z \in Slots : \/ call'[z] = call[z] /\ z # s
                         \/ call'[z] = Idle /\ z = s
    BY <2>2 DEF IInv, TypeOK
  <2>5. Unclaimed(r) => \A z \in Slots :
          call'[z] = call[z] /\ Done(z) /\ Unclaimed(call[z].result)
            => call[z].result.ptr # r.ptr
    <3>1. call'[s] # call[s]
      BY <2>2, <2>4 DEF Done, Idle
    <3>. QED
      BY <2>1, <2>2, <3>1 DEF Memory, Awaited
  <2>. QED
    BY <2>1, <2>2, <2>3, <2>4, <2>5, DeliverMemory
<1>5. ASSUME EnvCleanup
      PROVE  Memory'
  <2>1. /\ UNCHANGED <<heap, cppOwned, status, class, self, owned, refers, parent, call>>
        /\ env' = "exiting" /\ \A s \in Slots : call[s] = Idle /\ ~Done(s)
    BY <1>5 DEF EnvCleanup, memory, wrapper, IInv, TypeOK, Calls, Idle, Done
  <2>2. Alive' /\ Rooted' /\ Owners'
    BY <2>1 DEF Memory, Alive, Rooted, Owners, Owner
  <2>3. Awaited' /\ Claimed'
    BY <2>1 DEF Memory, Awaited, Claimed, Owner, Done
  <2>. QED
    BY <2>2, <2>3 DEF Memory
<1>6. CASE UNCHANGED vars
  BY <1>6
  DEF vars, Memory, Alive, Live, Pinned, Rooted, RootedIn, Closed, Owners, Owner,
      Awaited, Deliverable, Lent, Same, Nested, Unclaimed, Claimed, Done
<1>. QED
  BY <1>1, <1>2, <1>3, <1>4, <1>5, <1>6, CallsMemory, ExecuteMemory, CppMemory,
     CollectMemory, FinalizeMemory DEF Next, Finalization

LEMMA MemoryInvariance ==
  ASSUME ~SharedViews
  PROVE  Spec => []Memory
<1>1. IInv /\ Memory /\ [Next]_vars => Memory'
  BY MemoryStep
<1>. QED
  BY <1>1, MemoryInit, Invariance, PTL DEF Spec

\* Unless C++ returns a base or a member of an object without its parent, every
\* value that JavaScript can still use stands for an object that exists, with
\* any number of calls in flight and however late destructors run.
THEOREM NothingDangles ==
  ASSUME ~SharedViews
  PROVE  Spec => []NoDanglingProxy
<1>1. Memory => NoDanglingProxy
  BY DEF Memory, Alive, NoDanglingProxy, Reachable
<1>. QED
  BY <1>1, MemoryInvariance, PTL

\* Under the same condition no object is freed twice, also when the same object
\* is the result of several calls in flight.
THEOREM SingleOwnership ==
  ASSUME ~SharedViews
  PROVE  Spec => []SingleOwner
<1>1. IInv /\ Memory => SingleOwner
  <2>. SUFFICES ASSUME IInv, Memory, NEW v \in Wrappers,
                       status[v] # "none", owned[v]
                PROVE  /\ refers[v] /\ heap[self[v]] # None
                       /\ self[v] \notin cppOwned
                       /\ \A w \in Wrappers :
                            status[w] # "none" /\ owned[w] /\ self[w] = self[v]
                              => w = v
    BY DEF SingleOwner
  <2>1. Owner(v, self[v]) /\ self[v] \in Ptrs
    BY DEF Owner, IInv, TypeOK
  <2>. QED
    BY <2>1 DEF Memory, Owners, Owner, IInv, Safe, Allocated
<1>. QED
  BY <1>1, MemoryInvariance, Invariance, PTL

\* And every object has somebody who will free it.
THEOREM NothingLeaks ==
  ASSUME ~SharedViews
  PROVE  Spec => []NoLeak
<1>1. Memory => NoLeak
  BY DEF Memory, Claimed, NoLeak, Owner, Done, Unclaimed
<1>. QED
  BY <1>1, MemoryInvariance, PTL

-----------------------------------------------------------------------------
(***************************************************************************)
(* The memory reported to the collector.                                   *)
(***************************************************************************)
Reported == {w \in Wrappers : status[w] # "none" /\ owned[w]}

\* A wrapper is added to those whose memory is reported when it is made, and
\* taken away when it is destroyed.
LEMMA ReportedStep ==
  ASSUME TypeOK, [Next]_vars
  PROVE  \/ ext' = ext /\ Reported' = Reported
         \/ \E w \in Wrappers :
              w \notin Reported /\ ext' = ext + 1 /\ Reported' = Reported \cup {w}
         \/ \E w \in Wrappers :
              w \in Reported /\ ext' = ext - 1 /\ Reported' = Reported \ {w}
<1>. DEFINE Goal == \/ ext' = ext /\ Reported' = Reported
                    \/ \E w \in Wrappers : /\ w \notin Reported /\ ext' = ext + 1
                                           /\ Reported' = Reported \cup {w}
                    \/ \E w \in Wrappers : /\ w \in Reported /\ ext' = ext - 1
                                           /\ Reported' = Reported \ {w}
<1>1. ASSUME NEW w \in Wrappers, NEW c, NEW p, NEW own \in BOOLEAN,
             Wrap(w, c, p, own), ext' = IF own THEN ext + 1 ELSE ext
      PROVE  Goal
  <2>1. /\ status[w] = "none"
        /\ status' = [status EXCEPT ![w] = "live"]
        /\ owned' = [owned EXCEPT ![w] = own]
    BY <1>1 DEF Wrap, Unused
  <2>2. w \notin Reported /\ Reported' = IF own THEN Reported \cup {w} ELSE Reported
    BY <2>1 DEF Reported, TypeOK
  <2>. QED
    BY <1>1, <2>2
<1>2. ASSUME NEW w \in Wrappers, NEW r \in Results, Deliver(w, r)
      PROVE  Goal
  <2>1. CASE NewStored(w, r.class, r.ptr)
    BY <2>1 DEF NewStored, wrapper, Reported
  <2>2. CASE NewWrapped(w, r.class, r.ptr, r.own)
    BY <1>1, <2>2 DEF NewWrapped, Results
  <2>. QED
    BY <1>2, <2>1, <2>2 DEF Deliver, New
<1>3. ASSUME NEW w \in Wrappers, NEW js, NEW stale, Finalize(w, js, stale)
      PROVE  Goal
  <2>1. /\ status[w] # "none"
        /\ status' = [status EXCEPT ![w] = "none"]
        /\ owned' = [owned EXCEPT ![w] = FALSE]
        /\ ext' = IF owned[w] THEN ext - 1 ELSE ext
    BY <1>3 DEF Finalize, Free
  <2>2. Reported' = Reported \ {w} /\ (w \in Reported <=> owned[w])
    BY <2>1 DEF Reported, TypeOK
  <2>. QED
    BY <2>1, <2>2
<1>4. ASSUME UNCHANGED <<ext, status, owned>>
      PROVE  Goal
  BY <1>4 DEF Reported
<1>5. ASSUME NEW S \in SUBSET Wrappers, Collect(S)
      PROVE  Goal
  <2>1. /\ UNCHANGED <<ext, owned>>
        /\ \A w \in Wrappers : status'[w] # "none" <=> status[w] # "none"
    BY <1>5 DEF Collect, Live
  <2>. QED
    BY <2>1 DEF Reported
<1>. HIDE DEF Goal
<1>6. ASSUME NEW w \in Wrappers, NEW c \in Classes, NEW p \in Ptrs,
             Construct(w, c, p)
      PROVE  Goal
  BY <1>1, <1>6 DEF Construct
<1>7. ASSUME NEW w \in Wrappers, CallFunction(w)
      PROVE  Goal
  BY <1>2, <1>7 DEF CallFunction, Fresh, Static
<1>8. ASSUME NEW this \in Wrappers, NEW w \in Wrappers, CallMethod(this, w)
      PROVE  Goal
  BY <1>2, <1>8, MethodResultsTyping DEF CallMethod
<1>9. ASSUME NEW s \in Slots, NEW w \in Wrappers, OnOK(s, w)
      PROVE  Goal
  <2>1. call[s].result \in Results
    BY <1>9 DEF OnOK, TypeOK, Calls, Idle
  <2>. QED
    BY <1>2, <1>9, <2>1 DEF OnOK
<1>10. ASSUME NEW w \in Wrappers, Finalization(w)
       PROVE  Goal
  BY <1>3, <1>10 DEF Finalization
<1>11. \/ \E s \in Slots, this \in Wrappers : CallAsync(s, this)
       \/ \E s \in Slots : Execute(s) \/ ExecuteThrows(s) \/ OnError(s)
       \/ \E w \in Wrappers : Drop(w)
       \/ \E p \in Ptrs, c \in Classes : CppCreate(p, c)
       \/ \E p \in Ptrs : CppDestroy(p)
       \/ EnvCleanup
       \/ UNCHANGED vars
       => Goal
  BY <1>4
  DEF CallAsync, Execute, ExecuteThrows, OnError, Drop, CppCreate, CppDestroy,
      EnvCleanup, vars, wrapper
<1>. QED
  BY <1>5, <1>6, <1>7, <1>8, <1>9, <1>10, <1>11 DEF Next, Goal

\* What is reported to the collector is exactly the memory of the objects that
\* JavaScript owns, for any number of wrappers.
THEOREM ExactReports ==
  ASSUME IsFiniteSet(Wrappers)
  PROVE  Spec => []ExternalMemoryIsExact
<1>. DEFINE Exact == ext = Cardinality(Reported)
<1>1. Init => Exact
  <2>1. Init => Reported = {} /\ ext = 0
    BY DEF Init, Reported
  <2>. QED
    BY <2>1, FS_EmptySet
<1>2. TypeOK /\ Exact /\ [Next]_vars => Exact'
  <2>. SUFFICES ASSUME TypeOK, Exact, [Next]_vars PROVE Exact'
    OBVIOUS
  <2>1. IsFiniteSet(Reported)
    BY FS_Subset DEF Reported
  <2>2. CASE ext' = ext /\ Reported' = Reported
    BY <2>2
  <2>3. ASSUME NEW w \in Wrappers, w \notin Reported, ext' = ext + 1,
               Reported' = Reported \cup {w}
        PROVE  Exact'
    BY <2>1, <2>3, FS_AddElement
  <2>4. ASSUME NEW w \in Wrappers, w \in Reported, ext' = ext - 1,
               Reported' = Reported \ {w}
        PROVE  Exact'
    BY <2>1, <2>4, FS_RemoveElement
  <2>. QED
    BY <2>2, <2>3, <2>4, ReportedStep
<1>3. Exact => ExternalMemoryIsExact
  BY DEF Reported, ExternalMemoryIsExact
<1>. HIDE DEF Exact
<1>. QED
  BY <1>1, <1>2, <1>3, TypeCorrect, PTL DEF Spec

-----------------------------------------------------------------------------
(***************************************************************************)
(* The promise of the object store, "one C++ object can have only one JS   *)
(* wrapper proxy", as the JavaScript program can see it: the wrappers      *)
(* implement ProxyIdentity.  The store answers with a wrapper of the       *)
(* object (Sound), it knows every wrapper the program holds (Findable),    *)
(* and these stand for objects that exist (Alive), so that the address of  *)
(* a new object is not theirs.                                             *)
(***************************************************************************)
\* the refinement mapping
Proxy == [w \in Wrappers |-> IF w \in held THEN <<class[w], self[w]>>
                                           ELSE NoObject]

\* w is what the program has, or gets, for the object of class c at p
LEMMA HandStep ==
  ASSUME NEW w \in Wrappers, NEW c \in Classes, NEW p \in Ptrs,
         held \subseteq Wrappers, held' = held \cup {w},
         \A v \in held \ {w} : class'[v] = class[v] /\ self'[v] = self[v],
         class'[w] = c, self'[w] = p,
         w \in held => class[w] = c /\ self[w] = p,
         \A v \in held : class[v] = c /\ self[v] = p => v = w
  PROVE  Identity!Hand(w, <<c, p>>)
<1>1. Proxy[w] \in {NoObject, <<c, p>>}
  BY DEF Proxy
<1>2. ASSUME NEW v \in Wrappers, Proxy[v] = <<c, p>> PROVE v = w
  <2>1. v \in held
    BY <1>2, NoneAssumption DEF Proxy, NoObject
  <2>. QED
    BY <1>2, <2>1 DEF Proxy
<1>3. Proxy' = [Proxy EXCEPT ![w] = <<c, p>>]
  BY DEF Proxy, NoObject
<1>. QED
  BY <1>1, <1>2, <1>3 DEF Identity!Hand, Proxy

\* What keeps the fields of the wrappers that the program holds, and lets it
\* drop some of them, is a step of ProxyIdentity.
LEMMA ForgetStep ==
  ASSUME held \subseteq Wrappers, held' \subseteq held,
         \A v \in held' : class'[v] = class[v] /\ self'[v] = self[v]
  PROVE  \E S \in SUBSET Wrappers : Identity!Forget(S)
<1>1. PICK S \in SUBSET Wrappers : S = held \ held'
  OBVIOUS
<1>2. Proxy' = [w \in Wrappers |-> IF w \in S THEN NoObject ELSE Proxy[w]]
  BY <1>1 DEF Proxy, NoObject
<1>3. Identity!Forget(S)
  BY <1>2 DEF Identity!Forget, Proxy
<1>. QED
  BY <1>3

\* Handing a result to JavaScript is a step of ProxyIdentity, whether New finds
\* the wrapper, makes one, or the parent cannot be attached.
LEMMA DeliverIdentity ==
  ASSUME IInv, Alive, env = "running",
         NEW w \in Wrappers, NEW r \in Results, Deliver(w, r)
  PROVE  Identity!Next
<1>1. r.class \in Classes /\ r.ptr \in Ptrs
  BY DEF Results
<1>2. held \subseteq Live /\ held \subseteq Wrappers /\ \A v \in held : refers[v]
  BY DEF Alive, Live
<1>3. ASSUME NEW v \in held, class[v] = r.class, self[v] = r.ptr
      PROVE  Lookup(store, Expired, r.class, r.ptr) = v
  <2>1. store[r.class][r.ptr] = v
    BY <1>2, <1>3 DEF IInv, Safe, Findable, Live
  <2>. QED
    BY <1>1, <1>2, <2>1, LookupLive DEF IInv
<1>4. /\ \A v \in held \ {w} : class'[v] = class[v] /\ self'[v] = self[v]
      /\ class'[w] = r.class /\ self'[w] = r.ptr
      /\ w \in held => class[w] = r.class /\ self[w] = r.ptr
      /\ \A v \in held : class[v] = r.class /\ self[v] = r.ptr => v = w
  <2>1. CASE NewStored(w, r.class, r.ptr)
    <3>1. w \in Live /\ store[r.class][r.ptr] = w
      BY <1>1, <2>1, LookupLive DEF NewStored, IInv
    <3>2. class[w] = r.class /\ self[w] = r.ptr
      BY <1>1, <3>1 DEF IInv, Safe, Sound, Live
    <3>. QED
      BY <1>3, <2>1, <3>2 DEF NewStored, wrapper
  <2>2. CASE NewWrapped(w, r.class, r.ptr, r.own)
    <3>1. w \notin held
      BY <1>2, <2>2 DEF NewWrapped, Wrap, Unused, Live
    <3>2. \A v \in held : ~(class[v] = r.class /\ self[v] = r.ptr)
      BY <1>2, <1>3, <2>2, NoneAssumption DEF NewWrapped
    <3>3. /\ class' = [class EXCEPT ![w] = r.class]
          /\ self' = [self EXCEPT ![w] = r.ptr]
      BY <2>2 DEF NewWrapped, Wrap
    <3>. QED
      BY <1>2, <3>1, <3>2, <3>3 DEF IInv, TypeOK
  <2>. QED
    BY <2>1, <2>2 DEF Deliver, New
<1>5. CASE held' = held \cup {w}
  <2>1. Identity!Hand(w, <<r.class, r.ptr>>)
    BY <1>1, <1>2, <1>4, <1>5, HandStep
  <2>. QED
    BY <1>1, <2>1 DEF Identity!Next
<1>6. CASE held' = held
  <2>1. \A v \in held : class'[v] = class[v] /\ self'[v] = self[v]
    BY <1>4
  <2>. QED
    BY <1>2, <1>6, <2>1, ForgetStep DEF Identity!Next
<1>. QED
  BY <1>5, <1>6 DEF Deliver, SetupNested

\* So is a constructor called from JavaScript.
LEMMA ConstructIdentity ==
  ASSUME IInv, Alive, NEW w \in Wrappers, NEW c \in Classes, NEW p \in Ptrs,
         Construct(w, c, p)
  PROVE  Identity!Next
<1>1. env = "running" /\ heap[p] = None /\ held' = held \cup {w}
  BY DEF Construct, JSCanRun
<1>2. held \subseteq Wrappers /\ w \notin held
  BY <1>1 DEF Construct, Wrap, Unused, Alive, Live
<1>3. \A v \in held : self[v] # p
  BY <1>1, <1>2 DEF Alive, Live, IInv, Safe, Allocated
<1>4. /\ class' = [class EXCEPT ![w] = c]
      /\ self' = [self EXCEPT ![w] = p]
  BY DEF Construct, Wrap
<1>5. /\ \A v \in held \ {w} : class'[v] = class[v] /\ self'[v] = self[v]
      /\ class'[w] = c /\ self'[w] = p
  BY <1>2, <1>4 DEF IInv, TypeOK
<1>6. Identity!Hand(w, <<c, p>>)
  BY <1>1, <1>2, <1>3, <1>5, HandStep
<1>. QED
  BY <1>6 DEF Identity!Next

\* JavaScript is gone with its environment.
Gone == env = "exiting" => held = {}

LEMMA GoneStep == Gone /\ [Next]_vars => Gone'
  BY DEF Gone, Next, Construct, CallFunction, CallMethod, CallAsync, Execute,
     ExecuteThrows, OnOK, OnError, Drop, CppCreate, CppDestroy, Collect,
     Finalization, Finalize, EnvCleanup, JSCanRun, vars

\* Every other step drops values of the program or does not touch them: the
\* collector and the destructors act on wrappers that it does not hold.
LEMMA OthersForget ==
  ASSUME IInv, Alive, Gone, NEW w \in Wrappers,
         \/ \E s \in Slots, this \in Wrappers : CallAsync(s, this)
         \/ \E s \in Slots : Execute(s) \/ ExecuteThrows(s) \/ OnError(s)
         \/ Drop(w)
         \/ \E p \in Ptrs, c \in Classes : CppCreate(p, c)
         \/ \E p \in Ptrs : CppDestroy(p)
         \/ \E S \in SUBSET Wrappers : Collect(S)
         \/ Finalization(w)
         \/ EnvCleanup
  PROVE  \E S \in SUBSET Wrappers : Identity!Forget(S)
<1>1. held \subseteq Wrappers
  BY DEF IInv, TypeOK
<1>2. held' \subseteq held
  BY DEF CallAsync, Execute, ExecuteThrows, OnError, Drop, CppCreate, CppDestroy,
     Collect, Finalization, Finalize, EnvCleanup
<1>3. ASSUME NEW v \in held' PROVE class'[v] = class[v] /\ self'[v] = self[v]
  <2>1. CASE Finalization(w)
    <3>1. /\ status[w] = "collected" \/ env = "exiting"
          /\ class' = [class EXCEPT ![w] = None]
          /\ self' = [self EXCEPT ![w] = None]
          /\ held' = held
      BY <2>1 DEF Finalization, Finalize
    <3>2. env = "exiting" => held = {}
      BY DEF Gone
    <3>3. v # w
      BY <1>3, <3>1, <3>2 DEF Alive, Live, IInv, TypeOK
    <3>. QED
      BY <1>1, <1>3, <3>1, <3>3 DEF IInv, TypeOK
  <2>2. CASE ~Finalization(w)
    BY <2>2 DEF CallAsync, Execute, ExecuteThrows, OnError, Drop, CppCreate,
       CppDestroy, Collect, EnvCleanup, wrapper
  <2>. QED
    BY <2>1, <2>2
<1>. QED
  BY <1>1, <1>2, <1>3, ForgetStep

LEMMA IdentityInit == Init => Identity!Init
<1>. SUFFICES ASSUME Init PROVE Identity!Init
  OBVIOUS
<1>1. held = {}
  BY DEF Init
<1>. QED
  BY <1>1 DEF Identity!Init, NoObject

LEMMA IdentityStep ==
  ASSUME IInv, Alive, Gone, [Next]_vars
  PROVE  [Identity!Next]_Proxy
<1>1. ASSUME NEW w \in Wrappers, NEW r \in Results, env = "running",
             Deliver(w, r)
      PROVE  Identity!Next
  BY <1>1, DeliverIdentity
<1>2. ASSUME NEW w \in Wrappers, CallFunction(w) PROVE Identity!Next
  BY <1>1, <1>2 DEF CallFunction, Fresh, Static, JSCanRun
<1>3. ASSUME NEW this \in Wrappers, NEW w \in Wrappers, CallMethod(this, w)
      PROVE  Identity!Next
  BY <1>1, <1>3, MethodResultsTyping DEF CallMethod, JSCanRun
<1>4. ASSUME NEW s \in Slots, NEW w \in Wrappers, OnOK(s, w)
      PROVE  Identity!Next
  <2>1. call[s].result \in Results
    BY <1>4 DEF OnOK, IInv, TypeOK, Calls, Idle
  <2>. QED
    BY <1>1, <1>4, <2>1 DEF OnOK, JSCanRun
<1>5. ASSUME NEW w \in Wrappers, NEW c \in Classes, NEW p \in Ptrs,
             Construct(w, c, p)
      PROVE  Identity!Next
  BY <1>5, ConstructIdentity
<1>6. ASSUME \E S \in SUBSET Wrappers : Identity!Forget(S) PROVE Identity!Next
  BY <1>6 DEF Identity!Next
<1>7. CASE UNCHANGED vars
  BY <1>7 DEF vars, Proxy
<1>8. CASE Next
  <2>1. CASE Wrappers # {}
    <3>1. PICK v \in Wrappers : TRUE
      BY <2>1
    <3>2. ASSUME NEW w \in Wrappers, Drop(w) \/ Finalization(w)
          PROVE  Identity!Next
      BY <1>6, <3>2, OthersForget
    <3>. QED
      BY <1>2, <1>3, <1>4, <1>5, <1>6, <1>8, <3>1, <3>2, OthersForget DEF Next
  <2>2. CASE Wrappers = {}
    <3>1. Proxy' = Proxy
      BY <2>2 DEF Proxy
    <3>. QED
      BY <3>1
  <2>. QED
    BY <2>1, <2>2
<1>. QED
  BY <1>7, <1>8

\* The wrappers keep the promise of the object store for every program whose
\* C++ side returns no base or member of an object without its parent.
THEOREM Refinement ==
  ASSUME ~SharedViews
  PROVE  Spec => KeepsIdentity
<1>1. Init => Gone
  BY DEF Init, Gone
<1>2. Memory => Alive
  BY DEF Memory
<1>3. IInv /\ Alive /\ Gone /\ [Next]_vars => [Identity!Next]_Proxy
  BY IdentityStep
<1>. QED
  BY <1>1, <1>2, <1>3, GoneStep, IdentityInit, MemoryInvariance, Invariance, PTL
  DEF Spec, KeepsIdentity, Identity!Spec, Proxy

-----------------------------------------------------------------------------
(***************************************************************************)
(* Owners, whatever C++ returns: a base or a member without its parent     *)
(* may dangle and may keep an object from getting an owner, but it never   *)
(* makes a second one.  An asynchronous call could: the wrapper that it    *)
(* returns may no longer refer to its object when the result is wrapped.   *)
(***************************************************************************)
\* what an owner rests on: the program holds living wrappers, and what C++ owns
\* exists
Grounds ==
  /\ Gone
  /\ \A w \in held : status[w] = "live"
  /\ \A p \in cppOwned : heap[p] # None

\* What is wrapped as owned is new, or it is this, which the store finds.
Rightful(r) ==
  r.own =>
    \/ heap[r.ptr] = None
    \/ \E t \in held : refers[t] /\ class[t] = r.class /\ self[t] = r.ptr

LEMMA RightfulResults ==
  ASSUME NEW this \in held, refers[this], NEW r \in MethodResults(this)
  PROVE  Rightful(r)
BY DEF MethodResults, Fresh, Static, PassThrough, Member, View, Rightful

LEMMA DeliverOwner ==
  ASSUME IInv, Grounds, SingleOwner, env = "running", env' = env,
         cppOwned' = cppOwned, NEW w \in Wrappers, NEW r \in Results,
         Allocate(r), Deliver(w, r), Rightful(r)
  PROVE  Grounds' /\ SingleOwner'
<1>0. TypeOK /\ r.class \in Classes /\ r.ptr \in Ptrs
  BY DEF IInv, Results
<1>1. \A q \in Ptrs : heap[q] # None => heap'[q] # None
  BY <1>0, AllocateKeeps
<1>2. held' \subseteq held \cup {w} /\ held' \subseteq Wrappers
  BY <1>0 DEF Deliver, SetupNested, TypeOK
<1>3. CASE NewStored(w, r.class, r.ptr)
  <2>1. status[w] = "live"
    BY <1>0, <1>3, LookupLive, NoneAssumption DEF NewStored, Live
  <2>2. Grounds'
    BY <1>0, <1>1, <1>2, <1>3, <2>1 DEF Grounds, Gone, NewStored, wrapper, TypeOK
  <2>3. SingleOwner'
    BY <1>0, <1>1, <1>3 DEF SingleOwner, NewStored, wrapper, TypeOK
  <2>. QED
    BY <2>2, <2>3
<1>4. CASE NewWrapped(w, r.class, r.ptr, r.own)
  <2>1. /\ status[w] = "none" /\ Lookup(store, Expired, r.class, r.ptr) = None
        /\ status' = [status EXCEPT ![w] = "live"]
        /\ self' = [self EXCEPT ![w] = r.ptr]
        /\ owned' = [owned EXCEPT ![w] = r.own]
        /\ refers' = [refers EXCEPT ![w] = heap'[r.ptr] # None]
    BY <1>4 DEF NewWrapped, Wrap, Unused
  <2>2. /\ status'[w] = "live" /\ self'[w] = r.ptr /\ owned'[w] = r.own
        /\ refers'[w] = (heap'[r.ptr] # None)
        /\ \A v \in Wrappers \ {w} :
             /\ status'[v] = status[v] /\ self'[v] = self[v]
             /\ owned'[v] = owned[v] /\ refers'[v] = refers[v]
    BY <1>0, <2>1 DEF TypeOK
  <2>3. Grounds'
    BY <1>0, <1>1, <1>2, <2>2 DEF Grounds, Gone, TypeOK
  <2>4. r.own => heap[r.ptr] = None
    <3>. SUFFICES ASSUME NEW t \in held, refers[t], class[t] = r.class, self[t] = r.ptr
         PROVE  FALSE
      BY DEF Rightful
    <3>1. t \in Live /\ store[r.class][r.ptr] = t
      BY <1>0 DEF Grounds, IInv, Safe, Findable, Live, TypeOK
    <3>. QED
      BY <1>0, <2>1, <3>1, LookupLive, NoneAssumption DEF Live
  <2>5. \A v \in Wrappers : status[v] # "none" /\ owned[v] => heap[self[v]] # None
    BY DEF SingleOwner
  <2>6. r.own => heap'[r.ptr] # None /\ r.ptr \notin cppOwned
    BY <1>0, <2>4, NoneAssumption DEF Allocate, Grounds, TypeOK
  <2>7. ASSUME NEW v \in Wrappers, status'[v] # "none", owned'[v]
        PROVE  /\ refers'[v] /\ heap'[self'[v]] # None /\ self'[v] \notin cppOwned
               /\ \A u \in Wrappers :
                    status'[u] # "none" /\ owned'[u] /\ self'[u] = self'[v] => u = v
    <3>1. CASE v = w
      <4>1. r.own
        BY <2>2, <2>7, <3>1
      <4>2. refers'[w] /\ heap'[r.ptr] # None /\ r.ptr \notin cppOwned /\ heap[r.ptr] = None
        BY <2>2, <2>4, <2>6, <4>1
      <4>3. ASSUME NEW u \in Wrappers \ {w}, status'[u] # "none", owned'[u],
                   self'[u] = r.ptr
            PROVE  FALSE
        BY <2>2, <2>5, <4>2, <4>3
      <4>. QED
        BY <2>2, <3>1, <4>2, <4>3
    <3>2. CASE v # w
      <4>1. /\ refers[v] /\ heap[self[v]] # None /\ self[v] \notin cppOwned
            /\ \A u \in Wrappers :
                 status[u] # "none" /\ owned[u] /\ self[u] = self[v] => u = v
        BY <2>2, <2>7, <3>2 DEF SingleOwner
      <4>2. self[v] \in Ptrs
        BY <1>0, <2>2, <2>7, <3>2 DEF TypeOK
      <4>. QED
        BY <1>1, <2>2, <2>4, <3>2, <4>1, <4>2
    <3>. QED
      BY <3>1, <3>2
  <2>8. SingleOwner'
    BY <2>7 DEF SingleOwner
  <2>. QED
    BY <2>3, <2>8
<1>. QED
  BY <1>3, <1>4 DEF Deliver, New

\* A destructor frees what no other wrapper and no C++ code owns.
LEMMA FinalizeOwner ==
  ASSUME IInv, Grounds, SingleOwner, NEW w \in Wrappers, Finalization(w)
  PROVE  Grounds' /\ SingleOwner'
<1>1. /\ status[w] # "none" /\ w \notin held /\ Free(w)
      /\ UNCHANGED <<cppOwned, env, held>>
      /\ status' = [status EXCEPT ![w] = "none"]
      /\ self' = [self EXCEPT ![w] = None]
      /\ owned' = [owned EXCEPT ![w] = FALSE]
  BY DEF Finalization, Finalize, Grounds, Gone
<1>2. /\ status'[w] = "none"
      /\ \A v \in Wrappers \ {w} :
           status'[v] = status[v] /\ self'[v] = self[v] /\ owned'[v] = owned[v]
  BY <1>1 DEF IInv, TypeOK
<1>3. CASE owned[w]
  <2>1. /\ self[w] \in Ptrs /\ self[w] \notin cppOwned
        /\ \A v \in Wrappers :
             status[v] # "none" /\ owned[v] /\ self[v] = self[w] => v = w
    BY <1>1, <1>3 DEF SingleOwner, IInv, TypeOK
  <2>2. /\ heap' = [heap EXCEPT ![self[w]] = None]
        /\ \A v \in Wrappers : refers'[v] <=> refers[v] /\ self[v] # self[w] /\ v # w
    BY <1>1, <1>3 DEF Free
  <2>3. \A p \in Ptrs \ {self[w]} : heap'[p] = heap[p]
    BY <2>2 DEF IInv, TypeOK
  <2>4. Grounds'
    BY <1>1, <1>2, <2>1, <2>3 DEF Grounds, Gone, IInv, TypeOK
  <2>5. ASSUME NEW v \in Wrappers, status'[v] # "none", owned'[v]
        PROVE  v # w /\ self[v] # self[w] /\ self[v] \in Ptrs
    BY <1>2, <2>1, <2>5 DEF IInv, TypeOK
  <2>6. SingleOwner'
    BY <1>1, <1>2, <2>2, <2>3, <2>5 DEF SingleOwner
  <2>. QED
    BY <2>4, <2>6
<1>4. CASE ~owned[w]
  <2>1. heap' = heap /\ \A v \in Wrappers \ {w} : refers'[v] = refers[v]
    BY <1>1, <1>4 DEF Free, IInv, TypeOK
  <2>2. Grounds'
    BY <1>1, <1>2, <2>1 DEF Grounds, Gone, IInv, TypeOK
  <2>3. SingleOwner'
    BY <1>1, <1>2, <2>1 DEF SingleOwner
  <2>. QED
    BY <2>2, <2>3
<1>. QED
  BY <1>3, <1>4


LEMMA OwnerStep ==
  ASSUME Slots = {}, IInv, Grounds, SingleOwner, [Next]_vars
  PROVE  Grounds' /\ SingleOwner'
<1>0. TypeOK /\ Gone'
  BY GoneStep DEF IInv, Grounds
<1>1. ASSUME NEW w \in Wrappers, NEW c \in Classes, NEW p \in Ptrs,
             Construct(w, c, p)
      PROVE  Grounds' /\ SingleOwner'
  <2>1. /\ heap[p] = None /\ status[w] = "none" /\ cppOwned' = cppOwned
        /\ held' = held \cup {w} /\ heap' = [heap EXCEPT ![p] = c]
        /\ status' = [status EXCEPT ![w] = "live"]
        /\ self' = [self EXCEPT ![w] = p]
        /\ owned' = [owned EXCEPT ![w] = TRUE]
        /\ refers' = [refers EXCEPT ![w] = heap'[p] # None]
    BY <1>1 DEF Construct, Wrap, Unused
  <2>2. /\ heap'[p] = c /\ c # None
        /\ \A q \in Ptrs \ {p} : heap'[q] = heap[q]
        /\ status'[w] = "live" /\ self'[w] = p /\ owned'[w]
        /\ \A v \in Wrappers \ {w} :
             /\ status'[v] = status[v] /\ self'[v] = self[v]
             /\ owned'[v] = owned[v] /\ refers'[v] = refers[v]
    BY <1>0, <2>1, NoneAssumption DEF TypeOK
  <2>3. refers'[w]
    BY <1>0, <2>1, <2>2 DEF TypeOK
  <2>4. Grounds'
    BY <1>0, <2>1, <2>2 DEF Grounds, TypeOK
  <2>5. \A v \in Wrappers : status[v] # "none" /\ owned[v] => self[v] \in Ptrs \ {p}
    BY <1>0, <2>1 DEF SingleOwner, TypeOK
  <2>6. p \notin cppOwned
    BY <2>1 DEF Grounds
  <2>7. SingleOwner'
    BY <2>1, <2>2, <2>3, <2>5, <2>6 DEF SingleOwner
  <2>. QED
    BY <2>4, <2>7
<1>2. ASSUME NEW w \in Wrappers, CallFunction(w)
      PROVE  Grounds' /\ SingleOwner'
  <2>1. PICK r \in Fresh \cup Static({None}) : Allocate(r) /\ Deliver(w, r)
    BY <1>2 DEF CallFunction
  <2>2. Rightful(r) /\ r \in Results
    BY DEF Fresh, Static, Rightful
  <2>. QED
    BY <1>2, <2>1, <2>2, DeliverOwner DEF CallFunction, JSCanRun
<1>3. ASSUME NEW this \in Wrappers, NEW w \in Wrappers, CallMethod(this, w)
      PROVE  Grounds' /\ SingleOwner'
  <2>1. PICK r \in MethodResults(this) : Allocate(r) /\ Deliver(w, r)
    BY <1>3 DEF CallMethod
  <2>2. Rightful(r) /\ r \in Results
    BY <1>3, RightfulResults, MethodResultsTyping DEF CallMethod
  <2>. QED
    BY <1>3, <2>1, <2>2, DeliverOwner DEF CallMethod, JSCanRun
<1>4. ASSUME NEW w \in Wrappers, Drop(w) PROVE Grounds' /\ SingleOwner'
  BY <1>0, <1>4 DEF Drop, memory, wrapper, Grounds, SingleOwner
<1>5. ASSUME NEW p \in Ptrs, NEW c \in Classes, CppCreate(p, c)
      PROVE  Grounds' /\ SingleOwner'
  <2>1. /\ heap[p] = None /\ heap' = [heap EXCEPT ![p] = c]
        /\ cppOwned' = cppOwned \cup {p} /\ held' = held /\ UNCHANGED wrapper
    BY <1>5 DEF CppCreate
  <2>2. heap'[p] = c /\ c # None /\ \A q \in Ptrs \ {p} : heap'[q] = heap[q]
    BY <1>0, <2>1, NoneAssumption DEF TypeOK
  <2>3. Grounds'
    BY <1>0, <2>1, <2>2 DEF Grounds, wrapper, TypeOK
  <2>4. \A v \in Wrappers : status[v] # "none" /\ owned[v] => self[v] \in Ptrs \ {p}
    BY <1>0, <2>1 DEF SingleOwner, TypeOK
  <2>5. SingleOwner'
    BY <2>1, <2>2, <2>4 DEF SingleOwner, wrapper
  <2>. QED
    BY <2>3, <2>5
<1>6. ASSUME NEW p \in Ptrs, CppDestroy(p)
      PROVE  Grounds' /\ SingleOwner'
  <2>1. /\ p \in cppOwned /\ heap' = [heap EXCEPT ![p] = None]
        /\ cppOwned' = cppOwned \ {p}
        /\ refers' = [w \in Wrappers |-> refers[w] /\ self[w] # p]
        /\ UNCHANGED <<status, self, owned, held>>
    BY <1>6 DEF CppDestroy
  <2>2. \A q \in Ptrs \ {p} : heap'[q] = heap[q]
    BY <1>0, <2>1 DEF TypeOK
  <2>3. Grounds'
    BY <1>0, <2>1, <2>2 DEF Grounds, TypeOK
  <2>4. \A v \in Wrappers : status[v] # "none" /\ owned[v] => self[v] \in Ptrs \ {p}
    BY <1>0, <2>1 DEF SingleOwner, TypeOK
  <2>5. SingleOwner'
    BY <2>1, <2>2, <2>4 DEF SingleOwner
  <2>. QED
    BY <2>3, <2>5
<1>7. ASSUME NEW S \in SUBSET Wrappers, Collect(S)
      PROVE  Grounds' /\ SingleOwner'
  <2>1. /\ S \subseteq Live \ Reachable
        /\ status' = [w \in Wrappers |-> IF w \in S THEN "collected" ELSE status[w]]
        /\ UNCHANGED <<memory, self, owned, refers, held>>
    BY <1>7 DEF Collect
  <2>2. \A w \in held : w \notin S
    BY <1>0, <2>1 DEF Reachable, Live, TypeOK
  <2>3. Grounds'
    BY <1>0, <2>1, <2>2 DEF Grounds, memory, TypeOK
  <2>4. \A v \in Wrappers : status'[v] # "none" <=> status[v] # "none"
    BY <2>1 DEF Live
  <2>5. SingleOwner'
    BY <2>1, <2>4 DEF SingleOwner, memory
  <2>. QED
    BY <2>3, <2>5
<1>8. CASE EnvCleanup
  BY <1>0, <1>8 DEF EnvCleanup, memory, wrapper, Grounds, SingleOwner
<1>9. CASE UNCHANGED vars
  BY <1>0, <1>9 DEF vars, Grounds, SingleOwner
<1>. QED
  BY <1>1, <1>2, <1>3, <1>4, <1>5, <1>6, <1>7, <1>8, <1>9, FinalizeOwner DEF Next

\* Without asynchronous calls nothing is freed twice, whatever C++ returns.
THEOREM SingleOwnershipOfViews ==
  ASSUME Slots = {}
  PROVE  Spec => []SingleOwner
<1>1. Init => Grounds /\ SingleOwner
  BY DEF Init, Grounds, Gone, SingleOwner
<1>2. IInv /\ Grounds /\ SingleOwner /\ [Next]_vars => Grounds' /\ SingleOwner'
  BY OwnerStep
<1>. QED
  BY Invariance, <1>1, <1>2, PTL DEF Spec
=============================================================================
