---------------------------- MODULE SmartPtrProofs ----------------------------
(***************************************************************************)
(* Who keeps and who deletes a shared object, for every number of objects, *)
(* classes, wrappers and control blocks, and on whatever threads copies    *)
(* are destroyed; and that the deleter of a block runs at most once.       *)
(***************************************************************************)
EXTENDS SmartPtr, SequenceTheorems, TLAPS

-----------------------------------------------------------------------------
(***************************************************************************)
(* Type correctness.                                                       *)
(***************************************************************************)
\* None is no block and no object.
LEMMA NoneIsNoHandle == None \notin Handles
  BY NoneAssumption, BlocksAssumption DEF Handles

\* The operators of the store map stores to stores.
LEMMA StoreTyping ==
  ASSUME NEW s \in Stores, NEW E, NEW c, NEW p, NEW js
  PROVE  /\ Swept(s, E, c, p) \in Stores
         /\ Expire(s, E, c, p, js) \in Stores
         /\ \A w \in Wrappers : Put(s, c, p, w) \in Stores
<1>1. Erase(s, c, p) \in Stores
  BY DEF Erase, Stores
<1>2. \A w \in Wrappers : Put(s, c, p, w) \in Stores
  BY DEF Put, Stores
<1>. QED
  BY <1>1, <1>2 DEF Swept, Expire

\* What New does to the wrappers: nothing, when it finds one of c and p that is
\* alive, or it fills in a new one.
LEMMA NewEffect ==
  ASSUME TypeOK, NEW w \in Wrappers, NEW c \in Classes, NEW p \in Ptrs,
         NEW own \in BOOLEAN, NEW k, New(w, c, p, own, k)
  PROVE  /\ store' \in Stores
         /\ \/ UNCHANGED wrapper /\ w \in Live
            \/ Wrap(w, c, p, own, k)
<1>1. CASE NewStored(w, c, p, k)
  <2>1. w \in Live
    BY <1>1, NoneAssumption DEF NewStored, Lookup, Expired
  <2>. QED
    BY <1>1, <2>1 DEF NewStored, TypeOK
<1>2. CASE /\ Lookup(store, Expired, c, p) = None
           /\ Wrap(w, c, p, own, k)
           /\ store' = Put(Swept(store, Expired, c, p), c, p, w)
  <2>1. store' \in Stores
    BY <1>2, StoreTyping DEF TypeOK
  <2>. QED
    BY <1>2, <2>1
<1>. QED
  BY <1>1, <1>2 DEF New

\* What wrapping, when it happens at all, does to the types.
LEMMA WrapTyping ==
  ASSUME TypeOK, NEW w \in Wrappers, NEW c \in Classes, NEW p \in Ptrs,
         NEW own \in BOOLEAN, NEW k \in Handles \cup {None},
         UNCHANGED wrapper \/ Wrap(w, c, p, own, k)
  PROVE  /\ status' \in [Wrappers -> {"none", "live", "collected"}]
         /\ class' \in [Wrappers -> Classes \cup {None}]
         /\ self' \in [Wrappers -> Ptrs \cup {None}]
         /\ owned' \in [Wrappers -> BOOLEAN]
         /\ finalizer' \in [Wrappers -> Handles \cup {None}]
         /\ \A v \in Wrappers : status'[v] # "none" => self'[v] \in Ptrs
<1>1. CASE UNCHANGED wrapper
  BY <1>1 DEF TypeOK, wrapper
<1>2. CASE Wrap(w, c, p, own, k)
  BY <1>2 DEF TypeOK, Wrap
<1>. QED
  BY <1>1, <1>2

\* What the end of the last copy does: an object is deleted, a persistent
\* reference is deleted, its job is accepted, or nothing.
LEMMA ReleaseEffect ==
  ASSUME TypeOK, NEW k \in Handles, NEW main \in BOOLEAN, Release(k, main)
  PROVE  /\ target' = target /\ mode' = mode /\ done' = done
         /\ \/ /\ k \in Ptrs
               /\ heap' = [heap EXCEPT ![k] = "freed"]
               /\ pins' = pins /\ waiting' = waiting
            \/ /\ k \in Blocks /\ k \notin Ptrs /\ heap' = heap
               /\ mode # "ended"
               /\ pins' = [pins EXCEPT ![k] = None] /\ waiting' = waiting
            \/ /\ k \in Blocks /\ k \notin Ptrs /\ heap' = heap
               /\ pins' = pins /\ waiting' = Append(waiting, k)
            \/ /\ k \in Blocks /\ k \notin Ptrs /\ heap' = heap
               /\ mode = "ended"
               /\ pins' = pins /\ waiting' = waiting
<1>1. CASE k \in Ptrs /\ heap' = [heap EXCEPT ![k] = "freed"]
           /\ UNCHANGED <<blocks, queue>>
  BY <1>1 DEF blocks, queue
<1>2. CASE /\ k \in Blocks /\ mode # "ended" /\ main
           /\ pins' = [pins EXCEPT ![k] = None]
           /\ UNCHANGED <<heap, target, queue>>
  BY <1>2, BlocksAssumption DEF queue
<1>3. CASE /\ k \in Blocks /\ mode # "ended" /\ ~main
           /\ Jobs!Accept(k)
           /\ UNCHANGED <<heap, blocks>>
  BY <1>3, BlocksAssumption DEF Jobs!Accept, blocks
<1>4. CASE /\ k \in Blocks /\ mode = "ended" /\ UNCHANGED <<heap, blocks, queue>>
  BY <1>4, BlocksAssumption DEF blocks, queue
<1>. QED
  BY <1>1, <1>2, <1>3, <1>4 DEF Release

\* What the destructor of w does to its object.
LEMMA DestroyEffect ==
  ASSUME TypeOK, NEW w \in Wrappers, status[w] # "none", Destroy(w)
  PROVE  \/ /\ finalizer[w] \in Handles
            /\ finalizer[w] \notin cpp /\ Finalizing(finalizer[w]) = {w}
            /\ Release(finalizer[w], TRUE)
         \/ /\ finalizer[w] = None /\ owned[w]
            /\ heap' = [heap EXCEPT ![self[w]] = "freed"]
            /\ UNCHANGED <<blocks, queue>>
         \/ /\ \/ finalizer[w] = None /\ ~owned[w]
               \/ finalizer[w] \in cpp
               \/ finalizer[w] # None /\ Finalizing(finalizer[w]) # {w}
            /\ UNCHANGED <<heap, blocks, queue>>
<1>. DEFINE k == finalizer[w]
            A == k # None /\ k \notin cpp /\ Finalizing(k) = {w}
            B == k = None /\ owned[w]
<1>1. k \in Handles \cup {None} /\ owned[w] \in BOOLEAN
  BY DEF TypeOK
<1>2. CASE A
  BY <1>1, <1>2 DEF Destroy
<1>3. CASE ~A /\ B
  BY <1>1, <1>3 DEF Destroy
<1>4. CASE ~A /\ ~B
  BY <1>1, <1>4 DEF Destroy
<1>. QED
  BY <1>2, <1>3, <1>4

LEMMA TypeInit == Init => TypeOK
  BY DEF Init, TypeOK, Stores, EmptyStore, Jobs!Init

\* Type correctness of the heap, the blocks and the queue across a release.
LEMMA ReleaseTyping ==
  ASSUME TypeOK, NEW k \in Handles, NEW main \in BOOLEAN, Release(k, main)
  PROVE  /\ heap' \in [Ptrs -> {"unused", "exists", "freed"}]
         /\ target' \in [Blocks -> Ptrs \cup {None}]
         /\ pins' \in [Blocks -> Wrappers \cup {None}]
         /\ waiting' \in Seq(Blocks) /\ done' \in Seq(Blocks)
         /\ mode' \in {"serving", "ending", "ended"}
<1>1. CASE k \in Ptrs /\ heap' = [heap EXCEPT ![k] = "freed"] /\ pins' = pins
           /\ waiting' = waiting
  BY <1>1, ReleaseEffect DEF TypeOK
<1>2. CASE heap' = heap /\ pins' = [pins EXCEPT ![k] = None]
           /\ waiting' = waiting
  BY <1>2, ReleaseEffect DEF TypeOK
<1>3. CASE k \in Blocks /\ heap' = heap /\ pins' = pins
           /\ waiting' = Append(waiting, k)
  BY <1>3, ReleaseEffect DEF TypeOK
<1>4. CASE heap' = heap /\ pins' = pins /\ waiting' = waiting
  BY <1>4, ReleaseEffect DEF TypeOK
<1>. QED
  BY <1>1, <1>2, <1>3, <1>4, ReleaseEffect

\* Types are preserved by what starts from a state in which every copy that C++
\* has is of a block that was made.
LEMMA TypeStep ==
  TypeOK /\ (\A k \in cpp : Pointee(k) \in Ptrs) /\ [Next]_vars => TypeOK'
<1> SUFFICES ASSUME TypeOK, \A k \in cpp : Pointee(k) \in Ptrs, [Next]_vars
             PROVE  TypeOK'
  OBVIOUS
<1>1. ASSUME NEW w \in Wrappers, NEW c \in Classes, NEW p \in Ptrs,
             Construct(w, c, p)
      PROVE  TypeOK'
  <2>1. store' \in Stores
    BY <1>1, StoreTyping DEF Construct, TypeOK
  <2>2. Wrap(w, c, p, TRUE, None)
    BY <1>1 DEF Construct
  <2>3. heap' \in [Ptrs -> {"unused", "exists", "freed"}]
    BY <1>1 DEF Construct, TypeOK
  <2>. QED
    BY <1>1, <2>1, <2>2, <2>3, WrapTyping DEF Construct, TypeOK, blocks, queue
<1>2. ASSUME NEW p \in Ptrs, MakeShared(p)
      PROVE  TypeOK'
  BY <1>2 DEF MakeShared, TypeOK, wrapper, blocks, queue, Handles
<1>3. ASSUME NEW w \in Wrappers, NEW c \in Classes, NEW k \in Handles,
             ReturnPointer(w, c, k)
      PROVE  TypeOK'
  <2>0. Pointee(k) \in Ptrs
    BY <1>3 DEF ReturnPointer
  <2>1. /\ store' \in Stores
        /\ UNCHANGED wrapper \/ Wrap(w, c, Pointee(k), TRUE, k)
    BY <1>3, <2>0, NewEffect DEF ReturnPointer
  <2>2. promised' \in [Wrappers -> BOOLEAN] /\ held' \subseteq Wrappers
    BY <1>3 DEF ReturnPointer, TypeOK
  <2>. QED
    BY <1>3, <2>0, <2>1, <2>2, WrapTyping DEF ReturnPointer, TypeOK, blocks, queue
<1>4. ASSUME NEW w \in Wrappers, NEW c \in Classes, NEW k \in Handles,
             ReturnReference(w, c, k)
      PROVE  TypeOK'
  <2>0. Pointee(k) \in Ptrs
    BY <1>4 DEF ReturnReference
  <2>1. /\ store' \in Stores
        /\ UNCHANGED wrapper \/ Wrap(w, c, Pointee(k), FALSE, None)
    BY <1>4, <2>0, NewEffect DEF ReturnReference
  <2>2. held' \subseteq Wrappers
    BY <1>4 DEF ReturnReference, TypeOK
  <2>. QED
    BY <1>4, <2>0, <2>1, <2>2, WrapTyping DEF ReturnReference, TypeOK, blocks, queue
<1>5. ASSUME NEW w \in Wrappers, NEW b \in Blocks, Take(w, b)
      PROVE  TypeOK'
  BY <1>5 DEF Take, TypeOK, wrapper, queue, Handles
<1>6. ASSUME NEW k \in Handles, NEW main \in BOOLEAN, CppDrop(k, main)
      PROVE  TypeOK'
  <2>1. CASE UNCHANGED <<heap, blocks, queue>>
    BY <1>6, <2>1 DEF CppDrop, TypeOK, wrapper, blocks, queue
  <2>2. CASE Release(k, main)
    BY <1>6, <2>2, ReleaseTyping DEF CppDrop, TypeOK, wrapper
  <2>. QED
    BY <1>6, <2>1, <2>2 DEF CppDrop
<1>7. ASSUME RunJob
      PROVE  TypeOK'
  BY <1>7 DEF RunJob, Jobs!Run, TypeOK, wrapper
<1>8. ASSUME NEW w \in Wrappers, Drop(w)
      PROVE  TypeOK'
  BY <1>8 DEF Drop, TypeOK, wrapper, blocks, queue
<1>9. ASSUME NEW w \in Wrappers, Collect(w)
      PROVE  TypeOK'
  BY <1>9 DEF Collect, TypeOK, blocks, queue, Live
<1>10. ASSUME NEW w \in Wrappers, Finalize(w)
       PROVE  TypeOK'
  <2>1. store' \in Stores
    BY <1>10, StoreTyping DEF Finalize, TypeOK
  <2>2. /\ heap' \in [Ptrs -> {"unused", "exists", "freed"}]
        /\ target' \in [Blocks -> Ptrs \cup {None}]
        /\ pins' \in [Blocks -> Wrappers \cup {None}]
        /\ waiting' \in Seq(Blocks) /\ done' \in Seq(Blocks)
        /\ mode' \in {"serving", "ending", "ended"}
    BY <1>10, DestroyEffect, ReleaseTyping DEF Finalize, TypeOK, blocks, queue
  <2>3. /\ status' \in [Wrappers -> {"none", "live", "collected"}]
        /\ class' \in [Wrappers -> Classes \cup {None}]
        /\ self' \in [Wrappers -> Ptrs \cup {None}]
        /\ owned' \in [Wrappers -> BOOLEAN]
        /\ finalizer' \in [Wrappers -> Handles \cup {None}]
        /\ promised' \in [Wrappers -> BOOLEAN]
        /\ \A v \in Wrappers : status'[v] # "none" => self'[v] \in Ptrs
    BY <1>10 DEF Finalize, TypeOK
  <2>. QED
    BY <1>10, <2>1, <2>2, <2>3 DEF Finalize, TypeOK
<1>11. ASSUME EnvCleanup
       PROVE  TypeOK'
  BY <1>11 DEF EnvCleanup, TypeOK, Jobs!End, EmptyStore, Stores, wrapper, blocks
<1>12. ASSUME EnvDestroy
       PROVE  TypeOK'
  BY <1>12 DEF EnvDestroy, TypeOK, Jobs!End, wrapper, blocks
<1>13. CASE UNCHANGED vars
  BY <1>13 DEF TypeOK, vars
<1>. QED
  BY <1>1, <1>2, <1>3, <1>4, <1>5, <1>6, <1>7, <1>8, <1>9, <1>10, <1>11, <1>12,
     <1>13 DEF Next

-----------------------------------------------------------------------------
(***************************************************************************)
(* The inductive invariant.                                                *)
(***************************************************************************)
\* somebody has a copy of a shared_ptr of block k (InUse, for what is Tidy)
Used(k) == k \in cpp \/ \E w \in Wrappers : finalizer[w] = k

\* a job that releases the persistent reference of b is waiting
Waits(b) == \E i \in DOMAIN waiting : waiting[i] = b

\* w deletes object p in its destructor
Owner(w, p) == owned[w] /\ finalizer[w] = None /\ self[w] = p

\* Nothing is left of a wrapper that has been destroyed, and a finalizer is for
\* the object that its wrapper points to.
Tidy ==
  \A w \in Wrappers :
    /\ status[w] = "none" => finalizer[w] = None /\ ~owned[w]
    /\ finalizer[w] # None => Pointee(finalizer[w]) = self[w]

\* A block that has not been made is unknown to everybody, and a block whose
\* release is waiting is known to nobody any more.
Fresh ==
  /\ \A b \in Blocks : target[b] = None => pins[b] = None /\ ~Used(b)
  /\ \A b \in Blocks : Waits(b) => target[b] # None /\ ~Used(b)

\* As long as somebody has a copy, the wrapper is pinned; a pinned wrapper is
\* alive and points to the object of the block.
References ==
  mode = "serving" =>
    /\ held \subseteq Live
    /\ \A b \in Blocks : Used(b) => pins[b] # None
    /\ \A b \in Blocks :
         pins[b] # None => pins[b] \in Live /\ self[pins[b]] = target[b]
    /\ \A b \in Blocks :
         pins[b] # None => Used(b) \/ Waits(b)

\* The deleter of an object is its block, as long as that is used, or its only
\* owner.
DeleterOf(p) ==
  /\ Used(p) => heap[p] = "exists" /\ \A w \in Wrappers : ~Owner(w, p)
  /\ \A w \in Wrappers : Owner(w, p) => heap[p] = "exists"
  /\ \A v, w \in Wrappers : Owner(v, p) /\ Owner(w, p) => v = w
  /\ heap[p] = "exists" => Used(p) \/ \E w \in Wrappers : Owner(w, p)

Deleters == \A p \in Ptrs : DeleterOf(p)

\* no wrapper of S is pinned by a finalizer of S
Unpinned(w, S) == \A v \in S, b \in Blocks : pins[b] = w => finalizer[v] # b

NoCycle == \A S \in SUBSET Wrappers : S # {} => \E w \in S : Unpinned(w, S)

\* What keeps the object of wrapper u, other than wrappers in S: its owner, the
\* block of make_shared, or a block whose reference pins a wrapper outside S; of a
\* wrapper that came by reference, nothing has to.
Kept(u, S) ==
  \/ ~owned[u]
  \/ finalizer[u] = None
  \/ finalizer[u] \in Ptrs
  \/ finalizer[u] \in Blocks /\ pins[finalizer[u]] \notin S

\* Wrappers do not keep an object only for each other.
Founded ==
  mode = "serving" =>
    \A S \in SUBSET Live :
      S # {} /\ (\A u, v \in S : self[u] = self[v]) => \E u \in S : Kept(u, S)

IInv == TypeOK /\ Tidy /\ Fresh /\ References /\ Deleters /\ NoCycle /\ Founded

-----------------------------------------------------------------------------
(***************************************************************************)
(* Each part of the invariant is preserved by every step.                  *)
(***************************************************************************)
\* What the code calls in use is what Used says.
LEMMA UsedIsInUse ==
  ASSUME TypeOK, Tidy, NEW k \in Handles
  PROVE  InUse(k) <=> Used(k)
  BY NoneIsNoHandle DEF InUse, Used, Finalizing, Tidy, TypeOK

\* The copies of blocks that were made point to objects.
LEMMA Pointees ==
  ASSUME TypeOK, Fresh, NEW k \in Handles, Used(k)
  PROVE  Pointee(k) \in Ptrs
  BY DEF Fresh, Pointee, TypeOK, Handles

\* Wrapping makes one wrapper more that has a copy, if any.
LEMMA WrapUsed ==
  ASSUME TypeOK, Tidy, NEW w \in Wrappers, NEW c, NEW p, NEW own,
         NEW k, Wrap(w, c, p, own, k), cpp' = cpp
  PROVE  /\ status[w] = "none" /\ finalizer[w] = None /\ ~owned[w]
         /\ \A h \in Handles : Used(h)' <=> Used(h) \/ h = k
<1>1. status[w] = "none" /\ finalizer[w] = None /\ ~owned[w]
  BY DEF Wrap, Unused, Tidy
<1>2. finalizer' = [finalizer EXCEPT ![w] = k]
  BY DEF Wrap
<1>3. ASSUME NEW h \in Handles
      PROVE  Used(h)' <=> Used(h) \/ h = k
  BY <1>1, <1>2, NoneIsNoHandle DEF Used, TypeOK
<1>. QED
  BY <1>1, <1>3

\* The destruction of a wrapper takes its copy away.
LEMMA FinalizeUsed ==
  ASSUME TypeOK, NEW w \in Wrappers, Finalize(w)
  PROVE  \A h \in Handles :
           /\ Used(h)' => Used(h)
           /\ h # finalizer[w] => (Used(h)' <=> Used(h))
           /\ Used(h)' <=> h \in cpp \/ \E v \in Wrappers \ {w} : finalizer[v] = h
  BY NoneIsNoHandle DEF Finalize, Used, TypeOK

\* What the destruction of w does, in terms of Used.
LEMMA FinalizeEffect ==
  ASSUME TypeOK, Tidy, NEW w \in Wrappers, Finalize(w),
         NEW k \in Handles \cup {None}, finalizer[w] = k
  PROVE  \/ k \in Handles /\ Used(k) /\ ~Used(k)' /\ Release(k, TRUE)
         \/ /\ k = None /\ owned[w]
            /\ heap' = [heap EXCEPT ![self[w]] = "freed"]
            /\ UNCHANGED <<blocks, queue>>
         \/ /\ \/ k = None /\ ~owned[w]
               \/ k \in Handles /\ Used(k)'
            /\ UNCHANGED <<heap, blocks, queue>>
<1>0. status[w] # "none" /\ Destroy(w) /\ cpp' = cpp
  BY DEF Finalize, TypeOK
<1>1. CASE k \in Handles /\ k \notin cpp /\ Finalizing(k) = {w} /\ Release(k, TRUE)
  <2>1. \A v \in Wrappers \ {w} : finalizer[v] # k
    BY <1>1, NoneIsNoHandle DEF Finalizing, Tidy
  <2>2. Used(k)
    BY DEF Used
  <2>. QED
    BY <1>1, <2>1, <2>2, FinalizeUsed
<1>2. CASE /\ k = None /\ owned[w]
           /\ heap' = [heap EXCEPT ![self[w]] = "freed"]
           /\ UNCHANGED <<blocks, queue>>
  BY <1>2
<1>3. CASE /\ \/ k = None /\ ~owned[w]
              \/ k \in cpp
              \/ k # None /\ Finalizing(k) # {w}
           /\ UNCHANGED <<heap, blocks, queue>>
  <2>1. CASE k \in Handles /\ Finalizing(k) # {w}
    <3>1. w \in Finalizing(k)
      BY <1>0 DEF Finalizing
    <3>2. PICK v \in Wrappers \ {w} : finalizer[v] = k
      BY <2>1, <3>1 DEF Finalizing
    <3>. QED
      BY <1>3, <2>1, <3>2, FinalizeUsed
  <2>2. CASE k \in Handles /\ k \in cpp
    BY <1>3, <2>2, FinalizeUsed
  <2>3. CASE k = None /\ ~owned[w]
    BY <1>3, <2>3
  <2>4. k \in cpp => k \in Handles
    BY DEF TypeOK
  <2>. QED
    BY <1>3, <2>1, <2>2, <2>3, <2>4
<1>. QED
  BY <1>0, <1>1, <1>2, <1>3, DestroyEffect

\* A block that C++ has a copy of points to an object.
LEMMA CppPointee ==
  ASSUME TypeOK, Fresh, NEW k \in cpp
  PROVE  Pointee(k) \in Ptrs
  BY Pointees DEF Used, TypeOK

\* New wraps the object or finds a live wrapper (NewEffect).
LEMMA NewWraps ==
  ASSUME NEW w \in Wrappers, NEW c, NEW p, NEW own, NEW k, New(w, c, p, own, k)
  PROVE  \/ UNCHANGED wrapper /\ w \in Live
         \/ Wrap(w, c, p, own, k)
  BY NoneAssumption DEF New, NewStored, Lookup, Expired

\* What the end of a copy of C++ does, in terms of Used.
LEMMA CppDropEffect ==
  ASSUME TypeOK, Tidy, NEW k \in Handles, NEW main \in BOOLEAN, CppDrop(k, main)
  PROVE  /\ Used(k) /\ UNCHANGED <<store, wrapper, promised, held>>
         /\ \A h \in Handles : Used(h)' => Used(h)
         /\ \A h \in Handles : h # k => (Used(h)' <=> Used(h))
         /\ \/ Used(k)' /\ UNCHANGED <<heap, blocks, queue>>
            \/ ~Used(k)' /\ Release(k, main)
<1>1. k \in cpp /\ cpp' = cpp \ {k} /\ UNCHANGED <<store, wrapper, promised, held>>
  BY DEF CppDrop
<1>2. Finalizing(k) = {} <=> \A w \in Wrappers : finalizer[w] # k
  BY NoneIsNoHandle DEF Finalizing, Tidy
<1>3. finalizer' = finalizer
  BY <1>1 DEF wrapper
<1>4. Used(k)' <=> \E w \in Wrappers : finalizer[w] = k
  BY <1>1, <1>3 DEF Used
<1>5. \A h \in Handles : /\ Used(h)' => Used(h)
                         /\ h # k => (Used(h)' <=> Used(h))
  BY <1>1, <1>3 DEF Used
<1>6. \/ Finalizing(k) # {} /\ UNCHANGED <<heap, blocks, queue>>
      \/ Finalizing(k) = {} /\ Release(k, main)
  BY DEF CppDrop
<1>. QED
  BY <1>1, <1>2, <1>4, <1>5, <1>6 DEF Used

LEMMA TidyStep ==
  ASSUME TypeOK, Tidy, Fresh, Next
  PROVE  Tidy'
<1>. USE DEF Handles
<1>1. ASSUME NEW w \in Wrappers, NEW c, NEW p, NEW own, NEW k,
             k # None => Pointee(k) = p,
             UNCHANGED wrapper \/ Wrap(w, c, p, own, k), target' = target
      PROVE  Tidy'
  <2>1. CASE UNCHANGED wrapper
    BY <1>1, <2>1 DEF Tidy, Pointee, wrapper
  <2>2. CASE Wrap(w, c, p, own, k)
    BY <1>1, <2>2 DEF Tidy, Pointee, Wrap, TypeOK
  <2>. QED
    BY <1>1, <2>1, <2>2
<1>2. ASSUME NEW w \in Wrappers, NEW b \in Blocks, Take(w, b)
      PROVE  Tidy'
  <2>1. \A v \in Wrappers : finalizer[v] # b
    BY <1>2 DEF Take, Fresh, Used
  <2>2. \A v \in Wrappers :
          finalizer[v] # None => Pointee(finalizer[v])' = Pointee(finalizer[v])
    BY <1>2, <2>1 DEF Take, wrapper, Pointee, TypeOK
  <2>. QED
    BY <1>2, <2>2 DEF Take, wrapper, Tidy
<1>3. ASSUME NEW k \in Handles, NEW main \in BOOLEAN, CppDrop(k, main)
      PROVE  Tidy'
  <2>1. target' = target /\ UNCHANGED wrapper
    BY <1>3, CppDropEffect, ReleaseEffect DEF blocks
  <2>. QED
    BY <2>1 DEF wrapper, Tidy, Pointee
<1>4. ASSUME NEW w \in Wrappers, Finalize(w)
      PROVE  Tidy'
  <2>1. target' = target
    BY <1>4, FinalizeEffect, ReleaseEffect DEF blocks, TypeOK
  <2>2. /\ status' = [status EXCEPT ![w] = "none"]
        /\ self' = [self EXCEPT ![w] = None]
        /\ owned' = [owned EXCEPT ![w] = FALSE]
        /\ finalizer' = [finalizer EXCEPT ![w] = None]
    BY <1>4 DEF Finalize
  <2>. QED
    BY <2>1, <2>2 DEF Tidy, Pointee, TypeOK
<1>5. ASSUME NEW w \in Wrappers, Collect(w)
      PROVE  Tidy'
  BY <1>5 DEF Collect, Live, Tidy, Pointee, blocks, TypeOK
<1>6. ASSUME UNCHANGED wrapper, target' = target
      PROVE  Tidy'
  BY <1>6 DEF wrapper, Tidy, Pointee
<1>. QED
  <2>1. ASSUME NEW w \in Wrappers, NEW c \in Classes, NEW p \in Ptrs,
               Construct(w, c, p)
        PROVE  Tidy'
    BY <1>1, <2>1 DEF Construct, blocks
  <2>2. ASSUME NEW w \in Wrappers, NEW c \in Classes, NEW k \in Handles,
               ReturnPointer(w, c, k)
        PROVE  Tidy'
    <3>1. New(w, c, Pointee(k), TRUE, k) /\ target' = target
      BY <2>2 DEF ReturnPointer, blocks
    <3>2. UNCHANGED wrapper \/ Wrap(w, c, Pointee(k), TRUE, k)
      BY <3>1, NewWraps
    <3>. QED
      BY <1>1, <3>1, <3>2
  <2>3. ASSUME NEW w \in Wrappers, NEW c \in Classes, NEW k \in Handles,
               ReturnReference(w, c, k)
        PROVE  Tidy'
    <3>1. New(w, c, Pointee(k), FALSE, None) /\ target' = target
      BY <2>3 DEF ReturnReference, blocks
    <3>2. UNCHANGED wrapper \/ Wrap(w, c, Pointee(k), FALSE, None)
      BY <3>1, NewWraps
    <3>. QED
      BY <1>1, <3>1, <3>2
  <2>4. ASSUME NEW p \in Ptrs, MakeShared(p)
        PROVE  Tidy'
    BY <1>6, <2>4 DEF MakeShared, blocks
  <2>5. RunJob => Tidy'
    BY <1>6 DEF RunJob
  <2>6. ASSUME NEW w \in Wrappers, Drop(w)
        PROVE  Tidy'
    BY <1>6, <2>6 DEF Drop, blocks
  <2>7. EnvCleanup \/ EnvDestroy => Tidy'
    BY <1>6 DEF EnvCleanup, EnvDestroy, blocks
  <2>. QED
    BY <1>2, <1>3, <1>4, <1>5, <2>1, <2>2, <2>3, <2>4, <2>5, <2>6, <2>7 DEF Next

\* What becomes of block b in a step that does not begin a call with it: copies
\* only disappear, the persistent reference goes after the last of them, at once
\* or by a job.
BlockStep(b) ==
  /\ target'[b] = target[b]
  /\ Used(b)' => Used(b)
  /\ pins'[b] # pins[b] => pins'[b] = None /\ ~Used(b)'
  /\ Waits(b)' => Waits(b) \/ (Used(b) /\ ~Used(b)')
  /\ Waits(b) => pins'[b] = None \/ Waits(b)'
  /\ Used(b) /\ mode # "ended" => pins'[b] = None \/ Used(b)' \/ Waits(b)'

LEMMA ReleaseBlock ==
  ASSUME TypeOK, NEW k \in Handles, NEW main \in BOOLEAN, Release(k, main),
         Used(k), ~Used(k)',
         \A h \in Handles : h # k => (Used(h)' <=> Used(h))
  PROVE  \A b \in Blocks : BlockStep(b)
<1>. SUFFICES ASSUME NEW b \in Blocks PROVE BlockStep(b)
  OBVIOUS
<1>0. b \in Handles /\ target' = target
  BY ReleaseEffect DEF Handles
<1>1. CASE /\ k \in Blocks /\ mode # "ended"
           /\ pins' = [pins EXCEPT ![k] = None] /\ waiting' = waiting
  BY <1>0, <1>1 DEF BlockStep, Waits, TypeOK
<1>2. CASE k \in Blocks /\ pins' = pins /\ waiting' = Append(waiting, k)
  <2>0. /\ DOMAIN waiting = 1 .. Len(waiting) /\ Len(waiting) \in Nat
        /\ DOMAIN waiting' = 1 .. Len(waiting) + 1
        /\ \A i \in 1 .. Len(waiting) : waiting'[i] = waiting[i]
        /\ waiting'[Len(waiting) + 1] = k
    BY <1>2, AppendProperties, LenProperties DEF TypeOK
  <2>1. Waits(b)' <=> Waits(b) \/ b = k
    BY <2>0 DEF Waits
  <2>. QED
    BY <1>0, <1>2, <2>1 DEF BlockStep
<1>3. CASE /\ k \in Ptrs \/ mode = "ended"
           /\ pins' = pins /\ waiting' = waiting
  BY <1>0, <1>3, BlocksAssumption DEF BlockStep, Waits
<1>. QED
  BY <1>1, <1>2, <1>3, ReleaseEffect

LEMMA BlockSteps ==
  ASSUME TypeOK, Tidy, Fresh, Next, ~\E w \in Wrappers, b \in Blocks : Take(w, b)
  PROVE  \A b \in Blocks : BlockStep(b)
<1>. SUFFICES ASSUME NEW b \in Blocks PROVE BlockStep(b)
  OBVIOUS
<1>0. b \in Handles /\ b \notin Ptrs /\ b # None
  BY BlocksAssumption DEF Handles
<1>1. ASSUME UNCHANGED <<target, pins, waiting>>, Used(b)' <=> Used(b)
      PROVE  BlockStep(b)
  BY <1>1 DEF BlockStep, Waits
<1>2. ASSUME NEW w \in Wrappers, NEW c \in Classes, NEW p \in Ptrs,
             Construct(w, c, p)
      PROVE  BlockStep(b)
  BY <1>0, <1>1, <1>2, WrapUsed DEF Construct, blocks, queue
<1>3. ASSUME NEW p \in Ptrs, MakeShared(p)
      PROVE  BlockStep(b)
  BY <1>0, <1>1, <1>3 DEF MakeShared, Used, blocks, queue, wrapper
<1>4. ASSUME NEW w \in Wrappers, NEW c \in Classes, NEW k \in Handles, NEW own,
             NEW h \in {k, None}, k \in cpp, New(w, c, Pointee(k), own, h),
             UNCHANGED <<cpp, blocks, queue>>
      PROVE  BlockStep(b)
  <2>1. CASE UNCHANGED wrapper
    BY <1>1, <1>4, <2>1 DEF wrapper, Used, blocks, queue
  <2>2. CASE Wrap(w, c, Pointee(k), own, h)
    <3>1. Used(b)' <=> Used(b) \/ b = h
      BY <1>0, <1>4, <2>2, WrapUsed
    <3>2. Used(k)
      BY <1>4 DEF Used
    <3>. QED
      BY <1>0, <1>1, <1>4, <3>1, <3>2 DEF blocks, queue
  <2>. QED
    BY <1>4, <2>1, <2>2, NewWraps
<1>5. ASSUME NEW k \in Handles, NEW main \in BOOLEAN, CppDrop(k, main)
      PROVE  BlockStep(b)
  <2>1. CASE Used(k)' /\ UNCHANGED <<heap, blocks, queue>>
    BY <1>0, <1>1, <1>5, <2>1, CppDropEffect DEF blocks, queue
  <2>2. CASE ~Used(k)' /\ Release(k, main)
    BY <1>5, <2>2, CppDropEffect, ReleaseBlock
  <2>. QED
    BY <1>5, <2>1, <2>2, CppDropEffect
<1>6. CASE RunJob
  <2>1. /\ waiting # << >> /\ waiting' = Tail(waiting) /\ target' = target
        /\ pins' = [pins EXCEPT ![Head(waiting)] = None]
        /\ Used(b)' <=> Used(b)
    BY <1>6 DEF RunJob, Jobs!Run, Used, wrapper
  <2>2. CASE b = Head(waiting)
    <3>1. Waits(b)
      BY <2>1, <2>2 DEF Waits, TypeOK
    <3>2. ~Used(b)
      BY <3>1 DEF Fresh
    <3>. QED
      BY <2>1, <2>2, <3>1, <3>2 DEF BlockStep, TypeOK
  <2>3. CASE b # Head(waiting)
    <3>1. Waits(b)' <=> Waits(b)
      <4>0. /\ waiting \in Seq(Blocks) /\ waiting' \in Seq(Blocks)
            /\ Len(waiting') = Len(waiting) - 1 /\ Len(waiting) \in Nat
            /\ \A i \in 1 .. Len(waiting) - 1 : waiting'[i] = waiting[i + 1]
        BY <2>1, HeadTailProperties, LenProperties DEF TypeOK
      <4>1. \A i \in DOMAIN waiting' :
              i + 1 \in DOMAIN waiting /\ waiting'[i] = waiting[i + 1]
        BY <4>0
      <4>2. \A i \in DOMAIN waiting :
              i # 1 => i - 1 \in DOMAIN waiting' /\ waiting'[i - 1] = waiting[i]
        BY <2>1 DEF TypeOK
      <4>3. waiting[1] = Head(waiting)
        BY <2>1 DEF TypeOK
      <4>. QED
        BY <2>3, <4>1, <4>2, <4>3 DEF Waits
    <3>. QED
      BY <2>1, <2>3, <3>1 DEF BlockStep, TypeOK
  <2>. QED
    BY <2>2, <2>3
<1>7. ASSUME NEW w \in Wrappers, Finalize(w)
      PROVE  BlockStep(b)
  <2>0. PICK k \in Handles \cup {None} : finalizer[w] = k
    BY DEF TypeOK
  <2>2. CASE k \in Handles /\ Used(k) /\ ~Used(k)' /\ Release(k, TRUE)
    BY <1>7, <2>0, <2>2, FinalizeUsed, ReleaseBlock
  <2>3. CASE /\ k = None \/ (k \in Handles /\ Used(k)')
             /\ UNCHANGED <<blocks, queue>>
    <3>1. Used(b)' <=> Used(b)
      BY <1>0, <1>7, <2>0, <2>3, FinalizeUsed
    <3>. QED
      BY <1>1, <2>3, <3>1 DEF blocks, queue
  <2>. QED
    BY <1>7, <2>0, <2>2, <2>3, FinalizeEffect
<1>8. ASSUME NEW w \in Wrappers, Drop(w) \/ Collect(w)
      PROVE  BlockStep(b)
  BY <1>1, <1>8 DEF Drop, Collect, Used, blocks, queue, wrapper
<1>9. CASE EnvCleanup \/ EnvDestroy
  BY <1>1, <1>9 DEF EnvCleanup, EnvDestroy, Jobs!End, Used, blocks, wrapper
<1>. QED
  BY <1>2, <1>3, <1>4, <1>5, <1>6, <1>7, <1>8, <1>9
  DEF Next, ReturnPointer, ReturnReference

LEMMA FreshStep ==
  ASSUME TypeOK, Tidy, Fresh, References, Next
  PROVE  Fresh'
<1>1. ASSUME NEW w \in Wrappers, NEW b \in Blocks, Take(w, b)
      PROVE  Fresh'
  <2>1. self[w] # None
    BY <1>1, NoneAssumption DEF Take, References, Live, TypeOK
  <2>2. /\ target' = [target EXCEPT ![b] = self[w]]
        /\ pins' = [pins EXCEPT ![b] = w] /\ waiting' = waiting
        /\ target[b] = None
    BY <1>1 DEF Take, queue
  <2>3. \A h \in Blocks : h # b => (Used(h)' <=> Used(h))
    BY <1>1 DEF Take, Used, wrapper
  <2>4. ASSUME NEW h \in Blocks
        PROVE  /\ target'[h] = None => pins'[h] = None /\ ~Used(h)'
               /\ Waits(h)' => target'[h] # None /\ ~Used(h)'
    <3>1. CASE h = b
      BY <2>1, <2>2, <3>1 DEF Fresh, Waits, TypeOK
    <3>2. CASE h # b
      BY <2>2, <2>3, <3>2 DEF Fresh, Waits, TypeOK
    <3>. QED
      BY <3>1, <3>2
  <2>. QED
    BY <2>4 DEF Fresh
<1>2. CASE ~\E w \in Wrappers, b \in Blocks : Take(w, b)
  BY <1>2, BlockSteps DEF BlockStep, Fresh
<1>. QED
  BY <1>1, <1>2

\* While the environment is running, a live wrapper stays as it is, unless it is
\* dropped and unpinned: then it may be collected.
LEMMA LiveStep ==
  ASSUME TypeOK, Tidy, Next, mode' = "serving"
  PROVE  /\ mode = "serving"
         /\ \A v \in Live :
              /\ self'[v] = self[v]
              /\ v \in Live' \/ (v \notin Pinned \cup held /\ held' = held)
<1>1. ASSUME mode = "serving", UNCHANGED <<status, self>>
      PROVE  /\ mode = "serving"
             /\ \A v \in Live : self'[v] = self[v] /\ v \in Live'
  BY <1>1 DEF Live
<1>2. ASSUME NEW w, NEW c, NEW p, NEW own, NEW k, mode = "serving",
             UNCHANGED wrapper \/ Wrap(w, c, p, own, k)
      PROVE  /\ mode = "serving"
             /\ \A v \in Live : self'[v] = self[v] /\ v \in Live'
  BY <1>2 DEF wrapper, Live, Wrap, Unused, TypeOK
<1>3. ASSUME NEW w \in Wrappers, NEW c \in Classes, NEW p \in Ptrs,
             Construct(w, c, p)
      PROVE  /\ mode = "serving"
             /\ \A v \in Live : self'[v] = self[v] /\ v \in Live'
  BY <1>2, <1>3 DEF Construct
<1>4. ASSUME NEW w \in Wrappers, NEW c \in Classes, NEW k \in Handles,
             ReturnPointer(w, c, k) \/ ReturnReference(w, c, k)
      PROVE  /\ mode = "serving"
             /\ \A v \in Live : self'[v] = self[v] /\ v \in Live'
  <2>1. PICK own \in BOOLEAN, h \in Handles \cup {None} :
          mode = "serving" /\ New(w, c, Pointee(k), own, h)
    BY <1>4 DEF ReturnPointer, ReturnReference
  <2>. QED
    BY <1>2, <2>1, NewWraps
<1>5. ASSUME NEW p \in Ptrs, MakeShared(p)
      PROVE  mode = "serving" /\ UNCHANGED <<status, self>>
  BY <1>5 DEF MakeShared, wrapper
<1>6. ASSUME NEW w \in Wrappers, NEW b \in Blocks, Take(w, b)
      PROVE  mode = "serving" /\ UNCHANGED <<status, self>>
  BY <1>6 DEF Take, wrapper
<1>7. ASSUME NEW k \in Handles, NEW main \in BOOLEAN, CppDrop(k, main)
      PROVE  mode = "serving" /\ UNCHANGED <<status, self>>
  BY <1>7, CppDropEffect, ReleaseEffect DEF wrapper, queue
<1>8. CASE RunJob
  BY <1>1, <1>8 DEF RunJob, Jobs!Run, wrapper
<1>9. ASSUME NEW w \in Wrappers, Drop(w)
      PROVE  mode = "serving" /\ UNCHANGED <<status, self>>
  BY <1>9 DEF Drop, wrapper
<1>10. ASSUME NEW w \in Wrappers, Collect(w)
       PROVE  /\ mode = "serving"
              /\ \A v \in Live :
                   /\ self'[v] = self[v]
                   /\ v \in Live' \/ (v \notin Pinned \cup held /\ held' = held)
  BY <1>10 DEF Collect, Live, TypeOK
<1>11. ASSUME NEW w \in Wrappers, Finalize(w)
       PROVE  /\ mode = "serving"
              /\ \A v \in Live : self'[v] = self[v] /\ v \in Live'
  <2>0. finalizer[w] \in Handles \cup {None}
    BY DEF TypeOK
  <2>1. mode' = mode
    BY <1>11, <2>0, FinalizeEffect, ReleaseEffect DEF queue
  <2>. QED
    BY <1>11, <2>1 DEF Finalize, Live, TypeOK
<1>12. ~EnvCleanup /\ ~EnvDestroy
  BY DEF EnvCleanup, EnvDestroy, Jobs!End
<1>. QED
  BY <1>1, <1>3, <1>4, <1>5, <1>6, <1>7, <1>8, <1>9, <1>10, <1>11, <1>12 DEF Next

LEMMA ReferencesStep ==
  ASSUME TypeOK, Tidy, Fresh, References, Next
  PROVE  References'
<1>. SUFFICES ASSUME mode' = "serving"
              PROVE  /\ held' \subseteq Live'
                     /\ \A b \in Blocks :
                          /\ Used(b)' => pins'[b] # None
                          /\ pins'[b] # None =>
                               /\ pins'[b] \in Live' /\ self'[pins'[b]] = target'[b]
                               /\ Used(b)' \/ Waits(b)'
  BY DEF References
<1>0. mode = "serving" /\ held \subseteq Live /\ Pinned \subseteq Live
  BY LiveStep DEF References, Pinned
<1>1. \A v \in held \cup Pinned : v \in Live' /\ self'[v] = self[v]
  BY <1>0, LiveStep
<1>2. held' \subseteq Live'
  <2>1. ASSUME NEW w \in Wrappers, NEW c \in Classes, NEW p \in Ptrs,
               Construct(w, c, p)
        PROVE  w \in Live'
    BY <2>1 DEF Construct, Wrap, Live, TypeOK
  <2>2. ASSUME NEW w \in Wrappers, NEW c \in Classes, NEW k \in Handles,
               ReturnPointer(w, c, k) \/ ReturnReference(w, c, k)
        PROVE  w \in Live'
    BY <2>2, NewWraps
    DEF ReturnPointer, ReturnReference, wrapper, Wrap, Live, TypeOK
  <2>3. \/ held' \subseteq held
        \/ \E w \in Wrappers : held' = held \cup {w} /\ w \in Live'
    BY <2>1, <2>2
    DEF Next, Construct, MakeShared, ReturnPointer, ReturnReference, Take, CppDrop,
        RunJob, Drop, Collect, Finalize, EnvCleanup, EnvDestroy
  <2>. QED
    BY <1>1, <2>3
<1>3. ASSUME NEW b \in Blocks
      PROVE  /\ Used(b)' => pins'[b] # None
             /\ pins'[b] # None =>
                  /\ pins'[b] \in Live' /\ self'[pins'[b]] = target'[b]
                  /\ Used(b)' \/ Waits(b)'
  <2>1. pins[b] # None => pins[b] \in Live' /\ self'[pins[b]] = target[b]
    BY <1>0, <1>1 DEF References, Pinned
  <2>2. CASE BlockStep(b)
    BY <1>0, <2>1, <2>2 DEF BlockStep, References
  <2>3. ASSUME NEW w \in Wrappers, NEW h \in Blocks, Take(w, h)
        PROVE  /\ Used(b)' => pins'[b] # None
               /\ pins'[b] # None =>
                    /\ pins'[b] \in Live' /\ self'[pins'[b]] = target'[b]
                    /\ Used(b)' \/ Waits(b)'
    <3>1. /\ target' = [target EXCEPT ![h] = self[w]]
          /\ pins' = [pins EXCEPT ![h] = w] /\ waiting' = waiting
          /\ w \in held /\ cpp' = cpp \cup {h} /\ finalizer' = finalizer
      BY <2>3 DEF Take, queue, wrapper
    <3>2. CASE b = h
      BY <1>1, <3>1, <3>2, NoneAssumption DEF Used, TypeOK
    <3>3. CASE b # h
      <4>1. /\ target'[b] = target[b] /\ pins'[b] = pins[b]
            /\ Used(b)' <=> Used(b)
            /\ Waits(b)' <=> Waits(b)
        BY <3>1, <3>3 DEF Used, Waits, TypeOK
      <4>. QED
        BY <1>0, <2>1, <4>1 DEF References
    <3>. QED
      BY <3>2, <3>3
  <2>. QED
    BY <2>2, <2>3, BlockSteps
<1>. QED
  BY <1>2, <1>3

\* The last copy of a block that deletes its object when it goes.
LEMMA ReleaseDeleters ==
  ASSUME TypeOK, Deleters, NEW k \in Handles, NEW main \in BOOLEAN,
         Release(k, main), Used(k), ~Used(k)', NEW p \in Ptrs,
         p # k => (Used(p)' <=> Used(p)),
         \A w \in Wrappers : Owner(w, p)' <=> Owner(w, p)
  PROVE  DeleterOf(p)'
<1>1. CASE k \in Ptrs /\ heap' = [heap EXCEPT ![k] = "freed"]
  BY <1>1 DEF Deleters, DeleterOf, TypeOK
<1>2. CASE k \notin Ptrs /\ heap' = heap
  BY <1>2 DEF Deleters, DeleterOf
<1>. QED
  BY <1>1, <1>2, ReleaseEffect

LEMMA DeletersStep ==
  ASSUME TypeOK, Tidy, Deleters, Next
  PROVE  Deleters'
<1>. SUFFICES ASSUME NEW p \in Ptrs PROVE DeleterOf(p)'
  BY DEF Deleters
<1>0. p \in Handles /\ p \notin Blocks /\ p # None
  BY BlocksAssumption, NoneAssumption DEF Handles
<1>1. ASSUME heap'[p] = heap[p], Used(p)' <=> Used(p),
             \A w \in Wrappers : Owner(w, p)' <=> Owner(w, p)
      PROVE  DeleterOf(p)'
  BY <1>1 DEF Deleters, DeleterOf
<1>2. ASSUME NEW w \in Wrappers, NEW c \in Classes, NEW q \in Ptrs,
             Construct(w, c, q)
      PROVE  DeleterOf(p)'
  <2>1. /\ heap[q] = "unused" /\ heap' = [heap EXCEPT ![q] = "exists"]
        /\ owned' = [owned EXCEPT ![w] = TRUE]
        /\ finalizer' = [finalizer EXCEPT ![w] = None]
        /\ self' = [self EXCEPT ![w] = q]
    BY <1>2 DEF Construct, Wrap
  <2>2. finalizer[w] = None /\ ~owned[w] /\ (Used(p)' <=> Used(p))
    BY <1>0, <1>2, WrapUsed DEF Construct
  <2>3. ASSUME NEW v \in Wrappers
        PROVE  Owner(v, p)' <=> Owner(v, p) \/ (v = w /\ p = q)
    BY <2>1, <2>2 DEF Owner, TypeOK
  <2>4. CASE p = q
    <3>1. ~Used(p) /\ \A v \in Wrappers : ~Owner(v, p)
      BY <2>1, <2>4 DEF Deleters, DeleterOf
    <3>2. heap'[p] = "exists"
      BY <2>1, <2>4 DEF TypeOK
    <3>. QED
      BY <2>2, <2>3, <2>4, <3>1, <3>2 DEF DeleterOf
  <2>5. CASE p # q
    BY <1>1, <2>1, <2>2, <2>3, <2>5 DEF TypeOK
  <2>. QED
    BY <2>4, <2>5
<1>3. ASSUME NEW q \in Ptrs, MakeShared(q)
      PROVE  DeleterOf(p)'
  <2>1. /\ heap[q] = "unused" /\ heap' = [heap EXCEPT ![q] = "exists"]
        /\ cpp' = cpp \cup {q} /\ UNCHANGED wrapper
    BY <1>3 DEF MakeShared
  <2>2. \A w \in Wrappers : Owner(w, p)' <=> Owner(w, p)
    BY <2>1 DEF wrapper, Owner
  <2>3. Used(p)' <=> Used(p) \/ p = q
    BY <2>1 DEF Used, wrapper
  <2>4. CASE p = q
    BY <2>1, <2>2, <2>3, <2>4 DEF Deleters, DeleterOf, TypeOK
  <2>5. CASE p # q
    BY <1>1, <2>1, <2>2, <2>3, <2>5 DEF TypeOK
  <2>. QED
    BY <2>4, <2>5
<1>4. ASSUME NEW w \in Wrappers, NEW c \in Classes, NEW k \in Handles,
             NEW own \in BOOLEAN, NEW h \in {k, None}, k \in cpp,
             New(w, c, Pointee(k), own, h), h # None \/ ~own,
             UNCHANGED <<cpp, heap>>
      PROVE  DeleterOf(p)'
  <2>1. CASE UNCHANGED wrapper
    BY <1>1, <1>4, <2>1 DEF wrapper, Used, Owner
  <2>2. CASE Wrap(w, c, Pointee(k), own, h)
    <3>1. Used(p)' <=> Used(p)
      BY <1>0, <1>4, <2>2, WrapUsed DEF Used
    <3>2. status[w] = "none" /\ finalizer[w] = None /\ ~owned[w]
      BY <1>4, <2>2, WrapUsed
    <3>3. /\ owned' = [owned EXCEPT ![w] = own]
          /\ finalizer' = [finalizer EXCEPT ![w] = h]
          /\ self' = [self EXCEPT ![w] = Pointee(k)]
      BY <2>2 DEF Wrap
    <3>4. \A v \in Wrappers : Owner(v, p)' <=> Owner(v, p)
      BY <1>4, <3>2, <3>3 DEF Owner, TypeOK
    <3>. QED
      BY <1>1, <1>4, <3>1, <3>4
  <2>. QED
    BY <1>4, <2>1, <2>2, NewWraps
<1>5. ASSUME NEW w \in Wrappers, NEW b \in Blocks, Take(w, b)
      PROVE  DeleterOf(p)'
  BY <1>0, <1>1, <1>5 DEF Take, wrapper, Used, Owner
<1>6. ASSUME NEW k \in Handles, NEW main \in BOOLEAN, CppDrop(k, main)
      PROVE  DeleterOf(p)'
  <2>1. /\ Used(k) /\ (p # k => (Used(p)' <=> Used(p)))
        /\ \A w \in Wrappers : Owner(w, p)' <=> Owner(w, p)
    BY <1>0, <1>6, CppDropEffect DEF wrapper, Owner
  <2>2. CASE Used(k)' /\ UNCHANGED <<heap, blocks, queue>>
    BY <1>1, <2>1, <2>2
  <2>3. CASE ~Used(k)' /\ Release(k, main)
    BY <2>1, <2>3, ReleaseDeleters
  <2>. QED
    BY <1>6, <2>2, <2>3, CppDropEffect
<1>7. ASSUME NEW w \in Wrappers, Finalize(w)
      PROVE  DeleterOf(p)'
  <2>0. PICK k \in Handles \cup {None} : finalizer[w] = k
    BY DEF TypeOK
  <2>1. p # k => (Used(p)' <=> Used(p))
    BY <1>0, <1>7, <2>0, FinalizeUsed
  <2>2. /\ owned' = [owned EXCEPT ![w] = FALSE]
        /\ finalizer' = [finalizer EXCEPT ![w] = None]
        /\ self' = [self EXCEPT ![w] = None]
    BY <1>7 DEF Finalize
  <2>3. \A v \in Wrappers : Owner(v, p)' <=> v # w /\ Owner(v, p)
    BY <1>0, <2>2 DEF Owner, TypeOK
  <2>4. CASE k \in Handles /\ Used(k) /\ ~Used(k)' /\ Release(k, TRUE)
    <3>1. ~Owner(w, p)
      BY <2>0, <2>4, NoneIsNoHandle DEF Owner
    <3>2. \A v \in Wrappers : Owner(v, p)' <=> Owner(v, p)
      BY <2>3, <3>1
    <3>. QED
      BY <2>1, <2>4, <3>2, ReleaseDeleters
  <2>5. CASE /\ k = None /\ owned[w]
             /\ heap' = [heap EXCEPT ![self[w]] = "freed"]
    <3>1. CASE p = self[w]
      <4>1. Owner(w, p)
        BY <2>0, <2>5, <3>1 DEF Owner
      <4>2. ~Used(p) /\ \A v \in Wrappers : Owner(v, p) => v = w
        BY <4>1 DEF Deleters, DeleterOf
      <4>3. heap'[p] = "freed"
        BY <2>5, <3>1 DEF TypeOK
      <4>. QED
        BY <1>0, <2>1, <2>3, <2>5, <4>2, <4>3 DEF DeleterOf
    <3>2. CASE p # self[w]
      <4>1. ~Owner(w, p)
        BY <3>2 DEF Owner
      <4>2. heap'[p] = heap[p]
        BY <2>5, <3>2 DEF TypeOK
      <4>. QED
        BY <1>0, <1>1, <2>1, <2>3, <2>5, <4>1, <4>2
    <3>. QED
      BY <3>1, <3>2
  <2>6. CASE /\ \/ k = None /\ ~owned[w]
                \/ k \in Handles /\ Used(k)'
             /\ UNCHANGED <<heap, blocks, queue>>
    <3>1. ~Owner(w, p)
      BY <2>0, <2>6, NoneIsNoHandle DEF Owner
    <3>2. Used(p)' <=> Used(p)
      BY <1>0, <1>7, <2>1, <2>6, FinalizeUsed
    <3>. QED
      BY <1>1, <2>3, <2>6, <3>1, <3>2
  <2>. QED
    BY <1>7, <2>0, <2>4, <2>5, <2>6, FinalizeEffect
<1>8. ASSUME UNCHANGED <<heap, cpp, owned, finalizer, self>>
      PROVE  DeleterOf(p)'
  BY <1>1, <1>8 DEF Used, Owner
<1>9. ASSUME NEW w \in Wrappers, Drop(w) \/ Collect(w)
      PROVE  DeleterOf(p)'
  BY <1>8, <1>9 DEF Drop, Collect, wrapper
<1>10. CASE RunJob \/ EnvCleanup \/ EnvDestroy
  BY <1>8, <1>10 DEF RunJob, EnvCleanup, EnvDestroy, wrapper
<1>11. ASSUME NEW w \in Wrappers, NEW c \in Classes, NEW k \in Handles,
              ReturnPointer(w, c, k) \/ ReturnReference(w, c, k)
       PROVE  DeleterOf(p)'
  BY <1>4, <1>11, NoneIsNoHandle DEF ReturnPointer, ReturnReference
<1>. QED
  BY <1>2, <1>3, <1>5, <1>6, <1>7, <1>9, <1>10, <1>11 DEF Next

LEMMA NoCycleStep ==
  ASSUME TypeOK, Tidy, Fresh, References, NoCycle, Next
  PROVE  NoCycle'
\* a step that leads from no wrapper to another that it pins
<1>1. ASSUME \A v \in Wrappers, b \in Blocks :
               finalizer'[v] = b /\ pins'[b] # None =>
                 finalizer[v] = b /\ pins'[b] = pins[b]
      PROVE  NoCycle'
  BY <1>1, NoneAssumption DEF NoCycle, Unpinned
<1>2. ASSUME NEW w \in Wrappers, NEW c, NEW p, NEW own, NEW k, mode = "serving",
             UNCHANGED wrapper \/ Wrap(w, c, p, own, k), pins' = pins
      PROVE  NoCycle'
  <2>1. CASE UNCHANGED wrapper
    BY <1>1, <1>2, <2>1 DEF wrapper
  <2>2. CASE Wrap(w, c, p, own, k)
    <3>1. \A v \in Wrappers \ {w} : finalizer'[v] = finalizer[v]
      BY <2>2 DEF Wrap, TypeOK
    <3>2. \A b \in Blocks : pins'[b] # w
      BY <1>2, <2>2, NoneAssumption DEF Wrap, Unused, References, Live, TypeOK
    <3>3. ASSUME NEW S \in SUBSET Wrappers, S # {}
          PROVE  \E v \in S : Unpinned(v, S)'
      <4>1. CASE w \in S
        BY <3>2, <4>1 DEF Unpinned
      <4>2. CASE w \notin S
        <5>1. PICK v \in S : Unpinned(v, S)
          BY <3>3 DEF NoCycle
        <5>2. Unpinned(v, S)'
          BY <1>2, <3>1, <4>2, <5>1 DEF Unpinned
        <5>. QED
          BY <5>2
      <4>. QED
        BY <4>1, <4>2
    <3>. QED
      BY <3>3 DEF NoCycle
  <2>. QED
    BY <1>2, <2>1, <2>2
<1>3. ASSUME NEW w \in Wrappers, NEW b \in Blocks, Take(w, b)
      PROVE  NoCycle'
  <2>1. /\ finalizer' = finalizer /\ pins' = [pins EXCEPT ![b] = w]
        /\ \A v \in Wrappers : finalizer[v] # b
    BY <1>3 DEF Take, wrapper, Fresh, Used
  <2>. QED
    BY <1>1, <2>1 DEF TypeOK
<1>4. ASSUME \A b \in Blocks : BlockStep(b),
             \A v \in Wrappers : finalizer'[v] \in {finalizer[v], None}
      PROVE  NoCycle'
  <2>1. \A b \in Blocks : b # None
    BY BlocksAssumption
  <2>. QED
    BY <1>1, <1>4, <2>1 DEF BlockStep
<1>5. CASE ~\E w \in Wrappers, b \in Blocks : Take(w, b)
  <2>0. \A b \in Blocks : BlockStep(b)
    BY <1>5, BlockSteps
  <2>1. ASSUME NEW w \in Wrappers, NEW c \in Classes, NEW p \in Ptrs,
               Construct(w, c, p)
        PROVE  NoCycle'
    BY <1>2, <2>1 DEF Construct, blocks
  <2>2. ASSUME NEW w \in Wrappers, NEW c \in Classes, NEW k \in Handles,
               ReturnPointer(w, c, k) \/ ReturnReference(w, c, k)
        PROVE  NoCycle'
    <3>1. PICK own, h : New(w, c, Pointee(k), own, h)
                          /\ pins' = pins /\ mode = "serving"
      BY <2>2 DEF ReturnPointer, ReturnReference, blocks
    <3>. QED
      BY <1>2, <3>1, NewWraps
  <2>3. ASSUME NEW w \in Wrappers, Finalize(w)
        PROVE  NoCycle'
    BY <1>4, <2>0, <2>3 DEF Finalize, TypeOK
  <2>4. CASE finalizer' = finalizer
    BY <1>4, <2>0, <2>4
  <2>. QED
    BY <1>5, <2>1, <2>2, <2>3, <2>4
    DEF Next, MakeShared, CppDrop, RunJob, Drop, Collect, EnvCleanup, EnvDestroy,
        wrapper
<1>. QED
  BY <1>3, <1>5

\* What keeps the object of wrapper u keeps it as long as u is the same and its
\* blocks have the same references; wrappers that nothing pins make no difference.
LEMMA KeptLasts ==
  ASSUME TypeOK, Fresh, References, mode = "serving",
         NEW T \in SUBSET Live, NEW S \in SUBSET Wrappers,
         T \subseteq S, (S \ T) \cap Live = {},
         NEW u \in T, Kept(u, T),
         owned'[u] = owned[u], finalizer'[u] = finalizer[u],
         \A b \in Blocks : Used(b) /\ Used(b)' => pins'[b] = pins[b]
  PROVE  Kept(u, S)'
<1>0. u \in Wrappers
  BY DEF TypeOK, Live
<1>1. \A b \in Blocks : pins[b] \notin T => pins[b] \notin S
  BY NoneAssumption DEF References
<1>2. CASE ~owned[u] \/ finalizer[u] = None \/ finalizer[u] \in Ptrs
  BY <1>2 DEF Kept
<1>3. CASE finalizer[u] \in Blocks /\ pins[finalizer[u]] \notin T
  <2>1. PICK b \in Blocks : b = finalizer[u]
    BY <1>3
  <2>2. Used(b) /\ Used(b)'
    BY <1>0, <2>1 DEF Used
  <2>3. pins'[b] \notin S
    BY <1>1, <1>3, <2>1, <2>2
  <2>. QED
    BY <2>1, <2>3 DEF Kept
<1>. QED
  BY <1>2, <1>3 DEF Kept

LEMMA FoundedStep ==
  ASSUME TypeOK, Tidy, Fresh, References, Founded, Next
  PROVE  Founded'
<1>. SUFFICES ASSUME mode' = "serving", NEW S \in SUBSET Live', S # {},
                     \A u, v \in S : self'[u] = self'[v]
              PROVE  \E u \in S : Kept(u, S)'
  BY DEF Founded
<1>0. mode = "serving" /\ S \subseteq Wrappers
  BY LiveStep DEF Live
\* the wrappers of S stay as they are
<1>1. ASSUME S \subseteq Live,
             \A u \in S : /\ self'[u] = self[u] /\ owned'[u] = owned[u]
                          /\ finalizer'[u] = finalizer[u],
             \A b \in Blocks : Used(b) /\ Used(b)' => pins'[b] = pins[b]
      PROVE  \E u \in S : Kept(u, S)'
  <2>1. PICK u \in S : Kept(u, S)
    BY <1>0, <1>1 DEF Founded
  <2>2. Kept(u, S)'
    BY <1>0, <1>1, <2>1, KeptLasts
  <2>. QED
    BY <2>2
\* one of them may be new
<1>2. ASSUME NEW w \in Wrappers, NEW c, NEW p, NEW own, NEW h,
             UNCHANGED wrapper \/ Wrap(w, c, p, own, h),
             UNCHANGED <<cpp, target, pins>>,
             Wrap(w, c, p, own, h) /\ w \in S => Kept(w, S)' \/ S # {w}
      PROVE  \E u \in S : Kept(u, S)'
  <2>1. CASE UNCHANGED wrapper
    <3>1. S \subseteq Live
      BY <2>1 DEF wrapper, Live
    <3>. QED
      BY <1>1, <1>2, <2>1, <3>1 DEF wrapper, Pointee
  <2>2. CASE Wrap(w, c, p, own, h)
    <3>1. /\ w \notin Live /\ S \ {w} \subseteq Live
          /\ \A u \in Wrappers \ {w} : /\ self'[u] = self[u] /\ owned'[u] = owned[u]
                                       /\ finalizer'[u] = finalizer[u]
      BY <2>2 DEF Wrap, Unused, Live, TypeOK
    <3>2. CASE w \notin S
      BY <1>0, <1>1, <1>2, <3>1, <3>2 DEF Pointee
    <3>3. CASE w \in S /\ S # {w}
      <4>. DEFINE T == S \ {w}
      <4>1. T \in SUBSET Live /\ T # {} /\ T \subseteq S /\ (S \ T) \cap Live = {}
        BY <3>1, <3>3
      <4>2. \A u, v \in T : self[u] = self[v]
        BY <1>0, <3>1
      <4>3. PICK u \in T : Kept(u, T)
        BY <1>0, <4>1, <4>2 DEF Founded
      <4>4. /\ u \in S /\ self'[u] = self[u] /\ owned'[u] = owned[u]
            /\ finalizer'[u] = finalizer[u]
        BY <1>0, <3>1
      <4>. HIDE DEF T
      <4>5. Kept(u, S)'
        BY <1>0, <1>2, <4>1, <4>3, <4>4, KeptLasts DEF Pointee
      <4>. QED
        BY <4>4, <4>5
    <3>. QED
      BY <1>2, <2>2, <3>2, <3>3
  <2>. QED
    BY <1>2, <2>1, <2>2
<1>3. ASSUME NEW w \in Wrappers, NEW c \in Classes, NEW p \in Ptrs,
             Construct(w, c, p)
      PROVE  \E u \in S : Kept(u, S)'
  <2>1. Wrap(w, c, p, TRUE, None) /\ UNCHANGED <<cpp, target, pins>>
    BY <1>3 DEF Construct, blocks
  <2>2. Kept(w, S)'
    BY <2>1 DEF Wrap, Kept, TypeOK
  <2>. QED
    BY <1>2, <2>1, <2>2
<1>4. ASSUME NEW w \in Wrappers, NEW c \in Classes, NEW k \in Handles,
             NEW own \in BOOLEAN, NEW h \in {k, None},
             (own /\ h = k) \/ (~own /\ h = None), k \in cpp,
             New(w, c, Pointee(k), own, h), UNCHANGED <<cpp, target, pins>>
      PROVE  \E u \in S : Kept(u, S)'
  <2>1. ASSUME Wrap(w, c, Pointee(k), own, h), w \in S
        PROVE  Kept(w, S)' \/ S # {w}
    <3>1. /\ finalizer'[w] = h /\ self'[w] = Pointee(k)' /\ owned'[w] = own
          /\ w \notin Live /\ k \in cpp'
      BY <1>4, <2>1 DEF Wrap, Unused, Live, Pointee, TypeOK
    <3>2. CASE k \in Ptrs \/ pins'[k] \notin S
      BY <1>4, <3>1, <3>2 DEF Kept, Handles
    <3>3. CASE k \in Blocks /\ pins'[k] \in S
      <4>1. pins[k] # w
        BY <1>0, <1>4, <3>1, <3>3, NoneAssumption DEF References
      <4>. QED
        BY <1>4, <3>3, <4>1
    <3>. QED
      BY <3>2, <3>3 DEF Handles
  <2>. QED
    BY <1>2, <1>4, <2>1, NewWraps
<1>5. ASSUME NEW w \in Wrappers, NEW c \in Classes, NEW k \in Handles,
             ReturnPointer(w, c, k) \/ ReturnReference(w, c, k)
      PROVE  \E u \in S : Kept(u, S)'
  <2>1. CASE ReturnPointer(w, c, k)
    <3>1. New(w, c, Pointee(k), TRUE, k) /\ k \in cpp
          /\ UNCHANGED <<cpp, target, pins>>
      BY <2>1 DEF ReturnPointer, blocks
    <3>. QED
      BY <1>4, <3>1
  <2>2. CASE ReturnReference(w, c, k)
    BY <1>4, <2>2 DEF ReturnReference, blocks
  <2>. QED
    BY <1>5, <2>1, <2>2
<1>6. ASSUME NEW w \in Wrappers, NEW b \in Blocks, Take(w, b)
      PROVE  \E u \in S : Kept(u, S)'
  <2>1. /\ UNCHANGED wrapper /\ S \subseteq Live /\ ~Used(b)
        /\ pins' = [pins EXCEPT ![b] = w]
    BY <1>6 DEF Take, wrapper, Live, Fresh
  <2>2. \A h \in Blocks : Used(h) => pins'[h] = pins[h]
    BY <2>1 DEF TypeOK
  <2>. QED
    BY <1>1, <2>1, <2>2 DEF wrapper
<1>7. ASSUME NEW k \in Handles, NEW main \in BOOLEAN, CppDrop(k, main),
             \A b \in Blocks : BlockStep(b)
      PROVE  \E u \in S : Kept(u, S)'
  <2>1. UNCHANGED wrapper /\ S \subseteq Live
    BY <1>7 DEF CppDrop, wrapper, Live
  <2>2. \A b \in Blocks : Used(b) /\ Used(b)' => pins'[b] = pins[b]
    BY <1>7 DEF BlockStep
  <2>. QED
    BY <1>1, <2>1, <2>2 DEF wrapper
<1>8. ASSUME NEW w \in Wrappers, Finalize(w), \A b \in Blocks : BlockStep(b)
      PROVE  \E u \in S : Kept(u, S)'
  <2>1. S \subseteq Live /\ w \notin Live
    BY <1>0, <1>8 DEF Finalize, Live, TypeOK
  <2>2. \A u \in S : /\ self'[u] = self[u] /\ owned'[u] = owned[u]
                     /\ finalizer'[u] = finalizer[u]
    <3>1. /\ self' = [self EXCEPT ![w] = None]
          /\ owned' = [owned EXCEPT ![w] = FALSE]
          /\ finalizer' = [finalizer EXCEPT ![w] = None]
      BY <1>8 DEF Finalize
    <3>2. \A u \in S : u # w /\ u \in Wrappers
      BY <2>1 DEF Live
    <3>3. DOMAIN self = Wrappers /\ DOMAIN owned = Wrappers
          /\ DOMAIN finalizer = Wrappers
      BY DEF TypeOK
    <3>. QED
      BY <3>1, <3>2, <3>3
  <2>3. \A b \in Blocks : Used(b) /\ Used(b)' => pins'[b] = pins[b]
    BY <1>8 DEF BlockStep
  <2>. QED
    BY <1>1, <2>1, <2>2, <2>3
<1>9. ASSUME UNCHANGED <<self, owned, finalizer>>, Live' \subseteq Live,
             \A b \in Blocks : BlockStep(b)
      PROVE  \E u \in S : Kept(u, S)'
  BY <1>1, <1>9 DEF BlockStep
<1>10. CASE ~\E w \in Wrappers, b \in Blocks : Take(w, b)
  <2>0. \A b \in Blocks : BlockStep(b)
    BY <1>10, BlockSteps
  <2>1. ASSUME NEW p \in Ptrs, MakeShared(p)
        PROVE  \E u \in S : Kept(u, S)'
    BY <1>9, <2>0, <2>1 DEF MakeShared, wrapper, blocks, Live
  <2>2. CASE RunJob
    BY <1>9, <2>0, <2>2 DEF RunJob, wrapper, Live
  <2>3. ASSUME NEW w \in Wrappers, Drop(w)
        PROVE  \E u \in S : Kept(u, S)'
    BY <1>9, <2>0, <2>3 DEF Drop, wrapper, blocks, Live
  <2>4. ASSUME NEW w \in Wrappers, Collect(w)
        PROVE  \E u \in S : Kept(u, S)'
    <3>1. Live' \subseteq Live
      BY <2>4 DEF Collect, Live, TypeOK
    <3>. QED
      BY <1>9, <2>0, <2>4, <3>1 DEF Collect, blocks
  <2>5. ~EnvCleanup /\ ~EnvDestroy
    BY DEF EnvCleanup, EnvDestroy, Jobs!End
  <2>. QED
    BY <1>3, <1>5, <1>7, <1>8, <1>10, <2>0, <2>1, <2>2, <2>3, <2>4, <2>5 DEF Next
<1>. QED
  BY <1>6, <1>10

LEMMA Initially == Init => IInv
<1>. SUFFICES ASSUME Init PROVE IInv
  OBVIOUS
<1>1. TypeOK
  BY TypeInit
<1>2. /\ \A k \in Handles : ~Used(k)
      /\ \A b \in Blocks : ~Waits(b) /\ pins[b] = None
      /\ \A p \in Ptrs : heap[p] # "exists"
      /\ \A w \in Wrappers : finalizer[w] = None /\ ~owned[w]
      /\ held = {} /\ Live = {}
  BY NoneIsNoHandle DEF Init, Jobs!Init, Used, Waits, Live
<1>3. Tidy /\ Fresh /\ References /\ Founded
  BY <1>2 DEF Tidy, Fresh, References, Founded, Handles
<1>4. Deleters
  BY <1>2 DEF Deleters, DeleterOf, Owner, Handles
<1>5. NoCycle
  BY <1>2, NoneAssumption DEF NoCycle, Unpinned
<1>. QED
  BY <1>1, <1>3, <1>4, <1>5 DEF IInv

LEMMA Preserved == IInv /\ [Next]_vars => IInv'
<1>1. ASSUME IInv, Next PROVE IInv'
  <2>1. \A k \in cpp : Pointee(k) \in Ptrs
    BY <1>1, CppPointee DEF IInv
  <2>2. TypeOK'
    BY <1>1, <2>1, TypeStep DEF IInv
  <2>. QED
    BY <1>1, <2>2, TidyStep, FreshStep, ReferencesStep, DeletersStep, NoCycleStep,
       FoundedStep
    DEF IInv
<1>2. ASSUME IInv, UNCHANGED vars PROVE IInv'
  <2>1. UNCHANGED <<heap, cpp, target, pins, store, status, class, self, owned,
                    finalizer, promised, held, waiting, done, mode>>
    BY <1>2 DEF vars
  <2>2. TypeOK'
    BY <1>2, TypeStep, CppPointee DEF IInv
  <2>3. Tidy' /\ Fresh' /\ References'
    BY <1>2, <2>1
    DEF IInv, Tidy, Pointee, Fresh, Used, Waits, References, Live
  <2>4. Deleters' /\ NoCycle'
    BY <1>2, <2>1
    DEF IInv, Deleters, DeleterOf, Used, Owner, NoCycle, Unpinned
  <2>5. Founded'
    BY <1>2, <2>1 DEF IInv, Founded, Kept, Live
  <2>. QED
    BY <2>2, <2>3, <2>4, <2>5 DEF IInv
<1>. QED
  BY <1>1, <1>2

-----------------------------------------------------------------------------
(***************************************************************************)
(* The theorems.                                                           *)
(***************************************************************************)
LEMMA Invariance == Spec => []IInv
  BY Initially, Preserved, PTL DEF Spec

\* Every reachable state is well typed, for any number of objects, classes,
\* wrappers and control blocks.
THEOREM TypeCorrect == Spec => []TypeOK
<1>1. IInv => TypeOK
  BY DEF IInv
<1>. QED
  BY <1>1, Invariance, PTL

\* Every object that exists has exactly one deleter, in whatever order wrappers
\* are destroyed and C++ gives up its copies, and on whatever thread.
THEOREM SingleDeleter == Spec => []OneDeleter
<1>1. IInv => OneDeleter
  <2>. SUFFICES ASSUME IInv, NEW p \in Ptrs
                PROVE  LET owners == {w \in Wrappers : /\ status[w] # "none"
                                                      /\ owned[w]
                                                      /\ finalizer[w] = None
                                                      /\ self[w] = p}
                       IN  /\ heap[p] = "exists" =>
                                IF InUse(p) THEN owners = {}
                                            ELSE \E w \in owners : owners = {w}
                           /\ heap[p] # "exists" => owners = {}
    BY DEF OneDeleter
  <2>. DEFINE owners == {w \in Wrappers : /\ status[w] # "none"
                                          /\ owned[w]
                                          /\ finalizer[w] = None
                                          /\ self[w] = p}
  <2>1. InUse(p) <=> Used(p)
    BY UsedIsInUse DEF IInv, Handles
  <2>2. \A w \in Wrappers : w \in owners <=> Owner(w, p)
    BY DEF IInv, Tidy, Owner
  <2>3. owners \subseteq Wrappers
    OBVIOUS
  <2>4. DeleterOf(p)
    BY DEF IInv, Deleters
  <2>. HIDE DEF owners
  <2>5. /\ heap[p] = "exists" =>
             IF InUse(p) THEN owners = {} ELSE \E w \in owners : owners = {w}
        /\ heap[p] # "exists" => owners = {}
    <3>1. CASE Used(p)
      BY <2>1, <2>2, <2>3, <2>4, <3>1 DEF DeleterOf
    <3>2. CASE ~Used(p) /\ heap[p] = "exists"
      <4>1. PICK w \in Wrappers : Owner(w, p)
        BY <2>4, <3>2 DEF DeleterOf
      <4>2. w \in owners /\ owners = {w}
        BY <2>2, <2>3, <2>4, <4>1 DEF DeleterOf
      <4>. QED
        BY <2>1, <3>2, <4>2
    <3>3. CASE heap[p] # "exists"
      BY <2>2, <2>3, <2>4, <3>3 DEF DeleterOf
    <3>. QED
      BY <3>1, <3>2, <3>3
  <2>. QED
    BY <2>5 DEF owners
<1>. QED
  BY <1>1, Invariance, PTL

\* However often an object goes back and forth, no wrapper is kept alive by
\* itself.
THEOREM Acyclic == Spec => []NoOwnershipCycle
<1>1. IInv => NoOwnershipCycle
  <2>. SUFFICES ASSUME NoCycle, NEW S \in (SUBSET Wrappers) \ {{}}
                PROVE  \E w \in S : \A v \in S, b \in Blocks :
                         pins[b] = w => finalizer[v] # b
    BY DEF IInv, NoOwnershipCycle
  <2>. QED
    BY DEF NoCycle, Unpinned
<1>. QED
  BY <1>1, Invariance, PTL

\* No persistent reference is forgotten.
THEOREM ReleasesReach == Spec => []NoLostRelease
<1>1. IInv => NoLostRelease
  <2>. SUFFICES ASSUME IInv, mode = "serving", NEW b \in Blocks, pins[b] # None
                PROVE  InUse(b) \/ Waits(b)
    BY DEF NoLostRelease, Waits
  <2>. QED
    BY UsedIsInUse DEF IInv, References, Handles
<1>. QED
  BY <1>1, Invariance, PTL

\* The object of a live wrapper exists, unless JavaScript has it by reference:
\* otherwise the wrappers of that object would be kept by nothing but each other.
LEMMA LiveObjects ==
  ASSUME IInv, mode = "serving", NEW w \in Live
  PROVE  /\ self[w] \in Ptrs
         /\ heap[self[w]] = "exists" \/ Lent(self[w])
         /\ owned[w] /\ finalizer[w] \notin Blocks => heap[self[w]] = "exists"
<1>. DEFINE p == self[w]
            S == {v \in Live : self[v] = p}
<1>1. p \in Ptrs
  BY DEF IInv, TypeOK, Live
<1>2. \A k \in Handles : Used(k) /\ Pointee(k) = p =>
        \/ k \in Ptrs /\ heap[p] = "exists"
        \/ k \in Blocks /\ pins[k] \in S
  BY DEF IInv, References, Pointee, Handles, Deleters, DeleterOf
\* the owner, or the finalizer, of one of the wrappers
<1>3. ASSUME NEW u \in Live, self[u] = p, owned[u],
             \/ finalizer[u] = None
             \/ finalizer[u] \in Ptrs
             \/ finalizer[u] \in Blocks /\ pins[finalizer[u]] \notin S
      PROVE  heap[p] = "exists"
  <2>1. u \in Wrappers /\ finalizer[u] \in Handles \cup {None}
    BY DEF IInv, TypeOK, Live
  <2>2. CASE finalizer[u] = None
    BY <1>1, <1>3, <2>1, <2>2 DEF IInv, Deleters, DeleterOf, Owner
  <2>3. CASE finalizer[u] # None
    <3>1. finalizer[u] \in Handles /\ Used(finalizer[u]) /\ Pointee(finalizer[u]) = p
      BY <1>3, <2>1, <2>3 DEF Used, IInv, Tidy
    <3>2. finalizer[u] \in Ptrs => finalizer[u] \notin Blocks
      BY BlocksAssumption
    <3>. QED
      BY <1>2, <1>3, <2>3, <3>1, <3>2
  <2>. QED
    BY <2>2, <2>3
<1>4. heap[p] = "exists" \/ Lent(p)
  <2>1. PICK u \in S : Kept(u, S)
    BY DEF IInv, Founded
  <2>2. CASE ~owned[u]
    BY <2>1, <2>2 DEF Lent
  <2>3. CASE owned[u]
    <3>1. u \in Live /\ self[u] = p
      BY <2>1
    <3>2. \/ finalizer[u] = None
          \/ finalizer[u] \in Ptrs
          \/ finalizer[u] \in Blocks /\ pins[finalizer[u]] \notin S
      BY <2>1, <2>3 DEF Kept
    <3>. QED
      BY <1>3, <2>3, <3>1, <3>2
  <2>. QED
    BY <2>2, <2>3
<1>5. finalizer[w] \in Handles \cup {None}
  BY DEF IInv, TypeOK, Live
<1>6. owned[w] /\ finalizer[w] \notin Blocks => heap[p] = "exists"
  BY <1>3, <1>5 DEF Handles
<1>. QED
  BY <1>1, <1>4, <1>6

\* Whatever C++ gives up, and on whatever thread: the object of a wrapper that
\* JavaScript or C++ can reach exists while the environment is running, unless
\* JavaScript has it by reference.
THEOREM ProxiesPoint == Spec => []NoDanglingProxyUnlessLent
<1>1. IInv => NoDanglingProxyUnlessLent
  <2>. SUFFICES ASSUME IInv, mode = "serving", NEW w \in held \cup Pinned
                PROVE  /\ w \in Live
                       /\ \/ heap[self[w]] = "exists"
                          \/ Lent(self[w]) /\ (owned[w] => finalizer[w] \in Blocks)
    BY DEF NoDanglingProxyUnlessLent
  <2>1. w \in Live
    BY DEF IInv, References, Pinned
  <2>. QED
    BY <2>1, LiveObjects
<1>. QED
  BY <1>1, Invariance, PTL

\* And so does the object of every shared_ptr that C++ keeps, whichever of the
\* object's control blocks it belongs to and whichever others are gone.
THEOREM SharedPtrsPoint == Spec => []NoDanglingSharedPtrUnlessLent
<1>1. IInv => NoDanglingSharedPtrUnlessLent
  <2>. SUFFICES ASSUME IInv, mode = "serving", NEW k \in cpp
                PROVE  \/ heap[Pointee(k)] = "exists"
                       \/ k \in Blocks /\ Lent(Pointee(k))
    BY DEF NoDanglingSharedPtrUnlessLent
  <2>1. k \in Handles /\ Used(k)
    BY DEF IInv, TypeOK, Used
  <2>2. CASE k \in Ptrs
    BY <2>1, <2>2 DEF IInv, Deleters, DeleterOf, Pointee
  <2>3. CASE k \in Blocks /\ k \notin Ptrs
    <3>1. pins[k] \in Live /\ self[pins[k]] = target[k]
      BY <2>1, <2>3 DEF IInv, References
    <3>. QED
      BY <2>3, <3>1, LiveObjects DEF Pointee
  <2>. QED
    BY <2>1, <2>2, <2>3 DEF Handles
<1>. QED
  BY <1>1, Invariance, PTL

\* JavaScript owns what it has, if nothing is returned by reference.
LEMMA OwnedStep ==
  ASSUME "reference" \notin Kinds, TypeOK, \A w \in Live : owned[w], Next
  PROVE  \A w \in Live' : owned'[w]
<1>1. ASSUME UNCHANGED owned, Live' \subseteq Live
      PROVE  \A w \in Live' : owned'[w]
  BY <1>1
<1>2. ASSUME NEW w \in Wrappers, NEW c, NEW p, NEW k,
             UNCHANGED wrapper \/ Wrap(w, c, p, TRUE, k)
      PROVE  \A v \in Live' : owned'[v]
  BY <1>2 DEF wrapper, Wrap, Live, TypeOK
<1>3. ASSUME NEW w \in Wrappers, Finalize(w)
      PROVE  \A v \in Live' : owned'[v]
  BY <1>3 DEF Finalize, Live, TypeOK
<1>4. ASSUME NEW w \in Wrappers, Collect(w)
      PROVE  \A v \in Live' : owned'[v]
  BY <1>4 DEF Collect, Live, TypeOK
<1>5. ASSUME NEW w \in Wrappers, NEW c \in Classes, NEW k \in Handles,
             ReturnPointer(w, c, k) \/ ReturnReference(w, c, k)
      PROVE  \A v \in Live' : owned'[v]
  <2>1. New(w, c, Pointee(k), TRUE, k)
    BY <1>5 DEF ReturnPointer, ReturnReference
  <2>. QED
    BY <1>2, <2>1, NewWraps
<1>6. CASE UNCHANGED wrapper
  BY <1>1, <1>6 DEF wrapper, Live
<1>. QED
  BY <1>2, <1>3, <1>4, <1>5, <1>6
  DEF Next, Construct, MakeShared, Take, CppDrop, RunJob, Drop, EnvCleanup, EnvDestroy,
      wrapper

\* Where objects travel as shared_ptrs and not by reference, both directions keep
\* what the documentation promises (README.md:818), whatever C++ gives up: nothing
\* that JavaScript can reach dangles, and no shared_ptr.
THEOREM SharedPtrsKeep ==
  ASSUME "reference" \notin Kinds
  PROVE  Spec => [](NoDanglingProxy /\ SharedPtrsProtect)
<1>. DEFINE Own == \A w \in Live : owned[w]
<1>1. Init => Own
  BY DEF Init, Live
<1>2. IInv /\ Own /\ [Next]_vars => Own'
  <2>1. ASSUME IInv, Own, Next PROVE Own'
    BY <2>1, OwnedStep DEF IInv
  <2>2. ASSUME Own, UNCHANGED vars PROVE Own'
    BY <2>2 DEF vars, Live
  <2>. QED
    BY <2>1, <2>2
<1>3. Own => \A p : ~Lent(p)
  BY DEF Lent
<1>4. Own /\ NoDanglingProxyUnlessLent => NoDanglingProxy
  BY <1>3 DEF NoDanglingProxyUnlessLent, NoDanglingProxy
<1>5. Own /\ NoDanglingProxy /\ NoDanglingSharedPtrUnlessLent => SharedPtrsProtect
  BY <1>3 DEF NoDanglingProxy, NoDanglingSharedPtrUnlessLent, SharedPtrsProtect
<1>. HIDE DEF Own
<1>. QED
  BY <1>1, <1>2, <1>4, <1>5, Invariance, ProxiesPoint, SharedPtrsPoint, PTL DEF Spec

-----------------------------------------------------------------------------
(***************************************************************************)
(* Each persistent reference is deleted once.                              *)
(***************************************************************************)
\* the job that releases b has been run
Ran(b) == \E i \in DOMAIN done : done[i] = b

\* A reference is there as long as somebody has a copy or its release is waiting,
\* and its job is handed over once: no job deletes what a deleter on the
\* JavaScript thread, or another job, has already deleted.
DeletedOnce ==
  /\ \A b \in Blocks : InUse(b) \/ Waits(b) => pins[b] # None
  /\ \A b \in Blocks : InUse(b) => ~Waits(b) /\ ~Ran(b)
  /\ \A i, j \in DOMAIN waiting : waiting[i] = waiting[j] => i = j

\* A job is of a block that has been made and that nobody has a copy of, or will.
Single ==
  /\ \A b \in Blocks : Used(b) \/ Waits(b) => pins[b] # None
  /\ \A b \in Blocks : Ran(b) => target[b] # None /\ ~Used(b) /\ ~Waits(b)
  /\ \A i, j \in DOMAIN waiting : waiting[i] = waiting[j] => i = j

\* the jobs after a job has been handed over, and after one has been run
LEMMA Queued ==
  ASSUME NEW s \in Seq(Blocks), NEW k \in Blocks, \A i \in DOMAIN s : s[i] # k
  PROVE  LET t == Append(s, k) IN
         /\ \A b : (\E i \in DOMAIN t : t[i] = b) <=> (\E i \in DOMAIN s : s[i] = b) \/ b = k
         /\ (\A i, j \in DOMAIN s : s[i] = s[j] => i = j)
              => \A i, j \in DOMAIN t : t[i] = t[j] => i = j
<1>. DEFINE t == Append(s, k)
<1>1. /\ DOMAIN s = 1 .. Len(s) /\ Len(s) \in Nat /\ DOMAIN t = 1 .. Len(s) + 1
      /\ \A i \in 1 .. Len(s) : t[i] = s[i]
      /\ t[Len(s) + 1] = k
  BY AppendProperties, LenProperties
<1>. HIDE DEF t
<1>2. \A b : (\E i \in DOMAIN t : t[i] = b) <=> (\E i \in DOMAIN s : s[i] = b) \/ b = k
  BY <1>1
<1>3. ASSUME \A i, j \in DOMAIN s : s[i] = s[j] => i = j,
             NEW i \in DOMAIN t, NEW j \in DOMAIN t, t[i] = t[j]
      PROVE  i = j
  BY <1>1, <1>3
<1>4. (\A i, j \in DOMAIN s : s[i] = s[j] => i = j)
        => \A i, j \in DOMAIN t : t[i] = t[j] => i = j
  BY <1>3
<1>. QED
  BY <1>2, <1>4 DEF t

LEMMA Dequeued ==
  ASSUME NEW s \in Seq(Blocks), s # << >>, \A i, j \in DOMAIN s : s[i] = s[j] => i = j
  PROVE  LET t == Tail(s) IN
         /\ Head(s) \in Blocks /\ \E i \in DOMAIN s : s[i] = Head(s)
         /\ \A b : (\E i \in DOMAIN t : t[i] = b)
                     <=> (\E i \in DOMAIN s : s[i] = b) /\ b # Head(s)
         /\ \A i, j \in DOMAIN t : t[i] = t[j] => i = j
<1>. DEFINE t == Tail(s)
<1>1. /\ Len(s) \in Nat \ {0} /\ DOMAIN s = 1 .. Len(s) /\ Head(s) = s[1]
      /\ DOMAIN t = 1 .. Len(s) - 1 /\ Head(s) \in Blocks
      /\ \A i \in 1 .. Len(s) - 1 : t[i] = s[i + 1]
  BY HeadTailProperties, LenProperties
<1>. HIDE DEF t
<1>2. 1 \in DOMAIN s
  BY <1>1
<1>3. ASSUME NEW b, NEW i \in DOMAIN t, t[i] = b
      PROVE  (\E j \in DOMAIN s : s[j] = b) /\ b # Head(s)
  <2>1. i + 1 \in DOMAIN s /\ s[i + 1] = b /\ i + 1 # 1
    BY <1>1, <1>3
  <2>. QED
    BY <1>1, <1>2, <2>1
<1>4. ASSUME NEW b, NEW i \in DOMAIN s, s[i] = b, b # Head(s)
      PROVE  \E j \in DOMAIN t : t[j] = b
  <2>1. i # 1 /\ i - 1 \in DOMAIN t /\ (i - 1) + 1 = i
    BY <1>1, <1>4
  <2>2. t[i - 1] = s[i]
    BY <1>1, <2>1
  <2>. QED
    BY <1>4, <2>1, <2>2
<1>5. ASSUME NEW i \in DOMAIN t, NEW j \in DOMAIN t, t[i] = t[j]
      PROVE  i = j
  <2>1. /\ i + 1 \in DOMAIN s /\ j + 1 \in DOMAIN s /\ s[i + 1] = s[j + 1]
        /\ i \in Int /\ j \in Int
    BY <1>1, <1>5
  <2>2. i + 1 = j + 1
    BY <2>1
  <2>. QED
    BY <2>1, <2>2
<1>. QED
  BY <1>1, <1>2, <1>3, <1>4, <1>5 DEF t

\* What a step, other than the making of a block, does to the queue: nothing, or
\* it hands over the release of a block of which the last copy goes, or it runs
\* a job.
QueueStep ==
  \/ /\ waiting' = waiting /\ done' = done
     /\ \A b \in Blocks : pins'[b] # pins[b] => Used(b) /\ ~Used(b)'
  \/ /\ done' = done /\ pins' = pins
     /\ \E k \in Blocks : waiting' = Append(waiting, k) /\ Used(k) /\ ~Used(k)'
  \/ RunJob

LEMMA ReleaseQueue ==
  ASSUME TypeOK, NEW k \in Handles, NEW main \in BOOLEAN, Release(k, main),
         Used(k), ~Used(k)'
  PROVE  QueueStep
<1>1. CASE waiting' = waiting /\ pins' = pins
  BY <1>1, ReleaseEffect DEF QueueStep
<1>2. CASE k \in Blocks /\ pins' = [pins EXCEPT ![k] = None] /\ waiting' = waiting
  <2>1. \A b \in Blocks : pins'[b] # pins[b] => b = k
    BY <1>2 DEF TypeOK
  <2>. QED
    BY <1>2, <2>1, ReleaseEffect DEF QueueStep
<1>3. CASE k \in Blocks /\ pins' = pins /\ waiting' = Append(waiting, k)
  BY <1>3, ReleaseEffect DEF QueueStep
<1>. QED
  BY <1>1, <1>2, <1>3, ReleaseEffect

LEMMA QueueSteps ==
  ASSUME TypeOK, Tidy, Next, ~\E w \in Wrappers, b \in Blocks : Take(w, b)
  PROVE  QueueStep
<1>1. ASSUME UNCHANGED <<pins, waiting, done>> PROVE QueueStep
  BY <1>1 DEF QueueStep
<1>2. ASSUME NEW k \in Handles, NEW main \in BOOLEAN, CppDrop(k, main)
      PROVE  QueueStep
  <2>1. CASE UNCHANGED <<heap, blocks, queue>>
    BY <1>1, <2>1 DEF blocks, queue
  <2>2. CASE ~Used(k)' /\ Release(k, main)
    BY <1>2, <2>2, CppDropEffect, ReleaseQueue
  <2>. QED
    BY <1>2, <2>1, <2>2, CppDropEffect
<1>3. ASSUME NEW w \in Wrappers, Finalize(w)
      PROVE  QueueStep
  <2>0. PICK k \in Handles \cup {None} : finalizer[w] = k
    BY DEF TypeOK
  <2>1. CASE UNCHANGED <<blocks, queue>>
    BY <1>1, <2>1 DEF blocks, queue
  <2>2. CASE k \in Handles /\ Used(k) /\ ~Used(k)' /\ Release(k, TRUE)
    BY <2>2, ReleaseQueue
  <2>. QED
    BY <1>3, <2>0, <2>1, <2>2, FinalizeEffect
<1>4. ASSUME NEW w \in Wrappers, Drop(w) \/ Collect(w)
      PROVE  QueueStep
  BY <1>1, <1>4 DEF Drop, Collect, blocks, queue
<1>5. ASSUME NEW w \in Wrappers, NEW c \in Classes, NEW p, NEW k,
             Construct(w, c, p) \/ ReturnPointer(w, c, k) \/ ReturnReference(w, c, k)
      PROVE  QueueStep
  BY <1>1, <1>5 DEF Construct, ReturnPointer, ReturnReference, blocks, queue
<1>6. ASSUME NEW p, MakeShared(p) PROVE QueueStep
  BY <1>1, <1>6 DEF MakeShared, blocks, queue
<1>7. CASE EnvCleanup \/ EnvDestroy
  BY <1>1, <1>7 DEF EnvCleanup, EnvDestroy, Jobs!End, blocks
<1>8. CASE RunJob
  BY <1>8 DEF QueueStep
<1>. QED
  BY <1>2, <1>3, <1>4, <1>5, <1>6, <1>7, <1>8 DEF Next

LEMMA SingleStep ==
  ASSUME TypeOK, Tidy, Fresh, References, Single, Next
  PROVE  Single'
<1>1. ASSUME NEW w \in Wrappers, NEW b \in Blocks, Take(w, b)
      PROVE  Single'
  <2>1. /\ target[b] = None /\ self[w] # None /\ w # None
    BY <1>1, NoneAssumption DEF Take, References, Live, TypeOK
  <2>2. /\ target' = [target EXCEPT ![b] = self[w]]
        /\ pins' = [pins EXCEPT ![b] = w] /\ waiting' = waiting /\ done' = done
    BY <1>1 DEF Take, queue
  <2>3. \A h \in Blocks : h # b => (Used(h)' <=> Used(h))
    BY <1>1 DEF Take, Used, wrapper
  <2>4. ~Waits(b) /\ ~Ran(b)
    BY <2>1 DEF Fresh, Single
  <2>5. \A h : (Waits(h)' <=> Waits(h)) /\ (Ran(h)' <=> Ran(h))
    BY <2>2 DEF Waits, Ran
  <2>6. ASSUME NEW h \in Blocks
        PROVE  /\ Used(h)' \/ Waits(h)' => pins'[h] # None
               /\ Ran(h)' => target'[h] # None /\ ~Used(h)' /\ ~Waits(h)'
    <3>1. CASE h = b
      BY <2>1, <2>2, <2>4, <2>5, <3>1 DEF TypeOK
    <3>2. CASE h # b
      <4>1. pins'[h] = pins[h] /\ target'[h] = target[h]
        BY <2>2, <3>2 DEF TypeOK
      <4>. QED
        BY <2>3, <2>5, <3>2, <4>1 DEF Single
    <3>. QED
      BY <3>1, <3>2
  <2>. QED
    BY <2>2, <2>6 DEF Single
<1>2. CASE ~\E w \in Wrappers, b \in Blocks : Take(w, b)
  <2>0. QueueStep /\ \A b \in Blocks : BlockStep(b)
    BY <1>2, QueueSteps, BlockSteps
  <2>1. \A b \in Blocks : target'[b] = target[b] /\ (Used(b)' => Used(b))
    BY <2>0 DEF BlockStep
  <2>2. CASE /\ waiting' = waiting /\ done' = done
             /\ \A b \in Blocks : pins'[b] # pins[b] => Used(b) /\ ~Used(b)'
    <3>1. \A h : (Waits(h)' <=> Waits(h)) /\ (Ran(h)' <=> Ran(h))
      BY <2>2 DEF Waits, Ran
    <3>2. \A b \in Blocks : Waits(b) => ~Used(b)
      BY DEF Fresh
    <3>3. \A b \in Blocks :
            /\ Used(b)' \/ Waits(b)' => pins'[b] # None
            /\ Ran(b)' => target'[b] # None /\ ~Used(b)' /\ ~Waits(b)'
      BY <2>1, <2>2, <3>1, <3>2 DEF Single
    <3>. QED
      BY <2>2, <3>3 DEF Single
  <2>3. ASSUME NEW k \in Blocks, waiting' = Append(waiting, k), Used(k), ~Used(k)',
               done' = done, pins' = pins
        PROVE  Single'
    <3>1. ~Waits(k) /\ ~Ran(k) /\ waiting \in Seq(Blocks)
      BY <2>3 DEF Fresh, Single, TypeOK
    <3>2. /\ \A h : Waits(h)' <=> Waits(h) \/ h = k
          /\ \A i, j \in DOMAIN waiting' : waiting'[i] = waiting'[j] => i = j
      BY <2>3, <3>1, Queued DEF Waits, Single
    <3>3. \A h : Ran(h)' <=> Ran(h)
      BY <2>3 DEF Ran
    <3>4. \A b \in Blocks :
            /\ Used(b)' \/ Waits(b)' => pins'[b] # None
            /\ Ran(b)' => target'[b] # None /\ ~Used(b)' /\ ~Waits(b)'
      BY <2>1, <2>3, <3>1, <3>2, <3>3 DEF Single
    <3>. QED
      BY <3>2, <3>4 DEF Single
  <2>4. CASE RunJob
    <3>1. /\ waiting # << >> /\ waiting' = Tail(waiting)
          /\ done' = Append(done, Head(waiting))
          /\ pins' = [pins EXCEPT ![Head(waiting)] = None]
          /\ waiting \in Seq(Blocks) /\ done \in Seq(Blocks)
      BY <2>4 DEF RunJob, Jobs!Run, TypeOK
    <3>2. /\ Head(waiting) \in Blocks /\ Waits(Head(waiting))
          /\ \A h : Waits(h)' <=> Waits(h) /\ h # Head(waiting)
          /\ \A i, j \in DOMAIN waiting' : waiting'[i] = waiting'[j] => i = j
      <4>1. \A i, j \in DOMAIN waiting : waiting[i] = waiting[j] => i = j
        BY DEF Single
      <4>2. /\ Head(waiting) \in Blocks /\ \E i \in DOMAIN waiting : waiting[i] = Head(waiting)
            /\ \A b : (\E i \in DOMAIN waiting' : waiting'[i] = b)
                        <=> (\E i \in DOMAIN waiting : waiting[i] = b) /\ b # Head(waiting)
            /\ \A i, j \in DOMAIN waiting' : waiting'[i] = waiting'[j] => i = j
        BY <3>1, <4>1, Dequeued
      <4>. QED
        BY <4>2 DEF Waits
    <3>3. ~Used(Head(waiting)) /\ target[Head(waiting)] # None /\ ~Ran(Head(waiting))
      <4>1. \A b \in Blocks : Waits(b) => ~Used(b) /\ target[b] # None
        BY DEF Fresh
      <4>2. \A b \in Blocks : Ran(b) => ~Waits(b)
        BY DEF Single
      <4>. QED
        BY <3>2, <4>1, <4>2
    <3>4. \A h : Ran(h)' <=> Ran(h) \/ h = Head(waiting)
      <4>1. PICK k \in Blocks : k = Head(waiting) /\ \A i \in DOMAIN done : done[i] # k
        BY <3>2, <3>3 DEF Ran
      <4>2. done \in Seq(Blocks) /\ done' = Append(done, k)
        BY <3>1, <4>1
      <4>3. \A h : (\E i \in DOMAIN done' : done'[i] = h)
                     <=> (\E i \in DOMAIN done : done[i] = h) \/ h = k
        BY <4>1, <4>2, Queued
      <4>. QED
        BY <4>1, <4>3 DEF Ran
    <3>5. \A b \in Blocks : b # Head(waiting) => pins'[b] = pins[b]
      BY <3>1 DEF TypeOK
    <3>6. \A b \in Blocks :
            /\ Used(b)' \/ Waits(b)' => pins'[b] # None
            /\ Ran(b)' => target'[b] # None /\ ~Used(b)' /\ ~Waits(b)'
      BY <2>1, <3>2, <3>3, <3>4, <3>5 DEF Single
    <3>. QED
      BY <3>2, <3>6 DEF Single
  <2>. QED
    BY <2>0, <2>2, <2>3, <2>4 DEF QueueStep
<1>. QED
  BY <1>1, <1>2

\* The persistent reference that a FromJS block keeps is deleted once, on
\* whatever thread the last copy is destroyed.
THEOREM ReferencesDeletedOnce == Spec => []DeletedOnce
<1>1. Init => Single
  BY Initially DEF Init, Jobs!Init, IInv, Single, Used, Waits, Ran, Fresh
<1>2. IInv /\ Single /\ [Next]_vars => Single'
  <2>1. ASSUME IInv, Single, Next PROVE Single'
    BY <2>1, SingleStep DEF IInv
  <2>2. ASSUME Single, UNCHANGED vars PROVE Single'
    BY <2>2 DEF Single, Used, Waits, Ran, vars
  <2>. QED
    BY <2>1, <2>2
<1>3. IInv /\ Single => DeletedOnce
  BY UsedIsInUse DEF IInv, Single, DeletedOnce, Fresh, Handles
<1>. QED
  BY Invariance, <1>1, <1>2, <1>3, PTL DEF Spec
=============================================================================
