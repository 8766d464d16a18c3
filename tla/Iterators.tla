------------------------------ MODULE Iterators ------------------------------
(***************************************************************************)
(* Iterators over C++ containers: JSIterator and MakeJSIterator of         *)
(* src/include/noiterator.h.                                               *)
(*                                                                         *)
(* A JSIterator is a C++ object that JavaScript owns; it refers to the     *)
(* container and to a place in it.  A nested iterator returns the elements *)
(* themselves: it pins the JavaScript object of the container with a       *)
(* persistent reference, and every wrapper that it returns refers to that  *)
(* object through the property NOBIND_PARENT_PROP.  The other iterators    *)
(* return copies (or pointers that the container does not own) and refer   *)
(* to nothing but the C++ container.                                       *)
(***************************************************************************)
EXTENDS Integers, FiniteSets

CONSTANTS
  Containers,  \* the JavaScript objects that own a C++ container
  Iterators,   \* the JavaScript objects that own a JSIterator
  MaxLength    \* bound: the number of elements in a container

\* the wrapper of the k-th element of container c
Elements == Containers \X (1 .. MaxLength)
Owners == Containers \cup Iterators

ASSUME LengthAssumption == MaxLength \in Nat
ASSUME ObjectsAssumption == Containers \cap Iterators = {} /\ Owners \cap Elements = {}

VARIABLES
  phase,    \* of an owner and its C++ object: "unused", "alive", "collected"
            \* (the C++ object is still there), "gone"
  length,   \* the number of elements in a container
  target,   \* JSIterator::target, which container it iterates over
  nested,   \* whether it is a ReturnNested iterator
  at,       \* JSIterator::it, the element that comes next
  wrapped,  \* the elements that have a wrapper
  parent,   \* those whose wrapper has the property NOBIND_PARENT_PROP
  held      \* the JavaScript objects that the program references

vars == <<phase, length, target, nested, at, wrapped, parent, held>>

\* the C++ object has not been destroyed
Exists(o) == phase[o] \in {"alive", "collected"}

Init ==
  /\ phase = [o \in Owners |-> "unused"]
  /\ length = [c \in Containers |-> 0]
  /\ target \in [Iterators -> Containers]
  /\ nested \in [Iterators -> BOOLEAN]
  /\ at = [i \in Iterators |-> 1]
  /\ wrapped = {}
  /\ parent = {}
  /\ held = {}

(***************************************************************************)
(* The program.                                                            *)
(***************************************************************************)
\* new Container
Create(c) ==
  /\ phase[c] = "unused"
  /\ phase' = [phase EXCEPT ![c] = "alive"]
  /\ held' = held \cup {c}
  /\ UNCHANGED <<length, target, nested, at, wrapped, parent>>

\* c.push_back(element)
Push(c) ==
  /\ c \in held
  /\ length[c] < MaxLength
  /\ length' = [length EXCEPT ![c] = length[c] + 1]
  /\ UNCHANGED <<phase, target, nested, at, wrapped, parent, held>>

\* Mutant of Pinned: only iterators that the program still uses pin it.
PinnedWhileHeld(c) == \E i \in held \cap Iterators : nested[i] /\ target[i] = c

\* Mutant of Pinned: ~JSIterator does not delete its persistent reference.
PinnedForever(c) ==
  \E i \in Iterators : phase[i] # "unused" /\ nested[i] /\ target[i] = c

\* The constructor of a nested JSIterator makes a persistent reference to the
\* object of the container, and ~JSIterator deletes it.
Pinned(c) == \E i \in Iterators : Exists(i) /\ nested[i] /\ target[i] = c

\* MakeJSIterator, a method of container c
MakeJSIterator(i, c) ==
  /\ phase[i] = "unused" /\ target[i] = c
  /\ c \in held
  /\ phase' = [phase EXCEPT ![i] = "alive"]
  /\ held' = held \cup {i}
  /\ UNCHANGED <<length, target, nested, at, wrapped, parent>>

\* Mutant of SetParent: the returned object does not refer to the container.
NoParent(e) == parent' = parent

\* DefineProperty(NOBIND_PARENT_PROP, persistent->Value())
SetParent(e) == parent' = parent \cup {e}

\* next() of a nested iterator: the wrapper of the element, new or from the
\* object store
NextNested(i) ==
  LET e == <<target[i], at[i]>> IN
  /\ i \in held /\ nested[i]
  /\ at[i] <= length[target[i]]
  /\ wrapped' = wrapped \cup {e}
  /\ SetParent(e)
  /\ held' = held \cup {e}
  /\ at' = [at EXCEPT ![i] = at[i] + 1]
  /\ UNCHANGED <<phase, length, target, nested>>

\* next() of any other iterator.  It reads the container, which only the
\* program keeps from being collected.
NextCopy(i) ==
  /\ i \in held /\ ~nested[i]
  /\ target[i] \in held
  /\ at[i] <= length[target[i]]
  /\ at' = [at EXCEPT ![i] = at[i] + 1]
  /\ UNCHANGED <<phase, length, target, nested, wrapped, parent, held>>

\* the program gives up a container, an iterator or an element
Drop(o) ==
  /\ o \in held
  /\ held' = held \ {o}
  /\ UNCHANGED <<phase, length, target, nested, at, wrapped, parent>>

(***************************************************************************)
(* The collector; the destructors run later.                               *)
(***************************************************************************)
Reachable(c) == \/ c \in held \/ Pinned(c)
                \/ \E e \in held \cap parent : e[1] = c

CollectContainer(c) ==
  /\ phase[c] = "alive" /\ ~Reachable(c)
  /\ phase' = [phase EXCEPT ![c] = "collected"]
  /\ UNCHANGED <<length, target, nested, at, wrapped, parent, held>>

CollectIterator(i) ==
  /\ phase[i] = "alive" /\ i \notin held
  /\ phase' = [phase EXCEPT ![i] = "collected"]
  /\ UNCHANGED <<length, target, nested, at, wrapped, parent, held>>

\* with its property; the wrapper does not own the element
CollectElement(e) ==
  /\ e \in wrapped \ held
  /\ wrapped' = wrapped \ {e}
  /\ parent' = parent \ {e}
  /\ UNCHANGED <<phase, length, target, nested, at, held>>

\* ~NoObjectWrap deletes what it owns
Destroy(o) ==
  /\ phase[o] = "collected"
  /\ phase' = [phase EXCEPT ![o] = "gone"]
  /\ UNCHANGED <<length, target, nested, at, wrapped, parent, held>>

Program ==
  \/ \E c \in Containers :
       \/ Create(c)
       \/ Push(c)
       \/ \E i \in Iterators : MakeJSIterator(i, c)
  \/ \E i \in Iterators : NextNested(i) \/ NextCopy(i)
  \/ \E o \in Owners \cup Elements : Drop(o)

Collector ==
  \/ \E c \in Containers : CollectContainer(c)
  \/ \E i \in Iterators : CollectIterator(i)
  \/ \E e \in Elements : CollectElement(e)
  \/ \E o \in Owners : Destroy(o)

Next == Program \/ Collector

Spec == Init /\ [][Next]_vars

\* What cannot be reached is collected some day, and its destructor then runs.
Fairness ==
  /\ \A c \in Containers : WF_vars(CollectContainer(c))
  /\ \A i \in Iterators : WF_vars(CollectIterator(i))
  /\ \A e \in Elements : WF_vars(CollectElement(e))
  /\ \A o \in Owners : WF_vars(Destroy(o))

FairSpec == Spec /\ Fairness

(***************************************************************************)
(* Properties.                                                             *)
(***************************************************************************)
TypeOK ==
  /\ phase \in [Owners -> {"unused", "alive", "collected", "gone"}]
  /\ length \in [Containers -> 0 .. MaxLength]
  /\ target \in [Iterators -> Containers]
  /\ nested \in [Iterators -> BOOLEAN]
  /\ at \in [Iterators -> 1 .. MaxLength + 1]
  /\ wrapped \subseteq Elements /\ parent \subseteq wrapped
  /\ held \subseteq {o \in Owners : phase[o] = "alive"} \cup wrapped

\* "the container can be destroyed only after all returned objects and the
\* iterator have been GCed" (noiterator.h:57): whatever order the program drops
\* the container, the iterators and the elements in, and whenever destructors
\* run, a nested iterator and the elements that it returned are usable.
ContainerOutlives ==
  \A c \in Containers :
    /\ \A i \in Iterators : nested[i] /\ target[i] = c /\ Exists(i) => phase[c] = "alive"
    /\ \A e \in held \cap Elements : e[1] = c => phase[c] = "alive"

\* A container is freed once the program has given up the container, its nested
\* iterators and the elements that these returned: no reference survives that
\* only destructors would release.
ContainerIsFreed ==
  \A c \in Containers :
    LET Wanted == \/ c \in held
                  \/ \E i \in held \cap Iterators : nested[i] /\ target[i] = c
                  \/ \E e \in held \cap Elements : e[1] = c
    IN  phase[c] = "alive" /\ ~Wanted ~> phase[c] = "gone"
=============================================================================
