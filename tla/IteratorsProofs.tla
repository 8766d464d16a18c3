--------------------------- MODULE IteratorsProofs ---------------------------
(***************************************************************************)
(* Nested iterators and the elements that they return never outlive the    *)
(* container, for every number of containers, iterators and elements.      *)
(*                                                                         *)
(* ContainerOutlives is not inductive: an element that the program holds   *)
(* keeps the container only because its wrapper has the property, which    *)
(* Attached adds.                                                          *)
(***************************************************************************)
EXTENDS Iterators, TLAPS

Attached == held \cap Elements \subseteq parent

IInv == TypeOK /\ ContainerOutlives /\ Attached

LEMMA HeldOwner ==
  ASSUME TypeOK, NEW o \in Owners, o \in held
  PROVE  phase[o] = "alive"
BY ObjectsAssumption DEF TypeOK

LEMMA InitEstablishes == Init => IInv
BY LengthAssumption DEF Init, IInv, TypeOK, ContainerOutlives, Attached, Owners, Exists

LEMMA NextPreserves == IInv /\ [Next]_vars => IInv'
<1>. SUFFICES ASSUME IInv, [Next]_vars PROVE IInv'
  OBVIOUS
<1>0. TypeOK /\ ContainerOutlives /\ Attached
  BY DEF IInv
<1>. USE <1>0, LengthAssumption, ObjectsAssumption
<1>1. ASSUME NEW c \in Containers, Create(c) PROVE IInv'
  BY <1>1 DEF Create, IInv, TypeOK, ContainerOutlives, Attached, Owners, Exists
<1>2. ASSUME NEW c \in Containers, Push(c) PROVE IInv'
  BY <1>2 DEF Push, IInv, TypeOK, ContainerOutlives, Attached, Owners, Exists
<1>3. ASSUME NEW c \in Containers, NEW i \in Iterators, MakeJSIterator(i, c) PROVE IInv'
  <2>1. phase[c] = "alive" /\ i # c /\ i \in Owners
    BY <1>3, HeldOwner DEF MakeJSIterator, Owners
  <2>. QED
    BY <1>3, <2>1 DEF MakeJSIterator, IInv, TypeOK, ContainerOutlives, Attached, Owners, Exists
<1>4. ASSUME NEW i \in Iterators, NextNested(i) PROVE IInv'
  <2>1. phase[i] = "alive" /\ i \in Owners
    BY <1>4, HeldOwner DEF NextNested, Owners
  <2>2. target[i] \in Containers /\ nested[i] /\ phase[target[i]] = "alive"
    BY <1>4, <2>1 DEF NextNested, TypeOK, ContainerOutlives, Exists
  <2>3. at[i] \in 1 .. MaxLength
    BY <1>4, <2>2 DEF NextNested, TypeOK
  <2>4. <<target[i], at[i]>> \in Elements
    BY <2>2, <2>3 DEF Elements
  <2>5. TypeOK'
    BY <1>4, <2>3, <2>4 DEF NextNested, SetParent, TypeOK
  <2>6. Attached'
    BY <1>4 DEF NextNested, SetParent, Attached
  <2>7. ContainerOutlives'
    BY <1>4, <2>2 DEF NextNested, ContainerOutlives, Exists
  <2>. QED
    BY <2>5, <2>6, <2>7 DEF IInv
<1>5. ASSUME NEW i \in Iterators, NextCopy(i) PROVE IInv'
  <2>1. at[i] + 1 \in 1 .. MaxLength + 1
    BY <1>5 DEF NextCopy, TypeOK
  <2>. QED
    BY <1>5, <2>1 DEF NextCopy, IInv, TypeOK, ContainerOutlives, Attached, Exists
<1>6. ASSUME NEW o \in Owners \cup Elements, Drop(o) PROVE IInv'
  BY <1>6 DEF Drop, IInv, TypeOK, ContainerOutlives, Attached, Exists
<1>7. ASSUME NEW c \in Containers, CollectContainer(c) PROVE IInv'
  <2>1. c \notin held /\ c \in Owners
    BY <1>7 DEF CollectContainer, Reachable, Owners
  <2>2. TypeOK'
    BY <1>7, <2>1 DEF CollectContainer, TypeOK
  <2>3. \A i \in Iterators : nested[i] /\ target[i] = c => ~Exists(i)
    BY <1>7 DEF CollectContainer, Reachable, Pinned
  <2>4. \A e \in held \cap Elements : e[1] # c
    BY <1>7 DEF CollectContainer, Reachable, Attached
  <2>5. ContainerOutlives'
    BY <1>7, <2>1, <2>3, <2>4 DEF CollectContainer, ContainerOutlives, Exists, TypeOK, Owners
  <2>. QED
    BY <1>7, <2>2, <2>5 DEF CollectContainer, IInv, Attached
<1>8. ASSUME NEW i \in Iterators, CollectIterator(i) PROVE IInv'
  <2>1. i \in Owners /\ i \notin Containers
    BY DEF Owners
  <2>. QED
    BY <1>8, <2>1 DEF CollectIterator, IInv, TypeOK, ContainerOutlives, Attached, Owners, Exists
<1>9. ASSUME NEW e \in Elements, CollectElement(e) PROVE IInv'
  BY <1>9 DEF CollectElement, IInv, TypeOK, ContainerOutlives, Attached, Exists
<1>10. ASSUME NEW o \in Owners, Destroy(o) PROVE IInv'
  <2>1. o \notin held
    BY <1>10, HeldOwner DEF Destroy
  <2>2. TypeOK'
    BY <1>10, <2>1 DEF Destroy, TypeOK
  <2>3. ContainerOutlives'
    BY <1>10 DEF Destroy, ContainerOutlives, Exists, TypeOK, Owners
  <2>. QED
    BY <1>10, <2>2, <2>3 DEF Destroy, IInv, Attached
<1>11. CASE UNCHANGED vars
  BY <1>11 DEF vars, IInv, TypeOK, ContainerOutlives, Attached, Exists
<1>. QED
  BY <1>1, <1>2, <1>3, <1>4, <1>5, <1>6, <1>7, <1>8, <1>9, <1>10, <1>11
     DEF Next, Program, Collector

LEMMA Invariance == Spec => []IInv
BY InitEstablishes, NextPreserves, PTL DEF Spec

\* The variables of Iterators have their types, and the program references only
\* what exists.
THEOREM TypeCorrect == Spec => []TypeOK
<1>1. IInv => TypeOK
  BY DEF IInv
<1>. QED
  BY Invariance, <1>1, PTL

\* "the container can be destroyed only after all returned objects and the
\* iterator have been GCed" (noiterator.h:57).
THEOREM Outlives == Spec => []ContainerOutlives
<1>1. IInv => ContainerOutlives
  BY DEF IInv
<1>. QED
  BY Invariance, <1>1, PTL
=============================================================================
