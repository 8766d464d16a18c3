-------------------------- MODULE ConversionsProofs --------------------------
(***************************************************************************)
(* What a C++ function receives, for every addon: its numbers arrive       *)
(* (NumbersArrive, through the theorems about the numeric typemaps) and    *)
(* its objects stay (ArgumentsStay), it runs on the values that match its  *)
(* signature and on no others (RunsIffMatches), and every piece of memory  *)
(* is deleted once (BlocksAreOwned).                                       *)
(*                                                                         *)
(* None is inductive.  The arguments are what the typemaps made of the     *)
(* given values (Converted); an object stays because a FromJS object pins  *)
(* it (Pinned), and it was there to be pinned because the JavaScript stack *)
(* holds it until then (Stacked) - in a constructor until the last of the  *)
(* signatures has been tried.  C++ values match a signature if they can be *)
(* assigned to its parameters in order; the wrapper counts instead, and    *)
(* the two agree because the i-th parameter that takes a value is one past *)
(* i - 1 others.  An owner of memory is named by its kind and its place    *)
(* (Owned), so that "exactly one" is a matter of sets and not of counting. *)
(***************************************************************************)
EXTENDS Conversions, NumberMapsProofs, FunctionTheorems, FiniteSetTheorems

\* the wrapper has not returned to JavaScript
InWrapper(c) == phase[c] = "converting" \/ (phase[c] \in Pending /\ ~fn[c].async)

Stacked(c) ==
  InWrapper(c) =>
    \A i \in DOMAIN given[c] : given[c][i].of \in Objects => given[c][i].of \in alive

Numbered(c, i) ==
  Signature(c)[i] \in IntTypes =>
    args[c][i].number = FromJSNumber(Signature(c)[i], ArgAt(Signature(c), i, given[c]).of)

Pinned(c, i) ==
  Signature(c)[i] \in {"buffer", "object"} =>
    /\ args[c][i].pins = ArgAt(Signature(c), i, given[c]).of
    /\ args[c][i].pins \in alive /\ args[c][i].pins # None

Converted(c) ==
  phase[c] \in Pending =>
    /\ DOMAIN args[c] = DOMAIN Signature(c)
    /\ \A i \in DOMAIN args[c] : Numbered(c, i) /\ Pinned(c, i)

Produced(c) ==
  /\ phase[c] = "returned" /\ fn[c].returns \in IntTypes => output[c] \in Int
  /\ phase[c] = "returned" /\ fn[c].returns = "buffer" => output[c] \in Cells
  /\ phase[c] = "resolved" /\ fn[c].returns \in IntTypes =>
       result[c] = ToJSNumber(fn[c].returns, output[c])

IInv == TypeOK /\ \A c \in Calls : Stacked(c) /\ Converted(c) /\ Produced(c)

(***************************************************************************)
(* Constants and operators.                                                *)
(***************************************************************************)
LEMMA CallableTyped ==
  ASSUME NEW f \in Callables
  PROVE  /\ f.overloads \in Seq(Signatures) /\ Len(f.overloads) \in Nat \ {0}
         /\ DOMAIN f.overloads = 1 .. Len(f.overloads)
         /\ \A k \in DOMAIN f.overloads : f.overloads[k] \in Signatures
         /\ f.returns \in IntTypes \cup {"void", "buffer"}
<1>1. f.overloads \in Seq(Signatures) /\ f.overloads # << >>
      /\ f.returns \in IntTypes \cup {"void", "buffer"}
  BY CallablesAssumption DEF IsCallable
<1>. QED
  BY <1>1

LEMMA NothingIsCallable == Nothing \in Callables
BY CallablesAssumption DEF Nothing

LEMMA ArgAtTyped ==
  ASSUME NEW ps, NEW i, NEW vs \in Seq(Given)
  PROVE  \/ ArgAt(ps, i, vs) = Undefined
         \/ ArgAt(ps, i, vs) \in Given /\ \E j \in DOMAIN vs : ArgAt(ps, i, vs) = vs[j]
BY DEF ArgAt

\* what a typemap accepts is of the right kind
LEMMA AcceptedNumber ==
  ASSUME NEW p \in IntTypes, NEW v \in Given \cup {Undefined}, Accepts(p, v)
  PROVE  v.of \in Int \cup {NaN}
<1>1. v.kind = "number"
  BY DEF Accepts, IntTypes
<1>2. v # Undefined
  BY <1>1 DEF Undefined
<1>3. v \in [kind : {"number"}, of : Numbers]
  BY <1>1, <1>2 DEF Given
<1>4. v.of \in Numbers
  BY <1>3
<1>. QED
  BY <1>4, NumbersAssumption

LEMMA AcceptedObject ==
  ASSUME NEW p \in {"buffer", "object"}, NEW v \in Given \cup {Undefined}, Accepts(p, v)
  PROVE  v \in Given /\ v.of \in Objects
<1>1. v.kind = p
  BY DEF Accepts, IntTypes
<1>. QED
  BY <1>1 DEF Given, Undefined, Objects

LEMMA ValuesAreIntegers == \A t \in IntTypes : Values(t) \subseteq Int
BY ValuesOf

LEMMA FromJSTyped ==
  ASSUME NEW p \in Params, NEW v \in Given \cup {Undefined}, NEW cell \in Cells,
         Accepts(p, v)
  PROVE  FromJS(p, v, cell) \in FromJSObjects
<1>1. p \in IntTypes => FromJSNumber(p, v.of) \in Int
  BY AcceptedNumber, InRange, ValuesAreIntegers
<1>2. p \in {"buffer", "object"} => v.of \in Objects
  BY AcceptedObject
<1>. QED
  BY <1>1, <1>2 DEF FromJS, FromJSObjects

LEMMA ToJSTyped ==
  ASSUME NEW t \in IntTypes, NEW x \in Int
  PROVE  ToJSNumber(t, x) \in Int
<1>1. /\ Signed(x, Mod32) \in Int /\ Unsigned(x, Mod32) \in Int
      /\ Signed(x, Mod64) \in Int
  <2>1. \A m : Even(m) => WordRange(TRUE, m) \subseteq Int /\ WordRange(FALSE, m) \subseteq Int
    BY HalfOf DEF WordRange
  <2>. QED
    BY <2>1, Widths, ConvertsInto
<1>2. ToDouble(Signed(x, Mod64)) \in Int
  BY Widths, ConvertsInto, DoubleOf
<1>. QED
  BY <1>1, <1>2 DEF ToJSNumber

(***************************************************************************)
(* Types.                                                                  *)
(***************************************************************************)
Phases == Pending \cup {"idle", "converting", "resolved", "rejected"}

LEMMA TypeInit == Init => TypeOK
<1>. SUFFICES ASSUME Init PROVE TypeOK
  OBVIOUS
<1>1. Nothing \in Callables /\ 1 \in DOMAIN Nothing.overloads
  BY NothingIsCallable, CallableTyped
<1>2. /\ fn \in [Calls -> Callables] /\ overload \in [Calls -> Nat]
      /\ \A c \in Calls : overload[c] \in DOMAIN fn[c].overloads
  BY <1>1 DEF Init
<1>3. given \in [Calls -> Seq(Given)] /\ args \in [Calls -> Seq(FromJSObjects)]
  BY DEF Init
<1>. QED
  BY <1>2, <1>3 DEF Init, TypeOK, Objects

LEMMA AdvanceTyped ==
  ASSUME TypeOK, NEW c \in Calls, Advance(c)
  PROVE  /\ phase' \in [Calls -> Phases]
         /\ phase'[c] \in {"converting", "rejected"}
         /\ \A d \in Calls \ {c} : phase'[d] = phase[d] /\ overload'[d] = overload[d]
         /\ overload' \in [Calls -> Nat]
         /\ \A d \in Calls : overload'[d] \in DOMAIN fn[d].overloads
<1>1. /\ fn[c] \in Callables
      /\ DOMAIN fn[c].overloads = 1 .. Len(fn[c].overloads)
      /\ Len(fn[c].overloads) \in Nat \ {0}
      /\ overload[c] \in 1 .. Len(fn[c].overloads)
  BY CallableTyped DEF TypeOK
<1>2. CASE overload[c] < Len(fn[c].overloads)
  <2>1. overload[c] + 1 \in 1 .. Len(fn[c].overloads)
    BY <1>1, <1>2
  <2>2. /\ overload' = [overload EXCEPT ![c] = overload[c] + 1]
        /\ phase' = [phase EXCEPT ![c] = "converting"]
    BY <1>2 DEF Advance
  <2>3. /\ phase' \in [Calls -> Phases] /\ phase'[c] = "converting"
        /\ \A d \in Calls \ {c} : phase'[d] = phase[d]
    BY <2>2 DEF TypeOK, Phases
  <2>4. /\ overload' \in [Calls -> Nat] /\ overload'[c] = overload[c] + 1
        /\ \A d \in Calls \ {c} : overload'[d] = overload[d]
    BY <1>1, <2>2 DEF TypeOK
  <2>5. \A d \in Calls : overload'[d] \in DOMAIN fn[d].overloads
    BY <1>1, <2>1, <2>4 DEF TypeOK
  <2>. QED
    BY <2>3, <2>4, <2>5
<1>3. CASE ~(overload[c] < Len(fn[c].overloads))
  BY <1>3 DEF Advance, TypeOK, Phases
<1>. QED
  BY <1>2, <1>3

LEMMA SignatureTyped ==
  ASSUME TypeOK, NEW c \in Calls
  PROVE  Signature(c) \in Seq(Params)
BY CallableTyped DEF TypeOK, Signature, Signatures

\* the FromJS objects of a call whose arguments are accepted
LEMMA ConvertTyped ==
  ASSUME TypeOK, NEW c \in Calls, Converts(Signature(c), given[c]),
         NEW cell \in [DOMAIN Signature(c) -> Cells]
  PROVE  [i \in DOMAIN Signature(c) |->
            FromJS(Signature(c)[i], ArgAt(Signature(c), i, given[c]), cell[i])]
           \in Seq(FromJSObjects)
<1>1. Signature(c) \in Seq(Params) /\ given[c] \in Seq(Given)
  BY SignatureTyped DEF TypeOK
<1>2. \A i \in DOMAIN Signature(c) :
        FromJS(Signature(c)[i], ArgAt(Signature(c), i, given[c]), cell[i]) \in FromJSObjects
  <2>. SUFFICES ASSUME NEW i \in DOMAIN Signature(c)
       PROVE FromJS(Signature(c)[i], ArgAt(Signature(c), i, given[c]), cell[i])
               \in FromJSObjects
    OBVIOUS
  <2>1. Accepts(Signature(c)[i], ArgAt(Signature(c), i, given[c]))
    BY DEF Converts
  <2>2. ArgAt(Signature(c), i, given[c]) \in Given \cup {Undefined}
    BY <1>1, ArgAtTyped
  <2>3. Signature(c)[i] \in Params /\ cell[i] \in Cells
    BY <1>1
  <2>. QED
    BY <2>1, <2>2, <2>3, FromJSTyped
<1>. QED
  BY <1>1, <1>2

LEMMA TypeStep == IInv /\ [Next]_vars => TypeOK'
<1>. SUFFICES ASSUME IInv, [Next]_vars PROVE TypeOK'
  OBVIOUS
<1>0. TypeOK /\ \A c \in Calls : Stacked(c) /\ Converted(c) /\ Produced(c)
  BY DEF IInv
<1>. USE <1>0
<1>1. ASSUME NEW c \in Calls, NEW f \in Callables, NEW vs \in Lists, Invoke(c, f, vs)
      PROVE  TypeOK'
  <2>1. 1 \in DOMAIN f.overloads /\ vs \in Seq(Given)
    BY CallableTyped, ListsAssumption
  <2>. QED
    BY <1>1, <2>1 DEF Invoke, TypeOK
<1>2. ASSUME NEW c \in Calls, Convert(c) PROVE TypeOK'
  <2>1. PICK cell \in [DOMAIN Signature(c) -> Cells \ live] :
          LET as == [i \in DOMAIN Signature(c) |->
                       FromJS(Signature(c)[i], ArgAt(Signature(c), i, given[c]), cell[i])]
          IN  /\ args' = [args EXCEPT ![c] = as]
              /\ live' = IF Moves(fn[c]) = 0 THEN live \cup Blocks(as) ELSE live
              /\ fault' = (fault \/ (Moves(fn[c]) > 1 /\ Blocks(as) # {}))
    BY <1>2 DEF Convert
  <2>. DEFINE as == [i \in DOMAIN Signature(c) |->
                       FromJS(Signature(c)[i], ArgAt(Signature(c), i, given[c]), cell[i])]
  <2>2. as \in Seq(FromJSObjects)
    BY <1>2, <2>1, ConvertTyped DEF Convert
  <2>3. Blocks(as) \subseteq Cells
    <3>1. \A i \in DOMAIN as : as[i] \in FromJSObjects
      BY <2>2
    <3>2. \A i \in DOMAIN as : as[i].block \in Cells \cup {None}
      BY <3>1 DEF FromJSObjects
    <3>. QED
      BY <3>2, Zenon DEF Blocks
  <2>4. args' = [args EXCEPT ![c] = as] /\ live' \subseteq live \cup Blocks(as)
        /\ fault' \in BOOLEAN
    BY <2>1
  <2>5. phase' \in [Calls -> Phases]
    BY <1>2 DEF Convert, TypeOK, Phases, Pending
  <2>. HIDE DEF as
  <2>6. args' \in [Calls -> Seq(FromJSObjects)] /\ live' \subseteq Cells
    BY <2>2, <2>3, <2>4 DEF TypeOK
  <2>7. fault' \in BOOLEAN
    BY <2>4
  <2>. QED
    BY <1>2, <2>5, <2>6, <2>7 DEF Convert, callVars, TypeOK, Phases
<1>3. ASSUME NEW c \in Calls, Refuse(c) PROVE TypeOK'
  <2>1. fault' \in BOOLEAN
    BY <1>3, Zenon DEF Refuse
  <2>2. /\ phase' \in [Calls -> Phases]
        /\ overload' \in [Calls -> Nat]
        /\ \A d \in Calls : overload'[d] \in DOMAIN fn[d].overloads
    BY <1>3, AdvanceTyped DEF Refuse
  <2>. QED
    BY <1>3, <2>1, <2>2 DEF Refuse, callVars, TypeOK, Phases
<1>4. ASSUME NEW c \in Calls, Start(c) PROVE TypeOK'
  BY <1>4 DEF Start, callVars, TypeOK, Pending
<1>5. ASSUME NEW c \in Calls, Return(c) PROVE TypeOK'
  <2>1. output' \in [Calls -> Cells \cup Int \cup {None}] /\ live' \subseteq Cells
    BY <1>5, NumbersAssumption DEF Return, TypeOK
  <2>. QED
    BY <1>5, <2>1 DEF Return, callVars, TypeOK, Pending
<1>6. ASSUME NEW c \in Calls, Throw(c) PROVE TypeOK'
  BY <1>6 DEF Throw, callVars, TypeOK, Pending
<1>7. ASSUME NEW c \in Calls, Fail(c) PROVE TypeOK'
  <2>1. fault' \in BOOLEAN
    BY <1>7, Zenon DEF Fail, Destroy
  <2>2. /\ phase' \in [Calls -> Phases]
        /\ overload' \in [Calls -> Nat]
        /\ \A d \in Calls : overload'[d] \in DOMAIN fn[d].overloads
    BY <1>7, AdvanceTyped DEF Fail
  <2>3. args' \in [Calls -> Seq(FromJSObjects)] /\ live' \subseteq Cells
    BY <1>7 DEF Fail, Destroy, TypeOK
  <2>. QED
    BY <1>7, <2>1, <2>2, <2>3 DEF Fail, callVars, TypeOK, Phases
<1>8. ASSUME NEW c \in Calls, Deliver(c) PROVE TypeOK'
  <2>1. fault' \in BOOLEAN
    BY <1>8, Zenon DEF Deliver
  <2>2. args' \in [Calls -> Seq(FromJSObjects)] /\ phase' \in [Calls -> Phases]
    BY <1>8 DEF Deliver, TypeOK, Phases, Pending
  <2>3. live' \subseteq Cells
    BY <1>8 DEF Deliver, FromBuffer, TypeOK
  <2>4. /\ result' \in [Calls -> Objects \cup Int \cup {None}]
        /\ held' \subseteq alive' /\ alive' \subseteq Objects
        /\ external' \in [Objects -> Cells \cup {None}]
    <3>1. CASE fn[c].returns = "buffer"
      <4>1. output[c] \in Cells
        BY <1>8, <3>1 DEF Produced, Deliver
      <4>2. fn[c].returns \notin IntTypes /\ fn[c].returns # "void"
        BY <3>1 DEF IntTypes
      <4>3. PICK o \in Buffers \ alive :
              /\ result' = [result EXCEPT ![c] = o]
              /\ alive' = alive \cup {o} /\ held' = held \cup {o}
              /\ FromBuffer(c, o)
        BY <1>8, <4>2 DEF Deliver
      <4>4. external' = external \/ external' = [external EXCEPT ![o] = output[c]]
        BY <4>3 DEF FromBuffer
      <4>. QED
        BY <4>1, <4>3, <4>4 DEF TypeOK, Objects
    <3>2. CASE fn[c].returns \in IntTypes
      <4>1. ToJSNumber(fn[c].returns, output[c]) \in Int
        BY <1>8, <3>2, ToJSTyped DEF Produced, Deliver
      <4>2. fn[c].returns # "buffer" /\ fn[c].returns # "void"
        BY <3>2 DEF IntTypes
      <4>. QED
        BY <1>8, <4>1, <4>2 DEF Deliver, TypeOK
    <3>3. CASE fn[c].returns = "void"
      BY <1>8, <3>3 DEF Deliver, TypeOK, IntTypes
    <3>. QED
      BY <1>8, <3>1, <3>2, <3>3 DEF Deliver
  <2>. QED
    BY <1>8, <2>1, <2>2, <2>3, <2>4 DEF Deliver, callVars, TypeOK, Phases
<1>9. ASSUME NEW c \in Calls, Answer(c) PROVE TypeOK'
  <2>1. Nothing \in Callables /\ 1 \in DOMAIN Nothing.overloads
    BY NothingIsCallable, CallableTyped
  <2>. QED
    BY <1>9, <2>1 DEF Answer, TypeOK
<1>10. ASSUME NEW o \in Objects, Drop(o) PROVE TypeOK'
  BY <1>10 DEF Drop, callVars, TypeOK
<1>11. ASSUME NEW o \in Objects, Collect(o) PROVE TypeOK'
  BY <1>11 DEF Collect, callVars, Reachable, TypeOK
<1>12. CASE UNCHANGED vars
  BY <1>12 DEF vars, callVars, TypeOK
<1>. QED
  BY <1>1, <1>2, <1>3, <1>4, <1>5, <1>6, <1>7, <1>8, <1>9, <1>10, <1>11, <1>12 DEF Next

(***************************************************************************)
(* What a call was given, and what became of it.                           *)
(***************************************************************************)
\* a call that a step leaves alone, while nothing that it uses is collected
LEMMA Frame ==
  ASSUME NEW d, Stacked(d), Converted(d), Produced(d),
         phase'[d] = phase[d], fn'[d] = fn[d], given'[d] = given[d],
         overload'[d] = overload[d], args'[d] = args[d], output'[d] = output[d],
         result'[d] = result[d], alive \subseteq alive'
  PROVE  Stacked(d)' /\ Converted(d)' /\ Produced(d)'
<1>1. Stacked(d)'
  BY DEF Stacked, InWrapper
<1>2. Converted(d)'
  BY DEF Converted, Numbered, Pinned, Signature
<1>3. Produced(d)'
  BY DEF Produced
<1>. QED
  BY <1>1, <1>2, <1>3

\* a call that goes on to another step of the C++ function
LEMMA GoesOn ==
  ASSUME NEW d, Stacked(d), Converted(d), phase[d] \in Pending, phase'[d] \in Pending,
         fn'[d] = fn[d], given'[d] = given[d], overload'[d] = overload[d],
         args'[d] = args[d], alive' = alive
  PROVE  Stacked(d)' /\ Converted(d)'
<1>1. Stacked(d)'
  BY DEF Stacked, InWrapper, Pending
<1>2. Converted(d)'
  BY DEF Converted, Numbered, Pinned, Signature
<1>. QED
  BY <1>1, <1>2

LEMMA ConvertEstablishes ==
  ASSUME IInv, NEW c \in Calls, Convert(c)
  PROVE  Converted(c)'
<1>0. TypeOK /\ Stacked(c)
  BY DEF IInv
<1>1. PICK cell \in [DOMAIN Signature(c) -> Cells \ live] :
        args' = [args EXCEPT ![c] =
                   [i \in DOMAIN Signature(c) |->
                      FromJS(Signature(c)[i], ArgAt(Signature(c), i, given[c]), cell[i])]]
  BY DEF Convert
<1>2. /\ args'[c] = [i \in DOMAIN Signature(c) |->
                       FromJS(Signature(c)[i], ArgAt(Signature(c), i, given[c]), cell[i])]
      /\ Signature(c)' = Signature(c) /\ given'[c] = given[c] /\ alive' = alive
  BY <1>0, <1>1 DEF Convert, callVars, TypeOK, Signature
<1>3. DOMAIN args'[c] = DOMAIN Signature(c)
  BY <1>2
<1>4. ASSUME NEW i \in DOMAIN Signature(c)
      PROVE  Numbered(c, i)' /\ Pinned(c, i)'
  <2>. DEFINE p == Signature(c)[i]
              v == ArgAt(Signature(c), i, given[c])
  <2>1. args'[c][i] = FromJS(p, v, cell[i])
    BY <1>2
  <2>2. Accepts(p, v)
    BY DEF Convert, Converts
  <2>3. \/ v = Undefined
        \/ v \in Given /\ \E j \in DOMAIN given[c] : v = given[c][j]
    BY <1>0, ArgAtTyped DEF TypeOK
  <2>4. Numbered(c, i)'
    BY <1>2, <2>1 DEF Numbered, FromJS
  <2>5. Pinned(c, i)'
    <3>1. CASE p \in {"buffer", "object"}
      <4>1. v \in Given /\ v.of \in Objects
        BY <2>2, <2>3, <3>1, AcceptedObject
      <4>2. PICK j \in DOMAIN given[c] : v = given[c][j]
        BY <2>3, <4>1, AcceptedObject DEF Undefined, Given
      <4>3. v.of \in alive
        BY <1>0, <4>1, <4>2 DEF Convert, Stacked, InWrapper
      <4>4. args'[c][i].pins = v.of
        BY <2>1, <3>1 DEF FromJS
      <4>. QED
        BY <1>2, <4>1, <4>3, <4>4, ObjectsAssumption DEF Pinned
    <3>2. CASE p \notin {"buffer", "object"}
      BY <1>2, <3>2 DEF Pinned
    <3>. QED
      BY <3>1, <3>2
  <2>. QED
    BY <2>4, <2>5
<1>. QED
  BY <1>2, <1>3, <1>4 DEF Converted

LEMMA CallsStep ==
  ASSUME IInv, [Next]_vars, NEW d \in Calls
  PROVE  Stacked(d)' /\ Converted(d)' /\ Produced(d)'
<1>0. TypeOK /\ Stacked(d) /\ Converted(d) /\ Produced(d)
  BY DEF IInv
<1>. USE <1>0
<1>1. ASSUME NEW c \in Calls, NEW f \in Callables, NEW vs \in Lists, Invoke(c, f, vs)
      PROVE  Stacked(d)' /\ Converted(d)' /\ Produced(d)'
  <2>1. CASE d = c
    <3>1. phase'[d] = "converting" /\ given'[d] = vs /\ alive' = alive
      BY <1>1, <2>1 DEF Invoke, TypeOK
    <3>2. \A i \in DOMAIN vs : vs[i].of \in Objects => vs[i].of \in alive
      BY <1>1 DEF Invoke, TypeOK
    <3>. QED
      BY <3>1, <3>2 DEF Stacked, Converted, Produced, Pending
  <2>2. CASE d # c
    BY <1>1, <2>2, Frame DEF Invoke, TypeOK
  <2>. QED
    BY <2>1, <2>2
<1>2. ASSUME NEW c \in Calls, Convert(c)
      PROVE  Stacked(d)' /\ Converted(d)' /\ Produced(d)'
  <2>1. CASE d = c
    <3>1. Converted(d)'
      BY <1>2, <2>1, ConvertEstablishes
    <3>2. /\ phase[d] = "converting" /\ phase'[d] = "ready"
          /\ given' = given /\ alive' = alive
      BY <1>2, <2>1 DEF Convert, callVars, TypeOK
    <3>. QED
      BY <3>1, <3>2 DEF Stacked, InWrapper, Produced
  <2>2. CASE d # c
    <3>1. args'[d] = args[d] /\ phase'[d] = phase[d]
      BY <1>2, <2>2 DEF Convert, TypeOK
    <3>. QED
      BY <1>2, <3>1, Frame DEF Convert, callVars
  <2>. QED
    BY <2>1, <2>2
<1>3. ASSUME NEW c \in Calls, Refuse(c)
      PROVE  Stacked(d)' /\ Converted(d)' /\ Produced(d)'
  <2>1. /\ phase'[c] \in {"converting", "rejected"} /\ phase[c] = "converting"
        /\ d # c => phase'[d] = phase[d] /\ overload'[d] = overload[d]
    BY <1>3, AdvanceTyped DEF Refuse
  <2>2. CASE d = c
    BY <1>3, <2>1, <2>2 DEF Refuse, callVars, Stacked, InWrapper, Converted, Produced, Pending
  <2>3. CASE d # c
    BY <1>3, <2>1, <2>3, Frame DEF Refuse, callVars
  <2>. QED
    BY <2>2, <2>3
<1>4. ASSUME NEW c \in Calls, Start(c)
      PROVE  Stacked(d)' /\ Converted(d)' /\ Produced(d)'
  <2>1. CASE d = c
    <3>1. phase[d] = "ready" /\ phase'[d] = "running"
      BY <1>4, <2>1 DEF Start, TypeOK
    <3>. QED
      BY <1>4, <3>1, GoesOn DEF Start, callVars, Pending, Produced
  <2>2. CASE d # c
    BY <1>4, <2>2, Frame DEF Start, callVars, TypeOK
  <2>. QED
    BY <2>1, <2>2
<1>5. ASSUME NEW c \in Calls, Return(c)
      PROVE  Stacked(d)' /\ Converted(d)' /\ Produced(d)'
  <2>1. CASE d = c
    <3>1. phase[d] = "running" /\ phase'[d] = "returned" /\ fn' = fn
      BY <1>5, <2>1 DEF Return, callVars, TypeOK
    <3>2. Stacked(d)' /\ Converted(d)'
      BY <1>5, <3>1, GoesOn DEF Return, callVars, Pending
    <3>3. fn[d].returns \in IntTypes => output'[d] \in Int
      BY <1>5, <2>1, NumbersAssumption DEF Return, TypeOK, IntTypes
    <3>4. fn[d].returns = "buffer" => output'[d] \in Cells
      BY <1>5, <2>1 DEF Return, TypeOK, IntTypes
    <3>. QED
      BY <3>1, <3>2, <3>3, <3>4 DEF Produced
  <2>2. CASE d # c
    <3>1. output'[d] = output[d] /\ phase'[d] = phase[d]
      BY <1>5, <2>2 DEF Return, TypeOK
    <3>. QED
      BY <1>5, <3>1, Frame DEF Return, callVars
  <2>. QED
    BY <2>1, <2>2
<1>6. ASSUME NEW c \in Calls, Throw(c)
      PROVE  Stacked(d)' /\ Converted(d)' /\ Produced(d)'
  <2>1. CASE d = c
    <3>1. phase[d] = "running" /\ phase'[d] = "threw"
      BY <1>6, <2>1 DEF Throw, TypeOK
    <3>. QED
      BY <1>6, <3>1, GoesOn DEF Throw, callVars, Pending, Produced
  <2>2. CASE d # c
    BY <1>6, <2>2, Frame DEF Throw, callVars, TypeOK
  <2>. QED
    BY <2>1, <2>2
<1>7. ASSUME NEW c \in Calls, Fail(c)
      PROVE  Stacked(d)' /\ Converted(d)' /\ Produced(d)'
  <2>1. /\ phase'[c] \in {"converting", "rejected"} /\ phase[c] = "threw"
        /\ d # c => phase'[d] = phase[d] /\ overload'[d] = overload[d]
    BY <1>7, AdvanceTyped DEF Fail
  <2>2. CASE d = c
    <3>1. phase'[c] = "converting" => ~fn[c].async
      <4>1. fn[c] \in Callables /\ overload[c] \in 1 .. Len(fn[c].overloads)
        BY CallableTyped DEF TypeOK
      <4>2. fn[c].async => Len(fn[c].overloads) = 1
        BY <4>1, CallablesAssumption DEF IsCallable, Hows
      <4>3. phase'[c] = "converting" => overload[c] < Len(fn[c].overloads)
        BY <1>7 DEF Fail, Advance, TypeOK
      <4>4. Len(fn[c].overloads) \in Nat
        BY <4>1, CallableTyped
      <4>5. overload[c] < Len(fn[c].overloads) => Len(fn[c].overloads) # 1
        <5>. DEFINE k == overload[c]
                    n == Len(fn[c].overloads)
        <5>1. k \in 1 .. n /\ n \in Nat
          BY <4>1, <4>4
        <5>. HIDE DEF k, n
        <5>2. k < n => n # 1
          BY <5>1
        <5>. QED
          BY <5>2 DEF k, n
      <4>. QED
        BY <4>2, <4>3, <4>5, Zenon
    <3>2. given' = given /\ alive' = alive /\ fn' = fn
      BY <1>7 DEF Fail, callVars
    <3>. QED
      BY <2>1, <2>2, <3>1, <3>2
         DEF Stacked, InWrapper, Converted, Produced, Pending
  <2>3. CASE d # c
    <3>1. args'[d] = args[d]
      BY <1>7, <2>3 DEF Fail, Destroy, TypeOK
    <3>. QED
      BY <1>7, <2>1, <2>3, <3>1, Frame DEF Fail, callVars
  <2>. QED
    BY <2>2, <2>3
<1>8. ASSUME NEW c \in Calls, Deliver(c)
      PROVE  Stacked(d)' /\ Converted(d)' /\ Produced(d)'
  <2>1. CASE d = c
    <3>1. phase[d] = "returned" /\ phase'[d] = "resolved" /\ fn' = fn /\ output' = output
      BY <1>8, <2>1 DEF Deliver, callVars, TypeOK
    <3>2. fn[d].returns \in IntTypes =>
            result'[d] = ToJSNumber(fn[d].returns, output[d])
      BY <1>8, <2>1 DEF Deliver, TypeOK, IntTypes
    <3>. QED
      BY <3>1, <3>2 DEF Stacked, InWrapper, Converted, Produced, Pending
  <2>2. CASE d # c
    <3>1. /\ phase'[d] = phase[d] /\ args'[d] = args[d] /\ result'[d] = result[d]
          /\ alive \subseteq alive'
      BY <1>8, <2>2 DEF Deliver, TypeOK
    <3>. QED
      BY <1>8, <3>1, Frame DEF Deliver, callVars
  <2>. QED
    BY <2>1, <2>2
<1>9. ASSUME NEW c \in Calls, Answer(c)
      PROVE  Stacked(d)' /\ Converted(d)' /\ Produced(d)'
  <2>1. CASE d = c
    <3>1. phase'[d] = "idle"
      BY <1>9, <2>1 DEF Answer, TypeOK
    <3>. QED
      BY <3>1 DEF Stacked, InWrapper, Converted, Produced, Pending
  <2>2. CASE d # c
    BY <1>9, <2>2, Frame DEF Answer, TypeOK
  <2>. QED
    BY <2>1, <2>2
<1>10. ASSUME NEW o \in Objects, Drop(o)
       PROVE  Stacked(d)' /\ Converted(d)' /\ Produced(d)'
  BY <1>10, Frame DEF Drop, callVars
<1>11. ASSUME NEW o \in Objects, Collect(o)
       PROVE  Stacked(d)' /\ Converted(d)' /\ Produced(d)'
  <2>1. /\ phase' = phase /\ fn' = fn /\ given' = given /\ overload' = overload
        /\ args' = args /\ output' = output /\ result' = result
        /\ alive' = alive \ {o}
    BY <1>11 DEF Collect, callVars
  <2>2. InWrapper(d) => o \notin {given[d][i].of : i \in DOMAIN given[d]}
    <3>1. InWrapper(d) => Busy(d)
      BY DEF InWrapper, Busy
    <3>. QED
      BY <1>11, <3>1 DEF Collect, Reachable, OnStack
  <2>3. \A i \in DOMAIN args[d] : args[d][i].pins # None => args[d][i].pins # o
    BY <1>11 DEF Collect, Reachable, Pins
  <2>4. Stacked(d)'
    BY <2>1, <2>2 DEF Stacked, InWrapper
  <2>5. Converted(d)'
    BY <2>1, <2>3 DEF Converted, Numbered, Pinned, Signature
  <2>6. Produced(d)'
    BY <2>1 DEF Produced
  <2>. QED
    BY <2>4, <2>5, <2>6
<1>12. CASE UNCHANGED vars
  BY <1>12, Frame DEF vars, callVars
<1>. QED
  BY <1>1, <1>2, <1>3, <1>4, <1>5, <1>6, <1>7, <1>8, <1>9, <1>10, <1>11, <1>12 DEF Next

(***************************************************************************)
(* Which signature runs.  The wrapper counts: the i-th parameter is given  *)
(* the value at info[idx], idx being the number of parameters before it    *)
(* that have taken one (Consumed).  That is the only way to give the       *)
(* values to the parameters in their order (Matches).                      *)
(***************************************************************************)
\* the parameters up to the i-th that take a value
Taking(ps, i) == {j \in 1 .. i : ps[j] # "env"}

LEMMA ConsumedFacts ==
  ASSUME NEW ps, NEW n \in Nat
  PROVE  /\ \A i \in 0 .. n : /\ IsFiniteSet(Taking(ps, i))
                              /\ Consumed(ps, i) = Cardinality(Taking(ps, i))
                              /\ Consumed(ps, i) \in Nat
         /\ \A i \in 1 .. n : ps[i] # "env" => Consumed(ps, i) = Consumed(ps, i - 1) + 1
         /\ \A i, j \in 0 .. n : i <= j => Consumed(ps, i) <= Consumed(ps, j)
<1>1. \A i \in 0 .. n : /\ IsFiniteSet(Taking(ps, i))
                        /\ Consumed(ps, i) = Cardinality(Taking(ps, i))
  <2>. SUFFICES ASSUME NEW i \in 0 .. n
       PROVE  /\ IsFiniteSet(Taking(ps, i))
              /\ Consumed(ps, i) = Cardinality(Taking(ps, i))
    OBVIOUS
  <2>1. IsFiniteSet(1 .. i)
    BY FS_Interval
  <2>. QED
    BY <2>1, FS_Subset DEF Taking, Consumed
<1>2. \A i \in 0 .. n : Consumed(ps, i) \in Nat
  BY <1>1, FS_CardinalityType
<1>3. ASSUME NEW i \in 1 .. n, ps[i] # "env"
      PROVE  Consumed(ps, i) = Consumed(ps, i - 1) + 1
  <2>1. i - 1 \in 0 .. n /\ i \in 0 .. n
    OBVIOUS
  <2>2. Taking(ps, i) = Taking(ps, i - 1) \cup {i} /\ i \notin Taking(ps, i - 1)
    BY <1>3 DEF Taking
  <2>. QED
    BY <1>1, <2>1, <2>2, FS_AddElement
<1>4. ASSUME NEW i \in 0 .. n, NEW j \in 0 .. n, i <= j
      PROVE  Consumed(ps, i) <= Consumed(ps, j)
  <2>1. Taking(ps, i) \subseteq Taking(ps, j)
    BY <1>4 DEF Taking
  <2>. QED
    BY <1>1, <2>1, FS_Subset
<1>. QED
  BY <1>1, <1>2, <1>3, <1>4

\* a parameter that takes a value takes a later one than those before it
LEMMA ConsumedIncreases ==
  ASSUME NEW ps, NEW n \in Nat, NEW i \in 1 .. n, NEW j \in 1 .. n, i < j, ps[j] # "env"
  PROVE  Consumed(ps, i) < Consumed(ps, j)
<1>1. i \in 0 .. n /\ j - 1 \in 0 .. n /\ i <= j - 1
  OBVIOUS
<1>2. /\ Consumed(ps, i) <= Consumed(ps, j - 1)
      /\ Consumed(ps, j) = Consumed(ps, j - 1) + 1
      /\ Consumed(ps, i) \in Nat /\ Consumed(ps, j - 1) \in Nat
  BY <1>1, ConsumedFacts
<1>. QED
  BY <1>2

\* the values vs can go to the parameters ps, in order, by to
Assigns(to, ps, vs) ==
  /\ to \in [DOMAIN vs -> DOMAIN ps]
  /\ \A i, j \in DOMAIN vs : i < j => to[i] < to[j]
  /\ {to[i] : i \in DOMAIN vs} = {i \in DOMAIN ps : ps[i] # "env"}
  /\ \A i \in DOMAIN vs : Accepts(ps[to[i]], vs[i])

\* by counting
Counts(ps, vs) ==
  /\ Consumed(ps, Len(ps)) = Len(vs)
  /\ \A i \in DOMAIN ps : ps[i] # "env" => Accepts(ps[i], vs[Consumed(ps, i)])

LEMMA AssignmentCounts ==
  ASSUME NEW ps \in Seq(Params), NEW vs \in Seq(Given), NEW to, Assigns(to, ps, vs)
  PROVE  Counts(ps, vs)
<1>. DEFINE m == Len(vs)
            n == Len(ps)
<1>1. /\ m \in Nat /\ n \in Nat /\ DOMAIN vs = 1 .. m /\ DOMAIN ps = 1 .. n
      /\ \A k \in 1 .. m : to[k] \in 1 .. n /\ ps[to[k]] # "env"
      /\ \A i \in 1 .. n : ps[i] # "env" => \E k \in 1 .. m : to[k] = i
      /\ \A i, j \in 1 .. m : i < j => to[i] < to[j]
      /\ \A i \in 1 .. m : Accepts(ps[to[i]], vs[i])
  <2>1. m \in Nat /\ n \in Nat /\ DOMAIN vs = 1 .. m /\ DOMAIN ps = 1 .. n
    OBVIOUS
  <2>. HIDE DEF m, n
  <2>. QED
    BY <2>1 DEF Assigns
<1>. HIDE DEF m, n
\* the first k values go to the parameters up to i, if the k-th is the last of those
<1>2. ASSUME NEW k \in 0 .. m, NEW i \in 0 .. n,
             \A j \in 1 .. m : to[j] <= i <=> j <= k
      PROVE  Consumed(ps, i) = k
  <2>. DEFINE b == [j \in 1 .. k |-> to[j]]
  <2>1. b \in [1 .. k -> Taking(ps, i)]
    BY <1>1, <1>2 DEF Taking
  <2>2. \A x, y \in 1 .. k : b[x] = b[y] => x = y
    BY <1>1
  <2>3. \A t \in Taking(ps, i) : \E x \in 1 .. k : b[x] = t
    <3>. SUFFICES ASSUME NEW t \in Taking(ps, i) PROVE \E x \in 1 .. k : b[x] = t
      OBVIOUS
    <3>1. t \in 1 .. n /\ t <= i /\ ps[t] # "env"
      BY <1>1 DEF Taking
    <3>2. PICK x \in 1 .. m : to[x] = t
      BY <1>1, <3>1
    <3>3. x \in 1 .. k
      BY <1>2, <3>1, <3>2
    <3>. QED
      BY <3>2, <3>3
  <2>. HIDE DEF b
  <2>4. b \in Bijection(1 .. k, Taking(ps, i))
    BY <2>1, <2>2, <2>3, Fun_IsBij
  <2>5. ExistsBijection(1 .. k, Taking(ps, i))
    BY <2>4 DEF ExistsBijection
  <2>6. IsFiniteSet(1 .. k) /\ Cardinality(1 .. k) = k
    BY FS_Interval
  <2>7. Cardinality(Taking(ps, i)) = k
    BY <2>5, <2>6, FS_Bijection
  <2>. QED
    BY <1>1, <2>7, ConsumedFacts
<1>3. Consumed(ps, n) = m
  BY <1>1, <1>2
<1>4. ASSUME NEW i \in 1 .. n, ps[i] # "env"
      PROVE  Accepts(ps[i], vs[Consumed(ps, i)])
  <2>1. PICK k \in 1 .. m : to[k] = i
    BY <1>1, <1>4
  <2>2. \A j \in 1 .. m : to[j] <= i <=> j <= k
    BY <1>1, <2>1
  <2>3. Consumed(ps, i) = k
    BY <1>2, <2>2
  <2>. QED
    BY <1>1, <2>1, <2>3
<1>. QED
  BY <1>1, <1>3, <1>4 DEF Counts, m, n

LEMMA CountingAssigns ==
  ASSUME NEW ps \in Seq(Params), NEW vs \in Seq(Given), Counts(ps, vs)
  PROVE  \E to : Assigns(to, ps, vs)
<1>. DEFINE m == Len(vs)
            n == Len(ps)
            T == Taking(ps, n)
            rank == [i \in T |-> Consumed(ps, i)]
            to == [k \in 1 .. m |-> CHOOSE i \in T : Consumed(ps, i) = k]
<1>1. m \in Nat /\ n \in Nat /\ DOMAIN vs = 1 .. m /\ DOMAIN ps = 1 .. n
  OBVIOUS
<1>. HIDE DEF m, n
<1>2. /\ IsFiniteSet(T) /\ Cardinality(T) = m
      /\ \A i \in T : i \in 1 .. n /\ ps[i] # "env"
  <2>1. Consumed(ps, n) = m
    BY DEF Counts, m, n
  <2>2. IsFiniteSet(T) /\ Consumed(ps, n) = Cardinality(T)
    BY <1>1, ConsumedFacts
  <2>3. \A i \in T : i \in 1 .. n /\ ps[i] # "env"
    BY DEF Taking
  <2>. QED
    BY <2>1, <2>2, <2>3
<1>. HIDE DEF T
<1>3. \A i \in T : Consumed(ps, i) \in 1 .. m
  <2>. SUFFICES ASSUME NEW i \in T PROVE Consumed(ps, i) \in 1 .. m
    OBVIOUS
  <2>1. i \in 1 .. n /\ i - 1 \in 0 .. n /\ i \in 0 .. n /\ n \in 0 .. n /\ i <= n
    BY <1>1, <1>2
  <2>2. /\ Consumed(ps, i) = Consumed(ps, i - 1) + 1 /\ Consumed(ps, i - 1) \in Nat
        /\ Consumed(ps, i) <= Consumed(ps, n)
    BY <1>1, <1>2, <2>1, ConsumedFacts
  <2>3. Consumed(ps, n) = m
    BY DEF Counts, m, n
  <2>. QED
    BY <1>1, <2>2, <2>3
<1>4. \A i, j \in T : Consumed(ps, i) = Consumed(ps, j) => i = j
  <2>. SUFFICES ASSUME NEW i \in T, NEW j \in T, i < j
       PROVE  Consumed(ps, i) < Consumed(ps, j) /\ Consumed(ps, i) \in Nat
                /\ Consumed(ps, j) \in Nat
    BY <1>1, <1>2
  <2>. QED
    BY <1>1, <1>2, <1>3, ConsumedIncreases
<1>5. \A k \in 1 .. m : \E i \in T : Consumed(ps, i) = k
  <2>1. rank \in [T -> 1 .. m] /\ \A i, j \in T : rank[i] = rank[j] => i = j
    BY <1>3, <1>4
  <2>2. IsFiniteSet(1 .. m) /\ Cardinality(1 .. m) = m
    BY <1>1, FS_Interval
  <2>3. \A i \in T : rank[i] = Consumed(ps, i)
    OBVIOUS
  <2>. HIDE DEF rank
  <2>4. rank \in Injection(T, 1 .. m)
    BY <2>1, Fun_IsInj
  <2>5. rank \in Surjection(T, 1 .. m)
    BY <1>2, <2>2, <2>4, FS_Injection
  <2>6. \A k \in 1 .. m : \E i \in T : rank[i] = k
    BY <2>5 DEF Surjection
  <2>. QED
    BY <2>3, <2>6
<1>6. /\ DOMAIN to = 1 .. m
      /\ \A k \in 1 .. m : to[k] \in T /\ Consumed(ps, to[k]) = k
  BY <1>5
<1>. HIDE DEF to
<1>7. to \in [DOMAIN vs -> DOMAIN ps]
  <2>1. to = [k \in 1 .. m |-> to[k]]
    BY DEF to
  <2>. QED
    BY <1>1, <1>2, <1>6, <2>1
<1>8. \A i, j \in DOMAIN vs : i < j => to[i] < to[j]
  <2>. SUFFICES ASSUME NEW i \in 1 .. m, NEW j \in 1 .. m, ~(to[i] < to[j])
       PROVE  ~(i < j)
    BY <1>1
  <2>1. to[i] \in 1 .. n /\ to[j] \in 1 .. n /\ ps[to[i]] # "env"
    BY <1>2, <1>6
  <2>2. to[i] = to[j] \/ Consumed(ps, to[j]) < Consumed(ps, to[i])
    <3>. SUFFICES ASSUME to[j] # to[i]
         PROVE  Consumed(ps, to[j]) < Consumed(ps, to[i])
      OBVIOUS
    <3>1. to[j] < to[i]
      BY <1>1, <2>1
    <3>. QED
      BY <1>1, <2>1, <3>1, ConsumedIncreases
  <2>3. Consumed(ps, to[i]) = i /\ Consumed(ps, to[j]) = j
    BY <1>6
  <2>. QED
    BY <1>1, <2>2, <2>3
<1>9. {to[i] : i \in DOMAIN vs} = {i \in DOMAIN ps : ps[i] # "env"}
  <2>1. \A i \in T : to[Consumed(ps, i)] = i
    BY <1>3, <1>4, <1>6
  <2>2. \A i \in 1 .. n : ps[i] # "env" => i \in T
    BY DEF T, Taking
  <2>. QED
    BY <1>1, <1>2, <1>3, <1>6, <2>1, <2>2
<1>10. \A i \in DOMAIN vs : Accepts(ps[to[i]], vs[i])
  BY <1>1, <1>2, <1>6 DEF Counts
<1>. QED
  BY <1>7, <1>8, <1>9, <1>10 DEF Assigns

LEMMA MatchesIsCounting ==
  ASSUME NEW f, NEW k, f.overloads[k] \in Seq(Params), NEW vs \in Seq(Given)
  PROVE  Matches(f, k, vs) <=> Counts(f.overloads[k], vs)
<1>1. Matches(f, k, vs) <=> \E to : Assigns(to, f.overloads[k], vs)
  BY DEF Matches, Assigns
<1>. QED
  BY <1>1, AssignmentCounts, CountingAssigns


\* No constructor has a parameter of type Napi::Env: noobject.h looks
\* constructors up by the number of their parameters (line 833) and of the
\* arguments (line 542), so that it would never be tried.
ConstructorsTakeValues ==
  \A f \in Callables : f.how = "constructor" =>
    \A k \in DOMAIN f.overloads :
      \A i \in DOMAIN f.overloads[k] : f.overloads[k][i] # "env"

\* The wrapper runs the C++ code on the values that match and on no others.
LEMMA FitsIffMatches ==
  ASSUME ConstructorsTakeValues, NEW f \in Callables, NEW k \in DOMAIN f.overloads,
         NEW vs \in Seq(Given), f.how = "setter" => Len(vs) = 1
  PROVE  Matches(f, k, vs) <=> /\ Candidate(f, f.overloads[k], vs)
                               /\ Converts(f.overloads[k], vs)
                               /\ LengthMatches(f, f.overloads[k], vs)
<1>. DEFINE ps == f.overloads[k]
            n == Len(ps)
            m == Len(vs)
<1>1. /\ ps \in Seq(Params) /\ n \in Nat /\ m \in Nat
      /\ DOMAIN ps = 1 .. n /\ DOMAIN vs = 1 .. m
  BY CallableTyped DEF Signatures
<1>2. \A i \in 1 .. n : ps[i] = "env" => Accepts(ps[i], ArgAt(ps, i, vs))
  BY DEF Accepts, IntTypes
<1>3. f.how = "setter" => n = 1 /\ ps # <<"env">>
  BY CallableTyped, CallablesAssumption DEF IsCallable
<1>4. f.how = "constructor" => \A i \in 1 .. n : ps[i] # "env"
  BY <1>1 DEF ConstructorsTakeValues
<1>5. Matches(f, k, vs) <=> Counts(ps, vs)
  BY <1>1, MatchesIsCounting
<1>. HIDE DEF ps
<1>6. f.how = "setter" => Consumed(ps, n) = m
  <2>. SUFFICES ASSUME f.how = "setter" PROVE Consumed(ps, n) = 1
    OBVIOUS
  <2>1. n = 1 /\ ps[1] # "env"
    BY <1>1, <1>3
  <2>2. Taking(ps, 0) = {}
    BY DEF Taking
  <2>3. Consumed(ps, 0) = 0
    BY <2>2, FS_EmptySet DEF Taking, Consumed
  <2>. QED
    BY <2>1, <2>3, ConsumedFacts
<1>7. f.how = "constructor" => Consumed(ps, n) = n
  <2>. SUFFICES ASSUME f.how = "constructor" PROVE Consumed(ps, n) = n
    OBVIOUS
  <2>1. Taking(ps, n) = 1 .. n
    BY <1>4 DEF Taking
  <2>. HIDE DEF n
  <2>2. Cardinality(1 .. n) = n
    BY <1>1, FS_Interval
  <2>. QED
    BY <1>1, <2>1, <2>2, ConsumedFacts
<1>. HIDE DEF n, m
<1>8. ASSUME Consumed(ps, n) = m, NEW i \in 1 .. n, ps[i] # "env"
      PROVE  ArgAt(ps, i, vs) = vs[Consumed(ps, i)]
  <2>1. i - 1 \in 0 .. n /\ i \in 0 .. n /\ n \in 0 .. n /\ i <= n
    BY <1>1
  <2>2. /\ Consumed(ps, i) = Consumed(ps, i - 1) + 1
        /\ Consumed(ps, i - 1) \in Nat /\ Consumed(ps, i) <= Consumed(ps, n)
    BY <1>1, <1>8, <2>1, ConsumedFacts
  <2>3. Consumed(ps, i) \in DOMAIN vs
    BY <1>1, <1>8, <2>2
  <2>. QED
    BY <2>2, <2>3 DEF ArgAt
<1>9. Counts(ps, vs) => Converts(ps, vs)
  <2>. SUFFICES ASSUME Counts(ps, vs), NEW i \in 1 .. n
       PROVE  Accepts(ps[i], ArgAt(ps, i, vs))
    BY <1>1 DEF Converts
  <2>1. Consumed(ps, n) = m
    BY DEF Counts, n, m
  <2>2. CASE ps[i] = "env"
    BY <1>2, <2>2
  <2>3. CASE ps[i] # "env"
    <3>1. Accepts(ps[i], vs[Consumed(ps, i)])
      BY <1>1, <2>3 DEF Counts
    <3>. QED
      BY <1>8, <2>1, <2>3, <3>1
  <2>. QED
    BY <2>2, <2>3
<1>10. Converts(ps, vs) /\ Consumed(ps, n) = m => Counts(ps, vs)
  <2>. SUFFICES ASSUME Converts(ps, vs), Consumed(ps, n) = m, NEW i \in 1 .. n,
                       ps[i] # "env"
       PROVE  Accepts(ps[i], vs[Consumed(ps, i)])
    BY <1>1 DEF Counts, n, m
  <2>1. Accepts(ps[i], ArgAt(ps, i, vs))
    BY <1>1 DEF Converts
  <2>. QED
    BY <1>8, <2>1
<1>11. Counts(ps, vs) => Consumed(ps, n) = m
  BY DEF Counts, n, m
<1>12. LengthMatches(f, ps, vs) <=> (f.how # "setter" => Consumed(ps, n) = m)
  BY DEF LengthMatches, n, m
<1>13. Candidate(f, ps, vs) <=> (f.how = "constructor" => n = m)
  BY DEF Candidate, n, m
<1>14. Matches(f, k, vs) <=> /\ Candidate(f, ps, vs)
                             /\ Converts(ps, vs)
                             /\ LengthMatches(f, ps, vs)
  BY <1>5, <1>6, <1>7, <1>9, <1>10, <1>11, <1>12, <1>13
<1>. QED
  BY <1>14 DEF ps


\* the k-th signature has been tried in vain
Skipped(c, k) == k \in thrown[c] \/ ~Matches(fn[c], k, given[c])

\* what a call has tried
Tried(c) ==
  /\ phase[c] # "idle" /\ fn[c].how = "setter" => Len(given[c]) = 1
  /\ phase[c] \in Pending => Matches(fn[c], overload[c], given[c])
  /\ phase[c] \in Pending \cup {"converting"} =>
       \A k \in 1 .. overload[c] - 1 : Skipped(c, k)
  /\ phase[c] = "threw" => overload[c] \in thrown[c]
  /\ phase[c] = "rejected" => \A k \in DOMAIN fn[c].overloads : Skipped(c, k)

AllTried == \A c \in Calls : Tried(c)

LEMMA TriedFrame ==
  ASSUME NEW d, Tried(d), phase'[d] = phase[d], fn'[d] = fn[d],
         given'[d] = given[d], overload'[d] = overload[d], thrown'[d] = thrown[d]
  PROVE  Tried(d)'
BY DEF Tried, Skipped, Matches

\* from one step of the C++ function to the next
LEMMA TriedGoesOn ==
  ASSUME NEW d, Tried(d), phase[d] \in Pending, phase'[d] \in Pending \ {"threw"},
         fn'[d] = fn[d], given'[d] = given[d], overload'[d] = overload[d],
         thrown'[d] = thrown[d]
  PROVE  Tried(d)'
BY DEF Tried, Skipped, Matches, Pending

\* a signature has been tried in vain: the next one, or an exception
LEMMA TriedAdvances ==
  ASSUME TypeOK, NEW c \in Calls, Tried(c), Advance(c), Skipped(c, overload[c]),
         phase[c] \in Pending \cup {"converting"},
         fn'[c] = fn[c], given'[c] = given[c], thrown'[c] = thrown[c]
  PROVE  Tried(c)'
<1>1. /\ overload[c] \in 1 .. Len(fn[c].overloads) /\ Len(fn[c].overloads) \in Nat
      /\ DOMAIN fn[c].overloads = 1 .. Len(fn[c].overloads)
  BY CallableTyped DEF TypeOK
<1>2. \A k \in 1 .. overload[c] : Skipped(c, k)
  <2>1. \A k \in 1 .. overload[c] : k = overload[c] \/ k \in 1 .. overload[c] - 1
    BY <1>1
  <2>. QED
    BY <2>1 DEF Tried
<1>3. \A k : Skipped(c, k) => Skipped(c, k)'
  BY DEF Skipped, Matches
<1>4. fn'[c].how = "setter" => Len(given'[c]) = 1
  BY DEF Tried, Pending
<1>5. CASE overload[c] < Len(fn[c].overloads)
  <2>1. phase'[c] = "converting" /\ overload'[c] = overload[c] + 1
    BY <1>5 DEF Advance, TypeOK
  <2>2. overload'[c] - 1 = overload[c]
    BY <1>1, <2>1
  <2>3. \A k \in 1 .. overload'[c] - 1 : Skipped(c, k)'
    BY <1>2, <1>3, <2>2
  <2>. QED
    BY <1>4, <2>1, <2>3 DEF Tried, Pending
<1>6. CASE ~(overload[c] < Len(fn[c].overloads))
  <2>1. phase'[c] = "rejected"
    BY <1>6 DEF Advance, TypeOK
  <2>2. \A k \in DOMAIN fn[c].overloads : k \in 1 .. overload[c]
    BY <1>1, <1>6
  <2>3. \A k \in DOMAIN fn'[c].overloads : Skipped(c, k)'
    BY <1>2, <1>3, <2>2
  <2>. QED
    BY <1>4, <2>1, <2>3 DEF Tried, Pending
<1>. QED
  BY <1>5, <1>6

LEMMA TriedStep ==
  ASSUME ConstructorsTakeValues, IInv, AllTried, [Next]_vars, NEW d \in Calls
  PROVE  Tried(d)'
<1>0. TypeOK /\ Tried(d)
  BY DEF IInv, AllTried
<1>. USE <1>0
<1>1. ASSUME NEW c \in Calls, NEW f \in Callables, NEW vs \in Lists, Invoke(c, f, vs)
      PROVE  Tried(d)'
  <2>1. CASE d = c
    <3>1. /\ phase'[d] = "converting" /\ given'[d] = vs /\ fn'[d] = f
          /\ overload'[d] = 1
          /\ f.how = "setter" => Len(vs) = 1
      BY <1>1, <2>1 DEF Invoke, TypeOK
    <3>2. \A k \in 1 .. overload'[d] - 1 : FALSE
      BY <3>1
    <3>. QED
      BY <1>1, <2>1, <3>1, <3>2 DEF Tried, Pending, Invoke
  <2>2. CASE d # c
    BY <1>1, <2>2, TriedFrame DEF Invoke, TypeOK
  <2>. QED
    BY <2>1, <2>2
<1>2. ASSUME NEW c \in Calls, phase[c] = "converting"
      PROVE  Matches(fn[c], overload[c], given[c]) <=>
               /\ Candidate(fn[c], Signature(c), given[c])
               /\ Converts(Signature(c), given[c])
               /\ LengthMatches(fn[c], Signature(c), given[c])
  <2>1. /\ fn[c] \in Callables /\ overload[c] \in DOMAIN fn[c].overloads
        /\ given[c] \in Seq(Given)
    BY DEF TypeOK
  <2>2. fn[c].how = "setter" => Len(given[c]) = 1
    BY <1>2 DEF AllTried, Tried
  <2>. QED
    BY <2>1, <2>2, FitsIffMatches DEF Signature
<1>3. ASSUME NEW c \in Calls, Convert(c) PROVE Tried(d)'
  <2>1. /\ phase[c] = "converting" /\ fn' = fn /\ given' = given
        /\ overload' = overload /\ thrown' = thrown
        /\ phase' = [phase EXCEPT ![c] = "ready"]
    BY <1>3 DEF Convert, callVars
  <2>2. Matches(fn[c], overload[c], given[c])
    BY <1>2, <1>3, <2>1 DEF Convert
  <2>3. CASE d = c
    <3>1. phase'[d] = "ready"
      BY <2>1, <2>3 DEF TypeOK
    <3>. QED
      BY <2>1, <2>2, <2>3, <3>1 DEF Tried, Skipped, Matches, Pending
  <2>4. CASE d # c
    BY <2>1, <2>4, TriedFrame DEF TypeOK
  <2>. QED
    BY <2>3, <2>4
<1>4. ASSUME NEW c \in Calls, Refuse(c) PROVE Tried(d)'
  <2>1. /\ phase[c] = "converting" /\ Advance(c)
        /\ fn' = fn /\ given' = given /\ thrown' = thrown
    BY <1>4 DEF Refuse, callVars
  <2>2. Skipped(c, overload[c])
    BY <1>2, <1>4, <2>1 DEF Refuse, Skipped
  <2>3. CASE d = c
    BY <2>1, <2>2, <2>3, TriedAdvances
  <2>4. CASE d # c
    BY <2>1, <2>4, AdvanceTyped, TriedFrame
  <2>. QED
    BY <2>3, <2>4
<1>5. ASSUME NEW c \in Calls, Start(c) \/ Return(c) PROVE Tried(d)'
  <2>1. /\ phase[c] \in Pending
        /\ \/ phase' = [phase EXCEPT ![c] = "running"]
           \/ phase' = [phase EXCEPT ![c] = "returned"]
        /\ fn' = fn /\ given' = given /\ overload' = overload /\ thrown' = thrown
    BY <1>5 DEF Start, Return, callVars, Pending
  <2>2. CASE d = c
    <3>1. phase'[d] \in Pending \ {"threw"}
      BY <2>1, <2>2 DEF TypeOK, Pending
    <3>. QED
      BY <2>1, <2>2, <3>1, TriedGoesOn
  <2>3. CASE d # c
    BY <2>1, <2>3, TriedFrame DEF TypeOK
  <2>. QED
    BY <2>2, <2>3
<1>6. ASSUME NEW c \in Calls, Throw(c) PROVE Tried(d)'
  <2>1. /\ phase[c] = "running" /\ phase' = [phase EXCEPT ![c] = "threw"]
        /\ thrown' = [thrown EXCEPT ![c] = thrown[c] \cup {overload[c]}]
        /\ fn' = fn /\ given' = given /\ overload' = overload
    BY <1>6 DEF Throw, callVars
  <2>2. CASE d = c
    <3>1. phase'[d] = "threw" /\ thrown'[d] = thrown[d] \cup {overload[d]}
      BY <2>1, <2>2 DEF TypeOK
    <3>2. \A k : Skipped(d, k) => Skipped(d, k)'
      BY <2>1, <3>1 DEF Skipped, Matches
    <3>3. Matches(fn[d], overload[d], given[d])'
      BY <2>1, <2>2 DEF Tried, Pending, Matches
    <3>. QED
      BY <2>1, <2>2, <3>1, <3>2, <3>3 DEF Tried, Pending
  <2>3. CASE d # c
    BY <2>1, <2>3, TriedFrame DEF TypeOK
  <2>. QED
    BY <2>2, <2>3
<1>7. ASSUME NEW c \in Calls, Fail(c) PROVE Tried(d)'
  <2>1. /\ phase[c] = "threw" /\ Advance(c)
        /\ fn' = fn /\ given' = given /\ thrown' = thrown
    BY <1>7 DEF Fail, callVars
  <2>2. Skipped(c, overload[c])
    BY <2>1 DEF AllTried, Tried, Skipped
  <2>3. CASE d = c
    BY <2>1, <2>2, <2>3, TriedAdvances DEF Pending
  <2>4. CASE d # c
    BY <2>1, <2>4, AdvanceTyped, TriedFrame
  <2>. QED
    BY <2>3, <2>4
<1>8. ASSUME NEW c \in Calls, Deliver(c) PROVE Tried(d)'
  <2>1. /\ phase[c] = "returned" /\ phase' = [phase EXCEPT ![c] = "resolved"]
        /\ fn' = fn /\ given' = given /\ overload' = overload /\ thrown' = thrown
    BY <1>8 DEF Deliver, callVars
  <2>2. CASE d = c
    <3>1. phase'[d] = "resolved"
      BY <2>1, <2>2 DEF TypeOK
    <3>. QED
      BY <2>1, <2>2, <3>1 DEF Tried, Pending
  <2>3. CASE d # c
    BY <2>1, <2>3, TriedFrame DEF TypeOK
  <2>. QED
    BY <2>2, <2>3
<1>9. ASSUME NEW c \in Calls, Answer(c) PROVE Tried(d)'
  <2>1. CASE d = c
    <3>1. phase'[d] = "idle"
      BY <1>9, <2>1 DEF Answer, TypeOK
    <3>. QED
      BY <3>1 DEF Tried, Pending
  <2>2. CASE d # c
    BY <1>9, <2>2, TriedFrame DEF Answer, TypeOK
  <2>. QED
    BY <2>1, <2>2
<1>10. ASSUME NEW o \in Objects, Drop(o) \/ Collect(o) PROVE Tried(d)'
  BY <1>10, TriedFrame DEF Drop, Collect, callVars
<1>11. CASE UNCHANGED vars
  BY <1>11, TriedFrame DEF vars, callVars
<1>. QED
  BY <1>1, <1>3, <1>4, <1>5, <1>6, <1>7, <1>8, <1>9, <1>10, <1>11 DEF Next


(***************************************************************************)
(* Who deletes memory.                                                     *)
(***************************************************************************)
\* No function and no constructor has a parameter of type char *: the memory of
\* such an argument is deleted when it is moved, before the function runs (see
\* StateLastsForTheCall).  A setter moves nothing.
CharsInSettersOnly ==
  \A f \in Callables : f.how # "setter" =>
    \A k \in DOMAIN f.overloads :
      \A i \in DOMAIN f.overloads[k] : f.overloads[k][i] # "char"

\* x is deleted by the i-th argument of the call w, by the result that it is
\* about to deliver, or with the Buffer w
Holds(kind, w, i, x) ==
  \/ kind = "argument" /\ w \in Calls /\ i \in DOMAIN args[w] /\ args[w][i].block = x
  \/ kind = "result" /\ w \in Calls /\ i = 0 /\ phase[w] = "returned" /\ output[w] = x
  \/ kind = "buffer" /\ w \in alive /\ i = 0 /\ external[w] = x

\* the memory in use is held once
Sole ==
  \A x \in Cells :
    /\ x \in live <=> \E k, w, i : Holds(k, w, i, x)
    /\ \A k, w, i, l, v, j :
         Holds(k, w, i, x) /\ Holds(l, v, j, x) => k = l /\ w = v /\ i = j

\* what a call has where nobody looks
Tidied(c) ==
  /\ phase[c] \notin Pending => args[c] = << >>
  /\ fn[c].how # "setter" => Blocks(args[c]) = {}
  /\ phase[c] = "returned" /\ output[c] \in Cells => fn[c].returns = "buffer"
  /\ phase[c] \notin {"returned", "resolved"} => output[c] = None

Owned ==
  /\ ~fault
  /\ Sole
  /\ \A c \in Calls : Tidied(c)
  /\ \A o \in Objects \ alive : external[o] = None

\* A step after which the memory in Lost is not held as before, and the memory
\* in New is held once; Lost and New may overlap.
LEMMA SoleStep ==
  ASSUME Sole, NEW Lost \in SUBSET Cells, NEW New \in SUBSET Cells,
         New \cap (live \ Lost) = {}, live' = (live \ Lost) \cup New,
         \A k, w, i : \A x \in Cells :
           Holds(k, w, i, x)' => (Holds(k, w, i, x) /\ x \notin Lost) \/ x \in New,
         \A k, w, i : \A x \in Cells \ (Lost \cup New) :
           Holds(k, w, i, x) => Holds(k, w, i, x)',
         \A x \in New : \E k, w, i :
           /\ Holds(k, w, i, x)'
           /\ \A l, v, j : Holds(l, v, j, x)' => l = k /\ v = w /\ j = i
  PROVE  Sole'
<1>. SUFFICES ASSUME NEW x \in Cells
     PROVE  /\ x \in live' <=> \E k, w, i : Holds(k, w, i, x)'
            /\ \A k, w, i, l, v, j :
                 Holds(k, w, i, x)' /\ Holds(l, v, j, x)' => k = l /\ w = v /\ i = j
  BY DEF Sole
<1>1. CASE x \in New
  <2>1. PICK k, w, i :
          /\ Holds(k, w, i, x)'
          /\ \A l, v, j : Holds(l, v, j, x)' => l = k /\ v = w /\ j = i
    BY <1>1
  <2>. QED
    BY <1>1, <2>1
<1>2. CASE x \notin New
  <2>1. /\ x \in live <=> \E k, w, i : Holds(k, w, i, x)
        /\ \A k, w, i, l, v, j :
             Holds(k, w, i, x) /\ Holds(l, v, j, x) => k = l /\ w = v /\ i = j
    BY DEF Sole
  <2>2. \A k, w, i : Holds(k, w, i, x)' <=> Holds(k, w, i, x) /\ x \notin Lost
    BY <1>2
  <2>3. x \in live' <=> x \in live /\ x \notin Lost
    BY <1>2
  <2>. QED
    BY <2>1, <2>2, <2>3
<1>. QED
  BY <1>1, <1>2

\* a step that neither takes memory nor gives it back
LEMMA SoleFrame ==
  ASSUME Sole, live' = live, args' = args, alive' = alive, external' = external,
         \A c \in Calls :
           /\ phase'[c] = "returned" <=> phase[c] = "returned"
           /\ phase[c] = "returned" => output'[c] = output[c]
  PROVE  Sole'
<1>1. \A k, w, i, x : Holds(k, w, i, x)' <=> Holds(k, w, i, x)
  BY DEF Holds
<1>. QED
  BY <1>1 DEF Sole

LEMMA BlocksTyped ==
  ASSUME TypeOK, NEW c \in Calls
  PROVE  /\ \A i \in DOMAIN args[c] : args[c][i].block \in Cells \cup {None}
         /\ Blocks(args[c]) \subseteq Cells
<1>1. args[c] \in Seq(FromJSObjects)
  BY DEF TypeOK
<1>2. \A i \in DOMAIN args[c] : args[c][i] \in FromJSObjects
  BY <1>1
<1>3. \A r \in FromJSObjects : r.block \in Cells \cup {None}
  BY DEF FromJSObjects
<1>. QED
  BY <1>2, <1>3 DEF Blocks

\* the memory of the arguments is in use: deleting them is no fault
LEMMA BlocksLive ==
  ASSUME TypeOK, Sole, NEW c \in Calls
  PROVE  Blocks(args[c]) \subseteq live
<1>1. \A x \in Blocks(args[c]) : \E i : Holds("argument", c, i, x)
  BY DEF Blocks, Holds
<1>. QED
  BY <1>1, BlocksTyped DEF Sole


\* what is said of a call that a step leaves alone
LEMMA TidiedFrame ==
  ASSUME NEW d, Tidied(d), phase'[d] = phase[d], fn'[d] = fn[d], args'[d] = args[d],
         output'[d] = output[d]
  PROVE  Tidied(d)'
BY DEF Tidied, Blocks

\* the arguments of a callable other than a setter have no memory
LEMMA NoBlocks ==
  ASSUME CharsInSettersOnly, TypeOK, NEW c \in Calls, fn[c].how # "setter"
  PROVE  \A i \in DOMAIN Signature(c) : Signature(c)[i] # "char"
BY CallableTyped DEF CharsInSettersOnly, TypeOK, Signature

\* a setter has one parameter
LEMMA SettersTakeOne ==
  ASSUME TypeOK, NEW c \in Calls, fn[c].how = "setter"
  PROVE  DOMAIN Signature(c) = {1}
<1>1. fn[c] \in Callables /\ overload[c] \in 1 .. Len(fn[c].overloads)
  BY CallableTyped DEF TypeOK
<1>2. Len(fn[c].overloads) = 1 /\ Len(fn[c].overloads[1]) = 1
  BY <1>1, CallablesAssumption DEF IsCallable
<1>3. Signature(c) = fn[c].overloads[1] /\ Signature(c) \in Seq(Params)
  BY <1>1, <1>2, SignatureTyped DEF Signature
<1>4. DOMAIN Signature(c) = 1 .. 1
  BY <1>2, <1>3
<1>. QED
  BY <1>4

\* The arguments of a setter are moved nowhere; those of other callables have no
\* memory to lose.
LEMMA ConvertOwned ==
  ASSUME CharsInSettersOnly, IInv, Owned, NEW c \in Calls, Convert(c)
  PROVE  Owned'
<1>0. /\ TypeOK /\ Sole /\ ~fault /\ \A d \in Calls : Tidied(d)
      /\ \A o \in Objects \ alive : external[o] = None
  BY DEF IInv, Owned
<1>1. /\ phase[c] = "converting" /\ phase' = [phase EXCEPT ![c] = "ready"]
      /\ fn' = fn /\ output' = output /\ alive' = alive /\ external' = external
  BY DEF Convert, callVars
<1>2. PICK cell \in [DOMAIN Signature(c) -> Cells \ live] :
        LET as == [i \in DOMAIN Signature(c) |->
                     FromJS(Signature(c)[i], ArgAt(Signature(c), i, given[c]), cell[i])] IN
        /\ args' = [args EXCEPT ![c] = as]
        /\ live' = IF Moves(fn[c]) = 0 THEN live \cup Blocks(as) ELSE live
        /\ fault' = (fault \/ (Moves(fn[c]) > 1 /\ Blocks(as) # {}))
  BY DEF Convert
<1>. DEFINE as == [i \in DOMAIN Signature(c) |->
                     FromJS(Signature(c)[i], ArgAt(Signature(c), i, given[c]), cell[i])]
<1>3. /\ args'[c] = as /\ \A d \in Calls \ {c} : args'[d] = args[d]
      /\ live' = IF Moves(fn[c]) = 0 THEN live \cup Blocks(as) ELSE live
      /\ fault' = (fault \/ (Moves(fn[c]) > 1 /\ Blocks(as) # {}))
  BY <1>0, <1>2 DEF TypeOK
<1>4. /\ DOMAIN as = DOMAIN Signature(c)
      /\ \A i \in DOMAIN as :
           as[i].block = IF Signature(c)[i] = "char" THEN cell[i] ELSE None
  BY DEF FromJS
<1>. HIDE DEF as
<1>5. args[c] = << >> /\ phase'[c] = "ready" /\ \A d \in Calls \ {c} : phase'[d] = phase[d]
  BY <1>0, <1>1 DEF Tidied, Pending, TypeOK
<1>6. fn[c].how # "setter" => Blocks(as) = {}
  BY <1>0, <1>4, NoBlocks DEF Blocks
<1>7. ~fault' /\ live' = live \cup Blocks(as) /\ Blocks(as) \subseteq Cells \ live
  <2>1. Blocks(as) \subseteq Cells \ live
    BY <1>4 DEF Blocks
  <2>2. CASE fn[c].how = "setter"
    <3>1. Moves(fn[c]) = 0
      BY <2>2 DEF Moves
    <3>2. ~(Moves(fn[c]) > 1)
      BY <3>1
    <3>. QED
      BY <1>0, <1>3, <2>1, <3>1, <3>2
  <2>3. CASE fn[c].how # "setter"
    BY <1>0, <1>3, <1>6, <2>1, <2>3
  <2>. QED
    BY <2>2, <2>3
<1>8. \A d \in Calls : Tidied(d)'
  <2>1. Tidied(c)'
    <3>1. output[c] = None
      BY <1>0, <1>1 DEF Tidied
    <3>2. Blocks(args[c])' = Blocks(as)
      BY <1>3 DEF Blocks
    <3>3. fn'[c].how # "setter" => Blocks(args[c])' = {}
      BY <1>1, <1>6, <3>2
    <3>4. phase'[c] \in Pending /\ phase'[c] # "returned"
      BY <1>5 DEF Pending
    <3>5. output'[c] = None
      BY <1>1, <3>1
    <3>. QED
      BY <3>3, <3>4, <3>5 DEF Tidied
  <2>2. \A d \in Calls \ {c} : Tidied(d)'
    BY <1>0, <1>1, <1>3, <1>5, TidiedFrame
  <2>. QED
    BY <2>1, <2>2
<1>9. Sole'
  <2>1. \A k, w, i, x : Holds(k, w, i, x)' <=>
          \/ Holds(k, w, i, x)
          \/ k = "argument" /\ w = c /\ i \in DOMAIN as /\ as[i].block = x
    <3>1. \A w \in Calls : phase'[w] = "returned" <=> phase[w] = "returned"
      BY <1>1, <1>5
    <3>2. \A i : i \notin DOMAIN args[c]
      BY <1>5
    <3>3. \A w \in Calls : output'[w] = output[w]
      BY <1>1
    <3>. SUFFICES ASSUME NEW k, NEW w, NEW i, NEW x
         PROVE  Holds(k, w, i, x)' <=>
                  \/ Holds(k, w, i, x)
                  \/ k = "argument" /\ w = c /\ i \in DOMAIN as /\ as[i].block = x
      OBVIOUS
    <3>4. CASE k = "argument"
      <4>1. Holds(k, w, i, x)' <=> w \in Calls /\ i \in DOMAIN args'[w] /\ args'[w][i].block = x
        BY <3>4 DEF Holds
      <4>2. Holds(k, w, i, x) <=> w \in Calls /\ i \in DOMAIN args[w] /\ args[w][i].block = x
        BY <3>4 DEF Holds
      <4>3. CASE w \in Calls
        <5>1. CASE w = c
          BY <1>3, <3>2, <3>4, <4>1, <4>2, <4>3, <5>1
        <5>2. CASE w # c
          <6>1. args'[w] = args[w]
            BY <1>3, <4>3, <5>2
          <6>. QED
            BY <4>1, <4>2, <5>2, <6>1
        <5>. QED
          BY <5>1, <5>2
      <4>4. CASE w \notin Calls
        BY <4>1, <4>2, <4>4
      <4>. QED
        BY <4>3, <4>4
    <3>5. CASE k # "argument"
      BY <1>1, <3>1, <3>3, <3>5 DEF Holds
    <3>. QED
      BY <3>4, <3>5
  <2>2. PICK N \in SUBSET Cells : N = Blocks(as)
    BY <1>7
  <2>3. \A x \in N : \E i \in DOMAIN as :
          as[i].block = x /\ \A j \in DOMAIN as : as[j].block = x => j = i
    <3>1. fn[c].how = "setter" => DOMAIN as = {1}
      BY <1>0, <1>4, SettersTakeOne
    <3>. QED
      BY <1>6, <2>2, <3>1 DEF Blocks
  <2>4. \A x \in N : \A k, w, i : ~Holds(k, w, i, x)
    BY <1>0, <1>7, <2>2 DEF Sole
  <2>5. \A x \in Cells \ N : \A i \in DOMAIN as : as[i].block # x
    BY <2>2, ObjectsAssumption DEF Blocks
  <2>6. \A x \in N : \E k, w, i :
          /\ Holds(k, w, i, x)'
          /\ \A l, v, j : Holds(l, v, j, x)' => l = k /\ v = w /\ j = i
    <3>. SUFFICES ASSUME NEW x \in N
         PROVE  \E k, w, i :
                  /\ Holds(k, w, i, x)'
                  /\ \A l, v, j : Holds(l, v, j, x)' => l = k /\ v = w /\ j = i
      OBVIOUS
    <3>1. PICK i \in DOMAIN as :
            as[i].block = x /\ \A j \in DOMAIN as : as[j].block = x => j = i
      BY <2>3
    <3>2. \A l, v, j : Holds(l, v, j, x)' <=> l = "argument" /\ v = c /\ j = i
      BY <2>1, <2>4, <3>1
    <3>. QED
      BY <3>2
  <2>7. \A k, w, i : \A x \in Cells \ N : Holds(k, w, i, x)' <=> Holds(k, w, i, x)
    BY <2>1, <2>5
  <2>8. live' = (live \ {}) \cup N /\ N \cap (live \ {}) = {}
    BY <1>7, <2>2
  <2>. QED
    BY <1>0, <2>6, <2>7, <2>8, SoleStep
<1>. QED
  BY <1>0, <1>1, <1>7, <1>8, <1>9 DEF Owned


\* a step that deletes the arguments of a call, which had no result to lose
LEMMA ArgumentsGo ==
  ASSUME TypeOK, Sole, NEW c \in Calls,
         args' = [args EXCEPT ![c] = << >>], live' = live \ Blocks(args[c]),
         output' = output, alive' = alive, external' = external,
         \A d \in Calls \ {c} : phase'[d] = phase[d], phase'[c] # "returned",
         phase[c] = "returned" => output[c] \notin Cells
  PROVE  Sole'
<1>1. PICK L \in SUBSET Cells : L = Blocks(args[c])
  BY BlocksTyped
<1>2. args'[c] = << >> /\ \A d \in Calls \ {c} : args'[d] = args[d]
  BY DEF TypeOK
<1>3. \A i \in DOMAIN args[c] : \A x \in Cells : args[c][i].block = x => x \in L
  BY <1>1, ObjectsAssumption DEF Blocks
<1>4. ASSUME NEW x \in L, NEW k, NEW w, NEW i, Holds(k, w, i, x)
      PROVE  k = "argument" /\ w = c
  <2>1. PICK j \in DOMAIN args[c] : args[c][j].block = x
    BY <1>1 DEF Blocks
  <2>2. Holds("argument", c, j, x)
    BY <2>1 DEF Holds
  <2>. QED
    BY <1>4, <2>2 DEF Sole
<1>5. ASSUME NEW k, NEW w, NEW i, NEW x \in Cells
      PROVE  Holds(k, w, i, x)' <=> Holds(k, w, i, x) /\ x \notin L
  <2>1. CASE k = "argument"
    <3>1. /\ Holds(k, w, i, x)' <=>
               (w \in Calls /\ i \in DOMAIN args'[w] /\ args'[w][i].block = x)
          /\ Holds(k, w, i, x) <=>
               (w \in Calls /\ i \in DOMAIN args[w] /\ args[w][i].block = x)
      BY <2>1 DEF Holds
    <3>2. CASE w = c
      BY <1>2, <1>3, <3>1, <3>2
    <3>3. CASE w # c
      BY <1>2, <1>4, <3>1, <3>3
    <3>. QED
      BY <3>2, <3>3
  <2>2. CASE k # "argument"
    <3>1. Holds(k, w, i, x)' <=> Holds(k, w, i, x)
      BY <2>2 DEF Holds
    <3>. QED
      BY <1>4, <2>2, <3>1
  <2>. QED
    BY <2>1, <2>2
<1>6. live' = (live \ L) \cup {} /\ {} \cap (live \ L) = {}
  BY <1>1
<1>. QED
  BY <1>5, <1>6, SoleStep

\* ~FromJS of the arguments after an exception
LEMMA FailOwned ==
  ASSUME IInv, Owned, NEW c \in Calls, Fail(c)
  PROVE  Owned'
<1>0. /\ TypeOK /\ Sole /\ ~fault /\ \A d \in Calls : Tidied(d)
      /\ \A o \in Objects \ alive : external[o] = None
  BY DEF IInv, Owned
<1>1. /\ phase[c] = "threw" /\ Destroy(c) /\ Advance(c) /\ fn' = fn /\ output' = output
      /\ alive' = alive /\ external' = external
  BY DEF Fail, callVars
<1>2. /\ args' = [args EXCEPT ![c] = << >>] /\ live' = live \ Blocks(args[c])
      /\ fault' = (fault \/ ~(Blocks(args[c]) \subseteq live))
  BY <1>1 DEF Destroy
<1>3. /\ phase'[c] \in {"converting", "rejected"}
      /\ \A d \in Calls \ {c} : phase'[d] = phase[d]
  BY <1>0, <1>1, AdvanceTyped
<1>4. ~fault'
  BY <1>0, <1>2, BlocksLive
<1>5. Sole'
  BY <1>0, <1>1, <1>2, <1>3, ArgumentsGo
<1>6. args'[c] = << >> /\ \A d \in Calls \ {c} : args'[d] = args[d]
  BY <1>0, <1>2 DEF TypeOK
<1>7. \A d \in Calls : Tidied(d)'
  <2>1. Tidied(c)'
    <3>1. Blocks(args[c])' = {}
      BY <1>6 DEF Blocks
    <3>. QED
      BY <1>0, <1>1, <1>3, <1>6, <3>1 DEF Tidied, Pending
  <2>2. \A d \in Calls \ {c} : Tidied(d)'
    BY <1>0, <1>1, <1>3, <1>6, TidiedFrame
  <2>. QED
    BY <2>1, <2>2
<1>. QED
  BY <1>0, <1>1, <1>4, <1>5, <1>7 DEF Owned

\* what C++ returns: a buffer that nobody else has
LEMMA ReturnOwned ==
  ASSUME IInv, Owned, NEW c \in Calls, Return(c)
  PROVE  Owned'
<1>0. /\ TypeOK /\ Sole /\ ~fault /\ \A d \in Calls : Tidied(d)
      /\ \A o \in Objects \ alive : external[o] = None
  BY DEF IInv, Owned
<1>1. /\ phase[c] = "running" /\ phase' = [phase EXCEPT ![c] = "returned"]
      /\ fn' = fn /\ args' = args /\ alive' = alive /\ external' = external
      /\ fault' = fault
  BY DEF Return, callVars
<1>2. phase'[c] = "returned" /\ \A d \in Calls \ {c} : phase'[d] = phase[d]
  BY <1>0, <1>1 DEF TypeOK
<1>3. \/ /\ fn[c].returns = "buffer"
         /\ \E cell \in Cells \ live : /\ output' = [output EXCEPT ![c] = cell]
                                      /\ live' = live \cup {cell}
      \/ /\ \E x : x \notin Cells /\ output' = [output EXCEPT ![c] = x]
         /\ live' = live
  <2>1. CASE fn[c].returns = "buffer"
    BY <2>1 DEF Return, IntTypes
  <2>2. CASE fn[c].returns \in IntTypes
    BY <2>2, NumbersAssumption, ObjectsAssumption DEF Return, IntTypes
  <2>3. CASE fn[c].returns = "void"
    <3>1. output' = output /\ live' = live
      BY <2>3 DEF Return, IntTypes
    <3>2. output[c] = None /\ output' = [output EXCEPT ![c] = None]
      BY <1>0, <1>1, <3>1 DEF Tidied, TypeOK
    <3>. QED
      BY <3>1, <3>2, ObjectsAssumption
  <2>4. fn[c].returns \in IntTypes \cup {"void", "buffer"}
    BY <1>0, CallableTyped DEF TypeOK
  <2>. QED
    BY <2>1, <2>2, <2>3, <2>4
<1>4. PICK y : /\ output' = [output EXCEPT ![c] = y]
               /\ y \in Cells => fn[c].returns = "buffer" /\ y \notin live
               /\ live' = live \cup ({y} \cap Cells)
  <2>1. ASSUME NEW cell \in Cells \ live, fn[c].returns = "buffer",
               output' = [output EXCEPT ![c] = cell], live' = live \cup {cell}
        PROVE  \E y : /\ output' = [output EXCEPT ![c] = y]
                      /\ y \in Cells => fn[c].returns = "buffer" /\ y \notin live
                      /\ live' = live \cup ({y} \cap Cells)
    <3>1. {cell} \cap Cells = {cell}
      OBVIOUS
    <3>. QED
      BY <2>1, <3>1
  <2>2. ASSUME NEW x, x \notin Cells, output' = [output EXCEPT ![c] = x], live' = live
        PROVE  \E y : /\ output' = [output EXCEPT ![c] = y]
                      /\ y \in Cells => fn[c].returns = "buffer" /\ y \notin live
                      /\ live' = live \cup ({y} \cap Cells)
    <3>1. {x} \cap Cells = {}
      BY <2>2
    <3>. QED
      BY <2>2, <3>1
  <2>. QED
    BY <1>3, <2>1, <2>2
<1>5. output'[c] = y /\ \A d \in Calls \ {c} : output'[d] = output[d]
  BY <1>0, <1>4 DEF TypeOK
<1>6. Sole'
  <2>1. PICK N \in SUBSET Cells : N = {y} \cap Cells
    OBVIOUS
  <2>2. ASSUME NEW k, NEW w, NEW i, NEW x
        PROVE  Holds(k, w, i, x)' <=>
                 Holds(k, w, i, x) \/ (k = "result" /\ w = c /\ i = 0 /\ x = y)
    <3>1. CASE k = "result"
      <4>1. /\ Holds(k, w, i, x)' <=>
                 (w \in Calls /\ i = 0 /\ phase'[w] = "returned" /\ output'[w] = x)
            /\ Holds(k, w, i, x) <=>
                 (w \in Calls /\ i = 0 /\ phase[w] = "returned" /\ output[w] = x)
        BY <3>1 DEF Holds
      <4>2. CASE w = c
        BY <1>1, <1>2, <1>5, <3>1, <4>1, <4>2
      <4>3. CASE w # c
        BY <1>2, <1>5, <4>1, <4>3
      <4>. QED
        BY <4>2, <4>3
    <3>2. CASE k # "result"
      BY <1>1, <3>2 DEF Holds
    <3>. QED
      BY <3>1, <3>2
  <2>3. \A x \in N : x = y /\ x \notin live
    BY <1>4, <2>1
  <2>4. \A x \in Cells \ N : x # y
    BY <2>1
  <2>5. \A x \in N : \A k, w, i : ~Holds(k, w, i, x)
    BY <1>0, <2>3 DEF Sole
  <2>6. \A x \in N : \E k, w, i :
          /\ Holds(k, w, i, x)'
          /\ \A l, v, j : Holds(l, v, j, x)' => l = k /\ v = w /\ j = i
    <3>1. \A x \in N : \A l, v, j :
            Holds(l, v, j, x)' <=> l = "result" /\ v = c /\ j = 0
      BY <2>2, <2>3, <2>5
    <3>. QED
      BY <3>1
  <2>7. \A k, w, i : \A x \in Cells \ N : Holds(k, w, i, x)' <=> Holds(k, w, i, x)
    BY <2>2, <2>4
  <2>8. live' = (live \ {}) \cup N /\ N \cap (live \ {}) = {}
    BY <1>4, <2>1, <2>3
  <2>. QED
    BY <1>0, <2>6, <2>7, <2>8, SoleStep
<1>7. \A d \in Calls : Tidied(d)'
  <2>1. Tidied(c)'
    BY <1>0, <1>1, <1>2, <1>4, <1>5 DEF Tidied, Pending, Blocks
  <2>2. \A d \in Calls \ {c} : Tidied(d)'
    BY <1>0, <1>1, <1>2, <1>5, TidiedFrame
  <2>. QED
    BY <2>1, <2>2
<1>. QED
  BY <1>0, <1>1, <1>6, <1>7 DEF Owned


\* The result goes to JavaScript: a buffer to a Buffer that deletes it, or that
\* has a copy of it.
LEMMA DeliverOwned ==
  ASSUME IInv, Owned, NEW c \in Calls, Deliver(c)
  PROVE  Owned'
<1>0. /\ TypeOK /\ Sole /\ ~fault /\ \A d \in Calls : Tidied(d)
      /\ \A o \in Objects \ alive : external[o] = None
      /\ Produced(c)
  BY DEF IInv, Owned
<1>1. /\ phase[c] = "returned" /\ phase' = [phase EXCEPT ![c] = "resolved"]
      /\ fn' = fn /\ output' = output /\ args' = [args EXCEPT ![c] = << >>]
      /\ fault' = (fault \/ ~(Blocks(args[c]) \subseteq live))
  BY DEF Deliver, callVars
<1>2. /\ phase'[c] = "resolved" /\ \A d \in Calls \ {c} : phase'[d] = phase[d]
      /\ args'[c] = << >> /\ \A d \in Calls \ {c} : args'[d] = args[d]
  BY <1>0, <1>1 DEF TypeOK
<1>3. ~fault'
  BY <1>0, <1>1, BlocksLive
<1>4. \A d \in Calls : Tidied(d)'
  <2>1. Tidied(c)'
    BY <1>2 DEF Tidied, Pending, Blocks
  <2>2. \A d \in Calls \ {c} : Tidied(d)'
    BY <1>0, <1>1, <1>2, TidiedFrame
  <2>. QED
    BY <2>1, <2>2
<1>5. CASE fn[c].returns # "buffer"
  <2>1. /\ live' = live \ Blocks(args[c]) /\ alive' = alive /\ external' = external
    BY <1>5 DEF Deliver
  <2>2. output[c] \notin Cells
    BY <1>0, <1>1, <1>5 DEF Tidied
  <2>3. Sole'
    BY <1>0, <1>1, <1>2, <2>1, <2>2, ArgumentsGo
  <2>. QED
    BY <1>0, <1>3, <1>4, <2>1, <2>3 DEF Owned
<1>6. CASE fn[c].returns = "buffer"
  <2>1. Blocks(args[c]) = {}
    <3>1. fn[c] \in Callables
      BY <1>0 DEF TypeOK
    <3>2. fn[c].how # "setter"
      BY <1>6, <3>1, CallablesAssumption DEF IsCallable
    <3>. QED
      BY <1>0, <3>2 DEF Tidied
  <2>2. output[c] \in Cells
    BY <1>0, <1>1, <1>6 DEF Produced
  <2>3. PICK o \in Buffers \ alive :
          alive' = alive \cup {o} /\ FromBuffer(c, o)
    BY <1>6 DEF Deliver, IntTypes
  <2>. DEFINE y == output[c]
  <2>4. Holds("result", c, 0, y)
    BY <1>1 DEF Holds
  <2>. HIDE DEF y
  <2>5. \A k, w, i : Holds(k, w, i, y) => k = "result" /\ w = c /\ i = 0
    BY <1>0, <2>2, <2>4 DEF Sole, y
  <2>6. y \in live /\ y \in Cells
    BY <1>0, <2>2, <2>4 DEF Sole, y
  <2>7. \E kept \in {{}, {y}} :
          /\ live' = (live \ {y}) \cup kept
          /\ external' = IF kept = {} THEN external ELSE [external EXCEPT ![o] = y]
    <3>1. CASE fn[c].copy
      <4>1. external' = external /\ live' = (live \ {y}) \cup {}
        BY <2>1, <2>3, <3>1 DEF FromBuffer, y
      <4>. QED
        BY <4>1
    <3>2. CASE ~fn[c].copy
      <4>1. external' = [external EXCEPT ![o] = y] /\ live' = (live \ {y}) \cup {y}
        BY <2>1, <2>3, <2>6, <3>2 DEF FromBuffer, y
      <4>. QED
        BY <4>1
    <3>. QED
      BY <3>1, <3>2
  <2>8. PICK kept \in SUBSET Cells :
          /\ kept \in {{}, {y}} /\ live' = (live \ {y}) \cup kept
          /\ external' = IF kept = {} THEN external ELSE [external EXCEPT ![o] = y]
    BY <2>6, <2>7
  <2>9. /\ external[o] = None /\ o \in Objects
        /\ \A x \in Cells : external'[o] = x <=> x \in kept
        /\ \A w \in Objects \ {o} : external'[w] = external[w]
    <3>1. external[o] = None /\ o \in Objects
      BY <1>0 DEF Objects
    <3>2. CASE kept = {}
      BY <2>8, <3>1, <3>2, ObjectsAssumption
    <3>3. CASE kept = {y}
      <4>1. external' = [external EXCEPT ![o] = y] /\ DOMAIN external = Objects
        BY <1>0, <2>8, <3>3 DEF TypeOK
      <4>. QED
        BY <3>1, <3>3, <4>1
    <3>. QED
      BY <2>8, <3>2, <3>3
  <2>10. ASSUME NEW k, NEW w, NEW i, NEW x \in Cells
         PROVE  Holds(k, w, i, x)' <=>
                  \/ Holds(k, w, i, x) /\ x # y
                  \/ k = "buffer" /\ w = o /\ i = 0 /\ x \in kept
    <3>1. CASE k = "argument"
      <4>1. /\ Holds(k, w, i, x)' <=>
                 (w \in Calls /\ i \in DOMAIN args'[w] /\ args'[w][i].block = x)
            /\ Holds(k, w, i, x) <=>
                 (w \in Calls /\ i \in DOMAIN args[w] /\ args[w][i].block = x)
        BY <3>1 DEF Holds
      <4>2. \A j \in DOMAIN args[c] : args[c][j].block # x
        BY <2>1, ObjectsAssumption DEF Blocks
      <4>3. Holds(k, w, i, x)' <=> Holds(k, w, i, x)
        BY <1>2, <4>1, <4>2
      <4>. QED
        BY <2>5, <3>1, <4>3
    <3>2. CASE k = "result"
      <4>1. /\ Holds(k, w, i, x)' <=>
                 (w \in Calls /\ i = 0 /\ phase'[w] = "returned" /\ output'[w] = x)
            /\ Holds(k, w, i, x) <=>
                 (w \in Calls /\ i = 0 /\ phase[w] = "returned" /\ output[w] = x)
        BY <3>2 DEF Holds
      <4>2. CASE w = c
        BY <1>1, <1>2, <3>2, <4>1, <4>2 DEF y
      <4>3. CASE w # c
        <5>1. Holds(k, w, i, x) => x # y
          BY <2>5, <4>3
        <5>2. Holds(k, w, i, x)' <=> Holds(k, w, i, x)
          BY <1>1, <1>2, <4>1, <4>3
        <5>. QED
          BY <3>2, <5>1, <5>2
      <4>. QED
        BY <4>2, <4>3
    <3>3. CASE k = "buffer"
      <4>1. /\ Holds(k, w, i, x)' <=> (w \in alive' /\ i = 0 /\ external'[w] = x)
            /\ Holds(k, w, i, x) <=> (w \in alive /\ i = 0 /\ external[w] = x)
        BY <3>3 DEF Holds
      <4>2. Holds(k, w, i, x) => x # y
        BY <2>5, <3>3
      <4>3. CASE w = o
        BY <2>3, <2>9, <3>3, <4>1, <4>3
      <4>4. CASE w # o
        <5>1. Holds(k, w, i, x)' <=> Holds(k, w, i, x)
          BY <1>0, <2>3, <2>9, <4>1, <4>4 DEF TypeOK
        <5>. QED
          BY <4>2, <4>4, <5>1
      <4>. QED
        BY <4>3, <4>4
    <3>4. CASE k \notin {"argument", "result", "buffer"}
      BY <3>4 DEF Holds
    <3>. QED
      BY <3>1, <3>2, <3>3, <3>4
  <2>11. Sole'
    <3>1. PICK L \in SUBSET Cells : L = {y}
      BY <2>6
    <3>2. kept \subseteq L /\ kept \cap (live \ L) = {} /\ live' = (live \ L) \cup kept
      BY <2>8, <3>1
    <3>3. \A x \in kept : \E k, w, i :
            /\ Holds(k, w, i, x)'
            /\ \A l, v, j : Holds(l, v, j, x)' => l = k /\ v = w /\ j = i
      <4>1. \A x \in kept : \A l, v, j :
              Holds(l, v, j, x)' <=> l = "buffer" /\ v = o /\ j = 0
        BY <2>10, <3>1, <3>2
      <4>. QED
        BY <4>1
    <3>4. /\ \A k, w, i : \A x \in Cells :
               Holds(k, w, i, x)' => (Holds(k, w, i, x) /\ x \notin L) \/ x \in kept
          /\ \A k, w, i : \A x \in Cells \ (L \cup kept) :
               Holds(k, w, i, x) => Holds(k, w, i, x)'
      BY <2>10, <3>1
    <3>. QED
      BY <1>0, <3>2, <3>3, <3>4, SoleStep
  <2>12. \A p \in Objects \ alive' : external'[p] = None
    BY <1>0, <2>3, <2>9
  <2>. QED
    BY <1>3, <1>4, <2>11, <2>12 DEF Owned
<1>. QED
  BY <1>5, <1>6

\* a Buffer deletes its memory
LEMMA CollectOwned ==
  ASSUME IInv, Owned, NEW o \in Objects, Collect(o)
  PROVE  Owned'
<1>0. /\ TypeOK /\ Sole /\ ~fault /\ \A d \in Calls : Tidied(d)
      /\ \A p \in Objects \ alive : external[p] = None
  BY DEF IInv, Owned
<1>1. /\ o \in alive /\ alive' = alive \ {o} /\ live' = live \ {external[o]}
      /\ external' = [external EXCEPT ![o] = None]
      /\ phase' = phase /\ fn' = fn /\ args' = args /\ output' = output
      /\ fault' = fault
  BY DEF Collect, callVars
<1>2. external'[o] = None /\ \A p \in Objects \ {o} : external'[p] = external[p]
  BY <1>0, <1>1 DEF TypeOK
<1>3. PICK L \in SUBSET Cells : L = {external[o]} \cap Cells
  OBVIOUS
<1>4. ASSUME NEW x \in L, NEW k, NEW w, NEW i, Holds(k, w, i, x)
      PROVE  k = "buffer" /\ w = o
  <2>1. Holds("buffer", o, 0, x)
    BY <1>1, <1>3 DEF Holds
  <2>. QED
    BY <1>0, <1>4, <2>1 DEF Sole
<1>5. ASSUME NEW k, NEW w, NEW i, NEW x \in Cells
      PROVE  Holds(k, w, i, x)' <=> Holds(k, w, i, x) /\ x \notin L
  <2>1. CASE k = "buffer"
    <3>1. /\ Holds(k, w, i, x)' <=> (w \in alive' /\ i = 0 /\ external'[w] = x)
          /\ Holds(k, w, i, x) <=> (w \in alive /\ i = 0 /\ external[w] = x)
      BY <2>1 DEF Holds
    <3>2. CASE w = o
      BY <1>1, <1>3, <3>1, <3>2
    <3>3. CASE w # o
      <4>1. Holds(k, w, i, x)' <=> Holds(k, w, i, x)
        BY <1>0, <1>1, <1>2, <3>1, <3>3 DEF TypeOK
      <4>. QED
        BY <1>4, <3>3, <4>1
    <3>. QED
      BY <3>2, <3>3
  <2>2. CASE k # "buffer"
    <3>1. Holds(k, w, i, x)' <=> Holds(k, w, i, x)
      BY <1>1, <2>2 DEF Holds
    <3>. QED
      BY <1>4, <2>2, <3>1
  <2>. QED
    BY <2>1, <2>2
<1>6. live' = (live \ L) \cup {} /\ {} \cap (live \ L) = {}
  BY <1>0, <1>1, <1>3 DEF TypeOK
<1>7. Sole'
  BY <1>0, <1>5, <1>6, SoleStep
<1>8. \A d \in Calls : Tidied(d)'
  BY <1>0, <1>1, TidiedFrame
<1>9. \A p \in Objects \ alive' : external'[p] = None
  BY <1>0, <1>1, <1>2
<1>. QED
  BY <1>0, <1>1, <1>7, <1>8, <1>9 DEF Owned

\* A step that takes no memory and gives none back leaves the rest to one call,
\* whose arguments stay as they are.
LEMMA OwnedFrame ==
  ASSUME Owned, NEW c \in Calls, live' = live, args' = args, alive' = alive,
         external' = external, ~fault',
         \A d \in Calls \ {c} :
           phase'[d] = phase[d] /\ fn'[d] = fn[d] /\ output'[d] = output[d],
         phase[c] # "returned", phase'[c] # "returned", Tidied(c)'
  PROVE  Owned'
<1>1. Sole'
  BY SoleFrame DEF Owned
<1>2. \A d \in Calls : Tidied(d)'
  BY TidiedFrame DEF Owned
<1>. QED
  BY <1>1, <1>2 DEF Owned

LEMMA OwnedStep ==
  ASSUME CharsInSettersOnly, IInv, Owned, [Next]_vars
  PROVE  Owned'
<1>0. /\ TypeOK /\ Sole /\ ~fault /\ \A d \in Calls : Tidied(d)
      /\ \A o \in Objects \ alive : external[o] = None
  BY DEF IInv, Owned
<1>1. ASSUME NEW c \in Calls, NEW f \in Callables, NEW vs \in Lists, Invoke(c, f, vs)
      PROVE  Owned'
  <2>1. /\ phase[c] = "idle" /\ phase' = [phase EXCEPT ![c] = "converting"]
        /\ fn' = [fn EXCEPT ![c] = f]
        /\ UNCHANGED <<args, output, alive, external, live, fault>>
    BY <1>1 DEF Invoke
  <2>2. /\ phase'[c] = "converting"
        /\ \A d \in Calls \ {c} : phase'[d] = phase[d] /\ fn'[d] = fn[d]
    BY <1>0, <2>1 DEF TypeOK
  <2>3. args[c] = << >> /\ output[c] = None
    BY <1>0, <2>1 DEF Tidied, Pending
  <2>4. Tidied(c)'
    BY <2>1, <2>2, <2>3, ObjectsAssumption DEF Tidied, Blocks
  <2>. QED
    BY <1>0, <2>1, <2>2, <2>4, OwnedFrame
<1>2. ASSUME NEW c \in Calls, Refuse(c)
      PROVE  Owned'
  <2>1. /\ phase[c] = "converting" /\ Advance(c)
        /\ ~(/\ Candidate(fn[c], Signature(c), given[c])
             /\ Converts(Signature(c), given[c])
             /\ LengthMatches(fn[c], Signature(c), given[c]))
        /\ fault' = (fault \/ (/\ Candidate(fn[c], Signature(c), given[c])
                               /\ Converts(Signature(c), given[c])
                               /\ \E i \in DOMAIN Signature(c) : Signature(c)[i] = "char"))
        /\ UNCHANGED <<fn, args, output, alive, external, live>>
    BY <1>2 DEF Refuse, callVars
  <2>2. ~fault'
    <3>1. CASE fn[c].how = "setter"
      BY <1>0, <2>1, <3>1 DEF LengthMatches
    <3>2. CASE fn[c].how # "setter"
      BY <1>0, <2>1, <3>2, NoBlocks
    <3>. QED
      BY <3>1, <3>2
  <2>3. /\ phase'[c] \in {"converting", "rejected"}
        /\ \A d \in Calls \ {c} : phase'[d] = phase[d]
    BY <1>0, <2>1, AdvanceTyped
  <2>4. args[c] = << >> /\ output[c] = None
    BY <1>0, <2>1 DEF Tidied, Pending
  <2>5. Tidied(c)'
    BY <2>1, <2>3, <2>4, ObjectsAssumption DEF Tidied, Blocks
  <2>. QED
    BY <1>0, <2>1, <2>2, <2>3, <2>5, OwnedFrame
<1>3. ASSUME NEW c \in Calls, Start(c) \/ Throw(c)
      PROVE  Owned'
  <2>1. /\ phase[c] \in {"ready", "running"}
        /\ \E s \in {"running", "threw"} : phase' = [phase EXCEPT ![c] = s]
        /\ UNCHANGED <<fn, args, output, alive, external, live, fault>>
    BY <1>3 DEF Start, Throw, callVars
  <2>2. /\ phase'[c] \in {"running", "threw"}
        /\ \A d \in Calls \ {c} : phase'[d] = phase[d]
    BY <1>0, <2>1 DEF TypeOK
  <2>3. Tidied(c)
    BY <1>0
  <2>4. Tidied(c)'
    BY <2>1, <2>2, <2>3, ObjectsAssumption DEF Tidied, Blocks, Pending
  <2>. QED
    BY <1>0, <2>1, <2>2, <2>4, OwnedFrame
<1>4. ASSUME NEW c \in Calls, Answer(c)
      PROVE  Owned'
  <2>1. /\ phase[c] \in {"resolved", "rejected"} /\ phase' = [phase EXCEPT ![c] = "idle"]
        /\ fn' = [fn EXCEPT ![c] = Nothing] /\ output' = [output EXCEPT ![c] = None]
        /\ UNCHANGED <<args, alive, external, live, fault>>
    BY <1>4 DEF Answer
  <2>2. /\ phase'[c] = "idle" /\ output'[c] = None
        /\ \A d \in Calls \ {c} :
             phase'[d] = phase[d] /\ fn'[d] = fn[d] /\ output'[d] = output[d]
    BY <1>0, <2>1 DEF TypeOK
  <2>3. args[c] = << >>
    BY <1>0, <2>1 DEF Tidied, Pending
  <2>4. Tidied(c)'
    BY <2>1, <2>2, <2>3, ObjectsAssumption DEF Tidied, Blocks
  <2>. QED
    BY <1>0, <2>1, <2>2, <2>4, OwnedFrame
<1>5. ASSUME UNCHANGED <<phase, fn, args, output, alive, external, live, fault>>
      PROVE  Owned'
  <2>1. Sole'
    BY <1>0, <1>5, SoleFrame
  <2>2. \A d \in Calls : Tidied(d)'
    BY <1>0, <1>5, TidiedFrame
  <2>. QED
    BY <1>0, <1>5, <2>1, <2>2 DEF Owned
<1>6. ASSUME NEW o \in Objects, Drop(o) PROVE Owned'
  BY <1>5, <1>6 DEF Drop, callVars
<1>7. CASE UNCHANGED vars
  BY <1>5, <1>7 DEF vars
<1>8. \A c \in Calls :
        Convert(c) \/ Return(c) \/ Fail(c) \/ Deliver(c) => Owned'
  BY ConvertOwned, ReturnOwned, FailOwned, DeliverOwned
<1>. QED
  BY <1>1, <1>2, <1>3, <1>4, <1>6, <1>7, <1>8, CollectOwned DEF Next

LEMMA InitOwned == Init => Owned
<1>. SUFFICES ASSUME Init PROVE Owned
  OBVIOUS
<1>1. \A k, w, i : \A x \in Cells : ~Holds(k, w, i, x)
  BY ObjectsAssumption DEF Init, Holds, Objects
<1>2. Sole
  BY <1>1 DEF Init, Sole
<1>3. \A c \in Calls : Tidied(c)
  BY ObjectsAssumption DEF Init, Tidied, Blocks
<1>. QED
  BY <1>2, <1>3 DEF Init, Owned

\* the owners of memory, counted
LEMMA OwnersCounted ==
  ASSUME TypeOK, Sole, NEW x \in Cells
  PROVE  Cardinality(Owners(x)) = IF x \in live THEN 1 ELSE 0
<1>1. \A o : o \in Owners(x) <=>
        \/ \E w, i : Holds("argument", w, i, x) /\ o = <<w, i>>
        \/ \E w, i : Holds("result", w, i, x) /\ o = <<w, i>>
        \/ \E w, i : Holds("buffer", w, i, x) /\ o = w
  <2>1. \A o : o \in Owners(x) <=>
          \/ \E c \in Calls : \E i \in DOMAIN args[c] : args[c][i].block = x /\ o = <<c, i>>
          \/ \E c \in Calls : phase[c] = "returned" /\ output[c] = x /\ o = <<c, 0>>
          \/ o \in alive /\ external[o] = x
    <3>1. \A o : o \in Owners(x) <=>
            \/ o \in ArgumentsOwning(x)
            \/ o \in ResultsOwning(x)
            \/ o \in BuffersOwning(x)
      BY DEF Owners
    <3>2. \A o : o \in ArgumentsOwning(x) <=>
            \E c \in Calls : \E i \in DOMAIN args[c] : args[c][i].block = x /\ o = <<c, i>>
      BY DEF ArgumentsOwning
    <3>3. \A o : o \in ResultsOwning(x) <=>
            \E c \in Calls : phase[c] = "returned" /\ output[c] = x /\ o = <<c, 0>>
      BY DEF ResultsOwning
    <3>4. \A o : o \in BuffersOwning(x) <=> o \in alive /\ external[o] = x
      BY DEF BuffersOwning
    <3>. QED
      BY <3>1, <3>2, <3>3, <3>4
  <2>. QED
    BY <2>1 DEF Holds
<1>2. \A k, w, i : Holds(k, w, i, x) => k \in {"argument", "result", "buffer"}
  BY DEF Holds
<1>3. CASE x \in live
  <2>1. PICK k, w, i : Holds(k, w, i, x)
    BY <1>3 DEF Sole
  <2>2. \A l, v, j : Holds(l, v, j, x) => l = k /\ v = w /\ j = i
    BY <2>1 DEF Sole
  <2>3. PICK o : o = IF k = "buffer" THEN w ELSE <<w, i>>
    OBVIOUS
  <2>4. Owners(x) = {o}
    BY <1>1, <1>2, <2>1, <2>2, <2>3
  <2>. QED
    BY <1>3, <2>4, FS_Singleton
<1>4. CASE x \notin live
  <2>1. \A k, w, i : ~Holds(k, w, i, x)
    BY <1>4 DEF Sole
  <2>2. Owners(x) = {}
    BY <1>1, <2>1
  <2>. QED
    BY <1>4, <2>2, FS_EmptySet
<1>. QED
  BY <1>3, <1>4


LEMMA InitEstablishes == Init => IInv
BY TypeInit DEF Init, IInv, Stacked, InWrapper, Converted, Produced, Pending

LEMMA Invariance == Spec => []IInv
<1>1. IInv /\ [Next]_vars => IInv'
  BY TypeStep, CallsStep DEF IInv
<1>. QED
  BY InitEstablishes, <1>1, PTL DEF Spec

\* The variables of Conversions have their types: every call is at a signature
\* that its callable has, and holds FromJS objects, results and memory only.
THEOREM TypeCorrect == Spec => []TypeOK
<1>1. IInv => TypeOK
  BY DEF IInv
<1>. QED
  BY Invariance, <1>1, PTL

\* No object that a running C++ function was given is collected.
THEOREM ObjectsStay == Spec => []ArgumentsStay
<1>1. IInv => ArgumentsStay
  BY DEF IInv, ArgumentsStay, Converted, Pinned
<1>. QED
  BY Invariance, <1>1, PTL

\* The numbers that fit arrive; those that C++ returns do, too, unless a double
\* cannot hold them, and then they have its precision.
THEOREM ExactNumbers == Spec => []NumbersArrive
<1>1. IInv => NumbersArrive
  <2>. SUFFICES ASSUME IInv, NEW c \in Calls
       PROVE /\ phase[c] \in Pending =>
                  \A i \in DOMAIN args[c] :
                    Signature(c)[i] \in IntTypes =>
                      \A x \in Held(Signature(c)[i]) :
                        ArgAt(Signature(c), i, given[c]).of = 2 * x
                          => args[c][i].number = x
             /\ phase[c] = "resolved" /\ fn[c].returns \in IntTypes =>
                  /\ output[c] \in Exact(fn[c].returns) => result[c] = 2 * output[c]
                  /\ output[c] \in Held(fn[c].returns) => Precise(result[c], output[c])
    BY DEF NumbersArrive
  <2>1. Converted(c) /\ Produced(c)
    BY DEF IInv
  <2>2. ASSUME phase[c] \in Pending, NEW i \in DOMAIN args[c],
               Signature(c)[i] \in IntTypes, NEW x \in Held(Signature(c)[i]),
               ArgAt(Signature(c), i, given[c]).of = 2 * x
        PROVE  args[c][i].number = x
    <3>1. args[c][i].number = FromJSNumber(Signature(c)[i], 2 * x)
      BY <2>1, <2>2 DEF Converted, Numbered
    <3>. QED
      BY <2>2, <3>1, RoundTrip
  <2>3. ASSUME phase[c] = "resolved", fn[c].returns \in IntTypes
        PROVE  /\ output[c] \in Exact(fn[c].returns) => result[c] = 2 * output[c]
               /\ output[c] \in Held(fn[c].returns) => Precise(result[c], output[c])
    <3>1. result[c] = ToJSNumber(fn[c].returns, output[c])
      BY <2>1, <2>3 DEF Produced
    <3>. QED
      BY <2>3, <3>1, RoundTrip, PreciseReturn
  <2>. QED
    BY <2>2, <2>3
<1>. QED
  BY Invariance, <1>1, PTL

\* If no constructor has a parameter of type Napi::Env, C++ code runs only on
\* the values that match its signature, the first constructor that matches and
\* does not throw wins, and an exception means that none does.
THEOREM FirstMatchWins ==
  ASSUME ConstructorsTakeValues
  PROVE  Spec => []RunsIffMatches
<1>1. Init => AllTried
  BY DEF Init, AllTried, Tried, Pending
<1>2. IInv /\ AllTried /\ [Next]_vars => AllTried'
  BY TriedStep DEF AllTried
<1>3. AllTried => RunsIffMatches
  BY DEF AllTried, Tried, Skipped, RunsIffMatches
<1>. QED
  BY Invariance, <1>1, <1>2, <1>3, PTL DEF Spec

\* Unless a function or a constructor takes a char *, every piece of memory is
\* deleted once, by its one owner, however the call ends.
THEOREM MemoryHasOneOwner ==
  ASSUME CharsInSettersOnly
  PROVE  Spec => []BlocksAreOwned
<1>1. IInv /\ Owned /\ [Next]_vars => Owned'
  BY OwnedStep
<1>2. IInv /\ Owned => BlocksAreOwned
  BY OwnersCounted DEF IInv, Owned, BlocksAreOwned
<1>. QED
  BY Invariance, InitOwned, <1>1, <1>2, PTL DEF Spec
=============================================================================
