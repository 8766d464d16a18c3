------------------------- MODULE ClassRegistryProofs -------------------------
(***************************************************************************)
(* Proofs about ClassRegistry, for any module initialization and any       *)
(* number of environments that load it, fail and exit in any order: its    *)
(* type invariant, that the index assertion holds, that the index finds    *)
(* the class in every environment, that argument checks are those of C++   *)
(* inheritance, that static data in use is never changed, and that the     *)
(* TypeScript text is the same everywhere and describes the classes.       *)
(*                                                                         *)
(* The argument: an environment that has come to the n-th class has a      *)
(* table of exactly the n - 1 classes before it (Ordered), so every        *)
(* environment gives a class the same index, and what one environment has  *)
(* written to the static data is what every other one writes (Agreed).     *)
(* And where a class is described, every name that its signatures mention  *)
(* has been initialized by the same environment (Named), so that the text  *)
(* does not depend on what others have initialized (Published).            *)
(***************************************************************************)
EXTENDS ClassRegistry, SequenceTheorems, FunctionTheorems,
        FiniteSetTheorems, TLAPS

Working(e) == phase[e] \in {"declare", "define", "ready"}

\* where an environment has come to, and the classes it has by then
Ordered(e) ==
  /\ phase[e] = "declare" => at[e] \in 1 .. Len(program) + 1 /\ nextIdx[e] = at[e] - 1
  /\ phase[e] = "define" => at[e] \in 1 .. Len(program) /\ nextIdx[e] = at[e]
  /\ phase[e] = "ready" => at[e] = Len(program) + 1 /\ maps[e] = Len(program)
  /\ Working(e) =>
       /\ Len(table[e]) = at[e] - 1
       /\ \A i \in 1 .. at[e] - 1 : table[e][i] = program[i].class

\* the prototypes of the classes it has
Linked(e) ==
  Working(e) =>
    /\ DOMAIN proto[e] = {program[i].class : i \in 1 .. at[e] - 1}
    /\ \A i \in 1 .. at[e] - 1 : proto[e][program[i].class] = program[i].base

\* what it has left in the static data
Written(e) ==
  /\ phase[e] = "define" => program[at[e]].class \in declared
  /\ Working(e) =>
       \A i \in 1 .. at[e] - 1 :
         /\ program[i].class \in declared
         /\ classIdx[program[i].class] = i - 1
         /\ cons[program[i].class] = program[i].cons

\* static data is as every environment would write it
Agreed ==
  WellFormed(program) =>
    /\ ~aborted
    /\ \A i \in DOMAIN program : classIdx[program[i].class] \in {0, i - 1}
    /\ \A e \in Envs : Linked(e) /\ Written(e)

IInv == TypeOK /\ (\A e \in Envs : Ordered(e)) /\ Agreed

(***************************************************************************)
(* Operators.                                                              *)
(***************************************************************************)
LEMMA ProgramTyped ==
  ASSUME NEW p \in Programs
  PROVE  /\ p \in Seq(Definitions) /\ Len(p) \in Nat /\ DOMAIN p = 1 .. Len(p)
         /\ \A i \in 1 .. Len(p) :
              /\ p[i].class \in Classes
              /\ p[i].base \in Classes \cup {None}
              /\ p[i].forward \subseteq Classes
              /\ p[i].cons \in Constructors
<1>1. p \in Seq(Definitions)
  BY ProgramsAssumption
<1>2. Len(p) \in Nat /\ DOMAIN p = 1 .. Len(p)
  BY <1>1, LenProperties
<1>3. \A i \in 1 .. Len(p) : p[i] \in Definitions
  BY <1>1, <1>2, ElementOfSeq
<1>4. \A d \in Definitions :
        /\ d.class \in Classes /\ d.base \in Classes \cup {None}
        /\ d.forward \subseteq Classes
        /\ d.cons \in Constructors
  BY DEF Definitions
<1>. QED
  BY <1>1, <1>2, <1>3, <1>4

\* Inserting at the end of a sequence is appending to it.
LEMMA InsertIsAppend ==
  ASSUME NEW S, NEW s \in Seq(S), NEW x \in S
  PROVE  SubSeq(s, 1, Len(s)) \o <<x>> \o SubSeq(s, Len(s) + 1, Len(s))
           = Append(s, x)
<1>1. Len(s) \in Nat
  BY LenProperties
<1>2. SubSeq(s, 1, Len(s)) = s
  BY SubSeqFull
<1>3. SubSeq(s, Len(s) + 1, Len(s)) = << >>
  BY <1>1, SubSeqEmpty
<1>4. s \o <<x>> = Append(s, x)
  BY AppendIsConcat
<1>5. Append(s, x) \in Seq(S)
  BY AppendProperties
<1>6. Append(s, x) \o << >> = Append(s, x)
  BY <1>5, ConcatEmptySeq
<1>. QED
  BY <1>2, <1>3, <1>4, <1>6

LEMMA WithProperties ==
  ASSUME NEW f, NEW c, NEW x
  PROVE  /\ DOMAIN With(f, c, x) = DOMAIN f \cup {c}
         /\ With(f, c, x)[c] = x
         /\ \A k \in DOMAIN f : k # c => With(f, c, x)[k] = f[k]
BY DEF With

\* The table, when a class is registered, has the classes before it.
LEMMA RegisterAppends ==
  ASSUME IInv, NEW e \in Envs, phase[e] = "define", Register(e)
  PROVE  /\ table' = [table EXCEPT ![e] = Append(table[e], Current(e).class)]
         /\ Current(e).class \in Classes
<1>1. /\ table[e] \in Seq(Classes) /\ CurrentIdx(e) = Len(table[e])
      /\ CurrentIdx(e) + 1 = Len(table[e]) + 1
      /\ at[e] \in 1 .. Len(program) /\ program \in Programs
  BY DEF IInv, TypeOK, Ordered, Working, CurrentIdx
<1>2. Current(e).class \in Classes
  BY <1>1, ProgramTyped DEF Current
<1>3. table' = [table EXCEPT ![e] =
                  SubSeq(table[e], 1, Len(table[e])) \o <<Current(e).class>>
                    \o SubSeq(table[e], Len(table[e]) + 1, Len(table[e]))]
  BY <1>1 DEF Register
<1>. QED
  BY <1>1, <1>2, <1>3, InsertIsAppend

(***************************************************************************)
(* The type invariant.                                                     *)
(***************************************************************************)
LEMMA TypeInit == Init => TypeOK
<1>1. << >> \in Seq(Classes) /\ << >> \in Constructors
  BY EmptySeq DEF Constructors
<1>2. DOMAIN Nothing = {}
  BY DEF Nothing
<1>3. Init => /\ program \in Programs /\ declared \subseteq Classes
              /\ classIdx \in [Classes -> Nat]
  BY DEF Init
<1>8. Init => aborted \in BOOLEAN
  BY DEF Init
<1>7. Init => cons \in [Classes -> Constructors]
  BY <1>1 DEF Init
<1>4. Init => /\ phase \in [Envs -> {"absent", "declare", "define", "failed", "ready"}]
              /\ at \in [Envs -> Nat \ {0}]
              /\ nextIdx \in [Envs -> Nat] /\ maps \in [Envs -> Nat]
  BY DEF Init
<1>5. Init => table \in [Envs -> Seq(Classes)]
  BY <1>1 DEF Init
<1>6. Init => /\ DOMAIN exports = Envs /\ DOMAIN types = Envs /\ DOMAIN proto = Envs
              /\ \A e \in Envs : exports[e] = Nothing /\ types[e] = Nothing
                               /\ proto[e] = Nothing
  BY DEF Init
<1>. QED
  BY <1>2, <1>3, <1>4, <1>5, <1>6, <1>7, <1>8 DEF TypeOK

LEMMA TypeStep ==
  ASSUME IInv, [Next]_vars
  PROVE  TypeOK'
<1>0. TypeOK /\ \A e \in Envs : Ordered(e)
  BY DEF IInv
<1>. USE <1>0
<1>1. ASSUME NEW e \in Envs, Load(e) PROVE TypeOK'
  <2>1. << >> \in Seq(Classes)
    BY EmptySeq
  <2>. QED
    BY <1>1, <2>1 DEF Load, TypeOK, Nothing, statics
<1>2. ASSUME NEW e \in Envs, Declare(e) PROVE TypeOK'
  <2>1. /\ program[at[e]].class \in Classes
        /\ program[at[e]].forward \subseteq Classes
    BY <1>2, ProgramTyped DEF Declare, TypeOK
  <2>. QED
    BY <1>2, <2>1 DEF Declare, TypeOK
<1>3. ASSUME NEW e \in Envs, Configure(e), phase[e] = "define"
      PROVE  /\ classIdx' \in [Classes -> Nat]
             /\ cons' \in [Classes -> Constructors]
  <2>1. /\ program \in Programs /\ at[e] \in 1 .. Len(program)
        /\ nextIdx[e] - 1 \in Nat
    BY <1>3 DEF TypeOK, Ordered
  <2>2. Current(e).cons \in Constructors
    BY <2>1, ProgramTyped DEF Current
  <2>. QED
    BY <1>3, <2>1, <2>2 DEF Configure, CurrentIdx, TypeOK
<1>4. ASSUME NEW e \in Envs, Register(e), phase[e] = "define"
      PROVE  table' \in [Envs -> Seq(Classes)]
  <2>1. Append(table[e], Current(e).class) \in Seq(Classes)
    BY <1>4, RegisterAppends, AppendProperties DEF TypeOK
  <2>. QED
    BY <1>4, <2>1, RegisterAppends DEF TypeOK
<1>5. ASSUME NEW e \in Envs, Define(e) PROVE TypeOK'
  <2>1. /\ classIdx' \in [Classes -> Nat]
        /\ cons' \in [Classes -> Constructors]
        /\ table' \in [Envs -> Seq(Classes)]
        /\ Current(e).class \in Classes
    BY <1>3, <1>4, <1>5, RegisterAppends DEF Define
  <2>2. /\ DOMAIN exports' = Envs
        /\ DOMAIN exports'[e] = DOMAIN exports[e] \cup {Current(e).class}
        /\ \A f \in Envs \ {e} : exports'[f] = exports[f]
    <3>1. exports' = [exports EXCEPT ![e] = With(exports[e], Current(e).class, Offer(Current(e)))]
      BY <1>5 DEF Define
    <3>2. DOMAIN With(exports[e], Current(e).class, Offer(Current(e)))
            = DOMAIN exports[e] \cup {Current(e).class}
      BY DEF With
    <3>. QED
      BY <3>1, <3>2 DEF TypeOK
  <2>3. /\ DOMAIN types' = Envs
        /\ DOMAIN types'[e] = DOMAIN types[e] \cup {Current(e).class}
        /\ \A f \in Envs \ {e} : types'[f] = types[f]
    <3>1. types' = [types EXCEPT ![e] = With(types[e], Current(e).class, Typing(Current(e)))]
      BY <1>5 DEF Define
    <3>2. DOMAIN With(types[e], Current(e).class, Typing(Current(e)))
            = DOMAIN types[e] \cup {Current(e).class}
      BY DEF With
    <3>. QED
      BY <3>1, <3>2 DEF TypeOK
  <2>4. /\ DOMAIN proto' = Envs
        /\ DOMAIN proto'[e] = DOMAIN proto[e] \cup {Current(e).class}
        /\ \A f \in Envs \ {e} : proto'[f] = proto[f]
    <3>1. proto' = [proto EXCEPT ![e] = With(proto[e], Current(e).class, Current(e).base)]
      BY <1>5 DEF Define
    <3>2. DOMAIN With(proto[e], Current(e).class, Current(e).base)
            = DOMAIN proto[e] \cup {Current(e).class}
      BY DEF With
    <3>. QED
      BY <3>1, <3>2 DEF TypeOK
  <2>5. /\ phase' \in [Envs -> {"absent", "declare", "define", "failed", "ready"}]
        /\ at' \in [Envs -> Nat \ {0}] /\ nextIdx' = nextIdx /\ maps' = maps
        /\ program' = program /\ declared' = declared /\ aborted' = aborted
    BY <1>5 DEF Define, TypeOK
  <2>6. \A f \in Envs : /\ DOMAIN exports'[f] \subseteq Classes
                        /\ DOMAIN types'[f] \subseteq DOMAIN exports'[f]
                        /\ DOMAIN proto'[f] = DOMAIN types'[f]
    <3>1. \A f \in Envs : /\ DOMAIN exports[f] \subseteq Classes
                          /\ DOMAIN types[f] \subseteq DOMAIN exports[f]
                          /\ DOMAIN proto[f] = DOMAIN types[f]
      BY DEF TypeOK
    <3>2. ASSUME NEW f \in Envs \ {e}
          PROVE  /\ DOMAIN exports'[f] \subseteq Classes
                 /\ DOMAIN types'[f] \subseteq DOMAIN exports'[f]
                 /\ DOMAIN proto'[f] = DOMAIN types'[f]
      BY <2>2, <2>3, <2>4, <3>1
    <3>3. /\ DOMAIN exports'[e] \subseteq Classes
          /\ DOMAIN types'[e] \subseteq DOMAIN exports'[e]
          /\ DOMAIN proto'[e] = DOMAIN types'[e]
      BY <2>1, <2>2, <2>3, <2>4, <3>1
    <3>. QED
      BY <3>2, <3>3
  <2>. QED
    BY <2>1, <2>2, <2>3, <2>4, <2>5, <2>6 DEF TypeOK
<1>6. ASSUME NEW e \in Envs, BaseMissing(e) PROVE TypeOK'
  <2>1. /\ classIdx' \in [Classes -> Nat]
        /\ cons' \in [Classes -> Constructors]
        /\ table' \in [Envs -> Seq(Classes)]
        /\ Current(e).class \in Classes
    BY <1>3, <1>4, <1>6, RegisterAppends DEF BaseMissing
  <2>2. /\ DOMAIN exports'[e] = DOMAIN exports[e] \cup {Current(e).class}
        /\ \A f \in Envs \ {e} : exports'[f] = exports[f]
    <3>1. exports' = [exports EXCEPT ![e] = With(exports[e], Current(e).class, None)]
      BY <1>6 DEF BaseMissing
    <3>2. DOMAIN With(exports[e], Current(e).class, None)
            = DOMAIN exports[e] \cup {Current(e).class}
      BY DEF With
    <3>. QED
      BY <3>1, <3>2 DEF TypeOK
  <2>. QED
    BY <1>6, <2>1, <2>2 DEF BaseMissing, TypeOK
<1>7. ASSUME NEW e \in Envs, Abort(e) PROVE TypeOK'
  BY <1>7 DEF Abort, TypeOK, statics, instance
<1>8. ASSUME NEW e \in Envs, Finish(e) PROVE TypeOK'
  BY <1>8 DEF Finish, TypeOK, statics
<1>9. ASSUME NEW e \in Envs, Exit(e) PROVE TypeOK'
  BY <1>9 DEF Exit, TypeOK, statics
<1>10. CASE UNCHANGED vars
  BY <1>10 DEF TypeOK, vars
<1>. QED
  BY <1>1, <1>2, <1>5, <1>6, <1>7, <1>8, <1>9, <1>10 DEF Next

(***************************************************************************)
(* The order of the classes.                                               *)
(***************************************************************************)
LEMMA OrderInit == Init => \A e \in Envs : Ordered(e)
BY DEF Init, Ordered, Working

LEMMA OrderStep ==
  ASSUME IInv, [Next]_vars, NEW f \in Envs
  PROVE  Ordered(f)'
<1>0. TypeOK /\ \A e \in Envs : Ordered(e)
  BY DEF IInv
<1>. USE <1>0
<1>1. ASSUME NEW e \in Envs, Load(e) PROVE Ordered(f)'
  <2>1. Len(program) \in Nat
    BY ProgramTyped DEF TypeOK
  <2>. QED
    BY <1>1, <2>1 DEF Load, Ordered, Working, TypeOK
<1>2. ASSUME NEW e \in Envs, Declare(e) PROVE Ordered(f)'
  <2>1. Len(program) \in Nat /\ DOMAIN program = 1 .. Len(program)
    BY ProgramTyped DEF TypeOK
  <2>. QED
    BY <1>2, <2>1, SMTT(30) DEF Declare, Ordered, Working, TypeOK
<1>3. ASSUME NEW e \in Envs, Define(e) PROVE Ordered(f)'
  <2>1. /\ table' = [table EXCEPT ![e] = Append(table[e], program[at[e]].class)]
        /\ program[at[e]].class \in Classes
    BY <1>3, RegisterAppends DEF Define, Current
  <2>2. CASE f = e
    <3>1. /\ Len(program) \in Nat /\ table[e] \in Seq(Classes)
          /\ at[e] \in 1 .. Len(program) /\ nextIdx[e] = at[e]
          /\ Len(table[e]) = at[e] - 1
          /\ \A i \in 1 .. at[e] - 1 : table[e][i] = program[i].class
      BY <1>3, ProgramTyped DEF TypeOK, Ordered, Working, Define
    <3>2. /\ Len(table'[e]) = at[e]
          /\ \A i \in 1 .. at[e] - 1 : table'[e][i] = table[e][i]
          /\ table'[e][at[e]] = program[at[e]].class
      BY <2>1, <3>1, AppendProperties DEF TypeOK
    <3>3. \A i \in 1 .. at[e] : table'[e][i] = program[i].class
      BY <3>1, <3>2
    <3>4. /\ at'[e] = at[e] + 1 /\ phase'[e] = "declare"
          /\ program' = program /\ nextIdx'[e] = nextIdx[e]
      BY <1>3 DEF Define, TypeOK
    <3>5. /\ at'[e] \in 1 .. Len(program') + 1 /\ nextIdx'[e] = at'[e] - 1
          /\ at'[e] - 1 = at[e]
      BY <3>1, <3>4
    <3>6. /\ Len(table'[e]) = at'[e] - 1
          /\ \A i \in 1 .. at'[e] - 1 : table'[e][i] = program'[i].class
      BY <3>2, <3>3, <3>4, <3>5
    <3>. QED
      BY <2>2, <3>4, <3>5, <3>6 DEF Ordered, Working
  <2>3. CASE f # e
    BY <1>3, <2>1, <2>3 DEF Define, Ordered, Working, TypeOK
  <2>. QED
    BY <2>2, <2>3
<1>4. ASSUME NEW e \in Envs, BaseMissing(e) PROVE Ordered(f)'
  <2>1. table' = [table EXCEPT ![e] = Append(table[e], Current(e).class)]
    BY <1>4, RegisterAppends DEF BaseMissing
  <2>. QED
    BY <1>4, <2>1 DEF BaseMissing, Ordered, Working, TypeOK
<1>5. ASSUME NEW e \in Envs, Abort(e) PROVE Ordered(f)'
  BY <1>5 DEF Abort, Ordered, Working, instance
<1>6. ASSUME NEW e \in Envs, Finish(e) PROVE Ordered(f)'
  <2>1. Len(program) \in Nat /\ DOMAIN program = 1 .. Len(program)
    BY ProgramTyped DEF TypeOK
  <2>2. CASE f = e
    <3>1. /\ phase'[e] = "ready" /\ maps'[e] = nextIdx[e] /\ nextIdx[e] = at[e] - 1
          /\ at[e] = Len(program) + 1 /\ at' = at /\ table' = table
          /\ program' = program
          /\ Len(table[e]) = at[e] - 1
          /\ \A i \in 1 .. at[e] - 1 : table[e][i] = program[i].class
      BY <1>6, <2>1 DEF Finish, Ordered, Working, TypeOK
    <3>. QED
      BY <2>1, <2>2, <3>1 DEF Ordered, Working
  <2>3. CASE f # e
    BY <1>6, <2>3 DEF Finish, Ordered, Working, TypeOK
  <2>. QED
    BY <2>2, <2>3
<1>7. ASSUME NEW e \in Envs, Exit(e) PROVE Ordered(f)'
  BY <1>7 DEF Exit, Ordered, Working, TypeOK
<1>8. CASE UNCHANGED vars
  BY <1>8 DEF vars, Ordered, Working
<1>. QED
  BY <1>1, <1>2, <1>3, <1>4, <1>5, <1>6, <1>7, <1>8 DEF Next

(***************************************************************************)
(* The static data.                                                        *)
(***************************************************************************)
LEMMA AgreedInit == Init => Agreed
<1>1. Init => \A e \in Envs : ~Working(e)
  BY DEF Init, Working
<1>2. Init => \A i \in DOMAIN program : classIdx[program[i].class] = 0
  BY ProgramTyped DEF Init
<1>3. Init => ~aborted
  BY DEF Init
<1>. QED
  BY <1>1, <1>2, <1>3 DEF Agreed, Linked, Written, Working

\* What ~ClassDefinition writes, in the environment e, about the class that it
\* has come to: the same as every other environment.
LEMMA ConfigureAgrees ==
  ASSUME IInv, WellFormed(program), NEW e \in Envs, phase[e] = "define",
         Configure(e)
  PROVE  /\ at[e] \in DOMAIN program
         /\ \A i \in DOMAIN program :
              IF i = at[e]
              THEN /\ classIdx'[program[i].class] = i - 1
                   /\ cons'[program[i].class] = program[i].cons
              ELSE /\ classIdx'[program[i].class] = classIdx[program[i].class]
                   /\ cons'[program[i].class] = cons[program[i].class]
<1>0. TypeOK /\ Ordered(e)
  BY DEF IInv
<1>1. /\ at[e] \in DOMAIN program /\ DOMAIN program \subseteq Int
      /\ nextIdx[e] = at[e]
      /\ \A i \in DOMAIN program : program[i].class \in Classes
  BY <1>0, ProgramTyped DEF TypeOK, Ordered
<1>2. \A i, j \in DOMAIN program : program[i].class = program[j].class => i = j
  BY DEF WellFormed
<1>. QED
  BY <1>0, <1>1, <1>2 DEF Configure, Current, CurrentIdx, TypeOK

\* a class before the one that e has come to is in the static data, and stays
LEMMA WrittenStays ==
  ASSUME IInv, WellFormed(program), NEW e \in Envs, phase[e] = "define",
         Configure(e), NEW f \in Envs, Working(f), NEW i \in 1 .. at[f] - 1
  PROVE  /\ i \in DOMAIN program
         /\ program[i].class \in declared
         /\ classIdx'[program[i].class] = i - 1
         /\ cons'[program[i].class] = program[i].cons
<1>1. TypeOK /\ Ordered(f) /\ Written(f)
  BY DEF IInv, Agreed
<1>2. i \in DOMAIN program
  BY <1>1, ProgramTyped DEF TypeOK, Ordered, Working
<1>. QED
  BY <1>1, <1>2, ConfigureAgrees DEF Written

LEMMA AgreedStep ==
  ASSUME IInv, [Next]_vars
  PROVE  Agreed'
<1>1. program' = program
  BY DEF Next, vars, Load, Declare, Define, BaseMissing, Abort, Finish, Exit
<1>. SUFFICES ASSUME WellFormed(program)
     PROVE  /\ ~aborted'
            /\ \A i \in DOMAIN program : classIdx'[program[i].class] \in {0, i - 1}
            /\ \A f \in Envs : Linked(f)' /\ Written(f)'
  BY <1>1 DEF Agreed, WellFormed
<1>2. /\ TypeOK /\ ~aborted
      /\ \A i \in DOMAIN program : classIdx[program[i].class] \in {0, i - 1}
      /\ \A f \in Envs : Ordered(f) /\ Linked(f) /\ Written(f)
  BY DEF IInv, Agreed
<1>3. /\ Len(program) \in Nat /\ DOMAIN program = 1 .. Len(program)
      /\ \A i \in DOMAIN program : program[i].class \in Classes
      /\ \A i, j \in DOMAIN program : program[i].class = program[j].class => i = j
  BY <1>2, ProgramTyped DEF TypeOK, WellFormed
<1>4. ASSUME NEW e \in Envs, Load(e)
      PROVE  ~aborted' /\ classIdx' = classIdx /\ \A f \in Envs : Linked(f)' /\ Written(f)'
  <2>1. ~aborted' /\ classIdx' = classIdx /\ cons' = cons /\ declared' = declared
    BY <1>4 DEF Load, statics
  <2>2. ASSUME NEW f \in Envs, f # e PROVE Linked(f)' /\ Written(f)'
    BY <1>1, <1>2, <1>4, <2>1, <2>2 DEF Load, Linked, Written, Working, TypeOK
  <2>3. at'[e] = 1 /\ proto'[e] = Nothing /\ phase'[e] = "declare"
    BY <1>2, <1>4 DEF Load, TypeOK
  <2>4. DOMAIN Nothing = {}
    BY DEF Nothing
  <2>5. Linked(e)' /\ Written(e)'
    BY <2>3, <2>4 DEF Linked, Written
  <2>. QED
    BY <2>1, <2>2, <2>5
<1>5. ASSUME NEW e \in Envs, Declare(e)
      PROVE  ~aborted' /\ classIdx' = classIdx /\ \A f \in Envs : Linked(f)' /\ Written(f)'
  <2>1. /\ ~aborted' /\ classIdx' = classIdx /\ cons' = cons /\ declared \subseteq declared'
        /\ at' = at /\ proto' = proto
    BY <1>5 DEF Declare
  <2>2. \A f \in Envs : Working(f)' => Working(f)
    BY <1>2, <1>5 DEF Declare, Working, TypeOK
  <2>3. \A f \in Envs \ {e} : phase'[f] = phase[f]
    BY <1>2, <1>5 DEF Declare, TypeOK
  <2>4. program[at[e]].class \in declared'
    BY <1>5 DEF Declare
  <2>. QED
    BY <1>1, <1>2, <2>1, <2>2, <2>3, <2>4 DEF Linked, Written
<1>6. ASSUME NEW e \in Envs, phase[e] = "define", Configure(e)
      PROVE  \A i \in DOMAIN program : classIdx'[program[i].class] \in {0, i - 1}
  BY <1>2, <1>6, ConfigureAgrees
<1>7. ASSUME NEW e \in Envs, Define(e)
      PROVE  ~aborted' /\ \A f \in Envs : Linked(f)' /\ Written(f)'
  <2>1. /\ ~aborted' /\ declared' = declared /\ phase[e] = "define" /\ Configure(e)
        /\ at' = [at EXCEPT ![e] = at[e] + 1]
        /\ proto' = [proto EXCEPT ![e] = With(proto[e], Current(e).class, Current(e).base)]
        /\ phase' = [phase EXCEPT ![e] = "declare"]
    BY <1>2, <1>7 DEF Define
  <2>2. at[e] \in 1 .. Len(program) /\ Working(e)
    BY <1>2, <2>1 DEF Ordered, Working
  <2>3. ASSUME NEW f \in Envs, f # e PROVE Linked(f)' /\ Written(f)'
    <3>1. Working(f)' <=> Working(f)
      BY <1>2, <2>1, <2>3 DEF Working, TypeOK
    <3>2. at'[f] = at[f] /\ proto'[f] = proto[f] /\ phase'[f] = phase[f]
      BY <1>2, <2>1, <2>3 DEF TypeOK
    <3>. QED
      BY <1>1, <1>2, <2>1, <3>1, <3>2, WrittenStays DEF Linked, Written
  <2>4. at'[e] = at[e] + 1 /\ at[e] \in Int
    BY <1>2, <2>1, <2>2 DEF TypeOK
  <2>5. Written(e)'
    <3>1. ASSUME NEW i \in 1 .. at[e]
          PROVE  /\ program[i].class \in declared
                 /\ classIdx'[program[i].class] = i - 1
                 /\ cons'[program[i].class] = program[i].cons
      <4>1. CASE i = at[e]
        BY <1>2, <1>3, <2>1, <2>2, <4>1, ConfigureAgrees DEF Written
      <4>2. CASE i # at[e]
        <5>1. i \in 1 .. at[e] - 1
          BY <2>4, <4>2
        <5>. QED
          BY <2>1, <2>2, <5>1, WrittenStays
      <4>. QED
        BY <4>1, <4>2
    <3>2. phase'[e] = "declare"
      BY <1>2, <2>1 DEF TypeOK
    <3>. QED
      BY <1>1, <2>1, <2>4, <3>1, <3>2 DEF Written
  <2>6. Linked(e)'
    <3>. DEFINE b == Current(e).base
                w == With(proto[e], program[at[e]].class, b)
    <3>1. /\ DOMAIN proto[e] = {program[i].class : i \in 1 .. at[e] - 1}
          /\ \A i \in 1 .. at[e] - 1 : proto[e][program[i].class] = program[i].base
      BY <1>2, <2>2 DEF Linked
    <3>2. proto'[e] = w /\ b = program[at[e]].base
      BY <1>2, <2>1 DEF TypeOK, Current
    <3>3. DOMAIN w = {program[i].class : i \in 1 .. at[e]}
      <4>1. 1 .. at[e] = (1 .. at[e] - 1) \cup {at[e]}
        BY <2>2
      <4>. QED
        BY <3>1, <4>1 DEF With
    <3>4. \A i \in 1 .. at[e] : w[program[i].class] = program[i].base
      <4>1. \A i \in 1 .. at[e] - 1 : program[i].class # program[at[e]].class
        BY <1>3, <2>2
      <4>. QED
        BY <2>2, <3>1, <3>2, <4>1 DEF With
    <3>. HIDE DEF b, w
    <3>5. at'[e] - 1 = at[e]
      BY <2>4
    <3>. QED
      BY <1>1, <3>2, <3>3, <3>4, <3>5 DEF Linked
  <2>. QED
    BY <2>1, <2>3, <2>5, <2>6
<1>8. ASSUME NEW e \in Envs, BaseMissing(e)
      PROVE  ~aborted' /\ \A f \in Envs : Linked(f)' /\ Written(f)'
  <2>1. /\ ~aborted' /\ declared' = declared /\ phase[e] = "define" /\ Configure(e)
        /\ at' = at /\ proto' = proto
        /\ phase' = [phase EXCEPT ![e] = "failed"]
    BY <1>2, <1>8 DEF BaseMissing
  <2>2. phase'[e] = "failed" /\ \A f \in Envs \ {e} : phase'[f] = phase[f]
    BY <1>2, <2>1 DEF TypeOK
  <2>3. ASSUME NEW f \in Envs, f # e PROVE Linked(f)' /\ Written(f)'
    BY <1>1, <1>2, <2>1, <2>2, <2>3, WrittenStays DEF Linked, Written, Working
  <2>4. Linked(e)' /\ Written(e)'
    BY <2>2 DEF Linked, Written, Working
  <2>. QED
    BY <2>1, <2>3, <2>4
<1>9. ASSUME NEW e \in Envs, Abort(e) PROVE FALSE
  <2>1. at[e] \in DOMAIN program /\ nextIdx[e] = at[e]
    BY <1>2, <1>3, <1>9 DEF Abort, Ordered
  <2>. QED
    BY <1>2, <1>9, <2>1 DEF Abort, SameIndex, Current, CurrentIdx
<1>10. ASSUME NEW e \in Envs, Finish(e) \/ Exit(e)
      PROVE  ~aborted' /\ classIdx' = classIdx /\ \A f \in Envs : Linked(f)' /\ Written(f)'
  <2>1. /\ ~aborted' /\ classIdx' = classIdx /\ cons' = cons /\ declared' = declared
        /\ at' = at /\ proto' = proto
    BY <1>2, <1>10 DEF Finish, Exit, statics
  <2>2. \A f \in Envs : /\ Working(f)' => Working(f)
                        /\ phase'[f] = "define" => phase[f] = "define"
    BY <1>2, <1>10 DEF Finish, Exit, Working, TypeOK
  <2>. QED
    BY <1>1, <1>2, <2>1, <2>2 DEF Linked, Written
<1>11. CASE UNCHANGED vars
  BY <1>2, <1>11 DEF vars, Linked, Written, Working
<1>12. ASSUME NEW e \in Envs, Define(e) \/ BaseMissing(e)
       PROVE  \A i \in DOMAIN program : classIdx'[program[i].class] \in {0, i - 1}
  BY <1>6, <1>12 DEF Define, BaseMissing
<1>. QED
  BY <1>2, <1>4, <1>5, <1>7, <1>8, <1>9, <1>10, <1>11, <1>12 DEF Next

(***************************************************************************)
(* Theorems.                                                               *)
(***************************************************************************)
THEOREM Invariance == Spec => []IInv
<1>1. Init => IInv
  BY TypeInit, OrderInit, AgreedInit DEF IInv
<1>2. IInv /\ [Next]_vars => IInv'
  BY TypeStep, OrderStep, AgreedStep DEF IInv
<1>. QED
  BY <1>1, <1>2, PTL DEF Spec

\* Every reachable state of the static data and of the environments is well
\* typed, whatever the module defines.
THEOREM TypeCorrect == Spec => []TypeOK
<1>1. IInv => TypeOK
  BY DEF IInv
<1>. QED
  BY <1>1, Invariance, PTL

\* The assertion of Configure (noobject.h:219) holds for any number of
\* environments, retries and exits, unless a class is defined twice.
THEOREM AssertionHolds == Spec => []NoAbort
<1>1. IInv => NoAbort
  BY DEF IInv, Agreed, NoAbort
<1>. QED
  BY <1>1, Invariance, PTL

(***************************************************************************)
(* What an environment publishes.  The TypeScript text of a class depends  *)
(* on the names that have been initialized when it is written (declared,   *)
(* which environments share); but by then every name that it mentions has  *)
(* been (Named), so that it is always the text that the program determines *)
(* (Text), and it describes the wrappers of the same class (Offer).        *)
(***************************************************************************)
\* the text of the parameters when every class has a name
Texts(params) ==
  {<<i, params[i]>> : i \in {j \in DOMAIN params : params[j] # EnvArg}}

SignatureTexts(fs) ==
  UNION {{[name |-> f.name, static |-> f.kind = "static", promise |-> m = "async",
           args |-> Texts(f.params)] : m \in f.modes} : f \in fs}

ConstructorTexts(d) == [i \in DOMAIN d.cons |-> Texts(d.cons[i])]

Text(d) ==
  [abstract  |-> d.abstract \/ d.cons = << >>,
   extends   |-> d.base,
   cons      |-> ConstructorTexts(d),
   functions |-> SignatureTexts(Own(d)),
   variables |-> PropertySignatures(d.variables),
   globals   |-> [functions |-> SignatureTexts(Global(d)),
                  variables |-> PropertySignatures(d.globals)]]

\* the classes before the n-th
Before(n) == {program[i].class : i \in 1 .. n - 1}

Named(e) ==
  /\ phase[e] = "define" => program[at[e]].forward \subseteq declared
  /\ Working(e) => \A i \in 1 .. at[e] - 1 : program[i].forward \subseteq declared

Described(e) ==
  Working(e) =>
    /\ types[e] = [c \in Before(at[e]) |-> Text(Classed(c))]
    /\ \A i \in 1 .. at[e] - 1 :
         /\ program[i].class \in DOMAIN exports[e]
         /\ exports[e][program[i].class] = Offer(program[i])

Published == WellFormed(program) => \A e \in Envs : Named(e) /\ Described(e)

LEMMA ProgramSignatures ==
  ASSUME NEW p \in Programs, NEW i \in DOMAIN p
  PROVE  /\ \A f \in p[i].functions : f.params \in Seq(Params)
         /\ p[i].cons \in Seq(Seq(Classes \cup {Plain}))
         /\ \A s \in DOMAIN p[i].cons : p[i].cons[s] \in Seq(Classes \cup {Plain})
<1>1. p[i] \in Definitions
  BY ProgramsAssumption, ElementOfSeq
<1>2. p[i].functions \subseteq Functions /\ p[i].cons \in Constructors
  BY <1>1 DEF Definitions
<1>3. \A f \in Functions : f.params \in Seq(Params)
  BY DEF Functions
<1>4. \A s \in DOMAIN p[i].cons : p[i].cons[s] \in Seq(Classes \cup {Plain})
  BY <1>2, ElementOfSeq DEF Constructors
<1>. QED
  BY <1>2, <1>3, <1>4 DEF Constructors

\* where every class has a name, the text is the one that the program
\* determines
LEMMA NamesSettle ==
  ASSUME declared \subseteq Classes, NEW params \in Seq(Params),
         \A c \in Classes : Occurs(c, params) => c \in declared
  PROVE  FromTSTypes(params) = Texts(params)
<1>1. \A j \in DOMAIN params : params[j] \in Classes \cup {Plain, EnvArg}
  BY DEF Params
<1>2. \A j \in DOMAIN params : params[j] \in Classes => params[j] \in declared
  BY DEF Occurs
<1>3. {j \in DOMAIN params : params[j] \in Classes \ declared} = {}
  BY <1>2
<1>4. {j \in DOMAIN params : params[j] \in declared \cup {Plain}}
        = {j \in DOMAIN params : params[j] # EnvArg}
  BY <1>1, <1>2, NamesAssumption
<1>. QED
  BY <1>3, <1>4 DEF FromTSTypes, Texts


LEMMA TextSettles ==
  ASSUME TypeOK, WellFormed(program), NEW i \in DOMAIN program,
         \A j \in 1 .. i : program[j].forward \cup {program[j].class} \subseteq declared
  PROVE  Typing(program[i]) = Text(program[i])
<1>. DEFINE d == program[i]
<1>1. \A c \in Classes :
        \/ \E f \in d.functions : Occurs(c, f.params)
        \/ \E s \in DOMAIN d.cons : Occurs(c, d.cons[s])
        => c \in declared
  BY DEF WellFormed
<1>2. declared \subseteq Classes /\ program \in Programs
  BY DEF TypeOK
<1>3. \A f \in d.functions : FromTSTypes(f.params) = Texts(f.params)
  BY <1>1, <1>2, ProgramSignatures, NamesSettle
<1>4. \A s \in DOMAIN d.cons : FromTSTypes(d.cons[s]) = Texts(d.cons[s])
  <2>1. ASSUME NEW s \in DOMAIN d.cons PROVE d.cons[s] \in Seq(Params)
    <3>1. d.cons[s] \in Seq(Classes \cup {Plain})
      BY <1>2, ProgramSignatures
    <3>2. Classes \cup {Plain} \subseteq Params
      BY DEF Params
    <3>. QED
      BY <3>1, <3>2, SeqMonotonic
  <2>. QED
    BY <1>1, <1>2, <2>1, NamesSettle
<1>. HIDE DEF d
<1>5. ASSUME NEW fs \in SUBSET d.functions PROVE Signatures(fs) = SignatureTexts(fs)
  <2>1. \A f \in fs : FromTSTypes(f.params) = Texts(f.params)
    BY <1>3
  <2>. DEFINE Was(f) ==
                {[name |-> f.name, static |-> f.kind = "static",
                  promise |-> m = "async", args |-> FromTSTypes(f.params)] : m \in f.modes}
              Is(f) ==
                {[name |-> f.name, static |-> f.kind = "static",
                  promise |-> m = "async", args |-> Texts(f.params)] : m \in f.modes}
  <2>2. \A f \in fs : Was(f) = Is(f)
    BY <2>1
  <2>3. Signatures(fs) = UNION {Was(f) : f \in fs}
    BY DEF Signatures
  <2>4. SignatureTexts(fs) = UNION {Is(f) : f \in fs}
    BY DEF SignatureTexts
  <2>. HIDE DEF Was, Is
  <2>5. {Was(f) : f \in fs} = {Is(f) : f \in fs}
    BY <2>2
  <2>. QED
    BY <2>3, <2>4, <2>5
<1>6. ConstructorSignatures(d) = ConstructorTexts(d)
  BY <1>4 DEF ConstructorSignatures, ConstructorTexts
<1>7. Own(d) \subseteq d.functions /\ Global(d) \subseteq d.functions
  BY DEF Own, Global
<1>8. Typing(d) = Text(d)
  BY <1>5, <1>6, <1>7 DEF Typing, Text
<1>. QED
  BY <1>8 DEF d


\* an environment that a step leaves alone, or that goes on without defining
LEMMA PublicationFrame ==
  ASSUME program' = program, NEW f, Named(f), Described(f),
         Working(f)' => Working(f), phase'[f] = "define" => phase[f] = "define",
         declared \subseteq declared', at'[f] = at[f], types'[f] = types[f],
         exports'[f] = exports[f]
  PROVE  Named(f)' /\ Described(f)'
<1>1. Named(f)'
  BY DEF Named
<1>2. Described(f)'
  BY DEF Described, Before, Classed
<1>. QED
  BY <1>1, <1>2

\* ~ClassDefinition of e publishes what the program says of its class
LEMMA PublicationGrows ==
  ASSUME IInv, Published, WellFormed(program), NEW e \in Envs, Define(e)
  PROVE  Named(e)' /\ Described(e)'
<1>. DEFINE n == at[e]
            d == program[n]
            t == [c \in Before(n) |-> Text(Classed(c))]
<1>1. /\ TypeOK /\ Ordered(e) /\ Written(e) /\ Named(e) /\ Described(e)
      /\ phase[e] = "define" /\ Working(e)
  BY DEF IInv, Agreed, Published, Define, Working
<1>2. /\ n \in 1 .. Len(program) /\ Len(program) \in Nat /\ n \in Int
      /\ DOMAIN program = 1 .. Len(program) /\ program' = program
      /\ n \in DOMAIN program
  BY <1>1, ProgramTyped DEF TypeOK, Ordered, Define
<1>3. at'[e] = n + 1 /\ phase'[e] = "declare" /\ declared' = declared
  BY <1>1 DEF Define, TypeOK
<1>. HIDE DEF n
<1>4. \A j \in 1 .. n : program[j].forward \cup {program[j].class} \subseteq declared
  <2>1. \A j \in 1 .. n - 1 : program[j].forward \cup {program[j].class} \subseteq declared
    BY <1>1 DEF Named, Written, n
  <2>2. program[n].forward \cup {program[n].class} \subseteq declared
    BY <1>1 DEF Named, Written, n
  <2>3. \A j \in 1 .. n : j = n \/ j \in 1 .. n - 1
    BY <1>2
  <2>. QED
    BY <2>1, <2>2, <2>3
<1>5. Named(e)'
  BY <1>2, <1>3, <1>4 DEF Named
<1>6. Typing(d) = Text(d)
  BY <1>1, <1>2, <1>4, TextSettles
<1>7. /\ types'[e] = With(t, d.class, Text(d))
      /\ exports'[e] = With(exports[e], d.class, Offer(d))
  BY <1>1, <1>6 DEF Define, TypeOK, Current, Described, n
<1>8. \A i \in DOMAIN program : Classed(program[i].class) = program[i]
  BY DEF Classed, WellFormed
<1>9. Before(n + 1) = Before(n) \cup {d.class}
  <2>1. \A i : i \in 1 .. (n + 1) - 1 <=> i \in 1 .. n - 1 \/ i = n
    BY <1>2
  <2>. QED
    BY <2>1 DEF Before
<1>10. With(t, d.class, Text(d)) = [c \in Before(n + 1) |-> Text(Classed(c))]
  <2>1. Classed(d.class) = d
    BY <1>2, <1>8
  <2>. HIDE DEF d
  <2>. QED
    BY <1>9, <2>1 DEF With
<1>11. \A i \in 1 .. n :
         /\ program[i].class \in DOMAIN exports'[e]
         /\ exports'[e][program[i].class] = Offer(program[i])
  <2>1. \A i \in 1 .. n - 1 :
          /\ program[i].class \in DOMAIN exports[e]
          /\ exports[e][program[i].class] = Offer(program[i])
          /\ program[i].class # d.class
    BY <1>1, <1>2 DEF Described, WellFormed, n
  <2>2. \A i \in 1 .. n : i = n \/ i \in 1 .. n - 1
    BY <1>2
  <2>3. /\ d.class \in DOMAIN exports'[e] /\ exports'[e][d.class] = Offer(d)
        /\ \A k \in DOMAIN exports[e] :
             /\ k \in DOMAIN exports'[e]
             /\ k # d.class => exports'[e][k] = exports[e][k]
    <3>. DEFINE x == Offer(d)
                a == d.class
    <3>1. exports'[e] = With(exports[e], a, x)
      BY <1>7
    <3>. HIDE DEF x, a
    <3>2. /\ a \in DOMAIN exports'[e] /\ exports'[e][a] = x
          /\ \A k \in DOMAIN exports[e] :
               /\ k \in DOMAIN exports'[e]
               /\ k # a => exports'[e][k] = exports[e][k]
      BY <3>1 DEF With
    <3>. QED
      BY <3>2 DEF x, a
  <2>. QED
    BY <2>1, <2>2, <2>3
<1>12. Described(e)'
  <2>1. types'[e] = [c \in Before(at'[e]) |-> Text(Classed(c))]
    BY <1>3, <1>7, <1>10
  <2>2. \A i \in 1 .. at'[e] - 1 :
          /\ program[i].class \in DOMAIN exports'[e]
          /\ exports'[e][program[i].class] = Offer(program[i])
    BY <1>2, <1>3, <1>11
  <2>3. Before(at[e])' = Before(at'[e]) /\ \A c : Classed(c)' = Classed(c)
    BY <1>2 DEF Before, Classed
  <2>4. types'[e] = [c \in Before(at[e])' |-> Text(Classed(c)')]
    BY <2>1, <2>3
  <2>. QED
    BY <1>2, <2>2, <2>4 DEF Described
<1>. QED
  BY <1>5, <1>12

LEMMA PublishedStep ==
  ASSUME IInv, Published, [Next]_vars
  PROVE  Published'
<1>1. program' = program /\ TypeOK
  BY DEF Next, vars, Load, Declare, Define, BaseMissing, Abort, Finish, Exit, IInv
<1>. SUFFICES ASSUME WellFormed(program), NEW f \in Envs
     PROVE  Named(f)' /\ Described(f)'
  BY <1>1 DEF Published, WellFormed
<1>2. Named(f) /\ Described(f)
  BY DEF Published
<1>3. ASSUME NEW e \in Envs, Load(e) PROVE Named(f)' /\ Described(f)'
  <2>1. CASE f = e
    <3>1. /\ at'[e] = 1 /\ phase'[e] = "declare" /\ types'[e] = Nothing
          /\ \A i \in 1 .. at'[e] - 1 : FALSE
      BY <1>1, <1>3 DEF Load, TypeOK
    <3>2. Nothing = [c \in Before(1)' |-> Text(Classed(c))']
      BY DEF Nothing, Before
    <3>3. Named(e)'
      BY <3>1 DEF Named
    <3>4. Described(e)'
      BY <3>1, <3>2 DEF Described
    <3>. QED
      BY <2>1, <3>3, <3>4
  <2>2. CASE f # e
    <3>1. /\ phase'[f] = phase[f] /\ at'[f] = at[f] /\ types'[f] = types[f]
          /\ exports'[f] = exports[f] /\ declared' = declared
      BY <1>1, <1>3, <2>2 DEF Load, TypeOK, statics
    <3>. QED
      BY <1>1, <1>2, <3>1, PublicationFrame DEF Working
  <2>. QED
    BY <2>1, <2>2
<1>4. ASSUME NEW e \in Envs, Declare(e) PROVE Named(f)' /\ Described(f)'
  <2>1. /\ at' = at /\ types' = types /\ exports' = exports /\ declared \subseteq declared'
        /\ program[at[e]].forward \subseteq declared' /\ phase[e] = "declare"
        /\ phase'[e] = "define"
        /\ f # e => phase'[f] = phase[f]
    BY <1>1, <1>4 DEF Declare, TypeOK
  <2>2. CASE f = e
    BY <1>1, <1>2, <2>1, <2>2 DEF Named, Described, Working, Before, Classed
  <2>3. CASE f # e
    BY <1>1, <1>2, <2>1, <2>3, PublicationFrame DEF Working
  <2>. QED
    BY <2>2, <2>3
<1>5. ASSUME NEW e \in Envs, Define(e) PROVE Named(f)' /\ Described(f)'
  <2>1. CASE f = e
    BY <1>5, <2>1, PublicationGrows
  <2>2. CASE f # e
    <3>1. /\ phase'[f] = phase[f] /\ at'[f] = at[f] /\ types'[f] = types[f]
          /\ exports'[f] = exports[f] /\ declared' = declared
      BY <1>1, <1>5, <2>2 DEF Define, TypeOK
    <3>. QED
      BY <1>1, <1>2, <3>1, PublicationFrame DEF Working
  <2>. QED
    BY <2>1, <2>2
<1>6. ASSUME NEW e \in Envs, BaseMissing(e) PROVE Named(f)' /\ Described(f)'
  <2>1. CASE f = e
    <3>1. phase'[e] = "failed"
      BY <1>1, <1>6 DEF BaseMissing, TypeOK
    <3>. QED
      BY <2>1, <3>1 DEF Named, Described, Working
  <2>2. CASE f # e
    <3>1. /\ phase'[f] = phase[f] /\ at'[f] = at[f] /\ types'[f] = types[f]
          /\ exports'[f] = exports[f] /\ declared' = declared
      BY <1>1, <1>6, <2>2 DEF BaseMissing, TypeOK
    <3>. QED
      BY <1>1, <1>2, <3>1, PublicationFrame DEF Working
  <2>. QED
    BY <2>1, <2>2
<1>7. ASSUME NEW e \in Envs, Abort(e) \/ Finish(e) \/ Exit(e)
      PROVE  Named(f)' /\ Described(f)'
  <2>1. /\ at' = at /\ types' = types /\ exports' = exports /\ declared' = declared
    BY <1>7 DEF Abort, Finish, Exit, statics, instance
  <2>2. /\ Working(f)' => Working(f)
        /\ phase'[f] = "define" => phase[f] = "define"
    BY <1>1, <1>7 DEF Abort, Finish, Exit, instance, Working, TypeOK
  <2>. QED
    BY <1>1, <1>2, <2>1, <2>2, PublicationFrame
<1>8. CASE UNCHANGED vars
  BY <1>1, <1>2, <1>8, PublicationFrame DEF vars, Working
<1>. QED
  BY <1>3, <1>4, <1>5, <1>6, <1>7, <1>8 DEF Next

LEMMA Publication == Spec => []Published
<1>1. Init => Published
  BY DEF Init, Published, Named, Described, Working
<1>2. IInv /\ Published /\ [Next]_vars => Published'
  BY PublishedStep
<1>. QED
  BY <1>1, <1>2, Invariance, PTL DEF Spec


\* the text has one entry for each argument that a wrapper takes
LEMMA TextsCount ==
  ASSUME NEW S, NEW params \in Seq(S)
  PROVE  /\ Cardinality(Texts(params)) = Inputs(params)
         /\ EnvArg \notin S => Inputs(params) = Len(params)
<1>. DEFINE D == {j \in DOMAIN params : params[j] # EnvArg}
            b == [i \in D |-> <<i, params[i]>>]
<1>1. Len(params) \in Nat /\ DOMAIN params = 1 .. Len(params)
  BY LenProperties
<1>2. /\ IsFiniteSet(1 .. Len(params))
      /\ Cardinality(1 .. Len(params)) = Len(params)
  BY <1>1, FS_Interval
<1>3. IsFiniteSet(D)
  BY <1>1, <1>2, FS_Subset
<1>4. b \in Bijection(D, Texts(params))
  <2>1. b \in [D -> Texts(params)]
    BY DEF Texts
  <2>2. \A i, j \in D : b[i] = b[j] => i = j
    OBVIOUS
  <2>3. \A t \in Texts(params) : \E i \in D : b[i] = t
    BY DEF Texts
  <2>. HIDE DEF b, D
  <2>. QED
    BY <2>1, <2>2, <2>3, Fun_IsBij
<1>5. ExistsBijection(D, Texts(params))
  BY <1>4 DEF ExistsBijection
<1>6. Cardinality(Texts(params)) = Inputs(params)
  BY <1>3, <1>5, FS_Bijection DEF Inputs
<1>7. ASSUME EnvArg \notin S PROVE Inputs(params) = Len(params)
  <2>1. D = 1 .. Len(params)
    BY <1>1, <1>7, ElementOfSeq
  <2>. QED
    BY <1>2, <2>1 DEF Inputs
<1>. QED
  BY <1>6, <1>7

\* a signature of the text as a wrapper
AsWrapper(s) ==
  [name |-> s.name, static |-> s.static, async |-> s.promise,
   takes |-> Cardinality(s.args)]

LEMMA TextDescribes ==
  ASSUME NEW fs, \A f \in fs : f.params \in Seq(Params)
  PROVE  {AsWrapper(s) : s \in SignatureTexts(fs)} = Wrappers(fs)
<1>. DEFINE Sig(f, m) ==
              [name |-> f.name, static |-> f.kind = "static",
               promise |-> m = "async", args |-> Texts(f.params)]
            Wra(f, m) ==
              [name |-> f.name, static |-> f.kind = "static", async |-> m = "async",
               takes |-> Inputs(f.params)]
<1>1. \A f \in fs : Cardinality(Texts(f.params)) = Inputs(f.params)
  BY TextsCount
<1>. HIDE DEF Texts
<1>2. \A f \in fs : \A m : AsWrapper(Sig(f, m)) = Wra(f, m)
  BY <1>1 DEF AsWrapper
<1>3. SignatureTexts(fs) = UNION {{Sig(f, m) : m \in f.modes} : f \in fs}
  BY DEF SignatureTexts
<1>4. Wrappers(fs) = UNION {{Wra(f, m) : m \in f.modes} : f \in fs}
  BY DEF Wrappers
<1>. HIDE DEF Sig, Wra
<1>5. \A s : s \in SignatureTexts(fs) <=> \E f \in fs : \E m \in f.modes : s = Sig(f, m)
  BY <1>3
<1>6. \A w : w \in Wrappers(fs) <=> \E f \in fs : \E m \in f.modes : w = Wra(f, m)
  BY <1>4
<1>. QED
  BY <1>2, <1>5, <1>6

LEMMA PropertiesDescribe ==
  ASSUME NEW vs
  PROVE  {[name |-> s.name, setter |-> ~s.readonly] : s \in PropertySignatures(vs)}
           = Accessors(vs)
<1>. DEFINE Sig(v) == [name |-> v.name, readonly |-> v.readOnly]
            Acc(v) == [name |-> v.name, setter |-> ~v.readOnly]
            AsAccessor(s) == [name |-> s.name, setter |-> ~s.readonly]
<1>1. \A v \in vs : AsAccessor(Sig(v)) = Acc(v)
  OBVIOUS
<1>2. PropertySignatures(vs) = {Sig(v) : v \in vs}
  BY DEF PropertySignatures
<1>3. Accessors(vs) = {Acc(v) : v \in vs}
  BY DEF Accessors
<1>. HIDE DEF Sig, Acc
<1>4. {AsAccessor(s) : s \in PropertySignatures(vs)} = Accessors(vs)
  <2>. HIDE DEF AsAccessor
  <2>. QED
    BY <1>1, <1>2, <1>3
<1>. QED
  BY <1>4


\* What is known of a class in an environment that is ready.
LEMMA ReadyFacts ==
  ASSUME IInv, NEW e \in Envs, Ready(e), NEW c \in Defined
  PROVE  \E i \in DOMAIN program :
           /\ c = program[i].class /\ Classed(c) = program[i]
           /\ c \in declared /\ classIdx[c] = i - 1 /\ cons[c] = program[i].cons
           /\ Len(table[e]) = Len(program) /\ maps[e] = Len(program)
           /\ table[e][i] = c /\ proto[e][c] = program[i].base
           /\ DOMAIN proto[e] = Defined
           /\ i \in 1 .. Len(program) /\ Len(program) \in Nat
<1>1. /\ TypeOK /\ Ordered(e) /\ Linked(e) /\ Written(e) /\ Working(e)
      /\ phase[e] = "ready"
  BY DEF IInv, Agreed, Ready, Working
<1>2. /\ Len(program) \in Nat /\ DOMAIN program = 1 .. Len(program)
      /\ at[e] - 1 = Len(program) /\ Len(table[e]) = Len(program)
      /\ maps[e] = Len(program)
  BY <1>1, ProgramTyped DEF TypeOK, Ordered
<1>3. PICK i \in DOMAIN program : c = program[i].class
  BY DEF Defined
<1>4. Classed(c) = program[i]
  BY <1>3 DEF Classed, Ready, WellFormed
<1>5. DOMAIN proto[e] = Defined /\ proto[e][c] = program[i].base
  BY <1>1, <1>2, <1>3 DEF Linked, Defined
<1>6. /\ c \in declared /\ classIdx[c] = i - 1 /\ cons[c] = program[i].cons
      /\ table[e][i] = c
  BY <1>1, <1>2, <1>3 DEF Written, Ordered
<1>. QED
  BY <1>2, <1>3, <1>4, <1>5, <1>6

\* The static index finds the constructor and the map of the class in every
\* environment that has loaded the module.
THEOREM Indexing == Spec => []IndexesAgree
<1>1. ASSUME IInv PROVE IndexesAgree
  <2>. SUFFICES ASSUME NEW e \in Envs, Ready(e), NEW c \in Defined
       PROVE  /\ classIdx[c] < Len(table[e])
              /\ table[e][classIdx[c] + 1] = c
              /\ classIdx[c] < maps[e]
    BY DEF IndexesAgree
  <2>. QED
    BY <1>1, ReadyFacts
<1>. QED
  BY <1>1, Invariance, PTL

\* An argument check accepts exactly the classes that derive from the one that
\* the C++ function expects.
THEOREM Checks == Spec => []ChecksAreSound
<1>1. ASSUME IInv PROVE ChecksAreSound
  <2>. DEFINE base == [x \in Defined |-> Classed(x).base]
  <2>. SUFFICES ASSUME NEW e \in Envs, Ready(e), NEW c \in Defined, NEW d \in Defined
       PROVE  CheckInstance(e, c, d) <=> c \in Ancestors(base, d)
    BY DEF ChecksAreSound
  <2>1. \A x \in Defined : proto[e][x] = base[x]
    BY <1>1, ReadyFacts
  <2>2. DOMAIN proto[e] = DOMAIN base
    BY <1>1, ReadyFacts
  <2>. HIDE DEF base
  <2>3. DOMAIN base = Defined
    BY DEF base
  <2>4. Ancestors(proto[e], d) = Ancestors(base, d)
    BY <2>1, <2>2, <2>3 DEF Ancestors
  <2>5. /\ c \in declared /\ classIdx[c] < Len(table[e])
        /\ table[e][classIdx[c] + 1] = c
    BY <1>1, ReadyFacts
  <2>. QED
    BY <2>4, <2>5 DEF CheckInstance
<1>. QED
  BY <1>1, Invariance, PTL

\* What an environment that is ready has published of a class.
LEMMA ReadyPublished ==
  ASSUME IInv, Published, NEW e \in Envs, Ready(e)
  PROVE  /\ types[e] = [c \in Defined |-> Text(Classed(c))]
         /\ \A c \in Defined : types[e][c] = Text(Classed(c))
         /\ \A c \in Defined : exports[e][c] = Offer(Classed(c))
<1>1. /\ Described(e) /\ Working(e) /\ TypeOK /\ Ordered(e) /\ phase[e] = "ready"
      /\ WellFormed(program)
  BY DEF IInv, Published, Ready, Working
<1>2. /\ Len(program) \in Nat /\ DOMAIN program = 1 .. Len(program)
      /\ at[e] - 1 = Len(program)
  BY <1>1, ProgramTyped DEF TypeOK, Ordered
<1>3. Before(at[e]) = Defined
  BY <1>2 DEF Before, Defined
<1>4. types[e] = [c \in Defined |-> Text(Classed(c))]
  BY <1>1, <1>3 DEF Described
<1>5. ASSUME NEW c \in Defined PROVE exports[e][c] = Offer(Classed(c))
  <2>1. PICK i \in DOMAIN program : c = program[i].class
    BY DEF Defined
  <2>2. Classed(c) = program[i]
    BY <1>1, <2>1 DEF Classed, WellFormed
  <2>. QED
    BY <1>1, <1>2, <2>1, <2>2 DEF Described
<1>. QED
  BY <1>4, <1>5

\* Every environment publishes the same TypeScript text, whatever names the
\* static data had when it was written.
THEOREM SameTypes == Spec => []SameTypesEverywhere
<1>1. IInv /\ Published => SameTypesEverywhere
  BY ReadyPublished DEF SameTypesEverywhere
<1>. QED
  BY <1>1, Invariance, Publication, PTL

\* The TypeScript text describes the functions, the accessors and the
\* constructors that JavaScript finds: among them the number of their arguments,
\* which the wrappers and the text count in two different ways.
THEOREM TypesMatch == Spec => []TypesMatchRuntime
<1>1. ASSUME IInv, Published PROVE TypesMatchRuntime
  <2>. DEFINE Describes(t, x) ==
                /\ {[name |-> s.name, static |-> s.static, async |-> s.promise,
                     takes |-> Cardinality(s.args)] : s \in t.functions} = x.functions
                /\ {[name |-> s.name, setter |-> ~s.readonly] : s \in t.variables}
                     = x.variables
  <2>. SUFFICES ASSUME NEW e \in Envs, Ready(e), NEW c \in Defined
       PROVE  /\ Describes(types[e][c], exports[e][c])
              /\ Describes(types[e][c].globals, exports[e][c].globals)
              /\ Len(types[e][c].cons) = Len(cons[c])
              /\ \A i \in DOMAIN cons[c] :
                   Cardinality(types[e][c].cons[i]) = Len(cons[c][i])
              /\ types[e][c].abstract <=> (Classed(c).abstract \/ cons[c] = << >>)
    BY DEF TypesMatchRuntime
  <2>1. PICK n \in DOMAIN program :
          c = program[n].class /\ Classed(c) = program[n] /\ cons[c] = program[n].cons
    BY <1>1, ReadyFacts
  <2>. DEFINE d == program[n]
  <2>2. types[e][c] = Text(d) /\ exports[e][c] = Offer(d)
    BY <1>1, <2>1, ReadyPublished
  <2>3. /\ \A f \in d.functions : f.params \in Seq(Params)
        /\ d.cons \in Seq(Seq(Classes \cup {Plain}))
        /\ \A s \in DOMAIN d.cons : d.cons[s] \in Seq(Classes \cup {Plain})
    <3>1. program \in Programs
      BY <1>1 DEF IInv, TypeOK
    <3>. QED
      BY <3>1, ProgramSignatures
  <2>. HIDE DEF d
  <2>4. /\ \A f \in Own(d) : f.params \in Seq(Params)
        /\ \A f \in Global(d) : f.params \in Seq(Params)
    BY <2>3 DEF Own, Global
  <2>5. Describes(Text(d), Offer(d))
    <3>1. {AsWrapper(s) : s \in SignatureTexts(Own(d))} = Wrappers(Own(d))
      BY <2>4, TextDescribes
    <3>2. /\ Text(d).functions = SignatureTexts(Own(d))
          /\ Text(d).variables = PropertySignatures(d.variables)
          /\ Offer(d).functions = Wrappers(Own(d))
          /\ Offer(d).variables = Accessors(d.variables)
      BY DEF Text, Offer
    <3>. QED
      BY <3>1, <3>2, PropertiesDescribe DEF AsWrapper
  <2>6. Describes(Text(d).globals, Offer(d).globals)
    <3>1. {AsWrapper(s) : s \in SignatureTexts(Global(d))} = Wrappers(Global(d))
      BY <2>4, TextDescribes
    <3>2. /\ Text(d).globals.functions = SignatureTexts(Global(d))
          /\ Text(d).globals.variables = PropertySignatures(d.globals)
          /\ Offer(d).globals.functions = Wrappers(Global(d))
          /\ Offer(d).globals.variables = Accessors(d.globals)
      BY DEF Text, Offer
    <3>. QED
      BY <3>1, <3>2, PropertiesDescribe DEF AsWrapper
  <2>7. /\ Text(d).cons = ConstructorTexts(d)
        /\ Text(d).abstract <=> (d.abstract \/ d.cons = << >>)
    BY DEF Text
  <2>8. Len(ConstructorTexts(d)) = Len(d.cons)
    <3>1. Len(d.cons) \in Nat /\ DOMAIN d.cons = 1 .. Len(d.cons)
      BY <2>3, LenProperties
    <3>2. ConstructorTexts(d) \in
            [1 .. Len(d.cons) -> {Texts(d.cons[i]) : i \in 1 .. Len(d.cons)}]
      BY <3>1 DEF ConstructorTexts
    <3>. QED
      BY <3>1, <3>2
  <2>9. ASSUME NEW i \in DOMAIN d.cons
        PROVE  Cardinality(ConstructorTexts(d)[i]) = Len(d.cons[i])
    <3>1. ConstructorTexts(d)[i] = Texts(d.cons[i])
      BY DEF ConstructorTexts
    <3>2. EnvArg \notin Classes \cup {Plain}
      BY NamesAssumption
    <3>. QED
      BY <2>3, <3>1, <3>2, TextsCount
  <2>10. cons[c] = d.cons /\ Classed(c) = d
    BY <2>1 DEF d
  <2>. HIDE DEF Describes
  <2>. QED
    BY <2>2, <2>5, <2>6, <2>7, <2>8, <2>9, <2>10
<1>. QED
  BY <1>1, Invariance, Publication, PTL


\* While an environment uses the static data of a class, no initialization of
\* another environment changes it.
THEOREM Stability == Spec => StableStatics
<1>. DEFINE Kept == \A e \in Envs : Ready(e) =>
                      \A c \in Defined : classIdx'[c] = classIdx[c] /\ cons'[c] = cons[c]
<1>1. ASSUME IInv, IInv', [Next]_vars PROVE Kept
  <2>. SUFFICES ASSUME NEW e \in Envs, Ready(e), NEW c \in Defined
       PROVE  classIdx'[c] = classIdx[c] /\ cons'[c] = cons[c]
    OBVIOUS
  <2>1. PICK i \in DOMAIN program :
          /\ c = program[i].class /\ classIdx[c] = i - 1 /\ cons[c] = program[i].cons
    BY <1>1, ReadyFacts
  <2>2. ASSUME NEW f \in Envs, Define(f) \/ BaseMissing(f)
        PROVE  classIdx'[c] = classIdx[c] /\ cons'[c] = cons[c]
    BY <1>1, <2>1, <2>2, ConfigureAgrees DEF Define, BaseMissing, Ready
  <2>3. ASSUME NEW f \in Envs,
               Load(f) \/ Declare(f) \/ Abort(f) \/ Finish(f) \/ Exit(f)
        PROVE  classIdx' = classIdx /\ cons' = cons
    BY <2>3 DEF Load, Declare, Abort, Finish, Exit, statics
  <2>. QED
    BY <1>1, <2>2, <2>3 DEF Next, vars
<1>2. IInv /\ IInv' /\ [Next]_vars => [Kept]_vars
  BY <1>1
<1>. HIDE DEF Kept
<1>3. Spec => [][Kept]_vars
  BY <1>2, Invariance, PTL DEF Spec
<1>. QED
  BY <1>3 DEF StableStatics, Kept
=============================================================================
