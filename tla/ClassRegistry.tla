---------------------------- MODULE ClassRegistry ----------------------------
(***************************************************************************)
(* The definition of classes: ClassDefinition of src/include/noobject.h    *)
(* and Module of src/include/nobind.h.                                     *)
(*                                                                         *)
(* Every JavaScript environment - the main thread's and one per worker     *)
(* thread - runs the same module initialization.  What belongs to a C++    *)
(* class (its index, its name, its table of constructors) is static and so *)
(* shared by the threads of the process; the constructors that JavaScript  *)
(* sees, the prototypes and the TypeScript text belong to an environment.  *)
(* The index is what links them: the function to construct with, or to     *)
(* check an argument against, is found in the environment's table at the   *)
(* index that the static data gives.                                       *)
(***************************************************************************)
EXTENDS Integers, Sequences, FiniteSets

CONSTANTS
  Envs,      \* the environments that may exist at once
  Classes,   \* the C++ classes
  Programs,  \* the module initializations to consider
  Members,   \* the names of functions, methods, members and variables
  Plain,     \* a parameter that is converted from one JavaScript value
  EnvArg,    \* a parameter of type Napi::Env, which takes no input
  None

Params == Classes \cup {Plain, EnvArg}

Kinds == {"method", "static", "extension", "global"}
\* how a callable is defined: def<&f>("f"), def<&f, ReturnAsync>("f"), or the
\* shortcut def<&f>("f", "fAsync") for both
Modes == (SUBSET {"sync", "async"}) \ {{}}

Functions == {f \in [name : Members, kind : Kinds, params : Seq(Params), modes : Modes] :
                f.kind = "extension" => f.modes = {"sync"}}
Variables == [name : Members, readOnly : BOOLEAN]

\* the constructors of a class, in the order of their definition
Constructors == Seq(Seq(Classes \cup {Plain}))

\* One class of a program: forward are the decl<...>(...) that precede it; the
\* functions of kind "global" and the globals are defined after it.
Definitions == [class : Classes, base : Classes \cup {None},
                forward : SUBSET Classes, abstract : BOOLEAN,
                cons : Constructors,
                functions : SUBSET Functions, variables : SUBSET Variables,
                globals : SUBSET Variables]

Occurs(c, params) == \E k \in DOMAIN params : params[k] = c

\* A class is defined once, every class that a signature mentions has been
\* declared or defined by then, and a declared class is also defined.
WellFormed(p) ==
  /\ \A i, j \in DOMAIN p : p[i].class = p[j].class => i = j
  /\ \A i \in DOMAIN p :
       /\ \A c \in Classes :
            \/ \E f \in p[i].functions : Occurs(c, f.params)
            \/ \E s \in DOMAIN p[i].cons : Occurs(c, p[i].cons[s])
            => \E j \in 1 .. i : c \in p[j].forward \cup {p[j].class}
       /\ \A c \in p[i].forward : \E j \in DOMAIN p : p[j].class = c

ASSUME NamesAssumption ==
  /\ Plain \notin Classes /\ EnvArg \notin Classes /\ None \notin Classes
  /\ Plain # EnvArg
ASSUME ProgramsAssumption ==
  \A p \in Programs :
    /\ p \in Seq(Definitions)
    /\ \A i \in DOMAIN p : p[i].base # p[i].class

VARIABLES
  program,   \* the module initialization: the same code in every environment
  declared,  \* static: the classes whose name has been initialized
  classIdx,  \* static: NoObjectWrap<c>::class_idx
  cons,      \* static: NoObjectWrap<c>::cons, the signatures in order
  aborted,   \* an assert has failed: the process is gone
  phase,     \* of an environment: "absent", "declare" and "define" (what is
             \* left to do for the current class), "failed", "ready"
  at,        \* the class of the program it has come to
  nextIdx,   \* Module::class_idx_
  table,     \* EnvInstanceData::_Nobind_cons: the classes in their order
  proto,     \* the prototypes: the class it inherits from
  exports,   \* the classes in the module's exports, and what they offer
  types,     \* the TypeScript text: the classes it describes, and how
  maps       \* the number of classes the object store was made for

statics  == <<declared, classIdx, cons>>
instance == <<phase, at, nextIdx, table, proto, exports, types, maps>>
vars == <<program, declared, classIdx, cons, aborted, phase, at, nextIdx,
          table, proto, exports, types, maps>>

(***************************************************************************)
(* Two readings of a C++ signature: by the wrappers and by the TypeScript  *)
(* generator.                                                              *)
(***************************************************************************)
\* Mutant of Inputs: every parameter takes an argument.
AllInputs(params) == Len(params)

\* the arguments that FromJSArgs consumes and CheckArgLength then insists on
Inputs(params) == Cardinality({i \in DOMAIN params : params[i] # EnvArg})

\* FromTSTypes: parameters whose type has no text are skipped; the text of a
\* class is its name, if it has been initialized
FromTSTypes(params) ==
  {<<i, params[i]>> : i \in {j \in DOMAIN params :
                               params[j] \in declared \cup {Plain}}}
  \cup {<<i, None>> : i \in {j \in DOMAIN params : params[j] \in Classes \ declared}}

\* which wrapper every callable is bound to; both modes of the shortcut
Wrappers(fs) ==
  UNION {{[name |-> f.name, static |-> f.kind = "static", async |-> m = "async",
           takes |-> Inputs(f.params)] : m \in f.modes} : f \in fs}

\* the accessors: a read-only variable has no setter
Accessors(vs) == {[name |-> v.name, setter |-> ~v.readOnly] : v \in vs}

\* MethodSignature, ExtensionSignature, FunctionSignature: a promise if async
Signatures(fs) ==
  UNION {{[name |-> f.name, static |-> f.kind = "static", promise |-> m = "async",
           args |-> FromTSTypes(f.params)] : m \in f.modes} : f \in fs}

\* PropertySignature, GlobalSignature: readonly or not, const or var
PropertySignatures(vs) == {[name |-> v.name, readonly |-> v.readOnly] : v \in vs}

\* ConstructorSignature
ConstructorSignatures(d) == [i \in DOMAIN d.cons |-> FromTSTypes(d.cons[i])]

Own(d) == {f \in d.functions : f.kind # "global"}
Global(d) == d.functions \ Own(d)

\* the JavaScript class that GetClass defines, and what is defined after it
Offer(d) == [functions |-> Wrappers(Own(d)), variables |-> Accessors(d.variables),
             globals |-> [functions |-> Wrappers(Global(d)),
                          variables |-> Accessors(d.globals)]]

\* the TypeScript class that ~ClassDefinition writes, and what is added after it
Typing(d) ==
  [abstract  |-> d.abstract \/ d.cons = << >>,
   extends   |-> d.base,
   cons      |-> ConstructorSignatures(d),
   functions |-> Signatures(Own(d)),
   variables |-> PropertySignatures(d.variables),
   globals   |-> [functions |-> Signatures(Global(d)),
                  variables |-> PropertySignatures(d.globals)]]

(***************************************************************************)
(* Initialization of an environment.                                       *)
(***************************************************************************)
Nothing == [c \in {} |-> None]

\* f, which is also defined on c now
With(f, c, x) == [k \in DOMAIN f \cup {c} |-> IF k = c THEN x ELSE f[k]]

Init ==
  /\ program \in Programs
  /\ declared = {}
  /\ classIdx = [c \in Classes |-> 0]
  /\ cons = [c \in Classes |-> << >>]
  /\ aborted = FALSE
  /\ phase = [e \in Envs |-> "absent"]
  /\ at = [e \in Envs |-> 1]
  /\ nextIdx = [e \in Envs |-> 0]
  /\ table = [e \in Envs |-> << >>]
  /\ proto = [e \in Envs |-> Nothing]
  /\ exports = [e \in Envs |-> Nothing]
  /\ types = [e \in Envs |-> Nothing]
  /\ maps = [e \in Envs |-> 0]

\* Mutant of Load: the TypeScript text is appended to that of before.
LoadAppending(e) ==
  /\ ~aborted
  /\ phase[e] \in {"absent", "failed"}
  /\ phase' = [phase EXCEPT ![e] = "declare"]
  /\ at' = [at EXCEPT ![e] = 1]
  /\ nextIdx' = [nextIdx EXCEPT ![e] = 0]
  /\ table' = [table EXCEPT ![e] = << >>]
  /\ proto' = [proto EXCEPT ![e] = Nothing]
  /\ exports' = [exports EXCEPT ![e] = Nothing]
  /\ maps' = [maps EXCEPT ![e] = 0]
  /\ UNCHANGED <<program, statics, aborted, types>>

\* require(): new instance data, a new Module, new exports.  An environment
\* in which loading has failed may try again.
Load(e) ==
  /\ ~aborted
  /\ phase[e] \in {"absent", "failed"}
  /\ phase' = [phase EXCEPT ![e] = "declare"]
  /\ at' = [at EXCEPT ![e] = 1]
  /\ nextIdx' = [nextIdx EXCEPT ![e] = 0]
  /\ table' = [table EXCEPT ![e] = << >>]
  /\ proto' = [proto EXCEPT ![e] = Nothing]
  /\ exports' = [exports EXCEPT ![e] = Nothing]
  /\ types' = [types EXCEPT ![e] = Nothing]
  /\ maps' = [maps EXCEPT ![e] = 0]
  /\ UNCHANGED <<program, statics, aborted>>

\* Mutant of Declare: a forward declaration has no effect.
DeclareLate(e) ==
  /\ ~aborted
  /\ phase[e] = "declare"
  /\ at[e] \in DOMAIN program
  /\ declared' = declared \cup {program[at[e]].class}
  /\ nextIdx' = [nextIdx EXCEPT ![e] = nextIdx[e] + 1]
  /\ phase' = [phase EXCEPT ![e] = "define"]
  /\ UNCHANGED <<program, classIdx, cons, aborted, at, table, proto, exports,
                 types, maps>>

\* Module::decl for the forward declarations; then Module::def takes the next
\* index and the constructor of ClassDefinition declares the class
Declare(e) ==
  /\ ~aborted
  /\ phase[e] = "declare"
  /\ at[e] \in DOMAIN program
  /\ declared' = declared \cup program[at[e]].forward \cup {program[at[e]].class}
  /\ nextIdx' = [nextIdx EXCEPT ![e] = nextIdx[e] + 1]
  /\ phase' = [phase EXCEPT ![e] = "define"]
  /\ UNCHANGED <<program, classIdx, cons, aborted, at, table, proto, exports,
                 types, maps>>

\* what the ClassDefinition of e was given: its class and its index
Current(e) == program[at[e]]
CurrentIdx(e) == nextIdx[e] - 1

\* Mutant of SameIndex: no account is taken of worker threads.
NoIndex(e) == classIdx[Current(e).class] = 0

\* the assertion of Configure: first or subsequent initialization
SameIndex(e) == classIdx[Current(e).class] \in {0, CurrentIdx(e)}

\* Mutant of Configure: the constructors are added to those of before.
ConfigureMore(e) ==
  LET c == Current(e).class IN
  /\ classIdx' = [classIdx EXCEPT ![c] = CurrentIdx(e)]
  /\ cons' = [cons EXCEPT ![c] = cons[c] \o Current(e).cons]

\* NoObjectWrap<CLASS>::Configure: the static data of the class
Configure(e) ==
  LET c == Current(e).class IN
  /\ classIdx' = [classIdx EXCEPT ![c] = CurrentIdx(e)]
  /\ cons' = [cons EXCEPT ![c] = Current(e).cons]

\* Mutant of Register: the constructor goes to the front.
RegisterFirst(e) ==
  table' = [table EXCEPT ![e] = <<Current(e).class>> \o table[e]]

\* _Nobind_cons.emplace(begin() + class_idx_, ...)
Register(e) ==
  table' = [table EXCEPT ![e] = SubSeq(table[e], 1, CurrentIdx(e))
                                  \o <<Current(e).class>>
                                  \o SubSeq(table[e], CurrentIdx(e) + 1,
                                            Len(table[e]))]

\* ~ClassDefinition: the class is defined, configured, registered, exported,
\* linked to its base and described
Define(e) ==
  LET d == Current(e) IN
  /\ ~aborted
  /\ phase[e] = "define"
  /\ SameIndex(e)
  /\ Configure(e)
  /\ Register(e)
  /\ exports' = [exports EXCEPT ![e] = With(exports[e], d.class, Offer(d))]
  /\ d.base = None \/ d.base \in DOMAIN exports[e]
  /\ proto' = [proto EXCEPT ![e] = With(proto[e], d.class, d.base)]
  /\ types' = [types EXCEPT ![e] = With(types[e], d.class, Typing(d))]
  /\ at' = [at EXCEPT ![e] = at[e] + 1]
  /\ phase' = [phase EXCEPT ![e] = "declare"]
  /\ UNCHANGED <<program, declared, aborted, nextIdx, maps>>

\* The base class is not among the exports: ~ClassDefinition throws, after
\* everything else was done.  ~Module, during the unwinding, still makes the
\* object store; require() throws.
BaseMissing(e) ==
  LET d == Current(e) IN
  /\ ~aborted
  /\ phase[e] = "define"
  /\ SameIndex(e)
  /\ Configure(e)
  /\ Register(e)
  /\ exports' = [exports EXCEPT ![e] = With(exports[e], d.class, None)]
  /\ d.base # None /\ d.base \notin DOMAIN exports[e]
  /\ maps' = [maps EXCEPT ![e] = nextIdx[e]]
  /\ phase' = [phase EXCEPT ![e] = "failed"]
  /\ UNCHANGED <<program, declared, aborted, at, nextIdx, proto, types>>

\* assert(class_idx == 0 || class_idx == idx) fails
Abort(e) ==
  /\ ~aborted
  /\ phase[e] = "define"
  /\ ~SameIndex(e)
  /\ aborted' = TRUE
  /\ UNCHANGED <<program, statics, instance>>

\* ~Module: the object store and the cleanup hook; require() returns
Finish(e) ==
  /\ ~aborted
  /\ phase[e] = "declare"
  /\ at[e] \notin DOMAIN program
  /\ maps' = [maps EXCEPT ![e] = nextIdx[e]]
  /\ phase' = [phase EXCEPT ![e] = "ready"]
  /\ UNCHANGED <<program, statics, aborted, at, nextIdx, table, proto,
                 exports, types>>

\* the environment ends: a worker exits
Exit(e) ==
  /\ ~aborted
  /\ phase[e] \in {"ready", "failed"}
  /\ phase' = [phase EXCEPT ![e] = "absent"]
  /\ UNCHANGED <<program, statics, aborted, at, nextIdx, table, proto,
                 exports, types, maps>>

Next ==
  \E e \in Envs :
    \/ Load(e)
    \/ Declare(e)
    \/ Define(e)
    \/ BaseMissing(e)
    \/ Abort(e)
    \/ Finish(e)
    \/ Exit(e)

Spec == Init /\ [][Next]_vars

\* c and everything that parent leads to from it
Ancestors(parent, c) ==
  {d \in Classes :
     \A S \in SUBSET Classes :
       c \in S /\ (\A x \in S \cap DOMAIN parent :
                    parent[x] \in Classes => parent[x] \in S)
       => d \in S}

\* Mutant of CheckInstance: the class itself, not an instance of it.
CheckClass(e, c, d) ==
  /\ c \in declared
  /\ classIdx[c] < Len(table[e])
  /\ table[e][classIdx[c] + 1] = d

\* CheckInstance of class c accepts, in e, a JavaScript object of class d
CheckInstance(e, c, d) ==
  /\ c \in declared
  /\ classIdx[c] < Len(table[e])
  /\ table[e][classIdx[c] + 1] \in Ancestors(proto[e], d)

(***************************************************************************)
(* Properties.                                                             *)
(***************************************************************************)
\* the definition of class c; the classes of a program
Classed(c) == CHOOSE d \in {program[i] : i \in DOMAIN program} : d.class = c
Defined == {program[i].class : i \in DOMAIN program}
Ready(e) == phase[e] = "ready" /\ WellFormed(program) /\ ~aborted

TypeOK ==
  /\ program \in Programs
  /\ declared \subseteq Classes
  /\ classIdx \in [Classes -> Nat]
  /\ cons \in [Classes -> Constructors]
  /\ aborted \in BOOLEAN
  /\ phase \in [Envs -> {"absent", "declare", "define", "failed", "ready"}]
  /\ at \in [Envs -> Nat \ {0}]
  /\ nextIdx \in [Envs -> Nat] /\ maps \in [Envs -> Nat]
  /\ table \in [Envs -> Seq(Classes)]
  /\ DOMAIN exports = Envs /\ DOMAIN types = Envs /\ DOMAIN proto = Envs
  /\ \A e \in Envs : /\ DOMAIN exports[e] \subseteq Classes
                     /\ DOMAIN types[e] \subseteq DOMAIN exports[e]
                     /\ DOMAIN proto[e] = DOMAIN types[e]

\* "assert(class_idx == 0 || class_idx == idx)" (noobject.h:219) never fails,
\* however often and in however many environments at once the module is
\* initialized, and wherever an initialization stopped before, as long as no
\* class is defined twice.
NoAbort == aborted => ~WellFormed(program)

\* New() and CheckInstance find the constructor of the class, and the store
\* the map of the class, at the static index.
IndexesAgree ==
  \A e \in Envs : Ready(e) =>
    \A c \in Defined : /\ classIdx[c] < Len(table[e])
                      /\ table[e][classIdx[c] + 1] = c
                      /\ classIdx[c] < maps[e]

\* An argument is accepted for a parameter of class c exactly when its class is
\* c or derives from it: the pointer that FromJS takes from the wrapper is one
\* to the class that the C++ function expects.
ChecksAreSound ==
  \A e \in Envs : Ready(e) =>
    \A c, d \in Defined :
      CheckInstance(e, c, d) <=> c \in Ancestors([x \in Defined |-> Classed(x).base], d)

\* The declarations that TypeScript code is compiled against describe what the
\* JavaScript objects do: names, promises, the number of arguments, setters,
\* and which constructors there are.  (A constructor is looked up in static
\* data, which another environment may have written last.)
TypesMatchRuntime ==
  \A e \in Envs : Ready(e) =>
    \A c \in Defined :
      LET Describes(t, x) ==
            /\ {[name |-> s.name, static |-> s.static, async |-> s.promise,
                 takes |-> Cardinality(s.args)] : s \in t.functions} = x.functions
            /\ {[name |-> s.name, setter |-> ~s.readonly] : s \in t.variables}
                 = x.variables
          typing == types[e][c]
      IN  /\ Describes(typing, exports[e][c])
          /\ Describes(typing.globals, exports[e][c].globals)
          /\ Len(typing.cons) = Len(cons[c])
          /\ \A i \in DOMAIN cons[c] : Cardinality(typing.cons[i]) = Len(cons[c][i])
          /\ typing.abstract <=> (Classed(c).abstract \/ cons[c] = << >>)

\* The first environment and the workers publish the same TypeScript text: the
\* names that static data still lacks or already has do not show.
SameTypesEverywhere ==
  \A e, f \in Envs : Ready(e) /\ Ready(f) => types[e] = types[f]

\* The initialization of one environment writes static data that others are
\* using (noobject.h:221, without a lock): it never changes it.
StableStatics ==
  [][\A e \in Envs : Ready(e) =>
       \A c \in Defined : classIdx'[c] = classIdx[c] /\ cons'[c] = cons[c]]_vars
=============================================================================
