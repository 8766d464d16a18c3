----------------------------- MODULE Conversions -----------------------------
(***************************************************************************)
(* The conversion of the arguments and of the result of a call: the        *)
(* wrappers of src/include/nofunction.h, the constructors of               *)
(* src/include/noobject.h and the typemaps of notypes.h, nonumbermaps.h,   *)
(* nostringmaps.h and nobuffer.h.                                          *)
(*                                                                         *)
(* A wrapper converts its arguments into FromJS objects on the JavaScript  *)
(* thread, moves them into a tuple, runs the C++ function on this thread   *)
(* or on one of the pool, and converts the result.  A FromJS object can    *)
(* own memory and can keep a JavaScript object from being collected; the   *)
(* call must give both back, however it ends.  The locks that it takes are *)
(* in AsyncLocking, the wrappers that it makes for objects in ObjectWrap.  *)
(***************************************************************************)
EXTENDS NumberMaps, Sequences, FiniteSets

CONSTANTS
  Calls,      \* the calls that may be in progress at once
  Callables,  \* what the addon exposes
  Numbers,    \* the JavaScript numbers
  Results,    \* the integers that C++ functions return
  Buffers,    \* the JavaScript Buffers
  Instances,  \* the JavaScript objects that wrap an object of the class
  Lists,      \* bound: the argument lists that the program passes
  Cells,      \* the memory that char * arguments and C++ buffers occupy
  None

Objects == Buffers \cup Instances

\* the types of parameters: "object" is the class itself, a reference or a
\* pointer to it, "value" is Napi::Value, "env" is Napi::Env
Params == IntTypes \cup {"double", "char", "buffer", "object", "value", "env"}

Signatures == Seq(Params)
Hows == {"function", "constructor", "setter"}

\* A callable: its signatures (only constructors have several), whether it runs
\* in the background, what it returns, and whether it is ReturnCopy.
IsCallable(f) ==
  /\ f.how \in Hows /\ f.async \in BOOLEAN /\ f.copy \in BOOLEAN
  /\ f.returns \in IntTypes \cup {"void", "buffer"}
  /\ f.overloads \in Seq(Signatures) /\ f.overloads # << >>
  /\ f.how # "constructor" => Len(f.overloads) = 1
  /\ f.how = "setter" => Len(f.overloads[1]) = 1 /\ f.overloads[1] # <<"env">>
  /\ f.how # "function" => ~f.async /\ f.returns = "void"
  \* "native specializations (does not support async)"
  /\ f.async => \A k \in DOMAIN f.overloads[1] : f.overloads[1][k] # "value"

ASSUME CallablesAssumption == Callables # {} /\ \A f \in Callables : IsCallable(f)
ASSUME ObjectsAssumption ==
  /\ Buffers \cap Instances = {} /\ Cells \cap Int = {}
  /\ None \notin Objects \cup Cells \cup Int
ASSUME NumbersAssumption == Numbers \subseteq Int \cup {NaN} /\ Results \subseteq Int

\* what JavaScript passes
Undefined == [kind |-> "undefined", of |-> None]
Given == [kind : {"number"}, of : Numbers] \cup [kind : {"string"}, of : {None}]
         \cup [kind : {"buffer"}, of : Buffers] \cup [kind : {"object"}, of : Instances]
ASSUME ListsAssumption == \A vs \in Lists : vs \in Seq(Given)

VARIABLES
  phase,     \* of a call: "idle", "converting", "ready" (converted), "running",
             \* "returned", "threw", "resolved", "rejected"
  fn,        \* what it calls
  given,     \* with which JavaScript values
  overload,  \* the signature it has come to
  thrown,    \* those whose C++ code was run and threw
  args,      \* its FromJS objects
  output,    \* what C++ has returned: val_ of the ToJS object
  result,    \* what JavaScript gets
  held,      \* the objects that the program references
  alive,     \* the objects that have not been collected
  external,  \* the memory that a Buffer frees when it is collected
  live,      \* the memory in use
  fault      \* memory has been deleted twice

callVars == <<fn, given>>
vars == <<phase, fn, given, overload, thrown, args, output, result, held, alive,
          external, live, fault>>

(***************************************************************************)
(* FromJS.                                                                 *)
(***************************************************************************)
\* info[idx], when the i-th parameter is converted: Napi::Env has Inputs = 0
Consumed(ps, i) == Cardinality({j \in 1 .. i : ps[j] # "env"})
ArgAt(ps, i, vs) ==
  LET idx == Consumed(ps, i - 1) + 1
  IN  IF idx \in DOMAIN vs THEN vs[idx] ELSE Undefined

\* the checks of the constructors of the FromJS typemaps
Accepts(p, v) ==
  CASE p \in IntTypes \cup {"double"} -> v.kind = "number"
    [] p = "char" -> v.kind = "string"
    [] p \in {"buffer", "object"} -> v.kind = p
    [] OTHER -> TRUE

\* Mutant of FromJS: without the persistent reference.
FromJSLocal(p, v, cell) ==
  [number |-> IF p \in IntTypes THEN FromJSNumber(p, v.of) ELSE None,
   block  |-> IF p = "char" THEN cell ELSE None,
   pins   |-> None]

\* the FromJS object: the number it holds, the memory that its destructor
\* deletes, and the object of its persistent reference
FromJS(p, v, cell) ==
  [number |-> IF p \in IntTypes THEN FromJSNumber(p, v.of) ELSE None,
   block  |-> IF p = "char" THEN cell ELSE None,
   pins   |-> IF p \in {"buffer", "object"} THEN v.of ELSE None]

Blocks(as) == {as[i].block : i \in DOMAIN as} \ {None}
Pins(as) == {as[i].pins : i \in DOMAIN as} \ {None}

\* How often the FromJS objects are moved before the function is called: into
\* the tuple, and with the tuple into the tasklet; a setter has no tuple.
Moves(f) == IF f.how = "setter" THEN 0 ELSE IF f.async THEN 2 ELSE 1

(***************************************************************************)
(* The steps of a call.                                                    *)
(***************************************************************************)
Pending == {"ready", "running", "returned", "threw"}

\* the JavaScript thread is inside a wrapper, or runs what waited for a promise
Busy(c) == \/ phase[c] \in {"converting", "resolved", "rejected"}
           \/ phase[c] \in Pending /\ ~fn[c].async
Free == \A c \in Calls : ~Busy(c)

Signature(c) == fn[c].overloads[overload[c]]

\* of no importance: c is not in progress
Nothing == CHOOSE f \in Callables : TRUE

Init ==
  /\ phase = [c \in Calls |-> "idle"]
  /\ fn = [c \in Calls |-> Nothing]
  /\ given = [c \in Calls |-> << >>]
  /\ overload = [c \in Calls |-> 1]
  /\ thrown = [c \in Calls |-> {}]
  /\ args = [c \in Calls |-> << >>]
  /\ output = [c \in Calls |-> None]
  /\ result = [c \in Calls |-> None]
  /\ alive \in SUBSET Objects
  /\ held = alive
  /\ external = [o \in Objects |-> None]
  /\ live = {}
  /\ fault = FALSE

\* JavaScript calls f with any values that it has; a setter is given one.
Invoke(c, f, vs) ==
  /\ phase[c] = "idle" /\ Free
  /\ \A i \in DOMAIN vs : vs[i].of \in Objects => vs[i].of \in held
  /\ f.how = "setter" => Len(vs) = 1
  /\ phase' = [phase EXCEPT ![c] = "converting"]
  /\ fn' = [fn EXCEPT ![c] = f]
  /\ given' = [given EXCEPT ![c] = vs]
  /\ overload' = [overload EXCEPT ![c] = 1]
  /\ thrown' = [thrown EXCEPT ![c] = {}]
  /\ UNCHANGED <<args, output, result, held, alive, external, live, fault>>

\* the constructors are looked up by the number of their arguments
Candidate(f, ps, vs) == f.how = "constructor" => Len(ps) = Len(vs)
\* none of the constructors of the FromJS objects throws
Converts(ps, vs) == \A i \in DOMAIN ps : Accepts(ps[i], ArgAt(ps, i, vs))
\* Mutant of LengthMatches: missing arguments are not noticed.
LengthAtMost(f, ps, vs) == f.how # "setter" => Len(vs) <= Consumed(ps, Len(ps))
\* CheckArgLength does not throw; a setter does not call it
LengthMatches(f, ps, vs) == f.how # "setter" => Consumed(ps, Len(ps)) = Len(vs)

\* The arguments are converted and moved into place.  Moving a FromJSChar
\* copies its pointer, and the destructor of what it was moved from deletes the
\* memory.
Convert(c) ==
  LET ps == Signature(c)  vs == given[c] IN
  /\ phase[c] = "converting"
  /\ Candidate(fn[c], ps, vs) /\ Converts(ps, vs) /\ LengthMatches(fn[c], ps, vs)
  /\ \E cell \in [DOMAIN ps -> Cells \ live] :
       /\ \A i, j \in DOMAIN ps :
            ps[i] = "char" /\ ps[j] = "char" /\ cell[i] = cell[j] => i = j
       /\ LET as == [i \in DOMAIN ps |-> FromJS(ps[i], ArgAt(ps, i, vs), cell[i])] IN
          /\ args' = [args EXCEPT ![c] = as]
          /\ live' = IF Moves(fn[c]) = 0 THEN live \cup Blocks(as) ELSE live
          /\ fault' = (fault \/ (Moves(fn[c]) > 1 /\ Blocks(as) # {}))
  /\ phase' = [phase EXCEPT ![c] = "ready"]
  /\ UNCHANGED <<callVars, overload, thrown, output, result, held, alive, external>>

\* Mutant of Advance: the last constructor is not treated as the last.
AdvanceAlways(c) ==
  /\ overload' = [overload EXCEPT ![c] = overload[c] + 1]
  /\ phase' = [phase EXCEPT ![c] = IF overload[c] <= Len(fn[c].overloads)
                                  THEN "converting" ELSE "rejected"]

\* after a failed signature: the next constructor or an exception
Advance(c) ==
  IF overload[c] < Len(fn[c].overloads)
  THEN /\ overload' = [overload EXCEPT ![c] = overload[c] + 1]
       /\ phase' = [phase EXCEPT ![c] = "converting"]
  ELSE /\ phase' = [phase EXCEPT ![c] = "rejected"]
       /\ UNCHANGED overload

\* A conversion or CheckArgLength throws.  FromJS objects made so far are
\* destroyed; those in a tuple have been moved.
Refuse(c) ==
  LET ps == Signature(c)  vs == given[c] IN
  /\ phase[c] = "converting"
  /\ ~(Candidate(fn[c], ps, vs) /\ Converts(ps, vs) /\ LengthMatches(fn[c], ps, vs))
  /\ fault' = (fault \/ (/\ Candidate(fn[c], ps, vs) /\ Converts(ps, vs)
                         /\ \E i \in DOMAIN ps : ps[i] = "char"))
  /\ Advance(c)
  /\ UNCHANGED <<callVars, thrown, args, output, result, held, alive, external, live>>

\* the C++ code runs: here, or on a thread of the pool
Start(c) ==
  /\ phase[c] = "ready"
  /\ phase' = [phase EXCEPT ![c] = "running"]
  /\ UNCHANGED <<callVars, overload, thrown, args, output, result, held, alive,
                 external, live, fault>>

\* It returns and the ToJS object is constructed.  A buffer that C++ returns
\* belongs to JavaScript from now on.
Return(c) ==
  /\ phase[c] = "running"
  /\ \/ /\ fn[c].returns = "buffer"
        /\ \E cell \in Cells \ live : /\ output' = [output EXCEPT ![c] = cell]
                                     /\ live' = live \cup {cell}
     \/ /\ fn[c].returns \in IntTypes
        /\ \E x \in Results \cap Values(fn[c].returns) :
             output' = [output EXCEPT ![c] = x]
        /\ UNCHANGED live
     \/ fn[c].returns = "void" /\ UNCHANGED <<output, live>>
  /\ phase' = [phase EXCEPT ![c] = "returned"]
  /\ UNCHANGED <<callVars, overload, thrown, args, result, held, alive, external,
                 fault>>

Throw(c) ==
  /\ phase[c] = "running"
  /\ phase' = [phase EXCEPT ![c] = "threw"]
  /\ thrown' = [thrown EXCEPT ![c] = thrown[c] \cup {overload[c]}]
  /\ UNCHANGED <<callVars, overload, args, output, result, held, alive, external,
                 live, fault>>

\* OnOK and OnError wait for the JavaScript thread
CanSettle(c) == fn[c].async => Free

\* the FromJS objects are destroyed
Destroy(c) ==
  /\ args' = [args EXCEPT ![c] = << >>]
  /\ live' = live \ Blocks(args[c])
  /\ fault' = (fault \/ ~(Blocks(args[c]) \subseteq live))

\* After an exception: JavaScript gets it, or another constructor is tried.
Fail(c) ==
  /\ phase[c] = "threw" /\ CanSettle(c)
  /\ Destroy(c)
  /\ Advance(c)
  /\ UNCHANGED <<callVars, thrown, output, result, held, alive, external>>

\* Mutant of FromBuffer: the copied memory is not deleted.
FromBufferLeaking(c, o) ==
  IF fn[c].copy
  THEN external' = external /\ live' = live \ Blocks(args[c])
  ELSE external' = [external EXCEPT ![o] = output[c]] /\ live' = live \ Blocks(args[c])

\* ToJS<Buffer>::Get: with ReturnCopy JavaScript gets a copy and the original
\* is deleted, otherwise the finalizer of the Buffer deletes it
FromBuffer(c, o) ==
  IF fn[c].copy
  THEN external' = external /\ live' = live \ (Blocks(args[c]) \cup {output[c]})
  ELSE external' = [external EXCEPT ![o] = output[c]] /\ live' = live \ Blocks(args[c])

\* The ToJS object is asked for its value, then everything is destroyed.
Deliver(c) ==
  /\ phase[c] = "returned" /\ CanSettle(c)
  /\ \/ /\ fn[c].returns = "buffer"
        /\ \E o \in Buffers \ alive :
             /\ result' = [result EXCEPT ![c] = o]
             /\ alive' = alive \cup {o} /\ held' = held \cup {o}
             /\ FromBuffer(c, o)
     \/ /\ fn[c].returns \in IntTypes
        /\ result' = [result EXCEPT ![c] = ToJSNumber(fn[c].returns, output[c])]
        /\ live' = live \ Blocks(args[c])
        /\ UNCHANGED <<held, alive, external>>
     \/ /\ fn[c].returns = "void"
        /\ live' = live \ Blocks(args[c])
        /\ UNCHANGED <<result, held, alive, external>>
  /\ args' = [args EXCEPT ![c] = << >>]
  /\ fault' = (fault \/ ~(Blocks(args[c]) \subseteq live))
  /\ phase' = [phase EXCEPT ![c] = "resolved"]
  /\ UNCHANGED <<callVars, overload, thrown, output>>

\* the program has seen the result
Answer(c) ==
  /\ phase[c] \in {"resolved", "rejected"}
  /\ phase' = [phase EXCEPT ![c] = "idle"]
  /\ fn' = [fn EXCEPT ![c] = Nothing]
  /\ given' = [given EXCEPT ![c] = << >>]
  /\ overload' = [overload EXCEPT ![c] = 1]
  /\ thrown' = [thrown EXCEPT ![c] = {}]
  /\ output' = [output EXCEPT ![c] = None]
  /\ result' = [result EXCEPT ![c] = None]
  /\ UNCHANGED <<args, held, alive, external, live, fault>>

(***************************************************************************)
(* The program and the collector.                                          *)
(***************************************************************************)
Drop(o) ==
  /\ Free
  /\ held' = held \ {o}
  /\ UNCHANGED <<phase, callVars, overload, thrown, args, output, result, alive,
                 external, live, fault>>

\* the values on the stack of the wrapper that is running
OnStack == UNION {{given[c][i].of : i \in DOMAIN given[c]} : c \in {d \in Calls : Busy(d)}}
Reachable == held \cup OnStack \cup UNION {Pins(args[c]) : c \in Calls}

Collect(o) ==
  /\ o \in alive \ Reachable
  /\ alive' = alive \ {o}
  /\ live' = live \ {external[o]}
  /\ external' = [external EXCEPT ![o] = None]
  /\ UNCHANGED <<phase, callVars, overload, thrown, args, output, result, held, fault>>

Next ==
  \/ \E c \in Calls :
       \/ \E f \in Callables, vs \in Lists : Invoke(c, f, vs)
       \/ Convert(c)
       \/ Refuse(c)
       \/ Start(c)
       \/ Return(c)
       \/ Throw(c)
       \/ Fail(c)
       \/ Deliver(c)
       \/ Answer(c)
  \/ \E o \in Objects : Drop(o) \/ Collect(o)

Spec == Init /\ [][Next]_vars

(***************************************************************************)
(* Properties.                                                             *)
(***************************************************************************)
FromJSObjects == [number : Int \cup {NaN, None}, block : Cells \cup {None},
                  pins : Objects \cup {None}]

TypeOK ==
  /\ phase \in [Calls -> Pending \cup {"idle", "converting", "resolved", "rejected"}]
  /\ fn \in [Calls -> Callables]
  /\ given \in [Calls -> Seq(Given)]
  /\ overload \in [Calls -> Nat]
  /\ \A c \in Calls : overload[c] \in DOMAIN fn[c].overloads
  /\ thrown \in [Calls -> SUBSET Nat]
  /\ args \in [Calls -> Seq(FromJSObjects)]
  /\ output \in [Calls -> Cells \cup Int \cup {None}]
  /\ result \in [Calls -> Objects \cup Int \cup {None}]
  /\ held \subseteq alive /\ alive \subseteq Objects
  /\ external \in [Objects -> Cells \cup {None}]
  /\ live \subseteq Cells
  /\ fault \in BOOLEAN

\* Every piece of memory that a call or a returned buffer uses is deleted once:
\* it has one owner - an argument, a result on its way, or a Buffer - as long as
\* it is in use, and none after that, whichever of the conversions, CheckArgLength
\* and the C++ code throws.
ArgumentsOwning(x) ==
  UNION {{<<c, i>> : i \in {j \in DOMAIN args[c] : args[c][j].block = x}} : c \in Calls}
ResultsOwning(x) == {<<c, 0>> : c \in {d \in Calls : phase[d] = "returned" /\ output[d] = x}}
BuffersOwning(x) == {o \in alive : external[o] = x}
Owners(x) == ArgumentsOwning(x) \cup ResultsOwning(x) \cup BuffersOwning(x)
BlocksAreOwned ==
  /\ ~fault
  /\ \A x \in Cells : Cardinality(Owners(x)) = IF x \in live THEN 1 ELSE 0

\* "The constructor can create state that will be destroyed after the function
\* call" (nooverrides.h:20): the memory of a FromJS object is there when Get() is
\* called and while the function runs, and then it is deleted once.
StateLastsForTheCall ==
  /\ ~fault
  /\ \A c \in Calls : phase[c] \in Pending => Blocks(args[c]) \subseteq live

\* "The JS Buffer object is protected from the GC for the duration of the call"
\* (nobuffer.h:16), and so is every object whose C++ object the function uses:
\* also when the program drops it while the call waits for a thread or runs.
ArgumentsStay ==
  \A c \in Calls : phase[c] \in Pending =>
    \A i \in DOMAIN Signature(c) :
      Signature(c)[i] \in {"buffer", "object"} =>
        ArgAt(Signature(c), i, given[c]).of \in alive

\* The C++ code runs only when the values go, in their order, to its parameters,
\* each to one that takes its kind; Napi::Env parameters take none.  "The first
\* [constructor] which is able to convert its arguments will win" (README.md:184),
\* unless it throws, and JavaScript sees an exception only if none is left.
Matches(f, k, vs) ==
  LET ps == f.overloads[k]
  IN  \E to \in [DOMAIN vs -> DOMAIN ps] :
        /\ \A i, j \in DOMAIN vs : i < j => to[i] < to[j]
        /\ {to[i] : i \in DOMAIN vs} = {i \in DOMAIN ps : ps[i] # "env"}
        /\ \A i \in DOMAIN vs : Accepts(ps[to[i]], vs[i])
RunsIffMatches ==
  \A c \in Calls :
    LET Skipped(k) == k \in thrown[c] \/ ~Matches(fn[c], k, given[c]) IN
    /\ phase[c] \in Pending =>
         /\ Matches(fn[c], overload[c], given[c])
         /\ \A k \in 1 .. overload[c] - 1 : Skipped(k)
    /\ phase[c] = "rejected" => \A k \in DOMAIN fn[c].overloads : Skipped(k)

\* An integer that fits in the type of the parameter, and in the carrier through
\* which the typemap table sends it, is the one that C++ receives.  An integer that
\* C++ returns is the one that JavaScript receives, unless it is a 64-bit one beyond
\* 2^53: that is rounded (nonumbermaps.h:81), and off by less than its 2^53th part.
NumbersArrive ==
  \A c \in Calls :
    /\ phase[c] \in Pending =>
         \A i \in DOMAIN args[c] :
           Signature(c)[i] \in IntTypes =>
             \A x \in Held(Signature(c)[i]) :
               ArgAt(Signature(c), i, given[c]).of = 2 * x => args[c][i].number = x
    /\ phase[c] = "resolved" /\ fn[c].returns \in IntTypes =>
         /\ output[c] \in Exact(fn[c].returns) => result[c] = 2 * output[c]
         /\ output[c] \in Held(fn[c].returns) => Precise(result[c], output[c])
=============================================================================
