--------------------------- MODULE MCClassRegistry ---------------------------
(***************************************************************************)
(* Four module initializations for the main thread and a worker.           *)
(***************************************************************************)
EXTENDS ClassRegistry

CONSTANTS A, B, C

Class(c, base) ==
  [class |-> c, base |-> base, forward |-> {}, abstract |-> FALSE,
   cons |-> << << >>, <<Plain>>, <<Plain>> >>,
   functions |-> {}, variables |-> {}, globals |-> {}]

Function(n, kind, params, modes) ==
  [name |-> n, kind |-> kind, params |-> params, modes |-> modes]

\* Three generations; the first is abstract.
Hierarchy ==
  << [Class(A, None) EXCEPT !.abstract = TRUE, !.cons = << >>,
        !.functions = {Function("greet", "method", <<Plain, EnvArg>>, {"sync", "async"})}],
     [Class(B, A) EXCEPT !.cons = << <<A>>, <<Plain, A>> >>,
        !.functions = {Function("greet", "extension", <<A>>, {"sync"})},
        !.variables = {[name |-> "id", readOnly |-> TRUE]}],
     [Class(C, B) EXCEPT
        !.functions = {Function("make", "static", <<Plain, Plain>>, {"async"}),
                       Function("make", "global", <<EnvArg, C, EnvArg>>, {"sync"})},
        !.globals = {[name |-> "id", readOnly |-> FALSE]}] >>

\* Two classes that mention each other.
Mutual ==
  << [Class(B, None) EXCEPT !.forward = {C},
        !.functions = {Function("make", "method", <<C>>, {"sync"})}],
     [Class(C, None) EXCEPT
        !.functions = {Function("make", "method", <<B, C>>, {"async"})}] >>

\* The base comes after the class that inherits from it.
WrongOrder == <<Class(C, None), Class(B, A), Class(A, None)>>

\* A class is defined again.
Twice == <<Class(A, None), Class(B, None), Class(A, None)>>

MCPrograms == {Hierarchy, Mutual, WrongOrder, Twice}
=============================================================================
