---------------------------- MODULE MCConversions ----------------------------
(***************************************************************************)
(* A small addon: numeric functions, functions of Buffers and objects that *)
(* run here or in the background, a class with three constructors, and     *)
(* setters.                                                                *)
(***************************************************************************)
EXTENDS Conversions, TLC

CONSTANTS b1, b2, o1

Function(ps, returns) ==
  [how |-> "function", async |-> FALSE, copy |-> FALSE, returns |-> returns,
   overloads |-> <<ps>>]

\* integers that fit, that do not, fractions and NaN: numbers with three bits
MCNumbers == {2 * x : x \in {-40, -10, -5, -2, 1, 3, 7, 14, 32}} \cup {-3, NaN}
\* integers that a number can hold, and those of 64 bits that it cannot: in the
\* middle between two numbers, with an even one below and above, and not there
MCResults == {-32, -9, -2, 3, 7, 11, 31}

Echoes == {Function(<<t>>, t) : t \in IntTypes}

Setters == {[Function(<<t>>, "void") EXCEPT !.how = "setter"] : t \in {"buffer", "short", "char"}}

\* The first and the third may be told apart only by the second argument.
Class ==
  [Function(<< >>, "void") EXCEPT !.how = "constructor",
     !.overloads = << <<"object", "double">>, <<"buffer">>, <<"object", "buffer">>,
                      <<"value", "value">> >>]

Background ==
  {[Function(<<"env", "object", "buffer">>, "buffer") EXCEPT !.async = TRUE],
   [Function(<<"buffer", "env">>, "buffer") EXCEPT !.async = TRUE, !.copy = TRUE]}

Native == Function(<<"buffer", "env", "value">>, "void")

MCCallables == Echoes \cup Setters \cup Background \cup {Class, Native}

\* functions and variables of type char *
CharCallables ==
  {Function(<<"char">>, "void"),
   [Function(<<"char">>, "void") EXCEPT !.how = "setter"]}

\* every number alone, and all lists of at most two values of some kinds
Kinds == {[kind |-> "number", of |-> 6], [kind |-> "string", of |-> None],
          [kind |-> "buffer", of |-> b1], [kind |-> "buffer", of |-> b2],
          [kind |-> "object", of |-> o1]}
MCLists == {<<[kind |-> "number", of |-> h]>> : h \in MCNumbers}
           \cup UNION {[1 .. n -> Kinds] : n \in 0 .. 2}
CharLists == {<<[kind |-> "string", of |-> None]>>}

Symmetry == Permutations(Calls) \cup Permutations(Cells) \cup Permutations(Buffers)
=============================================================================
