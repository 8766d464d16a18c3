--------------------------- MODULE MCAsyncLocking ---------------------------
(***************************************************************************)
(* AsyncLocking on small programs of two objects, a and b.                 *)
(***************************************************************************)
EXTENDS AsyncLocking, TLC

CONSTANTS a, b,
          method,    \* a.method(b), asynchronous
          function,  \* function(a, b), asynchronous
          reversed,  \* reversed(b, a), asynchronous
          vector,    \* vector([a, b]), asynchronous
          getter,    \* a.getter, synchronous
          setter,    \* b.setter = a, synchronous
          record,    \* record({ a }), asynchronous
          copy,      \* a.copy(), asynchronous, ReturnCopy
          clone,     \* b.clone(), asynchronous, ReturnCopy
          lone,      \* a.lone(), asynchronous
          swapped    \* b.swapped(a), asynchronous

MCThis ==
  method :> <<a>> @@ function :> << >> @@ reversed :> << >> @@ vector :> << >> @@ getter :> <<a>>
  @@ setter :> <<b>> @@ record :> << >>
  @@ copy :> <<a>> @@ clone :> <<b>> @@ lone :> <<a>> @@ swapped :> <<b>>

MCArgs ==
  method :> << <<b>> >> @@ function :> << <<a>>, <<b>> >>
  @@ reversed :> << <<b>>, <<a>> >>
  @@ vector :> << <<a, b>> >> @@ getter :> << >> @@ setter :> << <<a>> >>
  @@ record :> << <<a>> >> @@ copy :> << >> @@ clone :> << >>
  @@ lone :> << >> @@ swapped :> << <<a>> >>

MCAsync == {method, function, reversed, vector, record, copy, clone, lone, swapped}

\* std::map arguments are converted by FromJSMap's constructor
MCConverted == record :> {a}

\* ToJS of a copied result reads the object in OnOK
MCCopied == copy :> {a} @@ clone :> {b}

OnCalls(f, default) ==
  [c \in Calls |-> IF c \in DOMAIN f THEN f[c] ELSE default]

ThisOf == OnCalls(MCThis, << >>)
ArgsOf == OnCalls(MCArgs, << >>)
AsyncOf == MCAsync \cap Calls
ConvertedOf == OnCalls(MCConverted, {})
CopiedOf == OnCalls(MCCopied, {})

=============================================================================
