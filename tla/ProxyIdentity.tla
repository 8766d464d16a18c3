--------------------------- MODULE ProxyIdentity ---------------------------
(***************************************************************************)
(* What the object store promises to a JavaScript program (README.md, "The *)
(* Object Store"): "as longer as the object is not garbage-collected, it   *)
(* will continue returning the same JS reference", so objects preserve     *)
(* their equality across the language barrier, and "one C++ object can     *)
(* have only one JS wrapper proxy".                                        *)
(*                                                                         *)
(* The state is what the program can see: which object each JavaScript     *)
(* value it holds is the proxy of.                                         *)
(***************************************************************************)
CONSTANTS Proxies,   \* JavaScript values
          Objects,   \* C++ objects, as the program distinguishes them
          NoObject

VARIABLE proxy       \* proxy[w] is the object w stands for

TypeOK == proxy \in [Proxies -> Objects \cup {NoObject}]

Init == proxy = [w \in Proxies |-> NoObject]

\* C++ returns the object o (or JavaScript constructs it) and the program
\* receives w: the proxy of o that it already holds if it holds one, a value
\* that is no other object's proxy otherwise.
Hand(w, o) ==
  /\ proxy[w] \in {NoObject, o}
  /\ \A v \in Proxies : proxy[v] = o => v = w
  /\ proxy' = [proxy EXCEPT ![w] = o]

\* the program drops its references to the values in S
Forget(S) ==
  proxy' = [w \in Proxies |-> IF w \in S THEN NoObject ELSE proxy[w]]

Next ==
  \/ \E w \in Proxies, o \in Objects : Hand(w, o)
  \/ \E S \in SUBSET Proxies : Forget(S)

Spec == Init /\ [][Next]_proxy
=============================================================================
