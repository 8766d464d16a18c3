---------------------------- MODULE ObjectStore ----------------------------
(***************************************************************************)
(* The object store of src/include/noobjectstore.h: for every proxied      *)
(* class, a map from the address of a C++ object to a weak reference to    *)
(* its JavaScript wrapper.                                                 *)
(*                                                                         *)
(* The store is a value, store[c][p], and the three methods of the class   *)
(* are operators on it.  A weak reference is the wrapper it was taken on;  *)
(* which references read as empty ("expired") is the garbage collector's   *)
(* business, so the set of wrappers whose references are empty is an       *)
(* argument.  None stands both for an absent entry and for the empty  *)
(* Napi::Value.  std::mutex lock makes every method atomic.                *)
(***************************************************************************)
CONSTANTS Classes,    \* the proxied classes (class_idx in the code)
          Ptrs,       \* addresses of C++ objects
          Wrappers,   \* JavaScript wrapper objects
          None        \* the empty Napi::Value, and every other absent value

ASSUME NoneAssumption == None \notin Wrappers \cup Classes \cup Ptrs

Stores == [Classes -> [Ptrs -> Wrappers \cup {None}]]

EmptyStore == [c \in Classes |-> [p \in Ptrs |-> None]]

\* object_store.at(class_idx).erase(ptr)
Erase(store, c, p) == [store EXCEPT ![c][p] = None]

\* The lookup returns the wrapper; an entry whose reference is empty counts
\* as absent.
Lookup(store, expired, c, p) ==
  IF store[c][p] \in expired THEN None ELSE store[c][p]

\* The side effect of the lookup: "the chain is still here but the goat is
\* nowhere to be found" - an expired entry is erased on sight.
Swept(store, expired, c, p) ==
  IF store[c][p] \in expired THEN Erase(store, c, p) ELSE store

\* Mutant of Put: emplace, which keeps an existing entry.
PutKeepsOld(store, c, p, js) ==
  IF store[c][p] = None THEN [store EXCEPT ![c][p] = js] ELSE store

\* Mutant of Put: one map for all the classes.
PutUntyped(store, c, p, js) ==
  [d \in Classes |-> [store[d] EXCEPT ![p] = js]]

\* insert_or_assign: an existing entry is replaced
Put(store, c, p, js) == [store EXCEPT ![c][p] = js]

\* Mutant of Expire: erase(ptr), whatever the entry is.
ExpireAny(store, expired, c, p, js) == Erase(store, c, p)

\* Mutant of Expire: an empty own reference is taken for a match.
ExpireIfEmpty(store, expired, c, p, js) ==
  LET stored == Lookup(store, expired, c, p)
  IN  IF js = None \/ stored = js
        THEN Erase(store, c, p)
        ELSE Swept(store, expired, c, p)

\* Called by the destructor of a wrapper whose own reference reads js.  The
\* entry goes if it is expired, or if it is the very wrapper being destroyed.
Expire(store, expired, c, p, js) ==
  LET stored == Lookup(store, expired, c, p)
  IN  IF stored # None /\ js # None /\ stored = js
        THEN Erase(store, c, p)
        ELSE Swept(store, expired, c, p)
=============================================================================
