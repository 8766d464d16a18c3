---------------------------- MODULE MCObjectWrap ----------------------------
(***************************************************************************)
(* ObjectWrap on small instances: Whole is a class whose first member (or  *)
(* base) is a Part, so that one address is known to the store under two    *)
(* classes.                                                                *)
(***************************************************************************)
EXTENDS ObjectWrap, TLC

CONSTANTS Whole, Part

MCClasses == {Whole, Part}
MCViews == Whole :> {Whole, Part} @@ Part :> {Part}

OneClass == {Part}
OneView == Part :> {Part}

Symmetry == Permutations(Wrappers) \cup Permutations(Ptrs)
=============================================================================
