----------------------------- MODULE MCSmartPtr -----------------------------
(* SmartPtr on small instances.  All identifiers are interchangeable.       *)
EXTENDS SmartPtr, TLC

Symmetry ==
  Permutations(Wrappers) \cup Permutations(Ptrs) \cup Permutations(Classes)
    \cup Permutations(Blocks)
=============================================================================
