------------------------- MODULE MCObjectWrapBuilds -------------------------
(***************************************************************************)
(* ObjectWrap as Node-API may build it.  build is the choice that was made *)
(* when the project was compiled: destructors that run at some later time, *)
(* or basic finalizers.                                                    *)
(***************************************************************************)
EXTENDS MCObjectWrap

VARIABLE build

Basic == INSTANCE ObjectWrap WITH BasicFinalizers <- TRUE

MCInit == Init /\ build \in {"late", "basic"}

MCNext ==
  \/ build = "late" /\ Next /\ UNCHANGED build
  \/ build = "basic" /\ Basic!Next /\ UNCHANGED build

MCSpec == MCInit /\ [][MCNext]_<<vars, build>>
=============================================================================
