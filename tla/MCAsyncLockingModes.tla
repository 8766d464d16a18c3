------------------------ MODULE MCAsyncLockingModes -------------------------
(***************************************************************************)
(* AsyncLocking with a JavaScript thread that waits for a mutex, and with  *)
(* one that throws (NOBIND_THROW_ON_EVENT_LOOP_BLOCK), for a program of    *)
(* each kind, and for one with calls that read an object without its lock: *)
(* no other asynchronous call uses that object.  Tuples are constructed as *)
(* libstdc++ does, from the last element; the calls of a program agree on  *)
(* the order of a and b.                                                   *)
(***************************************************************************)
EXTENDS MCAsyncLocking

VARIABLE mode

Throwing == INSTANCE AsyncLocking WITH ThrowOnBlock <- TRUE

\* a before b, b before a, and unlocked reads of a and of b
Program == "block" :> {method, reversed, vector, getter}
        @@ "throw" :> {function, swapped, setter, lone}
        @@ "read"  :> {record, clone, setter, getter}

modeVars == <<vars, mode>>

MCInit == Init /\ mode \in DOMAIN Program

MCNext ==
  /\ \/ mode \in {"block", "read"} /\ Next
     \/ mode = "throw" /\ Throwing!Next
  /\ issued' \subseteq Program[mode]
  /\ UNCHANGED mode

MCFairSpec ==
  /\ MCInit /\ [][MCNext]_modeVars
  /\ \A t \in Threads : WF_modeVars(ThreadStep(t) /\ UNCHANGED mode)
  /\ WF_modeVars(mode \in {"block", "read"} /\ MainStep /\ UNCHANGED mode)
  /\ WF_modeVars(mode = "throw" /\ Throwing!MainStep /\ UNCHANGED mode)
=============================================================================
