------------------------------ MODULE JobQueue ------------------------------
(***************************************************************************)
(* What RunOnJSMainThread (src/include/nohelpers.h) promises to whoever    *)
(* hands it a job from a background thread: accepted jobs are run by the   *)
(* JavaScript thread in the order in which they were accepted, each at     *)
(* most once and one at a time, as long as the environment is running;     *)
(* when it ends, the jobs that are still waiting are abandoned.            *)
(***************************************************************************)
EXTENDS Sequences

CONSTANT Jobs

VARIABLES
  waiting, \* the accepted jobs that have not been run, oldest first
  done,    \* the jobs that have been run, oldest first
  mode     \* "serving", "ending" (no more jobs are run) or "ended"

Init == waiting = << >> /\ done = << >> /\ mode = "serving"

Accept(j) ==
  /\ mode # "ended"
  /\ \A i \in DOMAIN waiting : waiting[i] # j
  /\ \A i \in DOMAIN done : done[i] # j
  /\ waiting' = Append(waiting, j)
  /\ UNCHANGED <<done, mode>>

Run ==
  /\ mode = "serving"
  /\ waiting # << >>
  /\ waiting' = Tail(waiting)
  /\ done' = Append(done, Head(waiting))
  /\ UNCHANGED mode

End ==
  /\ \/ mode = "serving" /\ mode' = "ending"
     \/ mode = "ending" /\ mode' = "ended"
  /\ UNCHANGED <<waiting, done>>

Next == (\E j \in Jobs : Accept(j)) \/ Run \/ End

Spec == Init /\ [][Next]_<<waiting, done, mode>>
=============================================================================
