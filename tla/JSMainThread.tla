---------------------------- MODULE JSMainThread ----------------------------
(***************************************************************************)
(* Running jobs on the JavaScript thread: RunOnJSMainThread and            *)
(* RunMainThreadQueue of src/include/nohelpers.h, and the cleanup hook of  *)
(* src/include/nobind.h that closes the uv_async_t handle they use.        *)
(*                                                                         *)
(* A background thread reads the instance data of the environment, locks   *)
(* the queue, adds the job and wakes the event loop with uv_async_send,    *)
(* which coalesces: any number of sends before the loop turns are one      *)
(* call of RunMainThreadQueue.  The event loop does not wait for the       *)
(* handle (uv_unref), so the environment may end at any moment between     *)
(* these steps.                                                            *)
(***************************************************************************)
EXTENDS Sequences

CONSTANTS
  Jobs,        \* the jobs to be run, each of them handed over once
  Background,  \* the background threads
  Main,        \* the JavaScript thread
  None

ASSUME ThreadsAssumption ==
  Main \notin Background /\ None \notin Background \cup {Main}

VARIABLES
  instance,  \* the EnvInstanceData: "live", or "destroyed" (napi returns null)
  handle,    \* the uv_async_t: "open", "closing" or "deleted"
  pending,   \* the handle has been signalled and the loop has not seen it yet
  lock,      \* _Nobind_js_thread_jobs_lock: the thread that holds it, or None
  jobs,      \* _Nobind_js_thread_jobs
  sender,    \* sender[t]: what the background thread t is doing
  main,      \* what the JavaScript thread is doing
  requested, \* the jobs handed to RunOnJSMainThread so far
  ran        \* history: the jobs run from the queue, in order

vars == <<instance, handle, pending, lock, jobs, sender, main, requested, ran>>

env  == <<instance, handle>>

\* A background thread is outside RunOnJSMainThread, or has seen the instance
\* data ("checked"), holds the lock ("locked"), has added its job ("added"),
\* or has signalled the handle ("sent").  "crashed": it has used the
\* instance data or the handle after they were deleted.
Idle == [at |-> "idle"]

Senders ==
  {Idle} \cup
  [at : {"checked", "locked", "added", "sent", "crashed"}, job : Jobs]

\* The JavaScript thread is in the event loop or running JavaScript ("idle"),
\* has been woken by the handle, holds the lock between two jobs, or has run
\* the job at the front, which is still in the queue ("ran").
MainStates == {"idle", "woken", "locked", "ran"}

Move(t, place) ==
  sender' = [sender EXCEPT ![t] = [at |-> place, job |-> sender[t].job]]

\* Mutant of Init: InitMainThreadQueue is not called.
InitWithoutHandle ==
  /\ instance = "live"
  /\ handle = None
  /\ pending = FALSE
  /\ lock = None
  /\ jobs = << >>
  /\ sender = [t \in Background |-> Idle]
  /\ main = "idle"
  /\ requested = {}
  /\ ran = << >>

Init ==
  /\ instance = "live"
  /\ handle = "open"
  /\ pending = FALSE
  /\ lock = None
  /\ jobs = << >>
  /\ sender = [t \in Background |-> Idle]
  /\ main = "idle"
  /\ requested = {}
  /\ ran = << >>

(***************************************************************************)
(* RunOnJSMainThread on a background thread.                               *)
(***************************************************************************)
\* GetInstanceData returns null: the job is skipped
Skip(t, j) ==
  /\ sender[t] = Idle
  /\ j \notin requested
  /\ instance = "destroyed"
  /\ requested' = requested \cup {j}
  /\ UNCHANGED <<env, pending, lock, jobs, sender, main, ran>>

CheckInstanceData(t, j) ==
  /\ sender[t] = Idle
  /\ j \notin requested
  /\ instance = "live"
  /\ requested' = requested \cup {j}
  /\ sender' = [sender EXCEPT ![t] = [at |-> "checked", job |-> j]]
  /\ UNCHANGED <<env, pending, lock, jobs, main, ran>>

LockQueue(t) ==
  /\ sender[t].at = "checked"
  /\ instance = "live"
  /\ lock = None
  /\ lock' = t
  /\ Move(t, "locked")
  /\ UNCHANGED <<env, pending, jobs, main, requested, ran>>

Emplace(t) ==
  /\ sender[t].at = "locked"
  /\ instance = "live"
  /\ jobs' = Append(jobs, sender[t].job)
  /\ Move(t, "added")
  /\ UNCHANGED <<env, pending, lock, main, requested, ran>>

\* uv_async_send: a handle that is being closed takes the signal and will
\* not deliver it
Send(t) ==
  /\ sender[t].at = "added"
  /\ handle # "deleted"
  /\ pending' = TRUE
  /\ Move(t, "sent")
  /\ UNCHANGED <<env, lock, jobs, main, requested, ran>>

UnlockQueue(t) ==
  /\ sender[t].at = "sent"
  /\ instance = "live"
  /\ lock' = None
  /\ sender' = [sender EXCEPT ![t] = Idle]
  /\ UNCHANGED <<env, pending, jobs, main, requested, ran>>

\* the thread touches what has been deleted under it
Crash(t) ==
  /\ \/ sender[t].at \in {"checked", "locked", "sent"} /\ instance = "destroyed"
     \/ sender[t].at = "added" /\ handle = "deleted"
  /\ Move(t, "crashed")
  /\ UNCHANGED <<env, pending, lock, jobs, main, requested, ran>>

(***************************************************************************)
(* The JavaScript thread.                                                  *)
(***************************************************************************)
\* RunOnJSMainThread called on the JavaScript thread itself, which runs the
\* job at once, or skips it
RunDirectly(j) ==
  /\ main = "idle"
  /\ j \notin requested
  /\ requested' = requested \cup {j}
  /\ UNCHANGED <<env, pending, lock, jobs, sender, main, ran>>

\* the event loop sees the signal and calls RunMainThreadQueue
Wake ==
  /\ main = "idle"
  /\ handle = "open"
  /\ pending
  /\ pending' = FALSE
  /\ main' = "woken"
  /\ UNCHANGED <<env, lock, jobs, sender, requested, ran>>

EnterQueue ==
  /\ main = "woken"
  /\ lock = None
  /\ lock' = Main
  /\ main' = "locked"
  /\ UNCHANGED <<env, pending, jobs, sender, requested, ran>>

RunFront ==
  /\ main = "locked"
  /\ jobs # << >>
  /\ ran' = Append(ran, Head(jobs))
  /\ main' = "ran"
  /\ UNCHANGED <<env, pending, lock, jobs, sender, requested>>

\* Mutant of Pop: the job stays in the queue.
PopNothing ==
  /\ main = "ran"
  /\ main' = "locked"
  /\ UNCHANGED <<env, pending, lock, jobs, sender, requested, ran>>

Pop ==
  /\ main = "ran"
  /\ jobs' = Tail(jobs)
  /\ main' = "locked"
  /\ UNCHANGED <<env, pending, lock, sender, requested, ran>>

\* Mutant of LeaveQueue: one job for each signal.
LeaveAfterOne ==
  /\ main = "locked"
  /\ lock' = None
  /\ main' = "idle"
  /\ UNCHANGED <<env, pending, jobs, sender, requested, ran>>

LeaveQueue ==
  /\ main = "locked"
  /\ jobs = << >>
  /\ lock' = None
  /\ main' = "idle"
  /\ UNCHANGED <<env, pending, jobs, sender, requested, ran>>

(***************************************************************************)
(* The end of the environment.                                             *)
(***************************************************************************)
\* the cleanup hook: uv_close
CleanupHook ==
  /\ main = "idle"
  /\ handle = "open"
  /\ handle' = "closing"
  /\ UNCHANGED <<instance, pending, lock, jobs, sender, main, requested, ran>>

\* its bottom half: the handle is deleted and the hook removed
CloseCallback ==
  /\ main = "idle"
  /\ handle = "closing"
  /\ handle' = "deleted"
  /\ UNCHANGED <<instance, pending, lock, jobs, sender, main, requested, ran>>

\* ~BaseEnvInstanceData, with whatever jobs are on the queue
DestroyInstance ==
  /\ main = "idle"
  /\ handle = "deleted"
  /\ instance = "live"
  /\ instance' = "destroyed"
  /\ UNCHANGED <<handle, pending, lock, jobs, sender, main, requested, ran>>

SenderStep(t) ==
  \/ LockQueue(t)
  \/ Emplace(t)
  \/ Send(t)
  \/ UnlockQueue(t)
  \/ Crash(t)

LoopStep == Wake \/ EnterQueue \/ RunFront \/ Pop \/ LeaveQueue

Next ==
  \/ \E t \in Background, j \in Jobs : Skip(t, j) \/ CheckInstanceData(t, j)
  \/ \E t \in Background : SenderStep(t)
  \/ \E j \in Jobs : RunDirectly(j)
  \/ LoopStep
  \/ CleanupHook
  \/ CloseCallback
  \/ DestroyInstance

Spec == Init /\ [][Next]_vars

\* The background threads finish the calls they have begun and the event
\* loop turns; nobody is obliged to hand over a job or to end the program.
FairSpec ==
  /\ Spec
  /\ \A t \in Background : WF_vars(SenderStep(t))
  /\ WF_vars(LoopStep)

-----------------------------------------------------------------------------
(***************************************************************************)
(* Properties.                                                             *)
(***************************************************************************)
\* Every variable has its type: the handle, the queue and the threads go
\* through no state but those of the code.
TypeOK ==
  /\ instance \in {"live", "destroyed"}
  /\ handle \in {"open", "closing", "deleted"}
  /\ pending \in BOOLEAN
  /\ lock \in Background \cup {Main, None}
  /\ jobs \in Seq(Jobs)
  /\ sender \in [Background -> Senders]
  /\ main \in MainStates
  /\ requested \subseteq Jobs
  /\ ran \in Seq(Jobs)

\* No wakeup is lost although sends coalesce and a job may be added while
\* the queue is being emptied: as long as the handle is open, a job that
\* waits has a signal, a sender that is about to signal, or a call of
\* RunMainThreadQueue that has not finished emptying the queue.
NoLostWakeup ==
  jobs # << >> /\ handle = "open" =>
    \/ pending
    \/ \E t \in Background : sender[t].at = "added"
    \/ main # "idle"

\* the queue as its users see it: a job leaves it when it is run
Promise == INSTANCE JobQueue WITH
  waiting <- IF main = "ran" THEN Tail(jobs) ELSE jobs,
  done    <- ran,
  mode    <- CASE handle = "open"       -> "serving"
               [] instance = "destroyed" -> "ended"
               [] OTHER                 -> "ending"

\* The queue, its lock, the coalescing handle and the teardown implement
\* what RunOnJSMainThread promises: in order, at most once, one at a time,
\* and only while the environment is running.
KeepsPromise == Promise!Spec

\* A job handed over by a background thread is eventually run, unless the
\* environment ends, also when its signal was merged with an earlier one.
EveryJobRuns ==
  \A j \in Jobs :
    (\E t \in Background : sender[t] = [at |-> "checked", job |-> j])
      ~> \/ \E i \in DOMAIN ran : ran[i] = j
         \/ handle # "open"
=============================================================================
