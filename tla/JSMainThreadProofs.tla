------------------------- MODULE JSMainThreadProofs -------------------------
(***************************************************************************)
(* Proofs about JSMainThread for any number of jobs and threads: its type  *)
(* invariant, that coalescing loses no wakeup, and that it implements      *)
(* JobQueue.                                                               *)
(*                                                                         *)
(* The refinement needs to know that the job a thread is about to add has  *)
(* not been added or run before (Fresh), that nobody touches the queue     *)
(* between the run of a job and its removal (Locks), and that the event    *)
(* loop has left the queue when the handle is closed (Teardown).           *)
(***************************************************************************)
EXTENDS JSMainThread, SequenceTheorems, TLAPS

Elements(s) == {s[i] : i \in DOMAIN s}

\* the lock is held by the thread that is inside the queue
Locks ==
  /\ main \in {"locked", "ran"} => lock = Main
  /\ \A t \in Background :
       sender[t].at \in {"locked", "added", "sent"} => lock = t
  /\ main = "ran" => jobs # << >>

\* every job is on its way through one place only
Fresh ==
  /\ Elements(jobs) \cup Elements(ran) \subseteq requested
  /\ \A t \in Background :
       sender[t] # Idle => sender[t].job \in requested
  /\ \A t \in Background :
       sender[t].at \in {"checked", "locked"} =>
         sender[t].job \notin Elements(jobs) \cup Elements(ran)
  /\ \A t, u \in Background :
       t # u /\ sender[t] # Idle /\ sender[u] # Idle =>
         sender[t].job # sender[u].job

\* the handle is closed from the event loop, and before the instance data
Teardown ==
  /\ handle # "open" => main = "idle"
  /\ instance = "destroyed" => handle = "deleted"

IInv == TypeOK /\ Locks /\ Fresh /\ Teardown

(***************************************************************************)
(* Sequences.                                                              *)
(***************************************************************************)
LEMMA ElementsOfAppend ==
  ASSUME NEW S, NEW s \in Seq(S), NEW e \in S
  PROVE  /\ Append(s, e) \in Seq(S)
         /\ Elements(Append(s, e)) = Elements(s) \cup {e}
<1>1. /\ Append(s, e) \in Seq(S)
      /\ DOMAIN s = 1 .. Len(s) /\ Len(s) \in Nat
      /\ DOMAIN Append(s, e) = 1 .. Len(s) + 1
      /\ \A i \in 1 .. Len(s) : Append(s, e)[i] = s[i]
      /\ Append(s, e)[Len(s) + 1] = e
  BY AppendProperties, LenProperties
<1>. QED
  BY <1>1 DEF Elements

LEMMA ElementsOfTail ==
  ASSUME NEW S, NEW s \in Seq(S), s # << >>
  PROVE  /\ Head(s) \in S /\ Head(s) \in Elements(s)
         /\ Tail(s) \in Seq(S)
         /\ Elements(Tail(s)) \subseteq Elements(s)
<1>1. /\ Head(s) \in S /\ Head(s) = s[1]
      /\ Tail(s) \in Seq(S)
      /\ Len(s) \in Nat \ {0} /\ Len(Tail(s)) = Len(s) - 1
      /\ DOMAIN s = 1 .. Len(s) /\ DOMAIN Tail(s) = 1 .. Len(s) - 1
      /\ \A i \in 1 .. Len(s) - 1 : Tail(s)[i] = s[i + 1]
  BY HeadTailProperties, LenProperties, EmptySeq
<1>. QED
  BY <1>1 DEF Elements

(***************************************************************************)
(* The inductive invariant.                                                *)
(***************************************************************************)
LEMMA InvInit == Init => IInv
<1> SUFFICES ASSUME Init PROVE IInv
  OBVIOUS
<1> USE DEF Init
<1>1. TypeOK
  <2>1. sender \in [Background -> Senders]
    BY DEF Senders
  <2>2. jobs \in Seq(Jobs) /\ ran \in Seq(Jobs)
    OBVIOUS
  <2>. QED
    BY <2>1, <2>2 DEF TypeOK, MainStates
<1>2. Elements(jobs) \cup Elements(ran) = {}
  BY DEF Elements
<1>3. Locks /\ Fresh /\ Teardown
  BY <1>2 DEF Locks, Fresh, Teardown, Idle
<1>. QED
  BY <1>1, <1>3 DEF IInv

\* a thread that moves on to another place keeps its job
LEMMA MoveTyped ==
  ASSUME TypeOK, NEW t \in Background, sender[t] # Idle,
         NEW place \in {"checked", "locked", "added", "sent", "crashed"},
         Move(t, place)
  PROVE  sender' \in [Background -> Senders]
<1>1. sender \in [Background -> Senders]
  BY DEF TypeOK
<1>2. sender[t] \in Senders /\ sender[t].job \in Jobs
  BY <1>1 DEF Senders
<1>3. [at |-> place, job |-> sender[t].job] \in Senders
  BY <1>2 DEF Senders
<1>. QED
  BY <1>1, <1>3 DEF Move

LEMMA TypeStep == TypeOK /\ Locks /\ [Next]_vars => TypeOK'
<1> SUFFICES ASSUME TypeOK, Locks, [Next]_vars PROVE TypeOK'
  OBVIOUS
<1> USE DEF TypeOK, Senders, Idle, MainStates, env
<1>1. ASSUME NEW t \in Background, NEW j \in Jobs,
             Skip(t, j) \/ CheckInstanceData(t, j)
      PROVE  TypeOK'
  BY <1>1 DEF Skip, CheckInstanceData
<1>2. ASSUME NEW t \in Background, LockQueue(t) \/ UnlockQueue(t)
      PROVE  TypeOK'
  BY <1>2 DEF LockQueue, UnlockQueue, Move
<1>3. ASSUME NEW t \in Background, Emplace(t)
      PROVE  TypeOK'
  <2>1. sender[t].job \in Jobs
    BY <1>3 DEF Emplace
  <2>2. jobs' \in Seq(Jobs)
    BY <1>3, <2>1, ElementsOfAppend DEF Emplace
  <2>. QED
    BY <1>3, <2>2 DEF Emplace, Move
<1>4. ASSUME NEW t \in Background, Send(t) \/ Crash(t)
      PROVE  TypeOK'
  <2>1. sender[t] # Idle
    BY <1>4 DEF Send, Crash
  <2>2. sender' \in [Background -> Senders]
    BY <1>4, <2>1, MoveTyped DEF Send, Crash
  <2>. QED
    BY <1>4, <2>2 DEF Send, Crash
<1>5. ASSUME RunFront
      PROVE  TypeOK'
  <2>1. ran' \in Seq(Jobs)
    BY <1>5, ElementsOfTail, ElementsOfAppend DEF RunFront
  <2>. QED
    BY <1>5, <2>1 DEF RunFront
<1>6. ASSUME Pop
      PROVE  TypeOK'
  <2>1. jobs' \in Seq(Jobs)
    BY <1>6, ElementsOfTail DEF Pop, Locks
  <2>. QED
    BY <1>6, <2>1 DEF Pop
<1>7. ASSUME Wake \/ EnterQueue \/ LeaveQueue
      PROVE  TypeOK'
  BY <1>7 DEF Wake, EnterQueue, LeaveQueue
<1>8. ASSUME NEW j \in Jobs, RunDirectly(j)
      PROVE  TypeOK'
  BY <1>8 DEF RunDirectly
<1>9. ASSUME CleanupHook \/ CloseCallback \/ DestroyInstance
      PROVE  TypeOK'
  BY <1>9 DEF CleanupHook, CloseCallback, DestroyInstance
<1>10. CASE UNCHANGED vars
  BY <1>10 DEF vars
<1>. QED
  BY <1>1, <1>2, <1>3, <1>4, <1>5, <1>6, <1>7, <1>8, <1>9, <1>10
     DEF Next, SenderStep, LoopStep

LEMMA LocksStep == TypeOK /\ Locks /\ [Next]_vars => Locks'
<1> SUFFICES ASSUME TypeOK, Locks, [Next]_vars PROVE Locks'
  OBVIOUS
<1> USE DEF TypeOK, Senders, Idle, MainStates, env, Locks
<1>1. ASSUME NEW t \in Background, NEW j \in Jobs,
             Skip(t, j) \/ CheckInstanceData(t, j)
      PROVE  Locks'
  BY <1>1 DEF Skip, CheckInstanceData
<1>2. ASSUME NEW t \in Background, LockQueue(t) \/ UnlockQueue(t)
      PROVE  Locks'
  BY <1>2, ThreadsAssumption DEF LockQueue, UnlockQueue, Move
<1>3. ASSUME NEW t \in Background, Emplace(t)
      PROVE  Locks'
  BY <1>3, ThreadsAssumption DEF Emplace, Move
<1>4. ASSUME NEW t \in Background, Send(t) \/ Crash(t)
      PROVE  Locks'
  BY <1>4 DEF Send, Crash, Move
<1>5. ASSUME LoopStep
      PROVE  Locks'
  BY <1>5, ThreadsAssumption
     DEF LoopStep, Wake, EnterQueue, RunFront, Pop, LeaveQueue
<1>6. ASSUME NEW j \in Jobs, RunDirectly(j)
      PROVE  Locks'
  BY <1>6 DEF RunDirectly
<1>7. ASSUME CleanupHook \/ CloseCallback \/ DestroyInstance
      PROVE  Locks'
  BY <1>7 DEF CleanupHook, CloseCallback, DestroyInstance
<1>8. CASE UNCHANGED vars
  BY <1>8 DEF vars
<1>. QED
  BY <1>1, <1>2, <1>3, <1>4, <1>5, <1>6, <1>7, <1>8 DEF Next, SenderStep

LEMMA TeardownStep == TypeOK /\ Teardown /\ [Next]_vars => Teardown'
  BY DEF TypeOK, Teardown, Next, vars, env, Skip, CheckInstanceData,
         SenderStep, LockQueue, Emplace, Send, UnlockQueue, Crash, RunDirectly,
         LoopStep, Wake, EnterQueue, RunFront, Pop, LeaveQueue, CleanupHook,
         CloseCallback, DestroyInstance, Move

LEMMA FreshStep == IInv /\ [Next]_vars => Fresh'
<1> SUFFICES ASSUME IInv, [Next]_vars PROVE Fresh'
  OBVIOUS
<1> USE DEF IInv, TypeOK, Senders, Idle, Locks, Fresh, env
<1>1. ASSUME NEW t \in Background, NEW j \in Jobs, Skip(t, j)
      PROVE  Fresh'
  BY <1>1 DEF Skip
<1>2. ASSUME NEW t \in Background, NEW j \in Jobs, CheckInstanceData(t, j)
      PROVE  Fresh'
  <2>1. /\ sender' = [sender EXCEPT ![t] = [at |-> "checked", job |-> j]]
        /\ requested' = requested \cup {j} /\ j \notin requested
        /\ UNCHANGED <<jobs, ran>>
    BY <1>2 DEF CheckInstanceData
  <2>2. \A u \in Background :
          u # t /\ sender[u] # Idle => sender[u].job # j
    BY <2>1
  <2>. QED
    BY <2>1, <2>2
<1>3. ASSUME NEW t \in Background,
             LockQueue(t) \/ UnlockQueue(t) \/ Send(t) \/ Crash(t)
      PROVE  Fresh'
  <2>1. UNCHANGED <<jobs, ran, requested>>
    BY <1>3 DEF LockQueue, UnlockQueue, Send, Crash
  <2>2. \A u \in Background : sender'[u] # Idle =>
          /\ sender[u] # Idle /\ sender'[u].job = sender[u].job
          /\ sender'[u].at \in {"checked", "locked"} =>
               sender[u].at \in {"checked", "locked"}
    BY <1>3 DEF LockQueue, UnlockQueue, Send, Crash, Move
  <2>3. \A u \in Background :
          sender'[u].at \in {"checked", "locked"} => sender'[u] # Idle
    OBVIOUS
  <2>. QED
    BY <2>1, <2>2, <2>3
<1>4. ASSUME NEW t \in Background, Emplace(t)
      PROVE  Fresh'
  <2>1. sender[t].job \in Jobs
    BY <1>4 DEF Emplace
  <2>2. Elements(jobs') = Elements(jobs) \cup {sender[t].job}
    BY <1>4, <2>1, ElementsOfAppend DEF Emplace
  <2>. QED
    BY <1>4, <2>1, <2>2, ThreadsAssumption DEF Emplace, Move
<1>5. ASSUME RunFront
      PROVE  Fresh'
  <2>1. Elements(ran') = Elements(ran) \cup {Head(jobs)}
        /\ Head(jobs) \in Elements(jobs)
    BY <1>5, ElementsOfTail, ElementsOfAppend DEF RunFront
  <2>. QED
    BY <1>5, <2>1 DEF RunFront
<1>6. ASSUME Pop
      PROVE  Fresh'
  <2>1. Elements(jobs') \subseteq Elements(jobs)
    BY <1>6, ElementsOfTail DEF Pop
  <2>. QED
    BY <1>6, <2>1 DEF Pop
<1>7. ASSUME NEW j \in Jobs, RunDirectly(j)
      PROVE  Fresh'
  BY <1>7 DEF RunDirectly
<1>8. ASSUME \/ Wake \/ EnterQueue \/ LeaveQueue \/ CleanupHook
             \/ CloseCallback \/ DestroyInstance \/ UNCHANGED vars
      PROVE  Fresh'
  BY <1>8 DEF Wake, EnterQueue, LeaveQueue, CleanupHook, CloseCallback,
              DestroyInstance, vars
<1>. QED
  BY <1>1, <1>2, <1>3, <1>4, <1>5, <1>6, <1>7, <1>8
     DEF Next, SenderStep, LoopStep

LEMMA Invariance == Spec => []IInv
<1>1. IInv /\ [Next]_vars => IInv'
  BY TypeStep, LocksStep, FreshStep, TeardownStep DEF IInv
<1>. QED
  BY <1>1, InvInit, PTL DEF Spec

\* Every reachable state is well typed.
THEOREM TypeCorrect == Spec => []TypeOK
<1>1. IInv => TypeOK
  BY DEF IInv
<1>. QED
  BY <1>1, Invariance, PTL

(***************************************************************************)
(* No wakeup is lost.                                                      *)
(***************************************************************************)
LEMMA WakeupStep == TypeOK /\ NoLostWakeup /\ [Next]_vars => NoLostWakeup'
<1> SUFFICES ASSUME TypeOK, NoLostWakeup, [Next]_vars PROVE NoLostWakeup'
  OBVIOUS
<1> USE DEF TypeOK, Senders, Idle, NoLostWakeup, env
<1>1. ASSUME NEW t \in Background, NEW j \in Jobs,
             Skip(t, j) \/ CheckInstanceData(t, j)
      PROVE  NoLostWakeup'
  BY <1>1 DEF Skip, CheckInstanceData
<1>2. ASSUME NEW t \in Background, LockQueue(t) \/ UnlockQueue(t) \/ Crash(t)
      PROVE  NoLostWakeup'
  BY <1>2 DEF LockQueue, UnlockQueue, Crash, Move
<1>3. ASSUME NEW t \in Background, Emplace(t)
      PROVE  NoLostWakeup'
  BY <1>3 DEF Emplace, Move
<1>4. ASSUME NEW t \in Background, Send(t)
      PROVE  NoLostWakeup'
  BY <1>4 DEF Send
<1>5. ASSUME LoopStep
      PROVE  NoLostWakeup'
  BY <1>5 DEF LoopStep, Wake, EnterQueue, RunFront, Pop, LeaveQueue
<1>6. ASSUME NEW j \in Jobs, RunDirectly(j)
      PROVE  NoLostWakeup'
  BY <1>6 DEF RunDirectly
<1>7. ASSUME CleanupHook \/ CloseCallback \/ DestroyInstance
      PROVE  NoLostWakeup'
  BY <1>7 DEF CleanupHook, CloseCallback, DestroyInstance
<1>8. CASE UNCHANGED vars
  BY <1>8 DEF vars
<1>. QED
  BY <1>1, <1>2, <1>3, <1>4, <1>5, <1>6, <1>7, <1>8 DEF Next, SenderStep

\* A job that waits while the handle is open has a wakeup on its way, or is
\* about to be reached by the loop that empties the queue, although any
\* number of sends are delivered as one.
THEOREM Wakeups == Spec => []NoLostWakeup
<1>1. Init => NoLostWakeup
  BY DEF Init, NoLostWakeup
<1>. QED
  BY <1>1, WakeupStep, TypeCorrect, PTL DEF Spec

(***************************************************************************)
(* The refinement.                                                         *)
(***************************************************************************)
Waiting == IF main = "ran" THEN Tail(jobs) ELSE jobs

Mode ==
  CASE handle = "open"        -> "serving"
    [] instance = "destroyed" -> "ended"
    [] OTHER                  -> "ending"

LEMMA PromiseInit == Init => Promise!Init
  BY DEF Init, Promise!Init

\* Adding a job is the step of the promise that accepts it.
LEMMA EmplaceAccepts ==
  ASSUME IInv, NEW t \in Background, Emplace(t)
  PROVE  Promise!Accept(sender[t].job) /\ sender[t].job \in Jobs
<1> USE DEF IInv, TypeOK, Senders, Idle, Locks, Emplace, env
<1>1. main # "ran" /\ main' = main
  BY ThreadsAssumption
<1>2. /\ \A i \in DOMAIN jobs : jobs[i] # sender[t].job
      /\ \A i \in DOMAIN ran : ran[i] # sender[t].job
  BY DEF Fresh, Elements
<1>. QED
  BY <1>1, <1>2 DEF Promise!Accept, Teardown

LEMMA PromiseStep ==
  IInv /\ [Next]_vars => [Promise!Next]_<<Waiting, ran, Mode>>
<1> SUFFICES ASSUME IInv, [Next]_vars
             PROVE  Promise!Next \/ UNCHANGED <<Waiting, ran, Mode>>
  OBVIOUS
<1> USE DEF Waiting, Mode, env
<1>1. ASSUME NEW t \in Background, Emplace(t)
      PROVE  Promise!Next
  BY <1>1, EmplaceAccepts DEF Promise!Next
<1>2. ASSUME RunFront
      PROVE  Promise!Run
  BY <1>2 DEF RunFront, Promise!Run, IInv, TypeOK, Teardown
<1>3. ASSUME CleanupHook \/ DestroyInstance
      PROVE  Promise!End
  BY <1>3 DEF CleanupHook, DestroyInstance, Promise!End, IInv, Teardown, TypeOK
<1>4. ASSUME \/ \E t \in Background, j \in Jobs :
                  Skip(t, j) \/ CheckInstanceData(t, j)
             \/ \E t \in Background :
                  LockQueue(t) \/ Send(t) \/ UnlockQueue(t) \/ Crash(t)
             \/ \E j \in Jobs : RunDirectly(j)
      PROVE  UNCHANGED <<Waiting, ran, Mode>>
  BY <1>4 DEF Skip, CheckInstanceData, LockQueue, Send, UnlockQueue, Crash,
              RunDirectly
<1>5. ASSUME Wake \/ EnterQueue \/ Pop \/ LeaveQueue \/ CloseCallback
      PROVE  UNCHANGED <<Waiting, ran, Mode>>
  BY <1>5 DEF Wake, EnterQueue, Pop, LeaveQueue, CloseCallback, IInv, TypeOK
<1>6. CASE UNCHANGED vars
  BY <1>6 DEF vars
<1>. QED
  BY <1>1, <1>2, <1>3, <1>4, <1>5, <1>6
     DEF Next, SenderStep, LoopStep, Promise!Next

\* What background threads are promised is what the queue, its lock, the
\* coalescing handle and the teardown do: jobs are run in the order in which
\* they were accepted, each at most once, and none after the hook.
THEOREM Refinement == Spec => KeepsPromise
<1>1. IInv /\ [Next]_vars => [Promise!Next]_<<Waiting, ran, Mode>>
  BY PromiseStep
<1>. QED
  BY <1>1, PromiseInit, Invariance, PTL
     DEF Spec, KeepsPromise, Promise!Spec, Waiting, Mode
=============================================================================
