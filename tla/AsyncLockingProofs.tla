------------------------- MODULE AsyncLockingProofs -------------------------
(***************************************************************************)
(* Mutual exclusion of calls, for every program: any number of objects,    *)
(* threads and calls, any arguments, and both orders of tuples.  And for   *)
(* the programs whose guards follow an order: no two threads wait for each *)
(* other, in particular if the objects can be numbered in that order.      *)
(***************************************************************************)
EXTENDS AsyncLocking, SequenceTheorems, WellFoundedInduction, TLAPS

-----------------------------------------------------------------------------
(***************************************************************************)
(* Guards.                                                                 *)
(***************************************************************************)
LEMMA ReverseIsSeq ==
  ASSUME NEW S, NEW s \in Seq(S)
  PROVE  /\ Reverse(s) \in Seq(S)
         /\ Len(Reverse(s)) = Len(s)
         /\ \A i \in 1 .. Len(s) : Reverse(s)[i] = s[Len(s) - i + 1]
<1>1. \A i \in 1 .. Len(s) : s[Len(s) - i + 1] \in S
  OBVIOUS
<1>. QED
  BY <1>1 DEF Reverse

\* A guard is a sequence of objects.
LEMMA GuardsTyping ==
  ASSUME NEW c \in Calls
  PROVE  Guards(c) \in Seq(Seq(Objects))
<1>1. This[c] \in Seq(Objects) /\ Args[c] \in Seq(Seq(Objects))
  BY CallsAssumption
<1>2. Reverse(Args[c]) \in Seq(Seq(Objects))
  BY <1>1, ReverseIsSeq
<1>. QED
  BY <1>1, <1>2 DEF Guards

LEMMA Mirrored ==
  ASSUME NEW n \in Nat, NEW i \in 1 .. n
  PROVE  n - i + 1 \in 1 .. n /\ n - (n - i + 1) + 1 = i
OBVIOUS

\* Every argument is a guard, in either order.
LEMMA ArgumentsAreGuards ==
  ASSUME NEW c \in Calls, NEW i \in DOMAIN Args[c]
  PROVE  \E j \in DOMAIN Guards(c) : Guards(c)[j] = Args[c][i]
<1>1. This[c] \in Seq(Objects) /\ Args[c] \in Seq(Seq(Objects))
  BY CallsAssumption
<1>2. Len(Args[c]) \in Nat /\ i \in 1 .. Len(Args[c])
  BY <1>1, LenProperties
<1>3. /\ <<This[c]>> \in Seq(Seq(Objects)) /\ Len(<<This[c]>>) = 1
      /\ \A s \in Seq(Seq(Objects)) : \A k \in 1 .. Len(s) :
           /\ k + 1 \in DOMAIN (<<This[c]>> \o s)
           /\ (<<This[c]>> \o s)[k + 1] = s[k]
  BY <1>1
<1>4. CASE LastFirst
  <2> DEFINE j == Len(Args[c]) - i + 1
  <2>1. /\ Reverse(Args[c]) \in Seq(Seq(Objects))
        /\ Len(Reverse(Args[c])) = Len(Args[c])
        /\ \A k \in 1 .. Len(Args[c]) :
             Reverse(Args[c])[k] = Args[c][Len(Args[c]) - k + 1]
    BY <1>1, ReverseIsSeq
  <2>2. j \in 1 .. Len(Args[c]) /\ Len(Args[c]) - j + 1 = i
    BY <1>2, Mirrored
  <2>. HIDE DEF j
  <2>3. Reverse(Args[c])[j] = Args[c][i]
    BY <2>1, <2>2
  <2>4. j + 1 \in DOMAIN Guards(c) /\ Guards(c)[j + 1] = Reverse(Args[c])[j]
    <3>1. Guards(c) = <<This[c]>> \o Reverse(Args[c])
      BY <1>4 DEF Guards
    <3>2. Reverse(Args[c]) \in Seq(Seq(Objects)) /\ j \in 1 .. Len(Reverse(Args[c]))
      BY <2>1, <2>2
    <3>3. /\ j + 1 \in DOMAIN (<<This[c]>> \o Reverse(Args[c]))
          /\ (<<This[c]>> \o Reverse(Args[c]))[j + 1] = Reverse(Args[c])[j]
      BY <1>3, <3>2
    <3>. QED
      BY <3>1, <3>3
  <2>. QED
    BY <2>3, <2>4
<1>5. CASE ~LastFirst
  <2>1. i + 1 \in DOMAIN Guards(c) /\ Guards(c)[i + 1] = Args[c][i]
    <3>1. Guards(c) = <<This[c]>> \o Args[c]
      BY <1>5 DEF Guards
    <3>. QED
      BY <1>1, <1>2, <1>3, <3>1
  <2>. QED
    BY <2>1
<1>. QED
  BY <1>4, <1>5

\* The objects a function works on are those that its guards lock.
LEMMA GuardsCoverUsed ==
  ASSUME NEW c \in Calls, NEW o \in Used(c)
  PROVE  \E i \in DOMAIN Guards(c) : o \in ToSet(Guards(c)[i])
<1>1. CASE o \in ToSet(This[c])
  <2>1. This[c] \in Seq(Objects) /\ Args[c] \in Seq(Seq(Objects))
    BY CallsAssumption
  <2>2. 1 \in DOMAIN Guards(c) /\ Guards(c)[1] = This[c]
    BY <2>1, ReverseIsSeq DEF Guards
  <2>. QED
    BY <1>1, <2>2
<1>2. CASE \E i \in DOMAIN Args[c] : o \in ToSet(Args[c][i])
  BY <1>2, ArgumentsAreGuards
<1>. QED
  BY <1>1, <1>2 DEF Used

-----------------------------------------------------------------------------
(***************************************************************************)
(* The inductive invariant.                                                *)
(***************************************************************************)
\* where a busy thread is in its call
Position(t) ==
  LET g == Guards(run[t].call) IN
  Busy(t) =>
    /\ run[t].guard \in 1 .. Len(g) + 1
    /\ run[t].elem # 0 => run[t].phase = "locking" /\ run[t].guard <= Len(g)
    /\ run[t].guard <= Len(g) => run[t].elem <= Len(g[run[t].guard])
    /\ run[t].phase = "calling" => run[t].guard = Len(g) + 1
    /\ run[t].phase \in {"converting", "delivering"} => run[t].guard = 1
    /\ t \in Pool => run[t].call \in Async

\* Mutexes are not recursive: a thread never takes one twice, so that what a
\* guard releases is held by no other guard of the thread.
Apart(t) ==
  LET g == Guards(run[t].call) IN
  Busy(t) =>
    \A i, j \in DOMAIN g :
      i < j => /\ j < run[t].guard => ToSet(g[i]) \cap ToSet(g[j]) = {}
               /\ j = run[t].guard =>
                    \A k \in 1 .. run[t].elem : g[j][k] \notin ToSet(g[i])

LInv ==
  /\ TypeOK
  /\ LocksAreGuarded
  /\ \A t \in Threads : Position(t) /\ Apart(t)

\* Only a guard that has several objects can throw half-way.
OneObjectPerGuard ==
  \A c \in Calls : \A i \in DOMAIN Guards(c) : Len(Guards(c)[i]) <= 1

LEMMA InvInit == Init => LInv
<1> SUFFICES ASSUME Init PROVE LInv
  OBVIOUS
<1>1. TypeOK
  BY EmptySeq DEF Init, TypeOK, Idle
<1>2. \A t \in Threads : ~Busy(t)
  BY DEF Init, Busy, Idle
<1>3. LocksAreGuarded
  BY <1>2, ThreadsAssumption DEF Init, LocksAreGuarded, Acquired, Threads
<1>. QED
  BY <1>1, <1>2, <1>3 DEF LInv, Position, Apart

\* A step of one thread that takes or releases no mutex and keeps what the
\* thread has acquired keeps the correspondence.
LEMMA NothingAcquired ==
  ASSUME LInv, NEW t \in Threads, NEW r,
         run' = [run EXCEPT ![t] = r], UNCHANGED lock,
         Acquired(t)' = Acquired(t)
  PROVE  LocksAreGuarded'
<1>1. \A u \in Threads : u # t => run'[u] = run[u]
  BY DEF LInv, TypeOK
<1>2. ASSUME NEW u \in Threads, u # t
      PROVE  Acquired(u)' = Acquired(u)
  BY <1>1, <1>2 DEF Acquired, Busy
<1>. QED
  BY <1>2 DEF LInv, LocksAreGuarded

\* The other threads are where they were.
LEMMA OthersStay ==
  ASSUME LInv, NEW t \in Threads, NEW r, run' = [run EXCEPT ![t] = r],
         Position(t)', Apart(t)'
  PROVE  \A u \in Threads : Position(u)' /\ Apart(u)'
<1>1. \A u \in Threads : u # t => run'[u] = run[u]
  BY DEF LInv, TypeOK
<1>2. ASSUME NEW u \in Threads, u # t
      PROVE  Position(u)' /\ Apart(u)'
  <2>1. Position(u) /\ Apart(u)
    BY DEF LInv
  <2>2. Position(u)'
    BY <1>1, <1>2, <2>1 DEF Position, Busy
  <2>3. Apart(u)'
    BY <1>1, <1>2, <2>1 DEF Apart, Busy
  <2>. QED
    BY <2>2, <2>3
<1>. QED
  BY <1>2

\* A thread that starts a call or ends one, with nothing locked.
LEMMA NothingLocked ==
  ASSUME LInv, NEW t \in Threads, NEW r \in {Idle} \cup Running,
         run' = [run EXCEPT ![t] = r], UNCHANGED lock,
         Busy(t) => run[t].guard = 1 /\ run[t].elem = 0,
         r # Idle => /\ r.phase \in Phases \ {"calling"}
                     /\ r.guard = 1 /\ r.elem = 0
                     /\ t \in Pool => r.call \in Async
  PROVE  LocksAreGuarded' /\ \A u \in Threads : Position(u)' /\ Apart(u)'
<1>1. run'[t] = r /\ run[t] \in {Idle} \cup Running
  BY DEF LInv, TypeOK
<1>2. Acquired(t) = {}
  BY <1>1, GuardsTyping DEF Acquired, Busy, Running
<1>3. Acquired(t)' = {}
  BY <1>1, GuardsTyping DEF Acquired, Busy, Running, Idle
<1>4. Position(t)'
  BY <1>1, GuardsTyping DEF Position, Busy, Running, Idle, Phases
<1>5. Apart(t)'
  BY <1>1, GuardsTyping DEF Apart, Busy, Running, Idle
<1>. QED
  BY <1>2, <1>3, <1>4, <1>5, NothingAcquired, OthersStay

LEMMA RunTyping ==
  ASSUME TypeOK, NEW t \in Threads, run[t] # Idle
  PROVE  /\ run[t].call \in Calls
         /\ run[t].guard \in Nat
         /\ run[t].elem \in Nat
         /\ run[t] = At(run[t].phase, run[t].call, run[t].guard, run[t].elem)
  BY DEF TypeOK, Running, At

LEMMA AtTyping ==
  ASSUME NEW ph \in Phases, NEW c \in Calls, NEW n \in Nat, NEW e \in Nat
  PROVE  /\ At(ph, c, n, e) \in Running
         /\ At(ph, c, n, e).phase = ph
         /\ At(ph, c, n, e).call = c
         /\ At(ph, c, n, e).guard = n
         /\ At(ph, c, n, e).elem = e
  BY DEF At, Running

LEMMA TypeStep ==
  ASSUME LInv, Next
  PROVE  TypeOK'
<1>. Main \in Threads /\ Pool \subseteq Threads
  BY DEF Threads
<1>. TypeOK
  BY DEF LInv
<1>. Idle \in {Idle} \cup Running
  OBVIOUS
<1>0. \A t \in Threads, ph \in Phases : run[t].phase = ph => run[t] # Idle
  BY DEF Idle, Phases
<1>. Phases = {"converting", "locking", "calling", "unlocking", "delivering"}
  BY DEF Phases
<1>1. ASSUME NEW c \in Calls, Invoke(c) PROVE TypeOK'
  BY <1>1, AtTyping DEF Invoke, TypeOK
<1>2. CASE ConversionFails
  BY <1>0, <1>2, RunTyping DEF ConversionFails, TypeOK
<1>3. CASE Queue
  BY <1>3 DEF Queue, TypeOK
<1>4. CASE StartSync
  BY <1>0, <1>4, RunTyping, AtTyping DEF StartSync, TypeOK
<1>5. CASE Complete
  <2>1. Head(finished) \in Async /\ Tail(finished) \in Seq(Async)
    BY <1>5, HeadTailProperties DEF Complete, TypeOK
  <2>. QED
    BY <1>5, <2>1, AtTyping, CallsAssumption DEF Complete, TypeOK
<1>6. CASE Deliver
  BY <1>0, <1>6, RunTyping DEF Deliver, TypeOK
<1>7. CASE FinishSync
  BY <1>0, <1>7, RunTyping DEF FinishSync, TypeOK
<1>8. CASE ThrowOnContention
  <2>1. run[Main].phase = "locking"
    BY <1>8 DEF ThrowOnContention, Awaited
  <2>. QED
    BY <1>0, <1>8, <2>1, RunTyping DEF ThrowOnContention, TypeOK
<1>9. ASSUME NEW t \in Threads, Take(t) PROVE TypeOK'
  <2>1. Head(workQueue) \in Async /\ Tail(workQueue) \in Seq(Async)
    BY <1>9, HeadTailProperties DEF Take, TypeOK
  <2>. QED
    BY <1>9, <2>1, AtTyping, CallsAssumption DEF Take, TypeOK
<1>10. ASSUME NEW t \in Threads, Lock(t) PROVE TypeOK'
  <2>1. run[t].phase = "locking"
    BY <1>10 DEF Lock, Awaited
  <2>2. run[t].elem + 1 \in Nat
    BY <1>0, <2>1, RunTyping
  <2>3. run' \in [Threads -> {Idle} \cup Running]
    BY <1>0, <1>10, <2>1, <2>2, RunTyping, AtTyping DEF Lock, TypeOK
  <2>4. lock' \in [Objects -> Threads \cup {None}]
    BY <1>10 DEF Lock, TypeOK
  <2>. QED
    BY <1>10, <2>3, <2>4 DEF Lock, TypeOK
<1>11. ASSUME NEW t \in Threads, GuardConstructed(t) PROVE TypeOK'
  <2>1. run[t].phase = "locking"
    BY <1>11 DEF GuardConstructed
  <2>2. run[t].call \in Calls /\ run[t].guard + 1 \in Nat
    BY <1>0, <2>1, RunTyping
  <2>3. run' \in [Threads -> {Idle} \cup Running]
    BY <1>0, <1>11, <2>2, AtTyping DEF GuardConstructed, TypeOK
  <2>. QED
    BY <1>11, <2>3 DEF GuardConstructed, TypeOK
<1>12. ASSUME NEW t \in Threads, Call(t) PROVE TypeOK'
  BY <1>0, <1>12, RunTyping, AtTyping DEF Call, TypeOK
<1>13. ASSUME NEW t \in Threads, Return(t) PROVE TypeOK'
  BY <1>0, <1>13, RunTyping, AtTyping DEF Return, TypeOK
<1>14. ASSUME NEW t \in Threads, Unlock(t) PROVE TypeOK'
  <2>1. run[t].phase = "unlocking" /\ run[t].guard - 1 >= 1
    BY <1>14 DEF Unlock
  <2>2. run[t].call \in Calls /\ run[t].guard - 1 \in Nat
    BY <1>0, <2>1, RunTyping
  <2>3. run' \in [Threads -> {Idle} \cup Running]
    BY <1>0, <1>14, <2>2, AtTyping DEF Unlock, TypeOK
  <2>4. lock' \in [Objects -> Threads \cup {None}]
    BY <1>14 DEF Unlock, TypeOK
  <2>. QED
    BY <1>14, <2>3, <2>4 DEF Unlock, TypeOK
<1>15. ASSUME NEW t \in Threads, FinishAsync(t) PROVE TypeOK'
  <2>1. run[t].call \in Async
    BY <1>15 DEF FinishAsync, LInv, Position, Busy
  <2>. QED
    BY <1>15, <2>1 DEF FinishAsync, TypeOK
<1>. QED
  BY <1>1, <1>2, <1>3, <1>4, <1>5, <1>6, <1>7, <1>8, <1>9, <1>10, <1>11,
     <1>12, <1>13, <1>14, <1>15 DEF Next, ThreadStep, MainStep

-----------------------------------------------------------------------------
(***************************************************************************)
(* The steps that lock and unlock.                                         *)
(***************************************************************************)

-----------------------------------------------------------------------------
(***************************************************************************)
(* The steps that lock and unlock.                                         *)
(***************************************************************************)
\* The mutexes of the other threads are as they were, and so is what those
\* threads have acquired.
LEMMA OthersKeep ==
  ASSUME LInv, NEW t \in Threads, NEW r, run' = [run EXCEPT ![t] = r],
         \A o \in Objects, u \in Threads :
           u # t => (lock'[o] = u <=> lock[o] = u),
         \A o \in Objects : lock'[o] = t <=> o \in Acquired(t)'
  PROVE  LocksAreGuarded'
<1>1. ASSUME NEW u \in Threads, u # t
      PROVE  Acquired(u)' = Acquired(u)
  <2>1. run'[u] = run[u]
    BY <1>1 DEF LInv, TypeOK
  <2>. QED
    BY <2>1 DEF Acquired, Busy
<1>2. ASSUME NEW u \in Threads
      PROVE  {o \in Objects : lock'[o] = u} = Acquired(u)'
  <2>1. CASE u # t
    BY <1>1, <2>1 DEF LInv, LocksAreGuarded
  <2>2. CASE u = t
    BY <2>2 DEF Acquired
  <2>. QED
    BY <2>1, <2>2
<1>. QED
  BY <1>2 DEF LocksAreGuarded

\* Facts about a busy thread that the next lemmas share.
LEMMA Facts ==
  ASSUME LInv, NEW t \in Threads, Busy(t)
  PROVE  LET g == Guards(run[t].call) IN
         /\ run[t].call \in Calls
         /\ run[t].guard \in Nat /\ run[t].elem \in Nat
         /\ g \in Seq(Seq(Objects)) /\ Len(g) \in Nat /\ DOMAIN g = 1 .. Len(g)
         /\ \A i \in DOMAIN g :
              /\ g[i] \in Seq(Objects)
              /\ Len(g[i]) \in Nat
              /\ DOMAIN g[i] = 1 .. Len(g[i])
              /\ \A k \in DOMAIN g[i] : g[i][k] \in Objects
         /\ \A o \in Objects : lock[o] = t <=> o \in Acquired(t)
<1>1. TypeOK /\ run[t] # Idle
  BY DEF LInv, Busy, Idle
<1>2. run[t].call \in Calls /\ run[t].guard \in Nat /\ run[t].elem \in Nat
  BY <1>1, RunTyping
<1>3. /\ Guards(run[t].call) \in Seq(Seq(Objects))
      /\ Len(Guards(run[t].call)) \in Nat
      /\ DOMAIN Guards(run[t].call) = 1 .. Len(Guards(run[t].call))
  BY <1>2, GuardsTyping, LenProperties
<1>4. ASSUME NEW i \in DOMAIN Guards(run[t].call)
      PROVE  Guards(run[t].call)[i] \in Seq(Objects)
  BY <1>3, ElementOfSeq
<1>5. ASSUME NEW s \in Seq(Objects)
      PROVE  /\ Len(s) \in Nat /\ DOMAIN s = 1 .. Len(s)
             /\ \A k \in DOMAIN s : s[k] \in Objects
  BY LenProperties
<1>6. \A o \in Objects : lock[o] = t <=> o \in Acquired(t)
  BY DEF LInv, LocksAreGuarded
<1>. QED
  BY <1>2, <1>3, <1>4, <1>5, <1>6

LEMMA LockKeeps ==
  ASSUME LInv, NEW t \in Threads, Lock(t)
  PROVE  LocksAreGuarded' /\ \A u \in Threads : Position(u)' /\ Apart(u)'
<1> DEFINE g == Guards(run[t].call)
           n == run[t].guard
           e == run[t].elem
<1>1. /\ run[t].phase = "locking" /\ Busy(t)
      /\ n \in DOMAIN g /\ e < Len(g[n])
  BY DEF Lock, Awaited, Busy
<1>2. PICK o : /\ o = g[n][e + 1]
               /\ lock[o] = None
               /\ lock' = [lock EXCEPT ![o] = t]
               /\ run' = [run EXCEPT ![t] = At("locking", run[t].call, n, e + 1)]
  BY <1>1 DEF Lock, Awaited
<1>3. /\ run[t].call \in Calls /\ n \in Nat /\ e \in Nat
      /\ Len(g) \in Nat /\ DOMAIN g = 1 .. Len(g)
      /\ Len(g[n]) \in Nat /\ DOMAIN g[n] = 1 .. Len(g[n])
      /\ o \in Objects
      /\ \A x \in Objects : lock[x] = t <=> x \in Acquired(t)
  BY <1>1, <1>2, Facts
<1>4. /\ run'[t].call = run[t].call /\ run'[t].guard = n
      /\ run'[t].elem = e + 1 /\ run'[t].phase = "locking"
  BY <1>2, <1>3 DEF LInv, TypeOK, At
<1>5. lock \in [Objects -> Threads \cup {None}] /\ None \notin Threads
  BY ThreadsAssumption DEF LInv, TypeOK, Threads
<1>6. o \notin Acquired(t)
  BY <1>2, <1>3, <1>5
<1>7. ASSUME NEW x \in Objects
      PROVE  x \in Acquired(t)' <=> x = o \/ x \in Acquired(t)
  <2>1. x \in Acquired(t)
          <=> \/ \E i \in DOMAIN g : i < n /\ x \in ToSet(g[i])
              \/ \E k \in 1 .. e : x = g[n][k]
    BY <1>1 DEF Acquired
  <2>2. x \in Acquired(t)'
          <=> \/ \E i \in DOMAIN g : i < n /\ x \in ToSet(g[i])
              \/ \E k \in 1 .. e + 1 : x = g[n][k]
    BY <1>4 DEF Acquired, Busy
  <2>3. 1 .. e + 1 = (1 .. e) \cup {e + 1}
    BY <1>3
  <2>. QED
    BY <1>2, <2>1, <2>2, <2>3
<1>8. LocksAreGuarded'
  <2>1. ASSUME NEW x \in Objects, NEW u \in Threads, u # t
        PROVE  lock'[x] = u <=> lock[x] = u
    BY <1>2, <1>5, <2>1
  <2>2. ASSUME NEW x \in Objects
        PROVE  lock'[x] = t <=> x \in Acquired(t)'
    BY <1>2, <1>3, <1>5, <1>7
  <2>. QED
    BY <1>2, <2>1, <2>2, OthersKeep
<1>9. Position(t)'
  <2>1. Position(t)
    BY DEF LInv
  <2>. QED
    BY <1>1, <1>3, <1>4, <2>1 DEF Position, Busy
<1>10. Apart(t)'
  <2>1. Apart(t)
    BY DEF LInv
  <2>2. ASSUME NEW i \in DOMAIN g, i < n PROVE o \notin ToSet(g[i])
    BY <1>1, <1>3, <1>6, <2>2 DEF Acquired
  <2>3. \A k \in 1 .. e + 1 : k = e + 1 \/ k \in 1 .. e
    BY <1>3
  <2>4. ASSUME NEW i \in DOMAIN g, NEW j \in DOMAIN g, i < j, j < n
        PROVE  ToSet(g[i]) \cap ToSet(g[j]) = {}
    BY <1>1, <2>1, <2>4 DEF Apart
  <2>5. ASSUME NEW i \in DOMAIN g, i < n, NEW k \in 1 .. e + 1
        PROVE  g[n][k] \notin ToSet(g[i])
    BY <1>1, <1>2, <2>1, <2>2, <2>3, <2>5 DEF Apart
  <2>. HIDE DEF g, n, e
  <2>. QED
    BY <1>4, <2>4, <2>5 DEF Apart, g
<1>. QED
  BY <1>2, <1>8, <1>9, <1>10, OthersStay

LEMMA GuardKeeps ==
  ASSUME LInv, NEW t \in Threads, GuardConstructed(t)
  PROVE  LocksAreGuarded' /\ \A u \in Threads : Position(u)' /\ Apart(u)'
<1> DEFINE g == Guards(run[t].call)
           n == run[t].guard
           e == run[t].elem
<1>1. /\ run[t].phase = "locking" /\ Busy(t)
      /\ n \in DOMAIN g /\ e = Len(g[n])
      /\ run' = [run EXCEPT ![t] = At("locking", run[t].call, n + 1, 0)]
      /\ UNCHANGED lock
  BY DEF GuardConstructed, Busy
<1>2. /\ run[t].call \in Calls /\ n \in Nat /\ e \in Nat
      /\ Len(g) \in Nat /\ DOMAIN g = 1 .. Len(g)
      /\ DOMAIN g[n] = 1 .. e
      /\ \A i \in DOMAIN g : Len(g[i]) \in Nat
  BY <1>1, Facts
<1>3. /\ run'[t].call = run[t].call /\ run'[t].guard = n + 1
      /\ run'[t].elem = 0 /\ run'[t].phase = "locking"
  BY <1>1, <1>2 DEF LInv, TypeOK, At
<1>4. ASSUME NEW x \in Objects
      PROVE  x \in Acquired(t)' <=> x \in Acquired(t)
  <2>1. x \in Acquired(t)
          <=> \/ \E i \in DOMAIN g : i < n /\ x \in ToSet(g[i])
              \/ \E k \in 1 .. e : x = g[n][k]
    BY <1>1 DEF Acquired
  <2>2. x \in Acquired(t)' <=> \E i \in DOMAIN g : i < n + 1 /\ x \in ToSet(g[i])
    BY <1>3 DEF Acquired, Busy
  <2>3. x \in ToSet(g[n]) <=> \E k \in 1 .. e : x = g[n][k]
    BY <1>2 DEF ToSet
  <2>4. \A i \in DOMAIN g : i < n + 1 <=> i < n \/ i = n
    BY <1>2
  <2>. QED
    BY <1>1, <2>1, <2>2, <2>3, <2>4
<1>5. Acquired(t)' = Acquired(t)
  BY <1>4 DEF Acquired
<1>6. Position(t)'
  <2>1. Position(t)
    BY DEF LInv
  <2>. QED
    BY <1>1, <1>2, <1>3, <2>1 DEF Position, Busy
<1>7. Apart(t)'
  <2>1. Apart(t)
    BY DEF LInv
  <2>2. ASSUME NEW i \in DOMAIN g, NEW j \in DOMAIN g, i < j, j < n + 1
        PROVE  ToSet(g[i]) \cap ToSet(g[j]) = {}
    <3>1. CASE j < n
      BY <1>1, <2>1, <2>2, <3>1 DEF Apart
    <3>2. CASE j = n
      <4>1. \A k \in 1 .. e : g[j][k] \notin ToSet(g[i])
        BY <1>1, <2>1, <2>2, <3>2 DEF Apart
      <4>. QED
        BY <1>2, <3>2, <4>1 DEF ToSet
    <3>. QED
      BY <1>2, <2>2, <3>1, <3>2
  <2>. HIDE DEF g, n, e
  <2>. QED
    BY <1>3, <2>2 DEF Apart, g
<1>. QED
  BY <1>1, <1>5, <1>6, <1>7, NothingAcquired, OthersStay

\* Entering the function and leaving it: every guard is there, and stays.
LEMMA CallKeeps ==
  ASSUME LInv, NEW t \in Threads, Call(t) \/ Return(t)
  PROVE  LocksAreGuarded' /\ \A u \in Threads : Position(u)' /\ Apart(u)'
<1>1. Busy(t) /\ UNCHANGED lock
  BY DEF Call, Return, Busy
<1>2. PICK ph \in {"calling", "unlocking"} :
        run' = [run EXCEPT ![t] = At(ph, run[t].call, run[t].guard, 0)]
  BY DEF Call, Return
<1>3. /\ run[t].guard \in Nat
      /\ Len(Guards(run[t].call)) \in Nat
      /\ \A i \in DOMAIN Guards(run[t].call) :
           Len(Guards(run[t].call)[i]) \in Nat
      /\ DOMAIN Guards(run[t].call) = 1 .. Len(Guards(run[t].call))
  BY <1>1, Facts
<1>4. run[t].guard = Len(Guards(run[t].call)) + 1 /\ run[t].elem = 0
  BY <1>1, <1>3 DEF LInv, Position, Call, Return
<1>5. /\ run'[t].call = run[t].call /\ run'[t].guard = run[t].guard
      /\ run'[t].elem = 0 /\ run'[t].phase = ph
  BY <1>2 DEF LInv, TypeOK, At
<1>6. Acquired(t)' = Acquired(t)
  BY <1>1, <1>4, <1>5 DEF Acquired, Busy
<1>7. Position(t)'
  BY <1>1, <1>3, <1>4, <1>5 DEF LInv, Position, Busy
<1>8. Apart(t)'
  BY <1>1, <1>4, <1>5 DEF LInv, Apart, Busy
<1>. QED
  BY <1>1, <1>2, <1>6, <1>7, <1>8, NothingAcquired, OthersStay

LEMMA UnlockKeeps ==
  ASSUME LInv, NEW t \in Threads, Unlock(t)
  PROVE  LocksAreGuarded' /\ \A u \in Threads : Position(u)' /\ Apart(u)'
<1> DEFINE g == Guards(run[t].call)
           n == run[t].guard - 1
<1>1. /\ run[t].phase = "unlocking" /\ Busy(t)
      /\ n >= 1
      /\ lock' = [o \in Objects |->
                    IF o \in ToSet(g[n]) THEN None ELSE lock[o]]
      /\ run' = [run EXCEPT ![t] = At("unlocking", run[t].call, n, 0)]
  BY DEF Unlock, Busy
<1>2. /\ run[t].call \in Calls /\ run[t].guard \in Nat
      /\ Len(g) \in Nat /\ DOMAIN g = 1 .. Len(g)
      /\ \A i \in DOMAIN g : Len(g[i]) \in Nat
      /\ \A x \in Objects : lock[x] = t <=> x \in Acquired(t)
  BY <1>1, Facts
<1>3. run[t].guard \in 1 .. Len(g) + 1 /\ run[t].elem = 0
  BY <1>1 DEF LInv, Position
<1>4. n \in DOMAIN g /\ n < run[t].guard /\ n \in Nat
  BY <1>1, <1>2, <1>3
<1>5. /\ run'[t].call = run[t].call /\ run'[t].guard = n
      /\ run'[t].elem = 0 /\ run'[t].phase = "unlocking"
  BY <1>1 DEF LInv, TypeOK, At
<1>6. ASSUME NEW i \in DOMAIN g, NEW j \in DOMAIN g, i < j, j < run[t].guard
      PROVE  ToSet(g[i]) \cap ToSet(g[j]) = {}
  BY <1>1, <1>6 DEF LInv, Apart
<1>7. ASSUME NEW x \in Objects
      PROVE  x \in Acquired(t)' <=> x \in Acquired(t) /\ x \notin ToSet(g[n])
  <2>1. x \in Acquired(t)
          <=> \E i \in DOMAIN g : i < run[t].guard /\ x \in ToSet(g[i])
    BY <1>1, <1>3 DEF Acquired
  <2>2. x \in Acquired(t)' <=> \E i \in DOMAIN g : i < n /\ x \in ToSet(g[i])
    BY <1>5 DEF Acquired, Busy
  <2>3. \A i \in DOMAIN g : i < run[t].guard <=> i < n \/ i = n
    BY <1>2, <1>4
  <2>4. \A i \in DOMAIN g : i < n => ToSet(g[i]) \cap ToSet(g[n]) = {}
    BY <1>4, <1>6
  <2>. HIDE DEF g, n
  <2>. QED
    BY <1>4, <2>1, <2>2, <2>3, <2>4
<1>8. LocksAreGuarded'
  <2>1. None \notin Threads /\ lock \in [Objects -> Threads \cup {None}]
    BY ThreadsAssumption DEF LInv, TypeOK, Threads
  <2>2. ASSUME NEW x \in Objects, x \in ToSet(g[n])
        PROVE  lock[x] = t
    BY <1>1, <1>2, <1>4, <2>2 DEF Acquired
  <2>3. ASSUME NEW x \in Objects, NEW u \in Threads, u # t
        PROVE  lock'[x] = u <=> lock[x] = u
    BY <1>1, <2>1, <2>2, <2>3
  <2>4. ASSUME NEW x \in Objects
        PROVE  lock'[x] = t <=> x \in Acquired(t)'
    BY <1>1, <1>2, <1>7, <2>1
  <2>. QED
    BY <1>1, <2>3, <2>4, OthersKeep
<1>9. Position(t)'
  <2>1. n \in 1 .. Len(g) + 1
    BY <1>2, <1>4
  <2>2. t \in Pool => run[t].call \in Async
    BY <1>1 DEF LInv, Position
  <2>. HIDE DEF n
  <2>. QED
    BY <1>2, <1>5, <2>1, <2>2 DEF Position, Busy
<1>10. Apart(t)'
  <2>1. \A j \in DOMAIN g : j < n => j < run[t].guard
    BY <1>2, <1>4
  <2>. HIDE DEF n
  <2>. QED
    BY <1>5, <1>6, <2>1 DEF Apart, Busy
<1>. QED
  BY <1>1, <1>9, <1>8, <1>10, OthersStay

\* The guard under construction holds nothing when it has a single object,
\* since that object is the one that is contended.
LEMMA ThrowKeeps ==
  ASSUME LInv, ThrowOnContention, ThrowOnBlock => OneObjectPerGuard
  PROVE  LocksAreGuarded' /\ \A u \in Threads : Position(u)' /\ Apart(u)'
<1> DEFINE g == Guards(run[Main].call)
           n == run[Main].guard
<1>. Main \in Threads
  BY DEF Threads
<1>1. /\ run[Main].phase = "locking" /\ Busy(Main)
      /\ n \in DOMAIN g /\ run[Main].elem < Len(g[n])
      /\ lock' = [o \in Objects |->
                    IF \E i \in DOMAIN g : i < n /\ o \in ToSet(g[i])
                      THEN None ELSE lock[o]]
      /\ run' = [run EXCEPT ![Main] = Idle]
      /\ OneObjectPerGuard
  BY DEF ThrowOnContention, Awaited, Busy
<1>2. /\ run[Main].call \in Calls /\ run[Main].elem \in Nat
      /\ Len(g[n]) \in Nat
      /\ \A x \in Objects : lock[x] = Main <=> x \in Acquired(Main)
  BY <1>1, Facts
<1>3. run[Main].elem = 0
  BY <1>1, <1>2 DEF OneObjectPerGuard
<1>4. run'[Main] = Idle
  BY <1>1 DEF LInv, TypeOK
<1>5. ~Busy(Main)'
  BY <1>4 DEF Busy, Idle
<1>6. ASSUME NEW x \in Objects
      PROVE  lock[x] = Main <=> \E i \in DOMAIN g : i < n /\ x \in ToSet(g[i])
  BY <1>1, <1>2, <1>3 DEF Acquired
<1>7. LocksAreGuarded'
  <2>1. None \notin Threads
    BY ThreadsAssumption DEF Threads
  <2>2. ASSUME NEW x \in Objects, NEW u \in Threads, u # Main
        PROVE  lock'[x] = u <=> lock[x] = u
    BY <1>1, <1>6, <2>1, <2>2
  <2>3. ASSUME NEW x \in Objects
        PROVE  lock'[x] = Main <=> x \in Acquired(Main)'
    BY <1>1, <1>5, <1>6, <2>1 DEF Acquired
  <2>. QED
    BY <1>1, <2>2, <2>3, OthersKeep
<1>. QED
  BY <1>1, <1>5, <1>7, OthersStay DEF Position, Apart

-----------------------------------------------------------------------------
LEMMA InvStep ==
  ASSUME LInv, [Next]_vars, ThrowOnBlock => OneObjectPerGuard
  PROVE  LInv'
<1>. Main \in Threads /\ Pool \subseteq Threads /\ Main \notin Pool
  BY ThreadsAssumption DEF Threads
<1>. DEFINE Kept == LocksAreGuarded' /\ \A u \in Threads : Position(u)' /\ Apart(u)'
<1>0. /\ Idle \in {Idle} \cup Running
      /\ \A c \in Calls, ph \in Phases :
           /\ At(ph, c, 1, 0) \in {Idle} \cup Running
           /\ At(ph, c, 1, 0).phase = ph
           /\ At(ph, c, 1, 0).call = c
           /\ At(ph, c, 1, 0).guard = 1
           /\ At(ph, c, 1, 0).elem = 0
  BY AtTyping
<1>1. Phases = {"converting", "locking", "calling", "unlocking", "delivering"}
  BY DEF Phases
\* nothing is locked while a call is converted, delivered or unlocked
<1>2. ASSUME NEW t \in Threads, Busy(t),
             \/ run[t].phase \in {"converting", "delivering"}
             \/ run[t].phase = "unlocking" /\ run[t].guard = 1
      PROVE  run[t].guard = 1 /\ run[t].elem = 0
  BY <1>2, Facts DEF LInv, Position
<1>3. ASSUME NEW c \in Calls, Invoke(c) PROVE Kept
  BY <1>0, <1>1, <1>3, NothingLocked DEF Invoke
<1>4. ASSUME ConversionFails \/ Queue \/ Deliver \/ FinishSync PROVE Kept
  <2>1. Busy(Main) /\ run[Main].guard = 1 /\ run[Main].elem = 0
    BY <1>2, <1>4 DEF ConversionFails, Queue, Deliver, FinishSync, Busy
  <2>. QED
    BY <1>0, <1>4, <2>1, NothingLocked
       DEF ConversionFails, Queue, Deliver, FinishSync
<1>5. ASSUME StartSync PROVE Kept
  <2>1. Busy(Main) /\ run[Main].guard = 1 /\ run[Main].elem = 0
    BY <1>2, <1>5 DEF StartSync, Busy
  <2>2. run[Main].call \in Calls
    BY <2>1, Facts
  <2> DEFINE r == At("locking", run[Main].call, 1, 0)
  <2>3. /\ r \in {Idle} \cup Running
        /\ r.phase \in Phases \ {"calling"}
        /\ r.guard = 1 /\ r.elem = 0
    BY <1>0, <1>1, <2>2
  <2>4. run' = [run EXCEPT ![Main] = r] /\ UNCHANGED lock
    BY <1>5 DEF StartSync
  <2>. HIDE DEF r
  <2>. QED
    BY <2>1, <2>3, <2>4, NothingLocked
<1>6. ASSUME Complete PROVE Kept
  <2>1. Head(finished) \in Calls
    BY <1>6, HeadTailProperties, CallsAssumption DEF Complete, LInv, TypeOK
  <2> DEFINE r == At("delivering", Head(finished), 1, 0)
  <2>2. /\ r \in {Idle} \cup Running
        /\ r.phase \in Phases \ {"calling"}
        /\ r.guard = 1 /\ r.elem = 0
    BY <1>0, <1>1, <2>1
  <2>3. ~Busy(Main) /\ run' = [run EXCEPT ![Main] = r] /\ UNCHANGED lock
    BY <1>6 DEF Complete
  <2>. HIDE DEF r
  <2>. QED
    BY <2>2, <2>3, NothingLocked
<1>7. ASSUME NEW t \in Threads, Take(t) PROVE Kept
  <2>1. Head(workQueue) \in Async
    BY <1>7, HeadTailProperties DEF Take, LInv, TypeOK
  <2>2. Head(workQueue) \in Calls
    BY <2>1, CallsAssumption
  <2> DEFINE r == At("locking", Head(workQueue), 1, 0)
  <2>3. /\ r \in {Idle} \cup Running
        /\ r.phase \in Phases \ {"calling"}
        /\ r.guard = 1 /\ r.elem = 0
        /\ r.call \in Async
    BY <1>0, <1>1, <2>1, <2>2
  <2>4. ~Busy(t) /\ run' = [run EXCEPT ![t] = r] /\ UNCHANGED lock
    BY <1>7 DEF Take
  <2>. HIDE DEF r
  <2>. QED
    BY <1>7, <2>3, <2>4, NothingLocked
<1>8. ASSUME NEW t \in Threads, FinishAsync(t) PROVE Kept
  <2>1. Busy(t) /\ run[t].guard = 1 /\ run[t].elem = 0
    BY <1>2, <1>8 DEF FinishAsync, Busy
  <2>. QED
    BY <1>0, <1>8, <2>1, NothingLocked DEF FinishAsync
<1>9. CASE UNCHANGED vars
  <2>. lock' = lock /\ run' = run
    BY <1>9 DEF vars
  <2>1. TypeOK'
    BY <1>9 DEF vars, LInv, TypeOK
  <2>2. LocksAreGuarded'
    BY DEF LInv, LocksAreGuarded, Acquired, Busy
  <2>3. ASSUME NEW u \in Threads PROVE Position(u)' /\ Apart(u)'
    <3>1. Position(u) /\ Apart(u)
      BY DEF LInv
    <3>2. Position(u)'
      BY <3>1 DEF Position, Busy
    <3>3. Apart(u)'
      BY <3>1 DEF Apart, Busy
    <3>. QED
      BY <3>2, <3>3
  <2>. QED
    BY <2>1, <2>2, <2>3 DEF LInv
<1>10. CASE Next
  <2>1. TypeOK'
    BY <1>10, TypeStep
  <2>2. Kept
    BY <1>3, <1>4, <1>5, <1>6, <1>7, <1>8, <1>10, LockKeeps, GuardKeeps,
       CallKeeps, UnlockKeeps, ThrowKeeps DEF Next, ThreadStep, MainStep
  <2>. QED
    BY <2>1, <2>2 DEF LInv
<1>. QED
  BY <1>9, <1>10

\* Whatever the program, every mutex is held by the thread whose guards took
\* it, and by no other, as long as no guard can throw half-way.
THEOREM Locking ==
  ASSUME ThrowOnBlock => OneObjectPerGuard
  PROVE  Spec => []LInv
<1>1. LInv /\ [Next]_vars => LInv'
  BY InvStep
<1>. QED
  BY InvInit, <1>1, PTL DEF Spec

THEOREM Ownership ==
  ASSUME ThrowOnBlock => OneObjectPerGuard
  PROVE  Spec => []LocksAreGuarded
<1>1. LInv => LocksAreGuarded
  BY DEF LInv
<1>. QED
  BY <1>1, Locking, PTL

\* The variables have their types whatever the program: only asynchronous
\* calls get to the pool, so that a synchronous one always runs where
\* JavaScript waits for it.
THEOREM TypeCorrect ==
  ASSUME ThrowOnBlock => OneObjectPerGuard
  PROVE  Spec => []TypeOK
<1>1. LInv => TypeOK
  BY DEF LInv
<1>. QED
  BY <1>1, Locking, PTL

\* A function runs only when all its guards are there, and the guards cover
\* all the objects it uses.
LEMMA CallersHold ==
  ASSUME LInv, NEW t \in Threads, run[t].phase = "calling",
         NEW o \in Used(run[t].call)
  PROVE  o \in Objects /\ lock[o] = t
<1>1. Busy(t)
  BY DEF Busy
<1>2. /\ run[t].call \in Calls
      /\ \A i \in DOMAIN Guards(run[t].call) : i < run[t].guard /\ i \in Nat
  BY <1>1, Facts DEF LInv, Position
<1>3. PICK i \in DOMAIN Guards(run[t].call) :
        o \in ToSet(Guards(run[t].call)[i])
  BY <1>2, GuardsCoverUsed
<1>4. o \in Objects
  BY <1>1, <1>3, Facts DEF ToSet
<1>5. o \in Acquired(t)
  BY <1>1, <1>2, <1>3, <1>4 DEF Acquired
<1>. QED
  BY <1>4, <1>5 DEF LInv, LocksAreGuarded

\* "Automatically prevent reentrance of class objects", for every program: a
\* function holds the mutexes of what it uses, and a mutex has one owner.
THEOREM MutualExclusion ==
  ASSUME ThrowOnBlock => OneObjectPerGuard
  PROVE  Spec => []NoReentrance
<1>1. LInv => NoReentrance
  BY CallersHold DEF NoReentrance
<1>. QED
  BY <1>1, Locking, PTL

-----------------------------------------------------------------------------
(***************************************************************************)
(* Data races.  What JavaScript converts and copies, it reads without a    *)
(* lock: the runs show the races this allows.  There is no other.          *)
(***************************************************************************)
\* an object that one call reads without a lock is used by no other call that is
\* asynchronous; that call itself may be
ReadsApart ==
  \A c \in Calls, d \in Async :
    d # c => (Converted[c] \cup Copied[c]) \cap Used(d) = {}

\* A call is in one place: in a queue, on its way to the event loop, or on one
\* thread, which makes the reads of a call and its execution follow each other.
Unique(s) == \A i, j \in DOMAIN s : s[i] = s[j] => i = j

OnePlace ==
  /\ ToSet(workQueue) \cup ToSet(finished) \subseteq issued
  /\ Unique(workQueue) /\ Unique(finished)
  /\ ToSet(workQueue) \cap ToSet(finished) = {}
  /\ \A t \in Threads : Busy(t) =>
       /\ run[t].call \in issued
       /\ run[t].call \notin ToSet(workQueue) \cup ToSet(finished)
  /\ \A t, u \in Threads :
       t # u /\ Busy(t) /\ Busy(u) => run[t].call # run[u].call

LEMMA Enqueued ==
  ASSUME NEW S, NEW s \in Seq(S), NEW x \in S, x \notin ToSet(s), Unique(s)
  PROVE  Unique(Append(s, x)) /\ ToSet(Append(s, x)) = ToSet(s) \cup {x}
<1>. DEFINE r == Append(s, x)
<1>1. /\ Len(s) \in Nat /\ DOMAIN s = 1 .. Len(s) /\ DOMAIN r = 1 .. Len(s) + 1
      /\ \A i \in 1 .. Len(s) : r[i] = s[i]
      /\ r[Len(s) + 1] = x
  BY AppendProperties, LenProperties
<1>2. \A i \in 1 .. Len(s) : s[i] # x
  BY <1>1 DEF ToSet
<1>. HIDE DEF r
<1>3. \A i \in 1 .. Len(s) + 1 : i \in 1 .. Len(s) \/ i = Len(s) + 1
  BY <1>1
<1>4. Unique(r)
  <2>. SUFFICES ASSUME NEW i \in DOMAIN r, NEW j \in DOMAIN r, r[i] = r[j]
                PROVE  i = j
    BY DEF Unique
  <2>. QED
    BY <1>1, <1>2, <1>3 DEF Unique
<1>5. ToSet(r) = ToSet(s) \cup {x}
  <2>1. \A i \in 1 .. Len(s) : i \in 1 .. Len(s) + 1
    BY <1>1
  <2>2. Len(s) + 1 \in 1 .. Len(s) + 1
    BY <1>1
  <2>. QED
    BY <1>1, <1>3, <2>1, <2>2 DEF ToSet
<1>. QED
  BY <1>4, <1>5 DEF r

LEMMA Dequeued ==
  ASSUME NEW S, NEW s \in Seq(S), s # << >>, Unique(s)
  PROVE  /\ Unique(Tail(s)) /\ ToSet(Tail(s)) \subseteq ToSet(s)
         /\ Head(s) \in ToSet(s) /\ Head(s) \notin ToSet(Tail(s))
<1>. DEFINE r == Tail(s)
<1>1. /\ Len(s) \in Nat \ {0} /\ DOMAIN s = 1 .. Len(s)
      /\ DOMAIN r = 1 .. Len(s) - 1 /\ Head(s) = s[1]
      /\ \A i \in 1 .. Len(s) - 1 : r[i] = s[i + 1]
  BY HeadTailProperties, LenProperties, EmptySeq
<1>2. /\ 1 \in DOMAIN s
      /\ \A i \in 1 .. Len(s) - 1 : i + 1 \in DOMAIN s /\ i + 1 # 1 /\ i \in Nat
  BY <1>1
<1>. HIDE DEF r
<1>3. Unique(r)
  <2>. SUFFICES ASSUME NEW i \in DOMAIN r, NEW j \in DOMAIN r, r[i] = r[j]
                PROVE  i = j
    BY DEF Unique
  <2>1. i + 1 = j + 1
    BY <1>1, <1>2 DEF Unique
  <2>. QED
    BY <1>1, <1>2, <2>1
<1>4. ToSet(r) \subseteq ToSet(s)
  BY <1>1, <1>2 DEF ToSet
<1>5. Head(s) \in ToSet(s)
  BY <1>1, <1>2 DEF ToSet
<1>6. Head(s) \notin ToSet(r)
  <2>. SUFFICES ASSUME NEW i \in DOMAIN r, r[i] = s[1] PROVE FALSE
    BY <1>1 DEF ToSet
  <2>. QED
    BY <1>1, <1>2 DEF Unique
<1>. QED
  BY <1>3, <1>4, <1>5, <1>6 DEF r

LEMMA OnePlaceStep ==
  ASSUME LInv, OnePlace, [Next]_vars
  PROVE  OnePlace'
<1>. TypeOK
  BY DEF LInv
<1>. Main \in Threads /\ Pool \subseteq Threads
  BY DEF Threads
<1>0. /\ ~(Idle.phase # "idle")
      /\ \A ph \in Phases : ph # "idle"
      /\ \A ph, c, g, e : At(ph, c, g, e).call = c /\ At(ph, c, g, e).phase = ph
      /\ Phases = {"converting", "locking", "calling", "unlocking", "delivering"}
  BY DEF Idle, Phases, At
\* the thread goes on with its call,
<1>1. ASSUME NEW t \in Threads, NEW ph \in Phases, NEW g, NEW e,
             Busy(t), run' = [run EXCEPT ![t] = At(ph, run[t].call, g, e)],
             UNCHANGED <<issued, workQueue, finished>>
      PROVE  OnePlace'
  <2>1. /\ run'[t].call = run[t].call
        /\ \A u \in Threads : u # t => run'[u] = run[u]
    BY <1>0, <1>1 DEF TypeOK
  <2>2. \A u \in Threads : Busy(u)' => Busy(u) /\ run'[u].call = run[u].call
    BY <1>1, <2>1 DEF Busy
  <2>. QED
    BY <1>1, <2>2 DEF OnePlace
\* drops it, or leaves it in a queue,
<1>2. ASSUME NEW t \in Threads, Busy(t), run' = [run EXCEPT ![t] = Idle],
             issued' = issued, workQueue' \in Seq(Async), finished' \in Seq(Async),
             \/ UNCHANGED <<workQueue, finished>>
             \/ workQueue' = Append(workQueue, run[t].call) /\ finished' = finished
             \/ finished' = Append(finished, run[t].call) /\ workQueue' = workQueue
      PROVE  OnePlace'
  <2>1. /\ ~Busy(t)'
        /\ \A u \in Threads : u # t => run'[u] = run[u]
    BY <1>0, <1>2 DEF TypeOK, Busy
  <2>2. \A u \in Threads : Busy(u)' =>
          u # t /\ Busy(u) /\ run'[u].call = run[u].call /\ run[u].call # run[t].call
    BY <1>2, <2>1 DEF Busy, OnePlace
  <2>. DEFINE c == run[t].call
  <2>3. c \in issued /\ c \notin ToSet(workQueue) /\ c \notin ToSet(finished)
        /\ c \in Calls
    BY <1>2 DEF OnePlace, TypeOK
  <2>4. workQueue \in Seq(Calls) /\ finished \in Seq(Calls)
    <3>1. \A s \in Seq(Async) : s \in Seq(Calls)
      BY CallsAssumption
    <3>. QED
      BY <3>1 DEF TypeOK
  <2>5. /\ Unique(Append(workQueue, c)) /\ Unique(Append(finished, c))
        /\ ToSet(Append(workQueue, c)) = ToSet(workQueue) \cup {c}
        /\ ToSet(Append(finished, c)) = ToSet(finished) \cup {c}
    BY <2>3, <2>4, Enqueued DEF OnePlace
  <2>. HIDE DEF c
  <2>6. /\ Unique(workQueue') /\ Unique(finished')
        /\ \/ ToSet(workQueue') = ToSet(workQueue) /\ ToSet(finished') = ToSet(finished)
           \/ ToSet(workQueue') = ToSet(workQueue) \cup {c}
              /\ ToSet(finished') = ToSet(finished)
           \/ ToSet(workQueue') = ToSet(workQueue)
              /\ ToSet(finished') = ToSet(finished) \cup {c}
    BY <1>2, <2>5 DEF OnePlace, c
  <2>7. /\ ToSet(workQueue') \cup ToSet(finished') \subseteq issued'
        /\ ToSet(workQueue') \cap ToSet(finished') = {}
    BY <1>2, <2>3, <2>6 DEF OnePlace
  <2>8. \A u \in Threads : Busy(u)' =>
          /\ run'[u].call \in issued'
          /\ run'[u].call \notin ToSet(workQueue') \cup ToSet(finished')
    BY <1>2, <2>2, <2>6 DEF OnePlace, c
  <2>9. \A u, v \in Threads :
          u # v /\ Busy(u)' /\ Busy(v)' => run'[u].call # run'[v].call
    BY <2>2 DEF OnePlace
  <2>. QED
    BY <2>6, <2>7, <2>8, <2>9 DEF OnePlace
\* or takes one that is new, or waits in a queue.
<1>3. ASSUME NEW t \in Threads, ~Busy(t), NEW c, run'[t].call = c,
             \A u \in Threads : u # t => run'[u] = run[u],
             issued \subseteq issued', c \in issued',
             \A u \in Threads : Busy(u) => run[u].call # c,
             Unique(workQueue') /\ Unique(finished'),
             ToSet(workQueue') \subseteq ToSet(workQueue) \ {c},
             ToSet(finished') \subseteq ToSet(finished) \ {c}
      PROVE  OnePlace'
  <2>2. \A u \in Threads : Busy(u)' =>
          \/ u = t /\ run'[u].call = c
          \/ u # t /\ Busy(u) /\ run'[u].call = run[u].call /\ run[u].call # c
    BY <1>3 DEF Busy
  <2>3. /\ ToSet(workQueue') \cup ToSet(finished') \subseteq issued'
        /\ ToSet(workQueue') \cap ToSet(finished') = {}
    BY <1>3 DEF OnePlace
  <2>4. \A u \in Threads : Busy(u)' =>
          /\ run'[u].call \in issued'
          /\ run'[u].call \notin ToSet(workQueue') \cup ToSet(finished')
    BY <1>3, <2>2 DEF OnePlace
  <2>5. \A u, v \in Threads :
          u # v /\ Busy(u)' /\ Busy(v)' => run'[u].call # run'[v].call
    BY <2>2 DEF OnePlace
  <2>. QED
    BY <1>3, <2>3, <2>4, <2>5 DEF OnePlace
<1>4. ASSUME NEW c \in Calls, Invoke(c) PROVE OnePlace'
  <2>1. /\ ~Busy(Main) /\ c \notin issued /\ issued' = issued \cup {c}
        /\ run' = [run EXCEPT ![Main] = At("converting", c, 1, 0)]
        /\ workQueue' = workQueue /\ finished' = finished
    BY <1>4 DEF Invoke
  <2>2. /\ \A u \in Threads : Busy(u) => run[u].call # c
        /\ c \notin ToSet(workQueue) /\ c \notin ToSet(finished)
        /\ Unique(workQueue) /\ Unique(finished)
    BY <2>1 DEF OnePlace
  <2>3. /\ ToSet(workQueue') \subseteq ToSet(workQueue) \ {c}
        /\ ToSet(finished') \subseteq ToSet(finished) \ {c}
        /\ Unique(workQueue') /\ Unique(finished')
        /\ issued \subseteq issued' /\ c \in issued'
    BY <2>1, <2>2
  <2>4. /\ run'[Main].call = c
        /\ \A u \in Threads : u # Main => run'[u] = run[u]
    BY <1>0, <2>1 DEF TypeOK
  <2>. QED
    BY <1>3, <2>1, <2>2, <2>3, <2>4
<1>5. ASSUME ConversionFails \/ Queue \/ Deliver \/ FinishSync \/ ThrowOnContention
      PROVE  OnePlace'
  <2>1. Busy(Main)
    BY <1>5 DEF ConversionFails, Queue, Deliver, FinishSync, ThrowOnContention,
                Awaited, Busy
  <2>2. CASE Queue
    <3>1. Append(workQueue, run[Main].call) \in Seq(Async)
      BY <2>2 DEF Queue, TypeOK
    <3>. QED
      BY <1>2, <2>1, <2>2, <3>1 DEF Queue, TypeOK
  <2>3. CASE ConversionFails \/ Deliver \/ FinishSync \/ ThrowOnContention
    BY <1>2, <2>1, <2>3
    DEF ConversionFails, Deliver, FinishSync, ThrowOnContention, TypeOK
  <2>. QED
    BY <1>5, <2>2, <2>3
<1>6. CASE StartSync
  BY <1>0, <1>1, <1>6 DEF StartSync, Busy
<1>7. CASE Complete
  <2>. DEFINE c == Head(finished)
  <2>1. /\ ~Busy(Main) /\ issued' = issued
        /\ run' = [run EXCEPT ![Main] = At("delivering", c, 1, 0)]
        /\ workQueue' = workQueue /\ finished' = Tail(finished)
    BY <1>7 DEF Complete
  <2>2. /\ Unique(Tail(finished)) /\ ToSet(Tail(finished)) \subseteq ToSet(finished)
        /\ c \in ToSet(finished) /\ c \notin ToSet(Tail(finished))
    BY <1>7, Dequeued DEF Complete, TypeOK, OnePlace
  <2>. HIDE DEF c
  <2>3. /\ \A u \in Threads : Busy(u) => run[u].call # c
        /\ c \notin ToSet(workQueue) /\ Unique(workQueue) /\ c \in issued
    BY <2>2 DEF OnePlace
  <2>4. /\ ToSet(workQueue') \subseteq ToSet(workQueue) \ {c}
        /\ ToSet(finished') \subseteq ToSet(finished) \ {c}
        /\ Unique(workQueue') /\ Unique(finished')
        /\ issued \subseteq issued' /\ c \in issued'
    BY <2>1, <2>2, <2>3
  <2>5. /\ run'[Main].call = c
        /\ \A u \in Threads : u # Main => run'[u] = run[u]
    BY <1>0, <2>1 DEF TypeOK
  <2>. QED
    BY <1>3, <2>1, <2>3, <2>4, <2>5
<1>8. ASSUME NEW t \in Threads, Take(t) PROVE OnePlace'
  <2>. DEFINE c == Head(workQueue)
  <2>1. /\ ~Busy(t) /\ issued' = issued
        /\ run' = [run EXCEPT ![t] = At("locking", c, 1, 0)]
        /\ workQueue' = Tail(workQueue) /\ finished' = finished
    BY <1>8 DEF Take
  <2>2. /\ Unique(Tail(workQueue)) /\ ToSet(Tail(workQueue)) \subseteq ToSet(workQueue)
        /\ c \in ToSet(workQueue) /\ c \notin ToSet(Tail(workQueue))
    BY <1>8, Dequeued DEF Take, TypeOK, OnePlace
  <2>. HIDE DEF c
  <2>3. /\ \A u \in Threads : Busy(u) => run[u].call # c
        /\ c \notin ToSet(finished) /\ Unique(finished) /\ c \in issued
    BY <2>2 DEF OnePlace
  <2>4. /\ ToSet(workQueue') \subseteq ToSet(workQueue) \ {c}
        /\ ToSet(finished') \subseteq ToSet(finished) \ {c}
        /\ Unique(workQueue') /\ Unique(finished')
        /\ issued \subseteq issued' /\ c \in issued'
    BY <2>1, <2>2, <2>3
  <2>5. /\ run'[t].call = c
        /\ \A u \in Threads : u # t => run'[u] = run[u]
    BY <1>0, <2>1 DEF TypeOK
  <2>. QED
    BY <1>3, <2>1, <2>3, <2>4, <2>5
<1>9. ASSUME NEW t \in Threads,
             Lock(t) \/ GuardConstructed(t) \/ Call(t) \/ Return(t) \/ Unlock(t)
      PROVE  OnePlace'
  <2>1. Busy(t)
    BY <1>9 DEF Lock, Awaited, GuardConstructed, Call, Return, Unlock, Busy
  <2>2. UNCHANGED <<issued, workQueue, finished>>
    BY <1>9 DEF Lock, GuardConstructed, Call, Return, Unlock
  <2>3. PICK ph, g, e : /\ ph \in Phases
                        /\ run' = [run EXCEPT ![t] = At(ph, run[t].call, g, e)]
    BY <1>0, <1>9 DEF Lock, GuardConstructed, Call, Return, Unlock
  <2>. QED
    BY <1>1, <2>1, <2>2, <2>3
<1>10. ASSUME NEW t \in Threads, FinishAsync(t) PROVE OnePlace'
  <2>1. Busy(t) /\ run[t].call \in Async
    BY <1>10 DEF FinishAsync, Busy, LInv, Position
  <2>2. Append(finished, run[t].call) \in Seq(Async)
    BY <2>1 DEF TypeOK
  <2>. QED
    BY <1>2, <1>10, <2>1, <2>2 DEF FinishAsync, TypeOK
<1>11. CASE UNCHANGED vars
  BY <1>11 DEF vars, OnePlace, Busy
<1>. QED
  BY <1>4, <1>5, <1>6, <1>7, <1>8, <1>9, <1>10, <1>11
  DEF Next, ThreadStep, MainStep

\* the pool neither converts nor delivers
OnMainOnly == \A t \in Pool : run[t].phase \notin {"converting", "delivering"}

LEMMA OnMainStep ==
  ASSUME TypeOK, OnMainOnly, [Next]_vars
  PROVE  OnMainOnly'
<1>. USE ThreadsAssumption DEF OnMainOnly, Threads, TypeOK
<1>1. ASSUME NEW t \in Threads, ThreadStep(t) PROVE OnMainOnly'
  <2>1. ASSUME NEW ph \in {"locking", "calling", "unlocking"}, NEW c, NEW g,
               NEW e, run' = [run EXCEPT ![t] = At(ph, c, g, e)]
        PROVE  OnMainOnly'
    BY <2>1 DEF At
  <2>2. CASE Take(t)
    <3>. HIDE DEF OnMainOnly, TypeOK
    <3>. QED
      BY <2>1, <2>2 DEF Take
  <2>3. CASE Lock(t)
    <3>. HIDE DEF OnMainOnly, TypeOK
    <3>1. run' = [run EXCEPT ![t] = At("locking", run[t].call, run[t].guard,
                                       run[t].elem + 1)]
      BY <2>3 DEF Lock
    <3>. QED
      BY <2>1, <3>1
  <2>4. CASE GuardConstructed(t) \/ Call(t)
    <3>. HIDE DEF OnMainOnly, TypeOK
    <3>1. CASE GuardConstructed(t)
      <4>1. run' = [run EXCEPT ![t] = At("locking", run[t].call,
                                         run[t].guard + 1, 0)]
        BY <3>1 DEF GuardConstructed
      <4>. QED
        BY <2>1, <4>1
    <3>2. CASE Call(t)
      <4>1. run' = [run EXCEPT ![t] = At("calling", run[t].call,
                                         run[t].guard, 0)]
        BY <3>2 DEF Call
      <4>. QED
        BY <2>1, <4>1
    <3>. QED
      BY <2>4, <3>1, <3>2
  <2>5. CASE Return(t) \/ Unlock(t)
    <3>. HIDE DEF OnMainOnly, TypeOK
    <3>. QED
      BY <2>1, <2>5 DEF Return, Unlock
  <2>6. CASE FinishAsync(t)
    <3>1. run' = [run EXCEPT ![t] = Idle]
      BY <2>6 DEF FinishAsync
    <3>. QED
      BY <3>1 DEF Idle
  <2>. QED
    BY <1>1, <2>2, <2>3, <2>4, <2>5, <2>6 DEF ThreadStep
<1>2. ASSUME MainStep \/ \E c \in Calls : Invoke(c) PROVE OnMainOnly'
  <2>1. \A t \in Pool : run'[t] = run[t]
    BY <1>2 DEF MainStep, Invoke, ConversionFails, Queue, StartSync, Complete,
       Deliver, FinishSync, ThrowOnContention
  <2>. QED
    BY <2>1
<1>3. CASE UNCHANGED vars
  BY <1>3 DEF vars
<1>. QED
  BY <1>1, <1>2, <1>3 DEF Next

\* "Lock all the passed objects for the duration of the call": whatever the
\* program, two threads touch the same object only when JavaScript converts
\* or copies one that another call, an asynchronous one, uses.
THEOREM DataRaceFreedom ==
  ASSUME ThrowOnBlock => OneObjectPerGuard, ReadsApart
  PROVE  Spec => []NoDataRace
<1>1. Init => OnMainOnly
  BY DEF Init, OnMainOnly, Idle, Threads
<1>2. LInv /\ OnMainOnly /\ [Next]_vars => OnMainOnly'
  BY OnMainStep DEF LInv
<1>3. ASSUME LInv, OnMainOnly, OnePlace PROVE NoDataRace
  <2>1. SUFFICES ASSUME NEW t \in Threads, NEW u \in Threads, t # u,
                        NEW o \in Accessed(t) \cap Accessed(u)
                 PROVE  FALSE
    BY DEF NoDataRace
  <2>2. \A v \in {t, u} : run[v].phase \in {"converting", "calling", "delivering"}
    BY <2>1 DEF Accessed
  <2>3. ASSUME NEW v \in Threads, NEW w \in Threads, v # w, o \in Accessed(v),
               o \in Accessed(w), run[v].phase \in {"converting", "delivering"}
        PROVE  FALSE
    <3>1. v = Main /\ w \in Pool
      BY <1>3, <2>3 DEF OnMainOnly, Threads
    <3>2. run[w].phase = "calling"
      BY <1>3, <2>3, <3>1 DEF Accessed, OnMainOnly
    <3>3. run[w].call \in Async /\ o \in Used(run[w].call)
      BY <1>3, <2>3, <3>1, <3>2 DEF LInv, Position, Busy, Accessed
    <3>4. Busy(v)
      BY <2>3 DEF Busy
    <3>5. run[v].call \in Calls
      BY <1>3, <2>3, <3>4, Facts DEF LInv
    <3>6. o \in Converted[run[v].call] \cup Copied[run[v].call]
      BY <2>3 DEF Accessed
    <3>7. run[w].call # run[v].call
      BY <1>3, <2>3, <3>2, <3>4 DEF OnePlace, Busy
    <3>. QED
      BY <3>3, <3>5, <3>6, <3>7 DEF ReadsApart
  <2>4. CASE run[t].phase = "calling" /\ run[u].phase = "calling"
    <3>1. o \in Used(run[t].call) /\ o \in Used(run[u].call)
      BY <2>1, <2>4 DEF Accessed
    <3>. QED
      BY <1>3, <2>1, <2>4, <3>1, CallersHold
  <2>. QED
    BY <2>1, <2>2, <2>3, <2>4
<1>4. Init => OnePlace
  <2>. SUFFICES ASSUME Init PROVE OnePlace
    OBVIOUS
  <2>1. /\ workQueue = << >> /\ finished = << >> /\ \A t \in Threads : ~Busy(t)
    BY DEF Init, Busy, Idle
  <2>2. Unique(<< >>) /\ ToSet(<< >>) = {}
    BY DEF Unique, ToSet
  <2>. QED
    BY <2>1, <2>2 DEF OnePlace
<1>5. LInv /\ OnePlace /\ [Next]_vars => OnePlace'
  BY OnePlaceStep
<1>. QED
  BY <1>1, <1>2, <1>3, <1>4, <1>5, Locking, PTL DEF Spec

-----------------------------------------------------------------------------
(***************************************************************************)
(* Deadlock.                                                               *)
(***************************************************************************)
\* Every call locks its objects in the order given.
Follows(order) ==
  \A c \in Calls : \A i, j \in DOMAIN Guards(c) :
    \A k \in DOMAIN Guards(c)[i], l \in DOMAIN Guards(c)[j] :
      i < j \/ (i = j /\ k < l)
        => <<Guards(c)[i][k], Guards(c)[j][l]>> \in order

\* The order has no cycle, and no endless ascent.
Ends(order) ==
  \A X \in (SUBSET Objects) \ {{}} :
    \E o \in X : \A p \in X : <<o, p>> \notin order

\* What a thread waits for comes after what it has.
LEMMA WaitsAscend ==
  ASSUME LInv, NEW order, Follows(order), NEW t \in Threads,
         NEW o \in Acquired(t), NEW p \in Awaited(t)
  PROVE  <<o, p>> \in order
<1> DEFINE g == Guards(run[t].call)
<1>1. Busy(t) /\ run[t].phase = "locking"
  BY DEF Awaited, Busy
<1>2. /\ run[t].call \in Calls
      /\ run[t].guard \in DOMAIN g /\ run[t].guard \in Nat
      /\ run[t].elem \in Nat /\ run[t].elem < Len(g[run[t].guard])
      /\ p = g[run[t].guard][run[t].elem + 1]
  BY <1>1, Facts DEF LInv, Awaited
<1>3. g \in Seq(Seq(Objects))
  BY <1>2, GuardsTyping
<1>4. run[t].elem + 1 \in DOMAIN g[run[t].guard]
  BY <1>2, <1>3
<1>5. CASE \E i \in DOMAIN g : i < run[t].guard /\ o \in ToSet(g[i])
  BY <1>2, <1>4, <1>5 DEF Follows, ToSet
<1>6. CASE \E k \in 1 .. run[t].elem : o = g[run[t].guard][k]
  <2>1. PICK k \in 1 .. run[t].elem : o = g[run[t].guard][k]
    BY <1>6
  <2>2. k \in DOMAIN g[run[t].guard] /\ k < run[t].elem + 1
    BY <1>2, <1>3, <2>1
  <2>. QED
    BY <1>2, <1>4, <2>1, <2>2 DEF Follows
<1>. QED
  BY <1>5, <1>6 DEF Acquired

\* The README's rule, "reference the objects in the same order", is enough
\* when the order meant is the one in which the guards are constructed: then
\* no threads wait for each other, however many there are.
THEOREM OrderPreventsDeadlock ==
  ASSUME ThrowOnBlock => OneObjectPerGuard,
         NEW order, Follows(order), Ends(order)
  PROVE  Spec => []NoDeadlock
<1>1. ASSUME LInv PROVE NoDeadlock
  <2>1. SUFFICES ASSUME NEW S \in (SUBSET Threads) \ {{}},
                        \A t \in S : \E o \in Awaited(t) : lock[o] \in S
                 PROVE  FALSE
    BY DEF NoDeadlock
  <2> DEFINE X == {o \in Objects : lock[o] \in S
                                   /\ \E t \in S : o \in Awaited(t)}
  <2>2. ASSUME NEW t \in S
        PROVE  \E o \in X : o \in Awaited(t)
    <3>1. PICK o \in Awaited(t) : lock[o] \in S
      BY <2>1, <2>2
    <3>2. run[t].phase = "locking" /\ Busy(t) /\ t \in Threads
      BY <2>2, <3>1 DEF Awaited, Busy
    <3>3. /\ run[t].call \in Calls
          /\ run[t].guard \in DOMAIN Guards(run[t].call)
          /\ run[t].elem \in Nat
          /\ run[t].elem < Len(Guards(run[t].call)[run[t].guard])
          /\ o = Guards(run[t].call)[run[t].guard][run[t].elem + 1]
      BY <1>1, <3>1, <3>2, Facts DEF LInv, Awaited
    <3>4. Guards(run[t].call) \in Seq(Seq(Objects))
      BY <3>3, GuardsTyping
    <3>5. o \in Objects
      BY <3>3, <3>4
    <3>. QED
      BY <2>2, <3>1, <3>5
  <2>3. PICK o \in X : \A p \in X : <<o, p>> \notin order
    BY <2>1, <2>2 DEF Ends
  <2>4. lock[o] \in S /\ lock[o] \in Threads /\ o \in Acquired(lock[o])
    BY <1>1, <2>3 DEF LInv, LocksAreGuarded
  <2>5. PICK p \in X : p \in Awaited(lock[o])
    BY <2>2, <2>4
  <2>6. <<o, p>> \in order
    BY <1>1, <2>4, <2>5, WaitsAscend
  <2>. QED
    BY <2>3, <2>6
<1>. QED
  BY <1>1, Locking, PTL

\* A non-empty set of natural numbers has a least element.
LEMMA LeastNumber ==
  ASSUME NEW T \in SUBSET Nat, T # {}
  PROVE  \E x \in T : \A y \in T : x <= y
<1>. DEFINE R == OpToRel(<, Nat)
<1>1. IsWellFoundedOn(R, Nat)
  BY NatLessThanWellFounded
<1>2. \A x, y \in Nat : x < y => <<x, y>> \in R
  BY DEF OpToRel
<1>. HIDE DEF R
<1>3. PICK x \in T : \A y \in T : <<y, x>> \notin R
  BY <1>1, WFMin
<1>4. ASSUME NEW y \in T PROVE x <= y
  <2>1. ~(y < x)
    BY <1>2, <1>3
  <2>. QED
    BY <2>1
<1>. QED
  BY <1>4

\* the order by numbers
ByRank(rank) == {op \in Objects \X Objects : rank[op[1]] < rank[op[2]]}

\* of the objects of a set, one has the highest number
LEMMA RanksEnd ==
  ASSUME NEW N \in Nat, NEW rank \in [Objects -> 0 .. N]
  PROVE  Ends(ByRank(rank))
<1>. SUFFICES ASSUME NEW X \in SUBSET Objects, X # {}
     PROVE  \E o \in X : \A p \in X : <<o, p>> \notin ByRank(rank)
  BY DEF Ends
<1>1. \A o \in X : rank[o] \in 0 .. N
  OBVIOUS
<1>. DEFINE T == {N - rank[o] : o \in X}
<1>2. T \in SUBSET Nat /\ T # {}
  BY <1>1
<1>3. \A p \in X : N - rank[p] \in T
  OBVIOUS
<1>4. PICK o \in X : \A y \in T : N - rank[o] <= y
  <2>1. \A x \in T : \E o \in X : x = N - rank[o]
    OBVIOUS
  <2>. HIDE DEF T
  <2>. QED
    BY <1>2, <2>1, LeastNumber
<1>. HIDE DEF T
<1>5. \A p \in X : N - rank[o] <= N - rank[p]
  BY <1>3, <1>4
<1>6. \A p \in X : rank[p] <= rank[o]
  BY <1>1, <1>5
<1>7. ASSUME NEW p \in X PROVE <<o, p>> \notin ByRank(rank)
  <2>1. rank[o] \in Int /\ rank[p] \in Int /\ rank[p] <= rank[o]
    BY <1>1, <1>6
  <2>. QED
    BY <2>1 DEF ByRank
<1>. QED
  BY <1>7

\* A program that numbers its objects, and in whose calls the numbers of this
\* and of the arguments ascend in the order in which the guards are constructed,
\* does not deadlock.
THEOREM NumbersPreventDeadlock ==
  ASSUME ThrowOnBlock => OneObjectPerGuard,
         NEW N \in Nat, NEW rank \in [Objects -> 0 .. N], Follows(ByRank(rank))
  PROVE  Spec => []NoDeadlock
BY RanksEnd, OrderPreventsDeadlock
=============================================================================
