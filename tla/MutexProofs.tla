---------------------------- MODULE MutexProofs ----------------------------
(***************************************************************************)
(* Theorems about Mutex, for any number of threads and mutexes.            *)
(***************************************************************************)
EXTENDS Mutex, PtInternalProofs

\* A thread on a queue is on that of the mutex it waits for, once, and has
\* not consumed a message or drained its port.
QueueInv ==
  /\ \A q \in Queues : NoDuplicates(queue[q])
  /\ \A q \in Queues : \A t \in Waiters(q) :
       q = obj[t] /\ pc[t] \in {"block", "timedblock", "timedout"}

\* The wakeup protocol.  The four conjuncts depend on each other: a waker's
\* target is a dequeued thread with an empty port and no other waker, so that
\* its send succeeds; and every dequeued thread has a message or a waker.
WakerInv ==
  \A t \in Threads :
    pc[t] = "wakeup" => /\ target[t] \in Threads
                        /\ Dequeued(target[t])
                        /\ ~port[target[t]]

OneWakerInv ==
  \A t, u \in Threads :
    pc[t] = "wakeup" /\ pc[u] = "wakeup" /\ target[t] = target[u] => t = u

WakeupInv == /\ MutexTypeOK
             /\ QueueInv
             /\ WakerInv
             /\ OneWakerInv
             /\ NoStrayMessage
             /\ NoLostWakeup

-----------------------------------------------------------------------------
(* Type correctness.                                                       *)

\* Initially the types are right and every queue is empty.
LEMMA TypeInit == MutexInit => MutexTypeOK /\ QueueInv
<1> SUFFICES ASSUME MutexInit PROVE MutexTypeOK /\ QueueInv
  OBVIOUS
<1>1. queue = [q \in Queues |-> <<>>] /\ \A q \in Queues : Waiters(q) = {}
  BY DEF MutexInit, BlockInit, Waiters, ToSet
<1>2. QueueInv
  BY <1>1 DEF QueueInv, NoDuplicates
<1>3. BlockTypeOK
  BY <1>1 DEF MutexInit, BlockInit, BlockTypeOK
<1>4. AnyMutex \in Mutexes
  BY MutexAssumption DEF AnyMutex
<1>5. MutexTypeOK
  BY <1>3, <1>4, MutexAssumption DEF MutexInit, MutexTypeOK, PCs, Results
<1> QED
  BY <1>2, <1>5

\* A caller that is idle is on no queue.
LEMMA IdleNotLinked ==
  ASSUME MutexTypeOK, QueueInv, NEW t \in Threads,
         pc[t] \notin {"block", "timedblock", "timedout"}
  PROVE  ~Linked(t)
  BY DEF QueueInv, Linked

\* The calls that touch neither the queues nor the wakeup messages.
Quiet(t, m) ==
  \/ Acquire(t, m) \/ Relock(t, m) \/ Deadlk(t, m) \/ BadAbstime(t, m)
  \/ TryBusy(t, m) \/ NotOwner(t, m) \/ UnlockOnce(t, m)
  \/ MayCallUnlock(t, m) /\ Release(t, m)
  \/ \E u \in Threads \cup {NoThread} : MayTransfer(t, m, u) /\ Transfer(t, m, u)

\* The calls, seen by what they do to the queues.
CallStep(t, m) ==
  \/ Quiet(t, m)
  \/ MayCallUnlock(t, m) /\ HandOff(t, m)
  \/ \E a \in Abstimes : a # "invalid" /\ MayLock(t, m, a) /\ Wait(t, m, a)

\* The steps of a thread, one disjunct for each.
LEMMA NextSteps ==
  ASSUME MutexNext
  PROVE  \E t \in Threads : Continue(t) \/ \E m \in Mutexes : CallStep(t, m)
<1>1. ASSUME NEW t \in Threads, NEW m \in Mutexes, Call(t, m)
      PROVE  CallStep(t, m)
  <2>1. CASE \E a \in Abstimes : MayLock(t, m, a) /\ TimedLock(t, m, a)
    BY <2>1, Zenon DEF TimedLock, Quiet, CallStep
  <2>2. CASE TryLock(t, m)
    BY <2>2, Zenon DEF TryLock, Quiet, CallStep
  <2>3. CASE MayCallUnlock(t, m) /\ Unlock(t, m)
    BY <2>3, Zenon DEF Unlock, Quiet, CallStep
  <2>4. CASE \E u \in Threads \cup {NoThread} : MayTransfer(t, m, u) /\ Transfer(t, m, u)
    BY <2>4, Zenon DEF Quiet, CallStep
  <2> QED
    BY <1>1, <2>1, <2>2, <2>3, <2>4 DEF Call
<1> QED
  BY <1>1 DEF MutexNext

\* A call that neither waits nor hands the mutex over leaves alone what the
\* wakeups rest on.
LEMMA QuietFrame ==
  ASSUME NEW t, NEW m, Quiet(t, m)
  PROVE  UNCHANGED <<queue, port, type, pc, obj, target>>
  BY Zenon DEF Quiet, Acquire, Relock, Deadlk, BadAbstime, TryBusy, NotOwner,
               UnlockOnce, Release, Transfer, blockVars

\* Every step keeps the queues well formed.
LEMMA QueueStep ==
  ASSUME MutexTypeOK, QueueInv, NoStrayMessage, [MutexNext]_vars
  PROVE  /\ queue' \in [Queues -> Seq(Threads)]
         /\ QueueInv'
<1> USE MutexAssumption
<1>0. /\ BlockTypeOK
      /\ \A q \in Queues : NoDuplicates(queue[q])
      /\ pc \in [Threads -> PCs] /\ obj \in [Threads -> Mutexes]
  BY DEF MutexTypeOK, QueueInv
<1>1. ASSUME UNCHANGED <<queue, obj>>,
             \A t \in Threads : Linked(t) /\ pc[t] \in {"block", "timedblock", "timedout"}
                                  => pc'[t] \in {"block", "timedblock", "timedout"}
      PROVE  queue' \in [Queues -> Seq(Threads)] /\ QueueInv'
  BY <1>0, <1>1, SameWaiters, WaitersAreThreads DEF QueueInv, BlockTypeOK, Linked
<1>2. CASE UNCHANGED vars
  BY <1>1, <1>2 DEF vars, mutexVars, blockVars
<1>3. ASSUME NEW t \in Threads, NEW m \in Mutexes, Quiet(t, m)
      PROVE  queue' \in [Queues -> Seq(Threads)] /\ QueueInv'
  BY <1>1, <1>3, QuietFrame
<1>4. ASSUME NEW u, Dequeue(u), UNCHANGED obj, NEW t \in Threads, NEW l,
             pc' = [pc EXCEPT ![t] = l], ~Linked(t) \/ t = u
      PROVE  queue' \in [Queues -> Seq(Threads)] /\ QueueInv'
  <2>1. /\ queue' \in [Queues -> Seq(Threads)]
        /\ \A q \in Queues : NoDuplicates(queue'[q])
        /\ \A q \in Queues : Waiters(q)' = Waiters(q) \ {u}
    BY <1>0, <1>4, DequeueStep
  <2>2. ASSUME NEW q \in Queues, NEW w \in Waiters(q)'
        PROVE  q = obj'[w] /\ pc'[w] \in {"block", "timedblock", "timedout"}
    <3>1. w \in Waiters(q) /\ w # u /\ w \in Threads /\ w # t
      BY <2>1, <2>2, <1>0, <1>4, WaitersAreThreads DEF Linked
    <3> QED
      BY <3>1, <1>0, <1>4 DEF QueueInv
  <2> QED
    BY <2>1, <2>2 DEF QueueInv
<1>5. ASSUME NEW t \in Threads, NEW m \in Mutexes, HandOff(t, m)
      PROVE  queue' \in [Queues -> Seq(Threads)] /\ QueueInv'
  BY <1>4, <1>5, IdleNotLinked DEF HandOff, MayUnlock, Goto
<1>6. ASSUME NEW t \in Threads, NEW m \in Mutexes, NEW a, Wait(t, m, a)
      PROVE  queue' \in [Queues -> Seq(Threads)] /\ QueueInv'
  <2>1. /\ Enqueue(m, t) /\ m \in Queues /\ ~Linked(t)
        /\ obj' = [obj EXCEPT ![t] = m]
        /\ pc' = [pc EXCEPT ![t] = IF a = "null" THEN "block" ELSE "timedblock"]
    BY <1>6, IdleNotLinked DEF Wait, Busy, Goto
  <2>2. /\ queue' \in [Queues -> Seq(Threads)]
        /\ \A q \in Queues : NoDuplicates(queue'[q])
        /\ \A q \in Queues : Waiters(q)' = IF q = m THEN Waiters(q) \cup {t} ELSE Waiters(q)
    BY <1>0, <2>1, EnqueueStep
  <2>3. ASSUME NEW q \in Queues, NEW w \in Waiters(q)'
        PROVE  q = obj'[w] /\ pc'[w] \in {"block", "timedblock", "timedout"}
    <3>1. CASE w = t
      <4>1. t \notin Waiters(q)
        BY <2>1 DEF Linked
      <4> QED
        BY <3>1, <4>1, <2>1, <2>2, <2>3, <1>0
    <3>2. CASE w # t
      <4>1. w \in Waiters(q) /\ w \in Threads
        BY <3>2, <2>2, <2>3, <1>0, WaitersAreThreads
      <4> QED
        BY <3>2, <4>1, <2>1, <1>0 DEF QueueInv
    <3> QED
      BY <3>1, <3>2
  <2> QED
    BY <2>2, <2>3 DEF QueueInv
<1>7. ASSUME NEW t \in Threads, Continue(t)
      PROVE  queue' \in [Queues -> Seq(Threads)] /\ QueueInv'
  <2>1. CASE Receive(t)
    <3>1. ~Linked(t)
      BY <2>1 DEF Receive, Block, NoStrayMessage, Dequeued
    <3> QED
      BY <2>1, <3>1, <1>1, <1>0 DEF Receive, Goto
  <2>2. CASE TimeOut(t)
    BY <2>2, <1>1, <1>0 DEF TimeOut, Goto, blockVars
  <2>3. CASE Recheck(t) \/ GiveUp(t)
    BY <2>3, <1>4 DEF Recheck, GiveUp, Goto
  <2>4. CASE MustDrain(t) \/ Drain(t) \/ Gain(t) \/ SendWakeup(t)
    BY <2>4, <1>1, <1>0, IdleNotLinked DEF MustDrain, Drain, Gain, SendWakeup, Goto, blockVars
  <2> QED
    BY <1>7, <2>1, <2>2, <2>3, <2>4 DEF Continue
<1> QED
  BY <1>2, <1>3, <1>5, <1>6, <1>7, NextSteps DEF CallStep

\* The counts of granted locks stay natural numbers.
LEMMA GotType ==
  ASSUME got \in [Threads -> [Mutexes -> Nat]], NEW t \in Threads, NEW m \in Mutexes,
         Grant(t, m) \/ Ungrant(t, m)
  PROVE  got' \in [Threads -> [Mutexes -> Nat]]
<1>1. got[t][m] \in Nat
  OBVIOUS
<1>2. CASE Grant(t, m)
  BY <1>1, <1>2 DEF Grant
<1>3. CASE Ungrant(t, m)
  <2>1. (IF got[t][m] = 0 THEN 0 ELSE got[t][m] - 1) \in Nat
    BY <1>1
  <2> QED
    BY <1>3, <2>1 DEF Ungrant
<1> QED
  BY <1>2, <1>3

\* Every step keeps the variables in their types.
LEMMA TypeStep ==
  ASSUME MutexTypeOK, QueueInv, NoStrayMessage, [MutexNext]_vars
  PROVE  MutexTypeOK'
<1> USE MutexAssumption DEF MutexTypeOK, BlockTypeOK
<1>1. queue' \in [Queues -> Seq(Threads)]
  BY QueueStep
<1>2. CASE UNCHANGED vars
  BY <1>2 DEF vars, mutexVars, blockVars
<1>3. ASSUME NEW t \in Threads, NEW m \in Mutexes, Quiet(t, m)
      PROVE  MutexTypeOK'
  <2>1. CASE Acquire(t, m)
    <3>1. got' \in [Threads -> [Mutexes -> Nat]]
      BY <2>1, GotType DEF Acquire
    <3>2. locks' \in [Mutexes -> 0..UIntMax]
      BY <2>1 DEF Acquire
    <3> QED
      BY <1>1, <2>1, <3>1, <3>2 DEF Acquire, Return, Results, blockVars
  <2>2. CASE Relock(t, m)
    <3>1. got' \in [Threads -> [Mutexes -> Nat]]
      BY <2>2, GotType DEF Relock
    <3>2. Incr(locks[m]) \in 0..UIntMax
      BY DEF Incr
    <3> QED
      BY <1>1, <2>2, <3>1, <3>2 DEF Relock, Return, Results, blockVars
  <2>3. CASE Deadlk(t, m) \/ BadAbstime(t, m) \/ TryBusy(t, m) \/ NotOwner(t, m)
    BY <1>1, <2>3 DEF Deadlk, BadAbstime, TryBusy, NotOwner, Return, Results, blockVars
  <2>4. CASE UnlockOnce(t, m)
    <3>1. got' \in [Threads -> [Mutexes -> Nat]]
      BY <2>4, GotType DEF UnlockOnce
    <3>2. Decr(locks[m]) \in 0..UIntMax
      BY DEF Decr
    <3> QED
      BY <1>1, <2>4, <3>1, <3>2 DEF UnlockOnce, Return, Results, blockVars
  <2>5. CASE Release(t, m)
    <3>1. got' \in [Threads -> [Mutexes -> Nat]]
      BY <2>5, GotType DEF Release
    <3>2. locks' \in [Mutexes -> 0..UIntMax]
      BY <2>5 DEF Release, Unlocked
    <3> QED
      BY <1>1, <2>5, <3>1, <3>2 DEF Release, Return, Results, blockVars
  <2>6. ASSUME NEW u \in Threads \cup {NoThread}, Transfer(t, m, u)
        PROVE  MutexTypeOK'
    <3>1. got' \in [Threads -> [Mutexes -> Nat]]
      <4>1. CASE u \in {NoThread, t} \/ TransferRefused(t, m)
        BY <2>6, <4>1 DEF Transfer
      <4>2. CASE u \notin {NoThread, t} /\ ~TransferRefused(t, m)
        <5>1. got' = [got EXCEPT ![t][m] = 0, ![u][m] = got[t][m]] /\ got[t][m] \in Nat /\ u \in Threads
          BY <2>6, <4>2 DEF Transfer
        <5> QED
          BY <5>1
      <4> QED
        BY <4>1, <4>2
    <3>2. owner' \in [Mutexes -> Threads \cup {NoThread}]
      <4>1. CASE u \in {NoThread, t} \/ TransferRefused(t, m)
        BY <2>6, <4>1 DEF Transfer
      <4>2. CASE u \notin {NoThread, t} /\ ~TransferRefused(t, m)
        <5>1. PICK v \in Threads \cup {NoThread} : owner' = [owner EXCEPT ![m] = v]
          BY <2>6, <4>2 DEF Transfer
        <5> QED
          BY <5>1
      <4> QED
        BY <4>1, <4>2
    <3> QED
      BY <1>1, <2>6, <3>1, <3>2 DEF Transfer, TransferRefused, Return, Results, blockVars
  <2> QED
    BY <1>3, <2>1, <2>2, <2>3, <2>4, <2>5, <2>6 DEF Quiet
<1>4. ASSUME NEW t \in Threads, NEW m \in Mutexes, HandOff(t, m)
      PROVE  MutexTypeOK'
  <2>1. Head(queue[m]) \in Threads
    BY <1>4, HeadWaits DEF HandOff
  <2>2. got' \in [Threads -> [Mutexes -> Nat]]
    BY <1>4, GotType DEF HandOff
  <2>3. locks' \in [Mutexes -> 0..UIntMax]
    BY <1>4 DEF HandOff, Unlocked
  <2>4. owner' \in [Mutexes -> Threads \cup {NoThread}]
    BY <1>4, <2>1 DEF HandOff, NewOwner
  <2> QED
    BY <1>1, <1>4, <2>1, <2>2, <2>3, <2>4 DEF HandOff, Goto, PCs
<1>5. ASSUME NEW t \in Threads, NEW m \in Mutexes, NEW a, Wait(t, m, a)
      PROVE  MutexTypeOK'
  BY <1>1, <1>5 DEF Wait, Goto, PCs
<1>6. ASSUME NEW t \in Threads, Continue(t)
      PROVE  MutexTypeOK'
  <2>1. CASE Receive(t) \/ TimeOut(t) \/ Recheck(t) \/ GiveUp(t) \/ MustDrain(t) \/ Drain(t)
    BY <1>1, <2>1 DEF Receive, TimeOut, Recheck, GiveUp, MustDrain, Drain, Block, Goto,
                      Return, PCs, Results, blockVars
  <2>2. CASE Gain(t)
    <3>1. got' \in [Threads -> [Mutexes -> Nat]]
      BY <2>2, GotType DEF Gain
    <3>2. obj[t] \in Mutexes
      OBVIOUS
    <3>3. locks' \in [Mutexes -> 0..UIntMax] /\ owner' \in [Mutexes -> Threads \cup {NoThread}]
      BY <2>2, <3>2 DEF Gain
    <3> QED
      BY <1>1, <2>2, <3>1, <3>3 DEF Gain, Goto, Return, PCs, Results, blockVars
  <2>3. CASE SendWakeup(t)
    BY <1>1, <2>3 DEF SendWakeup, Wakeup, Goto, Return, PCs, Results
  <2> QED
    BY <1>6, <2>1, <2>2, <2>3 DEF Continue
<1> QED
  BY <1>2, <1>3, <1>4, <1>5, <1>6, NextSteps DEF CallStep

-----------------------------------------------------------------------------
(* The wakeup protocol.                                                    *)

\* The wakeup invariant holds initially.
LEMMA WakeupInit == MutexInit => WakeupInv
<1> SUFFICES ASSUME MutexInit PROVE WakeupInv
  OBVIOUS
<1>1. \A t \in Threads : pc[t] = "idle" /\ ~port[t]
  BY DEF MutexInit, BlockInit
<1> QED
  BY <1>1, TypeInit DEF WakeupInv, WakerInv, OneWakerInv, NoStrayMessage, NoLostWakeup, Dequeued

\* The part of WakeupInv that is about messages and wakers.
Protocol == WakerInv /\ OneWakerInv /\ NoStrayMessage /\ NoLostWakeup

\* Steps of t that send or receive nothing and dequeue nobody else.
LEMMA SilentStep ==
  ASSUME WakeupInv, NEW t \in Threads,
         UNCHANGED <<port, target>>,
         pc[t] # "wakeup", pc'[t] # "wakeup",
         \A u \in Threads : u # t => pc'[u] = pc[u],
         \A u \in Threads : Dequeued(u)' <=> Dequeued(u)
  PROVE  Protocol'
<1> USE DEF WakeupInv, Protocol
<1>1. \A u \in Threads : pc'[u] = "wakeup" <=> pc[u] = "wakeup"
  OBVIOUS
<1>2. WakerInv'
  BY <1>1 DEF WakerInv
<1>3. OneWakerInv'
  BY <1>1 DEF OneWakerInv
<1>4. NoStrayMessage'
  BY DEF NoStrayMessage
<1>5. NoLostWakeup'
  BY <1>1 DEF NoLostWakeup
<1> QED
  BY <1>2, <1>3, <1>4, <1>5

\* A thread consumes the message it was sent.
LEMMA ReceiveStep ==
  ASSUME WakeupInv, NEW t \in Threads, Block(t),
         UNCHANGED target, NEW l, l \in {"received", "idle"}, pc' = [pc EXCEPT ![t] = l],
         UNCHANGED queue
  PROVE  Protocol'
<1> USE DEF WakeupInv, Protocol
<1>0. pc \in [Threads -> PCs] /\ port \in [Threads -> BOOLEAN]
  BY DEF MutexTypeOK, BlockTypeOK
<1>1. /\ pc'[t] = l /\ \A u \in Threads : u # t => pc'[u] = pc[u]
      /\ port[t] /\ ~port'[t] /\ \A u \in Threads : u # t => port'[u] = port[u]
  BY <1>0 DEF Block
<1>2. Dequeued(t) /\ pc[t] # "wakeup"
  BY <1>1 DEF NoStrayMessage, Dequeued
<1>3. \A u \in Threads : Dequeued(u)' <=> (u # t /\ Dequeued(u))
  BY <1>1, SameWaiters DEF Dequeued
<1>4. \A u \in Threads : pc[u] = "wakeup" => target[u] # t
  BY <1>1 DEF WakerInv
<1>5. \A u \in Threads : pc'[u] = "wakeup" <=> pc[u] = "wakeup"
  BY <1>1, <1>2
<1>6. WakerInv'
  BY <1>1, <1>3, <1>4, <1>5 DEF WakerInv
<1>7. OneWakerInv'
  BY <1>5 DEF OneWakerInv
<1>8. NoStrayMessage'
  BY <1>1, <1>3 DEF NoStrayMessage
<1>9. NoLostWakeup'
  BY <1>1, <1>3, <1>5 DEF NoLostWakeup
<1> QED
  BY <1>6, <1>7, <1>8, <1>9

\* An unlock dequeues the thread it is going to wake up.
LEMMA HandOffStep ==
  ASSUME WakeupInv, NEW t \in Threads, NEW m \in Mutexes, HandOff(t, m)
  PROVE  Protocol'
<1> DEFINE w == Head(queue[m])
<1> USE MutexAssumption DEF WakeupInv, Protocol
<1>0. /\ pc \in [Threads -> PCs] /\ target \in [Threads -> Threads \cup {NoThread}]
      /\ BlockTypeOK /\ \A q \in Queues : NoDuplicates(queue[q])
  BY DEF MutexTypeOK, QueueInv
<1>1. /\ w \in Threads /\ w \in Waiters(m) /\ m \in Queues
      /\ pc[w] \in {"block", "timedblock", "timedout"}
  BY <1>0, HeadWaits DEF HandOff, QueueInv
<1>2. Linked(w) /\ ~Dequeued(w)
  BY <1>1 DEF Linked, Dequeued
<1> HIDE DEF w
<1>3. /\ pc[t] = "idle" /\ t # w
      /\ pc'[t] = "wakeup" /\ \A u \in Threads : u # t => pc'[u] = pc[u]
      /\ target'[t] = w /\ \A u \in Threads : u # t => target'[u] = target[u]
      /\ UNCHANGED port
      /\ Dequeue(w)
  BY <1>0, <1>1 DEF HandOff, MayUnlock, Goto, w
<1>4. \A u \in Threads : Linked(u)' <=> (u # w /\ Linked(u))
  BY <1>0, <1>3, DequeueStep
<1>5. \A u \in Threads : Dequeued(u)' <=> (u = w \/ Dequeued(u))
  BY <1>1, <1>3, <1>4 DEF Dequeued
<1>6. ~port[w] /\ \A u \in Threads : pc[u] = "wakeup" => target[u] # w
  BY <1>1, <1>2 DEF NoStrayMessage, WakerInv
<1>7. WakerInv'
  BY <1>1, <1>3, <1>5, <1>6 DEF WakerInv
<1>8. OneWakerInv'
  BY <1>3, <1>6 DEF OneWakerInv
<1>9. NoStrayMessage'
  BY <1>3, <1>5 DEF NoStrayMessage
<1>10. NoLostWakeup'
  <2>1. SUFFICES ASSUME NEW u \in Threads, Dequeued(u)', ~port'[u]
                 PROVE  \E v \in Threads : pc'[v] = "wakeup" /\ target'[v] = u
    BY DEF NoLostWakeup
  <2>2. CASE u = w
    BY <2>2, <1>3
  <2>3. CASE u # w
    <3>1. PICK v \in Threads : pc[v] = "wakeup" /\ target[v] = u
      BY <2>1, <2>3, <1>3, <1>5 DEF NoLostWakeup
    <3> QED
      BY <3>1, <1>3
  <2> QED
    BY <2>2, <2>3
<1> QED
  BY <1>7, <1>8, <1>9, <1>10

\* The message is sent to a thread whose port is empty.
LEMMA SendStep ==
  ASSUME WakeupInv, NEW t \in Threads, SendWakeup(t)
  PROVE  Protocol'
<1> DEFINE w == target[t]
<1> USE MutexAssumption DEF WakeupInv, Protocol
<1>0. /\ pc \in [Threads -> PCs] /\ target \in [Threads -> Threads \cup {NoThread}]
      /\ port \in [Threads -> BOOLEAN]
  BY DEF MutexTypeOK, BlockTypeOK
<1>1. /\ pc[t] = "wakeup" /\ w \in Threads /\ Dequeued(w) /\ ~port[w]
  BY DEF SendWakeup, WakerInv
<1> HIDE DEF w
<1>2. /\ pc'[t] = "idle" /\ \A u \in Threads : u # t => pc'[u] = pc[u]
      /\ \A u \in Threads : u # t => target'[u] = target[u]
      /\ port'[w] /\ \A u \in Threads : u # w => port'[u] = port[u]
      /\ UNCHANGED queue
  BY <1>0, <1>1 DEF SendWakeup, Wakeup, Goto, w
<1>3. \A u \in Threads : Dequeued(u)' <=> Dequeued(u)
  BY <1>1, <1>2, SameWaiters DEF Dequeued
<1>4. \A u \in Threads : pc'[u] = "wakeup" => u # t /\ pc[u] = "wakeup" /\ target[u] # w
  BY <1>1, <1>2 DEF OneWakerInv, w
<1>5. WakerInv'
  BY <1>2, <1>3, <1>4 DEF WakerInv
<1>6. OneWakerInv'
  BY <1>2, <1>4 DEF OneWakerInv
<1>7. NoStrayMessage'
  BY <1>1, <1>2, <1>3 DEF NoStrayMessage
<1>8. NoLostWakeup'
  <2>1. SUFFICES ASSUME NEW u \in Threads, Dequeued(u)', ~port'[u]
                 PROVE  \E v \in Threads : pc'[v] = "wakeup" /\ target'[v] = u
    BY DEF NoLostWakeup
  <2>2. u # w /\ ~port[u] /\ Dequeued(u)
    BY <2>1, <1>2, <1>3
  <2>3. PICK v \in Threads : pc[v] = "wakeup" /\ target[v] = u
    BY <2>2 DEF NoLostWakeup
  <2> QED
    BY <2>2, <2>3, <1>2 DEF w
<1> QED
  BY <1>5, <1>6, <1>7, <1>8

\* Every action of the mutex preserves the wakeup invariant.
LEMMA WakeupStep == WakeupInv /\ [MutexNext]_vars => WakeupInv'
<1> SUFFICES ASSUME WakeupInv, [MutexNext]_vars PROVE WakeupInv'
  OBVIOUS
<1> USE MutexAssumption
<1>0. /\ pc \in [Threads -> PCs] /\ MutexTypeOK /\ QueueInv /\ NoStrayMessage
      /\ BlockTypeOK /\ \A q \in Queues : NoDuplicates(queue[q])
  BY DEF WakeupInv, MutexTypeOK, QueueInv
<1>1. MutexTypeOK' /\ QueueInv'
  BY <1>0, TypeStep, QueueStep
<1>2. ASSUME UNCHANGED <<queue, port, pc, target>>
      PROVE  Protocol'
  <2>1. \A u \in Threads : Dequeued(u)' <=> Dequeued(u)
    BY <1>2, SameWaiters DEF Dequeued
  <2> QED
    BY <1>2, <2>1 DEF WakeupInv, Protocol, WakerInv, OneWakerInv, NoStrayMessage, NoLostWakeup
<1>3. ASSUME NEW t \in Threads, NEW m \in Mutexes, NEW a, Wait(t, m, a)
      PROVE  Protocol'
  <2>1. /\ pc[t] = "idle" /\ ~Linked(t) /\ m \in Queues
        /\ \A u \in Threads : u # t => pc'[u] = pc[u]
        /\ pc'[t] # "wakeup"
        /\ Enqueue(m, t) /\ UNCHANGED <<port, target>>
    BY <1>0, <1>3, IdleNotLinked DEF Wait, Busy, Goto
  <2>2. \A u \in Threads : Linked(u)' <=> (u = t \/ Linked(u))
    BY <1>0, <2>1, EnqueueStep
  <2>3. \A u \in Threads : Dequeued(u)' <=> Dequeued(u)
    BY <2>1, <2>2 DEF Dequeued
  <2> QED
    BY <2>1, <2>3, SilentStep
<1>4. ASSUME NEW t \in Threads, Continue(t)
      PROVE  Protocol'
  <2>1. CASE Receive(t)
    BY <2>1, ReceiveStep DEF Receive, Goto
  <2>2. CASE Drain(t)
    BY <2>2, ReceiveStep DEF Drain, Goto
  <2>3. CASE SendWakeup(t)
    BY <2>3, SendStep
  <2>4. CASE TimeOut(t) \/ MustDrain(t) \/ Gain(t)
    <3>1. /\ \A u \in Threads : u # t => pc'[u] = pc[u]
          /\ UNCHANGED <<queue, port, target>>
          /\ pc[t] # "wakeup" /\ pc'[t] # "wakeup"
      BY <1>0, <2>4 DEF TimeOut, MustDrain, Gain, Goto, blockVars
    <3>2. \A u \in Threads : Dequeued(u)' <=> Dequeued(u)
      BY <1>0, <2>4, <3>1, SameWaiters DEF TimeOut, MustDrain, Gain, Goto, Dequeued
    <3> QED
      BY <3>1, <3>2, SilentStep
  <2>5. CASE Recheck(t) \/ GiveUp(t)
    <3>1. /\ \A u \in Threads : u # t => pc'[u] = pc[u]
          /\ UNCHANGED <<port, target>> /\ Dequeue(t)
          /\ pc[t] # "wakeup" /\ pc'[t] \in {"idle", "gain"}
      BY <1>0, <2>5 DEF Recheck, GiveUp, Goto
    <3>2. ~Dequeued(t)
      BY <2>5 DEF Recheck, GiveUp, Dequeued
    <3>3. \A u \in Threads : Linked(u)' <=> (u # t /\ Linked(u))
      BY <1>0, <3>1, DequeueStep
    <3>4. \A u \in Threads : Dequeued(u)' <=> Dequeued(u)
      BY <3>1, <3>2, <3>3 DEF Dequeued
    <3> QED
      BY <3>1, <3>4, SilentStep
  <2> QED
    BY <1>4, <2>1, <2>2, <2>3, <2>4, <2>5 DEF Continue
<1>5. Protocol'
  <2>1. CASE UNCHANGED vars
    BY <2>1, <1>2 DEF vars, mutexVars, blockVars
  <2>2. CASE MutexNext
    <3>1. ASSUME NEW t \in Threads, NEW m \in Mutexes, Quiet(t, m) PROVE Protocol'
      BY <3>1, QuietFrame, <1>2
    <3> QED
      BY <2>2, <3>1, <1>3, <1>4, HandOffStep, NextSteps DEF CallStep
  <2> QED
    BY <2>1, <2>2
<1> QED
  BY <1>1, <1>5 DEF WakeupInv, Protocol

\* The variables keep their types in every behaviour, in every build and with
\* every kind of caller.
THEOREM TypeCorrect == MutexSpec => []MutexTypeOK
<1>1. WakeupInv => MutexTypeOK
  BY DEF WakeupInv
<1> QED
  BY <1>1, WakeupInit, WakeupStep, PTL DEF MutexSpec

\* __pthread_wakeup never fails: the thread an unlock is about to wake up has
\* an empty port, even if it timed out after it was dequeued.
THEOREM WakeupAlwaysDelivered == MutexSpec => []WakeupDelivered
<1>1. WakeupInv => WakeupDelivered
  BY DEF WakeupInv, WakerInv, WakeupDelivered
<1> QED
  BY <1>1, WakeupInit, WakeupStep, PTL DEF MutexSpec

\* No thread that an unlock dequeued is left without its message.
THEOREM WakeupNeverLost == MutexSpec => []NoLostWakeup
<1>1. WakeupInv => NoLostWakeup
  BY DEF WakeupInv
<1> QED
  BY <1>1, WakeupInit, WakeupStep, PTL DEF MutexSpec

\* No message outlives the call it was sent for.
THEOREM MessagesAreFresh == MutexSpec => []NoStrayMessage
<1>1. WakeupInv => NoStrayMessage
  BY DEF WakeupInv
<1> QED
  BY <1>1, WakeupInit, WakeupStep, PTL DEF MutexSpec

-----------------------------------------------------------------------------
(* Who is entitled to a mutex.                                             *)

NoTimeouts == "valid" \notin Abstimes

\* The configurations in which a mutex never has two holders: the owner is
\* tracked through a hand-off (no NDEBUG), and no recursive mutex is locked
\* with a timeout.
Tracked == ~NDEBUG /\ (NoTimeouts \/ "recursive" \notin MutexTypes)

\* What mutex->owner says: nothing for the type normal, otherwise that the
\* mutex is held, and, for the recursive type, held by that thread.
OwnerInv ==
  \A m \in Mutexes :
    /\ type[m] = "normal" => owner[m] = NoThread
    /\ owner[m] # NoThread => held[m]
    /\ type[m] = "recursive" => \A t \in Threads : owner[m] = t => Claims(t, m)

\* A thread that was handed the mutex did not hold it, and only a recursive
\* mutex is granted more than once, MaxLocks times at most.
GrantInv ==
  \A m \in Mutexes, t \in Threads :
    /\ Handed(t, m) => got[t][m] = 0
    /\ type[m] # "recursive" => got[t][m] <= 1
    /\ got[t][m] <= MaxLocks

ClaimInv ==
  /\ MutualExclusion
  /\ \A m \in Mutexes, t \in Threads : Claims(t, m) => held[m]
  /\ OwnerIsHolder
  /\ OwnerInv
  /\ GrantInv
  /\ NoTimeouts => /\ \A t \in Threads : pc[t] \notin {"timedblock", "timedout", "drain"}
                   /\ \A m \in Mutexes : held[m] => \E t \in Threads : Claims(t, m)

\* Nobody claims a mutex initially.
LEMMA ClaimInit == MutexInit => ClaimInv
<1> SUFFICES ASSUME MutexInit PROVE ClaimInv
  OBVIOUS
<1>1. /\ \A t \in Threads : pc[t] = "idle"
      /\ \A m \in Mutexes : owner[m] = NoThread /\ ~held[m]
      /\ \A t \in Threads, m \in Mutexes : got[t][m] = 0
  BY DEF MutexInit
<1>2. \A t \in Threads, m \in Mutexes : ~Claims(t, m) /\ ~Handed(t, m)
  BY <1>1 DEF Claims, Handed
<1> QED
  BY <1>1, <1>2, MutexAssumption DEF ClaimInv, MutualExclusion, OwnerIsHolder, OwnerInv, GrantInv

\* Steps that grant and hand over nothing, and take nothing away except, with
\* a timeout, from a thread that a mutex was handed to.
LEMMA SameClaims ==
  ASSUME ClaimInv, MutexTypeOK, Tracked,
         UNCHANGED <<type, held, owner, locks, got>>,
         \A t \in Threads, m \in Mutexes : Handed(t, m)' => Handed(t, m),
         NoTimeouts => /\ \A t \in Threads, m \in Mutexes : Handed(t, m) => Handed(t, m)'
                       /\ \A t \in Threads : pc'[t] \notin {"timedblock", "timedout", "drain"}
  PROVE  ClaimInv'
<1> USE DEF ClaimInv
<1>1. \A t \in Threads, m \in Mutexes : Claims(t, m)' => Claims(t, m)
  BY DEF Claims
<1>2. \A t \in Threads, m \in Mutexes : NoTimeouts /\ Claims(t, m) => Claims(t, m)'
  BY DEF Claims
<1>3. \A m \in Mutexes : type[m] = "recursive" => NoTimeouts
  BY DEF MutexTypeOK, Tracked
<1>4. MutualExclusion'
  BY <1>1 DEF MutualExclusion
<1>5. OwnerIsHolder'
  BY <1>1 DEF OwnerIsHolder
<1>6. OwnerInv'
  BY <1>2, <1>3 DEF OwnerInv
<1>7. GrantInv'
  BY DEF GrantInv
<1>8. NoTimeouts => \A m \in Mutexes : held'[m] => \E t \in Threads : Claims(t, m)'
  BY <1>2
<1>9. \A m \in Mutexes, t \in Threads : Claims(t, m)' => held'[m]
  BY <1>1
<1>10. NoTimeouts' <=> NoTimeouts
  BY DEF NoTimeouts
<1> QED
  BY <1>4, <1>5, <1>6, <1>7, <1>8, <1>9, <1>10

\* Steps after which no thread other than w has a claim on m, and nothing else
\* changes for the other mutexes.
LEMMA OneClaim ==
  ASSUME ClaimInv, MutexTypeOK, Tracked, NEW m \in Mutexes, NEW w,
         UNCHANGED type,
         \A k \in Mutexes : k # m => /\ held'[k] = held[k] /\ owner'[k] = owner[k]
                                     /\ locks'[k] = locks[k],
         \A t \in Threads, k \in Mutexes :
           k # m => got'[t][k] = got[t][k] /\ (Handed(t, k)' <=> Handed(t, k)),
         \A t \in Threads : Claims(t, m)' => t = w /\ held'[m],
         \A t \in Threads : t # w => got'[t][m] = 0 /\ ~Handed(t, m)',
         w \in Threads =>
           /\ Handed(w, m)' => got'[w][m] = 0
           /\ type[m] # "recursive" => got'[w][m] <= 1
           /\ got'[w][m] <= MaxLocks
           /\ type[m] # "normal" /\ Claims(w, m)' =>
                owner'[m] = w /\ (type[m] = "recursive" => locks'[m] = got'[w][m]),
         type[m] = "normal" => owner'[m] = NoThread,
         owner'[m] # NoThread => held'[m],
         type[m] = "recursive" => \A t \in Threads : owner'[m] = t => Claims(t, m)',
         NoTimeouts => /\ \A t \in Threads : pc'[t] \notin {"timedblock", "timedout", "drain"}
                       /\ held'[m] => \E t \in Threads : Claims(t, m)'
  PROVE  ClaimInv'
<1> USE DEF ClaimInv
<1>1. \A t \in Threads, k \in Mutexes : k # m => (Claims(t, k)' <=> Claims(t, k))
  BY DEF Claims
<1>2. MutualExclusion'
  BY <1>1 DEF MutualExclusion
<1>3. OwnerIsHolder'
  BY <1>1 DEF OwnerIsHolder
<1>4. OwnerInv'
  BY <1>1 DEF OwnerInv
<1>5. GrantInv'
  <2>1. SUFFICES ASSUME NEW k \in Mutexes, NEW t \in Threads
                 PROVE  /\ Handed(t, k)' => got'[t][k] = 0
                        /\ type'[k] # "recursive" => got'[t][k] <= 1
                        /\ got'[t][k] <= MaxLocks
    BY DEF GrantInv
  <2>2. CASE k # m
    BY <2>2 DEF GrantInv
  <2>3. CASE k = m /\ t = w
    BY <2>3
  <2>4. CASE k = m /\ t # w
    BY <2>4, MutexAssumption
  <2> QED
    BY <2>2, <2>3, <2>4
<1>6. \A k \in Mutexes, t \in Threads : Claims(t, k)' => held'[k]
  BY <1>1
<1>7. NoTimeouts => \A k \in Mutexes : held'[k] => \E t \in Threads : Claims(t, k)'
  BY <1>1
<1>8. NoTimeouts' <=> NoTimeouts
  BY DEF NoTimeouts
<1> QED
  BY <1>2, <1>3, <1>4, <1>5, <1>6, <1>7, <1>8

\* Calls that leave the queues and the program counters alone hand over
\* nothing.
LEMMA QuietHanded ==
  ASSUME UNCHANGED <<queue, pc, obj>>
  PROVE  \A t \in Threads, m \in Mutexes : Handed(t, m)' <=> Handed(t, m)
  BY SameWaiters DEF Handed

\* A caller outside a call was handed nothing.
LEMMA IdleNotHanded ==
  ASSUME NEW t, NEW m, pc[t] \in {"idle", "wakeup"}
  PROVE  ~Handed(t, m)
  BY DEF Handed

\* A lock or trylock that finds the mutex free makes its caller the claimant.
LEMMA AcquireClaim ==
  ASSUME ClaimInv, MutexTypeOK, Tracked, NEW t \in Threads, NEW m \in Mutexes, Acquire(t, m)
  PROVE  ClaimInv'
<1> USE MutexAssumption
<1>0. /\ held \in [Mutexes -> BOOLEAN] /\ owner \in [Mutexes -> Threads \cup {NoThread}]
      /\ locks \in [Mutexes -> 0..UIntMax] /\ got \in [Threads -> [Mutexes -> Nat]]
  BY DEF MutexTypeOK
<1>1. \A u \in Threads : ~Claims(u, m) /\ got[u][m] = 0 /\ ~Handed(u, m)
  BY <1>0 DEF Acquire, ClaimInv, Claims
<1>2. /\ UNCHANGED <<queue, pc, obj, type>>
      /\ held' = [held EXCEPT ![m] = TRUE]
      /\ owner' = [owner EXCEPT ![m] = IF type[m] = "normal" THEN @ ELSE t]
      /\ locks' = [locks EXCEPT ![m] = IF type[m] = "recursive" THEN 1 ELSE @]
      /\ got' = [got EXCEPT ![t][m] = @ + 1]
  BY DEF Acquire, Grant, blockVars
<1>3. \A u \in Threads, k \in Mutexes : Handed(u, k)' <=> Handed(u, k)
  BY <1>2, QuietHanded
<1>4. /\ got'[t][m] = 1
      /\ \A u \in Threads, k \in Mutexes : u # t \/ k # m => got'[u][k] = got[u][k]
  BY <1>0, <1>1, <1>2
<1>5. /\ held'[m] /\ (type[m] # "normal" => owner'[m] = t)
      /\ (type[m] = "normal" => owner'[m] = owner[m])
      /\ (type[m] = "recursive" => locks'[m] = 1)
      /\ \A k \in Mutexes : k # m => /\ held'[k] = held[k] /\ owner'[k] = owner[k]
                                      /\ locks'[k] = locks[k]
  BY <1>0, <1>2
<1>6. Claims(t, m)' /\ ~Handed(t, m)' /\ \A u \in Threads : u # t => ~Claims(u, m)' /\ got'[u][m] = 0
  BY <1>1, <1>3, <1>4 DEF Claims
<1>7. type[m] = "normal" => owner'[m] = NoThread
  BY <1>5 DEF ClaimInv, OwnerInv
<1>8. NoTimeouts => \A u \in Threads : pc'[u] \notin {"timedblock", "timedout", "drain"}
  BY <1>2 DEF ClaimInv
<1>9. UNCHANGED type /\ 1 <= MaxLocks /\ \A u \in Threads : u # t => ~Handed(u, m)'
  BY <1>1, <1>2, <1>3
<1> QED
  BY <1>3, <1>4, <1>5, <1>6, <1>7, <1>8, <1>9, OneClaim

\* A recursive lock by the owner adds one to both counts.
LEMMA RelockClaim ==
  ASSUME ClaimInv, MutexTypeOK, Tracked, NEW t \in Threads, NEW m \in Mutexes,
         Relock(t, m) \/ UnlockOnce(t, m)
  PROVE  ClaimInv'
<1> USE MutexAssumption
<1>0. /\ locks \in [Mutexes -> 0..UIntMax] /\ got \in [Threads -> [Mutexes -> Nat]]
      /\ pc[t] = "idle" /\ type[m] = "recursive" /\ owner[m] = t
      /\ UNCHANGED <<queue, pc, obj, type, held, owner>>
  BY DEF MutexTypeOK, Relock, UnlockOnce, MayUnlock, StillLocked, blockVars
<1>1. Claims(t, m) /\ ~Handed(t, m) /\ got[t][m] > 0 /\ locks[m] = got[t][m] /\ held[m]
  BY <1>0, IdleNotHanded DEF ClaimInv, OwnerInv, OwnerIsHolder, Claims
<1>2. PICK n \in Nat : /\ got' = [got EXCEPT ![t][m] = n]
                       /\ locks' = [locks EXCEPT ![m] = n]
                       /\ n > 0 /\ n <= MaxLocks
  <2>1. CASE Relock(t, m)
    <3>1. Incr(locks[m]) = got[t][m] + 1 /\ got[t][m] + 1 <= MaxLocks
      BY <2>1, <1>0, <1>1 DEF Relock, Incr
    <3>2. got' = [got EXCEPT ![t][m] = got[t][m] + 1] /\ locks' = [locks EXCEPT ![m] = got[t][m] + 1]
      BY <2>1, <3>1 DEF Relock, Grant
    <3>3. got[t][m] + 1 \in Nat /\ got[t][m] + 1 > 0
      BY <1>0
    <3> QED
      BY <3>1, <3>2, <3>3
  <2>2. CASE UnlockOnce(t, m)
    <3>1. Decr(locks[m]) = got[t][m] - 1 /\ got[t][m] - 1 > 0 /\ got[t][m] <= MaxLocks
      BY <2>2, <1>0, <1>1 DEF UnlockOnce, StillLocked, Decr, ClaimInv, GrantInv
    <3>2. got' = [got EXCEPT ![t][m] = got[t][m] - 1]
      <4>1. (IF got[t][m] = 0 THEN 0 ELSE got[t][m] - 1) = got[t][m] - 1
        BY <1>0, <1>1
      <4> QED
        BY <2>2, <4>1 DEF UnlockOnce, Ungrant
    <3>3. locks' = [locks EXCEPT ![m] = got[t][m] - 1]
      BY <2>2, <3>1 DEF UnlockOnce
    <3>4. got[t][m] - 1 \in Nat /\ got[t][m] - 1 <= MaxLocks
      BY <3>1, <1>0
    <3> QED
      BY <3>1, <3>2, <3>3, <3>4
  <2> QED
    BY <2>1, <2>2
<1>3. \A u \in Threads, k \in Mutexes : Handed(u, k)' <=> Handed(u, k)
  BY <1>0, QuietHanded
<1>4. /\ got'[t][m] = n /\ locks'[m] = n
      /\ \A u \in Threads, k \in Mutexes : u # t \/ k # m => got'[u][k] = got[u][k]
      /\ \A k \in Mutexes : k # m => locks'[k] = locks[k]
  BY <1>0, <1>2
<1>5. \A u \in Threads : u # t => ~Claims(u, m) /\ got[u][m] = 0 /\ ~Handed(u, m)
  BY <1>0, <1>1 DEF ClaimInv, MutualExclusion, Claims
<1>6. Claims(t, m)' /\ ~Handed(t, m)' /\ \A u \in Threads : u # t => ~Claims(u, m)' /\ got'[u][m] = 0
  BY <1>1, <1>2, <1>3, <1>4, <1>5 DEF Claims
<1>7. NoTimeouts => \A u \in Threads : pc'[u] \notin {"timedblock", "timedout", "drain"}
  BY <1>0 DEF ClaimInv
<1> QED
  BY <1>0, <1>1, <1>2, <1>3, <1>4, <1>5, <1>6, <1>7, OneClaim

\* The thread that undoes its last lock of m has the only claim on m, and had
\* one lock left.
LEMMA LastUnlock ==
  ASSUME ClaimInv, MutexTypeOK, Tracked, NEW t \in Threads, NEW m \in Mutexes,
         MayCallUnlock(t, m), MayUnlock(t, m), ~StillLocked(m), Ungrant(t, m)
  PROVE  /\ \A u \in Threads : got'[u][m] = 0
         /\ \A u \in Threads, k \in Mutexes : k # m => got'[u][k] = got[u][k]
         /\ \A u \in Threads : ~Handed(u, m)
         /\ \A u \in Threads : u # t => got[u][m] = 0
         /\ got[t][m] <= 1
         /\ held[m]
<1> USE MutexAssumption
<1>0. /\ locks \in [Mutexes -> 0..UIntMax] /\ got \in [Threads -> [Mutexes -> Nat]]
      /\ pc[t] = "idle" /\ ~Handed(t, m)
      /\ type[m] = "normal" => got[t][m] > 0
      /\ type[m] # "normal" => owner[m] = t
  BY IdleNotHanded DEF MutexTypeOK, MayUnlock, MayCallUnlock
<1>1. held[m]
  BY <1>0 DEF ClaimInv, OwnerInv, Claims
<1>2. \A u \in Threads : Claims(u, m) => u = t
  BY <1>0 DEF ClaimInv, MutualExclusion, OwnerIsHolder, Claims
<1>3. \A u \in Threads : ~Handed(u, m) /\ (u # t => got[u][m] = 0)
  BY <1>0, <1>2 DEF Claims
<1>4. got[t][m] <= 1
  <2>1. CASE type[m] # "recursive"
    BY <2>1 DEF ClaimInv, GrantInv
  <2>2. CASE type[m] = "recursive"
    <3>1. locks[m] = 1
      <4>1. locks[m] \in 0..UIntMax /\ UIntMax > 0 /\ ~(Decr(locks[m]) > 0)
        BY <2>2, <1>0 DEF StillLocked
      <4> QED
        BY <4>1 DEF Decr
    <3>2. Claims(t, m) /\ locks[m] = got[t][m]
      BY <2>2, <1>0 DEF ClaimInv, OwnerInv, OwnerIsHolder
    <3> QED
      BY <3>1, <3>2
  <2> QED
    BY <2>1, <2>2
<1>5. got' = [got EXCEPT ![t][m] = 0]
  <2>1. (IF got[t][m] = 0 THEN 0 ELSE got[t][m] - 1) = 0
    BY <1>0, <1>4
  <2> QED
    BY <2>1 DEF Ungrant
<1> QED
  BY <1>0, <1>1, <1>3, <1>4, <1>5

\* An unlock that finds no waiter leaves nobody with a claim.
LEMMA ReleaseClaim ==
  ASSUME ClaimInv, MutexTypeOK, Tracked, NEW t \in Threads, NEW m \in Mutexes,
         MayCallUnlock(t, m), Release(t, m)
  PROVE  ClaimInv'
<1> USE MutexAssumption
<1>0. /\ held \in [Mutexes -> BOOLEAN] /\ owner \in [Mutexes -> Threads \cup {NoThread}]
      /\ locks \in [Mutexes -> 0..UIntMax]
      /\ UNCHANGED <<queue, pc, obj, type>>
      /\ held' = [held EXCEPT ![m] = FALSE] /\ owner' = [owner EXCEPT ![m] = NoThread]
      /\ locks' = [locks EXCEPT ![m] = IF type[m] = "recursive" THEN 0 ELSE @]
  BY DEF MutexTypeOK, Release, Unlocked, blockVars
<1>1. /\ \A u \in Threads : got'[u][m] = 0
      /\ \A u \in Threads, k \in Mutexes : k # m => got'[u][k] = got[u][k]
      /\ \A u \in Threads : ~Handed(u, m)
  BY LastUnlock DEF Release
<1>2. \A u \in Threads, k \in Mutexes : Handed(u, k)' <=> Handed(u, k)
  BY <1>0, QuietHanded
<1>3. \A u \in Threads : ~Claims(u, m)'
  BY <1>1, <1>2 DEF Claims
<1>4. NoTimeouts => \A u \in Threads : pc'[u] \notin {"timedblock", "timedout", "drain"}
  BY <1>0 DEF ClaimInv
<1>5. /\ ~held'[m] /\ owner'[m] = NoThread
      /\ \A k \in Mutexes : k # m => /\ held'[k] = held[k] /\ owner'[k] = owner[k]
                                      /\ locks'[k] = locks[k]
  BY <1>0
<1>6. NoThread \notin Threads /\ UNCHANGED type /\ \A u \in Threads : ~Handed(u, m)'
  BY <1>0, <1>1, <1>2
<1> QED
  BY <1>1, <1>2, <1>3, <1>4, <1>5, <1>6, OneClaim

\* An unlock with waiters passes the claim to the thread it dequeues.
LEMMA HandOffClaim ==
  ASSUME ClaimInv, WakeupInv, Tracked, NEW t \in Threads, NEW m \in Mutexes,
         MayCallUnlock(t, m), HandOff(t, m)
  PROVE  ClaimInv'
<1> USE MutexAssumption
<1>0. /\ MutexTypeOK /\ QueueInv
      /\ BlockTypeOK /\ \A q \in Queues : NoDuplicates(queue[q])
      /\ owner \in [Mutexes -> Threads \cup {NoThread}] /\ locks \in [Mutexes -> 0..UIntMax]
      /\ pc \in [Threads -> PCs]
  BY DEF WakeupInv, MutexTypeOK, QueueInv
<1>w. PICK w \in Threads : w = Head(queue[m])
  BY <1>0, HeadWaits DEF HandOff
<1>1. /\ w \in Waiters(m) /\ m \in Queues
      /\ obj[w] = m /\ pc[w] \in {"block", "timedblock", "timedout"}
  BY <1>0, <1>w, HeadWaits DEF HandOff, QueueInv
<1>2. Linked(w)
  BY <1>1 DEF Linked
<1>3. /\ pc[t] = "idle" /\ t # w
      /\ pc'[t] = "wakeup" /\ \A u \in Threads : u # t => pc'[u] = pc[u]
      /\ UNCHANGED <<type, held, obj>> /\ Dequeue(w)
      /\ owner' = [owner EXCEPT ![m] = NewOwner(m, w)]
      /\ locks' = [locks EXCEPT ![m] = IF type[m] = "recursive" THEN 0 ELSE @]
  BY <1>0, <1>w, <1>1 DEF HandOff, MayUnlock, Goto, Unlocked
<1>4. /\ \A u \in Threads : got'[u][m] = 0
      /\ \A u \in Threads, k \in Mutexes : k # m => got'[u][k] = got[u][k]
      /\ \A u \in Threads : ~Handed(u, m)
      /\ held[m]
  BY <1>0, LastUnlock DEF HandOff
<1>5. \A u \in Threads : Linked(u)' <=> (u # w /\ Linked(u))
  BY <1>0, <1>3, DequeueStep
<1>6. \A u \in Threads, k \in Mutexes : u # w => (Handed(u, k)' <=> Handed(u, k))
  <2>1. ASSUME NEW u \in Threads, NEW k \in Mutexes, u # w, u # t
        PROVE  Handed(u, k)' <=> Handed(u, k)
    BY <2>1, <1>3, <1>5 DEF Handed
  <2>2. \A k \in Mutexes : ~Handed(t, k) /\ ~Handed(t, k)'
    BY <1>3 DEF Handed
  <2> QED
    BY <2>1, <2>2
<1>7. \A k \in Mutexes : k # m => ~Handed(w, k) /\ ~Handed(w, k)'
  BY <1>1, <1>3 DEF Handed
<1>8. pc[w] # "timedout" => Handed(w, m)'
  BY <1>1, <1>3, <1>5 DEF Handed
<1>9. \A u \in Threads : u # w => ~Claims(u, m)' /\ ~Handed(u, m)'
  BY <1>4, <1>6 DEF Claims
<1>10. /\ type[m] # "normal" => owner'[m] = w
       /\ type[m] = "normal" => owner'[m] = NoThread
       /\ type[m] = "recursive" => locks'[m] = 0
       /\ \A k \in Mutexes : k # m => owner'[k] = owner[k] /\ locks'[k] = locks[k]
  BY <1>0, <1>1, <1>3 DEF NewOwner, Tracked
<1>11. NoTimeouts => /\ \A u \in Threads : pc'[u] \notin {"timedblock", "timedout", "drain"}
                     /\ Claims(w, m)'
  BY <1>1, <1>3, <1>8 DEF ClaimInv, Claims
<1>12. type[m] = "recursive" => NoTimeouts
  BY <1>0 DEF Tracked, MutexTypeOK
<1>13. UNCHANGED type /\ held'[m] /\ \A k \in Mutexes : held'[k] = held[k]
  BY <1>3, <1>4
<1>14. \A u \in Threads, k \in Mutexes :
         k # m => got'[u][k] = got[u][k] /\ (Handed(u, k)' <=> Handed(u, k))
  BY <1>4, <1>6, <1>7
<1>15. got'[w][m] = 0 /\ 0 <= 1 /\ 0 <= MaxLocks
  BY <1>1, <1>4
<1> QED
  BY <1>0, <1>1, <1>4, <1>9, <1>10, <1>11, <1>12, <1>13, <1>14, <1>15, OneClaim

\* pthread_mutex_transfer_np passes the claim, with its count, to TID.
LEMMA TransferClaim ==
  ASSUME ClaimInv, MutexTypeOK, Tracked, NEW t \in Threads, NEW m \in Mutexes,
         NEW u \in Threads, u # t, MayTransfer(t, m, u), Transfer(t, m, u)
  PROVE  ClaimInv'
<1> USE MutexAssumption
<1>0. /\ owner \in [Mutexes -> Threads \cup {NoThread}] /\ got \in [Threads -> [Mutexes -> Nat]]
      /\ pc[t] = "idle" /\ owner[m] = t /\ got[t][m] > 0
      /\ obj[u] = m => pc[u] \in {"idle", "wakeup"}
      /\ UNCHANGED <<queue, type, held, locks, pc, obj>>
      /\ owner' = [owner EXCEPT ![m] = u]
      /\ got' = [got EXCEPT ![t][m] = 0, ![u][m] = got[t][m]]
  BY DEF MutexTypeOK, MayTransfer, Transfer, TransferRefused, Tracked, blockVars
<1>1. /\ Claims(t, m) /\ held[m] /\ type[m] # "normal"
      /\ type[m] = "recursive" => locks[m] = got[t][m]
      /\ type[m] # "recursive" => got[t][m] <= 1
      /\ got[t][m] <= MaxLocks
  BY <1>0 DEF Claims, ClaimInv, OwnerInv, OwnerIsHolder, GrantInv
<1>2. \A v \in Threads : v # t => ~Claims(v, m) /\ got[v][m] = 0 /\ ~Handed(v, m)
  BY <1>0, <1>1 DEF ClaimInv, MutualExclusion, Claims
<1>3. \A v \in Threads, k \in Mutexes : Handed(v, k)' <=> Handed(v, k)
  BY <1>0, QuietHanded
<1>4. /\ got'[t][m] = 0 /\ got'[u][m] = got[t][m]
      /\ \A v \in Threads, k \in Mutexes : k # m \/ v \notin {t, u} => got'[v][k] = got[v][k]
  BY <1>0
<1>5. \A v \in Threads : ~Handed(v, m)'
  BY <1>0, <1>2, <1>3, IdleNotHanded
<1>6. Claims(u, m)' /\ \A v \in Threads : v # u => ~Claims(v, m)' /\ got'[v][m] = 0
  BY <1>0, <1>2, <1>4, <1>5 DEF Claims
<1>7. owner'[m] = u /\ \A k \in Mutexes : k # m => owner'[k] = owner[k]
  BY <1>0
<1>8. NoTimeouts => \A v \in Threads : pc'[v] \notin {"timedblock", "timedout", "drain"}
  BY <1>0 DEF ClaimInv
<1>9. UNCHANGED <<type, held, locks>>
  BY <1>0
<1> QED
  BY <1>1, <1>3, <1>4, <1>5, <1>6, <1>7, <1>8, <1>9, OneClaim

\* A thread that was handed the mutex is granted it when its lock returns.
LEMMA GainClaim ==
  ASSUME ClaimInv, MutexTypeOK, Tracked, NEW t \in Threads, Gain(t)
  PROVE  ClaimInv'
<1> USE MutexAssumption
<1>m. PICK m \in Mutexes : m = obj[t]
  BY DEF MutexTypeOK
<1>0. /\ owner \in [Mutexes -> Threads \cup {NoThread}] /\ got \in [Threads -> [Mutexes -> Nat]]
      /\ locks \in [Mutexes -> 0..UIntMax] /\ pc \in [Threads -> PCs]
      /\ pc[t] = "gain"
      /\ UNCHANGED <<queue, type, held, obj>>
      /\ owner' = [owner EXCEPT ![m] = IF type[m] = "normal" THEN @ ELSE t]
      /\ locks' = [locks EXCEPT ![m] = IF type[m] = "recursive" THEN 1 ELSE @]
      /\ got' = [got EXCEPT ![t][m] = @ + 1]
      /\ pc' = [pc EXCEPT ![t] = "idle"]
  BY <1>m DEF MutexTypeOK, Gain, Grant, Goto, blockVars
<1>1. Handed(t, m) /\ Claims(t, m) /\ \A k \in Mutexes : k # m => ~Handed(t, k)
  BY <1>0, <1>m DEF Handed, Claims
<1>2. got[t][m] = 0 /\ held[m]
  BY <1>0, <1>1 DEF ClaimInv, GrantInv
<1>3. \A u \in Threads : u # t => ~Claims(u, m) /\ got[u][m] = 0 /\ ~Handed(u, m)
  BY <1>0, <1>1 DEF ClaimInv, MutualExclusion, Claims
<1>4. \A u \in Threads, k \in Mutexes : u # t => (Handed(u, k)' <=> Handed(u, k))
  BY <1>0, SameWaiters DEF Handed
<1>5. pc'[t] = "idle" /\ \A k \in Mutexes : ~Handed(t, k)'
  BY <1>0 DEF Handed
<1>6. /\ got'[t][m] = 1
      /\ \A u \in Threads, k \in Mutexes : u # t \/ k # m => got'[u][k] = got[u][k]
  BY <1>0, <1>2
<1>7. /\ type[m] # "normal" => owner'[m] = t
      /\ type[m] = "normal" => owner'[m] = owner[m]
      /\ type[m] = "recursive" => locks'[m] = 1
      /\ \A k \in Mutexes : k # m => owner'[k] = owner[k] /\ locks'[k] = locks[k]
  BY <1>0
<1>8. Claims(t, m)' /\ \A u \in Threads : u # t => ~Claims(u, m)' /\ got'[u][m] = 0 /\ ~Handed(u, m)'
  BY <1>0, <1>3, <1>4, <1>6 DEF Claims
<1>9. type[m] = "normal" => owner'[m] = NoThread
  BY <1>0, <1>7 DEF ClaimInv, OwnerInv
<1>10. NoTimeouts => \A u \in Threads : pc'[u] \notin {"timedblock", "timedout", "drain"}
  BY <1>0 DEF ClaimInv
<1>11. UNCHANGED <<type, held>> /\ 1 <= MaxLocks
  BY <1>0
<1>12. \A u \in Threads, k \in Mutexes :
         k # m => got'[u][k] = got[u][k] /\ (Handed(u, k)' <=> Handed(u, k))
  BY <1>1, <1>4, <1>5, <1>6
<1> QED
  BY <1>2, <1>5, <1>6, <1>7, <1>8, <1>9, <1>10, <1>11, <1>12, OneClaim

\* The steps of a call that is under way preserve the claim invariant.
LEMMA ContinueClaim ==
  ASSUME ClaimInv, WakeupInv, Tracked, NEW t \in Threads, Continue(t)
  PROVE  ClaimInv'
<1> USE MutexAssumption
<1>0. /\ MutexTypeOK /\ QueueInv /\ NoStrayMessage
      /\ BlockTypeOK /\ \A q \in Queues : NoDuplicates(queue[q])
      /\ pc \in [Threads -> PCs]
      /\ NoTimeouts => \A u \in Threads : pc[u] \notin {"timedblock", "timedout", "drain"}
  BY DEF WakeupInv, MutexTypeOK, QueueInv, ClaimInv
<1>1. ASSUME UNCHANGED obj, NEW l, pc' = [pc EXCEPT ![t] = l],
             \A u \in Threads : u # t => (Linked(u)' <=> Linked(u))
      PROVE  \A u \in Threads, k \in Mutexes : u # t => (Handed(u, k)' <=> Handed(u, k))
  BY <1>0, <1>1 DEF Handed
<1>2. CASE Receive(t)
  <2>1. ~Linked(t)
    BY <1>0, <1>2 DEF Receive, Block, NoStrayMessage, Dequeued
  <2>2. \A u \in Threads, k \in Mutexes : u # t => (Handed(u, k)' <=> Handed(u, k))
    BY <1>1, <1>2, SameWaiters DEF Receive, Goto
  <2>3. \A k \in Mutexes : Handed(t, k)' <=> Handed(t, k)
    BY <1>0, <1>2, <2>1 DEF Receive, Goto, Handed
  <2>4. NoTimeouts => \A u \in Threads : pc'[u] \notin {"timedblock", "timedout", "drain"}
    BY <1>0, <1>2 DEF Receive, Goto
  <2> QED
    BY <1>0, <1>2, <2>2, <2>3, <2>4, SameClaims DEF Receive
<1>3. CASE TimeOut(t)
  <2>1. \A u \in Threads, k \in Mutexes : u # t => (Handed(u, k)' <=> Handed(u, k))
    BY <1>1, <1>3, SameWaiters DEF TimeOut, Goto, blockVars
  <2>2. \A k \in Mutexes : ~Handed(t, k)'
    BY <1>0, <1>3 DEF TimeOut, Goto, Handed
  <2>3. ~NoTimeouts
    BY <1>0, <1>3 DEF TimeOut
  <2> QED
    BY <1>0, <1>3, <2>1, <2>2, <2>3, SameClaims DEF TimeOut
<1>4. CASE Recheck(t) \/ GiveUp(t)
  <2>1. Dequeue(t) /\ UNCHANGED <<type, held, owner, locks, got, obj>>
    BY <1>4 DEF Recheck, GiveUp
  <2>2. \A u \in Threads : Linked(u)' <=> (u # t /\ Linked(u))
    BY <1>0, <2>1, DequeueStep
  <2>3. \A u \in Threads, k \in Mutexes : u # t => (Handed(u, k)' <=> Handed(u, k))
    BY <1>1, <1>4, <2>1, <2>2 DEF Recheck, GiveUp, Goto
  <2>4. \A k \in Mutexes : Handed(t, k)' <=> Handed(t, k)
    BY <1>0, <1>4, <2>1 DEF Recheck, GiveUp, Goto, Handed
  <2>5. NoTimeouts => \A u \in Threads : pc'[u] \notin {"timedblock", "timedout", "drain"}
    BY <1>0, <1>4 DEF Recheck, GiveUp, Goto
  <2> QED
    BY <1>0, <2>1, <2>3, <2>4, <2>5, SameClaims
<1>5. CASE MustDrain(t) \/ Drain(t) \/ SendWakeup(t)
  <2>1. UNCHANGED <<queue, type, held, owner, locks, got, obj>>
    BY <1>5 DEF MustDrain, Drain, SendWakeup, blockVars
  <2>2. \A u \in Threads, k \in Mutexes : u # t => (Handed(u, k)' <=> Handed(u, k))
    BY <1>1, <1>5, <2>1, SameWaiters DEF MustDrain, Drain, SendWakeup, Goto
  <2>3. \A k \in Mutexes : ~Handed(t, k) /\ ~Handed(t, k)'
    BY <1>0, <1>5 DEF MustDrain, Drain, SendWakeup, Goto, Handed
  <2>4. NoTimeouts => \A u \in Threads : pc'[u] \notin {"timedblock", "timedout", "drain"}
    BY <1>0, <1>5 DEF MustDrain, Drain, SendWakeup, Goto
  <2> QED
    BY <1>0, <2>1, <2>2, <2>3, <2>4, SameClaims
<1>6. CASE Gain(t)
  BY <1>0, <1>6, GainClaim
<1> QED
  BY <1>2, <1>3, <1>4, <1>5, <1>6 DEF Continue

\* Queueing up for a busy mutex changes no claim.
LEMMA WaitClaim ==
  ASSUME ClaimInv, WakeupInv, Tracked, NEW t \in Threads, NEW m \in Mutexes,
         NEW a \in Abstimes, a # "invalid", Wait(t, m, a)
  PROVE  ClaimInv'
<1> USE MutexAssumption
<1>0. /\ MutexTypeOK /\ QueueInv
      /\ BlockTypeOK /\ \A q \in Queues : NoDuplicates(queue[q])
      /\ pc \in [Threads -> PCs] /\ obj \in [Threads -> Mutexes]
      /\ NoTimeouts => \A u \in Threads : pc[u] \notin {"timedblock", "timedout", "drain"}
  BY DEF WakeupInv, MutexTypeOK, QueueInv, ClaimInv
<1>1. /\ pc[t] = "idle" /\ ~Linked(t) /\ m \in Queues
      /\ pc'[t] = (IF a = "null" THEN "block" ELSE "timedblock")
      /\ \A u \in Threads : u # t => pc'[u] = pc[u] /\ obj'[u] = obj[u]
      /\ Enqueue(m, t) /\ UNCHANGED <<type, held, owner, locks, got>>
  BY <1>0, IdleNotLinked DEF Wait, Busy, Goto
<1>2. \A u \in Threads : Linked(u)' <=> (u = t \/ Linked(u))
  BY <1>0, <1>1, EnqueueStep
<1>3. \A u \in Threads, k \in Mutexes : u # t => (Handed(u, k)' <=> Handed(u, k))
  BY <1>1, <1>2 DEF Handed
<1>4. \A k \in Mutexes : ~Handed(t, k) /\ ~Handed(t, k)'
  BY <1>1, <1>2 DEF Handed
<1>5. NoTimeouts => a = "null"
  BY DEF NoTimeouts
<1>6. NoTimeouts => \A u \in Threads : pc'[u] \notin {"timedblock", "timedout", "drain"}
  BY <1>0, <1>1, <1>5
<1> QED
  BY <1>0, <1>1, <1>3, <1>4, <1>6, SameClaims

\* The calls that are refused change no claim.
LEMMA QuietClaim ==
  ASSUME ClaimInv, MutexTypeOK, Tracked, NEW t \in Threads, NEW m \in Mutexes, Quiet(t, m)
  PROVE  ClaimInv'
<1>1. ASSUME UNCHANGED <<queue, pc, obj, type, held, owner, locks, got>>
      PROVE  ClaimInv'
  BY <1>1, QuietHanded, SameClaims DEF ClaimInv
<1>2. CASE Deadlk(t, m) \/ BadAbstime(t, m) \/ TryBusy(t, m) \/ NotOwner(t, m)
  BY <1>1, <1>2 DEF Deadlk, BadAbstime, TryBusy, NotOwner, blockVars
<1>3. ASSUME NEW u \in Threads \cup {NoThread}, MayTransfer(t, m, u), Transfer(t, m, u)
      PROVE  ClaimInv'
  <2>1. CASE u \in {NoThread, t}
    BY <1>1, <1>3, <2>1 DEF Transfer, blockVars
  <2>2. CASE u \notin {NoThread, t}
    BY <1>3, <2>2, TransferClaim
  <2> QED
    BY <2>1, <2>2
<1> QED
  BY <1>2, <1>3, AcquireClaim, RelockClaim, ReleaseClaim DEF Quiet

\* Every action of the mutex preserves the claim invariant.
LEMMA ClaimStep ==
  ASSUME ClaimInv, WakeupInv, Tracked, [MutexNext]_vars
  PROVE  ClaimInv'
<1>1. MutexTypeOK
  BY DEF WakeupInv
<1>2. CASE UNCHANGED vars
  BY <1>1, <1>2, QuietHanded, SameClaims DEF vars, mutexVars, blockVars, ClaimInv
<1>3. CASE MutexNext
  BY <1>1, <1>3, NextSteps, QuietClaim, HandOffClaim, WaitClaim, ContinueClaim DEF CallStep
<1> QED
  BY <1>2, <1>3

\* A mutex has one holder at a time, the thread an unlock has just handed it
\* to included, and its owner field names that holder.
THEOREM MutexIsExclusive ==
  ASSUME Tracked
  PROVE  MutexSpec => [](MutualExclusion /\ OwnerIsHolder)
<1>1. MutexInit => WakeupInv /\ ClaimInv
  BY WakeupInit, ClaimInit
<1>2. WakeupInv /\ ClaimInv /\ [MutexNext]_vars => WakeupInv' /\ ClaimInv'
  BY WakeupStep, ClaimStep
<1>3. ClaimInv => MutualExclusion /\ OwnerIsHolder
  BY DEF ClaimInv
<1> QED
  BY <1>1, <1>2, <1>3, PTL DEF MutexSpec

\* mutex->owner can be relied upon: the holder of a mutex that has an owner is
\* that owner, and the count of a recursive mutex is that of its holder.
THEOREM MutexOwner ==
  ASSUME Tracked
  PROVE  MutexSpec => []OwnerIsHolder
<1>1. MutualExclusion /\ OwnerIsHolder => OwnerIsHolder
  OBVIOUS
<1> QED
  BY <1>1, MutexIsExclusive, PTL

\* When nobody locks with a timeout, a mutex that is marked held is held by
\* some thread that will be able to unlock it: no hand-off loses it.
THEOREM MutexNeverOrphaned ==
  ASSUME Tracked, NoTimeouts
  PROVE  MutexSpec => []NeverOrphaned
<1>1. MutexInit => WakeupInv /\ ClaimInv
  BY WakeupInit, ClaimInit
<1>2. WakeupInv /\ ClaimInv /\ [MutexNext]_vars => WakeupInv' /\ ClaimInv'
  BY WakeupStep, ClaimStep
<1>3. ClaimInv => NeverOrphaned
  BY DEF ClaimInv, NeverOrphaned
<1> QED
  BY <1>1, <1>2, <1>3, PTL DEF MutexSpec
-----------------------------------------------------------------------------
(* The mutex implements AbstractMutex.                                     *)

\* A mutex that is waited for is marked held: the lock that finds it free
\* overtakes nobody.
WaitedForInv == \A m \in Mutexes : ~held[m] => Waiters(m) = {}

\* What the refinement rests on.
RefineInv == WakeupInv /\ ClaimInv /\ WaitedForInv

\* The thread with the claim on m is the abstract holder.
LEMMA HolderIs ==
  ASSUME MutualExclusion, NEW m \in Mutexes, NEW t \in Threads, Claims(t, m)
  PROVE  Holder(m) = t /\ Depth(m) = got[t][m]
<1>1. Holder(m) = t
  BY DEF MutualExclusion, Holder
<1> QED
  BY <1>1, MutexAssumption DEF Depth

\* The same after a step.
LEMMA HolderWillBe ==
  ASSUME MutualExclusion', NEW m \in Mutexes, NEW t \in Threads, Claims(t, m)'
  PROVE  Holder(m)' = t /\ Depth(m)' = got'[t][m]
<1>1. Holder(m)' = t
  BY DEF MutualExclusion, Holder
<1> QED
  BY <1>1, MutexAssumption DEF Depth

\* A mutex that nobody claims is free.
LEMMA NoHolder ==
  ASSUME NEW m \in Mutexes, \A t \in Threads : ~Claims(t, m)
  PROVE  Holder(m) = NoThread /\ Depth(m) = 0
  BY DEF Holder, Depth

\* The same after a step.
LEMMA NoHolderLeft ==
  ASSUME NEW m \in Mutexes, \A t \in Threads : ~Claims(t, m)'
  PROVE  Holder(m)' = NoThread /\ Depth(m)' = 0
  BY DEF Holder, Depth

\* Nothing that the abstract mutex sees of m changes.
Unseen(m) == /\ \A t \in Threads : got'[t][m] = got[t][m] /\ (Handed(t, m)' <=> Handed(t, m))
             /\ Waiters(m)' = Waiters(m)

\* Then its state does not change.
LEMMA UnseenStutters ==
  ASSUME MutualExclusion, MutualExclusion', NEW m \in Mutexes, Unseen(m)
  PROVE  Holder(m)' = Holder(m) /\ Depth(m)' = Depth(m) /\ Waiters(m)' = Waiters(m)
<1>1. \A t \in Threads : Claims(t, m)' <=> Claims(t, m)
  BY DEF Unseen, Claims
<1>2. CASE \E t \in Threads : Claims(t, m)
  <2>1. PICK t \in Threads : Claims(t, m)
    BY <1>2
  <2> QED
    BY <1>1, <2>1, HolderIs, HolderWillBe DEF Unseen
<1>3. CASE \A t \in Threads : ~Claims(t, m)
  BY <1>1, <1>3, NoHolder, NoHolderLeft DEF Unseen
<1> QED
  BY <1>2, <1>3

\* A call on m is not seen on another mutex.
LEMMA OtherUnseen ==
  ASSUME WakeupInv, NEW t \in Threads, NEW m \in Mutexes, NEW k \in Mutexes, k # m,
         CallStep(t, m)
  PROVE  Unseen(k)
<1> USE MutexAssumption
<1>0. /\ MutexTypeOK /\ QueueInv /\ BlockTypeOK /\ \A q \in Queues : NoDuplicates(queue[q])
      /\ got \in [Threads -> [Mutexes -> Nat]] /\ pc \in [Threads -> PCs]
      /\ obj \in [Threads -> Mutexes]
  BY DEF WakeupInv, MutexTypeOK, QueueInv
<1>1. CASE Quiet(t, m)
  <2>1. UNCHANGED <<queue, pc, obj>>
    BY <1>1, QuietFrame
  <2>2. \A u \in Threads : got'[u][k] = got[u][k]
    <3>1. ASSUME Grant(t, m) \/ Ungrant(t, m) \/ UNCHANGED got
          PROVE  \A u \in Threads : got'[u][k] = got[u][k]
      BY <1>0, <3>1 DEF Grant, Ungrant
    <3>2. ASSUME NEW u \in Threads \cup {NoThread}, Transfer(t, m, u)
          PROVE  \A v \in Threads : got'[v][k] = got[v][k]
      BY <1>0, <3>2 DEF Transfer
    <3> QED
      BY <1>1, <3>1, <3>2 DEF Quiet, Acquire, Relock, Deadlk, BadAbstime, TryBusy,
                              NotOwner, UnlockOnce, Release
  <2> QED
    BY <2>1, <2>2, QuietHanded, SameWaiters DEF Unseen
<1>2. CASE MayCallUnlock(t, m) /\ HandOff(t, m)
  <2>w. PICK w \in Threads : w = Head(queue[m])
    BY <1>0, <1>2, HeadWaits DEF HandOff
  <2>1. w \in Waiters(m) /\ obj[w] = m /\ pc[w] \in {"block", "timedblock", "timedout"}
    BY <1>0, <1>2, <2>w, HeadWaits DEF HandOff, QueueInv
  <2>2. /\ pc[t] = "idle" /\ t # w
        /\ pc'[t] = "wakeup" /\ \A u \in Threads : u # t => pc'[u] = pc[u]
        /\ Dequeue(w) /\ UNCHANGED obj /\ Ungrant(t, m)
    BY <1>0, <1>2, <2>w, <2>1 DEF HandOff, MayUnlock, Goto
  <2>3. /\ Waiters(k)' = Waiters(k) \ {w}
        /\ \A u \in Threads : Linked(u)' <=> (u # w /\ Linked(u))
    BY <1>0, <2>2, DequeueStep
  <2>4. w \notin Waiters(k)
    BY <1>0, <2>1 DEF QueueInv
  <2>5. ASSUME NEW u \in Threads PROVE Handed(u, k)' <=> Handed(u, k)
    BY <2>1, <2>2, <2>3 DEF Handed
  <2>6. \A u \in Threads : got'[u][k] = got[u][k]
    BY <1>0, <2>2 DEF Ungrant
  <2> QED
    BY <2>3, <2>4, <2>5, <2>6 DEF Unseen
<1>3. ASSUME NEW a, Wait(t, m, a)
      PROVE  Unseen(k)
  <2>1. /\ pc[t] = "idle" /\ ~Linked(t)
        /\ pc'[t] \in {"block", "timedblock"} /\ obj'[t] = m
        /\ \A u \in Threads : u # t => pc'[u] = pc[u] /\ obj'[u] = obj[u]
        /\ Enqueue(m, t) /\ UNCHANGED got
    BY <1>0, <1>3, IdleNotLinked DEF Wait, Busy, Goto
  <2>2. /\ Waiters(k)' = Waiters(k)
        /\ \A u \in Threads : Linked(u)' <=> (u = t \/ Linked(u))
    BY <1>0, <2>1, EnqueueStep
  <2>3. \A u \in Threads : Handed(u, k)' <=> Handed(u, k)
    BY <2>1, <2>2 DEF Handed
  <2> QED
    BY <2>1, <2>2, <2>3 DEF Unseen
<1> QED
  BY <1>1, <1>2, <1>3 DEF CallStep

\* Every step keeps a mutex that is waited for marked held.
LEMMA WaitedForStep ==
  ASSUME RefineInv, Tracked, [MutexNext]_vars
  PROVE  WaitedForInv'
<1> USE MutexAssumption
<1>0. /\ MutexTypeOK /\ QueueInv /\ BlockTypeOK /\ \A q \in Queues : NoDuplicates(queue[q])
      /\ held \in [Mutexes -> BOOLEAN] /\ ClaimInv /\ WaitedForInv
  BY DEF RefineInv, WakeupInv, MutexTypeOK, QueueInv
<1>1. ASSUME \A k \in Mutexes : Waiters(k)' \subseteq Waiters(k),
             \A k \in Mutexes : held[k] /\ ~held'[k] => Waiters(k) = {}
      PROVE  WaitedForInv'
  BY <1>0, <1>1 DEF WaitedForInv
<1>2. ASSUME UNCHANGED <<queue, held>> PROVE WaitedForInv'
  BY <1>0, <1>2, SameWaiters DEF WaitedForInv
<1>3. CASE UNCHANGED vars
  BY <1>2, <1>3 DEF vars, mutexVars, blockVars
<1>4. ASSUME NEW t \in Threads, NEW m \in Mutexes, Quiet(t, m)
      PROVE  WaitedForInv'
  <2>1. CASE UNCHANGED held
    BY <1>2, <1>4, <2>1, QuietFrame
  <2>2. CASE Acquire(t, m)
    BY <1>0, <1>1, <2>2, SameWaiters DEF Acquire, blockVars
  <2>3. CASE Release(t, m)
    <3>1. Waiters(m) = {}
      BY <1>0, <2>3, EmptyQueue DEF Release
    <3> QED
      BY <1>0, <1>1, <2>3, <3>1, SameWaiters DEF Release, blockVars
  <2> QED
    BY <1>4, <2>1, <2>2, <2>3 DEF Quiet, Relock, Deadlk, BadAbstime, TryBusy, NotOwner,
                                  UnlockOnce, Transfer
<1>5. ASSUME NEW t \in Threads, NEW m \in Mutexes, HandOff(t, m)
      PROVE  WaitedForInv'
  BY <1>0, <1>1, <1>5, DequeueStep DEF HandOff
<1>6. ASSUME NEW t \in Threads, NEW m \in Mutexes, NEW a, Wait(t, m, a)
      PROVE  WaitedForInv'
  <2>1. Enqueue(m, t) /\ ~Linked(t) /\ held[m] /\ UNCHANGED held
    BY <1>0, <1>6, IdleNotLinked DEF Wait, Busy
  <2>2. \A k \in Mutexes : k # m => Waiters(k)' = Waiters(k)
    BY <1>0, <2>1, EnqueueStep
  <2> QED
    BY <1>0, <2>1, <2>2 DEF WaitedForInv
<1>7. ASSUME NEW t \in Threads, Continue(t)
      PROVE  WaitedForInv'
  <2>1. CASE Recheck(t) \/ GiveUp(t)
    BY <1>0, <1>1, <2>1, DequeueStep DEF Recheck, GiveUp
  <2>2. CASE UNCHANGED <<queue, held>>
    BY <1>2, <2>2
  <2> QED
    BY <1>7, <2>1, <2>2 DEF Continue, Receive, TimeOut, MustDrain, Drain, Gain, SendWakeup, blockVars
<1> QED
  BY <1>3, <1>4, <1>5, <1>6, <1>7, NextSteps DEF CallStep

\* A lock or trylock that finds the mutex free takes it.
LEMMA AcquireMaps ==
  ASSUME RefineInv, ClaimInv', NEW t \in Threads, NEW m \in Mutexes, m = AnyMutex, Acquire(t, m)
  PROVE  Abstract!Take(t)
<1>0. got \in [Threads -> [Mutexes -> Nat]] /\ ClaimInv /\ MutualExclusion'
  BY DEF RefineInv, WakeupInv, MutexTypeOK, ClaimInv
<1>1. \A u \in Threads : ~Claims(u, m) /\ got[u][m] = 0
  BY <1>0 DEF Acquire, ClaimInv, Claims
<1>2. got'[t][m] = 1
  BY <1>0, <1>1 DEF Acquire, Grant
<1>3. Claims(t, m)'
  BY <1>2 DEF Claims
<1>4. Waiters(m) = {} /\ Waiters(m)' = Waiters(m)
  BY SameWaiters, MutexAssumption DEF RefineInv, WaitedForInv, Acquire, blockVars
<1> QED
  BY <1>0, <1>1, <1>2, <1>3, <1>4, NoHolder, HolderWillBe DEF Abstract!Take

\* The owner of a recursive mutex locks or unlocks it once more.
LEMMA RelockMaps ==
  ASSUME RefineInv, ClaimInv', NEW t \in Threads, NEW m \in Mutexes, m = AnyMutex,
         Relock(t, m) \/ UnlockOnce(t, m)
  PROVE  Abstract!LockAgain(t) \/ Abstract!UndoOne(t)
<1>0. /\ got \in [Threads -> [Mutexes -> Nat]] /\ locks \in [Mutexes -> 0..UIntMax]
      /\ ClaimInv /\ MutualExclusion /\ MutualExclusion'
      /\ pc[t] = "idle" /\ type[m] = "recursive" /\ owner[m] = t /\ UNCHANGED queue
  BY DEF RefineInv, WakeupInv, MutexTypeOK, ClaimInv, Relock, UnlockOnce, MayUnlock, StillLocked,
         blockVars
<1>1. Claims(t, m) /\ got[t][m] > 0 /\ locks[m] = got[t][m]
  BY <1>0, IdleNotHanded DEF ClaimInv, OwnerInv, OwnerIsHolder, Claims
<1>2. Holder(m) = t /\ Depth(m) = got[t][m] /\ Waiters(m)' = Waiters(m)
  BY <1>0, <1>1, HolderIs, SameWaiters, MutexAssumption
<1>3. CASE Relock(t, m)
  <2>1. got'[t][m] = got[t][m] + 1
    BY <1>0, <1>3 DEF Relock, Grant
  <2>2. Claims(t, m)'
    BY <1>0, <2>1 DEF Claims
  <2> QED
    BY <1>0, <1>1, <1>2, <2>1, <2>2, HolderWillBe DEF Abstract!LockAgain
<1>4. CASE UnlockOnce(t, m)
  <2>1. got[t][m] > 1
    BY <1>0, <1>1, <1>4, MutexAssumption DEF UnlockOnce, StillLocked, Decr
  <2>2. got'[t][m] = got[t][m] - 1
    BY <1>0, <1>4, <2>1 DEF UnlockOnce, Ungrant
  <2>3. Claims(t, m)'
    BY <1>0, <2>1, <2>2 DEF Claims
  <2> QED
    BY <1>0, <1>1, <1>2, <2>1, <2>2, <2>3, HolderWillBe DEF Abstract!UndoOne
<1> QED
  BY <1>3, <1>4

\* The thread that makes the last unlock is the holder, with one lock.
LEMMA LastUnlockHolds ==
  ASSUME RefineInv, Tracked, NoTimeouts, NEW t \in Threads, NEW m \in Mutexes,
         MayCallUnlock(t, m), MayUnlock(t, m), ~StillLocked(m), Ungrant(t, m)
  PROVE  Holder(m) = t /\ Depth(m) = 1
<1>0. /\ MutexTypeOK /\ got \in [Threads -> [Mutexes -> Nat]] /\ ClaimInv /\ MutualExclusion
      /\ pc[t] = "idle" /\ type[m] # "normal" => owner[m] = t
      /\ type[m] = "normal" => got[t][m] > 0
  BY DEF RefineInv, WakeupInv, MutexTypeOK, ClaimInv, MayUnlock, MayCallUnlock
<1>1. held[m] /\ got[t][m] <= 1 /\ \A u \in Threads : ~Handed(u, m) /\ (u # t => got[u][m] = 0)
  BY <1>0, LastUnlock
<1>2. PICK u \in Threads : Claims(u, m)
  BY <1>0, <1>1 DEF ClaimInv
<1>3. Claims(t, m) /\ got[t][m] = 1
  BY <1>0, <1>1, <1>2 DEF Claims
<1> QED
  BY <1>0, <1>3, HolderIs

\* An unlock without waiters frees the mutex.
LEMMA ReleaseMaps ==
  ASSUME RefineInv, ClaimInv', Tracked, NoTimeouts, NEW t \in Threads, NEW m \in Mutexes,
         m = AnyMutex, MayCallUnlock(t, m), Release(t, m)
  PROVE  Abstract!Free(t)
<1>0. MutexTypeOK /\ BlockTypeOK /\ ClaimInv /\ m \in Queues /\ UNCHANGED <<queue, pc, obj>>
  BY MutexAssumption DEF RefineInv, WakeupInv, MutexTypeOK, Release, blockVars
<1>1. Holder(m) = t /\ Depth(m) = 1
  BY LastUnlockHolds DEF Release
<1>2. \A u \in Threads : got'[u][m] = 0 /\ ~Handed(u, m)
  BY <1>0, LastUnlock DEF Release
<1>3. \A u \in Threads : ~Claims(u, m)'
  BY <1>0, <1>2, QuietHanded DEF Claims
<1>4. Waiters(m) = {} /\ Waiters(m)' = Waiters(m)
  BY <1>0, EmptyQueue, SameWaiters DEF Release
<1> QED
  BY <1>1, <1>3, <1>4, NoHolderLeft DEF Abstract!Free

\* An unlock with waiters passes the mutex on to one of them.
LEMMA HandOffMaps ==
  ASSUME RefineInv, ClaimInv', Tracked, NoTimeouts, NEW t \in Threads, NEW m \in Mutexes,
         m = AnyMutex, MayCallUnlock(t, m), HandOff(t, m)
  PROVE  Abstract!PassOn(t)
<1> USE MutexAssumption
<1>0. /\ MutexTypeOK /\ QueueInv /\ BlockTypeOK /\ \A q \in Queues : NoDuplicates(queue[q])
      /\ pc \in [Threads -> PCs] /\ ClaimInv /\ MutualExclusion'
  BY DEF RefineInv, WakeupInv, MutexTypeOK, QueueInv, ClaimInv
<1>1. Holder(m) = t /\ Depth(m) = 1
  BY LastUnlockHolds DEF HandOff
<1>w. PICK w \in Threads : w = Head(queue[m])
  BY <1>0, HeadWaits DEF HandOff
<1>2. w \in Waiters(m) /\ obj[w] = m /\ pc[w] \in {"block", "timedblock", "timedout"}
  BY <1>0, <1>w, HeadWaits DEF HandOff, QueueInv
<1>3. /\ pc[w] = "block" /\ pc'[w] = pc[w] /\ obj'[w] = obj[w] /\ Dequeue(w)
  BY <1>0, <1>2, <1>w DEF HandOff, MayUnlock, Goto, ClaimInv
<1>4. ~Linked(w)' /\ Waiters(m)' = Waiters(m) \ {w}
  BY <1>0, <1>3, DequeueStep
<1>5. Claims(w, m)'
  BY <1>2, <1>3, <1>4 DEF Claims, Handed
<1>6. got'[w][m] = 0
  BY <1>0, LastUnlock DEF HandOff
<1>7. Holder(m)' = w /\ Depth(m)' = 0
  BY <1>0, <1>5, <1>6, HolderWillBe
<1> QED
  BY <1>1, <1>2, <1>4, <1>7 DEF Abstract!PassOn

\* The thread that was handed the mutex returns with it.
LEMMA GainMaps ==
  ASSUME RefineInv, ClaimInv', NEW t \in Threads, obj[t] = AnyMutex, Gain(t)
  PROVE  Abstract!Enter(t)
<1>m. PICK m \in Mutexes : m = obj[t]
  BY DEF RefineInv, WakeupInv, MutexTypeOK
<1>0. /\ got \in [Threads -> [Mutexes -> Nat]] /\ ClaimInv /\ MutualExclusion /\ MutualExclusion'
      /\ UNCHANGED queue /\ m = AnyMutex
  BY <1>m DEF RefineInv, WakeupInv, MutexTypeOK, ClaimInv, Gain, blockVars
<1>1. Handed(t, m) /\ Claims(t, m)
  BY <1>m DEF Gain, Handed, Claims
<1>2. got[t][m] = 0
  BY <1>0, <1>1 DEF ClaimInv, GrantInv
<1>3. got'[t][m] = 1
  BY <1>0, <1>2, <1>m DEF Gain, Grant
<1>4. Claims(t, m)'
  BY <1>3 DEF Claims
<1>5. Waiters(m)' = Waiters(m)
  BY <1>0, SameWaiters, MutexAssumption
<1> QED
  BY <1>0, <1>1, <1>2, <1>3, <1>4, <1>5, HolderIs, HolderWillBe DEF Abstract!Enter

\* pthread_mutex_transfer_np makes the holder somebody who does not wait.
LEMMA TransferMaps ==
  ASSUME RefineInv, ClaimInv', Tracked, NEW t \in Threads, NEW m \in Mutexes, m = AnyMutex,
         NEW u \in Threads, u # t, MayTransfer(t, m, u), Transfer(t, m, u)
  PROVE  Abstract!Give(t)
<1>0. /\ got \in [Threads -> [Mutexes -> Nat]] /\ MutualExclusion /\ MutualExclusion'
      /\ QueueInv /\ u # NoThread /\ got[t][m] > 0 /\ UNCHANGED queue
      /\ got' = [got EXCEPT ![t][m] = 0, ![u][m] = got[t][m]]
  BY MutexAssumption DEF RefineInv, WakeupInv, MutexTypeOK, ClaimInv, MayTransfer, Transfer, TransferRefused, Tracked, blockVars
<1>1. got'[u][m] = got[t][m]
  BY <1>0
<1>2. Claims(t, m) /\ Claims(u, m)'
  BY <1>0, <1>1 DEF Claims
<1>3. u \notin Waiters(m) /\ Waiters(m)' = Waiters(m)
  BY <1>0, SameWaiters, MutexAssumption DEF QueueInv, MayTransfer
<1> QED
  BY <1>0, <1>1, <1>2, <1>3, HolderIs, HolderWillBe DEF Abstract!Give

\* A thread that finds the mutex busy waits for somebody else.
LEMMA WaitMaps ==
  ASSUME RefineInv, ClaimInv', Tracked, NoTimeouts, NEW t \in Threads, NEW m \in Mutexes,
         m = AnyMutex, NEW a \in Abstimes, a # "invalid", MayLock(t, m, a), Wait(t, m, a)
  PROVE  Abstract!StartWaiting(t)
<1> USE MutexAssumption
<1>0. /\ MutexTypeOK /\ QueueInv /\ BlockTypeOK /\ \A q \in Queues : NoDuplicates(queue[q])
      /\ pc \in [Threads -> PCs] /\ obj \in [Threads -> Mutexes]
      /\ got \in [Threads -> [Mutexes -> Nat]]
      /\ ClaimInv /\ MutualExclusion /\ MutualExclusion'
  BY DEF RefineInv, WakeupInv, MutexTypeOK, QueueInv, ClaimInv
<1>1. /\ pc[t] = "idle" /\ ~Linked(t) /\ m \in Queues /\ held[m]
      /\ type[m] = "normal" \/ owner[m] # t
      /\ \A u \in Threads : u # t => pc'[u] = pc[u] /\ obj'[u] = obj[u]
      /\ Enqueue(m, t) /\ UNCHANGED got
  BY <1>0, IdleNotLinked DEF Wait, Busy, Goto
<1>2. a = "null"
  BY DEF NoTimeouts
<1>3. ~Claims(t, m)
  BY <1>0, <1>1, <1>2, IdleNotHanded DEF MayLock, Claims, ClaimInv, OwnerIsHolder
<1>4. PICK h \in Threads : Claims(h, m)
  BY <1>0, <1>1 DEF ClaimInv
<1>5. h # t
  BY <1>3, <1>4
<1>6. /\ Waiters(m)' = Waiters(m) \cup {t}
      /\ \A u \in Threads : Linked(u)' <=> (u = t \/ Linked(u))
  BY <1>0, <1>1, EnqueueStep
<1>7. Claims(h, m)'
  BY <1>1, <1>4, <1>5, <1>6 DEF Claims, Handed
<1>8. Holder(m) = h /\ Holder(m)' = h /\ Depth(m)' = Depth(m)
  BY <1>0, <1>1, <1>4, <1>7, HolderIs, HolderWillBe
<1>9. t \notin Waiters(m)
  BY <1>1 DEF Linked
<1> QED
  BY <1>5, <1>6, <1>8, <1>9 DEF Abstract!StartWaiting

\* Apart from Gain, the steps of a call that is under way are not seen.
LEMMA ContinueUnseen ==
  ASSUME RefineInv, NoTimeouts, NEW t \in Threads, NEW m \in Mutexes, Continue(t),
         Gain(t) => obj[t] # m
  PROVE  Unseen(m)
<1> USE MutexAssumption
<1>0. /\ MutexTypeOK /\ QueueInv /\ NoStrayMessage
      /\ BlockTypeOK /\ \A q \in Queues : NoDuplicates(queue[q])
      /\ pc \in [Threads -> PCs] /\ obj \in [Threads -> Mutexes]
      /\ got \in [Threads -> [Mutexes -> Nat]]
      /\ pc[t] \notin {"timedblock", "timedout", "drain"}
  BY DEF RefineInv, WakeupInv, MutexTypeOK, QueueInv, ClaimInv
<1>1. CASE Receive(t)
  <2>1. ~Linked(t)
    BY <1>0, <1>1 DEF Receive, Block, NoStrayMessage, Dequeued
  <2> QED
    BY <1>0, <1>1, <2>1, SameWaiters DEF Receive, Goto, Handed, Unseen
<1>2. CASE Recheck(t)
  <2>1. t \notin Waiters(m) /\ Dequeue(t)
    BY <1>0, <1>2 DEF Recheck, QueueInv
  <2>2. /\ Waiters(m)' = Waiters(m) \ {t}
        /\ \A u \in Threads : Linked(u)' <=> (u # t /\ Linked(u))
    BY <1>0, <2>1, DequeueStep
  <2>3. Waiters(m)' = Waiters(m)
    BY <2>1, <2>2
  <2> QED
    BY <1>0, <1>2, <2>2, <2>3 DEF Recheck, Goto, Handed, Unseen
<1>3. CASE SendWakeup(t)
  BY <1>0, <1>3, SameWaiters DEF SendWakeup, Goto, Handed, Unseen
<1>4. CASE Gain(t)
  <2>1. \A u \in Threads : got'[u][m] = got[u][m]
    BY <1>0, <1>4 DEF Gain, Grant
  <2>2. \A u \in Threads : Handed(u, m)' <=> Handed(u, m)
    BY <1>0, <1>4, SameWaiters DEF Gain, Goto, Handed, blockVars
  <2> QED
    BY <1>4, <2>1, <2>2, SameWaiters DEF Gain, Unseen, blockVars
<1>5. ~TimeOut(t) /\ ~GiveUp(t) /\ ~MustDrain(t) /\ ~Drain(t)
  BY <1>0 DEF TimeOut, GiveUp, MustDrain, Drain
<1> QED
  BY <1>1, <1>2, <1>3, <1>4, <1>5 DEF Continue

\* A refused call is not seen.
LEMMA RefusalUnseen ==
  ASSUME NEW m \in Mutexes, UNCHANGED <<queue, pc, obj, got>>
  PROVE  Unseen(m)
  BY QuietHanded, SameWaiters, MutexAssumption DEF Unseen

\* Every step of the library is a step of the abstract mutex, or is not seen.
LEMMA RefineStep ==
  ASSUME RefineInv, Tracked, NoTimeouts, [MutexNext]_vars
  PROVE  [Abstract!Next]_(Abstract!absVars)
<1>m. PICK m \in Mutexes : m = AnyMutex
  BY MutexAssumption DEF AnyMutex
<1>0. WakeupInv /\ MutexTypeOK /\ ClaimInv /\ ClaimInv' /\ MutualExclusion /\ MutualExclusion'
  BY ClaimStep DEF RefineInv, WakeupInv, ClaimInv
<1>1. ASSUME Unseen(m) PROVE UNCHANGED Abstract!absVars
  BY <1>m, <1>0, <1>1, UnseenStutters DEF Abstract!absVars
<1>2. CASE UNCHANGED vars
  BY <1>1, <1>2, RefusalUnseen DEF vars, mutexVars, blockVars
<1>3. ASSUME NEW t \in Threads, Continue(t)
      PROVE  [Abstract!Next]_(Abstract!absVars)
  <2>1. CASE Gain(t) /\ obj[t] = m
    BY <1>0, <1>m, <2>1, GainMaps DEF Abstract!Next
  <2>2. CASE ~(Gain(t) /\ obj[t] = m)
    BY <1>1, <1>3, <2>2, ContinueUnseen
  <2> QED
    BY <2>1, <2>2
<1>4. ASSUME NEW t \in Threads, NEW k \in Mutexes, CallStep(t, k)
      PROVE  [Abstract!Next]_(Abstract!absVars)
  <2>1. CASE k # m
    BY <1>0, <1>1, <1>4, <2>1, OtherUnseen
  <2>2. CASE k = m
    <3>1. CASE MayCallUnlock(t, m) /\ HandOff(t, m)
      BY <1>0, <1>m, <3>1, HandOffMaps DEF Abstract!Next
    <3>2. CASE \E a \in Abstimes : a # "invalid" /\ MayLock(t, m, a) /\ Wait(t, m, a)
      BY <1>0, <1>m, <3>2, WaitMaps DEF Abstract!Next
    <3>3. CASE Acquire(t, m) \/ Relock(t, m) \/ UnlockOnce(t, m)
      BY <1>0, <1>m, <3>3, AcquireMaps, RelockMaps DEF Abstract!Next
    <3>4. CASE MayCallUnlock(t, m) /\ Release(t, m)
      BY <1>0, <1>m, <3>4, ReleaseMaps DEF Abstract!Next
    <3>5. CASE Deadlk(t, m) \/ BadAbstime(t, m) \/ TryBusy(t, m) \/ NotOwner(t, m)
      BY <1>1, <3>5, RefusalUnseen DEF Deadlk, BadAbstime, TryBusy, NotOwner, blockVars
    <3>6. ASSUME NEW u \in Threads \cup {NoThread}, MayTransfer(t, m, u), Transfer(t, m, u)
          PROVE  [Abstract!Next]_(Abstract!absVars)
      <4>1. CASE u \in {NoThread, t}
        BY <1>1, <3>6, <4>1, RefusalUnseen DEF Transfer, blockVars
      <4>2. CASE u \notin {NoThread, t}
        BY <1>0, <1>m, <3>6, <4>2, TransferMaps DEF Abstract!Next
      <4> QED
        BY <4>1, <4>2
    <3> QED
      BY <1>4, <2>2, <3>1, <3>2, <3>3, <3>4, <3>5, <3>6 DEF CallStep, Quiet
  <2> QED
    BY <2>1, <2>2
<1> QED
  BY <1>2, <1>3, <1>4, NextSteps

\* When nobody locks with a timeout, a mutex implements AbstractMutex: it has
\* one holder, an unlock with waiters makes one of them the holder in the same
\* step, and nobody can take a mutex that is waited for.
THEOREM MutexImplementsAbstract ==
  ASSUME Tracked, NoTimeouts
  PROVE  MutexSpec => ImplementsAbstract
<1>1. MutexInit => RefineInv /\ Abstract!Init
  <2> SUFFICES ASSUME MutexInit PROVE RefineInv /\ Abstract!Init
    OBVIOUS
  <2>1. \A q \in Queues : Waiters(q) = {}
    BY DEF MutexInit, BlockInit, Waiters, ToSet
  <2>2. AnyMutex \in Mutexes /\ AnyMutex \in Queues /\ \A m \in Mutexes : Waiters(m) = {}
    BY <2>1, MutexAssumption DEF AnyMutex
  <2>3. \A t \in Threads : ~Claims(t, AnyMutex)
    BY <2>2 DEF MutexInit, Claims, Handed
  <2>4. Abstract!Init
    BY <2>2, <2>3, NoHolder DEF Abstract!Init
  <2> QED
    BY <2>2, <2>4, WakeupInit, ClaimInit DEF RefineInv, WaitedForInv
<1>2. RefineInv /\ [MutexNext]_vars => RefineInv'
  BY WakeupStep, ClaimStep, WaitedForStep DEF RefineInv
<1>3. RefineInv /\ [MutexNext]_vars => [Abstract!Next]_(Abstract!absVars)
  BY RefineStep
<1> QED
  BY <1>1, <1>2, <1>3, PTL DEF MutexSpec, ImplementsAbstract, Abstract!Spec
=============================================================================
