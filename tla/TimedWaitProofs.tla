-------------------------- MODULE TimedWaitProofs --------------------------
(***************************************************************************)
(* Theorems about the objects that wait with the code of module TimedWait, *)
(* the semaphore and the read-write lock, for any number of threads, any   *)
(* initial value and number of posts, and any number of read locks that    *)
(* threads stack up.                                                       *)
(***************************************************************************)
EXTENDS Semaphore, RWLock, PtInternalProofs, FiniteSetTheorems

(* What the waiting code keeps, whichever object it is a part of.          *)

\* A thread on a queue is on it once, and has not yet found out, under __lock
\* again, how its wait ended.
WaitQueueInv ==
  /\ \A q \in Queues : NoDuplicates(queue[q])
  /\ \A t \in Threads : Linked(t) => pc[t] \in {"block", "timedblock", "timedout"}

\* OneMessageOwed seen from the two sides: what a waker knows of the thread it
\* is about to wake up, and what a thread knows of its own message.
WakerInv ==
  \A t \in Threads :
    pc[t] = "wakeup" => /\ target[t] \in Threads
                        /\ Dequeued(target[t])
                        /\ ~port[target[t]]

OneWakerInv ==
  \A t, u \in Threads :
    pc[t] = "wakeup" /\ pc[u] = "wakeup" /\ target[t] = target[u] => t = u

MessageInv ==
  \A t \in Threads :
    /\ port[t] => Dequeued(t)
    /\ Dequeued(t) => port[t] \/ \E u \in Threads : pc[u] = "wakeup" /\ target[u] = t

WaitInv == WaitTypeOK /\ WaitQueueInv /\ WakerInv /\ OneWakerInv /\ MessageInv

-----------------------------------------------------------------------------
\* The wakeup protocol is what OneMessageOwed says it is.
LEMMA WaitInvMessages ==
  ASSUME WaitInv
  PROVE  OneMessageOwed
  BY DEF WaitInv, WakerInv, OneWakerInv, MessageInv, OneMessageOwed, WaitTypeOK

\* Initially nobody waits.
LEMMA WaitInvInit ==
  ASSUME WaitInit
  PROVE  WaitInv /\ \A t \in Threads : ~Owed(t) /\ ~Linked(t)
<1>1. /\ queue = [q \in Queues |-> <<>>] /\ \A q \in Queues : Waiters(q) = {}
      /\ port = [t \in Threads |-> FALSE]
      /\ pc = [t \in Threads |-> "idle"]
      /\ target = [t \in Threads |-> NoThread]
      /\ spin = FALSE
  BY DEF WaitInit, BlockInit, Waiters, ToSet
<1>2. BlockTypeOK
  BY <1>1 DEF BlockTypeOK
<1>3. WaitTypeOK
  BY <1>1, <1>2 DEF WaitTypeOK, WaitPCs
<1>4. \A t \in Threads : ~Linked(t) /\ ~Dequeued(t) /\ ~Owed(t) /\ pc[t] = "idle" /\ ~port[t]
  BY <1>1 DEF Linked, Dequeued, Owed
<1>5. WaitQueueInv
  BY <1>1, <1>4 DEF WaitQueueInv, NoDuplicates
<1> QED
  BY <1>3, <1>4, <1>5 DEF WaitInv, WakerInv, OneWakerInv, MessageInv

\* A waiter joins a queue: it has no message and is owed none.
LEMMA StartWaitStep ==
  ASSUME WaitInv, NEW t \in Threads, NEW q \in Queues, NEW abstime,
         pc[t] = "idle", StartWait(t, q, abstime)
  PROVE  /\ WaitInv'
         /\ \A u \in Threads : Owed(u)' <=> Owed(u)
         /\ \A u \in Threads : Handed(u)' <=> Handed(u)
<1>1. /\ BlockTypeOK /\ \A p \in Queues : NoDuplicates(queue[p])
      /\ pc \in [Threads -> WaitPCs] /\ ~Linked(t) /\ Enqueue(q, t)
  BY DEF WaitInv, WaitTypeOK, WaitQueueInv, StartWait
<1>2. /\ queue' \in [Queues -> Seq(Threads)]
      /\ \A p \in Queues : NoDuplicates(queue'[p])
      /\ \A u \in Threads : Linked(u)' <=> (u = t \/ Linked(u))
  BY <1>1, EnqueueStep
<1>3. PICK l \in {"block", "timedblock"} : pc' = [pc EXCEPT ![t] = l]
  BY DEF StartWait, Goto
<1>4. /\ pc' \in [Threads -> WaitPCs]
      /\ pc'[t] \in {"block", "timedblock"}
      /\ \A u \in Threads : u # t => pc'[u] = pc[u]
      /\ port' = port /\ target' = target /\ spin' = spin
  BY <1>1, <1>3 DEF WaitPCs, StartWait
<1>5. WaitTypeOK' /\ WaitQueueInv'
  BY <1>2, <1>4 DEF WaitInv, WaitTypeOK, WaitQueueInv, BlockTypeOK
<1>6. ~Dequeued(t) /\ ~Dequeued(t)' /\ \A u \in Threads : Dequeued(u)' <=> Dequeued(u)
  BY <1>2, <1>4 DEF Dequeued
<1>7. \A u \in Threads : (Owed(u)' <=> Owed(u)) /\ (Handed(u)' <=> Handed(u))
  BY <1>2, <1>4, <1>6 DEF Owed, Handed
<1>8. WakerInv' /\ OneWakerInv' /\ MessageInv'
  BY <1>4, <1>6 DEF WaitInv, WakerInv, OneWakerInv, MessageInv
<1> QED
  BY <1>5, <1>7, <1>8 DEF WaitInv

\* A message is received: only by a thread that a waker dequeued, and the
\* message it owed was the only one.
LEMMA ReceiveStep ==
  ASSUME WaitInv, NEW t \in Threads, Receive(t)
  PROVE  /\ WaitInv'
         /\ \A u \in Threads : Owed(u)' <=> Owed(u)
         /\ \A u \in Threads : Handed(u)' <=> Handed(u)
<1>1. /\ pc[t] \in {"block", "timedblock"}
      /\ port[t] /\ Dequeued(t) /\ ~Linked(t)
      /\ \A u \in Threads : pc[u] = "wakeup" => target[u] # t
  BY DEF Receive, Block, WaitInv, MessageInv, WakerInv, Dequeued
<1>2. /\ pc' = [pc EXCEPT ![t] = "received"] /\ port' = [port EXCEPT ![t] = FALSE]
      /\ queue' = queue /\ target' = target /\ spin' = spin
  BY DEF Receive, Goto, Block
<1>3. \A u \in Threads : Linked(u)' <=> Linked(u)
  BY <1>2, SameWaiters
<1>4. /\ pc' \in [Threads -> WaitPCs] /\ port' \in [Threads -> BOOLEAN]
      /\ pc'[t] = "received" /\ ~port'[t]
      /\ \A u \in Threads : u # t => pc'[u] = pc[u] /\ port'[u] = port[u]
  BY <1>2 DEF WaitInv, WaitTypeOK, BlockTypeOK, WaitPCs
<1>5. WaitTypeOK' /\ WaitQueueInv'
  BY <1>1, <1>2, <1>3, <1>4 DEF WaitInv, WaitTypeOK, WaitQueueInv, BlockTypeOK
<1>6. ~Dequeued(t)' /\ \A u \in Threads \ {t} : Dequeued(u)' <=> Dequeued(u)
  BY <1>3, <1>4 DEF Dequeued
<1>7. \A u \in Threads : (Owed(u)' <=> Owed(u)) /\ (Handed(u)' <=> Handed(u))
  BY <1>1, <1>3, <1>4, <1>6 DEF Owed, Handed
<1>8. WakerInv' /\ OneWakerInv' /\ MessageInv'
  BY <1>1, <1>2, <1>4, <1>6 DEF WaitInv, WakerInv, OneWakerInv, MessageInv
<1> QED
  BY <1>5, <1>7, <1>8 DEF WaitInv

\* The timeout: nothing else changes, also when a message is there already.
LEMMA TimeOutStep ==
  ASSUME WaitInv, NEW t \in Threads, TimeOut(t)
  PROVE  /\ WaitInv'
         /\ \A u \in Threads : Owed(u)' <=> Owed(u)
         /\ \A u \in Threads : Handed(u)' => Handed(u)
<1>1. /\ pc[t] = "timedblock" /\ pc' = [pc EXCEPT ![t] = "timedout"]
      /\ queue' = queue /\ port' = port /\ target' = target /\ spin' = spin
  BY DEF TimeOut, Goto, blockVars
<1>2. \A u \in Threads : Linked(u)' <=> Linked(u)
  BY <1>1, SameWaiters
<1>3. /\ pc' \in [Threads -> WaitPCs] /\ pc'[t] = "timedout"
      /\ \A u \in Threads : u # t => pc'[u] = pc[u]
  BY <1>1 DEF WaitInv, WaitTypeOK, WaitPCs
<1>4. WaitTypeOK' /\ WaitQueueInv'
  BY <1>1, <1>2, <1>3 DEF WaitInv, WaitTypeOK, WaitQueueInv, BlockTypeOK
<1>5. \A u \in Threads : Dequeued(u)' <=> Dequeued(u)
  BY <1>1, <1>2, <1>3 DEF Dequeued
<1>6. \A u \in Threads : (Owed(u)' <=> Owed(u)) /\ (Handed(u)' => Handed(u))
  BY <1>1, <1>2, <1>3, <1>5 DEF Owed, Handed
<1>7. WakerInv' /\ OneWakerInv' /\ MessageInv'
  BY <1>1, <1>3, <1>5 DEF WaitInv, WakerInv, OneWakerInv, MessageInv
<1> QED
  BY <1>4, <1>6, <1>7 DEF WaitInv

\* A call returns 0: the thread has received its message and is not queued.
LEMMA SucceedStep ==
  ASSUME WaitInv, NEW t \in Threads, Succeed(t)
  PROVE  /\ WaitInv'
         /\ Owed(t) /\ Handed(t) /\ ~Owed(t)' /\ ~Handed(t)'
         /\ \A u \in Threads \ {t} : Owed(u)' <=> Owed(u)
         /\ \A u \in Threads \ {t} : Handed(u)' <=> Handed(u)
         /\ \A u \in Threads : Linked(u)' <=> Linked(u)
<1>1. /\ pc[t] = "received" /\ Dequeue(t)
      /\ pc' = [pc EXCEPT ![t] = "idle"]
      /\ port' = port /\ target' = target /\ spin' = spin
  BY DEF Succeed, Goto
<1>2. /\ ~Linked(t) /\ ~Dequeued(t) /\ ~port[t]
      /\ BlockTypeOK /\ \A q \in Queues : NoDuplicates(queue[q])
  BY <1>1 DEF WaitInv, WaitTypeOK, WaitQueueInv, Dequeued, MessageInv
<1>3. /\ queue' \in [Queues -> Seq(Threads)]
      /\ \A q \in Queues : NoDuplicates(queue'[q])
      /\ \A u \in Threads : Linked(u)' <=> (u # t /\ Linked(u))
  BY <1>1, <1>2, DequeueStep
<1>4. /\ pc' \in [Threads -> WaitPCs] /\ pc'[t] = "idle"
      /\ \A u \in Threads : u # t => pc'[u] = pc[u]
  BY <1>1 DEF WaitInv, WaitTypeOK, WaitPCs
<1>5. WaitTypeOK' /\ WaitQueueInv'
  BY <1>1, <1>2, <1>3, <1>4 DEF WaitInv, WaitTypeOK, WaitQueueInv, BlockTypeOK
<1>6. \A u \in Threads : (Dequeued(u)' <=> Dequeued(u)) /\ (Linked(u)' <=> Linked(u))
  BY <1>2, <1>3, <1>4 DEF Dequeued
<1>7. /\ Owed(t) /\ Handed(t) /\ ~Owed(t)' /\ ~Handed(t)'
      /\ \A u \in Threads \ {t} : (Owed(u)' <=> Owed(u)) /\ (Handed(u)' <=> Handed(u))
  BY <1>1, <1>2, <1>4, <1>6 DEF Owed, Handed
<1>8. WakerInv' /\ OneWakerInv' /\ MessageInv'
  BY <1>1, <1>4, <1>6 DEF WaitInv, WakerInv, OneWakerInv, MessageInv
<1> QED
  BY <1>5, <1>6, <1>7, <1>8 DEF WaitInv

\* A call gives up in time: nobody had dequeued the thread, nothing is lost.
LEMMA GiveUpStep ==
  ASSUME WaitInv, NEW t \in Threads, GiveUp(t)
  PROVE  /\ WaitInv'
         /\ \A u \in Threads : Owed(u)' <=> Owed(u)
         /\ \A u \in Threads : Handed(u)' <=> Handed(u)
<1>1. /\ pc[t] = "timedout" /\ Linked(t) /\ Dequeue(t)
      /\ pc' = [pc EXCEPT ![t] = "idle"]
      /\ port' = port /\ target' = target /\ spin' = spin
  BY DEF GiveUp, Goto
<1>2. /\ ~Dequeued(t) /\ ~port[t]
      /\ BlockTypeOK /\ \A q \in Queues : NoDuplicates(queue[q])
  BY <1>1 DEF WaitInv, WaitTypeOK, WaitQueueInv, Dequeued, MessageInv
<1>3. /\ queue' \in [Queues -> Seq(Threads)]
      /\ \A q \in Queues : NoDuplicates(queue'[q])
      /\ \A u \in Threads : Linked(u)' <=> (u # t /\ Linked(u))
  BY <1>1, <1>2, DequeueStep
<1>4. /\ pc' \in [Threads -> WaitPCs] /\ pc'[t] = "idle"
      /\ \A u \in Threads : u # t => pc'[u] = pc[u]
  BY <1>1 DEF WaitInv, WaitTypeOK, WaitPCs
<1>5. WaitTypeOK' /\ WaitQueueInv'
  BY <1>1, <1>2, <1>3, <1>4 DEF WaitInv, WaitTypeOK, WaitQueueInv, BlockTypeOK
<1>6. \A u \in Threads : Dequeued(u)' <=> Dequeued(u)
  BY <1>2, <1>3, <1>4 DEF Dequeued
<1>7. \A u \in Threads : (Owed(u)' <=> Owed(u)) /\ (Handed(u)' <=> Handed(u))
  BY <1>1, <1>3, <1>4, <1>6 DEF Owed, Handed
<1>8. WakerInv' /\ OneWakerInv' /\ MessageInv'
  BY <1>1, <1>4, <1>6 DEF WaitInv, WakerInv, OneWakerInv, MessageInv
<1> QED
  BY <1>5, <1>7, <1>8 DEF WaitInv

\* A call finds that it was dequeued after its timeout.
LEMMA MustDrainStep ==
  ASSUME WaitInv, NEW t \in Threads, MustDrain(t)
  PROVE  /\ WaitInv'
         /\ \A u \in Threads : Owed(u)' <=> Owed(u)
         /\ \A u \in Threads : Handed(u)' <=> Handed(u)
<1>1. /\ pc[t] = "timedout" /\ ~Linked(t) /\ pc' = [pc EXCEPT ![t] = "drain"]
      /\ queue' = queue /\ port' = port /\ target' = target /\ spin' = spin
  BY DEF MustDrain, Goto, blockVars
<1>2. \A u \in Threads : Linked(u)' <=> Linked(u)
  BY <1>1, SameWaiters
<1>3. /\ pc' \in [Threads -> WaitPCs] /\ pc'[t] = "drain"
      /\ \A u \in Threads : u # t => pc'[u] = pc[u]
  BY <1>1 DEF WaitInv, WaitTypeOK, WaitPCs
<1>4. WaitTypeOK' /\ WaitQueueInv'
  BY <1>1, <1>2, <1>3 DEF WaitInv, WaitTypeOK, WaitQueueInv, BlockTypeOK
<1>5. \A u \in Threads : Dequeued(u)' <=> Dequeued(u)
  BY <1>1, <1>2, <1>3 DEF Dequeued
<1>6. \A u \in Threads : (Owed(u)' <=> Owed(u)) /\ (Handed(u)' <=> Handed(u))
  BY <1>1, <1>2, <1>3, <1>5 DEF Owed, Handed
<1>7. WakerInv' /\ OneWakerInv' /\ MessageInv'
  BY <1>1, <1>3, <1>5 DEF WaitInv, WakerInv, OneWakerInv, MessageInv
<1> QED
  BY <1>4, <1>6, <1>7 DEF WaitInv

\* The late message is consumed: the call returns with nothing owed to it.
LEMMA DrainStep ==
  ASSUME WaitInv, NEW t \in Threads, Drain(t)
  PROVE  /\ WaitInv'
         /\ Owed(t) /\ ~Owed(t)'
         /\ \A u \in Threads \ {t} : Owed(u)' <=> Owed(u)
         /\ \A u \in Threads : Handed(u)' <=> Handed(u)
<1>1. /\ pc[t] = "drain"
      /\ port[t] /\ Dequeued(t) /\ ~Linked(t)
      /\ \A u \in Threads : pc[u] = "wakeup" => target[u] # t
  BY DEF Drain, Block, WaitInv, MessageInv, WakerInv, Dequeued
<1>2. /\ pc' = [pc EXCEPT ![t] = "idle"] /\ port' = [port EXCEPT ![t] = FALSE]
      /\ queue' = queue /\ target' = target /\ spin' = spin
  BY DEF Drain, Goto, Block
<1>3. \A u \in Threads : Linked(u)' <=> Linked(u)
  BY <1>2, SameWaiters
<1>4. /\ pc' \in [Threads -> WaitPCs] /\ port' \in [Threads -> BOOLEAN]
      /\ pc'[t] = "idle" /\ ~port'[t]
      /\ \A u \in Threads : u # t => pc'[u] = pc[u] /\ port'[u] = port[u]
  BY <1>2 DEF WaitInv, WaitTypeOK, BlockTypeOK, WaitPCs
<1>5. WaitTypeOK' /\ WaitQueueInv'
  BY <1>1, <1>2, <1>3, <1>4 DEF WaitInv, WaitTypeOK, WaitQueueInv, BlockTypeOK
<1>6. ~Dequeued(t)' /\ \A u \in Threads \ {t} : Dequeued(u)' <=> Dequeued(u)
  BY <1>3, <1>4 DEF Dequeued
<1>7. /\ Owed(t) /\ ~Owed(t)' /\ \A u \in Threads \ {t} : Owed(u)' <=> Owed(u)
      /\ \A u \in Threads : Handed(u)' <=> Handed(u)
  BY <1>1, <1>3, <1>4, <1>6 DEF Owed, Handed
<1>8. WakerInv' /\ OneWakerInv' /\ MessageInv'
  BY <1>1, <1>2, <1>4, <1>6 DEF WaitInv, WakerInv, OneWakerInv, MessageInv
<1> QED
  BY <1>5, <1>7, <1>8 DEF WaitInv

\* A waiter is dequeued, and is owed a message and what was given to it.
LEMMA WakeOneStep ==
  ASSUME WaitInv, NEW t \in Threads, NEW w \in Threads,
         pc[t] = "idle", Linked(w), WakeOne(t, w)
  PROVE  /\ WaitInv'
         /\ ~Owed(w) /\ Owed(w)'
         /\ \A u \in Threads \ {w} : Owed(u)' <=> Owed(u)
         /\ \A u \in Threads \ {w} : Handed(u)' <=> Handed(u)
<1>1. /\ Dequeue(w) /\ target' = [target EXCEPT ![t] = w]
      /\ pc' = [pc EXCEPT ![t] = "wakeup"]
      /\ port' = port /\ spin' = spin
  BY DEF WakeOne, Goto
<1>2. /\ pc[w] \in {"block", "timedblock", "timedout"} /\ ~Dequeued(w) /\ ~Dequeued(t) /\ ~port[w]
      /\ w # t /\ ~Linked(t)
      /\ \A u \in Threads : pc[u] = "wakeup" => target[u] # w
      /\ BlockTypeOK /\ \A q \in Queues : NoDuplicates(queue[q])
  BY <1>1 DEF WaitInv, WaitTypeOK, WaitQueueInv, Dequeued, MessageInv, WakerInv
<1>3. /\ queue' \in [Queues -> Seq(Threads)]
      /\ \A q \in Queues : NoDuplicates(queue'[q])
      /\ \A u \in Threads : Linked(u)' <=> (u # w /\ Linked(u))
  BY <1>1, <1>2, DequeueStep
<1>4. /\ pc' \in [Threads -> WaitPCs] /\ pc'[t] = "wakeup"
      /\ target' \in [Threads -> Threads \cup {NoThread}] /\ target'[t] = w
      /\ \A u \in Threads : u # t => pc'[u] = pc[u] /\ target'[u] = target[u]
  BY <1>1 DEF WaitInv, WaitTypeOK, WaitPCs
<1>5. WaitTypeOK' /\ WaitQueueInv'
  BY <1>1, <1>2, <1>3, <1>4 DEF WaitInv, WaitTypeOK, WaitQueueInv, BlockTypeOK
<1>6. Dequeued(w)' /\ \A u \in Threads \ {w} : Dequeued(u)' <=> Dequeued(u)
  BY <1>2, <1>3, <1>4 DEF Dequeued
<1>7. /\ ~Owed(w) /\ Owed(w)'
      /\ \A u \in Threads \ {w} : (Owed(u)' <=> Owed(u)) /\ (Handed(u)' <=> Handed(u))
  BY <1>2, <1>3, <1>4, <1>6 DEF Owed, Handed
<1>8. WakerInv' /\ OneWakerInv' /\ MessageInv'
  BY <1>1, <1>2, <1>4, <1>6 DEF WaitInv, WakerInv, OneWakerInv, MessageInv
<1> QED
  BY <1>5, <1>7, <1>8 DEF WaitInv

\* The message that was owed is sent, to an empty port.
LEMMA SendWakeupStep ==
  ASSUME WaitInv, NEW t \in Threads, SendWakeup(t)
  PROVE  /\ WaitInv'
         /\ \A u \in Threads : Owed(u)' <=> Owed(u)
         /\ \A u \in Threads : Handed(u)' <=> Handed(u)
<1> DEFINE w == target[t]
<1>1. /\ pc[t] = "wakeup" /\ w \in Threads /\ Dequeued(w) /\ ~port[w] /\ w # t
      /\ \A u \in Threads \ {t} : pc[u] = "wakeup" => target[u] # w
  BY DEF SendWakeup, WaitInv, WakerInv, OneWakerInv, Dequeued
<1>2. /\ pc' = [pc EXCEPT ![t] = "idle"] /\ port' = [port EXCEPT ![w] = TRUE]
      /\ target' = [target EXCEPT ![t] = NoThread]
      /\ queue' = queue /\ spin' = spin
  BY DEF SendWakeup, Goto, Wakeup
<1>3. \A u \in Threads : Linked(u)' <=> Linked(u)
  BY <1>2, SameWaiters
<1>4. PICK x \in Threads : x = w
  BY <1>1
<1> HIDE DEF w
<1>5. /\ pc' \in [Threads -> WaitPCs] /\ port' \in [Threads -> BOOLEAN]
      /\ target' \in [Threads -> Threads \cup {NoThread}]
      /\ pc'[t] = "idle" /\ port'[x]
      /\ \A u \in Threads : u # t => pc'[u] = pc[u] /\ target'[u] = target[u]
      /\ \A u \in Threads : u # x => port'[u] = port[u]
  BY <1>2, <1>4 DEF WaitInv, WaitTypeOK, BlockTypeOK, WaitPCs
<1>6. WaitTypeOK' /\ WaitQueueInv'
  BY <1>1, <1>2, <1>3, <1>5 DEF WaitInv, WaitTypeOK, WaitQueueInv, BlockTypeOK
<1>7. \A u \in Threads : Dequeued(u)' <=> Dequeued(u)
  BY <1>1, <1>3, <1>5 DEF Dequeued
<1>8. \A u \in Threads : (Owed(u)' <=> Owed(u)) /\ (Handed(u)' <=> Handed(u))
  BY <1>1, <1>3, <1>5, <1>7 DEF Owed, Handed
<1>9. WakerInv' /\ OneWakerInv' /\ MessageInv'
  BY <1>1, <1>4, <1>5, <1>7 DEF WaitInv, WakerInv, OneWakerInv, MessageInv, w
<1> QED
  BY <1>6, <1>8, <1>9 DEF WaitInv

\* A step that changes at most __lock changes nothing of this.
LEMMA SpinStep ==
  ASSUME WaitInv, UNCHANGED <<blockVars, pc, target>>, spin' \in BOOLEAN
  PROVE  /\ WaitInv'
         /\ \A u \in Threads : Owed(u)' <=> Owed(u)
         /\ \A u \in Threads : Handed(u)' <=> Handed(u)
<1>1. \A u \in Threads : Linked(u)' <=> Linked(u)
  BY SameWaiters DEF blockVars
<1>2. \A u \in Threads : Dequeued(u)' <=> Dequeued(u)
  BY <1>1 DEF Dequeued
<1>3. WaitTypeOK' /\ WaitQueueInv'
  BY <1>1 DEF WaitInv, WaitTypeOK, WaitQueueInv, BlockTypeOK, blockVars
<1>4. WakerInv' /\ OneWakerInv' /\ MessageInv'
  BY <1>2 DEF WaitInv, WakerInv, OneWakerInv, MessageInv, blockVars
<1> QED
  BY <1>1, <1>2, <1>3, <1>4 DEF WaitInv, Owed, Handed

\* A thread in no call is owed nothing and on no queue.
LEMMA IdleOwedNothing ==
  ASSUME WaitInv, NEW t \in Threads, pc[t] = "idle"
  PROVE  ~Owed(t) /\ ~Linked(t)
  BY DEF WaitInv, WaitQueueInv, Owed, Dequeued

-----------------------------------------------------------------------------
(* The semaphore of module Semaphore.                                      *)

\* The threads that a post gave a unit to and whose call has not returned.
OwedThreads == {t \in Threads : Owed(t)}

\* Nobody is on the queue while the semaphore has a unit to take.
NobodyWaitsInVain == value > 0 => \A t \in Threads : ~Linked(t)

\* UnitsConserved needs the wakeup protocol, which says who is owed a unit, and
\* that those threads can be counted.
SemInv == /\ WaitInv
          /\ value \in Nat /\ units \in Nat /\ lost \in Nat
          /\ IsFiniteSet(OwedThreads)
          /\ UnitsConserved
          /\ NobodyWaitsInVain

\* The other queues in being are of other objects: on none is a thread that
\* waits for a semaphore.
OnSemQueue == \A q \in Queues : q # SemQueue => Waiters(q) = {}

-----------------------------------------------------------------------------
\* The threads that are owed a unit, if none starts or ceases to be owed one.
LEMMA SameOwed ==
  ASSUME \A u \in Threads : Owed(u)' <=> Owed(u)
  PROVE  OwedThreads' = OwedThreads
  BY DEF OwedThreads

\* A post that dequeues a waiter owes one more unit...
LEMMA OneMoreOwed ==
  ASSUME IsFiniteSet(OwedThreads), NEW w \in Threads, ~Owed(w), Owed(w)',
         \A u \in Threads \ {w} : Owed(u)' <=> Owed(u)
  PROVE  /\ IsFiniteSet(OwedThreads') /\ Cardinality(OwedThreads) \in Nat
         /\ Cardinality(OwedThreads') = Cardinality(OwedThreads) + 1
<1>1. OwedThreads' = OwedThreads \cup {w} /\ w \notin OwedThreads
  BY DEF OwedThreads
<1> QED
  BY <1>1, FS_AddElement, FS_CardinalityType

\* ... and a waiter that takes its message is owed one less.
LEMMA OneLessOwed ==
  ASSUME IsFiniteSet(OwedThreads), NEW w \in Threads, Owed(w), ~Owed(w)',
         \A u \in Threads \ {w} : Owed(u)' <=> Owed(u)
  PROVE  /\ IsFiniteSet(OwedThreads') /\ Cardinality(OwedThreads') \in Nat
         /\ Cardinality(OwedThreads) = Cardinality(OwedThreads') + 1
<1>1. OwedThreads' = OwedThreads \ {w} /\ w \in OwedThreads
  BY DEF OwedThreads
<1>2. IsFiniteSet(OwedThreads') /\ Cardinality(OwedThreads') = Cardinality(OwedThreads) - 1
  BY <1>1, FS_RemoveElement
<1>3. Cardinality(OwedThreads) \in Nat /\ Cardinality(OwedThreads') \in Nat
  BY <1>2, FS_CardinalityType
<1> QED
  BY <1>2, <1>3

\* UnitsConserved in terms of the set.
LEMMA UnitsCounted == UnitsConserved <=> units = value + Cardinality(OwedThreads) + lost
  BY DEF UnitsConserved, Quantify, OwedThreads

\* UnitsConserved of the next state, with the definitions expanded.
LEMMA UnitsCountedNext == UnitsConserved' <=> units' = value' + Cardinality(OwedThreads') + lost'
  BY DEF UnitsConserved, Quantify, OwedThreads

-----------------------------------------------------------------------------
\* The invariant holds initially...
LEMMA SemInvInit == SemInit => SemInv
<1> SUFFICES ASSUME SemInit PROVE SemInv
  OBVIOUS
<1>1. WaitInv /\ \A t \in Threads : ~Owed(t) /\ ~Linked(t)
  BY WaitInvInit DEF SemInit
<1>2. OwedThreads = {}
  BY <1>1 DEF OwedThreads
<1>3. value \in Nat /\ units = value /\ lost = 0
  BY SemAssumption DEF SemInit
<1>4. UnitsConserved
  BY <1>2, <1>3, FS_EmptySet, UnitsCounted
<1> QED
  BY <1>1, <1>2, <1>3, <1>4, FS_EmptySet DEF SemInv, NobodyWaitsInVain

\* A step that gives nothing and takes nothing.
LEMMA KeepsUnits ==
  ASSUME SemInv, WaitInv', UNCHANGED semVars,
         \A u \in Threads : Owed(u)' <=> Owed(u),
         NobodyWaitsInVain'
  PROVE  SemInv'
<1>1. OwedThreads' = OwedThreads
  BY SameOwed
<1>2. UnitsConserved'
  BY <1>1, UnitsCounted, UnitsCountedNext DEF SemInv, semVars
<1> QED
  BY <1>1, <1>2 DEF SemInv, semVars

\* Steps that leave the queue alone, and do not raise the value.
LEMMA NobodyMore ==
  ASSUME SemInv, \A u \in Threads : Linked(u)' => Linked(u), value' > 0 => value > 0
  PROVE  NobodyWaitsInVain'
  BY DEF SemInv, NobodyWaitsInVain

\* The quick way down takes a unit of the value.
LEMMA DownStep ==
  ASSUME SemInv, NEW t \in Threads, Down(t)
  PROVE  SemInv'
<1>1. /\ UNCHANGED <<blockVars, pc, target, spin>> /\ queue' = queue
      /\ value > 0 /\ value' = value - 1 /\ units' = units - 1 /\ lost' = lost
  BY DEF Down, waitVars, blockVars
<1>2. WaitInv' /\ \A u \in Threads : Owed(u)' <=> Owed(u)
  BY <1>1, SpinStep DEF SemInv, WaitInv, WaitTypeOK
<1>3. OwedThreads' = OwedThreads /\ Cardinality(OwedThreads) \in Nat
  BY <1>2, SameOwed, FS_CardinalityType DEF SemInv
<1>4. value \in Nat /\ lost \in Nat /\ units = value + Cardinality(OwedThreads) + lost
  BY UnitsCounted DEF SemInv
<1>5. /\ value' \in Nat /\ units' \in Nat /\ lost' \in Nat
      /\ units' = value' + Cardinality(OwedThreads) + lost'
  BY <1>1, <1>3, <1>4
<1>6. NobodyWaitsInVain'
  BY <1>1, <1>4, SameWaiters, NobodyMore
<1> QED
  BY <1>2, <1>3, <1>5, <1>6, UnitsCountedNext DEF SemInv

\* A waiter returns with the unit it was given.
LEMMA ReturnsStep ==
  ASSUME SemInv, NEW t \in Threads, Returns(t)
  PROVE  SemInv'
<1>1. Succeed(t) /\ value' = value /\ units' = units - 1 /\ lost' = lost
  BY DEF Returns
<1>2. /\ WaitInv' /\ Owed(t) /\ ~Owed(t)'
      /\ \A u \in Threads \ {t} : Owed(u)' <=> Owed(u)
      /\ \A u \in Threads : Linked(u)' <=> Linked(u)
  BY <1>1, SucceedStep DEF SemInv
<1>3. /\ IsFiniteSet(OwedThreads') /\ Cardinality(OwedThreads') \in Nat
      /\ Cardinality(OwedThreads) = Cardinality(OwedThreads') + 1
  BY <1>2, OneLessOwed DEF SemInv
<1>4. value \in Nat /\ lost \in Nat /\ units = value + Cardinality(OwedThreads) + lost
  BY UnitsCounted DEF SemInv
<1>5. /\ value' \in Nat /\ units' \in Nat /\ lost' \in Nat
      /\ units' = value' + Cardinality(OwedThreads') + lost'
  BY <1>1, <1>3, <1>4
<1>6. NobodyWaitsInVain'
  BY <1>1, <1>2, NobodyMore
<1> QED
  BY <1>2, <1>3, <1>5, <1>6, UnitsCountedNext DEF SemInv

\* A waiter that timed out too late loses the unit it was given.
LEMMA DrainedStep ==
  ASSUME SemInv, NEW t \in Threads, Drained(t)
  PROVE  SemInv'
<1>1. Drain(t) /\ queue' = queue /\ value' = value /\ units' = units /\ lost' = lost + 1
  BY DEF Drained, Drain
<1>2. /\ WaitInv' /\ Owed(t) /\ ~Owed(t)'
      /\ \A u \in Threads \ {t} : Owed(u)' <=> Owed(u)
  BY <1>1, DrainStep DEF SemInv
<1>3. /\ IsFiniteSet(OwedThreads') /\ Cardinality(OwedThreads') \in Nat
      /\ Cardinality(OwedThreads) = Cardinality(OwedThreads') + 1
  BY <1>2, OneLessOwed DEF SemInv
<1>4. value \in Nat /\ lost \in Nat /\ units \in Nat
      /\ units = value + Cardinality(OwedThreads) + lost
  BY UnitsCounted DEF SemInv
<1>5. /\ value' \in Nat /\ units' \in Nat /\ lost' \in Nat
      /\ units' = value' + Cardinality(OwedThreads') + lost'
  BY <1>1, <1>3, <1>4
<1>6. NobodyWaitsInVain'
  BY <1>1, SameWaiters, NobodyMore
<1> QED
  BY <1>2, <1>3, <1>5, <1>6, UnitsCountedNext DEF SemInv

\* A post makes one unit, which goes to the value or to the thread dequeued.
LEMMA PostStep ==
  ASSUME SemInv, OnSemQueue, NEW t \in Threads, Post(t)
  PROVE  SemInv'
<1>1. /\ pc[t] = "idle" /\ units' = units + 1 /\ lost' = lost
      /\ SemQueue \in Queues /\ BlockTypeOK
  BY SemAssumption DEF Post, Ready, SemInv, WaitInv, WaitTypeOK
<1>2. /\ value \in Nat /\ lost \in Nat /\ units \in Nat /\ Cardinality(OwedThreads) \in Nat
      /\ units = value + Cardinality(OwedThreads) + lost
  BY UnitsCounted, FS_CardinalityType DEF SemInv
<1>3. CASE /\ UNCHANGED <<blockVars, waitVars>> /\ value' = value + 1
           /\ value > 0 \/ queue[SemQueue] = <<>>
  <2>1. WaitInv' /\ \A u \in Threads : Owed(u)' <=> Owed(u)
    BY <1>3, SpinStep DEF SemInv, WaitInv, WaitTypeOK, waitVars
  <2>2. OwedThreads' = OwedThreads
    BY <2>1, SameOwed
  <2>3. /\ value' \in Nat /\ units' \in Nat /\ lost' \in Nat
        /\ units' = value' + Cardinality(OwedThreads') + lost'
    BY <1>1, <1>2, <1>3, <2>2
  <2>4. queue[SemQueue] = <<>> => \A u \in Threads : ~Linked(u)
    BY <1>1, EmptyQueue DEF Linked, OnSemQueue
  <2>5. \A u \in Threads : ~Linked(u)
    BY <1>3, <2>4 DEF SemInv, NobodyWaitsInVain
  <2>6. \A u \in Threads : ~Linked(u)'
    BY <1>3, <2>5, SameWaiters DEF blockVars
  <2> QED
    BY <2>1, <2>2, <2>3, <2>6, UnitsCountedNext DEF SemInv, NobodyWaitsInVain
<1>4. CASE value = 0 /\ queue[SemQueue] # <<>> /\ value' = 0 /\ WakeOne(t, Head(queue[SemQueue]))
  <2>1. PICK w \in Threads : w = Head(queue[SemQueue])
    BY <1>1, <1>4, HeadWaits
  <2>2. Linked(w) /\ WakeOne(t, w)
    BY <1>1, <1>4, <2>1, HeadWaits DEF Linked
  <2>3. /\ WaitInv' /\ ~Owed(w) /\ Owed(w)'
        /\ \A u \in Threads \ {w} : Owed(u)' <=> Owed(u)
    BY <1>1, <2>2, WakeOneStep DEF SemInv
  <2>4. IsFiniteSet(OwedThreads') /\ Cardinality(OwedThreads') = Cardinality(OwedThreads) + 1
    BY <2>3, OneMoreOwed DEF SemInv
  <2>5. /\ value' \in Nat /\ units' \in Nat /\ lost' \in Nat
        /\ units' = value' + Cardinality(OwedThreads') + lost'
    BY <1>1, <1>2, <1>4, <2>4
  <2> QED
    BY <1>4, <2>3, <2>4, <2>5, UnitsCountedNext DEF SemInv, NobodyWaitsInVain
<1> QED
  BY <1>2, <1>3, <1>4 DEF Post

\* A call on a semaphore without units waits, unless ABSTIME is bad.
LEMMA WaitCallStep ==
  ASSUME SemInv, NEW t \in Threads, NEW abstime, Ready(t), value = 0,
         BadAbstime(t, abstime) \/ StartWait(t, SemQueue, abstime), UNCHANGED semVars
  PROVE  SemInv'
<1>1. value' = 0 /\ NobodyWaitsInVain'
  BY DEF semVars, NobodyWaitsInVain
<1>2. CASE BadAbstime(t, abstime)
  <2>1. WaitInv' /\ \A u \in Threads : Owed(u)' <=> Owed(u)
    BY <1>2, SpinStep DEF SemInv, BadAbstime
  <2> QED
    BY <1>1, <2>1, KeepsUnits
<1>3. CASE StartWait(t, SemQueue, abstime)
  <2>1. WaitInv' /\ \A u \in Threads : Owed(u)' <=> Owed(u)
    BY <1>3, SemAssumption, StartWaitStep DEF SemInv, Ready
  <2> QED
    BY <1>1, <2>1, KeepsUnits
<1> QED
  BY <1>2, <1>3

\* The steps of a call under way that move no unit.
LEMMA MovesNoUnit ==
  ASSUME SemInv, NEW t \in Threads, SemWaits(t) \/ TimesOut(t) \/ PostWakes(t)
  PROVE  SemInv'
<1>0. WaitInv /\ UNCHANGED semVars
  BY DEF SemInv, SemWaits, TimesOut, PostWakes
<1>1. CASE Receive(t) \/ TimeOut(t) \/ MustDrain(t) \/ SendWakeup(t)
  <2>1. queue' = queue
    BY <1>1 DEF Receive, TimeOut, MustDrain, SendWakeup, blockVars
  <2>2. WaitInv' /\ \A u \in Threads : Owed(u)' <=> Owed(u)
    BY <1>0, <1>1, ReceiveStep, TimeOutStep, MustDrainStep, SendWakeupStep
  <2>3. NobodyWaitsInVain'
    BY <1>0, <2>1, SameWaiters, NobodyMore DEF semVars
  <2> QED
    BY <1>0, <2>2, <2>3, KeepsUnits
<1>2. CASE GiveUp(t)
  <2>1. WaitInv' /\ \A u \in Threads : Owed(u)' <=> Owed(u)
    BY <1>0, <1>2, GiveUpStep
  <2>2. Linked(t)
    BY <1>2 DEF GiveUp
  <2>3. NobodyWaitsInVain'
    BY <1>0, <2>2 DEF SemInv, NobodyWaitsInVain, semVars
  <2> QED
    BY <1>0, <2>1, <2>3, KeepsUnits
<1> QED
  BY <1>1, <1>2 DEF SemWaits, TimesOut, PostWakes

\* The semaphore is initialised again when no call is under way: nobody is
\* owed anything then.
LEMMA SemInitStep ==
  ASSUME SemInv, NEW v \in SemValues, sem_init(v)
  PROVE  SemInv'
<1>1. /\ \A t \in Threads : pc[t] = "idle"
      /\ UNCHANGED <<blockVars, pc, target>> /\ queue' = queue /\ spin' = FALSE
      /\ value' = v /\ units' = v /\ lost' = 0 /\ v \in Nat
  BY SemAssumption DEF sem_init, blockVars
<1>2. WaitInv' /\ \A u \in Threads : Owed(u)' <=> Owed(u)
  BY <1>1, SpinStep DEF SemInv
<1>3. \A u \in Threads : ~Owed(u) /\ ~Linked(u)
  BY <1>1 DEF Owed, Dequeued, SemInv, WaitInv, WaitQueueInv
<1>4. OwedThreads' = {} /\ \A u \in Threads : ~Linked(u)'
  BY <1>1, <1>2, <1>3, SameWaiters, SameOwed DEF OwedThreads
<1>5. UnitsConserved'
  BY <1>1, <1>4, FS_EmptySet, UnitsCountedNext
<1> QED
  BY <1>1, <1>2, <1>4, <1>5, FS_EmptySet DEF SemInv, NobodyWaitsInVain

\* A step that changes nothing.
LEMMA SemStutter ==
  ASSUME SemInv, UNCHANGED semaphoreVars
  PROVE  SemInv'
<1>1. WaitInv' /\ \A u \in Threads : Owed(u)' <=> Owed(u)
  BY SpinStep DEF SemInv, WaitInv, WaitTypeOK, semaphoreVars, waitVars
<1>2. NobodyWaitsInVain'
  BY SameWaiters, NobodyMore DEF semaphoreVars, blockVars, semVars
<1> QED
  BY <1>1, <1>2, KeepsUnits DEF semaphoreVars

\* ... and every step keeps it.
LEMMA SemInvNext == SemInv /\ OnSemQueue /\ [SemNext]_semaphoreVars => SemInv'
<1> SUFFICES ASSUME SemInv, OnSemQueue, [SemNext]_semaphoreVars PROVE SemInv'
  OBVIOUS
<1>1. ASSUME NEW t \in Threads, SemContinue(t) PROVE SemInv'
  BY <1>1, MovesNoUnit, ReturnsStep, DrainedStep DEF SemContinue
<1>2. ASSUME NEW t \in Threads, NEW abstime, TimedWaitCall(t, abstime) PROVE SemInv'
  BY <1>2, DownStep, WaitCallStep DEF TimedWaitCall
<1>3. ASSUME NEW t \in Threads, TryWait(t) \/ GetValue(t) PROVE SemInv'
  BY <1>3, DownStep, SemStutter DEF TryWait, GetValue
<1>4. ASSUME NEW t \in Threads, Post(t) PROVE SemInv'
  BY <1>4, PostStep
<1>5. ASSUME NEW v \in SemValues, sem_init(v) PROVE SemInv'
  BY <1>5, SemInitStep
<1>6. CASE SemNext
  <2>1. CASE \E v \in SemValues : sem_init(v)
    BY <1>5, <2>1
  <2>2. ASSUME NEW t \in Threads,
               \/ SemContinue(t)
               \/ \E abstime \in Abstimes \ {"null"} : TimedWaitCall(t, abstime)
               \/ sem_wait(t)
               \/ TryWait(t)
               \/ Post(t)
               \/ GetValue(t)
        PROVE  SemInv'
    BY <1>1, <1>2, <1>3, <1>4, <2>2 DEF sem_wait
  <2> QED
    BY <1>6, <2>1, <2>2 DEF SemNext
<1> QED
  BY <1>6, SemStutter

\* Every step leaves the queues of the other objects alone.
LEMMA SemQueueOnly ==
  ASSUME SemInv, OnSemQueue, [SemNext]_semaphoreVars
  PROVE  OnSemQueue'
<1>0. BlockTypeOK /\ SemQueue \in Queues /\ \A q \in Queues : NoDuplicates(queue[q])
  BY SemAssumption DEF SemInv, WaitInv, WaitTypeOK, WaitQueueInv
<1>1. CASE queue' = queue
  BY <1>1, SameWaiters DEF OnSemQueue
<1>2. ASSUME NEW w, Dequeue(w) PROVE OnSemQueue'
  BY <1>0, <1>2, DequeueStep DEF OnSemQueue
<1>3. ASSUME NEW t \in Threads, Ready(t), Enqueue(SemQueue, t) PROVE OnSemQueue'
  <2>1. ~Linked(t)
    BY <1>3, IdleOwedNothing DEF Ready, SemInv
  <2> QED
    BY <1>0, <1>3, <2>1, EnqueueStep DEF OnSemQueue
<1>4. ASSUME NEW t \in Threads, NEW abstime, TimedWaitCall(t, abstime) PROVE OnSemQueue'
  BY <1>1, <1>3, <1>4 DEF TimedWaitCall, Down, BadAbstime, StartWait, blockVars
<1>5. ASSUME NEW t \in Threads, Post(t) PROVE OnSemQueue'
  BY <1>1, <1>2, <1>5 DEF Post, WakeOne, blockVars
<1>6. ASSUME NEW t \in Threads, SemContinue(t) PROVE OnSemQueue'
  <2>1. queue' = queue \/ \E w : Dequeue(w)
    BY <1>6 DEF SemContinue, SemWaits, Returns, TimesOut, Drained, PostWakes,
       Receive, TimeOut, MustDrain, Succeed, GiveUp, Drain, SendWakeup, blockVars
  <2> QED
    BY <1>1, <1>2, <2>1
<1>7. ASSUME NEW t \in Threads, TryWait(t) \/ GetValue(t) PROVE OnSemQueue'
  BY <1>1, <1>7 DEF TryWait, GetValue, Down, semaphoreVars, blockVars
<1>8. CASE UNCHANGED semaphoreVars \/ \E v \in SemValues : sem_init(v)
  BY <1>1, <1>8 DEF semaphoreVars, sem_init, blockVars
<1> QED
  BY <1>4, <1>5, <1>6, <1>7, <1>8 DEF SemNext, sem_wait

\* The inductive invariant holds in every reachable state.
THEOREM SemaphoreInvariant == SemSpec => [](SemInv /\ OnSemQueue)
<1>1. SemInit => OnSemQueue
  BY DEF SemInit, WaitInit, BlockInit, OnSemQueue, Waiters, ToSet
<1> QED
  BY <1>1, SemInvInit, SemInvNext, SemQueueOnly, PTL DEF SemSpec

\* The types are right.
THEOREM SemaphoreTypes == SemSpec => []SemTypeOK
<1>1. SemInv => SemTypeOK
  BY DEF SemInv, WaitInv, SemTypeOK
<1> QED
  BY <1>1, SemaphoreInvariant, PTL

\* sem-post.c and sem-timedwait.c lose no wakeup and leave none behind.
THEOREM SemaphoreMessages == SemSpec => []OneMessageOwed
<1>1. SemInv => OneMessageOwed
  BY WaitInvMessages DEF SemInv
<1> QED
  BY <1>1, SemaphoreInvariant, PTL

\* No unit is made or taken twice; a unit is lost only to a late timeout.
THEOREM SemaphoreUnits == SemSpec => []UnitsConserved
<1>1. SemInv => UnitsConserved
  BY DEF SemInv
<1> QED
  BY <1>1, SemaphoreInvariant, PTL

\* A thread waits only while there is no unit to take.
THEOREM SemaphoreWaits == SemSpec => []NobodyWaitsInVain
<1>1. SemInv => NobodyWaitsInVain
  BY DEF SemInv
<1> QED
  BY <1>1, SemaphoreInvariant, PTL

-----------------------------------------------------------------------------
(* The read-write lock of module RWLock.                                   *)

\* The readers that an unlock counted and whose call has not returned.
OwedReaders == {t \in Threads : mode[t] = "rd" /\ Owed(t)}

\* t has the write lock, or was handed it, also if it timed out meanwhile.
OwnsWrite(t) == writes[t] \/ (mode[t] = "wr" /\ Owed(t))

\* Readers wait on one queue and writers on the other, and nobody on a queue of
\* another object.
ModeInv == /\ \A t \in Waiters(ReaderQueue) : mode[t] = "rd"
           /\ \A t \in Waiters(WriterQueue) : mode[t] = "wr"
           /\ \A q \in Queues \ {ReaderQueue, WriterQueue} : Waiters(q) = {}

\* The read locks can be counted, and are.
CountInv == /\ IsFiniteSet(ReadLocks) /\ IsFiniteSet(OwedReaders)
            /\ readers = Cardinality(ReadLocks) + Cardinality(OwedReaders) + lostReads

\* A write lock, lost or not, excludes all the others.
WriteInv == /\ lostWrite \/ (\E t \in Threads : OwnsWrite(t)) => readers = 0
            /\ lostWrite => \A t \in Threads : ~OwnsWrite(t)
            /\ \A t, u \in Threads : OwnsWrite(t) /\ OwnsWrite(u) => t = u
            /\ \A t \in Threads : ~(writes[t] /\ mode[t] = "wr" /\ Owed(t))

HeldInv == held <=> readers > 0 \/ lostWrite \/ \E t \in Threads : OwnsWrite(t)

\* Who waits does not wait in vain.
BusyInv == /\ (\E t \in Threads : Linked(t)) => held
           /\ readers > 0 => Waiters(ReaderQueue) = {}

RWInv == /\ RWTypeOK /\ WaitInv
         /\ ModeInv /\ CountInv /\ WriteInv /\ HeldInv /\ BusyInv

-----------------------------------------------------------------------------
(* Counting.                                                               *)

\* What the set of read locks holds.
LEMMA ReadLocksMember ==
  /\ \A x : x \in ReadLocks <=> \E t \in Threads : \E i \in 1..reads[t] : x = <<t, i>>
  /\ \A t \in Threads : \A i : <<t, i>> \in ReadLocks <=> i \in 1..reads[t]
  BY DEF ReadLocks

\* There are no read locks exactly when no thread has one.
LEMMA NoReadLocks ==
  ASSUME reads \in [Threads -> Nat]
  PROVE  ReadLocks = {} <=> \A t \in Threads : reads[t] = 0
<1>1. ASSUME NEW t \in Threads, reads[t] # 0 PROVE ReadLocks # {}
  <2>1. 1 \in 1..reads[t]
    BY <1>1
  <2> QED
    BY <2>1, ReadLocksMember
<1>2. ASSUME \A t \in Threads : reads[t] = 0 PROVE ReadLocks = {}
  BY <1>2, ReadLocksMember
<1> QED
  BY <1>1, <1>2

\* A read lock that is granted is one more.
LEMMA GrantReadStep ==
  ASSUME reads \in [Threads -> Nat], IsFiniteSet(ReadLocks), NEW t \in Threads, GrantRead(t)
  PROVE  /\ reads' \in [Threads -> Nat]
         /\ IsFiniteSet(ReadLocks')
         /\ Cardinality(ReadLocks') = Cardinality(ReadLocks) + 1
<1>1. /\ reads' \in [Threads -> Nat] /\ reads'[t] = reads[t] + 1
      /\ \A u \in Threads : u # t => reads'[u] = reads[u]
  BY DEF GrantRead
<1>2. /\ \A x : x \in ReadLocks' <=> \E u \in Threads : \E i \in 1..reads'[u] : x = <<u, i>>
  BY DEF ReadLocks
<1>3. \A i : i \in 1..reads'[t] <=> i \in 1..reads[t] \/ i = reads[t] + 1
  BY <1>1
<1>4. ReadLocks' = ReadLocks \cup {<<t, reads[t] + 1>>}
  <2>1. ASSUME NEW x \in ReadLocks' PROVE x \in ReadLocks \cup {<<t, reads[t] + 1>>}
    <3>0. PICK u \in Threads : \E i \in 1..reads'[u] : x = <<u, i>>
      BY <1>2, <2>1
    <3>1. PICK i \in 1..reads'[u] : x = <<u, i>>
      BY <3>0
    <3> QED
      BY <1>1, <1>3, <3>1, ReadLocksMember
  <2>2. ASSUME NEW x \in ReadLocks PROVE x \in ReadLocks'
    <3>0. PICK u \in Threads : \E i \in 1..reads[u] : x = <<u, i>>
      BY <2>2, ReadLocksMember
    <3>1. PICK i \in 1..reads[u] : x = <<u, i>>
      BY <3>0
    <3>2. i \in 1..reads'[u]
      BY <1>1, <1>3
    <3> QED
      BY <1>2, <3>1, <3>2
  <2>3. <<t, reads[t] + 1>> \in ReadLocks'
    BY <1>2, <1>3
  <2> QED
    BY <2>1, <2>2, <2>3
<1>5. <<t, reads[t] + 1>> \notin ReadLocks
  <2>1. reads[t] + 1 \notin 1..reads[t]
    BY <1>1
  <2> QED
    BY <2>1, ReadLocksMember
<1> QED
  BY <1>1, <1>4, <1>5, FS_AddElement

\* A read lock that is undone is one less.
LEMMA UndoStep ==
  ASSUME reads \in [Threads -> Nat], IsFiniteSet(ReadLocks), NEW t \in Threads,
         reads[t] > 0, reads' = [reads EXCEPT ![t] = IF @ > 0 THEN @ - 1 ELSE 0]
  PROVE  /\ reads' \in [Threads -> Nat]
         /\ IsFiniteSet(ReadLocks')
         /\ Cardinality(ReadLocks) \in Nat \ {0}
         /\ Cardinality(ReadLocks') = Cardinality(ReadLocks) - 1
<1>1. /\ reads' \in [Threads -> Nat] /\ reads'[t] = reads[t] - 1
      /\ \A u \in Threads : u # t => reads'[u] = reads[u]
  BY DEF GrantRead
<1>2. /\ \A x : x \in ReadLocks' <=> \E u \in Threads : \E i \in 1..reads'[u] : x = <<u, i>>
  BY DEF ReadLocks
<1>3. \A i : i \in 1..reads'[t] <=> i \in 1..reads[t] /\ i # reads[t]
  BY <1>1
<1>4. ReadLocks' = ReadLocks \ {<<t, reads[t]>>}
  <2>1. ASSUME NEW x \in ReadLocks' PROVE x \in ReadLocks \ {<<t, reads[t]>>}
    <3>0. PICK u \in Threads : \E i \in 1..reads'[u] : x = <<u, i>>
      BY <1>2, <2>1
    <3>1. PICK i \in 1..reads'[u] : x = <<u, i>>
      BY <3>0
    <3> QED
      BY <1>1, <1>3, <3>1, ReadLocksMember
  <2>2. ASSUME NEW x \in ReadLocks, x # <<t, reads[t]>> PROVE x \in ReadLocks'
    <3>0. PICK u \in Threads : \E i \in 1..reads[u] : x = <<u, i>>
      BY <2>2, ReadLocksMember
    <3>1. PICK i \in 1..reads[u] : x = <<u, i>>
      BY <3>0
    <3>2. i \in 1..reads'[u]
      BY <1>1, <1>3, <2>2, <3>1
    <3> QED
      BY <1>2, <3>1, <3>2
  <2> QED
    BY <2>1, <2>2
<1>5. <<t, reads[t]>> \in ReadLocks
  <2>1. reads[t] \in 1..reads[t]
    BY <1>1
  <2> QED
    BY <2>1, ReadLocksMember
<1>6. Cardinality(ReadLocks) \in Nat \ {0}
  BY <1>5, FS_EmptySet, FS_CardinalityType
<1> QED
  BY <1>1, <1>4, <1>5, <1>6, FS_RemoveElement

\* A queue has as many members as it is long.
LEMMA QueueLength ==
  ASSUME NEW s \in Seq(Threads), NoDuplicates(s)
  PROVE  /\ IsFiniteSet(ToSet(s))
         /\ Cardinality(ToSet(s)) = Len(s)
<1>1. s \in [1..Len(s) -> ToSet(s)] /\ Len(s) \in Nat /\ DOMAIN s = 1..Len(s)
  BY DEF ToSet
<1>2. s \in Injection(1..Len(s), ToSet(s))
  BY <1>1 DEF Injection, IsInjective, NoDuplicates
<1>3. s \in Surjection(1..Len(s), ToSet(s))
  BY <1>1 DEF Surjection, ToSet
<1>4. ExistsBijection(1..Len(s), ToSet(s))
  BY <1>2, <1>3 DEF ExistsBijection, Bijection
<1> QED
  BY <1>1, <1>4, FS_CountingElements, FS_NatBijection

-----------------------------------------------------------------------------
(* The inductive invariant: frames.                                        *)

\* The types of the lock's own variables.
LockTypeOK == /\ held \in BOOLEAN /\ readers \in Nat
              /\ mode \in [Threads -> {"rd", "wr"}]
              /\ reads \in [Threads -> Nat] /\ writes \in [Threads -> BOOLEAN]
              /\ lostReads \in Nat /\ lostWrite \in BOOLEAN

\* The type invariant is that of the waits and that of the lock's own variables.
LEMMA RWTypes == RWTypeOK <=> WaitTypeOK /\ LockTypeOK
  BY DEF RWTypeOK, LockTypeOK

\* What the invariant says, as the steps below use it.
LEMMA RWFacts ==
  ASSUME RWInv
  PROVE  /\ WaitInv /\ WaitTypeOK /\ BlockTypeOK /\ LockTypeOK
         /\ \A q \in Queues : NoDuplicates(queue[q])
         /\ Cardinality(ReadLocks) \in Nat /\ Cardinality(OwedReaders) \in Nat
         /\ ReaderQueue \in Queues /\ WriterQueue \in Queues /\ ReaderQueue # WriterQueue
         /\ \A q \in Queues \ {ReaderQueue, WriterQueue} : Waiters(q) = {}
  BY RWLockAssumption, FS_CardinalityType
     DEF RWInv, RWTypeOK, LockTypeOK, WaitTypeOK, WaitInv, WaitQueueInv, CountInv,
         ModeInv

\* Leaving a queue adds no waiters.
LEMMA WaitersShrink ==
  ASSUME RWInv, queue' = queue \/ \E w : Dequeue(w)
  PROVE  /\ \A q \in Queues : Waiters(q)' \subseteq Waiters(q)
         /\ \A u \in Threads : Linked(u)' => Linked(u)
<1>1. CASE queue' = queue
  BY <1>1, SameWaiters
<1>2. CASE \E w : Dequeue(w)
  BY <1>2, DequeueStep, RWFacts
<1> QED
  BY <1>1, <1>2

\* With the queues as they are or shorter, and the modes as they are.
LEMMA ModeKept ==
  ASSUME RWInv, mode' = mode, \A q \in Queues : Waiters(q)' \subseteq Waiters(q)
  PROVE  ModeInv'
  BY RWFacts DEF RWInv, ModeInv

\* With the lock no freer than it was, and the queues as they are or shorter, whoever
\* waits still waits for a lock that is busy.
LEMMA BusyKept ==
  ASSUME RWInv, held => held', readers' > 0 => readers > 0,
         \A q \in Queues : Waiters(q)' \subseteq Waiters(q),
         \A u \in Threads : Linked(u)' => Linked(u)
  PROVE  BusyInv'
<1>1. Waiters(ReaderQueue)' \subseteq Waiters(ReaderQueue)
  BY RWFacts
<1> QED
  BY <1>1 DEF RWInv, BusyInv

\* A step that grants nothing, hands over nothing and takes nothing back.
LEMMA LocksKept ==
  ASSUME RWInv, UNCHANGED <<held, readers, reads, writes, lostReads, lostWrite>>,
         mode' \in [Threads -> {"rd", "wr"}],
         \A u \in Threads : Owed(u)' <=> Owed(u),
         \A u \in Threads : mode'[u] = mode[u] \/ ~Owed(u)
  PROVE  LockTypeOK' /\ CountInv' /\ WriteInv' /\ HeldInv'
<1>1. ReadLocks' = ReadLocks
  BY DEF ReadLocks
<1>2. OwedReaders' = OwedReaders
  BY DEF OwedReaders
<1>3. \A u \in Threads : OwnsWrite(u)' <=> OwnsWrite(u)
  BY DEF OwnsWrite
<1>4. LockTypeOK'
  BY RWFacts DEF LockTypeOK
<1>5. CountInv'
  BY <1>1, <1>2 DEF RWInv, CountInv
<1>6. WriteInv' /\ HeldInv'
  BY <1>3 DEF RWInv, WriteInv, HeldInv
<1> QED
  BY <1>4, <1>5, <1>6

\* The parts together.
LEMMA RWInvParts ==
  ASSUME WaitInv', LockTypeOK', ModeInv', CountInv', WriteInv', HeldInv', BusyInv'
  PROVE  RWInv'
  BY DEF RWInv, WaitInv, RWTypeOK, LockTypeOK

-----------------------------------------------------------------------------
(* The inductive invariant: steps.                                         *)

\* The invariant holds initially.
LEMMA RWInvInit == RWInit => RWInv
<1> SUFFICES ASSUME RWInit PROVE RWInv
  OBVIOUS
<1>1. WaitInv /\ WaitTypeOK /\ \A t \in Threads : ~Owed(t) /\ ~Linked(t)
  BY WaitInvInit DEF RWInit, WaitInv
<1>2. LockTypeOK
  BY DEF RWInit, LockTypeOK
<1>3. ReadLocks = {} /\ OwedReaders = {}
  BY <1>1, <1>2, NoReadLocks DEF RWInit, LockTypeOK, OwedReaders
<1>4. CountInv
  BY <1>3, FS_EmptySet DEF CountInv, RWInit
<1>5. \A t \in Threads : ~OwnsWrite(t)
  BY <1>1 DEF OwnsWrite, RWInit
<1>6. WriteInv /\ HeldInv
  BY <1>1, <1>5 DEF WriteInv, HeldInv, RWInit
<1>7. \A q \in Queues : Waiters(q) = {}
  BY DEF RWInit, WaitInit, BlockInit, Waiters, ToSet
<1>8. ModeInv /\ BusyInv
  BY <1>1, <1>7, RWLockAssumption DEF ModeInv, BusyInv
<1> QED
  BY <1>1, <1>2, <1>4, <1>6, <1>8, RWTypes DEF RWInv

\* The steps of a call under way that move no lock.
LEMMA MovesNoLock ==
  ASSUME RWInv, NEW t \in Threads, RWWaits(t) \/ UnlockWakes(t)
  PROVE  RWInv'
<1>1. WaitInv /\ UNCHANGED <<held, readers, mode, reads, writes, lostReads, lostWrite>>
  BY RWFacts DEF RWWaits, UnlockWakes, rwVars
<1>2. queue' = queue \/ \E w : Dequeue(w)
  BY DEF RWWaits, UnlockWakes, Receive, TimeOut, GiveUp, MustDrain, SendWakeup, blockVars
<1>3. WaitInv' /\ \A u \in Threads : Owed(u)' <=> Owed(u)
  BY <1>1, ReceiveStep, TimeOutStep, GiveUpStep, MustDrainStep, SendWakeupStep
     DEF RWWaits, UnlockWakes
<1>4. LockTypeOK' /\ CountInv' /\ WriteInv' /\ HeldInv'
  BY <1>1, <1>3, RWFacts, LocksKept DEF LockTypeOK
<1>5. ModeInv' /\ BusyInv'
  BY <1>1, <1>2, WaitersShrink, ModeKept, BusyKept
<1> QED
  BY <1>3, <1>4, <1>5, RWInvParts

\* A step that changes at most __lock.
LEMMA RWStutter ==
  ASSUME RWInv, UNCHANGED <<blockVars, pc, target, rwVars>>, spin' \in BOOLEAN
  PROVE  RWInv'
<1>1. /\ UNCHANGED <<held, readers, mode, reads, writes, lostReads, lostWrite>>
      /\ queue' = queue /\ UNCHANGED <<blockVars, pc, target>>
  BY DEF rwVars, blockVars
<1>2. WaitInv' /\ \A u \in Threads : Owed(u)' <=> Owed(u)
  BY <1>1, RWFacts, SpinStep
<1>3. LockTypeOK' /\ CountInv' /\ WriteInv' /\ HeldInv'
  BY <1>1, <1>2, RWFacts, LocksKept DEF LockTypeOK
<1>4. ModeInv' /\ BusyInv'
  BY <1>1, WaitersShrink, ModeKept, BusyKept
<1> QED
  BY <1>2, <1>3, <1>4, RWInvParts

\* A reader or writer joins its queue: the lock is busy, and not with readers
\* when it is a reader that waits.
LEMMA RWStartWait ==
  ASSUME RWInv, NEW t \in Threads, NEW abstime, NEW q \in {ReaderQueue, WriterQueue}, NEW m \in {"rd", "wr"},
         Ready(t), held, StartWait(t, q, abstime),
         mode' = [mode EXCEPT ![t] = m],
         UNCHANGED <<held, readers, reads, writes, lostReads, lostWrite>>,
         q = ReaderQueue => m = "rd" /\ readers = 0,
         q = WriterQueue => m = "wr"
  PROVE  RWInv'
<1>1. pc[t] = "idle" /\ ~Owed(t) /\ ~Linked(t)
  BY RWFacts, IdleOwedNothing DEF Ready
<1>2. WaitInv' /\ \A u \in Threads : Owed(u)' <=> Owed(u)
  BY <1>1, RWFacts, StartWaitStep
<1>3. /\ mode' \in [Threads -> {"rd", "wr"}] /\ mode'[t] = m
      /\ \A u \in Threads : u # t => mode'[u] = mode[u]
  BY RWFacts DEF LockTypeOK
<1>4. LockTypeOK' /\ CountInv' /\ WriteInv' /\ HeldInv'
  BY <1>1, <1>2, <1>3, LocksKept
<1>5. Enqueue(q, t)
  BY DEF StartWait
<1>6. \A p \in Queues : Waiters(p)' = IF p = q THEN Waiters(p) \cup {t} ELSE Waiters(p)
  BY <1>1, <1>5, RWFacts, EnqueueStep
<1>7. Waiters(ReaderQueue) \subseteq Threads /\ Waiters(WriterQueue) \subseteq Threads
      /\ t \notin Waiters(ReaderQueue) /\ t \notin Waiters(WriterQueue)
  BY <1>1, RWFacts, WaitersAreThreads DEF Linked
<1>8. ModeInv'
  BY <1>3, <1>6, <1>7, RWFacts DEF RWInv, ModeInv
<1>9. BusyInv'
  BY <1>6, RWFacts DEF RWInv, BusyInv
<1> QED
  BY <1>2, <1>4, <1>8, <1>9, RWInvParts

\* The lock is free: there is no lock of any kind.
LEMMA FreeLock ==
  ASSUME RWInv, ~held
  PROVE  /\ readers = 0 /\ ~lostWrite /\ \A u \in Threads : ~OwnsWrite(u)
         /\ \A u \in Threads : ~Linked(u)
         /\ \A q \in Queues : Waiters(q) = {}
<1>1. /\ readers = 0 /\ ~lostWrite /\ \A u \in Threads : ~OwnsWrite(u)
      /\ \A u \in Threads : ~Linked(u)
  BY RWFacts DEF RWInv, HeldInv, BusyInv, LockTypeOK
<1>2. \A q \in Queues : Waiters(q) = {}
  BY <1>1, RWFacts, WaitersAreThreads DEF Linked
<1> QED
  BY <1>1, <1>2

\* A read lock is granted, of a lock that is free or that readers have.
LEMMA ReadStep ==
  ASSUME RWInv, NEW t \in Threads, ReadFree(t) \/ ReadShared(t)
  PROVE  RWInv'
<1>1. /\ UNCHANGED <<blockVars, waitVars, mode, writes, lostReads, lostWrite>>
      /\ queue' = queue /\ GrantRead(t) /\ held' = TRUE
      /\ readers' = readers + 1
      /\ ~held \/ readers > 0
  <2>1. CASE ReadFree(t)
    <3>1. readers = 0
      BY <2>1, FreeLock DEF ReadFree
    <3> QED
      BY <2>1, <3>1 DEF ReadFree, blockVars
  <2>2. CASE ReadShared(t)
    <3>1. held = TRUE
      BY <2>2, RWFacts DEF ReadShared, LockTypeOK
    <3> QED
      BY <2>2, <3>1 DEF ReadShared, blockVars
  <2> QED
    BY <2>1, <2>2
<1>2. WaitInv' /\ \A u \in Threads : Owed(u)' <=> Owed(u)
  BY <1>1, RWFacts, SpinStep DEF WaitTypeOK, waitVars
<1>3. OwedReaders' = OwedReaders /\ \A u \in Threads : OwnsWrite(u)' <=> OwnsWrite(u)
  BY <1>1, <1>2 DEF OwedReaders, OwnsWrite
<1>4. /\ reads' \in [Threads -> Nat] /\ IsFiniteSet(ReadLocks')
      /\ Cardinality(ReadLocks') = Cardinality(ReadLocks) + 1
  BY <1>1, RWFacts, GrantReadStep DEF RWInv, CountInv, LockTypeOK
<1>5. LockTypeOK' /\ readers' > 0
  BY <1>1, <1>4, RWFacts DEF LockTypeOK
<1>6. CountInv'
  BY <1>1, <1>3, <1>4, RWFacts DEF RWInv, CountInv, LockTypeOK
<1>7. ~lostWrite /\ \A u \in Threads : ~OwnsWrite(u)
  BY <1>1, FreeLock DEF RWInv, WriteInv
<1>8. WriteInv' /\ HeldInv'
  BY <1>1, <1>2, <1>3, <1>5, <1>7 DEF WriteInv, HeldInv, RWInv
<1>9. Waiters(ReaderQueue) = {}
  BY <1>1, FreeLock, RWFacts DEF RWInv, BusyInv
<1>10. ModeInv' /\ BusyInv'
  BY <1>1, <1>9, WaitersShrink, ModeKept, RWFacts DEF BusyInv
<1> QED
  BY <1>2, <1>5, <1>6, <1>8, <1>10, RWInvParts

\* The write lock is granted, of a lock that is free.
LEMMA WriteFreeStep ==
  ASSUME RWInv, NEW t \in Threads, WriteFree(t)
  PROVE  RWInv'
<1>1. /\ UNCHANGED <<blockVars, waitVars, readers, mode, reads, lostReads, lostWrite>>
      /\ queue' = queue /\ ~held /\ held' /\ held' \in BOOLEAN /\ pc[t] = "idle"
      /\ writes' = [writes EXCEPT ![t] = TRUE]
  BY DEF WriteFree, blockVars, GrantWrite, Ready
<1>2. WaitInv' /\ \A u \in Threads : Owed(u)' <=> Owed(u)
  BY <1>1, RWFacts, SpinStep DEF WaitTypeOK, waitVars
<1>3. /\ writes' \in [Threads -> BOOLEAN] /\ writes'[t]
      /\ \A u \in Threads : u # t => writes'[u] = writes[u]
  BY <1>1, RWFacts DEF LockTypeOK
<1>4. LockTypeOK'
  BY <1>1, <1>3, RWFacts DEF LockTypeOK
<1>5. ReadLocks' = ReadLocks /\ OwedReaders' = OwedReaders
  BY <1>1, <1>2 DEF ReadLocks, OwedReaders
<1>6. CountInv'
  BY <1>1, <1>5 DEF RWInv, CountInv
<1>7. ~Owed(t) /\ readers = 0 /\ ~lostWrite /\ \A u \in Threads : ~OwnsWrite(u)
  BY <1>1, RWFacts, FreeLock, IdleOwedNothing
<1>8. \A u \in Threads : OwnsWrite(u)' <=> u = t
  BY <1>1, <1>2, <1>3, <1>7 DEF OwnsWrite
<1>9. WriteInv' /\ HeldInv'
  BY <1>1, <1>2, <1>3, <1>7, <1>8 DEF WriteInv, HeldInv, RWInv, OwnsWrite
<1>10. ModeInv' /\ BusyInv'
  BY <1>1, WaitersShrink, ModeKept, BusyKept
<1> QED
  BY <1>2, <1>4, <1>6, <1>9, <1>10, RWInvParts

\* A reader returns: the lock it was counted for is granted.
LEMMA ReadReturnsStep ==
  ASSUME RWInv, NEW t \in Threads, ReadReturns(t)
  PROVE  RWInv'
<1>1. /\ UNCHANGED <<held, readers, mode, writes, lostReads, lostWrite>>
      /\ mode[t] = "rd" /\ Succeed(t) /\ Dequeue(t) /\ GrantRead(t)
  BY DEF ReadReturns, Succeed
<1>2. /\ WaitInv' /\ Owed(t) /\ ~Owed(t)'
      /\ \A u \in Threads \ {t} : Owed(u)' <=> Owed(u)
  BY <1>1, RWFacts, SucceedStep
<1>3. /\ reads' \in [Threads -> Nat] /\ IsFiniteSet(ReadLocks')
      /\ Cardinality(ReadLocks') = Cardinality(ReadLocks) + 1
  BY <1>1, RWFacts, GrantReadStep DEF RWInv, CountInv, LockTypeOK
<1>4. OwedReaders' = OwedReaders \ {t} /\ t \in OwedReaders
  BY <1>1, <1>2 DEF OwedReaders
<1>5. IsFiniteSet(OwedReaders') /\ Cardinality(OwedReaders') = Cardinality(OwedReaders) - 1
  BY <1>4, FS_RemoveElement DEF RWInv, CountInv
<1>6. LockTypeOK'
  BY <1>1, <1>3, RWFacts DEF LockTypeOK
<1>7. CountInv'
  BY <1>1, <1>3, <1>5, RWFacts DEF RWInv, CountInv, LockTypeOK
<1>8. \A u \in Threads : OwnsWrite(u)' <=> OwnsWrite(u)
  BY <1>1, <1>2 DEF OwnsWrite
<1>9. WriteInv' /\ HeldInv'
  BY <1>1, <1>2, <1>8 DEF WriteInv, HeldInv, RWInv
<1>10. ModeInv' /\ BusyInv'
  BY <1>1, WaitersShrink, ModeKept, BusyKept
<1> QED
  BY <1>2, <1>6, <1>7, <1>9, <1>10, RWInvParts

\* A writer returns with the lock it was handed.
LEMMA WriteReturnsStep ==
  ASSUME RWInv, NEW t \in Threads, WriteReturns(t)
  PROVE  RWInv'
<1>1. /\ UNCHANGED <<held, readers, mode, reads, lostReads, lostWrite>>
      /\ mode[t] = "wr" /\ Succeed(t) /\ Dequeue(t)
      /\ writes' = [writes EXCEPT ![t] = TRUE]
  BY DEF WriteReturns, Succeed, GrantWrite
<1>2. /\ WaitInv' /\ Owed(t) /\ ~Owed(t)'
      /\ \A u \in Threads \ {t} : Owed(u)' <=> Owed(u)
  BY <1>1, RWFacts, SucceedStep
<1>3. /\ writes' \in [Threads -> BOOLEAN] /\ writes'[t]
      /\ \A u \in Threads : u # t => writes'[u] = writes[u]
  BY <1>1, RWFacts DEF LockTypeOK
<1>4. ReadLocks' = ReadLocks /\ OwedReaders' = OwedReaders
  BY <1>1, <1>2 DEF ReadLocks, OwedReaders
<1>5. LockTypeOK' /\ CountInv'
  BY <1>1, <1>3, <1>4, RWFacts DEF LockTypeOK, RWInv, CountInv
<1>6. \A u \in Threads : OwnsWrite(u)' <=> OwnsWrite(u)
  BY <1>1, <1>2, <1>3 DEF OwnsWrite
<1>7. WriteInv' /\ HeldInv'
  BY <1>1, <1>2, <1>3, <1>6 DEF WriteInv, HeldInv, RWInv
<1>8. ModeInv' /\ BusyInv'
  BY <1>1, WaitersShrink, ModeKept, BusyKept
<1> QED
  BY <1>2, <1>5, <1>7, <1>8, RWInvParts

\* A reader that timed out too late: what it was counted for is lost.
LEMMA ReadDrainedStep ==
  ASSUME RWInv, NEW t \in Threads, ReadDrained(t)
  PROVE  RWInv'
<1>1. /\ UNCHANGED <<held, readers, mode, reads, writes, lostWrite>>
      /\ mode[t] = "rd" /\ Drain(t) /\ queue' = queue /\ lostReads' = lostReads + 1
  BY DEF ReadDrained, Drain
<1>2. /\ WaitInv' /\ Owed(t) /\ ~Owed(t)'
      /\ \A u \in Threads \ {t} : Owed(u)' <=> Owed(u)
  BY <1>1, RWFacts, DrainStep
<1>3. ReadLocks' = ReadLocks /\ OwedReaders' = OwedReaders \ {t} /\ t \in OwedReaders
  BY <1>1, <1>2 DEF OwedReaders, ReadLocks
<1>4. IsFiniteSet(OwedReaders') /\ Cardinality(OwedReaders') = Cardinality(OwedReaders) - 1
  BY <1>3, FS_RemoveElement DEF RWInv, CountInv
<1>5. LockTypeOK'
  BY <1>1, RWFacts DEF LockTypeOK
<1>6. CountInv'
  BY <1>1, <1>3, <1>4, RWFacts DEF RWInv, CountInv, LockTypeOK
<1>7. \A u \in Threads : OwnsWrite(u)' <=> OwnsWrite(u)
  BY <1>1, <1>2 DEF OwnsWrite
<1>8. WriteInv' /\ HeldInv'
  BY <1>1, <1>2, <1>7 DEF WriteInv, HeldInv, RWInv
<1>9. ModeInv' /\ BusyInv'
  BY <1>1, WaitersShrink, ModeKept, BusyKept
<1> QED
  BY <1>2, <1>5, <1>6, <1>8, <1>9, RWInvParts

\* A writer that timed out too late: the lock it was handed is lost.
LEMMA WriteDrainedStep ==
  ASSUME RWInv, NEW t \in Threads, WriteDrained(t)
  PROVE  RWInv'
<1>1. /\ UNCHANGED <<held, readers, mode, reads, writes, lostReads>>
      /\ mode[t] = "wr" /\ Drain(t) /\ queue' = queue /\ lostWrite' = TRUE
  BY DEF WriteDrained, Drain
<1>2. /\ WaitInv' /\ Owed(t) /\ ~Owed(t)'
      /\ \A u \in Threads \ {t} : Owed(u)' <=> Owed(u)
  BY <1>1, RWFacts, DrainStep
<1>3. ReadLocks' = ReadLocks /\ OwedReaders' = OwedReaders
  BY <1>1, <1>2 DEF OwedReaders, ReadLocks
<1>4. LockTypeOK' /\ CountInv'
  BY <1>1, <1>3, RWFacts DEF LockTypeOK, RWInv, CountInv
<1>5. OwnsWrite(t) /\ ~writes[t]
  BY <1>1, <1>2 DEF OwnsWrite, RWInv, WriteInv
<1>6. \A u \in Threads : ~OwnsWrite(u)'
  BY <1>1, <1>2, <1>5 DEF OwnsWrite, RWInv, WriteInv
<1>7. WriteInv' /\ HeldInv'
  BY <1>1, <1>2, <1>5, <1>6 DEF WriteInv, HeldInv, RWInv
<1>8. ModeInv' /\ BusyInv'
  BY <1>1, WaitersShrink, ModeKept, BusyKept
<1> QED
  BY <1>2, <1>4, <1>7, <1>8, RWInvParts

\* One of several readers unlocks.
LEMMA UnlockSharedStep ==
  ASSUME RWInv, NEW t \in Threads, UnlockShared(t)
  PROVE  RWInv'
<1>1. /\ UNCHANGED <<blockVars, waitVars, held, mode, lostReads, lostWrite>>
      /\ queue' = queue /\ readers > 1 /\ readers' = readers - 1
      /\ reads' = [reads EXCEPT ![t] = IF @ > 0 THEN @ - 1 ELSE 0]
      /\ writes' = [writes EXCEPT ![t] = FALSE]
      /\ reads[t] > 0 \/ writes[t]
  BY DEF UnlockShared, UnlockBegins, Undo, blockVars
<1>2. ~lostWrite /\ \A u \in Threads : ~OwnsWrite(u)
  BY <1>1, RWFacts DEF RWInv, WriteInv, LockTypeOK
<1>3. reads[t] > 0 /\ \A u \in Threads : writes[u] = FALSE
  BY <1>1, <1>2, RWFacts DEF OwnsWrite, LockTypeOK
<1>4. writes' = writes
  BY <1>1, <1>3, RWFacts DEF LockTypeOK
<1>5. WaitInv' /\ \A u \in Threads : Owed(u)' <=> Owed(u)
  BY <1>1, RWFacts, SpinStep DEF WaitTypeOK, waitVars
<1>6. OwedReaders' = OwedReaders /\ \A u \in Threads : OwnsWrite(u)' <=> OwnsWrite(u)
  BY <1>1, <1>4, <1>5 DEF OwedReaders, OwnsWrite
<1>7. /\ reads' \in [Threads -> Nat] /\ IsFiniteSet(ReadLocks')
      /\ Cardinality(ReadLocks') = Cardinality(ReadLocks) - 1
  BY <1>1, <1>3, RWFacts, UndoStep DEF RWInv, CountInv, LockTypeOK
<1>8. LockTypeOK'
  BY <1>1, <1>4, <1>7, RWFacts DEF LockTypeOK
<1>9. CountInv'
  BY <1>1, <1>6, <1>7, RWFacts DEF RWInv, CountInv, LockTypeOK
<1>10. readers \in Nat
  BY RWFacts DEF LockTypeOK
<1>11. WriteInv' /\ HeldInv'
  BY <1>1, <1>2, <1>4, <1>5, <1>6, <1>10 DEF WriteInv, HeldInv, RWInv
<1>12. ModeInv' /\ BusyInv'
  BY <1>1, <1>10, WaitersShrink, ModeKept, BusyKept
<1> QED
  BY <1>5, <1>8, <1>9, <1>11, <1>12, RWInvParts

\* The last lock is undone: it was the only lock of any kind, and now there is
\* none.
LEMMA LastUnlock ==
  ASSUME RWInv, NEW t \in Threads, UnlockBegins(t), readers <= 1, Undo(t)
  PROVE  /\ reads' \in [Threads -> Nat] /\ \A u \in Threads : reads'[u] = 0
         /\ writes' \in [Threads -> BOOLEAN] /\ \A u \in Threads : ~writes'[u]
         /\ \A u \in Threads : u # t => ~writes[u]
         /\ ReadLocks' = {} /\ \A u \in Threads : ~Owed(u)
         /\ lostReads = 0 /\ lostWrite = FALSE /\ held = TRUE /\ pc[t] = "idle"
<1> DEFINE R == Cardinality(ReadLocks)
           O == Cardinality(OwedReaders)
<1>1. /\ pc[t] = "idle" /\ ~Owed(t)
      /\ reads' = [reads EXCEPT ![t] = IF @ > 0 THEN @ - 1 ELSE 0]
      /\ writes' = [writes EXCEPT ![t] = FALSE]
      /\ reads[t] > 0 \/ writes[t]
  BY RWFacts, IdleOwedNothing DEF UnlockBegins, Undo, Ready
<1>2. /\ R \in Nat /\ O \in Nat /\ lostReads \in Nat /\ readers \in Nat
      /\ readers = R + O + lostReads
      /\ IsFiniteSet(ReadLocks) /\ IsFiniteSet(OwedReaders)
      /\ reads \in [Threads -> Nat] /\ writes \in [Threads -> BOOLEAN]
      /\ lostWrite \in BOOLEAN /\ held \in BOOLEAN
  BY RWFacts DEF RWInv, CountInv, LockTypeOK
<1>3. CASE reads[t] > 0
  <2>1. /\ reads' \in [Threads -> Nat] /\ IsFiniteSet(ReadLocks')
        /\ R \in Nat \ {0} /\ Cardinality(ReadLocks') = R - 1
    BY <1>1, <1>2, <1>3, UndoStep
  <2>2. R = 1 /\ O = 0 /\ lostReads = 0 /\ readers = 1 /\ Cardinality(ReadLocks') = 0
    BY <1>2, <2>1
  <2>3. ReadLocks' = {} /\ OwedReaders = {}
    BY <1>2, <2>1, <2>2, FS_EmptySet
  <2>4. ReadLocks' = {} <=> \A u \in Threads : reads'[u] = 0
    <3>1. ASSUME NEW u \in Threads, reads'[u] # 0 PROVE ReadLocks' # {}
      <4>1. 1 \in 1..reads'[u]
        BY <2>1, <3>1
      <4>2. \A x : x \in ReadLocks' <=> \E v \in Threads : \E i \in 1..reads'[v] : x = <<v, i>>
        BY DEF ReadLocks
      <4> QED
        BY <4>1, <4>2
    <3>2. ASSUME \A u \in Threads : reads'[u] = 0 PROVE ReadLocks' = {}
      BY <3>2 DEF ReadLocks
    <3> QED
      BY <3>1, <3>2
  <2>5. lostWrite = FALSE /\ \A u \in Threads : ~OwnsWrite(u)
    BY <1>2, <2>2 DEF RWInv, WriteInv
  <2>6. held = TRUE
    BY <1>2, <2>2 DEF RWInv, HeldInv
  <2>7. \A u \in Threads : ~Owed(u) /\ ~writes[u]
    BY <2>3, <2>5, RWFacts DEF OwedReaders, OwnsWrite, LockTypeOK
  <2>8. writes' \in [Threads -> BOOLEAN] /\ \A u \in Threads : ~writes'[u]
    BY <1>1, <1>2, <2>7
  <2> QED
    BY <1>1, <2>1, <2>2, <2>3, <2>4, <2>5, <2>6, <2>7, <2>8
<1>4. CASE writes[t]
  <2>1. OwnsWrite(t)
    BY <1>4 DEF OwnsWrite
  <2>2. readers = 0 /\ lostWrite = FALSE /\ \A u \in Threads : OwnsWrite(u) => u = t
    BY <1>2, <2>1 DEF RWInv, WriteInv
  <2>3. R = 0 /\ O = 0 /\ lostReads = 0
    BY <1>2, <2>2
  <2>4. ReadLocks = {} /\ OwedReaders = {}
    BY <1>2, <2>3, FS_EmptySet
  <2>5. \A u \in Threads : reads[u] = 0
    BY <1>2, <2>4, NoReadLocks
  <2>6. reads' \in [Threads -> Nat] /\ \A u \in Threads : reads'[u] = 0
    BY <1>1, <1>2, <2>5
  <2>7. ReadLocks' = {}
    BY <2>6 DEF ReadLocks
  <2>8. held = TRUE
    BY <1>2, <2>1 DEF RWInv, HeldInv
  <2>9. \A u \in Threads : ~Owed(u) /\ (u # t => ~writes[u])
    BY <1>1, <2>2, <2>4, RWFacts DEF OwedReaders, OwnsWrite, LockTypeOK
  <2>10. writes' \in [Threads -> BOOLEAN] /\ \A u \in Threads : ~writes'[u]
    BY <1>1, <1>2, <2>9
  <2> QED
    BY <1>1, <2>2, <2>3, <2>6, <2>7, <2>8, <2>9, <2>10
<1> QED
  BY <1>1, <1>3, <1>4

\* The lock goes from the last holder to one writer.
LEMMA UnlockToWriterStep ==
  ASSUME RWInv, NEW t \in Threads, UnlockToWriter(t)
  PROVE  RWInv'
<1>1. /\ UnlockBegins(t) /\ readers <= 1 /\ queue[WriterQueue] # <<>> /\ readers' = 0
      /\ WakeOne(t, Head(queue[WriterQueue])) /\ Undo(t)
      /\ UNCHANGED <<held, mode, lostReads, lostWrite>>
  BY DEF UnlockToWriter
<1>2. /\ reads' \in [Threads -> Nat]
      /\ writes' \in [Threads -> BOOLEAN] /\ \A u \in Threads : ~writes'[u]
      /\ ReadLocks' = {} /\ \A u \in Threads : ~Owed(u)
      /\ lostReads = 0 /\ lostWrite = FALSE /\ held = TRUE /\ pc[t] = "idle"
  BY <1>1, LastUnlock
<1>3. PICK w \in Threads : w = Head(queue[WriterQueue])
  BY <1>1, RWFacts, HeadWaits
<1>4. w \in Waiters(WriterQueue) /\ WakeOne(t, w) /\ Dequeue(w)
  BY <1>1, <1>3, RWFacts, HeadWaits DEF WakeOne
<1>5. Linked(w) /\ mode[w] = "wr"
  BY <1>4, RWFacts DEF Linked, RWInv, ModeInv
<1>6. /\ WaitInv' /\ ~Owed(w) /\ Owed(w)'
      /\ \A u \in Threads \ {w} : Owed(u)' <=> Owed(u)
  BY <1>2, <1>4, <1>5, RWFacts, WakeOneStep
<1>7. OwedReaders' = {}
  BY <1>1, <1>2, <1>5, <1>6 DEF OwedReaders
<1>8. LockTypeOK'
  BY <1>1, <1>2, RWFacts DEF LockTypeOK
<1>9. CountInv'
  BY <1>1, <1>2, <1>7, FS_EmptySet DEF CountInv
<1>10. \A u \in Threads : OwnsWrite(u)' <=> u = w
  BY <1>1, <1>2, <1>5, <1>6 DEF OwnsWrite
<1>11. WriteInv' /\ HeldInv'
  BY <1>1, <1>2, <1>10 DEF WriteInv, HeldInv
<1>12. ModeInv' /\ BusyInv'
  BY <1>1, <1>4, WaitersShrink, ModeKept, BusyKept
<1> QED
  BY <1>6, <1>8, <1>9, <1>11, <1>12, RWInvParts

\* The queue of the readers is emptied and everyone on it sent a message: each
\* was on it once and had none.
LEMMA WakeReadersStep ==
  ASSUME RWInv, queue[WriterQueue] = <<>>,
         queue' = [queue EXCEPT ![ReaderQueue] = <<>>],
         port' = [u \in Threads |-> port[u] \/ u \in Waiters(ReaderQueue)],
         UNCHANGED <<pc, target, spin>>
  PROVE  /\ WaitInv'
         /\ \A q \in Queues : Waiters(q)' = {}
         /\ \A u \in Threads : Owed(u)' <=> Owed(u) \/ u \in Waiters(ReaderQueue)
<1>1. \A q \in Queues : queue'[q] = <<>>
  BY RWFacts, EmptyQueue DEF BlockTypeOK
<1>2. \A q \in Queues : Waiters(q)' = {}
  BY <1>1 DEF Waiters, ToSet
<1>3. \A u \in Threads : ~Linked(u)'
  BY <1>2 DEF Linked
<1>4. \A u \in Threads : Linked(u) <=> u \in Waiters(ReaderQueue)
  BY RWFacts, EmptyQueue DEF Linked
<1>5. /\ queue' \in [Queues -> Seq(Threads)] /\ port' \in [Threads -> BOOLEAN]
      /\ \A u \in Threads : port'[u] <=> port[u] \/ Linked(u)
  BY <1>4, RWFacts DEF BlockTypeOK
<1>6. WaitTypeOK' /\ WaitQueueInv'
  BY <1>1, <1>3, <1>5, RWFacts DEF WaitTypeOK, BlockTypeOK, WaitQueueInv, NoDuplicates
<1>7. /\ \A u \in Threads : Linked(u) => pc[u] \in {"block", "timedblock", "timedout"}
      /\ WakerInv /\ OneWakerInv /\ MessageInv
  BY RWFacts DEF WaitInv, WaitQueueInv
<1>8. \A u \in Threads : /\ Dequeued(u)' <=> Dequeued(u) \/ Linked(u)
                         /\ ~(Dequeued(u) /\ Linked(u))
  BY <1>3, <1>7 DEF Dequeued
<1>9. \A u \in Threads : Owed(u)' <=> Owed(u) \/ Linked(u)
  BY <1>8 DEF Owed
<1>10. WakerInv' /\ OneWakerInv' /\ MessageInv'
  BY <1>5, <1>7, <1>8 DEF WakerInv, OneWakerInv, MessageInv
<1> QED
  BY <1>2, <1>4, <1>6, <1>9, <1>10 DEF WaitInv

\* The lock goes from the last holder to all the readers that wait.
LEMMA UnlockToReadersStep ==
  ASSUME RWInv, NEW t \in Threads, UnlockToReaders(t)
  PROVE  RWInv'
<1>1. /\ UnlockBegins(t) /\ readers <= 1
      /\ queue[WriterQueue] = <<>> /\ queue[ReaderQueue] # <<>>
      /\ readers' = Len(queue[ReaderQueue])
      /\ queue' = [queue EXCEPT ![ReaderQueue] = <<>>]
      /\ port' = [u \in Threads |-> port[u] \/ u \in Waiters(ReaderQueue)]
      /\ Undo(t)
      /\ UNCHANGED <<pc, target, spin, held, mode, lostReads, lostWrite>>
  BY DEF UnlockToReaders, waitVars
<1>2. /\ reads' \in [Threads -> Nat]
      /\ writes' \in [Threads -> BOOLEAN] /\ \A u \in Threads : ~writes'[u]
      /\ ReadLocks' = {} /\ \A u \in Threads : ~Owed(u)
      /\ lostReads = 0 /\ lostWrite = FALSE /\ held = TRUE
  BY <1>1, LastUnlock
<1>3. /\ WaitInv'
      /\ \A q \in Queues : Waiters(q)' = {}
      /\ \A u \in Threads : Owed(u)' <=> Owed(u) \/ u \in Waiters(ReaderQueue)
  BY <1>1, WakeReadersStep
<1>4. /\ queue[ReaderQueue] \in Seq(Threads) /\ NoDuplicates(queue[ReaderQueue])
      /\ Waiters(ReaderQueue) \subseteq Threads
      /\ \A u \in Waiters(ReaderQueue) : mode[u] = "rd"
  BY RWFacts, WaitersAreThreads DEF BlockTypeOK, RWInv, ModeInv
<1>5. /\ IsFiniteSet(Waiters(ReaderQueue))
      /\ Cardinality(Waiters(ReaderQueue)) = Len(queue[ReaderQueue])
      /\ Len(queue[ReaderQueue]) \in Nat \ {0}
  BY <1>1, <1>4, QueueLength DEF Waiters
<1>6. OwedReaders' = Waiters(ReaderQueue)
  BY <1>1, <1>2, <1>3, <1>4 DEF OwedReaders
<1>7. LockTypeOK'
  BY <1>1, <1>2, <1>5, RWFacts DEF LockTypeOK
<1>8. CountInv'
  BY <1>1, <1>2, <1>5, <1>6, FS_EmptySet DEF CountInv
<1>9. \A u \in Threads : ~OwnsWrite(u)'
  BY <1>1, <1>2, <1>3, <1>4 DEF OwnsWrite
<1>10. WriteInv' /\ HeldInv'
  BY <1>1, <1>2, <1>5, <1>9 DEF WriteInv, HeldInv
<1>11. ModeInv' /\ BusyInv'
  BY <1>1, <1>2, <1>3, RWFacts DEF ModeInv, BusyInv
<1> QED
  BY <1>3, <1>7, <1>8, <1>10, <1>11, RWInvParts

\* Nobody waits: the lock becomes free.
LEMMA UnlockFreeStep ==
  ASSUME RWInv, NEW t \in Threads, UnlockFree(t)
  PROVE  RWInv'
<1>1. /\ UnlockBegins(t) /\ readers <= 1
      /\ queue[WriterQueue] = <<>> /\ queue[ReaderQueue] = <<>>
      /\ readers' = 0 /\ held' = FALSE /\ queue' = queue /\ Undo(t)
      /\ UNCHANGED <<blockVars, waitVars, mode, lostReads, lostWrite>>
  BY DEF UnlockFree, blockVars
<1>2. /\ reads' \in [Threads -> Nat]
      /\ writes' \in [Threads -> BOOLEAN] /\ \A u \in Threads : ~writes'[u]
      /\ ReadLocks' = {} /\ \A u \in Threads : ~Owed(u)
      /\ lostReads = 0 /\ lostWrite = FALSE
  BY <1>1, LastUnlock
<1>3. WaitInv' /\ \A u \in Threads : Owed(u)' <=> Owed(u)
  BY <1>1, RWFacts, SpinStep DEF WaitTypeOK, waitVars
<1>4. OwedReaders' = {} /\ \A u \in Threads : ~OwnsWrite(u)'
  BY <1>2, <1>3 DEF OwedReaders, OwnsWrite
<1>5. LockTypeOK'
  BY <1>1, <1>2, RWFacts DEF LockTypeOK
<1>6. CountInv'
  BY <1>1, <1>2, <1>4, FS_EmptySet DEF CountInv
<1>7. WriteInv' /\ HeldInv'
  BY <1>1, <1>2, <1>4 DEF WriteInv, HeldInv
<1>8. \A q \in Queues : Waiters(q)' = {}
  BY <1>1, RWFacts, EmptyQueue, SameWaiters
<1>9. ModeInv' /\ BusyInv'
  BY <1>8, RWFacts DEF ModeInv, BusyInv, Linked
<1> QED
  BY <1>3, <1>5, <1>6, <1>7, <1>9, RWInvParts

\* The lock is initialised again when no call is under way and no lock held.
LEMMA RWInitStep ==
  ASSUME RWInv, rwlock_init
  PROVE  RWInv'
<1>1. /\ \A t \in Threads : pc[t] = "idle" /\ reads[t] = 0 /\ ~writes[t]
      /\ held' = FALSE /\ readers' = 0 /\ spin' = FALSE
      /\ lostReads' = 0 /\ lostWrite' = FALSE
      /\ UNCHANGED <<blockVars, pc, target, mode, reads, writes>> /\ queue' = queue
  BY DEF rwlock_init, blockVars
<1>2. WaitInv' /\ \A u \in Threads : Owed(u)' <=> Owed(u)
  BY <1>1, RWFacts, SpinStep
<1>3. \A u \in Threads : ~Owed(u) /\ ~Linked(u)
  BY <1>1, RWFacts, IdleOwedNothing
<1>4. ReadLocks' = {} /\ OwedReaders' = {} /\ \A u \in Threads : ~OwnsWrite(u)'
  <2>1. ReadLocks = {}
    BY <1>1, RWFacts, NoReadLocks DEF LockTypeOK
  <2> QED
    BY <1>1, <1>2, <1>3, <2>1 DEF ReadLocks, OwedReaders, OwnsWrite
<1>5. LockTypeOK'
  BY <1>1, RWFacts DEF LockTypeOK
<1>6. CountInv'
  BY <1>1, <1>4, FS_EmptySet DEF CountInv
<1>7. WriteInv' /\ HeldInv'
  BY <1>1, <1>4 DEF WriteInv, HeldInv, OwnsWrite
<1>8. ModeInv'
  BY <1>1, WaitersShrink, ModeKept
<1>9. BusyInv'
  BY <1>1, <1>3, SameWaiters DEF BusyInv
<1> QED
  BY <1>2, <1>5, <1>6, <1>7, <1>8, <1>9, RWInvParts

-----------------------------------------------------------------------------
\* Every step keeps the invariant.
LEMMA RWInvNext == RWInv /\ [RWNext]_rwlockVars => RWInv'
<1> SUFFICES ASSUME RWInv, [RWNext]_rwlockVars PROVE RWInv'
  OBVIOUS
<1>1. ASSUME NEW t \in Threads, RWContinue(t) PROVE RWInv'
  BY <1>1, MovesNoLock, ReadReturnsStep, WriteReturnsStep, ReadDrainedStep, WriteDrainedStep
     DEF RWContinue
<1>2. CASE UNCHANGED rwlockVars
  BY <1>2, RWFacts, RWStutter DEF rwlockVars, waitVars, WaitTypeOK
<1>3. ASSUME NEW t \in Threads, NEW abstime, BadAbstime(t, abstime), UNCHANGED rwVars
      PROVE  RWInv'
  BY <1>3, RWStutter DEF BadAbstime
<1>4. ASSUME NEW t \in Threads, NEW abstime, TimedRdLock(t, abstime) PROVE RWInv'
  <2>1. CASE ReadFree(t) \/ ReadShared(t)
    BY <2>1, ReadStep
  <2>2. CASE BadAbstime(t, abstime) /\ UNCHANGED rwVars
    BY <1>3, <2>2
  <2>3. CASE /\ ReadBusy(t) /\ StartWait(t, ReaderQueue, abstime)
             /\ mode' = [mode EXCEPT ![t] = "rd"]
             /\ UNCHANGED <<held, readers, reads, writes, lostReads, lostWrite>>
    <3>1. Ready(t) /\ held /\ readers = 0
      BY <2>3 DEF ReadBusy
    <3> QED
      BY <2>3, <3>1, RWFacts, RWStartWait
  <2> QED
    BY <1>4, <2>1, <2>2, <2>3 DEF TimedRdLock
<1>5. ASSUME NEW t \in Threads, NEW abstime, TimedWrLock(t, abstime) PROVE RWInv'
  <2>1. CASE WriteFree(t)
    BY <2>1, WriteFreeStep
  <2>2. CASE BadAbstime(t, abstime) /\ UNCHANGED rwVars
    BY <1>3, <2>2
  <2>3. CASE /\ WriteBusy(t) /\ StartWait(t, WriterQueue, abstime)
             /\ mode' = [mode EXCEPT ![t] = "wr"]
             /\ UNCHANGED <<held, readers, reads, writes, lostReads, lostWrite>>
    <3>1. Ready(t) /\ held
      BY <2>3 DEF WriteBusy
    <3> QED
      BY <2>3, <3>1, RWFacts, RWStartWait
  <2> QED
    BY <1>5, <2>1, <2>2, <2>3 DEF TimedWrLock
<1>6. ASSUME NEW t \in Threads, TryRdLock(t) \/ TryWrLock(t) PROVE RWInv'
  BY <1>2, <1>6, ReadStep, WriteFreeStep DEF TryRdLock, TryWrLock
<1>7. ASSUME NEW t \in Threads, RWUnlock(t) PROVE RWInv'
  BY <1>7, UnlockSharedStep, UnlockToWriterStep, UnlockToReadersStep, UnlockFreeStep
     DEF RWUnlock
<1>8. ASSUME NEW t \in Threads, RWCall(t) PROVE RWInv'
  BY <1>4, <1>5, <1>6, <1>7, <1>8 DEF RWCall, rdlock, wrlock
<1> QED
  BY <1>1, <1>2, <1>8, RWInitStep DEF RWNext

\* The inductive invariant holds in every reachable state.
THEOREM RWLockInvariant == RWSpec => []RWInv
<1> QED
  BY RWInvInit, RWInvNext, PTL DEF RWSpec

\* The types are right.
THEOREM RWLockTypes == RWSpec => []RWTypeOK
<1>1. RWInv => RWTypeOK
  BY DEF RWInv
<1> QED
  BY <1>1, RWLockInvariant, PTL

\* pt-rwlock-unlock.c and the timed calls lose no wakeup and leave none behind.
THEOREM RWLockMessages == RWSpec => []OneMessageOwed
<1>1. RWInv => OneMessageOwed
  BY WaitInvMessages DEF RWInv
<1> QED
  BY <1>1, RWLockInvariant, PTL

\* rwlock->readers is exact, and __held is set exactly when it should be.
THEOREM RWLockAccounts == RWSpec => []LocksAccounted
<1>1. RWInv => LocksAccounted
  BY DEF RWInv, CountInv, HeldInv, LocksAccounted, OwnsWrite, OwedReaders, Quantify
<1> QED
  BY <1>1, RWLockInvariant, PTL

\* Writers exclude readers and writers.
THEOREM RWLockExclusion == RWSpec => []ReadersExcludeWriters
<1>1. ASSUME RWInv PROVE ReadersExcludeWriters
  <2>1. \A t \in Threads : Handed(t) => Owed(t)
    BY DEF Handed, Owed, Dequeued
  <2>2. SUFFICES ASSUME NEW t \in Threads, NEW u \in Threads,
                        ClaimsWrite(t), ClaimsWrite(u) \/ ClaimsRead(u)
                 PROVE  t = u /\ ~ClaimsRead(t)
    BY DEF ReadersExcludeWriters
  <2>3. OwnsWrite(t)
    BY <2>1, <2>2 DEF ClaimsWrite, OwnsWrite
  <2>4. readers = 0 /\ (ClaimsWrite(u) => t = u)
    BY <1>1, <2>1, <2>3 DEF RWInv, WriteInv, ClaimsWrite, OwnsWrite
  <2>5. Cardinality(ReadLocks) = 0 /\ Cardinality(OwedReaders) = 0
    BY <1>1, <2>4, RWFacts DEF RWInv, CountInv, LockTypeOK
  <2>6. ReadLocks = {} /\ OwedReaders = {}
    BY <1>1, <2>5, FS_EmptySet DEF RWInv, CountInv
  <2>7. \A v \in Threads : reads[v] = 0 /\ ~(mode[v] = "rd" /\ Owed(v))
    BY <1>1, <2>6, RWFacts, NoReadLocks DEF OwedReaders, LockTypeOK
  <2>8. \A v \in Threads : ~ClaimsRead(v)
    BY <2>1, <2>7 DEF ClaimsRead
  <2> QED
    BY <2>2, <2>4, <2>8
<1> QED
  BY <1>1, RWLockInvariant, PTL

\* The assertions of the locking and unlocking code never fail.
THEOREM RWLockAssertions == RWSpec => []RWAssertions
<1>1. ASSUME RWInv PROVE RWAssertions
  BY <1>1, RWFacts, FreeLock, EmptyQueue DEF RWAssertions, RWInv, BusyInv
<1> QED
  BY <1>1, RWLockInvariant, PTL
=============================================================================
