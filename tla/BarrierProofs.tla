--------------------------- MODULE BarrierProofs ---------------------------
(***************************************************************************)
(* Theorems about the barrier (module Barrier), for any number of threads, *)
(* any counts and any number of rounds, however the rounds overlap.        *)
(***************************************************************************)
EXTENDS Barrier, PtInternalProofs

\* u is to wake up t.
Walks(u, t) == t \in ToSet(walk[u])

\* Where t is says who has it: the barrier's list in the current round; in an
\* earlier one, its port, or one walker.
ThreadFacts(t) ==
  /\ \A u \in Threads : ~(port[t] /\ Walks(u, t))
  /\ \A u, v \in Threads : Walks(u, t) /\ Walks(v, t) => u = v
  /\ (port[t] \/ \E u \in Threads : Walks(u, t)) <=> pc[t] = "block" /\ myround[t] < round
  /\ t \in Waiters(TheBarrier) <=> pc[t] = "block" /\ myround[t] = round
  /\ myround[t] <= round

ListFacts ==
  /\ NoDuplicates(queue[TheBarrier])
  /\ \A t \in Threads : NoDuplicates(walk[t]) /\ (pc[t] # "walk" => walk[t] = <<>>)

CountFacts == /\ pending >= 1
              /\ arrivals = round * count + (count - pending)
              /\ Len(queue[TheBarrier]) = count - pending

BarrierInv == /\ BarrierTypeOK
              /\ ListFacts
              /\ CountFacts
              /\ \A t \in Threads : ThreadFacts(t)

-----------------------------------------------------------------------------
(* Sequences.                                                              *)

\* The rest of a list without duplicates is the list without its head.
LEMMA TailLemma ==
  ASSUME NEW s \in Seq(Threads), s # <<>>, NoDuplicates(s)
  PROVE  /\ Head(s) \in Threads /\ Head(s) \in ToSet(s)
         /\ Tail(s) \in Seq(Threads) /\ NoDuplicates(Tail(s))
         /\ ToSet(Tail(s)) = ToSet(s) \ {Head(s)}
<1>1. PICK n \in Nat : n = Len(s) /\ n >= 1 /\ DOMAIN s = 1..n
  OBVIOUS
<1>2. /\ Head(s) \in Threads /\ Head(s) = s[1] /\ 1 \in DOMAIN s
  BY <1>1
<1>3. PICK r \in Seq(Threads) : /\ r = Tail(s) /\ DOMAIN r = 1..(n - 1)
                                /\ \A i \in 1..(n - 1) : r[i] = s[i + 1]
  <2>1. Tail(s) \in Seq(Threads) /\ Len(Tail(s)) = Len(s) - 1
    OBVIOUS
  <2>2. \A i \in 1..(Len(s) - 1) : Tail(s)[i] = s[i + 1]
    OBVIOUS
  <2>3. DOMAIN Tail(s) = 1..Len(Tail(s))
    BY <2>1
  <2> QED
    BY <1>1, <2>1, <2>2, <2>3
<1>4. \A i \in 1..(n - 1) : i + 1 \in 1..n /\ i + 1 # 1
  BY <1>1
<1>5. NoDuplicates(r)
  BY <1>1, <1>3, <1>4 DEF NoDuplicates
<1>6. ASSUME NEW x PROVE x \in ToSet(r) <=> x \in ToSet(s) /\ x # s[1]
  <2>1. ASSUME x \in ToSet(r) PROVE x \in ToSet(s) /\ x # s[1]
    <3>1. PICK i \in 1..(n - 1) : x = r[i]
      BY <1>3, <2>1 DEF ToSet
    <3>2. x = s[i + 1] /\ i + 1 \in DOMAIN s /\ i + 1 # 1
      BY <1>1, <1>3, <1>4, <3>1
    <3> QED
      BY <1>2, <3>2 DEF ToSet, NoDuplicates
  <2>2. ASSUME x \in ToSet(s), x # s[1] PROVE x \in ToSet(r)
    <3>1. PICK i \in 1..n : x = s[i]
      BY <1>1, <2>2 DEF ToSet
    <3>2. i # 1
      BY <2>2, <3>1
    <3>3. i - 1 \in 1..(n - 1) /\ (i - 1) + 1 = i
      BY <3>2
    <3>4. r[i - 1] = x
      BY <1>3, <3>1, <3>3
    <3> QED
      BY <1>3, <3>3, <3>4 DEF ToSet
  <2> QED
    BY <2>1, <2>2
<1>7. ToSet(r) = ToSet(s) \ {s[1]}
  BY <1>6
<1>8. Head(s) \in ToSet(s)
  BY <1>2 DEF ToSet
<1> QED
  BY <1>2, <1>3, <1>5, <1>7, <1>8

\* Insertion at the head makes the list one longer.
LEMMA ConsLength ==
  ASSUME NEW s \in Seq(Threads), NEW t \in Threads
  PROVE  Len(Cons(t, s)) = Len(s) + 1
  BY DEF Cons

-----------------------------------------------------------------------------
(* Steps.                                                                  *)

\* The types, without the functions' details.
LEMMA Types ==
  ASSUME BarrierInv
  PROVE  /\ BlockTypeOK /\ TheBarrier \in Queues /\ queue[TheBarrier] \in Seq(Threads)
         /\ count \in Nat /\ count >= 1 /\ pending \in Nat /\ pending <= count /\ pending >= 1
         /\ round \in Nat /\ arrivals \in Nat /\ \A t \in Threads : myround[t] \in Nat
  BY BarrierAssumption DEF BarrierInv, CountFacts, BarrierTypeOK, BlockTypeOK

\* Not the last of its round.
LEMMA WaitForOthersStep ==
  ASSUME BarrierInv, NEW t \in Threads, WaitForOthers(t)
  PROVE  BarrierInv'
<1>0. /\ pc[t] = "idle" /\ pending # 1 /\ arrivals' = arrivals + 1 /\ pending' = pending - 1
      /\ myround' = [myround EXCEPT ![t] = round] /\ pc' = [pc EXCEPT ![t] = "block"]
      /\ queue' = [queue EXCEPT ![TheBarrier] = Cons(t, @)]
      /\ UNCHANGED <<port, count, spin, walk, round>>
  BY DEF WaitForOthers, Arrive, IsLast, Goto, Enqueue
<1>1. /\ BlockTypeOK /\ TheBarrier \in Queues /\ queue[TheBarrier] \in Seq(Threads)
      /\ count \in Nat /\ count >= 1 /\ pending \in Nat /\ pending <= count /\ pending >= 1
      /\ round \in Nat /\ arrivals \in Nat /\ \A u \in Threads : myround[u] \in Nat
  BY Types
<1>2. t \notin Waiters(TheBarrier) /\ ThreadFacts(t)
  BY <1>0 DEF BarrierInv, ThreadFacts
<1>3. /\ Cons(t, queue[TheBarrier]) \in Seq(Threads) /\ NoDuplicates(Cons(t, queue[TheBarrier]))
      /\ ToSet(Cons(t, queue[TheBarrier])) = ToSet(queue[TheBarrier]) \cup {t}
      /\ Len(Cons(t, queue[TheBarrier])) = Len(queue[TheBarrier]) + 1
  BY <1>1, <1>2, ConsLemma, ConsLength DEF BarrierInv, ListFacts, Waiters
<1>4. queue'[TheBarrier] = Cons(t, queue[TheBarrier]) /\ queue' \in [Queues -> Seq(Threads)]
  BY <1>0, <1>1, <1>3 DEF BlockTypeOK
<1>5. Waiters(TheBarrier)' = Waiters(TheBarrier) \cup {t}
  BY <1>3, <1>4 DEF Waiters
<1>6. /\ pc'[t] = "block" /\ myround'[t] = round
      /\ \A u \in Threads : u # t => pc'[u] = pc[u] /\ myround'[u] = myround[u]
  BY <1>0 DEF BarrierInv, BarrierTypeOK
<1>7. BarrierTypeOK'
  <2>1. pending' \in 0..count' /\ arrivals' \in Nat /\ round' \in Nat
    BY <1>0, <1>1
  <2>2. BlockTypeOK'
    BY <1>0, <1>1, <1>4 DEF BlockTypeOK
  <2> QED
    BY <1>0, <1>1, <2>1, <2>2 DEF BarrierInv, BarrierTypeOK
<1>8. ListFacts'
  BY <1>0, <1>3, <1>4, <1>6 DEF BarrierInv, ListFacts
<1>9. CountFacts'
  <2>1. CountFacts /\ Len(queue'[TheBarrier]) = Len(queue[TheBarrier]) + 1
    BY <1>3, <1>4 DEF BarrierInv
  <2>2. pending' >= 1 /\ count - pending' = (count - pending) + 1
    BY <1>0, <1>1
  <2>3. PICK full \in Nat : full = round * count
    BY <1>1
  <2>4. arrivals' = round * count + (count - pending')
    BY <1>0, <1>1, <2>1, <2>2, <2>3 DEF CountFacts
  <2> QED
    BY <1>0, <2>1, <2>2, <2>4 DEF CountFacts
<1>10. ASSUME NEW u \in Threads PROVE ThreadFacts(u)'
  <2>1. ThreadFacts(u) /\ \A v \in Threads : Walks(v, u)' <=> Walks(v, u)
    BY <1>0 DEF BarrierInv, Walks
  <2>2. CASE u # t
    BY <1>0, <1>5, <1>6, <2>1, <2>2 DEF ThreadFacts
  <2>3. CASE u = t
    BY <1>0, <1>1, <1>5, <1>6, <2>1, <2>3 DEF ThreadFacts
  <2> QED
    BY <2>2, <2>3
<1> QED
  BY <1>7, <1>8, <1>9, <1>10 DEF BarrierInv

\* A round is complete: one more, and the counters start again.
LEMMA RoundComplete ==
  ASSUME BarrierInv, pending = 1, arrivals' = arrivals + 1, round' = round + 1,
         pending' = count, count' = count, queue'[TheBarrier] = <<>>
  PROVE  CountFacts' /\ arrivals' \in Nat /\ round' \in Nat
<1>1. /\ count \in Nat /\ count >= 1 /\ round \in Nat /\ arrivals \in Nat
  BY Types
<1>2. (round + 1) * count = round * count + count
  BY <1>1
<1>3. PICK full \in Nat : full = round * count
  BY <1>1
<1>4. arrivals = full + (count - 1)
  BY <1>3 DEF BarrierInv, CountFacts
<1>5. arrivals' = round' * count' + (count' - pending')
  BY <1>1, <1>2, <1>3, <1>4
<1>6. Len(queue'[TheBarrier]) = count' - pending'
  BY <1>1
<1> QED
  BY <1>1, <1>5, <1>6 DEF CountFacts

\* The last of a round takes the list, whose threads are now of a round that is
\* over.
LEMMA LastOfRoundStep ==
  ASSUME BarrierInv, NEW t \in Threads, LastOfRound(t)
  PROVE  BarrierInv'
<1>0. /\ pc[t] = "idle" /\ pending = 1 /\ arrivals' = arrivals + 1 /\ pending' = count /\ round' = round + 1
      /\ myround' = [myround EXCEPT ![t] = round] /\ pc' = [pc EXCEPT ![t] = "walk"]
      /\ walk' = [walk EXCEPT ![t] = queue[TheBarrier]]
      /\ queue' = [queue EXCEPT ![TheBarrier] = <<>>]
      /\ UNCHANGED <<port, count, spin>>
  BY DEF LastOfRound, Arrive, IsLast, Goto
<1>1. /\ BlockTypeOK /\ TheBarrier \in Queues /\ queue[TheBarrier] \in Seq(Threads)
      /\ count \in Nat /\ count >= 1 /\ pending \in Nat /\ pending <= count /\ pending >= 1
      /\ round \in Nat /\ arrivals \in Nat /\ \A u \in Threads : myround[u] \in Nat
  BY Types
<1>2. queue'[TheBarrier] = <<>> /\ queue' \in [Queues -> Seq(Threads)]
  BY <1>0, <1>1 DEF BlockTypeOK
<1>3. /\ pc'[t] = "walk" /\ myround'[t] = round /\ walk'[t] = queue[TheBarrier]
      /\ \A u \in Threads : u # t => pc'[u] = pc[u] /\ myround'[u] = myround[u] /\ walk'[u] = walk[u]
  BY <1>0 DEF BarrierInv, BarrierTypeOK
<1>4. CountFacts' /\ arrivals' \in Nat /\ round' \in Nat
  BY <1>0, <1>2, RoundComplete
<1>5. BarrierTypeOK'
  <2>1. BlockTypeOK'
    BY <1>0, <1>1, <1>2 DEF BlockTypeOK
  <2>2. pending' \in 0..count'
    BY <1>0, <1>1
  <2> QED
    BY <1>0, <1>1, <1>4, <2>1, <2>2 DEF BarrierInv, BarrierTypeOK
<1>6. ListFacts'
  <2>1. NoDuplicates(queue'[TheBarrier])
    BY <1>2 DEF NoDuplicates
  <2> QED
    BY <1>3, <2>1 DEF BarrierInv, ListFacts
<1>7. Waiters(TheBarrier)' = {}
  BY <1>2 DEF Waiters, ToSet
<1>8. walk[t] = <<>> /\ \A u \in Threads : ~Walks(t, u)
  BY <1>0 DEF BarrierInv, ListFacts, Walks, ToSet
<1>9. ASSUME NEW u \in Threads PROVE ThreadFacts(u)'
  <2>1. ThreadFacts(u)
    BY DEF BarrierInv
  <2>2. \A v \in Threads : Walks(v, u)' <=> IF v = t THEN u \in Waiters(TheBarrier) ELSE Walks(v, u)
    BY <1>3 DEF Walks, Waiters
  <2>3. CASE u # t
    BY <1>0, <1>1, <1>3, <1>7, <1>8, <2>1, <2>2, <2>3 DEF ThreadFacts
  <2>4. CASE u = t
    BY <1>0, <1>1, <1>3, <1>7, <1>8, <2>1, <2>2, <2>4 DEF ThreadFacts
  <2> QED
    BY <2>3, <2>4
<1> QED
  BY <1>4, <1>5, <1>6, <1>9 DEF BarrierInv

\* The only thread of a round.
LEMMA OnlyOfRoundStep ==
  ASSUME BarrierInv, NEW t \in Threads, OnlyOfRound(t)
  PROVE  BarrierInv'
<1>0. /\ pc[t] = "idle" /\ pending = 1 /\ count = 1 /\ arrivals' = arrivals + 1 /\ pending' = count
      /\ round' = round + 1 /\ myround' = [myround EXCEPT ![t] = round] /\ spin' = TRUE
      /\ UNCHANGED <<queue, port, count, pc, walk>>
  BY DEF OnlyOfRound, Arrive, IsLast, blockVars
<1>1. /\ BlockTypeOK /\ TheBarrier \in Queues /\ queue[TheBarrier] \in Seq(Threads)
      /\ round \in Nat /\ \A u \in Threads : myround[u] \in Nat
  BY Types
<1>2. queue[TheBarrier] = <<>>
  <2>1. Len(queue[TheBarrier]) = 0
    BY <1>0 DEF BarrierInv, CountFacts
  <2> QED
    BY <1>1, <2>1
<1>3. Waiters(TheBarrier) = {} /\ Waiters(TheBarrier)' = {}
  BY <1>0, <1>2 DEF Waiters, ToSet
<1>4. CountFacts' /\ arrivals' \in Nat /\ round' \in Nat
  BY <1>0, <1>2, RoundComplete
<1>5. BarrierTypeOK'
  BY <1>0, <1>1, <1>4 DEF BarrierInv, BarrierTypeOK, BlockTypeOK
<1>6. ListFacts'
  BY <1>0 DEF BarrierInv, ListFacts
<1>7. myround'[t] = round /\ \A u \in Threads : u # t => myround'[u] = myround[u]
  BY <1>0 DEF BarrierInv, BarrierTypeOK
<1>8. ASSUME NEW u \in Threads PROVE ThreadFacts(u)'
  <2>1. ThreadFacts(u) /\ \A v \in Threads : Walks(v, u)' <=> Walks(v, u)
    BY <1>0 DEF BarrierInv, Walks
  <2>2. CASE u # t
    BY <1>0, <1>1, <1>3, <1>7, <2>1, <2>2 DEF ThreadFacts
  <2>3. CASE u = t
    BY <1>0, <1>1, <1>3, <1>7, <2>1, <2>3 DEF ThreadFacts
  <2> QED
    BY <2>2, <2>3
<1> QED
  BY <1>4, <1>5, <1>6, <1>8 DEF BarrierInv

\* A thread of a complete round is woken up, by the one that walks its list.
LEMMA WakeNextStep ==
  ASSUME BarrierInv, NEW t \in Threads, WakeNext(t)
  PROVE  BarrierInv'
<1>0. /\ pc[t] = "walk" /\ walk[t] # <<>> /\ walk' = [walk EXCEPT ![t] = Tail(@)]
      /\ UNCHANGED <<queue, count, pending, spin, pc, round, arrivals, myround>>
  BY DEF WakeNext
<1>1. walk \in [Threads -> Seq(Threads)] /\ NoDuplicates(walk[t]) /\ port \in [Threads -> BOOLEAN]
  BY DEF BarrierInv, ListFacts, BarrierTypeOK, BlockTypeOK
<1>2. /\ Head(walk[t]) \in Threads /\ Head(walk[t]) \in ToSet(walk[t])
      /\ Tail(walk[t]) \in Seq(Threads) /\ NoDuplicates(Tail(walk[t]))
      /\ ToSet(Tail(walk[t])) = ToSet(walk[t]) \ {Head(walk[t])}
  BY <1>0, <1>1, TailLemma
<1>h. PICK h \in Threads : h = Head(walk[t])
  BY <1>2
<1>3. ~port[h] /\ port' = [port EXCEPT ![h] = TRUE]
  BY <1>h DEF WakeNext, Wakeup
<1>4. /\ walk'[t] = Tail(walk[t]) /\ \A u \in Threads : u # t => walk'[u] = walk[u]
      /\ walk' \in [Threads -> Seq(Threads)] /\ port' \in [Threads -> BOOLEAN]
      /\ \A u \in Threads : port'[u] <=> u = h \/ port[u]
  BY <1>0, <1>1, <1>2, <1>3
<1>5. BarrierTypeOK'
  BY <1>0, <1>4 DEF BarrierInv, BarrierTypeOK, BlockTypeOK
<1>6. ListFacts'
  BY <1>0, <1>2, <1>4 DEF BarrierInv, ListFacts
<1>7. CountFacts'
  BY <1>0 DEF BarrierInv, CountFacts
<1>8. \A u, v \in Threads : Walks(v, u)' <=> Walks(v, u) /\ ~(v = t /\ u = h)
  BY <1>2, <1>h, <1>4 DEF Walks
<1>9. Walks(t, h)
  BY <1>2, <1>h DEF Walks
<1>10. Waiters(TheBarrier)' = Waiters(TheBarrier)
  BY <1>0 DEF Waiters
<1>11. ASSUME NEW u \in Threads PROVE ThreadFacts(u)'
  <2>1. ThreadFacts(u)
    BY DEF BarrierInv
  <2>2. CASE u # h
    BY <1>0, <1>4, <1>8, <1>10, <2>1, <2>2 DEF ThreadFacts
  <2>3. CASE u = h
    BY <1>0, <1>4, <1>8, <1>9, <1>10, <2>1, <2>3 DEF ThreadFacts
  <2> QED
    BY <2>2, <2>3
<1> QED
  BY <1>5, <1>6, <1>7, <1>11 DEF BarrierInv

\* A call returns: that of the walker, or of a thread that has its message.
LEMMA ReturnStep ==
  ASSUME BarrierInv, NEW t \in Threads, ReturnSerial(t) \/ ReturnZero(t)
  PROVE  BarrierInv'
<1>0. /\ pc' = [pc EXCEPT ![t] = "idle"]
      /\ UNCHANGED <<queue, count, pending, spin, walk, round, arrivals, myround>>
  BY DEF ReturnSerial, ReturnZero, Goto, blockVars
<1>1. \/ (pc[t] = "walk" /\ walk[t] = <<>> /\ UNCHANGED port)
      \/ (pc[t] = "block" /\ port[t] /\ port' = [port EXCEPT ![t] = FALSE])
  BY DEF ReturnSerial, ReturnZero, Block, blockVars
<1>2. pc'[t] = "idle" /\ \A u \in Threads : u # t => pc'[u] = pc[u]
  BY <1>0 DEF BarrierInv, BarrierTypeOK
<1>3. /\ port' \in [Threads -> BOOLEAN] /\ \A u \in Threads : u # t => port'[u] = port[u]
      /\ pc[t] = "block" => port[t] /\ ~port'[t]
      /\ port'[t] => port[t]
  BY <1>1 DEF BarrierInv, BarrierTypeOK, BlockTypeOK
<1>4. BarrierTypeOK'
  BY <1>0, <1>3 DEF BarrierInv, BarrierTypeOK, BlockTypeOK
<1>5. ListFacts'
  BY <1>0, <1>1, <1>2 DEF BarrierInv, ListFacts
<1>6. CountFacts'
  BY <1>0 DEF BarrierInv, CountFacts
<1>7. Waiters(TheBarrier)' = Waiters(TheBarrier)
  BY <1>0 DEF Waiters
<1>8. ASSUME NEW u \in Threads PROVE ThreadFacts(u)'
  <2>1. ThreadFacts(u) /\ \A v \in Threads : Walks(v, u)' <=> Walks(v, u)
    BY <1>0 DEF BarrierInv, Walks
  <2>2. CASE u # t
    BY <1>0, <1>2, <1>3, <1>7, <2>1, <2>2 DEF ThreadFacts
  <2>3. CASE u = t
    <3>1. round \in Nat /\ myround[t] \in Nat
      BY Types
    <3> QED
      BY <1>0, <1>1, <1>2, <1>3, <1>7, <2>1, <2>3, <3>1 DEF ThreadFacts
  <2> QED
    BY <2>2, <2>3
<1> QED
  BY <1>4, <1>5, <1>6, <1>8 DEF BarrierInv

\* The barrier is initialised again: nobody waits, is walked or has a message.
LEMMA InitAgainStep ==
  ASSUME BarrierInv, NEW c \in Counts, pthread_barrier_init(c)
  PROVE  BarrierInv'
<1>0. /\ \A t \in Threads : pc[t] = "idle"
      /\ count' = c /\ pending' = c /\ spin' = FALSE /\ round' = 0 /\ arrivals' = 0
      /\ myround' = [t \in Threads |-> 0] /\ UNCHANGED <<queue, port, pc, walk>>
  BY DEF pthread_barrier_init, blockVars
<1>1. c \in Nat /\ c >= 1
  BY BarrierAssumption
<1>2. /\ BlockTypeOK /\ TheBarrier \in Queues /\ queue[TheBarrier] \in Seq(Threads)
  BY Types
<1>3. Waiters(TheBarrier) = {}
  <2>1. Waiters(TheBarrier) \subseteq Threads
    BY <1>2, WaitersAreThreads
  <2>2. \A t \in Threads : t \notin Waiters(TheBarrier)
    BY <1>0 DEF BarrierInv, ThreadFacts
  <2> QED
    BY <2>1, <2>2
<1>4. queue[TheBarrier] = <<>>
  BY <1>2, <1>3, EmptyQueue
<1>5. BarrierTypeOK'
  <2>1. pending' \in 0..count' /\ round' \in Nat /\ arrivals' \in Nat
    BY <1>0, <1>1
  <2>2. myround' \in [Threads -> Nat]
    BY <1>0
  <2>3. BlockTypeOK' /\ count' \in Counts /\ spin' \in BOOLEAN
    BY <1>0, <1>2 DEF BlockTypeOK
  <2>4. /\ pc' \in [Threads -> {"idle", "block", "walk"}]
        /\ walk' \in [Threads -> Seq(Threads)]
    BY <1>0 DEF BarrierInv, BarrierTypeOK
  <2> QED
    BY <2>1, <2>2, <2>3, <2>4 DEF BarrierTypeOK
<1>6. ListFacts'
  BY <1>0 DEF BarrierInv, ListFacts
<1>7. CountFacts'
  BY <1>0, <1>1, <1>4 DEF CountFacts
<1>8. ASSUME NEW u \in Threads PROVE ThreadFacts(u)'
  <2>1. ThreadFacts(u) /\ \A v \in Threads : Walks(v, u)' <=> Walks(v, u)
    BY <1>0 DEF BarrierInv, Walks
  <2>2. Waiters(TheBarrier)' = {}
    BY <1>0, <1>3 DEF Waiters
  <2> QED
    BY <1>0, <2>1, <2>2 DEF ThreadFacts
<1> QED
  BY <1>5, <1>6, <1>7, <1>8 DEF BarrierInv

-----------------------------------------------------------------------------
(* The theorems.                                                           *)

\* At the start nobody waits.
LEMMA BarrierInvInit ==
  ASSUME BarrierInit
  PROVE  BarrierInv
<1>0. /\ queue = [q \in Queues |-> <<>>] /\ port = [t \in Threads |-> FALSE]
      /\ count \in Counts /\ pending = count /\ round = 0 /\ arrivals = 0 /\ spin = FALSE
      /\ pc = [t \in Threads |-> "idle"] /\ walk = [t \in Threads |-> <<>>]
      /\ myround = [t \in Threads |-> 0]
  BY DEF BarrierInit, BlockInit
<1>1. count \in Nat /\ count >= 1 /\ TheBarrier \in Queues /\ queue[TheBarrier] = <<>>
  BY <1>0, BarrierAssumption
<1>2. BarrierTypeOK
  <2>1. pending \in 0..count /\ round \in Nat /\ arrivals \in Nat
    BY <1>0, <1>1
  <2>2. <<>> \in Seq(Threads)
    OBVIOUS
  <2>3. BlockTypeOK /\ walk \in [Threads -> Seq(Threads)]
    BY <1>0, <2>2 DEF BlockTypeOK
  <2>4. /\ pc \in [Threads -> {"idle", "block", "walk"}]
        /\ myround \in [Threads -> Nat] /\ count \in Counts /\ spin \in BOOLEAN
    BY <1>0
  <2> QED
    BY <2>1, <2>3, <2>4 DEF BarrierTypeOK
<1>3. ListFacts
  BY <1>0, <1>1 DEF ListFacts, NoDuplicates
<1>4. CountFacts
  BY <1>0, <1>1 DEF CountFacts
<1>5. Waiters(TheBarrier) = {} /\ \A t, u \in Threads : ~Walks(t, u)
  BY <1>0, <1>1 DEF Waiters, Walks, ToSet
<1>6. ASSUME NEW t \in Threads PROVE ThreadFacts(t)
  BY <1>0, <1>5 DEF ThreadFacts
<1> QED
  BY <1>2, <1>3, <1>4, <1>6 DEF BarrierInv

\* The invariant of the barrier holds of every behaviour of pthread_barrier_wait
\* and pthread_barrier_init.
THEOREM BarrierInvariant == BarrierSpec => []BarrierInv
<1>1. BarrierInit => BarrierInv
  BY BarrierInvInit
<1>2. ASSUME BarrierInv, [BarrierNext]_vars PROVE BarrierInv'
  <2>1. CASE UNCHANGED vars
    <3>1. UNCHANGED <<queue, port, count, pending, spin, pc, walk, round, arrivals, myround>>
      BY <2>1 DEF vars, blockVars
    <3>2. BarrierTypeOK' /\ ListFacts' /\ CountFacts'
      BY <1>2, <3>1 DEF BarrierInv, BarrierTypeOK, BlockTypeOK, ListFacts, CountFacts
    <3>3. \A t \in Threads : ThreadFacts(t)'
      BY <1>2, <3>1 DEF BarrierInv, ThreadFacts, Walks, Waiters
    <3> QED
      BY <3>2, <3>3 DEF BarrierInv
  <2>2. CASE BarrierNext
    BY <1>2, <2>2, WaitForOthersStep, LastOfRoundStep, OnlyOfRoundStep, WakeNextStep, ReturnStep, InitAgainStep
    DEF BarrierNext, BarrierContinue
  <2> QED
    BY <1>2, <2>1, <2>2
<1> QED
  BY <1>1, <1>2, PTL DEF BarrierSpec

\* Exactly COUNT calls of pthread_barrier_wait make a round, and those that have
\* arrived since the last one are on the barrier's list.
THEOREM RoundsStayFull == BarrierSpec => []RoundsAreFull
<1>1. ASSUME BarrierInv PROVE RoundsAreFull
  <2>1. Waiters(TheBarrier) \subseteq Threads
    BY <1>1, Types, WaitersAreThreads
  <2>2. \A t \in Waiters(TheBarrier) : myround[t] = round
    BY <1>1, <2>1 DEF BarrierInv, ThreadFacts
  <2> QED
    BY <1>1, <2>2 DEF BarrierInv, CountFacts, RoundsAreFull
<1> QED
  BY <1>1, BarrierInvariant, PTL

\* No thread passes the barrier before its round is complete, and none is woken
\* up twice, though the walk of one round overlaps the arrivals of the next.
THEOREM OneWakeupAfterTheRound == BarrierSpec => []NobodyEarlyNorTwice
<1>1. ASSUME BarrierInv PROVE NobodyEarlyNorTwice
  BY <1>1 DEF BarrierInv, ThreadFacts, Walks, NobodyEarlyNorTwice
<1> QED
  BY <1>1, BarrierInvariant, PTL
=============================================================================
