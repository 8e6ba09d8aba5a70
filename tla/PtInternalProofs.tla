-------------------------- MODULE PtInternalProofs --------------------------
(* Facts about the wait queues of PtInternal.                              *)
EXTENDS PtInternal, SequenceTheorems, TLAPS

\* Inserting a thread that is not on the queue at its head adds that thread
\* and nothing else (__pthread_enqueue).
LEMMA ConsLemma ==
  ASSUME NEW s \in Seq(Threads), NEW t \in Threads, NoDuplicates(s), t \notin ToSet(s)
  PROVE  /\ Cons(t, s) \in Seq(Threads)
         /\ NoDuplicates(Cons(t, s))
         /\ ToSet(Cons(t, s)) = ToSet(s) \cup {t}
<1> DEFINE r == Cons(t, s)
<1>1. /\ r \in Seq(Threads)
      /\ Len(r) = Len(s) + 1
      /\ r[1] = t
      /\ \A i \in 1..Len(s) : r[i + 1] = s[i]
  BY DEF Cons
<1>2. \A i \in 2..Len(r) : i - 1 \in 1..Len(s) /\ r[i] = s[i - 1]
  <2>1. SUFFICES ASSUME NEW i \in 2..Len(r)
                 PROVE  i - 1 \in 1..Len(s) /\ r[i] = s[i - 1]
    OBVIOUS
  <2>2. i - 1 \in 1..Len(s) /\ (i - 1) + 1 = i
    BY <1>1
  <2> QED
    BY <1>1, <2>2
<1> HIDE DEF r
<1>3. DOMAIN r = 1..Len(r) /\ DOMAIN s = 1..Len(s)
  BY <1>1
<1>4. NoDuplicates(r)
  <2>1. SUFFICES ASSUME NEW i \in 1..Len(r), NEW j \in 1..Len(r), r[i] = r[j]
                 PROVE  i = j
    BY <1>3 DEF NoDuplicates
  <2>2. \A k \in 2..Len(r) : r[k] # t
    BY <1>2, <1>3 DEF ToSet
  <2>3. CASE i = 1 \/ j = 1
    BY <2>1, <2>2, <2>3, <1>1
  <2>4. CASE i # 1 /\ j # 1
    <3>1. i \in 2..Len(r) /\ j \in 2..Len(r)
      BY <2>4, <1>1
    <3>2. s[i - 1] = s[j - 1]
      BY <3>1, <1>2, <2>1
    <3>3. i - 1 \in DOMAIN s /\ j - 1 \in DOMAIN s
      BY <3>1, <1>2, <1>3
    <3>4. i - 1 = j - 1
      BY <3>2, <3>3 DEF NoDuplicates
    <3> QED
      BY <3>1, <3>4
  <2> QED
    BY <2>3, <2>4
<1>5. ToSet(r) = ToSet(s) \cup {t}
  <2>1. ASSUME NEW x \in ToSet(r) PROVE x \in ToSet(s) \cup {t}
    <3>1. PICK i \in 1..Len(r) : x = r[i]
      BY <2>1, <1>3 DEF ToSet
    <3>2. i = 1 \/ i \in 2..Len(r)
      BY <1>1
    <3> QED
      BY <3>1, <3>2, <1>1, <1>2, <1>3 DEF ToSet
  <2>2. ASSUME NEW x \in ToSet(s) \cup {t} PROVE x \in ToSet(r)
    <3>1. CASE x = t
      <4>1. 1 \in 1..Len(r)
        BY <1>1
      <4> QED
        BY <4>1, <3>1, <1>1, <1>3 DEF ToSet
    <3>2. CASE x \in ToSet(s)
      <4>1. PICK i \in 1..Len(s) : x = s[i]
        BY <3>2, <1>3 DEF ToSet
      <4>2. i + 1 \in 1..Len(r) /\ r[i + 1] = x
        BY <4>1, <1>1
      <4> QED
        BY <4>2, <1>3 DEF ToSet
    <3> QED
      BY <2>2, <3>1, <3>2
  <2> QED
    BY <2>1, <2>2
<1> QED
  BY <1>1, <1>4, <1>5 DEF r

\* Removing a thread from the queue it is on, or not, removes that thread and
\* nothing else (__pthread_dequeue).
LEMMA UnlinkLemma ==
  ASSUME NEW s \in Seq(Threads), NEW t, NoDuplicates(s)
  PROVE  /\ Unlink(s, t) \in Seq(Threads)
         /\ NoDuplicates(Unlink(s, t))
         /\ ToSet(Unlink(s, t)) = ToSet(s) \ {t}
<1>1. CASE t \notin ToSet(s)
  BY <1>1 DEF Unlink
<1>2. CASE t \in ToSet(s)
  <2> DEFINE p == CHOOSE i \in DOMAIN s : s[i] = t
             r == Unlink(s, t)
  <2>1. p \in 1..Len(s) /\ s[p] = t
    BY <1>2 DEF ToSet
  <2>2. r = SubSeq(s, 1, p - 1) \o SubSeq(s, p + 1, Len(s))
    BY <1>2 DEF Unlink, RemoveAt
  <2> DEFINE a == SubSeq(s, 1, p - 1)
             b == SubSeq(s, p + 1, Len(s))
  <2> HIDE DEF p, r
  <2>3. /\ a \in Seq(Threads)
        /\ Len(a) = p - 1
        /\ \A i \in 1..(p - 1) : a[i] = s[i]
    BY <2>1
  <2>4. /\ b \in Seq(Threads)
        /\ Len(b) = Len(s) - p
        /\ \A i \in 1..(Len(s) - p) : b[i] = s[p + i]
    BY <2>1
  <2>5. /\ r \in Seq(Threads)
        /\ Len(r) = Len(s) - 1
        /\ \A i \in 1..Len(r) : r[i] = IF i < p THEN s[i] ELSE s[i + 1]
    <3>1. r = a \o b
      BY <2>2
    <3> HIDE DEF a, b
    <3>2. /\ r \in Seq(Threads)
          /\ Len(r) = Len(a) + Len(b)
          /\ \A i \in 1..Len(a) + Len(b) : r[i] = IF i <= Len(a) THEN a[i] ELSE b[i - Len(a)]
      BY <3>1, <2>3, <2>4, ConcatProperties
    <3>3. Len(r) = Len(s) - 1
      BY <3>2, <2>1, <2>3, <2>4
    <3>4. ASSUME NEW i \in 1..Len(r)
          PROVE  r[i] = IF i < p THEN s[i] ELSE s[i + 1]
      <4>1. CASE i < p
        BY <4>1, <3>2, <3>3, <2>1, <2>3
      <4>2. CASE ~(i < p)
        <5>1. i - (p - 1) \in 1..(Len(s) - p) /\ p + (i - (p - 1)) = i + 1
          BY <4>2, <3>3, <2>1
        <5>2. r[i] = b[i - (p - 1)]
          BY <4>2, <3>2, <2>1, <2>3
        <5> QED
          BY <4>2, <5>1, <5>2, <2>4
      <4> QED
        BY <4>1, <4>2
    <3> QED
      BY <3>2, <3>3, <3>4
  <2>6. DOMAIN r = 1..Len(r) /\ DOMAIN s = 1..Len(s)
    BY <2>5
  <2> DEFINE f(i) == IF i < p THEN i ELSE i + 1
  <2>7. \A i \in 1..Len(r) : f(i) \in 1..Len(s) /\ f(i) # p /\ r[i] = s[f(i)]
    BY <2>1, <2>5
  <2>8. NoDuplicates(r)
    <3>1. SUFFICES ASSUME NEW i \in 1..Len(r), NEW j \in 1..Len(r), r[i] = r[j]
                   PROVE  i = j
      BY <2>6 DEF NoDuplicates
    <3>2. f(i) = f(j)
      <4> HIDE DEF f
      <4> QED
        BY <3>1, <2>6, <2>7 DEF NoDuplicates
    <3> QED
      BY <3>2, <2>1
  <2>9. ToSet(r) = ToSet(s) \ {t}
    <3>1. ASSUME NEW x \in ToSet(r) PROVE x \in ToSet(s) \ {t}
      <4>1. PICK i \in 1..Len(r) : x = r[i]
        BY <3>1, <2>6 DEF ToSet
      <4> HIDE DEF f
      <4> QED
        BY <4>1, <2>1, <2>6, <2>7 DEF ToSet, NoDuplicates
    <3>2. ASSUME NEW x \in ToSet(s) \ {t} PROVE x \in ToSet(r)
      <4>1. PICK i \in 1..Len(s) : x = s[i]
        BY <3>2, <2>6 DEF ToSet
      <4>2. i # p
        BY <4>1, <3>2, <2>1
      <4>3. PICK k \in 1..Len(r) : r[k] = x
        <5>1. CASE i < p
          BY <5>1, <4>1, <2>1, <2>5
        <5>2. CASE i > p
          <6>1. i - 1 \in 1..Len(r) /\ ~(i - 1 < p) /\ (i - 1) + 1 = i
            BY <5>2, <2>1, <2>5
          <6> QED
            BY <6>1, <4>1, <2>5
        <5> QED
          BY <4>2, <5>1, <5>2, <2>1
      <4> QED
        BY <4>3, <2>6 DEF ToSet
    <3> QED
      BY <3>1, <3>2
  <2> QED
    BY <2>5, <2>8, <2>9 DEF r
<1> QED
  BY <1>1, <1>2

\* The effect of an insertion on the sets of waiters.
LEMMA EnqueueStep ==
  ASSUME BlockTypeOK, \A q \in Queues : NoDuplicates(queue[q]),
         NEW m \in Queues, NEW t \in Threads, ~Linked(t), Enqueue(m, t)
  PROVE  /\ queue' \in [Queues -> Seq(Threads)]
         /\ \A q \in Queues : NoDuplicates(queue'[q])
         /\ \A q \in Queues : Waiters(q)' = IF q = m THEN Waiters(q) \cup {t} ELSE Waiters(q)
         /\ \A u \in Threads : Linked(u)' <=> (u = t \/ Linked(u))
<1>1. queue[m] \in Seq(Threads) /\ t \notin ToSet(queue[m]) /\ NoDuplicates(queue[m])
  BY DEF BlockTypeOK, Linked, Waiters
<1>2. /\ Cons(t, queue[m]) \in Seq(Threads)
      /\ NoDuplicates(Cons(t, queue[m]))
      /\ ToSet(Cons(t, queue[m])) = ToSet(queue[m]) \cup {t}
  BY <1>1, ConsLemma
<1>3. /\ queue' = [queue EXCEPT ![m] = Cons(t, queue[m])]
      /\ queue \in [Queues -> Seq(Threads)]
  BY DEF Enqueue, BlockTypeOK
<1>4. /\ queue' \in [Queues -> Seq(Threads)]
      /\ \A q \in Queues : queue'[q] = IF q = m THEN Cons(t, queue[m]) ELSE queue[q]
  BY <1>2, <1>3
<1>5. \A q \in Queues : Waiters(q)' = IF q = m THEN Waiters(q) \cup {t} ELSE Waiters(q)
  BY <1>2, <1>4 DEF Waiters
<1>6. \A u \in Threads : Linked(u)' <=> (u = t \/ Linked(u))
  BY <1>5 DEF Linked
<1> QED
  BY <1>2, <1>4, <1>5, <1>6

\* The effect of a removal on the sets of waiters.
LEMMA DequeueStep ==
  ASSUME BlockTypeOK, \A q \in Queues : NoDuplicates(queue[q]), NEW t, Dequeue(t)
  PROVE  /\ queue' \in [Queues -> Seq(Threads)]
         /\ \A q \in Queues : NoDuplicates(queue'[q])
         /\ \A q \in Queues : Waiters(q)' = Waiters(q) \ {t}
         /\ \A u \in Threads : Linked(u)' <=> (u # t /\ Linked(u))
<1>1. \A q \in Queues : /\ Unlink(queue[q], t) \in Seq(Threads)
                        /\ NoDuplicates(Unlink(queue[q], t))
                        /\ ToSet(Unlink(queue[q], t)) = ToSet(queue[q]) \ {t}
  BY UnlinkLemma DEF BlockTypeOK
<1>2. queue' \in [Queues -> Seq(Threads)] /\ \A q \in Queues : queue'[q] = Unlink(queue[q], t)
  BY <1>1 DEF Dequeue
<1>3. \A q \in Queues : Waiters(q)' = Waiters(q) \ {t}
  BY <1>1, <1>2 DEF Waiters
<1>4. \A u \in Threads : Linked(u)' <=> (u # t /\ Linked(u))
  BY <1>3 DEF Linked
<1> QED
  BY <1>1, <1>2, <1>3, <1>4

\* The first thread of a queue that is not empty is one of its waiters.
LEMMA HeadWaits ==
  ASSUME BlockTypeOK, NEW q \in Queues, queue[q] # <<>>
  PROVE  Head(queue[q]) \in Waiters(q) /\ Head(queue[q]) \in Threads
<1>1. queue[q] \in Seq(Threads)
  BY DEF BlockTypeOK
<1>2. Len(queue[q]) >= 1 /\ Head(queue[q]) = queue[q][1] /\ 1 \in DOMAIN queue[q]
  BY <1>1
<1> QED
  BY <1>1, <1>2 DEF Waiters, ToSet

\* The waiters of a queue are threads.
LEMMA WaitersAreThreads ==
  ASSUME BlockTypeOK, NEW q \in Queues
  PROVE  Waiters(q) \subseteq Threads
  BY DEF BlockTypeOK, Waiters, ToSet

\* Leaving the queues alone leaves their waiters alone.
LEMMA SameWaiters ==
  ASSUME UNCHANGED queue
  PROVE  /\ \A q \in Queues : Waiters(q)' = Waiters(q)
         /\ \A u \in Threads : Linked(u)' <=> Linked(u)
  BY DEF Waiters, Linked

\* A queue without members is empty.
LEMMA EmptyQueue ==
  ASSUME BlockTypeOK, NEW q \in Queues
  PROVE  queue[q] = <<>> <=> Waiters(q) = {}
<1>1. queue[q] \in Seq(Threads)
  BY DEF BlockTypeOK
<1>2. queue[q] # <<>> => Head(queue[q]) \in Waiters(q)
  BY HeadWaits
<1>3. queue[q] = <<>> => Waiters(q) = {}
  BY DEF Waiters, ToSet
<1> QED
  BY <1>2, <1>3
=============================================================================
