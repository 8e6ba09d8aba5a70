----------------------------- MODULE PtInternal -----------------------------
(***************************************************************************)
(* The two mechanisms every synchronisation object of the library is built *)
(* from (pthread/pt-internal.h and sysdeps/mach):                          *)
(*                                                                         *)
(*  - the intrusive wait queue.  A thread has ONE pair of links (next,     *)
(*    prevp), so it is on at most one queue at a time, and the library     *)
(*    reads prevp to find out whether a thread was already awakened;       *)
(*  - block/wakeup.  A thread blocks by receiving a message on its own     *)
(*    wakeup port; a waker sends one.  The port holds one message.         *)
(***************************************************************************)
EXTENDS Integers, SequencesExt

CONSTANTS Threads,   \* the struct __pthread of the process
          Queues     \* the objects with a queue head: mutexes, conditions...

VARIABLES queue,     \* queue[q]: the threads linked on q, first one first
          port       \* port[t]: a wakeup message is queued on t's port

blockVars == <<queue, port>>

BlockTypeOK == /\ queue \in [Queues -> Seq(Threads)]
               /\ port \in [Threads -> BOOLEAN]

BlockInit == /\ queue = [q \in Queues |-> <<>>]
             /\ port = [t \in Threads |-> FALSE]

-----------------------------------------------------------------------------
(* The queue.                                                              *)

\* The threads linked on queue q.
Waiters(q) == ToSet(queue[q])

\* self->prevp != NULL: t is on some queue, whichever it is.
Linked(t) == \E q \in Queues : t \in Waiters(q)

\* No thread is on the sequence twice.
NoDuplicates(s) == \A i, j \in DOMAIN s : s[i] = s[j] => i = j

\* Sequence s without thread t.
Unlink(s, t) ==
  IF t \in ToSet(s) THEN RemoveAt(s, CHOOSE i \in DOMAIN s : s[i] = t) ELSE s

\* __pthread_enqueue: insertion is at the head.
Enqueue(q, t) == queue' = [queue EXCEPT ![q] = Cons(t, @)]

\* __pthread_dequeue: t leaves the queue it is connected to, if any.
Dequeue(t) == queue' = [q \in Queues |-> Unlink(queue[q], t)]

-----------------------------------------------------------------------------
(* Blocking and waking up.                                                 *)

\* __pthread_block: receive the message that a waker sends.
Block(t) == /\ port[t]
            /\ port' = [port EXCEPT ![t] = FALSE]

\* __pthread_wakeup: send with a timeout of 0, which fails (and the library
\* aborts on it) unless the port is empty.
Wakeup(t) == /\ ~port[t]
             /\ port' = [port EXCEPT ![t] = TRUE]
=============================================================================
