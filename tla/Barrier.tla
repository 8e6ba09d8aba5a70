------------------------------ MODULE Barrier ------------------------------
(***************************************************************************)
(* The barrier of sysdeps/generic/pt-barrier-*.c.  The last thread of a    *)
(* round takes the list of waiters off the barrier and wakes them up one   *)
(* by one, without the lock, while those it has woken up may already be    *)
(* back at the barrier for the next round.                                 *)
(***************************************************************************)
EXTENDS PtInternal

CONSTANTS TheBarrier,   \* the barrier
          Counts,       \* the counts pthread_barrier_init is called with
          MaxRounds     \* bound: the rounds threads arrive for

ASSUME BarrierAssumption == /\ Queues = {TheBarrier}
                            /\ Counts \subseteq Nat \ {0}
                            /\ MaxRounds \in Nat

VARIABLES count,      \* barrier->count
          pending,    \* barrier->pending
          spin,       \* barrier->lock, left locked by a call that returned
          pc,         \* pc[t]: "idle", "block", or "walk" for the last of a round
          walk,       \* walk[t]: what is left of the list that t walks
          round,      \* rounds that are complete
          arrivals,   \* calls of pthread_barrier_wait
          myround     \* myround[t]: the round t arrived in last

vars == <<blockVars, count, pending, spin, pc, walk, round, arrivals, myround>>

BarrierTypeOK == /\ BlockTypeOK
                 /\ count \in Counts
                 /\ pending \in 0..count
                 /\ spin \in BOOLEAN
                 /\ pc \in [Threads -> {"idle", "block", "walk"}]
                 /\ walk \in [Threads -> Seq(Threads)]
                 /\ round \in Nat /\ arrivals \in Nat
                 /\ myround \in [Threads -> Nat]

BarrierInit == /\ BlockInit
               /\ count \in Counts
               /\ pending = count
               /\ spin = FALSE
               /\ pc = [t \in Threads |-> "idle"]
               /\ walk = [t \in Threads |-> <<>>]
               /\ round = 0 /\ arrivals = 0
               /\ myround = [t \in Threads |-> 0]

Goto(t, l) == pc' = [pc EXCEPT ![t] = l]

\* t calls pthread_barrier_wait and can take the lock.
Arrive(t) == /\ pc[t] = "idle" /\ ~spin
             /\ arrivals < MaxRounds * count
             /\ arrivals' = arrivals + 1
             /\ myround' = [myround EXCEPT ![t] = round]

\* Mutant of IsLast: -- pending is compared one too early.
IsLastEarly == pending <= 2

\* -- barrier->pending == 0
IsLast == pending = 1

\* Not the last: join the list and block.
WaitForOthers(t) ==
  /\ Arrive(t) /\ ~IsLast
  /\ pending' = pending - 1
  /\ Enqueue(TheBarrier, t)
  /\ Goto(t, "block")
  /\ UNCHANGED <<port, count, spin, walk, round>>

\* Mutant of LastOfRound: the list stays on the barrier.
LastKeepsList(t) ==
  /\ Arrive(t) /\ IsLast /\ count > 1
  /\ pending' = count
  /\ walk' = [walk EXCEPT ![t] = queue[TheBarrier]]
  /\ round' = round + 1
  /\ Goto(t, "walk")
  /\ UNCHANGED <<blockVars, count, spin>>

\* The last of a round: reset the barrier, take the list, unlock.
LastOfRound(t) ==
  /\ Arrive(t) /\ IsLast /\ count > 1
  /\ pending' = count
  /\ walk' = [walk EXCEPT ![t] = queue[TheBarrier]]
  /\ queue' = [queue EXCEPT ![TheBarrier] = <<>>]
  /\ round' = round + 1
  /\ Goto(t, "walk")
  /\ UNCHANGED <<port, count, spin>>

\* The only thread of a round: the call returns without unlocking the lock.
OnlyOfRound(t) ==
  /\ Arrive(t) /\ IsLast /\ count = 1
  /\ pending' = count
  /\ spin' = TRUE
  /\ round' = round + 1
  /\ UNCHANGED <<blockVars, count, pc, walk>>

\* Mutant of WakeNext: the walk skips one thread when it can.
WakeSkips(t) ==
  /\ pc[t] = "walk" /\ walk[t] # <<>>
  /\ Wakeup(Head(walk[t]))
  /\ walk' = [walk EXCEPT ![t] = IF Len(@) > 1 THEN Tail(Tail(@)) ELSE <<>>]
  /\ UNCHANGED <<queue, count, pending, spin, pc, round, arrivals, myround>>

\* One step of the walk: unlink the thread, wake it up.
WakeNext(t) ==
  /\ pc[t] = "walk" /\ walk[t] # <<>>
  /\ Wakeup(Head(walk[t]))
  /\ walk' = [walk EXCEPT ![t] = Tail(@)]
  /\ UNCHANGED <<queue, count, pending, spin, pc, round, arrivals, myround>>

\* The end of the walk: return PTHREAD_BARRIER_SERIAL_THREAD.
ReturnSerial(t) ==
  /\ pc[t] = "walk" /\ walk[t] = <<>>
  /\ Goto(t, "idle")
  /\ UNCHANGED <<blockVars, count, pending, spin, walk, round, arrivals, myround>>

\* __pthread_block receives the message: return 0.
ReturnZero(t) ==
  /\ pc[t] = "block"
  /\ Block(t)
  /\ Goto(t, "idle")
  /\ UNCHANGED <<queue, count, pending, spin, walk, round, arrivals, myround>>

BarrierContinue(t) == WakeNext(t) \/ ReturnSerial(t) \/ ReturnZero(t)

\* Between rounds the program may destroy the barrier and initialise it again,
\* for as many threads as it likes, but not none.
pthread_barrier_init(c) ==
  /\ \A t \in Threads : pc[t] = "idle"
  /\ c # 0
  /\ count' = c /\ pending' = c /\ spin' = FALSE
  /\ round' = 0 /\ arrivals' = 0 /\ myround' = [t \in Threads |-> 0]
  /\ UNCHANGED <<blockVars, pc, walk>>

BarrierNext == \/ \E t \in Threads :
                    \/ BarrierContinue(t)
                    \/ WaitForOthers(t) \/ LastOfRound(t) \/ OnlyOfRound(t)
               \/ \E c \in Counts : pthread_barrier_init(c)

\* Threads that are runnable are scheduled.
BarrierSpec == /\ BarrierInit /\ [][BarrierNext]_vars
               /\ \A t \in Threads : WF_vars(BarrierContinue(t))

-----------------------------------------------------------------------------
\* Exactly COUNT threads make a round, "number of threads that must wait before
\* barrier is passed" (bits/barrier.h), however the rounds overlap: those that
\* have arrived since the last round are on the list, and nobody else.
RoundsAreFull == /\ arrivals = round * count + (count - pending)
                 /\ Len(queue[TheBarrier]) = count - pending
                 /\ \A t \in Waiters(TheBarrier) : myround[t] = round

\* Nobody passes before its round is complete, and nobody is woken up twice or
\* in two rounds: a thread that blocks is on the barrier's list in the current
\* round, or its round is over and it has one message, or is to be sent one by
\* one thread that walks one list.
NobodyEarlyNorTwice ==
  \A t \in Threads :
    LET walkers == {u \in Threads : t \in ToSet(walk[u])}
    IN /\ port[t] => walkers = {}
       /\ \A u, v \in walkers : u = v
       /\ (port[t] \/ walkers # {}) <=> pc[t] = "block" /\ myround[t] < round
       /\ t \in Waiters(TheBarrier) <=> pc[t] = "block" /\ myround[t] = round

\* When the last thread of a round has arrived, all of them return.
RoundReturns ==
  \A t \in Threads : pc[t] = "block" /\ myround[t] < round ~> pc[t] = "idle"
=============================================================================
