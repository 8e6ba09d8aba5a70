----------------------------- MODULE TimedWait -----------------------------
(***************************************************************************)
(* How sem_timedwait, pthread_rwlock_timedrdlock and timedwrlock wait on   *)
(* their object: join a queue under the object's spin lock, block outside  *)
(* it, then find out, under it again, whether somebody dequeued them.  The *)
(* three have this code in common, line for line; the modules of the       *)
(* objects put it together with what is their own.                         *)
(***************************************************************************)
EXTENDS PtInternal, FiniteSetsExt

CONSTANTS NoThread,   \* no thread
          Abstimes    \* the kinds of ABSTIME argument callers pass

ASSUME WaitAssumption == /\ NoThread \notin Threads
                         /\ Abstimes \subseteq {"null", "valid", "invalid"}

VARIABLES pc,       \* pc[t]: where t is in a call, "idle" outside
          target,   \* target[t]: the thread t has dequeued and must wake up
          spin      \* __lock of the object, left locked by a call that returned

waitVars == <<pc, target, spin>>

WaitPCs == {"idle", "block", "timedblock", "received", "timedout", "drain", "wakeup"}

WaitTypeOK == /\ BlockTypeOK
              /\ pc \in [Threads -> WaitPCs]
              /\ target \in [Threads -> Threads \cup {NoThread}]
              /\ spin \in BOOLEAN

WaitInit == /\ BlockInit
            /\ pc = [t \in Threads |-> "idle"]
            /\ target = [t \in Threads |-> NoThread]
            /\ spin = FALSE

Goto(t, l) == pc' = [pc EXCEPT ![t] = l]

\* t is about to make a call, and can take __lock.
Ready(t) == pc[t] = "idle" /\ ~spin

\* The object is busy and ABSTIME is bad: return without unlocking __lock.
BadAbstime(t, abstime) ==
  /\ abstime = "invalid"
  /\ spin' = TRUE
  /\ UNCHANGED <<blockVars, pc, target>>

\* The object is busy: join queue q, unlock __lock, go to block.
StartWait(t, q, abstime) ==
  /\ abstime # "invalid"
  /\ Enqueue(q, t)
  /\ Goto(t, IF abstime = "null" THEN "block" ELSE "timedblock")
  /\ UNCHANGED <<port, target, spin>>

Receive(t) ==
  /\ pc[t] \in {"block", "timedblock"}
  /\ Block(t)
  /\ Goto(t, "received")
  /\ UNCHANGED <<queue, target, spin>>

\* Mutant of TimeOut: the timeout also discards a message that has arrived.
TimeOutDiscards(t) ==
  /\ pc[t] = "timedblock"
  /\ Goto(t, "timedout")
  /\ port' = [port EXCEPT ![t] = FALSE]
  /\ UNCHANGED <<queue, target, spin>>

\* It may time out with a message in the port.
TimeOut(t) ==
  /\ pc[t] = "timedblock"
  /\ Goto(t, "timedout")
  /\ UNCHANGED <<blockVars, target, spin>>

\* Under __lock again, err = 0: leave the queue if still on it; return 0.
Succeed(t) ==
  /\ pc[t] = "received" /\ ~spin
  /\ Dequeue(t)
  /\ Goto(t, "idle")
  /\ UNCHANGED <<port, target, spin>>

\* Under __lock again, timed out and still queued: return ETIMEDOUT.
GiveUp(t) ==
  /\ pc[t] = "timedout" /\ ~spin
  /\ Linked(t)
  /\ Dequeue(t)
  /\ Goto(t, "idle")
  /\ UNCHANGED <<port, target, spin>>

\* Mutant of MustDrain: the call returns at once and leaves the message.
ReturnUndrained(t) ==
  /\ pc[t] = "timedout" /\ ~spin
  /\ ~Linked(t)
  /\ Goto(t, "idle")
  /\ UNCHANGED <<blockVars, target, spin>>

\* Under __lock again, timed out but dequeued since: a message will come.
MustDrain(t) ==
  /\ pc[t] = "timedout" /\ ~spin
  /\ ~Linked(t)
  /\ Goto(t, "drain")
  /\ UNCHANGED <<blockVars, target, spin>>

\* The message is consumed and the call returns ETIMEDOUT all the same.
Drain(t) ==
  /\ pc[t] = "drain"
  /\ Block(t)
  /\ Goto(t, "idle")
  /\ UNCHANGED <<queue, target, spin>>

\* The waker's side: w is dequeued, and woken up after __lock is unlocked.
WakeOne(t, w) ==
  /\ Dequeue(w)
  /\ target' = [target EXCEPT ![t] = w]
  /\ Goto(t, "wakeup")
  /\ UNCHANGED <<port, spin>>

SendWakeup(t) ==
  /\ pc[t] = "wakeup"
  /\ Wakeup(target[t])
  /\ target' = [target EXCEPT ![t] = NoThread]
  /\ Goto(t, "idle")
  /\ UNCHANGED <<queue, spin>>

-----------------------------------------------------------------------------
\* t was dequeued by a waker and has not finished the call yet.
Dequeued(t) == /\ pc[t] \in {"block", "timedblock", "timedout", "drain"}
               /\ ~Linked(t)

\* What a waker gave t is still t's to take: its call has not returned.
Owed(t) == pc[t] = "received" \/ Dequeued(t)

\* t will take what it was given, or has taken it and not returned yet.
Handed(t) == pc[t] = "received" \/ (pc[t] \in {"block", "timedblock"} /\ ~Linked(t))

\* A thread that was dequeued has exactly one message sent or about to be
\* sent, any other thread none: no wakeup is lost, none meets a full port
\* (__pthread_wakeup asserts that), none is left to end a later wait.
OneMessageOwed ==
  \A t \in Threads :
    LET owing == {u \in Threads : pc[u] = "wakeup" /\ target[u] = t}
    IN /\ port[t] => owing = {}
       /\ \A u, v \in owing : u = v
       /\ Dequeued(t) <=> port[t] \/ owing # {}
=============================================================================
