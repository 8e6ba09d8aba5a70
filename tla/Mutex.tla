------------------------------- MODULE Mutex -------------------------------
(***************************************************************************)
(* The mutex of sysdeps/generic/pt-mutex-*.c.                              *)
(*                                                                         *)
(* A section of code between __pthread_spin_lock and __pthread_spin_unlock *)
(* of mutex->__lock is one atomic action, enabled while __lock is free;    *)
(* `spin' is TRUE only when a call RETURNS with __lock held.  Everything   *)
(* the code does outside __lock (blocking, sending the wakeup message,     *)
(* recording the owner after a wakeup) is an action of its own.            *)
(*                                                                         *)
(* An unlock with waiters does not clear __held: it hands the mutex to the *)
(* thread it dequeues, which is its owner from then on.                    *)
(***************************************************************************)
EXTENDS PtInternal

CONSTANTS Mutexes,     \* the mutexes, whose queue heads are in Queues
          NoThread,    \* the null owner
          MutexTypes,  \* the mutex types in use
          Abstimes,    \* the kinds of ABSTIME argument callers pass
          NDEBUG,      \* the library is compiled with -DNDEBUG
          UIntMax,     \* the largest unsigned int, the type of mutex->locks
          MaxLocks     \* bound: recursive locks a caller stacks up

ASSUME MutexAssumption ==
  /\ Mutexes \subseteq Queues /\ Mutexes # {}
  /\ NoThread \notin Threads
  /\ MutexTypes \subseteq {"normal", "errorcheck", "recursive"}
  /\ Abstimes \subseteq {"null", "valid", "invalid"}
  /\ NDEBUG \in BOOLEAN
  /\ UIntMax \in Nat \ {0} /\ MaxLocks \in 1..UIntMax

VARIABLES type,    \* type[m]: attr->mutex_type
          held,    \* held[m]: __held
          spin,    \* spin[m]: __lock, left locked by a call that returned
          owner,   \* owner[m]
          locks,   \* locks[m]
          pc,      \* pc[t]: where t is in a mutex call, "idle" outside
          obj,     \* obj[t]: the mutex of t's last call that had to wait
          target,  \* target[t]: the thread t has dequeued and must wake up
          ret,     \* ret[t]: what t's last mutex call returned
          got      \* got[t][m]: locks of m granted to t less those t undid

mutexVars == <<type, held, spin, owner, locks, pc, obj, target, ret, got>>
vars == <<blockVars, mutexVars>>

Results == {"0", "EDEADLK", "EBUSY", "EPERM", "EINVAL", "ETIMEDOUT", "ESRCH"}

\* Where a thread can be in a call: blocking without or with a timeout, back
\* from a receive, back from a timeout, about to drain its port, about to
\* record that it owns the mutex; or, in an unlock, about to send the wakeup.
PCs == {"idle", "block", "timedblock", "received", "timedout", "drain",
        "gain", "wakeup"}

MutexTypeOK ==
  /\ BlockTypeOK
  /\ type \in [Mutexes -> MutexTypes]
  /\ held \in [Mutexes -> BOOLEAN]
  /\ spin \in [Mutexes -> BOOLEAN]
  /\ owner \in [Mutexes -> Threads \cup {NoThread}]
  /\ locks \in [Mutexes -> 0..UIntMax]
  /\ pc \in [Threads -> PCs]
  /\ obj \in [Threads -> Mutexes]
  /\ target \in [Threads -> Threads \cup {NoThread}]
  /\ ret \in [Threads -> Results]
  /\ got \in [Threads -> [Mutexes -> Nat]]

AnyMutex == CHOOSE m \in Mutexes : TRUE

MutexInit ==
  /\ BlockInit
  /\ type \in [Mutexes -> MutexTypes]
  /\ held = [m \in Mutexes |-> FALSE]
  /\ spin = [m \in Mutexes |-> FALSE]
  /\ owner = [m \in Mutexes |-> NoThread]
  /\ locks = [m \in Mutexes |-> 0]
  /\ pc = [t \in Threads |-> "idle"]
  /\ obj = [t \in Threads |-> AnyMutex]
  /\ target = [t \in Threads |-> NoThread]
  /\ ret = [t \in Threads |-> "0"]
  /\ got = [t \in Threads |-> [m \in Mutexes |-> 0]]

Goto(t, l) == pc' = [pc EXCEPT ![t] = l]
Return(t, r) == ret' = [ret EXCEPT ![t] = r]
Grant(t, m) == got' = [got EXCEPT ![t][m] = @ + 1]
Ungrant(t, m) == got' = [got EXCEPT ![t][m] = IF @ = 0 THEN 0 ELSE @ - 1]

\* mutex->locks is unsigned: ++ and -- wrap around.
Incr(n) == IF n = UIntMax THEN 0 ELSE n + 1
Decr(n) == IF n = 0 THEN UIntMax ELSE n - 1

-----------------------------------------------------------------------------
(* __pthread_mutex_timedlock_internal, up to the point where it blocks;    *)
(* __pthread_mutex_lock calls it with a null ABSTIME.                      *)

\* The mutex is free: __held is set, and the owner recorded if the type has
\* one.  The same code is in __pthread_mutex_trylock.
Acquire(t, m) ==
  /\ pc[t] = "idle" /\ ~spin[m]
  /\ ~held[m]
  /\ held' = [held EXCEPT ![m] = TRUE]
  /\ owner' = [owner EXCEPT ![m] = IF type[m] = "normal" THEN @ ELSE t]
  /\ locks' = [locks EXCEPT ![m] = IF type[m] = "recursive" THEN 1 ELSE @]
  /\ Grant(t, m) /\ Return(t, "0")
  /\ UNCHANGED <<blockVars, type, spin, pc, obj, target>>

\* The owner of a recursive mutex locks it once more (also in trylock).
Relock(t, m) ==
  /\ pc[t] = "idle" /\ ~spin[m]
  /\ held[m] /\ type[m] = "recursive" /\ owner[m] = t
  /\ got[t][m] < MaxLocks
  /\ locks' = [locks EXCEPT ![m] = Incr(@)]
  /\ Grant(t, m) /\ Return(t, "0")
  /\ UNCHANGED <<blockVars, type, held, spin, owner, pc, obj, target>>

\* The owner of an error checking mutex is refused a second lock.
Deadlk(t, m) ==
  /\ pc[t] = "idle" /\ ~spin[m]
  /\ held[m] /\ type[m] = "errorcheck" /\ owner[m] = t
  /\ Return(t, "EDEADLK")
  /\ UNCHANGED <<blockVars, type, held, spin, owner, locks, pc, obj, target, got>>

\* The mutex is busy and the caller may wait for it.
Busy(t, m) == /\ pc[t] = "idle" /\ ~spin[m]
              /\ held[m]
              /\ type[m] = "normal" \/ owner[m] # t

\* tv_nsec is out of range: the call returns without unlocking __lock.
BadAbstime(t, m) ==
  /\ Busy(t, m)
  /\ spin' = [spin EXCEPT ![m] = TRUE]
  /\ Return(t, "EINVAL")
  /\ UNCHANGED <<blockVars, type, held, owner, locks, pc, obj, target, got>>

\* The caller queues itself and goes to block.
Wait(t, m, abstime) ==
  /\ Busy(t, m)
  /\ Enqueue(m, t)
  /\ obj' = [obj EXCEPT ![t] = m]
  /\ Goto(t, IF abstime = "null" THEN "block" ELSE "timedblock")
  /\ UNCHANGED <<port, type, held, spin, owner, locks, target, ret, got>>

TimedLock(t, m, abstime) ==
  \/ Acquire(t, m)
  \/ Relock(t, m)
  \/ Deadlk(t, m)
  \/ abstime = "invalid" /\ BadAbstime(t, m)
  \/ abstime # "invalid" /\ Wait(t, m, abstime)

-----------------------------------------------------------------------------
(* __pthread_mutex_timedlock_internal, from the blocking on.               *)

\* __pthread_block or __pthread_timedblock receives the wakeup message.
Receive(t) ==
  /\ pc[t] \in {"block", "timedblock"}
  /\ Block(t)
  /\ Goto(t, "received")
  /\ UNCHANGED <<queue, type, held, spin, owner, locks, obj, target, ret, got>>

\* Mutant of TimeOut: the timeout also discards a message that has arrived.
TimeOutDiscards(t) ==
  /\ pc[t] = "timedblock"
  /\ Goto(t, "timedout")
  /\ port' = [port EXCEPT ![t] = FALSE]
  /\ UNCHANGED <<queue, type, held, spin, owner, locks, obj, target, ret, got>>

\* __pthread_timedblock returns ETIMEDOUT.  It may do so with a message in
\* the port: it looks at the clock before it receives.
TimeOut(t) ==
  /\ pc[t] = "timedblock"
  /\ Goto(t, "timedout")
  /\ UNCHANGED <<blockVars, type, held, spin, owner, locks, obj, target, ret, got>>

\* Under __lock again, err = 0: leave the queue if still on it.
Recheck(t) ==
  /\ pc[t] = "received" /\ ~spin[obj[t]]
  /\ Dequeue(t)
  /\ Goto(t, "gain")
  /\ UNCHANGED <<port, type, held, spin, owner, locks, obj, target, ret, got>>

\* Under __lock again, err = ETIMEDOUT: still queued, so give up...
GiveUp(t) ==
  /\ pc[t] = "timedout" /\ ~spin[obj[t]]
  /\ Linked(t)
  /\ Dequeue(t)
  /\ Goto(t, "idle") /\ Return(t, "ETIMEDOUT")
  /\ UNCHANGED <<port, type, held, spin, owner, locks, obj, target, got>>

\* Mutant of MustDrain: the call returns at once and leaves the message.
ReturnUndrained(t) ==
  /\ pc[t] = "timedout" /\ ~spin[obj[t]]
  /\ ~Linked(t)
  /\ Goto(t, "idle") /\ Return(t, "ETIMEDOUT")
  /\ UNCHANGED <<blockVars, type, held, spin, owner, locks, obj, target, got>>

\* ... or dequeued by an unlock since, so a message is on its way.
MustDrain(t) ==
  /\ pc[t] = "timedout" /\ ~spin[obj[t]]
  /\ ~Linked(t)
  /\ Goto(t, "drain")
  /\ UNCHANGED <<blockVars, type, held, spin, owner, locks, obj, target, ret, got>>

\* The message is consumed and the call returns ETIMEDOUT all the same.
Drain(t) ==
  /\ pc[t] = "drain"
  /\ Block(t)
  /\ Goto(t, "idle") /\ Return(t, "ETIMEDOUT")
  /\ UNCHANGED <<queue, type, held, spin, owner, locks, obj, target, got>>

\* The mutex was handed over: record it, outside __lock, and return 0.
Gain(t) ==
  LET m == obj[t] IN
  /\ pc[t] = "gain"
  /\ owner' = [owner EXCEPT ![m] = IF type[m] = "normal" THEN @ ELSE t]
  /\ locks' = [locks EXCEPT ![m] = IF type[m] = "recursive" THEN 1 ELSE @]
  /\ Grant(t, m) /\ Goto(t, "idle") /\ Return(t, "0")
  /\ UNCHANGED <<blockVars, type, held, spin, obj, target>>

-----------------------------------------------------------------------------
(* __pthread_mutex_trylock, __pthread_mutex_unlock and                     *)
(* __pthread_mutex_transfer_np.                                            *)

TryBusy(t, m) ==
  /\ pc[t] = "idle" /\ ~spin[m]
  /\ held[m] /\ ~(type[m] = "recursive" /\ owner[m] = t)
  /\ Return(t, "EBUSY")
  /\ UNCHANGED <<blockVars, type, held, spin, owner, locks, pc, obj, target, got>>

TryLock(t, m) == Acquire(t, m) \/ Relock(t, m) \/ TryBusy(t, m)

\* A type with an owner refuses the unlock of anybody else.
NotOwner(t, m) ==
  /\ pc[t] = "idle" /\ ~spin[m]
  /\ type[m] # "normal" /\ owner[m] # t
  /\ Return(t, "EPERM")
  /\ UNCHANGED <<blockVars, type, held, spin, owner, locks, pc, obj, target, got>>

MayUnlock(t, m) == /\ pc[t] = "idle" /\ ~spin[m]
                   /\ type[m] = "normal" \/ owner[m] = t

\* Mutant of StillLocked: the count of recursive locks is not looked at.
NeverStillLocked(m) == FALSE

\* --mutex->locks > 0, for a recursive mutex: not the last unlock.
StillLocked(m) == type[m] = "recursive" /\ Decr(locks[m]) > 0

\* Mutant of Unlocked: the count is decremented whatever the type.
DecrementAlways(m) == locks' = [locks EXCEPT ![m] = @ - 1]

\* What the last unlock leaves in mutex->locks.
Unlocked(m) == locks' = [locks EXCEPT ![m] = IF type[m] = "recursive" THEN 0 ELSE @]

\* One of several recursive locks is undone.
UnlockOnce(t, m) ==
  /\ MayUnlock(t, m)
  /\ StillLocked(m)
  /\ locks' = [locks EXCEPT ![m] = Decr(@)]
  /\ Ungrant(t, m) /\ Return(t, "0")
  /\ UNCHANGED <<blockVars, type, held, spin, owner, pc, obj, target>>

\* Mutant of Release: __held is cleared without a look at the queue.
ReleaseUnseeing(t, m) ==
  /\ MayUnlock(t, m)
  /\ ~StillLocked(m)
  /\ held' = [held EXCEPT ![m] = FALSE]
  /\ owner' = [owner EXCEPT ![m] = NoThread]
  /\ Unlocked(m)
  /\ Ungrant(t, m) /\ Return(t, "0")
  /\ UNCHANGED <<blockVars, type, spin, pc, obj, target>>

\* Nobody waits: __held is cleared.
Release(t, m) ==
  /\ MayUnlock(t, m)
  /\ ~StillLocked(m)
  /\ queue[m] = <<>>
  /\ held' = [held EXCEPT ![m] = FALSE]
  /\ owner' = [owner EXCEPT ![m] = NoThread]
  /\ Unlocked(m)
  /\ Ungrant(t, m) /\ Return(t, "0")
  /\ UNCHANGED <<blockVars, type, spin, pc, obj, target>>

\* Mutant of NewOwner: a hand-off does not record the new owner.
NewOwnerUntracked(m, wakeup) == NoThread

\* The owner that an unlock records for the thread it hands the mutex to.
NewOwner(m, wakeup) ==
  IF type[m] = "normal" \/ NDEBUG THEN NoThread ELSE wakeup

\* Mutant of HandOff: __held is cleared too, so that others can get in before
\* the thread that is woken up.
HandOffUnheld(t, m) ==
  LET wakeup == Head(queue[m]) IN
  /\ MayUnlock(t, m)
  /\ ~StillLocked(m)
  /\ queue[m] # <<>>
  /\ Dequeue(wakeup)
  /\ held' = [held EXCEPT ![m] = FALSE]
  /\ owner' = [owner EXCEPT ![m] = NewOwner(m, wakeup)]
  /\ Unlocked(m)
  /\ Ungrant(t, m)
  /\ target' = [target EXCEPT ![t] = wakeup]
  /\ Goto(t, "wakeup")
  /\ UNCHANGED <<port, type, spin, obj, ret>>

\* Somebody waits: the first of the queue is dequeued and owns the mutex;
\* the message to it is sent after __lock is released.
HandOff(t, m) ==
  LET wakeup == Head(queue[m]) IN
  /\ MayUnlock(t, m)
  /\ ~StillLocked(m)
  /\ queue[m] # <<>>
  /\ Dequeue(wakeup)
  /\ owner' = [owner EXCEPT ![m] = NewOwner(m, wakeup)]
  /\ Unlocked(m)
  /\ Ungrant(t, m)
  /\ target' = [target EXCEPT ![t] = wakeup]
  /\ Goto(t, "wakeup")
  /\ UNCHANGED <<port, type, held, spin, obj, ret>>

\* The last statement of an unlock that handed the mutex off.
SendWakeup(t) ==
  /\ pc[t] = "wakeup"
  /\ Wakeup(target[t])
  /\ target' = [target EXCEPT ![t] = NoThread]
  /\ Goto(t, "idle") /\ Return(t, "0")
  /\ UNCHANGED <<queue, type, held, spin, owner, locks, obj, got>>

Unlock(t, m) ==
  \/ NotOwner(t, m)
  \/ UnlockOnce(t, m)
  \/ Release(t, m)
  \/ HandOff(t, m)

\* An errorcheck mutex is not transferred by a thread that does not own it.
TransferRefused(t, m) == type[m] = "errorcheck" /\ owner[m] # t

\* The owner makes another thread the owner, without taking __lock.  That the
\* caller is the owner is an assertion, which rules out a mutex of type normal.
\* Without assertions only an errorcheck mutex gets a new owner, though the call
\* returns 0 for the others too.  TID may name no thread, or the caller.
Transfer(t, m, u) ==
  /\ pc[t] = "idle"
  /\ NDEBUG \/ owner[m] = t
  /\ IF u \in {NoThread, t} \/ TransferRefused(t, m)
     THEN UNCHANGED <<owner, got>>
     ELSE /\ owner' = [owner EXCEPT ![m] =
                         IF type[m] = "errorcheck" \/ ~NDEBUG THEN u ELSE @]
          /\ got' = [got EXCEPT ![t][m] = 0, ![u][m] = got[t][m]]
  /\ Return(t, CASE u = NoThread -> "ESRCH"
                 [] u \in Threads \ {t} /\ TransferRefused(t, m) -> "EPERM"
                 [] OTHER -> "0")
  /\ UNCHANGED <<blockVars, type, held, spin, locks, pc, obj, target>>

-----------------------------------------------------------------------------
(* The threads, as clients of the mutexes.  What they do within the rules: *)
(* only the thread that was granted a mutex of type normal unlocks it, and *)
(* it does not lock it again without a timeout; a mutex is transferred by  *)
(* the thread that was granted it (an errorcheck mutex refuses others), and *)
(* not to a thread that is in the middle of locking it.                    *)

MayLock(t, m, abstime) == type[m] = "normal" /\ got[t][m] > 0 => abstime # "null"
MayCallUnlock(t, m) == type[m] = "normal" => got[t][m] > 0
MayTransfer(t, m, u) == /\ got[t][m] > 0 \/ TransferRefused(t, m)
                        /\ u # NoThread /\ obj[u] = m => pc[u] \in {"idle", "wakeup"}

\* The rest of a call that is under way: a step the scheduler lets t take.
Continue(t) ==
  \/ Receive(t)
  \/ TimeOut(t)
  \/ Recheck(t)
  \/ GiveUp(t)
  \/ MustDrain(t)
  \/ Drain(t)
  \/ Gain(t)
  \/ SendWakeup(t)

Call(t, m) ==
  \/ \E abstime \in Abstimes : MayLock(t, m, abstime) /\ TimedLock(t, m, abstime)
  \/ TryLock(t, m)
  \/ MayCallUnlock(t, m) /\ Unlock(t, m)
  \/ \E u \in Threads \cup {NoThread} : MayTransfer(t, m, u) /\ Transfer(t, m, u)

MutexNext == \E t \in Threads : Continue(t) \/ \E m \in Mutexes : Call(t, m)

MutexSpec == MutexInit /\ [][MutexNext]_vars

-----------------------------------------------------------------------------
(* What makes the mutex correct.                                           *)

\* t was dequeued by an unlock and has not finished the call yet.
Dequeued(t) == /\ pc[t] \in {"block", "timedblock", "timedout", "drain"}
               /\ ~Linked(t)

\* An unlock handed m to t, which is going to take the message, or has taken
\* it, as a success.
Handed(t, m) == /\ obj[t] = m
                /\ \/ pc[t] \in {"received", "gain"}
                   \/ pc[t] \in {"block", "timedblock"} /\ ~Linked(t)

\* t is entitled to m: m was granted to it, or handed to it.
Claims(t, m) == got[t][m] > 0 \/ Handed(t, m)

\* No two threads hold a mutex, one that an unlock has handed over but that
\* its new owner has not returned with included (pt-mutex-timedlock.c,
\* pt-mutex-unlock.c).
MutualExclusion ==
  \A m \in Mutexes : \A t, u \in Threads : Claims(t, m) /\ Claims(u, m) => t = u

\* A mutex marked held is held by somebody: no path through lock, unlock or
\* a timeout leaves __held set with nobody left to clear it.
NeverOrphaned ==
  \A m \in Mutexes : held[m] <=> \E t \in Threads : Claims(t, m)

\* The same seen by the callers: once no call is under way, a mutex is held
\* only if some caller was granted it.  An unlock does not clear __held
\* because it is "transferring the ownership to the thread that we are waking
\* up" (pt-mutex-unlock.c).
HeldByACaller ==
  (\A t \in Threads : pc[t] = "idle")
    => \A m \in Mutexes : held[m] => \E t \in Threads : got[t][m] > 0

\* What the assertions and the checks on mutex->owner rely on: the holder of
\* a mutex that has an owner is that owner, and a recursive mutex counts the
\* holder's locks exactly.
OwnerIsHolder ==
  \A m \in Mutexes, t \in Threads :
    type[m] # "normal" /\ Claims(t, m)
      => /\ owner[m] = t
         /\ type[m] = "recursive" => locks[m] = got[t][m]

\* The send in __pthread_wakeup does not fail: the port of a thread that an
\* unlock is about to wake up is empty, whatever else that thread went
\* through since it was dequeued.
WakeupDelivered ==
  \A t \in Threads : pc[t] = "wakeup" => ~port[target[t]]

\* A thread that was dequeued finds a message in its port, or somebody is
\* about to send one: it does not block, or drain, for ever.
NoLostWakeup ==
  \A t \in Threads :
    Dequeued(t) => port[t] \/ \E u \in Threads : pc[u] = "wakeup" /\ target[u] = t

\* A message is in the port only of the call it was sent for: none is left
\* behind to end a later, unrelated wait of the same thread.
NoStrayMessage == \A t \in Threads : port[t] => Dequeued(t)

-----------------------------------------------------------------------------
(* Liveness.                                                               *)

\* Threads are scheduled: a call that can continue does.
Scheduled == \A t \in Threads : WF_vars(Continue(t))

\* Callers do not keep a mutex for ever: one that is able, again and again,
\* to undo a lock of m, or its last one, does so.
CallersUnlock ==
  \A t \in Threads, m \in Mutexes :
    /\ SF_vars(UnlockOnce(t, m))
    /\ SF_vars(got[t][m] = 1 /\ (Release(t, m) \/ HandOff(t, m)))

MutexScheduledSpec == MutexSpec /\ Scheduled
MutexFairSpec == MutexScheduledSpec /\ CallersUnlock

\* A thread that an unlock dequeued finishes its call, even if it timed out
\* while the message was on its way, unless a call with a bad ABSTIME has left
\* __lock locked.
HandOffCompletes ==
  \A t \in Threads : Dequeued(t) ~> pc[t] = "idle" \/ spin[obj[t]]

\* Unlocking reschedules a waiting thread: a thread waits for ever only while
\* the mutex goes on being handed to others that came after it.  (It may: the
\* queue is last in, first out.)
WaiterServed ==
  \A t \in Threads, m \in Mutexes :
    <>[](obj[t] = m /\ Linked(t)) => []<>(\E u \in Threads : Handed(u, m))

-----------------------------------------------------------------------------
(* The promise of AbstractMutex, for a mutex m.                            *)

Holder(m) == IF \E t \in Threads : Claims(t, m)
             THEN CHOOSE t \in Threads : Claims(t, m)
             ELSE NoThread

Depth(m) == IF Holder(m) = NoThread THEN 0 ELSE got[Holder(m)][m]

Abstract == INSTANCE AbstractMutex WITH holder <- Holder(AnyMutex),
                                        depth <- Depth(AnyMutex),
                                        waiting <- Waiters(AnyMutex)

\* A mutex implements AbstractMutex: one holder, direct hand-off, no barging
\* between an unlock and the return of the lock it wakes up.
ImplementsAbstract == Abstract!Spec
=============================================================================
