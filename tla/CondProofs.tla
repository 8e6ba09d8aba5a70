----------------------------- MODULE CondProofs -----------------------------
(***************************************************************************)
(* Theorems about condition variables and cancellation (module Cond), for  *)
(* any number of threads that wait, signal, broadcast and cancel.          *)
(*                                                                         *)
(* A mutex is exclusive here only as far as nobody interferes with its     *)
(* queue.  The hook of pthread_cancel does: it may take the thread off the *)
(* queue of its own cancel_lock.  So the invariant claims the exclusion of *)
(* a cancel_lock only up to the call of the hook (ExclusionInv), which is  *)
(* enough, as a thread's hook is called once.  It holds as long as the     *)
(* hook and an __pthread_enqueue on that cancel_lock do not overlap: the   *)
(* step in which they do, HookTears, ends what can be said.                *)
(***************************************************************************)
EXTENDS Cond, MutexProofs, FiniteSetTheorems

\* Where a thread may wait for a mutex, or have just got it; where it may be
\* while it sends the wakeup of a mutex it has unlocked; where it uses victim.
LockPCs == {"prepare", "clear", "setstate", "test", "cancel", "user", "return", "hreturn"}
UnlockPCs == {"exit", "release", "relock", "user", "cleanup", "exited", "block", "cleaned", "out"}
VictimPCs == {"cancel", "hook", "hookwake", "uncancel", "wakeup", "cancelme", "cancelwake", "resume"}

\* Where a thread can be while pthread_cancel, or hurd_thread_cancel, finds its
\* hook set.
HookPCs == {"prepared", "release", "block", "woken", "timedout", "drain", "finish", "clear"}
SSHookPCs == {"release", "block", "woken", "timedout", "hdrain"}

\* The mutex that t waits for.
LockOf(t) == IF cpc[t] = "cancel" THEN CancelLock[victim[t]]
             ELSE IF cpc[t] \in {"user", "return", "hreturn"} THEN UserMutex
             ELSE CancelLock[t]

\* t has the mutex of the monitor.
HasUser(t) ==
  \/ cpc[t] \in {"prepare", "prepared", "release", "exit", "test", "hcancelled", "cleanup"}
  \/ cpc[t] = "setstate" /\ back[t] # "exited"
  \/ cpc[t] \in {"user", "return", "hreturn"} /\ pc[t] \in {"idle", "wakeup"}

\* t has the cancel_lock of p, its own or that of the thread it cancels.
HasCancel(t, p) ==
  \/ t = p /\ cpc[t] = "prepared"
  \/ t = p /\ cpc[t] \in {"prepare", "clear", "setstate", "test"} /\ pc[t] = "idle"
  \/ victim[t] = p /\ cpc[t] \in {"hook", "hookwake", "uncancel"}
  \/ victim[t] = p /\ cpc[t] = "cancel" /\ pc[t] = "idle"

\* What holds of the variables of one thread, whatever the others do: where it
\* may be in a call on a mutex; where its hooks may be set; which mutexes it was
\* granted, given where it is.
CallInv(t) ==
  /\ pc[t] \in {"idle", "block", "received", "gain", "wakeup"}
  /\ pc[t] \in {"block", "received", "gain"} => cpc[t] \in LockPCs /\ obj[t] = LockOf(t)
  /\ pc[t] = "wakeup" => cpc[t] \in UnlockPCs /\ target[t] \in Threads
  /\ cpc[t] \in VictimPCs => victim[t] \in Threads
  /\ cpc[t] = "setstate" => back[t] \in {"user", "cleanup", "exited"}

HooksInv(t) ==
  /\ hook[t] => cpc[t] \in HookPCs
  /\ sshook[t] => cpc[t] \in SSHookPCs
  /\ ~(hook[t] /\ sshook[t])

GrantsInv(t) ==
  /\ got[t][UserMutex] = IF HasUser(t) THEN 1 ELSE 0
  /\ \A p \in Threads : got[t][CancelLock[p]] = IF HasCancel(t, p) THEN 1 ELSE 0

\* Where t is while it is on queue q: in the part of the wait where it may be on
\* the queue of the condition, or waiting for the mutex q.
Place(t, q) ==
  \/ /\ q = TheCond /\ pc[t] \in {"idle", "wakeup"}
     /\ cpc[t] \in {"prepared", "release", "block", "timedout"}
  \/ q = obj[t] /\ pc[t] = "block"

CondQueueInv ==
  \A q \in Queues : /\ NoDuplicates(queue[q])
                    /\ \A t \in Waiters(q) : Place(t, q)

\* One thread at a time has m, or was handed it, and m is marked held then.
Exclusive(m) ==
  /\ \A t, u \in Threads : Claims(t, m) /\ Claims(u, m) => t = u
  /\ \A t \in Threads : Claims(t, m) => held[m]

\* No canceller has called the hook of p yet: up to then, p's cancel_lock is
\* exclusive.
HookUncalled(p) == ~pending[p] \/ \E u \in Threads : cpc[u] = "hook" /\ victim[u] = p

ExclusionInv == /\ Exclusive(UserMutex)
                /\ \A p \in Threads : HookUncalled(p) => Exclusive(CancelLock[p])

\* The callers of hurd_thread_cancel that are to resume p: its suspend count is
\* their number.
Suspenders(p) == {u \in Threads : cpc[u] \in {"cancelme", "cancelwake", "resume"} /\ victim[u] = p}

SuspendInv ==
  \A p \in Threads : /\ IsFiniteSet(Suspenders(p))
                     /\ suspended[p] = Cardinality(Suspenders(p))

\* A thread on the queue of the condition that is to be cancelled has a
\* canceller on its way to the hook.
MissInv ==
  \A t \in Waiters(TheCond) :
    /\ hook[t] /\ MustCancel(t) => \E u \in Threads : cpc[u] = "hook" /\ victim[u] = t
    /\ sshook[t] /\ sscancel[t] => \E u \in Threads : cpc[u] = "cancelme" /\ victim[u] = t

\* A thread that is about to call a hook finds it, and the request, recorded.
HookedInv ==
  \A t \in Threads :
    /\ cpc[t] = "hook" => pending[victim[t]] /\ hook[victim[t]]
    /\ cpc[t] = "cancelme" => sshook[victim[t]] /\ cpc[victim[t]] # "hdrain"

\* OneWakeupOwed, thread by thread.
OwedInv(t) ==
  /\ port[t] => \A u \in Threads : ~Waking(u, t)
  /\ \A u, v \in Threads : Waking(u, t) /\ Waking(v, t) => u = v
  /\ WasDequeued(t) <=> port[t] \/ \E u \in Threads : Waking(u, t)

CondInv == /\ CondTypeOK
           /\ \A t \in Threads : CallInv(t) /\ HooksInv(t) /\ GrantsInv(t) /\ OwedInv(t)
           /\ CondQueueInv
           /\ ExclusionInv
           /\ SuspendInv
           /\ HookedInv
           /\ MissInv

-----------------------------------------------------------------------------
(* The calls on mutexes, all of which are of type normal.                  *)

LockTaken(t, m) ==
  /\ ~held[m] /\ held' = [held EXCEPT ![m] = TRUE]
  /\ got' = [got EXCEPT ![t][m] = @ + 1]
  /\ UNCHANGED <<queue, port, pc, obj, target>>

LockWaits(t, m) ==
  /\ held[m] /\ Enqueue(m, t)
  /\ obj' = [obj EXCEPT ![t] = m]
  /\ pc' = [pc EXCEPT ![t] = "block"]
  /\ UNCHANGED <<port, held, target, got>>

UnlockFrees(t, m) ==
  /\ held' = [held EXCEPT ![m] = FALSE]
  /\ Ungrant(t, m)
  /\ UNCHANGED <<queue, port, pc, obj, target>>

UnlockHands(t, m) ==
  /\ queue[m] # <<>> /\ Dequeue(Head(queue[m]))
  /\ Ungrant(t, m)
  /\ target' = [target EXCEPT ![t] = Head(queue[m])]
  /\ pc' = [pc EXCEPT ![t] = "wakeup"]
  /\ UNCHANGED <<port, held, obj>>

\* The variables of Mutex that no invariant is about.
OtherTypes == /\ type \in [Mutexes -> MutexTypes] /\ spin \in [Mutexes -> BOOLEAN]
              /\ owner \in [Mutexes -> Threads \cup {NoThread}]
              /\ locks \in [Mutexes -> 0..UIntMax] /\ ret \in [Threads -> Results]

\* A lock gets the mutex, or joins its queue.
LEMMA LockCases ==
  ASSUME MutexTypeOK, NEW t \in Threads, NEW m \in Mutexes, Lock(t, m)
  PROVE  /\ pc[t] = "idle"
         /\ LockTaken(t, m) \/ LockWaits(t, m)
         /\ OtherTypes'
<1> USE MutexAssumption, CondAssumption
<1>0. type[m] = "normal" /\ OtherTypes
  BY DEF MutexTypeOK, OtherTypes
<1>1. CASE Acquire(t, m)
  <2>1. LockTaken(t, m) /\ pc[t] = "idle"
    BY <1>1 DEF Acquire, Grant, LockTaken, blockVars
  <2>2. OtherTypes'
    BY <1>0, <1>1 DEF Acquire, Return, OtherTypes, Results
  <2> QED
    BY <2>1, <2>2
<1>2. CASE Wait(t, m, "null")
  <2>1. LockWaits(t, m) /\ pc[t] = "idle"
    BY <1>2 DEF Wait, Busy, Goto, LockWaits
  <2>2. OtherTypes'
    BY <1>0, <1>2 DEF Wait, OtherTypes
  <2> QED
    BY <2>1, <2>2
<1> QED
  BY <1>0, <1>1, <1>2 DEF Lock, TimedLock, Relock, Deadlk

\* An unlock frees the mutex, or hands it to the first of its queue.
LEMMA UnlockCases ==
  ASSUME MutexTypeOK, NEW t \in Threads, NEW m \in Mutexes, Unlock(t, m)
  PROVE  /\ pc[t] = "idle"
         /\ UnlockFrees(t, m) \/ UnlockHands(t, m)
         /\ OtherTypes'
<1> USE MutexAssumption, CondAssumption
<1>0. type[m] = "normal" /\ OtherTypes
  BY DEF MutexTypeOK, OtherTypes
<1>1. CASE Release(t, m)
  <2>1. UnlockFrees(t, m) /\ pc[t] = "idle"
    BY <1>1 DEF Release, MayUnlock, UnlockFrees, blockVars
  <2>2. OtherTypes'
    BY <1>0, <1>1 DEF Release, Unlocked, Return, OtherTypes, Results
  <2> QED
    BY <2>1, <2>2
<1>2. CASE HandOff(t, m)
  <2>1. UnlockHands(t, m) /\ pc[t] = "idle"
    BY <1>2 DEF HandOff, MayUnlock, Goto, UnlockHands
  <2>2. owner' = [owner EXCEPT ![m] = NoThread]
    BY <1>0, <1>2 DEF HandOff, NewOwner
  <2>3. OtherTypes'
    BY <1>0, <1>2, <2>2 DEF HandOff, Unlocked, OtherTypes
  <2> QED
    BY <2>1, <2>3
<1> QED
  BY <1>0, <1>1, <1>2 DEF Unlock, NotOwner, UnlockOnce, StillLocked

\* The steps of a lock or an unlock that is under way.
LEMMA ContinueCases ==
  ASSUME MutexTypeOK, NEW t \in Threads, CallInv(t), Continue(t)
  PROVE  /\ Receive(t) \/ Recheck(t) \/ Gain(t) \/ SendWakeup(t)
         /\ OtherTypes'
<1> USE MutexAssumption, CondAssumption
<1>0. OtherTypes /\ obj[t] \in Mutexes
  BY DEF MutexTypeOK, OtherTypes
<1>1. Receive(t) \/ Recheck(t) \/ Gain(t) \/ SendWakeup(t)
  BY DEF CallInv, Continue, TimeOut, GiveUp, MustDrain, Drain
<1>2. OtherTypes'
  BY <1>0, <1>1 DEF Receive, Recheck, Gain, SendWakeup, Return, OtherTypes, Results, blockVars
<1> QED
  BY <1>1, <1>2

-----------------------------------------------------------------------------
(* The steps of a thread, by what they do to mutexes, queues and messages. *)

Locks(t, m) ==
  \/ /\ m = CancelLock[t]
     /\ \/ \E timed \in BOOLEAN : WaitCall(t, timed)
        \/ Finish(t) \/ SetCancelState(t) \/ Exit(t) \/ Cleaned(t) \/ TestCancel(t)
  \/ m = UserMutex /\ (RelockMutex(t) \/ HurdRelock(t) \/ Enter(t))
  \/ \E p \in Threads : m = CancelLock[p] /\ CancelCall(t, p)

Unlocks(t, m) ==
  \/ /\ m = CancelLock[t]
     /\ WaitCancelled(t) \/ Prepared(t) \/ ClearHook(t) \/ StateSet(t) \/ Tested(t)
  \/ m = UserMutex /\ (ReleaseMutex(t) \/ Cleanup(t) \/ Leave(t))
  \/ m = CancelLock[victim[t]] /\ (CancelRecord(t) \/ CancelReturn(t))

Joins(t) == Prepare(t) \/ \E timed \in BOOLEAN : HurdWait(t, timed)

Takes(t) == Signal(t) \/ HookDequeue(t) \/ (CancelMe(t) /\ Linked(victim[t]))

Leaves(t) == LeaveQueue(t) \/ (HurdLeave(t) /\ Linked(t))

Receives(t) == Woken(t) \/ DrainWait(t) \/ HurdDrain(t)

Sends(t) == SignalWakeup(t) \/ HookWakeup(t) \/ CancelMeWakeup(t)

Moves(t) ==
  \/ WaitTimeOut(t) \/ WokenOffQueue(t) \/ DrainNeeded(t) \/ WaitReturn(t)
  \/ HurdWaitCancelled(t) \/ HurdCancelledReturn(t) \/ HurdDrainNeeded(t) \/ HurdReturn(t)
  \/ HurdLeave(t) /\ ~Linked(t)
  \/ CancelBlocked(t) \/ HookTooLate(t)
  \/ \E p \in Threads : HurdCancelCall(t, p)
  \/ CancelMe(t) /\ ~Linked(victim[t])
  \/ HurdCancelReturn(t)

MutexSteps(t) == Continue(t) /\ UNCHANGED condVars

StepOf(t) ==
  \/ \E m \in Mutexes : Locks(t, m) \/ Unlocks(t, m)
  \/ Joins(t) \/ Takes(t) \/ Leaves(t) \/ Receives(t) \/ Sends(t) \/ Moves(t)
  \/ MutexSteps(t) \/ Broadcast(t)

\* A step of the library is one of these, of a thread that is not suspended.
LEMMA CondSteps ==
  ASSUME CondInv, CondStep
  PROVE  \/ UNCHANGED callVars
         \/ \E t \in Threads : suspended[t] = 0 /\ StepOf(t)
<1>0. /\ UserMutex \in Mutexes /\ \A p \in Threads : CancelLock[p] \in Mutexes
      /\ WaitThreads \subseteq Threads /\ OtherThreads \subseteq Threads
      /\ HurdThreads \subseteq Threads /\ EnterThreads \subseteq Threads
  BY CondAssumption
<1>1. ASSUME NEW t \in Threads, WaitStep(t) PROVE StepOf(t)
  <2>1. CASE Finish(t) \/ RelockMutex(t)
    BY <1>0, <2>1 DEF StepOf, Locks
  <2>2. CASE WaitCancelled(t) \/ Prepared(t) \/ ReleaseMutex(t) \/ ClearHook(t)
    BY <1>0, <2>2 DEF StepOf, Unlocks
  <2>3. CASE Prepare(t) \/ LeaveQueue(t) \/ Woken(t) \/ DrainWait(t)
    BY <2>3 DEF StepOf, Joins, Leaves, Receives
  <2>4. CASE WaitTimeOut(t) \/ WokenOffQueue(t) \/ DrainNeeded(t) \/ WaitReturn(t)
    BY <2>4, Zenon DEF StepOf, Moves
  <2> QED
    BY <1>1, <2>1, <2>2, <2>3, <2>4, Zenon DEF WaitStep
<1>2. ASSUME NEW t \in Threads, HurdStep(t) PROVE StepOf(t)
  BY <1>0, <1>2, Zenon DEF HurdStep, StepOf, Locks, Leaves, Receives, Moves
<1>3. ASSUME NEW t \in Threads, OtherStep(t) PROVE StepOf(t)
  <2>1. cpc[t] \in VictimPCs => victim[t] \in Threads
    BY DEF CondInv, CallInv
  <2>2. CancelRecord(t) \/ CancelReturn(t) => CancelLock[victim[t]] \in Mutexes
    BY <1>0, <2>1 DEF CancelRecord, CancelReturn, At, VictimPCs
  <2>3. CASE CancelRecord(t) \/ CancelReturn(t)
    BY <2>2, <2>3 DEF StepOf, Unlocks
  <2>4. CASE HookDequeue(t) \/ CancelMe(t)
    BY <2>4 DEF StepOf, Takes, Moves
  <2>5. CASE SignalWakeup(t) \/ HookWakeup(t) \/ CancelMeWakeup(t)
    BY <2>5, Zenon DEF StepOf, Sends
  <2>6. CASE CancelBlocked(t) \/ HookTooLate(t) \/ HurdCancelReturn(t)
    BY <2>6, Zenon DEF StepOf, Moves
  <2> QED
    BY <1>3, <2>3, <2>4, <2>5, <2>6, Zenon DEF OtherStep
<1>4. ASSUME NEW t \in Threads, CancelStep(t) PROVE StepOf(t)
  BY <1>0, <1>4, Zenon DEF CancelStep, StepOf, Locks, Unlocks
<1>5. ASSUME NEW t \in Threads, CondContinue(t) PROVE suspended[t] = 0 /\ StepOf(t)
  BY <1>1, <1>2, <1>3, <1>4, <1>5, Zenon DEF CondContinue, StepOf, MutexSteps
<1>6. ASSUME NEW t \in Threads, WaiterCall(t) PROVE UNCHANGED callVars \/ StepOf(t)
  <2>1. TRUE \in BOOLEAN /\ FALSE \in BOOLEAN
    OBVIOUS
  <2> QED
    BY <1>0, <1>6, <2>1, Zenon DEF WaiterCall, pthread_cond_wait, WaitInvalid, StepOf, Locks, Unlocks
<1>7. ASSUME NEW t \in Threads, HurdWaiterCall(t) PROVE StepOf(t)
  <2>1. TRUE \in BOOLEAN /\ FALSE \in BOOLEAN
    OBVIOUS
  <2> QED
    BY <1>7, <2>1, Zenon DEF HurdWaiterCall, pthread_hurd_cond_wait_np, StepOf, Joins, Moves
<1>8. ASSUME NEW t \in Threads, OtherCall(t) PROVE UNCHANGED callVars \/ StepOf(t)
  <2>1. ASSUME NEW p \in WaitThreads, CancelCall(t, p) PROVE StepOf(t)
    <3>1. p \in Threads /\ CancelLock[p] \in Mutexes
      BY <1>0
    <3> QED
      BY <2>1, <3>1, Zenon DEF StepOf, Locks
  <2>2. ASSUME NEW p \in HurdThreads, HurdCancelCall(t, p) PROVE StepOf(t)
    <3>1. p \in Threads
      BY <1>0
    <3> QED
      BY <2>2, <3>1, Zenon DEF StepOf, Moves
  <2>3. CASE SignalNobody(t)
    BY <2>3 DEF SignalNobody
  <2>4. CASE Signal(t) \/ Broadcast(t)
    BY <2>4 DEF StepOf, Takes
  <2> QED
    BY <1>8, <2>1, <2>2, <2>3, <2>4, Zenon DEF OtherCall
<1>9. ASSUME NEW t \in Threads, Enter(t) \/ Leave(t) PROVE StepOf(t)
  BY <1>0, <1>9, Zenon DEF StepOf, Locks, Unlocks
<1> QED
  BY <1>0, <1>5, <1>6, <1>7, <1>8, <1>9 DEF CondStep

\* A step of t leaves the variables of the others alone, except their flags,
\* ports and queue links.
Frame(t) ==
  \A u \in Threads \ {t} :
    /\ cpc'[u] = cpc[u] /\ pc'[u] = pc[u] /\ obj'[u] = obj[u] /\ target'[u] = target[u]
    /\ victim'[u] = victim[u] /\ back'[u] = back[u] /\ got'[u] = got[u]
    /\ hook'[u] = hook[u] /\ sshook'[u] = sshook[u] /\ enabled'[u] = enabled[u]

\* The half of it that the calls on mutexes are responsible for.
LEMMA MutexFrame ==
  ASSUME MutexTypeOK, NEW t \in Threads,
         \/ \E m \in Mutexes : \/ LockTaken(t, m) \/ LockWaits(t, m)
                               \/ UnlockFrees(t, m) \/ UnlockHands(t, m)
         \/ Receive(t) \/ Recheck(t) \/ Gain(t) \/ SendWakeup(t)
         \/ UNCHANGED mutexVars
  PROVE  \A u \in Threads \ {t} : /\ pc'[u] = pc[u] /\ obj'[u] = obj[u]
                                  /\ target'[u] = target[u] /\ got'[u] = got[u]
<1>0. /\ pc \in [Threads -> PCs] /\ obj \in [Threads -> Mutexes]
      /\ target \in [Threads -> Threads \cup {NoThread}] /\ got \in [Threads -> [Mutexes -> Nat]]
  BY DEF MutexTypeOK
<1>1. ASSUME NEW m \in Mutexes, LockTaken(t, m) \/ LockWaits(t, m) \/ UnlockFrees(t, m) \/ UnlockHands(t, m)
      PROVE  \A u \in Threads \ {t} : /\ pc'[u] = pc[u] /\ obj'[u] = obj[u]
                                      /\ target'[u] = target[u] /\ got'[u] = got[u]
  BY <1>0, <1>1 DEF LockTaken, LockWaits, UnlockFrees, UnlockHands, Ungrant
<1>2. CASE Receive(t) \/ Recheck(t) \/ SendWakeup(t)
  BY <1>0, <1>2 DEF Receive, Recheck, SendWakeup, Goto
<1>3. CASE Gain(t)
  BY <1>0, <1>3 DEF Gain, Goto, Grant
<1>4. CASE UNCHANGED mutexVars
  BY <1>4 DEF mutexVars
<1> QED
  BY <1>1, <1>2, <1>3, <1>4

\* Every step respects the variables of the other threads.
LEMMA FrameStep ==
  ASSUME CondInv, NEW t \in Threads, StepOf(t)
  PROVE  Frame(t)
<1>0. /\ MutexTypeOK /\ CallInv(t)
      /\ cpc \in [Threads -> CPCs] /\ back \in [Threads -> CPCs]
      /\ victim \in [Threads -> Threads \cup {NoThread}]
      /\ hook \in [Threads -> BOOLEAN] /\ sshook \in [Threads -> BOOLEAN] /\ enabled \in [Threads -> BOOLEAN]
  BY DEF CondInv, CondTypeOK
<1> DEFINE M == \A u \in Threads \ {t} : /\ pc'[u] = pc[u] /\ obj'[u] = obj[u]
                                         /\ target'[u] = target[u] /\ got'[u] = got[u]
           C == \A u \in Threads \ {t} : /\ cpc'[u] = cpc[u] /\ victim'[u] = victim[u] /\ back'[u] = back[u]
                                         /\ hook'[u] = hook[u] /\ sshook'[u] = sshook[u]
                                         /\ enabled'[u] = enabled[u]
<1> USE DEF localVars, cancelVars, hurdVars, condVars, CGoto, vars
<1>1. ASSUME NEW m \in Mutexes, Locks(t, m) PROVE M /\ C
  <2>1. Lock(t, m)
    BY <1>1, Zenon DEF Locks, WaitCall, Finish, SetCancelState, Exit, Cleaned, SetState, TestCancel,
                       RelockMutex, HurdRelock, Enter, CancelCall
  <2>2. M
    BY <1>0, <2>1, LockCases, MutexFrame
  <2>3. C
    BY <1>0, <1>1 DEF Locks, WaitCall, Finish, SetCancelState, Exit, Cleaned, SetState, TestCancel,
                       RelockMutex, HurdRelock, Enter, CancelCall
  <2> QED
    BY <2>2, <2>3
<1>2. ASSUME NEW m \in Mutexes, Unlocks(t, m) PROVE M /\ C
  <2>1. Unlock(t, m)
    BY <1>2, Zenon DEF Unlocks, WaitCancelled, Prepared, ClearHook, StateSet, Tested, ReleaseMutex,
                       Cleanup, Leave, CancelRecord, CancelReturn
  <2>2. M
    BY <1>0, <2>1, UnlockCases, MutexFrame
  <2>3. C
    BY <1>0, <1>2 DEF Unlocks, WaitCancelled, Prepared, ClearHook, StateSet, Tested, ReleaseMutex,
                      Cleanup, Leave, CancelRecord, CancelReturn
  <2> QED
    BY <2>2, <2>3
<1>3. ASSUME MutexSteps(t) PROVE M /\ C
  <2>1. M
    BY <1>0, <1>3, ContinueCases, MutexFrame DEF MutexSteps
  <2> QED
    BY <1>3, <2>1 DEF MutexSteps
<1>4. ASSUME Joins(t) \/ Takes(t) \/ Leaves(t) \/ Receives(t) \/ Sends(t) \/ Moves(t) \/ Broadcast(t)
      PROVE  M /\ C
  <2>1. UNCHANGED mutexVars
    BY <1>4, Zenon DEF Joins, Takes, Leaves, Receives, Sends, Moves, Broadcast, Prepare, HurdWait, Signal,
       HookDequeue, CancelMe, LeaveQueue, HurdLeave, Woken, DrainWait, HurdDrain, SignalWakeup,
       HookWakeup, CancelMeWakeup, WaitTimeOut, WokenOffQueue, DrainNeeded, WaitReturn,
       HurdWaitCancelled, HurdCancelledReturn, HurdDrainNeeded, HurdReturn, CancelBlocked,
       HookTooLate, HurdCancelCall, HurdCancelReturn
  <2>2. M
    BY <1>0, <2>1, MutexFrame
  <2>3. ASSUME Joins(t) \/ Takes(t) \/ Leaves(t) PROVE C
    BY <1>0, <2>3 DEF Joins, Takes, Leaves, Prepare, HurdWait, Signal, HookDequeue, CancelMe,
       LeaveQueue, HurdLeave, HurdCheck
  <2>4. ASSUME Receives(t) \/ Sends(t) \/ Broadcast(t) PROVE C
    BY <1>0, <2>4 DEF Receives, Sends, Broadcast, Woken, DrainWait, HurdDrain, HurdCheck,
       SignalWakeup, HookWakeup, CancelMeWakeup
  <2>5. ASSUME Moves(t) PROVE C
    BY <1>0, <2>5 DEF Moves, WaitTimeOut, WokenOffQueue, DrainNeeded, WaitReturn,
       HurdWaitCancelled, HurdCancelledReturn, HurdDrainNeeded, HurdReturn, HurdLeave, HurdCheck,
       CancelBlocked, HookTooLate, HurdCancelCall, CancelMe, HurdCancelReturn
  <2> QED
    BY <1>4, <2>2, <2>3, <2>4, <2>5
<1>5. M /\ C
  BY <1>1, <1>2, <1>3, <1>4 DEF StepOf
<1> QED
  BY <1>5 DEF Frame

-----------------------------------------------------------------------------
(* What a step does to the variables of its own thread.                    *)

\* A call that locks m: where it starts, and what t has once it is through.
LockEffect(t, m) ==
  /\ LockTaken(t, m) \/ LockWaits(t, m)
  /\ pc[t] = "idle"
  /\ cpc[t] \in {"user", "finish", "exit", "cleaned", "relock", "hrelock", "out"}
  /\ cpc[t] = "finish" => cpc'[t] = "clear"
  /\ cpc'[t] \in LockPCs /\ LockOf(t)' = m
  /\ cpc'[t] = "cancel" => victim'[t] \in Threads
  /\ cpc'[t] = "setstate" => back'[t] \in {"user", "cleanup", "exited"}
  /\ HasUser(t)' <=> (HasUser(t) \/ (m = UserMutex /\ pc'[t] = "idle"))
  /\ HasUser(t) => m # UserMutex
  /\ \A p \in Threads : /\ HasCancel(t, p)' <=> (m = CancelLock[p] /\ pc'[t] = "idle")
                        /\ ~HasCancel(t, p)
  /\ UNCHANGED <<cancelVars, hurdVars>>

\* A section that ends with the unlock of m.
UnlockEffect(t, m) ==
  /\ UnlockFrees(t, m) \/ UnlockHands(t, m)
  /\ pc[t] = "idle"
  /\ cpc[t] \in {"prepare", "prepared", "clear", "setstate", "test", "release",
                 "cleanup", "user", "cancel", "uncancel"}
  /\ cpc'[t] \in UnlockPCs
  /\ cpc[t] = "prepared" <=> cpc'[t] = "release"
  /\ cpc[t] = "release" <=> cpc'[t] = "block"
  /\ HasUser(t)' <=> (HasUser(t) /\ m # UserMutex)
  /\ m = UserMutex => HasUser(t)
  /\ \A p \in Threads : /\ HasCancel(t, p) <=> m = CancelLock[p]
                        /\ ~HasCancel(t, p)'
  /\ got[t][m] = 1
  /\ hook' = [hook EXCEPT ![t] = @ /\ cpc[t] # "clear"]
  /\ \E b \in BOOLEAN : enabled' = [enabled EXCEPT ![t] = b]
  /\ cpc[t] # "setstate" => enabled' = enabled
  /\ \/ UNCHANGED pending
     \/ /\ cpc[t] = "cancel" /\ pending' = [pending EXCEPT ![victim[t]] = TRUE]
        /\ pending[victim[t]] \/ ~enabled[victim[t]] \/ ~hook[victim[t]]
  /\ UNCHANGED hurdVars

\* The calls that lock a mutex do this.
LEMMA LocksDo ==
  ASSUME CondInv, NEW t \in Threads, NEW m \in Mutexes, Locks(t, m)
  PROVE  LockEffect(t, m) /\ OtherTypes'
<1> DEFINE E == /\ cpc[t] \in {"user", "finish", "exit", "cleaned", "relock", "hrelock", "out"}
                /\ cpc[t] = "finish" => cpc'[t] = "clear"
                /\ cpc'[t] \in LockPCs /\ LockOf(t)' = m
                /\ cpc'[t] = "cancel" => victim'[t] \in Threads
                /\ cpc'[t] = "setstate" => back'[t] \in {"user", "cleanup", "exited"}
                /\ HasUser(t)' <=> (HasUser(t) \/ (m = UserMutex /\ pc'[t] = "idle"))
                /\ HasUser(t) => m # UserMutex
                /\ \A p \in Threads : /\ HasCancel(t, p)' <=> (m = CancelLock[p] /\ pc'[t] = "idle")
                                      /\ ~HasCancel(t, p)
                /\ UNCHANGED <<cancelVars, hurdVars>>
<1>0. /\ MutexTypeOK /\ CallInv(t)
      /\ cpc \in [Threads -> CPCs] /\ back \in [Threads -> CPCs]
      /\ victim \in [Threads -> Threads \cup {NoThread}] /\ pc \in [Threads -> PCs]
      /\ \A p \in Threads : CancelLock[p] # UserMutex
      /\ \A p, q \in Threads : CancelLock[p] = CancelLock[q] => p = q
  BY CondAssumption DEF CondInv, CondTypeOK, MutexTypeOK
<1>1. Lock(t, m)
  BY Zenon DEF Locks, WaitCall, Finish, SetCancelState, Exit, Cleaned, SetState, TestCancel,
               RelockMutex, HurdRelock, Enter, CancelCall
<1>2. /\ pc[t] = "idle" /\ OtherTypes'
      /\ LockTaken(t, m) \/ LockWaits(t, m)
  BY <1>0, <1>1, LockCases
<1>3. pc'[t] \in {"idle", "block"}
  BY <1>0, <1>2 DEF LockTaken, LockWaits
<1> USE DEF CGoto, localVars, At, HasUser, HasCancel, LockOf, LockPCs
<1>4. ASSUME NEW timed, m = CancelLock[t], WaitCall(t, timed) PROVE E
  BY <1>0, <1>2, <1>3, <1>4 DEF WaitCall
<1>5. ASSUME m = CancelLock[t], Finish(t) PROVE E
  BY <1>0, <1>2, <1>3, <1>5 DEF Finish
<1>6. ASSUME m = CancelLock[t], SetCancelState(t) PROVE E
  BY <1>0, <1>2, <1>3, <1>6 DEF SetCancelState, SetState
<1>7. ASSUME m = CancelLock[t], Exit(t) \/ Cleaned(t) PROVE E
  BY <1>0, <1>2, <1>3, <1>7 DEF Exit, Cleaned, SetState
<1>8. ASSUME m = CancelLock[t], TestCancel(t) PROVE E
  BY <1>0, <1>2, <1>3, <1>8 DEF TestCancel
<1>9. ASSUME m = UserMutex, RelockMutex(t) \/ HurdRelock(t) PROVE E
  BY <1>0, <1>2, <1>3, <1>9 DEF RelockMutex, HurdRelock
<1>10. ASSUME m = UserMutex, Enter(t) PROVE E
  BY <1>0, <1>2, <1>3, <1>10 DEF Enter
<1>11. ASSUME NEW q \in Threads, m = CancelLock[q], CancelCall(t, q) PROVE E
  BY <1>0, <1>2, <1>3, <1>11 DEF CancelCall
<1>12. E
  BY <1>4, <1>5, <1>6, <1>7, <1>8, <1>9, <1>10, <1>11 DEF Locks
<1> QED
  BY <1>2, <1>12 DEF LockEffect

\* The sections that end with an unlock do this.
LEMMA UnlocksDo ==
  ASSUME CondInv, NEW t \in Threads, NEW m \in Mutexes, Unlocks(t, m)
  PROVE  UnlockEffect(t, m) /\ OtherTypes'
<1> DEFINE E == /\ cpc[t] \in {"prepare", "prepared", "clear", "setstate", "test", "release",
                               "cleanup", "user", "cancel", "uncancel"}
                /\ cpc'[t] \in UnlockPCs
                /\ cpc[t] = "prepared" <=> cpc'[t] = "release"
                /\ cpc[t] = "release" <=> cpc'[t] = "block"
                /\ HasUser(t)' <=> (HasUser(t) /\ m # UserMutex)
                /\ m = UserMutex => HasUser(t)
                /\ \A p \in Threads : /\ HasCancel(t, p) <=> m = CancelLock[p]
                                      /\ ~HasCancel(t, p)'
           F == /\ hook' = [hook EXCEPT ![t] = @ /\ cpc[t] # "clear"]
                /\ \E b \in BOOLEAN : enabled' = [enabled EXCEPT ![t] = b]
                /\ cpc[t] # "setstate" => enabled' = enabled
                /\ \/ UNCHANGED pending
                   \/ /\ cpc[t] = "cancel" /\ pending' = [pending EXCEPT ![victim[t]] = TRUE]
                      /\ pending[victim[t]] \/ ~enabled[victim[t]] \/ ~hook[victim[t]]
                /\ UNCHANGED hurdVars
<1>0. /\ MutexTypeOK /\ CallInv(t)
      /\ cpc \in [Threads -> CPCs] /\ back \in [Threads -> CPCs]
      /\ victim \in [Threads -> Threads \cup {NoThread}] /\ pc \in [Threads -> PCs]
      /\ hook \in [Threads -> BOOLEAN] /\ enabled \in [Threads -> BOOLEAN]
      /\ newstate \in [Threads -> BOOLEAN]
      /\ \A p \in Threads : CancelLock[p] # UserMutex
      /\ \A p, q \in Threads : CancelLock[p] = CancelLock[q] => p = q
  BY CondAssumption DEF CondInv, CondTypeOK, MutexTypeOK
<1>1. Unlock(t, m)
  BY Zenon DEF Unlocks, WaitCancelled, Prepared, ClearHook, StateSet, Tested, ReleaseMutex,
               Cleanup, Leave, CancelRecord, CancelReturn
<1>2. /\ pc[t] = "idle" /\ OtherTypes'
      /\ UnlockFrees(t, m) \/ UnlockHands(t, m)
  BY <1>0, <1>1, UnlockCases
<1>3. pc'[t] \in {"idle", "wakeup"}
  BY <1>0, <1>2 DEF UnlockFrees, UnlockHands
<1>4. cpc[t] \in {"cancel", "uncancel"} => victim[t] \in Threads
  BY <1>0 DEF CallInv, VictimPCs
<1> USE DEF CGoto, localVars, At
<1>5. ASSUME m = CancelLock[t], WaitCancelled(t) \/ Prepared(t) \/ Tested(t) PROVE E
  BY <1>0, <1>2, <1>3, <1>5 DEF WaitCancelled, Prepared, Tested, HasUser, HasCancel, UnlockPCs
<1>6. ASSUME m = CancelLock[t], WaitCancelled(t) \/ Prepared(t) \/ Tested(t) PROVE F
  BY <1>0, <1>6 DEF WaitCancelled, Prepared, Tested, cancelVars
<1>7. ASSUME m = CancelLock[t], ClearHook(t) PROVE E
  BY <1>0, <1>2, <1>3, <1>7 DEF ClearHook, HasUser, HasCancel, UnlockPCs
<1>8. ASSUME m = CancelLock[t], ClearHook(t) PROVE F
  BY <1>0, <1>8 DEF ClearHook
<1>9. ASSUME m = CancelLock[t], StateSet(t) PROVE E
  <2>1. back[t] \in {"user", "cleanup", "exited"}
    BY <1>0, <1>9 DEF StateSet, CallInv
  <2> QED
    BY <1>0, <1>2, <1>3, <1>9, <2>1 DEF StateSet, HasUser, HasCancel, UnlockPCs
<1>10. ASSUME m = CancelLock[t], StateSet(t) PROVE F
  BY <1>0, <1>10 DEF StateSet
<1>11. ASSUME m = UserMutex, ReleaseMutex(t) \/ Cleanup(t) \/ Leave(t) PROVE E
  BY <1>0, <1>2, <1>3, <1>11 DEF ReleaseMutex, Cleanup, Leave, HasUser, HasCancel, UnlockPCs
<1>12. ASSUME m = UserMutex, ReleaseMutex(t) \/ Cleanup(t) \/ Leave(t) PROVE F
  BY <1>0, <1>12 DEF ReleaseMutex, Cleanup, Leave, cancelVars
<1>13. ASSUME m = CancelLock[victim[t]], CancelRecord(t) \/ CancelReturn(t) PROVE E
  BY <1>0, <1>2, <1>3, <1>4, <1>13 DEF CancelRecord, CancelReturn, HasUser, HasCancel, UnlockPCs
<1>14. ASSUME m = CancelLock[victim[t]], CancelRecord(t) \/ CancelReturn(t) PROVE F
  BY <1>0, <1>14 DEF CancelRecord, CancelReturn, cancelVars
<1>15. E /\ F
  BY <1>5, <1>6, <1>7, <1>8, <1>9, <1>10, <1>11, <1>12, <1>13, <1>14 DEF Unlocks
<1>16. got[t][m] = 1
  <2>1. m = UserMutex \/ \E p \in Threads : m = CancelLock[p]
    BY <1>4 DEF Unlocks, CancelRecord, CancelReturn, At
  <2> QED
    BY <1>15, <2>1 DEF CondInv, GrantsInv
<1> QED
  BY <1>2, <1>15, <1>16 DEF UnlockEffect

\* A step outside the calls on mutexes: what t has stays what it is.
KeepEffect(t) ==
  /\ UNCHANGED mutexVars
  /\ pc[t] = "idle"
  /\ HasUser(t)' <=> HasUser(t)
  /\ \A p \in Threads : HasCancel(t, p)' <=> HasCancel(t, p)
  /\ CallInv(t)' /\ HooksInv(t)'

Outside(t) == Joins(t) \/ Takes(t) \/ Leaves(t) \/ Receives(t) \/ Sends(t) \/ Moves(t) \/ Broadcast(t)

\* The steps that call no function on a mutex do this.
LEMMA OutsideDo ==
  ASSUME CondInv, NEW t \in Threads, Outside(t)
  PROVE  KeepEffect(t)
<1>0. /\ CallInv(t) /\ HooksInv(t)
      /\ cpc \in [Threads -> CPCs] /\ back \in [Threads -> CPCs]
      /\ victim \in [Threads -> Threads \cup {NoThread}] /\ pc \in [Threads -> PCs]
      /\ hook \in [Threads -> BOOLEAN] /\ sshook \in [Threads -> BOOLEAN]
      /\ sscancel \in [Threads -> BOOLEAN]
  BY DEF CondInv, CondTypeOK, MutexTypeOK
<1>1. UNCHANGED mutexVars
  BY Zenon DEF Outside, Joins, Takes, Leaves, Receives, Sends, Moves, Broadcast, Prepare, HurdWait, Signal,
       HookDequeue, CancelMe, LeaveQueue, HurdLeave, Woken, DrainWait, HurdDrain, SignalWakeup,
       HookWakeup, CancelMeWakeup, WaitTimeOut, WokenOffQueue, DrainNeeded, WaitReturn,
       HurdWaitCancelled, HurdCancelledReturn, HurdDrainNeeded, HurdReturn, CancelBlocked,
       HookTooLate, HurdCancelCall, HurdCancelReturn, vars
<1>2. pc' = pc /\ obj' = obj /\ target' = target
  BY <1>1 DEF mutexVars
<1> DEFINE E == /\ pc[t] = "idle"
                /\ HasUser(t)' <=> HasUser(t)
                /\ \A p \in Threads : HasCancel(t, p)' <=> HasCancel(t, p)
                /\ CallInv(t)' /\ HooksInv(t)'
<1> USE DEF CGoto, localVars, cancelVars, hurdVars, At, HasUser, HasCancel, CallInv, HooksInv,
            LockPCs, UnlockPCs, VictimPCs, HookPCs, SSHookPCs
<1>3. ASSUME Prepare(t) PROVE E
  BY <1>0, <1>2, <1>3 DEF Prepare
<1>4. ASSUME NEW timed, HurdWait(t, timed) PROVE E
  BY <1>0, <1>2, <1>4 DEF HurdWait
<1>5. ASSUME Signal(t) PROVE E
  <2>1. Head(queue[TheCond]) \in Threads
    BY <1>5, HeadWaits, CondAssumption DEF Signal, CondInv, CondTypeOK, MutexTypeOK
  <2> QED
    BY <1>0, <1>2, <1>5, <2>1 DEF Signal
<1>6. ASSUME HookDequeue(t) \/ HookTooLate(t) \/ HookWakeup(t) PROVE E
  BY <1>0, <1>2, <1>6 DEF HookDequeue, HookTooLate, HookWakeup
<1>7. ASSUME CancelMe(t) \/ CancelMeWakeup(t) PROVE E
  BY <1>0, <1>2, <1>7 DEF CancelMe, CancelMeWakeup
<1>8. ASSUME LeaveQueue(t) \/ Woken(t) \/ DrainWait(t) \/ WaitTimeOut(t) PROVE E
  BY <1>0, <1>2, <1>8 DEF LeaveQueue, Woken, DrainWait, WaitTimeOut
<1>9. ASSUME WokenOffQueue(t) \/ DrainNeeded(t) \/ HurdDrainNeeded(t) PROVE E
  BY <1>0, <1>2, <1>9 DEF WokenOffQueue, DrainNeeded, HurdDrainNeeded
<1>10. ASSUME HurdLeave(t) \/ HurdDrain(t) PROVE E
  BY <1>0, <1>2, <1>10 DEF HurdLeave, HurdDrain, HurdCheck
<1>11. ASSUME SignalWakeup(t) \/ HurdCancelReturn(t) PROVE E
  BY <1>0, <1>2, <1>11 DEF SignalWakeup, HurdCancelReturn
<1>12. ASSUME WaitReturn(t) PROVE E
  BY <1>0, <1>2, <1>12 DEF WaitReturn
<1>13. ASSUME HurdReturn(t) \/ HurdWaitCancelled(t) \/ HurdCancelledReturn(t) PROVE E
  BY <1>0, <1>2, <1>13 DEF HurdReturn, HurdWaitCancelled, HurdCancelledReturn
<1>14. ASSUME CancelBlocked(t) PROVE E
  BY <1>0, <1>2, <1>14 DEF CancelBlocked
<1>15. ASSUME NEW p \in Threads, HurdCancelCall(t, p) PROVE E
  BY <1>0, <1>2, <1>15 DEF HurdCancelCall
<1>16. ASSUME Broadcast(t) PROVE E
  BY <1>0, <1>2, <1>16 DEF Broadcast, condVars
<1>17. E
  BY <1>3, <1>4, <1>5, <1>6, <1>7, <1>8, <1>9, <1>10, <1>11, <1>12, <1>13, <1>14, <1>15, <1>16
     DEF Outside, Joins, Takes, Leaves, Receives, Sends, Moves
<1> QED
  BY <1>1, <1>17 DEF KeepEffect

-----------------------------------------------------------------------------
(* The invariants of one thread.                                           *)

LocalInv(u) == CallInv(u) /\ HooksInv(u) /\ GrantsInv(u)

\* Those of the other threads.
LEMMA OthersLocal ==
  ASSUME NEW t \in Threads, Frame(t), NEW u \in Threads, u # t, LocalInv(u)
  PROVE  LocalInv(u)'
<1>0. /\ cpc'[u] = cpc[u] /\ pc'[u] = pc[u] /\ obj'[u] = obj[u] /\ target'[u] = target[u]
      /\ victim'[u] = victim[u] /\ back'[u] = back[u] /\ got'[u] = got[u]
      /\ hook'[u] = hook[u] /\ sshook'[u] = sshook[u]
  BY DEF Frame
<1>1. CallInv(u)'
  BY <1>0 DEF LocalInv, CallInv, LockOf
<1>2. HooksInv(u)'
  BY <1>0 DEF LocalInv, HooksInv
<1>3. GrantsInv(u)'
  <2>1. HasUser(u)' <=> HasUser(u)
    BY <1>0 DEF HasUser
  <2>2. \A p \in Threads : HasCancel(u, p)' <=> HasCancel(u, p)
    BY <1>0 DEF HasCancel
  <2> QED
    BY <1>0, <2>1, <2>2 DEF LocalInv, GrantsInv
<1> QED
  BY <1>1, <1>2, <1>3 DEF LocalInv

\* Those of the thread that takes the step.
LEMMA OwnLocal ==
  ASSUME CondInv, NEW t \in Threads, StepOf(t)
  PROVE  LocalInv(t)'
<1>0. /\ MutexTypeOK /\ CallInv(t) /\ HooksInv(t) /\ GrantsInv(t)
      /\ cpc \in [Threads -> CPCs]
      /\ hook \in [Threads -> BOOLEAN] /\ sshook \in [Threads -> BOOLEAN]
      /\ pc \in [Threads -> PCs] /\ obj \in [Threads -> Mutexes]
      /\ target \in [Threads -> Threads \cup {NoThread}] /\ got \in [Threads -> [Mutexes -> Nat]]
      /\ UserMutex \in Mutexes /\ \A p \in Threads : CancelLock[p] \in Mutexes \ {UserMutex}
      /\ \A p, q \in Threads : CancelLock[p] = CancelLock[q] => p = q
  BY CondAssumption DEF CondInv, CondTypeOK, MutexTypeOK
<1>1. ASSUME NEW m \in Mutexes, Locks(t, m) PROVE LocalInv(t)'
  <2>0. LockEffect(t, m)
    BY <1>1, LocksDo
  <2>1. CallInv(t)'
    BY <1>0, <2>0 DEF LockEffect, LockTaken, LockWaits, CallInv, LockPCs, VictimPCs
  <2>2. HooksInv(t)'
    BY <1>0, <2>0 DEF LockEffect, HooksInv, HookPCs, SSHookPCs, cancelVars, hurdVars
  <2>3. GrantsInv(t)'
    BY <1>0, <2>0 DEF LockEffect, LockTaken, LockWaits, GrantsInv
  <2> QED
    BY <2>1, <2>2, <2>3 DEF LocalInv
<1>2. ASSUME NEW m \in Mutexes, Unlocks(t, m) PROVE LocalInv(t)'
  <2>0. UnlockEffect(t, m)
    BY <1>2, UnlocksDo
  <2>1. UnlockHands(t, m) => Head(queue[m]) \in Threads
    BY <1>0, HeadWaits, MutexAssumption DEF UnlockHands, MutexTypeOK
  <2>2. CallInv(t)'
    BY <1>0, <2>0, <2>1 DEF UnlockEffect, UnlockFrees, UnlockHands, CallInv, UnlockPCs, VictimPCs
  <2>3. HooksInv(t)'
    BY <1>0, <2>0 DEF UnlockEffect, HooksInv, HookPCs, SSHookPCs, hurdVars
  <2>4. GrantsInv(t)'
    <3>1. got' = [got EXCEPT ![t][m] = IF @ = 0 THEN 0 ELSE @ - 1]
      BY <2>0 DEF UnlockEffect, UnlockFrees, UnlockHands, Ungrant
    <3>2. got[t][m] = 1 => got'[t][m] = 0
      BY <1>0, <3>1
    <3>3. \A n \in Mutexes \ {m} : got'[t][n] = got[t][n]
      BY <1>0, <3>1
    <3>4. got'[t][UserMutex] = IF HasUser(t)' THEN 1 ELSE 0
      BY <1>0, <2>0, <3>2, <3>3 DEF UnlockEffect, GrantsInv
    <3>5. \A p \in Threads : got'[t][CancelLock[p]] = IF HasCancel(t, p)' THEN 1 ELSE 0
      BY <1>0, <2>0, <3>2, <3>3 DEF UnlockEffect, GrantsInv
    <3> QED
      BY <3>4, <3>5 DEF GrantsInv
  <2> QED
    BY <2>2, <2>3, <2>4 DEF LocalInv
<1>3. ASSUME MutexSteps(t) PROVE LocalInv(t)'
  <2>0. /\ UNCHANGED condVars
        /\ Receive(t) \/ Recheck(t) \/ Gain(t) \/ SendWakeup(t)
    BY <1>0, <1>3, ContinueCases DEF MutexSteps
  <2>1. CallInv(t)'
    BY <1>0, <2>0 DEF Receive, Recheck, Gain, SendWakeup, Goto, CallInv, LockOf, condVars, localVars
  <2>2. HooksInv(t)'
    BY <1>0, <2>0 DEF HooksInv, condVars, cancelVars, hurdVars
  <2>3. ASSUME ~Gain(t) PROVE GrantsInv(t)'
    <3>1. /\ got' = got /\ cpc' = cpc /\ victim' = victim /\ back' = back
          /\ \/ pc[t] \in {"block", "received"} /\ pc'[t] \in {"received", "gain"} /\ cpc[t] \in LockPCs
             \/ pc[t] = "wakeup" /\ pc'[t] = "idle" /\ cpc[t] \in UnlockPCs
      BY <1>0, <2>0, <2>3 DEF Receive, Recheck, SendWakeup, Goto, CallInv, condVars, localVars, PCs
    <3>2. HasUser(t)' <=> HasUser(t)
      BY <3>1 DEF HasUser, LockPCs, UnlockPCs
    <3>3. \A p \in Threads : HasCancel(t, p)' <=> HasCancel(t, p)
      BY <3>1 DEF HasCancel, LockPCs, UnlockPCs
    <3> QED
      BY <1>0, <3>1, <3>2, <3>3 DEF GrantsInv
  <2>4. ASSUME Gain(t) PROVE GrantsInv(t)'
    <3>1. /\ cpc[t] \in LockPCs /\ obj[t] = LockOf(t) /\ cpc' = cpc /\ victim' = victim /\ back' = back
          /\ pc[t] = "gain" /\ pc'[t] = "idle"
          /\ got' = [got EXCEPT ![t][obj[t]] = @ + 1]
          /\ cpc[t] = "cancel" => victim[t] \in Threads
      BY <1>0, <2>0, <2>4 DEF Gain, Goto, Grant, CallInv, condVars, localVars, VictimPCs
    <3>2. HasUser(t)' <=> (HasUser(t) \/ obj[t] = UserMutex)
      BY <1>0, <3>1 DEF HasUser, LockOf, LockPCs
    <3>3. \A p \in Threads : HasCancel(t, p)' <=> (HasCancel(t, p) \/ obj[t] = CancelLock[p])
      BY <1>0, <3>1 DEF HasCancel, LockOf, LockPCs
    <3>4. /\ ~(HasUser(t) /\ obj[t] = UserMutex)
          /\ \A p \in Threads : ~(HasCancel(t, p) /\ obj[t] = CancelLock[p])
      BY <1>0, <3>1 DEF HasUser, HasCancel, LockOf, LockPCs
    <3> QED
      BY <1>0, <3>1, <3>2, <3>3, <3>4 DEF GrantsInv
  <2> QED
    BY <2>1, <2>2, <2>3, <2>4 DEF LocalInv
<1>4. ASSUME Outside(t) PROVE LocalInv(t)'
  <2>1. KeepEffect(t)
    BY <1>4, OutsideDo
  <2> QED
    BY <1>0, <2>1 DEF KeepEffect, LocalInv, GrantsInv, mutexVars
<1> QED
  BY <1>1, <1>2, <1>3, <1>4 DEF StepOf, Outside

-----------------------------------------------------------------------------
(* The queues and the messages.                                            *)

\* t waits to be dequeued and woken up.
Awaits(t) == pc[t] = "block" \/ CondWaiting(t)

\* A thread on a queue waits, and one that is dequeued waits off the queues.
LEMMA Waiting ==
  ASSUME CondInv, NEW x \in Threads
  PROVE  /\ Linked(x) => Awaits(x)
         /\ WasDequeued(x) <=> (Awaits(x) /\ ~Linked(x))
         /\ \A q \in Queues : x \in Waiters(q) => Place(x, q)
  BY DEF CondInv, CondQueueInv, CallInv, Linked, Place, Awaits, WasDequeued, Dequeued, CondWaiting

\* What a step of t leaves as it is for the messages.
LEMMA StepFrame ==
  ASSUME CondInv, NEW t \in Threads, StepOf(t)
  PROVE  /\ Frame(t)
         /\ \A x \in Threads : LocalInv(x)'
         /\ \A x \in Threads : WasDequeued(x)' <=> (Awaits(x)' /\ ~Linked(x)')
         /\ \A x \in Threads \ {t} : Awaits(x)' <=> Awaits(x)
         /\ \A u \in Threads \ {t}, x \in Threads : Waking(u, x)' <=> Waking(u, x)
<1>1. Frame(t)
  BY FrameStep
<1>2. \A x \in Threads : LocalInv(x)'
  BY <1>1, OwnLocal, OthersLocal DEF CondInv, LocalInv
<1>3. ASSUME NEW x \in Threads
      PROVE  WasDequeued(x)' <=> (Awaits(x)' /\ ~Linked(x)')
  <2>1. pc'[x] \in {"idle", "block", "received", "gain", "wakeup"}
    BY <1>2 DEF LocalInv, CallInv
  <2> QED
    BY <2>1 DEF Awaits, WasDequeued, Dequeued, CondWaiting
<1>4. ASSUME NEW x \in Threads \ {t}
      PROVE  Awaits(x)' <=> Awaits(x)
  BY <1>1 DEF Frame, Awaits, CondWaiting
<1>5. ASSUME NEW u \in Threads \ {t}, NEW x \in Threads
      PROVE  Waking(u, x)' <=> Waking(u, x)
  BY <1>1 DEF Frame, Waking
<1> QED
  BY <1>1, <1>2, <1>3, <1>4, <1>5

\* The queues stay in order if only t joined one, in its place.
LEMMA QueueKept ==
  ASSUME CondInv, NEW t \in Threads, Frame(t),
         queue' \in [Queues -> Seq(Threads)],
         \A q \in Queues : NoDuplicates(queue'[q]),
         \A q \in Queues : \A x \in Waiters(q)' : x # t => x \in Waiters(q),
         \A q \in Queues : t \in Waiters(q)' => Place(t, q)'
  PROVE  CondQueueInv'
<1>1. ASSUME NEW q \in Queues, NEW x \in Waiters(q)'
      PROVE  Place(x, q)'
  <2>1. x \in Threads
    BY DEF Waiters, ToSet
  <2>2. CASE x # t
    <3>1. Place(x, q)
      BY <2>2, <2>1, Waiting
    <3> QED
      BY <2>1, <2>2, <3>1 DEF Frame, Place
  <2> QED
    BY <2>2
<1> QED
  BY <1>1 DEF CondQueueInv

\* The ways in which a step affects the messages: not at all...
MsgSame ==
  /\ UNCHANGED port
  /\ \A x \in Threads : WasDequeued(x)' <=> WasDequeued(x)
  /\ \A u, x \in Threads : Waking(u, x)' <=> Waking(u, x)

\* ... t dequeues w and owes it a message...
MsgOwed(t, w) ==
  /\ UNCHANGED port
  /\ ~WasDequeued(w)
  /\ \A x \in Threads : WasDequeued(x)' <=> (WasDequeued(x) \/ x = w)
  /\ \A u, x \in Threads : Waking(u, x)' <=> (Waking(u, x) \/ (u = t /\ x = w))

\* ... t sends it...
MsgSent(t, w) ==
  /\ Waking(t, w)
  /\ port' = [port EXCEPT ![w] = TRUE]
  /\ \A x \in Threads : WasDequeued(x)' <=> WasDequeued(x)
  /\ \A u, x \in Threads : Waking(u, x)' <=> (Waking(u, x) /\ ~(u = t /\ x = w))

\* ... t receives it...
MsgReceived(t) ==
  /\ port[t] /\ port' = [port EXCEPT ![t] = FALSE]
  /\ \A x \in Threads : WasDequeued(x)' <=> (WasDequeued(x) /\ x # t)
  /\ \A u, x \in Threads : Waking(u, x)' <=> Waking(u, x)

\* ... or all are dequeued and sent one at once.
MsgToAll ==
  /\ port' = [u \in Threads |-> port[u] \/ u \in Waiters(TheCond)]
  /\ \A x \in Threads : WasDequeued(x)' <=> (WasDequeued(x) \/ x \in Waiters(TheCond))
  /\ \A x \in Waiters(TheCond) : ~WasDequeued(x)
  /\ \A u, x \in Threads : Waking(u, x)' <=> Waking(u, x)

MsgEffect(t) == \/ MsgSame \/ MsgReceived(t) \/ MsgToAll
                \/ \E w \in Threads : MsgOwed(t, w) \/ MsgSent(t, w)

\* In each of them, a dequeued thread has one message sent or about to be sent.
LEMMA OwedKept ==
  ASSUME CondInv, NEW t \in Threads, MsgEffect(t)
  PROVE  \A x \in Threads : OwedInv(x)'
<1> SUFFICES ASSUME NEW x \in Threads PROVE OwedInv(x)'
  OBVIOUS
<1>0. OwedInv(x) /\ port \in [Threads -> BOOLEAN]
  BY DEF CondInv, CondTypeOK, MutexTypeOK, BlockTypeOK
<1>1. CASE MsgSame
  BY <1>0, <1>1 DEF MsgSame, OwedInv
<1>2. CASE MsgReceived(t)
  BY <1>0, <1>2 DEF MsgReceived, OwedInv
<1>3. CASE MsgToAll
  BY <1>0, <1>3 DEF MsgToAll, OwedInv
<1>4. ASSUME NEW w \in Threads, MsgOwed(t, w) PROVE OwedInv(x)'
  BY <1>0, <1>4 DEF MsgOwed, OwedInv
<1>5. ASSUME NEW w \in Threads, MsgSent(t, w) PROVE OwedInv(x)'
  BY <1>0, <1>5 DEF MsgSent, OwedInv
<1> QED
  BY <1>1, <1>2, <1>3, <1>4, <1>5 DEF MsgEffect

\* What a step leaves of the queues and the messages.
FlowKept(t) == BlockTypeOK' /\ CondQueueInv' /\ MsgEffect(t)

\* A step that leaves the queues and the ports alone.
LEMMA SameFlow ==
  ASSUME CondInv, NEW t \in Threads, StepOf(t), UNCHANGED <<queue, port>>,
         Awaits(t)' <=> Awaits(t),
         \A q \in Queues : t \in Waiters(q) => Place(t, q)',
         \A x \in Threads : Waking(t, x)' <=> Waking(t, x)
  PROVE  FlowKept(t)
<1>0. BlockTypeOK /\ \A q \in Queues : NoDuplicates(queue[q])
  BY DEF CondInv, CondTypeOK, MutexTypeOK, CondQueueInv
<1>1. CondQueueInv'
  BY <1>0, StepFrame, QueueKept, SameWaiters, Waiting DEF BlockTypeOK
<1>2. MsgSame
  BY StepFrame, Waiting, SameWaiters DEF MsgSame
<1> QED
  BY <1>0, <1>1, <1>2 DEF FlowKept, MsgEffect, BlockTypeOK

\* t dequeues another thread, w.
LEMMA TakeFlow ==
  ASSUME CondInv, NEW t \in Threads, StepOf(t), NEW w \in Threads, w # t, Linked(w), Dequeue(w),
         UNCHANGED port, Awaits(t)' <=> Awaits(t),
         \A q \in Queues : t \in Waiters(q) => Place(t, q)',
         \A x \in Threads : ~Waking(t, x), \A x \in Threads : Waking(t, x)' <=> x = w
  PROVE  FlowKept(t)
<1>0. BlockTypeOK /\ \A q \in Queues : NoDuplicates(queue[q])
  BY DEF CondInv, CondTypeOK, MutexTypeOK, CondQueueInv
<1>1. ~WasDequeued(w) /\ Awaits(w)
  BY Waiting
<1>2. /\ queue' \in [Queues -> Seq(Threads)]
      /\ \A q \in Queues : NoDuplicates(queue'[q])
      /\ \A q \in Queues : Waiters(q)' = Waiters(q) \ {w}
      /\ \A u \in Threads : Linked(u)' <=> (u # w /\ Linked(u))
  BY <1>0, DequeueStep
<1>3. CondQueueInv'
  BY <1>2, StepFrame, QueueKept
<1>4. MsgOwed(t, w)
  BY <1>1, <1>2, StepFrame, Waiting DEF MsgOwed
<1> QED
  BY <1>0, <1>2, <1>3, <1>4 DEF FlowKept, MsgEffect, BlockTypeOK

\* t, on no queue, joins one.
LEMMA JoinFlow ==
  ASSUME CondInv, NEW t \in Threads, StepOf(t), NEW q \in Queues, Enqueue(q, t), UNCHANGED port,
         ~Awaits(t), Place(t, q)',
         \A x \in Threads : ~Waking(t, x) /\ ~Waking(t, x)'
  PROVE  FlowKept(t)
<1>0. BlockTypeOK /\ (\A r \in Queues : NoDuplicates(queue[r])) /\ ~Linked(t)
  BY Waiting DEF CondInv, CondTypeOK, MutexTypeOK, CondQueueInv
<1>1. /\ queue' \in [Queues -> Seq(Threads)]
      /\ \A r \in Queues : NoDuplicates(queue'[r])
      /\ \A r \in Queues : Waiters(r)' = IF r = q THEN Waiters(r) \cup {t} ELSE Waiters(r)
      /\ \A u \in Threads : Linked(u)' <=> (u = t \/ Linked(u))
  BY <1>0, EnqueueStep
<1>2. \A r \in Queues : t \in Waiters(r)' => Place(t, r)'
  BY <1>0, <1>1 DEF Linked
<1>3. CondQueueInv'
  BY <1>1, <1>2, StepFrame, QueueKept
<1>4. MsgSame
  BY <1>1, StepFrame, Waiting DEF MsgSame
<1> QED
  BY <1>0, <1>1, <1>3, <1>4 DEF FlowKept, MsgEffect, BlockTypeOK

\* t sends w the message it owes it.
LEMMA SendFlow ==
  ASSUME CondInv, NEW t \in Threads, StepOf(t), NEW w \in Threads, Wakeup(w), UNCHANGED queue,
         Awaits(t)' <=> Awaits(t),
         \A q \in Queues : t \in Waiters(q) => Place(t, q)',
         \A x \in Threads : Waking(t, x) <=> x = w, \A x \in Threads : ~Waking(t, x)'
  PROVE  FlowKept(t)
<1>0. BlockTypeOK /\ \A q \in Queues : NoDuplicates(queue[q])
  BY DEF CondInv, CondTypeOK, MutexTypeOK, CondQueueInv
<1>1. CondQueueInv'
  BY <1>0, StepFrame, QueueKept, SameWaiters, Waiting DEF BlockTypeOK
<1>2. MsgSent(t, w)
  BY StepFrame, Waiting, SameWaiters DEF MsgSent, Wakeup
<1> QED
  BY <1>0, <1>1, <1>2 DEF FlowKept, MsgEffect, BlockTypeOK, Wakeup

\* t receives a message: it is off the queues then.
LEMMA ReceiveFlow ==
  ASSUME CondInv, NEW t \in Threads, StepOf(t), Block(t), UNCHANGED queue, ~Awaits(t)',
         \A x \in Threads : Waking(t, x)' <=> Waking(t, x)
  PROVE  FlowKept(t)
<1>0. BlockTypeOK /\ \A q \in Queues : NoDuplicates(queue[q])
  BY DEF CondInv, CondTypeOK, MutexTypeOK, CondQueueInv
<1>1. ~Linked(t)
  BY Waiting DEF CondInv, OwedInv, Block
<1>2. CondQueueInv'
  BY <1>0, <1>1, StepFrame, QueueKept, SameWaiters DEF BlockTypeOK, Linked
<1>3. MsgReceived(t)
  BY StepFrame, Waiting, SameWaiters DEF MsgReceived, Block
<1> QED
  BY <1>0, <1>2, <1>3 DEF FlowKept, MsgEffect, BlockTypeOK, Block

\* t leaves the queue on its own.
LEMMA LeaveFlow ==
  ASSUME CondInv, NEW t \in Threads, StepOf(t), Dequeue(t), UNCHANGED port,
         ~WasDequeued(t), ~Awaits(t)',
         \A x \in Threads : Waking(t, x)' <=> Waking(t, x)
  PROVE  FlowKept(t)
<1>0. BlockTypeOK /\ \A q \in Queues : NoDuplicates(queue[q])
  BY DEF CondInv, CondTypeOK, MutexTypeOK, CondQueueInv
<1>1. /\ queue' \in [Queues -> Seq(Threads)]
      /\ \A q \in Queues : NoDuplicates(queue'[q])
      /\ \A q \in Queues : Waiters(q)' = Waiters(q) \ {t}
      /\ \A u \in Threads : Linked(u)' <=> (u # t /\ Linked(u))
  BY <1>0, DequeueStep
<1>2. CondQueueInv'
  BY <1>1, StepFrame, QueueKept
<1>3. MsgSame
  BY <1>1, StepFrame, Waiting DEF MsgSame
<1> QED
  BY <1>0, <1>1, <1>2, <1>3 DEF FlowKept, MsgEffect, BlockTypeOK

\* A lock gets the mutex, or joins its queue.
LEMMA LocksFlow ==
  ASSUME CondInv, NEW t \in Threads, NEW m \in Mutexes, Locks(t, m)
  PROVE  FlowKept(t)
<1>0. /\ StepOf(t) /\ pc \in [Threads -> PCs] /\ obj \in [Threads -> Mutexes] /\ m \in Queues
      /\ LockEffect(t, m)
  BY LocksDo, MutexAssumption DEF StepOf, CondInv, CondTypeOK, MutexTypeOK
<1>1. ~Awaits(t)
  BY <1>0 DEF LockEffect, Awaits, CondWaiting
<1>2. \A x \in Threads : ~Waking(t, x) /\ ~Waking(t, x)'
  BY <1>0 DEF LockEffect, LockTaken, LockWaits, Waking, LockPCs
<1>3. CASE LockTaken(t, m)
  <2>1. UNCHANGED <<queue, port>> /\ ~Awaits(t)'
    BY <1>0, <1>3 DEF LockEffect, LockTaken, Awaits, CondWaiting, LockPCs
  <2> QED
    BY <1>0, <1>1, <1>2, <2>1, Waiting, SameFlow DEF Linked
<1>4. CASE LockWaits(t, m)
  <2>1. Enqueue(m, t) /\ UNCHANGED port /\ Place(t, m)'
    BY <1>0, <1>4 DEF LockWaits, Place
  <2> QED
    BY <1>0, <1>1, <1>2, <2>1, JoinFlow
<1> QED
  BY <1>0, <1>3, <1>4 DEF LockEffect

\* An unlock leaves the queue of the mutex alone, or takes the first off it.
LEMMA UnlocksFlow ==
  ASSUME CondInv, NEW t \in Threads, NEW m \in Mutexes, Unlocks(t, m)
  PROVE  FlowKept(t)
<1>0. /\ StepOf(t) /\ BlockTypeOK /\ pc \in [Threads -> PCs]
      /\ target \in [Threads -> Threads \cup {NoThread}]
      /\ m \in Queues /\ m # TheCond /\ UnlockEffect(t, m)
  BY UnlocksDo, MutexAssumption, CondAssumption DEF StepOf, CondInv, CondTypeOK, MutexTypeOK
<1>1. pc[t] = "idle" /\ pc'[t] \in {"idle", "wakeup"}
  BY <1>0 DEF UnlockEffect, UnlockFrees, UnlockHands
<1>2. \A x \in Threads : ~Waking(t, x)
  BY <1>0, <1>1 DEF UnlockEffect, Waking
<1>3. Awaits(t)' <=> Awaits(t)
  BY <1>0, <1>1 DEF UnlockEffect, Awaits, CondWaiting, UnlockPCs
<1>4. \A q \in Queues : t \in Waiters(q) => Place(t, q)'
  BY <1>0, <1>1, Waiting DEF UnlockEffect, Place
<1>5. CASE UnlockFrees(t, m)
  <2>1. UNCHANGED <<queue, port>> /\ \A x \in Threads : ~Waking(t, x)'
    BY <1>0, <1>1, <1>5 DEF UnlockFrees, UnlockEffect, Waking, UnlockPCs
  <2> QED
    BY <1>0, <1>2, <1>3, <1>4, <2>1, SameFlow
<1>6. CASE UnlockHands(t, m)
  <2>1. PICK w \in Threads : /\ w \in Waiters(m) /\ Dequeue(w) /\ UNCHANGED port
                             /\ pc'[t] = "wakeup" /\ target'[t] = w
    BY <1>0, <1>6, HeadWaits DEF UnlockHands
  <2>2. Linked(w) /\ w # t
    BY <1>0, <1>1, <2>1, Waiting DEF Linked, Place
  <2>3. \A x \in Threads : Waking(t, x)' <=> x = w
    BY <1>0, <2>1 DEF UnlockEffect, Waking, UnlockPCs
  <2> QED
    BY <1>0, <1>2, <1>3, <1>4, <2>1, <2>2, <2>3, TakeFlow
<1> QED
  BY <1>0, <1>5, <1>6 DEF UnlockEffect

\* The rest of a call on a mutex.
LEMMA MutexFlow ==
  ASSUME CondInv, NEW t \in Threads, MutexSteps(t)
  PROVE  FlowKept(t)
<1>0. /\ StepOf(t) /\ CallInv(t) /\ UNCHANGED condVars /\ pc \in [Threads -> PCs]
      /\ Receive(t) \/ Recheck(t) \/ Gain(t) \/ SendWakeup(t)
  BY ContinueCases DEF StepOf, MutexSteps, CondInv, CondTypeOK, MutexTypeOK
<1>1. cpc' = cpc /\ victim' = victim
  BY <1>0 DEF condVars, localVars
<1>2. CASE Receive(t)
  <2>1. pc[t] = "block" /\ pc'[t] = "received" /\ Block(t) /\ UNCHANGED queue
    BY <1>0, <1>2 DEF Receive, Goto, CallInv
  <2>2. ~Awaits(t)' /\ \A x \in Threads : Waking(t, x)' <=> Waking(t, x)
    BY <1>0, <1>1, <2>1 DEF CallInv, Awaits, CondWaiting, Waking, LockPCs
  <2> QED
    BY <1>0, <2>1, <2>2, ReceiveFlow
<1>3. CASE Recheck(t)
  <2>1. pc[t] = "received" /\ pc'[t] = "gain" /\ Dequeue(t) /\ UNCHANGED port
    BY <1>0, <1>3 DEF Recheck, Goto
  <2>2. ~Awaits(t) /\ ~Awaits(t)' /\ \A x \in Threads : Waking(t, x)' <=> Waking(t, x)
    BY <1>0, <1>1, <2>1 DEF CallInv, Awaits, CondWaiting, Waking, LockPCs
  <2> QED
    BY <1>0, <2>1, <2>2, Waiting, LeaveFlow
<1>4. CASE Gain(t)
  <2>1. pc[t] = "gain" /\ pc'[t] = "idle" /\ UNCHANGED <<queue, port>>
    BY <1>0, <1>4 DEF Gain, Goto, blockVars
  <2>2. /\ Awaits(t)' <=> Awaits(t)
        /\ \A x \in Threads : Waking(t, x)' <=> Waking(t, x)
        /\ \A q \in Queues : Place(t, q) => Place(t, q)'
    BY <1>0, <1>1, <2>1 DEF CallInv, Awaits, CondWaiting, Waking, LockPCs, Place
  <2> QED
    BY <1>0, <2>1, <2>2, Waiting, SameFlow
<1>5. CASE SendWakeup(t)
  <2>1. /\ pc[t] = "wakeup" /\ pc'[t] = "idle" /\ Wakeup(target[t]) /\ UNCHANGED queue
        /\ target[t] \in Threads
    BY <1>0, <1>5 DEF SendWakeup, Goto, CallInv
  <2>2. /\ Awaits(t)' <=> Awaits(t)
        /\ \A q \in Queues : Place(t, q) => Place(t, q)'
    BY <1>0, <1>1, <2>1 DEF Awaits, CondWaiting, Place
  <2>3. /\ \A x \in Threads : Waking(t, x) <=> x = target[t]
        /\ \A x \in Threads : ~Waking(t, x)'
    BY <1>0, <1>1, <2>1 DEF CallInv, Waking, UnlockPCs
  <2> QED
    BY <1>0, <2>1, <2>2, <2>3, Waiting, SendFlow
<1> QED
  BY <1>0, <1>2, <1>3, <1>4, <1>5

\* A thread joins the queue of the condition.
LEMMA JoinsFlow ==
  ASSUME CondInv, NEW t \in Threads, Joins(t)
  PROVE  FlowKept(t)
<1>0. StepOf(t) /\ TheCond \in Queues /\ cpc \in [Threads -> CPCs]
  BY CondAssumption DEF StepOf, CondInv, CondTypeOK
<1>1. /\ Enqueue(TheCond, t) /\ UNCHANGED port /\ pc[t] = "idle" /\ pc'[t] = "idle"
      /\ cpc[t] \in {"prepare", "user"} /\ cpc'[t] \in {"prepared", "release"}
  BY <1>0 DEF Joins, Prepare, HurdWait, At, CGoto, mutexVars
<1>2. /\ ~Awaits(t) /\ Place(t, TheCond)'
      /\ \A x \in Threads : ~Waking(t, x) /\ ~Waking(t, x)'
  BY <1>1 DEF Awaits, CondWaiting, Waking, Place
<1> QED
  BY <1>0, <1>1, <1>2, JoinFlow

\* A signal or a hook dequeues a thread.
LEMMA TakesFlow ==
  ASSUME CondInv, NEW t \in Threads, Takes(t)
  PROVE  FlowKept(t)
<1>0. /\ StepOf(t) /\ BlockTypeOK /\ CallInv(t)
      /\ TheCond \in Queues /\ cpc \in [Threads -> CPCs]
      /\ victim \in [Threads -> Threads \cup {NoThread}]
  BY CondAssumption DEF StepOf, CondInv, CondTypeOK, MutexTypeOK, CondQueueInv
<1>1. PICK w \in Threads :
        /\ Linked(w) /\ Dequeue(w) /\ UNCHANGED port /\ victim'[t] = w
        /\ pc[t] = "idle" /\ pc'[t] = "idle"
        /\ cpc[t] \in {"out", "hook", "cancelme"}
        /\ cpc'[t] \in {"wakeup", "hookwake", "cancelwake"}
  <2>1. CASE Signal(t)
    <3>1. Head(queue[TheCond]) \in Waiters(TheCond) /\ Head(queue[TheCond]) \in Threads
      BY <1>0, <2>1, HeadWaits DEF Signal
    <3>2. Linked(Head(queue[TheCond]))
      BY <1>0, <3>1 DEF Linked
    <3> QED
      BY <1>0, <2>1, <3>1, <3>2 DEF Signal, At, CGoto, mutexVars
  <2>2. CASE HookDequeue(t)
    <3>1. victim[t] \in Threads
      BY <1>0, <2>2 DEF HookDequeue, At, CallInv, VictimPCs
    <3> QED
      BY <1>0, <2>2, <3>1 DEF HookDequeue, At, CGoto, mutexVars, localVars
  <2>3. CASE CancelMe(t) /\ Linked(victim[t])
    <3>1. victim[t] \in Threads
      BY <1>0, <2>3 DEF CancelMe, At, CallInv, VictimPCs
    <3> QED
      BY <1>0, <2>3, <3>1 DEF CancelMe, At, CGoto, mutexVars, localVars
  <2> QED
    BY <2>1, <2>2, <2>3 DEF Takes
<1>2. /\ ~Awaits(t) /\ ~Awaits(t)'
      /\ \A x \in Threads : ~Waking(t, x)
      /\ \A x \in Threads : Waking(t, x)' <=> x = w
  BY <1>1 DEF Awaits, CondWaiting, Waking
<1> QED
  BY <1>0, <1>1, <1>2, Waiting, TakeFlow DEF Linked

\* A wait that timed out leaves the queue.
LEMMA LeavesFlow ==
  ASSUME CondInv, NEW t \in Threads, Leaves(t)
  PROVE  FlowKept(t)
<1>0. StepOf(t) /\ CallInv(t) /\ cpc \in [Threads -> CPCs]
  BY DEF StepOf, CondInv, CondTypeOK
<1>1. /\ Linked(t) /\ Dequeue(t) /\ UNCHANGED port
      /\ cpc[t] \in {"woken", "timedout"} /\ cpc'[t] \in {"finish", "hrelock"}
      /\ pc[t] = "idle" /\ pc'[t] = "idle"
  BY <1>0 DEF Leaves, LeaveQueue, HurdLeave, HurdCheck, At, CGoto, mutexVars, CallInv, LockPCs, UnlockPCs
<1>2. /\ ~Awaits(t)'
      /\ \A x \in Threads : Waking(t, x)' <=> Waking(t, x)
  BY <1>1 DEF Awaits, CondWaiting, Waking
<1> QED
  BY <1>0, <1>1, <1>2, Waiting, LeaveFlow

\* A wait receives its message.
LEMMA ReceivesFlow ==
  ASSUME CondInv, NEW t \in Threads, Receives(t)
  PROVE  FlowKept(t)
<1>0. StepOf(t) /\ cpc \in [Threads -> CPCs]
  BY DEF StepOf, CondInv, CondTypeOK
<1>1. /\ Block(t) /\ UNCHANGED queue
      /\ cpc[t] \in {"block", "drain", "hdrain"} /\ cpc'[t] \in {"woken", "finish", "hrelock"}
      /\ pc[t] = "idle" /\ pc'[t] = "idle"
  BY <1>0 DEF Receives, Woken, DrainWait, HurdDrain, HurdCheck, At, CGoto, mutexVars
<1>2. /\ ~Awaits(t)'
      /\ \A x \in Threads : Waking(t, x)' <=> Waking(t, x)
  BY <1>1 DEF Awaits, CondWaiting, Waking
<1> QED
  BY <1>0, <1>1, <1>2, ReceiveFlow

\* A signal or a hook sends its message.
LEMMA SendsFlow ==
  ASSUME CondInv, NEW t \in Threads, Sends(t)
  PROVE  FlowKept(t)
<1>0. StepOf(t) /\ CallInv(t) /\ cpc \in [Threads -> CPCs]
  BY DEF StepOf, CondInv, CondTypeOK
<1>1. /\ Wakeup(victim[t]) /\ UNCHANGED queue
      /\ cpc[t] \in {"wakeup", "hookwake", "cancelwake"} /\ cpc'[t] \in {"out", "uncancel", "resume"}
      /\ pc[t] = "idle" /\ pc'[t] = "idle"
  BY <1>0 DEF Sends, SignalWakeup, HookWakeup, CancelMeWakeup, At, CGoto, mutexVars
<1>2. victim[t] \in Threads
  BY <1>0, <1>1 DEF CallInv, VictimPCs
<1>3. /\ Awaits(t)' <=> Awaits(t)
      /\ \A q \in Queues : Place(t, q) => Place(t, q)'
  BY <1>1 DEF Awaits, CondWaiting, Place
<1>4. /\ \A x \in Threads : Waking(t, x) <=> x = victim[t]
      /\ \A x \in Threads : ~Waking(t, x)'
  BY <1>1 DEF Waking
<1> QED
  BY <1>0, <1>1, <1>2, <1>3, <1>4, Waiting, SendFlow

\* The steps that only move on.
LEMMA MovesFlow ==
  ASSUME CondInv, NEW t \in Threads, Moves(t)
  PROVE  FlowKept(t)
<1>0. /\ StepOf(t) /\ CallInv(t) /\ cpc \in [Threads -> CPCs]
  BY DEF StepOf, CondInv, CondTypeOK
<1> DEFINE E == /\ UNCHANGED <<queue, port>> /\ pc[t] = "idle" /\ pc'[t] = "idle"
                /\ cpc[t] \notin {"prepared", "release", "wakeup", "hookwake", "cancelwake", "drain", "hdrain"}
                /\ cpc'[t] \notin {"prepared", "release", "block", "wakeup", "hookwake", "cancelwake"}
                /\ cpc[t] = "block" => cpc'[t] = "timedout"
                /\ cpc[t] = "timedout" => ~Linked(t) /\ cpc'[t] \in {"drain", "hdrain"}
                /\ cpc'[t] = "timedout" => cpc[t] = "block"
                /\ cpc'[t] \in {"drain", "hdrain"} => cpc[t] = "timedout"
<1> USE DEF At, CGoto, mutexVars, vars, blockVars
<1>1. ASSUME WaitTimeOut(t) \/ WokenOffQueue(t) \/ DrainNeeded(t) \/ HurdDrainNeeded(t) PROVE E
  BY <1>0, <1>1 DEF WaitTimeOut, WokenOffQueue, DrainNeeded, HurdDrainNeeded
<1>2. ASSUME WaitReturn(t) \/ HurdWaitCancelled(t) \/ HurdCancelledReturn(t) \/ HurdReturn(t) PROVE E
  BY <1>0, <1>2 DEF WaitReturn, HurdWaitCancelled, HurdCancelledReturn, HurdReturn
<1>3. ASSUME HurdLeave(t) /\ ~Linked(t) PROVE E
  BY <1>0, <1>3 DEF HurdLeave, HurdCheck, CallInv, LockPCs, UnlockPCs
<1>4. ASSUME CancelBlocked(t) \/ HookTooLate(t) \/ HurdCancelReturn(t) PROVE E
  BY <1>0, <1>4 DEF CancelBlocked, HookTooLate, HurdCancelReturn
<1>5. ASSUME NEW p \in Threads, HurdCancelCall(t, p) PROVE E
  BY <1>0, <1>5 DEF HurdCancelCall
<1>6. ASSUME CancelMe(t) /\ ~Linked(victim[t]) PROVE E
  BY <1>0, <1>6 DEF CancelMe
<1>7. E
  BY <1>1, <1>2, <1>3, <1>4, <1>5, <1>6 DEF Moves
<1>8. /\ \A q \in Queues : t \in Waiters(q) => Place(t, q)'
      /\ Awaits(t)' <=> Awaits(t)
      /\ \A x \in Threads : Waking(t, x)' <=> Waking(t, x)
  <2>1. \A q \in Queues : t \in Waiters(q) => Place(t, q)'
    BY <1>7, Waiting DEF Place, Linked
  <2>2. Awaits(t)' <=> Awaits(t)
    BY <1>7 DEF Awaits, CondWaiting
  <2>3. \A x \in Threads : Waking(t, x)' <=> Waking(t, x)
    BY <1>7 DEF Waking
  <2> QED
    BY <2>1, <2>2, <2>3
<1> QED
  BY <1>0, <1>7, <1>8, SameFlow

\* A broadcast empties the queue of the condition.
LEMMA BroadcastFlow ==
  ASSUME CondInv, NEW t \in Threads, Broadcast(t)
  PROVE  FlowKept(t)
<1>0. /\ StepOf(t) /\ BlockTypeOK /\ \A q \in Queues : NoDuplicates(queue[q])
      /\ TheCond \in Queues /\ TheCond \notin Mutexes /\ obj \in [Threads -> Mutexes]
  BY CondAssumption DEF StepOf, CondInv, CondTypeOK, MutexTypeOK, CondQueueInv
<1>1. /\ queue' = [queue EXCEPT ![TheCond] = <<>>]
      /\ port' = [u \in Threads |-> port[u] \/ u \in Waiters(TheCond)]
      /\ cpc' = cpc /\ pc' = pc /\ victim' = victim /\ target' = target /\ cpc[t] = "out" /\ pc[t] = "idle"
  BY DEF Broadcast, At, condVars, localVars, mutexVars
<1>2. BlockTypeOK'
  BY <1>0, <1>1 DEF BlockTypeOK
<1>3. \A q \in Queues : Waiters(q)' = IF q = TheCond THEN {} ELSE Waiters(q)
  <2>1. /\ queue'[TheCond] = <<>>
        /\ \A q \in Queues \ {TheCond} : queue'[q] = queue[q]
    BY <1>0, <1>1 DEF BlockTypeOK
  <2> QED
    BY <2>1 DEF Waiters, ToSet
<1>4. \A x \in Threads : Linked(x)' <=> (Linked(x) /\ x \notin Waiters(TheCond))
  <2>1. \A x \in Threads, q \in Queues : x \in Waiters(TheCond) /\ x \in Waiters(q) => q = TheCond
    BY <1>0, Waiting DEF Place
  <2> QED
    BY <1>0, <1>3, <2>1 DEF Linked
<1>5. \A q \in Queues : NoDuplicates(queue'[q])
  BY <1>0, <1>1 DEF BlockTypeOK, NoDuplicates
<1>6. ~Awaits(t) /\ ~Linked(t)
  BY <1>1, Waiting DEF Awaits, CondWaiting
<1>7. CondQueueInv'
  BY <1>0, <1>2, <1>3, <1>5, <1>6, StepFrame, QueueKept DEF BlockTypeOK, Linked
<1>8. MsgToAll
  <2>1. Waiters(TheCond) \subseteq Threads
    BY <1>0, WaitersAreThreads
  <2>2. \A x \in Waiters(TheCond) : Linked(x) /\ ~WasDequeued(x) /\ Awaits(x)
    BY <1>0, <2>1, Waiting DEF Linked
  <2>3. /\ \A u, x \in Threads : Waking(u, x)' <=> Waking(u, x)
        /\ \A x \in Threads : Awaits(x)' <=> Awaits(x)
    BY <1>1 DEF Waking, Awaits, CondWaiting
  <2>4. \A x \in Threads : WasDequeued(x)' <=> (WasDequeued(x) \/ x \in Waiters(TheCond))
    BY <1>0, <1>4, <2>1, <2>2, <2>3, StepFrame, Waiting
  <2> QED
    BY <1>1, <2>2, <2>3, <2>4 DEF MsgToAll
<1> QED
  BY <1>2, <1>7, <1>8 DEF FlowKept, MsgEffect

\* Every step keeps the queues in order and affects the messages in one of the ways.
LEMMA FlowStep ==
  ASSUME CondInv, NEW t \in Threads, StepOf(t)
  PROVE  FlowKept(t)
  BY LocksFlow, UnlocksFlow, MutexFlow, JoinsFlow, TakesFlow, LeavesFlow, ReceivesFlow,
     SendsFlow, MovesFlow, BroadcastFlow DEF StepOf

-----------------------------------------------------------------------------
(* The types.                                                              *)

\* Every step keeps the variables of Mutex in their types...
LEMMA MutexTypesStep ==
  ASSUME CondInv, NEW t \in Threads, StepOf(t)
  PROVE  MutexTypeOK'
<1>0. /\ MutexTypeOK /\ BlockTypeOK' /\ CallInv(t)
  BY FlowStep DEF CondInv, CondTypeOK, FlowKept
<1> DEFINE G == /\ OtherTypes'
                /\ held' \in [Mutexes -> BOOLEAN] /\ pc' \in [Threads -> PCs]
                /\ obj' \in [Threads -> Mutexes] /\ target' \in [Threads -> Threads \cup {NoThread}]
                /\ got' \in [Threads -> [Mutexes -> Nat]]
<1>1. ASSUME NEW m \in Mutexes, Locks(t, m) PROVE G
  <2>1. LockEffect(t, m) /\ OtherTypes'
    BY <1>1, LocksDo
  <2>2. got' \in [Threads -> [Mutexes -> Nat]]
    BY <1>0, <2>1, GotType DEF LockEffect, LockTaken, LockWaits, Grant, MutexTypeOK
  <2>3. CASE LockTaken(t, m)
    BY <1>0, <2>1, <2>2, <2>3 DEF LockTaken, MutexTypeOK
  <2>4. CASE LockWaits(t, m)
    BY <1>0, <2>1, <2>2, <2>4 DEF LockWaits, MutexTypeOK, PCs
  <2> QED
    BY <2>1, <2>3, <2>4 DEF LockEffect
<1>2. ASSUME NEW m \in Mutexes, Unlocks(t, m) PROVE G
  <2>1. UnlockEffect(t, m) /\ OtherTypes'
    BY <1>2, UnlocksDo
  <2>2. UnlockHands(t, m) => Head(queue[m]) \in Threads
    BY <1>0, HeadWaits, MutexAssumption DEF UnlockHands, MutexTypeOK
  <2>4. got' \in [Threads -> [Mutexes -> Nat]]
    BY <1>0, <2>1, GotType DEF UnlockEffect, UnlockFrees, UnlockHands, MutexTypeOK
  <2>5. held' \in [Mutexes -> BOOLEAN] /\ pc' \in [Threads -> PCs]
    BY <1>0, <2>1 DEF UnlockEffect, UnlockFrees, UnlockHands, MutexTypeOK, PCs
  <2>6. obj' \in [Threads -> Mutexes] /\ target' \in [Threads -> Threads \cup {NoThread}]
    BY <1>0, <2>1, <2>2 DEF UnlockEffect, UnlockFrees, UnlockHands, MutexTypeOK
  <2> QED
    BY <2>1, <2>4, <2>5, <2>6
<1>3. ASSUME MutexSteps(t) PROVE G
  <2>1. OtherTypes' /\ (Receive(t) \/ Recheck(t) \/ Gain(t) \/ SendWakeup(t))
    BY <1>0, <1>3, ContinueCases DEF MutexSteps
  <2>2. got' \in [Threads -> [Mutexes -> Nat]]
    <3>1. Gain(t) => Grant(t, obj[t]) /\ obj[t] \in Mutexes
      BY <1>0 DEF Gain, MutexTypeOK
    <3> QED
      BY <1>0, <2>1, <3>1, GotType DEF Receive, Recheck, SendWakeup, MutexTypeOK
  <2> QED
    BY <1>0, <2>1, <2>2 DEF Receive, Recheck, Gain, SendWakeup, Goto, MutexTypeOK, PCs
<1>4. ASSUME Outside(t) PROVE G
  <2>1. UNCHANGED mutexVars
    BY <1>4, OutsideDo DEF KeepEffect
  <2> QED
    BY <1>0, <2>1 DEF mutexVars, MutexTypeOK, OtherTypes
<1>5. G
  BY <1>1, <1>2, <1>3, <1>4 DEF StepOf, Outside
<1> QED
  BY <1>0, <1>5 DEF MutexTypeOK, OtherTypes

\* ... and those of Cond.
LEMMA CondTypesStep ==
  ASSUME CondInv, NEW t \in Threads, StepOf(t), UNCHANGED torn
  PROVE  CondTypeOK'
<1>0. CondTypeOK /\ MutexTypeOK' /\ CallInv(t)
  BY MutexTypesStep DEF CondInv
<1> DEFINE G == /\ cpc' \in [Threads -> CPCs]
                /\ abs' \in [Threads -> BOOLEAN]
                /\ back' \in [Threads -> CPCs]
                /\ newstate' \in [Threads -> BOOLEAN]
                /\ cancelled' \in [Threads -> BOOLEAN]
                /\ victim' \in [Threads -> Threads \cup {NoThread}]
                /\ hook' \in [Threads -> BOOLEAN]
                /\ enabled' \in [Threads -> BOOLEAN]
                /\ pending' \in [Threads -> BOOLEAN]
                /\ sscancel' \in [Threads -> BOOLEAN]
                /\ sshook' \in [Threads -> BOOLEAN]
                /\ suspended' \in [Threads -> Nat]
<1> USE DEF CGoto, localVars, cancelVars, hurdVars, CPCs, WaitPCs, HurdPCs
<1>1. ASSUME NEW m \in Mutexes, Locks(t, m) PROVE G
  <2>1. ASSUME NEW timed \in BOOLEAN, WaitCall(t, timed) PROVE G
    BY <1>0, <2>1 DEF WaitCall, CondTypeOK
  <2>2. ASSUME NEW s \in BOOLEAN, NEW l \in CPCs, SetState(t, s, l) PROVE G
    BY <1>0, <2>2 DEF SetState, CondTypeOK
  <2>3. ASSUME SetCancelState(t) \/ Exit(t) \/ Cleaned(t) PROVE G
    BY <2>2, <2>3 DEF SetCancelState, Exit, Cleaned
  <2>4. ASSUME Finish(t) \/ TestCancel(t) \/ RelockMutex(t) \/ HurdRelock(t) \/ Enter(t) PROVE G
    BY <1>0, <2>4 DEF Finish, TestCancel, RelockMutex, HurdRelock, Enter, CondTypeOK
  <2>5. ASSUME NEW p \in Threads, CancelCall(t, p) PROVE G
    BY <1>0, <2>5 DEF CancelCall, CondTypeOK
  <2> QED
    BY <1>1, <2>1, <2>3, <2>4, <2>5 DEF Locks
<1>2. ASSUME NEW m \in Mutexes, Unlocks(t, m) PROVE G
  <2>1. ASSUME WaitCancelled(t) \/ Prepared(t) \/ ReleaseMutex(t) \/ Cleanup(t) \/ Leave(t) \/ Tested(t) PROVE G
    BY <1>0, <2>1 DEF WaitCancelled, Prepared, ReleaseMutex, Cleanup, Leave, Tested, CondTypeOK
  <2>2. ASSUME ClearHook(t) PROVE G
    BY <1>0, <2>2 DEF ClearHook, CondTypeOK, MustCancel
  <2>3. ASSUME StateSet(t) PROVE G
    BY <1>0, <2>3 DEF StateSet, CondTypeOK
  <2>4. ASSUME CancelRecord(t) \/ CancelReturn(t) PROVE G
    BY <1>0, <2>4 DEF CancelRecord, CancelReturn, CondTypeOK
  <2> QED
    BY <1>2, <2>1, <2>2, <2>3, <2>4 DEF Unlocks
<1>3. ASSUME MutexSteps(t) \/ Broadcast(t) PROVE G
  BY <1>0, <1>3 DEF MutexSteps, Broadcast, condVars, CondTypeOK
<1>4. ASSUME Joins(t) PROVE G
  BY <1>0, <1>4 DEF Joins, Prepare, HurdWait, CondTypeOK
<1>5. ASSUME Takes(t) PROVE G
  <2>1. ASSUME Signal(t) PROVE G
    <3>1. Head(queue[TheCond]) \in Threads
      BY <1>0, <2>1, HeadWaits, CondAssumption DEF Signal, CondTypeOK, MutexTypeOK
    <3> QED
      BY <1>0, <2>1, <3>1 DEF Signal, CondTypeOK
  <2> QED
    BY <1>0, <1>5, <2>1 DEF Takes, HookDequeue, CancelMe, CondTypeOK
<1>6. ASSUME Leaves(t) \/ Receives(t) PROVE G
  BY <1>0, <1>6 DEF Leaves, Receives, LeaveQueue, HurdLeave, HurdCheck, Woken, DrainWait, HurdDrain, CondTypeOK
<1>7. ASSUME Sends(t) PROVE G
  BY <1>0, <1>7 DEF Sends, SignalWakeup, HookWakeup, CancelMeWakeup, CondTypeOK
<1>8. ASSUME Moves(t) PROVE G
  <2>1. ASSUME WaitTimeOut(t) \/ WokenOffQueue(t) \/ DrainNeeded(t) \/ HurdDrainNeeded(t) \/ HookTooLate(t) PROVE G
    BY <1>0, <2>1 DEF WaitTimeOut, WokenOffQueue, DrainNeeded, HurdDrainNeeded, HookTooLate, CondTypeOK
  <2>2. ASSUME WaitReturn(t) \/ HurdReturn(t) \/ HurdWaitCancelled(t) \/ HurdCancelledReturn(t) PROVE G
    BY <1>0, <2>2 DEF WaitReturn, HurdReturn, HurdWaitCancelled, HurdCancelledReturn, CondTypeOK
  <2>3. ASSUME HurdLeave(t) \/ CancelMe(t) \/ CancelBlocked(t) PROVE G
    BY <1>0, <2>3 DEF HurdLeave, HurdCheck, CancelMe, CancelBlocked, CondTypeOK
  <2>4. ASSUME NEW p \in Threads, HurdCancelCall(t, p) PROVE G
    BY <1>0, <2>4 DEF HurdCancelCall, CondTypeOK
  <2>5. ASSUME HurdCancelReturn(t) PROVE G
    <3>1. /\ victim[t] \in Threads /\ t \in Suspenders(victim[t])
          /\ IsFiniteSet(Suspenders(victim[t])) /\ suspended[victim[t]] = Cardinality(Suspenders(victim[t]))
      BY <1>0, <2>5 DEF HurdCancelReturn, At, CallInv, VictimPCs, Suspenders, CondInv, SuspendInv
    <3>2. suspended[victim[t]] \in Nat \ {0}
      BY <3>1, FS_CardinalityType, FS_EmptySet
    <3> QED
      BY <1>0, <2>5, <3>1, <3>2 DEF HurdCancelReturn, CondTypeOK
  <2> QED
    BY <1>8, <2>1, <2>2, <2>3, <2>4, <2>5 DEF Moves
<1>9. G
  BY <1>1, <1>2, <1>3, <1>4, <1>5, <1>6, <1>7, <1>8 DEF StepOf
<1> QED
  BY <1>0, <1>9 DEF CondTypeOK

-----------------------------------------------------------------------------
(* The exclusion of the mutexes.                                           *)

\* The claims of a thread that a step of another leaves on its queue.
LEMMA OtherClaims ==
  ASSUME CondInv, NEW t \in Threads, Frame(t), NEW x \in Threads \ {t},
         pc[x] = "block" => (Linked(x)' <=> Linked(x))
  PROVE  \A n \in Mutexes : Claims(x, n)' <=> Claims(x, n)
<1>1. pc[x] \in {"idle", "block", "received", "gain", "wakeup"}
  BY DEF CondInv, CallInv
<1>2. pc'[x] = pc[x] /\ obj'[x] = obj[x] /\ got'[x] = got[x]
  BY DEF Frame
<1> QED
  BY <1>1, <1>2 DEF Claims, Handed

\* What a lock that gets the mutex, and one that waits, does to the claims.
LEMMA LocksExclusion ==
  ASSUME CondInv, NEW t \in Threads, NEW m \in Mutexes, Locks(t, m),
         NEW n \in Mutexes, Exclusive(n)
  PROVE  Exclusive(n)'
<1>0. /\ StepOf(t) /\ LockEffect(t, m) /\ Frame(t) /\ BlockTypeOK
      /\ got \in [Threads -> [Mutexes -> Nat]] /\ pc \in [Threads -> PCs]
      /\ held \in [Mutexes -> BOOLEAN] /\ m \in Queues
      /\ \A q \in Queues : NoDuplicates(queue[q])
  BY LocksDo, FrameStep, MutexAssumption DEF StepOf, CondInv, CondTypeOK, MutexTypeOK, CondQueueInv
<1>1. CASE LockTaken(t, m)
  <2>1. UNCHANGED <<queue, pc, obj>> /\ ~held[m] /\ held' = [held EXCEPT ![m] = TRUE]
    BY <1>1 DEF LockTaken
  <2>2. \A x \in Threads \ {t} : Claims(x, n)' <=> Claims(x, n)
    BY <1>0, <2>1, SameWaiters, OtherClaims
  <2>3. Claims(t, n)' <=> (Claims(t, n) \/ n = m)
    <3>1. got'[t][n] = IF n = m THEN got[t][n] + 1 ELSE got[t][n]
      BY <1>0, <1>1 DEF LockTaken
    <3>2. ~Handed(t, n) /\ ~Handed(t, n)' /\ got[t][n] \in Nat
      BY <1>0, <2>1 DEF LockEffect, Handed
    <3> QED
      BY <3>1, <3>2 DEF Claims
  <2> QED
    BY <1>0, <2>1, <2>2, <2>3 DEF Exclusive
<1>2. CASE LockWaits(t, m)
  <2>1. Enqueue(m, t) /\ UNCHANGED <<held, got>> /\ pc'[t] = "block"
    BY <1>0, <1>2 DEF LockWaits
  <2>2. ~Linked(t)
    BY <1>0, Waiting DEF LockEffect, Awaits, CondWaiting
  <2>3. \A u \in Threads : Linked(u)' <=> (u = t \/ Linked(u))
    BY <1>0, <2>1, <2>2, EnqueueStep
  <2>4. \A x \in Threads \ {t} : Claims(x, n)' <=> Claims(x, n)
    BY <1>0, <2>3, OtherClaims
  <2>5. Claims(t, n)' <=> Claims(t, n)
    BY <1>0, <2>1, <2>3 DEF LockEffect, Claims, Handed
  <2> QED
    BY <2>1, <2>4, <2>5 DEF Exclusive
<1> QED
  BY <1>0, <1>1, <1>2 DEF LockEffect

\* An unlock gives the claim up, or passes it on.
LEMMA UnlocksExclusion ==
  ASSUME CondInv, NEW t \in Threads, NEW m \in Mutexes, Unlocks(t, m),
         NEW n \in Mutexes, Exclusive(n)
  PROVE  Exclusive(n)'
<1>0. /\ StepOf(t) /\ UnlockEffect(t, m) /\ Frame(t) /\ BlockTypeOK
      /\ got \in [Threads -> [Mutexes -> Nat]] /\ pc \in [Threads -> PCs]
      /\ held \in [Mutexes -> BOOLEAN] /\ m \in Queues /\ m # TheCond
      /\ \A q \in Queues : NoDuplicates(queue[q])
  BY UnlocksDo, FrameStep, MutexAssumption, CondAssumption
     DEF StepOf, CondInv, CondTypeOK, MutexTypeOK, CondQueueInv
<1>1. Claims(t, n)' <=> (Claims(t, n) /\ n # m)
  <2>1. ~Handed(t, n) /\ ~Handed(t, n)'
    BY <1>0 DEF UnlockEffect, UnlockFrees, UnlockHands, Handed
  <2>2. got'[t][n] = IF n = m THEN 0 ELSE got[t][n]
    BY <1>0 DEF UnlockEffect, UnlockFrees, UnlockHands, Ungrant
  <2> QED
    BY <2>1, <2>2 DEF Claims
<1>2. Claims(t, m)
  BY <1>0 DEF UnlockEffect, Claims
<1>3. CASE UnlockFrees(t, m)
  <2>1. UNCHANGED queue /\ held' = [held EXCEPT ![m] = FALSE]
    BY <1>3 DEF UnlockFrees
  <2>2. \A x \in Threads \ {t} : Claims(x, n)' <=> Claims(x, n)
    BY <1>0, <2>1, SameWaiters, OtherClaims
  <2> QED
    BY <1>0, <1>1, <1>2, <2>1, <2>2 DEF Exclusive
<1>4. CASE UnlockHands(t, m)
  <2>1. PICK w \in Threads : w \in Waiters(m) /\ Dequeue(w) /\ UNCHANGED held
    BY <1>0, <1>4, HeadWaits DEF UnlockHands
  <2>2. Linked(w) /\ pc[w] = "block" /\ obj[w] = m /\ w # t
    BY <1>0, <2>1, Waiting DEF Linked, Place, UnlockEffect
  <2>3. \A u \in Threads : Linked(u)' <=> (u # w /\ Linked(u))
    BY <1>0, <2>1, DequeueStep
  <2>4. \A x \in Threads \ {t, w} : Claims(x, n)' <=> Claims(x, n)
    BY <1>0, <2>3, OtherClaims
  <2>5. Claims(w, n)' <=> (Claims(w, n) \/ n = m)
    <3>1. pc'[w] = "block" /\ obj'[w] = m /\ got'[w] = got[w] /\ ~Linked(w)'
      BY <1>0, <2>1, <2>2, <2>3 DEF Frame
    <3> QED
      BY <2>2, <3>1 DEF Claims, Handed
  <2>6. CASE n = m
    <3>1. held[m] /\ \A x \in Threads : Claims(x, m) => x = t
      BY <1>2, <2>6 DEF Exclusive
    <3>2. \A x \in Threads : Claims(x, n)' => x = w
      BY <1>1, <2>4, <2>6, <3>1
    <3> QED
      BY <2>1, <2>6, <3>1, <3>2 DEF Exclusive
  <2>7. CASE n # m
    <3>1. \A x \in Threads : Claims(x, n)' <=> Claims(x, n)
      BY <1>1, <2>4, <2>5, <2>7
    <3> QED
      BY <2>1, <3>1 DEF Exclusive
  <2> QED
    BY <2>6, <2>7
<1> QED
  BY <1>0, <1>3, <1>4 DEF UnlockEffect

\* The rest of a call turns what t was handed into what it was granted.
LEMMA ContinueExclusion ==
  ASSUME CondInv, NEW t \in Threads, MutexSteps(t), NEW n \in Mutexes, Exclusive(n)
  PROVE  Exclusive(n)'
<1>0. /\ StepOf(t) /\ Frame(t) /\ BlockTypeOK /\ CallInv(t) /\ OwedInv(t)
      /\ got \in [Threads -> [Mutexes -> Nat]] /\ pc \in [Threads -> PCs] /\ obj \in [Threads -> Mutexes]
      /\ \A q \in Queues : NoDuplicates(queue[q])
  BY FrameStep DEF StepOf, CondInv, CondTypeOK, MutexTypeOK, CondQueueInv
<1>1. Receive(t) \/ Recheck(t) \/ Gain(t) \/ SendWakeup(t)
  BY <1>0, ContinueCases DEF MutexSteps, CondInv, CondTypeOK
<1>2. UNCHANGED held
  BY <1>1 DEF Receive, Recheck, Gain, SendWakeup
<1>3. \A u \in Threads : Linked(u)' <=> Linked(u)
  <2>1. CASE Recheck(t)
    <3>1. ~Linked(t) /\ Dequeue(t)
      BY <1>0, <2>1, Waiting DEF Recheck, Awaits, CondWaiting, CallInv, LockPCs
    <3> QED
      BY <1>0, <3>1, DequeueStep
  <2> QED
    BY <1>1, <2>1, SameWaiters DEF Receive, Gain, SendWakeup, blockVars
<1>4. \A x \in Threads \ {t} : Claims(x, n)' <=> Claims(x, n)
  BY <1>0, <1>3, OtherClaims
<1>5. Claims(t, n)' <=> Claims(t, n)
  <2>1. CASE Receive(t)
    <3>1. ~Linked(t) /\ pc[t] = "block" /\ pc'[t] = "received" /\ obj' = obj /\ got' = got
      BY <1>0, <2>1, Waiting DEF Receive, Goto, Block, OwedInv, CallInv
    <3> QED
      BY <3>1 DEF Claims, Handed
  <2>2. CASE Recheck(t)
    BY <1>0, <2>2 DEF Recheck, Goto, Claims, Handed
  <2>3. CASE SendWakeup(t)
    BY <1>0, <2>3 DEF SendWakeup, Goto, Claims, Handed
  <2>4. CASE Gain(t)
    <3>1. /\ pc[t] = "gain" /\ pc'[t] = "idle"
          /\ got'[t][n] = IF n = obj[t] THEN got[t][n] + 1 ELSE got[t][n]
      BY <1>0, <2>4 DEF Gain, Goto, Grant
    <3>2. got[t][n] \in Nat
      BY <1>0
    <3> QED
      BY <3>1, <3>2 DEF Claims, Handed
  <2> QED
    BY <1>1, <2>1, <2>2, <2>3, <2>4
<1> QED
  BY <1>2, <1>4, <1>5 DEF Exclusive

\* Outside the calls on mutexes, only the hook of pthread_cancel touches a
\* claim: it may take its thread off the queue of that thread's cancel_lock.
LEMMA OutsideExclusion ==
  ASSUME CondInv, NEW t \in Threads, Outside(t), NEW n \in Mutexes, Exclusive(n),
         ~(HookDequeue(t) /\ n = CancelLock[victim[t]])
  PROVE  Exclusive(n)'
<1>0. /\ StepOf(t) /\ Frame(t) /\ BlockTypeOK /\ KeepEffect(t) /\ CallInv(t)
      /\ \A q \in Queues : NoDuplicates(queue[q])
      /\ TheCond \in Queues /\ TheCond \notin Mutexes /\ obj \in [Threads -> Mutexes]
  BY FrameStep, OutsideDo, CondAssumption DEF Outside, StepOf, CondInv, CondTypeOK, MutexTypeOK, CondQueueInv
<1>1. pc[t] = "idle" /\ UNCHANGED <<held, got, pc, obj>>
  BY <1>0 DEF KeepEffect, mutexVars
<1>2. \A x \in Waiters(TheCond) : x \in Threads /\ pc[x] # "block"
  BY <1>0, WaitersAreThreads, Waiting DEF Place
<1>3. ASSUME NEW w \in Threads, Dequeue(w), pc[w] # "block"
      PROVE  \A x \in Threads : pc[x] = "block" => (Linked(x)' <=> Linked(x))
  BY <1>0, <1>3, DequeueStep
<1>4. ASSUME ~HookDequeue(t)
      PROVE  \A x \in Threads : pc[x] = "block" => (Linked(x)' <=> Linked(x))
  <2>1. CASE Joins(t)
    <3>1. Enqueue(TheCond, t) /\ ~Linked(t)
      BY <2>1, Waiting DEF Joins, Prepare, HurdWait, At, Awaits, CondWaiting
    <3> QED
      BY <1>0, <1>1, <3>1, EnqueueStep
  <2>2. CASE Signal(t)
    <3>1. Head(queue[TheCond]) \in Waiters(TheCond)
      BY <1>0, <2>2, HeadWaits DEF Signal
    <3> QED
      BY <1>2, <1>3, <2>2, <3>1 DEF Signal
  <2>3. CASE CancelMe(t) /\ Linked(victim[t])
    <3>1. victim[t] \in Threads /\ sshook[victim[t]] /\ CallInv(victim[t]) /\ HooksInv(victim[t])
      BY <1>0, <2>3 DEF CancelMe, At, CallInv, VictimPCs, CondInv, HookedInv
    <3>2. pc[victim[t]] # "block"
      BY <3>1 DEF HooksInv, CallInv, SSHookPCs, LockPCs
    <3> QED
      BY <1>3, <2>3, <3>1, <3>2 DEF CancelMe
  <2>4. CASE Leaves(t)
    BY <1>1, <1>3, <2>4 DEF Leaves, LeaveQueue, HurdLeave
  <2>5. CASE Broadcast(t)
    <3>1. \A q \in Queues \ {TheCond} : Waiters(q)' = Waiters(q)
      BY <1>0, <2>5 DEF Broadcast, BlockTypeOK, Waiters
    <3>2. Waiters(TheCond)' = {}
      BY <1>0, <2>5 DEF Broadcast, BlockTypeOK, Waiters, ToSet
    <3> QED
      BY <1>0, <1>2, <3>1, <3>2 DEF Linked
  <2>6. CASE Receives(t) \/ Sends(t) \/ Moves(t)
    <3>1. UNCHANGED queue
      BY <2>6 DEF Receives, Sends, Moves, Woken, DrainWait, HurdDrain, SignalWakeup, HookWakeup,
         CancelMeWakeup, WaitTimeOut, WokenOffQueue, DrainNeeded, WaitReturn, HurdWaitCancelled,
         HurdCancelledReturn, HurdDrainNeeded, HurdReturn, HurdLeave, CancelBlocked, HookTooLate,
         HurdCancelCall, CancelMe, HurdCancelReturn, vars, blockVars
    <3> QED
      BY <3>1, SameWaiters
  <2> QED
    BY <1>4, <2>1, <2>2, <2>3, <2>4, <2>5, <2>6 DEF Outside, Takes
<1>5. ASSUME HookDequeue(t)
      PROVE  /\ victim[t] \in Threads /\ Dequeue(victim[t])
             /\ pc[victim[t]] = "block" => obj[victim[t]] = CancelLock[victim[t]]
  <2>1. victim[t] \in Threads /\ hook[victim[t]] /\ CallInv(victim[t]) /\ HooksInv(victim[t])
    BY <1>0, <1>5 DEF HookDequeue, At, CallInv, VictimPCs, CondInv, HookedInv
  <2> QED
    BY <1>5, <2>1 DEF HookDequeue, HooksInv, CallInv, HookPCs, LockPCs, LockOf
<1>6. \A x \in Threads : Claims(x, n)' <=> Claims(x, n)
  <2>0. \A x \in Threads : pc[x] \in {"idle", "block", "received", "gain", "wakeup"}
    BY DEF CondInv, CallInv
  <2>1. CASE ~HookDequeue(t)
    BY <1>1, <1>4, <2>0, <2>1 DEF Claims, Handed
  <2>2. CASE HookDequeue(t)
    <3>1. \A x \in Threads : Linked(x)' <=> (x # victim[t] /\ Linked(x))
      BY <1>0, <1>5, <2>2, DequeueStep
    <3>2. pc[victim[t]] = "block" => obj[victim[t]] # n
      BY <1>5, <2>2
    <3> QED
      BY <1>1, <2>0, <3>1, <3>2 DEF Claims, Handed
  <2> QED
    BY <2>1, <2>2
<1> QED
  BY <1>1, <1>6 DEF Exclusive

-----------------------------------------------------------------------------
(* The hooks and the requests.                                             *)

HookingPCs == {"hook", "cancelme", "cancelwake", "resume"}

\* The steps that call a hook, or that lead to it or on from it.
Hooking(t) ==
  \/ CancelBlocked(t) \/ HookDequeue(t) \/ HookTooLate(t)
  \/ \E p \in Threads : HurdCancelCall(t, p)
  \/ CancelMe(t) \/ CancelMeWakeup(t) \/ HurdCancelReturn(t)

\* What the other steps do to the requests: those that are recorded stay so,
\* and a new one is recorded only where no hook is to be called.
Calm(t) ==
  /\ \/ cpc[t] \notin HookingPCs /\ cpc'[t] \notin HookingPCs
     \/ cpc' = cpc /\ victim' = victim
  /\ \A x \in Threads : \/ pending'[x] = pending[x]
                        \/ pending'[x] /\ (~enabled[x] \/ ~hook[x])
  /\ \A x \in Threads : sscancel'[x] => sscancel[x]
  /\ UNCHANGED suspended
  /\ \A x \in Threads \ {t} : sshook'[x] = sshook[x]
  /\ hook'[t] /\ ~hook[t] => Prepare(t)
  /\ sshook'[t] /\ ~sshook[t] => \E timed \in BOOLEAN : HurdWait(t, timed)
  /\ hook[t] /\ ~hook'[t] => cpc[t] = "clear" /\ pc[t] = "idle"
  /\ enabled'[t] # enabled[t] => cpc[t] = "setstate"

\* The steps that are not hooking ones do this.
LEMMA CalmDo ==
  ASSUME CondInv, NEW t \in Threads, StepOf(t), ~Hooking(t)
  PROVE  Calm(t)
<1>0. /\ cpc \in [Threads -> CPCs] /\ hook \in [Threads -> BOOLEAN] /\ enabled \in [Threads -> BOOLEAN]
      /\ pending \in [Threads -> BOOLEAN] /\ sshook \in [Threads -> BOOLEAN]
      /\ sscancel \in [Threads -> BOOLEAN]
  BY DEF CondInv, CondTypeOK
<1> USE DEF cancelVars, hurdVars, HookingPCs
<1>1. ASSUME NEW m \in Mutexes, Locks(t, m) PROVE Calm(t)
  <2>1. LockEffect(t, m)
    BY <1>1, LocksDo
  <2> QED
    BY <2>1 DEF LockEffect, Calm, LockPCs
<1>2. ASSUME NEW m \in Mutexes, Unlocks(t, m) PROVE Calm(t)
  <2>1. UnlockEffect(t, m)
    BY <1>2, UnlocksDo
  <2>2. \A x \in Threads : \/ pending'[x] = pending[x]
                           \/ pending'[x] /\ (~enabled[x] \/ ~hook[x])
    BY <1>0, <2>1 DEF UnlockEffect
  <2>3. /\ hook'[t] => hook[t]
        /\ hook[t] /\ ~hook'[t] => cpc[t] = "clear" /\ pc[t] = "idle"
        /\ enabled'[t] # enabled[t] => cpc[t] = "setstate"
    BY <1>0, <2>1 DEF UnlockEffect
  <2> QED
    BY <2>1, <2>2, <2>3 DEF UnlockEffect, Calm, UnlockPCs
<1>3. ASSUME MutexSteps(t) \/ Broadcast(t) PROVE Calm(t)
  BY <1>3 DEF MutexSteps, Broadcast, condVars, localVars, Calm
<1> USE DEF At, CGoto, localVars
<1>4. ASSUME Prepare(t) PROVE Calm(t)
  BY <1>0, <1>4 DEF Prepare, Calm
<1>5. ASSUME NEW timed \in BOOLEAN, HurdWait(t, timed) PROVE Calm(t)
  BY <1>0, <1>5 DEF HurdWait, Calm
<1>6. ASSUME Signal(t) \/ SignalWakeup(t) \/ HookWakeup(t) PROVE Calm(t)
  BY <1>0, <1>6 DEF Signal, SignalWakeup, HookWakeup, Calm
<1>7. ASSUME LeaveQueue(t) \/ Woken(t) \/ DrainWait(t) PROVE Calm(t)
  BY <1>0, <1>7 DEF LeaveQueue, Woken, DrainWait, Calm
<1>8. ASSUME HurdLeave(t) \/ HurdDrain(t) PROVE Calm(t)
  BY <1>0, <1>8 DEF HurdLeave, HurdDrain, HurdCheck, Calm
<1>9. ASSUME WaitTimeOut(t) \/ WokenOffQueue(t) \/ DrainNeeded(t) \/ HurdDrainNeeded(t) PROVE Calm(t)
  BY <1>0, <1>9 DEF WaitTimeOut, WokenOffQueue, DrainNeeded, HurdDrainNeeded, Calm
<1>10. ASSUME WaitReturn(t) \/ HurdReturn(t) \/ HurdWaitCancelled(t) \/ HurdCancelledReturn(t) PROVE Calm(t)
  BY <1>0, <1>10 DEF WaitReturn, HurdReturn, HurdWaitCancelled, HurdCancelledReturn, Calm
<1> QED
  BY <1>1, <1>2, <1>3, <1>4, <1>5, <1>6, <1>7, <1>8, <1>9, <1>10
     DEF StepOf, Hooking, Joins, Takes, Leaves, Receives, Sends, Moves

\* The hooking steps, in turn, leave all these alone but what they are about.
LEMMA HookingDo ==
  ASSUME CondInv, NEW t \in Threads, StepOf(t), Hooking(t)
  PROVE  /\ Outside(t) /\ UNCHANGED <<hook, enabled, sshook>>
         /\ victim[t] \in Threads \/ \E p \in Threads : HurdCancelCall(t, p)
<1>1. /\ Outside(t) /\ UNCHANGED <<hook, enabled, sshook>>
  BY DEF Hooking, Outside, Takes, Sends, Moves, CancelBlocked, HookDequeue, HookTooLate, HurdCancelCall,
         CancelMe, CancelMeWakeup, HurdCancelReturn, cancelVars, hurdVars
<1>2. CallInv(t)
  BY DEF CondInv
<1> QED
  BY <1>1, <1>2 DEF Hooking, CancelBlocked, HookDequeue, HookTooLate,
         CancelMe, CancelMeWakeup, HurdCancelReturn, At, CallInv, VictimPCs

\* Nobody suspends a thread that takes a step.
LEMMA NotSuspended ==
  ASSUME CondInv, NEW t \in Threads, suspended[t] = 0, NEW u \in Threads,
         cpc[u] \in {"cancelme", "cancelwake", "resume"}
  PROVE  victim[u] # t
<1>1. IsFiniteSet(Suspenders(t)) /\ Cardinality(Suspenders(t)) = 0
  BY DEF CondInv, SuspendInv
<1>2. Suspenders(t) = {}
  BY <1>1, FS_EmptySet
<1> QED
  BY <1>2 DEF Suspenders

\* One canceller calls the hook of p, with p's cancel_lock to itself.
LEMMA OneHooker ==
  ASSUME CondInv, NEW p \in Threads, NEW u \in Threads, cpc[u] = "hook", victim[u] = p,
         NEW x \in Threads, HasCancel(x, p)
  PROVE  x = u
<1>1. CancelLock[p] \in Mutexes /\ Exclusive(CancelLock[p])
  BY CondAssumption DEF CondInv, ExclusionInv, HookUncalled
<1>2. HasCancel(u, p)
  BY DEF HasCancel
<1>3. got[u][CancelLock[p]] = 1 /\ got[x][CancelLock[p]] = 1
  BY <1>2 DEF CondInv, GrantsInv
<1> QED
  BY <1>1, <1>3 DEF Exclusive, Claims

\* A hook that has been called stays called.
LEMMA StaysCalled ==
  ASSUME CondInv, NEW t \in Threads, StepOf(t), NEW p \in Threads, HookUncalled(p)'
  PROVE  HookUncalled(p) /\ ~(HookDequeue(t) /\ victim[t] = p)
<1>0. Frame(t) /\ cpc \in [Threads -> CPCs] /\ pending \in [Threads -> BOOLEAN]
  BY FrameStep DEF CondInv, CondTypeOK
<1>1. pending[p] => pending'[p]
  <2>1. CASE Hooking(t)
    BY <1>0, <2>1 DEF Hooking, CancelBlocked, HookDequeue, HookTooLate, HurdCancelCall,
         CancelMe, CancelMeWakeup, HurdCancelReturn, cancelVars
  <2> QED
    BY <2>1, CalmDo DEF Calm
<1>2. ASSUME NEW u \in Threads, cpc'[u] = "hook", victim'[u] = p
      PROVE  HookUncalled(p)
  <2>1. CASE u # t
    BY <1>0, <1>2, <2>1 DEF Frame, HookUncalled
  <2>2. CASE u = t /\ ~Hooking(t)
    BY <1>2, <2>2, CalmDo DEF Calm, HookingPCs, HookUncalled
  <2>3. CASE u = t /\ Hooking(t)
    BY <1>0, <1>2, <2>3 DEF Hooking, CancelBlocked, HookDequeue, HookTooLate, HurdCancelCall,
         CancelMe, CancelMeWakeup, HurdCancelReturn, CGoto, localVars, HookUncalled
  <2> QED
    BY <2>1, <2>2, <2>3
<1>3. ASSUME HookDequeue(t), victim[t] = p PROVE FALSE
  <2>1. cpc[t] = "hook" /\ cpc'[t] = "hookwake" /\ pending' = pending
    BY <1>0, <1>3 DEF HookDequeue, At, CGoto, cancelVars
  <2>2. pending[p]
    BY <1>3, <2>1 DEF CondInv, HookedInv
  <2>3. PICK u \in Threads : cpc'[u] = "hook" /\ victim'[u] = p
    BY <2>1, <2>2 DEF HookUncalled
  <2>4. u # t /\ cpc[u] = "hook" /\ victim[u] = p
    BY <1>0, <2>1, <2>3 DEF Frame
  <2>5. HasCancel(u, p)
    BY <2>4 DEF HasCancel
  <2> QED
    BY <1>3, <2>1, <2>4, <2>5, OneHooker
<1> QED
  BY <1>1, <1>2, <1>3 DEF HookUncalled

\* Every step keeps the mutexes exclusive, a cancel_lock up to the hook.
LEMMA ExclusionStep ==
  ASSUME CondInv, NEW t \in Threads, StepOf(t)
  PROVE  ExclusionInv'
<1>0. /\ UserMutex \in Mutexes /\ \A p \in Threads : CancelLock[p] \in Mutexes \ {UserMutex}
      /\ \A p, q \in Threads : CancelLock[p] = CancelLock[q] => p = q
      /\ HookDequeue(t) => victim[t] \in Threads
  BY CondAssumption DEF CondInv, CallInv, HookDequeue, At, VictimPCs
<1>1. ASSUME NEW n \in Mutexes, Exclusive(n), ~(HookDequeue(t) /\ n = CancelLock[victim[t]])
      PROVE  Exclusive(n)'
  BY <1>1, LocksExclusion, UnlocksExclusion, ContinueExclusion, OutsideExclusion DEF StepOf, Outside
<1>2. Exclusive(UserMutex)'
  BY <1>0, <1>1 DEF CondInv, ExclusionInv
<1>3. ASSUME NEW p \in Threads, HookUncalled(p)' PROVE Exclusive(CancelLock[p])'
  BY <1>0, <1>1, <1>3, StaysCalled DEF CondInv, ExclusionInv
<1> QED
  BY <1>2, <1>3 DEF ExclusionInv

\* Whoever is about to call a hook still finds it.
LEMMA HookedStep ==
  ASSUME CondInv, NEW t \in Threads, suspended[t] = 0, StepOf(t)
  PROVE  HookedInv'
<1>0. /\ Frame(t) /\ cpc \in [Threads -> CPCs] /\ victim \in [Threads -> Threads \cup {NoThread}]
      /\ pending \in [Threads -> BOOLEAN] /\ hook \in [Threads -> BOOLEAN] /\ sshook \in [Threads -> BOOLEAN]
      /\ \A u \in Threads : CallInv(u) /\ LocalInv(u)'
  BY StepFrame DEF CondInv, CondTypeOK
<1>1. ASSUME NEW u \in Threads, cpc'[u] = "hook", u # t
      PROVE  pending'[victim'[u]] /\ hook'[victim'[u]]
  <2>1. cpc[u] = "hook" /\ victim'[u] = victim[u] /\ victim[u] \in Threads
    BY <1>0, <1>1 DEF Frame, CallInv, VictimPCs
  <2>2. pending[victim[u]] /\ hook[victim[u]]
    BY <2>1 DEF CondInv, HookedInv
  <2>3. CASE Hooking(t)
    <3>1. pending'[victim[u]]
      BY <1>0, <2>1, <2>2, <2>3 DEF Hooking, CancelBlocked, HookDequeue, HookTooLate, HurdCancelCall,
         CancelMe, CancelMeWakeup, HurdCancelReturn, cancelVars
    <3> QED
      BY <2>1, <2>2, <2>3, <3>1, HookingDo
  <2>4. CASE ~Hooking(t)
    <3>1. Calm(t)
      BY <2>4, CalmDo
    <3>2. pending'[victim[u]]
      BY <2>1, <2>2, <3>1 DEF Calm
    <3>3. CASE victim[u] = t
      <4>1. ~(cpc[t] = "clear" /\ pc[t] = "idle")
        BY <1>1, <2>1, <3>3, OneHooker DEF HasCancel
      <4> QED
        BY <2>1, <2>2, <3>1, <3>2, <3>3, <4>1 DEF Calm
    <3>4. CASE victim[u] # t
      BY <1>0, <2>1, <2>2, <3>2, <3>4 DEF Frame
    <3> QED
      BY <3>3, <3>4
  <2> QED
    BY <2>3, <2>4
<1>2. ASSUME cpc'[t] = "hook"
      PROVE  pending'[victim'[t]] /\ hook'[victim'[t]]
  <2>1. CASE Hooking(t)
    BY <1>0, <1>2, <2>1 DEF CallInv, VictimPCs, Hooking, CancelBlocked, HookDequeue, HookTooLate, HurdCancelCall,
         CancelMe, CancelMeWakeup, HurdCancelReturn, At, CGoto, localVars, cancelVars
  <2>2. CASE ~Hooking(t)
    <3>1. Calm(t) /\ cpc[t] = "hook" /\ victim'[t] = victim[t] /\ victim[t] \in Threads
      BY <1>0, <1>2, <2>2, CalmDo DEF Calm, HookingPCs, CallInv, VictimPCs
    <3>2. pending[victim[t]] /\ hook[victim[t]]
      BY <3>1 DEF CondInv, HookedInv
    <3>3. ~hook'[t] => hook[t] = FALSE
      BY <1>0, <3>1 DEF Calm
    <3> QED
      BY <1>0, <3>1, <3>2, <3>3 DEF Calm, Frame
  <2> QED
    BY <2>1, <2>2
<1>3. ASSUME NEW u \in Threads, cpc'[u] = "cancelme"
      PROVE  sshook'[victim'[u]] /\ cpc'[victim'[u]] # "hdrain"
  <2>1. CASE cpc[u] = "cancelme" /\ victim'[u] = victim[u]
    <3>1. /\ victim[u] \in Threads /\ victim[u] # t
          /\ sshook[victim[u]] /\ cpc[victim[u]] # "hdrain"
      BY <1>0, <2>1, NotSuspended DEF CallInv, VictimPCs, CondInv, HookedInv
    <3> QED
      BY <1>0, <2>1, <3>1 DEF Frame
  <2>2. CASE u # t
    BY <1>0, <1>3, <2>1, <2>2 DEF Frame
  <2>3. CASE u = t /\ ~Hooking(t)
    BY <1>0, <1>3, <2>1, <2>3, CalmDo DEF Calm, HookingPCs
  <2>4. CASE u = t /\ Hooking(t)
    <3>1. PICK p \in Threads : HurdCancelCall(t, p)
      BY <1>0, <1>3, <2>4 DEF Hooking, CancelBlocked, HookDequeue, HookTooLate,
         CancelMe, CancelMeWakeup, HurdCancelReturn, At, CGoto
    <3> QED
      BY <1>0, <1>3, <2>4, <3>1 DEF HurdCancelCall, At, CGoto
  <2> QED
    BY <2>2, <2>3, <2>4
<1> QED
  BY <1>1, <1>2, <1>3 DEF HookedInv

\* The suspend count is the number of those that are to resume the thread.
LEMMA SuspendStep ==
  ASSUME CondInv, NEW t \in Threads, StepOf(t)
  PROVE  SuspendInv'
<1>0. /\ Frame(t) /\ cpc \in [Threads -> CPCs] /\ victim \in [Threads -> Threads \cup {NoThread}]
      /\ suspended \in [Threads -> Nat] /\ CallInv(t) /\ SuspendInv
  BY FrameStep DEF CondInv, CondTypeOK
<1>1. ASSUME NEW p \in Threads, suspended'[p] = suspended[p],
             t \in Suspenders(p)' <=> t \in Suspenders(p)
      PROVE  IsFiniteSet(Suspenders(p)') /\ suspended'[p] = Cardinality(Suspenders(p)')
  <2>1. \A u \in Threads : u \in Suspenders(p)' <=> u \in Suspenders(p)
    BY <1>0, <1>1 DEF Frame, Suspenders
  <2>2. Suspenders(p) \subseteq Threads /\ Suspenders(p)' \subseteq Threads
    BY DEF Suspenders
  <2>3. Suspenders(p)' = Suspenders(p)
    BY <2>1, <2>2
  <2> QED
    BY <1>0, <1>1, <2>3 DEF SuspendInv
<1>2. CASE ~Hooking(t)
  <2>1. Calm(t)
    BY <1>2, CalmDo
  <2>2. \A p \in Threads : t \in Suspenders(p)' <=> t \in Suspenders(p)
    BY <2>1 DEF Calm, Suspenders, HookingPCs
  <2> QED
    BY <1>1, <2>1, <2>2 DEF Calm, SuspendInv
<1>3. CASE CancelBlocked(t) \/ HookDequeue(t) \/ HookTooLate(t) \/ CancelMe(t) \/ CancelMeWakeup(t)
  <2>1. UNCHANGED <<suspended, victim>>
    BY <1>3 DEF CancelBlocked, HookDequeue, HookTooLate, CancelMe, CancelMeWakeup, localVars, hurdVars
  <2>2. \A p \in Threads : t \in Suspenders(p)' <=> t \in Suspenders(p)
    BY <1>0, <1>3, <2>1 DEF CancelBlocked, HookDequeue, HookTooLate, CancelMe, CancelMeWakeup,
       At, CGoto, Suspenders
  <2> QED
    BY <1>1, <2>1, <2>2 DEF SuspendInv
<1>4. ASSUME NEW p \in Threads, HurdCancelCall(t, p) PROVE SuspendInv'
  <2>1. /\ cpc[t] = "out" /\ cpc'[t] \in {"cancelme", "resume"} /\ victim'[t] = p
        /\ suspended' = [suspended EXCEPT ![p] = @ + 1]
    BY <1>0, <1>4 DEF HurdCancelCall, At, CGoto
  <2>2. t \notin Suspenders(p) /\ IsFiniteSet(Suspenders(p)) /\ suspended[p] = Cardinality(Suspenders(p))
    BY <1>0, <2>1 DEF Suspenders, SuspendInv
  <2>3. \A u \in Threads : u \in Suspenders(p)' <=> u \in Suspenders(p) \cup {t}
    BY <1>0, <2>1 DEF Frame, Suspenders
  <2>4. Suspenders(p) \cup {t} \subseteq Threads /\ Suspenders(p)' \subseteq Threads
    BY DEF Suspenders
  <2>5. Suspenders(p)' = Suspenders(p) \cup {t}
    BY <2>3, <2>4
  <2>6. IsFiniteSet(Suspenders(p)') /\ suspended'[p] = Cardinality(Suspenders(p)')
    BY <1>0, <2>1, <2>2, <2>5, FS_AddElement
  <2>7. \A q \in Threads \ {p} : suspended'[q] = suspended[q] /\ t \notin Suspenders(q)' /\ t \notin Suspenders(q)
    BY <1>0, <2>1 DEF Suspenders
  <2> QED
    BY <1>1, <2>6, <2>7 DEF SuspendInv
<1>5. CASE HurdCancelReturn(t)
  <2>1. PICK p \in Threads :
          /\ p = victim[t] /\ cpc[t] = "resume" /\ cpc'[t] = "out"
          /\ suspended' = [suspended EXCEPT ![p] = @ - 1]
    BY <1>0, <1>5 DEF HurdCancelReturn, At, CGoto, CallInv, VictimPCs
  <2>2. t \in Suspenders(p) /\ IsFiniteSet(Suspenders(p)) /\ suspended[p] = Cardinality(Suspenders(p))
    BY <1>0, <2>1 DEF Suspenders, SuspendInv
  <2>3. \A u \in Threads : u \in Suspenders(p)' <=> u \in Suspenders(p) \ {t}
    BY <1>0, <2>1 DEF Frame, Suspenders
  <2>4. Suspenders(p) \ {t} \subseteq Threads /\ Suspenders(p)' \subseteq Threads
    BY DEF Suspenders
  <2>7. \A q \in Threads \ {p} : suspended'[q] = suspended[q] /\ t \notin Suspenders(q)' /\ t \notin Suspenders(q)
    BY <1>0, <2>1 DEF Suspenders
  <2>5. Suspenders(p)' = Suspenders(p) \ {t}
    BY <2>3, <2>4
  <2>6. IsFiniteSet(Suspenders(p)') /\ suspended'[p] = Cardinality(Suspenders(p)')
    <3>1. IsFiniteSet(Suspenders(p) \ {t}) /\ Cardinality(Suspenders(p) \ {t}) = Cardinality(Suspenders(p)) - 1
      BY <2>2, FS_RemoveElement
    <3>2. suspended'[p] = suspended[p] - 1
      BY <1>0, <2>1
    <3> QED
      BY <2>2, <2>5, <3>1, <3>2
  <2> QED
    BY <1>1, <2>6, <2>7 DEF SuspendInv
<1> QED
  BY <1>2, <1>3, <1>4, <1>5 DEF Hooking

\* Nobody but a waiter that sets up its wait joins the queue of the condition.
LEMMA QueueGrows ==
  ASSUME CondInv, NEW t \in Threads, StepOf(t), ~Joins(t)
  PROVE  Waiters(TheCond)' \subseteq Waiters(TheCond)
<1>0. /\ BlockTypeOK /\ TheCond \in Queues /\ TheCond \notin Mutexes
      /\ \A q \in Queues : NoDuplicates(queue[q])
  BY CondAssumption DEF CondInv, CondTypeOK, MutexTypeOK, CondQueueInv
<1>1. ASSUME NEW w, Dequeue(w) PROVE Waiters(TheCond)' \subseteq Waiters(TheCond)
  BY <1>0, <1>1, DequeueStep
<1>2. CASE UNCHANGED queue
  BY <1>0, <1>2, SameWaiters
<1>3. ASSUME NEW m \in Mutexes, Locks(t, m) PROVE Waiters(TheCond)' \subseteq Waiters(TheCond)
  <2>1. LockTaken(t, m) \/ LockWaits(t, m)
    BY <1>3, LocksDo DEF LockEffect
  <2>2. queue'[TheCond] = queue[TheCond]
    BY <1>0, <2>1 DEF LockTaken, LockWaits, Enqueue, BlockTypeOK
  <2> QED
    BY <2>2 DEF Waiters
<1>4. ASSUME NEW m \in Mutexes, Unlocks(t, m) PROVE Waiters(TheCond)' \subseteq Waiters(TheCond)
  BY <1>1, <1>2, <1>4, UnlocksDo DEF UnlockEffect, UnlockFrees, UnlockHands
<1>5. CASE MutexSteps(t)
  BY <1>1, <1>2, <1>5, ContinueCases DEF MutexSteps, CondInv, CondTypeOK, Receive, Recheck, Gain, SendWakeup, blockVars
<1>6. CASE Takes(t) \/ Leaves(t)
  BY <1>1, <1>6 DEF Takes, Leaves, Signal, HookDequeue, CancelMe, LeaveQueue, HurdLeave
<1>7. CASE Receives(t) \/ Sends(t) \/ Moves(t)
  BY <1>2, <1>7 DEF Receives, Sends, Moves, Woken, DrainWait, HurdDrain, SignalWakeup, HookWakeup,
     CancelMeWakeup, WaitTimeOut, WokenOffQueue, DrainNeeded, WaitReturn, HurdWaitCancelled,
     HurdCancelledReturn, HurdDrainNeeded, HurdReturn, HurdLeave, CancelBlocked, HookTooLate,
     HurdCancelCall, CancelMe, HurdCancelReturn, vars, blockVars
<1>8. CASE Broadcast(t)
  BY <1>0, <1>8 DEF Broadcast, BlockTypeOK, Waiters, ToSet
<1> QED
  BY <1>3, <1>4, <1>5, <1>6, <1>7, <1>8 DEF StepOf

\* A waiter that has just joined has no request to miss.
LEMMA JoinsMiss ==
  ASSUME CondInv, NEW t \in Threads, Joins(t)
  PROVE  MissInv'
<1>0. /\ BlockTypeOK /\ TheCond \in Queues /\ \A q \in Queues : NoDuplicates(queue[q])
      /\ StepOf(t) /\ Frame(t) /\ HooksInv(t)
      /\ cpc \in [Threads -> CPCs] /\ hook \in [Threads -> BOOLEAN] /\ sshook \in [Threads -> BOOLEAN]
  BY CondAssumption, FrameStep DEF StepOf, CondInv, CondTypeOK, MutexTypeOK, CondQueueInv
<1>1. /\ Enqueue(TheCond, t) /\ ~Linked(t) /\ UNCHANGED <<pending, enabled, sscancel, victim>>
      /\ cpc[t] \in {"prepare", "user"} /\ cpc'[t] \in {"prepared", "release"}
      /\ ~(hook'[t] /\ MustCancel(t)) /\ ~(sshook'[t] /\ sscancel[t])
  <2>1. CASE Prepare(t)
    BY <1>0, <2>1, Waiting DEF Prepare, At, CGoto, Awaits, CondWaiting, HooksInv, SSHookPCs, localVars, hurdVars
  <2>2. ASSUME NEW timed, HurdWait(t, timed)
        PROVE  /\ Enqueue(TheCond, t) /\ ~Linked(t) /\ UNCHANGED <<pending, enabled, sscancel, victim>>
               /\ cpc[t] \in {"prepare", "user"} /\ cpc'[t] \in {"prepared", "release"}
               /\ ~(hook'[t] /\ MustCancel(t)) /\ ~(sshook'[t] /\ sscancel[t])
    BY <1>0, <2>2, Waiting DEF HurdWait, At, CGoto, Awaits, CondWaiting, HooksInv, HookPCs, cancelVars
  <2> QED
    BY <2>1, <2>2 DEF Joins
<1>2. Waiters(TheCond)' = Waiters(TheCond) \cup {t} /\ Waiters(TheCond) \subseteq Threads
  BY <1>0, <1>1, EnqueueStep, WaitersAreThreads
<1>3. MustCancel(t)' <=> MustCancel(t)
  BY <1>1 DEF MustCancel
<1>4. ASSUME NEW x \in Waiters(TheCond), x # t
      PROVE  /\ hook'[x] /\ MustCancel(x)' => \E u \in Threads : cpc'[u] = "hook" /\ victim'[u] = x
             /\ sshook'[x] /\ sscancel'[x] => \E u \in Threads : cpc'[u] = "cancelme" /\ victim'[u] = x
  <2>1. x \in Threads /\ hook'[x] = hook[x] /\ sshook'[x] = sshook[x] /\ (MustCancel(x)' <=> MustCancel(x))
    BY <1>0, <1>1, <1>2, <1>4 DEF Frame, MustCancel
  <2>2. \A u \in Threads : cpc[u] \in {"hook", "cancelme"} => cpc'[u] = cpc[u]
    BY <1>0, <1>1 DEF Frame
  <2> QED
    BY <1>1, <2>1, <2>2 DEF CondInv, MissInv
<1> QED
  BY <1>1, <1>2, <1>3, <1>4 DEF MissInv

\* The steps that call no hook leave those that are to call one alone.
LEMMA CalmMiss ==
  ASSUME CondInv, NEW t \in Threads, StepOf(t), ~Joins(t), ~Hooking(t)
  PROVE  MissInv'
<1>0. /\ Frame(t) /\ Calm(t) /\ BlockTypeOK /\ TheCond \in Queues
      /\ TheCond \notin Mutexes /\ obj \in [Threads -> Mutexes]
      /\ pending \in [Threads -> BOOLEAN] /\ hook \in [Threads -> BOOLEAN]
  BY FrameStep, CalmDo, CondAssumption DEF CondInv, CondTypeOK, MutexTypeOK
<1>1. ASSUME NEW x \in Waiters(TheCond)'
      PROVE  /\ hook'[x] /\ MustCancel(x)' => \E u \in Threads : cpc'[u] = "hook" /\ victim'[u] = x
             /\ sshook'[x] /\ sscancel'[x] => \E u \in Threads : cpc'[u] = "cancelme" /\ victim'[u] = x
  <2>1. x \in Waiters(TheCond) /\ x \in Threads
    BY <1>0, QueueGrows, WaitersAreThreads
  <2>2. cpc[x] # "setstate"
    BY <1>0, <2>1, Waiting DEF Place
  <2>3. (hook'[x] => hook[x]) /\ (sshook'[x] => sshook[x]) /\ enabled'[x] = enabled[x]
    BY <1>0, <2>1, <2>2 DEF Calm, Frame, Joins
  <2>4. hook'[x] /\ MustCancel(x)' => MustCancel(x)
    BY <1>0, <2>1, <2>3 DEF Calm, MustCancel
  <2>5. \A u \in Threads : cpc[u] \in {"hook", "cancelme"} => cpc'[u] = cpc[u] /\ victim'[u] = victim[u]
    BY <1>0 DEF Calm, Frame, HookingPCs
  <2>6. /\ hook[x] /\ MustCancel(x) => \E u \in Threads : cpc[u] = "hook" /\ victim[u] = x
        /\ sshook[x] /\ sscancel[x] => \E u \in Threads : cpc[u] = "cancelme" /\ victim[u] = x
    BY <2>1 DEF CondInv, MissInv
  <2>7. sscancel'[x] => sscancel[x]
    BY <1>0, <2>1 DEF Calm
  <2> QED
    BY <2>3, <2>4, <2>5, <2>6, <2>7
<1> QED
  BY <1>1 DEF MissInv

\* Calling a hook takes its thread off the queue, if it is on it.
LEMMA HookingMiss ==
  ASSUME CondInv, NEW t \in Threads, StepOf(t), ~Joins(t), Hooking(t)
  PROVE  MissInv'
<1>0. /\ Frame(t) /\ BlockTypeOK /\ TheCond \in Queues /\ UNCHANGED <<hook, enabled, sshook>>
      /\ cpc \in [Threads -> CPCs] /\ victim \in [Threads -> Threads \cup {NoThread}]
      /\ pending \in [Threads -> BOOLEAN] /\ sscancel \in [Threads -> BOOLEAN]
      /\ \A q \in Queues : NoDuplicates(queue[q])
  BY FrameStep, HookingDo, CondAssumption DEF CondInv, CondTypeOK, MutexTypeOK, CondQueueInv
<1>1. ASSUME NEW x \in Waiters(TheCond)'
      PROVE  /\ hook'[x] /\ MustCancel(x)' => \E u \in Threads : cpc'[u] = "hook" /\ victim'[u] = x
             /\ sshook'[x] /\ sscancel'[x] => \E u \in Threads : cpc'[u] = "cancelme" /\ victim'[u] = x
  <2>1. x \in Waiters(TheCond) /\ x \in Threads
    BY <1>0, QueueGrows, WaitersAreThreads
  <2>2. /\ hook[x] /\ MustCancel(x) => \E u \in Threads : cpc[u] = "hook" /\ victim[u] = x
        /\ sshook[x] /\ sscancel[x] => \E u \in Threads : cpc[u] = "cancelme" /\ victim[u] = x
    BY <2>1 DEF CondInv, MissInv
  <2>3. \A u \in Threads \ {t} : cpc'[u] = cpc[u] /\ victim'[u] = victim[u]
    BY <1>0 DEF Frame
  <2>4. CASE CancelBlocked(t)
    <3>1. /\ cpc[t] = "cancel" /\ cpc'[t] = "hook" /\ victim' = victim /\ sscancel' = sscancel
          /\ pending' = [pending EXCEPT ![victim[t]] = TRUE]
      BY <1>0, <2>4 DEF CancelBlocked, At, CGoto, localVars, hurdVars
    <3>2. x # victim[t] => (MustCancel(x)' <=> MustCancel(x))
      BY <1>0, <2>1, <3>1 DEF MustCancel
    <3> QED
      BY <1>0, <2>2, <2>3, <3>1, <3>2
  <2>5. ASSUME NEW p \in Threads, HurdCancelCall(t, p)
        PROVE  /\ hook'[x] /\ MustCancel(x)' => \E u \in Threads : cpc'[u] = "hook" /\ victim'[u] = x
               /\ sshook'[x] /\ sscancel'[x] => \E u \in Threads : cpc'[u] = "cancelme" /\ victim'[u] = x
    <3>1. /\ cpc[t] = "out" /\ victim'[t] = p /\ pending' = pending
          /\ sshook[p] => cpc'[t] = "cancelme"
          /\ sscancel' = [sscancel EXCEPT ![p] = TRUE]
      BY <1>0, <2>5 DEF HurdCancelCall, At, CGoto, cancelVars
    <3>2. MustCancel(x)' <=> MustCancel(x)
      BY <1>0, <3>1 DEF MustCancel
    <3>3. x # p => sscancel'[x] = sscancel[x]
      BY <1>0, <2>1, <3>1
    <3> QED
      BY <1>0, <2>2, <2>3, <3>1, <3>2, <3>3
  <2>6. CASE HookDequeue(t) \/ HookTooLate(t) \/ CancelMe(t)
    <3>1. /\ cpc[t] \in {"hook", "cancelme"} /\ UNCHANGED <<pending, sscancel, victim>>
          /\ Dequeue(victim[t]) \/ ~Linked(victim[t])
      BY <2>6 DEF HookDequeue, HookTooLate, CancelMe, At, localVars, cancelVars, hurdVars
    <3>2. x # victim[t]
      BY <1>0, <2>1, <3>1, DequeueStep DEF Linked
    <3>3. MustCancel(x)' <=> MustCancel(x)
      BY <1>0, <3>1 DEF MustCancel
    <3> QED
      BY <1>0, <2>2, <2>3, <3>1, <3>2, <3>3
  <2>7. CASE CancelMeWakeup(t) \/ HurdCancelReturn(t)
    <3>1. /\ cpc[t] \in {"cancelwake", "resume"} /\ UNCHANGED <<pending, sscancel>>
      BY <2>7 DEF CancelMeWakeup, HurdCancelReturn, At, cancelVars, hurdVars
    <3>2. MustCancel(x)' <=> MustCancel(x)
      BY <1>0, <3>1 DEF MustCancel
    <3> QED
      BY <1>0, <2>2, <2>3, <3>1, <3>2
  <2> QED
    BY <2>4, <2>5, <2>6, <2>7 DEF Hooking
<1> QED
  BY <1>1 DEF MissInv

-----------------------------------------------------------------------------
(* The theorems.                                                           *)

\* The invariant holds initially...
LEMMA CondInvInit == CondInit => CondInv
<1> SUFFICES ASSUME CondInit PROVE CondInv
  OBVIOUS
<1> USE MutexAssumption, CondAssumption DEF CondInit, MutexInit, BlockInit
<1>1. CondTypeOK
  <2>1. AnyMutex \in Mutexes
    BY DEF AnyMutex
  <2>2. MutexTypeOK
    BY <2>1 DEF MutexTypeOK, BlockTypeOK, PCs, Results
  <2> QED
    BY <2>2 DEF CondTypeOK, CPCs
<1>2. \A q \in Queues : queue[q] = <<>> /\ Waiters(q) = {}
  BY DEF Waiters, ToSet
<1>3. ASSUME NEW t \in Threads PROVE CallInv(t) /\ HooksInv(t) /\ GrantsInv(t) /\ OwedInv(t)
  <2>1. CallInv(t) /\ HooksInv(t)
    BY DEF CallInv, HooksInv, VictimPCs
  <2>2. GrantsInv(t)
    BY DEF GrantsInv, HasUser, HasCancel
  <2>3. OwedInv(t)
    BY DEF OwedInv, Waking, WasDequeued, Dequeued, CondWaiting
  <2> QED
    BY <2>1, <2>2, <2>3
<1>4. CondQueueInv
  BY <1>2 DEF CondQueueInv, NoDuplicates
<1>5. ExclusionInv
  <2>1. \A t \in Threads, m \in Mutexes : ~Claims(t, m)
    BY DEF Claims, Handed
  <2> QED
    BY <2>1 DEF ExclusionInv, Exclusive
<1>6. SuspendInv
  <2>1. \A p \in Threads : Suspenders(p) = {}
    BY DEF Suspenders
  <2> QED
    BY <2>1, FS_EmptySet DEF SuspendInv
<1>7. HookedInv
  BY DEF HookedInv
<1>8. MissInv
  BY <1>2 DEF MissInv
<1> QED
  BY <1>1, <1>3, <1>4, <1>5, <1>6, <1>7, <1>8 DEF CondInv

\* ... and every step keeps it, up to the one that tears a queue.
LEMMA CondInvStep == (~torn => CondInv) /\ [CondNext]_allVars => (~torn => CondInv)'
<1> SUFFICES ASSUME ~torn => CondInv, [CondNext]_allVars, ~torn' PROVE CondInv'
  OBVIOUS
<1>0. CondInv /\ UNCHANGED torn /\ (CondStep \/ UNCHANGED callVars)
  BY DEF CondNext, Intact, HookTears, allVars
<1>1. CASE UNCHANGED callVars
  <2>1. UNCHANGED <<queue, port, type, held, spin, owner, locks, pc, obj, target, ret, got>>
    BY <1>1 DEF callVars, vars, blockVars, mutexVars
  <2>2. UNCHANGED <<cpc, abs, back, newstate, cancelled, victim, hook, enabled, pending, sscancel, sshook, suspended>>
    BY <1>1 DEF callVars, condVars, localVars, cancelVars, hurdVars
  <2>3. CondTypeOK'
    BY <1>0, <2>1, <2>2 DEF CondInv, CondTypeOK, MutexTypeOK, BlockTypeOK
  <2>4. \A t \in Threads : CallInv(t)' /\ HooksInv(t)' /\ GrantsInv(t)'
    BY <1>0, <2>1, <2>2 DEF CondInv, CallInv, LockOf, HooksInv, GrantsInv, HasUser, HasCancel
  <2>5. \A t \in Threads : OwedInv(t)'
    BY <1>0, <2>1, <2>2 DEF CondInv, OwedInv, Waking, WasDequeued, Dequeued, CondWaiting, Linked, Waiters
  <2>6. CondQueueInv'
    BY <1>0, <2>1, <2>2 DEF CondInv, CondQueueInv, Place, Waiters
  <2>7. ExclusionInv'
    BY <1>0, <2>1, <2>2 DEF CondInv, ExclusionInv, Exclusive, HookUncalled, Claims, Handed, Linked, Waiters
  <2>8. SuspendInv'
    <3>1. \A p \in Threads : Suspenders(p)' = Suspenders(p)
      BY <2>2 DEF Suspenders
    <3> QED
      BY <1>0, <2>2, <3>1 DEF CondInv, SuspendInv
  <2>9. HookedInv' /\ MissInv'
    BY <1>0, <2>1, <2>2 DEF CondInv, HookedInv, MissInv, MustCancel, Waiters
  <2> QED
    BY <2>3, <2>4, <2>5, <2>6, <2>7, <2>8, <2>9 DEF CondInv
<1>2. ASSUME NEW t \in Threads, suspended[t] = 0, StepOf(t) PROVE CondInv'
  <2>1. \A x \in Threads : CallInv(x)' /\ HooksInv(x)' /\ GrantsInv(x)'
    BY <1>0, <1>2, StepFrame DEF LocalInv
  <2>2. CondQueueInv' /\ \A x \in Threads : OwedInv(x)'
    BY <1>0, <1>2, FlowStep, OwedKept DEF FlowKept
  <2>3. MissInv'
    BY <1>0, <1>2, JoinsMiss, CalmMiss, HookingMiss
  <2> QED
    BY <1>0, <1>2, <2>1, <2>2, <2>3, CondTypesStep, ExclusionStep, SuspendStep, HookedStep DEF CondInv
<1> QED
  BY <1>0, <1>1, <1>2, CondSteps

\* The invariant holds of every behaviour, as long as no queue is torn.
THEOREM CondInvariant == CondSpec => [](~torn => CondInv)
  BY CondInvInit, CondInvStep, PTL DEF CondSpec

\* The variables keep their types: in particular the suspend count of a thread
\* never goes below 0, however calls of hurd_thread_cancel overlap.
THEOREM CondTypes == CondSpec => [](~torn => CondTypeOK)
<1>1. CondInv => CondTypeOK
  BY DEF CondInv
<1> QED
  BY <1>1, CondInvariant, PTL

\* Signals, broadcasts, unlocks, timeouts and both kinds of cancellation
\* together, as long as the hook tears no queue: whoever is dequeued is owed one
\* message, and gets it; no __pthread_wakeup meets a full port; none is left for
\* a later wait.
THEOREM CondWakeups == CondSpec => []OneWakeupOwed
<1>1. CondInv => OneWakeupOwed
  BY DEF CondInv, OwedInv, OneWakeupOwed
<1>2. torn => OneWakeupOwed
  BY DEF OneWakeupOwed
<1> QED
  BY <1>1, <1>2, CondInvariant, PTL

\* The assertions of __pthread_enqueue and of the wait hold up to the overlap
\* of the hook with an __pthread_enqueue on a cancel_lock, which breaks them:
\* otherwise one pair of links is enough for a thread that waits for a
\* condition, its mutex and its cancel_lock in turn.
THEOREM CondQueues == CondSpec => []QueueAssertions
<1>1. ASSUME CondInv PROVE QueueAssertions
  <2>1. TheCond \notin Mutexes /\ obj \in [Threads -> Mutexes]
    BY <1>1, CondAssumption DEF CondInv, CondTypeOK, MutexTypeOK
  <2>2. ASSUME NEW t \in Threads, NEW q \in Queues, NEW r \in Queues, t \in Waiters(q), t \in Waiters(r)
        PROVE  q = r
    BY <1>1, <2>1, <2>2, Waiting DEF Place
  <2>3. ASSUME NEW t \in Threads, cpc[t] = "woken" PROVE ~Linked(t)
    BY <1>1, <2>3, Waiting DEF CondInv, CallInv, Awaits, CondWaiting, LockPCs
  <2> QED
    BY <1>1, <2>2, <2>3 DEF QueueAssertions, CondInv, CondQueueInv
<1>2. torn => QueueAssertions
  BY DEF QueueAssertions
<1> QED
  BY <1>1, <1>2, CondInvariant, PTL

\* "This function must exit with MUTEX locked", whichever way it ends, as long
\* as the hook tears no queue.
THEOREM CondMonitor == CondSpec => []WaitExitsLocked
<1>1. ASSUME CondInv PROVE WaitExitsLocked
  <2>1. ASSUME NEW t \in Threads, InMonitor(t)
        PROVE  /\ held[UserMutex] /\ got[t][UserMutex] = 1
               /\ \A u \in Threads \ {t} : ~Claims(u, UserMutex)
    <3>1. got[t][UserMutex] = 1
      BY <1>1, <2>1 DEF CondInv, GrantsInv, InMonitor, At, HasUser
    <3> QED
      BY <1>1, <3>1 DEF CondInv, ExclusionInv, Exclusive, Claims
  <2> QED
    BY <2>1 DEF WaitExitsLocked
<1>2. torn => WaitExitsLocked
  BY DEF WaitExitsLocked
<1> QED
  BY <1>1, <1>2, CondInvariant, PTL

\* A canceller that is about to use the hook's argument, which is on the stack
\* of the thread that waits, finds that thread in the call (no queue torn).
THEOREM CondHooks == CondSpec => []HookArgumentAlive
<1>1. ASSUME CondInv PROVE HookArgumentAlive
  <2>1. ASSUME NEW t \in Threads, cpc[t] \in {"hook", "cancelme"} PROVE victim[t] \in Threads /\ HooksInv(victim[t])
    BY <1>1, <2>1 DEF CondInv, CallInv, VictimPCs
  <2> QED
    BY <1>1, <2>1 DEF CondInv, HookedInv, HooksInv, HookArgumentAlive, HookPCs, SSHookPCs, WaitPCs
<1>2. torn => HookArgumentAlive
  BY DEF HookArgumentAlive
<1> QED
  BY <1>1, <1>2, CondInvariant, PTL

\* No thread sleeps through its cancellation, of either kind (no queue torn).
THEOREM CondCancellation == CondSpec => []CancelNotMissed
<1>1. ASSUME CondInv PROVE CancelNotMissed
  <2>1. ASSUME NEW t \in Threads, At(t, "block"), Linked(t) PROVE t \in Waiters(TheCond)
    BY <1>1, <2>1, Waiting DEF At, Linked, Place
  <2> QED
    BY <1>1, <2>1 DEF CondInv, MissInv, CancelNotMissed
<1>2. torn => CancelNotMissed
  BY DEF CancelNotMissed
<1> QED
  BY <1>1, <1>2, CondInvariant, PTL
=============================================================================
