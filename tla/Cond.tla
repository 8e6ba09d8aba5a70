-------------------------------- MODULE Cond --------------------------------
(***************************************************************************)
(* A condition variable (sysdeps/generic/pt-cond-*.c), the mutex it is     *)
(* used with, and deferred cancellation (pthread/pt-cancel.c,              *)
(* pt-testcancel.c, pt-setcancelstate.c, the cleanup part of pt-exit.c);   *)
(* and the waits that hurd_thread_cancel ends                              *)
(* (sysdeps/mach/hurd/pt-hurd-cond-timedwait.c).                           *)
(*                                                                         *)
(* They are one module because they meet in three places: the mutex and    *)
(* cancel_lock that a wait locks and unlocks are mutexes of module Mutex;  *)
(* a thread's one pair of queue links and its one wakeup port serve all    *)
(* its waits; and pthread_cancel calls a hook, set by the wait, that       *)
(* dequeues the waiter from the condition's queue.                         *)
(*                                                                         *)
(* A call on a mutex is a call of module Mutex: cpc[t] says where t goes   *)
(* on once that call has returned (pc[t] = "idle").  A section under       *)
(* cond->__lock is one action.  The writes at the end of a section under   *)
(* cancel_lock are one action with the unlock that follows them.           *)
(*                                                                         *)
(* The hook changes the links of the waiter under cond->__lock, also when  *)
(* the waiter is on the queue of its cancel_lock or about to be, where     *)
(* those links belong to the lock of that mutex.  When the two sections do *)
(* not overlap, each is one action like any other.  When they do, the      *)
(* queue is torn (HookTears), and what happens next is undefined: the      *)
(* model stops there, and the properties are about what comes before.      *)
(***************************************************************************)
EXTENDS Mutex

CONSTANTS TheCond,       \* the condition variable
          UserMutex,     \* the mutex it is used with
          CancelLock,    \* CancelLock[t]: t->cancel_lock
          EnterThreads,  \* the threads that lock and unlock the mutex
          WaitThreads,   \* those of them that wait
          OtherThreads,  \* the threads that signal, broadcast and cancel
          HurdThreads    \* those of WaitThreads that use the Hurd's waits

ASSUME CondAssumption ==
  /\ TheCond \in Queues \ Mutexes
  /\ UserMutex \in Mutexes
  /\ CancelLock \in [Threads -> Mutexes \ {UserMutex}]
  /\ \A t, u \in Threads : CancelLock[t] = CancelLock[u] => t = u
  /\ EnterThreads \subseteq Threads /\ OtherThreads \subseteq Threads
  /\ HurdThreads \subseteq WaitThreads /\ WaitThreads \subseteq EnterThreads
  /\ MutexTypes = {"normal"}

VARIABLES cpc,        \* cpc[t]: where t is, outside the calls on mutexes
          abs,        \* abs[t]: t's wait has an ABSTIME
          back,       \* back[t]: where t goes on after pthread_setcancelstate
          newstate,   \* newstate[t]: the state that call is to set
          cancelled,  \* cancelled[t]: the local variable of that name
          victim,     \* victim[t]: the thread t is cancelling or signalling
          hook,       \* hook[t]: t->cancel_hook is set
          enabled,    \* enabled[t]: t->cancel_state is PTHREAD_CANCEL_ENABLE
          pending,    \* pending[t]: t->cancel_pending
          sscancel,   \* sscancel[t]: ss->cancel of t's sigstate
          sshook,     \* sshook[t]: ss->cancel_hook is cancel_me
          suspended,  \* suspended[t]: t's suspend count
          torn        \* two threads have written the same links at once

localVars == <<abs, back, newstate, cancelled, victim>>
cancelVars == <<hook, enabled, pending>>
hurdVars == <<sscancel, sshook, suspended>>
condVars == <<cpc, localVars, cancelVars, hurdVars>>
callVars == <<vars, condVars>>
allVars == <<callVars, torn>>

\* Where t is in a wait: under cancel_lock, before and after it is set up;
\* about to unlock the mutex; blocking; back; timed out; draining its port;
\* about to take cancel_lock again; under it; about to lock the mutex again.
WaitPCs == {"prepare", "prepared", "release", "block", "woken", "timedout",
            "drain", "finish", "clear", "relock", "return"}

\* Where t is in a wait of the Hurd, besides "release", "block", "woken" and
\* "timedout": cancelled on entry; draining its port, with ss->lock locked;
\* about to lock the mutex again.
HurdPCs == {"hcancelled", "hdrain", "hrelock", "hreturn"}

\* Between calls without the mutex or with it; setting the cancel state;
\* testing for a cancellation; exiting; in a cancellation; signalling; in
\* hurd_thread_cancel.
CPCs == {"out", "user", "setstate", "test", "tested", "exit", "cleanup",
         "cleaned", "exited", "cancel", "hook", "hookwake", "uncancel",
         "wakeup", "cancelme", "cancelwake", "resume"} \cup WaitPCs \cup HurdPCs

CondTypeOK ==
  /\ MutexTypeOK
  /\ cpc \in [Threads -> CPCs]
  /\ abs \in [Threads -> BOOLEAN]
  /\ back \in [Threads -> CPCs]
  /\ newstate \in [Threads -> BOOLEAN]
  /\ cancelled \in [Threads -> BOOLEAN]
  /\ victim \in [Threads -> Threads \cup {NoThread}]
  /\ hook \in [Threads -> BOOLEAN]
  /\ enabled \in [Threads -> BOOLEAN]
  /\ pending \in [Threads -> BOOLEAN]
  /\ sscancel \in [Threads -> BOOLEAN]
  /\ sshook \in [Threads -> BOOLEAN]
  /\ suspended \in [Threads -> Nat]
  /\ torn \in BOOLEAN

CondInit ==
  /\ MutexInit
  /\ cpc = [t \in Threads |-> "out"]
  /\ abs = [t \in Threads |-> FALSE]
  /\ back = [t \in Threads |-> "out"]
  /\ newstate = [t \in Threads |-> TRUE]
  /\ cancelled = [t \in Threads |-> FALSE]
  /\ victim = [t \in Threads |-> NoThread]
  /\ hook = [t \in Threads |-> FALSE]
  /\ enabled = [t \in Threads |-> TRUE]
  /\ pending = [t \in Threads |-> FALSE]
  /\ sscancel = [t \in Threads |-> FALSE]
  /\ sshook = [t \in Threads |-> FALSE]
  /\ suspended = [t \in Threads |-> 0]
  /\ torn = FALSE

At(t, l) == cpc[t] = l /\ pc[t] = "idle"
CGoto(t, l) == cpc' = [cpc EXCEPT ![t] = l]
Lock(t, m) == TimedLock(t, m, "null")
MustCancel(t) == enabled[t] /\ pending[t]

-----------------------------------------------------------------------------
(* __pthread_cond_timedwait_internal; __pthread_cond_wait calls it with a  *)
(* null ABSTIME.                                                           *)

WaitCall(t, timed) ==
  /\ At(t, "user")
  /\ abs' = [abs EXCEPT ![t] = timed]
  /\ Lock(t, CancelLock[t])
  /\ CGoto(t, "prepare")
  /\ UNCHANGED <<back, newstate, cancelled, victim, cancelVars, hurdVars>>

pthread_cond_wait(t) == WaitCall(t, FALSE)

\* A bad ABSTIME is refused before anything is locked.
WaitInvalid(t) ==
  /\ At(t, "user")
  /\ UNCHANGED callVars

\* Mutant of Prepare: a pending cancellation is not looked for.
PrepareUntested(t) ==
  /\ At(t, "prepare")
  /\ hook' = [hook EXCEPT ![t] = TRUE]
  /\ Enqueue(TheCond, t)
  /\ CGoto(t, "prepared")
  /\ UNCHANGED <<port, mutexVars, localVars, enabled, pending, hurdVars>>

\* Not cancelled: set the hook and join the queue, under cancel_lock.
Prepare(t) ==
  /\ At(t, "prepare")
  /\ ~MustCancel(t)
  /\ hook' = [hook EXCEPT ![t] = TRUE]
  /\ Enqueue(TheCond, t)
  /\ CGoto(t, "prepared")
  /\ UNCHANGED <<port, mutexVars, localVars, enabled, pending, hurdVars>>

\* Cancelled already: exit, with the mutex still locked.
WaitCancelled(t) ==
  /\ At(t, "prepare")
  /\ MustCancel(t)
  /\ Unlock(t, CancelLock[t])
  /\ CGoto(t, "exit")
  /\ UNCHANGED <<localVars, cancelVars, hurdVars>>

Prepared(t) ==
  /\ At(t, "prepared")
  /\ Unlock(t, CancelLock[t])
  /\ CGoto(t, "release")
  /\ UNCHANGED <<localVars, cancelVars, hurdVars>>

ReleaseMutex(t) ==
  /\ At(t, "release")
  /\ Unlock(t, UserMutex)
  /\ CGoto(t, "block")
  /\ UNCHANGED <<localVars, cancelVars, hurdVars>>

\* __pthread_block or __pthread_timedblock receives the wakeup message...
Woken(t) ==
  /\ At(t, "block")
  /\ Block(t)
  /\ CGoto(t, "woken")
  /\ UNCHANGED <<queue, mutexVars, localVars, cancelVars, hurdVars>>

\* ... or __pthread_timedblock times out.
WaitTimeOut(t) ==
  /\ At(t, "block") /\ abs[t]
  /\ CGoto(t, "timedout")
  /\ UNCHANGED <<vars, localVars, cancelVars, hurdVars>>

\* Under cond->__lock, err = 0: the code asserts that t is off the queue.
WokenOffQueue(t) ==
  /\ At(t, "woken") /\ ~Linked(t) /\ ~sshook[t]
  /\ CGoto(t, "finish")
  /\ UNCHANGED <<vars, localVars, cancelVars, hurdVars>>

\* Under cond->__lock, timed out and still queued: leave the queue.
LeaveQueue(t) ==
  /\ At(t, "timedout") /\ Linked(t) /\ ~sshook[t]
  /\ Dequeue(t)
  /\ CGoto(t, "finish")
  /\ UNCHANGED <<port, mutexVars, localVars, cancelVars, hurdVars>>

\* Mutant of DrainNeeded: the message on its way is left in the port.
DrainForgotten(t) ==
  /\ At(t, "timedout") /\ ~Linked(t) /\ ~sshook[t]
  /\ CGoto(t, "finish")
  /\ UNCHANGED <<vars, localVars, cancelVars, hurdVars>>

\* Under cond->__lock, timed out but dequeued since: a message will come.
DrainNeeded(t) ==
  /\ At(t, "timedout") /\ ~Linked(t) /\ ~sshook[t]
  /\ CGoto(t, "drain")
  /\ UNCHANGED <<vars, localVars, cancelVars, hurdVars>>

DrainWait(t) ==
  /\ At(t, "drain")
  /\ Block(t)
  /\ CGoto(t, "finish")
  /\ UNCHANGED <<queue, mutexVars, localVars, cancelVars, hurdVars>>

\* Mutant of Finish: the hook is removed without cancel_lock.
FinishUnlocked(t) ==
  /\ At(t, "finish")
  /\ hook' = [hook EXCEPT ![t] = FALSE]
  /\ cancelled' = [cancelled EXCEPT ![t] = MustCancel(t)]
  /\ CGoto(t, "relock")
  /\ UNCHANGED <<vars, abs, back, newstate, victim, enabled, pending, hurdVars>>

Finish(t) ==
  /\ At(t, "finish")
  /\ Lock(t, CancelLock[t])
  /\ CGoto(t, "clear")
  /\ UNCHANGED <<localVars, cancelVars, hurdVars>>

\* Under cancel_lock: remove the hook, look for a cancellation.
ClearHook(t) ==
  /\ At(t, "clear")
  /\ hook' = [hook EXCEPT ![t] = FALSE]
  /\ cancelled' = [cancelled EXCEPT ![t] = MustCancel(t)]
  /\ Unlock(t, CancelLock[t])
  /\ CGoto(t, "relock")
  /\ UNCHANGED <<abs, back, newstate, victim, enabled, pending, hurdVars>>

\* Mutant of RelockMutex: a wait that was cancelled does not lock the mutex.
RelockUncancelled(t) ==
  /\ At(t, "relock")
  /\ IF cancelled[t] THEN UNCHANGED vars ELSE Lock(t, UserMutex)
  /\ CGoto(t, "return")
  /\ UNCHANGED <<localVars, cancelVars, hurdVars>>

RelockMutex(t) ==
  /\ At(t, "relock")
  /\ Lock(t, UserMutex)
  /\ CGoto(t, "return")
  /\ UNCHANGED <<localVars, cancelVars, hurdVars>>

WaitReturn(t) ==
  /\ At(t, "return")
  /\ CGoto(t, IF cancelled[t] THEN "exit" ELSE "user")
  /\ cancelled' = [cancelled EXCEPT ![t] = FALSE]
  /\ abs' = [abs EXCEPT ![t] = FALSE]
  /\ UNCHANGED <<vars, back, newstate, victim, cancelVars, hurdVars>>

WaitStep(t) ==
  \/ Prepare(t) \/ WaitCancelled(t) \/ Prepared(t) \/ ReleaseMutex(t)
  \/ Woken(t) \/ WaitTimeOut(t) \/ WokenOffQueue(t) \/ LeaveQueue(t)
  \/ DrainNeeded(t) \/ DrainWait(t) \/ Finish(t) \/ ClearHook(t)
  \/ RelockMutex(t) \/ WaitReturn(t)

-----------------------------------------------------------------------------
(* __pthread_hurd_cond_timedwait_internal.  Its sections under ss->lock    *)
(* and cond->__lock are one action each; a drain keeps ss->lock.           *)

\* Not cancelled: join the queue and tell hurd_thread_cancel of cancel_me.
\* The steps up to the return from the block are those of the other wait.
HurdWait(t, timed) ==
  /\ At(t, "user") /\ ~sscancel[t]
  /\ abs' = [abs EXCEPT ![t] = timed]
  /\ Enqueue(TheCond, t)
  /\ sshook' = [sshook EXCEPT ![t] = TRUE]
  /\ CGoto(t, "release")
  /\ UNCHANGED <<port, mutexVars, back, newstate, cancelled, victim, cancelVars, sscancel, suspended>>

pthread_hurd_cond_wait_np(t) == HurdWait(t, FALSE)

\* Cancelled on entry: the mutex stays locked.
HurdWaitCancelled(t) ==
  /\ At(t, "user") /\ sscancel[t]
  /\ sscancel' = [sscancel EXCEPT ![t] = FALSE]
  /\ CGoto(t, "hcancelled")
  /\ UNCHANGED <<vars, localVars, cancelVars, sshook, suspended>>

\* Requests that came meanwhile are reported with it: EINTR.
HurdCancelledReturn(t) ==
  /\ At(t, "hcancelled")
  /\ sscancel' = [sscancel EXCEPT ![t] = FALSE]
  /\ CGoto(t, "user")
  /\ UNCHANGED <<vars, localVars, cancelVars, sshook, suspended>>

\* The end of the last section: clear the hook, check the flag and clear it.
HurdCheck(t) ==
  /\ sshook' = [sshook EXCEPT ![t] = FALSE]
  /\ cancelled' = [cancelled EXCEPT ![t] = sscancel[t]]
  /\ sscancel' = [sscancel EXCEPT ![t] = FALSE]
  /\ CGoto(t, "hrelock")
  /\ UNCHANGED <<abs, back, newstate, victim, cancelVars, suspended>>

\* After the block, under both locks: leave the queue, if still on it.
HurdLeave(t) ==
  /\ cpc[t] \in {"woken", "timedout"} /\ sshook[t]
  /\ cpc[t] = "woken" \/ Linked(t)
  /\ IF Linked(t) THEN Dequeue(t) ELSE UNCHANGED queue
  /\ HurdCheck(t)
  /\ UNCHANGED <<port, mutexVars>>

\* Timed out but dequeued since: a message will come.
HurdDrainNeeded(t) ==
  /\ At(t, "timedout") /\ sshook[t] /\ ~Linked(t)
  /\ CGoto(t, "hdrain")
  /\ UNCHANGED <<vars, localVars, cancelVars, hurdVars>>

HurdDrain(t) ==
  /\ At(t, "hdrain")
  /\ Block(t)
  /\ HurdCheck(t)
  /\ UNCHANGED <<queue, mutexVars>>

HurdRelock(t) ==
  /\ At(t, "hrelock")
  /\ Lock(t, UserMutex)
  /\ CGoto(t, "hreturn")
  /\ UNCHANGED <<localVars, cancelVars, hurdVars>>

\* EINTR if cancelled, and the caller goes on with the mutex.
HurdReturn(t) ==
  /\ At(t, "hreturn")
  /\ cancelled' = [cancelled EXCEPT ![t] = FALSE]
  /\ abs' = [abs EXCEPT ![t] = FALSE]
  /\ CGoto(t, "user")
  /\ UNCHANGED <<vars, back, newstate, victim, cancelVars, hurdVars>>

HurdStep(t) ==
  \/ HurdCancelledReturn(t) \/ HurdLeave(t) \/ HurdDrainNeeded(t)
  \/ HurdDrain(t) \/ HurdRelock(t) \/ HurdReturn(t)

-----------------------------------------------------------------------------
(* __pthread_cond_signal and __pthread_cond_broadcast.                     *)

\* The first of the queue is dequeued, and woken up outside cond->__lock.
Signal(t) ==
  /\ At(t, "out") /\ queue[TheCond] # <<>>
  /\ Dequeue(Head(queue[TheCond]))
  /\ victim' = [victim EXCEPT ![t] = Head(queue[TheCond])]
  /\ CGoto(t, "wakeup")
  /\ UNCHANGED <<port, mutexVars, abs, back, newstate, cancelled, cancelVars, hurdVars>>

SignalNobody(t) ==
  /\ At(t, "out") /\ queue[TheCond] = <<>>
  /\ UNCHANGED callVars

SignalWakeup(t) ==
  /\ At(t, "wakeup")
  /\ Wakeup(victim[t])
  /\ victim' = [victim EXCEPT ![t] = NoThread]
  /\ CGoto(t, "out")
  /\ UNCHANGED <<queue, mutexVars, abs, back, newstate, cancelled, cancelVars, hurdVars>>

\* All are dequeued and woken up, within cond->__lock.
Broadcast(t) ==
  /\ At(t, "out")
  /\ \A u \in Waiters(TheCond) : ~port[u]
  /\ queue' = [queue EXCEPT ![TheCond] = <<>>]
  /\ port' = [u \in Threads |-> port[u] \/ u \in Waiters(TheCond)]
  /\ UNCHANGED <<mutexVars, condVars>>

-----------------------------------------------------------------------------
(* pthread_cancel of a thread p, and the hook.                             *)

CancelCall(t, p) ==
  /\ At(t, "out")
  /\ Lock(t, CancelLock[p])
  /\ victim' = [victim EXCEPT ![t] = p]
  /\ CGoto(t, "cancel")
  /\ UNCHANGED <<abs, back, newstate, cancelled, cancelVars, hurdVars>>

\* Mutant of CancelRecord: a second request returns with cancel_lock locked.
CancelKeepsLock(t) ==
  LET p == victim[t] IN
  /\ At(t, "cancel")
  /\ pending[p] \/ ~enabled[p] \/ ~hook[p]
  /\ pending' = [pending EXCEPT ![p] = TRUE]
  /\ IF pending[p] THEN UNCHANGED vars ELSE Unlock(t, CancelLock[p])
  /\ victim' = [victim EXCEPT ![t] = NoThread]
  /\ CGoto(t, "out")
  /\ UNCHANGED <<abs, back, newstate, cancelled, hook, enabled, hurdVars>>

\* The request is recorded, and p is in no cancellable wait: nothing to do.
CancelRecord(t) ==
  LET p == victim[t] IN
  /\ At(t, "cancel")
  /\ pending[p] \/ ~enabled[p] \/ ~hook[p]
  /\ pending' = [pending EXCEPT ![p] = TRUE]
  /\ Unlock(t, CancelLock[p])
  /\ victim' = [victim EXCEPT ![t] = NoThread]
  /\ CGoto(t, "out")
  /\ UNCHANGED <<abs, back, newstate, cancelled, hook, enabled, hurdVars>>

\* p waits, or is on its way to or from waiting: the hook is to be called.
CancelBlocked(t) ==
  LET p == victim[t] IN
  /\ At(t, "cancel")
  /\ ~pending[p] /\ enabled[p] /\ hook[p]
  /\ pending' = [pending EXCEPT ![p] = TRUE]
  /\ CGoto(t, "hook")
  /\ UNCHANGED <<vars, localVars, hook, enabled, hurdVars>>

\* Mutant of HookDequeue: the hook wakes p up and leaves it on the queue.
HookNoDequeue(t) ==
  /\ At(t, "hook")
  /\ Linked(victim[t])
  /\ CGoto(t, "hookwake")
  /\ UNCHANGED <<vars, localVars, cancelVars, hurdVars>>

\* cancel_hook, under cond->__lock: p's links are set, so take it off the
\* queue it is connected to, which may be that of its cancel_lock...
HookDequeue(t) ==
  /\ At(t, "hook")
  /\ Linked(victim[t])
  /\ Dequeue(victim[t])
  /\ CGoto(t, "hookwake")
  /\ UNCHANGED <<port, mutexVars, localVars, cancelVars, hurdVars>>

\* ... or somebody has unblocked it already.
HookTooLate(t) ==
  /\ At(t, "hook")
  /\ ~Linked(victim[t])
  /\ CGoto(t, "uncancel")
  /\ UNCHANGED <<vars, localVars, cancelVars, hurdVars>>

\* ... or the links change under its hands, as an __pthread_enqueue on p's
\* cancel_lock is under way: p's own, or that of another canceller in front of
\* p.  p is woken up and stays on that queue, with prevp 0: the next dequeue
\* fails its assertion, or follows a null pointer.
HookTears(t) ==
  LET p == victim[t] IN
  /\ At(t, "hook")
  /\ \/ /\ At(p, "finish")
        /\ Wait(p, CancelLock[p], "null")
        /\ cpc' = [cpc EXCEPT ![t] = "hookwake", ![p] = "clear"]
        /\ UNCHANGED victim
     \/ \E u \in OtherThreads \ {t} :
          /\ At(u, "out") /\ p \in Waiters(CancelLock[p]) /\ p = Head(queue[CancelLock[p]])
          /\ Wait(u, CancelLock[p], "null")
          /\ cpc' = [cpc EXCEPT ![t] = "hookwake", ![u] = "cancel"]
          /\ victim' = [victim EXCEPT ![u] = p]
  /\ torn' = TRUE
  /\ UNCHANGED <<abs, back, newstate, cancelled, cancelVars, hurdVars>>

HookWakeup(t) ==
  /\ At(t, "hookwake")
  /\ Wakeup(victim[t])
  /\ CGoto(t, "uncancel")
  /\ UNCHANGED <<queue, mutexVars, localVars, cancelVars, hurdVars>>

CancelReturn(t) ==
  /\ At(t, "uncancel")
  /\ Unlock(t, CancelLock[victim[t]])
  /\ victim' = [victim EXCEPT ![t] = NoThread]
  /\ CGoto(t, "out")
  /\ UNCHANGED <<abs, back, newstate, cancelled, cancelVars, hurdVars>>

\* hurd_thread_cancel: suspend p, which holds no lock then that its hook needs
\* as p's ss->lock is locked for it; set its flag; call its hook; resume it.
HurdCancelCall(t, p) ==
  /\ At(t, "out") /\ p # t
  /\ cpc[p] \notin {"hdrain", "exited"}
  /\ suspended' = [suspended EXCEPT ![p] = @ + 1]
  /\ sscancel' = [sscancel EXCEPT ![p] = TRUE]
  /\ victim' = [victim EXCEPT ![t] = p]
  /\ CGoto(t, IF sshook[p] THEN "cancelme" ELSE "resume")
  /\ UNCHANGED <<vars, abs, back, newstate, cancelled, cancelVars, sshook>>

\* cancel_me, under cond->__lock: the thread is queued and taken off the queue,
\* or it has been unblocked already.
CancelMe(t) ==
  /\ At(t, "cancelme")
  /\ IF Linked(victim[t])
     THEN Dequeue(victim[t]) /\ CGoto(t, "cancelwake")
     ELSE UNCHANGED queue /\ CGoto(t, "resume")
  /\ UNCHANGED <<port, mutexVars, localVars, cancelVars, hurdVars>>

CancelMeWakeup(t) ==
  /\ At(t, "cancelwake")
  /\ Wakeup(victim[t])
  /\ CGoto(t, "resume")
  /\ UNCHANGED <<queue, mutexVars, localVars, cancelVars, hurdVars>>

HurdCancelReturn(t) ==
  /\ At(t, "resume")
  /\ suspended' = [suspended EXCEPT ![victim[t]] = @ - 1]
  /\ victim' = [victim EXCEPT ![t] = NoThread]
  /\ CGoto(t, "out")
  /\ UNCHANGED <<vars, abs, back, newstate, cancelled, cancelVars, sscancel, sshook>>

OtherStep(t) ==
  \/ SignalWakeup(t)
  \/ CancelMe(t) \/ CancelMeWakeup(t) \/ HurdCancelReturn(t)
  \/ CancelRecord(t) \/ CancelBlocked(t)
  \/ HookDequeue(t) \/ HookTooLate(t) \/ HookWakeup(t) \/ CancelReturn(t)

-----------------------------------------------------------------------------
(* pthread_setcancelstate, pthread_testcancel, and pthread_exit up to the  *)
(* end of the cancellation handlers.                                       *)

\* Set the state, then go on at l.
SetState(t, state, l) ==
  /\ Lock(t, CancelLock[t])
  /\ newstate' = [newstate EXCEPT ![t] = state]
  /\ back' = [back EXCEPT ![t] = l]
  /\ CGoto(t, "setstate")
  /\ UNCHANGED <<abs, cancelled, victim, cancelVars, hurdVars>>

SetCancelState(t) ==
  /\ At(t, "user")
  /\ \E state \in BOOLEAN : SetState(t, state, "user")

StateSet(t) ==
  /\ At(t, "setstate")
  /\ enabled' = [enabled EXCEPT ![t] = newstate[t]]
  /\ Unlock(t, CancelLock[t])
  /\ CGoto(t, back[t])
  /\ newstate' = [newstate EXCEPT ![t] = TRUE]
  /\ back' = [back EXCEPT ![t] = "out"]
  /\ UNCHANGED <<abs, cancelled, victim, hook, pending, hurdVars>>

TestCancel(t) ==
  /\ At(t, "user")
  /\ Lock(t, CancelLock[t])
  /\ CGoto(t, "test")
  /\ UNCHANGED <<localVars, cancelVars, hurdVars>>

Tested(t) ==
  /\ At(t, "test")
  /\ Unlock(t, CancelLock[t])
  /\ CGoto(t, IF MustCancel(t) THEN "exit" ELSE "user")
  /\ UNCHANGED <<localVars, cancelVars, hurdVars>>

\* Cancellation is disabled, the handlers run (the one that waiters push
\* unlocks the mutex), and the state, which was enabled, is restored.
Exit(t) == At(t, "exit") /\ SetState(t, FALSE, "cleanup")

Cleanup(t) ==
  /\ At(t, "cleanup")
  /\ Unlock(t, UserMutex)
  /\ CGoto(t, "cleaned")
  /\ UNCHANGED <<localVars, cancelVars, hurdVars>>

Cleaned(t) == At(t, "cleaned") /\ SetState(t, TRUE, "exited")

CancelStep(t) ==
  \/ StateSet(t) \/ Tested(t) \/ Exit(t) \/ Cleanup(t) \/ Cleaned(t)

-----------------------------------------------------------------------------
(* The threads.                                                            *)

Enter(t) ==
  /\ At(t, "out")
  /\ Lock(t, UserMutex)
  /\ CGoto(t, "user")
  /\ UNCHANGED <<localVars, cancelVars, hurdVars>>

Leave(t) ==
  /\ At(t, "user")
  /\ Unlock(t, UserMutex)
  /\ CGoto(t, "out")
  /\ UNCHANGED <<localVars, cancelVars, hurdVars>>

\* The rest of a call that is under way: a step the scheduler lets t take.
CondContinue(t) ==
  /\ suspended[t] = 0
  /\ \/ Continue(t) /\ UNCHANGED condVars
     \/ WaitStep(t)
     \/ HurdStep(t)
     \/ OtherStep(t)
     \/ CancelStep(t)

\* The threads that also use the waits of the Hurd leave their cancel state alone.
WaiterCall(t) ==
  \/ pthread_cond_wait(t) \/ WaitCall(t, TRUE) \/ WaitInvalid(t)
  \/ t \notin HurdThreads /\ (SetCancelState(t) \/ TestCancel(t))

HurdWaiterCall(t) ==
  \/ pthread_hurd_cond_wait_np(t) \/ HurdWait(t, TRUE)
  \/ HurdWaitCancelled(t)

OtherCall(t) ==
  \/ Signal(t) \/ SignalNobody(t) \/ Broadcast(t)
  \/ \E p \in WaitThreads : CancelCall(t, p)
  \/ \E p \in HurdThreads : HurdCancelCall(t, p)

CondStep ==
  \/ \E t \in Threads : CondContinue(t)
  \/ \E t \in EnterThreads : suspended[t] = 0 /\ (Enter(t) \/ Leave(t))
  \/ \E t \in WaitThreads : suspended[t] = 0 /\ WaiterCall(t)
  \/ \E t \in HurdThreads : suspended[t] = 0 /\ HurdWaiterCall(t)
  \/ \E t \in OtherThreads : suspended[t] = 0 /\ OtherCall(t)

\* Nothing is said of what follows once the links of a thread are torn.
Intact(A) == ~torn /\ A /\ UNCHANGED torn

CondNext ==
  \/ Intact(CondStep)
  \/ ~torn /\ \E t \in Threads : suspended[t] = 0 /\ HookTears(t)
  \/ torn /\ UNCHANGED allVars

CondSpec == CondInit /\ [][CondNext]_allVars

\* Threads are scheduled, and a thread between calls that holds the mutex
\* does not keep it for ever.
CondFairSpec ==
  /\ CondSpec
  /\ \A t \in Threads : /\ WF_allVars(Intact(CondContinue(t)))
                         /\ SF_allVars(Intact(Leave(t)))

-----------------------------------------------------------------------------
(* What makes them correct together, as long as no queue is torn.          *)

\* t has joined the queue of the condition and not come back from its block.
CondWaiting(t) == cpc[t] \in {"prepared", "release", "block", "timedout", "drain", "hdrain"}

\* t has been dequeued from what it waits for, and its wait is not over.
WasDequeued(t) == Dequeued(t) \/ (CondWaiting(t) /\ ~Linked(t))

\* u has dequeued t and is about to send it the message.
Waking(u, t) == \/ pc[u] = "wakeup" /\ target[u] = t
                \/ cpc[u] \in {"wakeup", "hookwake", "cancelwake"} /\ victim[u] = t

\* Whoever dequeues a thread, from whichever queue, owes it one message, and
\* nothing else sends one: a thread that is dequeued has exactly one message
\* sent or about to be sent, any other thread none.  So no wakeup is lost, none
\* fails on a full port (__pthread_wakeup asserts that), and none is left to
\* end a later wait for something else.
OneWakeupOwed ==
  ~torn => \A t \in Threads :
    LET owing == {u \in Threads : Waking(u, t)}
    IN /\ port[t] => owing = {}
       /\ \A u, v \in owing : u = v
       /\ WasDequeued(t) <=> port[t] \/ owing # {}

\* The assertions of the queues and of the wait: a thread is on one queue at
\* most (__pthread_enqueue), and one that received a message is on none (after
\* the block in __pthread_cond_timedwait_internal).  They hold in every
\* interleaving but those in which the hook and an __pthread_enqueue on a
\* cancel_lock write the same links at the same time.
QueueAssertions ==
  ~torn => \A t \in Threads :
    /\ \A q, r \in Queues : t \in Waiters(q) /\ t \in Waiters(r) => q = r
    /\ \A q \in Queues : NoDuplicates(queue[q])
    /\ cpc[t] = "woken" => ~Linked(t)

\* A thread is in the monitor between calls, and while it exits up to the
\* cancellation handler: "this function must exit with MUTEX locked".
InMonitor(t) == At(t, "user") \/ At(t, "exit") \/ At(t, "cleanup")

\* Whichever way a wait ends (signal, timeout, cancellation before or during
\* it), its caller or its cancellation handler has the mutex to itself.
WaitExitsLocked ==
  ~torn => \A t \in Threads :
    InMonitor(t) => /\ held[UserMutex] /\ got[t][UserMutex] = 1
                    /\ \A u \in Threads \ {t} : ~Claims(u, UserMutex)

\* The hook's argument is on the stack of the thread that waits: a canceller
\* that is about to use it finds that thread still in the call.
HookArgumentAlive ==
  ~torn => \A t \in Threads :
    /\ cpc[t] = "hook" => /\ hook[victim[t]]
                          /\ cpc[victim[t]] \in WaitPCs \ {"prepare", "relock", "return"}
    /\ cpc[t] = "cancelme" => /\ sshook[victim[t]]
                              /\ cpc[victim[t]] \in {"release", "block", "woken", "timedout"}

\* No thread sleeps through its cancellation: one that blocks on the condition
\* and is cancelled is about to be dequeued by the canceller's hook, whichever
\* of the two kinds of cancellation its wait heeds.
CancelNotMissed ==
  ~torn => \A t \in Threads :
    At(t, "block") /\ Linked(t) =>
      /\ hook[t] /\ MustCancel(t) => \E u \in Threads : cpc[u] = "hook" /\ victim[u] = t
      /\ sshook[t] /\ sscancel[t] => \E u \in Threads : cpc[u] = "cancelme" /\ victim[u] = t

\* Two threads never hold one cancel_lock, which "protect[s] cancel_xxx
\* members" (pt-internal.h).
CancelLockExclusion ==
  \A p, t, u \in Threads :
    Claims(t, CancelLock[p]) /\ Claims(u, CancelLock[p]) => t = u

\* t waits for ever for a mutex that is handed to others again and again: the
\* queue of a mutex is last in, first out, so those who come later go first.
Overtaken(t) ==
  \E m \in Mutexes : /\ <>[](obj[t] = m /\ pc[t] = "block" /\ Linked(t))
                     /\ []<>(\E u \in Threads \ {t} : Handed(u, m))

\* A thread that a signal, a broadcast or the hook dequeued gets back into the
\* monitor, or exits, unless it is overtaken for ever at a mutex.
SignalledReturns ==
  \A t \in Threads :
    Overtaken(t) \/ (CondWaiting(t) /\ ~Linked(t) ~> cpc[t] \in {"user", "exited"} \/ torn)

\* A thread that pthread_cancel cancels while it blocks runs its handlers and
\* exits, unless it is overtaken for ever at a mutex.
CancelledExits ==
  \A t \in Threads :
    Overtaken(t) \/ (At(t, "block") /\ hook[t] /\ MustCancel(t) ~> cpc[t] = "exited" \/ torn)
=============================================================================
