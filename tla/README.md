# A verification model of the Hurd's libpthread

This directory holds TLA+ models of the thread library in `src/`: what it keeps
in memory, what its functions do to it, and what must hold when several threads
run them at once. TLC checks the models on small instances; TLAPS proves the
safety properties for any number of threads, mutexes, keys and rounds.

## 1. The system

The library implements POSIX threads on Mach. Its parts, the state each keeps,
its operations, and what makes it correct:

| Part | State | Operations | Correct when |
|---|---|---|---|
| wait queue, block and wakeup (`pthread/pt-internal.h`, `sysdeps/mach/pt-block.c`, `pt-timedblock.c`, `pt-wakeup.c`) | one pair of links and one wakeup port (one message) per thread | enqueue, dequeue, block, timedblock, wakeup | a thread is on one queue at most; one message per dequeue, delivered and consumed by the wait it is for |
| mutex (`sysdeps/generic/pt-mutex-*.c`) | `__held`, `__lock`, `__queue`, `owner`, `locks`, type | lock, timedlock, trylock, unlock, transfer_np | one holder; hand-off without barging; no orphaned mutex; no forgotten waiter |
| condition variable (`sysdeps/generic/pt-cond-*.c`) | `__lock`, `__queue` | wait, timedwait, signal, broadcast | no lost signal; a wait always ends with the mutex locked |
| cancellation (`pthread/pt-cancel.c`, `pt-testcancel.c`, `pt-setcancel*.c`, `sysdeps/mach/hurd/pt-docancel.c`) | `cancel_lock`, `cancel_hook`, `cancel_state`, `cancel_type`, `cancel_pending` | cancel, testcancel, setcancelstate, setcanceltype | no missed request; the hook finds its argument alive; `cancel_lock` excludes |
| thread life cycle (`pthread/pt-alloc.c`, `pt-create.c`, `pt-exit.c`, `pt-join.c`, `pt-detach.c`, `pt-dealloc.c`, `sysdeps/mach/pt-thread-*.c`, `pt-stack-alloc.c`) | table of IDs, free list, `state`, `status`, `__pthread_total`, kernel resources | create, exit, join, detach, recycle | a structure is recycled once, never while its thread can still run; each failure path undoes what was done |
| semaphore (`sem-*.c`) | `__value`, `__queue` | wait, timedwait, trywait, post | posts = waits + value |
| read-write lock (`pt-rwlock-*.c`) | `__held`, `readers`, two queues | rdlock, wrlock, timed and try forms, unlock | readers or one writer; hand-off loses nobody |
| barrier (`pt-barrier-*.c`) | `pending`, `count`, `queue` | wait | nobody passes early; one serial thread a round |
| once (`pt-once.c`) | `run`, `lock` | once | the routine runs once, and is done when a call returns |
| thread-specific data (`sysdeps/hurd/pt-*specific*.c`, `pt-key-*.c`) | destructor table, per-thread values | key create and delete, get, set, destroy | a destructor runs for its own key's values only |
| hurd condition wait (`sysdeps/mach/hurd/pt-hurd-cond-*.c`) | as the condition, and hurd's `cancel` flag | wait, timedwait | as the condition |
| signals (`signal/`; its README says that no port in this release uses it) | `pending`, `blocked`, `actions`, `ss->sigwaiter`, the list `sigwaiters`, `sig_lock` | dispatch, sigwaitinfo, kill, pthread_kill, sigaction, sigaltstack | what was blocked only for a handler is handled when it returns; the mask is restored |
| attributes (`sysdeps/generic/pt-attr*.c`, `pt-mutexattr*.c`, `pt-condattr*.c`) | records | init, get, set, copy | a failed setter changes nothing; a stack is aligned and of the one size there is |
| fork handlers (`forward.c`), spin locks, cthreads and stdio wrappers | a list; plain words | | |

Parts interact by calls and by shared state. Mutexes, conditions, semaphores,
read-write locks and barriers all use the same links and the same port of the
calling thread. The condition wait calls the mutex functions on the user's
mutex and on the thread's `cancel_lock`; `pthread_cancel` calls back into the
condition through `cancel_hook`; join waits on a condition, so it is cancelled
through it; the life cycle uses a mutex and a read-write lock of its own, and
the free list of thread structures uses the same links as the wait queues. An
exiting thread runs destructors under the lock of the keys, and `pthread_once`
gets that lock ready.

What is hard: a timeout that races the waker (the waiter is dequeued, the
message not yet sent); hand-off of a lock to a thread that no longer wants it; a
port with room for one message, in a library that aborts if a send fails; one
pair of links that tells *that* a thread is queued, not *where*; a hook called
from another thread with an argument on the waiter's stack; error paths that
return in the middle of a locked section. `PROJECT.json` lists these hazards
line by line.

## 2. The modules

- `PtInternal` — the queue (a sequence of threads per object; insertion at the
  head, `Linked(t)` is `prevp != NULL`) and the port (a Boolean per thread:
  `Block` consumes the message, `Wakeup` requires an empty port).
- `Mutex` (extends `PtInternal`) — `pt-mutex-*.c`. A section under `__lock` is
  one action; blocking, sending the message and recording the owner after a
  wakeup happen outside `__lock` and are actions of their own. `spin[m]` is TRUE
  when a call has returned with `__lock` locked. `pc[t]` is the place of `t` in
  its call. `got[t][m]` is the only variable the code does not have: the locks
  of `m` granted to `t`, from which the properties are stated. The counter of a
  recursive mutex wraps at `UIntMax`. `NDEBUG` chooses the build: with it
  `Transfer` has no assertion on the owner, and refuses an errorcheck mutex that
  the caller does not own (EPERM).
- `AbstractMutex` — what a mutex promises: one holder, direct hand-off to a
  waiter in the step of the unlock, no barging.
- `Cond` (extends `Mutex`) — the condition wait with the mutex it is used with,
  signal, broadcast, deferred cancellation with the hook, setcancelstate,
  testcancel and pthread_exit up to the cleanup handlers. A call on a mutex is a
  call of `Mutex`; `cpc[t]` is where `t` goes on when that call has returned.
  Threads in `HurdThreads` wait with `pthread_hurd_cond_wait_np` and its timed
  form instead. `hurd_thread_cancel` is external; as the comments and the hook
  of `pt-hurd-cond-timedwait.c` presuppose, it locks the target's `ss->lock`,
  suspends the target, sets `ss->cancel`, calls the hook and resumes. Threads in
  `EnterThreads` lock and unlock the mutex. The hook of the POSIX wait has only
  `cond->__lock`. If its waiter is on the queue of its `cancel_lock` it takes it off
  that queue (`HookDequeue`); or else the `__pthread_enqueue` of the waiter, or that
  of another canceller in front of it, is under way on that queue at the same time
  (`HookTears`), and leaves there a thread that was woken up, with `prevp` 0. What
  follows is undefined (an assertion, or a null pointer), so from then on `torn` is
  TRUE and nothing happens any more.
- `MCCond` — gives each thread of an instance its `cancel_lock`.
- `TimedWait` (extends `PtInternal`) — the code that `sem-timedwait.c`,
  `pt-rwlock-timedrdlock.c` and `pt-rwlock-timedwrlock.c` have in common: join a
  queue, block, look again under `__lock` whether somebody dequeued the thread,
  drain the message that is then on its way. `spin` is as in `Mutex`.
- `Semaphore` (extends `TimedWait`) — `sem-*.c`. The code has `value`; `units`
  (initial value and posts, less the waits that returned 0) and `lost` (posts
  given to a wait that returned ETIMEDOUT) are history, for the conservation law.
- `RWLock` (extends `TimedWait`) — `pt-rwlock-*.c`. History variables: `reads` and
  `writes` (what each thread was granted), `lostReads` and `lostWrite` (what was
  handed to a call that returned ETIMEDOUT).
- `Barrier` (extends `PtInternal`) — `pt-barrier-*.c`. The last thread of a round
  takes the list of waiters (`walk[t]`) and wakes them up outside the lock, one
  step each, while the next round may already fill the barrier's list. History
  variables: `round`, `arrivals`, `myround`.
- `Attr` — attribute objects: a setter is a function from an object and its
  arguments to an error and the object afterwards; `pthread_mutex_init`,
  `pthread_cond_init` and destroy with the copy they keep.
- `Lifecycle` (extends `PtInternal` and `Attr`) — `pthread_create` from the free
  list or a fresh structure to the start of the thread, with a failure at each
  allocation; exit, join, detach, dealloc. A structure is named by its ID. The
  table of IDs is enlarged in two steps, because the lock is released in between.
  `state_lock` is kept between steps only by a join that was cancelled
  (`locked`). `kthread` is what the port `kernel_thread` names; `mapped` the stacks
  that are mapped memory; `over` says that `exit` or `abort` was called, after
  which nothing happens. `thread_terminate` may be called on a thread that has
  halted already.
- `MCLifecycle` — the attributes that programs pass, made by the setters.
- `Specific` — keys, values and destructors, and `pthread_once` as these calls
  use it. A destructor is the program again, with the lock of the keys held:
  it creates and deletes keys and sets values. `pthread_setspecific` takes no lock
  and is two steps, the checks and the `hurd_ihash_add` (`adding` is its key), so that
  a deletion of that key or of another may come in between: its
  `hurd_ihash_remove` may then be lost in a table that is being rehashed, and a value
  may be added for a key that is gone. `lost[t]` are the keys for which this happened
  in `t`'s table. It is history, as are `inits`, which counts how often the routine of
  the once has run, and `resets`, which bounds what destructors set.
- `Signals` — `signal/`. A signal to another thread travels with that thread's
  `ss->lock` locked (`forced`, `ssLock`) until the target enters `signal_dispatch`;
  `frames` are its nested calls, with the mask each will restore. `pthread_kill` locks
  `sig_lock`, waits with it for the target's `ss->lock`, unlocks `sig_lock`, and then
  forces the target (`LockSig`, `Generate`, `KillForces`); `kill` and `sigwaitinfo` take
  the two locks in the same order. The list of waiters has its links as the code
  leaves them.
- `MCSignals` — actions and masks of an instance.
- `PtInternalProofs`, `MutexProofs`, `CondProofs`, `SpecificProofs`, `BarrierProofs`,
  `SignalsProofs` — the lemmas and theorems about the module of that name; each
  extends it. `TimedWaitProofs` is about `TimedWait`, `Semaphore` and `RWLock`,
  `LifecycleProofs` about `Lifecycle` and `Attr`.

Operators that begin with a comment "Mutant of ..." are variants of an action as
a plausible mistake would have it. No specification uses them: each one, put in
the place of the action it names, makes TLC refute the property listed with it
in `PROJECT.json`.

## 3. The runs

| Run | Instance | What it checks |
|---|---|---|
| `mutex_handoff` | 3 threads, a mutex of each of the 3 types in turn, no timeouts, 2 recursive locks | types, `MutualExclusion`, `NeverOrphaned`, `OwnerIsHolder`, refinement of `AbstractMutex`, `WaiterServed`; no deadlock |
| `mutex_timed` | 3 threads, 3 types, calls without timeout, with one, with a bad one; a 1-bit count | `WakeupDelivered`, `NoLostWakeup`, `NoStrayMessage`, `HandOffCompletes` |
| `cond_cancel` | 2 waiters (timed or not), one of them a Hurd wait, 1 thread that signals, broadcasts, cancels both ways | `OneWakeupOwed`, `QueueAssertions`, `WaitExitsLocked`, `HookArgumentAlive`, `CancelNotMissed`; no deadlock |
| `cond_returns` | 3 threads that lock and unlock the mutex, one of which waits and two signal, broadcast and cancel | `SignalledReturns`, `CancelledExits` |
| `semaphore` | 4 threads, initial value 0 or 1, 3 units in being, every kind of ABSTIME | `OneMessageOwed`, `UnitsConserved`, `PostCompletes` |
| `rwlock` | 3 threads, 2 read locks each, every kind of ABSTIME | `ReadersExcludeWriters`, `LocksAccounted`, `RWAssertions`, `UnlockCompletes` |
| `barrier` | 4 threads, counts 1 to 3, 3 rounds | `RoundsAreFull`, `NobodyEarlyNorTwice`, `RoundReturns` |
| `lifecycle` | main and signal thread, 2 more structures, a first table of 3 IDs, every allocation may fail, joinable threads and detached ones with a stack of their own, 1 cancellation pending | `FreeListSound`, `StackAlive`, `FoundByID`, `LastThreadExits`, `ExitCompletes`, `JoinReturns` |
| `specific` | 2 threads, at most 2 keys, 1 value set by destructors of an exiting thread | `KeysSound`, `NewKeyIsNull`, `NoValueLeft`, `KeyLockReady`, `ExitsInTheEnd`; no deadlock |
| `signals` | 2 threads, SIGUSR1 and SIGCONT, caught, caught once on another stack, or ignored, 6 calls | `PendingIsBlocked`, `MaskRestored` |
| `mutex_lost_handoff` | 2 threads, timeouts | refutes `HeldByACaller` |
| `cancel_lock_shared` | 1 waiter, 1 thread that signals and cancels | refutes `CancelLockExclusion` |

Deadlock is not checked where the system may really stop: after a lost hand-off
or a bad ABSTIME (`mutex_timed`, `semaphore`, `rwlock`, `mutex_lost_handoff`),
and when every thread waits and nobody is left to signal, post or arrive
(`cond_returns`, `semaphore`, `barrier`); after `exit`, or when every thread has
exited or joins (`lifecycle`); after `_exit`, a wait for a signal nobody sends, or
the last of the calls (`signals`). A barrier of count 1 returns from its
first wait with `lock` locked (`OnlyOfRound`), so no second call gets through.

Bounds. A race on a mutex involves the thread that unlocks, the one it dequeues
and one that barges in: three threads. Two recursive locks tell an inner unlock
from the last. In the timed run one lock and a count of one bit suffice: what
matters there is only whether a count wraps. In `Cond` the interleavings of
interest involve one waiter and one canceller or signaller; the second waiter
contends for the mutex and takes the place of the first on the queue. The third
thread of `cond_returns` is needed for overtaking: two threads that use the mutex in
turn can keep a third waiting for ever. For
semaphores and read-write locks three threads are a waker, the waiter it races
and a third that barges in or waits behind; with three units a post finds the
value positive, zero with waiters and zero without. Two read locks tell a shared
unlock from the last. Four threads at a barrier of two or three let one that is
woken up early, or one that was never in the round, arrive while the list of the
last round is still being walked; three rounds let two walks be under way. The
fourth thread at the semaphore lets one waiter time out while another is dequeued
and a third barges in.

`lifecycle`: a table of three IDs is full after the first creation, so the second
enlarges it, and two threads that create at once both try. Two structures beside
the main thread's are enough for one to be given back while the other is created,
joined or detached. `MaxPending` bounds the cancellations, not which thread is
cancelled. `specific`: a table of one key that grows to two, and a rescan when two
slots are invalid, take every branch of `pthread_key_create`; more keys repeat
them. With three threads, one key and no values set by destructors its properties
hold as well; that instance is not a run of its own. `signals`: six calls install two handlers and send four signals, which
nests two handlers, interrupts them, and leaves a signal pending under each.

Fairness. `Scheduled` (weak fairness of the steps of a call under way) says that
the kernel schedules runnable threads and that a section under a spin lock ends.
`CallersUnlock` and the strong fairness of `Leave` say that programs unlock what
they lock; strong, because a busy `__lock` or the caller's other calls may
disable the unlock in between. `SemFairSpec`, `RWFairSpec` and `BarrierSpec`
assume only weak fairness of the steps of a call under way (`SemContinue`,
`RWContinue`, `BarrierContinue`), and so does `LifecycleSpec` (`Continue`). There the
sections under the library's own mutex are single steps and weak fairness is a little
generous: with creations by other threads that never end, the mutex could go past an
exiting thread for ever. `ExitCompletes` and `JoinReturns` do not say that it cannot.

A queue is last in, first out, so no specification assumes that a given thread gets a
mutex that others keep using. `WaiterServed` claims it only for a mutex that goes
unused; `SignalledReturns`, `CancelledExits` and `ExitsInTheEnd` except a thread that is
overtaken for ever (`Overtaken`: from some time on it waits for the lock, and others get
it again and again). In `SpecificSpec` somebody who wants the lock of the keys gets it
when it is free, no matter who; the thread that has it gets it again, as it is
recursive; and destructors return in the end. Nothing is assumed about who calls next.
No liveness is claimed for Hurd waits: repeated calls of `hurd_thread_cancel` can keep a
waiter suspended.

### What the refutations show

- `mutex_lost_handoff`: t1 waits with a timeout, times out, and before it takes
  `__lock` t2's unlock dequeues it. t1 drains the message and returns ETIMEDOUT.
  `__held` stays set and nobody will ever clear it. The unlock's comment says
  that ownership is transferred to the thread being woken up. Semaphores and
  read-write locks have the same code; there the models count what is lost that
  way (`lost`, `lostReads`, `lostWrite`), and `UnitsConserved` and
  `LocksAccounted` show that nothing is lost in any other.
- `cancel_lock_shared`: the waiter is signalled, comes back from its block and
  queues on its `cancel_lock`, which the canceller holds; the canceller's hook
  finds its links set, dequeues it *from the queue of cancel_lock* and wakes it
  up. Both are then under `cancel_lock`. In this trace no two threads write links at
  once, and `cond_cancel`, with the same actors, shows that then the wakeups, the
  queues and the user's mutex survive. They do not when the hook meets the waiter
  between `pt-internal.h:127` and `:130`, where it is not yet at the head of the
  queue: it is put there after it was dequeued and woken up, and the next unlock of
  `cancel_lock` fails the assertion at `:138`. The comment at `:115` (`PREVP` "must be
  protected by the queue lock") is what the hook does not keep to. The model has this
  as `HookTears`; every property of `Cond` holds up to that step and says nothing of
  what follows.

### What the models show of the code without a run of its own

- A timedlock with `tv_nsec` out of range on a busy mutex returns EINVAL between
  the lock and the unlock of `__lock` (`pt-mutex-timedlock.c:124`; the read-write
  lock and the semaphore have the same return). Every later call on the object
  spins. The models have this (`spin`), and the liveness properties except it.
- `have_kernel_resources` is set in `pt-thread-alloc.c:107` and cleared nowhere,
  while a thread's kernel thread is terminated when it exits. A structure
  recycled after its thread exited therefore keeps a dead name, and
  `__pthread_setup` aborts on it (`SetupThread`); with NDEBUG the thread never
  runs. Structures recycled after a creation that failed before the kernel thread
  was made work.
- When the TLS block cannot be allocated (`pt-create.c:148`) `err` is still 0:
  everything is undone and success reported, and `pthread_create` reads the ID
  through a pointer that was never set (`TlsFails`).
- A stack that the program supplies is used only for a structure that still has
  an old one (`pt-create.c:119`); a fresh structure gets a stack of its own.
- `pthread_key_delete` that meets a `pthread_setspecific` of another thread may leave
  a value behind (`lost`), which that thread finds when the key is created again, in a
  program that never uses a key it deletes.
- A thread forced into `signal_dispatch` while it holds `sig_lock` (in `sigwaitinfo`,
  `kill` or `pthread_kill`, waiting for an `ss->lock`) waits for `sig_lock`, that is for
  itself (`signal-dispatch.c:75`): `pthread_kill_siginfo_np` unlocks `sig_lock` before it
  forces the target, which can have taken it meanwhile.
- `sigwaiter_unblock` leaves `ss->sigwaiter` set until the waiter has run
  (`sigwaiter.c:72`), so a second signal unlinks the same waiter again.
- `__register_atfork` puts handlers at the head of the list; prepare walks it from
  the tail, parent and child from the head (`forward.c:145-202`). These are the
  opposite of the orders that `pthread.h:705` states.

## 4. The proofs

The proofs hold for any threads, objects and bounds that satisfy the assumption
named in each module (`MutexAssumption`, `CondAssumption` and so on). These say
little more than that the names of threads, mutexes and queues are distinct and
bounds are numbers. No proof but those about `Lifecycle`, where the threads are the
structures with the IDs 1 to `MaxThreads`, uses that there are finitely many. In
`CondAssumption` the mutexes of the library and of the monitor are of type normal,
there is one condition, and nobody waits with both kinds of wait.

`PtInternalProofs` states what the queue operations do: `Cons` and `Unlink` keep
a queue free of duplicates and change the set of its threads by one
(`ConsLemma`, `UnlinkLemma`), and so do `Enqueue` and `Dequeue` on all the
queues together (`EnqueueStep`, `DequeueStep`).

`MutexProofs` has two inductive invariants.

`WakeupInv` is about messages. `NoLostWakeup` is not inductive: to know that a
message, once sent, does not meet a full port, one needs that the target of a
thread about to send was dequeued, has an empty port (`WakerInv`), and is nobody
else's target (`OneWakerInv`); to know that who is dequeued was waiting on that
very mutex one needs that a queued thread is in a call on it, once, and not back
from its block (`QueueInv`). From it follow `TypeCorrect`,
`WakeupAlwaysDelivered`, `WakeupNeverLost` and `MessagesAreFresh`, with timeouts
and bad arguments, with or without NDEBUG.

`ClaimInv` is about ownership. A thread *claims* a mutex when it was granted it
or an unlock has handed it over. Exclusion needs that a claim implies `__held`,
that the recorded owner is the claimant (`OwnerInv`), and that counts agree
(`GrantInv`). `MutexIsExclusive` is proved under `Tracked`: compiled without
NDEBUG, and no timeouts if there are recursive mutexes (a lost hand-off leaves an
owner who never got the mutex). `MutexNeverOrphaned` needs in addition that
nobody uses timeouts: `mutex_lost_handoff` shows that this is necessary.
`MutexOwner` singles out what the code's checks on `owner` and `locks` rely on.

`MutexImplementsAbstract` is the refinement of `AbstractMutex`, under the same
conditions. The abstract holder is the thread with the claim, so it changes in the
step of the unlock and not when the message arrives. `RefineInv` adds to the two
invariants that a mutex with waiters is held (`WaitedForInv`): without it, a lock
that finds `__held` clear could overtake a waiter, which `AbstractMutex` does not
allow. The proof goes through the calls on one mutex and shows that none is seen
on another (`OtherUnseen`); every step that neither grants, takes back nor hands
over a lock is a stutter (`UnseenStutters`).

`CondProofs` is about the condition wait, signal, broadcast and both kinds of
cancellation, with the mutexes they use. One inductive invariant, `CondInv`, gives
its six theorems, all of which say what holds as long as no queue is torn
(`CondSpec => [](~torn => CondInv)`): `HookTears` is the only step that does not keep the
invariant, so an overlap of a hook with an enqueue on the `cancel_lock` of its thread is
the only way to break a queue. A `HookDequeue` that takes the waiter off the queue of its
`cancel_lock` without such an overlap is within the theorems. `OneWakeupOwed` is not inductive, for the same reason as with
the mutex, but here a thread may be taken off a queue by an unlock, a signal, a
broadcast or a hook, and which queue it is on depends on where it is in two nested
calls (`Place`, in `CondQueueInv`). Mutual exclusion enters because the fields
for cancellation are only protected by `cancel_lock`; and that lock is *not*
exclusive, as `cancel_lock_shared` shows. What is true, and enough, is that it
excludes until the hook of its thread has been called (`HookUncalled`, in
`ExclusionInv`), which happens once. Together with `HookedInv` (whoever is about to
call a hook finds it set) this gives `CondHooks` and `CondCancellation`; that a
suspended thread stays where it is while `hurd_thread_cancel` looks at it needs
that its suspend count is the number of callers that have yet to resume it
(`SuspendInv`). The user's mutex is exclusive always, from which `CondMonitor`
follows. The steps are proved in groups by what they do to the locks, the queues
and the messages: a step that locks or unlocks a mutex, joins or leaves a queue,
takes a thread off, receives, sends, or does none of these.

`TimedWaitProofs` is about the semaphore and the read-write lock. The assumptions on
both ask only that their queues are among the queues in being, so the theorems hold
beside other objects whose queues are not touched (`OnSemQueue`, and the last part of
`ModeInv`). It states once what the waiting code of semaphores and read-write
locks keeps (`WaitInv`): who is queued has not yet looked how its wait ended
(`WaitQueueInv`); the target of a waker was dequeued and has an empty port
(`WakerInv`), and no other waker (`OneWakerInv`); a message is for the wait under
way (`MessageInv`). It has a lemma for each step of that code, which says in
addition who is owed what before and after.

For the semaphore (`SemInv`) these threads are counted. `UnitsConserved` is inductive
with `WaitInv` and the fact that the threads that are owed a unit are finite in number.
`SemaphoreWaits` (nobody is queued while there is a unit) is why a post that finds a
positive value need not look at the queue.

For the read-write lock the invariant `RWInv` adds to `WaitInv` that readers and
writers are on their own queues (`ModeInv`), that `readers` counts exactly the locks granted, on
their way and lost (`CountInv`), that a write lock, lost ones too, excludes all
others (`WriteInv`), that `__held` says whether there is any (`HeldInv`), and that
nobody waits for a free lock and no reader while readers have it (`BusyInv`). The
last is needed where the last reader hands the lock to a writer: `readers` must
then be zero with nobody on the way. An unlock that wakes up all readers is one
step that dequeues the whole queue.

`LifecycleProofs` is for any number of structures and any sizes of the table, with
and without NDEBUG, whatever `malloc` returns and whichever allocations fail. None of
the four properties is inductive. The invariant, `LifeInv`, rests on one idea: a call
that creates a thread, reaps one, gives back a structure or looks at one to join or
detach it has that structure *in hand*, and no two calls ever have the same one
(`UseInv`). No lock says so; it follows from who can find the structure at each place
(`TableFacts`: it is not in the table before it is published nor after it was taken
out, and of the places only `mark` has it on the free list), from what `state` says
there (`StateFacts`) and from what its old thread can still do (`ThreadFacts`). With
it, a kernel thread is started once, on the stack of its structure, and that stack is
unmapped only when the thread has halted (`StackFacts`, whence `StacksStayAlive`);
the free list keeps what `FreeFacts` says (`FreeListStaysSound`); the broadcast of an
exit finds at most the one thread that joins, and the one in `__pthread_dealloc` nobody
(`LinksInv`). For `OnlyLastThreadExits` the threads whose decrement of
`__pthread_total` is to come are counted (`Counted`): `CountInv` says that they are
one more than the total, because the main thread never was. That programs join or
detach a thread once, by the call that takes it out of `known`, is the assumption
named in section 5, and is used.

The same module proves that the setters of thread attributes keep the stack size and
its alignment, and that one that fails has changed nothing, `pthread_attr_setstack`
with its rollback included (`AttrStaysSound`, from `AttrInitSound` on), and which
type a mutex gets from its attributes when the copy can fail (`MutexInitType`).

`BarrierProofs` is for any threads, counts and rounds. `NobodyEarlyNorTwice` says
where a blocked thread is: on the list in the round under way; in its port, or on
one walker's list, when its round is over. To keep this while rounds overlap
`BarrierInv` adds that neither the barrier's list nor a list being walked has
duplicates and that only walkers have one (`ListFacts`), that `myround` is never
ahead of `round`, and that the count is exact (`CountFacts`), so that the thread
that finds `pending` at 1 takes just the threads of its own round. Wakeups need not
test the port: the thread walked has no message (`ThreadFacts`).

`SignalsProofs` is for any threads, signals, actions and calls. `MaskRestored` and
`PendingIsBlocked` are about a thread in no handler, and what makes them hold is the
bottom of its stack of handlers: `StackFacts` says that the first call of
`signal_dispatch` will restore the thread's own mask and return to the program,
whatever was pushed on it, and `MaskFacts` that with no frame left that is the mask,
and nothing is pending outside it. The hypothesis `MasksSane`, no thread starts with
SIGKILL or SIGSTOP blocked, is necessary: `sigaction` takes these two out of the mask
of its caller (`sigaction.c:49`) and delivers nothing, so a thread that had blocked
them would have another mask afterwards, and perhaps one of them pending. The proof needs types of `pending`, `blocked`, `actions`, `forced`, `frames`
and `pc` only (`DispatchTypeOK`); those of the list of waiters are left to TLC,
because the walk along the list is a recursive function, about which nothing can be
proved without induction.

`SpecificProofs` is for any threads, sizes of the table of keys and bounds. That
no value is left when a table is freed (`NoValueIsLeft`) is not inductive: one needs
that a pass in which no destructor was called has nothing left behind it
(`ScanInv`); that nobody else creates or deletes keys meanwhile, which is `LockInv`,
the lock is kept as long as values are destroyed; that the once cannot initialise
the lock again while it is held (`OnceInv`, with `KeyLockInitialisedOnce`); and that
a key which becomes valid finds no old value but in a table where its removal was lost
(`ValuesInv`, with `NewKeysAreNull`). `AddInv` says who can be inside
`pthread_setspecific`: a thread that has a table and is in the program or in a
destructor, never one that scans or frees its table.
`KeyTableSound` is about the table of destructors: the count of invalid slots is
exact, so a second search of `pthread_key_create` finds one (`RescanEnds`), and the
`goto do_search` is taken once. That the search finds the *first* invalid slot is by
definition of `Slot`; no theorem depends on it.

Every invariant that a run checks is thus stated by a theorem. Only model-checked is
what is out of the prover's reach: the liveness properties of all modules, and the
links of the list of `sigwaitinfo` callers, as said above.
`HeldByACaller` and `CancelLockExclusion` are false. `ALWAYS_TRACK_MUTEX_OWNER` is
not modelled: no makefile defines it.

## 5. Not modelled, and simplified

- The relative timeout that `__pthread_timedblock` computes: a timed block may
  time out at any moment, also with a message in the port.
- No run is of the build with NDEBUG. The model has it, and the theorems on messages
  cover it; ownership is then not recorded and is not claimed.
- Clients keep to the rules: only the holder unlocks a normal mutex, nobody locks
  one it holds without a timeout, a mutex is not transferred to a thread in the
  middle of locking it, the waits on a condition hold its mutex.
- In `Cond`, the writes that end a section under `cancel_lock` are one action
  with the first step of the unlock: those fields are read under that lock.
- Cancellation is of type deferred. Asynchronous cancellation (`pt-docancel.c`)
  redirects a suspended thread to `pthread_exit` wherever it is, also inside the
  sections that the models take as atomic.
- What happens in `Cond` once a queue is torn.
- In `Lifecycle`: signal masks, scheduling, the exit status, and programs that join
  twice or join and detach. `initialize_pthread` does not fail. The wait of a join is a
  step, and so is the hook that ends it; how these can meet is in `Cond`. The program
  cancels threads that it may join or that run, detached and joined ones included.
- In `Specific`: what a `hurd_ihash_remove` that meets a `hurd_ihash_add` does beside
  getting lost (a write to the array that was replaced, a count that is wrong); the
  unlocked look of `pthread_setspecific` and `pthread_getspecific` at
  `__pthread_key_destructors`, which `pthread_key_create` may be moving; and what
  `pthread_key_delete` reads from a table that is being freed
  (`pt-destroy-specific.c:77`).
- In `Signals`: the siginfo (`signal-dispatch.c:97` passes the first one to every
  handler), the alternate stack itself, changes of the mask by the program; `sig_lock`
  and `ss->lock` are held or not, without the queues of their mutexes.
- Fork handlers, cthreads and stdio wrappers: they forward, or walk a list. Spin
  locks: one atomic exchange; a section under one is an atomic action.

## 6. The plan

Done: the wait queue and the port, mutexes, conditions with deferred and with
Hurd cancellation, semaphores, read-write locks, barriers, the life cycle,
thread-specific data and once, attributes, signals; proofs of every invariant the
runs check, and of the refinement of `AbstractMutex`. To do:

- `TimedBlock`: the conversion of times as a function, against the exact reference
  (rounding of the carry, 32-bit overflow).
- Asynchronous cancellation, which needs the sections that the models take as atomic
  split into their instructions.
