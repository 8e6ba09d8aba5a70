----------------------------- MODULE Lifecycle -----------------------------
(***************************************************************************)
(* The life of a thread: pthread_create with its failure paths, exit,      *)
(* join, detach and the recycling of thread structures (pthread/pt-alloc.c,*)
(* pt-create.c, pt-exit.c, pt-join.c, pt-detach.c, pt-dealloc.c and the    *)
(* kernel resources of sysdeps/mach).                                      *)
(*                                                                         *)
(* A thread structure is named by its thread ID, which it keeps for ever.  *)
(* Sections under __pthread_threads_lock, __pthread_free_threads_lock and  *)
(* a state_lock are atomic (modules Mutex and RWLock); so is each stretch  *)
(* of pthread_create that touches only the structure being created.  The   *)
(* free list and the state_cond queues are queues of module PtInternal:    *)
(* queue 0 is the free list, queue t the state_cond of t.                  *)
(***************************************************************************)
EXTENDS PtInternal, Attr, FiniteSets

CONSTANTS MaxThreads,     \* bound: structures allocated
          MaxPending,     \* bound: threads with a cancellation request pending
          TableSize,      \* the table's first size (_POSIX_THREAD_THREADS_MAX)
          NDEBUG,         \* compiled with NDEBUG: assert_perror does nothing
          MallocZeroes,   \* malloc returns zeroed memory (it need not)
          Failures,       \* the allocations that may fail
          CallerAttrs     \* the attributes programs pass to pthread_create

Main == 1
SignalThread == 2   \* glibc's signal thread, which never exits
Free == 0
UserStack == 0      \* the stack a program supplies in its attributes

ASSUME LifecycleAssumption ==
  /\ MaxThreads \in Nat /\ MaxThreads >= 2 /\ MaxPending \in Nat /\ TableSize \in 2..MaxThreads
  /\ Threads = 1..MaxThreads /\ Queues = 0..MaxThreads
  /\ {NDEBUG, MallocZeroes} \subseteq BOOLEAN
  /\ Failures \subseteq {"table", "stack", "kernel", "tls"}
  /\ CallerAttrs \subseteq AttrType

VARIABLES
  table,        \* the IDs whose entry of __pthread_threads is not NULL
  numThreads,   \* __pthread_num_threads
  maxThreads,   \* __pthread_max_threads
  total,        \* __pthread_total
  state,        \* state[t]: t->state
  stack,        \* stack[t]: t->stack, a stack is allocated
  stackaddr,    \* stackaddr[t]: the stack (t's own, or UserStack)
  kres,         \* kres[t]: t->have_kernel_resources
  kthread,      \* kthread[t]: what the port t->kernel_thread names
  tcb,          \* tcb[t]: t->tcb is not NULL
  pending,      \* pending[t]: t->cancel_pending
  locked,       \* locked[t]: who keeps t->state_lock between steps, 0 nobody
  pc,           \* pc[t]: where t is; "none" when it has no running thread
  subject,      \* subject[t]: the structure t's call is about
  setup,        \* setup[t]: the attributes of the thread t creates
  seen,         \* seen[t]: max_threads, saved by the thread that enlarges
  known,        \* the joinable IDs the program has and has not used up
  mapped,       \* the stacks that are mapped memory
  over          \* "no", "exit" once exit(0) was called, "abort" after abort

tableVars == <<table, numThreads, maxThreads>>
structVars == <<state, stack, stackaddr, kres, kthread, tcb, pending, locked>>
callVars == <<pc, subject, setup, seen>>
vars == <<blockVars, tableVars, total, structVars, callVars, known, mapped, over>>

CreatePCs == {"recycle", "slot", "grow", "stack", "kernel", "tls", "publish", "start"}
DeallocPCs == {"dealloc", "wake", "enqueue", "mark"}
JoinPCs == {"join", "joinwait", "detach", "reap"}
ExitPCs == {"cleanup", "exit", "exiting", "halt"}
PCs == {"none", "run", "server"} \cup CreatePCs \cup DeallocPCs \cup JoinPCs \cup ExitPCs

LifecycleTypeOK ==
  /\ BlockTypeOK
  /\ table \subseteq Threads
  /\ numThreads \in Threads /\ maxThreads \in Nat /\ total \in Nat
  /\ state \in [Threads -> {"joinable", "detached", "exited", "terminated"}]
  /\ kthread \in [Threads -> {"none", "garbage", "suspended", "running", "dead"}]
  /\ stack \in [Threads -> BOOLEAN] /\ kres \in [Threads -> BOOLEAN]
  /\ tcb \in [Threads -> BOOLEAN] /\ pending \in [Threads -> BOOLEAN]
  /\ stackaddr \in [Threads -> Threads \cup {UserStack}]
  /\ locked \in [Threads -> Threads \cup {0}]
  /\ pc \in [Threads -> PCs] /\ subject \in [Threads -> Threads \cup {0}]
  /\ setup \in [Threads -> AttrType] /\ seen \in [Threads -> Nat]
  /\ known \subseteq Threads
  /\ mapped \subseteq Threads \cup {UserStack}
  /\ over \in {"no", "exit", "abort"}

\* init_routine has created the main thread, and not counted it; the C
\* library's startup code has created its signal thread, which was.
LifecycleInit ==
  /\ BlockInit
  /\ table = {Main, SignalThread} /\ numThreads = 2 /\ maxThreads = TableSize
  /\ total = 1
  /\ state = [t \in Threads |-> IF t = SignalThread THEN "detached" ELSE "joinable"]
  /\ stack = [t \in Threads |-> t <= 2]
  /\ stackaddr = [t \in Threads |-> t]
  /\ kres = [t \in Threads |-> t <= 2]
  /\ kthread = [t \in Threads |-> IF t <= 2 THEN "running" ELSE "none"]
  /\ tcb = [t \in Threads |-> t <= 2]
  /\ pending = [t \in Threads |-> FALSE]
  /\ locked = [t \in Threads |-> 0]
  /\ pc = [t \in Threads |-> CASE t = Main -> "run" [] t = SignalThread -> "server" [] OTHER -> "none"]
  /\ subject = [t \in Threads |-> 0]
  /\ setup = [t \in Threads |-> DefaultAttr]
  /\ seen = [t \in Threads |-> 0]
  /\ known = {Main}
  /\ mapped = {UserStack, Main, SignalThread}
  /\ over = "no"

-----------------------------------------------------------------------------
At(t, l) == pc[t] = l

Goto(t, l) == pc' = [pc EXCEPT ![t] = l]

\* The call of t is about structure s from here.
Take(t, s, l) == /\ subject' = [subject EXCEPT ![t] = s]
                 /\ Goto(t, l)

\* The call of t returns.
Return(t) == Take(t, 0, "run")

Abort == /\ over' = "abort"
         /\ UNCHANGED <<blockVars, tableVars, total, structVars, callVars, known, mapped>>

\* __pthread_getid finds the structure; otherwise calls return ESRCH, and change
\* nothing.
Found(t) == t \in table

\* pthread_cond_broadcast (&t->state_cond), module Cond.
Broadcast(t) == /\ queue' = [queue EXCEPT ![t] = <<>>]
                /\ port' = [w \in Threads |-> port[w] \/ w \in Waiters(t)]

\* __pthread_thread_halt (s), called by t, which goes on at l.  It may be
\* called on a thread that has halted already; the name in an uninitialised
\* kernel_thread is another matter.
HaltThread(t, s, l) ==
  /\ kthread' = [kthread EXCEPT ![s] = "dead"]
  /\ pc' = [pc EXCEPT ![t] = l, ![s] = "none"]

BadName(s) == kthread[s] = "garbage" /\ ~NDEBUG

-----------------------------------------------------------------------------
(* __pthread_alloc.                                                        *)

\* Positions on the free list of the structures that may be reused.
Reusable == {i \in DOMAIN queue[Free] : state[queue[Free][i]] = "terminated"}

\* Mutant of AllocStart: the state of the structures on the list is not read.
AllocUnchecked(c, attr) ==
  /\ At(c, "run")
  /\ setup' = [setup EXCEPT ![c] = attr]
  /\ \/ /\ queue[Free] # <<>>
        /\ Dequeue(Head(queue[Free])) /\ Take(c, Head(queue[Free]), "recycle")
        /\ UNCHANGED <<port, seen>>
     \/ /\ queue[Free] = <<>> /\ numThreads < MaxThreads
        /\ Goto(c, "slot")
        /\ UNCHANGED <<blockVars, subject, seen>>
  /\ UNCHANGED <<tableVars, total, structVars, known, mapped, over>>

\* The free list is searched under its lock; a new structure is allocated
\* when there is none to reuse, and a failure of malloc changes nothing.
AllocStart(c, attr) ==
  /\ At(c, "run")
  /\ setup' = [setup EXCEPT ![c] = attr]
  /\ \/ /\ Reusable # {}
        /\ \E i \in Reusable : /\ \A j \in Reusable : i <= j
                               /\ Dequeue(queue[Free][i])
                               /\ Take(c, queue[Free][i], "recycle")
        /\ UNCHANGED <<port, seen>>
     \/ /\ Reusable = {} /\ numThreads < MaxThreads
        /\ Goto(c, "slot")
        /\ UNCHANGED <<blockVars, subject, seen>>
  /\ UNCHANGED <<tableVars, total, structVars, known, mapped, over>>

\* The cancellation state is reset; of a structure that is not recycled also
\* the rest, but have_kernel_resources and kernel_thread, which are left as
\* malloc returned them.  (The queue links and the locks of a recycled
\* structure are taken to be free.)
initialize_pthread(s, recycling) ==
  /\ pending' = [pending EXCEPT ![s] = FALSE]
  /\ stack' = [stack EXCEPT ![s] = recycling /\ @]
  /\ tcb' = [tcb EXCEPT ![s] = FALSE]

\* The old thread is stopped if it still runs, and its TLS dropped.
Recycle(c) ==
  LET s == subject[c] IN
  /\ At(c, "recycle")
  /\ IF BadName(s) THEN Abort
     ELSE /\ HaltThread(c, s, "stack")
          /\ initialize_pthread(s, TRUE)
          /\ UNCHANGED <<blockVars, tableVars, total, state, stackaddr, kres,
                         locked, subject, setup, seen, known, mapped, over>>

\* The next ID is given to the new structure.
NewStructure(c) ==
  LET s == numThreads + 1 IN
  /\ numThreads' = s
  /\ table' = table \ {s}
  /\ Take(c, s, "stack")
  /\ initialize_pthread(s, FALSE)
  /\ \E garbage \in IF MallocZeroes THEN {FALSE} ELSE BOOLEAN :
       /\ kres' = [kres EXCEPT ![s] = garbage]
       /\ kthread' = [kthread EXCEPT ![s] = IF garbage THEN "garbage" ELSE "none"]

\* A slot of the table is free, or it must be enlarged with the lock released.
Slot(c) ==
  /\ At(c, "slot") /\ numThreads < MaxThreads
  /\ \/ /\ numThreads < maxThreads
        /\ NewStructure(c)
        /\ UNCHANGED <<maxThreads, state, stackaddr, locked, seen>>
     \/ /\ numThreads >= maxThreads
        /\ seen' = [seen EXCEPT ![c] = maxThreads]
        /\ Goto(c, "grow")
        /\ UNCHANGED <<tableVars, structVars, subject>>
  /\ UNCHANGED <<blockVars, total, setup, known, mapped, over>>

\* Mutant of Grow: the copy of the table misses its last entry in use.
GrowShort(c) ==
  /\ At(c, "grow") /\ seen[c] = maxThreads /\ numThreads < MaxThreads
  /\ numThreads' = numThreads + 1
  /\ maxThreads' = 2 * maxThreads
  /\ table' = table \ {numThreads}
  /\ Take(c, numThreads + 1, "stack")
  /\ UNCHANGED <<blockVars, structVars, seen, total, setup, known, mapped, over>>

\* A table of twice the size was allocated meanwhile: use it, unless another
\* thread has enlarged the table, or there was no memory.
Grow(c) ==
  /\ At(c, "grow")
  /\ \/ /\ seen[c] = maxThreads /\ numThreads < MaxThreads
        /\ maxThreads' = 2 * maxThreads
        /\ NewStructure(c)
        /\ UNCHANGED <<state, stackaddr, locked, setup>>
     \/ /\ seen[c] # maxThreads
        /\ Goto(c, "slot")
        /\ UNCHANGED <<tableVars, structVars, subject, setup>>
     \/ /\ "table" \in Failures
        /\ Return(c)
        /\ setup' = [setup EXCEPT ![c] = DefaultAttr]
        /\ UNCHANGED <<tableVars, structVars>>
  /\ seen' = [seen EXCEPT ![c] = 0]
  /\ UNCHANGED <<blockVars, total, known, mapped, over>>

-----------------------------------------------------------------------------
(* The rest of __pthread_create_internal.                                  *)

\* __pthread_stack_dealloc
UnmapStack(s) == /\ mapped' = mapped \ {stackaddr[s]}
                 /\ stack' = [stack EXCEPT ![s] = FALSE]

\* __pthread_stack_alloc finds room for a stack.
StackAlloc(s) == /\ mapped' = mapped \cup {s}
                 /\ stackaddr' = [stackaddr EXCEPT ![s] = s]
                 /\ stack' = [stack EXCEPT ![s] = TRUE]

\* The state, and a stack: the one a detached thread left, unless the program
\* supplies one, or a new one.  A stack supplied for a structure without an
\* old one is ignored.
FindStack(c) ==
  LET s == subject[c] IN
  /\ At(c, "stack")
  /\ state' = [state EXCEPT ![s] = pthread_attr_getdetachstate(setup[c])]
  /\ \/ /\ stack[s] /\ pthread_attr_getstackaddr(setup[c]) # NULL
        /\ mapped' = mapped \ {stackaddr[s]}
        /\ stackaddr' = [stackaddr EXCEPT ![s] = UserStack]
        /\ Goto(c, "kernel") /\ UNCHANGED stack
     \/ /\ stack[s] /\ pthread_attr_getstackaddr(setup[c]) = NULL
        /\ Goto(c, "kernel") /\ UNCHANGED <<stack, stackaddr, mapped>>
     \/ /\ ~stack[s]
        /\ StackAlloc(s)
        /\ Goto(c, "kernel")
     \/ /\ ~stack[s] /\ "stack" \in Failures
        /\ Goto(c, "dealloc") /\ UNCHANGED <<stack, stackaddr, mapped>>
  /\ setup' = [setup EXCEPT ![c] = DefaultAttr]
  /\ UNCHANGED <<blockVars, tableVars, total, kres, kthread, tcb, pending, locked,
                 subject, seen, known, over>>

\* __pthread_thread_alloc: nothing to do for a structure that is said to have
\* its kernel resources; otherwise a port and a suspended kernel thread.
AllocThread(c) ==
  LET s == subject[c] IN
  /\ At(c, "kernel")
  /\ \/ /\ kres[s]
        /\ Goto(c, "tls") /\ UNCHANGED <<kres, kthread, stack, mapped>>
     \/ /\ ~kres[s]
        /\ kres' = [kres EXCEPT ![s] = TRUE]
        /\ kthread' = [kthread EXCEPT ![s] = "suspended"]
        /\ Goto(c, "tls") /\ UNCHANGED <<stack, mapped>>
     \/ /\ ~kres[s] /\ "kernel" \in Failures
        /\ UnmapStack(s)
        /\ Goto(c, "dealloc") /\ UNCHANGED <<kres, kthread>>
  /\ UNCHANGED <<blockVars, tableVars, total, state, stackaddr, tcb, pending, locked,
                 subject, setup, seen, known, over>>

\* The TLS block, then __pthread_setup, which sets the registers of the kernel
\* thread; that fails for a thread that is not there.
SetupThread(c) ==
  LET s == subject[c] IN
  /\ At(c, "tls")
  /\ IF kthread[s] # "suspended" /\ ~NDEBUG THEN Abort
     ELSE /\ tcb' = [tcb EXCEPT ![s] = TRUE]
          /\ Goto(c, "publish")
          /\ UNCHANGED <<blockVars, tableVars, total, state, stack, stackaddr, kres, kthread,
                         pending, locked, subject, setup, seen, known, mapped, over>>

\* There is no memory for the TLS block: everything is undone, and 0 returned.
\* pthread_create then reads an ID through a pointer that was never set.
TlsFails(c) ==
  LET s == subject[c] IN
  /\ At(c, "tls") /\ "tls" \in Failures
  /\ IF BadName(s) THEN Abort
     ELSE /\ HaltThread(c, s, "dealloc")
          /\ UnmapStack(s)
          /\ UNCHANGED <<blockVars, tableVars, total, state, stackaddr, kres, tcb,
                         pending, locked, subject, setup, seen, known, over>>

\* Mutant of Publish: the new thread is not counted.
PublishUncounted(c) ==
  /\ At(c, "publish")
  /\ table' = table \cup {subject[c]}
  /\ Goto(c, "start")
  /\ UNCHANGED <<blockVars, numThreads, maxThreads, total, structVars, subject, setup, seen,
                 known, mapped, over>>

\* The signal state and mask, private to the new thread; __atomic_inc
\* (&__pthread_total), and the store into the table, which commute with what
\* other threads do between them.
Publish(c) ==
  /\ At(c, "publish")
  /\ total' = total + 1
  /\ table' = table \cup {subject[c]}
  /\ Goto(c, "start")
  /\ UNCHANGED <<blockVars, numThreads, maxThreads, structVars, subject, setup, seen,
                 known, mapped, over>>

\* __pthread_thread_start; the program learns the ID.
StartThread(c) ==
  LET s == subject[c] IN
  /\ At(c, "start")
  /\ IF kthread[s] = "suspended"
     THEN /\ kthread' = [kthread EXCEPT ![s] = "running"]
          /\ pc' = [pc EXCEPT ![c] = "run", ![s] = "run"]
          /\ UNCHANGED over
     ELSE /\ Goto(c, "run")
          /\ over' = IF NDEBUG THEN over ELSE "abort"
          /\ UNCHANGED kthread
  /\ subject' = [subject EXCEPT ![c] = 0]
  /\ known' = IF state[s] = "joinable" THEN known \cup {s} ELSE known
  /\ UNCHANGED <<blockVars, tableVars, total, state, stack, stackaddr, kres, tcb, pending,
                 locked, setup, seen, mapped>>

Create(c) == \/ Recycle(c) \/ Slot(c) \/ Grow(c) \/ FindStack(c) \/ AllocThread(c)
             \/ SetupThread(c) \/ TlsFails(c) \/ Publish(c) \/ StartThread(c)

-----------------------------------------------------------------------------
(* __pthread_dealloc: t puts its subject on the free list.                 *)

\* The structure is withdrawn from the table.
Withdraw(t) ==
  /\ At(t, "dealloc")
  /\ IF state[subject[t]] = "terminated" /\ ~NDEBUG THEN Abort
     ELSE /\ table' = table \ {subject[t]}
          /\ Goto(t, "wake")
          /\ UNCHANGED <<blockVars, numThreads, maxThreads, total, structVars, subject, setup,
                         seen, known, mapped, over>>

\* Who waits to join a thread that did not exit is woken up.
WakeJoiners(t) ==
  LET s == subject[t] IN
  /\ At(t, "wake") /\ locked[s] = 0
  /\ IF state[s] # "exited" THEN Broadcast(s) ELSE UNCHANGED blockVars
  /\ Goto(t, "enqueue")
  /\ UNCHANGED <<tableVars, total, structVars, subject, setup, seen, known, mapped, over>>

\* __pthread_enqueue asserts that the links of the structure are not in use.
EnqueueFree(t) ==
  /\ At(t, "enqueue")
  /\ IF Linked(subject[t]) /\ ~NDEBUG THEN Abort
     ELSE /\ Enqueue(Free, subject[t])
          /\ Goto(t, "mark")
          /\ UNCHANGED <<port, tableVars, total, structVars, subject, setup, seen, known,
                         mapped, over>>

\* From here on the structure may be reused.  A thread that has deallocated
\* itself goes on to halt.
MarkTerminated(t) ==
  LET s == subject[t] IN
  /\ At(t, "mark")
  /\ state' = [state EXCEPT ![s] = "terminated"]
  /\ IF s = t THEN Goto(t, "halt") /\ UNCHANGED subject ELSE Return(t)
  /\ UNCHANGED <<blockVars, tableVars, total, stack, stackaddr, kres, kthread, tcb, pending,
                 locked, setup, seen, known, mapped, over>>

Dealloc(t) == Withdraw(t) \/ WakeJoiners(t) \/ EnqueueFree(t) \/ MarkTerminated(t)

-----------------------------------------------------------------------------
(* __pthread_exit.                                                         *)

\* pthread_exit in the program, or the return from the start routine: there are
\* no handlers of the library's own to run.
ExitCall(t) ==
  /\ At(t, "run")
  /\ Goto(t, "exit")
  /\ UNCHANGED <<blockVars, tableVars, total, structVars, subject, setup, seen, known, mapped, over>>

\* pthread_testcancel in the program, with a request pending.
TestCancel(t) == pending[t] /\ ExitCall(t)

\* The cancelation handlers: that of a cancelled join unlocks the state_lock.
Cleanup(t) ==
  /\ At(t, "cleanup")
  /\ locked' = [s \in Threads |-> IF locked[s] = t THEN 0 ELSE locked[s]]
  /\ Goto(t, "exit")
  /\ UNCHANGED <<blockVars, tableVars, total, state, stack, stackaddr, kres, kthread, tcb, pending,
                 subject, setup, seen, known, mapped, over>>

\* __atomic_dec_and_test (&__pthread_total); the last thread calls exit (0).
Uncount(t) ==
  /\ At(t, "exit")
  /\ total' = total - 1
  /\ over' = IF total = 1 THEN "exit" ELSE over
  /\ Goto(t, "exiting")
  /\ UNCHANGED <<blockVars, tableVars, structVars, subject, setup, seen, known, mapped>>

\* Mutant of LeaveState: joiners are not told.
LeaveSilently(t) ==
  /\ At(t, "exiting") /\ locked[t] = 0
  /\ \/ /\ state[t] = "detached"
        /\ Take(t, t, "dealloc")
        /\ UNCHANGED <<blockVars, state>>
     \/ /\ state[t] = "joinable"
        /\ state' = [state EXCEPT ![t] = "exited"]
        /\ Goto(t, "halt")
        /\ UNCHANGED <<subject, blockVars>>
  /\ UNCHANGED <<tableVars, total, stack, stackaddr, kres, kthread, tcb, pending, locked,
                 setup, seen, known, mapped, over>>

\* Mutant of LeaveState: the detached thread keeps its state_lock.
LeaveLocked(t) ==
  /\ At(t, "exiting") /\ locked[t] = 0
  /\ \/ /\ state[t] = "detached"
        /\ Take(t, t, "dealloc")
        /\ locked' = [locked EXCEPT ![t] = t]
        /\ UNCHANGED <<blockVars, state>>
     \/ /\ state[t] = "joinable"
        /\ state' = [state EXCEPT ![t] = "exited"]
        /\ Broadcast(t)
        /\ Goto(t, "halt") /\ UNCHANGED <<subject, locked>>
  /\ UNCHANGED <<tableVars, total, stack, stackaddr, kres, kthread, tcb, pending,
                 setup, seen, known, mapped, over>>

\* Under its state_lock the thread finds out whether it is detached.
LeaveState(t) ==
  /\ At(t, "exiting") /\ locked[t] = 0
  /\ \/ /\ state[t] = "detached"
        /\ Take(t, t, "dealloc")
        /\ UNCHANGED <<blockVars, state>>
     \/ /\ state[t] = "joinable"
        /\ state' = [state EXCEPT ![t] = "exited"]
        /\ Broadcast(t)
        /\ Goto(t, "halt") /\ UNCHANGED subject
  /\ UNCHANGED <<tableVars, total, stack, stackaddr, kres, kthread, tcb, pending, locked,
                 setup, seen, known, mapped, over>>

HaltSelf(t) ==
  /\ At(t, "halt")
  /\ HaltThread(t, t, "none")
  /\ subject' = [subject EXCEPT ![t] = 0]
  /\ UNCHANGED <<blockVars, tableVars, total, state, stack, stackaddr, kres, tcb, pending, locked,
                 setup, seen, known, mapped, over>>

Exit(t) == Cleanup(t) \/ Uncount(t) \/ LeaveState(t) \/ HaltSelf(t)

-----------------------------------------------------------------------------
(* pthread_join, pthread_detach, pthread_cancel.  A program joins or       *)
(* detaches a thread once.                                                 *)

\* The program calls pthread_join or pthread_detach.
JoinCall(c, t) ==
  /\ At(c, "run") /\ t \in known /\ Found(t)
  /\ known' = known \ {t}
  /\ \E l \in {"join", "detach"} : (l = "join" => t # c) /\ Take(c, t, l)
  /\ UNCHANGED <<blockVars, tableVars, total, structVars, setup, seen, mapped, over>>

\* A request for cancellation, pending when the wait starts or acted upon when
\* it is woken up, makes the wait exit with state_lock locked; the thread it
\* was to join can still be joined.
JoinCancelled(c) ==
  /\ locked' = [locked EXCEPT ![subject[c]] = c]
  /\ known' = known \cup {subject[c]}
  /\ Take(c, 0, "cleanup")

\* Under state_lock: wait, or go on with what the state has become.
JoinLook(c) ==
  LET t == subject[c] IN
  /\ At(c, "join") /\ locked[t] = 0
  /\ \/ /\ state[t] = "joinable" /\ ~pending[c]
        /\ Enqueue(t, c)
        /\ Goto(c, "joinwait")
        /\ UNCHANGED <<port, locked, known, subject>>
     \/ /\ state[t] = "joinable" /\ pending[c]
        /\ JoinCancelled(c)
        /\ UNCHANGED blockVars
     \/ /\ state[t] = "exited"
        /\ Goto(c, "reap")
        /\ UNCHANGED <<blockVars, locked, known, subject>>
  /\ UNCHANGED <<tableVars, total, state, stack, stackaddr, kres, kthread, tcb, pending,
                 setup, seen, mapped, over>>

\* The wait is over, state_lock locked again.
JoinWoken(c) ==
  /\ At(c, "joinwait") /\ locked[subject[c]] = 0
  /\ Block(c)
  /\ \/ pending[c] /\ JoinCancelled(c)
     \/ ~pending[c] /\ Goto(c, "join") /\ UNCHANGED <<locked, known, subject>>
  /\ UNCHANGED <<queue, tableVars, total, state, stack, stackaddr, kres, kthread, tcb, pending,
                 setup, seen, mapped, over>>

\* Mutant of Reap: the exited thread is not halted first.
ReapRunning(c) ==
  LET t == subject[c] IN
  /\ At(c, "reap")
  /\ UnmapStack(t)
  /\ Goto(c, "dealloc")
  /\ UNCHANGED <<blockVars, tableVars, total, state, stackaddr, kres, kthread, tcb, pending, locked,
                 subject, setup, seen, known, over>>

\* Join and detach of an exited thread: make sure it is not running, then
\* destroy its stack and its port.  have_kernel_resources stays set.
Reap(c) ==
  LET t == subject[c] IN
  /\ At(c, "reap")
  /\ IF ~stack[t] /\ ~NDEBUG THEN Abort
     ELSE /\ HaltThread(c, t, "dealloc")
          /\ UnmapStack(t)
          /\ UNCHANGED <<blockVars, tableVars, total, state, stackaddr, kres, tcb, pending, locked,
                         subject, setup, seen, known, over>>

\* pthread_detach under state_lock.
DetachLook(c) ==
  LET t == subject[c] IN
  /\ At(c, "detach") /\ locked[t] = 0
  /\ \/ /\ state[t] = "joinable"
        /\ state' = [state EXCEPT ![t] = "detached"]
        /\ Broadcast(t)
        /\ Return(c)
     \/ /\ state[t] = "exited"
        /\ Goto(c, "reap")
        /\ UNCHANGED <<blockVars, state, subject>>
  /\ UNCHANGED <<tableVars, total, stack, stackaddr, kres, kthread, tcb, pending, locked,
                 setup, seen, known, mapped, over>>

Join(c) == JoinLook(c) \/ JoinWoken(c) \/ Reap(c) \/ DetachLook(c)

\* The program has the ID of t: it may join it, or t has started and told it.
HasID(t) == t \in known \/ (kthread[t] = "running" /\ t # SignalThread)

\* pthread_cancel, also of a thread that is detached or being joined: the hook
\* of the wait (module Cond) wakes up a joiner.
Cancel(c, t) ==
  /\ At(c, "run") /\ HasID(t) /\ Found(t) /\ ~pending[t]
  /\ Cardinality({u \in Threads : pending[u]}) < MaxPending
  /\ pending' = [pending EXCEPT ![t] = TRUE]
  /\ Dequeue(t)
  /\ port' = [port EXCEPT ![t] = @ \/ Linked(t)]
  /\ UNCHANGED <<tableVars, total, state, stack, stackaddr, kres, kthread, tcb, locked,
                 callVars, known, mapped, over>>

-----------------------------------------------------------------------------
\* A call that is under way goes on.
Continue(t) == over = "no" /\ (Create(t) \/ Dealloc(t) \/ Exit(t) \/ Join(t))

LifecycleNext ==
  \E t \in Threads :
    \/ Continue(t)
    \/ over = "no" /\ \/ \E attr \in CallerAttrs : AllocStart(t, attr)
                      \/ ExitCall(t)
                      \/ TestCancel(t)
                      \/ \E u \in Threads : JoinCall(t, u)
                      \/ \E u \in Threads : Cancel(t, u)

\* Runnable threads are scheduled; nothing makes a program call anything.
LifecycleSpec == LifecycleInit /\ [][LifecycleNext]_vars
                 /\ \A t \in Threads : WF_vars(Continue(t))

-----------------------------------------------------------------------------
\* Structure s is being created, and not handed over to its thread yet.
BeingCreated(s) == \E c \in Threads : subject[c] = s /\ pc[c] \in CreatePCs \ {"slot", "grow"}

\* Two threads never create in the same structure, nor does one create in a
\* structure that another still gives back: a late "terminated" of the thread
\* that had it before would make it reusable a second time.
CreationIsPrivate ==
  \A c, d \in Threads :
    subject[c] = subject[d] /\ pc[c] \in CreatePCs \ {"slot", "grow"} /\ c # d
      => pc[d] \notin DeallocPCs \cup (CreatePCs \ {"slot", "grow"})

\* A structure is on the free list once, is found by nobody there, and when it
\* says that it may be reused, nobody uses it but a thread about to halt
\* (pt-alloc.c, "There is no need to take NEW->STATE_LOCK"); and one that was
\* taken off the list is its creator's alone.
FreeListSound ==
  /\ NoDuplicates(queue[Free])
  /\ \A s \in Waiters(Free) :
       /\ s \notin table /\ ~BeingCreated(s)
       /\ state[s] = "terminated" => /\ pc[s] \in {"none", "halt"}
                                     /\ \A c \in Threads \ {s} : subject[c] = s => pc[c] \notin DeallocPCs
  /\ CreationIsPrivate

\* No thread runs on a stack that has been unmapped: a joiner halts the thread
\* before it frees its stack, and a detached thread leaves its stack behind.
StackAlive == \A t \in Threads : kthread[t] = "running" => stackaddr[t] \in mapped

\* The table always has the threads a program may still join or detach, also
\* while it is enlarged and other entries are withdrawn.
FoundByID == known \subseteq table

\* exit (0) is called by the last thread: no other thread is left that has not
\* passed its own decrement, started or about to be.
LastThreadExits ==
  over = "exit" => \A t \in Threads \ {SignalThread} :
                     kthread[t] = "running" => \/ pc[t] \in {"exiting", "halt"}
                                               \/ pc[t] \in DeallocPCs /\ subject[t] = t

Stopped == over # "no"

\* A thread that has begun to exit is halted in the end, whoever joins,
\* detaches or cancels meanwhile.
ExitCompletes == \A t \in Threads \ {SignalThread} : pc[t] \in {"cleanup", "exit"} ~> At(t, "none") \/ Stopped

\* A join returns once the thread it waits for has exited or was cancelled.
JoinReturns ==
  \A c \in Threads \ {SignalThread} :
    At(c, "joinwait") /\ state[subject[c]] # "joinable" ~> ~At(c, "joinwait") \/ Stopped
=============================================================================
