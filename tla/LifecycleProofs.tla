-------------------------- MODULE LifecycleProofs --------------------------
(***************************************************************************)
(* Theorems about the life of threads (module Lifecycle) and about the     *)
(* attributes they are created with (module Attr), for any number of       *)
(* threads, with and without NDEBUG, and whatever malloc returns.          *)
(***************************************************************************)
EXTENDS Lifecycle, PtInternalProofs, FiniteSetTheorems

-----------------------------------------------------------------------------
(* The invariant of the life cycle.                                        *)

\* Where a call of c has the structure subject[c] in hand: it creates a thread
\* in it, gives it back, reaps it, or looks at it to join or detach its thread.
LookPCs == {"join", "joinwait", "detach"}
UsePCs == (CreatePCs \ {"slot", "grow"}) \cup DeallocPCs \cup LookPCs \cup {"reap"}

Uses(c, s) == subject[c] = s /\ pc[c] \in UsePCs

\* The kernel thread of s does not run, and cannot be started.
Halted(s) == kthread[s] \notin {"suspended", "running"}

\* t runs, and does not give back its own structure nor halt.
Active(t) == pc[t] \notin {"none", "halt"} /\ ~(pc[t] \in DeallocPCs /\ subject[t] = t)

\* What c can rely on when it has the structure s in hand: who else can find s;
\* what its state says; what its old thread can still do.
TableFacts(c, s) ==
  /\ s <= numThreads /\ s \notin known
  /\ pc[c] \in {"recycle", "stack", "kernel", "tls", "publish", "wake", "enqueue", "mark"} => s \notin table
  /\ pc[c] \in {"start", "reap"} \cup LookPCs => s \in table
  /\ s \in Waiters(Free) <=> pc[c] = "mark"

StateFacts(c, s) ==
  /\ pc[c] = "recycle" => state[s] = "terminated"
  /\ pc[c] \in {"kernel", "tls", "publish", "start"} => state[s] \in {"joinable", "detached"}
  /\ pc[c] \in DeallocPCs => state[s] # "terminated"
  /\ pc[c] \in DeallocPCs /\ c = s => state[s] = "detached"
  /\ pc[c] = "dealloc" /\ c # s /\ s \in table => state[s] = "exited"
  /\ pc[c] = "reap" => state[s] = "exited"
  /\ pc[c] \in LookPCs => state[s] \in {"joinable", "exited"}

ThreadFacts(c, s) ==
  /\ pc[c] \in {"recycle", "reap"} => pc[s] \in {"none", "halt"}
  /\ pc[c] \in {"stack", "kernel", "tls", "publish", "start"} => pc[s] = "none"
  /\ pc[c] \in {"stack", "kernel"} => Halted(s)
  /\ pc[c] = "kernel" /\ ~kres[s] => stackaddr[s] = s /\ s \in mapped
  /\ pc[c] \in DeallocPCs /\ c # s => pc[s] = "none" /\ Halted(s)

UseFacts(c, s) == TableFacts(c, s) /\ StateFacts(c, s) /\ ThreadFacts(c, s)

\* A structure is in the hands of one call at a time.
UseInv ==
  /\ \A c \in Threads : pc[c] \in UsePCs => subject[c] \in Threads
  /\ \A c, s \in Threads : Uses(c, s) => UseFacts(c, s)
  /\ \A c, d, s \in Threads : Uses(c, s) /\ Uses(d, s) => c = d

\* What the place of t says of its own structure.
RunFacts(t) ==
  /\ t \in table \/ pc[t] # "none" => t <= numThreads
  /\ pc[t] = "none" => kthread[t] # "running"
  /\ pc[t] = "halt" => state[t] \in {"exited", "terminated"}
  /\ Active(t) => t \in table /\ state[t] \in {"joinable", "detached"}
  /\ t \in known => t \in table /\ state[t] \in {"joinable", "exited"}

\* A thread runs on its own stack.  A structure without kernel resources has no
\* stack yet, except between the two allocations.
StackFacts(t) ==
  /\ stackaddr[t] \in {t, UserStack}
  /\ ~Halted(t) => stackaddr[t] = t /\ t \in mapped
  /\ stack[t] /\ ~kres[t] => \E c \in Threads : pc[c] = "kernel" /\ subject[c] = t

\* What is on the free list can be reused, or is about to be marked so.
FreeFacts(s) ==
  /\ s <= numThreads /\ s \notin table
  /\ \/ state[s] = "terminated" /\ pc[s] \in {"none", "halt"}
     \/ \E c \in Threads : pc[c] = "mark" /\ subject[c] = s

LinksInv ==
  /\ \A q \in Queues : NoDuplicates(queue[q])
  /\ \A q \in Threads : \A t \in Waiters(q) : pc[t] = "joinwait" /\ subject[t] = q
  /\ \A s \in Waiters(Free) : FreeFacts(s)
  /\ \A t \in Threads : port[t] => pc[t] = "joinwait" /\ ~Linked(t)

\* The threads whose decrement of __pthread_total is still to come: those that
\* run, and those that are started next or, with NDEBUG, could not be.
Counted == {t \in Threads : \/ Active(t) /\ pc[t] # "exiting"
                            \/ pc[t] = "none" /\ t \in table /\ state[t] \in {"joinable", "detached"}}

\* The main thread is not counted in __pthread_total.
CountInv == /\ pc[SignalThread] = "server"
            /\ total + 1 = Cardinality(Counted)
            /\ over = "exit" => Counted = {SignalThread}

LifeInv == /\ LifecycleTypeOK
           /\ UseInv
           /\ \A t \in Threads : RunFacts(t) /\ StackFacts(t)
           /\ LinksInv
           /\ CountInv

-----------------------------------------------------------------------------
(* What a step of t that touches the structure x leaves alone.             *)

\* The structure s is as it was.
Untouched(s) ==
  /\ s \in table' <=> s \in table
  /\ s \in known' <=> s \in known
  /\ s \in mapped' <=> s \in mapped
  /\ s \in Waiters(Free)' <=> s \in Waiters(Free)
  /\ state'[s] = state[s] /\ kthread'[s] = kthread[s] /\ kres'[s] = kres[s]
  /\ stack'[s] = stack[s] /\ stackaddr'[s] = stackaddr[s]

\* Other threads stay where they are, but x may be halted or started.
Touches(t, x) ==
  /\ pc[t] # "none" /\ (pc[t] = "halt" => x = t) /\ (pc[t] \in UsePCs => x = subject[t])
  /\ \A c \in Threads \ {t} :
       \/ pc'[c] = pc[c] /\ subject'[c] = subject[c]
       \/ c = x /\ pc[c] \in {"none", "halt"} /\ pc'[c] \in {"none", "run"}
  /\ \A s \in Threads \ {x} : Untouched(s)
  /\ numThreads \in Nat /\ numThreads' \in Nat /\ numThreads <= numThreads'

\* The names of threads and queues.
LEMMA Names ==
  /\ Free \in Queues /\ Free \notin Threads /\ Threads \subseteq Queues
  /\ \A q \in Queues : q = Free \/ q \in Threads
  /\ Threads \subseteq Nat /\ Main \in Threads /\ SignalThread \in Threads /\ Main # SignalThread
  /\ UserStack \notin Threads /\ IsFiniteSet(Threads)
<1>1. IsFiniteSet(1..MaxThreads)
  BY FS_Interval, LifecycleAssumption
<1> QED
  BY <1>1, LifecycleAssumption DEF Free, Main, SignalThread, UserStack

\* The structures in the hands of others are as they were.
LEMMA UseKept ==
  ASSUME LifeInv, NEW t \in Threads, NEW x \in Threads, Touches(t, x),
         pc'[t] \in UsePCs => subject'[t] \in Threads,
         \A s \in Threads : Uses(t, s)' => /\ UseFacts(t, s)'
                                           /\ Uses(t, s) \/ \A d \in Threads : ~Uses(d, s),
         \A c \in Threads \ {t} : Uses(c, x) /\ Uses(c, x)' => UseFacts(c, x)'
  PROVE  UseInv'
<1>1. ASSUME NEW c \in Threads \ {t}, pc'[c] \in UsePCs
      PROVE  pc'[c] = pc[c] /\ subject'[c] = subject[c]
  BY <1>1 DEF Touches, UsePCs, CreatePCs, DeallocPCs, LookPCs
<1>2. ASSUME NEW c \in Threads \ {t}, NEW s \in Threads, Uses(c, s)' PROVE Uses(c, s)
  BY <1>1, <1>2 DEF Uses
<1>3. ASSUME NEW c \in Threads \ {t}, NEW s \in Threads \ {x}, Uses(c, s)' PROVE UseFacts(c, s)'
  <2>1. /\ pc'[c] = pc[c] /\ UseFacts(c, s) /\ Untouched(s) /\ pc[c] \in UsePCs
    BY <1>1, <1>2, <1>3 DEF Uses, LifeInv, UseInv, Touches
  <2>2. TableFacts(c, s)'
    BY <2>1 DEF UseFacts, TableFacts, Untouched, Touches, LifeInv, LifecycleTypeOK
  <2>3. StateFacts(c, s)'
    BY <2>1 DEF UseFacts, StateFacts, Untouched
  <2>4. pc[c] \in UsePCs \ LookPCs => pc'[s] = pc[s]
    <3>1. CASE s # t
      BY <3>1, <2>1 DEF Touches
    <3>2. CASE s = t
      BY <2>1, <3>2 DEF Touches, UseFacts, ThreadFacts, UsePCs, CreatePCs, LookPCs
    <3> QED
      BY <3>1, <3>2
  <2>5. ThreadFacts(c, s)'
    BY <2>1, <2>4 DEF UseFacts, ThreadFacts, Untouched, Halted, UsePCs, CreatePCs, DeallocPCs, LookPCs
  <2> QED
    BY <2>2, <2>3, <2>5 DEF UseFacts
<1>4. ASSUME NEW c \in Threads, NEW s \in Threads, Uses(c, s)' PROVE UseFacts(c, s)'
  BY <1>2, <1>3, <1>4
<1>5. ASSUME NEW c \in Threads, NEW d \in Threads, NEW s \in Threads, Uses(c, s)', Uses(d, s)'
      PROVE  c = d
  BY <1>2, <1>5 DEF LifeInv, UseInv
<1>6. \A c \in Threads : pc'[c] \in UsePCs => subject'[c] \in Threads
  BY <1>1 DEF LifeInv, UseInv
<1> QED
  BY <1>4, <1>5, <1>6 DEF UseInv

\* So are the threads that neither act nor are touched.
LEMMA RunKept ==
  ASSUME LifeInv, NEW t \in Threads, NEW x \in Threads, Touches(t, x), RunFacts(t)', RunFacts(x)'
  PROVE  \A u \in Threads : RunFacts(u)'
<1>1. ASSUME NEW u \in Threads, u # t, u # x PROVE RunFacts(u)'
  <2>1. RunFacts(u) /\ Untouched(u) /\ pc'[u] = pc[u] /\ subject'[u] = subject[u]
    BY <1>1 DEF LifeInv, Touches
  <2> QED
    BY <2>1, Names DEF RunFacts, Untouched, Active, Touches, LifeInv, LifecycleTypeOK
<1> QED
  BY <1>1

\* And the other stacks.
LEMMA StackKept ==
  ASSUME LifeInv, NEW t \in Threads, NEW x \in Threads, Touches(t, x), StackFacts(x)'
  PROVE  \A u \in Threads : StackFacts(u)'
<1>1. ASSUME NEW u \in Threads, u # x PROVE StackFacts(u)'
  <2>1. StackFacts(u) /\ Untouched(u)
    BY <1>1 DEF LifeInv, Touches
  <2>2. ASSUME NEW c \in Threads, pc[c] = "kernel", subject[c] = u
        PROVE  pc'[c] = "kernel" /\ subject'[c] = u
    BY <1>1, <2>2 DEF Touches, UsePCs, CreatePCs
  <2> QED
    BY <2>1, <2>2 DEF StackFacts, Untouched, Halted
<1> QED
  BY <1>1

\* And the other links.
LEMMA LinksKept ==
  ASSUME LifeInv, NEW t \in Threads, NEW x \in Threads, Touches(t, x),
         \A q \in Queues : NoDuplicates(queue'[q]),
         \A q \in Threads : \A u \in Waiters(q)' :
           IF u = t THEN pc'[t] = "joinwait" /\ subject'[t] = q ELSE u \in Waiters(q),
         x \in Waiters(Free)' => FreeFacts(x)',
         \A u \in Threads : port'[u] => u # t /\ pc[u] = "joinwait" /\ ~Linked(u)',
         BlockTypeOK'
  PROVE  LinksInv'
<1>0. \A q \in Queues : Waiters(q)' \subseteq Threads
  BY DEF BlockTypeOK, Waiters, ToSet
<1>1. ASSUME NEW q \in Threads, NEW u \in Waiters(q)' PROVE pc'[u] = "joinwait" /\ subject'[u] = q
  <2>1. u \in Threads
    BY <1>0, Names
  <2>2. CASE u # t
    BY <2>1, <2>2 DEF LifeInv, LinksInv, Touches
  <2> QED
    BY <2>2
<1>2. ASSUME NEW s \in Waiters(Free)', s # x PROVE FreeFacts(s)'
  <2>1. s \in Threads /\ Untouched(s)
    BY <1>0, <1>2, Names DEF Touches
  <2>2. s \in Waiters(Free) /\ FreeFacts(s)
    BY <2>1 DEF Untouched, LifeInv, LinksInv
  <2>3. ASSUME NEW c \in Threads, pc[c] = "mark", subject[c] = s
        PROVE  pc'[c] = "mark" /\ subject'[c] = s
    BY <1>2, <2>3 DEF Touches, UsePCs, DeallocPCs
  <2>4. CASE state[s] = "terminated" /\ pc[s] \in {"none", "halt"}
    <3>1. s # t
      BY <1>2, <2>4 DEF Touches
    <3> QED
      BY <1>2, <2>1, <2>2, <2>4, <3>1, Names DEF FreeFacts, Untouched, Touches
  <2>5. CASE \E c \in Threads : pc[c] = "mark" /\ subject[c] = s
    BY <2>1, <2>2, <2>3, <2>5, Names DEF FreeFacts, Untouched, Touches
  <2> QED
    BY <2>2, <2>4, <2>5 DEF FreeFacts
<1>3. ASSUME NEW u \in Threads, port'[u] PROVE pc'[u] = "joinwait" /\ ~Linked(u)'
  BY <1>3 DEF Touches
<1> QED
  BY <1>1, <1>2, <1>3 DEF LinksInv

\* No thread is counted that was not, nor forgotten.
LEMMA CountKept ==
  ASSUME LifeInv, NEW t \in Threads, NEW x \in Threads, Touches(t, x),
         t \in Counted' <=> t \in Counted,
         x \in Counted' <=> x \in Counted,
         pc[t] # "server", total' = total, over' # "exit"
  PROVE  CountInv'
<1>1. ASSUME NEW u \in Threads, u # t, u # x PROVE u \in Counted' <=> u \in Counted
  BY <1>1 DEF Counted, Active, Touches, Untouched
<1>2. Counted' = Counted
  <2>1. \A u : u \in Counted => u \in Threads
    BY DEF Counted
  <2>2. \A u : u \in Counted' => u \in Threads
    BY DEF Counted
  <2> QED
    BY <1>1, <2>1, <2>2
<1>3. pc'[SignalThread] = "server"
  BY Names DEF LifeInv, CountInv, Touches
<1> QED
  BY <1>2, <1>3 DEF LifeInv, CountInv

-----------------------------------------------------------------------------
(* Facts that many steps use.                                              *)

\* The structure that t has in hand, in nobody else's.
LEMMA InHand ==
  ASSUME LifeInv, NEW t \in Threads, pc[t] \in UsePCs
  PROVE  /\ subject[t] \in Threads /\ Uses(t, subject[t]) /\ UseFacts(t, subject[t])
         /\ RunFacts(subject[t]) /\ StackFacts(subject[t]) /\ RunFacts(t)
         /\ \A c \in Threads \ {t} : ~Uses(c, subject[t])
         /\ stack[subject[t]] /\ ~kres[subject[t]] => pc[t] = "kernel"
<1>1. /\ subject[t] \in Threads /\ Uses(t, subject[t]) /\ UseFacts(t, subject[t])
      /\ RunFacts(subject[t]) /\ StackFacts(subject[t]) /\ RunFacts(t)
      /\ \A c \in Threads \ {t} : ~Uses(c, subject[t])
  BY DEF LifeInv, UseInv, Uses
<1>2. "kernel" \in UsePCs
  BY DEF UsePCs, CreatePCs
<1> QED
  BY <1>1, <1>2 DEF StackFacts, Uses

\* Steps of the call that has x in hand, and may let it go.
LEMMA UseMine ==
  ASSUME LifeInv, NEW t \in Threads, NEW x \in Threads, Touches(t, x), Uses(t, x),
         pc'[t] \in UsePCs => subject'[t] = x /\ UseFacts(t, x)'
  PROVE  UseInv'
<1>1. \A c \in Threads \ {t} : ~Uses(c, x)
  BY InHand DEF Uses
<1>2. \A s \in Threads : Uses(t, s)' => s = x
  BY DEF Uses
<1> QED
  BY <1>1, <1>2, UseKept DEF Uses

\* Steps of a call that leaves the links and the messages alone.
LEMMA LinksStay ==
  ASSUME LifeInv, NEW t \in Threads, NEW x \in Threads, Touches(t, x), UNCHANGED blockVars,
         pc[t] # "joinwait", x \in Waiters(Free) => FreeFacts(x)'
  PROVE  LinksInv'
<1>1. /\ UNCHANGED <<queue, port>> /\ BlockTypeOK /\ BlockTypeOK'
      /\ \A q \in Queues : Waiters(q)' = Waiters(q)
      /\ \A u \in Threads : Linked(u)' <=> Linked(u)
  BY SameWaiters DEF blockVars, LifeInv, LifecycleTypeOK, BlockTypeOK
<1>2. \A q \in Threads : \A u \in Waiters(q) : u # t
  BY DEF LifeInv, LinksInv
<1>3. \A u \in Threads : port[u] => u # t /\ pc[u] = "joinwait" /\ ~Linked(u)
  BY DEF LifeInv, LinksInv
<1> QED
  BY <1>1, <1>2, <1>3, LinksKept, Names DEF LifeInv, LinksInv

\* The library aborts: nothing else happens.
LEMMA AbortKeeps ==
  ASSUME LifeInv, Abort
  PROVE  LifeInv'
<1>1. /\ UNCHANGED <<queue, port, table, numThreads, maxThreads, total, state, stack, stackaddr, kres,
                     kthread, tcb, pending, locked, pc, subject, setup, seen, known, mapped>>
      /\ over' = "abort"
  BY DEF Abort, blockVars, tableVars, structVars, callVars
<1>2. LifecycleTypeOK'
  BY <1>1 DEF LifeInv, LifecycleTypeOK, BlockTypeOK
<1>3. /\ \A q \in Queues : Waiters(q)' = Waiters(q)
      /\ \A u \in Threads : Linked(u)' <=> Linked(u)
  BY <1>1, SameWaiters
<1>4. UseInv'
  BY <1>1, <1>3, Names DEF LifeInv, UseInv, Uses, UseFacts, TableFacts, StateFacts, ThreadFacts, Halted
<1>5. \A t \in Threads : RunFacts(t)' /\ StackFacts(t)'
  BY <1>1 DEF LifeInv, RunFacts, StackFacts, Active, Halted
<1>6. LinksInv'
  BY <1>1, <1>3, Names DEF LifeInv, LinksInv, FreeFacts
<1>7. Counted' = Counted
  BY <1>1 DEF Counted, Active
<1>8. CountInv'
  BY <1>1, <1>7 DEF LifeInv, CountInv
<1> QED
  BY <1>2, <1>4, <1>5, <1>6, <1>8 DEF LifeInv

\* What is to be shown of a step of the call that has x in hand and leaves the
\* queues alone.
LEMMA HandStep ==
  ASSUME LifeInv, NEW t \in Threads, NEW x \in Threads, Touches(t, x), Uses(t, x),
         LifecycleTypeOK', UNCHANGED blockVars, pc[t] # "joinwait",
         pc'[t] \in UsePCs => subject'[t] = x /\ UseFacts(t, x)',
         RunFacts(t)', RunFacts(x)', StackFacts(x)', x \in Waiters(Free) => FreeFacts(x)', CountInv'
  PROVE  LifeInv'
<1>1. UseInv'
  BY UseMine
<1>2. \A u \in Threads : RunFacts(u)' /\ StackFacts(u)'
  BY RunKept, StackKept
<1>3. LinksInv'
  BY LinksStay
<1> QED
  BY <1>1, <1>2, <1>3 DEF LifeInv

-----------------------------------------------------------------------------
(* Creation.                                                               *)

\* The old thread is stopped.
LEMMA RecycleStep ==
  ASSUME LifeInv, NEW t \in Threads, over = "no", Recycle(t)
  PROVE  LifeInv'
<1>0. pc[t] = "recycle" /\ pc[t] \in UsePCs
  BY DEF Recycle, At, UsePCs, CreatePCs
<1>x. PICK x \in Threads : x = subject[t]
  BY <1>0, InHand
<1>1. /\ UseFacts(t, x) /\ RunFacts(x) /\ StackFacts(x) /\ RunFacts(t) /\ Uses(t, x)
      /\ x # t /\ pc[x] \in {"none", "halt"} /\ state[x] = "terminated" /\ x \notin table
      /\ x \notin Waiters(Free) /\ (stack[x] => kres[x])
  BY <1>0, <1>x, InHand DEF UseFacts, ThreadFacts, StateFacts, TableFacts
<1>2. CASE Abort
  BY <1>2, AbortKeeps
<1>3. CASE ~Abort
  <2>1. /\ kthread' = [kthread EXCEPT ![x] = "dead"]
        /\ pc' = [pc EXCEPT ![t] = "stack", ![x] = "none"]
        /\ pending' = [pending EXCEPT ![x] = FALSE]
        /\ stack' = [stack EXCEPT ![x] = TRUE /\ @]
        /\ tcb' = [tcb EXCEPT ![x] = FALSE]
        /\ UNCHANGED <<blockVars, queue, port, table, numThreads, maxThreads, total, state, stackaddr, kres,
                       locked, subject, setup, seen, known, mapped, over>>
    BY <1>3, <1>x DEF Recycle, HaltThread, initialize_pthread, tableVars, blockVars
  <2>2. LifecycleTypeOK'
    BY <2>1 DEF LifeInv, LifecycleTypeOK, BlockTypeOK, PCs, CreatePCs
  <2>3. /\ pc'[t] = "stack" /\ pc'[x] = "none" /\ kthread'[x] = "dead" /\ stack'[x] = stack[x]
        /\ \A u \in Threads : u # t /\ u # x => pc'[u] = pc[u]
        /\ \A u \in Threads : u # x => kthread'[u] = kthread[u] /\ stack'[u] = stack[u]
        /\ Waiters(Free)' = Waiters(Free)
    BY <1>1, <2>1, SameWaiters, Names DEF LifeInv, LifecycleTypeOK
  <2>4. Touches(t, x)
    BY <1>0, <1>x, <1>1, <2>1, <2>3, Names DEF Touches, Untouched, LifeInv, LifecycleTypeOK
  <2>5. UseFacts(t, x)'
    BY <1>0, <1>1, <2>1, <2>3 DEF UseFacts, TableFacts, StateFacts, ThreadFacts, Halted, DeallocPCs, LookPCs
  <2>6. RunFacts(t)' /\ RunFacts(x)' /\ StackFacts(x)'
    BY <1>0, <1>1, <2>1, <2>3 DEF RunFacts, StackFacts, Halted, Active, DeallocPCs
  <2>7. CountInv'
    BY <1>0, <1>1, <2>1, <2>3, <2>4, CountKept DEF Counted, Active, DeallocPCs
  <2> QED
    BY <1>0, <1>x, <1>1, <2>1, <2>2, <2>4, <2>5, <2>6, <2>7, HandStep
<1> QED
  BY <1>2, <1>3

\* Attributes say whether the thread is detached.
LEMMA AttrStates ==
  /\ DefaultAttr \in AttrType
  /\ \A a \in AttrType : pthread_attr_getdetachstate(a) \in {"joinable", "detached"}
  BY AttrAssumption DEF DefaultAttr, AttrType, NULL, pthread_attr_getdetachstate

\* A stack is found, kept or refused.
LEMMA FindStackStep ==
  ASSUME LifeInv, NEW t \in Threads, over = "no", FindStack(t)
  PROVE  LifeInv'
<1>0. pc[t] = "stack" /\ pc[t] \in UsePCs
  BY DEF FindStack, At, UsePCs, CreatePCs
<1>x. PICK x \in Threads : x = subject[t]
  BY <1>0, InHand
<1>1. /\ UseFacts(t, x) /\ RunFacts(x) /\ StackFacts(x) /\ RunFacts(t) /\ Uses(t, x)
      /\ x # t /\ pc[x] = "none" /\ Halted(x) /\ x \notin table
      /\ x \notin Waiters(Free) /\ (stack[x] => kres[x])
  BY <1>0, <1>x, InHand DEF UseFacts, ThreadFacts, StateFacts, TableFacts
<1>2. PICK l \in {"kernel", "dealloc"} : pc' = [pc EXCEPT ![t] = l]
  BY DEF FindStack, Goto
<1>3. PICK d \in {"joinable", "detached"} : state' = [state EXCEPT ![x] = d]
  BY <1>x, AttrStates DEF FindStack, LifeInv, LifecycleTypeOK
<1>4. /\ setup' = [setup EXCEPT ![t] = DefaultAttr]
      /\ UNCHANGED <<blockVars, queue, port, table, numThreads, maxThreads, total, kthread, tcb, pending,
                     kres, locked, subject, seen, known, over>>
  BY DEF FindStack, tableVars, blockVars
<1>5. \/ /\ stack[x] /\ mapped' = mapped \ {stackaddr[x]}
         /\ stackaddr' = [stackaddr EXCEPT ![x] = UserStack] /\ UNCHANGED stack /\ l = "kernel"
      \/ stack[x] /\ UNCHANGED <<stack, stackaddr, mapped>> /\ l = "kernel"
      \/ /\ mapped' = mapped \cup {x} /\ stackaddr' = [stackaddr EXCEPT ![x] = x]
         /\ stack' = [stack EXCEPT ![x] = TRUE] /\ l = "kernel"
      \/ ~stack[x] /\ UNCHANGED <<stack, stackaddr, mapped>> /\ l = "dealloc"
  BY <1>0, <1>x, <1>2 DEF FindStack, StackAlloc, Goto, LifeInv, LifecycleTypeOK
<1>6. LifecycleTypeOK'
  <2>0. /\ stack \in [Threads -> BOOLEAN] /\ stackaddr \in [Threads -> Threads \cup {UserStack}]
        /\ mapped \subseteq Threads \cup {UserStack}
    BY DEF LifeInv, LifecycleTypeOK
  <2>a. stack' \in [Threads -> BOOLEAN]
    BY <1>5, <2>0
  <2>b. stackaddr' \in [Threads -> Threads \cup {UserStack}]
    BY <1>5, <2>0
  <2>c. mapped' \subseteq Threads \cup {UserStack}
    BY <1>5, <2>0
  <2>1. stack' \in [Threads -> BOOLEAN] /\ stackaddr' \in [Threads -> Threads \cup {UserStack}]
        /\ mapped' \subseteq Threads \cup {UserStack}
    BY <2>a, <2>b, <2>c
  <2> QED
    BY <1>2, <1>3, <1>4, <2>1, AttrStates DEF LifeInv, LifecycleTypeOK, BlockTypeOK, PCs, CreatePCs, DeallocPCs
<1>7. /\ pc'[t] = l /\ state'[x] = d
      /\ \A u \in Threads : u # t => pc'[u] = pc[u]
      /\ \A u \in Threads : u # x => state'[u] = state[u]
      /\ Waiters(Free)' = Waiters(Free)
  BY <1>2, <1>3, <1>4, SameWaiters, Names DEF LifeInv, LifecycleTypeOK
<1>8. /\ \A u \in Threads : u # x => stack'[u] = stack[u] /\ stackaddr'[u] = stackaddr[u]
      /\ \A u \in Threads : u # x => (u \in mapped' <=> u \in mapped)
      /\ stackaddr'[x] \in {x, UserStack}
      /\ l = "kernel" /\ ~kres[x] => stackaddr'[x] = x /\ x \in mapped'
      /\ stack'[x] /\ ~kres[x] => l = "kernel"
  BY <1>1, <1>5, Names DEF StackFacts, LifeInv, LifecycleTypeOK
<1>9. Touches(t, x)
  BY <1>0, <1>x, <1>1, <1>4, <1>7, <1>8, Names DEF Touches, Untouched, LifeInv, LifecycleTypeOK
<1>10. UseFacts(t, x)'
  BY <1>0, <1>1, <1>4, <1>7, <1>8 DEF UseFacts, TableFacts, StateFacts, ThreadFacts, Halted, DeallocPCs, LookPCs
<1>11. RunFacts(t)' /\ RunFacts(x)'
  BY <1>0, <1>x, <1>1, <1>4, <1>7 DEF RunFacts, Active, DeallocPCs
<1>12. StackFacts(x)'
  BY <1>x, <1>1, <1>4, <1>7, <1>8 DEF StackFacts, Halted
<1>13. CountInv'
  BY <1>0, <1>x, <1>1, <1>4, <1>7, <1>9, CountKept DEF Counted, Active, DeallocPCs
<1> QED
  BY <1>0, <1>x, <1>1, <1>4, <1>6, <1>9, <1>10, <1>11, <1>12, <1>13, HandStep

\* The kernel thread is made, or was; or the stack is given back.
LEMMA AllocThreadStep ==
  ASSUME LifeInv, NEW t \in Threads, over = "no", AllocThread(t)
  PROVE  LifeInv'
<1>0. pc[t] = "kernel" /\ pc[t] \in UsePCs
  BY DEF AllocThread, At, UsePCs, CreatePCs
<1>x. PICK x \in Threads : x = subject[t]
  BY <1>0, InHand
<1>1. /\ UseFacts(t, x) /\ RunFacts(x) /\ StackFacts(x) /\ RunFacts(t) /\ Uses(t, x)
      /\ x # t /\ pc[x] = "none" /\ Halted(x) /\ x \notin table /\ x \notin Waiters(Free)
      /\ state[x] \in {"joinable", "detached"}
      /\ ~kres[x] => stackaddr[x] = x /\ x \in mapped
  BY <1>0, <1>x, InHand DEF UseFacts, ThreadFacts, StateFacts, TableFacts
<1>2. PICK l \in {"tls", "dealloc"} : pc' = [pc EXCEPT ![t] = l]
  BY DEF AllocThread, Goto
<1>3. UNCHANGED <<blockVars, queue, port, table, numThreads, maxThreads, total, state, stackaddr, tcb,
                  pending, locked, subject, setup, seen, known, over>>
  BY DEF AllocThread, tableVars, blockVars
<1>4. \/ kres[x] /\ UNCHANGED <<kres, kthread, stack, mapped>> /\ l = "tls"
      \/ /\ ~kres[x] /\ kres' = [kres EXCEPT ![x] = TRUE]
         /\ kthread' = [kthread EXCEPT ![x] = "suspended"] /\ UNCHANGED <<stack, mapped>> /\ l = "tls"
      \/ /\ ~kres[x] /\ mapped' = mapped \ {stackaddr[x]} /\ stack' = [stack EXCEPT ![x] = FALSE]
         /\ UNCHANGED <<kres, kthread>> /\ l = "dealloc"
  BY <1>0, <1>x, <1>2 DEF AllocThread, UnmapStack, Goto, LifeInv, LifecycleTypeOK
<1>5. LifecycleTypeOK'
  <2>1. /\ stack' \in [Threads -> BOOLEAN] /\ kres' \in [Threads -> BOOLEAN]
        /\ kthread' \in [Threads -> {"none", "garbage", "suspended", "running", "dead"}]
        /\ mapped' \subseteq Threads \cup {UserStack}
    BY <1>4 DEF LifeInv, LifecycleTypeOK
  <2> QED
    BY <1>2, <1>3, <2>1 DEF LifeInv, LifecycleTypeOK, BlockTypeOK, PCs, CreatePCs, DeallocPCs
<1>6. /\ pc'[t] = l /\ Waiters(Free)' = Waiters(Free)
      /\ \A u \in Threads : u # t => pc'[u] = pc[u]
  BY <1>2, <1>3, SameWaiters, Names DEF LifeInv, LifecycleTypeOK
<1>7. /\ \A u \in Threads : u # x => stack'[u] = stack[u] /\ kres'[u] = kres[u] /\ kthread'[u] = kthread[u]
      /\ \A u \in Threads : u # x => (u \in mapped' <=> u \in mapped)
      /\ kthread'[x] # "running" /\ (stack'[x] => kres'[x])
      /\ kthread'[x] = "suspended" => stackaddr[x] = x /\ x \in mapped' /\ l = "tls"
  BY <1>1, <1>4, Names DEF StackFacts, Halted, LifeInv, LifecycleTypeOK
<1>8. Touches(t, x)
  BY <1>0, <1>x, <1>1, <1>3, <1>6, <1>7, Names DEF Touches, Untouched, LifeInv, LifecycleTypeOK
<1>9. UseFacts(t, x)'
  BY <1>0, <1>1, <1>3, <1>6, <1>7 DEF UseFacts, TableFacts, StateFacts, ThreadFacts, Halted, DeallocPCs, LookPCs
<1>10. RunFacts(t)' /\ RunFacts(x)' /\ StackFacts(x)'
  BY <1>0, <1>x, <1>1, <1>3, <1>6, <1>7 DEF RunFacts, StackFacts, Halted, Active, DeallocPCs
<1>11. CountInv'
  BY <1>0, <1>x, <1>1, <1>3, <1>6, <1>8, CountKept DEF Counted, Active, DeallocPCs
<1> QED
  BY <1>0, <1>x, <1>1, <1>3, <1>5, <1>8, <1>9, <1>10, <1>11, HandStep

\* The thread is ready to be published.
LEMMA SetupThreadStep ==
  ASSUME LifeInv, NEW t \in Threads, over = "no", SetupThread(t)
  PROVE  LifeInv'
<1>0. pc[t] = "tls" /\ pc[t] \in UsePCs
  BY DEF SetupThread, At, UsePCs, CreatePCs
<1>x. PICK x \in Threads : x = subject[t]
  BY <1>0, InHand
<1>1. /\ UseFacts(t, x) /\ RunFacts(x) /\ StackFacts(x) /\ RunFacts(t) /\ Uses(t, x)
      /\ x # t /\ pc[x] = "none" /\ x \notin table /\ x \notin Waiters(Free)
      /\ state[x] \in {"joinable", "detached"} /\ (stack[x] => kres[x])
  BY <1>0, <1>x, InHand DEF UseFacts, ThreadFacts, StateFacts, TableFacts
<1>2. CASE Abort
  BY <1>2, AbortKeeps
<1>3. CASE ~Abort
  <2>1. /\ pc' = [pc EXCEPT ![t] = "publish"]
        /\ tcb' = [tcb EXCEPT ![x] = TRUE]
        /\ UNCHANGED <<blockVars, queue, port, table, numThreads, maxThreads, total, state, stack, stackaddr,
                       kres, kthread, pending, locked, subject, setup, seen, known, mapped, over>>
    BY <1>3, <1>x DEF SetupThread, Goto, tableVars, blockVars
  <2>2. LifecycleTypeOK'
    BY <2>1 DEF LifeInv, LifecycleTypeOK, BlockTypeOK, PCs, CreatePCs
  <2>3. /\ pc'[t] = "publish" /\ Waiters(Free)' = Waiters(Free)
        /\ \A u \in Threads : u # t => pc'[u] = pc[u]
    BY <1>1, <2>1, SameWaiters, Names DEF LifeInv, LifecycleTypeOK
  <2>4. Touches(t, x)
    BY <1>0, <1>x, <1>1, <2>1, <2>3, Names DEF Touches, Untouched, LifeInv, LifecycleTypeOK
  <2>5. UseFacts(t, x)'
    BY <1>0, <1>1, <2>1, <2>3 DEF UseFacts, TableFacts, StateFacts, ThreadFacts, Halted, DeallocPCs, LookPCs
  <2>6. RunFacts(t)' /\ RunFacts(x)' /\ StackFacts(x)'
    BY <1>0, <1>1, <2>1, <2>3 DEF RunFacts, StackFacts, Halted, Active, DeallocPCs
  <2>7. CountInv'
    BY <1>0, <1>1, <2>1, <2>3, <2>4, CountKept DEF Counted, Active, DeallocPCs
  <2> QED
    BY <1>0, <1>x, <1>1, <2>1, <2>2, <2>4, <2>5, <2>6, <2>7, HandStep
<1> QED
  BY <1>2, <1>3

\* The creation is undone for want of a TLS block.
LEMMA TlsFailsStep ==
  ASSUME LifeInv, NEW t \in Threads, over = "no", TlsFails(t)
  PROVE  LifeInv'
<1>0. pc[t] = "tls" /\ pc[t] \in UsePCs
  BY DEF TlsFails, At, UsePCs, CreatePCs
<1>x. PICK x \in Threads : x = subject[t]
  BY <1>0, InHand
<1>1. /\ UseFacts(t, x) /\ RunFacts(x) /\ StackFacts(x) /\ RunFacts(t) /\ Uses(t, x)
      /\ x # t /\ pc[x] = "none" /\ x \notin table /\ x \notin Waiters(Free)
      /\ state[x] \in {"joinable", "detached"} /\ (stack[x] => kres[x])
  BY <1>0, <1>x, InHand DEF UseFacts, ThreadFacts, StateFacts, TableFacts
<1>2. CASE Abort
  BY <1>2, AbortKeeps
<1>3. CASE ~Abort
  <2>1. /\ pc' = [pc EXCEPT ![t] = "dealloc", ![x] = "none"]
        /\ kthread' = [kthread EXCEPT ![x] = "dead"]
        /\ mapped' = mapped \ {stackaddr[x]} /\ stack' = [stack EXCEPT ![x] = FALSE]
        /\ UNCHANGED <<blockVars, queue, port, table, numThreads, maxThreads, total, state, stackaddr,
                       kres, tcb, pending, locked, subject, setup, seen, known, over>>
    BY <1>3, <1>x DEF TlsFails, HaltThread, UnmapStack, tableVars, blockVars
  <2>2. LifecycleTypeOK'
    BY <2>1 DEF LifeInv, LifecycleTypeOK, BlockTypeOK, PCs, DeallocPCs
  <2>3. /\ pc'[t] = "dealloc" /\ pc'[x] = "none" /\ Waiters(Free)' = Waiters(Free)
        /\ \A u \in Threads : u # t /\ u # x => pc'[u] = pc[u]
        /\ \A u \in Threads : u # x => kthread'[u] = kthread[u] /\ stack'[u] = stack[u]
        /\ \A u \in Threads : u # x => (u \in mapped' <=> u \in mapped)
        /\ kthread'[x] = "dead" /\ ~stack'[x]
    BY <1>1, <2>1, SameWaiters, Names DEF LifeInv, LifecycleTypeOK, StackFacts
  <2>4. Touches(t, x)
    BY <1>0, <1>x, <1>1, <2>1, <2>3, Names DEF Touches, Untouched, LifeInv, LifecycleTypeOK
  <2>5. UseFacts(t, x)'
    BY <1>0, <1>1, <2>1, <2>3 DEF UseFacts, TableFacts, StateFacts, ThreadFacts, Halted, DeallocPCs, LookPCs
  <2>6. RunFacts(t)' /\ RunFacts(x)' /\ StackFacts(x)'
    BY <1>0, <1>x, <1>1, <2>1, <2>3 DEF RunFacts, StackFacts, Halted, Active, DeallocPCs
  <2>7. CountInv'
    BY <1>0, <1>x, <1>1, <2>1, <2>3, <2>4, CountKept DEF Counted, Active, DeallocPCs
  <2> QED
    BY <1>0, <1>x, <1>1, <2>1, <2>2, <2>4, <2>5, <2>6, <2>7, HandStep
<1> QED
  BY <1>2, <1>3

\* One thread more is counted.
LEMMA PublishStep ==
  ASSUME LifeInv, NEW t \in Threads, over = "no", Publish(t)
  PROVE  LifeInv'
<1>0. pc[t] = "publish" /\ pc[t] \in UsePCs
  BY DEF Publish, At, UsePCs, CreatePCs
<1>x. PICK x \in Threads : x = subject[t]
  BY <1>0, InHand
<1>1. /\ UseFacts(t, x) /\ RunFacts(x) /\ StackFacts(x) /\ RunFacts(t) /\ Uses(t, x)
      /\ x # t /\ pc[x] = "none" /\ x \notin table /\ x \notin Waiters(Free) /\ x <= numThreads
      /\ state[x] \in {"joinable", "detached"} /\ (stack[x] => kres[x])
  BY <1>0, <1>x, InHand DEF UseFacts, ThreadFacts, StateFacts, TableFacts
<1>2. /\ pc' = [pc EXCEPT ![t] = "start"] /\ table' = table \cup {x} /\ total' = total + 1
      /\ UNCHANGED <<blockVars, queue, port, numThreads, maxThreads, state, stack, stackaddr, kres, kthread,
                     tcb, pending, locked, subject, setup, seen, known, mapped, over>>
  BY <1>x DEF Publish, Goto, structVars, blockVars
<1>3. LifecycleTypeOK'
  BY <1>2 DEF LifeInv, LifecycleTypeOK, BlockTypeOK, PCs, CreatePCs
<1>4. /\ pc'[t] = "start" /\ Waiters(Free)' = Waiters(Free)
      /\ \A u \in Threads : u # t => pc'[u] = pc[u]
  BY <1>1, <1>2, SameWaiters, Names DEF LifeInv, LifecycleTypeOK
<1>5. Touches(t, x)
  BY <1>0, <1>x, <1>1, <1>2, <1>4, Names DEF Touches, Untouched, LifeInv, LifecycleTypeOK
<1>6. UseFacts(t, x)'
  BY <1>0, <1>1, <1>2, <1>4 DEF UseFacts, TableFacts, StateFacts, ThreadFacts, Halted, DeallocPCs, LookPCs
<1>7. RunFacts(t)' /\ RunFacts(x)' /\ StackFacts(x)'
  BY <1>0, <1>1, <1>2, <1>4 DEF RunFacts, StackFacts, Halted, Active, DeallocPCs
<1>8. CountInv'
  <2>1. x \notin Counted /\ x \in Counted' /\ t \in Counted /\ t \in Counted'
    BY <1>0, <1>x, <1>1, <1>2, <1>4 DEF Counted, Active, DeallocPCs
  <2>2. ASSUME NEW u \in Threads, u # t, u # x PROVE u \in Counted' <=> u \in Counted
    BY <1>2, <1>4, <2>2 DEF Counted, Active
  <2>3. Counted' = Counted \cup {x}
    <3>1. \A u : (u \in Counted => u \in Threads) /\ (u \in Counted' => u \in Threads)
      BY DEF Counted
    <3> QED
      BY <2>1, <2>2, <3>1
  <2>4. IsFiniteSet(Counted)
    BY FS_Subset, Names DEF Counted
  <2>5. Cardinality(Counted') = Cardinality(Counted) + 1
    BY <2>1, <2>3, <2>4, FS_AddElement
  <2>6. pc'[SignalThread] = "server"
    BY <1>0, <1>4, Names DEF LifeInv, CountInv
  <2> QED
    BY <1>2, <2>5, <2>6 DEF LifeInv, CountInv, LifecycleTypeOK
<1> QED
  BY <1>0, <1>x, <1>1, <1>2, <1>3, <1>5, <1>6, <1>7, <1>8, HandStep

\* The thread runs, or cannot be started.
LEMMA StartThreadStep ==
  ASSUME LifeInv, NEW t \in Threads, over = "no", StartThread(t)
  PROVE  LifeInv'
<1>0. pc[t] = "start" /\ pc[t] \in UsePCs
  BY DEF StartThread, At, UsePCs, CreatePCs
<1>x. PICK x \in Threads : x = subject[t]
  BY <1>0, InHand
<1>1. /\ UseFacts(t, x) /\ RunFacts(x) /\ StackFacts(x) /\ RunFacts(t) /\ Uses(t, x)
      /\ x # t /\ pc[x] = "none" /\ x \in table /\ x \notin Waiters(Free) /\ x \notin known
      /\ state[x] \in {"joinable", "detached"} /\ (stack[x] => kres[x])
  BY <1>0, <1>x, InHand DEF UseFacts, ThreadFacts, StateFacts, TableFacts
<1>2. /\ subject' = [subject EXCEPT ![t] = 0]
      /\ known' = IF state[x] = "joinable" THEN known \cup {x} ELSE known
      /\ UNCHANGED <<blockVars, queue, port, table, numThreads, maxThreads, total, state, stack, stackaddr,
                     kres, tcb, pending, locked, setup, seen, mapped>>
      /\ over' \in {"no", "abort"}
  BY <1>x DEF StartThread, tableVars, blockVars
<1>3. \/ /\ kthread[x] = "suspended" /\ kthread' = [kthread EXCEPT ![x] = "running"]
         /\ pc' = [pc EXCEPT ![t] = "run", ![x] = "run"]
      \/ /\ UNCHANGED kthread /\ pc' = [pc EXCEPT ![t] = "run"]
  BY <1>x DEF StartThread, Goto
<1>4. LifecycleTypeOK'
  <2>1. pc' \in [Threads -> PCs] /\ kthread' \in [Threads -> {"none", "garbage", "suspended", "running", "dead"}]
    BY <1>3 DEF LifeInv, LifecycleTypeOK, PCs
  <2> QED
    BY <1>2, <2>1 DEF LifeInv, LifecycleTypeOK, BlockTypeOK
<1>5. /\ pc'[t] = "run" /\ pc'[x] \in {"none", "run"} /\ subject'[t] = 0
      /\ Waiters(Free)' = Waiters(Free)
      /\ \A u \in Threads : u # t /\ u # x => pc'[u] = pc[u]
      /\ \A u \in Threads : u # t => subject'[u] = subject[u]
      /\ \A u \in Threads : u # x => kthread'[u] = kthread[u] /\ (u \in known' <=> u \in known)
      /\ pc'[x] = "none" => kthread'[x] # "running"
      /\ kthread'[x] = kthread[x] \/ kthread[x] = "suspended"
      /\ x \in known' <=> state[x] = "joinable"
  BY <1>1, <1>2, <1>3, SameWaiters, Names DEF LifeInv, LifecycleTypeOK, RunFacts
<1>6. Touches(t, x)
  BY <1>0, <1>x, <1>1, <1>2, <1>5, Names DEF Touches, Untouched, LifeInv, LifecycleTypeOK
<1>7. RunFacts(t)' /\ RunFacts(x)'
  BY <1>0, <1>x, <1>1, <1>2, <1>5 DEF RunFacts, Active, DeallocPCs
<1>8. StackFacts(x)'
  BY <1>1, <1>2, <1>5 DEF StackFacts, Halted
<1>9. CountInv'
  BY <1>0, <1>x, <1>1, <1>2, <1>5, <1>6, CountKept DEF Counted, Active, DeallocPCs
<1>10. pc'[t] \notin UsePCs
  BY <1>5 DEF UsePCs, CreatePCs, DeallocPCs, LookPCs
<1> QED
  BY <1>0, <1>x, <1>1, <1>2, <1>4, <1>6, <1>7, <1>8, <1>9, <1>10, HandStep

-----------------------------------------------------------------------------
(* Steps between calls.                                                    *)

\* A running thread is in the hands of those that join or detach it at most,
\* and not on the free list.
LEMMA Running ==
  ASSUME LifeInv, NEW t \in Threads, Active(t)
  PROVE  /\ RunFacts(t) /\ StackFacts(t) /\ t \in table /\ t \notin Waiters(Free)
         /\ \A c \in Threads \ {t} : Uses(c, t) => pc[c] \in LookPCs /\ UseFacts(c, t)
<1>1. RunFacts(t) /\ StackFacts(t) /\ t \in table /\ pc[t] \notin {"none", "halt"}
      /\ state[t] \in {"joinable", "detached"}
  BY DEF LifeInv, RunFacts, Active
<1>2. t \notin Waiters(Free)
  BY <1>1 DEF LifeInv, LinksInv, FreeFacts
<1>3. ASSUME NEW c \in Threads \ {t}, Uses(c, t) PROVE pc[c] \in LookPCs /\ UseFacts(c, t)
  <2>1. UseFacts(c, t) /\ pc[c] \in UsePCs
    BY <1>3 DEF LifeInv, UseInv, Uses
  <2> QED
    BY <1>1, <2>1 DEF UseFacts, TableFacts, StateFacts, ThreadFacts, UsePCs, CreatePCs, DeallocPCs
<1> QED
  BY <1>1, <1>2, <1>3

\* A step that only moves t, outside the calls that have a structure in hand.
LEMMA QuietStep ==
  ASSUME LifeInv, NEW t \in Threads,
         pc[t] \in {"run", "slot", "grow", "cleanup", "exit"},
         pc'[t] \in {"run", "slot", "grow", "exit", "exiting"},
         \A u \in Threads \ {t} : pc'[u] = pc[u] /\ subject'[u] = subject[u],
         UNCHANGED <<blockVars, table, numThreads, state, stack, stackaddr, kres, kthread, known, mapped>>,
         LifecycleTypeOK', CountInv'
  PROVE  LifeInv'
<1>0. /\ Active(t) /\ Active(t)' /\ pc[t] \notin UsePCs /\ pc'[t] \notin UsePCs /\ pc[t] # "joinwait"
      /\ pc[t] # "kernel" /\ pc[t] \notin {"none", "halt"}
  BY DEF Active, UsePCs, CreatePCs, DeallocPCs, LookPCs
<1>1. /\ RunFacts(t) /\ StackFacts(t) /\ t \in table /\ t \notin Waiters(Free)
      /\ \A c \in Threads \ {t} : Uses(c, t) => pc[c] \in LookPCs /\ UseFacts(c, t)
  BY <1>0, Running
<1>2. Waiters(Free)' = Waiters(Free)
  BY SameWaiters, Names DEF blockVars
<1>3. Touches(t, t)
  BY <1>0, <1>2, Names DEF Touches, Untouched, LifeInv, LifecycleTypeOK
<1>4. ASSUME NEW c \in Threads \ {t}, Uses(c, t) PROVE UseFacts(c, t)'
  BY <1>1, <1>2, <1>4 DEF UseFacts, TableFacts, StateFacts, ThreadFacts, LookPCs, DeallocPCs
<1>5. UseInv'
  BY <1>0, <1>3, <1>4, UseKept DEF Uses
<1>6. RunFacts(t)' /\ StackFacts(t)'
  BY <1>0, <1>1 DEF RunFacts, StackFacts, Halted, Active
<1>7. LinksInv'
  BY <1>0, <1>1, <1>3, LinksStay
<1> QED
  BY <1>3, <1>5, <1>6, <1>7, RunKept, StackKept DEF LifeInv

\* Such a step does not count.
LEMMA QuietCount ==
  ASSUME LifeInv, NEW t \in Threads, over = "no",
         pc[t] \in {"run", "slot", "grow", "cleanup", "exit"},
         pc'[t] \in {"run", "slot", "grow", "exit"},
         \A u \in Threads \ {t} : pc'[u] = pc[u] /\ subject'[u] = subject[u],
         UNCHANGED <<table, state, total, over>>
  PROVE  CountInv'
<1>1. t \in Counted /\ t \in Counted'
  BY DEF Counted, Active, DeallocPCs
<1>2. ASSUME NEW u \in Threads \ {t} PROVE u \in Counted' <=> u \in Counted
  BY DEF Counted, Active
<1>3. Counted' = Counted
  <2>1. \A u : (u \in Counted => u \in Threads) /\ (u \in Counted' => u \in Threads)
    BY DEF Counted
  <2> QED
    BY <1>1, <1>2, <2>1
<1>4. pc'[SignalThread] = "server"
  BY Names DEF LifeInv, CountInv
<1> QED
  BY <1>3, <1>4 DEF LifeInv, CountInv

\* pthread_exit is called.
LEMMA ExitCallStep ==
  ASSUME LifeInv, NEW t \in Threads, over = "no", ExitCall(t)
  PROVE  LifeInv'
<1>1. /\ pc[t] = "run" /\ pc' = [pc EXCEPT ![t] = "exit"]
      /\ UNCHANGED <<blockVars, queue, port, table, numThreads, maxThreads, total, state, stack, stackaddr, kres,
                     kthread, tcb, pending, locked, subject, setup, seen, known, mapped, over>>
  BY DEF ExitCall, At, Goto, blockVars, tableVars, structVars
<1>2. pc'[t] = "exit" /\ \A u \in Threads \ {t} : pc'[u] = pc[u]
  BY <1>1 DEF LifeInv, LifecycleTypeOK
<1>3. LifecycleTypeOK'
  BY <1>1 DEF LifeInv, LifecycleTypeOK, BlockTypeOK, PCs, ExitPCs
<1>4. CountInv'
  BY <1>1, <1>2, QuietCount
<1> QED
  BY <1>1, <1>2, <1>3, <1>4, QuietStep

\* The cancellation handlers run.
LEMMA CleanupStep ==
  ASSUME LifeInv, NEW t \in Threads, over = "no", Cleanup(t)
  PROVE  LifeInv'
<1>1. /\ pc[t] = "cleanup" /\ pc' = [pc EXCEPT ![t] = "exit"]
      /\ locked' = [s \in Threads |-> IF locked[s] = t THEN 0 ELSE locked[s]]
      /\ UNCHANGED <<blockVars, queue, port, table, numThreads, maxThreads, total, state, stack, stackaddr, kres,
                     kthread, tcb, pending, subject, setup, seen, known, mapped, over>>
  BY DEF Cleanup, At, Goto, blockVars, tableVars
<1>2. pc'[t] = "exit" /\ \A u \in Threads \ {t} : pc'[u] = pc[u]
  BY <1>1 DEF LifeInv, LifecycleTypeOK
<1>3. LifecycleTypeOK'
  BY <1>1 DEF LifeInv, LifecycleTypeOK, BlockTypeOK, PCs, ExitPCs
<1>4. CountInv'
  BY <1>1, <1>2, QuietCount
<1> QED
  BY <1>1, <1>2, <1>3, <1>4, QuietStep

\* A thread is no longer counted: when the count is spent, only the signal
\* thread is left, for the main thread, which is not counted, is gone too.
LEMMA UncountStep ==
  ASSUME LifeInv, NEW t \in Threads, over = "no", Uncount(t)
  PROVE  LifeInv'
<1>1. /\ pc[t] = "exit" /\ pc' = [pc EXCEPT ![t] = "exiting"]
      /\ total' = total - 1 /\ over' = IF total = 1 THEN "exit" ELSE over
      /\ UNCHANGED <<blockVars, queue, port, table, numThreads, maxThreads, state, stack, stackaddr, kres,
                     kthread, tcb, pending, locked, subject, setup, seen, known, mapped>>
  BY DEF Uncount, At, Goto, blockVars, tableVars, structVars
<1>2. pc'[t] = "exiting" /\ \A u \in Threads \ {t} : pc'[u] = pc[u]
  BY <1>1 DEF LifeInv, LifecycleTypeOK
<1>3. /\ t # SignalThread /\ pc'[SignalThread] = "server" /\ pc[SignalThread] = "server"
      /\ total \in Nat /\ total + 1 = Cardinality(Counted)
  BY <1>1, <1>2, Names DEF LifeInv, CountInv, LifecycleTypeOK
<1>4. t \in Counted /\ t \notin Counted' /\ SignalThread \in Counted
  BY <1>1, <1>2, <1>3, Names DEF Counted, Active, DeallocPCs
<1>5. Counted' = Counted \ {t}
  <2>1. ASSUME NEW u \in Threads \ {t} PROVE u \in Counted' <=> u \in Counted
    BY <1>1, <1>2 DEF Counted, Active
  <2>2. \A u : (u \in Counted => u \in Threads) /\ (u \in Counted' => u \in Threads)
    BY DEF Counted
  <2> QED
    BY <1>4, <2>1, <2>2
<1>6. IsFiniteSet(Counted) /\ IsFiniteSet(Counted')
  BY FS_Subset, Names DEF Counted
<1>7. Cardinality(Counted') = Cardinality(Counted) - 1
  BY <1>4, <1>5, <1>6, FS_RemoveElement
<1>8. SignalThread \in Counted' /\ Cardinality(Counted') \in Nat
  BY <1>3, <1>4, <1>5, <1>6, FS_CardinalityType
<1>9. Cardinality(Counted') >= 1
  BY <1>6, <1>8, FS_EmptySet
<1>10. ASSUME total = 1 PROVE Counted' = {SignalThread}
  <2>1. Cardinality(Counted') = 1
    BY <1>3, <1>7, <1>10
  <2>2. PICK u : Counted' = {u}
    BY <1>6, <2>1, FS_Singleton
  <2> QED
    BY <1>8, <2>2
<1>11. CountInv' /\ total' \in Nat
  BY <1>1, <1>3, <1>7, <1>8, <1>9, <1>10 DEF CountInv
<1>12. LifecycleTypeOK'
  BY <1>1, <1>11 DEF LifeInv, LifecycleTypeOK, BlockTypeOK, PCs, ExitPCs
<1> QED
  BY <1>1, <1>2, <1>11, <1>12, QuietStep

\* A structure that may be reused is on the free list, and in nobody's hands.
LEMMA ReusableFacts ==
  ASSUME LifeInv, NEW x \in Waiters(Free), state[x] = "terminated"
  PROVE  /\ x \in Threads /\ x <= numThreads /\ x \notin table /\ x \notin known
         /\ pc[x] \in {"none", "halt"} /\ \A c \in Threads : ~Uses(c, x)
<1>1. x \in Threads /\ FreeFacts(x)
  BY Names, WaitersAreThreads DEF LifeInv, LinksInv, LifecycleTypeOK
<1>2. x \notin known
  BY <1>1 DEF LifeInv, RunFacts, FreeFacts
<1>3. ASSUME NEW c \in Threads, Uses(c, x) PROVE FALSE
  <2>1. UseFacts(c, x)
    BY <1>1, <1>3 DEF LifeInv, UseInv
  <2> QED
    BY <2>1 DEF UseFacts, TableFacts, StateFacts, DeallocPCs
<1>4. ASSUME NEW c \in Threads, pc[c] = "mark", subject[c] = x PROVE FALSE
  BY <1>3, <1>4 DEF Uses, UsePCs, DeallocPCs
<1> QED
  BY <1>1, <1>2, <1>3, <1>4 DEF FreeFacts

\* A structure that was never used is in nobody's hands.
LEMMA FreshFacts ==
  ASSUME LifeInv, NEW x \in Threads, x = numThreads + 1
  PROVE  /\ x \notin table /\ x \notin known /\ x \notin Waiters(Free)
         /\ pc[x] = "none" /\ \A c \in Threads : ~Uses(c, x)
<1>1. RunFacts(x) /\ numThreads \in Nat /\ ~(x <= numThreads)
  BY Names DEF LifeInv, LifecycleTypeOK
<1>2. x \notin Waiters(Free)
  BY <1>1 DEF LifeInv, LinksInv, FreeFacts
<1>3. \A c \in Threads : ~Uses(c, x)
  BY <1>1 DEF LifeInv, UseInv, UseFacts, TableFacts
<1> QED
  BY <1>1, <1>2, <1>3 DEF RunFacts

\* __pthread_alloc takes a structure from the free list, or goes for a new one.
LEMMA AllocStartStep ==
  ASSUME LifeInv, NEW t \in Threads, NEW attr \in CallerAttrs, over = "no", AllocStart(t, attr)
  PROVE  LifeInv'
<1>0. /\ pc[t] = "run" /\ setup' = [setup EXCEPT ![t] = attr]
      /\ UNCHANGED <<table, numThreads, maxThreads, total, state, stack, stackaddr, kres,
                     kthread, tcb, pending, locked, seen, known, mapped, over, port>>
  BY DEF AllocStart, At, tableVars, structVars, blockVars
<1>a. attr \in AttrType
  BY LifecycleAssumption
<1>1. CASE UNCHANGED <<blockVars, subject>> /\ Goto(t, "slot")
  <2>1. UNCHANGED <<queue, port, subject>> /\ pc' = [pc EXCEPT ![t] = "slot"]
    BY <1>1 DEF Goto, blockVars
  <2>2. pc'[t] = "slot" /\ \A u \in Threads \ {t} : pc'[u] = pc[u]
    BY <2>1 DEF LifeInv, LifecycleTypeOK
  <2>3. LifecycleTypeOK'
    BY <1>0, <1>a, <2>1 DEF LifeInv, LifecycleTypeOK, BlockTypeOK, PCs, CreatePCs
  <2>4. CountInv'
    BY <1>0, <2>1, <2>2, QuietCount
  <2> QED
    BY <1>0, <1>1, <2>1, <2>2, <2>3, <2>4, QuietStep
<1>2. ASSUME NEW i \in Reusable, Dequeue(queue[Free][i]), Take(t, queue[Free][i], "recycle")
      PROVE  LifeInv'
  <2>1. PICK x : x = queue[Free][i] /\ x \in Waiters(Free) /\ state[x] = "terminated"
    <3>1. i \in DOMAIN queue[Free] /\ state[queue[Free][i]] = "terminated"
      BY DEF Reusable
    <3>2. queue[Free][i] \in Waiters(Free)
      BY <3>1 DEF Waiters, ToSet
    <3> QED
      BY <3>1, <3>2
  <2>2. /\ x \in Threads /\ x <= numThreads /\ x \notin table /\ x \notin known
        /\ pc[x] \in {"none", "halt"} /\ \A c \in Threads : ~Uses(c, x)
    BY <2>1, ReusableFacts
  <2>3. /\ RunFacts(t) /\ RunFacts(x) /\ StackFacts(x) /\ x # t
    BY <1>0, <2>2 DEF LifeInv
  <2>4. /\ subject' = [subject EXCEPT ![t] = x] /\ pc' = [pc EXCEPT ![t] = "recycle"] /\ Dequeue(x)
    BY <1>2, <2>1 DEF Take, Goto
  <2>5. /\ BlockTypeOK /\ \A q \in Queues : NoDuplicates(queue[q])
    BY DEF LifeInv, LinksInv, LifecycleTypeOK
  <2>6. /\ queue' \in [Queues -> Seq(Threads)]
        /\ \A q \in Queues : NoDuplicates(queue'[q])
        /\ \A q \in Queues : Waiters(q)' = Waiters(q) \ {x}
        /\ \A u \in Threads : Linked(u)' <=> (u # x /\ Linked(u))
    BY <2>4, <2>5, DequeueStep
  <2>7. LifecycleTypeOK'
    BY <1>0, <1>a, <2>2, <2>4, <2>6 DEF LifeInv, LifecycleTypeOK, BlockTypeOK, PCs, CreatePCs
  <2>8. /\ pc'[t] = "recycle" /\ subject'[t] = x
        /\ \A u \in Threads : u # t => pc'[u] = pc[u] /\ subject'[u] = subject[u]
        /\ \A s : s \in Waiters(Free)' <=> s \in Waiters(Free) /\ s # x
    BY <2>4, <2>6, Names DEF LifeInv, LifecycleTypeOK
  <2>9. Touches(t, x)
    BY <1>0, <2>8, Names DEF Touches, Untouched, LifeInv, LifecycleTypeOK, UsePCs, CreatePCs, DeallocPCs, LookPCs
  <2>10. UseFacts(t, x)'
    BY <1>0, <2>1, <2>2, <2>3, <2>8 DEF UseFacts, TableFacts, StateFacts, ThreadFacts, Halted, DeallocPCs, LookPCs
  <2>11. UseInv'
    <3>1. \A s \in Threads : Uses(t, s)' => s = x
      BY <2>8 DEF Uses
    <3> QED
      BY <2>2, <2>8, <2>9, <2>10, <3>1, UseKept
  <2>12. RunFacts(t)' /\ RunFacts(x)'
    BY <1>0, <2>2, <2>3, <2>8 DEF RunFacts, Active, DeallocPCs
  <2>13. StackFacts(x)'
    BY <1>0, <2>3, <2>8 DEF StackFacts, Halted
  <2>14. LinksInv'
    <3>1. \A q \in Threads : \A u \in Waiters(q)' : u # t /\ u \in Waiters(q)
      BY <1>0, <2>6, Names DEF LifeInv, LinksInv
    <3>2. \A u \in Threads : port'[u] => u # t /\ pc[u] = "joinwait" /\ ~Linked(u)'
      BY <1>0, <2>6 DEF LifeInv, LinksInv
    <3>3. x \notin Waiters(Free)' /\ BlockTypeOK'
      BY <2>7, <2>8 DEF LifecycleTypeOK
    <3> QED
      BY <2>2, <2>6, <2>9, <3>1, <3>2, <3>3, LinksKept
  <2>15. CountInv'
    BY <1>0, <2>2, <2>3, <2>8, <2>9, CountKept DEF Counted, Active, DeallocPCs
  <2> QED
    BY <2>2, <2>7, <2>9, <2>11, <2>12, <2>13, <2>14, <2>15, RunKept, StackKept DEF LifeInv
<1> QED
  BY <1>1, <1>2 DEF AllocStart

\* The next ID is given to a structure.
LEMMA NewStructureStep ==
  ASSUME LifeInv, NEW t \in Threads, over = "no", pc[t] \in {"slot", "grow"}, numThreads < MaxThreads,
         NewStructure(t), maxThreads' \in Nat, seen' \in [Threads -> Nat],
         UNCHANGED <<blockVars, total, state, stackaddr, locked, setup, known, mapped, over>>
  PROVE  LifeInv'
<1>x. PICK x \in Threads : x = numThreads + 1
  BY LifecycleAssumption DEF LifeInv, LifecycleTypeOK
<1>1. /\ x \notin table /\ x \notin known /\ x \notin Waiters(Free)
      /\ pc[x] = "none" /\ \A c \in Threads : ~Uses(c, x)
  BY <1>x, FreshFacts
<1>2. RunFacts(t) /\ RunFacts(x) /\ StackFacts(x) /\ x # t /\ pc[t] # "joinwait"
  BY <1>1 DEF LifeInv
<1>3. /\ numThreads' = x /\ table' = table
      /\ subject' = [subject EXCEPT ![t] = x] /\ pc' = [pc EXCEPT ![t] = "stack"]
      /\ pending' = [pending EXCEPT ![x] = FALSE] /\ stack' = [stack EXCEPT ![x] = FALSE]
      /\ tcb' = [tcb EXCEPT ![x] = FALSE] /\ UNCHANGED <<queue, port>>
  BY <1>x, <1>1 DEF NewStructure, Take, Goto, initialize_pthread, blockVars
<1>4. PICK g \in BOOLEAN : /\ kres' = [kres EXCEPT ![x] = g]
                           /\ kthread' = [kthread EXCEPT ![x] = IF g THEN "garbage" ELSE "none"]
  BY <1>x DEF NewStructure
<1>5. LifecycleTypeOK'
  BY <1>3, <1>4 DEF LifeInv, LifecycleTypeOK, BlockTypeOK, PCs, CreatePCs
<1>6. /\ pc'[t] = "stack" /\ subject'[t] = x /\ ~stack'[x]
      /\ \A u \in Threads : u # t => pc'[u] = pc[u] /\ subject'[u] = subject[u]
      /\ \A u \in Threads : u # x => stack'[u] = stack[u] /\ kres'[u] = kres[u] /\ kthread'[u] = kthread[u]
      /\ kthread'[x] \in {"garbage", "none"} /\ Waiters(Free)' = Waiters(Free)
      /\ numThreads \in Nat /\ numThreads' \in Nat /\ numThreads <= numThreads' /\ x <= numThreads'
  BY <1>x, <1>3, <1>4, SameWaiters, Names DEF LifeInv, LifecycleTypeOK
<1>7. Touches(t, x)
  BY <1>3, <1>6, Names DEF Touches, Untouched, UsePCs, CreatePCs, DeallocPCs, LookPCs
<1>8. UseFacts(t, x)'
  BY <1>1, <1>2, <1>3, <1>6 DEF UseFacts, TableFacts, StateFacts, ThreadFacts, Halted, DeallocPCs, LookPCs
<1>9. UseInv'
  <2>1. \A s \in Threads : Uses(t, s)' => s = x
    BY <1>6 DEF Uses
  <2> QED
    BY <1>1, <1>6, <1>7, <1>8, <2>1, UseKept
<1>10. RunFacts(t)' /\ RunFacts(x)'
  BY <1>1, <1>2, <1>3, <1>6, Names DEF RunFacts, Active, DeallocPCs
<1>11. StackFacts(x)'
  BY <1>2, <1>6 DEF StackFacts, Halted
<1>12. LinksInv'
  BY <1>1, <1>2, <1>7, LinksStay
<1>13. CountInv'
  BY <1>1, <1>2, <1>3, <1>6, <1>7, CountKept DEF Counted, Active, DeallocPCs
<1> QED
  BY <1>5, <1>7, <1>9, <1>10, <1>11, <1>12, <1>13, RunKept, StackKept DEF LifeInv

\* Steps of t that look for a slot in the table and do not get one.
LEMMA NoSlotStep ==
  ASSUME LifeInv, NEW t \in Threads, over = "no", pc[t] \in {"slot", "grow"},
         NEW l \in {"slot", "grow", "run"}, pc' = [pc EXCEPT ![t] = l],
         subject' \in [Threads -> Threads \cup {0}], \A u \in Threads \ {t} : subject'[u] = subject[u],
         setup' \in [Threads -> AttrType], seen' \in [Threads -> Nat],
         UNCHANGED <<blockVars, tableVars, structVars, total, known, mapped, over>>
  PROVE  LifeInv'
<1>1. UNCHANGED <<queue, port, table, numThreads, maxThreads, total, state, stack, stackaddr, kres,
                  kthread, tcb, pending, locked, known, mapped, over>>
  BY DEF blockVars, tableVars, structVars
<1>2. pc'[t] = l /\ \A u \in Threads \ {t} : pc'[u] = pc[u]
  BY DEF LifeInv, LifecycleTypeOK
<1>3. LifecycleTypeOK'
  BY <1>1 DEF LifeInv, LifecycleTypeOK, BlockTypeOK, PCs, CreatePCs
<1>4. CountInv'
  BY <1>1, <1>2, QuietCount
<1> QED
  BY <1>1, <1>2, <1>3, <1>4, QuietStep

\* A slot of the table is taken, or the table is to be enlarged.
LEMMA SlotStep ==
  ASSUME LifeInv, NEW t \in Threads, over = "no", Slot(t)
  PROVE  LifeInv'
<1>0. /\ pc[t] = "slot" /\ numThreads < MaxThreads
      /\ seen \in [Threads -> Nat] /\ setup \in [Threads -> AttrType] /\ maxThreads \in Nat
      /\ subject \in [Threads -> Threads \cup {0}]
      /\ UNCHANGED <<blockVars, total, setup, known, mapped, over>>
  BY DEF Slot, At, LifeInv, LifecycleTypeOK
<1>1. CASE NewStructure(t) /\ UNCHANGED <<maxThreads, state, stackaddr, locked, seen>>
  BY <1>0, <1>1, NewStructureStep
<1>2. CASE seen' = [seen EXCEPT ![t] = maxThreads] /\ Goto(t, "grow") /\ UNCHANGED <<tableVars, structVars, subject>>
  BY <1>0, <1>2, NoSlotStep DEF Goto
<1> QED
  BY <1>1, <1>2 DEF Slot

\* The table is enlarged, was meanwhile, or cannot be.
LEMMA GrowStep ==
  ASSUME LifeInv, NEW t \in Threads, over = "no", Grow(t)
  PROVE  LifeInv'
<1>0. /\ pc[t] = "grow" /\ seen' \in [Threads -> Nat] /\ setup \in [Threads -> AttrType] /\ maxThreads \in Nat
      /\ subject \in [Threads -> Threads \cup {0}]
      /\ UNCHANGED <<blockVars, total, known, mapped, over>>
  BY DEF Grow, At, LifeInv, LifecycleTypeOK
<1>1. CASE /\ numThreads < MaxThreads /\ maxThreads' = 2 * maxThreads /\ NewStructure(t)
           /\ UNCHANGED <<state, stackaddr, locked, setup>>
  BY <1>0, <1>1, NewStructureStep
<1>2. CASE Goto(t, "slot") /\ UNCHANGED <<tableVars, structVars, subject, setup>>
  BY <1>0, <1>2, NoSlotStep DEF Goto
<1>3. CASE Return(t) /\ setup' = [setup EXCEPT ![t] = DefaultAttr] /\ UNCHANGED <<tableVars, structVars>>
  <2>1. /\ subject' = [subject EXCEPT ![t] = 0] /\ pc' = [pc EXCEPT ![t] = "run"]
        /\ setup' \in [Threads -> AttrType]
    BY <1>0, <1>3, AttrStates DEF Return, Take, Goto
  <2> QED
    BY <1>0, <1>3, <2>1, NoSlotStep
<1> QED
  BY <1>1, <1>2, <1>3 DEF Grow

-----------------------------------------------------------------------------
(* Giving a structure back.                                                *)

\* A thread waits on one queue at a time, and not on the free list.
LEMMA WaitsOnce ==
  ASSUME LifeInv, NEW q \in Threads, NEW u \in Waiters(q)
  PROVE  /\ u \in Threads /\ pc[u] = "joinwait" /\ subject[u] = q /\ Uses(u, q)
         /\ \A r \in Queues : u \in Waiters(r) => r = q
<1>1. u \in Threads /\ pc[u] = "joinwait" /\ subject[u] = q
  BY WaitersAreThreads, Names DEF LifeInv, LinksInv, LifecycleTypeOK
<1>2. Uses(u, q)
  BY <1>1 DEF Uses, UsePCs, LookPCs
<1>3. u \notin Waiters(Free)
  <2>1. SUFFICES ASSUME FreeFacts(u) PROVE FALSE
    BY DEF LifeInv, LinksInv
  <2>2. PICK c \in Threads : pc[c] = "mark" /\ subject[c] = u
    BY <1>1, <2>1 DEF FreeFacts
  <2>3. Uses(c, u) /\ UseFacts(c, u)
    BY <1>1, <2>2 DEF Uses, UsePCs, DeallocPCs, LifeInv, UseInv
  <2> QED
    BY <1>1, <2>2, <2>3 DEF UseFacts, ThreadFacts, DeallocPCs
<1>4. \A r \in Threads : u \in Waiters(r) => r = q
  BY <1>1 DEF LifeInv, LinksInv
<1> QED
  BY <1>1, <1>2, <1>3, <1>4, Names

\* The joiners of x are told.
LEMMA BroadcastStep ==
  ASSUME LifeInv, NEW x \in Threads, Broadcast(x)
  PROVE  /\ BlockTypeOK' /\ \A q \in Queues : NoDuplicates(queue'[q])
         /\ \A q \in Queues : Waiters(q)' = IF q = x THEN {} ELSE Waiters(q)
         /\ \A u \in Threads : port'[u] => pc[u] = "joinwait" /\ ~Linked(u)'
<1>0. /\ queue \in [Queues -> Seq(Threads)] /\ port \in [Threads -> BOOLEAN] /\ x \in Queues
      /\ \A q \in Queues : NoDuplicates(queue[q])
  BY Names DEF LifeInv, LinksInv, LifecycleTypeOK, BlockTypeOK
<1>1. /\ queue' = [queue EXCEPT ![x] = <<>>] /\ port' = [w \in Threads |-> port[w] \/ w \in Waiters(x)]
  BY DEF Broadcast
<1>2. BlockTypeOK'
  <2>1. queue' \in [Queues -> Seq(Threads)]
    BY <1>0, <1>1
  <2>2. port' \in [Threads -> BOOLEAN]
    BY <1>0, <1>1
  <2> QED
    BY <2>1, <2>2 DEF BlockTypeOK
<1>3. \A q \in Queues : queue'[q] = IF q = x THEN <<>> ELSE queue[q]
  BY <1>0, <1>1
<1>4. \A q \in Queues : NoDuplicates(queue'[q])
  BY <1>0, <1>3 DEF NoDuplicates
<1>5. \A q \in Queues : Waiters(q)' = IF q = x THEN {} ELSE Waiters(q)
  BY <1>3 DEF Waiters, ToSet
<1>6. ASSUME NEW u \in Threads, port'[u] PROVE pc[u] = "joinwait" /\ ~Linked(u)'
  <2>1. CASE port[u]
    BY <1>5, <2>1 DEF LifeInv, LinksInv, Linked
  <2>2. CASE u \in Waiters(x)
    BY <1>5, <2>2, WaitsOnce DEF Linked
  <2> QED
    BY <1>1, <1>6, <2>1, <2>2
<1> QED
  BY <1>2, <1>4, <1>5, <1>6

\* While a call that does not itself wait has a structure in hand, nobody
\* waits to join its thread: a broadcast finds an empty queue.
LEMMA NobodyToTell ==
  ASSUME LifeInv, NEW t \in Threads, pc[t] \in UsePCs, pc[t] # "joinwait", Broadcast(subject[t])
  PROVE  UNCHANGED <<queue, port>>
<1>x. PICK x \in Threads : x = subject[t] /\ Broadcast(x)
  BY InHand
<1>1. Waiters(x) = {}
  <2>1. ASSUME NEW u \in Waiters(x) PROVE FALSE
    BY <1>x, InHand, WaitsOnce
  <2> QED
    BY <2>1
<1>2. queue[x] = <<>> /\ queue \in [Queues -> Seq(Threads)] /\ port \in [Threads -> BOOLEAN] /\ x \in Queues
  BY <1>1, EmptyQueue, Names DEF LifeInv, LifecycleTypeOK, BlockTypeOK
<1>3. queue' = queue
  BY <1>x, <1>2 DEF Broadcast
<1>4. port' = [w \in Threads |-> port[w]]
  BY <1>x, <1>1, <1>2 DEF Broadcast
<1> QED
  BY <1>2, <1>3, <1>4

\* The structure is withdrawn from the table.
LEMMA WithdrawStep ==
  ASSUME LifeInv, NEW t \in Threads, over = "no", Withdraw(t)
  PROVE  LifeInv'
<1>0. pc[t] = "dealloc" /\ pc[t] \in UsePCs
  BY DEF Withdraw, At, UsePCs, DeallocPCs
<1>x. PICK x \in Threads : x = subject[t]
  BY <1>0, InHand
<1>1. /\ UseFacts(t, x) /\ RunFacts(x) /\ StackFacts(x) /\ RunFacts(t) /\ Uses(t, x)
      /\ t # x => pc[x] = "none" /\ (x \in table => state[x] = "exited")
      /\ x \notin Waiters(Free) /\ (stack[x] => kres[x]) /\ x \notin known
  BY <1>0, <1>x, InHand DEF UseFacts, ThreadFacts, StateFacts, TableFacts, DeallocPCs
<1>2. CASE Abort
  BY <1>2, AbortKeeps
<1>3. CASE ~Abort
  <2>1. /\ pc' = [pc EXCEPT ![t] = "wake"] /\ table' = table \ {x}
        /\ UNCHANGED <<blockVars, queue, port, numThreads, maxThreads, total, state, stack, stackaddr, kres, kthread,
                       tcb, pending, locked, subject, setup, seen, known, mapped, over>>
    BY <1>3, <1>x DEF Withdraw, Goto, structVars, blockVars
  <2>2. LifecycleTypeOK'
    BY <2>1 DEF LifeInv, LifecycleTypeOK, BlockTypeOK, PCs, DeallocPCs
  <2>3. /\ pc'[t] = "wake" /\ Waiters(Free)' = Waiters(Free)
        /\ \A u \in Threads : u # t => pc'[u] = pc[u]
    BY <2>1, SameWaiters, Names DEF LifeInv, LifecycleTypeOK
  <2>4. Touches(t, x)
    BY <1>0, <1>x, <1>1, <2>1, <2>3, Names DEF Touches, Untouched, LifeInv, LifecycleTypeOK
  <2>5. UseFacts(t, x)'
    BY <1>0, <1>1, <2>1, <2>3 DEF UseFacts, TableFacts, StateFacts, ThreadFacts, Halted, DeallocPCs, LookPCs
  <2>6. RunFacts(t)' /\ RunFacts(x)' /\ StackFacts(x)'
    BY <1>0, <1>x, <1>1, <2>1, <2>3 DEF RunFacts, StackFacts, Halted, Active, DeallocPCs
  <2>7. CountInv'
    BY <1>0, <1>x, <1>1, <2>1, <2>3, <2>4, CountKept DEF Counted, Active, DeallocPCs
  <2> QED
    BY <1>0, <1>x, <1>1, <2>1, <2>2, <2>4, <2>5, <2>6, <2>7, HandStep
<1> QED
  BY <1>2, <1>3

\* The joiners of the structure's old thread, if any, have been told.
LEMMA WakeJoinersStep ==
  ASSUME LifeInv, NEW t \in Threads, over = "no", WakeJoiners(t)
  PROVE  LifeInv'
<1>0. pc[t] = "wake" /\ pc[t] \in UsePCs
  BY DEF WakeJoiners, At, UsePCs, DeallocPCs
<1>x. PICK x \in Threads : x = subject[t]
  BY <1>0, InHand
<1>1. /\ UseFacts(t, x) /\ RunFacts(x) /\ StackFacts(x) /\ RunFacts(t) /\ Uses(t, x)
      /\ t # x => pc[x] = "none"
      /\ x \notin table /\ x \notin Waiters(Free) /\ (stack[x] => kres[x]) /\ x \notin known
      /\ \A c \in Threads \ {t} : ~Uses(c, x)
  BY <1>0, <1>x, InHand DEF UseFacts, ThreadFacts, StateFacts, TableFacts, DeallocPCs
<1>3. UNCHANGED <<queue, port>>
  BY <1>0, <1>x, NobodyToTell DEF WakeJoiners, blockVars
<1>4. /\ pc' = [pc EXCEPT ![t] = "enqueue"]
      /\ UNCHANGED <<blockVars, queue, port, table, numThreads, maxThreads, total, state, stack, stackaddr, kres,
                     kthread, tcb, pending, locked, subject, setup, seen, known, mapped, over>>
  BY <1>3 DEF WakeJoiners, Goto, structVars, tableVars, blockVars
<1>5. LifecycleTypeOK'
  BY <1>4 DEF LifeInv, LifecycleTypeOK, BlockTypeOK, PCs, DeallocPCs
<1>6. /\ pc'[t] = "enqueue" /\ Waiters(Free)' = Waiters(Free)
      /\ \A u \in Threads : u # t => pc'[u] = pc[u]
  BY <1>4, SameWaiters, Names DEF LifeInv, LifecycleTypeOK
<1>7. Touches(t, x)
  BY <1>0, <1>x, <1>1, <1>4, <1>6, Names DEF Touches, Untouched, LifeInv, LifecycleTypeOK
<1>8. UseFacts(t, x)'
  BY <1>0, <1>1, <1>4, <1>6 DEF UseFacts, TableFacts, StateFacts, ThreadFacts, Halted, DeallocPCs, LookPCs
<1>9. RunFacts(t)' /\ RunFacts(x)' /\ StackFacts(x)'
  BY <1>0, <1>x, <1>1, <1>4, <1>6 DEF RunFacts, StackFacts, Halted, Active, DeallocPCs
<1>10. CountInv'
  BY <1>0, <1>x, <1>1, <1>4, <1>6, <1>7, CountKept DEF Counted, Active, DeallocPCs
<1> QED
  BY <1>0, <1>x, <1>1, <1>4, <1>5, <1>7, <1>8, <1>9, <1>10, HandStep

\* The structure joins the free list; its links were not in use.
LEMMA EnqueueFreeStep ==
  ASSUME LifeInv, NEW t \in Threads, over = "no", EnqueueFree(t)
  PROVE  LifeInv'
<1>0. pc[t] = "enqueue" /\ pc[t] \in UsePCs
  BY DEF EnqueueFree, At, UsePCs, DeallocPCs
<1>x. PICK x \in Threads : x = subject[t]
  BY <1>0, InHand
<1>1. /\ UseFacts(t, x) /\ RunFacts(x) /\ StackFacts(x) /\ RunFacts(t) /\ Uses(t, x)
      /\ t # x => pc[x] = "none"
      /\ x \notin table /\ x \notin Waiters(Free) /\ (stack[x] => kres[x]) /\ x \notin known
      /\ x <= numThreads /\ pc[x] # "joinwait"
  BY <1>0, <1>x, InHand DEF UseFacts, ThreadFacts, StateFacts, TableFacts, DeallocPCs
<1>2. ~Linked(x)
  <2>1. ASSUME NEW q \in Queues, x \in Waiters(q) PROVE FALSE
    BY <1>1, <2>1, WaitsOnce, Names
  <2> QED
    BY <2>1 DEF Linked
<1>3. /\ pc' = [pc EXCEPT ![t] = "mark"] /\ Enqueue(Free, x)
      /\ UNCHANGED <<port, table, numThreads, maxThreads, total, state, stack, stackaddr, kres,
                     kthread, tcb, pending, locked, subject, setup, seen, known, mapped, over>>
  BY <1>x, <1>2 DEF EnqueueFree, Goto, structVars, tableVars
<1>4. /\ queue' \in [Queues -> Seq(Threads)]
      /\ \A q \in Queues : NoDuplicates(queue'[q])
      /\ \A q \in Queues : Waiters(q)' = IF q = Free THEN Waiters(q) \cup {x} ELSE Waiters(q)
      /\ \A u \in Threads : Linked(u)' <=> (u = x \/ Linked(u))
  BY <1>2, <1>3, EnqueueStep, Names DEF LifeInv, LinksInv, LifecycleTypeOK
<1>5. LifecycleTypeOK'
  BY <1>3, <1>4 DEF LifeInv, LifecycleTypeOK, BlockTypeOK, PCs, DeallocPCs
<1>6. /\ pc'[t] = "mark" /\ Waiters(Free)' = Waiters(Free) \cup {x}
      /\ \A u \in Threads : u # t => pc'[u] = pc[u]
  BY <1>3, <1>4, Names DEF LifeInv, LifecycleTypeOK
<1>7. Touches(t, x)
  BY <1>0, <1>x, <1>1, <1>3, <1>6, Names DEF Touches, Untouched, LifeInv, LifecycleTypeOK
<1>8. UseFacts(t, x)'
  BY <1>0, <1>1, <1>3, <1>6 DEF UseFacts, TableFacts, StateFacts, ThreadFacts, Halted, DeallocPCs, LookPCs
<1>9. RunFacts(t)' /\ RunFacts(x)' /\ StackFacts(x)'
  BY <1>0, <1>x, <1>1, <1>3, <1>6 DEF RunFacts, StackFacts, Halted, Active, DeallocPCs
<1>10. CountInv'
  BY <1>0, <1>x, <1>1, <1>3, <1>6, <1>7, CountKept DEF Counted, Active, DeallocPCs
<1>11. UseInv'
  BY <1>x, <1>1, <1>3, <1>7, <1>8, UseMine
<1>12. LinksInv'
  <2>1. \A q \in Threads : \A u \in Waiters(q)' : u # t /\ u \in Waiters(q)
    BY <1>0, <1>4, Names DEF LifeInv, LinksInv
  <2>2. \A u \in Threads : port'[u] => u # t /\ pc[u] = "joinwait" /\ ~Linked(u)'
    BY <1>0, <1>1, <1>3, <1>4 DEF LifeInv, LinksInv
  <2>3. FreeFacts(x)'
    BY <1>x, <1>1, <1>3, <1>6 DEF FreeFacts
  <2>4. BlockTypeOK'
    BY <1>5 DEF LifecycleTypeOK
  <2> QED
    BY <1>4, <1>7, <2>1, <2>2, <2>3, <2>4, LinksKept
<1> QED
  BY <1>5, <1>7, <1>9, <1>10, <1>11, <1>12, RunKept, StackKept DEF LifeInv

\* The structure may be reused.
LEMMA MarkTerminatedStep ==
  ASSUME LifeInv, NEW t \in Threads, over = "no", MarkTerminated(t)
  PROVE  LifeInv'
<1>0. pc[t] = "mark" /\ pc[t] \in UsePCs
  BY DEF MarkTerminated, At, UsePCs, DeallocPCs
<1>x. PICK x \in Threads : x = subject[t]
  BY <1>0, InHand
<1>1. /\ UseFacts(t, x) /\ RunFacts(x) /\ StackFacts(x) /\ RunFacts(t) /\ Uses(t, x)
      /\ t # x => pc[x] = "none"
      /\ x \notin table /\ (stack[x] => kres[x]) /\ x \notin known /\ x <= numThreads
  BY <1>0, <1>x, InHand DEF UseFacts, ThreadFacts, StateFacts, TableFacts, DeallocPCs
<1>2. /\ state' = [state EXCEPT ![x] = "terminated"]
      /\ UNCHANGED <<blockVars, queue, port, table, numThreads, maxThreads, total, stack, stackaddr, kres,
                     kthread, tcb, pending, locked, setup, seen, known, mapped, over>>
  BY <1>x DEF MarkTerminated, tableVars, blockVars
<1>3. \/ x = t /\ pc' = [pc EXCEPT ![t] = "halt"] /\ subject' = subject
      \/ x # t /\ pc' = [pc EXCEPT ![t] = "run"] /\ subject' = [subject EXCEPT ![t] = 0]
  BY <1>x DEF MarkTerminated, Return, Take, Goto
<1>4. LifecycleTypeOK'
  <2>1. pc' \in [Threads -> PCs] /\ subject' \in [Threads -> Threads \cup {0}]
    BY <1>3 DEF LifeInv, LifecycleTypeOK, PCs, ExitPCs
  <2> QED
    BY <1>2, <2>1 DEF LifeInv, LifecycleTypeOK, BlockTypeOK
<1>5. /\ pc'[t] = IF x = t THEN "halt" ELSE "run"
      /\ Waiters(Free)' = Waiters(Free) /\ state'[x] = "terminated"
      /\ \A u \in Threads : u # x => state'[u] = state[u]
      /\ \A u \in Threads : u # t => pc'[u] = pc[u] /\ subject'[u] = subject[u]
  BY <1>2, <1>3, SameWaiters, Names DEF LifeInv, LifecycleTypeOK
<1>6. Touches(t, x)
  BY <1>0, <1>x, <1>1, <1>2, <1>5, Names DEF Touches, Untouched, LifeInv, LifecycleTypeOK
<1>7. pc'[t] \notin UsePCs
  BY <1>5 DEF UsePCs, CreatePCs, DeallocPCs, LookPCs
<1>8. RunFacts(t)' /\ RunFacts(x)' /\ StackFacts(x)' /\ FreeFacts(x)'
  BY <1>0, <1>x, <1>1, <1>2, <1>5 DEF RunFacts, StackFacts, FreeFacts, Halted, Active, DeallocPCs
<1>9. CountInv'
  BY <1>0, <1>x, <1>1, <1>2, <1>5, <1>6, CountKept DEF Counted, Active, DeallocPCs
<1> QED
  BY <1>0, <1>x, <1>1, <1>2, <1>4, <1>6, <1>7, <1>8, <1>9, HandStep

-----------------------------------------------------------------------------
(* Leaving.                                                                *)

\* A thread leaves: detached, it gives its structure back itself; otherwise it
\* tells its joiner.
LEMMA LeaveStateStep ==
  ASSUME LifeInv, NEW t \in Threads, over = "no", LeaveState(t)
  PROVE  LifeInv'
<1>0. pc[t] = "exiting" /\ Active(t) /\ pc[t] \notin UsePCs
  BY DEF LeaveState, At, Active, UsePCs, CreatePCs, DeallocPCs, LookPCs
<1>1. /\ RunFacts(t) /\ StackFacts(t) /\ t \in table /\ t \notin Waiters(Free)
      /\ \A c \in Threads \ {t} : Uses(c, t) => pc[c] \in LookPCs /\ UseFacts(c, t)
  BY <1>0, Running
<1>2. UNCHANGED <<table, numThreads, maxThreads, total, stack, stackaddr, kres,
                  kthread, tcb, pending, locked, setup, seen, known, mapped, over>>
  BY DEF LeaveState, tableVars
<1>3. CASE state[t] = "detached" /\ Take(t, t, "dealloc") /\ UNCHANGED <<blockVars, state>>
  <2>1. /\ pc' = [pc EXCEPT ![t] = "dealloc"] /\ subject' = [subject EXCEPT ![t] = t]
        /\ UNCHANGED <<blockVars, queue, port, state>>
    BY <1>3 DEF Take, Goto, blockVars
  <2>2. LifecycleTypeOK'
    BY <1>2, <2>1 DEF LifeInv, LifecycleTypeOK, BlockTypeOK, PCs, DeallocPCs
  <2>3. /\ pc'[t] = "dealloc" /\ subject'[t] = t /\ Waiters(Free)' = Waiters(Free)
        /\ \A u \in Threads : u # t => pc'[u] = pc[u] /\ subject'[u] = subject[u]
    BY <2>1, SameWaiters, Names DEF LifeInv, LifecycleTypeOK
  <2>4. Touches(t, t)
    BY <1>0, <1>2, <2>1, <2>3, Names DEF Touches, Untouched, LifeInv, LifecycleTypeOK
  <2>5. \A c \in Threads : ~Uses(c, t)
    BY <1>0, <1>1, <1>3 DEF UseFacts, StateFacts, Uses
  <2>6. t \notin known /\ t <= numThreads
    BY <1>0, <1>1, <1>3 DEF RunFacts
  <2>7. UseFacts(t, t)'
    BY <1>1, <1>2, <1>3, <2>1, <2>3, <2>6 DEF UseFacts, TableFacts, StateFacts, ThreadFacts, Halted, DeallocPCs, LookPCs
  <2>8. UseInv'
    <3>1. \A s \in Threads : Uses(t, s)' => s = t
      BY <2>3 DEF Uses
    <3> QED
      BY <2>3, <2>4, <2>5, <2>7, <3>1, UseKept
  <2>9. RunFacts(t)' /\ StackFacts(t)'
    BY <1>0, <1>1, <1>2, <2>1, <2>3, <2>6 DEF RunFacts, StackFacts, Halted, Active, DeallocPCs
  <2>10. LinksInv'
    BY <1>0, <1>1, <2>1, <2>4, LinksStay
  <2>11. CountInv'
    BY <1>0, <1>2, <2>1, <2>3, <2>4, CountKept DEF Counted, Active, DeallocPCs
  <2> QED
    BY <2>2, <2>4, <2>8, <2>9, <2>10, <2>11, RunKept, StackKept DEF LifeInv
<1>4. CASE /\ state[t] = "joinable" /\ state' = [state EXCEPT ![t] = "exited"]
           /\ Broadcast(t) /\ Goto(t, "halt") /\ UNCHANGED subject
  <2>1. pc' = [pc EXCEPT ![t] = "halt"] /\ UNCHANGED subject /\ state' = [state EXCEPT ![t] = "exited"]
    BY <1>4 DEF Goto
  <2>2. /\ BlockTypeOK' /\ \A q \in Queues : NoDuplicates(queue'[q])
        /\ \A q \in Queues : Waiters(q)' = IF q = t THEN {} ELSE Waiters(q)
        /\ \A u \in Threads : port'[u] => pc[u] = "joinwait" /\ ~Linked(u)'
    BY <1>4, BroadcastStep
  <2>3. LifecycleTypeOK'
    BY <1>2, <2>1, <2>2 DEF LifeInv, LifecycleTypeOK, PCs, ExitPCs
  <2>4. /\ pc'[t] = "halt" /\ state'[t] = "exited" /\ Waiters(Free)' = Waiters(Free)
        /\ \A u \in Threads : u # t => pc'[u] = pc[u] /\ state'[u] = state[u]
    BY <2>1, <2>2, Names DEF LifeInv, LifecycleTypeOK
  <2>5. Touches(t, t)
    BY <1>0, <1>2, <2>1, <2>4, Names DEF Touches, Untouched, LifeInv, LifecycleTypeOK
  <2>6. ASSUME NEW c \in Threads \ {t}, Uses(c, t) PROVE UseFacts(c, t)'
    BY <1>1, <1>2, <2>1, <2>4, <2>6 DEF UseFacts, TableFacts, StateFacts, ThreadFacts, LookPCs, DeallocPCs
  <2>7. pc'[t] \notin UsePCs
    BY <2>4 DEF UsePCs, CreatePCs, DeallocPCs, LookPCs
  <2>8. UseInv'
    BY <2>5, <2>6, <2>7, UseKept DEF Uses
  <2>9. RunFacts(t)' /\ StackFacts(t)'
    BY <1>0, <1>1, <1>2, <2>1, <2>4 DEF RunFacts, StackFacts, Halted, Active, DeallocPCs
  <2>10. LinksInv'
    <3>1. \A q \in Threads : \A u \in Waiters(q)' : u # t /\ u \in Waiters(q)
      BY <1>0, <2>2, Names DEF LifeInv, LinksInv
    <3>2. \A u \in Threads : port'[u] => u # t /\ pc[u] = "joinwait" /\ ~Linked(u)'
      BY <1>0, <2>2
    <3> QED
      BY <1>1, <2>2, <2>4, <2>5, <3>1, <3>2, LinksKept
  <2>11. CountInv'
    BY <1>0, <1>2, <2>1, <2>4, <2>5, CountKept DEF Counted, Active, DeallocPCs
  <2> QED
    BY <2>3, <2>5, <2>8, <2>9, <2>10, <2>11, RunKept, StackKept DEF LifeInv
<1> QED
  BY <1>3, <1>4 DEF LeaveState

\* The thread halts.
LEMMA HaltSelfStep ==
  ASSUME LifeInv, NEW t \in Threads, over = "no", HaltSelf(t)
  PROVE  LifeInv'
<1>0. /\ pc[t] = "halt" /\ kthread' = [kthread EXCEPT ![t] = "dead"]
      /\ pc' = [pc EXCEPT ![t] = "none", ![t] = "none"] /\ subject' = [subject EXCEPT ![t] = 0]
      /\ UNCHANGED <<blockVars, queue, port, table, numThreads, maxThreads, total, state, stack, stackaddr, kres,
                     tcb, pending, locked, setup, seen, known, mapped, over>>
  BY DEF HaltSelf, HaltThread, At, tableVars, blockVars
<1>1. /\ RunFacts(t) /\ StackFacts(t) /\ t <= numThreads /\ state[t] \in {"exited", "terminated"}
  BY <1>0 DEF LifeInv, RunFacts
<1>2. LifecycleTypeOK'
  BY <1>0 DEF LifeInv, LifecycleTypeOK, BlockTypeOK, PCs
<1>3. /\ pc'[t] = "none" /\ kthread'[t] = "dead" /\ Waiters(Free)' = Waiters(Free)
      /\ \A u \in Threads : u # t => pc'[u] = pc[u] /\ subject'[u] = subject[u] /\ kthread'[u] = kthread[u]
  BY <1>0, SameWaiters, Names DEF LifeInv, LifecycleTypeOK
<1>4. Touches(t, t)
  BY <1>0, <1>3, Names DEF Touches, Untouched, LifeInv, LifecycleTypeOK, UsePCs, CreatePCs, DeallocPCs, LookPCs
<1>5. ASSUME NEW c \in Threads \ {t}, Uses(c, t) PROVE UseFacts(c, t)'
  <2>1. UseFacts(c, t)
    BY <1>5 DEF LifeInv, UseInv
  <2> QED
    BY <1>0, <1>1, <1>3, <2>1 DEF UseFacts, TableFacts, StateFacts, ThreadFacts, Halted
<1>6. pc'[t] \notin UsePCs
  BY <1>3 DEF UsePCs, CreatePCs, DeallocPCs, LookPCs
<1>7. UseInv'
  BY <1>4, <1>5, <1>6, UseKept DEF Uses
<1>8. RunFacts(t)' /\ StackFacts(t)'
  BY <1>0, <1>1, <1>3 DEF RunFacts, StackFacts, Halted, Active
<1>9. ASSUME t \in Waiters(Free) PROVE FreeFacts(t)'
  <2>1. FreeFacts(t)
    BY <1>9 DEF LifeInv, LinksInv
  <2> QED
    BY <1>0, <1>1, <1>3, <2>1 DEF FreeFacts
<1>10. LinksInv'
  BY <1>0, <1>4, <1>9, LinksStay
<1>11. CountInv'
  BY <1>0, <1>1, <1>3, <1>4, CountKept DEF Counted, Active, DeallocPCs
<1> QED
  BY <1>2, <1>4, <1>7, <1>8, <1>10, <1>11, RunKept, StackKept DEF LifeInv

-----------------------------------------------------------------------------
(* Joining, detaching and cancelling.                                      *)

\* The program joins or detaches u, which it may do once: from here on u is in
\* the hands of t.
LEMMA JoinCallStep ==
  ASSUME LifeInv, NEW t \in Threads, NEW u \in Threads, over = "no", JoinCall(t, u)
  PROVE  LifeInv'
<1>0. /\ pc[t] = "run" /\ u \in known /\ u \in table /\ known' = known \ {u}
      /\ UNCHANGED <<blockVars, queue, port, table, numThreads, maxThreads, total, state, stack, stackaddr, kres,
                     kthread, tcb, pending, locked, setup, seen, mapped, over>>
  BY DEF JoinCall, At, Found, blockVars, tableVars, structVars
<1>1. PICK l \in {"join", "detach"} : pc' = [pc EXCEPT ![t] = l] /\ subject' = [subject EXCEPT ![t] = u]
  BY DEF JoinCall, Take, Goto
<1>2. /\ RunFacts(t) /\ RunFacts(u) /\ StackFacts(u) /\ state[u] \in {"joinable", "exited"} /\ u <= numThreads
      /\ u \notin Waiters(Free)
  BY <1>0 DEF LifeInv, RunFacts, LinksInv, FreeFacts
<1>3. \A c \in Threads : ~Uses(c, u)
  BY <1>0 DEF LifeInv, UseInv, UseFacts, TableFacts
<1>4. LifecycleTypeOK'
  BY <1>0, <1>1 DEF LifeInv, LifecycleTypeOK, BlockTypeOK, PCs, JoinPCs
<1>5. /\ pc'[t] = l /\ subject'[t] = u /\ Waiters(Free)' = Waiters(Free)
      /\ \A c \in Threads : c # t => pc'[c] = pc[c] /\ subject'[c] = subject[c]
      /\ \A s : s \in known' <=> s \in known /\ s # u
  BY <1>0, <1>1, SameWaiters, Names DEF LifeInv, LifecycleTypeOK
<1>6. Touches(t, u)
  BY <1>0, <1>5, Names DEF Touches, Untouched, LifeInv, LifecycleTypeOK, UsePCs, CreatePCs, DeallocPCs, LookPCs
<1>7. UseFacts(t, u)'
  BY <1>0, <1>2, <1>5 DEF UseFacts, TableFacts, StateFacts, ThreadFacts, DeallocPCs, LookPCs
<1>8. UseInv'
  <2>1. \A s \in Threads : Uses(t, s)' => s = u
    BY <1>5 DEF Uses
  <2> QED
    BY <1>3, <1>5, <1>6, <1>7, <2>1, UseKept
<1>9. RunFacts(t)' /\ RunFacts(u)' /\ StackFacts(u)'
  BY <1>0, <1>2, <1>5 DEF RunFacts, StackFacts, Halted, Active, DeallocPCs
<1>10. LinksInv'
  BY <1>0, <1>2, <1>6, LinksStay
<1>11. CountInv'
  BY <1>0, <1>2, <1>5, <1>6, CountKept DEF Counted, Active, DeallocPCs
<1> QED
  BY <1>4, <1>6, <1>8, <1>9, <1>10, <1>11, RunKept, StackKept DEF LifeInv

\* What a call that looks at x relies on.
LEMMA LookFacts ==
  ASSUME LifeInv, NEW t \in Threads, pc[t] \in LookPCs
  PROVE  /\ pc[t] \in UsePCs /\ subject[t] \in Threads /\ Uses(t, subject[t]) /\ UseFacts(t, subject[t])
         /\ RunFacts(subject[t]) /\ StackFacts(subject[t]) /\ RunFacts(t)
         /\ subject[t] \in table /\ subject[t] \notin known /\ subject[t] \notin Waiters(Free)
         /\ state[subject[t]] \in {"joinable", "exited"}
         /\ stack[subject[t]] => kres[subject[t]]
         /\ state[subject[t]] = "exited" => pc[subject[t]] \in {"none", "halt"}
<1>1. pc[t] \in UsePCs /\ pc[t] \notin {"mark", "kernel"} /\ pc[t] \notin DeallocPCs
  BY DEF UsePCs, LookPCs, DeallocPCs
<1>x. PICK x \in Threads : x = subject[t]
  BY <1>1, InHand
<1>2. /\ Uses(t, x) /\ UseFacts(t, x) /\ RunFacts(x) /\ StackFacts(x) /\ RunFacts(t)
      /\ \A c \in Threads \ {t} : ~Uses(c, x)
      /\ stack[x] => kres[x]
  BY <1>1, <1>x, InHand
<1>3. /\ x \in table /\ x \notin known /\ x \notin Waiters(Free) /\ state[x] \in {"joinable", "exited"}
  BY <1>1, <1>2 DEF UseFacts, TableFacts, StateFacts
<1>4. ASSUME state[x] = "exited" PROVE pc[x] \in {"none", "halt"}
  <2>1. ASSUME pc[x] \in DeallocPCs, subject[x] = x PROVE FALSE
    BY <1>1, <1>2, <2>1 DEF Uses, UsePCs
  <2> QED
    BY <1>2, <1>4, <2>1 DEF RunFacts, Active
<1> QED
  BY <1>1, <1>x, <1>2, <1>3, <1>4

\* An exited thread is found: it is to be reaped.
LEMMA ToReapStep ==
  ASSUME LifeInv, NEW t \in Threads, over = "no", pc[t] \in {"join", "detach"}, state[subject[t]] = "exited",
         Goto(t, "reap"),
         UNCHANGED <<blockVars, tableVars, total, structVars, subject, setup, seen, known, mapped, over>>
  PROVE  LifeInv'
<1>x. PICK x \in Threads : x = subject[t]
  BY LookFacts DEF LookPCs
<1>0. pc[t] \in LookPCs /\ pc[t] # "joinwait"
  BY DEF LookPCs
<1>1. /\ pc[t] \in UsePCs /\ UseFacts(t, x) /\ RunFacts(x) /\ StackFacts(x) /\ RunFacts(t) /\ Uses(t, x)
      /\ x \in table /\ x \notin known /\ x \notin Waiters(Free) /\ (stack[x] => kres[x])
      /\ state[x] = "exited" /\ pc[x] \in {"none", "halt"} /\ x # t
  BY <1>x, <1>0, LookFacts
<1>2. /\ pc' = [pc EXCEPT ![t] = "reap"]
      /\ UNCHANGED <<blockVars, queue, port, table, numThreads, maxThreads, total, state, stack, stackaddr, kres,
                     kthread, tcb, pending, locked, subject, setup, seen, known, mapped, over>>
  BY DEF Goto, blockVars, tableVars, structVars
<1>3. LifecycleTypeOK'
  BY <1>2 DEF LifeInv, LifecycleTypeOK, BlockTypeOK, PCs, JoinPCs
<1>4. /\ pc'[t] = "reap" /\ Waiters(Free)' = Waiters(Free)
      /\ \A u \in Threads : u # t => pc'[u] = pc[u]
  BY <1>2, SameWaiters, Names DEF LifeInv, LifecycleTypeOK
<1>5. Touches(t, x)
  BY <1>x, <1>1, <1>2, <1>4, Names DEF Touches, Untouched, LifeInv, LifecycleTypeOK
<1>6. UseFacts(t, x)'
  BY <1>1, <1>2, <1>4 DEF UseFacts, TableFacts, StateFacts, ThreadFacts, DeallocPCs, LookPCs
<1>7. RunFacts(t)' /\ RunFacts(x)' /\ StackFacts(x)'
  BY <1>1, <1>2, <1>4 DEF RunFacts, StackFacts, Halted, Active, DeallocPCs
<1>8. CountInv'
  BY <1>1, <1>2, <1>4, <1>5, CountKept DEF Counted, Active, DeallocPCs
<1> QED
  BY <1>x, <1>0, <1>1, <1>2, <1>3, <1>5, <1>6, <1>7, <1>8, HandStep

\* A cancelled join gives up the thread it was to join, which can be joined again.
LEMMA JoinCancelledStep ==
  ASSUME LifeInv, NEW t \in Threads, over = "no", pc[t] \in {"join", "joinwait"}, JoinCancelled(t),
         UNCHANGED <<queue, tableVars, total, state, stack, stackaddr, kres, kthread, tcb, pending,
                     setup, seen, mapped, over>>,
         port' \in [Threads -> BOOLEAN],
         ~Linked(t), ~port'[t], \A u \in Threads : port'[u] => port[u]
  PROVE  LifeInv'
<1>x. PICK x \in Threads : x = subject[t]
  BY LookFacts DEF LookPCs
<1>1. /\ pc[t] \in UsePCs /\ UseFacts(t, x) /\ RunFacts(x) /\ StackFacts(x) /\ RunFacts(t) /\ Uses(t, x)
      /\ x \in table /\ x \notin known /\ x \notin Waiters(Free) /\ (stack[x] => kres[x])
      /\ state[x] \in {"joinable", "exited"}
  BY <1>x, LookFacts DEF LookPCs
<1>2. /\ pc' = [pc EXCEPT ![t] = "cleanup"] /\ subject' = [subject EXCEPT ![t] = 0]
      /\ locked' = [locked EXCEPT ![x] = t] /\ known' = known \cup {x}
      /\ UNCHANGED <<table, numThreads, maxThreads>>
  BY <1>x DEF JoinCancelled, Take, Goto, tableVars
<1>3. LifecycleTypeOK'
  BY <1>2 DEF LifeInv, LifecycleTypeOK, BlockTypeOK, PCs, ExitPCs
<1>4. /\ pc'[t] = "cleanup" /\ subject'[t] = 0
      /\ \A q \in Queues : Waiters(q)' = Waiters(q)
      /\ \A u \in Threads : Linked(u)' <=> Linked(u)
      /\ Waiters(Free)' = Waiters(Free)
      /\ \A u \in Threads : u # t => pc'[u] = pc[u] /\ subject'[u] = subject[u]
  BY <1>2, SameWaiters, Names DEF LifeInv, LifecycleTypeOK
<1>5. Touches(t, x)
  BY <1>x, <1>1, <1>2, <1>4, Names DEF Touches, Untouched, LifeInv, LifecycleTypeOK
<1>6. UseInv'
  <2>1. pc'[t] \notin UsePCs
    BY <1>4 DEF UsePCs, CreatePCs, DeallocPCs, LookPCs
  <2> QED
    BY <1>1, <1>5, <2>1, UseMine
<1>7. RunFacts(t)' /\ RunFacts(x)' /\ StackFacts(x)'
  BY <1>1, <1>2, <1>4 DEF RunFacts, StackFacts, Halted, Active, DeallocPCs
<1>8. LinksInv'
  <2>1. \A q \in Threads : \A u \in Waiters(q)' : u # t /\ u \in Waiters(q)
    BY <1>4, Names DEF Linked
  <2>2. \A u \in Threads : port'[u] => u # t /\ pc[u] = "joinwait" /\ ~Linked(u)'
    BY <1>4 DEF LifeInv, LinksInv
  <2>3. BlockTypeOK' /\ \A q \in Queues : NoDuplicates(queue'[q])
    BY <1>3 DEF LifecycleTypeOK, LifeInv, LinksInv
  <2> QED
    BY <1>1, <1>4, <1>5, <2>1, <2>2, <2>3, LinksKept
<1>9. CountInv'
  BY <1>1, <1>2, <1>4, <1>5, CountKept DEF Counted, Active, DeallocPCs
<1> QED
  BY <1>3, <1>5, <1>6, <1>7, <1>8, <1>9, RunKept, StackKept DEF LifeInv

\* A running thread that does not wait is on no queue.
LEMMA NotLinked ==
  ASSUME LifeInv, NEW t \in Threads, Active(t), pc[t] # "joinwait"
  PROVE  ~Linked(t) /\ ~port[t]
<1>1. ASSUME NEW q \in Queues, t \in Waiters(q) PROVE FALSE
  BY <1>1, WaitsOnce, Running, Names
<1> QED
  BY <1>1 DEF Linked, LifeInv, LinksInv

\* The state is looked at: wait, give up, or reap.
LEMMA JoinLookStep ==
  ASSUME LifeInv, NEW t \in Threads, over = "no", JoinLook(t)
  PROVE  LifeInv'
<1>0. /\ pc[t] = "join" /\ pc[t] \in LookPCs /\ Active(t)
      /\ UNCHANGED <<tableVars, total, state, stack, stackaddr, kres, kthread, tcb, pending,
                     setup, seen, mapped, over>>
  BY DEF JoinLook, At, LookPCs, Active, DeallocPCs
<1>x. PICK x \in Threads : x = subject[t]
  BY <1>0, LookFacts
<1>1. /\ pc[t] \in UsePCs /\ UseFacts(t, x) /\ RunFacts(x) /\ StackFacts(x) /\ RunFacts(t) /\ Uses(t, x)
      /\ x \in table /\ x \notin known /\ x \notin Waiters(Free) /\ (stack[x] => kres[x])
      /\ state[x] \in {"joinable", "exited"}
  BY <1>x, <1>0, LookFacts
<1>2. ~Linked(t) /\ ~port[t]
  BY <1>0, NotLinked
<1>3. CASE Enqueue(x, t) /\ Goto(t, "joinwait") /\ UNCHANGED <<port, locked, known, subject>>
  <2>1. /\ pc' = [pc EXCEPT ![t] = "joinwait"]
        /\ UNCHANGED <<table, numThreads, maxThreads, port, locked, known, subject>>
    BY <1>0, <1>3 DEF Goto, tableVars
  <2>2. /\ queue' \in [Queues -> Seq(Threads)]
        /\ \A q \in Queues : NoDuplicates(queue'[q])
        /\ \A q \in Queues : Waiters(q)' = IF q = x THEN Waiters(q) \cup {t} ELSE Waiters(q)
        /\ \A u \in Threads : Linked(u)' <=> (u = t \/ Linked(u))
    BY <1>2, <1>3, EnqueueStep, Names DEF LifeInv, LinksInv, LifecycleTypeOK
  <2>3. LifecycleTypeOK'
    BY <1>0, <2>1, <2>2 DEF LifeInv, LifecycleTypeOK, BlockTypeOK, PCs, JoinPCs
  <2>4. /\ pc'[t] = "joinwait" /\ Waiters(Free)' = Waiters(Free)
        /\ \A u \in Threads : u # t => pc'[u] = pc[u]
    BY <2>1, <2>2, Names DEF LifeInv, LifecycleTypeOK
  <2>5. Touches(t, x)
    BY <1>0, <1>x, <1>1, <2>1, <2>4, Names DEF Touches, Untouched, LifeInv, LifecycleTypeOK
  <2>6. UseFacts(t, x)'
    BY <1>0, <1>1, <2>1, <2>4 DEF UseFacts, TableFacts, StateFacts, ThreadFacts, DeallocPCs, LookPCs
  <2>7. UseInv'
    BY <1>x, <1>1, <2>1, <2>5, <2>6, UseMine
  <2>8. RunFacts(t)' /\ RunFacts(x)' /\ StackFacts(x)'
    BY <1>0, <1>1, <2>1, <2>4 DEF RunFacts, StackFacts, Halted, Active, DeallocPCs
  <2>9. LinksInv'
    <3>1. ASSUME NEW q \in Threads, NEW u \in Waiters(q)'
          PROVE  IF u = t THEN pc'[t] = "joinwait" /\ subject'[t] = q ELSE u \in Waiters(q)
      <4>1. q \in Queues /\ (q # x => u \in Waiters(q)) /\ (u # t => u \in Waiters(q))
        BY <2>2, Names
      <4> QED
        BY <1>x, <1>2, <2>1, <2>4, <4>1 DEF Linked
    <3>2. \A u \in Threads : port'[u] => u # t /\ pc[u] = "joinwait" /\ ~Linked(u)'
      BY <1>2, <2>1, <2>2 DEF LifeInv, LinksInv
    <3>3. BlockTypeOK'
      BY <2>3 DEF LifecycleTypeOK
    <3> QED
      BY <1>1, <2>2, <2>4, <2>5, <3>1, <3>2, <3>3, LinksKept
  <2>10. CountInv'
    BY <1>0, <1>1, <2>1, <2>4, <2>5, CountKept DEF Counted, Active, DeallocPCs
  <2> QED
    BY <2>3, <2>5, <2>7, <2>8, <2>9, <2>10, RunKept, StackKept DEF LifeInv
<1>4. CASE JoinCancelled(t) /\ UNCHANGED blockVars
  <2>1. UNCHANGED <<queue, port>> /\ port' \in [Threads -> BOOLEAN]
    BY <1>4 DEF blockVars, LifeInv, LifecycleTypeOK, BlockTypeOK
  <2> QED
    BY <1>0, <1>2, <1>4, <2>1, JoinCancelledStep
<1>5. CASE state[x] = "exited" /\ Goto(t, "reap") /\ UNCHANGED <<blockVars, locked, known, subject>>
  <2>1. UNCHANGED structVars
    BY <1>0, <1>5 DEF structVars
  <2> QED
    BY <1>0, <1>x, <1>5, <2>1, ToReapStep
<1> QED
  BY <1>x, <1>3, <1>4, <1>5 DEF JoinLook

\* The wait is over.
LEMMA JoinWokenStep ==
  ASSUME LifeInv, NEW t \in Threads, over = "no", JoinWoken(t)
  PROVE  LifeInv'
<1>0. /\ pc[t] = "joinwait" /\ pc[t] \in LookPCs /\ port[t] /\ port' = [port EXCEPT ![t] = FALSE]
      /\ UNCHANGED <<queue, tableVars, total, state, stack, stackaddr, kres, kthread, tcb, pending,
                     setup, seen, mapped, over>>
  BY DEF JoinWoken, At, Block, LookPCs
<1>x. PICK x \in Threads : x = subject[t]
  BY <1>0, LookFacts
<1>1. /\ pc[t] \in UsePCs /\ UseFacts(t, x) /\ RunFacts(x) /\ StackFacts(x) /\ RunFacts(t) /\ Uses(t, x)
      /\ x \in table /\ x \notin known /\ x \notin Waiters(Free) /\ (stack[x] => kres[x])
      /\ state[x] \in {"joinable", "exited"}
  BY <1>x, <1>0, LookFacts
<1>2. ~Linked(t)
  BY <1>0 DEF LifeInv, LinksInv
<1>3. port' \in [Threads -> BOOLEAN] /\ ~port'[t] /\ \A u \in Threads : port'[u] => port[u]
  BY <1>0 DEF LifeInv, LifecycleTypeOK, BlockTypeOK
<1>4. CASE JoinCancelled(t)
  BY <1>0, <1>2, <1>3, <1>4, JoinCancelledStep
<1>5. CASE Goto(t, "join") /\ UNCHANGED <<locked, known, subject>>
  <2>1. /\ pc' = [pc EXCEPT ![t] = "join"]
        /\ UNCHANGED <<queue, table, numThreads, maxThreads, locked, known, subject>>
    BY <1>0, <1>5 DEF Goto, tableVars
  <2>2. LifecycleTypeOK'
    BY <1>0, <1>3, <2>1 DEF LifeInv, LifecycleTypeOK, BlockTypeOK, PCs, JoinPCs
  <2>3. /\ pc'[t] = "join" /\ Waiters(Free)' = Waiters(Free)
        /\ \A q \in Queues : Waiters(q)' = Waiters(q)
        /\ \A u \in Threads : Linked(u)' <=> Linked(u)
        /\ \A u \in Threads : u # t => pc'[u] = pc[u]
    BY <2>1, SameWaiters, Names DEF LifeInv, LifecycleTypeOK
  <2>4. Touches(t, x)
    BY <1>0, <1>x, <1>1, <2>1, <2>3, Names DEF Touches, Untouched, LifeInv, LifecycleTypeOK
  <2>5. UseFacts(t, x)'
    BY <1>0, <1>1, <2>1, <2>3 DEF UseFacts, TableFacts, StateFacts, ThreadFacts, DeallocPCs, LookPCs
  <2>6. UseInv'
    BY <1>x, <1>1, <2>1, <2>4, <2>5, UseMine
  <2>7. RunFacts(t)' /\ RunFacts(x)' /\ StackFacts(x)'
    BY <1>0, <1>1, <2>1, <2>3 DEF RunFacts, StackFacts, Halted, Active, DeallocPCs
  <2>8. LinksInv'
    <3>1. \A q \in Threads : \A u \in Waiters(q)' : u # t /\ u \in Waiters(q)
      BY <1>2, <2>3, Names DEF Linked
    <3>2. \A u \in Threads : port'[u] => u # t /\ pc[u] = "joinwait" /\ ~Linked(u)'
      BY <1>3, <2>3 DEF LifeInv, LinksInv
    <3>3. BlockTypeOK' /\ \A q \in Queues : NoDuplicates(queue'[q])
      BY <2>1, <2>2 DEF LifecycleTypeOK, LifeInv, LinksInv
    <3> QED
      BY <1>1, <2>3, <2>4, <3>1, <3>2, <3>3, LinksKept
  <2>9. CountInv'
    BY <1>0, <1>1, <2>1, <2>3, <2>4, CountKept DEF Counted, Active, DeallocPCs
  <2> QED
    BY <2>2, <2>4, <2>6, <2>7, <2>8, <2>9, RunKept, StackKept DEF LifeInv
<1> QED
  BY <1>4, <1>5 DEF JoinWoken

\* An exited thread is halted and its stack unmapped.
LEMMA ReapStep ==
  ASSUME LifeInv, NEW t \in Threads, over = "no", Reap(t)
  PROVE  LifeInv'
<1>0. pc[t] = "reap" /\ pc[t] \in UsePCs
  BY DEF Reap, At, UsePCs
<1>x. PICK x \in Threads : x = subject[t]
  BY <1>0, InHand
<1>1. /\ UseFacts(t, x) /\ RunFacts(x) /\ StackFacts(x) /\ RunFacts(t) /\ Uses(t, x)
      /\ x # t /\ pc[x] \in {"none", "halt"} /\ x \in table /\ x \notin Waiters(Free) /\ x \notin known
      /\ state[x] = "exited" /\ (stack[x] => kres[x])
  BY <1>0, <1>x, InHand DEF UseFacts, ThreadFacts, StateFacts, TableFacts
<1>2. CASE Abort
  BY <1>2, AbortKeeps
<1>3. CASE ~Abort
  <2>1. /\ pc' = [pc EXCEPT ![t] = "dealloc", ![x] = "none"]
        /\ kthread' = [kthread EXCEPT ![x] = "dead"]
        /\ mapped' = mapped \ {stackaddr[x]} /\ stack' = [stack EXCEPT ![x] = FALSE]
        /\ UNCHANGED <<blockVars, queue, port, table, numThreads, maxThreads, total, state, stackaddr,
                       kres, tcb, pending, locked, subject, setup, seen, known, over>>
    BY <1>3, <1>x DEF Reap, HaltThread, UnmapStack, tableVars, blockVars
  <2>2. LifecycleTypeOK'
    BY <2>1 DEF LifeInv, LifecycleTypeOK, BlockTypeOK, PCs, DeallocPCs
  <2>3. /\ pc'[t] = "dealloc" /\ pc'[x] = "none" /\ Waiters(Free)' = Waiters(Free)
        /\ \A u \in Threads : u # t /\ u # x => pc'[u] = pc[u]
        /\ \A u \in Threads : u # x => kthread'[u] = kthread[u] /\ stack'[u] = stack[u]
        /\ \A u \in Threads : u # x => (u \in mapped' <=> u \in mapped)
        /\ kthread'[x] = "dead" /\ ~stack'[x]
    BY <1>1, <2>1, SameWaiters, Names DEF LifeInv, LifecycleTypeOK, StackFacts
  <2>4. Touches(t, x)
    BY <1>0, <1>x, <1>1, <2>1, <2>3, Names DEF Touches, Untouched, LifeInv, LifecycleTypeOK
  <2>5. UseFacts(t, x)'
    BY <1>0, <1>1, <2>1, <2>3 DEF UseFacts, TableFacts, StateFacts, ThreadFacts, Halted, DeallocPCs, LookPCs
  <2>6. RunFacts(t)' /\ RunFacts(x)' /\ StackFacts(x)'
    BY <1>0, <1>x, <1>1, <2>1, <2>3 DEF RunFacts, StackFacts, Halted, Active, DeallocPCs
  <2>7. CountInv'
    BY <1>0, <1>x, <1>1, <2>1, <2>3, <2>4, CountKept DEF Counted, Active, DeallocPCs
  <2> QED
    BY <1>0, <1>x, <1>1, <2>1, <2>2, <2>4, <2>5, <2>6, <2>7, HandStep
<1> QED
  BY <1>2, <1>3

\* pthread_detach: the thread will give its structure back itself, or is reaped.
LEMMA DetachLookStep ==
  ASSUME LifeInv, NEW t \in Threads, over = "no", DetachLook(t)
  PROVE  LifeInv'
<1>0. /\ pc[t] = "detach" /\ pc[t] \in LookPCs
      /\ UNCHANGED <<tableVars, total, stack, stackaddr, kres, kthread, tcb, pending, locked,
                     setup, seen, known, mapped, over>>
  BY DEF DetachLook, At, LookPCs
<1>x. PICK x \in Threads : x = subject[t]
  BY <1>0, LookFacts
<1>1. /\ pc[t] \in UsePCs /\ UseFacts(t, x) /\ RunFacts(x) /\ StackFacts(x) /\ RunFacts(t) /\ Uses(t, x)
      /\ x \in table /\ x \notin known /\ x \notin Waiters(Free) /\ (stack[x] => kres[x])
  BY <1>x, <1>0, LookFacts
<1>2. CASE state[x] = "joinable" /\ state' = [state EXCEPT ![x] = "detached"] /\ Broadcast(x) /\ Return(t)
  <2>1. UNCHANGED <<queue, port>>
    BY <1>0, <1>x, <1>1, <1>2, NobodyToTell
  <2>2. /\ pc' = [pc EXCEPT ![t] = "run"] /\ subject' = [subject EXCEPT ![t] = 0]
        /\ state' = [state EXCEPT ![x] = "detached"]
        /\ UNCHANGED <<blockVars, queue, port, table, numThreads, maxThreads>>
    BY <1>0, <1>2, <2>1 DEF Return, Take, Goto, tableVars, blockVars
  <2>3. LifecycleTypeOK'
    BY <1>0, <2>2 DEF LifeInv, LifecycleTypeOK, BlockTypeOK, PCs
  <2>4. /\ pc'[t] = "run" /\ Waiters(Free)' = Waiters(Free) /\ state'[x] = "detached"
        /\ \A u \in Threads : u # t => pc'[u] = pc[u] /\ subject'[u] = subject[u]
        /\ \A u \in Threads : u # x => state'[u] = state[u]
    BY <2>2, SameWaiters, Names DEF LifeInv, LifecycleTypeOK
  <2>5. Touches(t, x)
    BY <1>0, <1>x, <1>1, <2>2, <2>4, Names DEF Touches, Untouched, LifeInv, LifecycleTypeOK
  <2>6. pc'[t] \notin UsePCs
    BY <2>4 DEF UsePCs, CreatePCs, DeallocPCs, LookPCs
  <2>7. RunFacts(t)' /\ RunFacts(x)' /\ StackFacts(x)'
    BY <1>0, <1>1, <1>2, <2>2, <2>4 DEF RunFacts, StackFacts, Halted, Active, DeallocPCs
  <2>8. CountInv'
    BY <1>0, <1>1, <1>2, <2>2, <2>4, <2>5, CountKept DEF Counted, Active, DeallocPCs
  <2> QED
    BY <1>0, <1>1, <2>2, <2>3, <2>5, <2>6, <2>7, <2>8, HandStep
<1>3. CASE state[x] = "exited" /\ Goto(t, "reap") /\ UNCHANGED <<blockVars, state, subject>>
  <2>1. UNCHANGED structVars
    BY <1>0, <1>3 DEF structVars
  <2> QED
    BY <1>0, <1>x, <1>3, <2>1, ToReapStep
<1> QED
  BY <1>x, <1>2, <1>3 DEF DetachLook

\* pthread_cancel: a joiner is taken off its queue and woken up.
LEMMA CancelStep ==
  ASSUME LifeInv, NEW t \in Threads, NEW u \in Threads, over = "no", Cancel(t, u)
  PROVE  LifeInv'
<1>0. /\ pc[t] = "run" /\ u \in table /\ Dequeue(u) /\ pending' = [pending EXCEPT ![u] = TRUE]
      /\ port' = [port EXCEPT ![u] = @ \/ Linked(u)]
      /\ UNCHANGED <<table, numThreads, maxThreads, total, state, stack, stackaddr, kres, kthread, tcb, locked,
                     pc, subject, setup, seen, known, mapped, over>>
  BY DEF Cancel, At, Found, tableVars, callVars
<1>1. Active(t) /\ pc[t] \notin UsePCs
  BY <1>0 DEF Active, UsePCs, CreatePCs, DeallocPCs, LookPCs
<1>2. /\ RunFacts(t) /\ StackFacts(t) /\ t \notin Waiters(Free)
  BY <1>1, Running
<1>3. u \notin Waiters(Free)
  BY <1>0 DEF LifeInv, LinksInv, FreeFacts
<1>4. /\ queue' \in [Queues -> Seq(Threads)]
      /\ \A q \in Queues : NoDuplicates(queue'[q])
      /\ \A q \in Queues : Waiters(q)' = Waiters(q) \ {u}
      /\ \A w \in Threads : Linked(w)' <=> (w # u /\ Linked(w))
  BY <1>0, DequeueStep DEF LifeInv, LinksInv, LifecycleTypeOK
<1>5. Waiters(Free)' = Waiters(Free)
  BY <1>3, <1>4, Names
<1>6. /\ port' \in [Threads -> BOOLEAN]
      /\ \A w \in Threads : port'[w] => port[w] \/ (w = u /\ Linked(u))
  BY <1>0 DEF LifeInv, LifecycleTypeOK, BlockTypeOK, Linked
<1>7. LifecycleTypeOK'
  BY <1>0, <1>4, <1>6 DEF LifeInv, LifecycleTypeOK, BlockTypeOK
<1>8. Touches(t, t)
  BY <1>0, <1>1, <1>5, Names DEF Touches, Untouched, LifeInv, LifecycleTypeOK
<1>9. UseInv'
  <2>1. \A c, s \in Threads : Uses(c, s)' <=> Uses(c, s)
    BY <1>0 DEF Uses
  <2>2. ASSUME NEW c \in Threads, NEW s \in Threads, UseFacts(c, s) PROVE UseFacts(c, s)'
    BY <1>0, <1>5, <2>2 DEF UseFacts, TableFacts, StateFacts, ThreadFacts, Halted
  <2> QED
    BY <1>0, <2>1, <2>2 DEF LifeInv, UseInv
<1>10. RunFacts(t)' /\ StackFacts(t)'
  BY <1>0, <1>2 DEF RunFacts, StackFacts, Halted, Active
<1>11. LinksInv'
  <2>1. \A q \in Threads : \A w \in Waiters(q)' : w # t /\ w \in Waiters(q)
    BY <1>0, <1>4, Names DEF LifeInv, LinksInv
  <2>2. ASSUME NEW w \in Threads, port'[w] PROVE w # t /\ pc[w] = "joinwait" /\ ~Linked(w)'
    <3>1. CASE port[w]
      BY <1>0, <1>4, <3>1 DEF LifeInv, LinksInv
    <3>2. CASE w = u /\ Linked(u)
      <4>1. PICK q \in Queues : u \in Waiters(q)
        BY <3>2 DEF Linked
      <4>2. pc[u] = "joinwait"
        BY <1>3, <4>1, WaitsOnce, Names
      <4> QED
        BY <1>0, <1>4, <3>2, <4>2
    <3> QED
      BY <1>6, <2>2, <3>1, <3>2
  <2>3. BlockTypeOK'
    BY <1>7 DEF LifecycleTypeOK
  <2> QED
    BY <1>2, <1>4, <1>5, <1>8, <2>1, <2>2, <2>3, LinksKept
<1>12. CountInv'
  BY <1>0, <1>8, CountKept DEF Counted, Active
<1> QED
  BY <1>7, <1>8, <1>9, <1>10, <1>11, <1>12, RunKept, StackKept DEF LifeInv

-----------------------------------------------------------------------------
(* The theorems.                                                           *)

\* At the start there are the main thread, not counted, and the signal thread.
LEMMA LifeInit ==
  ASSUME LifecycleInit
  PROVE  LifeInv
<1>0. /\ table = {Main, SignalThread} /\ numThreads = 2 /\ total = 1 /\ known = {Main} /\ over = "no"
      /\ \A q \in Queues : queue[q] = <<>>
      /\ \A t \in Threads :
           /\ ~port[t] /\ subject[t] = 0 /\ stackaddr[t] = t
           /\ t \in Nat /\ state[t] \in {"joinable", "detached"} /\ (t # SignalThread => state[t] = "joinable")
           /\ (stack[t] <=> t <= 2) /\ (kres[t] <=> t <= 2)
           /\ kthread[t] = IF t <= 2 THEN "running" ELSE "none"
           /\ pc[t] = IF t = Main THEN "run" ELSE IF t = SignalThread THEN "server" ELSE "none"
      /\ mapped = {UserStack, Main, SignalThread}
  <2>1. \A t \in Threads : t \in Nat /\ t >= 1
    BY LifecycleAssumption
  <2>2. ASSUME NEW t \in Threads
        PROVE  /\ ~port[t] /\ subject[t] = 0 /\ stackaddr[t] = t
               /\ state[t] \in {"joinable", "detached"} /\ (t # SignalThread => state[t] = "joinable")
    BY DEF LifecycleInit, BlockInit
  <2>3. ASSUME NEW t \in Threads
        PROVE  /\ (stack[t] <=> t <= 2) /\ (kres[t] <=> t <= 2)
               /\ kthread[t] = IF t <= 2 THEN "running" ELSE "none"
    BY DEF LifecycleInit
  <2>4. ASSUME NEW t \in Threads
        PROVE  pc[t] = IF t = Main THEN "run" ELSE IF t = SignalThread THEN "server" ELSE "none"
    <3>1. pc[t] = CASE t = Main -> "run" [] t = SignalThread -> "server" [] OTHER -> "none"
      BY DEF LifecycleInit
    <3> QED
      BY <3>1, Names
  <2> QED
    BY <2>1, <2>2, <2>3, <2>4 DEF LifecycleInit, BlockInit
<1>a. Main = 1 /\ SignalThread = 2
  BY DEF Main, SignalThread
<1>b. \A t \in Threads : t \in Nat /\ t >= 1 /\ (t <= 2 <=> t \in {Main, SignalThread})
  BY <1>a, LifecycleAssumption
<1>1. LifecycleTypeOK
  <2>1. BlockTypeOK
    BY DEF LifecycleInit, BlockInit, BlockTypeOK
  <2>2. /\ table \subseteq Threads /\ known \subseteq Threads /\ mapped \subseteq Threads \cup {UserStack}
        /\ numThreads \in Threads /\ maxThreads \in Nat /\ total \in Nat /\ over = "no"
    BY Names, LifecycleAssumption DEF LifecycleInit, SignalThread
  <2>3. /\ state \in [Threads -> {"joinable", "detached", "exited", "terminated"}]
        /\ kthread \in [Threads -> {"none", "garbage", "suspended", "running", "dead"}]
        /\ stack \in [Threads -> BOOLEAN] /\ kres \in [Threads -> BOOLEAN]
        /\ tcb \in [Threads -> BOOLEAN] /\ pending \in [Threads -> BOOLEAN]
        /\ stackaddr \in [Threads -> Threads \cup {UserStack}]
        /\ locked \in [Threads -> Threads \cup {0}]
    BY DEF LifecycleInit
  <2>4. /\ pc \in [Threads -> PCs] /\ subject \in [Threads -> Threads \cup {0}]
        /\ setup \in [Threads -> AttrType] /\ seen \in [Threads -> Nat]
    BY AttrStates DEF LifecycleInit, PCs
  <2> QED
    BY <2>1, <2>2, <2>3, <2>4 DEF LifecycleTypeOK
<1>2. UseInv
  BY <1>0 DEF UseInv, Uses, UsePCs, CreatePCs, DeallocPCs, LookPCs
<1>3. ASSUME NEW t \in Threads PROVE RunFacts(t) /\ StackFacts(t)
  <2>1. RunFacts(t)
    BY <1>0, <1>a, <1>b DEF RunFacts, Active, DeallocPCs
  <2>2. StackFacts(t)
    BY <1>0, <1>b DEF StackFacts, Halted
  <2> QED
    BY <2>1, <2>2
<1>4. LinksInv
  <2>1. \A q \in Queues : Waiters(q) = {} /\ NoDuplicates(queue[q])
    BY <1>0 DEF Waiters, ToSet, NoDuplicates
  <2> QED
    BY <1>0, <2>1, Names DEF LinksInv
<1>5. CountInv
  <2>1. Counted = {Main, SignalThread}
    <3>1. \A t \in Threads : t \in Counted <=> t \in {Main, SignalThread}
      BY <1>0, <1>a DEF Counted, Active, DeallocPCs
    <3>2. \A t : t \in Counted => t \in Threads
      BY DEF Counted
    <3> QED
      BY <3>1, <3>2, Names
  <2>2. Cardinality({Main, SignalThread}) = 2
    <3>1. {Main, SignalThread} = {Main} \cup {SignalThread}
      OBVIOUS
    <3>2. IsFiniteSet({Main}) /\ Cardinality({Main}) = 1
      BY FS_Singleton
    <3> QED
      BY <1>a, <3>1, <3>2, FS_AddElement
  <2>3. pc[SignalThread] = "server"
    BY <1>0, <1>a, Names
  <2> QED
    BY <1>0, <2>1, <2>2, <2>3 DEF CountInv
<1> QED
  BY <1>1, <1>2, <1>3, <1>4, <1>5 DEF LifeInv

\* Every step preserves the invariant.
LEMMA LifeStep ==
  ASSUME LifeInv, [LifecycleNext]_vars
  PROVE  LifeInv'
<1>1. ASSUME NEW t \in Threads, over = "no", Create(t) PROVE LifeInv'
  BY <1>1, RecycleStep, SlotStep, GrowStep, FindStackStep, AllocThreadStep, SetupThreadStep, TlsFailsStep,
     PublishStep, StartThreadStep DEF Create
<1>2. ASSUME NEW t \in Threads, over = "no", Dealloc(t) PROVE LifeInv'
  BY <1>2, WithdrawStep, WakeJoinersStep, EnqueueFreeStep, MarkTerminatedStep DEF Dealloc
<1>3. ASSUME NEW t \in Threads, over = "no", Exit(t) PROVE LifeInv'
  BY <1>3, CleanupStep, UncountStep, LeaveStateStep, HaltSelfStep DEF Exit
<1>4. ASSUME NEW t \in Threads, over = "no", Join(t) PROVE LifeInv'
  BY <1>4, JoinLookStep, JoinWokenStep, ReapStep, DetachLookStep DEF Join
<1>5. ASSUME NEW t \in Threads, over = "no",
             \/ \E attr \in CallerAttrs : AllocStart(t, attr)
             \/ ExitCall(t) \/ TestCancel(t)
             \/ \E u \in Threads : JoinCall(t, u)
             \/ \E u \in Threads : Cancel(t, u)
      PROVE  LifeInv'
  BY <1>5, AllocStartStep, ExitCallStep, JoinCallStep, CancelStep DEF TestCancel
<1>6. CASE UNCHANGED vars
  <2>1. UNCHANGED <<queue, port, table, numThreads, maxThreads, total, state, stack, stackaddr, kres,
                    kthread, tcb, pending, locked, pc, subject, setup, seen, known, mapped, over>>
    BY <1>6 DEF vars, blockVars, tableVars, structVars, callVars
  <2>2. /\ \A q \in Queues : Waiters(q)' = Waiters(q)
        /\ \A u \in Threads : Linked(u)' <=> Linked(u)
    BY <2>1, SameWaiters
  <2>3. LifecycleTypeOK'
    BY <2>1 DEF LifeInv, LifecycleTypeOK, BlockTypeOK
  <2>4. UseInv'
    BY <2>1, <2>2, Names DEF LifeInv, UseInv, Uses, UseFacts, TableFacts, StateFacts, ThreadFacts, Halted
  <2>5. \A t \in Threads : RunFacts(t)' /\ StackFacts(t)'
    BY <2>1 DEF LifeInv, RunFacts, StackFacts, Active, Halted
  <2>6. LinksInv'
    BY <2>1, <2>2, Names DEF LifeInv, LinksInv, FreeFacts
  <2>7. Counted' = Counted
    BY <2>1 DEF Counted, Active
  <2> QED
    BY <2>1, <2>3, <2>4, <2>5, <2>6, <2>7 DEF LifeInv, CountInv
<1> QED
  BY <1>1, <1>2, <1>3, <1>4, <1>5, <1>6 DEF LifecycleNext, Continue

\* The invariant of the life cycle holds of every behaviour of pthread_create,
\* pthread_exit, pthread_join, pthread_detach and pthread_cancel.
THEOREM LifecycleInvariant == LifecycleSpec => []LifeInv
<1>1. LifecycleInit => LifeInv
  BY LifeInit
<1>2. LifeInv /\ [LifecycleNext]_vars => LifeInv'
  BY LifeStep
<1> QED
  BY <1>1, <1>2, PTL DEF LifecycleSpec

\* The thread table, the counters and every thread structure keep their types.
THEOREM LifecycleTypes == LifecycleSpec => []LifecycleTypeOK
<1>1. LifeInv => LifecycleTypeOK
  BY DEF LifeInv
<1> QED
  BY <1>1, LifecycleInvariant, PTL

\* The free list of __pthread_alloc is sound: it holds a structure once, never
\* one that can be found by its ID or that a thread is created in; one that it
\* says may be reused is used by nobody but a thread about to halt, and one
\* that was taken off it is in the hands of its creator alone.
THEOREM FreeListStaysSound == LifecycleSpec => []FreeListSound
<1>1. ASSUME LifeInv PROVE FreeListSound
  <2>0. CreatePCs \ {"slot", "grow"} \subseteq UsePCs /\ DeallocPCs \subseteq UsePCs
        /\ "mark" \notin CreatePCs
    BY DEF UsePCs, CreatePCs
  <2>1. NoDuplicates(queue[Free])
    BY <1>1, Names DEF LifeInv, LinksInv
  <2>2. ASSUME NEW s \in Waiters(Free) PROVE s \in Threads /\ s \notin table /\ ~BeingCreated(s)
    <3>1. s \in Threads /\ FreeFacts(s)
      BY <1>1, Names, WaitersAreThreads DEF LifeInv, LinksInv, LifecycleTypeOK
    <3>2. ASSUME NEW c \in Threads, subject[c] = s, pc[c] \in CreatePCs \ {"slot", "grow"} PROVE FALSE
      <4>1. UseFacts(c, s)
        BY <1>1, <2>0, <3>1, <3>2 DEF Uses, LifeInv, UseInv
      <4> QED
        BY <2>0, <3>2, <4>1 DEF UseFacts, TableFacts
    <3> QED
      BY <3>1, <3>2 DEF FreeFacts, BeingCreated
  <2>3. ASSUME NEW s \in Waiters(Free), state[s] = "terminated"
        PROVE  /\ pc[s] \in {"none", "halt"}
               /\ \A c \in Threads \ {s} : subject[c] = s => pc[c] \notin DeallocPCs
    BY <1>1, <2>0, <2>3, ReusableFacts DEF Uses
  <2>4. CreationIsPrivate
    <3>1. ASSUME NEW c \in Threads, NEW d \in Threads, subject[c] = subject[d], c # d,
                 pc[c] \in CreatePCs \ {"slot", "grow"},
                 pc[d] \in DeallocPCs \cup (CreatePCs \ {"slot", "grow"})
          PROVE  FALSE
      <4>1. pc[c] \in UsePCs /\ pc[d] \in UsePCs
        BY <2>0, <3>1
      <4>2. PICK s \in Threads : s = subject[c]
        BY <1>1, <4>1 DEF LifeInv, UseInv
      <4> QED
        BY <1>1, <3>1, <4>1, <4>2 DEF Uses, LifeInv, UseInv
    <3> QED
      BY <3>1 DEF CreationIsPrivate
  <2> QED
    BY <2>1, <2>2, <2>3, <2>4 DEF FreeListSound
<1> QED
  BY <1>1, LifecycleInvariant, PTL

\* No thread runs on a stack that pthread_join, pthread_detach or a failed
\* pthread_create has unmapped.
THEOREM StacksStayAlive == LifecycleSpec => []StackAlive
<1>1. LifeInv => StackAlive
  BY DEF LifeInv, StackFacts, Halted, StackAlive
<1> QED
  BY <1>1, LifecycleInvariant, PTL

\* __pthread_getid finds every thread that the program may still join or
\* detach, also while __pthread_alloc enlarges the table.
THEOREM JoinableAreFound == LifecycleSpec => []FoundByID
<1>1. ASSUME LifeInv PROVE FoundByID
  <2>1. \A t \in known : t \in Threads
    BY <1>1 DEF LifeInv, LifecycleTypeOK
  <2> QED
    BY <1>1, <2>1 DEF LifeInv, RunFacts, FoundByID
<1> QED
  BY <1>1, LifecycleInvariant, PTL

\* __pthread_exit calls exit (0) in the last thread only, though the main
\* thread is not counted in __pthread_total.
THEOREM OnlyLastThreadExits == LifecycleSpec => []LastThreadExits
<1>1. ASSUME LifeInv PROVE LastThreadExits
  <2>1. ASSUME over = "exit", NEW t \in Threads \ {SignalThread}, kthread[t] = "running"
        PROVE  pc[t] \in {"exiting", "halt"} \/ (pc[t] \in DeallocPCs /\ subject[t] = t)
    <3>1. t \notin Counted /\ RunFacts(t)
      BY <1>1, <2>1 DEF LifeInv, CountInv
    <3> QED
      BY <2>1, <3>1 DEF Counted, RunFacts, Active
  <2> QED
    BY <2>1 DEF LastThreadExits
<1> QED
  BY <1>1, LifecycleInvariant, PTL

-----------------------------------------------------------------------------
(* Attribute objects, for every stack size, page size and clock.  The      *)
(* setters have no loop and no state of their own, so what one call keeps  *)
(* every sequence of calls keeps.                                          *)

\* What __pthread_stack_alloc and the thread structure rely on: the one stack
\* size there is, and an address aligned to it.
AttrSound(a) == /\ a \in AttrType
                /\ a.stacksize = StackSize
                /\ a.stackaddr % StackSize = 0

\* r is what a setter makes of a thread's attribute object a.
SetterCall(a, r) ==
  \/ \E x \in STRING : \/ r = pthread_attr_setdetachstate(a, x)
                       \/ r = pthread_attr_setinheritsched(a, x)
                       \/ r = pthread_attr_setschedpolicy(a, x)
                       \/ r = pthread_attr_setscope(a, x)
  \/ \E n \in Nat : \/ r = pthread_attr_setguardsize(a, n)
                    \/ r = pthread_attr_setschedparam(a, n)
                    \/ r = pthread_attr_setstackaddr(a, n)
                    \/ r = pthread_attr_setstacksize(a, n)
                    \/ \E m \in Nat : r = pthread_attr_setstack(a, n, m)

\* pthread_attr_init returns a sound object.
THEOREM AttrInitSound == \A a : AttrSound(pthread_attr_init(a).attr)
  BY AttrAssumption DEF AttrSound, pthread_attr_init, Set, Result, DefaultAttr, AttrType, NULL

\* Whatever is passed to a setter, the object stays sound, and a setter that
\* returns an error has changed nothing: the size that pthread_attr_setstack
\* sets before the address is refused is set back.
THEOREM AttrStaysSound ==
  ASSUME NEW a, NEW r, AttrSound(a), SetterCall(a, r)
  PROVE  AttrSound(r.attr) /\ (r.err # "0" => r.attr = a)
<1> USE AttrAssumption DEF AttrSound, Set, Result
<1>1. ASSUME NEW x \in STRING, r = pthread_attr_setdetachstate(a, x)
      PROVE  AttrSound(r.attr) /\ (r.err # "0" => r.attr = a)
  BY <1>1 DEF pthread_attr_setdetachstate, AttrType
<1>2. ASSUME NEW x \in STRING, r = pthread_attr_setinheritsched(a, x)
      PROVE  AttrSound(r.attr) /\ (r.err # "0" => r.attr = a)
  BY <1>2 DEF pthread_attr_setinheritsched, AttrType
<1>3. ASSUME NEW x \in STRING, r = pthread_attr_setschedpolicy(a, x)
      PROVE  AttrSound(r.attr) /\ (r.err # "0" => r.attr = a)
  <2>1. CASE x = "other"
    BY <1>3, <2>1 DEF pthread_attr_setschedpolicy, AttrType
  <2>2. CASE x # "other"
    <3>1. r.attr = a
      BY <1>3, <2>2 DEF pthread_attr_setschedpolicy
    <3> QED  BY <3>1
  <2> QED  BY <2>1, <2>2
<1>4. ASSUME NEW x \in STRING, r = pthread_attr_setscope(a, x)
      PROVE  AttrSound(r.attr) /\ (r.err # "0" => r.attr = a)
  <2>1. CASE x = DefaultAttr.contentionscope
    BY <1>4, <2>1 DEF pthread_attr_setscope, AttrType, DefaultAttr
  <2>2. CASE x # DefaultAttr.contentionscope
    <3>1. r.attr = a
      BY <1>4, <2>2 DEF pthread_attr_setscope
    <3> QED  BY <3>1
  <2> QED  BY <2>1, <2>2
<1>5. ASSUME NEW n \in Nat, r = pthread_attr_setguardsize(a, n)
      PROVE  AttrSound(r.attr) /\ (r.err # "0" => r.attr = a)
  BY <1>5 DEF pthread_attr_setguardsize, AttrType
<1>6. ASSUME NEW n \in Nat, r = pthread_attr_setschedparam(a, n)
      PROVE  AttrSound(r.attr) /\ (r.err # "0" => r.attr = a)
  BY <1>6 DEF pthread_attr_setschedparam, AttrType
<1>7. ASSUME NEW n \in Nat, r = pthread_attr_setstackaddr(a, n)
      PROVE  AttrSound(r.attr) /\ (r.err # "0" => r.attr = a)
  BY <1>7 DEF pthread_attr_setstackaddr, AttrType
<1>8. ASSUME NEW n \in Nat, r = pthread_attr_setstacksize(a, n)
      PROVE  AttrSound(r.attr) /\ (r.err # "0" => r.attr = a)
  BY <1>8 DEF pthread_attr_setstacksize, AttrType
<1>9. ASSUME NEW n \in Nat, NEW m \in Nat, r = pthread_attr_setstack(a, n, m)
      PROVE  AttrSound(r.attr) /\ (r.err # "0" => r.attr = a)
  <2>1. CASE m # StackSize
    BY <1>9, <2>1 DEF pthread_attr_setstack, pthread_attr_setstacksize
  <2>2. CASE m = StackSize
    <3>1. pthread_attr_setstacksize(a, m) = Set(a)
      BY <2>2 DEF pthread_attr_setstacksize, AttrType
    <3>2. CASE n % StackSize # 0
      BY <1>9, <3>1, <3>2
      DEF pthread_attr_setstack, pthread_attr_setstackaddr, pthread_attr_setstacksize,
          pthread_attr_getstacksize, AttrType
    <3>3. CASE n % StackSize = 0
      BY <1>9, <3>1, <3>3
      DEF pthread_attr_setstack, pthread_attr_setstackaddr, AttrType
    <3> QED  BY <3>2, <3>3
  <2> QED  BY <2>1, <2>2
<1> QED  BY <1>1, <1>2, <1>3, <1>4, <1>5, <1>6, <1>7, <1>8, <1>9 DEF SetterCall

\* An initialised mutex has the type of the attributes that were passed, or
\* the default type when none were passed or they could not be copied; and
\* pthread_mutex_destroy leaves no copy behind.
THEOREM MutexInitType ==
  ASSUME NEW a \in MutexAttrType, NEW memory \in BOOLEAN
  PROVE  LET r == pthread_mutex_init(<<a>>, memory)
         IN /\ r.err = "0" <=> memory
            /\ MutexType(r.attr) = IF memory THEN a.mutex_type ELSE "normal"
            /\ pthread_mutex_destroy(r.attr) = NoAttr
<1>1. CASE memory
  BY <1>1 DEF pthread_mutex_init, CopyAttr, Set, Result, NoAttr, MutexType,
              pthread_mutex_destroy, MutexAttrType
<1>2. CASE ~memory
  BY <1>2 DEF pthread_mutex_init, CopyAttr, Set, Result, NoAttr, MutexType,
              DefaultMutexAttr, pthread_mutex_destroy
<1> QED  BY <1>1, <1>2
=============================================================================
