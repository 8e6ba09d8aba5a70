------------------------------- MODULE RWLock -------------------------------
(***************************************************************************)
(* The read-write lock of sysdeps/generic/pt-rwlock-*.c.                   *)
(*                                                                         *)
(* As bits/rwlock.h has it: __held with readers = 0 is a write lock,       *)
(* __held with readers > 0 a read lock of that many readers.  An unlock    *)
(* with waiters keeps __held and hands the lock to one writer, or else to  *)
(* all the readers that wait, which it counts on their behalf.             *)
(***************************************************************************)
EXTENDS TimedWait

CONSTANTS ReaderQueue, WriterQueue,   \* readerqueue and writerqueue
          MaxReads                    \* bound: read locks one thread stacks up

ASSUME RWLockAssumption == /\ {ReaderQueue, WriterQueue} \subseteq Queues
                           /\ ReaderQueue # WriterQueue
                           /\ MaxReads \in Nat \ {0}

VARIABLES held,        \* rwlock->__held
          readers,     \* rwlock->readers
          mode,        \* mode[t]: what t waits for, "rd" or "wr"
          reads,       \* reads[t]: read locks granted to t and not undone
          writes,      \* writes[t]: the write lock was granted to t
          lostReads,   \* readers counted that have returned ETIMEDOUT
          lostWrite    \* the lock was handed to a writer that did

rwVars == <<held, readers, mode, reads, writes, lostReads, lostWrite>>
rwlockVars == <<blockVars, waitVars, rwVars>>

RWTypeOK == /\ WaitTypeOK
            /\ held \in BOOLEAN
            /\ readers \in Nat
            /\ mode \in [Threads -> {"rd", "wr"}]
            /\ reads \in [Threads -> Nat]
            /\ writes \in [Threads -> BOOLEAN]
            /\ lostReads \in Nat
            /\ lostWrite \in BOOLEAN

RWInit == /\ WaitInit
          /\ held = FALSE
          /\ readers = 0
          /\ mode = [t \in Threads |-> "rd"]
          /\ reads = [t \in Threads |-> 0]
          /\ writes = [t \in Threads |-> FALSE]
          /\ lostReads = 0
          /\ lostWrite = FALSE

\* t has a read lock more.
GrantRead(t) == reads' = [reads EXCEPT ![t] = @ + 1]
GrantWrite(t) == writes' = [writes EXCEPT ![t] = TRUE]

-----------------------------------------------------------------------------
(* Locking, up to the point where the call blocks.                         *)

\* The lock is free: rdlock and tryrdlock get it.
ReadFree(t) ==
  /\ Ready(t) /\ ~held
  /\ held' = TRUE /\ readers' = 1
  /\ GrantRead(t)
  /\ UNCHANGED <<blockVars, waitVars, mode, writes, lostReads, lostWrite>>

\* Mutant of ReadShared: a read lock joins whoever holds the lock.
ReadAnyway(t) ==
  /\ Ready(t) /\ held
  /\ reads[t] < MaxReads
  /\ readers' = readers + 1
  /\ GrantRead(t)
  /\ UNCHANGED <<blockVars, waitVars, held, mode, writes, lostReads, lostWrite>>

\* Readers have the lock: one more joins them, whoever waits.
ReadShared(t) ==
  /\ Ready(t) /\ held /\ readers > 0
  /\ reads[t] < MaxReads
  /\ readers' = readers + 1
  /\ GrantRead(t)
  /\ UNCHANGED <<blockVars, waitVars, held, mode, writes, lostReads, lostWrite>>

ReadBusy(t) == Ready(t) /\ held /\ readers = 0

TimedRdLock(t, abstime) ==
  \/ ReadFree(t)
  \/ ReadShared(t)
  \/ /\ ReadBusy(t)
     /\ BadAbstime(t, abstime)
     /\ UNCHANGED rwVars
  \/ /\ ReadBusy(t)
     /\ StartWait(t, ReaderQueue, abstime)
     /\ mode' = [mode EXCEPT ![t] = "rd"]
     /\ UNCHANGED <<held, readers, reads, writes, lostReads, lostWrite>>

rdlock(t) == TimedRdLock(t, "null")

TryRdLock(t) ==
  \/ ReadFree(t)
  \/ ReadShared(t)
  \/ ReadBusy(t) /\ UNCHANGED rwlockVars

\* Only a free lock can be taken for writing.
WriteFree(t) ==
  /\ Ready(t) /\ ~held
  /\ held' = TRUE
  /\ GrantWrite(t)
  /\ UNCHANGED <<blockVars, waitVars, readers, mode, reads, lostReads, lostWrite>>

WriteBusy(t) == Ready(t) /\ held

TimedWrLock(t, abstime) ==
  \/ WriteFree(t)
  \/ /\ WriteBusy(t)
     /\ BadAbstime(t, abstime)
     /\ UNCHANGED rwVars
  \/ /\ WriteBusy(t)
     /\ StartWait(t, WriterQueue, abstime)
     /\ mode' = [mode EXCEPT ![t] = "wr"]
     /\ UNCHANGED <<held, readers, reads, writes, lostReads, lostWrite>>

wrlock(t) == TimedWrLock(t, "null")

TryWrLock(t) ==
  \/ WriteFree(t)
  \/ WriteBusy(t) /\ UNCHANGED rwlockVars

-----------------------------------------------------------------------------
(* Locking, from the blocking on.                                          *)

RWWaits(t) == (Receive(t) \/ TimeOut(t) \/ GiveUp(t) \/ MustDrain(t)) /\ UNCHANGED rwVars

\* The reader was counted by whoever woke it up.
ReadReturns(t) ==
  /\ mode[t] = "rd" /\ Succeed(t)
  /\ GrantRead(t)
  /\ UNCHANGED <<held, readers, mode, writes, lostReads, lostWrite>>

WriteReturns(t) ==
  /\ mode[t] = "wr" /\ Succeed(t)
  /\ GrantWrite(t)
  /\ UNCHANGED <<held, readers, mode, reads, lostReads, lostWrite>>

\* ETIMEDOUT after a hand-off: the lock was this thread's, and nobody's now.
ReadDrained(t) ==
  /\ mode[t] = "rd" /\ Drain(t)
  /\ lostReads' = lostReads + 1
  /\ UNCHANGED <<held, readers, mode, reads, writes, lostWrite>>

WriteDrained(t) ==
  /\ mode[t] = "wr" /\ Drain(t)
  /\ lostWrite' = TRUE
  /\ UNCHANGED <<held, readers, mode, reads, writes, lostReads>>

-----------------------------------------------------------------------------
(* pthread_rwlock_unlock, by a thread that has a lock to undo.             *)

Undo(t) == /\ reads' = [reads EXCEPT ![t] = IF @ > 0 THEN @ - 1 ELSE 0]
           /\ writes' = [writes EXCEPT ![t] = FALSE]

UnlockBegins(t) == Ready(t) /\ (reads[t] > 0 \/ writes[t])

\* There are other readers.
UnlockShared(t) ==
  /\ UnlockBegins(t)
  /\ readers > 1
  /\ readers' = readers - 1
  /\ Undo(t)
  /\ UNCHANGED <<blockVars, waitVars, held, mode, lostReads, lostWrite>>

\* A writer waits: it is handed the lock.
UnlockToWriter(t) ==
  /\ UnlockBegins(t)
  /\ readers <= 1
  /\ queue[WriterQueue] # <<>>
  /\ readers' = 0
  /\ WakeOne(t, Head(queue[WriterQueue]))
  /\ Undo(t)
  /\ UNCHANGED <<held, mode, lostReads, lostWrite>>

\* Mutant of UnlockToReaders: the readers woken up are not counted in full.
UnlockToOneReader(t) ==
  /\ UnlockBegins(t)
  /\ readers <= 1
  /\ queue[WriterQueue] = <<>> /\ queue[ReaderQueue] # <<>>
  /\ readers' = 1
  /\ queue' = [queue EXCEPT ![ReaderQueue] = <<>>]
  /\ port' = [u \in Threads |-> port[u] \/ u \in Waiters(ReaderQueue)]
  /\ Undo(t)
  /\ UNCHANGED <<waitVars, held, mode, lostReads, lostWrite>>

\* No writer waits, but readers do: all are counted, dequeued and woken up,
\* under __lock.
UnlockToReaders(t) ==
  /\ UnlockBegins(t)
  /\ readers <= 1
  /\ queue[WriterQueue] = <<>> /\ queue[ReaderQueue] # <<>>
  /\ \A u \in Waiters(ReaderQueue) : ~port[u]
  /\ readers' = Len(queue[ReaderQueue])
  /\ queue' = [queue EXCEPT ![ReaderQueue] = <<>>]
  /\ port' = [u \in Threads |-> port[u] \/ u \in Waiters(ReaderQueue)]
  /\ Undo(t)
  /\ UNCHANGED <<waitVars, held, mode, lostReads, lostWrite>>

\* Mutant of UnlockFree: the readers that wait are not looked for.
UnlockUnseeing(t) ==
  /\ UnlockBegins(t)
  /\ readers <= 1
  /\ queue[WriterQueue] = <<>>
  /\ held' = FALSE /\ readers' = 0
  /\ Undo(t)
  /\ UNCHANGED <<blockVars, waitVars, mode, lostReads, lostWrite>>

\* Noone is waiting: the lock is free.
UnlockFree(t) ==
  /\ UnlockBegins(t)
  /\ readers <= 1
  /\ queue[WriterQueue] = <<>> /\ queue[ReaderQueue] = <<>>
  /\ held' = FALSE /\ readers' = 0
  /\ Undo(t)
  /\ UNCHANGED <<blockVars, waitVars, mode, lostReads, lostWrite>>

RWUnlock(t) == UnlockShared(t) \/ UnlockToWriter(t) \/ UnlockToReaders(t) \/ UnlockFree(t)

UnlockWakes(t) == SendWakeup(t) /\ UNCHANGED rwVars

-----------------------------------------------------------------------------
\* The rest of a call that is under way.
RWContinue(t) ==
  \/ RWWaits(t)
  \/ ReadReturns(t) \/ WriteReturns(t)
  \/ ReadDrained(t) \/ WriteDrained(t)
  \/ UnlockWakes(t)

\* A thread that has the lock asks for no write lock, nor, as a writer, for a
\* read lock: it would wait for itself.
RWCall(t) ==
  \/ /\ ~writes[t]
     /\ rdlock(t) \/ \E abstime \in Abstimes \ {"null"} : TimedRdLock(t, abstime)
  \/ /\ ~writes[t] /\ reads[t] = 0
     /\ wrlock(t) \/ \E abstime \in Abstimes \ {"null"} : TimedWrLock(t, abstime)
  \/ TryRdLock(t)
  \/ TryWrLock(t)
  \/ RWUnlock(t)

\* When no thread has the lock, nor is in a call, the program may destroy and
\* initialise it; what a late timeout has lost comes back.
rwlock_init ==
  /\ \A t \in Threads : pc[t] = "idle" /\ reads[t] = 0 /\ ~writes[t]
  /\ held' = FALSE /\ readers' = 0 /\ spin' = FALSE
  /\ lostReads' = 0 /\ lostWrite' = FALSE
  /\ UNCHANGED <<blockVars, pc, target, mode, reads, writes>>

RWNext == rwlock_init \/ \E t \in Threads : RWContinue(t) \/ RWCall(t)

RWSpec == RWInit /\ [][RWNext]_rwlockVars

\* Threads that are runnable are scheduled.
RWFairSpec == RWSpec /\ \A t \in Threads : WF_rwlockVars(RWContinue(t))

-----------------------------------------------------------------------------
(* What makes the read-write lock correct.                                 *)

ClaimsWrite(t) == writes[t] \/ (mode[t] = "wr" /\ Handed(t))
ClaimsRead(t) == reads[t] > 0 \/ (mode[t] = "rd" /\ Handed(t))

\* A writer, the one an unlock has just handed the lock to included, excludes
\* readers and other writers.
ReadersExcludeWriters ==
  \A t, u \in Threads :
    ClaimsWrite(t) /\ (ClaimsWrite(u) \/ ClaimsRead(u)) => t = u /\ ~ClaimsRead(t)

\* The read locks granted: the first, second... of each thread.
ReadLocks == UNION {{t} \X (1..reads[t]) : t \in Threads}

\* readers counts the read locks exactly: those granted, those handed to
\* threads that have not returned, and those lost to a late timeout; and __held
\* is set exactly when there is a lock of either kind.
LocksAccounted ==
  LET owedReads == Quantify(Threads, LAMBDA t : mode[t] = "rd" /\ Owed(t))
      owedWrites == \E t \in Threads : mode[t] = "wr" /\ Owed(t)
  IN /\ readers = Cardinality(ReadLocks) + owedReads + lostReads
     /\ held <=> \/ readers > 0
                 \/ owedWrites \/ lostWrite
                 \/ \E t \in Threads : writes[t]

\* The assertions of the code on the queues: nobody waits for a free lock, no
\* reader waits while readers have it, and a free lock has no readers.
RWAssertions ==
  /\ ~held => readers = 0 /\ queue[ReaderQueue] = <<>> /\ queue[WriterQueue] = <<>>
  /\ readers > 0 => queue[ReaderQueue] = <<>>

\* A thread that an unlock dequeued finishes its call, unless a call with a bad
\* ABSTIME has left __lock locked.
UnlockCompletes == \A t \in Threads : Dequeued(t) ~> pc[t] = "idle" \/ spin
=============================================================================
