----------------------------- MODULE Semaphore -----------------------------
(***************************************************************************)
(* The semaphore of sysdeps/generic/sem-*.c.  A post that finds waiters    *)
(* does not raise the value: it gives its unit to the thread it dequeues.  *)
(***************************************************************************)
EXTENDS TimedWait

CONSTANTS SemQueue,    \* sem->__queue
          SemValues,   \* the values sem_init is called with
          MaxUnits     \* bound: units in being, for posts

ASSUME SemAssumption == /\ SemQueue \in Queues
                        /\ SemValues \subseteq 0..MaxUnits /\ MaxUnits \in Nat

VARIABLES value,   \* sem->__value
          units,   \* initial value + posts - waits that returned 0
          lost     \* posts given to threads that returned ETIMEDOUT

semVars == <<value, units, lost>>
semaphoreVars == <<blockVars, waitVars, semVars>>

SemTypeOK == WaitTypeOK /\ value \in Nat /\ units \in Nat /\ lost \in Nat

SemInit == /\ WaitInit
           /\ value \in SemValues
           /\ units = value /\ lost = 0

\* The quick way down, of wait, timedwait and trywait.
Down(t) == /\ Ready(t)
           /\ value > 0
           /\ value' = value - 1
           /\ units' = units - 1
           /\ UNCHANGED <<blockVars, waitVars, lost>>

\* The start of __sem_timedwait_internal.
TimedWaitCall(t, abstime) ==
  \/ Down(t)
  \/ /\ Ready(t) /\ value = 0
     /\ BadAbstime(t, abstime) \/ StartWait(t, SemQueue, abstime)
     /\ UNCHANGED semVars

sem_wait(t) == TimedWaitCall(t, "null")

TryWait(t) ==
  \/ Down(t)
  \/ Ready(t) /\ value = 0 /\ UNCHANGED semaphoreVars

\* The rest of __sem_timedwait_internal.
Returns(t) == /\ Succeed(t)
              /\ units' = units - 1
              /\ UNCHANGED <<value, lost>>

TimesOut(t) == GiveUp(t) /\ UNCHANGED semVars

Drained(t) == /\ Drain(t)
              /\ lost' = lost + 1
              /\ UNCHANGED <<value, units>>

SemWaits(t) == (Receive(t) \/ TimeOut(t) \/ MustDrain(t)) /\ UNCHANGED semVars

\* Mutant of Post: the value is raised although the unit is given away.
PostTwice(t) ==
  /\ Ready(t) /\ units + lost < MaxUnits
  /\ units' = units + 1 /\ lost' = lost
  /\ value' = value + 1
  /\ IF queue[SemQueue] = <<>>
     THEN UNCHANGED <<blockVars, waitVars>>
     ELSE WakeOne(t, Head(queue[SemQueue]))

\* __sem_post: a quick up, or no one waits, or someone is dequeued.
Post(t) ==
  /\ Ready(t) /\ units + lost < MaxUnits
  /\ units' = units + 1 /\ lost' = lost
  /\ \/ value > 0 /\ value' = value + 1 /\ UNCHANGED <<blockVars, waitVars>>
     \/ value = 0 /\ queue[SemQueue] = <<>> /\ value' = 1 /\ UNCHANGED <<blockVars, waitVars>>
     \/ value = 0 /\ queue[SemQueue] # <<>> /\ value' = 0 /\ WakeOne(t, Head(queue[SemQueue]))

PostWakes(t) == SendWakeup(t) /\ UNCHANGED semVars

\* __sem_getvalue waits for the lock and reads.
GetValue(t) == Ready(t) /\ UNCHANGED semaphoreVars

sem_destroy == IF queue[SemQueue] # <<>> THEN "EBUSY" ELSE "0"

\* Between calls the program may destroy the semaphore and initialise it again.
sem_init(v) == /\ \A t \in Threads : pc[t] = "idle"
               /\ sem_destroy = "0"
               /\ value' = v /\ spin' = FALSE
               /\ units' = v /\ lost' = 0
               /\ UNCHANGED <<blockVars, pc, target>>

\* The rest of a call that is under way.
SemContinue(t) == SemWaits(t) \/ Returns(t) \/ TimesOut(t) \/ Drained(t) \/ PostWakes(t)

SemNext == \/ \E t \in Threads : \/ SemContinue(t)
                                 \/ \E abstime \in Abstimes \ {"null"} : TimedWaitCall(t, abstime)
                                 \/ sem_wait(t)
                                 \/ TryWait(t)
                                 \/ Post(t)
                                 \/ GetValue(t)
           \/ \E v \in SemValues : sem_init(v)

SemSpec == SemInit /\ [][SemNext]_semaphoreVars

\* Threads that are runnable are scheduled.
SemFairSpec == SemSpec /\ \A t \in Threads : WF_semaphoreVars(SemContinue(t))

-----------------------------------------------------------------------------
\* Every unit is somewhere: in the value, on its way to the waiter a post gave
\* it to, or lost to a timeout that came too late.  No unit is made or taken
\* twice (sem-timedwait.c, sem-post.c).
UnitsConserved == units = value + Quantify(Threads, Owed) + lost

\* A waiter that a post dequeued returns, unless a call with a bad ABSTIME has
\* left sem->__lock locked.
PostCompletes == \A t \in Threads : Dequeued(t) ~> pc[t] = "idle" \/ spin
=============================================================================
