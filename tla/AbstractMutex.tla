--------------------------- MODULE AbstractMutex ---------------------------
(***************************************************************************)
(* What one mutex promises to its callers: a monitor with direct hand-off. *)
(* It has one holder at a time; a mutex that is waited for is never free,  *)
(* because the release that finds a waiter makes a waiter the holder in    *)
(* the same step, so nobody can slip in between the unlock and the waking  *)
(* up of the waiter.                                                       *)
(***************************************************************************)
EXTENDS Naturals

CONSTANTS Threads, NoThread

VARIABLES holder,   \* the thread entitled to the mutex, or NoThread
          depth,    \* the locks it knows of; 0: handed over, not yet returned
          waiting   \* the threads waiting to be handed the mutex

absVars == <<holder, depth, waiting>>

Init == holder = NoThread /\ depth = 0 /\ waiting = {}

Take(t) == /\ holder = NoThread /\ waiting = {}
           /\ holder' = t /\ depth' = 1
           /\ UNCHANGED waiting

LockAgain(t) == /\ holder = t /\ depth > 0
                /\ depth' = depth + 1
                /\ UNCHANGED <<holder, waiting>>

StartWaiting(t) == /\ holder \notin {NoThread, t} /\ t \notin waiting
                   /\ waiting' = waiting \cup {t}
                   /\ UNCHANGED <<holder, depth>>

UndoOne(t) == /\ holder = t /\ depth > 1
              /\ depth' = depth - 1
              /\ UNCHANGED <<holder, waiting>>

Free(t) == /\ holder = t /\ depth = 1 /\ waiting = {}
           /\ holder' = NoThread /\ depth' = 0
           /\ UNCHANGED waiting

PassOn(t) == /\ holder = t /\ depth = 1
             /\ \E u \in waiting : holder' = u /\ waiting' = waiting \ {u}
             /\ depth' = 0

Enter(t) == /\ holder = t /\ depth = 0
            /\ depth' = 1
            /\ UNCHANGED <<holder, waiting>>

Give(t) == /\ holder = t /\ depth > 0
           /\ \E u \in Threads \ waiting : holder' = u
           /\ UNCHANGED <<depth, waiting>>

Next == \E t \in Threads :
          \/ Take(t) \/ LockAgain(t) \/ StartWaiting(t)
          \/ UndoOne(t) \/ Free(t) \/ PassOn(t) \/ Enter(t) \/ Give(t)

Spec == Init /\ [][Next]_absVars
=============================================================================
