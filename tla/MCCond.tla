------------------------------- MODULE MCCond -------------------------------
(* Instances of Cond for TLC: each thread has a cancel_lock of its own.    *)
EXTENDS Cond

CONSTANTS w1, w2, s1,            \* two waiters and a thread that signals
          lock1, lock2, lock3    \* their cancel_locks

MCCancelLock == [t \in Threads |-> CASE t = w1 -> lock1
                                     [] t = w2 -> lock2
                                     [] OTHER -> lock3]
=============================================================================
