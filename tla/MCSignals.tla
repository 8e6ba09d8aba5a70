----------------------------- MODULE MCSignals -----------------------------
(***************************************************************************)
(* Signals for TLC.  The handler of SIGUSR1 blocks SIGCONT; the one of     *)
(* SIGCONT is reset when it is called, or the signal is ignored.  Thread 2 *)
(* blocks SIGUSR1.                                                         *)
(***************************************************************************)
EXTENDS Signals, TLC

Catch == [handler |-> "handler", flags |-> {}, mask |-> {"SIGCONT"}]
CatchOnce == [handler |-> "handler", flags |-> {"SA_RESETHAND", "SA_ONSTACK"}, mask |-> {"SIGUSR1"}]
Ignore == [handler |-> "SIG_IGN", flags |-> {}, mask |-> {}]

SomeActions == ("SIGUSR1" :> {Catch}) @@ ("SIGCONT" :> {CatchOnce, Ignore})
SomeMask == (1 :> {}) @@ (2 :> {"SIGUSR1"})
=============================================================================
