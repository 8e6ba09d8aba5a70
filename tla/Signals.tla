------------------------------- MODULE Signals -------------------------------
(***************************************************************************)
(* The user-level signals of signal/: generation (kill, pthread_kill),     *)
(* dispatch to handlers, sigwaitinfo, sigaction.                           *)
(*                                                                         *)
(* A section under a thread's ss->lock is atomic, and so is one under      *)
(* sig_lock; both are also kept across steps where the code does so: who   *)
(* needs both holds sig_lock while it waits for ss->lock, and a signal     *)
(* sent to another thread travels with that thread's ss->lock locked.  The *)
(* target can be forced into signal_dispatch at any place, also where it   *)
(* holds sig_lock, which signal_dispatch locks: then it waits for itself.  *)
(* The build is the default one, without NDEBUG.                           *)
(***************************************************************************)
EXTENDS Naturals, Sequences, FiniteSets

CONSTANTS Threads,
          NoThread,     \* no thread
          Signals,      \* the signals sent
          WaitSets,     \* the sets sigwaitinfo is called with
          SigActions,   \* SigActions[s]: the actions sigaction sets for s
          Mask,         \* Mask[t]: the signal mask t starts with
          MaxCalls      \* bound: calls of sigaction, kill, pthread_kill, sigwaitinfo

NoSignal == "0"
Handlers == {"SIG_DFL", "SIG_IGN", "handler"}
SigAction == [handler : Handlers, mask : SUBSET Signals,
              flags : SUBSET {"SA_RESETHAND", "SA_NODEFER", "SA_ONSTACK"}]

ASSUME SignalsAssumption ==
  /\ NoThread \notin Threads /\ IsFiniteSet(Threads) /\ NoSignal \notin Signals
  /\ WaitSets \subseteq SUBSET Signals /\ Mask \in [Threads -> SUBSET Signals]
  /\ MaxCalls \in Nat
  /\ \A s \in Signals : SigActions[s] \subseteq SigAction

VARIABLES
  pending,      \* pending[t]: ss->pending
  blocked,      \* blocked[t]: ss->blocked
  actions,      \* actions[t][s]: ss->actions
  disabled,     \* disabled[t]: ss->stack.ss_flags has SS_DISABLE
  ssLock,       \* ssLock[t]: t's ss->lock is held by a signal on its way to t
  sigLock,      \* who holds sig_lock
  forced,       \* forced[t]: the signal with which t is to enter signal_dispatch
  frames,       \* frames[t]: t's calls of signal_dispatch, the last one first
  waiter,       \* waiter[t]: the struct sigwaiter on t's stack
  sigwaiter,    \* sigwaiter[t]: ss->sigwaiter is not NULL
  sigwaiters,   \* the first waiter
  pc,           \* pc[t]: where t is, and the set or signal of its call
  over,         \* how the process has ended
  calls         \* the number of calls so far

stateVars == <<pending, blocked, actions, disabled>>
waitVars == <<waiter, sigwaiter, sigwaiters>>
vars == <<stateVars, ssLock, sigLock, forced, frames, waitVars, pc, over, calls>>

Place == ({"run", "dispatched", "handled", "waiting"} \X {NoSignal})
         \cup ({"raise"} \X Signals) \cup ({"sigwait"} \X WaitSets)
         \cup ({"kill", "force", "wake"} \X (Threads \X Signals))
Frame == [signo : Signals, handler : Handlers, orig : SUBSET Signals, resume : Place]

DispatchTypeOK ==
  /\ pending \in [Threads -> SUBSET Signals] /\ blocked \in [Threads -> SUBSET Signals]
  /\ actions \in [Threads -> [Signals -> SigAction]]
  /\ forced \in [Threads -> Signals \cup {NoSignal}]
  /\ frames \in [Threads -> Seq(Frame)]
  /\ pc \in [Threads -> Place]

SignalsTypeOK ==
  /\ DispatchTypeOK
  /\ ssLock \in [Threads -> BOOLEAN] /\ sigLock \in Threads \cup {NoThread}
  /\ sigwaiter \in [Threads -> BOOLEAN] /\ sigwaiters \in Threads \cup {NoThread}

DefaultAction == [handler |-> "SIG_DFL", flags |-> {}, mask |-> {}]
NoWaiter == [next |-> NoThread, prev |-> NoThread, signals |-> {}, signo |-> NoSignal]
Running == <<"run", NoSignal>>

SignalsInit ==
  /\ blocked = Mask
  /\ pending = [t \in Threads |-> {}]
  /\ actions = [t \in Threads |-> [s \in Signals |-> DefaultAction]]
  /\ disabled = [t \in Threads |-> FALSE]
  /\ ssLock = [t \in Threads |-> FALSE] /\ sigLock = NoThread
  /\ forced = [t \in Threads |-> NoSignal]
  /\ frames = [t \in Threads |-> <<>>]
  /\ waiter = [t \in Threads |-> NoWaiter]
  /\ sigwaiter = [t \in Threads |-> FALSE] /\ sigwaiters = NoThread
  /\ pc = [t \in Threads |-> Running]
  /\ over = "no" /\ calls = 0

-----------------------------------------------------------------------------
STOPSIGS == {"SIGTTIN", "SIGTTOU", "SIGSTOP", "SIGTSTP"}

default_action(s) ==
  CASE s \in {"SIGABRT", "SIGBUS", "SIGFPE", "SIGILL", "SIGQUIT", "SIGSEGV", "SIGSTKFLT",
              "SIGSYS", "SIGTRAP", "SIGXCPU", "SIGXFSZ"} -> "core"
    [] s \in {"SIGALRM", "SIGHUP", "SIGINT", "SIGIO", "SIGKILL", "SIGPIPE", "SIGPROF",
              "SIGTERM", "SIGUSR1", "SIGUSR2", "SIGVTALRM"} -> "terminate"
    [] s \in {"SIGCHLD", "SIGPWR", "SIGURG", "SIGWINCH"} -> "ignore"
    [] s = "SIGCONT" -> "cont"
    [] s \in STOPSIGS -> "stop"

\* Signals pending on the process: no code adds any.
process_pending == {}

Ignores(sa, s) == sa.handler = "SIG_IGN" \/ (sa.handler = "SIG_DFL" /\ default_action(s) = "ignore")

\* t is not interrupted by a signal on its way to it.
At(t, l) == pc[t][1] = l /\ forced[t] = NoSignal
Goto(t, l, x) == pc' = [pc EXCEPT ![t] = <<l, x>>]
InProgram(t) == At(t, "run")

-----------------------------------------------------------------------------
(* signal_dispatch.                                                        *)

\* The first half of an iteration, up to the unlocking of ss->lock: the frame
\* goes over the frames below; the mask and the place to go back to are orig
\* and resume.
Deliver(t, s, orig, resume, below) ==
  LET sa == actions[t][s] IN
  /\ pending' = [pending EXCEPT ![t] =
       @ \ ({s} \cup IF s \in STOPSIGS THEN {"SIGCONT"}
                     ELSE IF s = "SIGCONT" THEN STOPSIGS ELSE {})]
  /\ actions' = IF "SA_RESETHAND" \in sa.flags /\ s \notin {"SIGILL", "SIGTRAP"}
                THEN [actions EXCEPT ![t][s].handler = "SIG_DFL"] ELSE actions
  /\ blocked' = [blocked EXCEPT ![t] =
       orig \cup sa.mask \cup IF sa.flags \cap {"SA_RESETHAND", "SA_NODEFER"} = {} THEN {s} ELSE {}]
  /\ frames' = [frames EXCEPT ![t] =
       <<[signo |-> s, handler |-> sa.handler, orig |-> orig, resume |-> resume]>> \o below]
  /\ Goto(t, "dispatched", NoSignal)
  /\ UNCHANGED disabled

\* t is forced into signal_dispatch by a signal from another thread.
Dispatch(t) ==
  /\ forced[t] # NoSignal
  /\ Deliver(t, forced[t], blocked[t], pc[t], frames[t])
  /\ ssLock' = [ssLock EXCEPT ![t] = FALSE]
  /\ forced' = [forced EXCEPT ![t] = NoSignal]
  /\ UNCHANGED <<sigLock, waitVars, over>>

\* sig_lock is locked to clear the signal on the process, then the handler is
\* called.  A default action that is not to terminate ends in a panic.
CallHandler(t) ==
  LET f == Head(frames[t]) IN
  /\ At(t, "dispatched") /\ sigLock = NoThread
  /\ \/ /\ f.handler = "SIG_DFL"
        /\ over' = IF default_action(f.signo) \in {"terminate", "core"} THEN "exit" ELSE "panic"
        /\ UNCHANGED pc
     \/ /\ f.handler # "SIG_DFL"
        /\ pc' = [pc EXCEPT ![t] = IF f.handler = "SIG_IGN" THEN <<"handled", NoSignal>> ELSE Running]
        /\ UNCHANGED over
  /\ UNCHANGED <<stateVars, ssLock, sigLock, forced, frames, waitVars>>

HandlerReturns(t) ==
  /\ InProgram(t) /\ frames[t] # <<>>
  /\ Goto(t, "handled", NoSignal)
  /\ UNCHANGED <<stateVars, ssLock, sigLock, forced, frames, waitVars, over>>

\* What is pending under the mask that is restored.
Unblocked(t, orig) ==
  IF pending[t] \ orig # {} THEN pending[t] \ orig ELSE process_pending \ orig

\* Mutant of EndOfHandler: what became pending is looked for under the mask of
\* the handler.
EndUnderHandlerMask(t) ==
  LET f == Head(frames[t]) IN
  /\ At(t, "handled") /\ ~ssLock[t]
  /\ \/ \E s \in Unblocked(t, blocked[t]) : Deliver(t, s, f.orig, f.resume, Tail(frames[t]))
     \/ /\ Unblocked(t, blocked[t]) = {}
        /\ blocked' = [blocked EXCEPT ![t] = f.orig]
        /\ frames' = [frames EXCEPT ![t] = Tail(@)]
        /\ pc' = [pc EXCEPT ![t] = f.resume]
        /\ UNCHANGED <<pending, actions, disabled>>
  /\ UNCHANGED <<ssLock, sigLock, forced, waitVars, over>>

\* Mutant of EndOfHandler: only what the handler's action has blocked is
\* unblocked, instead of the mask being restored.
EndUnblocks(t) ==
  LET f == Head(frames[t])
      orig == blocked[t] \ ({f.signo} \cup actions[t][f.signo].mask)
  IN /\ At(t, "handled") /\ ~ssLock[t]
     /\ \/ \E s \in Unblocked(t, orig) : Deliver(t, s, orig, f.resume, Tail(frames[t]))
        \/ /\ Unblocked(t, orig) = {}
           /\ blocked' = [blocked EXCEPT ![t] = orig]
           /\ frames' = [frames EXCEPT ![t] = Tail(@)]
           /\ pc' = [pc EXCEPT ![t] = f.resume]
           /\ UNCHANGED <<pending, actions, disabled>>
     /\ UNCHANGED <<ssLock, sigLock, forced, waitVars, over>>

\* Under ss->lock again: the mask is restored, and the next signal that is
\* pending and not blocked handled, if any.
EndOfHandler(t) ==
  LET f == Head(frames[t]) IN
  /\ At(t, "handled") /\ ~ssLock[t]
  /\ \/ \E s \in Unblocked(t, f.orig) : Deliver(t, s, f.orig, f.resume, Tail(frames[t]))
     \/ /\ Unblocked(t, f.orig) = {}
        /\ blocked' = [blocked EXCEPT ![t] = f.orig]
        /\ frames' = [frames EXCEPT ![t] = Tail(@)]
        /\ pc' = [pc EXCEPT ![t] = f.resume]
        /\ UNCHANGED <<pending, actions, disabled>>
  /\ UNCHANGED <<ssLock, sigLock, forced, waitVars, over>>

-----------------------------------------------------------------------------
(* sigwaitinfo and the waiters.                                            *)

\* sig_lock first.
SigwaitLock(t, set) ==
  /\ InProgram(t) /\ sigLock = NoThread
  /\ sigLock' = t
  /\ Goto(t, "sigwait", set)
  /\ UNCHANGED <<stateVars, ssLock, forced, frames, waitVars, over>>

\* Then ss->lock: a signal is pending and accepted.
SigwaitAccepts(t) ==
  /\ At(t, "sigwait") /\ ~ssLock[t]
  /\ \E s \in pending[t] \cap pc[t][2] : pending' = [pending EXCEPT ![t] = @ \ {s}]
  /\ sigLock' = NoThread
  /\ pc' = [pc EXCEPT ![t] = Running]
  /\ UNCHANGED <<blocked, actions, disabled, ssLock, forced, frames, waitVars, over>>

\* sigwaiter_block: a waiter is put at the head of the list.
sigwaiter_block(t) ==
  /\ At(t, "sigwait") /\ ~ssLock[t] /\ pending[t] \cap pc[t][2] = {}
  /\ waiter' = [u \in Threads |->
       CASE u = t -> [next |-> sigwaiters, prev |-> NoThread, signals |-> pc[t][2], signo |-> NoSignal]
         [] u = sigwaiters /\ u # t -> [waiter[u] EXCEPT !.prev = t]
         [] OTHER -> waiter[u]]
  /\ sigwaiters' = t
  /\ sigwaiter' = [sigwaiter EXCEPT ![t] = TRUE]
  /\ sigLock' = NoThread
  /\ Goto(t, "waiting", NoSignal)
  /\ UNCHANGED <<stateVars, ssLock, forced, frames, over>>

\* futex_wait returns, as si_signo is set.
SigwaitReturns(t) ==
  /\ At(t, "waiting") /\ waiter[t].signo # NoSignal /\ ~ssLock[t]
  /\ sigwaiter' = [sigwaiter EXCEPT ![t] = FALSE]
  /\ waiter' = [waiter EXCEPT ![t].signo = NoSignal, ![t].signals = {}]
  /\ pc' = [pc EXCEPT ![t] = Running]
  /\ UNCHANGED <<stateVars, ssLock, sigLock, forced, frames, sigwaiters, over>>

\* sigwaiter_unblock: w is given s and taken off the list.  ss->sigwaiter is
\* left alone, and so are the links of w.
sigwaiter_unblock(w, s) ==
  LET prev == waiter[w].prev
      next == waiter[w].next
  IN /\ waiter' = [u \in Threads |->
          [waiter[u] EXCEPT !.signo = IF u = w THEN s ELSE @,
                            !.prev = IF u = next THEN prev ELSE @,
                            !.next = IF u = prev THEN next ELSE @]]
     /\ sigwaiters' = IF prev = NoThread THEN next ELSE sigwaiters
     /\ pending' = [pending EXCEPT ![w] = @ \ {s}]
     /\ UNCHANGED <<sigwaiter, blocked, actions, disabled>>

-----------------------------------------------------------------------------
(* Generation.                                                             *)

\* pthread_kill_siginfo_np (u, s) called by t: sig_lock first.
LockSig(t, u, s) ==
  /\ sigLock = NoThread
  /\ sigLock' = t
  /\ Goto(t, "kill", <<u, s>>)
  /\ UNCHANGED <<stateVars, ssLock, forced, frames, waitVars, over>>

pthread_kill(t, u, s) == InProgram(t) /\ LockSig(t, u, s)
raise(t, s) == pthread_kill(t, t, s)

\* Then u's ss->lock, and sig_lock is unlocked: a waiter gets the signal, or it
\* is ignored, or made pending, or delivered with ss->lock kept.  On a stack of
\* its own a thread that signals itself is forced into signal_dispatch as well.
Generate(t, u, s) ==
  /\ ~ssLock[u]
  /\ \/ /\ sigwaiter[u] /\ s \in waiter[u].signals
        /\ sigwaiter_unblock(u, s)
        /\ pc' = [pc EXCEPT ![t] = Running]
        /\ UNCHANGED <<ssLock, frames>>
     \/ /\ ~(sigwaiter[u] /\ s \in waiter[u].signals) /\ Ignores(actions[u][s], s)
        /\ pc' = [pc EXCEPT ![t] = Running]
        /\ UNCHANGED <<stateVars, waitVars, ssLock, frames>>
     \/ /\ ~(sigwaiter[u] /\ s \in waiter[u].signals) /\ ~Ignores(actions[u][s], s)
        /\ s \in blocked[u]
        /\ pending' = [pending EXCEPT ![u] = @ \cup {s}]
        /\ pc' = [pc EXCEPT ![t] = Running]
        /\ UNCHANGED <<blocked, actions, disabled, waitVars, ssLock, frames>>
     \/ /\ ~(sigwaiter[u] /\ s \in waiter[u].signals) /\ ~Ignores(actions[u][s], s)
        /\ s \notin blocked[u]
        /\ IF u = t /\ ("SA_ONSTACK" \notin actions[u][s].flags \/ disabled[u])
           THEN /\ Deliver(t, s, blocked[t], Running, frames[t])
                /\ UNCHANGED ssLock
           ELSE /\ ssLock' = [ssLock EXCEPT ![u] = TRUE]
                /\ Goto(t, "force", <<u, s>>)
                /\ UNCHANGED <<stateVars, frames>>
        /\ UNCHANGED waitVars
  /\ sigLock' = NoThread
  /\ UNCHANGED <<forced, over>>

KillGenerates(t) == At(t, "kill") /\ Generate(t, pc[t][2][1], pc[t][2][2])

\* signal_dispatch_lowlevel: the target is to enter signal_dispatch.
KillForces(t) ==
  /\ At(t, "force")
  /\ forced' = [forced EXCEPT ![pc[t][2][1]] = pc[t][2][2]]
  /\ pc' = [pc EXCEPT ![t] = Running]
  /\ UNCHANGED <<stateVars, ssLock, sigLock, frames, waitVars, over>>

\* The waiters of the list, first one first: Nth[i], or NoThread.
Nth[i \in 1..Cardinality(Threads)] ==
  IF i = 1 THEN sigwaiters
  ELSE IF Nth[i - 1] = NoThread THEN NoThread ELSE waiter[Nth[i - 1]].next

Interested(s) == {i \in DOMAIN Nth : Nth[i] \in Threads /\ s \in waiter[Nth[i]].signals}

\* kill: the first waiter that wants the signal is to get it.
KillWaiter(t, s) ==
  /\ InProgram(t) /\ sigLock = NoThread
  /\ sigLock' = t
  /\ \E i \in Interested(s) : /\ \A j \in Interested(s) : i <= j
                              /\ Goto(t, "wake", <<Nth[i], s>>)
  /\ UNCHANGED <<stateVars, ssLock, forced, frames, waitVars, over>>

\* Its ss->lock is locked.
KillWakes(t) ==
  /\ At(t, "wake") /\ ~ssLock[pc[t][2][1]]
  /\ sigwaiter_unblock(pc[t][2][1], pc[t][2][2])
  /\ sigLock' = NoThread
  /\ pc' = [pc EXCEPT ![t] = Running]
  /\ UNCHANGED <<ssLock, forced, frames, over>>

\* Or else, sig_lock unlocked, the signal is generated for the caller.
KillSelf(t, s) ==
  /\ InProgram(t) /\ sigLock = NoThread /\ Interested(s) = {}
  /\ Goto(t, "raise", s)
  /\ UNCHANGED <<stateVars, ssLock, sigLock, forced, frames, waitVars, over>>

KillRaise(t) == At(t, "raise") /\ LockSig(t, t, pc[t][2])

\* sigaction
sigaction(t, s, sa) ==
  /\ InProgram(t) /\ ~ssLock[t]
  /\ actions' = [actions EXCEPT ![t][s] = sa]
  /\ blocked' = [blocked EXCEPT ![t] = @ \ {"SIGKILL", "SIGSTOP"}]
  /\ pending' = [pending EXCEPT ![t] = IF Ignores(sa, s) THEN @ \ {s} ELSE @]
  /\ UNCHANGED <<disabled, ssLock, sigLock, forced, frames, waitVars, pc, over>>

\* signal: no flags that matter, and the signal itself blocked.
signal(t, s, handler) == sigaction(t, s, [handler |-> handler, flags |-> {}, mask |-> {s}])

\* sigaltstack with a stack of the right size that no handler is using: only
\* the flag SS_DISABLE decides anything.
sigaltstack(t, disable) ==
  /\ InProgram(t) /\ ~ssLock[t]
  /\ disabled' = [disabled EXCEPT ![t] = disable]
  /\ UNCHANGED <<pending, blocked, actions, ssLock, sigLock, forced, frames, waitVars, pc, over>>

-----------------------------------------------------------------------------
SignalsNext ==
  /\ over = "no"
  /\ \E t \in Threads :
       \/ /\ calls < MaxCalls /\ calls' = calls + 1
          /\ \/ \E set \in WaitSets : SigwaitLock(t, set)
             \/ \E s \in Signals : \/ \E u \in Threads \ {t} : pthread_kill(t, u, s)
                                   \/ raise(t, s)
                                   \/ KillWaiter(t, s)
                                   \/ KillSelf(t, s)
                                   \/ \E sa \in SigActions[s] : sigaction(t, s, sa)
             \/ \E s \in Signals : signal(t, s, "handler")
             \/ \E disable \in BOOLEAN : sigaltstack(t, disable)
       \/ /\ UNCHANGED calls
          /\ \/ Dispatch(t) \/ CallHandler(t) \/ HandlerReturns(t) \/ EndOfHandler(t)
             \/ SigwaitAccepts(t) \/ sigwaiter_block(t) \/ SigwaitReturns(t)
             \/ KillRaise(t) \/ KillGenerates(t) \/ KillForces(t) \/ KillWakes(t)

SignalsSpec == SignalsInit /\ [][SignalsNext]_vars

-----------------------------------------------------------------------------
\* A thread that runs no handler has no signal pending that it does not block:
\* what came in while handlers ran with more signals blocked has been handled
\* before the last of them returned ("do ... while (signo)").
PendingIsBlocked ==
  \A t \in Threads : frames[t] = <<>> /\ forced[t] = NoSignal => pending[t] \subseteq blocked[t]

\* When its handlers have returned, a thread has the signal mask that it had
\* before, however they nested ("the restoration of the signal mask on return
\* from the signal-catching function overrides that change").
MaskRestored == \A t \in Threads : frames[t] = <<>> => blocked[t] = Mask[t] \ {"SIGKILL", "SIGSTOP"}
=============================================================================
