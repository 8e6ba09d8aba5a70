--------------------------- MODULE SignalsProofs ---------------------------
(***************************************************************************)
(* Theorems about the user-level signals of module Signals, for any number *)
(* of threads, any signals, actions and masks: however handlers nest and   *)
(* whoever sends what, signal_dispatch restores the mask and leaves no     *)
(* signal pending that is not blocked.                                     *)
(***************************************************************************)
EXTENDS Signals, TLAPS

\* The masks that threads start with block no signal that cannot be blocked:
\* sigaction takes these two out of the mask of its caller.
MasksSane == \A t \in Threads : Mask[t] \cap {"SIGKILL", "SIGSTOP"} = {}

\* A thread at p is inside signal_dispatch, with a frame of its own.
InDispatch(p) == p[1] \in {"dispatched", "handled"}

\* The frame of the first call of signal_dispatch, over which the others nest.
Bottom(fs) == fs[Len(fs)]

\* The first call interrupted a thread that ran no handler: what it is to
\* restore is the thread's own mask, and it goes back to the program.
StackFacts(t, fs) == fs # <<>> => Bottom(fs).orig = Mask[t] /\ ~InDispatch(Bottom(fs).resume)

MaskFacts(t) ==
  frames[t] = <<>> => blocked[t] = Mask[t] /\ pending[t] \subseteq blocked[t] /\ ~InDispatch(pc[t])

DispatchInv == /\ DispatchTypeOK
               /\ \A t \in Threads : StackFacts(t, frames[t]) /\ MaskFacts(t)

-----------------------------------------------------------------------------
(* Frames.                                                                 *)

\* A call of signal_dispatch nests over the others.
LEMMA PushFrame ==
  ASSUME NEW f \in Frame, NEW below \in Seq(Frame)
  PROVE  /\ <<f>> \o below \in Seq(Frame) /\ <<f>> \o below # <<>>
         /\ Bottom(<<f>> \o below) = IF below = <<>> THEN f ELSE Bottom(below)
<1>1. <<f>> \o below \in Seq(Frame) /\ Len(<<f>> \o below) = 1 + Len(below) /\ Len(below) \in Nat
  OBVIOUS
<1>2. <<f>> \o below # <<>>
  BY <1>1
<1>3. CASE below = <<>>
  BY <1>1, <1>3 DEF Bottom
<1>4. CASE below # <<>>
  <2>1. Len(below) >= 1 /\ Len(below) \in 1..Len(below)
    BY <1>4
  <2>2. (<<f>> \o below)[1 + Len(below)] = below[Len(below)]
    BY <1>1, <2>1
  <2> QED
    BY <1>1, <1>4, <2>2 DEF Bottom
<1> QED
  BY <1>1, <1>2, <1>3, <1>4

\* And returns to the one below.
LEMMA PopFrame ==
  ASSUME NEW fs \in Seq(Frame), fs # <<>>
  PROVE  /\ Head(fs) \in Frame /\ Tail(fs) \in Seq(Frame)
         /\ Bottom(fs) = IF Tail(fs) = <<>> THEN Head(fs) ELSE Bottom(Tail(fs))
<1>1. /\ Head(fs) \in Frame /\ Head(fs) = fs[1] /\ Len(fs) >= 1 /\ Len(fs) \in Nat
  OBVIOUS
<1>2. PICK r \in Seq(Frame) : /\ r = Tail(fs) /\ Len(r) = Len(fs) - 1
                              /\ \A i \in 1..(Len(fs) - 1) : r[i] = fs[i + 1]
  <2>1. Tail(fs) \in Seq(Frame) /\ Len(Tail(fs)) = Len(fs) - 1
    OBVIOUS
  <2>2. \A i \in 1..(Len(fs) - 1) : Tail(fs)[i] = fs[i + 1]
    OBVIOUS
  <2> QED
    BY <2>1, <2>2
<1>3. r = <<>> <=> Len(fs) = 1
  BY <1>1, <1>2
<1>4. CASE Len(fs) = 1
  BY <1>1, <1>2, <1>3, <1>4 DEF Bottom
<1>5. CASE Len(fs) # 1
  <2>0. PICK n \in Nat : n = Len(fs) /\ n >= 1 /\ n # 1
    BY <1>1, <1>5
  <2>a. n - 1 \in 1..(n - 1) /\ (n - 1) + 1 = n
    BY <2>0
  <2>1. Len(fs) - 1 \in 1..(Len(fs) - 1) /\ (Len(fs) - 1) + 1 = Len(fs)
    BY <2>0, <2>a
  <2>2. r[Len(r)] = fs[Len(fs)]
    BY <1>2, <2>1
  <2> QED
    BY <1>1, <1>2, <1>3, <1>5, <2>2 DEF Bottom
<1> QED
  BY <1>4, <1>5

-----------------------------------------------------------------------------
(* Steps.                                                                  *)

\* A step that changes neither masks nor frames, adds only blocked signals to
\* the pending ones, and enters signal_dispatch only with a frame.
LEMMA QuietStep ==
  ASSUME DispatchInv, UNCHANGED <<blocked, actions, frames>>,
         pending' \in [Threads -> SUBSET Signals],
         \A u \in Threads : pending'[u] \subseteq pending[u] \cup blocked[u],
         pc' \in [Threads -> Place],
         \A u \in Threads : InDispatch(pc'[u]) => frames[u] # <<>>,
         forced' \in [Threads -> Signals \cup {NoSignal}]
  PROVE  DispatchInv'
<1>1. DispatchTypeOK'
  BY DEF DispatchInv, DispatchTypeOK
<1>2. ASSUME NEW u \in Threads PROVE StackFacts(u, frames[u])' /\ MaskFacts(u)'
  <2>1. StackFacts(u, frames[u]) /\ MaskFacts(u)
    BY DEF DispatchInv
  <2>2. StackFacts(u, frames[u])'
    BY <2>1 DEF StackFacts, Bottom, InDispatch
  <2>3. MaskFacts(u)'
    BY <2>1 DEF MaskFacts, InDispatch
  <2> QED
    BY <2>2, <2>3
<1> QED
  BY <1>1, <1>2 DEF DispatchInv

\* The program's own place is not in signal_dispatch.
LEMMA Places ==
  /\ Running \in Place /\ ~InDispatch(Running)
  /\ \A x : ~InDispatch(<<"raise", x>>) /\ ~InDispatch(<<"sigwait", x>>) /\ ~InDispatch(<<"waiting", x>>)
  /\ \A x : ~InDispatch(<<"kill", x>>) /\ ~InDispatch(<<"force", x>>) /\ ~InDispatch(<<"wake", x>>)
  /\ {<<"dispatched", NoSignal>>, <<"handled", NoSignal>>, <<"waiting", NoSignal>>} \subseteq Place
  /\ \A s \in Signals : <<"raise", s>> \in Place
  /\ \A w \in WaitSets : <<"sigwait", w>> \in Place
  /\ \A t \in Threads, s \in Signals :
       {<<"kill", <<t, s>>>>, <<"force", <<t, s>>>>, <<"wake", <<t, s>>>>} \subseteq Place
  BY DEF Running, Place, InDispatch

\* The thread and the signal of a call of kill or pthread_kill under way.
LEMMA KillPlaces ==
  ASSUME NEW p \in Place, p[1] \in {"kill", "force", "wake"}
  PROVE  p[2][1] \in Threads /\ p[2][2] \in Signals
  BY DEF Place

\* A step that moves t alone, not into signal_dispatch.
LEMMA MoveStep ==
  ASSUME DispatchInv, UNCHANGED <<blocked, actions, frames, pending, forced>>,
         NEW t \in Threads, NEW p \in Place, pc' = [pc EXCEPT ![t] = p], InDispatch(p) => frames[t] # <<>>
  PROVE  DispatchInv'
<1>1. /\ pc \in [Threads -> Place] /\ pending \in [Threads -> SUBSET Signals]
      /\ forced \in [Threads -> Signals \cup {NoSignal}]
  BY DEF DispatchInv, DispatchTypeOK
<1>2. pc' \in [Threads -> Place] /\ \A u \in Threads : pc'[u] = IF u = t THEN p ELSE pc[u]
  BY <1>1
<1>3. \A u \in Threads : InDispatch(pc'[u]) => frames[u] # <<>>
  BY <1>2 DEF DispatchInv, MaskFacts
<1> QED
  BY <1>1, <1>2, <1>3, QuietStep

\* A signal is delivered: its frame goes over those below.
LEMMA DeliverStep ==
  ASSUME DispatchInv, NEW t \in Threads, NEW s \in Signals, NEW orig \in SUBSET Signals,
         NEW resume \in Place, NEW below \in Seq(Frame), StackFacts(t, below),
         below = <<>> => orig = Mask[t] /\ ~InDispatch(resume),
         Deliver(t, s, orig, resume, below), forced' \in [Threads -> Signals \cup {NoSignal}]
  PROVE  DispatchInv'
<1>0. DispatchTypeOK
  BY DEF DispatchInv
<1>s. PICK sa \in SigAction : sa = actions[t][s]
  BY <1>0 DEF DispatchTypeOK
<1>a. /\ sa.mask \subseteq Signals /\ sa.handler \in Handlers
  BY <1>s DEF SigAction
<1>1. /\ pending' \in [Threads -> SUBSET Signals]
      /\ \A u \in Threads : u # t => pending'[u] = pending[u]
  <2>1. PICK gone : pending' = [pending EXCEPT ![t] = @ \ gone]
    BY DEF Deliver
  <2> QED
    BY <1>0, <2>1 DEF DispatchTypeOK
<1>2. actions' \in [Threads -> [Signals -> SigAction]]
  <2>1. CASE UNCHANGED actions
    BY <1>0, <2>1 DEF DispatchTypeOK
  <2>2. CASE actions' = [actions EXCEPT ![t][s].handler = "SIG_DFL"]
    <3>1. [sa EXCEPT !.handler = "SIG_DFL"] \in SigAction
      BY DEF SigAction, Handlers
    <3>2. actions' = [actions EXCEPT ![t] = [actions[t] EXCEPT ![s] = [sa EXCEPT !.handler = "SIG_DFL"]]]
      BY <1>s, <2>2
    <3> QED
      BY <1>0, <3>1, <3>2 DEF DispatchTypeOK
  <2> QED
    BY <2>1, <2>2 DEF Deliver
<1>3. /\ blocked' \in [Threads -> SUBSET Signals]
      /\ \A u \in Threads : u # t => blocked'[u] = blocked[u]
  <2>1. PICK more \in SUBSET {s} : blocked' = [blocked EXCEPT ![t] = orig \cup sa.mask \cup more]
    BY <1>s DEF Deliver
  <2> QED
    BY <1>0, <1>a, <2>1 DEF DispatchTypeOK
<1>4. PICK f \in Frame : /\ f.orig = orig /\ f.resume = resume
                         /\ frames' = [frames EXCEPT ![t] = <<f>> \o below]
  <2>1. [signo |-> s, handler |-> sa.handler, orig |-> orig, resume |-> resume] \in Frame
    BY <1>a DEF Frame
  <2> QED
    BY <1>s, <2>1 DEF Deliver
<1>5. /\ <<f>> \o below \in Seq(Frame) /\ <<f>> \o below # <<>>
      /\ Bottom(<<f>> \o below) = IF below = <<>> THEN f ELSE Bottom(below)
  BY PushFrame
<1>6. /\ frames' \in [Threads -> Seq(Frame)] /\ frames'[t] = <<f>> \o below
      /\ \A u \in Threads : u # t => frames'[u] = frames[u]
  BY <1>0, <1>4, <1>5 DEF DispatchTypeOK
<1>7. /\ pc' \in [Threads -> Place] /\ \A u \in Threads : u # t => pc'[u] = pc[u]
  BY <1>0, Places DEF Deliver, Goto, DispatchTypeOK
<1>8. DispatchTypeOK'
  BY <1>1, <1>2, <1>3, <1>6, <1>7 DEF DispatchTypeOK
<1>9. StackFacts(t, frames[t])' /\ MaskFacts(t)'
  <2>1. Bottom(frames'[t]).orig = Mask[t] /\ ~InDispatch(Bottom(frames'[t]).resume)
    BY <1>4, <1>5, <1>6 DEF StackFacts
  <2> QED
    BY <1>5, <1>6, <2>1 DEF StackFacts, MaskFacts, Bottom, InDispatch
<1>10. ASSUME NEW u \in Threads, u # t PROVE StackFacts(u, frames[u])' /\ MaskFacts(u)'
  <2>1. StackFacts(u, frames[u]) /\ MaskFacts(u)
    BY DEF DispatchInv
  <2>2. StackFacts(u, frames[u])'
    BY <1>6, <1>10, <2>1 DEF StackFacts, Bottom, InDispatch
  <2>3. MaskFacts(u)'
    BY <1>1, <1>3, <1>6, <1>7, <1>10, <2>1 DEF MaskFacts, InDispatch
  <2> QED
    BY <2>2, <2>3
<1> QED
  BY <1>8, <1>9, <1>10 DEF DispatchInv

\* t is forced into signal_dispatch, wherever it is.
LEMMA DispatchStep ==
  ASSUME DispatchInv, NEW t \in Threads, Dispatch(t)
  PROVE  DispatchInv'
<1>1. /\ forced[t] \in Signals /\ blocked[t] \in SUBSET Signals /\ pc[t] \in Place /\ frames[t] \in Seq(Frame)
      /\ forced' \in [Threads -> Signals \cup {NoSignal}]
      /\ Deliver(t, forced[t], blocked[t], pc[t], frames[t])
  BY DEF Dispatch, DispatchInv, DispatchTypeOK
<1>2. StackFacts(t, frames[t]) /\ (frames[t] = <<>> => blocked[t] = Mask[t] /\ ~InDispatch(pc[t]))
  BY DEF DispatchInv, MaskFacts
<1> QED
  BY <1>1, <1>2, DeliverStep

\* A handler is called, or the process ends.
LEMMA CallHandlerStep ==
  ASSUME DispatchInv, NEW t \in Threads, CallHandler(t)
  PROVE  DispatchInv'
<1>1. /\ UNCHANGED <<pending, blocked, actions, frames, forced>> /\ pc[t][1] = "dispatched"
  BY DEF CallHandler, stateVars, At
<1>2. frames[t] # <<>>
  BY <1>1 DEF DispatchInv, MaskFacts, InDispatch
<1>3. PICK p \in Place : pc' = [pc EXCEPT ![t] = p]
  <2>1. CASE UNCHANGED pc
    <3>1. pc[t] \in Place /\ pc' = [pc EXCEPT ![t] = pc[t]]
      BY <2>1 DEF DispatchInv, DispatchTypeOK
    <3> QED
      BY <3>1
  <2>2. CASE ~UNCHANGED pc
    BY <2>2, Places DEF CallHandler
  <2> QED
    BY <2>1, <2>2
<1> QED
  BY <1>1, <1>2, <1>3, MoveStep

\* A handler has returned: the mask is restored, or the next signal handled.
LEMMA EndOfHandlerStep ==
  ASSUME DispatchInv, NEW t \in Threads, EndOfHandler(t)
  PROVE  DispatchInv'
<1>0. DispatchTypeOK /\ pc[t][1] = "handled" /\ UNCHANGED forced
  BY DEF DispatchInv, EndOfHandler, At
<1>1. frames[t] # <<>> /\ StackFacts(t, frames[t]) /\ frames[t] \in Seq(Frame)
  BY <1>0 DEF DispatchInv, MaskFacts, InDispatch, DispatchTypeOK
<1>2. /\ Head(frames[t]) \in Frame /\ Tail(frames[t]) \in Seq(Frame)
      /\ Bottom(frames[t]) = IF Tail(frames[t]) = <<>> THEN Head(frames[t]) ELSE Bottom(Tail(frames[t]))
  BY <1>1, PopFrame
<1>f. PICK f \in Frame : f = Head(frames[t])
  BY <1>2
<1>r. PICK rest \in Seq(Frame) : rest = Tail(frames[t])
  BY <1>2
<1>3. /\ f.orig \in SUBSET Signals /\ f.resume \in Place /\ StackFacts(t, rest)
      /\ rest = <<>> => f.orig = Mask[t] /\ ~InDispatch(f.resume)
  BY <1>1, <1>2, <1>f, <1>r DEF StackFacts, Frame
<1>4. ASSUME NEW s \in Unblocked(t, f.orig), Deliver(t, s, f.orig, f.resume, rest) PROVE DispatchInv'
  <2>1. s \in Signals
    BY <1>0 DEF Unblocked, process_pending, DispatchTypeOK
  <2>2. forced' \in [Threads -> Signals \cup {NoSignal}]
    BY <1>0 DEF DispatchTypeOK
  <2> QED
    BY <1>3, <1>4, <2>1, <2>2, DeliverStep
<1>5. CASE /\ Unblocked(t, f.orig) = {} /\ blocked' = [blocked EXCEPT ![t] = f.orig]
           /\ frames' = [frames EXCEPT ![t] = Tail(@)] /\ pc' = [pc EXCEPT ![t] = f.resume]
           /\ UNCHANGED <<pending, actions, disabled>>
  <2>1. DispatchTypeOK'
    BY <1>0, <1>2, <1>3, <1>5 DEF DispatchTypeOK
  <2>2. /\ frames'[t] = rest /\ blocked'[t] = f.orig /\ pc'[t] = f.resume /\ pending' = pending
        /\ \A u \in Threads : u # t => frames'[u] = frames[u] /\ blocked'[u] = blocked[u] /\ pc'[u] = pc[u]
    BY <1>0, <1>r, <1>5 DEF DispatchTypeOK
  <2>3. pending[t] \subseteq f.orig
    BY <1>5 DEF Unblocked
  <2>4. StackFacts(t, frames[t])' /\ MaskFacts(t)'
    BY <1>3, <2>2, <2>3 DEF StackFacts, MaskFacts, Bottom, InDispatch
  <2>5. ASSUME NEW u \in Threads, u # t PROVE StackFacts(u, frames[u])' /\ MaskFacts(u)'
    <3>1. StackFacts(u, frames[u]) /\ MaskFacts(u)
      BY DEF DispatchInv
    <3> QED
      BY <2>2, <2>5, <3>1 DEF StackFacts, MaskFacts, Bottom, InDispatch
  <2> QED
    BY <2>1, <2>4, <2>5 DEF DispatchInv
<1> QED
  BY <1>f, <1>r, <1>4, <1>5 DEF EndOfHandler

\* A waiter is given a signal.
LEMMA UnblockStep ==
  ASSUME DispatchInv, NEW w, NEW s, sigwaiter_unblock(w, s), UNCHANGED <<forced, frames>>,
         pc' \in [Threads -> Place], \A u \in Threads : InDispatch(pc'[u]) => frames[u] # <<>>
  PROVE  DispatchInv'
<1>0. DispatchTypeOK
  BY DEF DispatchInv
<1>1. pending' = [pending EXCEPT ![w] = @ \ {s}] /\ UNCHANGED <<blocked, actions>>
  BY DEF sigwaiter_unblock
<1>2. /\ pending' \in [Threads -> SUBSET Signals]
      /\ \A u \in Threads : pending'[u] \subseteq pending[u] \cup blocked[u]
  BY <1>0, <1>1 DEF DispatchTypeOK
<1>3. forced' \in [Threads -> Signals \cup {NoSignal}]
  BY <1>0 DEF DispatchTypeOK
<1> QED
  BY <1>1, <1>2, <1>3, QuietStep

\* pthread_kill_siginfo_np, whoever calls it for whom.
LEMMA GenerateStep ==
  ASSUME DispatchInv, NEW t \in Threads, NEW u \in Threads, NEW s \in Signals, Generate(t, u, s)
  PROVE  DispatchInv'
<1>0. DispatchTypeOK
  BY DEF DispatchInv
<1>p. ASSUME pc' = [pc EXCEPT ![t] = Running]
      PROVE  pc' \in [Threads -> Place] /\ \A v \in Threads : InDispatch(pc'[v]) => frames[v] # <<>>
  <2>1. pc' \in [Threads -> Place] /\ \A v \in Threads : pc'[v] = IF v = t THEN Running ELSE pc[v]
    BY <1>0, <1>p, Places DEF DispatchTypeOK
  <2> QED
    BY <2>1, Places DEF DispatchInv, MaskFacts
<1>f. UNCHANGED forced
  BY DEF Generate
<1>1. CASE sigwaiter_unblock(u, s) /\ pc' = [pc EXCEPT ![t] = Running] /\ UNCHANGED <<ssLock, frames>>
  BY <1>1, <1>f, <1>p, UnblockStep
<1>2. CASE pc' = [pc EXCEPT ![t] = Running] /\ UNCHANGED <<stateVars, waitVars, ssLock, frames>>
  BY <1>2, <1>f, Places, MoveStep DEF stateVars
<1>3. CASE /\ s \in blocked[u] /\ pending' = [pending EXCEPT ![u] = @ \cup {s}]
           /\ pc' = [pc EXCEPT ![t] = Running]
           /\ UNCHANGED <<blocked, actions, disabled, waitVars, ssLock, frames>>
  <2>1. /\ pending' \in [Threads -> SUBSET Signals]
        /\ \A v \in Threads : pending'[v] \subseteq pending[v] \cup blocked[v]
    BY <1>0, <1>3 DEF DispatchTypeOK
  <2>2. forced' \in [Threads -> Signals \cup {NoSignal}]
    BY <1>0, <1>f DEF DispatchTypeOK
  <2> QED
    BY <1>3, <1>p, <2>1, <2>2, QuietStep
<1>4. CASE Deliver(t, s, blocked[t], Running, frames[t]) /\ UNCHANGED ssLock
  <2>1. /\ blocked[t] \in SUBSET Signals /\ frames[t] \in Seq(Frame) /\ StackFacts(t, frames[t])
        /\ forced' \in [Threads -> Signals \cup {NoSignal}]
        /\ frames[t] = <<>> => blocked[t] = Mask[t]
    BY <1>0, <1>4, <1>f DEF DispatchTypeOK, DispatchInv, MaskFacts
  <2> QED
    BY <1>4, <2>1, Places, DeliverStep
<1>5. CASE Goto(t, "force", <<u, s>>) /\ UNCHANGED <<stateVars, frames>>
  BY <1>5, <1>f, Places, MoveStep DEF stateVars, Goto
<1> QED
  BY <1>1, <1>2, <1>3, <1>4, <1>5 DEF Generate

\* signal_dispatch_lowlevel, wherever the target is.
LEMMA KillForcesStep ==
  ASSUME DispatchInv, NEW t \in Threads, KillForces(t)
  PROVE  DispatchInv'
<1>0. DispatchTypeOK /\ pc[t] \in Place /\ pc[t][1] = "force"
  BY DEF DispatchInv, DispatchTypeOK, KillForces, At
<1>1. PICK u \in Threads, s \in Signals : forced' = [forced EXCEPT ![u] = s]
  BY <1>0, KillPlaces DEF KillForces
<1>2. /\ forced' \in [Threads -> Signals \cup {NoSignal}] /\ UNCHANGED <<blocked, actions, pending, frames>>
      /\ pending' \in [Threads -> SUBSET Signals] /\ pc' = [pc EXCEPT ![t] = Running]
  BY <1>0, <1>1 DEF DispatchTypeOK, stateVars, KillForces
<1>3. pc' \in [Threads -> Place] /\ \A v \in Threads : pc'[v] = IF v = t THEN Running ELSE pc[v]
  BY <1>0, <1>2, Places DEF DispatchTypeOK
<1>4. \A v \in Threads : InDispatch(pc'[v]) => frames[v] # <<>>
  BY <1>3, Places DEF DispatchInv, MaskFacts
<1> QED
  BY <1>2, <1>3, <1>4, QuietStep

\* kill has sig_lock and the ss->lock of the waiter it has found.
LEMMA KillWakesStep ==
  ASSUME DispatchInv, NEW t \in Threads, KillWakes(t)
  PROVE  DispatchInv'
<1>0. DispatchTypeOK
  BY DEF DispatchInv
<1>1. PICK w, s : sigwaiter_unblock(w, s)
  BY DEF KillWakes
<1>2. UNCHANGED <<forced, frames>> /\ pc' = [pc EXCEPT ![t] = Running]
  BY DEF KillWakes
<1>3. pc' \in [Threads -> Place] /\ \A v \in Threads : pc'[v] = IF v = t THEN Running ELSE pc[v]
  BY <1>0, <1>2, Places DEF DispatchTypeOK
<1>4. \A v \in Threads : InDispatch(pc'[v]) => frames[v] # <<>>
  BY <1>3, Places DEF DispatchInv, MaskFacts
<1> QED
  BY <1>1, <1>2, <1>3, <1>4, UnblockStep

\* sigaction discards a pending signal, or changes the mask by signals that are
\* not in it.
LEMMA SigactionStep ==
  ASSUME MasksSane, DispatchInv, NEW t \in Threads, NEW s \in Signals, NEW sa \in SigAction,
         sigaction(t, s, sa)
  PROVE  DispatchInv'
<1>0. /\ DispatchTypeOK
      /\ actions' = [actions EXCEPT ![t][s] = sa]
      /\ blocked' = [blocked EXCEPT ![t] = @ \ {"SIGKILL", "SIGSTOP"}]
      /\ pending' = [pending EXCEPT ![t] = IF Ignores(sa, s) THEN @ \ {s} ELSE @]
      /\ UNCHANGED <<forced, frames, pc>>
  BY DEF DispatchInv, sigaction
<1>1. /\ pending' \in [Threads -> SUBSET Signals] /\ \A u \in Threads : pending'[u] \subseteq pending[u]
  BY <1>0 DEF DispatchTypeOK
<1>2. /\ blocked' \in [Threads -> SUBSET Signals]
      /\ \A u \in Threads : blocked'[u] = IF u = t THEN blocked[u] \ {"SIGKILL", "SIGSTOP"} ELSE blocked[u]
  BY <1>0 DEF DispatchTypeOK
<1>3. actions' \in [Threads -> [Signals -> SigAction]]
  BY <1>0 DEF DispatchTypeOK
<1>4. DispatchTypeOK'
  BY <1>0, <1>1, <1>2, <1>3 DEF DispatchTypeOK
<1>5. ASSUME NEW u \in Threads PROVE StackFacts(u, frames[u])' /\ MaskFacts(u)'
  <2>1. StackFacts(u, frames[u]) /\ MaskFacts(u)
    BY DEF DispatchInv
  <2>2. StackFacts(u, frames[u])'
    BY <1>0, <2>1 DEF StackFacts, Bottom, InDispatch
  <2>3. Mask[u] \ {"SIGKILL", "SIGSTOP"} = Mask[u]
    BY DEF MasksSane
  <2>4. MaskFacts(u)'
    BY <1>0, <1>1, <1>2, <2>1, <2>3 DEF MaskFacts, InDispatch
  <2> QED
    BY <2>2, <2>4
<1> QED
  BY <1>4, <1>5 DEF DispatchInv

-----------------------------------------------------------------------------
(* The theorems.                                                           *)

\* Every step preserves the invariant.
LEMMA DispatchInvStep ==
  ASSUME MasksSane, DispatchInv, [SignalsNext]_vars
  PROVE  DispatchInv'
<1>0. DispatchTypeOK
  BY DEF DispatchInv
<1>1. ASSUME NEW t \in Threads, NEW set \in WaitSets, SigwaitLock(t, set) PROVE DispatchInv'
  BY <1>1, Places, MoveStep DEF SigwaitLock, Goto, stateVars
<1>2. ASSUME NEW t \in Threads, NEW u \in Threads, NEW s \in Signals, pthread_kill(t, u, s) PROVE DispatchInv'
  BY <1>2, Places, MoveStep DEF pthread_kill, LockSig, Goto, stateVars
<1>3. ASSUME NEW t \in Threads, NEW s \in Signals, KillWaiter(t, s) PROVE DispatchInv'
  <2>1. PICK w \in Threads : Goto(t, "wake", <<w, s>>)
    BY <1>3 DEF KillWaiter, Interested
  <2> QED
    BY <1>3, <2>1, Places, MoveStep DEF KillWaiter, Goto, stateVars
<1>4. ASSUME NEW t \in Threads, NEW s \in Signals, KillSelf(t, s) PROVE DispatchInv'
  BY <1>4, Places, MoveStep DEF KillSelf, Goto, stateVars
<1>5. ASSUME NEW t \in Threads, NEW s \in Signals, NEW sa \in SigActions[s], sigaction(t, s, sa) PROVE DispatchInv'
  BY <1>5, SignalsAssumption, SigactionStep
<1>6. ASSUME NEW t \in Threads, NEW s \in Signals, signal(t, s, "handler") PROVE DispatchInv'
  <2>1. [handler |-> "handler", flags |-> {}, mask |-> {s}] \in SigAction
    BY DEF SigAction, Handlers
  <2> QED
    BY <1>6, <2>1, SigactionStep DEF signal
<1>7. ASSUME NEW t \in Threads, NEW disable \in BOOLEAN, sigaltstack(t, disable) PROVE DispatchInv'
  <2>1. UNCHANGED <<blocked, actions, frames, pending, forced, pc>>
    BY <1>7 DEF sigaltstack
  <2>2. pc[t] \in Place /\ pc' = [pc EXCEPT ![t] = pc[t]] /\ (InDispatch(pc[t]) => frames[t] # <<>>)
    BY <1>0, <2>1 DEF DispatchTypeOK, DispatchInv, MaskFacts
  <2> QED
    BY <2>1, <2>2, MoveStep
<1>8. ASSUME NEW t \in Threads, HandlerReturns(t) PROVE DispatchInv'
  BY <1>8, Places, MoveStep DEF HandlerReturns, Goto, stateVars
<1>9. ASSUME NEW t \in Threads, SigwaitAccepts(t) PROVE DispatchInv'
  <2>1. /\ UNCHANGED <<blocked, actions, forced, frames>> /\ pc' = [pc EXCEPT ![t] = Running]
    BY <1>9 DEF SigwaitAccepts
  <2>2. PICK s : pending' = [pending EXCEPT ![t] = @ \ {s}]
    BY <1>9 DEF SigwaitAccepts
  <2>3. /\ pending' \in [Threads -> SUBSET Signals]
        /\ \A v \in Threads : pending'[v] \subseteq pending[v] \cup blocked[v]
    BY <1>0, <2>2 DEF DispatchTypeOK
  <2>4. pc' \in [Threads -> Place] /\ \A v \in Threads : pc'[v] = IF v = t THEN Running ELSE pc[v]
    BY <1>0, <2>1, Places DEF DispatchTypeOK
  <2>5. \A v \in Threads : InDispatch(pc'[v]) => frames[v] # <<>>
    BY <2>4, Places DEF DispatchInv, MaskFacts
  <2>6. forced' \in [Threads -> Signals \cup {NoSignal}]
    BY <1>0, <2>1 DEF DispatchTypeOK
  <2> QED
    BY <2>1, <2>3, <2>4, <2>5, <2>6, QuietStep
<1>10. ASSUME NEW t \in Threads, sigwaiter_block(t) PROVE DispatchInv'
  BY <1>10, Places, MoveStep DEF sigwaiter_block, Goto, stateVars
<1>11. ASSUME NEW t \in Threads, SigwaitReturns(t) PROVE DispatchInv'
  BY <1>11, Places, MoveStep DEF SigwaitReturns, stateVars
<1>12. ASSUME NEW t \in Threads, KillRaise(t) PROVE DispatchInv'
  <2>1. pc[t][1] = "raise" /\ pc[t] \in Place /\ LockSig(t, t, pc[t][2])
    BY <1>0, <1>12 DEF KillRaise, At, DispatchTypeOK
  <2>2. pc[t][2] \in Signals
    BY <2>1 DEF Place
  <2> QED
    BY <2>1, <2>2, Places, MoveStep DEF LockSig, Goto, stateVars
<1>15. ASSUME NEW t \in Threads, KillGenerates(t) PROVE DispatchInv'
  <2>1. pc[t][1] = "kill" /\ pc[t] \in Place /\ Generate(t, pc[t][2][1], pc[t][2][2])
    BY <1>0, <1>15 DEF KillGenerates, At, DispatchTypeOK
  <2> QED
    BY <2>1, KillPlaces, GenerateStep
<1>13. CASE UNCHANGED vars
  <2>1. UNCHANGED <<pending, blocked, actions, forced, frames, pc>>
    BY <1>13 DEF vars, stateVars
  <2> QED
    BY <1>0, <2>1, QuietStep DEF DispatchTypeOK, DispatchInv, MaskFacts
<1>14. ASSUME SignalsNext PROVE DispatchInv'
  BY <1>1, <1>2, <1>3, <1>4, <1>5, <1>6, <1>7, <1>8, <1>9, <1>10, <1>11, <1>12, <1>14, <1>15,
     DispatchStep, CallHandlerStep, EndOfHandlerStep, KillForcesStep, KillWakesStep DEF SignalsNext, raise
<1> QED
  BY <1>13, <1>14

\* The frames, masks and pending signals of every thread keep their types, and
\* the bottom frame the thread's own mask, whatever is sent to whom.
THEOREM DispatchInvariant ==
  ASSUME MasksSane
  PROVE  SignalsSpec => []DispatchInv
<1>1. ASSUME SignalsInit PROVE DispatchInv
  <2>1. DispatchTypeOK
    <3>1. DefaultAction \in SigAction /\ Running \in Place
      BY Places DEF DefaultAction, SigAction, Handlers
    <3> QED
      BY <1>1, <3>1, SignalsAssumption DEF SignalsInit, DispatchTypeOK
  <2>2. \A t \in Threads : frames[t] = <<>> /\ blocked[t] = Mask[t] /\ pending[t] = {} /\ pc[t] = Running
    BY <1>1 DEF SignalsInit
  <2> QED
    BY <2>1, <2>2, Places DEF DispatchInv, StackFacts, MaskFacts
<1>2. DispatchInv /\ [SignalsNext]_vars => DispatchInv'
  BY DispatchInvStep
<1> QED
  BY <1>1, <1>2, PTL DEF SignalsSpec

\* signal_dispatch does not return from a thread's last handler while a signal
\* is pending that the thread does not block.
THEOREM NothingIsLeftPending ==
  ASSUME MasksSane
  PROVE  SignalsSpec => []PendingIsBlocked
<1>1. DispatchInv => PendingIsBlocked
  BY DEF DispatchInv, MaskFacts, PendingIsBlocked
<1> QED
  BY <1>1, DispatchInvariant, PTL

\* When its handlers have returned, however they nested, a thread has the
\* signal mask that it had before the first of them was called.
THEOREM MaskIsRestored ==
  ASSUME MasksSane
  PROVE  SignalsSpec => []MaskRestored
<1>1. DispatchInv => MaskRestored
  BY DEF DispatchInv, MaskFacts, MaskRestored, MasksSane
<1> QED
  BY <1>1, DispatchInvariant, PTL
=============================================================================
