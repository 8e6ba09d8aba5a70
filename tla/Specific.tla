------------------------------ MODULE Specific ------------------------------
(***************************************************************************)
(* Thread-specific data: the table of keys and the tables of values        *)
(* (sysdeps/hurd/pt-key*.c, pt-*specific*.c), and pthread_once, which gets *)
(* the lock of the keys ready (sysdeps/generic/pt-once.c).                 *)
(*                                                                         *)
(* pthread_key_create and pthread_key_delete are atomic: they run under    *)
(* __pthread_key_lock.  The destruction of a thread's values keeps that    *)
(* lock while destructors, which are code of the program, run; the lock is *)
(* recursive, so a destructor may create and delete keys.  Key k is number *)
(* k - 1 of the code; of a value only whether it is NULL matters.          *)
(*                                                                         *)
(* pthread_setspecific takes no lock, so the deletion of a key may meet a  *)
(* thread that is setting a key, the same or another: the removal, which   *)
(* works on the table that the thread's hurd_ihash_add is rehashing, may   *)
(* be lost, and a value may be added for a key that is no longer valid.    *)
(***************************************************************************)
EXTENDS Naturals, Sequences, FiniteSetsExt

CONSTANTS Threads,
          NoThread,      \* no thread
          InitialKeys,   \* the first size of the table of keys, 8 in the code
          RescanMin,     \* invalid keys that are not worth a rescan, 4 in the code
          MaxSize,       \* bound: a larger table of keys is not allocated
          MaxResets      \* bound: values the destructors of an exiting thread set

ASSUME SpecificAssumption ==
  /\ NoThread \notin Threads
  /\ {InitialKeys, RescanMin, MaxSize, MaxResets} \subseteq Nat /\ InitialKeys > 0

Destructors == {"none", "some"}   \* NULL, or a function
Invalid == "invalid"              \* PTHREAD_KEY_INVALID

VARIABLES
  destructors,   \* __pthread_key_destructors, as far as it is in use
  size,          \* __pthread_key_size
  invalid,       \* __pthread_key_invalid_count
  index,         \* where pthread_key_create looks for the next slot
  once,          \* once.run, and once.lock: who has the spin lock of the once
  inits,         \* how often the routine of the once has run
  keyLock,       \* who holds __pthread_key_lock
  specifics,     \* specifics[t]: t->thread_specifics is NULL, a table, or freed
  values,        \* values[t]: the keys t has a value other than NULL for
  adding,        \* adding[t]: the key of t's hurd_ihash_add, or 0
  lost,          \* lost[t]: the deleted keys that stayed in, or got into, t's table
  pc,            \* pc[t]: where t is
  pos,           \* pos[t]: the key at which its destruction has arrived
  seenOne,       \* seenOne[t]: seen_one, a destructor was called in this pass
  resets         \* resets[t]: the values destructors have set

keyVars == <<destructors, size, invalid, index>>
onceVars == <<once, inits>>
addVars == <<adding, lost>>
threadVars == <<specifics, values, addVars>>
scanVars == <<pos, seenOne, resets>>
vars == <<keyVars, onceVars, keyLock, threadVars, pc, scanVars>>

Calls == {"create", "delete", "destroy"}   \* the calls that lock the keys

SpecificTypeOK ==
  /\ destructors \in Seq(Destructors \cup {Invalid})
  /\ {size, invalid, index, inits} \subseteq Nat
  /\ once.run \in BOOLEAN /\ once.lock \in Threads \cup {NoThread}
  /\ keyLock \in Threads \cup {NoThread}
  /\ specifics \in [Threads -> {"null", "live", "freed"}]
  /\ values \in [Threads -> SUBSET Nat]
  /\ adding \in [Threads -> Nat]
  /\ lost \in [Threads -> SUBSET Nat]

SpecificInit ==
  /\ destructors = <<>> /\ size = 0 /\ invalid = 0 /\ index = 1
  /\ once = [run |-> FALSE, lock |-> NoThread] /\ inits = 0
  /\ keyLock = NoThread
  /\ specifics = [t \in Threads |-> "null"]
  /\ values = [t \in Threads |-> {}]
  /\ adding = [t \in Threads |-> 0]
  /\ lost = [t \in Threads |-> {}]
  /\ pc = [t \in Threads |-> <<"run", "run">>]
  /\ pos = [t \in Threads |-> 1]
  /\ seenOne = [t \in Threads |-> FALSE]
  /\ resets = [t \in Threads |-> 0]

-----------------------------------------------------------------------------
\* pc[t] is a pair: the place, and the call pthread_once was made for.
At(t, l) == pc[t][1] = l
Goto(t, l) == pc' = [pc EXCEPT ![t] = <<l, "run">>]

\* t runs code of the program.
InProgram(t) == (At(t, "run") \/ At(t, "destructor")) /\ adding[t] = 0

Valid(k) == k \in DOMAIN destructors /\ destructors[k] # Invalid

\* The recursive lock of the keys can be taken by t.
CanLock(t) == keyLock \in {NoThread, t}

-----------------------------------------------------------------------------
(* pthread_once (&o, do_init), the first thing the calls do.               *)

\* The unlocked look at run.
Ready(t, call) ==
  /\ InProgram(t)
  /\ At(t, "destructor") => call # "destroy"
  /\ call = "destroy" => specifics[t] # "null"
  /\ pc' = [pc EXCEPT ![t] = IF once.run THEN <<call, @[1]>> ELSE <<"once", call>>]
  /\ UNCHANGED <<keyVars, onceVars, keyLock, threadVars, scanVars>>

\* Mutant of OnceLock: run is not looked at again under the lock.
OnceUnchecked(t) ==
  /\ At(t, "once") /\ once.lock = NoThread
  /\ once' = [once EXCEPT !.lock = t]
  /\ pc' = [pc EXCEPT ![t] = <<"init", @[2]>>]
  /\ UNCHANGED <<keyVars, inits, keyLock, threadVars, scanVars>>

\* Under the spin lock the routine is called, unless it has been meanwhile.
OnceLock(t) ==
  /\ At(t, "once") /\ once.lock = NoThread
  /\ once' = [once EXCEPT !.lock = t]
  /\ pc' = [pc EXCEPT ![t] = <<IF once.run THEN "unspin" ELSE "init", @[2]>>]
  /\ UNCHANGED <<keyVars, inits, keyLock, threadVars, scanVars>>

\* do_init makes __pthread_key_lock a recursive mutex, which is not locked.
OnceRun(t) ==
  /\ At(t, "init")
  /\ inits' = inits + 1
  /\ keyLock' = NoThread
  /\ once' = [once EXCEPT !.run = TRUE]
  /\ pc' = [pc EXCEPT ![t] = <<"unspin", @[2]>>]
  /\ UNCHANGED <<keyVars, threadVars, scanVars>>

OnceUnlock(t) ==
  /\ At(t, "unspin")
  /\ once' = [once EXCEPT !.lock = NoThread]
  /\ pc' = [pc EXCEPT ![t] = <<@[2], "run">>]
  /\ UNCHANGED <<keyVars, inits, keyLock, threadVars, scanVars>>

-----------------------------------------------------------------------------
(* Keys.                                                                   *)

\* The first free slot from i on, or the one after the last.
Search(i) == Min({k \in i..Len(destructors) : destructors[k] = Invalid}
                   \cup {Len(destructors) + 1})

\* The table is full, and there are enough free slots to search it again.
WorthRescan == /\ size = Len(destructors)
               /\ invalid > RescanMin /\ invalid > size \div 8

\* The slot pthread_key_create finds.
Slot == IF Search(index) > Len(destructors) /\ WorthRescan THEN Search(1) ELSE Search(index)

\* The table after the resizing that room for one more key may need.
Resized == CASE size # Len(destructors) -> size
             [] size = 0 -> InitialKeys
             [] OTHER -> 2 * size

\* Mutant of pthread_key_create: a slot that is used again stays counted.
KeyCreateUncounted(t, d) ==
  /\ At(t, "create") /\ CanLock(t)
  /\ \/ /\ Slot <= Len(destructors)
        /\ destructors' = [destructors EXCEPT ![Slot] = d]
        /\ UNCHANGED size
     \/ /\ Slot = Len(destructors) + 1 /\ Resized <= MaxSize
        /\ destructors' = Append(destructors, d)
        /\ size' = Resized
  /\ index' = Slot + 1
  /\ pc' = [pc EXCEPT ![t] = <<@[2], "run">>]
  /\ UNCHANGED <<invalid, onceVars, keyLock, threadVars, scanVars>>

\* A free slot is used again, or a slot at the end, for which there may be no
\* memory (ENOMEM, see KeyCreateFails).
pthread_key_create(t, d) ==
  /\ At(t, "create") /\ CanLock(t)
  /\ \/ /\ Slot \in DOMAIN destructors /\ destructors[Slot] = Invalid
        /\ destructors' = [destructors EXCEPT ![Slot] = d]
        /\ invalid' = invalid - 1
        /\ UNCHANGED size
     \/ /\ Slot = Len(destructors) + 1 /\ Resized <= MaxSize
        /\ destructors' = Append(destructors, d)
        /\ size' = Resized
        /\ UNCHANGED invalid
  /\ index' = Slot + 1
  /\ pc' = [pc EXCEPT ![t] = <<@[2], "run">>]
  /\ UNCHANGED <<onceVars, keyLock, threadVars, scanVars>>

\* A program that runs out of keys goes on; the search has moved the hint.
KeyCreateFails(t) ==
  /\ At(t, "create") /\ CanLock(t)
  /\ Slot = Len(destructors) + 1 /\ size = Len(destructors)
  /\ index' = Slot
  /\ pc' = [pc EXCEPT ![t] = <<@[2], "run">>]
  /\ UNCHANGED <<destructors, size, invalid, onceVars, keyLock, threadVars, scanVars>>

\* The values of key k are removed from every thread that has a table, but for
\* the threads that miss it.  (What happens to a table that is being freed is
\* not modelled.)
RemoveKey(k, miss) ==
  /\ values' = [u \in Threads |-> IF u \in miss \/ specifics[u] = "null" THEN values[u]
                                  ELSE values[u] \ {k}]
  /\ UNCHANGED <<specifics, adding>>

\* The tables that are being added to while key k is removed from them.
MayMiss(k) == {u \in Threads : adding[u] # 0 /\ k \in values[u]}

\* Mutant of pthread_key_delete: the caller's own value is left behind.
KeyDeleteOthers(t, k) ==
  /\ At(t, "delete") /\ CanLock(t) /\ Valid(k)
  /\ destructors' = [destructors EXCEPT ![k] = Invalid]
  /\ invalid' = invalid + 1
  /\ RemoveKey(k, {t})
  /\ lost' = [u \in Threads |-> lost[u] \ {k}]
  /\ pc' = [pc EXCEPT ![t] = <<@[2], "run">>]
  /\ UNCHANGED <<size, index, onceVars, keyLock, scanVars>>

\* The slot becomes invalid, and the values are removed; a table that is being
\* added to may be replaced by a copy that still has the value.
pthread_key_delete(t, k) ==
  /\ At(t, "delete") /\ CanLock(t) /\ Valid(k)
  /\ destructors' = [destructors EXCEPT ![k] = Invalid]
  /\ invalid' = invalid + 1
  /\ \E miss \in SUBSET MayMiss(k) :
       /\ RemoveKey(k, miss)
       /\ lost' = [u \in Threads |-> IF u \in miss THEN lost[u] \cup {k} ELSE lost[u] \ {k}]
  /\ pc' = [pc EXCEPT ![t] = <<@[2], "run">>]
  /\ UNCHANGED <<size, index, onceVars, keyLock, scanVars>>

\* There is no such key: EINVAL.
KeyDeleteFails(t) ==
  /\ At(t, "delete") /\ CanLock(t) /\ \E k \in 1..MaxSize : ~Valid(k)
  /\ pc' = [pc EXCEPT ![t] = <<@[2], "run">>]
  /\ UNCHANGED <<keyVars, onceVars, keyLock, threadVars, scanVars>>

\* pthread_setspecific makes sure that t has a table, and starts to add to it...
pthread_setspecific(t, k) ==
  /\ InProgram(t) /\ Valid(k)
  /\ At(t, "destructor") => resets[t] < MaxResets
  /\ specifics' = [specifics EXCEPT ![t] = "live"]
  /\ adding' = [adding EXCEPT ![t] = k]
  /\ resets' = [resets EXCEPT ![t] = IF At(t, "destructor") THEN @ + 1 ELSE @]
  /\ UNCHANGED <<keyVars, onceVars, keyLock, values, lost, pc, pos, seenOne>>

\* ... and has added the value, NULL or another.
ValueAdded(t, null) ==
  /\ adding[t] # 0
  /\ values' = [values EXCEPT ![t] = IF null THEN @ \ {adding[t]} ELSE @ \cup {adding[t]}]
  /\ lost' = [lost EXCEPT ![t] = IF null \/ Valid(adding[t]) THEN @ \ {adding[t]}
                                 ELSE @ \cup {adding[t]}]
  /\ adding' = [adding EXCEPT ![t] = 0]
  /\ UNCHANGED <<keyVars, onceVars, keyLock, specifics, pc, scanVars>>

\* pthread_getspecific (k) # NULL.
pthread_getspecific(t, k) == Valid(k) /\ specifics[t] # "null" /\ k \in values[t]

-----------------------------------------------------------------------------
(* __pthread_destroy_specific, in pthread_exit.                            *)

\* Mutant of LockKeys: seen_one is not reset for another pass.
LockKeysStale(t) ==
  /\ At(t, "destroy") /\ keyLock = NoThread
  /\ keyLock' = t
  /\ pos' = [pos EXCEPT ![t] = 1]
  /\ Goto(t, "scan")
  /\ UNCHANGED <<keyVars, onceVars, threadVars, seenOne, resets>>

\* A pass over the keys begins.
LockKeys(t) ==
  /\ At(t, "destroy") /\ keyLock = NoThread
  /\ keyLock' = t
  /\ pos' = [pos EXCEPT ![t] = 1]
  /\ seenOne' = [seenOne EXCEPT ![t] = FALSE]
  /\ Goto(t, "scan")
  /\ UNCHANGED <<keyVars, onceVars, threadVars, resets>>

\* The keys ahead for which t has a value; keys that became invalid are passed
\* over.
Ahead(t) == {k \in pos[t]..Len(destructors) : Valid(k) /\ k \in values[t]}

\* Mutant of DestroyValue: a pass that called a destructor does not count.
DestroyUnseen(t) ==
  LET k == Min(Ahead(t)) IN
  /\ At(t, "scan") /\ Ahead(t) # {}
  /\ values' = [values EXCEPT ![t] = @ \ {k}]
  /\ pos' = [pos EXCEPT ![t] = k + 1]
  /\ Goto(t, IF destructors[k] = "none" THEN "scan" ELSE "destructor")
  /\ UNCHANGED <<keyVars, onceVars, keyLock, specifics, addVars, seenOne, resets>>

\* The value is removed, then its destructor, if any, called with it.
DestroyValue(t) ==
  /\ At(t, "scan")
  /\ \E k \in Ahead(t) :
       /\ \A j \in Ahead(t) : k <= j
       /\ values' = [values EXCEPT ![t] = @ \ {k}]
       /\ lost' = [lost EXCEPT ![t] = @ \ {k}]
       /\ pos' = [pos EXCEPT ![t] = k + 1]
       /\ IF destructors[k] = "none"
          THEN Goto(t, "scan") /\ UNCHANGED seenOne
          ELSE Goto(t, "destructor") /\ seenOne' = [seenOne EXCEPT ![t] = TRUE]
  /\ UNCHANGED <<keyVars, onceVars, keyLock, specifics, adding, resets>>

DestructorReturns(t) ==
  /\ At(t, "destructor") /\ adding[t] = 0
  /\ Goto(t, "scan")
  /\ UNCHANGED <<keyVars, onceVars, keyLock, threadVars, scanVars>>

\* Another pass, if this one called a destructor.
PassEnds(t) ==
  /\ At(t, "scan") /\ Ahead(t) = {}
  /\ keyLock' = NoThread
  /\ Goto(t, IF seenOne[t] THEN "destroy" ELSE "free")
  /\ UNCHANGED <<keyVars, onceVars, threadVars, scanVars>>

\* hurd_ihash_free, with the lock released.
FreeTable(t) ==
  /\ At(t, "free")
  /\ specifics' = [specifics EXCEPT ![t] = "freed"]
  /\ Goto(t, "clear")
  /\ UNCHANGED <<keyVars, onceVars, keyLock, values, addVars, scanVars>>

\* The thread is gone; the next one has no table (__pthread_init_specific).
ClearTable(t) ==
  /\ At(t, "clear")
  /\ specifics' = [specifics EXCEPT ![t] = "null"]
  /\ values' = [values EXCEPT ![t] = {}]
  /\ lost' = [lost EXCEPT ![t] = {}]
  /\ pos' = [pos EXCEPT ![t] = 1]
  /\ seenOne' = [seenOne EXCEPT ![t] = FALSE]
  /\ resets' = [resets EXCEPT ![t] = 0]
  /\ Goto(t, "run")
  /\ UNCHANGED <<keyVars, onceVars, keyLock, adding>>

-----------------------------------------------------------------------------
\* A call that is under way goes on: one that needs the lock of the keys...
Locks(t) ==
  \/ LockKeys(t)
  \/ \E d \in Destructors : pthread_key_create(t, d)
  \/ KeyCreateFails(t)
  \/ \E k \in 1..MaxSize : pthread_key_delete(t, k)
  \/ KeyDeleteFails(t)

\* ... or one that does not.
Continue(t) ==
  \/ OnceLock(t) \/ OnceRun(t) \/ OnceUnlock(t)
  \/ \E null \in BOOLEAN : ValueAdded(t, null)
  \/ DestroyValue(t) \/ PassEnds(t)
  \/ FreeTable(t) \/ ClearTable(t)

SpecificNext ==
  \E t \in Threads :
    \/ Continue(t)
    \/ Locks(t)
    \/ DestructorReturns(t)
    \/ \E call \in Calls : Ready(t, call)
    \/ \E k \in 1..MaxSize : pthread_setspecific(t, k)

\* Threads are scheduled, and a thread that has the lock of the keys gets it
\* again.  When it is free one of those that want it gets it, no matter which:
\* the queue of a mutex is last in, first out.  A destructor may make many
\* calls, and returns in the end.
SpecificSpec == /\ SpecificInit /\ [][SpecificNext]_vars
                /\ WF_vars(\E t \in Threads : Locks(t))
                /\ \A t \in Threads : /\ WF_vars(Continue(t))
                                      /\ WF_vars(keyLock = t /\ Locks(t))
                                      /\ SF_vars(DestructorReturns(t))

-----------------------------------------------------------------------------
\* What pthread_key_create asserts and pt-key.h says of the table: the count of
\* invalid elements is right, so that a rescan ends at one, and the hint where
\* to look is never past the end, whatever destructors create and delete.
KeysSound ==
  /\ invalid = Cardinality({k \in DOMAIN destructors : destructors[k] = Invalid})
  /\ index \in 1..Len(destructors) + 1 /\ Len(destructors) <= size

\* A key that is not in use has no value in any thread: when it is created
\* again, every thread finds NULL, also one whose values are being destroyed.
\* The only exception is a thread that was in pthread_setspecific, of that key or
\* another, just when the key was deleted, and has not set the key since.
NewKeyIsNull == \A t \in Threads : \A k \in values[t] : Valid(k) \/ k \in lost[t]

\* A thread's table is freed only when no value is left that a destructor is
\* to be called with, though destructors set values again and keys come and go
\* (but for a value that came back with a key whose removal was lost).
NoValueLeft ==
  \A t \in Threads : At(t, "free") \/ At(t, "clear") =>
    \A k \in 1..Len(destructors) :
      destructors[k] = "some" /\ k \notin lost[t] => ~pthread_getspecific(t, k)

\* The lock of the keys is initialised once, before anybody can take it.
KeyLockReady ==
  /\ inits <= 1
  /\ \A t \in Threads : pc[t][1] \in Calls \cup {"scan", "destructor"} => inits = 1

\* t waits for ever for the lock of the keys, which others take again and again.
Overtaken(t) == /\ <>[]At(t, "destroy")
                /\ []<><<\E u \in Threads \ {t} : Locks(u)>>_vars

\* The values of a thread that exits are destroyed in the end, if its
\* destructors do not set new ones for ever, unless it is overtaken for ever at
\* the lock of the keys.
ExitsInTheEnd == \A t \in Threads : (At(t, "destroy") ~> At(t, "run")) \/ Overtaken(t)
=============================================================================
