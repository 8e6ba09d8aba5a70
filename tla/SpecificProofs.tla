--------------------------- MODULE SpecificProofs ---------------------------
(***************************************************************************)
(* Theorems about thread-specific data, for any number of threads and keys *)
(* and whatever destructors do.                                            *)
(***************************************************************************)
EXTENDS Specific, SequenceTheorems, FiniteSetTheorems, TLAPS

Places == {"run", "once", "init", "unspin", "create", "delete", "destroy", "scan",
           "destructor", "free", "clear"}

\* Where a thread is after the once of the calls.
Past == {"create", "delete", "destroy", "scan", "destructor", "free", "clear"}

TypeInv ==
  /\ destructors \in Seq(Destructors \cup {Invalid})
  /\ once \in [run : BOOLEAN, lock : Threads \cup {NoThread}]
  /\ inits \in Nat
  /\ keyLock \in Threads \cup {NoThread}
  /\ specifics \in [Threads -> {"null", "live", "freed"}]
  /\ values \in [Threads -> SUBSET Nat]
  /\ pc \in [Threads -> Places \X (Calls \cup {"run", "destructor"})]
  /\ pos \in [Threads -> Nat \ {0}]
  /\ adding \in [Threads -> Nat]
  /\ lost \in [Threads -> SUBSET Nat]
  /\ seenOne \in [Threads -> BOOLEAN]

\* The routine has run when run is set and not before; only the thread with the
\* spin lock is at it, and nobody gets past it before.
OnceInv ==
  /\ inits = IF once.run THEN 1 ELSE 0
  /\ \A t \in Threads :
       /\ pc[t][1] \in {"init", "unspin"} => once.lock = t
       /\ pc[t][1] = "init" => ~once.run
       /\ pc[t][1] \in Past \cup {"unspin"} => once.run
       /\ pc[t][1] \in {"once", "init", "unspin"} => pc[t][2] \in Calls
       /\ pc[t][1] \in Past => pc[t][2] \in {"run", "destructor"}
       /\ pc[t][1] \notin {"create", "delete"} => pc[t][2] # "destructor"

\* t destroys its values, and keeps the lock of the keys while it does.
Destroys(t) == pc[t][1] \in {"scan", "destructor"} \/ pc[t][2] = "destructor"

LockInv == \A t \in Threads : Destroys(t) => keyLock = t

\* A thread that is setting a value does nothing else meanwhile.
AddInv == \A t \in Threads : adding[t] # 0 => /\ pc[t][1] \in {"run", "destructor"}
                                             /\ specifics[t] # "null"

ValuesInv == /\ NewKeyIsNull
             /\ \A t \in Threads : specifics[t] = "null" => values[t] = {}

\* k is a key for which t still has a value to destroy.
Left(t, k) == /\ k \in DOMAIN destructors /\ destructors[k] = "some"
              /\ k \in values[t] /\ k \notin lost[t]

\* Behind the scan no value is left, unless a destructor was called in this
\* pass; and none is left when the passes are over.
Scanned(t) ==
  /\ Destroys(t) /\ ~seenOne[t] => /\ pc[t][1] = "scan"
                                   /\ \A k \in 1..(pos[t] - 1) : ~Left(t, k)
  /\ pc[t][1] \in {"free", "clear"} => \A k \in Nat : ~Left(t, k)

ScanInv == \A t \in Threads : Scanned(t)

Inv == TypeInv /\ OnceInv /\ LockInv /\ AddInv /\ ValuesInv /\ ScanInv

-----------------------------------------------------------------------------
\* It holds at first.
LEMMA InitInv == SpecificInit => Inv
<1> SUFFICES ASSUME SpecificInit PROVE Inv
  OBVIOUS
<1> USE DEF SpecificInit
<1>1. TypeInv
  BY DEF TypeInv, Places, Calls
<1>2. OnceInv
  BY DEF OnceInv, Past, Calls
<1>3. LockInv
  BY DEF LockInv, Destroys
<1>4. ValuesInv
  BY DEF ValuesInv, NewKeyIsNull
<1>5. ScanInv
  BY DEF ScanInv, Scanned, Destroys
<1>6. AddInv
  BY DEF AddInv
<1> QED  BY <1>1, <1>2, <1>3, <1>4, <1>5, <1>6 DEF Inv

\* Every step keeps the types.
LEMMA TypeStep == ASSUME TypeInv, SpecificNext PROVE TypeInv'
<1> USE SpecificAssumption DEF TypeInv, Places, Calls, At, Goto, InProgram, Destructors,
        onceVars, keyVars, threadVars, addVars, scanVars, Invalid
<1> PICK t \in Threads : \/ Continue(t) \/ Locks(t) \/ DestructorReturns(t)
                        \/ \E call \in Calls : Ready(t, call)
                        \/ \E k \in 1..MaxSize : pthread_setspecific(t, k)
  BY DEF SpecificNext
<1>0. /\ pc[t][1] \in Places /\ pc[t][2] \in Calls \cup {"run", "destructor"}
      /\ \A x \in Places, y \in Calls \cup {"run", "destructor"} :
           [pc EXCEPT ![t] = <<x, y>>] \in [Threads -> Places \X (Calls \cup {"run", "destructor"})]
      /\ pc[t][2] \in Places
  OBVIOUS
<1>1. CASE OnceLock(t)
  BY <1>0, <1>1 DEF OnceLock
<1>2. CASE OnceRun(t)
  <2>1. once' \in [run : BOOLEAN, lock : Threads \cup {NoThread}]
    BY <1>2 DEF OnceRun
  <2>2. pc' \in [Threads -> Places \X (Calls \cup {"run", "destructor"})]
    BY <1>0, <1>2 DEF OnceRun
  <2>3. /\ inits' \in Nat /\ keyLock' = NoThread
        /\ UNCHANGED <<destructors, specifics, values, adding, lost, pos, seenOne>>
    BY <1>2 DEF OnceRun
  <2> QED  BY <2>1, <2>2, <2>3
<1>3. CASE OnceUnlock(t)
  BY <1>0, <1>3 DEF OnceUnlock
<1>4. ASSUME NEW d \in Destructors, pthread_key_create(t, d) PROVE TypeInv'
  <2>1. destructors' \in Seq(Destructors \cup {Invalid})
    <3>1. CASE destructors' = [destructors EXCEPT ![Slot] = d]
      BY <1>4, <3>1, ExceptSeq, LenProperties DEF pthread_key_create
    <3>2. CASE destructors' = Append(destructors, d)
      BY <3>2
    <3> QED  BY <1>4, <3>1, <3>2 DEF pthread_key_create
  <2> QED  BY <1>0, <1>4, <2>1 DEF pthread_key_create
<1>5. CASE KeyCreateFails(t)
  BY <1>0, <1>5 DEF KeyCreateFails
<1>6. ASSUME NEW k \in 1..MaxSize, pthread_key_delete(t, k) PROVE TypeInv'
  <2>1. destructors' \in Seq(Destructors \cup {Invalid})
    BY <1>6, ExceptSeq, LenProperties DEF pthread_key_delete, Valid
  <2>2. values' \in [Threads -> SUBSET Nat]
    BY <1>6 DEF pthread_key_delete, RemoveKey
  <2>3. lost' \in [Threads -> SUBSET Nat]
    BY <1>6 DEF pthread_key_delete
  <2>4. /\ pc' = [pc EXCEPT ![t] = <<pc[t][2], "run">>]
        /\ UNCHANGED <<once, inits, keyLock, specifics, adding, pos, seenOne>>
    BY <1>6 DEF pthread_key_delete, RemoveKey
  <2> QED  BY <1>0, <2>1, <2>2, <2>3, <2>4
<1>7. CASE KeyDeleteFails(t)
  BY <1>0, <1>7 DEF KeyDeleteFails
<1>8. CASE DestroyValue(t)
  <2> PICK k \in Ahead(t) :
         /\ values' = [values EXCEPT ![t] = @ \ {k}]
         /\ lost' = [lost EXCEPT ![t] = @ \ {k}]
         /\ pos' = [pos EXCEPT ![t] = k + 1]
         /\ \/ Goto(t, "scan") /\ UNCHANGED seenOne
            \/ Goto(t, "destructor") /\ seenOne' = [seenOne EXCEPT ![t] = TRUE]
    BY <1>8 DEF DestroyValue
  <2>1. values' \in [Threads -> SUBSET Nat] /\ pos' \in [Threads -> Nat \ {0}]
    BY DEF Ahead
  <2>2. pc' \in [Threads -> Places \X (Calls \cup {"run", "destructor"})]
    <3>1. PICK x \in Places : pc' = [pc EXCEPT ![t] = <<x, "run">>]
      OBVIOUS
    <3>2. "run" \in Calls \cup {"run", "destructor"}
      OBVIOUS
    <3> QED  BY <1>0, <3>1, <3>2, Zenon
  <2>3. seenOne' \in [Threads -> BOOLEAN] /\ lost' \in [Threads -> SUBSET Nat]
    OBVIOUS
  <2>4. UNCHANGED <<destructors, once, inits, keyLock, specifics, adding>>
    BY <1>8 DEF DestroyValue
  <2> QED  BY <2>1, <2>2, <2>3, <2>4
<1>9. CASE PassEnds(t)
  BY <1>9 DEF PassEnds
<1>10. CASE FreeTable(t)
  BY <1>10 DEF FreeTable
<1>11. CASE ClearTable(t)
  BY <1>11 DEF ClearTable
<1>12. CASE LockKeys(t)
  BY <1>12 DEF LockKeys
<1>13. CASE DestructorReturns(t)
  BY <1>13 DEF DestructorReturns
<1>14. ASSUME NEW call \in Calls, Ready(t, call) PROVE TypeInv'
  BY <1>14 DEF Ready
<1>15. ASSUME NEW k \in 1..MaxSize, pthread_setspecific(t, k) PROVE TypeInv'
  BY <1>15 DEF pthread_setspecific
<1>16. ASSUME NEW null \in BOOLEAN, ValueAdded(t, null) PROVE TypeInv'
  BY <1>16 DEF ValueAdded
<1> QED  BY <1>1, <1>2, <1>3, <1>4, <1>5, <1>6, <1>7, <1>8, <1>9, <1>10, <1>11, <1>12,
            <1>13, <1>14, <1>15, <1>16 DEF Continue, Locks

\* The routine of the once runs once.
LEMMA OnceStep == ASSUME TypeInv, TypeInv', OnceInv, SpecificNext PROVE OnceInv'
<1> USE SpecificAssumption DEF TypeInv, OnceInv, Past, Calls, Places, At, Goto, InProgram, onceVars
<1> PICK t \in Threads : \/ Continue(t) \/ Locks(t) \/ DestructorReturns(t)
                        \/ \E call \in Calls : Ready(t, call)
                        \/ \E k \in 1..MaxSize : pthread_setspecific(t, k)
  BY DEF SpecificNext
<1>1. CASE OnceLock(t)
  BY <1>1 DEF OnceLock
<1>2. CASE OnceRun(t)
  BY <1>2 DEF OnceRun
<1>3. CASE OnceUnlock(t)
  BY <1>3 DEF OnceUnlock
<1>4. ASSUME NEW d \in Destructors, pthread_key_create(t, d) PROVE OnceInv'
  BY <1>4 DEF pthread_key_create
<1>5. CASE KeyCreateFails(t)
  BY <1>5 DEF KeyCreateFails
<1>6. ASSUME NEW k \in 1..MaxSize, pthread_key_delete(t, k) PROVE OnceInv'
  BY <1>6 DEF pthread_key_delete
<1>7. CASE KeyDeleteFails(t)
  BY <1>7 DEF KeyDeleteFails
<1>8. CASE DestroyValue(t)
  <2>1. \/ pc' = [pc EXCEPT ![t] = <<"scan", "run">>]
        \/ pc' = [pc EXCEPT ![t] = <<"destructor", "run">>]
    BY <1>8 DEF DestroyValue
  <2>2. pc[t][1] = "scan" /\ UNCHANGED <<once, inits>>
    BY <1>8 DEF DestroyValue
  <2>3. CASE pc' = [pc EXCEPT ![t] = <<"scan", "run">>]
    BY <2>2, <2>3
  <2>4. CASE pc' = [pc EXCEPT ![t] = <<"destructor", "run">>]
    BY <2>2, <2>4
  <2> QED  BY <2>1, <2>3, <2>4
<1>9. CASE PassEnds(t)
  BY <1>9 DEF PassEnds
<1>10. CASE FreeTable(t)
  BY <1>10 DEF FreeTable
<1>11. CASE ClearTable(t)
  BY <1>11 DEF ClearTable
<1>12. CASE LockKeys(t)
  BY <1>12 DEF LockKeys
<1>13. CASE DestructorReturns(t)
  BY <1>13 DEF DestructorReturns
<1>14. ASSUME NEW call \in Calls, Ready(t, call) PROVE OnceInv'
  BY <1>14 DEF Ready
<1>15. ASSUME NEW k \in 1..MaxSize, pthread_setspecific(t, k) PROVE OnceInv'
  BY <1>15 DEF pthread_setspecific
<1>16. ASSUME NEW null \in BOOLEAN, ValueAdded(t, null) PROVE OnceInv'
  BY <1>16 DEF ValueAdded
<1> QED  BY <1>1, <1>2, <1>3, <1>4, <1>5, <1>6, <1>7, <1>8, <1>9, <1>10, <1>11, <1>12,
            <1>13, <1>14, <1>15, <1>16 DEF Continue, Locks

\* The lock of the keys is kept while values are destroyed.
LEMMA LockStep == ASSUME TypeInv, TypeInv', OnceInv, LockInv, SpecificNext PROVE LockInv'
<1> PICK t \in Threads : \/ Continue(t) \/ Locks(t) \/ DestructorReturns(t)
                        \/ \E call \in Calls : Ready(t, call)
                        \/ \E k \in 1..MaxSize : pthread_setspecific(t, k)
  BY DEF SpecificNext, Calls
<1> USE SpecificAssumption DEF TypeInv, OnceInv, LockInv, Destroys, Past, Calls, Places, At, Goto, InProgram, CanLock
<1>1. CASE OnceLock(t)
  BY <1>1 DEF OnceLock
<1>2. CASE OnceRun(t)
  BY <1>2 DEF OnceRun
<1>3. CASE OnceUnlock(t)
  <2>1. pc' = [pc EXCEPT ![t] = <<pc[t][2], "run">>] /\ pc[t][2] \in Calls /\ UNCHANGED keyLock
    BY <1>3 DEF OnceUnlock
  <2>2. ASSUME NEW u \in Threads, Destroys(u)' PROVE Destroys(u)
    <3>1. CASE u = t
      BY <2>1, <2>2, <3>1
    <3>2. CASE u # t
      BY <2>1, <2>2, <3>2
    <3> QED  BY <3>1, <3>2
  <2> QED  BY <2>1, <2>2
<1>4. ASSUME NEW d \in Destructors, pthread_key_create(t, d) PROVE LockInv'
  BY <1>4 DEF pthread_key_create
<1>5. CASE KeyCreateFails(t)
  BY <1>5 DEF KeyCreateFails
<1>6. ASSUME NEW k \in 1..MaxSize, pthread_key_delete(t, k) PROVE LockInv'
  BY <1>6 DEF pthread_key_delete
<1>7. CASE KeyDeleteFails(t)
  BY <1>7 DEF KeyDeleteFails
<1>8. CASE DestroyValue(t)
  BY <1>8 DEF DestroyValue
<1>9. CASE PassEnds(t)
  BY <1>9 DEF PassEnds
<1>10. CASE FreeTable(t)
  BY <1>10 DEF FreeTable
<1>11. CASE ClearTable(t)
  BY <1>11 DEF ClearTable
<1>12. CASE LockKeys(t)
  BY <1>12 DEF LockKeys
<1>13. CASE DestructorReturns(t)
  BY <1>13 DEF DestructorReturns
<1>14. ASSUME NEW call \in Calls, Ready(t, call) PROVE LockInv'
  BY <1>14 DEF Ready
<1>15. ASSUME NEW k \in 1..MaxSize, pthread_setspecific(t, k) PROVE LockInv'
  BY <1>15 DEF pthread_setspecific
<1>16. ASSUME NEW null \in BOOLEAN, ValueAdded(t, null) PROVE LockInv'
  BY <1>16 DEF ValueAdded
<1> QED  BY <1>1, <1>2, <1>3, <1>4, <1>5, <1>6, <1>7, <1>8, <1>9, <1>10, <1>11, <1>12,
            <1>13, <1>14, <1>15, <1>16 DEF Continue, Locks

\* Only a thread that runs code of the program starts to set a value.
LEMMA AddStep == ASSUME TypeInv, TypeInv', AddInv, SpecificNext PROVE AddInv'
<1> USE DEF TypeInv, AddInv, At, Goto, InProgram, threadVars, addVars, Places
<1> PICK t \in Threads : \/ Continue(t) \/ Locks(t) \/ DestructorReturns(t)
                        \/ \E call \in Calls : Ready(t, call)
                        \/ \E k \in 1..MaxSize : pthread_setspecific(t, k)
  BY DEF SpecificNext, Calls
<1>1. CASE OnceLock(t)
  BY <1>1 DEF OnceLock
<1>2. CASE OnceRun(t)
  BY <1>2 DEF OnceRun
<1>3. CASE OnceUnlock(t)
  BY <1>3 DEF OnceUnlock
<1>4. ASSUME NEW d \in Destructors, pthread_key_create(t, d) PROVE AddInv'
  BY <1>4 DEF pthread_key_create
<1>5. CASE KeyCreateFails(t)
  BY <1>5 DEF KeyCreateFails
<1>6. ASSUME NEW k \in 1..MaxSize, pthread_key_delete(t, k) PROVE AddInv'
  BY <1>6 DEF pthread_key_delete, RemoveKey
<1>7. CASE KeyDeleteFails(t)
  BY <1>7 DEF KeyDeleteFails
<1>8. CASE DestroyValue(t)
  <2>1. adding[t] = 0 /\ UNCHANGED <<specifics, adding>>
    BY <1>8 DEF DestroyValue
  <2>2. \A u \in Threads \ {t} : pc'[u] = pc[u]
    BY <1>8 DEF DestroyValue
  <2> QED  BY <2>1, <2>2
<1>9. CASE PassEnds(t)
  BY <1>9 DEF PassEnds
<1>10. CASE FreeTable(t)
  BY <1>10 DEF FreeTable
<1>11. CASE ClearTable(t)
  BY <1>11 DEF ClearTable
<1>12. CASE LockKeys(t)
  BY <1>12 DEF LockKeys
<1>13. CASE DestructorReturns(t)
  BY <1>13 DEF DestructorReturns
<1>14. ASSUME NEW call \in Calls, Ready(t, call) PROVE AddInv'
  BY <1>14 DEF Ready
<1>15. ASSUME NEW k \in 1..MaxSize, pthread_setspecific(t, k) PROVE AddInv'
  BY <1>15 DEF pthread_setspecific
<1>16. ASSUME NEW null \in BOOLEAN, ValueAdded(t, null) PROVE AddInv'
  BY <1>16 DEF ValueAdded
<1> QED  BY <1>1, <1>2, <1>3, <1>4, <1>5, <1>6, <1>7, <1>8, <1>9, <1>10, <1>11, <1>12,
            <1>13, <1>14, <1>15, <1>16 DEF Continue, Locks

\* A key that is not in use has no values.
LEMMA ValuesStep == ASSUME TypeInv, TypeInv', AddInv, ValuesInv, SpecificNext PROVE ValuesInv'
<1> PICK t \in Threads : \/ Continue(t) \/ Locks(t) \/ DestructorReturns(t)
                        \/ \E call \in Calls : Ready(t, call)
                        \/ \E k \in 1..MaxSize : pthread_setspecific(t, k)
  BY DEF SpecificNext, Calls
<1>1. CASE OnceLock(t)
  BY <1>1 DEF OnceLock, TypeInv, ValuesInv, NewKeyIsNull, Valid, Invalid,
     keyVars, threadVars, addVars
<1>2. CASE OnceRun(t)
  BY <1>2 DEF OnceRun, TypeInv, ValuesInv, NewKeyIsNull, Valid, Invalid,
     keyVars, threadVars, addVars
<1>3. CASE OnceUnlock(t)
  BY <1>3 DEF OnceUnlock, TypeInv, ValuesInv, NewKeyIsNull, Valid, Invalid,
     keyVars, threadVars, addVars
<1>4. ASSUME NEW d \in Destructors, pthread_key_create(t, d) PROVE ValuesInv'
  <2>1. \A k : Valid(k) => Valid(k)'
    <3>1. CASE destructors' = [destructors EXCEPT ![Slot] = d] /\ Slot \in DOMAIN destructors
      BY <3>1 DEF TypeInv, Valid, Destructors, Invalid
    <3>2. CASE destructors' = Append(destructors, d)
      <4>1. destructors \in Seq(Destructors \cup {Invalid})
        BY DEF TypeInv
      <4> QED  BY <3>2, <4>1 DEF Valid, Destructors, Invalid
    <3> QED  BY <1>4, <3>1, <3>2 DEF pthread_key_create
  <2> QED  BY <1>4, <2>1 DEF pthread_key_create, threadVars, addVars, ValuesInv, NewKeyIsNull
<1>5. CASE KeyCreateFails(t)
  BY <1>5 DEF KeyCreateFails, TypeInv, ValuesInv, NewKeyIsNull, Valid, Invalid,
     keyVars, threadVars, addVars
<1>6. ASSUME NEW k \in 1..MaxSize, pthread_key_delete(t, k) PROVE ValuesInv'
  BY <1>6 DEF pthread_key_delete, RemoveKey, TypeInv, ValuesInv, NewKeyIsNull, Valid, Invalid,
     keyVars, threadVars, addVars
<1>7. CASE KeyDeleteFails(t)
  BY <1>7 DEF KeyDeleteFails, TypeInv, ValuesInv, NewKeyIsNull, Valid, Invalid,
     keyVars, threadVars, addVars
<1>8. CASE DestroyValue(t)
  BY <1>8 DEF DestroyValue, TypeInv, ValuesInv, NewKeyIsNull, Valid, Invalid,
     keyVars, threadVars, addVars
<1>9. CASE PassEnds(t)
  BY <1>9 DEF PassEnds, TypeInv, ValuesInv, NewKeyIsNull, Valid, Invalid,
     keyVars, threadVars, addVars
<1>10. CASE FreeTable(t)
  BY <1>10 DEF FreeTable, TypeInv, ValuesInv, NewKeyIsNull, Valid, Invalid,
     keyVars, threadVars, addVars
<1>11. CASE ClearTable(t)
  BY <1>11 DEF ClearTable, TypeInv, ValuesInv, NewKeyIsNull, Valid, Invalid,
     keyVars, threadVars, addVars
<1>12. CASE LockKeys(t)
  BY <1>12 DEF LockKeys, TypeInv, ValuesInv, NewKeyIsNull, Valid, Invalid,
     keyVars, threadVars, addVars
<1>13. CASE DestructorReturns(t)
  BY <1>13 DEF DestructorReturns, TypeInv, ValuesInv, NewKeyIsNull, Valid, Invalid,
     keyVars, threadVars, addVars
<1>14. ASSUME NEW call \in Calls, Ready(t, call) PROVE ValuesInv'
  BY <1>14 DEF Ready, TypeInv, ValuesInv, NewKeyIsNull, Valid, Invalid,
     keyVars, threadVars, addVars
<1>15. ASSUME NEW k \in 1..MaxSize, pthread_setspecific(t, k) PROVE ValuesInv'
  BY <1>15 DEF pthread_setspecific, TypeInv, ValuesInv, NewKeyIsNull, Valid, Invalid,
     keyVars, threadVars, addVars
<1>16. ASSUME NEW null \in BOOLEAN, ValueAdded(t, null) PROVE ValuesInv'
  BY <1>16 DEF ValueAdded, AddInv, TypeInv, ValuesInv, NewKeyIsNull, Valid, Invalid,
     keyVars, threadVars, addVars
<1> QED  BY <1>1, <1>2, <1>3, <1>4, <1>5, <1>6, <1>7, <1>8, <1>9, <1>10, <1>11, <1>12,
            <1>13, <1>14, <1>15, <1>16 DEF Continue, Locks

\* A step that moves only t, and gives nobody else a value to destroy, leaves
\* the scans of the others as they are.
LEMMA OthersScan ==
  ASSUME NEW t \in Threads, TypeInv, ScanInv, Scanned(t)',
         \A u \in Threads \ {t} : /\ pc'[u] = pc[u] /\ pos'[u] = pos[u] /\ seenOne'[u] = seenOne[u]
                                 /\ \A k \in Nat : Left(u, k)' => Left(u, k)
  PROVE  ScanInv'
<1> SUFFICES ASSUME NEW u \in Threads \ {t} PROVE Scanned(u)'
  BY DEF ScanInv
<1>1. pos[u] \in Nat \ {0} /\ Scanned(u)
  BY DEF TypeInv, ScanInv
<1> QED  BY <1>1 DEF Scanned, Destroys

\* The keys a thread has yet to destroy are not added to by key_create.
LEMMA CreateLeft ==
  ASSUME NEW t \in Threads, NEW d \in Destructors, TypeInv, ValuesInv, pthread_key_create(t, d),
         NEW u \in Threads, NEW k \in Nat, Left(u, k)'
  PROVE  Left(u, k)
<1>1. k \in values[u] /\ k \notin lost[u] /\ Valid(k) /\ values' = values
  BY DEF Left, pthread_key_create, threadVars, addVars, ValuesInv, NewKeyIsNull
<1>2. CASE destructors' = [destructors EXCEPT ![Slot] = d] /\ destructors[Slot] = Invalid
  BY <1>1, <1>2 DEF TypeInv, Left, Valid
<1>3. CASE destructors' = Append(destructors, d)
  BY <1>1, <1>3 DEF TypeInv, Left, Valid
<1> QED  BY <1>2, <1>3 DEF pthread_key_create

\* Behind a scan nothing is left.
LEMMA ScanStep == ASSUME TypeInv, TypeInv', OnceInv, AddInv, ValuesInv, ScanInv, SpecificNext PROVE ScanInv'
<1> PICK t \in Threads : \/ Continue(t) \/ Locks(t) \/ DestructorReturns(t)
                        \/ \E call \in Calls : Ready(t, call)
                        \/ \E k \in 1..MaxSize : pthread_setspecific(t, k)
  BY DEF SpecificNext, Calls
<1>0. /\ Scanned(t)
      /\ pc[t][1] \in Places /\ pos[t] \in Nat \ {0}
      /\ pc[t][1] \in {"create", "delete", "destroy", "scan", "destructor", "free", "clear"} =>
           pc[t][2] \in {"run", "destructor"}
      /\ pc[t][1] \in {"once", "init", "unspin"} => pc[t][2] \in Calls
      /\ pc[t][1] \notin {"create", "delete"} => pc[t][2] # "destructor"
  BY DEF ScanInv, TypeInv, OnceInv, Past
<1>1. CASE OnceLock(t)
  <2>1. Scanned(t)'
    BY <1>0, <1>1 DEF OnceLock, TypeInv, Scanned, Destroys, Left, Places, Calls, At,
       Goto, InProgram, keyVars, threadVars, addVars, scanVars
  <2>2. \A u \in Threads \ {t} : /\ pc'[u] = pc[u] /\ pos'[u] = pos[u] /\ seenOne'[u] = seenOne[u]
                                 /\ \A k \in Nat : Left(u, k)' => Left(u, k)
    BY <1>1 DEF OnceLock, TypeInv, Left, Goto, keyVars, threadVars, addVars, scanVars
  <2> QED  BY <2>1, <2>2, OthersScan
<1>2. CASE OnceRun(t)
  <2>1. Scanned(t)'
    BY <1>0, <1>2 DEF OnceRun, TypeInv, Scanned, Destroys, Left, Places, Calls, At,
       Goto, InProgram, keyVars, threadVars, addVars, scanVars
  <2>2. \A u \in Threads \ {t} : /\ pc'[u] = pc[u] /\ pos'[u] = pos[u] /\ seenOne'[u] = seenOne[u]
                                 /\ \A k \in Nat : Left(u, k)' => Left(u, k)
    BY <1>2 DEF OnceRun, TypeInv, Left, Goto, keyVars, threadVars, addVars, scanVars
  <2> QED  BY <2>1, <2>2, OthersScan
<1>3. CASE OnceUnlock(t)
  <2>1. Scanned(t)'
    BY <1>0, <1>3 DEF OnceUnlock, TypeInv, Scanned, Destroys, Left, Places, Calls, At,
       Goto, InProgram, keyVars, threadVars, addVars, scanVars
  <2>2. \A u \in Threads \ {t} : /\ pc'[u] = pc[u] /\ pos'[u] = pos[u] /\ seenOne'[u] = seenOne[u]
                                 /\ \A k \in Nat : Left(u, k)' => Left(u, k)
    BY <1>3 DEF OnceUnlock, TypeInv, Left, Goto, keyVars, threadVars, addVars, scanVars
  <2> QED  BY <2>1, <2>2, OthersScan
<1>4. ASSUME NEW d \in Destructors, pthread_key_create(t, d) PROVE ScanInv'
  <2>1. \A u \in Threads, k \in Nat : Left(u, k)' => Left(u, k)
    BY <1>4, CreateLeft
  <2>2. Scanned(t)'
    BY <2>1, <1>0, <1>4 DEF pthread_key_create, TypeInv, Scanned, Destroys, Left, Places, Calls, At,
       Goto, InProgram, keyVars, threadVars, addVars, scanVars
  <2>3. \A u \in Threads \ {t} : /\ pc'[u] = pc[u] /\ pos'[u] = pos[u] /\ seenOne'[u] = seenOne[u]
                                 /\ \A k \in Nat : Left(u, k)' => Left(u, k)
    BY <2>1, <1>4 DEF pthread_key_create, TypeInv, Goto, keyVars, threadVars, addVars, scanVars
  <2> QED  BY <2>2, <2>3, OthersScan
<1>5. CASE KeyCreateFails(t)
  <2>1. Scanned(t)'
    BY <1>0, <1>5 DEF KeyCreateFails, TypeInv, Scanned, Destroys, Left, Places, Calls, At,
       Goto, InProgram, keyVars, threadVars, addVars, scanVars
  <2>2. \A u \in Threads \ {t} : /\ pc'[u] = pc[u] /\ pos'[u] = pos[u] /\ seenOne'[u] = seenOne[u]
                                 /\ \A k \in Nat : Left(u, k)' => Left(u, k)
    BY <1>5 DEF KeyCreateFails, TypeInv, Left, Goto, keyVars, threadVars, addVars, scanVars
  <2> QED  BY <2>1, <2>2, OthersScan
<1>6. ASSUME NEW j \in 1..MaxSize, pthread_key_delete(t, j) PROVE ScanInv'
  <2>1. \A u \in Threads, k \in Nat : Left(u, k)' => Left(u, k)
    <3>1. /\ destructors' = [destructors EXCEPT ![j] = Invalid]
          /\ \A u \in Threads : values'[u] \subseteq values[u] /\ lost[u] \ {j} \subseteq lost'[u]
      BY <1>6 DEF pthread_key_delete, RemoveKey
    <3> QED  BY <3>1 DEF Left, TypeInv, Invalid
  <2>2. Scanned(t)'
    BY <1>0, <1>6 DEF pthread_key_delete, TypeInv, Scanned, Destroys, Left, Places, Calls, At,
       Goto, InProgram, keyVars, threadVars, addVars, scanVars
  <2>3. \A u \in Threads \ {t} : /\ pc'[u] = pc[u] /\ pos'[u] = pos[u] /\ seenOne'[u] = seenOne[u]
                                 /\ \A k \in Nat : Left(u, k)' => Left(u, k)
    BY <1>6, <2>1 DEF pthread_key_delete, TypeInv, scanVars
  <2> QED  BY <2>2, <2>3, OthersScan
<1>7. CASE KeyDeleteFails(t)
  <2>1. Scanned(t)'
    BY <1>0, <1>7 DEF KeyDeleteFails, TypeInv, Scanned, Destroys, Left, Places, Calls, At,
       Goto, InProgram, keyVars, threadVars, addVars, scanVars
  <2>2. \A u \in Threads \ {t} : /\ pc'[u] = pc[u] /\ pos'[u] = pos[u] /\ seenOne'[u] = seenOne[u]
                                 /\ \A k \in Nat : Left(u, k)' => Left(u, k)
    BY <1>7 DEF KeyDeleteFails, TypeInv, Left, Goto, keyVars, threadVars, addVars, scanVars
  <2> QED  BY <2>1, <2>2, OthersScan
<1>8. CASE DestroyValue(t)
  <2> PICK k \in Ahead(t) :
         /\ \A j \in Ahead(t) : k <= j
         /\ values' = [values EXCEPT ![t] = @ \ {k}]
         /\ lost' = [lost EXCEPT ![t] = @ \ {k}]
         /\ pos' = [pos EXCEPT ![t] = k + 1]
         /\ IF destructors[k] = "none"
            THEN Goto(t, "scan") /\ UNCHANGED seenOne
            ELSE Goto(t, "destructor") /\ seenOne' = [seenOne EXCEPT ![t] = TRUE]
    BY <1>8 DEF DestroyValue
  <2>1. UNCHANGED destructors /\ pc[t][1] = "scan" /\ k \in Nat /\ k >= pos[t]
    BY <1>0, <1>8 DEF DestroyValue, keyVars, At, Ahead
  <2>2. Scanned(t)'
    <3>1. CASE destructors[k] = "none"
      <4>1. pc'[t][1] = "scan" /\ seenOne'[t] = seenOne[t] /\ pos'[t] = k + 1 /\ values'[t] = values[t] \ {k} /\ lost'[t] = lost[t] \ {k}
        BY <3>1 DEF TypeInv, Goto
      <4>2. ASSUME ~seenOne[t], NEW i \in 1..k, Left(t, i)' PROVE FALSE
        <5>1. i \in DOMAIN destructors /\ destructors[i] = "some" /\ i \in values[t] /\ i \notin lost[t] /\ i < k
          BY <2>1, <4>1, <4>2 DEF Left
        <5>2. CASE i < pos[t]
          BY <1>0, <2>1, <4>2, <5>1, <5>2 DEF Scanned, Destroys, Left
        <5>3. CASE i >= pos[t]
          BY <1>0, <2>1, <5>1, <5>3 DEF Ahead, Valid, Invalid, TypeInv
        <5> QED  BY <1>0, <2>1, <5>2, <5>3
      <4> QED  BY <2>1, <4>1, <4>2 DEF Scanned
    <3>2. CASE destructors[k] # "none"
      BY <3>2 DEF TypeInv, Goto, Scanned, Destroys
    <3> QED  BY <3>1, <3>2
  <2>3. \A u \in Threads \ {t} : /\ pc'[u] = pc[u] /\ pos'[u] = pos[u] /\ seenOne'[u] = seenOne[u]
                                 /\ \A i \in Nat : Left(u, i)' => Left(u, i)
    BY <2>1 DEF TypeInv, Goto, Left
  <2> QED  BY <2>2, <2>3, OthersScan
<1>9. CASE PassEnds(t)
  <2>1. UNCHANGED <<destructors, values, lost, pos, seenOne>> /\ pc[t][1] = "scan" /\ Ahead(t) = {}
    BY <1>9 DEF PassEnds, keyVars, threadVars, addVars, scanVars, At
  <2>2. Scanned(t)'
    <3>1. CASE seenOne[t]
      BY <1>9, <2>1, <3>1 DEF PassEnds, TypeInv, Goto, Scanned, Destroys
    <3>2. CASE ~seenOne[t]
      <4>1. ASSUME NEW i \in Nat, Left(t, i) PROVE FALSE
        <5>1. i \in DOMAIN destructors /\ destructors[i] = "some" /\ i \in values[t] /\ i \notin lost[t]
          BY <4>1 DEF Left
        <5>2. CASE i < pos[t]
          BY <1>0, <2>1, <3>2, <4>1, <5>1, <5>2 DEF Scanned, Destroys, TypeInv
        <5>3. CASE i >= pos[t]
          <6>1. DOMAIN destructors = 1..Len(destructors) /\ Len(destructors) \in Nat
            BY DEF TypeInv
          <6>2. i \in pos[t]..Len(destructors)
            BY <1>0, <5>1, <5>3, <6>1
          <6> QED  BY <2>1, <5>1, <6>2 DEF Ahead, Valid, Invalid
        <5> QED  BY <1>0, <5>2, <5>3
      <4>2. pc'[t] = <<"free", "run">>
        BY <1>9, <3>2 DEF PassEnds, TypeInv, Goto
      <4> QED  BY <2>1, <4>1, <4>2 DEF Scanned, Destroys, Left
    <3> QED  BY <3>1, <3>2
  <2>3. \A u \in Threads \ {t} : pc'[u] = pc[u]
    BY <1>9 DEF PassEnds, TypeInv, Goto
  <2> QED  BY <2>1, <2>2, <2>3, OthersScan DEF Left
<1>10. CASE FreeTable(t)
  <2>1. Scanned(t)'
    BY <1>0, <1>10 DEF FreeTable, TypeInv, Scanned, Destroys, Left, Places, Calls, At,
       Goto, InProgram, keyVars, threadVars, addVars, scanVars
  <2>2. \A u \in Threads \ {t} : /\ pc'[u] = pc[u] /\ pos'[u] = pos[u] /\ seenOne'[u] = seenOne[u]
                                 /\ \A k \in Nat : Left(u, k)' => Left(u, k)
    BY <1>10 DEF FreeTable, TypeInv, Left, Goto, keyVars, threadVars, addVars, scanVars
  <2> QED  BY <2>1, <2>2, OthersScan
<1>11. CASE ClearTable(t)
  <2>1. Scanned(t)'
    BY <1>0, <1>11 DEF ClearTable, TypeInv, Scanned, Destroys, Left, Places, Calls, At,
       Goto, InProgram, keyVars, threadVars, addVars, scanVars
  <2>2. \A u \in Threads \ {t} : /\ pc'[u] = pc[u] /\ pos'[u] = pos[u] /\ seenOne'[u] = seenOne[u]
                                 /\ \A k \in Nat : Left(u, k)' => Left(u, k)
    BY <1>11 DEF ClearTable, TypeInv, Left, Goto, keyVars, threadVars, addVars, scanVars
  <2> QED  BY <2>1, <2>2, OthersScan
<1>12. CASE LockKeys(t)
  <2>1. Scanned(t)'
    BY <1>0, <1>12 DEF LockKeys, TypeInv, Scanned, Destroys, Left, Places, Calls, At,
       Goto, InProgram, keyVars, threadVars, addVars, scanVars
  <2>2. \A u \in Threads \ {t} : /\ pc'[u] = pc[u] /\ pos'[u] = pos[u] /\ seenOne'[u] = seenOne[u]
                                 /\ \A k \in Nat : Left(u, k)' => Left(u, k)
    BY <1>12 DEF LockKeys, TypeInv, Left, Goto, keyVars, threadVars, addVars, scanVars
  <2> QED  BY <2>1, <2>2, OthersScan
<1>13. CASE DestructorReturns(t)
  <2>1. Scanned(t)'
    BY <1>0, <1>13 DEF DestructorReturns, TypeInv, Scanned, Destroys, Left, Places, Calls, At,
       Goto, InProgram, keyVars, threadVars, addVars, scanVars
  <2>2. \A u \in Threads \ {t} : /\ pc'[u] = pc[u] /\ pos'[u] = pos[u] /\ seenOne'[u] = seenOne[u]
                                 /\ \A k \in Nat : Left(u, k)' => Left(u, k)
    BY <1>13 DEF DestructorReturns, TypeInv, Left, Goto, keyVars, threadVars, addVars, scanVars
  <2> QED  BY <2>1, <2>2, OthersScan
<1>14. ASSUME NEW call \in Calls, Ready(t, call) PROVE ScanInv'
  <2>1. Scanned(t)'
    BY <1>0, <1>14 DEF Ready, TypeInv, Scanned, Destroys, Left, Places, Calls, At,
       Goto, InProgram, keyVars, threadVars, addVars, scanVars
  <2>2. \A u \in Threads \ {t} : /\ pc'[u] = pc[u] /\ pos'[u] = pos[u] /\ seenOne'[u] = seenOne[u]
                                 /\ \A k \in Nat : Left(u, k)' => Left(u, k)
    BY <1>14 DEF Ready, TypeInv, Left, Goto, keyVars, threadVars, addVars, scanVars
  <2> QED  BY <2>1, <2>2, OthersScan
<1>15. ASSUME NEW j \in 1..MaxSize, pthread_setspecific(t, j) PROVE ScanInv'
  <2>1. Scanned(t)'
    BY <1>0, <1>15 DEF pthread_setspecific, TypeInv, Scanned, Destroys, Left, Places, Calls, At,
       Goto, InProgram, keyVars, threadVars, addVars, scanVars
  <2>2. \A u \in Threads \ {t} : /\ pc'[u] = pc[u] /\ pos'[u] = pos[u] /\ seenOne'[u] = seenOne[u]
                                 /\ \A k \in Nat : Left(u, k)' => Left(u, k)
    BY <1>15 DEF pthread_setspecific, TypeInv, Left, Goto, keyVars, threadVars, addVars, scanVars
  <2> QED  BY <2>1, <2>2, OthersScan
<1>16. ASSUME NEW null \in BOOLEAN, ValueAdded(t, null) PROVE ScanInv'
  <2>1. Scanned(t)'
    BY <1>0, <1>16 DEF ValueAdded, AddInv, TypeInv, Scanned, Destroys, Left, Places, Calls, At,
       Goto, InProgram, keyVars, threadVars, addVars, scanVars
  <2>2. \A u \in Threads \ {t} : /\ pc'[u] = pc[u] /\ pos'[u] = pos[u] /\ seenOne'[u] = seenOne[u]
                                 /\ \A k \in Nat : Left(u, k)' => Left(u, k)
    BY <1>16 DEF ValueAdded, TypeInv, Left, Goto, keyVars, threadVars, addVars, scanVars
  <2> QED  BY <2>1, <2>2, OthersScan
<1> QED  BY <1>1, <1>2, <1>3, <1>4, <1>5, <1>6, <1>7, <1>8, <1>9, <1>10, <1>11, <1>12,
            <1>13, <1>14, <1>15, <1>16 DEF Continue, Locks

-----------------------------------------------------------------------------
\* The invariant is inductive.
LEMMA InvStep == Inv /\ [SpecificNext]_vars => Inv'
<1> SUFFICES ASSUME Inv, [SpecificNext]_vars PROVE Inv'
  OBVIOUS
<1>1. CASE SpecificNext
  BY <1>1, TypeStep, OnceStep, LockStep, AddStep, ValuesStep, ScanStep DEF Inv
<1>2. CASE UNCHANGED vars
  <2> USE <1>2 DEF vars, keyVars, onceVars, threadVars, addVars, scanVars
  <2>1. TypeInv'
    BY DEF Inv, TypeInv
  <2>2. OnceInv'
    BY DEF Inv, OnceInv
  <2>3. LockInv'
    BY DEF Inv, LockInv, Destroys
  <2>4. ValuesInv'
    BY DEF Inv, ValuesInv, NewKeyIsNull, Valid
  <2>5. ScanInv'
    BY DEF Inv, ScanInv, Scanned, Destroys, Left
  <2>6. AddInv'
    BY DEF Inv, AddInv
  <2> QED  BY <2>1, <2>2, <2>3, <2>4, <2>5, <2>6 DEF Inv
<1> QED  BY <1>1, <1>2

\* It holds always.
LEMMA InvAlways == SpecificSpec => []Inv
  BY InitInv, InvStep, PTL DEF SpecificSpec

\* pthread_once (&o, do_init): the lock of the keys is initialised once, and
\* before anybody can take it (pt-once.c, pt-key.h).
THEOREM KeyLockInitialisedOnce == SpecificSpec => []KeyLockReady
<1>1. Inv => KeyLockReady
  BY DEF Inv, OnceInv, KeyLockReady, Past, Calls
<1> QED  BY <1>1, InvAlways, PTL

\* A key that is created again has no value in any thread but those that were in
\* pthread_setspecific when it was deleted (and have not set it since), for
\* pthread_key_delete has removed all others (pt-key-delete.c).
THEOREM NewKeysAreNull == SpecificSpec => []NewKeyIsNull
<1>1. Inv => NewKeyIsNull
  BY DEF Inv, ValuesInv
<1> QED  BY <1>1, InvAlways, PTL

\* A thread's table is freed with no value left for a destructor, whatever the
\* destructors have set, created and deleted (pt-destroy-specific.c), but for the
\* values of keys whose removal was lost.
THEOREM NoValueIsLeft == SpecificSpec => []NoValueLeft
<1>1. Inv => NoValueLeft
  BY DEF Inv, TypeInv, ScanInv, Scanned, NoValueLeft, Left, pthread_getspecific, At
<1> QED  BY <1>1, InvAlways, PTL

-----------------------------------------------------------------------------
(* The table of keys.                                                      *)

FreeSlots == {k \in DOMAIN destructors : destructors[k] = Invalid}

\* KeysSound, with the types that its steps count in.
KeysInv == /\ {size, invalid, index} \subseteq Nat
           /\ IsFiniteSet(FreeSlots)
           /\ invalid = Cardinality(FreeSlots)
           /\ index \in 1..(Len(destructors) + 1)
           /\ Len(destructors) <= size

\* The table starts without slots.
LEMMA KeysInit == SpecificInit => KeysInv
<1> SUFFICES ASSUME SpecificInit PROVE KeysInv
  OBVIOUS
<1>1. FreeSlots = {}
  BY DEF SpecificInit, FreeSlots
<1> QED
  BY <1>1, FS_EmptySet DEF SpecificInit, KeysInv

\* There is room in the table for the slot that key_create adds.
LEMMA RoomForOne ==
  ASSUME TypeInv, KeysInv
  PROVE  Resized \in Nat /\ Len(destructors) + 1 <= Resized
<1>1. Len(destructors) \in Nat /\ size \in Nat /\ Len(destructors) <= size
  BY DEF TypeInv, KeysInv
<1>2. CASE size # Len(destructors)
  BY <1>1, <1>2 DEF Resized
<1>3. CASE size = Len(destructors) /\ size = 0
  BY <1>1, <1>3, SpecificAssumption DEF Resized
<1>4. CASE size = Len(destructors) /\ size # 0
  BY <1>1, <1>4 DEF Resized
<1> QED
  BY <1>2, <1>3, <1>4

\* A key is created in a free slot, or in a new one.
LEMMA CreateKeys ==
  ASSUME TypeInv, KeysInv, NEW t \in Threads, NEW d \in Destructors, pthread_key_create(t, d)
  PROVE  KeysInv'
<1>0. destructors \in Seq(Destructors \cup {Invalid}) /\ Len(destructors) \in Nat
      /\ DOMAIN destructors = 1..Len(destructors) /\ d # Invalid
  BY DEF TypeInv, Destructors, Invalid
<1>1. IsFiniteSet(FreeSlots) /\ Cardinality(FreeSlots) \in Nat /\ invalid = Cardinality(FreeSlots)
      /\ size \in Nat /\ Len(destructors) <= size
  BY FS_CardinalityType DEF KeysInv
<1>2. CASE /\ Slot \in DOMAIN destructors /\ destructors[Slot] = Invalid
           /\ destructors' = [destructors EXCEPT ![Slot] = d]
           /\ invalid' = invalid - 1 /\ UNCHANGED size
  <2>1. DOMAIN destructors' = DOMAIN destructors /\ Len(destructors') = Len(destructors)
    <3>1. \A f : f = [destructors EXCEPT ![Slot] = d] => Len(f) = Len(destructors)
      BY <1>0, <1>2, ExceptSeq
    <3> QED
      BY <1>2, <3>1
  <2>2. \A k : k \in FreeSlots' <=> k \in FreeSlots /\ k # Slot
    BY <1>0, <1>2, <2>1 DEF FreeSlots
  <2>3. FreeSlots' = FreeSlots \ {Slot} /\ Slot \in FreeSlots
    BY <1>2, <2>2 DEF FreeSlots
  <2>4. IsFiniteSet(FreeSlots') /\ Cardinality(FreeSlots') = Cardinality(FreeSlots) - 1
    BY <1>1, <2>3, FS_RemoveElement
  <2>5. Cardinality(FreeSlots') \in Nat
    BY <2>4, FS_CardinalityType
  <2>6. Slot \in 1..Len(destructors) /\ index' = Slot + 1
    BY <1>0, <1>2 DEF pthread_key_create
  <2> QED
    BY <1>0, <1>1, <1>2, <2>1, <2>4, <2>5, <2>6 DEF KeysInv
<1>3. CASE /\ Slot = Len(destructors) + 1
           /\ destructors' = Append(destructors, d)
           /\ size' = Resized /\ UNCHANGED invalid
  <2>1. /\ Len(destructors') = Len(destructors) + 1
        /\ DOMAIN destructors' = 1..(Len(destructors) + 1)
        /\ \A k \in DOMAIN destructors : destructors'[k] = destructors[k]
        /\ destructors'[Len(destructors) + 1] = d
    BY <1>0, <1>3
  <2>2. \A k : k \in FreeSlots' <=> k \in FreeSlots
    BY <1>0, <2>1 DEF FreeSlots
  <2>3. FreeSlots' = FreeSlots
    BY <2>2
  <2>4. index' = Slot + 1
    BY DEF pthread_key_create
  <2> QED
    BY <1>0, <1>1, <1>3, <2>1, <2>3, <2>4, RoomForOne DEF KeysInv
<1> QED
  BY <1>2, <1>3 DEF pthread_key_create

\* The slot of a key that is deleted is counted.
LEMMA DeleteKeys ==
  ASSUME TypeInv, KeysInv, NEW t \in Threads, NEW k, pthread_key_delete(t, k)
  PROVE  KeysInv'
<1>0. destructors \in Seq(Destructors \cup {Invalid}) /\ Len(destructors) \in Nat
      /\ k \in DOMAIN destructors /\ destructors[k] # Invalid
      /\ destructors' = [destructors EXCEPT ![k] = Invalid]
  BY DEF TypeInv, pthread_key_delete, Valid
<1>1. IsFiniteSet(FreeSlots) /\ Cardinality(FreeSlots) \in Nat /\ invalid = Cardinality(FreeSlots)
  BY FS_CardinalityType DEF KeysInv
<1>2. DOMAIN destructors' = DOMAIN destructors /\ Len(destructors') = Len(destructors)
  <2>1. \A f : f = [destructors EXCEPT ![k] = Invalid] => Len(f) = Len(destructors)
    BY <1>0, ExceptSeq
  <2> QED
    BY <1>0, <2>1
<1>3. \A j : j \in FreeSlots' <=> j \in FreeSlots \/ j = k
  BY <1>0, <1>2 DEF FreeSlots
<1>4. FreeSlots' = FreeSlots \cup {k} /\ k \notin FreeSlots
  BY <1>0, <1>3 DEF FreeSlots
<1>5. IsFiniteSet(FreeSlots') /\ Cardinality(FreeSlots') = Cardinality(FreeSlots) + 1
  BY <1>1, <1>4, FS_AddElement
<1> QED
  BY <1>0, <1>1, <1>2, <1>5 DEF KeysInv, pthread_key_delete

\* The steps that neither create nor delete a key leave the table alone; a
\* creation that fails moves the hint.
LEMMA KeysStep == ASSUME TypeInv, KeysInv, [SpecificNext]_vars PROVE KeysInv'
<1>1. ASSUME UNCHANGED keyVars PROVE KeysInv'
  BY <1>1 DEF keyVars, KeysInv, FreeSlots
<1>0. ASSUME NEW t \in Threads, KeyCreateFails(t) PROVE KeysInv'
  <2>1. /\ index' = Len(destructors) + 1 /\ Len(destructors) \in Nat
        /\ UNCHANGED <<destructors, size, invalid>>
    BY <1>0 DEF KeyCreateFails, TypeInv
  <2> QED
    BY <2>1 DEF KeysInv, FreeSlots
<1>2. CASE UNCHANGED vars
  BY <1>1, <1>2 DEF vars
<1>3. CASE SpecificNext
  <2>1. \/ UNCHANGED keyVars
        \/ \E t \in Threads, d \in Destructors : pthread_key_create(t, d)
        \/ \E t \in Threads : KeyCreateFails(t)
        \/ \E t \in Threads, k \in 1..MaxSize : pthread_key_delete(t, k)
    BY <1>3, Zenon DEF SpecificNext, Continue, Locks, OnceLock, OnceRun, OnceUnlock, KeyDeleteFails,
       DestroyValue, PassEnds, FreeTable, ClearTable, LockKeys,
       DestructorReturns, Ready, pthread_setspecific, ValueAdded
  <2> QED
    BY <1>0, <1>1, <2>1, CreateKeys, DeleteKeys
<1> QED
  BY <1>2, <1>3

\* The count of invalid slots is exact, the hint is at most one past the end
\* and the table is never overfull, whatever threads and destructors create
\* and delete: the search of pthread_key_create stays within the table and a
\* rescan finds a slot (pt-key-create.c, pt-key.h).
THEOREM KeyTableSound == SpecificSpec => []KeysSound
<1>1. KeysInv => KeysSound
  BY DEF KeysInv, KeysSound, FreeSlots
<1>2. Inv => TypeInv
  BY DEF Inv
<1> QED
  BY <1>1, <1>2, InvAlways, KeysInit, KeysStep, PTL DEF SpecificSpec

\* When the table is worth a rescan it holds an invalid slot: the goto
\* do_search of pthread_key_create is taken once, and does not loop for ever
\* with the lock of the keys held (pt-key-create.c).
RescanFinds == WorthRescan => \E k \in DOMAIN destructors : destructors[k] = Invalid

\* The second search of pthread_key_create finds a slot, because the count of
\* invalid slots is exact (pt-key-create.c).
THEOREM RescanEnds == SpecificSpec => []RescanFinds
<1>1. KeysInv => RescanFinds
  <2> SUFFICES ASSUME KeysInv, WorthRescan PROVE FreeSlots # {}
    BY DEF RescanFinds, FreeSlots
  <2>1. Cardinality(FreeSlots) > RescanMin /\ RescanMin \in Nat
    BY SpecificAssumption DEF KeysInv, WorthRescan
  <2>2. Cardinality(FreeSlots) # 0
    BY <2>1, FS_CardinalityType DEF KeysInv
  <2> QED
    BY <2>2, FS_EmptySet
<1>2. Inv => TypeInv
  BY DEF Inv
<1> QED
  BY <1>1, <1>2, InvAlways, KeysInit, KeysStep, PTL DEF SpecificSpec
=============================================================================
