-------------------------------- MODULE Attr --------------------------------
(***************************************************************************)
(* Attribute objects (sysdeps/generic/pt-attr*.c, pt-mutexattr*.c,         *)
(* pt-condattr*.c and, for the port that is built, the two setters of      *)
(* sysdeps/mach/hurd).  An attribute object is a record; a setter is an    *)
(* operator that returns the error and the object after the call.  The     *)
(* operators have the names of the functions.                              *)
(***************************************************************************)
EXTENDS Integers, Sequences

CONSTANTS StackSize,   \* PTHREAD_STACK_DEFAULT: every stack has this size
          PageSize,    \* the default guard size
          Monotonic    \* clock_getres knows CLOCK_MONOTONIC

ASSUME AttrAssumption == /\ StackSize \in Nat \ {0}
                         /\ PageSize \in Nat
                         /\ Monotonic \in BOOLEAN

NULL == 0

\* struct __pthread_attr
AttrType == [schedparam : Int, stackaddr : Nat, stacksize : Nat, guardsize : Nat,
             detachstate : {"joinable", "detached"},
             inheritsched : {"explicit", "inherit"},
             contentionscope : {"system", "process"},
             schedpolicy : {"other", "fifo", "rr"}]

\* __pthread_default_attr
DefaultAttr == [schedparam |-> 0, stackaddr |-> NULL, stacksize |-> StackSize,
                guardsize |-> PageSize, detachstate |-> "joinable",
                inheritsched |-> "explicit", contentionscope |-> "system",
                schedpolicy |-> "other"]

Result(e, a) == [err |-> e, attr |-> a]
Set(a) == Result("0", a)

-----------------------------------------------------------------------------
(* Thread attributes.                                                      *)

pthread_attr_init(attr) == Set(DefaultAttr)
pthread_attr_destroy(attr) == Set(attr)

pthread_attr_getdetachstate(attr) == attr.detachstate
pthread_attr_getguardsize(attr) == attr.guardsize
pthread_attr_getinheritsched(attr) == attr.inheritsched
pthread_attr_getschedparam(attr) == attr.schedparam
pthread_attr_getschedpolicy(attr) == attr.schedpolicy
pthread_attr_getscope(attr) == attr.contentionscope
pthread_attr_getstackaddr(attr) == attr.stackaddr
pthread_attr_getstacksize(attr) == attr.stacksize
pthread_attr_getstack(attr) ==
  <<pthread_attr_getstackaddr(attr), pthread_attr_getstacksize(attr)>>

pthread_attr_setdetachstate(attr, detachstate) ==
  IF detachstate \in {"detached", "joinable"}
  THEN Set([attr EXCEPT !.detachstate = detachstate])
  ELSE Result("EINVAL", attr)

pthread_attr_setguardsize(attr, guardsize) == Set([attr EXCEPT !.guardsize = guardsize])

pthread_attr_setinheritsched(attr, inheritsched) ==
  IF inheritsched \in {"inherit", "explicit"}
  THEN Set([attr EXCEPT !.inheritsched = inheritsched])
  ELSE Result("EINVAL", attr)

pthread_attr_setschedparam(attr, param) ==
  IF param = DefaultAttr.schedparam
  THEN Set([attr EXCEPT !.schedparam = param])
  ELSE Result("ENOTSUP", attr)

pthread_attr_setschedpolicy(attr, policy) ==
  CASE policy = "other" -> Set([attr EXCEPT !.schedpolicy = policy])
    [] policy \in {"fifo", "rr"} -> Result("ENOTSUP", attr)
    [] OTHER -> Result("EINVAL", attr)

pthread_attr_setscope(attr, contentionscope) ==
  CASE contentionscope = DefaultAttr.contentionscope ->
         Set([attr EXCEPT !.contentionscope = contentionscope])
    [] contentionscope = "process" -> Result("ENOTSUP", attr)
    [] OTHER -> Result("EINVAL", attr)

\* Stacks are aligned to their size, which is a power of two.
pthread_attr_setstackaddr(attr, stackaddr) ==
  IF stackaddr % StackSize # 0
  THEN Result("EINVAL", attr)
  ELSE Set([attr EXCEPT !.stackaddr = stackaddr])

pthread_attr_setstacksize(attr, stacksize) ==
  IF stacksize # StackSize
  THEN Result("EINVAL", attr)
  ELSE Set([attr EXCEPT !.stacksize = stacksize])

\* The size is set first, and set back when the address is refused.
pthread_attr_setstack(attr, stackaddr, stacksize) ==
  LET s == pthread_attr_getstacksize(attr)
      sized == pthread_attr_setstacksize(attr, stacksize)
      placed == pthread_attr_setstackaddr(sized.attr, stackaddr)
  IN CASE sized.err # "0" -> sized
       [] sized.err = "0" /\ placed.err # "0" ->
            Result(placed.err, pthread_attr_setstacksize(placed.attr, s).attr)
       [] OTHER -> placed

-----------------------------------------------------------------------------
(* Mutex attributes.                                                       *)

\* struct __pthread_mutexattr
MutexAttrType == [prioceiling : Int, protocol : {"none", "inherit", "protect"},
                  pshared : {"private", "shared"},
                  mutex_type : {"normal", "errorcheck", "recursive"}]

DefaultMutexAttr == [prioceiling |-> 0, protocol |-> "none",
                     pshared |-> "private", mutex_type |-> "normal"]
ErrorcheckMutexAttr == [prioceiling |-> 0, protocol |-> "none",
                        pshared |-> "private", mutex_type |-> "errorcheck"]
RecursiveMutexAttr == [prioceiling |-> 0, protocol |-> "none",
                       pshared |-> "private", mutex_type |-> "recursive"]

pthread_mutexattr_init(attr) == Set(DefaultMutexAttr)
pthread_mutexattr_destroy(attr) == Set(attr)

pthread_mutexattr_getprotocol(attr) == attr.protocol
pthread_mutexattr_getpshared(attr) == attr.pshared
pthread_mutexattr_gettype(attr) == attr.mutex_type

pthread_mutexattr_setprotocol(attr, protocol) ==
  CASE protocol = DefaultMutexAttr.protocol -> Set([attr EXCEPT !.protocol = protocol])
    [] protocol \in {"inherit", "protect"} -> Result("ENOTSUP", attr)
    [] OTHER -> Result("EINVAL", attr)

\* The same for mutexes, conditions, read-write locks and barriers.
SetPshared(attr, pshared) ==
  CASE pshared = "private" -> Set([attr EXCEPT !.pshared = pshared])
    [] pshared = "shared" -> Result("ENOTSUP", attr)
    [] OTHER -> Result("EINVAL", attr)

pthread_mutexattr_setpshared(attr, pshared) == SetPshared(attr, pshared)

pthread_mutexattr_settype(attr, type) ==
  IF type \in {"normal", "errorcheck", "recursive"}
  THEN Set([attr EXCEPT !.mutex_type = type])
  ELSE Result("EINVAL", attr)

\* Priority ceilings are not implemented.
pthread_mutexattr_setprioceiling(attr, prioceiling) == Result("ENOSYS", attr)
pthread_mutexattr_getprioceiling(attr) == Result("ENOSYS", attr)

-----------------------------------------------------------------------------
(* Condition, read-write lock and barrier attributes.                      *)

\* struct __pthread_condattr
CondAttrType == [pshared : {"private", "shared"}, clock : {"realtime", "monotonic"}]

DefaultCondAttr == [pshared |-> "private", clock |-> "realtime"]
DefaultRWLockAttr == [pshared |-> "private"]
DefaultBarrierAttr == [pshared |-> "private"]

pthread_condattr_init(attr) == Set(DefaultCondAttr)
pthread_condattr_destroy(attr) == Set(attr)
pthread_condattr_getclock(attr) == attr.clock
pthread_condattr_getpshared(attr) == attr.pshared
pthread_condattr_setpshared(attr, pshared) == SetPshared(attr, pshared)

pthread_condattr_setclock(attr, clock) ==
  IF clock = "realtime" \/ (clock = "monotonic" /\ Monotonic)
  THEN Set([attr EXCEPT !.clock = clock])
  ELSE Result("EINVAL", attr)

pthread_rwlockattr_init(attr) == Set(DefaultRWLockAttr)
pthread_rwlockattr_destroy(attr) == Set(attr)
pthread_rwlockattr_getpshared(attr) == attr.pshared
pthread_rwlockattr_setpshared(attr, pshared) == SetPshared(attr, pshared)

pthread_barrierattr_init(attr) == Set(DefaultBarrierAttr)
pthread_barrierattr_destroy(attr) == Set(attr)
pthread_barrierattr_getpshared(attr) == attr.pshared
pthread_barrierattr_setpshared(attr, pshared) == SetPshared(attr, pshared)

-----------------------------------------------------------------------------
(* The attributes of an object that is initialised with attr, a sequence   *)
(* that is empty when the argument is NULL.  The comparison with the       *)
(* default attributes compares no bytes: its length argument is a          *)
(* comparison of a size with 0, so whatever is passed is copied.           *)

NoAttr == <<>>
CopyAttr(attr, memory) ==
  CASE attr = NoAttr -> Set(NoAttr)
    [] attr # NoAttr /\ memory -> Set(attr)
    [] OTHER -> Result("ENOMEM", NoAttr)

pthread_mutex_init(attr, memory) == CopyAttr(attr, memory)
pthread_cond_init(attr, memory) == CopyAttr(attr, memory)

\* What a copy decides: the type of a mutex, and the clock of timed waits.
MutexType(copy) == IF copy = NoAttr THEN DefaultMutexAttr.mutex_type ELSE copy[1].mutex_type
CondClock(copy) == IF copy = NoAttr THEN DefaultCondAttr.clock ELSE copy[1].clock

\* The copy that is left allocated when the object is destroyed.
pthread_mutex_destroy(copy) == NoAttr
pthread_cond_destroy(copy) == copy
=============================================================================
