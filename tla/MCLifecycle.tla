---------------------------- MODULE MCLifecycle ----------------------------
(***************************************************************************)
(* Lifecycle for TLC: the attributes a program passes, made by the setters.*)
(***************************************************************************)
EXTENDS Lifecycle

DetachedAttr == pthread_attr_setdetachstate(DefaultAttr, "detached").attr

SomeAttrs == {DefaultAttr, pthread_attr_setstack(DetachedAttr, StackSize, StackSize).attr}
=============================================================================
