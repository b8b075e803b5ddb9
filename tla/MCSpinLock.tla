---------------------------- MODULE MCSpinLock ----------------------------
(* SpinLock on two processors, for TLC. *)
EXTENDS SpinLock

CONSTANTS boot, other, t1, t2

TwoProcessors == {boot, other}
OneEach == [t \in {t1, t2} |-> IF t = t1 THEN boot ELSE other]
===========================================================================
