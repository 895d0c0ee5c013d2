---------------------------- MODULE MCTimerManager ----------------------------
(***************************************************************************)
(* TimerManager for TLC.  Timers are not interchangeable to the temporal   *)
(* property, so no symmetry is used.                                       *)
(***************************************************************************)
EXTENDS TimerManager

CONSTANTS t1, t2, t3, t4

TwoTimers  == {t1, t2}
FourTimers  == {t1, t2, t3, t4}
===============================================================================
