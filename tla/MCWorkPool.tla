------------------------------- MODULE MCWorkPool -------------------------------
(***************************************************************************)
(* WorkPool for TLC.  With a queue of four entries the budget of one check *)
(* is two, so that the second endpoint meets an exhausted budget, as the   *)
(* sixteenth does with the code's queue of 32.                             *)
(***************************************************************************)
EXTENDS WorkPool

CONSTANTS t1, t2, e1, e2

OneThread    == {t1}
TwoThreads   == {t1, t2}
TwoEndpoints == {e1, e2}
Succeeds     == {TRUE}
MayFail      == {TRUE, FALSE}
===============================================================================
