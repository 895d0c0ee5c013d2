------------------------------ MODULE MCFixedHeap ------------------------------
(***************************************************************************)
(* FixedHeap for TLC.  Six items reach the third level of the heap; two of *)
(* the keys are equal.                                                     *)
(***************************************************************************)
EXTENDS FixedHeap

SixKeys == [i \in 1 .. 6 |-> IF i = 6 THEN 5 ELSE i]
===============================================================================
