-------------------------------- MODULE MCRefcnt --------------------------------
(* Owners of references for TLC.                                           *)
EXTENDS Refcnt

CONSTANTS o1, o2, o3
MCOwners == {o1, o2, o3}
===============================================================================
