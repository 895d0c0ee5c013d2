------------------------------- MODULE MCLogalloc -------------------------------
(***************************************************************************)
(* Logalloc for TLC.  Cells of 4 bytes with a header of 2: the sizes of    *)
(* FittingSizes are 1, 2, 3 and 5 cells and leave room for the header, the *)
(* size of FullSizes fills its cell.                                       *)
(***************************************************************************)
EXTENDS Logalloc, TLC

CONSTANTS o1, o2, o3, t1, t2

SomeObjects == {o1, o2, o3}
ObjectNames == Permutations(SomeObjects)
OneThread == {t1}
TwoThreads == {t1, t2}
FittingSizes == {2, 6, 10, 18}
FullSizes == {4}
SomePayloads == {[nr |-> 3, ref |-> 0], [nr |-> 1, ref |-> 1]}
===============================================================================
