---------------------------- MODULE MCWorkerThread ----------------------------
(***************************************************************************)
(* WorkerThread for TLC.  Workers do not interact, and the temporal        *)
(* properties speak of each of them, so no symmetry is used.               *)
(***************************************************************************)
EXTENDS WorkerThread

CONSTANTS w1, w2

TwoWorkers == {w1, w2}
===============================================================================
