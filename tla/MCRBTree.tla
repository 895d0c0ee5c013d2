-------------------------------- MODULE MCRBTree --------------------------------
(***************************************************************************)
(* RBTree for TLC: nodes are numbers and their own keys, but for the last, *)
(* which has the key of node 3.                                            *)
(***************************************************************************)
EXTENDS RBTree

KeysWithTwin == [n \in Nodes |-> IF n = Cardinality(Nodes) THEN 3 ELSE n]
===============================================================================
