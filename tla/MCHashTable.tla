------------------------------ MODULE MCHashTable ------------------------------
(***************************************************************************)
(* HashTable for TLC.  Two objects have key 1, whose hash is that of key   *)
(* 2; key 3 has another, which shares their bucket when there are two      *)
(* buckets and does not with four; key 4, which no object has, hashes to   *)
(* 0, the hash that ht_delete and ht_node_init leave in a node.            *)
(***************************************************************************)
EXTENDS HashTable, Bitwise, TLC

CONSTANTS n1, n2, n3, n4

MCNodes == {n1, n2, n3, n4}
MCKeyOf == n1 :> 1 @@ n2 :> 1 @@ n3 :> 2 @@ n4 :> 3
MCHash  == <<5, 5, 7, 0>>
MCBitAnd(x, y) == x & y
===============================================================================
