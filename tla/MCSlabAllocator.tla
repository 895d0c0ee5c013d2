---------------------------- MODULE MCSlabAllocator ----------------------------
(***************************************************************************)
(* SlabAllocator for TLC, with the page and header sizes of the code.  Two *)
(* items of 2010 bytes, rounded to 2016, fill a slab behind its header to  *)
(* the last byte, and so do three of 1340.                                 *)
(***************************************************************************)
EXTENDS SlabAllocator

CONSTANTS a1, a2

TwoAllocators == {a1, a2}

Different  == [a \in {a1, a2} |-> IF a = a1 THEN 2010 ELSE 1340]
NeverAsked == {FALSE}
AskedOnce  == {TRUE}
===============================================================================
