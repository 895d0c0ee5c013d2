--------------------------- MODULE MCMegaqueueOpen ---------------------------
(***************************************************************************)
(* MegaqueueOpen for TLC.  Two geometries make a queue that is created     *)
(* again differ from the one before; an expected size below the producer's *)
(* is accepted, one above it is refused.                                   *)
(***************************************************************************)
EXTENDS MegaqueueOpen

CONSTANTS c1, c2

TwoConsumers == {c1, c2}
SmallOrLarge == {<<1, 2>>, <<2, 3>>}
Always       == {TRUE}
Sometimes    == {TRUE, FALSE}
===============================================================================
