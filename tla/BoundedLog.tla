------------------------------ MODULE BoundedLog ------------------------------
(***************************************************************************)
(* What a megaqueue promises its three users, without cursors, slots or    *)
(* wrap-around.  Items are numbered in the order the producer publishes    *)
(* them.  `released' items may be forgotten, `consumed' items have been    *)
(* taken by the reader, `published' items exist:                           *)
(*                                                                         *)
(*      released <= consumed <= published <= released + Capacity           *)
(*                                                                         *)
(* `delivered' is the number of the item whose contents the reader saw     *)
(* last.  A reader that crashes sees the item it was working on again, so  *)
(* delivery is at least once; it is never out of order, never of an item   *)
(* that was overwritten, and no item is skipped.                           *)
(***************************************************************************)
EXTENDS Integers

CONSTANT Capacity           \* most items published and not yet released

VARIABLES published, consumed, released, delivered

logVars == <<published, consumed, released, delivered>>

LogInit ==
    /\ published = 0
    /\ consumed  = 0
    /\ released  = 0
    /\ delivered = -1

Publish ==
    /\ published - released < Capacity
    /\ published' = published + 1
    /\ UNCHANGED <<consumed, released, delivered>>

\* The reader sees the contents of the oldest item it has not consumed.
Deliver ==
    /\ consumed < published
    /\ delivered' = consumed
    /\ UNCHANGED <<published, consumed, released>>

\* Only an item that was delivered is consumed.
Consume ==
    /\ consumed < published
    /\ delivered = consumed
    /\ consumed' = consumed + 1
    /\ UNCHANGED <<published, released, delivered>>

\* More than one item may be released at once: read_advance catches up after
\* a crash that came between its two stores.
Release ==
    /\ released < consumed
    /\ released' \in (released + 1) .. consumed
    /\ UNCHANGED <<published, consumed, delivered>>

LogNext == Publish \/ Deliver \/ Consume \/ Release

LogSpec == LogInit /\ [][LogNext]_logVars
===============================================================================
