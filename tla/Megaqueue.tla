------------------------------- MODULE Megaqueue -------------------------------
(***************************************************************************)
(* The megaqueue of tsl/megaqueue: a ring of object_count slots in shared  *)
(* memory with a producer cursor (head), a reader cursor (tail) and a      *)
(* deletion cursor (_delete, here del).                                    *)
(*                                                                         *)
(* Producer, reader and deleter run in different processes without a lock. *)
(* Every action makes at most one access to a cursor that another process  *)
(* writes; a load of a cursor only the acting process writes is part of    *)
(* the next such access.  Filling and reading the payload of a slot are    *)
(* not atomic: each takes a begin and an end step.                         *)
(*                                                                         *)
(* The reader works in one of two modes: "lockstep" uses                   *)
(* megaqueue_read_advance, which moves tail and _delete with two stores;   *)
(* "split" uses megaqueue_read_only_advance and leaves _delete to a        *)
(* separate deleter (megaqueue_delete_advance).  The warning at            *)
(* megaqueue.h:82 forbids mixing the two.                                  *)
(*                                                                         *)
(* The cursors live in the shared memory object, so a reader or a deleter  *)
(* that dies loses its locals only; when it opens the queue again it finds *)
(* the cursors as it left them.  Loads and stores take effect in program   *)
(* order (x86-TSO, with ck_pr_load/ck_pr_store keeping the compiler from   *)
(* reordering).                                                            *)
(***************************************************************************)
EXTENDS Integers

CONSTANTS
    Count,        \* hdr->object_count
    MaxItems,     \* bound: items the producer publishes
    MaxCrashes    \* bound: deaths of a reader or of a deleter

ASSUME CountAssumption == Count \in Nat /\ Count >= 2
ASSUME BoundsAssumption == MaxItems \in Nat /\ MaxCrashes \in Nat

VARIABLES
    head, tail, del,   \* the cursors of struct megaqueue_header
    mem,               \* payload of every slot: an item number, Blank or Torn
    mode,              \* how the reader advances
    ppc, pslot,        \* producer: control point and the slot it was given
    rpc, rslot,        \* reader: control point and the slot it was given
    rval, got,         \* reader: payload as first seen, payload as accepted
    dpc,               \* deleter: control point
    published,         \* history: items published; also the next item's number
    crashes

cursors  == <<head, tail, del>>
prodVars == <<ppc, pslot, published>>
readVars == <<rpc, rslot, rval, got>>
vars     == <<cursors, mem, mode, prodVars, readVars, dpc, crashes>>

Slots == 0 .. Count - 1
Blank == -1      \* never written
Torn  == -2      \* a mixture of two items

-------------------------------------------------------------------------------
(* Cursor arithmetic and the three predicates of megaqueue_priv.h.         *)

Succ(i) == (i + 1) % Count

\* Mutant: the producer looks at the read cursor instead of the delete cursor.
IsFullByTail == tail = Succ(head)

\* Always leave one free entry.
__megaqueue_is_full == del = Succ(head)

\* Mutant: one entry is kept back at the wrong end.
IsEmptyOffByOne == tail = Succ(head)

__megaqueue_is_empty == tail = head

\* Mutant: delete_advance never stops.
CanAlwaysDelete == FALSE

\* The code's name says the opposite of what it returns.
__megaqueue_can_delete == tail = del

\* How many steps forward lead from cursor a to cursor b.
Dist(a, b) == IF a <= b THEN b - a ELSE b + Count - a

-------------------------------------------------------------------------------
(* Producer.                                                               *)

\* A_E_NOSPC changes nothing, so only the successful return is a step.
megaqueue_next_slot ==
    /\ ppc = "idle"
    /\ published < MaxItems
    /\ ~__megaqueue_is_full
    /\ pslot' = head
    /\ ppc' = "slot"
    /\ UNCHANGED <<cursors, mem, mode, readVars, dpc, published, crashes>>

BeginFill ==
    /\ ppc = "slot"
    /\ mem' = [mem EXCEPT ![pslot] = Torn]
    /\ ppc' = "filling"
    /\ UNCHANGED <<cursors, mode, readVars, dpc, pslot, published, crashes>>

EndFill ==
    /\ ppc = "filling"
    /\ mem' = [mem EXCEPT ![pslot] = published]
    /\ ppc' = "filled"
    /\ UNCHANGED <<cursors, mode, readVars, dpc, pslot, published, crashes>>

\* megaqueue_advance tests for space again, and drops the item when there is
\* none.
AdvanceCheck ==
    /\ ppc = "filled"
    /\ ppc' = IF __megaqueue_is_full THEN "idle" ELSE "publish"
    /\ UNCHANGED <<cursors, mem, mode, readVars, dpc, pslot, published, crashes>>

AdvanceStore ==
    /\ ppc = "publish"
    /\ head' = Succ(head)
    /\ published' = published + 1
    /\ ppc' = "idle"
    /\ UNCHANGED <<tail, del, mem, mode, readVars, dpc, pslot, crashes>>

-------------------------------------------------------------------------------
(* Reader.                                                                 *)

\* A_E_EMPTY changes nothing in the queue, so only success is a step.
megaqueue_read_next_slot ==
    /\ rpc = "idle"
    /\ ~__megaqueue_is_empty
    /\ rslot' = tail
    /\ rpc' = "slot"
    /\ UNCHANGED <<cursors, mem, mode, prodVars, rval, got, dpc, crashes>>

BeginRead ==
    /\ rpc = "slot"
    /\ rval' = mem[rslot]
    /\ rpc' = "reading"
    /\ UNCHANGED <<cursors, mem, mode, prodVars, rslot, got, dpc, crashes>>

EndRead ==
    /\ rpc = "reading"
    /\ got' = IF mem[rslot] = rval THEN rval ELSE Torn
    /\ rpc' = "read"
    /\ UNCHANGED <<cursors, mem, mode, prodVars, rslot, rval, dpc, crashes>>

\* megaqueue_read_advance and megaqueue_read_only_advance test again.
ReadAdvanceCheck ==
    /\ rpc = "read"
    /\ rpc' = IF __megaqueue_is_empty THEN "idle" ELSE "settail"
    /\ UNCHANGED <<cursors, mem, mode, prodVars, rslot, rval, got, dpc, crashes>>

\* Mutant: read_advance forgets its second store.
ReadAdvanceTailOnly ==
    /\ rpc = "settail"
    /\ tail' = Succ(tail)
    /\ rpc' = "idle"
    /\ UNCHANGED <<head, del, mem, mode, prodVars, rslot, rval, got, dpc, crashes>>

ReadAdvanceTail ==
    /\ rpc = "settail"
    /\ tail' = Succ(tail)
    /\ rpc' = IF mode = "lockstep" THEN "setdel" ELSE "idle"
    /\ UNCHANGED <<head, del, mem, mode, prodVars, rslot, rval, got, dpc, crashes>>

\* The second store of megaqueue_read_advance, of the same offset.
ReadAdvanceDelete ==
    /\ rpc = "setdel"
    /\ del' = tail
    /\ rpc' = "idle"
    /\ UNCHANGED <<head, tail, mem, mode, prodVars, rslot, rval, got, dpc, crashes>>

\* The reading process dies and a new one opens the queue.
ReaderCrash ==
    /\ rpc # "idle"
    /\ crashes < MaxCrashes
    /\ crashes' = crashes + 1
    /\ rpc' = "idle"
    /\ UNCHANGED <<cursors, mem, mode, prodVars, rslot, rval, got, dpc>>

-------------------------------------------------------------------------------
(* Deleter, in split mode only.                                            *)

DeleteAdvanceCheck ==
    /\ mode = "split"
    /\ dpc = "idle"
    /\ ~__megaqueue_can_delete
    /\ dpc' = "setdel"
    /\ UNCHANGED <<cursors, mem, mode, prodVars, readVars, crashes>>

DeleteAdvanceStore ==
    /\ dpc = "setdel"
    /\ del' = Succ(del)
    /\ dpc' = "idle"
    /\ UNCHANGED <<head, tail, mem, mode, prodVars, readVars, crashes>>

DeleterCrash ==
    /\ dpc # "idle"
    /\ crashes < MaxCrashes
    /\ crashes' = crashes + 1
    /\ dpc' = "idle"
    /\ UNCHANGED <<cursors, mem, mode, prodVars, readVars>>

-------------------------------------------------------------------------------
\* A freshly created object: ftruncate gives zeroed pages and
\* megaqueue_prepare_superblock sets head to 0.
Init ==
    /\ head = 0 /\ tail = 0 /\ del = 0
    /\ mem = [s \in Slots |-> Blank]
    /\ mode \in {"lockstep", "split"}
    /\ ppc = "idle" /\ pslot = 0
    /\ rpc = "idle" /\ rslot = 0 /\ rval = Blank /\ got = Blank
    /\ dpc = "idle"
    /\ published = 0
    /\ crashes = 0

Producer ==
    \/ megaqueue_next_slot
    \/ BeginFill
    \/ EndFill
    \/ AdvanceCheck
    \/ AdvanceStore

Reader ==
    \/ megaqueue_read_next_slot
    \/ BeginRead
    \/ EndRead
    \/ ReadAdvanceCheck
    \/ ReadAdvanceTail
    \/ ReadAdvanceDelete

Deleter == DeleteAdvanceCheck \/ DeleteAdvanceStore

\* Everything published has been read, and nothing more will be: the bound on items
\* is reached, or the queue is full as well and every call answers A_E_NOSPC or
\* A_E_EMPTY from now on (see NeverEmptyAndFull).
Drained ==
    /\ published = MaxItems \/ __megaqueue_is_full
    /\ ppc = "idle"
    /\ __megaqueue_is_empty
    /\ UNCHANGED vars

Next == Producer \/ Reader \/ Deleter \/ ReaderCrash \/ DeleterCrash \/ Drained

Spec == Init /\ [][Next]_vars

\* The three processes keep being scheduled and keep polling; nobody has to
\* crash.
FairSpec == Spec /\ WF_vars(Producer) /\ WF_vars(Reader) /\ WF_vars(Deleter)

-------------------------------------------------------------------------------
(* Properties.                                                             *)

TypeOK ==
    /\ head \in Slots /\ tail \in Slots /\ del \in Slots
    /\ mem \in [Slots -> (0 .. MaxItems) \cup {Blank, Torn}]
    /\ mode \in {"lockstep", "split"}
    /\ ppc \in {"idle", "slot", "filling", "filled", "publish"}
    /\ pslot \in Slots
    /\ rpc \in {"idle", "slot", "reading", "read", "settail", "setdel"}
    /\ rslot \in Slots
    /\ rval \in (0 .. MaxItems) \cup {Blank, Torn}
    /\ got \in (0 .. MaxItems) \cup {Blank, Torn}
    /\ dpc \in {"idle", "setdel"}
    /\ published \in 0 .. MaxItems
    /\ crashes \in 0 .. MaxCrashes

\* Going forward from the deletion cursor one meets the read cursor before the
\* producer's (megaqueue_priv.h: the checks of read_advance, read_only_advance
\* and delete_advance are made on loads that are stale when the store happens).
CursorOrder == Dist(del, tail) <= Dist(del, head)

\* The number of the item whose slot is s, for s between del and head.
ItemAt(s) == published - Dist(s, head)

\* Every slot that is not yet deleted holds the item that was published there,
\* whole: the producer never fills a slot before _delete has passed it.
RetainedIntact ==
    \A s \in Slots : Dist(del, s) < Dist(del, head) => mem[s] = ItemAt(s)

\* Once megaqueue_next_slot has handed out a slot the queue cannot become full
\* under the producer: megaqueue_advance never drops a filled item.
ReservationHolds ==
    ppc \in {"slot", "filling", "filled", "publish"} => ~__megaqueue_is_full

\* What the reader accepts is the oldest unread item: nothing torn, nothing
\* overwritten, nothing skipped, whatever the producer and the deleter do
\* between megaqueue_read_next_slot and the advance.
DeliveredInOrder ==
    rpc \in {"read", "settail"} => got = ItemAt(tail)

\* In lockstep mode every reader that dies between the two stores of
\* megaqueue_read_advance holds back one slot, and nothing else does; the next
\* completed read_advance gives them all back.
LockstepLag ==
    mode = "lockstep" =>
        Dist(del, tail) <= crashes + (IF rpc = "setdel" THEN 1 ELSE 0)

\* megaqueue_priv.h:125 says that read_advance moves both cursors in lockstep.
\* Then, between two calls, tail = _delete, and a queue with nothing to read is
\* never full.
NeverEmptyAndFull ==
    mode = "lockstep" /\ rpc = "idle" /\ __megaqueue_is_empty
        => ~__megaqueue_is_full

\* No cursor is ever moved backwards, and none overtakes the one before it: a
\* step moves tail by at most one slot, and del to a slot the reader has left.
CursorsOnlyAdvance ==
    [][/\ tail' # tail => tail' = Succ(tail) /\ ~__megaqueue_is_empty
       /\ del' # del => Dist(del, del') <= Dist(del, tail)]_cursors

\* The megaqueue is a bounded log of Count - 1 items.
Log == INSTANCE BoundedLog
         WITH Capacity  <- Count - 1,
              consumed  <- published - Dist(tail, head),
              released  <- published - Dist(del, head),
              delivered <- got

Refinement == Log!LogSpec

\* With a live producer, reader and deleter the producer never stays blocked on a
\* full queue and every item is read, in spite of any number of deaths in split
\* mode, and of fewer than Count - 1 in lockstep mode: that many readers dying
\* between the stores of tail and _delete take all slots away.
AllDelivered ==
    <>[](\/ published = MaxItems /\ __megaqueue_is_empty
         \/ mode = "lockstep" /\ crashes >= Count - 1)
===============================================================================
