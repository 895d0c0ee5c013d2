---------------------------- MODULE MegaqueueProofs ----------------------------
(***************************************************************************)
(* Proofs about Megaqueue for every number of slots and every bound: the   *)
(* safety invariants of its run, its action property, and that it          *)
(* implements BoundedLog; then about MegaqueueOpen, a module of its own.   *)
(*                                                                         *)
(* The invariants are not inductive as they stand.  What is missing is     *)
(* what each process may still rely on between a check and the store that  *)
(* follows it: that the foreign cursor it loaded can only have moved in    *)
(* the harmless direction.  ProducerInv, ReaderInv and DeleterInv say so.  *)
(***************************************************************************)
EXTENDS Megaqueue, MegaqueueOpen, TLAPS

\* Between megaqueue_next_slot and the store of megaqueue_advance the
\* producer's slot is the head and the queue is not full.
ProducerInv ==
    /\ ppc # "idle" => pslot = head /\ del # Succ(head) /\ published < MaxItems
    /\ ppc \in {"filled", "publish"} => mem[head] = published

\* Between megaqueue_read_next_slot and the store of tail the reader's slot is
\* the tail and the queue is not empty.
ReaderInv ==
    /\ rpc \in {"slot", "reading", "read", "settail"} => rslot = tail /\ tail # head
    /\ rpc = "reading" => rval = ItemAt(tail)
    /\ rpc \in {"read", "settail"} => got = ItemAt(tail)
    /\ rpc = "setdel" => mode = "lockstep" /\ Dist(del, tail) >= 1

\* Between its check and its store the deleter stays behind the reader.
DeleterInv ==
    dpc = "setdel" => mode = "split" /\ del # tail

\* Items are numbered from 0, so no more of them are retained than published.
CountInv == Dist(del, head) <= published

Inv ==
    /\ TypeOK
    /\ CursorOrder
    /\ RetainedIntact
    /\ ProducerInv
    /\ ReaderInv
    /\ DeleterInv
    /\ CountInv
    /\ LockstepLag

-------------------------------------------------------------------------------
\* The wrap-around of a cursor (the % of every advance in megaqueue_priv.h),
\* without the modulus.
LEMMA SuccCases ==
    ASSUME NEW i \in Slots
    PROVE  Succ(i) = IF i = Count - 1 THEN 0 ELSE i + 1
<1>1. CASE i = Count - 1
  <2>1. Succ(i) = Count % Count
    BY <1>1, CountAssumption DEF Succ, Slots
  <2>2. Count % Count = 0
    BY CountAssumption, SMT
  <2> QED BY <1>1, <2>1, <2>2
<1>2. CASE i # Count - 1
  <2>1. i + 1 \in 0 .. Count - 1
    BY <1>2, CountAssumption DEF Slots
  <2>2. (i + 1) % Count = i + 1
    BY <2>1, CountAssumption, SMT
  <2> QED BY <1>2, <2>2 DEF Succ
<1> QED BY <1>1, <1>2

\* A cursor stays in the ring when it is advanced.
LEMMA SuccType ==
    ASSUME NEW i \in Slots
    PROVE  Succ(i) \in Slots
BY SuccCases, CountAssumption DEF Slots

-------------------------------------------------------------------------------
\* A new queue satisfies the inductive invariant.
LEMMA InitInv == Init => Inv
BY CountAssumption, BoundsAssumption
   DEF Init, Inv, TypeOK, CursorOrder, RetainedIntact, ProducerInv, ReaderInv,
       DeleterInv, CountInv, LockstepLag, ItemAt, Dist, Slots, Blank, Torn

\* The producer's steps: only AdvanceStore moves a cursor, and only BeginFill
\* and EndFill write a slot, which is the one at head and not retained.
LEMMA ProducerStep == Inv /\ Producer => Inv'
<1> SUFFICES ASSUME Inv, Producer PROVE Inv'
  OBVIOUS
<1> USE CountAssumption, BoundsAssumption
<1>s. Succ(head) = IF head = Count - 1 THEN 0 ELSE head + 1
  BY SuccCases DEF Inv, TypeOK
<1>1. CASE megaqueue_next_slot
  BY <1>1 DEF megaqueue_next_slot, Inv, TypeOK, CursorOrder, RetainedIntact,
       ProducerInv, ReaderInv, DeleterInv, CountInv, LockstepLag, ItemAt,
       cursors, readVars, __megaqueue_is_full
<1>2. CASE BeginFill
  <2>1. \A t \in Slots \ {head} : mem'[t] = mem[t]
    BY <1>2 DEF BeginFill, Inv, TypeOK, ProducerInv
  <2>2. RetainedIntact'
    BY <1>2, <2>1 DEF BeginFill, Inv, TypeOK, RetainedIntact, ItemAt, Dist,
         Slots, cursors, readVars
  <2> QED
    BY <1>2, <2>2 DEF BeginFill, Inv, TypeOK, CursorOrder, ProducerInv, ReaderInv,
         DeleterInv, CountInv, LockstepLag, ItemAt, cursors, readVars
<1>3. CASE EndFill
  <2>1. \A t \in Slots \ {head} : mem'[t] = mem[t]
    BY <1>3 DEF EndFill, Inv, TypeOK, ProducerInv
  <2>2. RetainedIntact'
    BY <1>3, <2>1 DEF EndFill, Inv, TypeOK, RetainedIntact, ItemAt, Dist,
         Slots, cursors, readVars
  <2> QED
    BY <1>3, <2>2 DEF EndFill, Inv, TypeOK, CursorOrder, ProducerInv, ReaderInv,
         DeleterInv, CountInv, LockstepLag, ItemAt, cursors, readVars
<1>4. CASE AdvanceCheck
  BY <1>4 DEF AdvanceCheck, Inv, TypeOK, CursorOrder, RetainedIntact,
       ProducerInv, ReaderInv, DeleterInv, CountInv, LockstepLag, ItemAt,
       cursors, readVars, __megaqueue_is_full
<1>5. CASE AdvanceStore
  <2> USE <1>5, <1>s DEF AdvanceStore, Inv, TypeOK, Slots
  <2>1. TypeOK' /\ CursorOrder' /\ CountInv'
    BY DEF CursorOrder, CountInv, ProducerInv, Dist, readVars
  <2>2. RetainedIntact'
    BY DEF RetainedIntact, ProducerInv, ItemAt, Dist
  <2>3. ReaderInv'
    BY DEF ReaderInv, ProducerInv, CursorOrder, ItemAt, Dist, readVars
  <2> QED
    BY <2>1, <2>2, <2>3 DEF ProducerInv, DeleterInv, LockstepLag, Dist, readVars
<1> QED
  BY <1>1, <1>2, <1>3, <1>4, <1>5 DEF Producer

\* The reader's steps: ReadAdvanceTail and ReadAdvanceDelete move a cursor.
LEMMA ReaderStep == Inv /\ (Reader \/ ReaderCrash) => Inv'
<1> SUFFICES ASSUME Inv, Reader \/ ReaderCrash PROVE Inv'
  OBVIOUS
<1> USE CountAssumption, BoundsAssumption
<1>s. /\ Succ(head) = IF head = Count - 1 THEN 0 ELSE head + 1
      /\ Succ(tail) = IF tail = Count - 1 THEN 0 ELSE tail + 1
  BY SuccCases DEF Inv, TypeOK
<1>m. tail # head => mem[tail] = ItemAt(tail)
  BY DEF Inv, TypeOK, RetainedIntact, CursorOrder, Dist, Slots
<1>1. CASE megaqueue_read_next_slot
  BY <1>1 DEF megaqueue_read_next_slot, Inv, TypeOK, CursorOrder, RetainedIntact,
       ProducerInv, ReaderInv, DeleterInv, CountInv, LockstepLag, ItemAt,
       cursors, prodVars, __megaqueue_is_empty
<1>2. CASE BeginRead
  BY <1>2, <1>m DEF BeginRead, Inv, TypeOK, CursorOrder, RetainedIntact,
       ProducerInv, ReaderInv, DeleterInv, CountInv, LockstepLag, ItemAt,
       cursors, prodVars
<1>3. CASE EndRead
  BY <1>3, <1>m DEF EndRead, Inv, TypeOK, CursorOrder, RetainedIntact,
       ProducerInv, ReaderInv, DeleterInv, CountInv, LockstepLag, ItemAt,
       cursors, prodVars
<1>4. CASE ReadAdvanceCheck
  BY <1>4 DEF ReadAdvanceCheck, Inv, TypeOK, CursorOrder, RetainedIntact,
       ProducerInv, ReaderInv, DeleterInv, CountInv, LockstepLag, ItemAt,
       cursors, prodVars, __megaqueue_is_empty
<1>5. CASE ReadAdvanceTail
  <2> USE <1>5, <1>s DEF ReadAdvanceTail, Inv, TypeOK, Slots
  <2>1. TypeOK' /\ CursorOrder' /\ CountInv' /\ RetainedIntact' /\ ProducerInv'
    BY DEF CursorOrder, CountInv, RetainedIntact, ProducerInv, ReaderInv,
           ItemAt, Dist, prodVars
  <2>2. ReaderInv'
    BY DEF ReaderInv, CursorOrder, Dist
  <2>3. DeleterInv'
    BY DEF DeleterInv, ReaderInv, CursorOrder, Dist
  <2>4. LockstepLag'
    BY DEF LockstepLag, ReaderInv, CursorOrder, Dist
  <2> QED
    BY <2>1, <2>2, <2>3, <2>4
<1>6. CASE ReadAdvanceDelete
  <2> USE <1>6, <1>s DEF ReadAdvanceDelete, Inv, TypeOK, Slots
  <2>1. TypeOK' /\ CursorOrder' /\ CountInv' /\ RetainedIntact'
    BY SMTT(30) DEF CursorOrder, CountInv, RetainedIntact, ItemAt, Dist, prodVars
  <2>2. ProducerInv'
    BY DEF ProducerInv, CursorOrder, ReaderInv, Dist, prodVars
  <2> QED
    BY <2>1, <2>2 DEF ReaderInv, DeleterInv, LockstepLag, Dist, prodVars
<1>7. CASE ReaderCrash
  <2>1. LockstepLag'
    BY <1>7 DEF ReaderCrash, Inv, TypeOK, LockstepLag, Dist, Slots, cursors, prodVars
  <2> QED
    BY <1>7, <2>1 DEF ReaderCrash, Inv, TypeOK, CursorOrder, RetainedIntact,
         ProducerInv, ReaderInv, DeleterInv, CountInv, ItemAt, cursors, prodVars
<1> QED
  BY <1>1, <1>2, <1>3, <1>4, <1>5, <1>6, <1>7 DEF Reader

\* The deleter's steps: only DeleteAdvanceStore moves a cursor.
LEMMA DeleterStep == Inv /\ (Deleter \/ DeleterCrash) => Inv'
<1> SUFFICES ASSUME Inv, Deleter \/ DeleterCrash PROVE Inv'
  OBVIOUS
<1> USE CountAssumption, BoundsAssumption
<1>s. /\ Succ(head) = IF head = Count - 1 THEN 0 ELSE head + 1
      /\ Succ(del) = IF del = Count - 1 THEN 0 ELSE del + 1
  BY SuccCases DEF Inv, TypeOK
<1>1. CASE DeleteAdvanceCheck
  BY <1>1 DEF DeleteAdvanceCheck, Inv, TypeOK, CursorOrder, RetainedIntact,
       ProducerInv, ReaderInv, DeleterInv, CountInv, LockstepLag, ItemAt,
       cursors, prodVars, readVars, __megaqueue_can_delete
<1>2. CASE DeleteAdvanceStore
  <2> USE <1>2, <1>s DEF DeleteAdvanceStore, Inv, TypeOK, Slots
  <2>1. TypeOK' /\ CursorOrder' /\ CountInv' /\ RetainedIntact'
    BY DEF CursorOrder, CountInv, RetainedIntact, DeleterInv, ItemAt, Dist,
           prodVars, readVars
  <2>2. ProducerInv'
    BY DEF ProducerInv, CursorOrder, DeleterInv, Dist, prodVars
  <2>3. ReaderInv'
    BY DEF ReaderInv, DeleterInv, CursorOrder, ItemAt, Dist, prodVars, readVars
  <2> QED
    BY <2>1, <2>2, <2>3 DEF DeleterInv, LockstepLag
<1>3. CASE DeleterCrash
  <2>1. LockstepLag'
    BY <1>3 DEF DeleterCrash, Inv, TypeOK, LockstepLag, Dist, Slots, cursors, prodVars, readVars
  <2> QED
    BY <1>3, <2>1 DEF DeleterCrash, Inv, TypeOK, CursorOrder, RetainedIntact,
         ProducerInv, ReaderInv, DeleterInv, CountInv, ItemAt, cursors, prodVars, readVars
<1> QED
  BY <1>1, <1>2, <1>3 DEF Deleter

\* Inv is inductive.
LEMMA NextInv == Inv /\ [Next]_vars => Inv'
<1> SUFFICES ASSUME Inv, [Next]_vars PROVE Inv'
  OBVIOUS
<1>1. CASE UNCHANGED vars
  BY <1>1 DEF vars, cursors, prodVars, readVars, Inv, TypeOK, CursorOrder,
       RetainedIntact, ProducerInv, ReaderInv, DeleterInv, CountInv,
       LockstepLag, ItemAt
<1> QED
  BY <1>1, ProducerStep, ReaderStep, DeleterStep DEF Next, Drained

\* Inv holds in every reachable state.
THEOREM Invariance == Spec => []Inv
<1>1. QED
  BY InitInv, NextInv, PTL DEF Spec

-------------------------------------------------------------------------------
\* The state of the queue stays within its types: no cursor leaves the ring and
\* no slot index does (megaqueue_priv.h computes slot addresses from them).
THEOREM TypeCorrect == Spec => []TypeOK
<1>1. Inv => TypeOK
  BY DEF Inv
<1> QED
  BY <1>1, Invariance, PTL

\* For every number of slots the cursors keep the order _delete, tail, head.
THEOREM CursorsOrdered == Spec => []CursorOrder
<1>1. Inv => CursorOrder
  BY DEF Inv
<1> QED
  BY <1>1, Invariance, PTL

\* For every number of slots no item is overwritten before it is deleted.
THEOREM ItemsRetained == Spec => []RetainedIntact
<1>1. Inv => RetainedIntact
  BY DEF Inv
<1> QED
  BY <1>1, Invariance, PTL

\* A slot handed to the producer is one megaqueue_advance will accept.
THEOREM ReservationsHold == Spec => []ReservationHolds
<1>1. Inv => ReservationHolds
  BY DEF Inv, ProducerInv, ReservationHolds, __megaqueue_is_full
<1> QED
  BY <1>1, Invariance, PTL

\* The reader accepts items whole, in order and without a gap.
THEOREM DeliveryOrdered == Spec => []DeliveredInOrder
<1>1. Inv => DeliveredInOrder
  BY DEF Inv, ReaderInv, DeliveredInOrder
<1> QED
  BY <1>1, Invariance, PTL

\* In lockstep mode a slot is held back only by a reader that died.
THEOREM LagBounded == Spec => []LockstepLag
<1>1. Inv => LockstepLag
  BY DEF Inv
<1> QED
  BY <1>1, Invariance, PTL

-------------------------------------------------------------------------------
\* Cursors move forward only, and never past the cursor in front of them.
THEOREM CursorsAdvance == Spec => CursorsOnlyAdvance
<1>1. Inv /\ [Next]_vars =>
        [/\ tail' # tail => tail' = Succ(tail) /\ ~__megaqueue_is_empty
         /\ del' # del => Dist(del, del') <= Dist(del, tail)]_cursors
  <2> SUFFICES ASSUME Inv, [Next]_vars, cursors' # cursors
               PROVE  /\ tail' # tail => tail' = Succ(tail) /\ ~__megaqueue_is_empty
                      /\ del' # del => Dist(del, del') <= Dist(del, tail)
    OBVIOUS
  <2>s. Succ(del) = IF del = Count - 1 THEN 0 ELSE del + 1
    BY SuccCases DEF Inv, TypeOK
  <2>1. CASE AdvanceStore
    BY <2>1 DEF AdvanceStore
  <2>2. CASE ReadAdvanceTail
    BY <2>2 DEF ReadAdvanceTail, Inv, ReaderInv, __megaqueue_is_empty
  <2>3. CASE ReadAdvanceDelete
    BY <2>3, CountAssumption DEF ReadAdvanceDelete, Inv, TypeOK, Slots, Dist
  <2>4. CASE DeleteAdvanceStore
    BY <2>4, <2>s, CountAssumption
       DEF DeleteAdvanceStore, Inv, TypeOK, DeleterInv, Slots, Dist
  <2> QED
    BY <2>1, <2>2, <2>3, <2>4
       DEF Next, Producer, Reader, Deleter, megaqueue_next_slot, BeginFill,
           EndFill, AdvanceCheck, megaqueue_read_next_slot, BeginRead, EndRead,
           ReadAdvanceCheck, ReaderCrash, DeleteAdvanceCheck, DeleterCrash,
           Drained, vars
<1> QED
  BY <1>1, Invariance, PTL DEF Spec, CursorsOnlyAdvance

-------------------------------------------------------------------------------
\* A megaqueue of Count slots implements a bounded log of Count - 1 items:
\* head, tail and _delete are the counters published, consumed and released.
THEOREM ImplementsLog == Spec => Refinement
<1> USE CountAssumption, BoundsAssumption
<1>1. Init => Log!LogInit
  BY DEF Init, Log!LogInit, Dist, Blank
<1>2. Inv /\ [Next]_vars => [Log!LogNext]_Log!logVars
  <2> SUFFICES ASSUME Inv, [Next]_vars PROVE [Log!LogNext]_Log!logVars
    OBVIOUS
  <2> USE DEF Log!logVars
  <2>s. /\ Succ(head) = IF head = Count - 1 THEN 0 ELSE head + 1
        /\ Succ(tail) = IF tail = Count - 1 THEN 0 ELSE tail + 1
        /\ Succ(del) = IF del = Count - 1 THEN 0 ELSE del + 1
    BY SuccCases DEF Inv, TypeOK
  <2>m. tail # head => mem[tail] = ItemAt(tail)
    BY DEF Inv, TypeOK, RetainedIntact, CursorOrder, Dist, Slots
  <2>1. CASE AdvanceStore
    <3>1. Log!Publish
      BY <2>1, <2>s DEF AdvanceStore, Log!Publish, Inv, TypeOK, CursorOrder,
           ProducerInv, Slots, Dist, readVars
    <3> QED BY <3>1 DEF Log!LogNext
  <2>2. CASE EndRead
    <3>a. rslot = tail /\ tail # head /\ rval = ItemAt(tail)
      BY <2>2 DEF EndRead, Inv, ReaderInv
    <3>b. got' = ItemAt(tail)
      BY <2>2, <2>m, <3>a DEF EndRead
    <3>c. UNCHANGED <<head, tail, del, published>>
      BY <2>2 DEF EndRead, cursors, prodVars
    <3>1. Log!Deliver
      BY <3>a, <3>b, <3>c DEF Log!Deliver, Inv, TypeOK, ItemAt, Slots, Dist
    <3> QED BY <3>1 DEF Log!LogNext
  <2>3. CASE ReadAdvanceTail
    <3>1. Log!Consume
      BY <2>3, <2>s DEF ReadAdvanceTail, Log!Consume, Inv, TypeOK, CursorOrder,
           ReaderInv, ItemAt, Slots, Dist, prodVars
    <3> QED BY <3>1 DEF Log!LogNext
  <2>4. CASE ReadAdvanceDelete
    <3>1. Log!Release
      BY <2>4 DEF ReadAdvanceDelete, Log!Release, Inv, TypeOK, CursorOrder,
           ReaderInv, CountInv, Slots, Dist, prodVars
    <3> QED BY <3>1 DEF Log!LogNext
  <2>5. CASE DeleteAdvanceStore
    <3>1. Log!Release
      BY <2>5, <2>s DEF DeleteAdvanceStore, Log!Release, Inv, TypeOK, CursorOrder,
           DeleterInv, CountInv, Slots, Dist, prodVars, readVars
    <3> QED BY <3>1 DEF Log!LogNext
  <2> QED
    BY <2>1, <2>2, <2>3, <2>4, <2>5
       DEF Next, Producer, Reader, Deleter, megaqueue_next_slot, BeginFill,
           EndFill, AdvanceCheck, megaqueue_read_next_slot, BeginRead,
           ReadAdvanceCheck, ReaderCrash, DeleteAdvanceCheck, DeleterCrash,
           Drained, vars, cursors, prodVars, readVars
<1> QED
  BY <1>1, <1>2, Invariance, PTL DEF Spec, Refinement, Log!LogSpec

-------------------------------------------------------------------------------
(***************************************************************************)
(* MegaqueueOpen: with a producer that unlinks the name when it closes its *)
(* queue, a consumer never gets a handle on a queue that is half built,    *)
(* for any number of consumers, any geometry and any number of queues made *)
(* one after the other under the same name.                                *)
(*                                                                         *)
(* The argument is the order of the stores of megaqueue_prepare_superblock *)
(* against the order of the loads of megaqueue_open.  FreshObject is the   *)
(* writer's side: the producer always works on an object nobody used       *)
(* before, and each field of its header is zero until its store.           *)
(* PassedSize is the reader's side: between its two looks at the header a  *)
(* consumer knows that object_size was stored, and so will not change.     *)
(***************************************************************************)

Header == [size : Nat, head : {0, Dead}, object_size : Nat, object_count : Nat]

OpenTypeOK ==
    /\ name \in Objects \cup {None}
    /\ shm \in [Objects -> Header]
    /\ used \in 0 .. MaxObjects
    /\ popen \in {"closed", "truncate", "prefault", "head", "size", "count", "open"}
    /\ pobj \in Objects \cup {None}
    /\ pgeo \in Geometries \cup {<<0, 0>>}
    /\ cpc \in [Consumers -> {"closed", "read", "checksize", "checkcount", "sigbus", "open"}]
    /\ cobj \in [Consumers -> Objects \cup {None}]
    /\ cwant \in [Consumers -> ExpectedSizes \cup {0}]
    /\ handle \in [Consumers -> [object_size : Nat, object_count : Nat, region_size : Nat]]

\* The producer is in megaqueue_open or has its queue open.
Busy == popen # "closed"

\* The name is linked exactly while the producer has the object, the youngest one,
\* whose fields are zero until the producer stores them; the objects to come are
\* untouched.
FreshObject ==
    /\ name = IF Busy THEN pobj ELSE None
    /\ Busy => pobj = used /\ pobj \in Objects /\ pgeo \in Geometries
    /\ popen \in {"truncate", "prefault", "head", "size"} => shm[pobj].object_size = 0
    /\ popen \in {"truncate", "prefault", "head", "size", "count"} => shm[pobj].object_count = 0
    /\ popen = "count" => shm[pobj].object_size = pgeo[1]
    /\ \A o \in Objects : o > used => shm[o].object_size = 0 /\ shm[o].object_count = 0

\* Except for the moment between prefaulting and the first store of the superblock
\* no header shows the 0xdead of a prefaulted page.
DeadIsBrief == \A o \in Objects : shm[o].head = Dead => popen = "head" /\ o = pobj

\* A consumer that is in megaqueue_open, or through it, has an object that exists
\* and asked for a size; past its first look at the header it knows that
\* object_size was stored.
PassedSize ==
    \A c \in Consumers :
        /\ cpc[c] # "closed" => cobj[c] \in 1 .. used /\ cwant[c] \in ExpectedSizes
        /\ cpc[c] \in {"checkcount", "open"} => cwant[c] <= shm[cobj[c]].object_size

\* A handle shows what is in the header.
HandleTrue ==
    \A c \in Consumers :
        cpc[c] = "open" =>
            /\ handle[c].object_count = shm[cobj[c]].object_count
            /\ handle[c].object_count # 0
            /\ handle[c].object_size = cwant[c]

OpenInv ==
    /\ OpenTypeOK
    /\ FreshObject
    /\ DeadIsBrief
    /\ PassedSize
    /\ HandleTrue

-------------------------------------------------------------------------------
\* Sizes of queues are natural numbers.
LEMMA SizesNat ==
    /\ \A g \in Geometries : g[1] \in Nat \ {0} /\ g[2] \in Nat \ {0}
    /\ \A s, n \in Nat : QueueSize(s, n) \in Nat
<1>1. \A s, n \in Nat : s * n \in Nat
  OBVIOUS
<1>2. \A s, n \in Nat : QueueSize(s, n) \in Nat
  BY <1>1, GeometryAssumption DEF QueueSize
<1>3. \A g \in Geometries : g[1] \in Nat \ {0} /\ g[2] \in Nat \ {0}
  BY GeometryAssumption
<1> QED
  BY <1>2, <1>3

\* A consumer that is in megaqueue_open, or through it, looks at an object that
\* exists.
LEMMA ConsumerObject ==
    ASSUME OpenInv, NEW c \in Consumers, cpc[c] # "closed"
    PROVE  /\ cobj[c] \in Objects /\ cobj[c] <= used
           /\ shm[cobj[c]].object_size \in Nat /\ shm[cobj[c]].object_count \in Nat
           /\ cwant[c] \in Nat \ {0}
<1>1. cobj[c] \in 1 .. used /\ cwant[c] \in ExpectedSizes
  BY DEF OpenInv, PassedSize
<1>2. cobj[c] \in Objects /\ cobj[c] <= used
  BY <1>1, GeometryAssumption DEF OpenInv, OpenTypeOK, Objects
<1> QED
  BY <1>1, <1>2, GeometryAssumption DEF OpenInv, OpenTypeOK, Header

\* At first there is no object.
LEMMA OpenInitInv == OpenInit => OpenInv
  BY GeometryAssumption
     DEF OpenInit, OpenInv, OpenTypeOK, FreshObject, DeadIsBrief, PassedSize, HandleTrue, Busy, Header,
         Objects, None, Dead, NoHandle

\* shm_open of the producer keeps OpenInv: the name is free, so that the object is a
\* new one.
LEMMA ProducerOpenStep ==
    ASSUME OpenInv, ProducerShmOpen
    PROVE  OpenInv'
<1> USE DEF OpenInv
<1>1. /\ popen = "closed" /\ popen' = "truncate"
      /\ name = None /\ used < MaxObjects
      /\ used' = used + 1 /\ pobj' = used + 1 /\ name' = used + 1
      /\ pgeo' \in Geometries
      /\ UNCHANGED <<shm, cpc, cobj, cwant, handle>>
  BY DEF ProducerShmOpen, FreshObject, Busy, consumer
<1>2. used + 1 \in Objects
  BY <1>1, GeometryAssumption DEF OpenTypeOK, Objects
<1>3. OpenTypeOK'
  BY <1>1, <1>2 DEF OpenTypeOK, Objects
<1>4. FreshObject'
  BY <1>1, <1>2 DEF FreshObject, Busy, OpenTypeOK, Objects
<1>5. DeadIsBrief' /\ PassedSize' /\ HandleTrue'
  BY <1>1 DEF DeadIsBrief, PassedSize, HandleTrue, OpenTypeOK
<1> QED
  BY <1>3, <1>4, <1>5

\* The producer's stores keep OpenInv: while it builds the queue no consumer has a
\* handle on it, and until it has stored object_size none is past its first look.
LEMMA ProducerStoreStep ==
    ASSUME OpenInv,
           \/ ProducerTruncate \/ __megaqueue_prefault_range
           \/ SuperblockHead \/ SuperblockSize \/ SuperblockCount
    PROVE  OpenInv'
<1> USE DEF OpenInv, OpenTypeOK
<1>1. /\ pobj \in Objects /\ pgeo \in Geometries /\ Busy /\ pobj = used /\ name = pobj
      /\ shm[pobj] \in Header /\ shm[pobj].object_count = 0
  BY DEF FreshObject, Busy, ProducerTruncate, __megaqueue_prefault_range,
         SuperblockHead, SuperblockSize, SuperblockCount
<1>2. \A c \in Consumers : cpc[c] = "open" => cobj[c] # pobj
  BY <1>1 DEF HandleTrue
<1>3. \A c \in Consumers :
         cpc[c] \in {"checkcount", "open"} /\ cobj[c] = pobj => shm[pobj].object_size # 0
  BY <1>1, ConsumerObject DEF PassedSize
<1>4. CASE ProducerTruncate
  <2> USE <1>4 DEF ProducerTruncate, consumer
  <2>1. QueueSize(pgeo[1], pgeo[2]) \in Nat
    BY <1>1, SizesNat
  <2>2. OpenTypeOK'
    BY <1>1, <2>1 DEF Header
  <2>3. FreshObject'
    BY <1>1 DEF FreshObject, Busy, Header
  <2>4. DeadIsBrief' /\ PassedSize' /\ HandleTrue'
    BY <1>1 DEF DeadIsBrief, PassedSize, HandleTrue, Header, Objects
  <2> QED
    BY <2>2, <2>3, <2>4
<1>5. CASE __megaqueue_prefault_range
  <2> USE <1>5 DEF __megaqueue_prefault_range, consumer
  <2>1. OpenTypeOK'
    BY <1>1 DEF Header
  <2>2. FreshObject'
    BY <1>1 DEF FreshObject, Busy, Header
  <2>3. DeadIsBrief' /\ PassedSize' /\ HandleTrue'
    BY <1>1 DEF DeadIsBrief, PassedSize, HandleTrue, Header, Objects
  <2> QED
    BY <2>1, <2>2, <2>3
<1>6. CASE SuperblockHead
  <2> USE <1>6 DEF SuperblockHead, consumer
  <2>1. OpenTypeOK'
    BY <1>1 DEF Header
  <2>2. FreshObject'
    BY <1>1 DEF FreshObject, Busy, Header
  <2>3. DeadIsBrief' /\ PassedSize' /\ HandleTrue'
    BY <1>1 DEF DeadIsBrief, PassedSize, HandleTrue, Header, Objects, Dead
  <2> QED
    BY <2>1, <2>2, <2>3
<1>7. CASE SuperblockSize
  <2> USE <1>7 DEF SuperblockSize, consumer
  <2>1. OpenTypeOK'
    BY <1>1, SizesNat DEF Header
  <2>2. FreshObject'
    BY <1>1 DEF FreshObject, Busy, Header
  <2>3. PassedSize'
    BY <1>1, <1>3 DEF PassedSize, FreshObject, Header, Objects
  <2>4. DeadIsBrief' /\ HandleTrue'
    BY <1>1, <1>2 DEF DeadIsBrief, HandleTrue, Header, Objects
  <2> QED
    BY <2>1, <2>2, <2>3, <2>4
<1>8. CASE SuperblockCount
  <2> USE <1>8 DEF SuperblockCount, consumer
  <2>1. OpenTypeOK'
    BY <1>1, SizesNat DEF Header
  <2>2. FreshObject'
    BY <1>1 DEF FreshObject, Busy, Header
  <2>3. DeadIsBrief' /\ PassedSize' /\ HandleTrue'
    BY <1>1, <1>2 DEF DeadIsBrief, PassedSize, HandleTrue, Header, Objects
  <2> QED
    BY <2>1, <2>2, <2>3
<1> QED
  BY <1>4, <1>5, <1>6, <1>7, <1>8

\* A producer that unlinks the name when it closes keeps OpenInv.
LEMMA ProducerCloseStep ==
    ASSUME OpenInv, ProducerClose, UnlinkChoices \subseteq {TRUE}
    PROVE  OpenInv'
<1> USE DEF OpenInv
<1>1. /\ popen = "open" /\ popen' = "closed" /\ name' = None
      /\ UNCHANGED <<shm, used, pobj, pgeo, cpc, cobj, cwant, handle>>
  BY DEF ProducerClose, consumer
<1> QED
  BY <1>1 DEF OpenTypeOK, FreshObject, DeadIsBrief, PassedSize, HandleTrue, Busy

\* What a consumer does keeps OpenInv.
LEMMA ConsumerStep ==
    ASSUME OpenInv, NEW c \in Consumers,
           \/ ConsumerShmOpen(c) \/ ConsumerReadMap(c) \/ ConsumerCheckSize(c)
           \/ ConsumerCheckCount(c) \/ ConsumerClose(c)
    PROVE  OpenInv'
<1> USE DEF OpenInv
<1>1. UNCHANGED <<name, shm, used, popen, pobj, pgeo>>
  BY DEF ConsumerShmOpen, ConsumerReadMap, ConsumerCheckSize, ConsumerCheckCount,
         ConsumerClose, producer
<1>2. FreshObject' /\ DeadIsBrief'
  BY <1>1 DEF FreshObject, DeadIsBrief, Busy
<1>3. CASE ConsumerShmOpen(c)
  <2>1. /\ name \in 1 .. used
        /\ cobj' = [cobj EXCEPT ![c] = name]
        /\ cpc' = [cpc EXCEPT ![c] = "read"]
        /\ handle' = handle
    BY <1>3 DEF ConsumerShmOpen, FreshObject, OpenTypeOK, Objects, None
  <2>2. PICK size \in ExpectedSizes : cwant' = [cwant EXCEPT ![c] = size]
    BY <1>3 DEF ConsumerShmOpen
  <2>3. OpenTypeOK'
    BY <1>1, <2>1, <2>2 DEF OpenTypeOK
  <2>4. PassedSize' /\ HandleTrue'
    BY <1>1, <2>1, <2>2 DEF PassedSize, HandleTrue, OpenTypeOK
  <2> QED
    BY <1>2, <2>3, <2>4
<1>4. CASE ConsumerReadMap(c)
  <2>1. /\ cpc[c] = "read"
        /\ cpc' = [cpc EXCEPT ![c] = "checksize"]
        /\ UNCHANGED <<cobj, cwant>>
    BY <1>4 DEF ConsumerReadMap
  <2>2. PICK r : handle' = [handle EXCEPT ![c].region_size = r] /\ r \in Nat
    <3>1. shm[cobj[c]].object_size \in Nat /\ shm[cobj[c]].object_count \in Nat
      BY <2>1, ConsumerObject
    <3>2. PICK g \in StackGarbage \cup {<<shm[cobj[c]].object_size, shm[cobj[c]].object_count>>} :
             handle' = [handle EXCEPT ![c].region_size = QueueSize(g[1], g[2])]
      BY <1>4 DEF ConsumerReadMap
    <3>3. g[1] \in Nat /\ g[2] \in Nat
      <4>1. CASE g \in Geometries
        BY <4>1, SizesNat
      <4>2. CASE g = <<0, 0>> \/ g = <<shm[cobj[c]].object_size, shm[cobj[c]].object_count>>
        BY <3>1, <4>2
      <4> QED
        BY <4>1, <4>2 DEF StackGarbage
    <3> QED
      BY <3>2, <3>3, SizesNat
  <2>3. OpenTypeOK'
    BY <1>1, <2>1, <2>2 DEF OpenTypeOK
  <2>4. PassedSize' /\ HandleTrue'
    BY <1>1, <2>1, <2>2 DEF PassedSize, HandleTrue, OpenTypeOK
  <2> QED
    BY <1>2, <2>3, <2>4
<1>5. CASE ConsumerCheckSize(c)
  <2>1. /\ cpc[c] = "checksize"
        /\ UNCHANGED <<cobj, cwant, handle>>
    BY <1>5 DEF ConsumerCheckSize
  <2>2. PICK next \in {"sigbus", "closed", "checkcount"} :
           /\ cpc' = [cpc EXCEPT ![c] = next]
           /\ next = "checkcount" => ~(shm[cobj[c]].object_size < cwant[c])
    BY <1>5 DEF ConsumerCheckSize
  <2>3. OpenTypeOK'
    BY <1>1, <2>1, <2>2 DEF OpenTypeOK
  <2>4. next = "checkcount" => cwant[c] <= shm[cobj[c]].object_size
    BY <2>1, <2>2, ConsumerObject
  <2>5. PassedSize' /\ HandleTrue'
    BY <1>1, <2>1, <2>2, <2>4 DEF PassedSize, HandleTrue, OpenTypeOK
  <2> QED
    BY <1>2, <2>3, <2>5
<1>6. CASE ConsumerCheckCount(c)
  <2>1. cpc[c] = "checkcount" /\ UNCHANGED <<cobj, cwant>>
    BY <1>6 DEF ConsumerCheckCount
  <2>2. CASE cpc' = [cpc EXCEPT ![c] = "closed"] /\ UNCHANGED handle
    BY <1>1, <1>2, <2>1, <2>2 DEF OpenTypeOK, PassedSize, HandleTrue
  <2>3. CASE /\ shm[cobj[c]].object_count # 0
             /\ cpc' = [cpc EXCEPT ![c] = "open"]
             /\ handle' = [handle EXCEPT ![c].object_size = cwant[c],
                                         ![c].object_count = shm[cobj[c]].object_count]
    <3>1. cwant[c] \in Nat /\ shm[cobj[c]].object_count \in Nat
      BY <2>1, ConsumerObject
    <3>2. OpenTypeOK'
      BY <1>1, <2>1, <2>3, <3>1, ZenonT(30) DEF OpenTypeOK
    <3>3. PassedSize' /\ HandleTrue'
      BY <1>1, <2>1, <2>3 DEF PassedSize, HandleTrue, OpenTypeOK
    <3> QED
      BY <1>2, <3>2, <3>3
  <2> QED
    BY <1>6, <2>2, <2>3 DEF ConsumerCheckCount
<1>7. CASE ConsumerClose(c)
  BY <1>1, <1>2, <1>7 DEF ConsumerClose, NoHandle, OpenTypeOK, PassedSize, HandleTrue
<1> QED
  BY <1>3, <1>4, <1>5, <1>6, <1>7

\* OpenInv is inductive for a producer that always unlinks.
LEMMA OpenNextInv ==
    ASSUME UnlinkChoices \subseteq {TRUE}
    PROVE  OpenInv /\ [OpenNext]_openVars => OpenInv'
<1> SUFFICES ASSUME OpenInv, [OpenNext]_openVars PROVE OpenInv'
  OBVIOUS
<1>1. CASE UNCHANGED openVars
  BY <1>1 DEF openVars, producer, consumer, OpenInv, OpenTypeOK, FreshObject, DeadIsBrief, PassedSize,
       HandleTrue, Busy
<1> QED
  BY <1>1, ProducerOpenStep, ProducerStoreStep, ProducerCloseStep, ConsumerStep DEF OpenNext

\* OpenInv holds in every state of a system whose producer always unlinks.
THEOREM OpenInvariance ==
    ASSUME UnlinkChoices \subseteq {TRUE}
    PROVE  OpenSpec => []OpenInv
<1>1. OpenInv /\ [OpenNext]_openVars => OpenInv'
  BY OpenNextInv
<1> QED
  BY OpenInitInv, <1>1, PTL DEF OpenSpec

-------------------------------------------------------------------------------
\* megaqueue_open hands out no queue that is half built, as long as the producer
\* unlinks its queue when it closes it (megaqueue_close with unlink): object_count
\* is stored last and looked at last, and the page is no longer marked 0xdead.
THEOREM OpenComplete ==
    ASSUME UnlinkChoices \subseteq {TRUE}
    PROVE  OpenSpec => []OpenIsComplete
<1>1. OpenInv => OpenIsComplete
  <2> SUFFICES ASSUME OpenInv, NEW c \in Consumers, cpc[c] = "open"
               PROVE  /\ handle[c].object_count = shm[cobj[c]].object_count
                      /\ handle[c].object_count # 0
                      /\ handle[c].object_size <= shm[cobj[c]].object_size
                      /\ shm[cobj[c]].head # Dead
    BY DEF OpenIsComplete
  <2>1. cobj[c] \in Objects
    BY ConsumerObject
  <2>2. ~(popen = "head" /\ cobj[c] = pobj)
    BY DEF OpenInv, FreshObject, HandleTrue
  <2> QED
    BY <2>1, <2>2 DEF OpenInv, DeadIsBrief, PassedSize, HandleTrue
<1>2. OpenSpec => []OpenInv
  BY OpenInvariance
<1> QED
  BY <1>1, <1>2, PTL
===============================================================================
