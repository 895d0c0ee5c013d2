----------------------------- MODULE MegaqueueOpen -----------------------------
(***************************************************************************)
(* megaqueue_open and megaqueue_close (tsl/megaqueue/megaqueue.c): how a   *)
(* producer (O_CREAT) and consumers (no O_CREAT) find each other through a *)
(* named shared memory object.                                             *)
(*                                                                         *)
(* Objects are numbered; `name' is the object the name is linked to, or    *)
(* None.  Of an object's header only what opening a queue reads or writes  *)
(* is kept: head, object_size and object_count.  Sizes count the same      *)
(* units as object_size; the header takes one page.  shm_open, ftruncate,  *)
(* mmap and shm_unlink are external: a new object has size 0, growing it   *)
(* gives zeros, touching a mapping of an object of size 0 is a SIGBUS, and *)
(* an unlinked object lives on for those who have it open.                 *)
(***************************************************************************)
EXTENDS Integers

CONSTANTS
    Consumers,
    Geometries,     \* <<object_size, object_count>> a producer may ask for
    ExpectedSizes,  \* obj_size a consumer may ask for
    PageSize,
    UnlinkChoices,  \* subset of BOOLEAN: how the producer calls megaqueue_close
    MaxObjects      \* bound: shared memory objects ever created

ASSUME GeometryAssumption ==
    /\ Geometries \subseteq (Nat \ {0}) \X (Nat \ {0})
    /\ ExpectedSizes \subseteq Nat \ {0}
    /\ PageSize \in Nat \ {0}
    /\ UnlinkChoices \subseteq BOOLEAN
    /\ MaxObjects \in Nat \ {0}

VARIABLES
    name,    \* object the queue's name is linked to
    shm,     \* [Objects -> header and size]
    used,    \* objects created so far
    popen,   \* producer: where in megaqueue_open it is
    pobj,    \* producer: the object it has open
    pgeo,    \* producer: obj_size and obj_count it was given
    cpc,     \* consumers: where in megaqueue_open they are
    cobj,    \* consumers: the object they have open
    cwant,   \* consumers: the obj_size they were given
    handle   \* consumers: struct megaqueue

producer == <<popen, pobj, pgeo>>
consumer == <<cpc, cobj, cwant, handle>>
openVars == <<name, shm, used, producer, consumer>>

None    == 0
Objects == 1 .. MaxObjects
Dead    == -1                         \* the 0xdead of a prefaulted page

QueueSize(size, count) == size * count + PageSize

\* What an uninitialised struct megaqueue_header on the stack may hold.
StackGarbage == {<<0, 0>>} \cup Geometries

NoHandle == [object_size |-> 0, object_count |-> 0, region_size |-> 0]

-------------------------------------------------------------------------------
(* Producer: megaqueue_open with O_CREAT.                                  *)

\* shm_open takes the existing object or makes an empty one.
ProducerShmOpen ==
    /\ popen = "closed"
    /\ \E g \in Geometries : pgeo' = g
    /\ \/ /\ name # None
          /\ pobj' = name
          /\ UNCHANGED <<name, used>>
       \/ /\ name = None
          /\ used < MaxObjects
          /\ used' = used + 1
          /\ pobj' = used + 1
          /\ name' = used + 1
    /\ popen' = "truncate"
    /\ UNCHANGED <<shm, consumer>>

\* Pages the object already had keep their contents.
ProducerTruncate ==
    /\ popen = "truncate"
    /\ shm' = [shm EXCEPT ![pobj].size = QueueSize(pgeo[1], pgeo[2])]
    /\ popen' = "prefault"
    /\ UNCHANGED <<name, used, pobj, pgeo, consumer>>

\* __megaqueue_prefault_range writes the first word of every page; the first
\* word of the header is head.
__megaqueue_prefault_range ==
    /\ popen = "prefault"
    /\ shm' = [shm EXCEPT ![pobj].head = Dead]
    /\ popen' = "head"
    /\ UNCHANGED <<name, used, pobj, pgeo, consumer>>

\* megaqueue_prepare_superblock, one store after the other; tail and _delete
\* are not among them.
SuperblockHead ==
    /\ popen = "head"
    /\ shm' = [shm EXCEPT ![pobj].head = 0]
    /\ popen' = "size"
    /\ UNCHANGED <<name, used, pobj, pgeo, consumer>>

SuperblockSize ==
    /\ popen = "size"
    /\ shm' = [shm EXCEPT ![pobj].object_size = pgeo[1]]
    /\ popen' = "count"
    /\ UNCHANGED <<name, used, pobj, pgeo, consumer>>

SuperblockCount ==
    /\ popen = "count"
    /\ shm' = [shm EXCEPT ![pobj].object_count = pgeo[2]]
    /\ popen' = "open"
    /\ UNCHANGED <<name, used, pobj, pgeo, consumer>>

ProducerClose ==
    /\ popen = "open"
    /\ \E unlink \in UnlinkChoices : name' = IF unlink THEN None ELSE name
    /\ popen' = "closed"
    /\ UNCHANGED <<shm, used, pobj, pgeo, consumer>>

-------------------------------------------------------------------------------
(* Consumer: megaqueue_open without O_CREAT.                               *)

\* Without an object shm_open fails and nothing happens.
ConsumerShmOpen(c) ==
    /\ cpc[c] = "closed"
    /\ name # None
    /\ cobj' = [cobj EXCEPT ![c] = name]
    /\ \E size \in ExpectedSizes : cwant' = [cwant EXCEPT ![c] = size]
    /\ cpc' = [cpc EXCEPT ![c] = "read"]
    /\ UNCHANGED <<name, shm, used, producer, handle>>

\* read the header and map as much as it says.  A short read is taken for a
\* good one: the header on the stack is used as it happens to be.
ConsumerReadMap(c) ==
    /\ cpc[c] = "read"
    /\ LET obj == shm[cobj[c]] IN
       \E g \in IF obj.size = 0 THEN StackGarbage
                                ELSE {<<obj.object_size, obj.object_count>>} :
          handle' = [handle EXCEPT ![c].region_size = QueueSize(g[1], g[2])]
    /\ cpc' = [cpc EXCEPT ![c] = "checksize"]
    /\ UNCHANGED <<name, shm, used, producer, cobj, cwant>>

\* The mapped header is looked at again: first object_size ...
ConsumerCheckSize(c) ==
    /\ cpc[c] = "checksize"
    /\ cpc' = [cpc EXCEPT ![c] =
                  IF shm[cobj[c]].size = 0 THEN "sigbus"
                  ELSE IF shm[cobj[c]].object_size < cwant[c] THEN "closed"
                  ELSE "checkcount"]
    /\ UNCHANGED <<name, shm, used, producer, cobj, cwant, handle>>

\* Mutant: a queue of no objects is accepted.
CheckNoCount(c) ==
    /\ cpc[c] = "checkcount"
    /\ cpc' = [cpc EXCEPT ![c] = "open"]
    /\ handle' = [handle EXCEPT ![c].object_size = cwant[c],
                                ![c].object_count = shm[cobj[c]].object_count]
    /\ UNCHANGED <<name, shm, used, producer, cobj, cwant>>

\* ... then object_count, which the handle takes over; its object_size is the
\* caller's.
ConsumerCheckCount(c) ==
    /\ cpc[c] = "checkcount"
    /\ IF shm[cobj[c]].object_count = 0
       THEN /\ cpc' = [cpc EXCEPT ![c] = "closed"]
            /\ UNCHANGED handle
       ELSE /\ cpc' = [cpc EXCEPT ![c] = "open"]
            /\ handle' = [handle EXCEPT ![c].object_size = cwant[c],
                                        ![c].object_count = shm[cobj[c]].object_count]
    /\ UNCHANGED <<name, shm, used, producer, cobj, cwant>>

ConsumerClose(c) ==
    /\ cpc[c] = "open"
    /\ cpc' = [cpc EXCEPT ![c] = "closed"]
    /\ handle' = [handle EXCEPT ![c] = NoHandle]
    /\ UNCHANGED <<name, shm, used, producer, cobj, cwant>>

-------------------------------------------------------------------------------
OpenInit ==
    /\ name = None
    /\ shm = [o \in Objects |-> [size |-> 0, head |-> 0, object_size |-> 0, object_count |-> 0]]
    /\ used = 0
    /\ popen = "closed" /\ pobj = None /\ pgeo = <<0, 0>>
    /\ cpc = [c \in Consumers |-> "closed"]
    /\ cobj = [c \in Consumers |-> None]
    /\ cwant = [c \in Consumers |-> 0]
    /\ handle = [c \in Consumers |-> NoHandle]

OpenNext ==
    \/ ProducerShmOpen
    \/ ProducerTruncate
    \/ __megaqueue_prefault_range
    \/ SuperblockHead
    \/ SuperblockSize
    \/ SuperblockCount
    \/ ProducerClose
    \/ \E c \in Consumers :
          \/ ConsumerShmOpen(c)
          \/ ConsumerReadMap(c)
          \/ ConsumerCheckSize(c)
          \/ ConsumerCheckCount(c)
          \/ ConsumerClose(c)

OpenSpec == OpenInit /\ [][OpenNext]_openVars

-------------------------------------------------------------------------------
(* Properties.                                                             *)

Initialised(o) == shm[o].object_count # 0

\* With a producer that always unlinks: a consumer never gets a handle on a
\* queue that is half built.  It relies on object_count being the last store of
\* megaqueue_prepare_superblock and the last thing megaqueue_open looks at.
OpenIsComplete ==
    \A c \in Consumers :
        cpc[c] = "open" =>
            /\ handle[c].object_count = shm[cobj[c]].object_count
            /\ handle[c].object_count # 0
            /\ handle[c].object_size <= shm[cobj[c]].object_size
            /\ shm[cobj[c]].head # Dead

\* megaqueue.c:74: "Do not run on initialized pages."
PrefaultOnFreshPages == popen = "prefault" => ~Initialised(pobj)

\* megaqueue.h:40: region_size is "The size of the full mapped region", which
\* megaqueue.h:38 calls the entire shared memory region: every slot is in it.
RegionCoversQueue ==
    \A c \in Consumers :
        cpc[c] = "open" =>
            handle[c].region_size >= QueueSize(handle[c].object_size, handle[c].object_count)

\* megaqueue.c:216: "Set the object size based on what is in the queue
\* descriptor": slot addresses are multiples of the handle's object_size.
StrideAgrees ==
    \A c \in Consumers :
        cpc[c] = "open" => handle[c].object_size = shm[cobj[c]].object_size

\* megaqueue.c:113: megaqueue_open returns "A_OK on success, an error code
\* otherwise": it returns.
OpenReturns == \A c \in Consumers : cpc[c] # "sigbus"
===============================================================================
