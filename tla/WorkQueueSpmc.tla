----------------------------- MODULE WorkQueueSpmc -----------------------------
(***************************************************************************)
(* A producer and a consumer of the SPMC queue of tsl/work_queue.h that    *)
(* believe the documented results: the producer goes on to the next item   *)
(* on A_OK and tries the same item again otherwise; the consumer accepts   *)
(* what it is given on A_OK unless it is NULL.                             *)
(***************************************************************************)
EXTENDS WorkQueue

CONSTANTS
    max_items,   \* size given to work_queue_spmc_new
    MaxPushed    \* bound: items the producer has to offer

VARIABLES
    fifo,    \* contents of the ring
    next,    \* producer: the item it offers next
    got      \* consumer: the items it accepted

vars == <<fifo, next, got>>

Push ==
    LET result == work_queue_spmc_push(fifo, max_items, next)
    IN  /\ next <= MaxPushed
        /\ fifo' = result.ring
        /\ next' = IF result.ret = "A_OK" THEN next + 1 ELSE next
        /\ UNCHANGED got

\* The consumer's variable is NULL before the call.
Pop ==
    LET result == work_queue_spmc_pop(fifo, NULL)
    IN  /\ fifo' = result.ring
        /\ got' = IF result.ret = "A_OK" /\ result.ptr # NULL
                  THEN Append(got, result.ptr) ELSE got
        /\ UNCHANGED next

Init == fifo = work_queue_new /\ next = 1 /\ got = <<>>

Next == Push \/ Pop

Spec == Init /\ [][Next]_vars

\* work_queue.h:199 and :221 promise A_OK on success and an error code
\* otherwise: then the items accepted and those still queued, oldest first, are
\* exactly the items the producer was told were taken.
SpmcExactlyOnce == got \o fifo = [i \in 1 .. next - 1 |-> i]
===============================================================================
