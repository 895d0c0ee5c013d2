------------------------------- MODULE WorkQueue -------------------------------
(***************************************************************************)
(* tsl/work_queue.h: a bounded FIFO of pointers over ck_ring, in its       *)
(* single-consumer (work_queue) and its multi-consumer (work_queue_spmc)   *)
(* form.  The operations are functions of the ring q and of the size n     *)
(* given to work_queue_new; each gives the ring afterwards, what it        *)
(* returned and, for a pop, what it stored through the caller's pointer.   *)
(*                                                                         *)
(* ck_ring is external: a ring made for n entries holds n - 1, enqueue and *)
(* dequeue take effect at one point, and they answer TRUE when they did    *)
(* something.                                                              *)
(***************************************************************************)
EXTENDS Integers, Sequences

NULL == 0                    \* what a queue holds is numbered from 1

\* work_queue_new wants more than 4 items and a power of two.
Sizes == {n \in Nat : n > 4 /\ \E k \in 0 .. n : n = 2 ^ k}

\* ck_ring keeps one entry free to tell full from empty.
Capacity(n) == n - 1

ck_ring_enqueue(q, n) == Len(q) < Capacity(n)
ck_ring_dequeue(q) == q # <<>>

-------------------------------------------------------------------------------
(* The single-consumer queue.                                              *)

work_queue_new == <<>>

work_queue_push(q, n, ptr) ==
    IF ck_ring_enqueue(q, n)
    THEN [ring |-> Append(q, ptr), ret |-> "A_OK"]
    ELSE [ring |-> q, ret |-> "A_E_BUSY"]

\* A_OK in any case; nothing to pop is told by NULL.
work_queue_pop(q) ==
    IF ck_ring_dequeue(q)
    THEN [ring |-> Tail(q), ptr |-> Head(q), ret |-> "A_OK"]
    ELSE [ring |-> q, ptr |-> NULL, ret |-> "A_OK"]

work_queue_fill(q) == Len(q)

-------------------------------------------------------------------------------
(* The multi-consumer queue: both results are the wrong way round, and an  *)
(* empty queue leaves the caller's pointer as it was.                      *)

work_queue_spmc_push(q, n, message) ==
    IF ck_ring_enqueue(q, n)
    THEN [ring |-> Append(q, message), ret |-> "A_E_BUSY"]
    ELSE [ring |-> q, ret |-> "A_OK"]

work_queue_spmc_pop(q, message) ==
    IF ck_ring_dequeue(q)
    THEN [ring |-> Tail(q), ptr |-> Head(q), ret |-> "A_E_EMPTY"]
    ELSE [ring |-> q, ptr |-> message, ret |-> "A_OK"]
===============================================================================
