------------------------------- MODULE FixedHeap -------------------------------
(***************************************************************************)
(* tsl/fixed_heap.c and fixed_heap.h: a heap of pointers in an array of    *)
(* fixed capacity, used by one thread.  Items are pointers; the comparison *)
(* function orders them by Key, greatest first.                            *)
(***************************************************************************)
EXTENDS HeapOps, FiniteSets

CONSTANTS
    Items,
    Key,         \* [Items -> Int]
    max_items,   \* capacity given to fixed_heap_new
    Sizes        \* capacities fixed_heap_resize may be called with

ASSUME KeyAssumption == Key \in [Items -> Int]
ASSUME SizesAssumption == max_items \in Nat \ {0} /\ Sizes \subseteq Nat
ASSUME NullAssumption == NULL \notin Items

VARIABLES
    heap,      \* heap->heap
    capacity,  \* heap->capacity
    entries,   \* heap->entries
    buffer,    \* what heap->heap points to: live, or freed memory
    inside,    \* history: the items pushed and not yet popped or removed
    removed    \* history: fixed_heap_remove_item has taken out an item

heapVars == <<heap, capacity, entries, buffer, inside, removed>>

compare == [x \in Items |-> [y \in Items |-> Key[x] - Key[y]]]

-------------------------------------------------------------------------------
\* A_E_NOSPC when the heap is full changes nothing.
fixed_heap_push(x) ==
    /\ buffer = "live"
    /\ x \notin inside
    /\ entries < capacity
    /\ heap' = __fixed_heap_insert(heap, x, entries, compare)
    /\ entries' = entries + 1
    /\ inside' = inside \cup {x}
    /\ UNCHANGED <<capacity, buffer, removed>>

fixed_heap_pop ==
    /\ buffer = "live"
    /\ entries > 0
    /\ heap' = PopRoot(heap, entries, compare)
    /\ entries' = entries - 1
    /\ inside' = inside \ {heap[0]}
    /\ UNCHANGED <<capacity, buffer, removed>>

\* Mutant: the last entry is dropped instead of the one that was found.
RemoveDropsLast(x) ==
    /\ buffer = "live"
    /\ x \in inside
    /\ entries' = entries - 1
    /\ inside' = inside \ {x}
    /\ removed' = TRUE
    /\ UNCHANGED <<heap, capacity, buffer>>

\* The last entry takes the place of the item and sinks from there; it never
\* rises.  The array keeps a second copy of it beyond the end.  A_E_NOTFOUND
\* changes nothing.
fixed_heap_remove_item(x) ==
    /\ buffer = "live"
    /\ \E i \in 0 .. entries - 1 :
          /\ heap[i] = x
          /\ \A j \in 0 .. i - 1 : heap[j] # x
          /\ heap' = __fixed_heap_heapify([heap EXCEPT ![i] = heap[entries - 1]],
                                          entries - 1, i, compare)
    /\ entries' = entries - 1
    /\ inside' = inside \ {x}
    /\ removed' = TRUE
    /\ UNCHANGED <<capacity, buffer>>

\* TSL_ASSERT_ARG of fixed_heap_resize.
ResizeAllowed(n) == n >= entries

\* realloc to zero bytes frees the array and returns NULL, which is taken for a
\* failed allocation: capacity and pointer stay as they are.
fixed_heap_resize(n) ==
    /\ buffer = "live"
    /\ ResizeAllowed(n)
    /\ IF n = 0
       THEN /\ buffer' = "freed"
            /\ UNCHANGED <<heap, capacity>>
       ELSE /\ capacity' = n
            /\ heap' = [i \in 0 .. n - 1 |-> IF i < capacity THEN heap[i] ELSE NULL]
            /\ UNCHANGED buffer
    /\ UNCHANGED <<entries, inside, removed>>

\* fixed_heap_delete, and fixed_heap_new of the next heap.
fixed_heap_delete ==
    /\ buffer = "live"
    /\ heap' = [i \in 0 .. max_items - 1 |-> NULL]
    /\ capacity' = max_items
    /\ entries' = 0
    /\ inside' = {}
    /\ removed' = FALSE
    /\ UNCHANGED buffer

-------------------------------------------------------------------------------
\* fixed_heap_new.
HeapInit ==
    /\ heap = [i \in 0 .. max_items - 1 |-> NULL]
    /\ capacity = max_items
    /\ entries = 0
    /\ buffer = "live"
    /\ inside = {}
    /\ removed = FALSE

HeapNext ==
    \/ \E x \in Items : fixed_heap_push(x) \/ fixed_heap_remove_item(x)
    \/ fixed_heap_pop
    \/ \E n \in Sizes : fixed_heap_resize(n)
    \/ fixed_heap_delete

HeapSpec == HeapInit /\ [][HeapNext]_heapVars

-------------------------------------------------------------------------------
(* Properties.                                                             *)

\* The first entries places of the array hold every item inside, each once: no
\* swap, resize or removal loses an item or leaves one twice.
NothingLost ==
    /\ {heap[i] : i \in 0 .. entries - 1} = inside
    /\ Cardinality(inside) = entries

\* As long as fixed_heap_remove_item is not used the array is a heap after every
\* push, pop and resize: what fixed_heap_pop and fixed_heap_peek_head give is an
\* item none of those inside beats, ties included.
HeapOrdered == ~removed => IsHeap(heap, entries, compare)

\* fixed_heap.h:265-267: fixed_heap_remove_item takes the last item and sifts it
\* "appropriately": the heap is still a heap.
RemoveKeepsHeap == IsHeap(heap, entries, compare)

\* fixed_heap.h: "If the memory allocation fails, the heap remains untouched."
ResizeKeepsBuffer == buffer = "live"
===============================================================================
