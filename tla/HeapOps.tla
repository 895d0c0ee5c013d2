-------------------------------- MODULE HeapOps --------------------------------
(***************************************************************************)
(* The algorithms of tsl/fixed_heap.h on an array h, a function on         *)
(* 0 .. capacity - 1, of which the first n entries are in use.  cmp is the *)
(* heap's comparison function: cmp[x][y] is negative, zero or positive,    *)
(* and the entry that compares greatest belongs at the root.               *)
(***************************************************************************)
EXTENDS Integers

CONSTANT NULL   \* what a place without an item holds

FIXED_HEAP_PARENT(i) == (i - 1) \div 2
FIXED_HEAP_LEFT(i)   == 2 * i + 1
FIXED_HEAP_RIGHT(i)  == 2 * i + 2

__fixed_heap_swap(h, a, b) == [h EXCEPT ![a] = h[b], ![b] = h[a]]

\* Mutant: the new entry stays where it is.
LeftThere(h, i, cmp) == h

\* The arrays that swaps make of h.
Arrays(h) == [DOMAIN h -> {h[i] : i \in DOMAIN h}]

\* The loop of __fixed_heap_insert: entry i rises as long as it beats its parent.
SiftUp(h, i, cmp) ==
    LET sift[j \in DOMAIN h] ==
            LET p == FIXED_HEAP_PARENT(j) IN
            [g \in Arrays(h) |->
                IF j > 0 /\ cmp[g[p]][g[j]] < 0
                THEN sift[p][__fixed_heap_swap(g, j, p)]
                ELSE g]
    IN  sift[i][h]

__fixed_heap_insert(h, x, i, cmp) == SiftUp([h EXCEPT ![i] = x], i, cmp)

\* Mutant: the right child is compared with the parent only.
LargestWithoutRight(h, n, i, cmp) ==
    LET l == FIXED_HEAP_LEFT(i)
        r == FIXED_HEAP_RIGHT(i)
    IN  IF l < n /\ cmp[h[l]][h[i]] > 0 THEN l
        ELSE IF r < n /\ cmp[h[r]][h[i]] > 0 THEN r ELSE i

\* The index of the greatest of entry i and its children.
Largest(h, n, i, cmp) ==
    LET l == FIXED_HEAP_LEFT(i)
        r == FIXED_HEAP_RIGHT(i)
        m == IF l < n /\ cmp[h[l]][h[i]] > 0 THEN l ELSE i
    IN  IF r < n /\ cmp[h[r]][h[m]] > 0 THEN r ELSE m

\* Entry i sinks as long as one of its children beats it.
__fixed_heap_heapify(h, n, i, cmp) ==
    LET sift[j \in DOMAIN h] ==
            [g \in Arrays(h) |->
                LET m == Largest(g, n, j, cmp) IN
                IF m # j THEN sift[m][__fixed_heap_swap(g, j, m)] ELSE g]
    IN  sift[i][h]

\* fixed_heap_pop without its root, which the caller has read.
PopRoot(h, n, cmp) ==
    __fixed_heap_heapify([[h EXCEPT ![0] = h[n - 1]] EXCEPT ![n - 1] = NULL],
                         n - 1, 0, cmp)

\* The heap property, as the test suite's test_heap_assert states it.
IsHeap(h, n, cmp) ==
    \A i \in 0 .. n - 1 :
        \A c \in {FIXED_HEAP_LEFT(i), FIXED_HEAP_RIGHT(i)} :
            c < n => cmp[h[i]][h[c]] >= 0
===============================================================================
