--------------------------------- MODULE RBTree ---------------------------------
(***************************************************************************)
(* tsl/rbtree.c and rbtree.h: an intrusive red-black tree of nodes linked  *)
(* by left, right and parent pointers, used by one thread.                 *)
(*                                                                         *)
(* A tree is a record of those pointers, one function each, the set of red *)
(* nodes, the root and the cached rightmost node.  Code that exists twice, *)
(* once for each side, is written once with the side d as a parameter.     *)
(* The colour of a node outside the tree is not kept: every insertion      *)
(* sets it.  Nodes are zeroed before they are inserted the first time, as  *)
(* the library's users do (calloc), and removal leaves their links NULL.   *)
(***************************************************************************)
EXTENDS Integers, Sequences, FiniteSets

CONSTANTS
    Nodes,
    Key,     \* [Nodes -> Int]: the key a node is inserted with
    NULL

ASSUME KeyAssumption == Key \in [Nodes -> Int] /\ NULL \notin Nodes

VARIABLES
    tree,
    inside   \* history: the nodes inserted and not yet removed

vars == <<tree, inside>>

Other(d) == IF d = "left" THEN "right" ELSE "left"

Side(T, p, n) == IF T.left[p] = n THEN "left" ELSE "right"

Red(T, n) == n # NULL /\ n \in T.red

SetParent(T, n, p) == IF n = NULL THEN T ELSE [T EXCEPT !.parent[n] = p]

\* Whatever points down to x, a parent or the root pointer, points to y.
Relink(T, x, y) ==
    LET p == T.parent[x]
    IN  IF p = NULL THEN [T EXCEPT !.root = y] ELSE [T EXCEPT ![Side(T, p, x)][p] = y]

\* __helper_rotate_left and __helper_rotate_right: x sinks to side d.
__helper_rotate(T, x, d) ==
    LET o == Other(d)
        y == T[o][x]
        b == T[d][y]
        t == SetParent([T EXCEPT ![o][x] = b], b, x)
        u == Relink([t EXCEPT !.parent[y] = t.parent[x]], x, y)
    IN  [u EXCEPT ![d][y] = x, !.parent[x] = y]

-------------------------------------------------------------------------------
(* Looking things up.                                                      *)

\* The way from n down to key k: the node found, or NULL and the place where a
\* node with this key belongs.  last tells whether every turn was to the right.
RECURSIVE Search(_, _, _, _)
Search(T, k, n, way) ==
    IF n = NULL THEN [way EXCEPT !.found = NULL]
    ELSE IF k = Key[n] THEN [way EXCEPT !.found = n]
    ELSE LET d == IF k < Key[n] THEN "left" ELSE "right"
         IN  Search(T, k, T[d][n],
                    [way EXCEPT !.at = n, !.dir = d, !.last = @ /\ d = "right"])

SearchRoot(T, k) ==
    Search(T, k, T.root, [found |-> NULL, at |-> NULL, dir |-> "left", last |-> TRUE])

rb_tree_find(T, k) == SearchRoot(T, k).found

\* The last node met when going from n to side d only.
RECURSIVE Outermost(_, _, _)
Outermost(T, n, d) == IF T[d][n] = NULL THEN n ELSE Outermost(T, T[d][n], d)

__rb_tree_find_minimum(T, n) == Outermost(T, n, "left")
__rb_tree_find_maximum(T, n) == Outermost(T, n, "right")

rb_tree_get_rightmost(T) == T.rightmost

\* The first ancestor of n that n is not on side d of.
RECURSIVE ClimbFrom(_, _, _)
ClimbFrom(T, n, d) ==
    LET p == T.parent[n]
    IN  IF p # NULL /\ T[d][p] = n THEN ClimbFrom(T, p, d) ELSE p

rb_tree_find_successor(T, n) ==
    IF T.right[n] # NULL THEN __rb_tree_find_minimum(T, T.right[n]) ELSE ClimbFrom(T, n, "right")

\* Mutant: the predecessor is taken to be the parent.
PredecessorIsParent(T, n) == T.parent[n]

rb_tree_find_predecessor(T, n) ==
    IF T.left[n] # NULL THEN __rb_tree_find_maximum(T, T.left[n]) ELSE ClimbFrom(T, n, "left")

\* The order in which rb_tree_traverse visits the nodes below n.
RECURSIVE __rb_tree_traverse_node(_, _)
__rb_tree_traverse_node(T, n) ==
    IF n = NULL THEN <<>>
    ELSE <<n>> \o __rb_tree_traverse_node(T, T.left[n]) \o __rb_tree_traverse_node(T, T.right[n])

-------------------------------------------------------------------------------
(* Insertion.                                                              *)

__helper_get_grandparent(T, n) == T.parent[T.parent[n]]

__helper_get_uncle(T, n) ==
    LET g == __helper_get_grandparent(T, n) IN T[Other(Side(T, g, T.parent[n]))][g]

\* The loop of __helper_rb_tree_insert_rebalance.
RECURSIVE RebalanceUp(_, _)
RebalanceUp(T, n) ==
    LET p == T.parent[n]
    IN  IF n = T.root \/ ~Red(T, p) THEN T
        ELSE LET g == __helper_get_grandparent(T, n)
                 d == Side(T, g, p)
                 u == __helper_get_uncle(T, n)
             IN  IF Red(T, u)
                 THEN RebalanceUp([T EXCEPT !.red = (@ \ {p, u}) \cup {g}], g)
                 ELSE LET inner == T[Other(d)][p] = n
                          t == IF inner THEN __helper_rotate(T, p, d) ELSE T
                          m == IF inner THEN p ELSE n
                          q == t.parent[m]
                          h == __helper_get_grandparent(t, m)
                          c == [t EXCEPT !.red = (@ \ {q}) \cup {h}]
                      IN  RebalanceUp(__helper_rotate(c, h, Other(d)), m)

__helper_rb_tree_insert_rebalance(T, n) ==
    IF Red(T, T.parent[n])
    THEN LET t == RebalanceUp(T, n) IN [t EXCEPT !.red = @ \ {t.root}]
    ELSE T

\* The tree after n was inserted at the end of way.
Inserted(T, n, way) ==
    IF T.root = NULL
    THEN [T EXCEPT !.root = n, !.rightmost = n, !.red = @ \ {n}]
    ELSE __helper_rb_tree_insert_rebalance(
            [T EXCEPT ![way.dir][way.at] = n,
                      !.parent[n] = way.at,
                      !.red = @ \cup {n},
                      !.rightmost = IF way.last THEN n ELSE @],
            n)

-------------------------------------------------------------------------------
(* Removal.                                                                *)

\* Mutant: the left child stays with the node that goes.
SwapDropsLeft(T, x, y) ==
    LET t == Relink([T EXCEPT !.parent[y] = T.parent[x]], x, y)
        u == SetParent(t, T.right[x], y)
    IN  [u EXCEPT !.right[y] = T.right[x], !.right[x] = NULL, !.parent[x] = NULL,
                  !.red = IF Red(T, x) THEN @ \cup {y} ELSE @ \ {y}]

\* y takes the place, the children and the colour of x.
__helper_rb_tree_swap_node(T, x, y) ==
    LET t == Relink([T EXCEPT !.parent[y] = T.parent[x]], x, y)
        u == SetParent(SetParent(t, T.right[x], y), T.left[x], y)
    IN  [u EXCEPT !.left[y] = T.left[x], !.right[y] = T.right[x],
                  !.left[x] = NULL, !.right[x] = NULL, !.parent[x] = NULL,
                  !.red = IF Red(T, x) THEN @ \cup {y} ELSE @ \ {y}]

\* Mutant: the sibling is not looked at.
NoRebalance(T, x, xp, d) == T

\* x, which may be NULL, is on side d of xp and one black node short.  w is its
\* sibling, once the case of a red one has been turned away.
RECURSIVE __helper_rb_tree_delete_rebalance(_, _, _, _)
__helper_rb_tree_delete_rebalance(T, x, xp, d) ==
    IF x = T.root \/ Red(T, x)
    THEN [T EXCEPT !.red = @ \ {x}]
    ELSE LET o    == Other(d)
             s    == T[o][xp]
             t    == IF Red(T, s)
                     THEN __helper_rotate([T EXCEPT !.red = (@ \ {s}) \cup {xp}], xp, d)
                     ELSE T
             w    == t[o][xp]
             near == IF w = NULL THEN NULL ELSE t[d][w]
             far  == IF w = NULL THEN NULL ELSE t[o][w]
         IN  IF ~Red(t, near) /\ ~Red(t, far)
             THEN LET p == t.parent[xp]
                  IN  __helper_rb_tree_delete_rebalance(
                        [t EXCEPT !.red = @ \cup ({w} \ {NULL})], xp, p,
                        IF p = NULL THEN "right" ELSE Side(t, p, xp))
             ELSE LET u == IF Red(t, far) THEN t
                           ELSE __helper_rotate([t EXCEPT !.red = (@ \cup {w}) \ {near}], w, o)
                      v == u[o][xp]
                      f == u[o][v]
                      c == [u EXCEPT !.red = (IF Red(u, xp) THEN @ \cup {v} ELSE @ \ {v})
                                                 \ {xp, f}]
                      r == IF f = NULL THEN c ELSE __helper_rotate(c, xp, d)
                  IN  [r EXCEPT !.red = @ \ {r.root}]

\* The tree after n was removed.  y is the node that is unlinked, n or its
\* successor, which then takes n's place; x is y's only child.
Removed(T, n) ==
    LET y     == IF T.left[n] = NULL \/ T.right[n] = NULL
                 THEN n ELSE rb_tree_find_successor(T, n)
        x     == IF T.left[y] # NULL THEN T.left[y] ELSE T.right[y]
        yp    == T.parent[y]
        d     == IF yp = NULL THEN "right" ELSE Side(T, yp, y)
        right == IF y = n /\ n = T.rightmost
                 THEN rb_tree_find_predecessor(T, n) ELSE T.rightmost
        t     == Relink(SetParent([T EXCEPT !.rightmost = right], x, yp), y, x)
        u     == IF y = n THEN t ELSE __helper_rb_tree_swap_node(t, n, y)
        xp    == IF y # n /\ yp = n THEN y ELSE yp
        v     == IF Red(T, y) THEN u
                 ELSE __helper_rb_tree_delete_rebalance(u, x, xp, d)
    IN  [v EXCEPT !.parent[n] = NULL, !.left[n] = NULL, !.right[n] = NULL, !.red = @ \ {n}]

-------------------------------------------------------------------------------
\* A_E_BUSY, when the key is in the tree, changes nothing.
rb_tree_insert(n) ==
    LET way == SearchRoot(tree, Key[n]) IN
    /\ n \notin inside
    /\ way.found = NULL
    /\ tree' = Inserted(tree, n, way)
    /\ inside' = inside \cup {n}

\* The same with a candidate that is only used when the key is not in the tree.
rb_tree_find_or_insert(n) ==
    LET way == SearchRoot(tree, Key[n]) IN
    /\ n \notin inside
    /\ IF way.found = NULL
       THEN /\ tree' = Inserted(tree, n, way)
            /\ inside' = inside \cup {n}
       ELSE UNCHANGED vars

rb_tree_remove(n) ==
    /\ n \in inside
    /\ tree' = Removed(tree, n)
    /\ inside' = inside \ {n}

\* rb_tree_new_ex leaves rightmost as it was; the struct was zeroed.
rb_tree_new_ex ==
    LET Unlinked == [n \in Nodes |-> NULL]
    IN  [left |-> Unlinked, right |-> Unlinked, parent |-> Unlinked,
         red |-> {}, root |-> NULL, rightmost |-> NULL]

Init == tree = rb_tree_new_ex /\ inside = {}

Next == \E n \in Nodes : rb_tree_insert(n) \/ rb_tree_find_or_insert(n) \/ rb_tree_remove(n)

Spec == Init /\ [][Next]_vars

-------------------------------------------------------------------------------
(* Properties.                                                             *)

\* The nodes below n satisfy the red-black rules, with this many black nodes on
\* every way down; -1 when they do not.
RECURSIVE BlackHeight(_)
BlackHeight(n) ==
    IF n = NULL THEN 0
    ELSE LET l == BlackHeight(tree.left[n])
             r == BlackHeight(tree.right[n])
             black == ~Red(tree, n)
         IN  IF \/ l # r
                \/ l = -1
                \/ ~black /\ (Red(tree, tree.left[n]) \/ Red(tree, tree.right[n]))
             THEN -1
             ELSE IF black THEN l + 1 ELSE l

\* After every sequence of insertions and removals the root is black, no red
\* node has a red child and every way down has as many black nodes: lookups take
\* logarithmic time.
RedBlack == ~Red(tree, tree.root) /\ BlackHeight(tree.root) # -1

\* Every node inside is found under its key and no other is, and
\* rb_tree_traverse calls back once for each: no rotation loses a subtree.
FindsAll ==
    /\ \A n \in Nodes :
          rb_tree_find(tree, Key[n]) =
              IF \E m \in inside : Key[m] = Key[n]
              THEN CHOOSE m \in inside : Key[m] = Key[n]
              ELSE NULL
    /\ LET visited == __rb_tree_traverse_node(tree, tree.root)
       IN  /\ Len(visited) = Cardinality(inside)
           /\ {visited[i] : i \in DOMAIN visited} = inside

\* The node of S with the least (sign = 1) or greatest (sign = -1) key, or NULL.
Extreme(S, sign) ==
    IF S = {} THEN NULL ELSE CHOOSE n \in S : \A m \in S : sign * Key[n] <= sign * Key[m]

\* Walking the tree by successors or by predecessors meets the nodes in the order
\* of their keys, and the cached rightmost node is the one with the greatest:
\* parent pointers and cache survive rotations, swaps and removals.
NeighboursInOrder ==
    /\ \A n \in inside :
          /\ rb_tree_find_successor(tree, n) = Extreme({m \in inside : Key[m] > Key[n]}, 1)
          /\ rb_tree_find_predecessor(tree, n) = Extreme({m \in inside : Key[m] < Key[n]}, -1)
    /\ rb_tree_get_rightmost(tree) = Extreme(inside, -1)
===============================================================================
