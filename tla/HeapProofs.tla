------------------------------- MODULE HeapProofs -------------------------------
(***************************************************************************)
(* Proofs about the algorithms of HeapOps and the two specifications built *)
(* on them, for any capacity, any items and any number of calls: first     *)
(* what the two sifting loops compute, then TimerManager, then FixedHeap.  *)
(*                                                                         *)
(* The loops are recursive functions.  That such a function exists, and    *)
(* what it returns, is proved by induction over sets of natural numbers.   *)
(***************************************************************************)
EXTENDS TimerManager, FixedHeap, FiniteSetTheorems, WellFoundedInduction, TLAPS

-------------------------------------------------------------------------------
(* Induction.                                                              *)

\* Induction over a set of natural numbers, from the least one it does not hold.
LEMMA NatSet ==
    ASSUME NEW T, 0 \in T, \A n \in Nat : n \in T => n + 1 \in T
    PROVE  Nat \subseteq T
<1> SUFFICES ASSUME Nat \ T # {} PROVE FALSE
  OBVIOUS
<1>1. IsWellFoundedOn(OpToRel(<, Nat), Nat)
  BY NatLessThanWellFounded
<1>2. PICK n \in Nat \ T : \A m \in Nat \ T : ~(<<m, n>> \in OpToRel(<, Nat))
  BY <1>1, WFMin
<1>3. \A m \in Nat \ T : ~(m < n)
  BY <1>2 DEF OpToRel
<1>4. n # 0 /\ n - 1 \in Nat
  OBVIOUS
<1>5. n - 1 \in T
  BY <1>3, <1>4
<1> QED
  BY <1>4, <1>5

\* Both sifting loops: from place j and array g the loop goes on where g is in
\* go[j], at place at[j][g] with the array to[j][g], and otherwise returns g.
Loop(D, A, go, at, to, f) ==
    [j \in D |-> [g \in A |-> IF g \in go[j] THEN f[at[j][g]][to[j][g]] ELSE g]]

\* What one round of the loop does.
LEMMA LoopRound ==
    ASSUME NEW D, NEW A, NEW go, NEW at, NEW to, NEW f, f = Loop(D, A, go, at, to, f),
           NEW j \in D, NEW g \in A
    PROVE  f[j][g] = IF g \in go[j] THEN f[at[j][g]][to[j][g]] ELSE g
<1> DEFINE round == IF g \in go[j] THEN f[at[j][g]][to[j][g]] ELSE g
           L == Loop(D, A, go, at, to, f)
<1>1. L[j][g] = round
  BY Zenon DEF Loop
<1>2. f = L
  OBVIOUS
<1> HIDE DEF L, round
<1>3. f[j][g] = round
  BY <1>1, <1>2, ZenonT(30)
<1> QED
  BY <1>3 DEF round

\* Each round brings the loop nearer to its end, rank by rank.
Terminates(D, A, go, at, to, rank, bound) ==
    /\ bound \in Nat
    /\ \A j \in D : rank[j] \in Nat /\ rank[j] < bound
    /\ \A j \in D : \A g \in A :
          g \in go[j] => /\ at[j][g] \in D
                         /\ to[j][g] \in A
                         /\ rank[at[j][g]] < rank[j]

\* The recursive function is well defined: step by step it is defined for one
\* rank more.
LEMMA LoopExists ==
    ASSUME NEW D, NEW A, NEW go, NEW at, NEW to, NEW rank, NEW bound,
           Terminates(D, A, go, at, to, rank, bound)
    PROVE  \E f : f = Loop(D, A, go, at, to, f)
<1> DEFINE L(f) == Loop(D, A, go, at, to, f)
           Up(f, n) == \A j \in D : rank[j] < n => f[j] = L(f)[j]
           T == {n \in Nat : \E f : f = [j \in D |-> f[j]] /\ Up(f, n)}
<1>1. 0 \in T
  <2> DEFINE f == [j \in D |-> 0]
  <2>1. f = [j \in D |-> f[j]] /\ Up(f, 0)
    BY DEF Terminates
  <2> QED
    BY <2>1
<1>2. ASSUME NEW n \in Nat, n \in T PROVE n + 1 \in T
  <2>1. PICK f : Up(f, n)
    BY <1>2
  <2> DEFINE e == L(f)
  <2>2. e = [j \in D |-> e[j]]
    BY DEF Loop
  <2>3. \A j \in D : rank[j] < n => e[j] = f[j]
    BY <2>1
  <2>4. ASSUME NEW j \in D, rank[j] < n + 1 PROVE e[j] = L(e)[j]
    <3>1. \A g \in A : g \in go[j] => e[at[j][g]] = f[at[j][g]]
      <4> SUFFICES ASSUME NEW g \in A, g \in go[j] PROVE e[at[j][g]] = f[at[j][g]]
        OBVIOUS
      <4>1. at[j][g] \in D /\ rank[at[j][g]] \in Nat /\ rank[j] \in Nat /\ rank[at[j][g]] < rank[j]
        BY DEF Terminates
      <4> HIDE DEF e
      <4> QED
        BY <4>1, <2>3, <2>4
    <3>2. e[j] = [g \in A |-> IF g \in go[j] THEN f[at[j][g]][to[j][g]] ELSE g]
      BY DEF Loop
    <3>3. L(e)[j] = [g \in A |-> IF g \in go[j] THEN e[at[j][g]][to[j][g]] ELSE g]
      BY DEF Loop
    <3> HIDE DEF e
    <3> QED
      BY <3>1, <3>2, <3>3
  <2>5. Up(e, n + 1)
    BY <2>4
  <2> HIDE DEF e
  <2> QED
    BY <2>2, <2>5
<1>3. bound \in T
  <2> HIDE DEF T
  <2>1. Nat \subseteq T
    BY <1>1, <1>2, NatSet
  <2> QED
    BY <2>1 DEF Terminates
<1>4. PICK f : f = [j \in D |-> f[j]] /\ Up(f, bound)
  BY <1>3
<1>5. \A j \in D : f[j] = L(f)[j]
  BY <1>4 DEF Terminates
<1>6. L(f) = [j \in D |-> L(f)[j]]
  BY DEF Loop
<1>7. f = L(f)
  BY <1>4, <1>5, <1>6
<1> QED
  BY <1>7

\* Good holds where the loop ends, and before a round if it holds after it.
Inductive(D, A, go, at, to, Good) ==
    /\ \A j \in D : \A g \in A : g \notin go[j] => g \in Good[j]
    /\ \A j \in D : \A g \in A :
          g \in go[j] /\ to[j][g] \in Good[at[j][g]] => g \in Good[j]

\* Then it holds wherever the loop starts.
LEMMA LoopInduction ==
    ASSUME NEW D, NEW A, NEW go, NEW at, NEW to, NEW rank, NEW bound,
           Terminates(D, A, go, at, to, rank, bound),
           NEW Good, Inductive(D, A, go, at, to, Good)
    PROVE  \A j \in D : \A g \in A : g \in Good[j]
<1> DEFINE T == {n \in Nat : \A j \in D : rank[j] < n => \A g \in A : g \in Good[j]}
<1>1. 0 \in T
  BY DEF Terminates
<1>2. ASSUME NEW n \in Nat, n \in T PROVE n + 1 \in T
  <2> SUFFICES ASSUME NEW j \in D, rank[j] < n + 1, NEW g \in A PROVE g \in Good[j]
    OBVIOUS
  <2>1. CASE g \in go[j]
    <3>1. at[j][g] \in D /\ to[j][g] \in A /\ rank[at[j][g]] < n
      BY <2>1 DEF Terminates
    <3> QED
      BY <2>1, <3>1, <1>2 DEF Inductive
  <2> QED
    BY <2>1 DEF Inductive
<1>3. bound \in T
  <2> HIDE DEF T
  <2>1. Nat \subseteq T
    BY <1>1, <1>2, NatSet
  <2> QED
    BY <2>1 DEF Terminates
<1> QED
  BY <1>3 DEF Terminates

-------------------------------------------------------------------------------
(* Arrays.                                                                 *)

\* The array e holds what the array g holds, moved about below n.
Permuted(g, e, n) ==
    /\ \A k \in DOMAIN g : k >= n => e[k] = g[k]
    /\ {e[k] : k \in 0 .. n - 1} = {g[k] : k \in 0 .. n - 1}
    /\ (\A k, l \in 0 .. n - 1 : g[k] = g[l] => k = l) =>
          (\A k, l \in 0 .. n - 1 : e[k] = e[l] => k = l)

LEMMA PermutedTwice ==
    ASSUME NEW g, NEW e, NEW d, NEW n, DOMAIN e = DOMAIN g,
           Permuted(g, e, n), Permuted(e, d, n)
    PROVE  Permuted(g, d, n)
BY DEF Permuted

LEMMA Swapped ==
    ASSUME NEW cap \in Nat, NEW V, NEW g \in [0 .. cap - 1 -> V],
           NEW a \in 0 .. cap - 1, NEW b \in 0 .. cap - 1, a # b
    PROVE  /\ __fixed_heap_swap(g, a, b) \in [0 .. cap - 1 -> V]
           /\ \A k \in 0 .. cap - 1 : __fixed_heap_swap(g, a, b)[k] =
                 IF k = a THEN g[b] ELSE IF k = b THEN g[a] ELSE g[k]
BY DEF __fixed_heap_swap

LEMMA SwapPermutes ==
    ASSUME NEW cap \in Nat, NEW V, NEW g \in [0 .. cap - 1 -> V],
           NEW n \in 0 .. cap, NEW a \in 0 .. n - 1, NEW b \in 0 .. n - 1, a # b
    PROVE  Permuted(g, __fixed_heap_swap(g, a, b), n)
<1> DEFINE e == __fixed_heap_swap(g, a, b)
<1>0. a \in 0 .. cap - 1 /\ b \in 0 .. cap - 1
  OBVIOUS
<1>1. \A k \in 0 .. cap - 1 : e[k] = IF k = a THEN g[b] ELSE IF k = b THEN g[a] ELSE g[k]
  BY <1>0 DEF __fixed_heap_swap
<1> HIDE DEF e
<1>2. \A k \in DOMAIN g : k >= n => e[k] = g[k]
  BY <1>1
<1>3. \A x : x \in {e[k] : k \in 0 .. n - 1} <=> x \in {g[k] : k \in 0 .. n - 1}
  <2> TAKE x
  <2>1. ASSUME NEW k \in 0 .. n - 1, x = e[k] PROVE \E l \in 0 .. n - 1 : x = g[l]
    BY <1>1, <2>1
  <2>2. ASSUME NEW k \in 0 .. n - 1, x = g[k] PROVE \E l \in 0 .. n - 1 : x = e[l]
    <3>1. e[a] = g[b] /\ e[b] = g[a] /\ (k # a /\ k # b => e[k] = g[k])
      BY <1>1
    <3> QED
      BY <2>2, <3>1
  <2> QED
    BY <2>1, <2>2
<1>4. ASSUME \A k, l \in 0 .. n - 1 : g[k] = g[l] => k = l,
             NEW k \in 0 .. n - 1, NEW l \in 0 .. n - 1, e[k] = e[l]
      PROVE  k = l
  BY <1>1, <1>4
<1>5. {e[k] : k \in 0 .. n - 1} = {g[k] : k \in 0 .. n - 1}
  BY <1>3
<1> QED
  BY <1>2, <1>4, <1>5 DEF Permuted, e

LEMMA Parents ==
    ASSUME NEW j \in Nat, j # 0
    PROVE  /\ FIXED_HEAP_PARENT(j) \in Nat
           /\ FIXED_HEAP_PARENT(j) < j
           /\ \/ j = FIXED_HEAP_LEFT(FIXED_HEAP_PARENT(j))
              \/ j = FIXED_HEAP_RIGHT(FIXED_HEAP_PARENT(j))
BY DEF FIXED_HEAP_PARENT, FIXED_HEAP_LEFT, FIXED_HEAP_RIGHT

LEMMA Children ==
    ASSUME NEW j \in Nat
    PROVE  /\ FIXED_HEAP_LEFT(j) \in Nat /\ FIXED_HEAP_RIGHT(j) \in Nat
           /\ FIXED_HEAP_LEFT(j) > j /\ FIXED_HEAP_RIGHT(j) > j
           /\ FIXED_HEAP_RIGHT(j) = FIXED_HEAP_LEFT(j) + 1
           /\ FIXED_HEAP_PARENT(FIXED_HEAP_LEFT(j)) = j
           /\ FIXED_HEAP_PARENT(FIXED_HEAP_RIGHT(j)) = j
BY DEF FIXED_HEAP_PARENT, FIXED_HEAP_LEFT, FIXED_HEAP_RIGHT

-------------------------------------------------------------------------------
(* The order.                                                              *)

\* cmp orders the items by their key.
OrdersBy(cmp, S, key) ==
    /\ key \in [S -> Int]
    /\ \A x, y \in S : /\ cmp[x][y] \in Int
                       /\ cmp[x][y] < 0 <=> key[x] < key[y]
                       /\ cmp[x][y] > 0 <=> key[x] > key[y]

\* No entry's key is greater than its parent's.
Ordered(g, n, key) ==
    \A i \in 1 .. n - 1 : key[g[FIXED_HEAP_PARENT(i)]] >= key[g[i]]

\* IsHeap, which looks down from the parents, says the same.
LEMMA OrderedIsHeap ==
    ASSUME NEW n \in Nat, NEW S, NEW key, NEW cmp, OrdersBy(cmp, S, key),
           NEW g, \A k \in 0 .. n - 1 : g[k] \in S
    PROVE  IsHeap(g, n, cmp) <=> Ordered(g, n, key)
<1>1. ASSUME IsHeap(g, n, cmp), NEW i \in 1 .. n - 1
      PROVE  key[g[FIXED_HEAP_PARENT(i)]] >= key[g[i]]
  <2> DEFINE p == FIXED_HEAP_PARENT(i)
  <2>1. p \in 0 .. n - 1 /\ i \in {FIXED_HEAP_LEFT(p), FIXED_HEAP_RIGHT(p)} /\ i < n
    BY Parents
  <2> HIDE DEF p
  <2>2. cmp[g[p]][g[i]] >= 0
    BY <1>1, <2>1 DEF IsHeap
  <2>3. g[p] \in S /\ g[i] \in S
    BY <2>1
  <2>4. key[g[p]] >= key[g[i]]
    BY <2>2, <2>3 DEF OrdersBy
  <2> QED
    BY <2>4 DEF p
<1>2. ASSUME Ordered(g, n, key), NEW i \in 0 .. n - 1,
             NEW c \in {FIXED_HEAP_LEFT(i), FIXED_HEAP_RIGHT(i)}, c < n
      PROVE  cmp[g[i]][g[c]] >= 0
  <2>1. c \in 1 .. n - 1 /\ FIXED_HEAP_PARENT(c) = i
    BY <1>2, Children
  <2>2. key[g[i]] >= key[g[c]]
    BY <1>2, <2>1 DEF Ordered
  <2>3. g[i] \in S /\ g[c] \in S
    BY <2>1
  <2> QED
    BY <2>2, <2>3 DEF OrdersBy
<1>3. IsHeap(g, n, cmp) => Ordered(g, n, key)
  BY <1>1 DEF Ordered
<1>4. Ordered(g, n, key) => IsHeap(g, n, cmp)
  BY <1>2 DEF IsHeap
<1> QED
  BY <1>3, <1>4

\* The root is the greatest.
LEMMA RootGreatest ==
    ASSUME NEW n \in Nat, NEW S, NEW key \in [S -> Int],
           NEW g, \A k \in 0 .. n - 1 : g[k] \in S, Ordered(g, n, key)
    PROVE  \A k \in 0 .. n - 1 : key[g[0]] >= key[g[k]]
<1> DEFINE T == {m \in Nat : \A k \in 0 .. n - 1 : k < m => key[g[0]] >= key[g[k]]}
<1>1. 0 \in T
  OBVIOUS
<1>2. ASSUME NEW m \in Nat, m \in T PROVE m + 1 \in T
  <2> SUFFICES ASSUME NEW k \in 0 .. n - 1, k < m + 1 PROVE key[g[0]] >= key[g[k]]
    OBVIOUS
  <2>1. CASE k = 0
    BY <2>1
  <2>2. CASE k # 0
    <3> DEFINE p == FIXED_HEAP_PARENT(k)
    <3>1. p \in 0 .. n - 1 /\ p < m
      BY <2>2, Parents
    <3>2. key[g[p]] >= key[g[k]]
      BY <2>2 DEF Ordered
    <3> HIDE DEF p
    <3>3. key[g[0]] >= key[g[p]]
      BY <1>2, <3>1
    <3>4. key[g[0]] \in Int /\ key[g[p]] \in Int /\ key[g[k]] \in Int
      BY <3>1
    <3> QED
      BY <3>2, <3>3, <3>4
  <2> QED
    BY <2>1, <2>2
<1>3. n \in T
  <2> HIDE DEF T
  <2> QED
    BY <1>1, <1>2, NatSet
<1> QED
  BY <1>3

-------------------------------------------------------------------------------
(* Rising.                                                                 *)

UpGo(h, cmp) ==
    [j \in DOMAIN h |->
        {g \in Arrays(h) : j > 0 /\ cmp[g[FIXED_HEAP_PARENT(j)]][g[j]] < 0}]
UpAt(h) == [j \in DOMAIN h |-> [g \in Arrays(h) |-> FIXED_HEAP_PARENT(j)]]
UpTo(h) ==
    [j \in DOMAIN h |->
        [g \in Arrays(h) |-> __fixed_heap_swap(g, j, FIXED_HEAP_PARENT(j))]]
UpLoop(h, cmp, f) == Loop(DOMAIN h, Arrays(h), UpGo(h, cmp), UpAt(h), UpTo(h), f)

\* The places an entry rises through have smaller and smaller indices.
LEMMA UpTerminates ==
    ASSUME NEW cap \in Nat, NEW V, NEW h \in [0 .. cap - 1 -> V], NEW cmp
    PROVE  Terminates(DOMAIN h, Arrays(h), UpGo(h, cmp), UpAt(h), UpTo(h),
                      [j \in DOMAIN h |-> j], cap)
<1> DEFINE R == {h[k] : k \in DOMAIN h}
<1>1. DOMAIN h = 0 .. cap - 1 /\ Arrays(h) = [0 .. cap - 1 -> R]
  BY DEF Arrays
<1> HIDE DEF R
<1>2. ASSUME NEW j \in DOMAIN h, NEW g \in Arrays(h), g \in UpGo(h, cmp)[j]
      PROVE  /\ UpAt(h)[j][g] \in DOMAIN h
             /\ UpTo(h)[j][g] \in Arrays(h)
             /\ UpAt(h)[j][g] < j
  <2> DEFINE p == FIXED_HEAP_PARENT(j)
  <2>1. j > 0 /\ j \in 0 .. cap - 1
    BY <1>1, <1>2 DEF UpGo
  <2>2. p \in 0 .. cap - 1 /\ p < j /\ p # j
    BY <2>1, Parents
  <2>3. __fixed_heap_swap(g, j, p) \in [0 .. cap - 1 -> R]
    <3> HIDE DEF p
    <3> QED
      BY <1>1, <2>1, <2>2, Swapped
  <2>4. UpAt(h)[j][g] = p /\ UpTo(h)[j][g] = __fixed_heap_swap(g, j, p)
    BY DEF UpAt, UpTo
  <2> HIDE DEF p
  <2> QED
    BY <1>1, <2>2, <2>3, <2>4
<1> QED
  BY <1>1, <1>2 DEF Terminates

LEMMA SiftUpIsLoop ==
    ASSUME NEW cap \in Nat, NEW V, NEW h \in [0 .. cap - 1 -> V], NEW i, NEW cmp
    PROVE  \E f : f = UpLoop(h, cmp, f) /\ SiftUp(h, i, cmp) = f[i][h]
<1> DEFINE U(f) == [j \in DOMAIN h |-> [g \in Arrays(h) |->
                       IF j > 0 /\ cmp[g[FIXED_HEAP_PARENT(j)]][g[j]] < 0
                       THEN f[FIXED_HEAP_PARENT(j)][__fixed_heap_swap(g, j, FIXED_HEAP_PARENT(j))]
                       ELSE g]]
           s == CHOOSE f : f = U(f)
<1>1. SiftUp(h, i, cmp) = s[i][h]
  BY DEF SiftUp
<1>2. \A f : U(f) = UpLoop(h, cmp, f)
  <2> TAKE f
  <2>1. \A j \in DOMAIN h : UpLoop(h, cmp, f)[j] = U(f)[j]
    <3> TAKE j \in DOMAIN h
    <3>1. UpLoop(h, cmp, f)[j] =
            [g \in Arrays(h) |-> IF g \in UpGo(h, cmp)[j] THEN f[UpAt(h)[j][g]][UpTo(h)[j][g]] ELSE g]
      BY DEF UpLoop, Loop
    <3>2. \A g \in Arrays(h) :
             /\ g \in UpGo(h, cmp)[j] <=> j > 0 /\ cmp[g[FIXED_HEAP_PARENT(j)]][g[j]] < 0
             /\ UpAt(h)[j][g] = FIXED_HEAP_PARENT(j)
             /\ UpTo(h)[j][g] = __fixed_heap_swap(g, j, FIXED_HEAP_PARENT(j))
      BY DEF UpGo, UpAt, UpTo
    <3> QED
      BY <3>1, <3>2
  <2>2. UpLoop(h, cmp, f) = [j \in DOMAIN h |-> UpLoop(h, cmp, f)[j]]
    BY DEF UpLoop, Loop
  <2>3. U(f) = [j \in DOMAIN h |-> U(f)[j]]
    OBVIOUS
  <2> HIDE DEF U
  <2> QED
    BY <2>1, <2>2, <2>3
<1>3. \E f : f = UpLoop(h, cmp, f)
  <2>1. Terminates(DOMAIN h, Arrays(h), UpGo(h, cmp), UpAt(h), UpTo(h),
                   [j \in DOMAIN h |-> j], cap)
    BY UpTerminates
  <2>2. \E f : f = Loop(DOMAIN h, Arrays(h), UpGo(h, cmp), UpAt(h), UpTo(h), f)
    BY <2>1, LoopExists
  <2> QED
    BY <2>2 DEF UpLoop
<1> HIDE DEF U
<1>4. s = U(s)
  BY <1>2, <1>3
<1> HIDE DEF s
<1> QED
  BY <1>1, <1>2, <1>4

\* An entry that rises is swapped with the ones on its way, and nothing else is.
LEMMA SiftUpPermutes ==
    ASSUME NEW cap \in Nat, NEW V, NEW h \in [0 .. cap - 1 -> V],
           NEW n \in 0 .. cap, NEW i \in 0 .. n - 1, NEW cmp
    PROVE  /\ SiftUp(h, i, cmp) \in [0 .. cap - 1 -> V]
           /\ Permuted(h, SiftUp(h, i, cmp), n)
<1> DEFINE R == {h[k] : k \in DOMAIN h}
<1>1. DOMAIN h = 0 .. cap - 1 /\ Arrays(h) = [0 .. cap - 1 -> R] /\ h \in Arrays(h)
  BY DEF Arrays
<1>2. R \subseteq V
  OBVIOUS
<1> HIDE DEF R
<1>3. PICK f : f = UpLoop(h, cmp, f) /\ SiftUp(h, i, cmp) = f[i][h]
  BY SiftUpIsLoop
<1> DEFINE Good == [j \in DOMAIN h |->
                      {g \in Arrays(h) : j < n => f[j][g] \in Arrays(h) /\ Permuted(g, f[j][g], n)}]
<1>4. ASSUME NEW j \in DOMAIN h, NEW g \in Arrays(h), g \notin UpGo(h, cmp)[j]
      PROVE  g \in Good[j]
  <2>1. f[j][g] = g
    BY <1>3, <1>4, LoopRound DEF UpLoop
  <2>2. Permuted(g, g, n)
    BY DEF Permuted
  <2> QED
    BY <2>1, <2>2
<1>5. ASSUME NEW j \in DOMAIN h, NEW g \in Arrays(h), g \in UpGo(h, cmp)[j],
             UpTo(h)[j][g] \in Good[UpAt(h)[j][g]]
      PROVE  g \in Good[j]
  <2> DEFINE p == FIXED_HEAP_PARENT(j)
             e == __fixed_heap_swap(g, j, p)
  <2> SUFFICES ASSUME j < n PROVE f[j][g] \in Arrays(h) /\ Permuted(g, f[j][g], n)
    OBVIOUS
  <2>1. j > 0 /\ j \in 0 .. n - 1
    BY <1>1, <1>5 DEF UpGo
  <2>2. p \in 0 .. n - 1 /\ p # j
    BY <2>1, Parents
  <2>3. UpAt(h)[j][g] = p /\ UpTo(h)[j][g] = e
    BY DEF UpAt, UpTo
  <2>4. f[j][g] = f[p][e]
    <3>1. f[j][g] = f[UpAt(h)[j][g]][UpTo(h)[j][g]]
      BY <1>3, <1>5, LoopRound DEF UpLoop
    <3> HIDE DEF p, e
    <3> QED
      BY <2>3, <3>1
  <2>5. Permuted(g, e, n)
    <3> HIDE DEF p
    <3> QED
      BY <1>1, <2>1, <2>2, SwapPermutes
  <2>6. e \in Good[p]
    <3> HIDE DEF p, e, Good
    <3> QED
      BY <1>5, <2>3
  <2>7. p \in DOMAIN h /\ p < n
    BY <1>1, <2>2
  <2> HIDE DEF p, e
  <2>8. e \in Arrays(h) /\ f[p][e] \in Arrays(h) /\ Permuted(e, f[p][e], n)
    BY <2>6, <2>7
  <2>9. DOMAIN e = DOMAIN g
    BY <1>1, <2>8
  <2> QED
    BY <2>4, <2>5, <2>8, <2>9, PermutedTwice
<1>6. h \in Good[i]
  <2> HIDE DEF Good
  <2>1. i \in DOMAIN h
    BY <1>1
  <2>2. Terminates(DOMAIN h, Arrays(h), UpGo(h, cmp), UpAt(h), UpTo(h),
                   [j \in DOMAIN h |-> j], cap)
    BY UpTerminates
  <2>3. Inductive(DOMAIN h, Arrays(h), UpGo(h, cmp), UpAt(h), UpTo(h), Good)
    BY <1>4, <1>5 DEF Inductive
  <2>4. \A j \in DOMAIN h : \A g \in Arrays(h) : g \in Good[j]
    BY <2>2, <2>3, LoopInduction
  <2> QED
    BY <1>1, <2>1, <2>4
<1>7. f[i][h] \in Arrays(h) /\ Permuted(h, f[i][h], n)
  BY <1>1, <1>6
<1> QED
  BY <1>1, <1>2, <1>3, <1>7

\* The entries are ordered, but for the one at j and its parent.
Rises(g, j, n, key) ==
    /\ \A i \in 1 .. n - 1 : i # j => key[g[FIXED_HEAP_PARENT(i)]] >= key[g[i]]
    /\ \A c \in 1 .. n - 1 : FIXED_HEAP_PARENT(c) = j /\ j > 0 =>
          key[g[FIXED_HEAP_PARENT(j)]] >= key[g[c]]

LEMMA RiseStep ==
    ASSUME NEW cap \in Nat, NEW V, NEW g \in [0 .. cap - 1 -> V], NEW n \in 0 .. cap,
           NEW S, NEW key \in [S -> Int], \A k \in 0 .. n - 1 : g[k] \in S,
           NEW j \in 1 .. n - 1, Rises(g, j, n, key),
           NEW p, p = FIXED_HEAP_PARENT(j), key[g[p]] < key[g[j]],
           NEW e, e = __fixed_heap_swap(g, j, p)
    PROVE  (\A k \in 0 .. n - 1 : e[k] \in S) /\ Rises(e, p, n, key)
<1>1. p \in 0 .. n - 1 /\ p < j
  BY Parents
<1>2. \A k \in 0 .. n - 1 : e[k] = IF k = j THEN g[p] ELSE IF k = p THEN g[j] ELSE g[k]
  BY <1>1 DEF __fixed_heap_swap
<1>3. \A k \in 0 .. n - 1 : e[k] \in S /\ key[g[k]] \in Int /\ key[e[k]] \in Int
  BY <1>1, <1>2
<1>4. e[p] = g[j] /\ e[j] = g[p]
  BY <1>1, <1>2
<1>5. ASSUME NEW i \in 1 .. n - 1, i # p
      PROVE  key[e[FIXED_HEAP_PARENT(i)]] >= key[e[i]]
  <2> DEFINE q == FIXED_HEAP_PARENT(i)
  <2>1. q \in 0 .. n - 1 /\ q < i
    BY Parents
  <2>2. i # j => key[g[q]] >= key[g[i]]
    BY DEF Rises
  <2>3. q = j => key[g[p]] >= key[g[i]]
    BY <2>1 DEF Rises
  <2>4. i = j => q = p
    OBVIOUS
  <2> SUFFICES key[e[q]] >= key[e[i]]
    OBVIOUS
  <2> HIDE DEF q
  <2>5. CASE i = j
    BY <1>3, <1>4, <1>1, <2>4, <2>5
  <2>6. CASE i # j /\ q = j
    BY <1>2, <1>4, <2>3, <2>6, <1>5
  <2>7. CASE i # j /\ q = p
    <3>1. e[i] = g[i]
      BY <1>2, <1>5, <2>7
    <3>2. key[g[p]] >= key[g[i]]
      BY <2>2, <2>7
    <3> QED
      BY <1>1, <1>3, <1>4, <2>7, <3>1, <3>2
  <2>8. CASE i # j /\ q # j /\ q # p
    BY <1>2, <1>5, <2>1, <2>2, <2>8
  <2> QED
    BY <2>5, <2>6, <2>7, <2>8
<1>6. ASSUME NEW c \in 1 .. n - 1, FIXED_HEAP_PARENT(c) = p, p > 0
      PROVE  key[e[FIXED_HEAP_PARENT(p)]] >= key[e[c]]
  <2> DEFINE q == FIXED_HEAP_PARENT(p)
  <2>1. q \in 0 .. n - 1 /\ q < p
    BY <1>1, <1>6, Parents
  <2>2. p \in 1 .. n - 1 /\ p # j
    BY <1>1, <1>6
  <2>3. key[g[q]] >= key[g[p]]
    BY <2>2 DEF Rises
  <2>4. c # j => key[g[p]] >= key[g[c]]
    BY <1>6 DEF Rises
  <2> HIDE DEF q
  <2>5. e[q] = g[q]
    BY <1>1, <1>2, <2>1
  <2>6. c # p
    BY <1>6, Parents
  <2>7. CASE c = j
    <3>1. key[e[q]] >= key[e[c]]
      BY <1>4, <2>3, <2>5, <2>7
    <3> QED
      BY <3>1 DEF q
  <2>8. CASE c # j
    <3>1. e[c] = g[c]
      BY <1>2, <2>6, <2>8
    <3>2. key[e[q]] >= key[e[c]]
      BY <1>1, <1>3, <2>1, <2>3, <2>4, <2>5, <2>8, <3>1
    <3> QED
      BY <3>2 DEF q
  <2> QED
    BY <2>7, <2>8
<1> QED
  BY <1>3, <1>5, <1>6 DEF Rises

\* An array ordered but for the entry at i is a heap once that entry has risen.
LEMMA SiftUpOrders ==
    ASSUME NEW cap \in Nat, NEW V, NEW h \in [0 .. cap - 1 -> V],
           NEW n \in 0 .. cap, NEW i \in 0 .. n - 1,
           NEW cmp, NEW S, NEW key, OrdersBy(cmp, S, key),
           \A k \in 0 .. n - 1 : h[k] \in S, Rises(h, i, n, key)
    PROVE  Ordered(SiftUp(h, i, cmp), n, key)
<1> DEFINE R == {h[k] : k \in DOMAIN h}
<1>1. DOMAIN h = 0 .. cap - 1 /\ Arrays(h) = [0 .. cap - 1 -> R] /\ h \in Arrays(h)
  BY DEF Arrays
<1>2. key \in [S -> Int]
  BY DEF OrdersBy
<1> HIDE DEF R
<1>3. PICK f : f = UpLoop(h, cmp, f) /\ SiftUp(h, i, cmp) = f[i][h]
  BY SiftUpIsLoop
<1> DEFINE Start(g, j) == j < n /\ (\A k \in 0 .. n - 1 : g[k] \in S) /\ Rises(g, j, n, key)
           Good == [j \in DOMAIN h |-> {g \in Arrays(h) : Start(g, j) => Ordered(f[j][g], n, key)}]
<1>4. ASSUME NEW j \in DOMAIN h, NEW g \in Arrays(h), g \notin UpGo(h, cmp)[j]
      PROVE  g \in Good[j]
  <2> SUFFICES ASSUME Start(g, j) PROVE Ordered(f[j][g], n, key)
    OBVIOUS
  <2>1. f[j][g] = g
    BY <1>3, <1>4, LoopRound DEF UpLoop
  <2>2. j \in 0 .. n - 1
    BY <1>1
  <2> DEFINE p == FIXED_HEAP_PARENT(j)
  <2>3. ~(j > 0 /\ cmp[g[p]][g[j]] < 0)
    BY <1>4 DEF UpGo
  <2>4. j > 0 => p \in 0 .. n - 1
    BY <2>2, Parents
  <2>5. j > 0 => key[g[p]] >= key[g[j]]
    <3> SUFFICES ASSUME j > 0 PROVE key[g[p]] >= key[g[j]]
      OBVIOUS
    <3> HIDE DEF p
    <3>1. g[p] \in S /\ g[j] \in S /\ ~(cmp[g[p]][g[j]] < 0)
      BY <2>2, <2>3, <2>4
    <3>2. key[g[p]] \in Int /\ key[g[j]] \in Int /\ ~(key[g[p]] < key[g[j]])
      BY <3>1 DEF OrdersBy
    <3> QED
      BY <3>2
  <2>6. Ordered(g, n, key)
    <3> SUFFICES ASSUME NEW k \in 1 .. n - 1
                 PROVE  key[g[FIXED_HEAP_PARENT(k)]] >= key[g[k]]
      BY DEF Ordered
    <3> QED
      BY <2>5 DEF Rises
  <2> QED
    BY <2>1, <2>6
<1>5. ASSUME NEW j \in DOMAIN h, NEW g \in Arrays(h), g \in UpGo(h, cmp)[j],
             UpTo(h)[j][g] \in Good[UpAt(h)[j][g]]
      PROVE  g \in Good[j]
  <2> DEFINE p == FIXED_HEAP_PARENT(j)
             e == __fixed_heap_swap(g, j, p)
  <2> SUFFICES ASSUME Start(g, j) PROVE Ordered(f[j][g], n, key)
    OBVIOUS
  <2>1. j \in 1 .. n - 1 /\ cmp[g[p]][g[j]] < 0
    BY <1>1, <1>5 DEF UpGo
  <2>2. p \in 0 .. n - 1
    BY <2>1, Parents
  <2>3. UpAt(h)[j][g] = p /\ UpTo(h)[j][g] = e
    BY DEF UpAt, UpTo
  <2>4. f[j][g] = f[p][e]
    <3>1. f[j][g] = f[UpAt(h)[j][g]][UpTo(h)[j][g]]
      BY <1>3, <1>5, LoopRound DEF UpLoop
    <3> HIDE DEF p, e
    <3> QED
      BY <2>3, <3>1
  <2>5. e \in Good[p]
    <3> HIDE DEF p, e, Good
    <3> QED
      BY <1>5, <2>3
  <2>6. key[g[p]] < key[g[j]]
    <3> HIDE DEF p
    <3>1. g[p] \in S /\ g[j] \in S
      BY <2>1, <2>2
    <3> QED
      BY <2>1, <3>1 DEF OrdersBy
  <2>7. (\A k \in 0 .. n - 1 : e[k] \in S) /\ Rises(e, p, n, key)
    <3>1. \A k \in 0 .. n - 1 : g[k] \in S
      OBVIOUS
    <3>2. Rises(g, j, n, key) /\ p = FIXED_HEAP_PARENT(j) /\ e = __fixed_heap_swap(g, j, p)
      OBVIOUS
    <3> HIDE DEF p, e
    <3> QED
      BY <1>1, <1>2, <2>1, <2>6, <3>1, <3>2, RiseStep
  <2>8. p \in DOMAIN h /\ p < n
    BY <1>1, <2>2
  <2> HIDE DEF p, e
  <2> QED
    BY <2>4, <2>5, <2>7, <2>8
<1>6. h \in Good[i]
  <2> HIDE DEF Good
  <2>1. i \in DOMAIN h
    BY <1>1
  <2>2. Terminates(DOMAIN h, Arrays(h), UpGo(h, cmp), UpAt(h), UpTo(h),
                   [j \in DOMAIN h |-> j], cap)
    BY UpTerminates
  <2>3. Inductive(DOMAIN h, Arrays(h), UpGo(h, cmp), UpAt(h), UpTo(h), Good)
    BY <1>4, <1>5 DEF Inductive
  <2>4. \A j \in DOMAIN h : \A g \in Arrays(h) : g \in Good[j]
    BY <2>2, <2>3, LoopInduction
  <2> QED
    BY <1>1, <2>1, <2>4
<1> QED
  BY <1>1, <1>3, <1>6

-------------------------------------------------------------------------------
(* Sinking.                                                                *)

\* Largest is the place itself or one of its children in use.
LEMMA LargestPlace ==
    ASSUME NEW g, NEW n \in Nat, NEW j \in Nat, NEW cmp
    PROVE  \/ Largest(g, n, j, cmp) = j
           \/ /\ Largest(g, n, j, cmp) \in {FIXED_HEAP_LEFT(j), FIXED_HEAP_RIGHT(j)}
              /\ Largest(g, n, j, cmp) \in j + 1 .. n - 1
<1> DEFINE l == FIXED_HEAP_LEFT(j)
           r == FIXED_HEAP_RIGHT(j)
           o == IF l < n /\ cmp[g[l]][g[j]] > 0 THEN l ELSE j
<1>1. l \in Nat /\ r \in Nat /\ l > j /\ r > j
  BY Children
<1>2. Largest(g, n, j, cmp) = IF r < n /\ cmp[g[r]][g[o]] > 0 THEN r ELSE o
  BY DEF Largest
<1> HIDE DEF l, r
<1>3. o = j \/ (o = l /\ l < n)
  OBVIOUS
<1> HIDE DEF o
<1>4. \/ Largest(g, n, j, cmp) = j
      \/ Largest(g, n, j, cmp) \in {l, r} /\ Largest(g, n, j, cmp) < n
  BY <1>2, <1>3
<1> QED
  BY <1>1, <1>4 DEF l, r

\* It has the greatest key of the three.
LEMMA LargestGreatest ==
    ASSUME NEW g, NEW n \in Nat, NEW j \in 0 .. n - 1,
           NEW cmp, NEW S, NEW key, OrdersBy(cmp, S, key),
           \A k \in 0 .. n - 1 : g[k] \in S,
           NEW m, m = Largest(g, n, j, cmp)
    PROVE  /\ m # j => key[g[m]] > key[g[j]]
           /\ \A c \in {FIXED_HEAP_LEFT(j), FIXED_HEAP_RIGHT(j)} :
                 c < n => key[g[m]] >= key[g[c]]
<1> DEFINE l == FIXED_HEAP_LEFT(j)
           r == FIXED_HEAP_RIGHT(j)
           o == IF l < n /\ cmp[g[l]][g[j]] > 0 THEN l ELSE j
<1>1. l \in Nat /\ r \in Nat /\ l > j /\ r > j
  BY Children
<1>2. m = IF r < n /\ cmp[g[r]][g[o]] > 0 THEN r ELSE o
  BY DEF Largest
<1> HIDE DEF l, r
<1>3. o \in 0 .. n - 1
  BY <1>1
<1>4. /\ o # j => key[g[o]] > key[g[j]]
      /\ l < n => key[g[o]] >= key[g[l]]
      /\ key[g[o]] >= key[g[j]]
  <2>1. l < n => g[l] \in S
    BY <1>1
  <2>2. g[j] \in S
    OBVIOUS
  <2>3. l < n => /\ cmp[g[l]][g[j]] > 0 <=> key[g[l]] > key[g[j]]
                 /\ key[g[l]] \in Int /\ key[g[j]] \in Int
    BY <2>1, <2>2 DEF OrdersBy
  <2>4. key[g[j]] \in Int
    BY <2>2 DEF OrdersBy
  <2> QED
    BY <2>3, <2>4, <1>1
<1> HIDE DEF o
<1>5. r < n => /\ cmp[g[r]][g[o]] > 0 <=> key[g[r]] > key[g[o]]
               /\ key[g[r]] \in Int /\ key[g[o]] \in Int
  <2> SUFFICES ASSUME r < n
               PROVE  /\ cmp[g[r]][g[o]] > 0 <=> key[g[r]] > key[g[o]]
                      /\ key[g[r]] \in Int /\ key[g[o]] \in Int
    OBVIOUS
  <2>1. g[r] \in S /\ g[o] \in S
    BY <1>1, <1>3
  <2> QED
    BY <2>1 DEF OrdersBy
<1>6. key[g[o]] \in Int /\ key[g[j]] \in Int /\ (l < n => key[g[l]] \in Int)
  <2>1. g[o] \in S /\ g[j] \in S /\ (l < n => g[l] \in S)
    BY <1>1, <1>3
  <2> QED
    BY <2>1 DEF OrdersBy
<1>7. /\ m # j => key[g[m]] > key[g[j]]
      /\ l < n => key[g[m]] >= key[g[l]]
      /\ r < n => key[g[m]] >= key[g[r]]
  <2>1. CASE r < n /\ cmp[g[r]][g[o]] > 0
    <3>1. m = r /\ key[g[r]] > key[g[o]]
      BY <1>2, <1>5, <2>1
    <3> QED
      BY <1>4, <1>5, <1>6, <2>1, <3>1
  <2>2. CASE ~(r < n /\ cmp[g[r]][g[o]] > 0)
    <3>1. m = o
      BY <1>2, <2>2
    <3> QED
      BY <1>4, <1>5, <1>6, <2>2, <3>1
  <2> QED
    BY <2>1, <2>2
<1> QED
  BY <1>7 DEF l, r

DownGo(h, n, cmp) ==
    [j \in DOMAIN h |-> {g \in Arrays(h) : Largest(g, n, j, cmp) # j}]
DownAt(h, n, cmp) ==
    [j \in DOMAIN h |-> [g \in Arrays(h) |-> Largest(g, n, j, cmp)]]
DownTo(h, n, cmp) ==
    [j \in DOMAIN h |->
        [g \in Arrays(h) |-> __fixed_heap_swap(g, j, Largest(g, n, j, cmp))]]
DownLoop(h, n, cmp, f) ==
    Loop(DOMAIN h, Arrays(h), DownGo(h, n, cmp), DownAt(h, n, cmp), DownTo(h, n, cmp), f)

\* The places an entry sinks through have greater and greater indices.
LEMMA DownTerminates ==
    ASSUME NEW cap \in Nat, NEW V, NEW h \in [0 .. cap - 1 -> V], NEW n \in 0 .. cap, NEW cmp
    PROVE  Terminates(DOMAIN h, Arrays(h), DownGo(h, n, cmp), DownAt(h, n, cmp),
                      DownTo(h, n, cmp), [j \in DOMAIN h |-> cap - 1 - j], cap)
<1> DEFINE R == {h[k] : k \in DOMAIN h}
<1>1. DOMAIN h = 0 .. cap - 1 /\ Arrays(h) = [0 .. cap - 1 -> R]
  BY DEF Arrays
<1> HIDE DEF R
<1>2. ASSUME NEW j \in DOMAIN h, NEW g \in Arrays(h), g \in DownGo(h, n, cmp)[j]
      PROVE  /\ DownAt(h, n, cmp)[j][g] \in DOMAIN h
             /\ DownTo(h, n, cmp)[j][g] \in Arrays(h)
             /\ DownAt(h, n, cmp)[j][g] > j
  <2> DEFINE m == Largest(g, n, j, cmp)
  <2>1. j \in 0 .. cap - 1 /\ j \in Nat /\ m # j
    BY <1>1, <1>2 DEF DownGo
  <2>2. m \in j + 1 .. n - 1
    BY <2>1, LargestPlace
  <2>3. m \in 0 .. cap - 1 /\ m > j
    <3> HIDE DEF m
    <3> QED
      BY <2>1, <2>2
  <2>4. __fixed_heap_swap(g, j, m) \in [0 .. cap - 1 -> R]
    <3> HIDE DEF m
    <3> QED
      BY <1>1, <2>1, <2>3, Swapped
  <2>5. DownAt(h, n, cmp)[j][g] = m /\ DownTo(h, n, cmp)[j][g] = __fixed_heap_swap(g, j, m)
    BY DEF DownAt, DownTo
  <2> HIDE DEF m
  <2> QED
    BY <1>1, <2>3, <2>4, <2>5
<1> QED
  BY <1>1, <1>2 DEF Terminates

LEMMA HeapifyIsLoop ==
    ASSUME NEW cap \in Nat, NEW V, NEW h \in [0 .. cap - 1 -> V], NEW n \in 0 .. cap,
           NEW i, NEW cmp
    PROVE  \E f : f = DownLoop(h, n, cmp, f) /\ f[i][h] = __fixed_heap_heapify(h, n, i, cmp)
<1> DEFINE U(f) == [j \in DOMAIN h |-> [g \in Arrays(h) |->
                       IF Largest(g, n, j, cmp) # j
                       THEN f[Largest(g, n, j, cmp)][__fixed_heap_swap(g, j, Largest(g, n, j, cmp))]
                       ELSE g]]
           s == CHOOSE f : f = U(f)
<1>1. __fixed_heap_heapify(h, n, i, cmp) = s[i][h]
  BY DEF __fixed_heap_heapify
<1>2. \A f : U(f) = DownLoop(h, n, cmp, f)
  <2> TAKE f
  <2>1. \A j \in DOMAIN h : DownLoop(h, n, cmp, f)[j] = U(f)[j]
    <3> TAKE j \in DOMAIN h
    <3>1. DownLoop(h, n, cmp, f)[j] =
            [g \in Arrays(h) |->
                IF g \in DownGo(h, n, cmp)[j]
                THEN f[DownAt(h, n, cmp)[j][g]][DownTo(h, n, cmp)[j][g]] ELSE g]
      BY DEF DownLoop, Loop
    <3>2. \A g \in Arrays(h) :
             /\ g \in DownGo(h, n, cmp)[j] <=> Largest(g, n, j, cmp) # j
             /\ DownAt(h, n, cmp)[j][g] = Largest(g, n, j, cmp)
             /\ DownTo(h, n, cmp)[j][g] = __fixed_heap_swap(g, j, Largest(g, n, j, cmp))
      BY DEF DownGo, DownAt, DownTo
    <3> QED
      BY <3>1, <3>2
  <2>2. DownLoop(h, n, cmp, f) = [j \in DOMAIN h |-> DownLoop(h, n, cmp, f)[j]]
    BY DEF DownLoop, Loop
  <2>3. U(f) = [j \in DOMAIN h |-> U(f)[j]]
    OBVIOUS
  <2> HIDE DEF U
  <2> QED
    BY <2>1, <2>2, <2>3
<1>3. \E f : f = DownLoop(h, n, cmp, f)
  <2>1. Terminates(DOMAIN h, Arrays(h), DownGo(h, n, cmp), DownAt(h, n, cmp),
                   DownTo(h, n, cmp), [j \in DOMAIN h |-> cap - 1 - j], cap)
    BY DownTerminates
  <2>2. \E f : f = Loop(DOMAIN h, Arrays(h), DownGo(h, n, cmp), DownAt(h, n, cmp),
                        DownTo(h, n, cmp), f)
    BY <2>1, LoopExists
  <2> QED
    BY <2>2 DEF DownLoop
<1> HIDE DEF U
<1>4. s = U(s)
  BY <1>2, <1>3
<1> HIDE DEF s
<1> QED
  BY <1>1, <1>2, <1>4

\* An entry that sinks is swapped with the ones on its way, and nothing else is.
LEMMA HeapifyPermutes ==
    ASSUME NEW cap \in Nat, NEW V, NEW h \in [0 .. cap - 1 -> V],
           NEW n \in 0 .. cap, NEW i \in 0 .. cap - 1, NEW cmp
    PROVE  /\ __fixed_heap_heapify(h, n, i, cmp) \in [0 .. cap - 1 -> V]
           /\ Permuted(h, __fixed_heap_heapify(h, n, i, cmp), n)
<1> DEFINE R == {h[k] : k \in DOMAIN h}
<1>1. DOMAIN h = 0 .. cap - 1 /\ Arrays(h) = [0 .. cap - 1 -> R] /\ h \in Arrays(h)
  BY DEF Arrays
<1>2. R \subseteq V
  OBVIOUS
<1> HIDE DEF R
<1>3. PICK f : f = DownLoop(h, n, cmp, f) /\ f[i][h] = __fixed_heap_heapify(h, n, i, cmp)
  BY HeapifyIsLoop
<1> DEFINE Good == [j \in DOMAIN h |->
                      {g \in Arrays(h) : f[j][g] \in Arrays(h) /\ Permuted(g, f[j][g], n)}]
<1>4. ASSUME NEW j \in DOMAIN h, NEW g \in Arrays(h), g \notin DownGo(h, n, cmp)[j]
      PROVE  g \in Good[j]
  <2>1. f[j][g] = g
    BY <1>3, <1>4, LoopRound DEF DownLoop
  <2>2. Permuted(g, g, n)
    BY DEF Permuted
  <2> QED
    BY <2>1, <2>2
<1>5. ASSUME NEW j \in DOMAIN h, NEW g \in Arrays(h), g \in DownGo(h, n, cmp)[j],
             DownTo(h, n, cmp)[j][g] \in Good[DownAt(h, n, cmp)[j][g]]
      PROVE  g \in Good[j]
  <2> DEFINE m == Largest(g, n, j, cmp)
             e == __fixed_heap_swap(g, j, m)
  <2>1. j \in 0 .. cap - 1 /\ j \in Nat /\ m # j
    BY <1>1, <1>5 DEF DownGo
  <2>2. m \in j + 1 .. n - 1
    BY <2>1, LargestPlace
  <2>3. m \in 0 .. n - 1 /\ j \in 0 .. n - 1
    <3> HIDE DEF m
    <3> QED
      BY <2>1, <2>2
  <2>4. DownAt(h, n, cmp)[j][g] = m /\ DownTo(h, n, cmp)[j][g] = e
    BY DEF DownAt, DownTo
  <2>5. f[j][g] = f[m][e]
    <3>1. f[j][g] = f[DownAt(h, n, cmp)[j][g]][DownTo(h, n, cmp)[j][g]]
      BY <1>3, <1>5, LoopRound DEF DownLoop
    <3> HIDE DEF m, e
    <3> QED
      BY <2>4, <3>1
  <2>6. Permuted(g, e, n)
    <3> HIDE DEF m
    <3> QED
      BY <1>1, <2>1, <2>3, SwapPermutes
  <2>7. e \in Good[m]
    <3> HIDE DEF m, e, Good
    <3> QED
      BY <1>5, <2>4
  <2>8. m \in DOMAIN h
    BY <1>1, <2>3
  <2> HIDE DEF m, e
  <2>9. e \in Arrays(h) /\ f[m][e] \in Arrays(h) /\ Permuted(e, f[m][e], n)
    BY <2>7, <2>8
  <2>10. DOMAIN e = DOMAIN g
    BY <1>1, <2>9
  <2>11. f[j][g] \in Arrays(h) /\ Permuted(g, f[j][g], n)
    BY <2>5, <2>6, <2>9, <2>10, PermutedTwice
  <2> QED
    BY <2>11
<1>6. h \in Good[i]
  <2> HIDE DEF Good
  <2>1. Terminates(DOMAIN h, Arrays(h), DownGo(h, n, cmp), DownAt(h, n, cmp),
                   DownTo(h, n, cmp), [j \in DOMAIN h |-> cap - 1 - j], cap)
    BY DownTerminates
  <2>2. Inductive(DOMAIN h, Arrays(h), DownGo(h, n, cmp), DownAt(h, n, cmp),
                  DownTo(h, n, cmp), Good)
    BY <1>4, <1>5 DEF Inductive
  <2>3. \A j \in DOMAIN h : \A g \in Arrays(h) : g \in Good[j]
    BY <2>1, <2>2, LoopInduction
  <2> QED
    BY <1>1, <2>3
<1>7. f[i][h] \in Arrays(h) /\ Permuted(h, f[i][h], n)
  BY <1>1, <1>6
<1> QED
  BY <1>1, <1>2, <1>3, <1>7

\* The entries are ordered, but for the one at j and its children.
Sinks(g, j, n, key) ==
    /\ \A i \in 1 .. n - 1 : FIXED_HEAP_PARENT(i) # j =>
          key[g[FIXED_HEAP_PARENT(i)]] >= key[g[i]]
    /\ \A c \in 1 .. n - 1 : FIXED_HEAP_PARENT(c) = j /\ j > 0 =>
          key[g[FIXED_HEAP_PARENT(j)]] >= key[g[c]]

LEMMA SinkStep ==
    ASSUME NEW cap \in Nat, NEW V, NEW g \in [0 .. cap - 1 -> V], NEW n \in 0 .. cap,
           NEW S, NEW key \in [S -> Int], \A k \in 0 .. n - 1 : g[k] \in S,
           NEW j \in 0 .. n - 1, Sinks(g, j, n, key),
           NEW m \in j + 1 .. n - 1, FIXED_HEAP_PARENT(m) = j,
           key[g[m]] > key[g[j]],
           \A c \in 1 .. n - 1 : FIXED_HEAP_PARENT(c) = j => key[g[m]] >= key[g[c]],
           NEW e, e = __fixed_heap_swap(g, j, m)
    PROVE  (\A k \in 0 .. n - 1 : e[k] \in S) /\ Sinks(e, m, n, key)
<1>1. m \in 1 .. n - 1 /\ j < m /\ j \in Nat
  OBVIOUS
<1>2. \A k \in 0 .. n - 1 : e[k] = IF k = j THEN g[m] ELSE IF k = m THEN g[j] ELSE g[k]
  BY <1>1 DEF __fixed_heap_swap
<1>3. \A k \in 0 .. n - 1 : e[k] \in S /\ key[g[k]] \in Int /\ key[e[k]] \in Int
  BY <1>1, <1>2
<1>4. e[j] = g[m] /\ e[m] = g[j]
  BY <1>1, <1>2
<1>5. ASSUME NEW i \in 1 .. n - 1, FIXED_HEAP_PARENT(i) # m
      PROVE  key[e[FIXED_HEAP_PARENT(i)]] >= key[e[i]]
  <2> DEFINE q == FIXED_HEAP_PARENT(i)
  <2>1. q \in 0 .. n - 1 /\ q < i /\ q # m
    BY <1>5, Parents
  <2>2. q # j => key[g[q]] >= key[g[i]]
    BY DEF Sinks
  <2>3. q = j => key[g[m]] >= key[g[i]]
    OBVIOUS
  <2>4. i = j => key[g[q]] >= key[g[m]]
    BY <1>1 DEF Sinks
  <2>5. i = m => q = j
    OBVIOUS
  <2> SUFFICES key[e[q]] >= key[e[i]]
    OBVIOUS
  <2> HIDE DEF q
  <2>6. CASE i = m
    BY <1>3, <1>4, <2>5, <2>6
  <2>7. CASE i # m /\ q = j
    <3>1. e[i] = g[i]
      BY <1>2, <2>1, <2>7
    <3> QED
      BY <1>4, <2>3, <2>7, <3>1
  <2>8. CASE i = j
    <3>1. e[q] = g[q]
      BY <1>2, <2>1, <2>8
    <3> QED
      BY <1>4, <2>4, <2>8, <3>1
  <2>9. CASE i # m /\ i # j /\ q # j
    <3>1. e[q] = g[q] /\ e[i] = g[i]
      BY <1>2, <2>1, <2>9
    <3> QED
      BY <2>2, <2>9, <3>1
  <2> QED
    BY <2>6, <2>7, <2>8, <2>9
<1>6. ASSUME NEW c \in 1 .. n - 1, FIXED_HEAP_PARENT(c) = m
      PROVE  key[e[FIXED_HEAP_PARENT(m)]] >= key[e[c]]
  <2>1. c > m
    BY <1>6, Parents
  <2>2. e[c] = g[c]
    BY <1>1, <1>2, <2>1
  <2>3. key[g[m]] >= key[g[c]]
    BY <1>1, <1>6 DEF Sinks
  <2> QED
    BY <1>4, <2>2, <2>3
<1> QED
  BY <1>3, <1>5, <1>6 DEF Sinks

\* An array ordered but for the entry at i and its children is a heap once that
\* entry has sunk.
LEMMA HeapifyOrders ==
    ASSUME NEW cap \in Nat, NEW V, NEW h \in [0 .. cap - 1 -> V],
           NEW n \in 0 .. cap, NEW i \in 0 .. n - 1,
           NEW cmp, NEW S, NEW key, OrdersBy(cmp, S, key),
           \A k \in 0 .. n - 1 : h[k] \in S, Sinks(h, i, n, key)
    PROVE  Ordered(__fixed_heap_heapify(h, n, i, cmp), n, key)
<1> DEFINE R == {h[k] : k \in DOMAIN h}
<1>1. DOMAIN h = 0 .. cap - 1 /\ Arrays(h) = [0 .. cap - 1 -> R] /\ h \in Arrays(h)
  BY DEF Arrays
<1>2. key \in [S -> Int]
  BY DEF OrdersBy
<1> HIDE DEF R
<1>3. PICK f : f = DownLoop(h, n, cmp, f) /\ f[i][h] = __fixed_heap_heapify(h, n, i, cmp)
  BY HeapifyIsLoop
<1> DEFINE Start(g, j) == j < n /\ (\A k \in 0 .. n - 1 : g[k] \in S) /\ Sinks(g, j, n, key)
           Good == [j \in DOMAIN h |-> {g \in Arrays(h) : Start(g, j) => Ordered(f[j][g], n, key)}]
<1>4. ASSUME NEW j \in DOMAIN h, NEW g \in Arrays(h), g \notin DownGo(h, n, cmp)[j]
      PROVE  g \in Good[j]
  <2> SUFFICES ASSUME Start(g, j) PROVE Ordered(f[j][g], n, key)
    OBVIOUS
  <2>1. f[j][g] = g
    BY <1>3, <1>4, LoopRound DEF DownLoop
  <2>2. j \in 0 .. n - 1 /\ n \in Nat
    BY <1>1
  <2>3. j = Largest(g, n, j, cmp)
    BY <1>4 DEF DownGo
  <2>4. \A k \in 0 .. n - 1 : g[k] \in S
    OBVIOUS
  <2>5. \A c \in {FIXED_HEAP_LEFT(j), FIXED_HEAP_RIGHT(j)} : c < n => key[g[j]] >= key[g[c]]
    BY <2>2, <2>3, <2>4, LargestGreatest
  <2>6. ASSUME NEW k \in 1 .. n - 1
        PROVE  key[g[FIXED_HEAP_PARENT(k)]] >= key[g[k]]
    <3>1. CASE FIXED_HEAP_PARENT(k) = j
      <4>1. k \in {FIXED_HEAP_LEFT(j), FIXED_HEAP_RIGHT(j)} /\ k < n
        BY <3>1, Parents
      <4> QED
        BY <2>5, <3>1, <4>1
    <3>2. CASE FIXED_HEAP_PARENT(k) # j
      BY <3>2 DEF Sinks
    <3> QED
      BY <3>1, <3>2
  <2>7. Ordered(g, n, key)
    BY <2>6 DEF Ordered
  <2> QED
    BY <2>1, <2>7
<1>5. ASSUME NEW j \in DOMAIN h, NEW g \in Arrays(h), g \in DownGo(h, n, cmp)[j],
             DownTo(h, n, cmp)[j][g] \in Good[DownAt(h, n, cmp)[j][g]]
      PROVE  g \in Good[j]
  <2> DEFINE m == Largest(g, n, j, cmp)
             e == __fixed_heap_swap(g, j, m)
  <2> SUFFICES ASSUME Start(g, j) PROVE Ordered(f[j][g], n, key)
    OBVIOUS
  <2>1. j \in 0 .. n - 1 /\ j \in Nat /\ n \in Nat /\ m # j
    BY <1>1, <1>5 DEF DownGo
  <2>2. m \in {FIXED_HEAP_LEFT(j), FIXED_HEAP_RIGHT(j)} /\ m \in j + 1 .. n - 1
    BY <2>1, LargestPlace
  <2>3. FIXED_HEAP_PARENT(m) = j
    BY <2>1, <2>2, Children
  <2>4. DownAt(h, n, cmp)[j][g] = m /\ DownTo(h, n, cmp)[j][g] = e
    BY DEF DownAt, DownTo
  <2>5. f[j][g] = f[m][e]
    <3>1. f[j][g] = f[DownAt(h, n, cmp)[j][g]][DownTo(h, n, cmp)[j][g]]
      BY <1>3, <1>5, LoopRound DEF DownLoop
    <3> HIDE DEF m, e
    <3> QED
      BY <2>4, <3>1
  <2>6. e \in Good[m]
    <3> HIDE DEF m, e, Good
    <3> QED
      BY <1>5, <2>4
  <2>7. \A k \in 0 .. n - 1 : g[k] \in S
    OBVIOUS
  <2>8. /\ key[g[m]] > key[g[j]]
        /\ \A c \in {FIXED_HEAP_LEFT(j), FIXED_HEAP_RIGHT(j)} : c < n => key[g[m]] >= key[g[c]]
    BY <2>1, <2>7, LargestGreatest
  <2>9. \A c \in 1 .. n - 1 : FIXED_HEAP_PARENT(c) = j => key[g[m]] >= key[g[c]]
    <3> HIDE DEF m
    <3> SUFFICES ASSUME NEW c \in 1 .. n - 1, FIXED_HEAP_PARENT(c) = j
                 PROVE  key[g[m]] >= key[g[c]]
      OBVIOUS
    <3>1. c \in {FIXED_HEAP_LEFT(j), FIXED_HEAP_RIGHT(j)} /\ c < n
      BY Parents
    <3> QED
      BY <2>8, <3>1
  <2>10. (\A k \in 0 .. n - 1 : e[k] \in S) /\ Sinks(e, m, n, key)
    <3>1. Sinks(g, j, n, key) /\ e = __fixed_heap_swap(g, j, m)
      OBVIOUS
    <3> HIDE DEF m, e
    <3> QED
      BY <1>1, <1>2, <2>1, <2>2, <2>3, <2>7, <2>8, <2>9, <3>1, SinkStep
  <2>11. m \in DOMAIN h /\ m < n
    BY <1>1, <2>2
  <2> HIDE DEF m, e
  <2> QED
    BY <2>5, <2>6, <2>10, <2>11
<1>6. h \in Good[i]
  <2> HIDE DEF Good
  <2>1. Terminates(DOMAIN h, Arrays(h), DownGo(h, n, cmp), DownAt(h, n, cmp),
                   DownTo(h, n, cmp), [j \in DOMAIN h |-> cap - 1 - j], cap)
    BY DownTerminates
  <2>2. Inductive(DOMAIN h, Arrays(h), DownGo(h, n, cmp), DownAt(h, n, cmp),
                  DownTo(h, n, cmp), Good)
    BY <1>4, <1>5 DEF Inductive
  <2>3. \A j \in DOMAIN h : \A g \in Arrays(h) : g \in Good[j]
    BY <2>1, <2>2, LoopInduction
  <2>4. i \in DOMAIN h
    BY <1>1
  <2> QED
    BY <1>1, <2>3, <2>4
<1> QED
  BY <1>1, <1>3, <1>6

-------------------------------------------------------------------------------
(* What the operations do to a heap.                                       *)

Content(h, n) == {h[k] : k \in 0 .. n - 1}
Distinct(h, n) == \A k, l \in 0 .. n - 1 : h[k] = h[l] => k = l

\* A heap of n entries from S in an array that may hold anything of V elsewhere.
Filled(h, cap, n, S, V) ==
    /\ h \in [0 .. cap - 1 -> V]
    /\ \A k \in 0 .. n - 1 : h[k] \in S

LEMMA PermutedContent ==
    ASSUME NEW g, NEW e, NEW n, Permuted(g, e, n)
    PROVE  /\ Content(e, n) = Content(g, n)
           /\ Distinct(g, n) => Distinct(e, n)
BY DEF Permuted, Content, Distinct

ItemAdded(h, e, cap, n, S, V, x, cmp) ==
    /\ Filled(e, cap, n + 1, S, V)
    /\ Content(e, n + 1) = Content(h, n) \cup {x}
    /\ Distinct(h, n) /\ x \notin Content(h, n) => Distinct(e, n + 1)
    /\ \A key : OrdersBy(cmp, S, key) /\ Ordered(h, n, key) => Ordered(e, n + 1, key)

\* __fixed_heap_insert adds the item and loses none.
LEMMA Inserted ==
    ASSUME NEW cap \in Nat, NEW n \in 0 .. cap - 1, NEW S, NEW V, S \subseteq V,
           NEW h, Filled(h, cap, n, S, V), NEW x \in S, NEW cmp,
           NEW e, e = __fixed_heap_insert(h, x, n, cmp)
    PROVE  ItemAdded(h, e, cap, n, S, V, x, cmp)
<1> DEFINE g == [h EXCEPT ![n] = x]
<1>1. /\ n + 1 \in 0 .. cap /\ n \in 0 .. cap - 1 /\ n \in 0 .. (n + 1) - 1
      /\ g \in [0 .. cap - 1 -> V]
      /\ \A k \in 0 .. n - 1 : g[k] = h[k]
      /\ g[n] = x
      /\ e = SiftUp(g, n, cmp)
  BY DEF Filled, __fixed_heap_insert
<1> HIDE DEF g
<1>2. \A k \in 0 .. (n + 1) - 1 : g[k] \in S
  BY <1>1 DEF Filled
<1>3. e \in [0 .. cap - 1 -> V] /\ Permuted(g, e, n + 1)
  <2> DEFINE o == n + 1
  <2>1. o \in 0 .. cap /\ n \in 0 .. o - 1
    BY <1>1
  <2> HIDE DEF o
  <2>2. SiftUp(g, n, cmp) \in [0 .. cap - 1 -> V] /\ Permuted(g, SiftUp(g, n, cmp), o)
    BY <1>1, <2>1, SiftUpPermutes
  <2> QED
    BY <1>1, <2>2 DEF o
<1>4. Content(g, n + 1) = Content(h, n) \cup {x}
  <2>1. \A k : k \in 0 .. (n + 1) - 1 <=> k \in 0 .. n - 1 \/ k = n
    OBVIOUS
  <2> QED
    BY <1>1, <2>1 DEF Content
<1>5. Distinct(h, n) /\ x \notin Content(h, n) => Distinct(g, n + 1)
  <2> SUFFICES ASSUME Distinct(h, n), x \notin Content(h, n),
                      NEW k \in 0 .. n, NEW l \in 0 .. n, g[k] = g[l]
               PROVE  k = l
    BY DEF Distinct
  <2>1. CASE k # n /\ l # n
    BY <1>1, <2>1 DEF Distinct
  <2>2. CASE k = n /\ l # n
    BY <1>1, <2>2 DEF Content
  <2>3. CASE k # n /\ l = n
    BY <1>1, <2>3 DEF Content
  <2> QED
    BY <2>1, <2>2, <2>3
<1>6. Content(e, n + 1) = Content(g, n + 1) /\ (Distinct(g, n + 1) => Distinct(e, n + 1))
  BY <1>3, PermutedContent
<1>7. \A k \in 0 .. (n + 1) - 1 : e[k] \in S
  <2>1. \A y \in Content(e, n + 1) : y \in S
    BY <1>2, <1>6 DEF Content
  <2> QED
    BY <2>1 DEF Content
<1>8. ASSUME NEW key, OrdersBy(cmp, S, key), Ordered(h, n, key)
      PROVE  Ordered(e, n + 1, key)
  <2>1. ASSUME NEW i \in 1 .. (n + 1) - 1, i # n
        PROVE  key[g[FIXED_HEAP_PARENT(i)]] >= key[g[i]]
    <3>1. i \in 1 .. n - 1 /\ FIXED_HEAP_PARENT(i) \in 0 .. n - 1
      BY <2>1, Parents
    <3>2. key[h[FIXED_HEAP_PARENT(i)]] >= key[h[i]]
      BY <1>8, <3>1 DEF Ordered
    <3>3. g[FIXED_HEAP_PARENT(i)] = h[FIXED_HEAP_PARENT(i)] /\ g[i] = h[i]
      BY <1>1, <3>1
    <3> QED
      BY <3>2, <3>3
  <2>2. \A c \in 1 .. (n + 1) - 1 : FIXED_HEAP_PARENT(c) # n
    BY Parents
  <2>3. Rises(g, n, n + 1, key)
    BY <2>1, <2>2 DEF Rises
  <2> QED
    BY <1>1, <1>2, <1>8, <2>3, SiftUpOrders
<1> QED
  BY <1>3, <1>4, <1>5, <1>6, <1>7, <1>8 DEF Filled, ItemAdded

RootTaken(h, e, cap, n, S, V, cmp) ==
    /\ Filled(e, cap, n - 1, S, V)
    /\ Content(e, n - 1) \subseteq Content(h, n)
    /\ Content(h, n) = Content(e, n - 1) \cup {h[0]}
    /\ Distinct(h, n) => Distinct(e, n - 1) /\ h[0] \notin Content(e, n - 1)
    /\ \A key : OrdersBy(cmp, S, key) /\ Ordered(h, n, key) => Ordered(e, n - 1, key)

\* fixed_heap_pop takes out the root, one occurrence of it, and nothing else.
LEMMA PoppedRoot ==
    ASSUME NEW cap \in Nat, NEW n \in 1 .. cap, NEW S, NEW V, S \subseteq V,
           NEW h, Filled(h, cap, n, S, V), NULL \in V, NEW cmp,
           NEW e, e = PopRoot(h, n, cmp)
    PROVE  RootTaken(h, e, cap, n, S, V, cmp)
<1> DEFINE g == [[h EXCEPT ![0] = h[n - 1]] EXCEPT ![n - 1] = NULL]
<1>1. /\ n - 1 \in 0 .. cap /\ n - 1 \in 0 .. cap - 1 /\ 0 \in 0 .. cap - 1 /\ n - 1 \in Nat
      /\ g \in [0 .. cap - 1 -> V]
      /\ e = __fixed_heap_heapify(g, n - 1, 0, cmp)
  BY DEF Filled, PopRoot
<1>2. \A k \in 0 .. (n - 1) - 1 : g[k] = IF k = 0 THEN h[n - 1] ELSE h[k]
  BY DEF Filled
<1> HIDE DEF g
<1>3. \A k \in 0 .. (n - 1) - 1 : g[k] \in S
  BY <1>2 DEF Filled
<1>4. e \in [0 .. cap - 1 -> V] /\ Permuted(g, e, n - 1)
  BY <1>1, HeapifyPermutes
<1>5. Content(g, n - 1) = {h[k] : k \in 1 .. n - 1}
  <2>1. ASSUME NEW k \in 0 .. (n - 1) - 1 PROVE \E l \in 1 .. n - 1 : g[k] = h[l]
    BY <1>2
  <2>2. ASSUME NEW l \in 1 .. n - 1 PROVE \E k \in 0 .. (n - 1) - 1 : g[k] = h[l]
    <3>1. CASE l = n - 1
      <4>1. 0 \in 0 .. (n - 1) - 1 /\ g[0] = h[l]
        BY <1>2, <3>1
      <4> QED
        BY <4>1
    <3>2. CASE l # n - 1
      <4>1. l \in 0 .. (n - 1) - 1 /\ g[l] = h[l]
        BY <1>2, <3>2
      <4> QED
        BY <4>1
    <3> QED
      BY <3>1, <3>2
  <2> QED
    BY <2>1, <2>2 DEF Content
<1>6. Distinct(h, n) => Distinct(g, n - 1)
  <2> SUFFICES ASSUME Distinct(h, n), NEW k \in 0 .. (n - 1) - 1, NEW l \in 0 .. (n - 1) - 1,
                      g[k] = g[l]
               PROVE  k = l
    BY DEF Distinct
  <2>1. k \in 0 .. n - 1 /\ l \in 0 .. n - 1 /\ n - 1 \in 0 .. n - 1 /\ k # n - 1 /\ l # n - 1
    OBVIOUS
  <2>2. CASE k # 0 /\ l # 0
    BY <1>2, <2>1, <2>2 DEF Distinct
  <2>3. CASE k = 0 /\ l # 0
    <3>1. h[n - 1] = h[l]
      BY <1>2, <2>3
    <3> QED
      BY <2>1, <3>1 DEF Distinct
  <2>4. CASE k # 0 /\ l = 0
    <3>1. h[n - 1] = h[k]
      BY <1>2, <2>4
    <3> QED
      BY <2>1, <3>1 DEF Distinct
  <2> QED
    BY <2>2, <2>3, <2>4
<1>7. Content(e, n - 1) = Content(g, n - 1) /\ (Distinct(g, n - 1) => Distinct(e, n - 1))
  BY <1>4, PermutedContent
<1>8. \A k \in 0 .. (n - 1) - 1 : e[k] \in S
  <2>1. \A y \in Content(e, n - 1) : y \in S
    BY <1>3, <1>7 DEF Content
  <2> QED
    BY <2>1 DEF Content
<1>9. Content(h, n) = {h[k] : k \in 1 .. n - 1} \cup {h[0]}
  <2>1. \A k : k \in 0 .. n - 1 <=> k \in 1 .. n - 1 \/ k = 0
    OBVIOUS
  <2> QED
    BY <2>1 DEF Content
<1>10. Distinct(h, n) => h[0] \notin {h[k] : k \in 1 .. n - 1}
  BY DEF Distinct
<1>11. ASSUME NEW key, OrdersBy(cmp, S, key), Ordered(h, n, key)
       PROVE  Ordered(e, n - 1, key)
  <2>1. CASE n - 1 = 0
    BY <2>1 DEF Ordered
  <2>2. CASE n - 1 # 0
    <3>1. 0 \in 0 .. (n - 1) - 1
      BY <2>2
    <3>2. ASSUME NEW i \in 1 .. (n - 1) - 1, FIXED_HEAP_PARENT(i) # 0
          PROVE  key[g[FIXED_HEAP_PARENT(i)]] >= key[g[i]]
      <4>1. i \in 1 .. n - 1 /\ FIXED_HEAP_PARENT(i) \in 0 .. (n - 1) - 1
        BY Parents
      <4>2. key[h[FIXED_HEAP_PARENT(i)]] >= key[h[i]]
        BY <1>11, <4>1 DEF Ordered
      <4>3. g[FIXED_HEAP_PARENT(i)] = h[FIXED_HEAP_PARENT(i)] /\ g[i] = h[i]
        BY <1>2, <3>2, <4>1
      <4> QED
        BY <4>2, <4>3
    <3>3. Sinks(g, 0, n - 1, key)
      BY <3>2 DEF Sinks
    <3> QED
      BY <1>1, <1>3, <1>11, <3>1, <3>3, HeapifyOrders
  <2> QED
    BY <2>1, <2>2
<1> QED
  BY <1>4, <1>5, <1>6, <1>7, <1>8, <1>9, <1>10, <1>11 DEF Filled, RootTaken

-------------------------------------------------------------------------------
(* The timer manager: the inductive invariant.                             *)

TypeOK ==
    /\ now \in Nat
    /\ next_firing \in [Timers -> 0 .. MaxTime]
    /\ nr_armed \in 0 .. max_timers
    /\ Filled(armed_timers, max_timers, nr_armed, Timers, Timers \cup {NULL})
    /\ view \in [Timers -> {"idle", "armed", "disarmed", "misfired"}]
    /\ disarms \in Nat

\* Without timer_disarm the heap holds each armed timer once, and no other.
HeldOnce ==
    disarms = 0 =>
        /\ Distinct(armed_timers, nr_armed)
        /\ \A t \in Content(armed_timers, nr_armed) : view[t] = "armed"
        /\ \A t \in Timers : view[t] # "misfired"

\* No timer is before its parent's deadline, and the comparison function tells all
\* the deadlines apart.
Sorted(h, n, firing) ==
    /\ Comparable(Content(h, n), firing)
    /\ \A i \in 1 .. n - 1 : firing[h[FIXED_HEAP_PARENT(i)]] <= firing[h[i]]

\* The heap is one, as long as timer_disarm does not change a deadline in it and no
\* comparison was cut.
HeapSorted == disarms = 0 /\ ~cut => Sorted(armed_timers, nr_armed, next_firing)

Inv == TypeOK /\ ArmedIsPending /\ HeldOnce /\ HeapSorted

\* An int of 32 bits holds the differences of deadlines less than 2^31 units apart:
\* some two seconds, as time_get_time counts nanoseconds.
LEMMA IntHolds ==
    ASSUME IntBits = 32, NEW D \in Nat, D <= 2147483647
    PROVE  \A d \in -D .. D : ToInt(d) = d
<1>1. 2 ^ 31 = 2147483648 /\ 2 ^ 32 = 4294967296
  OBVIOUS
<1>2. IntBits - 1 = 31
  OBVIOUS
<1>3. \A d \in -D .. D : ((d + 2147483648) % 4294967296) - 2147483648 = d
  OBVIOUS
<1> QED
  BY <1>1, <1>2, <1>3 DEF ToInt

\* Deadlines no further apart than that are told apart.
LEMMA NearComparable ==
    ASSUME NEW D \in Nat, \A d \in -D .. D : ToInt(d) = d,
           NEW S, NEW firing \in [S -> Nat], \A a, b \in S : firing[b] - firing[a] <= D
    PROVE  Comparable(S, firing)
<1>1. ASSUME NEW a \in S, NEW b \in S
      PROVE  firing[b] - firing[a] \in -D .. D
  <2>1. firing[a] \in Nat /\ firing[b] \in Nat
    OBVIOUS
  <2>2. firing[b] - firing[a] <= D /\ firing[a] - firing[b] <= D
    OBVIOUS
  <2> QED
    BY <2>1, <2>2
<1> QED
  BY <1>1 DEF Comparable

Urgency(S, firing) == [t \in S |-> -firing[t]]

LEMMA UrgencyOrders ==
    ASSUME NEW firing \in [Timers -> 0 .. MaxTime], NEW S, S \subseteq Timers,
           Comparable(S, firing)
    PROVE  OrdersBy(__timer_manager_sort_timers(firing), S, Urgency(S, firing))
<1>1. MaxTime \in Nat
  BY TimerAssumption
<1>2. ASSUME NEW a \in S, NEW b \in S
      PROVE  /\ __timer_manager_sort_timers(firing)[a][b] = firing[b] - firing[a]
             /\ firing[a] \in Nat /\ firing[b] \in Nat
             /\ Urgency(S, firing)[a] = -firing[a] /\ Urgency(S, firing)[b] = -firing[b]
  <2>1. a \in Timers /\ b \in Timers
    OBVIOUS
  <2>2. firing[a] \in 0 .. MaxTime /\ firing[b] \in 0 .. MaxTime
    BY <2>1
  <2>3. __timer_manager_sort_timers(firing)[a][b] = ToInt(firing[b] - firing[a])
    BY <2>1 DEF __timer_manager_sort_timers
  <2>4. __timer_manager_sort_timers(firing)[a][b] = firing[b] - firing[a]
    BY <2>3 DEF Comparable
  <2> QED
    BY <1>1, <2>2, <2>4 DEF Urgency
<1>3. Urgency(S, firing) \in [S -> Int]
  BY <1>1 DEF Urgency
<1> QED
  BY <1>2, <1>3 DEF OrdersBy

\* Sorted and Ordered say the same.
LEMMA SortedOrdered ==
    ASSUME NEW firing \in [Timers -> 0 .. MaxTime], NEW S, S \subseteq Timers,
           NEW n \in Nat, NEW h, \A k \in 0 .. n - 1 : h[k] \in S
    PROVE  (\A i \in 1 .. n - 1 : firing[h[FIXED_HEAP_PARENT(i)]] <= firing[h[i]])
              <=> Ordered(h, n, Urgency(S, firing))
<1>1. ASSUME NEW i \in 1 .. n - 1
      PROVE  firing[h[FIXED_HEAP_PARENT(i)]] <= firing[h[i]] <=>
             Urgency(S, firing)[h[FIXED_HEAP_PARENT(i)]] >= Urgency(S, firing)[h[i]]
  <2>1. FIXED_HEAP_PARENT(i) \in 0 .. n - 1 /\ i \in 0 .. n - 1
    BY Parents
  <2> DEFINE x == h[FIXED_HEAP_PARENT(i)]
             y == h[i]
  <2>2. x \in S /\ y \in S /\ x \in Timers /\ y \in Timers
    BY <2>1
  <2> HIDE DEF x, y
  <2>3. firing[x] \in Int /\ firing[y] \in Int
    BY <2>2, TimerAssumption
  <2>4. Urgency(S, firing)[x] = -firing[x] /\ Urgency(S, firing)[y] = -firing[y]
    BY <2>2 DEF Urgency
  <2>5. firing[x] <= firing[y] <=> Urgency(S, firing)[x] >= Urgency(S, firing)[y]
    BY <2>3, <2>4
  <2> QED
    BY <2>5 DEF x, y
<1> QED
  BY <1>1 DEF Ordered

\* A heap of timers holds nothing else.
LEMMA ContentFilled ==
    ASSUME NEW h, NEW n, NEW S, S \subseteq Timers,
           Filled(h, max_timers, n, Timers, Timers \cup {NULL}), Content(h, n) \subseteq S
    PROVE  /\ Filled(h, max_timers, n, S, Timers \cup {NULL})
           /\ \A k \in 0 .. n - 1 : h[k] \in S
           /\ Content(h, n) \subseteq Timers
BY DEF Filled, Content

\* A timer put into a sorted heap leaves it sorted, if its deadline is not too far
\* from the others'.
LEMMA InsertSorted ==
    ASSUME NEW firing \in [Timers -> 0 .. MaxTime], NEW n \in 0 .. max_timers - 1, NEW h,
           Filled(h, max_timers, n, Timers, Timers \cup {NULL}), NEW t \in Timers,
           Sorted(h, n, firing), Comparable(Content(h, n) \cup {t}, firing),
           NEW e, e = __fixed_heap_insert(h, t, n, __timer_manager_sort_timers(firing))
    PROVE  Sorted(e, n + 1, firing)
<1> DEFINE S == Content(h, n) \cup {t}
           cmp == __timer_manager_sort_timers(firing)
           key == Urgency(S, firing)
<1>1. S \subseteq Timers /\ S \subseteq Timers \cup {NULL} /\ t \in S
  BY DEF Content, Filled
<1>2. Filled(h, max_timers, n, S, Timers \cup {NULL}) /\ \A k \in 0 .. n - 1 : h[k] \in S
  BY <1>1, ContentFilled
<1>3. Comparable(S, firing)
  OBVIOUS
<1>4. e = __fixed_heap_insert(h, t, n, cmp)
  OBVIOUS
<1>5. max_timers \in Nat /\ n \in Nat /\ n + 1 \in Nat
  BY TimerAssumption
<1>6. Content(h, n) \cup {t} = S
  OBVIOUS
<1> HIDE DEF S
<1>7. OrdersBy(cmp, S, key)
  BY <1>1, <1>3, UrgencyOrders
<1>8. Ordered(h, n, key)
  BY <1>1, <1>2, <1>5, SortedOrdered DEF Sorted
<1> HIDE DEF cmp, key
<1>9. ItemAdded(h, e, max_timers, n, S, Timers \cup {NULL}, t, cmp)
  BY <1>1, <1>2, <1>4, <1>5, Inserted
<1>10. /\ Filled(e, max_timers, n + 1, S, Timers \cup {NULL})
       /\ Content(e, n + 1) = S
       /\ Ordered(e, n + 1, key)
  BY <1>6, <1>7, <1>8, <1>9 DEF ItemAdded
<1>11. \A k \in 0 .. (n + 1) - 1 : e[k] \in S
  BY <1>10 DEF Filled
<1>12. \A i \in 1 .. (n + 1) - 1 : firing[e[FIXED_HEAP_PARENT(i)]] <= firing[e[i]]
  <2> DEFINE o == n + 1
  <2>1. o \in Nat /\ (\A k \in 0 .. o - 1 : e[k] \in S) /\ Ordered(e, o, key)
    BY <1>5, <1>10, <1>11
  <2> HIDE DEF o
  <2>2. \A i \in 1 .. o - 1 : firing[e[FIXED_HEAP_PARENT(i)]] <= firing[e[i]]
    BY <1>1, <2>1, SortedOrdered DEF key
  <2> QED
    BY <2>2 DEF o
<1> QED
  BY <1>3, <1>10, <1>12 DEF Sorted

\* Without its root a sorted heap is sorted.
LEMMA PopSorted ==
    ASSUME NEW firing \in [Timers -> 0 .. MaxTime], NEW n \in 1 .. max_timers, NEW h,
           Filled(h, max_timers, n, Timers, Timers \cup {NULL}), Sorted(h, n, firing),
           NEW e, e = PopRoot(h, n, __timer_manager_sort_timers(firing))
    PROVE  Sorted(e, n - 1, firing)
<1> DEFINE S == Content(h, n)
           cmp == __timer_manager_sort_timers(firing)
           key == Urgency(S, firing)
<1>1. S \subseteq Timers /\ S \subseteq Timers \cup {NULL} /\ NULL \in Timers \cup {NULL}
  BY DEF Content, Filled
<1>2. Filled(h, max_timers, n, S, Timers \cup {NULL}) /\ \A k \in 0 .. n - 1 : h[k] \in S
  BY <1>1, ContentFilled
<1>3. Comparable(S, firing)
  BY DEF Sorted
<1>4. e = PopRoot(h, n, cmp)
  OBVIOUS
<1>5. max_timers \in Nat /\ n \in Nat /\ n - 1 \in Nat
  BY TimerAssumption
<1>6. Content(h, n) = S
  OBVIOUS
<1> HIDE DEF S
<1>7. OrdersBy(cmp, S, key)
  BY <1>1, <1>3, UrgencyOrders
<1>8. Ordered(h, n, key)
  BY <1>1, <1>2, <1>5, SortedOrdered DEF Sorted
<1> HIDE DEF cmp, key
<1>9. RootTaken(h, e, max_timers, n, S, Timers \cup {NULL}, cmp)
  BY <1>1, <1>2, <1>4, <1>5, PoppedRoot
<1>10. /\ Filled(e, max_timers, n - 1, S, Timers \cup {NULL})
       /\ Content(e, n - 1) \subseteq S
       /\ Ordered(e, n - 1, key)
  BY <1>6, <1>7, <1>8, <1>9 DEF RootTaken
<1>11. \A k \in 0 .. (n - 1) - 1 : e[k] \in S
  BY <1>10 DEF Filled
<1>12. \A i \in 1 .. (n - 1) - 1 : firing[e[FIXED_HEAP_PARENT(i)]] <= firing[e[i]]
  <2> DEFINE o == n - 1
  <2>1. o \in Nat /\ (\A k \in 0 .. o - 1 : e[k] \in S) /\ Ordered(e, o, key)
    BY <1>5, <1>10, <1>11
  <2> HIDE DEF o
  <2>2. \A i \in 1 .. o - 1 : firing[e[FIXED_HEAP_PARENT(i)]] <= firing[e[i]]
    BY <1>1, <2>1, SortedOrdered DEF key
  <2> QED
    BY <2>2 DEF o
<1>13. Comparable(Content(e, n - 1), firing)
  BY <1>3, <1>10 DEF Comparable
<1> QED
  BY <1>12, <1>13 DEF Sorted

\* __timer_manager_add_timer: the timer joins the heap if it fits.
LEMMA AddedStep ==
    ASSUME TypeOK, NEW t \in Timers, NEW when \in 0 .. MaxTime,
           NEW h, NEW n \in 0 .. max_timers, NEW l,
           Filled(h, max_timers, n, Timers, Timers \cup {NULL}),
           Added(t, when, h, n, l)
    PROVE  /\ next_firing' \in [Timers -> 0 .. MaxTime]
           /\ nr_armed' \in 0 .. max_timers
           /\ Filled(armed_timers', max_timers, nr_armed', Timers, Timers \cup {NULL})
           /\ view' \in [Timers -> {"idle", "armed", "disarmed", "misfired"}]
           /\ view'[t] = "armed" => Content(armed_timers', nr_armed') = Content(h, n) \cup {t}
           /\ view'[t] # "armed" => Content(armed_timers', nr_armed') = Content(h, n)
           /\ \A u \in Timers : u # t => view'[u] = view[u]
           /\ view'[t] # "misfired"
           /\ Distinct(h, n) /\ t \notin Content(h, n) => Distinct(armed_timers', nr_armed')
           /\ /\ ~cut'
              /\ Sorted(h, n, next_firing)
              /\ t \notin Content(h, n)
              => Sorted(armed_timers', nr_armed', next_firing')
           /\ ~cut' => ~cut
<1> DEFINE firing == [next_firing EXCEPT ![t] = when]
           cmp == __timer_manager_sort_timers(firing)
<1>1. /\ next_firing' = firing
      /\ n < max_timers => /\ armed_timers' = __fixed_heap_insert(h, t, n, cmp)
                           /\ nr_armed' = n + 1
                           /\ view' = [view EXCEPT ![t] = "armed"]
      /\ ~(n < max_timers) => /\ armed_timers' = h
                              /\ nr_armed' = n
                              /\ view' = [view EXCEPT ![t] = "idle"]
      /\ ~cut' => ~cut
      /\ ~cut' /\ n < max_timers => Comparable(Content(h, n) \cup {t}, firing)
  BY DEF Added, Content
<1>2. max_timers \in Nat /\ MaxTime \in Nat
  BY TimerAssumption
<1>3. firing \in [Timers -> 0 .. MaxTime]
  BY DEF TypeOK
<1>4. \A u \in Timers : u # t => firing[u] = next_firing[u]
  BY DEF TypeOK
<1>5. Content(h, n) \subseteq Timers /\ \A k \in 0 .. n - 1 : h[k] \in Content(h, n)
  BY DEF Content, Filled
<1>6. Sorted(h, n, next_firing) /\ t \notin Content(h, n) => Sorted(h, n, firing)
  <2> SUFFICES ASSUME Sorted(h, n, next_firing), t \notin Content(h, n)
               PROVE  Sorted(h, n, firing)
    OBVIOUS
  <2>1. \A u \in Content(h, n) : firing[u] = next_firing[u]
    BY <1>4, <1>5
  <2> HIDE DEF firing
  <2>2. Comparable(Content(h, n), firing)
    BY <2>1 DEF Sorted, Comparable
  <2>3. ASSUME NEW i \in 1 .. n - 1
        PROVE  firing[h[FIXED_HEAP_PARENT(i)]] <= firing[h[i]]
    <3>1. FIXED_HEAP_PARENT(i) \in 0 .. n - 1 /\ i \in 0 .. n - 1
      BY Parents
    <3>2. next_firing[h[FIXED_HEAP_PARENT(i)]] <= next_firing[h[i]]
      BY DEF Sorted
    <3> QED
      BY <1>5, <2>1, <3>1, <3>2
  <2> QED
    BY <2>2, <2>3 DEF Sorted
<1> HIDE DEF firing, cmp
<1>7. CASE n < max_timers
  <2>1. /\ n \in 0 .. max_timers - 1
        /\ Timers \subseteq Timers \cup {NULL}
        /\ armed_timers' = __fixed_heap_insert(h, t, n, cmp)
    BY <1>1, <1>2, <1>7
  <2>2. /\ Filled(armed_timers', max_timers, n + 1, Timers, Timers \cup {NULL})
        /\ Content(armed_timers', n + 1) = Content(h, n) \cup {t}
        /\ Distinct(h, n) /\ t \notin Content(h, n) => Distinct(armed_timers', n + 1)
    <3>1. ItemAdded(h, armed_timers', max_timers, n, Timers, Timers \cup {NULL}, t, cmp)
      BY <1>2, <2>1, Inserted
    <3> QED
      BY <3>1 DEF ItemAdded
  <2>3. nr_armed' = n + 1 /\ n + 1 \in 0 .. max_timers /\ next_firing' = firing
    BY <1>1, <1>2, <1>7
  <2>4. /\ view' \in [Timers -> {"idle", "armed", "disarmed", "misfired"}]
        /\ view'[t] = "armed"
        /\ \A u \in Timers : u # t => view'[u] = view[u]
    BY <1>1, <1>7 DEF TypeOK
  <2>5. ASSUME ~cut', Sorted(h, n, next_firing), t \notin Content(h, n)
        PROVE  Sorted(armed_timers', n + 1, firing)
    <3>1. Sorted(h, n, firing) /\ Comparable(Content(h, n) \cup {t}, firing)
      BY <1>1, <1>6, <1>7, <2>5
    <3> QED
      BY <1>3, <2>1, <3>1, InsertSorted DEF cmp
  <2> QED
    BY <1>1, <1>3, <2>2, <2>3, <2>4, <2>5
<1>8. CASE ~(n < max_timers)
  <2>1. /\ view' \in [Timers -> {"idle", "armed", "disarmed", "misfired"}]
        /\ view'[t] = "idle"
        /\ \A u \in Timers : u # t => view'[u] = view[u]
    BY <1>1, <1>8 DEF TypeOK
  <2>2. nr_armed' = n /\ armed_timers' = h /\ next_firing' = firing
    BY <1>1, <1>8
  <2> QED
    BY <1>1, <1>3, <1>6, <2>1, <2>2
<1> QED
  BY <1>7, <1>8

LEMMA PoppedStep ==
    ASSUME TypeOK, nr_armed > 0
    PROVE  /\ nr_armed - 1 \in 0 .. max_timers
           /\ armed_timers[0] \in Timers /\ armed_timers[0] \in Content(armed_timers, nr_armed)
           /\ Filled(Popped, max_timers, nr_armed - 1, Timers, Timers \cup {NULL})
           /\ Content(Popped, nr_armed - 1) \subseteq Content(armed_timers, nr_armed)
           /\ Content(armed_timers, nr_armed) = Content(Popped, nr_armed - 1) \cup {armed_timers[0]}
           /\ Distinct(armed_timers, nr_armed) => /\ Distinct(Popped, nr_armed - 1)
                                         /\ armed_timers[0] \notin Content(Popped, nr_armed - 1)
           /\ Sorted(armed_timers, nr_armed, next_firing) =>
                 Sorted(Popped, nr_armed - 1, next_firing)
<1>1. max_timers \in Nat /\ nr_armed \in 1 .. max_timers /\ NULL \in Timers \cup {NULL}
      /\ Timers \subseteq Timers \cup {NULL}
      /\ Filled(armed_timers, max_timers, nr_armed, Timers, Timers \cup {NULL})
  BY TimerAssumption DEF TypeOK
<1>2. Popped = PopRoot(armed_timers, nr_armed, order)
  BY DEF Popped
<1>3. Sorted(armed_timers, nr_armed, next_firing) => Sorted(Popped, nr_armed - 1, next_firing)
  BY <1>1, <1>2, PopSorted DEF TypeOK, order
<1>4. /\ Filled(Popped, max_timers, nr_armed - 1, Timers, Timers \cup {NULL})
      /\ Content(Popped, nr_armed - 1) \subseteq Content(armed_timers, nr_armed)
      /\ Content(armed_timers, nr_armed) = Content(Popped, nr_armed - 1) \cup {armed_timers[0]}
      /\ Distinct(armed_timers, nr_armed) => /\ Distinct(Popped, nr_armed - 1)
                                    /\ armed_timers[0] \notin Content(Popped, nr_armed - 1)
  <2>1. RootTaken(armed_timers, Popped, max_timers, nr_armed, Timers, Timers \cup {NULL}, order)
    BY <1>1, <1>2, PoppedRoot
  <2> QED
    BY <2>1 DEF RootTaken
<1>5. armed_timers[0] \in Timers /\ armed_timers[0] \in Content(armed_timers, nr_armed)
  BY <1>1 DEF Filled, Content
<1> QED
  BY <1>1, <1>3, <1>4, <1>5

-------------------------------------------------------------------------------
(* The timer manager: the proof.                                           *)

LEMMA InitInv == Init => Inv
<1> SUFFICES ASSUME Init PROVE Inv
  OBVIOUS
<1>1. TypeOK
  BY TimerAssumption DEF Init, TypeOK, Filled
<1>2. ArmedIsPending
  BY DEF Init, ArmedIsPending
<1>3. HeldOnce
  BY DEF Init, HeldOnce, Distinct, Content
<1>4. HeapSorted
  BY DEF Init, HeapSorted, Sorted, Comparable, Content
<1> QED
  BY <1>1, <1>2, <1>3, <1>4 DEF Inv

\* Arming a timer that is not armed.
LEMMA ArmInv ==
    ASSUME Inv, NEW t \in Timers, view[t] # "armed", NEW when \in 0 .. MaxTime,
           Added(t, when, armed_timers, nr_armed, live), now' = now, disarms' = disarms
    PROVE  Inv'
<1>1. TypeOK
  BY DEF Inv
<1>2. nr_armed \in 0 .. max_timers /\ Filled(armed_timers, max_timers, nr_armed, Timers, Timers \cup {NULL})
  BY <1>1 DEF TypeOK
<1>3. /\ next_firing' \in [Timers -> 0 .. MaxTime]
      /\ nr_armed' \in 0 .. max_timers
      /\ Filled(armed_timers', max_timers, nr_armed', Timers, Timers \cup {NULL})
      /\ view' \in [Timers -> {"idle", "armed", "disarmed", "misfired"}]
      /\ view'[t] = "armed" => Content(armed_timers', nr_armed') = Content(armed_timers, nr_armed) \cup {t}
      /\ view'[t] # "armed" => Content(armed_timers', nr_armed') = Content(armed_timers, nr_armed)
      /\ \A u \in Timers : u # t => view'[u] = view[u]
      /\ view'[t] # "misfired"
      /\ Distinct(armed_timers, nr_armed) /\ t \notin Content(armed_timers, nr_armed) => Distinct(armed_timers', nr_armed')
      /\ /\ ~cut'
         /\ Sorted(armed_timers, nr_armed, next_firing)
         /\ t \notin Content(armed_timers, nr_armed)
         => Sorted(armed_timers', nr_armed', next_firing')
      /\ ~cut' => ~cut
  BY <1>1, <1>2, AddedStep
<1>4. TypeOK'
  BY <1>1, <1>3 DEF TypeOK
<1>5. disarms = 0 => t \notin Content(armed_timers, nr_armed)
  BY DEF Inv, HeldOnce
<1>6. ArmedIsPending'
  <2> SUFFICES ASSUME NEW u \in Timers, view'[u] = "armed" PROVE u \in Content(armed_timers', nr_armed')
    BY DEF ArmedIsPending, Pending, Content
  <2>1. CASE u = t
    BY <1>3, <2>1
  <2>2. CASE u # t
    <3>1. u \in Content(armed_timers, nr_armed)
      BY <1>3, <2>2 DEF Inv, ArmedIsPending, Pending, Content
    <3> QED
      BY <1>3, <3>1
  <2> QED
    BY <2>1, <2>2
<1>7. HeldOnce'
  <2> SUFFICES ASSUME disarms = 0
               PROVE  /\ Distinct(armed_timers', nr_armed')
                      /\ \A u \in Content(armed_timers', nr_armed') : view'[u] = "armed"
                      /\ \A u \in Timers : view'[u] # "misfired"
    BY DEF HeldOnce, Distinct, Content
  <2>1. /\ Distinct(armed_timers, nr_armed) /\ \A u \in Content(armed_timers, nr_armed) : view[u] = "armed"
        /\ \A u \in Timers : view[u] # "misfired"
    BY DEF Inv, HeldOnce
  <2>2. Content(armed_timers, nr_armed) \subseteq Timers
    BY <1>2 DEF Content, Filled
  <2>3. \A u \in Content(armed_timers, nr_armed) : view'[u] = "armed"
    BY <1>3, <1>5, <2>1, <2>2
  <2>4. \A u \in Content(armed_timers', nr_armed') : view'[u] = "armed"
    BY <1>3, <2>3
  <2> QED
    BY <1>3, <1>5, <2>1, <2>4
<1>8. HeapSorted'
  <2> SUFFICES ASSUME ~cut', disarms = 0
               PROVE  Sorted(armed_timers', nr_armed', next_firing')
    BY DEF HeapSorted, Sorted, Comparable, Content, ToInt
  <2> QED
    BY <1>3, <1>5 DEF Inv, HeapSorted
<1> QED
  BY <1>4, <1>6, <1>7, <1>8 DEF Inv

LEMMA FireOnceInv ==
    ASSUME Inv, FireOnce PROVE Inv'
<1> DEFINE t == armed_timers[0]
<1>1. TypeOK /\ nr_armed > 0
  BY DEF Inv, FireOnce
<1>2. /\ armed_timers' = Popped /\ nr_armed' = nr_armed - 1
      /\ view' = [view EXCEPT ![t] = Fired(t)]
      /\ next_firing' = next_firing /\ now' = now /\ disarms' = disarms /\ cut' = cut
  BY DEF FireOnce
<1>3. /\ nr_armed - 1 \in 0 .. max_timers
      /\ t \in Timers /\ t \in Content(armed_timers, nr_armed)
      /\ Filled(Popped, max_timers, nr_armed - 1, Timers, Timers \cup {NULL})
      /\ Content(Popped, nr_armed - 1) \subseteq Content(armed_timers, nr_armed)
      /\ Content(armed_timers, nr_armed) = Content(Popped, nr_armed - 1) \cup {t}
      /\ Distinct(armed_timers, nr_armed) => /\ Distinct(Popped, nr_armed - 1)
                                    /\ t \notin Content(Popped, nr_armed - 1)
      /\ Sorted(armed_timers, nr_armed, next_firing) =>
            Sorted(Popped, nr_armed - 1, next_firing)
  BY <1>1, PoppedStep
<1> HIDE DEF t
<1>4. /\ view' \in [Timers -> {"idle", "armed", "disarmed", "misfired"}]
      /\ view'[t] = Fired(t)
      /\ \A u \in Timers : u # t => view'[u] = view[u]
  BY <1>1, <1>2, <1>3 DEF TypeOK, Fired
<1>5. Fired(t) # "armed" /\ (view[t] = "armed" => Fired(t) = "idle")
  BY DEF Fired
<1>6. TypeOK'
  BY <1>1, <1>2, <1>3, <1>4 DEF TypeOK
<1>7. ArmedIsPending'
  <2> SUFFICES ASSUME NEW u \in Timers, view'[u] = "armed" PROVE u \in Content(armed_timers', nr_armed')
    BY DEF ArmedIsPending, Pending, Content
  <2>1. u # t /\ view[u] = "armed"
    BY <1>4, <1>5
  <2>2. u \in Content(armed_timers, nr_armed)
    BY <2>1 DEF Inv, ArmedIsPending, Pending, Content
  <2> QED
    BY <1>2, <1>3, <2>1, <2>2
<1>8. HeldOnce'
  <2> SUFFICES ASSUME disarms = 0
               PROVE  /\ Distinct(armed_timers', nr_armed')
                      /\ \A u \in Content(armed_timers', nr_armed') : view'[u] = "armed"
                      /\ \A u \in Timers : view'[u] # "misfired"
    BY <1>2 DEF HeldOnce, Distinct, Content
  <2>1. /\ Distinct(armed_timers, nr_armed) /\ \A u \in Content(armed_timers, nr_armed) : view[u] = "armed"
        /\ \A u \in Timers : view[u] # "misfired"
    BY DEF Inv, HeldOnce
  <2>2. Content(armed_timers, nr_armed) \subseteq Timers
    BY <1>1 DEF TypeOK, Content, Filled
  <2>3. \A u \in Content(Popped, nr_armed - 1) : view'[u] = "armed"
    BY <1>3, <1>4, <2>1, <2>2
  <2>4. \A u \in Timers : view'[u] # "misfired"
    BY <1>3, <1>4, <1>5, <2>1
  <2> QED
    BY <1>2, <1>3, <2>1, <2>3, <2>4
<1>9. HeapSorted'
  <2> SUFFICES ASSUME ~cut', disarms = 0
               PROVE  Sorted(armed_timers', nr_armed', next_firing')
    BY <1>2 DEF HeapSorted, Sorted, Comparable, Content, ToInt
  <2> QED
    BY <1>2, <1>3 DEF Inv, HeapSorted
<1> QED
  BY <1>6, <1>7, <1>8, <1>9 DEF Inv

LEMMA FireAgainInv ==
    ASSUME Inv, NEW usecs \in Delays, FireAgain(usecs) PROVE Inv'
<1> DEFINE t == armed_timers[0]
<1>1. TypeOK /\ nr_armed > 0 /\ now \in Nat
  BY DEF Inv, FireAgain, TypeOK
<1>2. /\ Added(t, now + usecs, Popped, nr_armed - 1, live \ {t})
      /\ now' = now /\ disarms' = disarms /\ view[t] = "armed"
  BY DEF FireAgain
<1>3. now + usecs \in 0 .. MaxTime
  BY <1>1, TimerAssumption DEF FireAgain
<1>4. /\ nr_armed - 1 \in 0 .. max_timers
      /\ t \in Timers /\ t \in Content(armed_timers, nr_armed)
      /\ Filled(Popped, max_timers, nr_armed - 1, Timers, Timers \cup {NULL})
      /\ Content(Popped, nr_armed - 1) \subseteq Content(armed_timers, nr_armed)
      /\ Content(armed_timers, nr_armed) = Content(Popped, nr_armed - 1) \cup {t}
      /\ Distinct(armed_timers, nr_armed) => /\ Distinct(Popped, nr_armed - 1)
                                    /\ t \notin Content(Popped, nr_armed - 1)
      /\ Sorted(armed_timers, nr_armed, next_firing) =>
            Sorted(Popped, nr_armed - 1, next_firing)
  BY <1>1, PoppedStep
<1> HIDE DEF t
<1>5. /\ next_firing' \in [Timers -> 0 .. MaxTime]
      /\ nr_armed' \in 0 .. max_timers
      /\ Filled(armed_timers', max_timers, nr_armed', Timers, Timers \cup {NULL})
      /\ view' \in [Timers -> {"idle", "armed", "disarmed", "misfired"}]
      /\ view'[t] = "armed" => Content(armed_timers', nr_armed') = Content(Popped, nr_armed - 1) \cup {t}
      /\ view'[t] # "armed" => Content(armed_timers', nr_armed') = Content(Popped, nr_armed - 1)
      /\ \A u \in Timers : u # t => view'[u] = view[u]
      /\ view'[t] # "misfired"
      /\ Distinct(Popped, nr_armed - 1) /\ t \notin Content(Popped, nr_armed - 1) =>
            Distinct(armed_timers', nr_armed')
      /\ /\ ~cut'
         /\ Sorted(Popped, nr_armed - 1, next_firing)
         /\ t \notin Content(Popped, nr_armed - 1)
         => Sorted(armed_timers', nr_armed', next_firing')
      /\ ~cut' => ~cut
  BY <1>1, <1>2, <1>3, <1>4, AddedStep
<1>6. TypeOK'
  BY <1>1, <1>2, <1>5 DEF TypeOK
<1>7. ArmedIsPending'
  <2> SUFFICES ASSUME NEW u \in Timers, view'[u] = "armed" PROVE u \in Content(armed_timers', nr_armed')
    BY DEF ArmedIsPending, Pending, Content
  <2>1. CASE u = t
    BY <1>5, <2>1
  <2>2. CASE u # t
    <3>1. u \in Content(armed_timers, nr_armed)
      BY <1>5, <2>2 DEF Inv, ArmedIsPending, Pending, Content
    <3> QED
      BY <1>4, <1>5, <2>2, <3>1
  <2> QED
    BY <2>1, <2>2
<1>8. HeldOnce'
  <2> SUFFICES ASSUME disarms = 0
               PROVE  /\ Distinct(armed_timers', nr_armed')
                      /\ \A u \in Content(armed_timers', nr_armed') : view'[u] = "armed"
                      /\ \A u \in Timers : view'[u] # "misfired"
    BY <1>2 DEF HeldOnce, Distinct, Content
  <2>1. /\ Distinct(armed_timers, nr_armed) /\ \A u \in Content(armed_timers, nr_armed) : view[u] = "armed"
        /\ \A u \in Timers : view[u] # "misfired"
    BY DEF Inv, HeldOnce
  <2>2. Content(armed_timers, nr_armed) \subseteq Timers
    BY <1>1 DEF TypeOK, Content, Filled
  <2>3. \A u \in Content(Popped, nr_armed - 1) : view'[u] = "armed"
    BY <1>4, <1>5, <2>1, <2>2
  <2>4. \A u \in Content(armed_timers', nr_armed') : view'[u] = "armed"
    BY <1>5, <2>3
  <2>5. \A u \in Timers : view'[u] # "misfired"
    BY <1>5, <2>1
  <2> QED
    BY <1>4, <1>5, <2>1, <2>4, <2>5
<1>9. HeapSorted'
  <2> SUFFICES ASSUME ~cut', disarms = 0
               PROVE  Sorted(armed_timers', nr_armed', next_firing')
    BY <1>2 DEF HeapSorted, Sorted, Comparable, Content, ToInt
  <2> QED
    BY <1>4, <1>5 DEF Inv, HeapSorted, HeldOnce
<1> QED
  BY <1>6, <1>7, <1>8, <1>9 DEF Inv

LEMMA NextInv == Inv /\ [Next]_vars => Inv'
<1> SUFFICES ASSUME Inv, [Next]_vars PROVE Inv'
  OBVIOUS
<1>0. TypeOK /\ now \in Nat /\ MaxTime \in Nat /\ Delays \subseteq Nat
  BY TimerAssumption DEF Inv, TypeOK
<1>1. ASSUME UNCHANGED <<next_firing, armed_timers, nr_armed, cut, view, disarms>>, now' \in Nat PROVE Inv'
  <2>1. TypeOK'
    BY <1>0, <1>1 DEF TypeOK, Filled
  <2>2. ArmedIsPending' /\ HeldOnce'
    BY <1>1 DEF Inv, ArmedIsPending, Pending, HeldOnce, Distinct, Content
  <2>3. HeapSorted'
    BY <1>1 DEF Inv, HeapSorted, Sorted, Comparable, Content, ToInt
  <2> QED
    BY <2>1, <2>2, <2>3 DEF Inv
<1>2. ASSUME NEW t \in Timers, NEW d \in Delays, timer_arm(t, d) PROVE Inv'
  <2>1. now + d \in 0 .. MaxTime
    BY <1>0, <1>2 DEF timer_arm
  <2> QED
    BY <1>2, <2>1, ArmInv DEF timer_arm
<1>3. ASSUME NEW t \in Timers, NEW w \in 1 .. MaxTime, timer_arm_at(t, w) PROVE Inv'
  <2>1. w \in 0 .. MaxTime
    BY <1>0
  <2> QED
    BY <1>3, <2>1, ArmInv DEF timer_arm_at
<1>4. ASSUME NEW t \in Timers, timer_disarm(t) PROVE Inv'
  <2>1. /\ next_firing' = [next_firing EXCEPT ![t] = 0]
        /\ view' = [view EXCEPT ![t] = "disarmed"]
        /\ disarms' = disarms + 1 /\ armed_timers' = armed_timers /\ nr_armed' = nr_armed /\ now' = now
    BY <1>4 DEF timer_disarm
  <2>2. TypeOK' /\ disarms' # 0
    BY <1>0, <2>1 DEF TypeOK, Filled
  <2>3. ArmedIsPending'
    BY <1>0, <2>1 DEF Inv, TypeOK, ArmedIsPending, Pending
  <2> QED
    BY <2>2, <2>3 DEF Inv, HeldOnce, HeapSorted
<1>5. CASE FireNothing
  BY <1>0, <1>1, <1>5 DEF FireNothing, timerVars
<1>6. CASE timer_manager_delete
  <2>1. /\ armed_timers' = [i \in 0 .. max_timers - 1 |-> NULL] /\ nr_armed' = 0
        /\ view' = [t \in Timers |-> "idle"]
        /\ now' = now /\ next_firing' = next_firing /\ disarms' = disarms
    BY <1>6 DEF timer_manager_delete
  <2>2. TypeOK'
    BY <1>0, <2>1, TimerAssumption DEF TypeOK, Filled
  <2>3. ArmedIsPending' /\ HeldOnce' /\ HeapSorted'
    BY <2>1 DEF ArmedIsPending, HeldOnce, Distinct, HeapSorted, Sorted, Comparable, Content
  <2> QED
    BY <2>2, <2>3 DEF Inv
<1>7. CASE Tick
  BY <1>0, <1>1, <1>7 DEF Tick, timerVars
<1>8. CASE UNCHANGED vars
  BY <1>0, <1>1, <1>8 DEF vars, timerVars
<1> QED
  BY <1>2, <1>3, <1>4, <1>5, <1>6, <1>7, <1>8, FireOnceInv, FireAgainInv DEF Next, FireNext

\* The invariant holds for any timers, capacity, delays and bounds.
THEOREM Invariance == Spec => []Inv
BY InitInv, NextInv, PTL DEF Spec

\* A timer timer_arm accepted is in the heap until it fires, is disarmed or the
\* manager is deleted.
THEOREM ArmedPending == Spec => []ArmedIsPending
<1>1. Inv => ArmedIsPending
  BY DEF Inv
<1> QED
  BY <1>1, Invariance, PTL

\* Without timer_disarm no timer fires that is not armed.
THEOREM FiredOnce == Spec => []FiresOnce
<1>1. Inv => FiresOnce
  BY DEF Inv, HeldOnce, FiresOnce
<1> QED
  BY <1>1, Invariance, PTL

LEMMA SortedEarliest ==
    ASSUME Inv PROVE EarliestFirst
<1> SUFFICES ASSUME disarms = 0, ~cut, nr_armed > 0, NEW t \in Pending
             PROVE  next_firing[armed_timers[0]] <= next_firing[t]
  BY DEF EarliestFirst
<1>1. PICK k \in 0 .. nr_armed - 1 : t = armed_timers[k]
  BY DEF Pending
<1>2. /\ next_firing \in [Timers -> 0 .. MaxTime] /\ MaxTime \in Nat /\ nr_armed \in Nat
      /\ \A i \in 0 .. nr_armed - 1 : armed_timers[i] \in Timers
  BY TimerAssumption DEF Inv, TypeOK, Filled
<1> DEFINE key == Urgency(Timers, next_firing)
<1>3. key \in [Timers -> Int]
  BY <1>2 DEF Urgency
<1>4. Ordered(armed_timers, nr_armed, key)
  BY <1>2, SortedOrdered DEF Inv, HeapSorted, Sorted
<1>5. 0 \in 0 .. nr_armed - 1 /\ armed_timers[0] \in Timers /\ armed_timers[k] \in Timers
  BY <1>2
<1>6. key[armed_timers[0]] = -next_firing[armed_timers[0]] /\ key[armed_timers[k]] = -next_firing[armed_timers[k]]
  BY <1>5 DEF Urgency
<1> HIDE DEF key
<1>7. key[armed_timers[0]] >= key[armed_timers[k]]
  BY <1>2, <1>3, <1>4, RootGreatest
<1>8. next_firing[armed_timers[0]] \in Int /\ next_firing[armed_timers[k]] \in Int
  BY <1>2, <1>5
<1> QED
  BY <1>1, <1>6, <1>7, <1>8

\* The timer timer_manager_fire_next looks at is the one due first, as long as
\* timer_disarm is not used and no two deadlines too far apart for an int have met in
\* the heap.
THEOREM EarliestAtRoot == Spec => []EarliestFirst
<1>1. Inv => EarliestFirst
  BY SortedEarliest
<1> QED
  BY <1>1, Invariance, PTL

\* The caller of timer_manager_fire_next may then sleep until *pnext.
THEOREM SleepSafe == Spec => SleepIsSafe
<1>1. ASSUME Inv, EarliestFirst', Next
      PROVE  disarms = 0 /\ ~cut' /\ nr_armed' > 0 /\ FireNext =>
                \A t \in Pending' : pnext' <= next_firing'[t]
  <2> SUFFICES ASSUME disarms = 0, ~cut', nr_armed' > 0, FireNext, NEW t \in Pending'
               PROVE  pnext' <= next_firing'[t]
    OBVIOUS
  <2>1. disarms' = disarms /\ pnext' = next_firing'[armed_timers'[0]]
    <3>1. CASE FireNothing
      BY <3>1 DEF FireNothing, timerVars
    <3>2. CASE FireOnce
      <4>1. nr_armed \in Nat
        BY <1>1, TimerAssumption DEF Inv, TypeOK
      <4> QED
        BY <3>2, <4>1 DEF FireOnce
    <3>3. ASSUME NEW d \in Delays, FireAgain(d)
          PROVE  disarms' = disarms /\ pnext' = next_firing'[armed_timers'[0]]
      BY <3>3 DEF FireAgain
    <3> QED
      BY <3>1, <3>2, <3>3 DEF FireNext
  <2> QED
    BY <1>1, <2>1 DEF EarliestFirst
<1>2. Inv /\ EarliestFirst' /\ [Next]_vars =>
         [disarms = 0 /\ ~cut' /\ nr_armed' > 0 /\ FireNext =>
             \A t \in Pending' : pnext' <= next_firing'[t]]_vars
  BY <1>1
<1>3. Inv => EarliestFirst
  BY SortedEarliest
<1> QED
  BY <1>2, <1>3, Invariance, PTL DEF Spec, SleepIsSafe

-------------------------------------------------------------------------------
(* The heap by itself: FixedHeap.                                          *)

HeapTyped ==
    /\ capacity \in Nat
    /\ entries \in 0 .. capacity
    /\ Filled(heap, capacity, entries, Items, Items \cup {NULL})

HeapInv ==
    /\ HeapTyped
    /\ Content(heap, entries) = inside
    /\ Distinct(heap, entries)
    /\ ~removed => Ordered(heap, entries, Key)

LEMMA KeyOrders == OrdersBy(compare, Items, Key)
<1>1. Key \in [Items -> Int]
  BY KeyAssumption
<1>2. \A x, y \in Items : compare[x][y] = Key[x] - Key[y] /\ Key[x] \in Int /\ Key[y] \in Int
  BY <1>1 DEF compare
<1> QED
  BY <1>1, <1>2 DEF OrdersBy

LEMMA HeapInitInv ==
    ASSUME HeapInit PROVE HeapInv
<1>1. /\ heap = [i \in 0 .. max_items - 1 |-> NULL] /\ capacity = max_items /\ entries = 0
      /\ inside = {} /\ max_items \in Nat
  BY SizesAssumption DEF HeapInit
<1>2. HeapTyped
  BY <1>1 DEF HeapTyped, Filled
<1> QED
  BY <1>1, <1>2 DEF HeapInv, Content, Distinct, Ordered

LEMMA HeapPush ==
    ASSUME HeapInv, NEW x \in Items, fixed_heap_push(x) PROVE HeapInv'
<1>1. /\ x \notin inside /\ entries < capacity
      /\ heap' = __fixed_heap_insert(heap, x, entries, compare)
      /\ entries' = entries + 1 /\ inside' = inside \cup {x}
      /\ capacity' = capacity /\ removed' = removed
  BY DEF fixed_heap_push
<1>2. /\ capacity \in Nat /\ entries \in 0 .. capacity - 1 /\ Items \subseteq Items \cup {NULL}
      /\ Filled(heap, capacity, entries, Items, Items \cup {NULL})
  BY <1>1 DEF HeapInv, HeapTyped
<1>3. ItemAdded(heap, heap', capacity, entries, Items, Items \cup {NULL}, x, compare)
  BY <1>1, <1>2, Inserted
<1>4. HeapTyped'
  BY <1>1, <1>2, <1>3 DEF HeapTyped, ItemAdded
<1>5. Content(heap', entries') = inside' /\ Distinct(heap', entries')
  BY <1>1, <1>3 DEF HeapInv, ItemAdded
<1>6. ~removed' => Ordered(heap', entries', Key)
  BY <1>1, <1>3, KeyOrders DEF HeapInv, ItemAdded
<1> QED
  BY <1>4, <1>5, <1>6 DEF HeapInv, Content, Distinct, Ordered

LEMMA HeapPop ==
    ASSUME HeapInv, fixed_heap_pop PROVE HeapInv'
<1>1. /\ entries > 0
      /\ heap' = PopRoot(heap, entries, compare)
      /\ entries' = entries - 1 /\ inside' = inside \ {heap[0]}
      /\ capacity' = capacity /\ removed' = removed
  BY DEF fixed_heap_pop
<1>2. /\ capacity \in Nat /\ entries \in 1 .. capacity /\ Items \subseteq Items \cup {NULL}
      /\ NULL \in Items \cup {NULL} /\ entries - 1 \in 0 .. capacity
      /\ Filled(heap, capacity, entries, Items, Items \cup {NULL})
  BY <1>1 DEF HeapInv, HeapTyped
<1>3. RootTaken(heap, heap', capacity, entries, Items, Items \cup {NULL}, compare)
  BY <1>1, <1>2, PoppedRoot
<1>4. HeapTyped'
  BY <1>1, <1>2, <1>3 DEF HeapTyped, RootTaken
<1>5. Content(heap', entries') = inside' /\ Distinct(heap', entries')
  BY <1>1, <1>3 DEF HeapInv, RootTaken
<1>6. ~removed' => Ordered(heap', entries', Key)
  BY <1>1, <1>3, KeyOrders DEF HeapInv, RootTaken
<1> QED
  BY <1>4, <1>5, <1>6 DEF HeapInv, Content, Distinct, Ordered

\* The last entry takes the place of the removed one: the rest stays, each once.
LEMMA HeapRemove ==
    ASSUME HeapInv, NEW x \in Items, fixed_heap_remove_item(x) PROVE HeapInv'
<1>1. PICK i \in 0 .. entries - 1 :
         /\ heap[i] = x
         /\ heap' = __fixed_heap_heapify([heap EXCEPT ![i] = heap[entries - 1]],
                                            entries - 1, i, compare)
  BY DEF fixed_heap_remove_item
<1>2. entries' = entries - 1 /\ inside' = inside \ {x} /\ removed' = TRUE /\ capacity' = capacity
  BY DEF fixed_heap_remove_item
<1> DEFINE g == [heap EXCEPT ![i] = heap[entries - 1]]
           n == entries - 1
           V == Items \cup {NULL}
<1>3. /\ capacity \in Nat /\ entries \in 1 .. capacity /\ n \in 0 .. capacity
      /\ i \in 0 .. capacity - 1 /\ i \in 0 .. n /\ entries = n + 1
      /\ heap \in [0 .. capacity - 1 -> V]
      /\ \A k \in 0 .. n : heap[k] \in Items
  BY DEF HeapInv, HeapTyped, Filled
<1>4. /\ g \in [0 .. capacity - 1 -> V]
      /\ \A k \in 0 .. n - 1 : g[k] = IF k = i THEN heap[n] ELSE heap[k]
  BY <1>3
<1>5. heap' = __fixed_heap_heapify(g, n, i, compare)
  BY <1>1
<1>6. Distinct(heap, n + 1) /\ Content(heap, n + 1) = inside
  BY <1>3 DEF HeapInv
<1>7. entries' = n
  BY <1>2
<1> HIDE DEF g, n, V
<1>8. heap' \in [0 .. capacity - 1 -> V] /\ Permuted(g, heap', n)
  BY <1>3, <1>4, <1>5, HeapifyPermutes
<1>9. Content(heap', n) = Content(g, n) /\ (Distinct(g, n) => Distinct(heap', n))
  BY <1>8, PermutedContent
<1>10. \A k, l \in 0 .. n : heap[k] = heap[l] => k = l
  BY <1>3, <1>6 DEF Distinct
<1>11. Distinct(g, n)
  <2> SUFFICES ASSUME NEW k \in 0 .. n - 1, NEW l \in 0 .. n - 1, g[k] = g[l] PROVE k = l
    BY DEF Distinct
  <2>1. k \in 0 .. n /\ l \in 0 .. n /\ n \in 0 .. n /\ k # n /\ l # n
    BY <1>3
  <2>2. CASE k # i /\ l # i
    BY <1>4, <1>10, <2>1, <2>2
  <2>3. CASE k = i /\ l # i
    <3>1. heap[n] = heap[l]
      BY <1>4, <2>3
    <3> QED
      BY <1>10, <2>1, <3>1
  <2>4. CASE k # i /\ l = i
    <3>1. heap[n] = heap[k]
      BY <1>4, <2>4
    <3> QED
      BY <1>10, <2>1, <3>1
  <2> QED
    BY <2>2, <2>3, <2>4
<1>12. Content(g, n) = inside \ {x}
  <2>1. inside = {heap[k] : k \in 0 .. n}
    BY <1>3, <1>6 DEF Content
  <2>2. ASSUME NEW k \in 0 .. n - 1 PROVE g[k] \in inside \ {x}
    <3>1. k \in 0 .. n /\ n \in 0 .. n /\ k # n
      BY <1>3
    <3>2. CASE k = i
      <4>1. g[k] = heap[n] /\ heap[n] # heap[i]
        BY <1>3, <1>4, <1>10, <3>1, <3>2
      <4> QED
        BY <1>1, <2>1, <3>1, <4>1
    <3>3. CASE k # i
      <4>1. g[k] = heap[k] /\ heap[k] # heap[i]
        BY <1>3, <1>4, <1>10, <3>1, <3>3
      <4> QED
        BY <1>1, <2>1, <3>1, <4>1
    <3> QED
      BY <3>2, <3>3
  <2>3. ASSUME NEW y \in inside, y # x PROVE \E k \in 0 .. n - 1 : y = g[k]
    <3>1. PICK l \in 0 .. n : y = heap[l]
      BY <2>1
    <3>2. l # i
      BY <1>1, <2>3, <3>1
    <3>3. CASE l = n
      <4>1. i \in 0 .. n - 1 /\ g[i] = y
        BY <1>3, <1>4, <3>1, <3>2, <3>3
      <4> QED
        BY <4>1
    <3>4. CASE l # n
      <4>1. l \in 0 .. n - 1 /\ g[l] = y
        BY <1>3, <1>4, <3>1, <3>2, <3>4
      <4> QED
        BY <4>1
    <3> QED
      BY <3>3, <3>4
  <2> QED
    BY <2>2, <2>3 DEF Content
<1>13. inside \subseteq Items
  BY <1>3, <1>6 DEF Content
<1>14. \A k \in 0 .. n - 1 : heap'[k] \in Items
  BY <1>9, <1>12, <1>13 DEF Content
<1>15. HeapTyped'
  BY <1>2, <1>3, <1>7, <1>8, <1>14 DEF HeapTyped, Filled, V
<1>16. Content(heap', entries') = inside' /\ Distinct(heap', entries')
  BY <1>2, <1>7, <1>9, <1>11, <1>12
<1> QED
  BY <1>2, <1>15, <1>16 DEF HeapInv, Content, Distinct, Ordered

LEMMA HeapResize ==
    ASSUME HeapInv, NEW n \in Sizes, fixed_heap_resize(n) PROVE HeapInv'
<1>1. entries' = entries /\ inside' = inside /\ removed' = removed /\ n >= entries /\ n \in Nat
  BY SizesAssumption DEF fixed_heap_resize, ResizeAllowed
<1>2. CASE n = 0
  <2>1. heap' = heap /\ capacity' = capacity
    BY <1>2 DEF fixed_heap_resize
  <2> QED
    BY <1>1, <2>1 DEF HeapInv, HeapTyped, Filled, Content, Distinct, Ordered
<1>3. CASE n # 0
  <2>1. /\ capacity' = n
        /\ heap' = [i \in 0 .. n - 1 |-> IF i < capacity THEN heap[i] ELSE NULL]
    BY <1>3 DEF fixed_heap_resize
  <2>2. /\ capacity \in Nat /\ entries \in 0 .. capacity
        /\ heap \in [0 .. capacity - 1 -> Items \cup {NULL}]
        /\ \A k \in 0 .. entries - 1 : heap[k] \in Items
    BY DEF HeapInv, HeapTyped, Filled
  <2>3. heap' \in [0 .. n - 1 -> Items \cup {NULL}]
    BY <1>1, <2>1, <2>2
  <2>4. \A k \in 0 .. entries - 1 : heap'[k] = heap[k]
    BY <1>1, <2>1, <2>2
  <2>5. HeapTyped'
    BY <1>1, <2>1, <2>2, <2>3, <2>4 DEF HeapTyped, Filled
  <2>6. Content(heap', entries') = inside' /\ Distinct(heap', entries')
    BY <1>1, <2>4 DEF HeapInv, Content, Distinct
  <2>7. ~removed' => Ordered(heap', entries', Key)
    <3> SUFFICES ASSUME ~removed, NEW k \in 1 .. entries - 1
                 PROVE  Key[heap'[FIXED_HEAP_PARENT(k)]] >= Key[heap'[k]]
      BY <1>1 DEF Ordered
    <3>1. FIXED_HEAP_PARENT(k) \in 0 .. entries - 1 /\ k \in 0 .. entries - 1
      BY <2>2, Parents
    <3> QED
      BY <2>4, <3>1 DEF HeapInv, Ordered
  <2> QED
    BY <2>5, <2>6, <2>7 DEF HeapInv, Content, Distinct, Ordered
<1> QED
  BY <1>2, <1>3

LEMMA HeapNextInv ==
    ASSUME HeapInv, [HeapNext]_heapVars PROVE HeapInv'
<1>1. CASE fixed_heap_delete
  <2>1. /\ heap' = [i \in 0 .. max_items - 1 |-> NULL] /\ capacity' = max_items /\ entries' = 0
        /\ inside' = {} /\ max_items \in Nat
    BY <1>1, SizesAssumption DEF fixed_heap_delete
  <2>2. HeapTyped'
    BY <2>1 DEF HeapTyped, Filled
  <2> QED
    BY <2>1, <2>2 DEF HeapInv, Content, Distinct, Ordered
<1>2. CASE UNCHANGED heapVars
  BY <1>2 DEF heapVars, HeapInv, HeapTyped, Filled, Content, Distinct, Ordered
<1> QED
  BY <1>1, <1>2, HeapPush, HeapPop, HeapRemove, HeapResize DEF HeapNext

LEMMA DistinctCount ==
    ASSUME NEW h, NEW n \in Nat, Distinct(h, n)
    PROVE  Cardinality(Content(h, n)) = n
<1> DEFINE b == [k \in 0 .. n - 1 |-> h[k]]
<1>1. b \in Bijection(0 .. n - 1, Content(h, n))
  BY DEF Bijection, Injection, Surjection, IsInjective, Content, Distinct
<1>2. ExistsBijection(0 .. n - 1, Content(h, n))
  BY <1>1 DEF ExistsBijection
<1>3. IsFiniteSet(0 .. n - 1) /\ Cardinality(0 .. n - 1) = IF 0 > n - 1 THEN 0 ELSE n - 1 - 0 + 1
  BY FS_Interval
<1>4. Cardinality(0 .. n - 1) = n
  BY <1>3
<1> QED
  BY <1>2, <1>3, <1>4, FS_Bijection

\* The invariant of FixedHeap.
THEOREM HeapInvariance ==
    HeapSpec => []HeapInv
<1>1. HeapInit => HeapInv
  BY HeapInitInv
<1>2. HeapInv /\ [HeapNext]_heapVars => HeapInv'
  BY HeapNextInv
<1> QED
  BY <1>1, <1>2, PTL DEF HeapSpec

\* The array holds each item pushed and not yet popped or removed, once: for any
\* capacity, any keys and any sequence of calls.
THEOREM ItemsKept ==
    HeapSpec => []NothingLost
<1>1. HeapInv => NothingLost
  <2> SUFFICES ASSUME HeapInv PROVE NothingLost
    OBVIOUS
  <2>1. entries \in Nat /\ Distinct(heap, entries) /\ Content(heap, entries) = inside
    BY DEF HeapInv, HeapTyped
  <2>2. Cardinality(inside) = entries
    BY <2>1, DistinctCount
  <2> QED
    BY <2>1, <2>2 DEF NothingLost, Content
<1> QED
  BY <1>1, HeapInvariance, PTL

\* Until fixed_heap_remove_item is used every sequence of pushes, pops and resizes
\* leaves a heap.
THEOREM HeapStaysOrdered ==
    HeapSpec => []HeapOrdered
<1>1. HeapInv => HeapOrdered
  <2> SUFFICES ASSUME HeapInv, ~removed PROVE IsHeap(heap, entries, compare)
    BY DEF HeapOrdered
  <2>1. /\ entries \in Nat /\ Ordered(heap, entries, Key)
        /\ \A k \in 0 .. entries - 1 : heap[k] \in Items
    BY DEF HeapInv, HeapTyped, Filled
  <2>2. OrdersBy(compare, Items, Key)
    BY KeyOrders
  <2> QED
    BY <2>1, <2>2, OrderedIsHeap
<1> QED
  BY <1>1, HeapInvariance, PTL
=================================================================================
