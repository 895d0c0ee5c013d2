---------------------------- MODULE HashTableProofs ----------------------------
(***************************************************************************)
(* Proofs about HashTable for every set of nodes, every hash, comparison   *)
(* and number of buckets: every bucket heads a ring of exactly its nodes,  *)
(* and ht_find agrees with a search of the whole table.                    *)
(*                                                                         *)
(* BucketsAreRings says what a traversal meets, which no store through a   *)
(* pointer can be compared with.  The inductive invariant names the        *)
(* entries of each ring in their order instead: Ring relates consecutive   *)
(* ones by their links, Lists says that they are the bucket's nodes, and   *)
(* Sorted that they are in the order of their insertion, from which it     *)
(* follows that they are all different.                                    *)
(***************************************************************************)
EXTENDS HashTable, SequenceTheorems, FiniteSetTheorems, WellFoundedInduction, TLAPS

-------------------------------------------------------------------------------
(* Traversals.                                                             *)

\* Induction over a set of natural numbers, from the least one it does not hold.
LEMMA NatSet ==
    ASSUME NEW T, 0 \in T, \A n \in Nat : n \in T => n + 1 \in T
    PROVE  Nat \subseteq T
<1> SUFFICES ASSUME Nat \ T # {} PROVE FALSE
  OBVIOUS
<1>1. IsWellFoundedOn(OpToRel(<, Nat), Nat)
  BY NatLessThanWellFounded
<1>2. PICK n \in Nat \ T : \A m \in Nat \ T : ~(<<m, n>> \in OpToRel(<, Nat))
  BY <1>1, WFMin
<1>3. \A m \in Nat \ T : ~(m < n)
  BY <1>2 DEF OpToRel
<1>4. n # 0 /\ n - 1 \in Nat
  OBVIOUS
<1>5. n - 1 \in T
  BY <1>3, <1>4
<1> QED
  BY <1>4, <1>5

\* One step of a traversal.
Onward(links_, e) == IF e \in DOMAIN links_.next THEN links_.next[e] ELSE e

\* What Walk's recursion computes, up to any bound.
LEMMA WalkSteps ==
    ASSUME NEW links_, NEW head, NEW bound \in Nat
    PROVE  LET at == Walk(links_, head, bound) IN
           /\ at[0] = links_.next[head]
           /\ \A i \in 0 .. bound - 1 : at[i + 1] = Onward(links_, at[i])
           /\ DOMAIN at = 0 .. bound
<1> DEFINE W(n, f) == [i \in 0 .. n |-> IF i = 0 THEN links_.next[head]
                                       ELSE Onward(links_, f[i - 1])]
           T == {n \in Nat : \E f : f = W(n, f)}
<1>1. 0 \in T
  <2> DEFINE f == [i \in 0 .. 0 |-> links_.next[head]]
  <2>1. f = W(0, f)
    OBVIOUS
  <2> QED
    BY <2>1
<1>2. ASSUME NEW n \in Nat, n \in T PROVE n + 1 \in T
  <2>1. PICK f : f = W(n, f)
    BY <1>2
  <2> DEFINE x == Onward(links_, f[n])
             g == [i \in 0 .. n + 1 |-> IF i <= n THEN f[i] ELSE x]
  <2>2. \A i \in 0 .. n : f[i] = IF i = 0 THEN links_.next[head] ELSE Onward(links_, f[i - 1])
    <3> DEFINE w == W(n, f)
    <3>1. \A i \in 0 .. n : w[i] = IF i = 0 THEN links_.next[head] ELSE Onward(links_, f[i - 1])
      OBVIOUS
    <3>2. f = w
      BY <2>1
    <3> HIDE DEF w
    <3> QED
      BY <3>1, <3>2, Zenon
  <2>3. \A i \in 0 .. n + 1 : g[i] = IF i = 0 THEN links_.next[head] ELSE Onward(links_, g[i - 1])
    <3> HIDE DEF x
    <3> TAKE i \in 0 .. n + 1
    <3>1. CASE i <= n
      <4>1. i \in 0 .. n /\ g[i] = f[i]
        BY <3>1
      <4>2. i # 0 => g[i - 1] = f[i - 1]
        BY <3>1
      <4> HIDE DEF g
      <4> QED
        BY <2>2, <4>1, <4>2
    <3>2. CASE i = n + 1
      <4>1. i # 0 /\ g[i] = x /\ g[i - 1] = f[n]
        BY <3>2
      <4> HIDE DEF g
      <4> QED
        BY <4>1 DEF x
    <3> QED
      BY <3>1, <3>2
  <2>4. g = W(n + 1, g)
    <3>1. g = [i \in 0 .. n + 1 |-> g[i]]
      OBVIOUS
    <3> HIDE DEF g
    <3> QED
      BY <2>3, <3>1
  <2>5. \E d : d = W(n + 1, d)
    <3> HIDE DEF g, W
    <3> QED
      BY <2>4
  <2> QED
    BY <2>5
<1>3. bound \in T
  <2> HIDE DEF T
  <2> QED
    BY <1>1, <1>2, NatSet
<1> DEFINE at == Walk(links_, head, bound)
<1>4. at = CHOOSE f : f = W(bound, f)
  BY DEF Walk, Onward
<1>5. at = W(bound, at)
  <2> HIDE DEF at
  <2> QED
    BY <1>3, <1>4
<1>6. \A i \in 0 .. bound : at[i] = IF i = 0 THEN links_.next[head] ELSE Onward(links_, at[i - 1])
  <2> DEFINE w == W(bound, at)
  <2> HIDE DEF at
  <2>1. \A i \in 0 .. bound : w[i] = IF i = 0 THEN links_.next[head] ELSE Onward(links_, at[i - 1])
    OBVIOUS
  <2>2. at = w
    BY <1>5
  <2> HIDE DEF w
  <2> QED
    BY <2>1, <2>2, Zenon
<1>7. DOMAIN at = 0 .. bound
  <2> DEFINE w == W(bound, at)
  <2> HIDE DEF at
  <2>1. DOMAIN w = 0 .. bound
    OBVIOUS
  <2>2. at = w
    BY <1>5
  <2> HIDE DEF w
  <2> QED
    BY <2>1, <2>2
<1>8. \A i \in 0 .. bound - 1 : i + 1 \in 0 .. bound /\ i + 1 # 0 /\ (i + 1) - 1 = i
  OBVIOUS
<1> HIDE DEF at
<1> QED
  BY <1>6, <1>7, <1>8 DEF at

-------------------------------------------------------------------------------
(* Rings.                                                                  *)

\* The links go from b through c[1] .. c[k] and back to b, both ways.
Ring(nx, pv, b, c, k) ==
    /\ c[0] = b /\ c[k + 1] = b
    /\ \A i \in 0 .. k : nx[c[i]] = c[i + 1] /\ pv[c[i + 1]] = c[i]

\* c[1] .. c[k] are the members of S.
Lists(c, k, S) ==
    /\ \A i \in 1 .. k : c[i] \in S
    /\ \A n \in S : \E i \in 1 .. k : c[i] = n

\* All entries of the ring are different.
Distinct(c, k) == \A i, j \in 0 .. k : c[i] = c[j] => i = j

\* A new entry between the last one and the head.
Longer(c, k, n, b) == [i \in 0 .. k + 2 |-> IF i <= k THEN c[i] ELSE IF i = k + 1 THEN n ELSE b]

\* The ring without its d-th entry.
Shorter(c, k, d) == [i \in 0 .. k |-> IF i < d THEN c[i] ELSE c[i + 1]]

\* The links are those in old but for n between last and head.
Inserted(E, old, new, last, n, head) ==
    /\ new.next[last] = n /\ new.next[n] = head /\ new.prev[n] = last /\ new.prev[head] = n
    /\ \A e \in E : e # n /\ e # last => new.next[e] = old.next[e]
    /\ \A e \in E : e # n /\ e # head => new.prev[e] = old.prev[e]

\* The links are those in old but for n, which its neighbours do not know any more.
Unlinked(E, old, new, n) ==
    LET p == old.prev[n]
        q == old.next[n]
    IN  /\ new.next[p] = q /\ new.prev[q] = p
        /\ \A e \in E : e # n /\ e # p => new.next[e] = old.next[e]
        /\ \A e \in E : e # n /\ e # q => new.prev[e] = old.prev[e]

\* A ring with a node appended is a ring.
LEMMA RingAppend ==
    ASSUME NEW E, NEW old, NEW new, NEW k \in Nat,
           NEW c \in [0 .. k + 1 -> E], NEW b \in E, NEW n \in E,
           \A i \in 0 .. k : c[i] # n, Distinct(c, k), Ring(old.next, old.prev, b, c, k),
           Inserted(E, old, new, c[k], n, b)
    PROVE  /\ Longer(c, k, n, b) \in [0 .. (k + 1) + 1 -> E]
           /\ Ring(new.next, new.prev, b, Longer(c, k, n, b), k + 1)
<1> DEFINE d == Longer(c, k, n, b)
           nx == old.next
           pv == old.prev
           ny == new.next
           pw == new.prev
<1>0. /\ ny[c[k]] = n /\ ny[n] = b /\ pw[n] = c[k] /\ pw[b] = n
      /\ \A e \in E : e # n /\ e # c[k] => ny[e] = nx[e]
      /\ \A e \in E : e # n /\ e # b => pw[e] = pv[e]
      /\ Ring(nx, pv, b, c, k)
  BY DEF Inserted
<1> HIDE DEF nx, pv, ny, pw
<1>1. d \in [0 .. (k + 1) + 1 -> E]
  BY DEF Longer
<1>2. /\ \A i \in 0 .. k : d[i] = c[i]
      /\ d[k + 1] = n /\ d[(k + 1) + 1] = b
  BY DEF Longer
<1>3. c[0] = b /\ c[k + 1] = b /\ b # n /\ c[k] \in E /\ c[k] # n
  BY <1>0 DEF Ring
<1> HIDE DEF d
<1>4. ASSUME NEW i \in 0 .. k + 1 PROVE ny[d[i]] = d[i + 1] /\ pw[d[i + 1]] = d[i]
  <2>1. CASE i < k
    <3>1. i \in 0 .. k /\ i + 1 \in 0 .. k /\ k \in 0 .. k /\ i # k /\ i + 1 # 0 /\ 0 \in 0 .. k
      BY <2>1
    <3>2. c[i] \in E /\ c[i + 1] \in E /\ c[i] # c[k] /\ c[i + 1] # b
      BY <1>3, <3>1 DEF Distinct
    <3>3. c[i] # n /\ c[i + 1] # n /\ d[i] = c[i] /\ d[i + 1] = c[i + 1]
      BY <1>2, <3>1
    <3>4. nx[c[i]] = c[i + 1] /\ pv[c[i + 1]] = c[i]
      BY <1>0, <3>1 DEF Ring
    <3> QED
      BY <1>0, <3>2, <3>3, <3>4
  <2>2. CASE i = k
    BY <1>0, <1>2, <2>2
  <2>3. CASE i = k + 1
    BY <1>0, <1>2, <2>3
  <2> QED
    BY <2>1, <2>2, <2>3
<1>5. d[0] = b
  BY <1>2, <1>3
<1>6. Ring(ny, pw, b, d, k + 1)
  BY <1>2, <1>4, <1>5 DEF Ring
<1> QED
  BY <1>1, <1>6 DEF d, ny, pw

\* A ring without one of its nodes is a ring.
LEMMA RingDelete ==
    ASSUME NEW E, NEW old, NEW new, NEW k \in Nat,
           NEW c \in [0 .. k + 1 -> E], NEW b \in E, NEW d \in 1 .. k,
           Distinct(c, k), Ring(old.next, old.prev, b, c, k), Unlinked(E, old, new, c[d])
    PROVE  /\ Shorter(c, k, d) \in [0 .. (k - 1) + 1 -> E]
           /\ Ring(new.next, new.prev, b, Shorter(c, k, d), k - 1)
<1> DEFINE s == Shorter(c, k, d)
           nx == old.next
           pv == old.prev
           ny == new.next
           pw == new.prev
<1>0. /\ ny[pv[c[d]]] = nx[c[d]] /\ pw[nx[c[d]]] = pv[c[d]]
      /\ \A e \in E : e # c[d] /\ e # pv[c[d]] => ny[e] = nx[e]
      /\ \A e \in E : e # c[d] /\ e # nx[c[d]] => pw[e] = pv[e]
      /\ Ring(nx, pv, b, c, k)
  BY DEF Unlinked
<1> HIDE DEF nx, pv, ny, pw
<1>1. s \in [0 .. (k - 1) + 1 -> E] /\ k - 1 \in Nat
  BY DEF Shorter
<1>2. \A i \in 0 .. k : s[i] = IF i < d THEN c[i] ELSE c[i + 1]
  BY DEF Shorter
<1>3. nx[c[d]] = c[d + 1] /\ pv[c[d]] = c[d - 1]
  <2>1. d \in 0 .. k /\ d - 1 \in 0 .. k /\ (d - 1) + 1 = d
    OBVIOUS
  <2>2. nx[c[d]] = c[d + 1]
    BY <1>0, <2>1 DEF Ring
  <2>3. pv[c[(d - 1) + 1]] = c[d - 1]
    BY <1>0, <2>1 DEF Ring
  <2> QED
    BY <2>1, <2>2, <2>3
<1>4. c[0] = b /\ c[k + 1] = b
  BY <1>0 DEF Ring
<1> HIDE DEF s
<1>5. ASSUME NEW i \in 0 .. k - 1 PROVE ny[s[i]] = s[i + 1] /\ pw[s[i + 1]] = s[i]
  <2>1. CASE i = d - 1
    <3>1. i < d /\ ~(i + 1 < d) /\ i \in 0 .. k /\ i + 1 \in 0 .. k /\ (i + 1) + 1 = d + 1
      BY <2>1
    <3>2. s[i] = c[d - 1] /\ s[i + 1] = c[d + 1]
      BY <1>2, <2>1, <3>1
    <3> QED
      BY <1>0, <1>3, <3>2
  <2>2. ASSUME NEW j \in 0 .. k, j # d - 1, j # d, s[i] = c[j], s[i + 1] = c[j + 1]
        PROVE  ny[s[i]] = s[i + 1] /\ pw[s[i + 1]] = s[i]
    <3>1. nx[c[j]] = c[j + 1] /\ pv[c[j + 1]] = c[j]
      BY <1>0 DEF Ring
    <3>2. d \in 0 .. k /\ d - 1 \in 0 .. k /\ c[j] \in E /\ c[j + 1] \in E
      OBVIOUS
    <3>3. c[j] # c[d] /\ c[j] # c[d - 1]
      BY <2>2, <3>2 DEF Distinct
    <3>4. c[j + 1] # c[d] /\ c[j + 1] # c[d + 1]
      <4>1. nx[c[d]] = c[d + 1] /\ pv[c[d + 1]] = c[d] /\ pv[c[d]] = c[d - 1]
        BY <1>0, <1>3, <3>2 DEF Ring
      <4> QED
        BY <3>1, <3>3, <4>1
    <3> QED
      BY <1>0, <1>3, <2>2, <3>1, <3>2, <3>3, <3>4
  <2>3. CASE i < d - 1
    <3>1. i \in 0 .. k /\ i # d - 1 /\ i # d /\ i < d /\ i + 1 < d /\ i + 1 \in 0 .. k
      BY <2>3
    <3> QED
      BY <1>2, <2>2, <3>1
  <2>4. CASE i >= d
    <3>1. /\ i + 1 \in 0 .. k /\ i \in 0 .. k /\ i + 1 # d - 1 /\ i + 1 # d
          /\ ~(i < d) /\ ~(i + 1 < d)
      BY <2>4
    <3> QED
      BY <1>2, <2>2, <3>1
  <2> QED
    BY <2>1, <2>3, <2>4
<1>6. s[0] = b /\ s[(k - 1) + 1] = b
  <2>1. (k - 1) + 1 = k /\ ~(k < d) /\ 0 < d
    OBVIOUS
  <2> QED
    BY <1>2, <1>4, <2>1
<1>7. Ring(ny, pw, b, s, k - 1)
  BY <1>5, <1>6 DEF Ring
<1> QED
  BY <1>1, <1>7 DEF s, ny, pw

\* Stores elsewhere leave a ring alone.
LEMMA RingKept ==
    ASSUME NEW nx, NEW pv, NEW ny, NEW pw, NEW b, NEW k \in Nat, NEW c,
           Ring(nx, pv, b, c, k),
           \A i \in 0 .. k : ny[c[i]] = nx[c[i]] /\ pw[c[i]] = pv[c[i]]
    PROVE  Ring(ny, pw, b, c, k)
<1> SUFFICES ASSUME NEW i \in 0 .. k PROVE ny[c[i]] = c[i + 1] /\ pw[c[i + 1]] = c[i]
  BY DEF Ring
<1>1. nx[c[i]] = c[i + 1] /\ pv[c[i + 1]] = c[i] /\ c[k + 1] = c[0]
  BY DEF Ring
<1>2. CASE i + 1 \in 0 .. k
  BY <1>1, <1>2
<1>3. CASE i + 1 = k + 1
  <2>1. c[i + 1] = c[0] /\ 0 \in 0 .. k
    BY <1>1, <1>3
  <2> QED
    BY <1>1, <2>1
<1> QED
  BY <1>2, <1>3

\* The entries c[0] .. c[k + 1] of the links are a ring with head b.
Circle(links_, b, c, k) ==
    /\ c \in [0 .. k + 1 -> DOMAIN links_.next]
    /\ Ring(links_.next, links_.prev, b, c, k)

\* A traversal meets the entries of a ring in their order.
LEMMA RingWalk ==
    ASSUME NEW links_, NEW b, NEW c, NEW k \in Nat, NEW bound \in Nat,
           Circle(links_, b, c, k)
    PROVE  \A i \in 0 .. k : i <= bound => Walk(links_, b, bound)[i] = c[i + 1]
<1> DEFINE at == Walk(links_, b, bound)
           T == {i \in Nat : i \in 0 .. k /\ i <= bound => at[i] = c[i + 1]}
<1>1. /\ at[0] = links_.next[b]
      /\ \A i \in 0 .. bound - 1 : at[i + 1] = Onward(links_, at[i])
  BY WalkSteps
<1> HIDE DEF at
<1>2. 0 \in T
  BY <1>1 DEF Circle, Ring
<1>3. ASSUME NEW i \in Nat, i \in T PROVE i + 1 \in T
  <2> SUFFICES ASSUME i + 1 \in 0 .. k, i + 1 <= bound PROVE at[i + 1] = c[(i + 1) + 1]
    OBVIOUS
  <2>1. i \in 0 .. k /\ i <= bound /\ i \in 0 .. bound - 1
    OBVIOUS
  <2>2. at[i] = c[i + 1] /\ at[i + 1] = Onward(links_, at[i])
    BY <1>1, <1>3, <2>1
  <2>3. links_.next[c[i + 1]] = c[(i + 1) + 1]
    BY DEF Circle, Ring
  <2>4. c[i + 1] \in DOMAIN links_.next
    BY DEF Circle
  <2> QED
    BY <2>2, <2>3, <2>4 DEF Onward
<1>4. \A i \in Nat : i \in T
  <2> HIDE DEF T
  <2> QED
    BY <1>2, <1>3, NatSet
<1> QED
  BY <1>4 DEF at

\* The number of entries of a ring is the number of members of its list.
LEMMA RingSize ==
    ASSUME NEW k \in Nat, NEW c, NEW S, Distinct(c, k), Lists(c, k, S)
    PROVE  Cardinality(S) = k
<1> DEFINE f == [i \in 1 .. k |-> c[i]]
<1>1. f \in Bijection(1 .. k, S)
  <2>1. f \in [1 .. k -> S]
    BY DEF Lists
  <2>2. \A i, j \in 1 .. k : f[i] = f[j] => i = j
    BY DEF Distinct
  <2>3. \A n \in S : \E i \in 1 .. k : f[i] = n
    BY DEF Lists
  <2> HIDE DEF f
  <2>4. f \in Injection(1 .. k, S)
    BY <2>1, <2>2 DEF Injection, IsInjective
  <2>5. f \in Surjection(1 .. k, S)
    BY <2>1, <2>3 DEF Surjection
  <2> QED
    BY <2>4, <2>5 DEF Bijection
<1>2. ExistsBijection(1 .. k, S)
  BY <1>1 DEF ExistsBijection
<1> HIDE DEF f
<1>3. IsFiniteSet(1 .. k) /\ Cardinality(1 .. k) = k
  <2>1. IsFiniteSet(1 .. k) /\ Cardinality(1 .. k) = IF 1 > k THEN 0 ELSE k - 1 + 1
    BY FS_Interval
  <2>2. (IF 1 > k THEN 0 ELSE k - 1 + 1) = k
    OBVIOUS
  <2> QED
    BY <2>1, <2>2
<1> QED
  BY <1>2, <1>3, FS_Bijection

-------------------------------------------------------------------------------
(* The stores of the list operations.                                      *)

LinksOf(E, P) == [next : [E -> P], prev : [E -> P]]

\* What appending writes.
LEMMA AppendStores ==
    ASSUME NEW E, NEW P, E \subseteq P, NEW links_ \in LinksOf(E, P), NEW head \in E, NEW n \in E,
           NEW last \in E, links_.prev[head] = last, n # head, n # last,
           NEW m, m = list_append(links_, head, n)
    PROVE  /\ m \in LinksOf(E, P)
           /\ Inserted(E, links_, m, last, n, head)
BY DEF Inserted, list_append, __list_add, SetNext, SetPrev, LinksOf

\* What deleting writes.
LEMMA DelStores ==
    ASSUME NEW E, NEW P, E \subseteq P, {LIST_POISON_NEXT, LIST_POISON_PREV} \subseteq P,
           NEW links_ \in LinksOf(E, P), NEW n \in E,
           NEW p \in E, NEW q \in E, p = links_.prev[n], q = links_.next[n], p # n, q # n,
           NEW m, m = list_del(links_, n)
    PROVE  /\ m \in LinksOf(E, P)
           /\ Unlinked(E, links_, m, n)
BY DEF Unlinked, list_del, __list_del, SetNext, SetPrev, LinksOf

-------------------------------------------------------------------------------
(* The order of insertion.                                                 *)

Before(t, m, n) == \E i, j \in DOMAIN t : i < j /\ t[i] = m /\ t[j] = n
OnceEach(t)     == \A i, j \in DOMAIN t : t[i] = t[j] => i = j
In(t, n)        == \E i \in DOMAIN t : t[i] = n

\* The entries of a ring are in the order in which they came.
Sorted(c, k, t) == \A i, j \in 1 .. k : i < j => Before(t, c[i], c[j])

\* The order of insertions with a node appended.
LEMMA TableAppend ==
    ASSUME NEW S, NEW s \in Seq(S), NEW n \in S, OnceEach(s), ~In(s, n)
    PROVE  LET t == Append(s, n) IN
           /\ t \in Seq(S) /\ OnceEach(t)
           /\ \A m : In(t, m) <=> In(s, m) \/ m = n
           /\ \A m, o : Before(s, m, o) => Before(t, m, o)
           /\ \A m : In(s, m) => Before(t, m, n)
<1> DEFINE t == Append(s, n)
<1>1. Len(s) \in Nat /\ DOMAIN s = 1 .. Len(s) /\ t \in Seq(S) /\ Len(t) = Len(s) + 1
  BY AppendProperties, LenProperties
<1>2. DOMAIN t = 1 .. Len(s) + 1 /\ t[Len(s) + 1] = n /\ \A i \in 1 .. Len(s) : t[i] = s[i]
  BY AppendProperties, LenProperties
<1> HIDE DEF t
<1>3. OnceEach(t)
  BY <1>1, <1>2 DEF OnceEach, In
<1>4. \A m : In(t, m) <=> In(s, m) \/ m = n
  BY <1>1, <1>2 DEF In
<1>5. \A m, o : Before(s, m, o) => Before(t, m, o)
  BY <1>1, <1>2 DEF Before
<1>6. \A m : In(s, m) => Before(t, m, n)
  <2> SUFFICES ASSUME NEW m, NEW i \in DOMAIN s, s[i] = m PROVE Before(t, m, n)
    BY DEF In
  <2>1. i \in DOMAIN t /\ Len(s) + 1 \in DOMAIN t /\ i < Len(s) + 1 /\ t[i] = m
    BY <1>1, <1>2
  <2> QED
    BY <1>2, <2>1 DEF Before
<1> QED
  BY <1>1, <1>3, <1>4, <1>5, <1>6 DEF t

\* The order of insertions with a node taken out.
LEMMA TableDelete ==
    ASSUME NEW S, NEW s \in Seq(S), NEW p, OnceEach(s), In(s, p)
    PROVE  LET t == RemoveAt(s, CHOOSE i \in DOMAIN s : s[i] = p) IN
           /\ t \in Seq(S) /\ OnceEach(t)
           /\ \A m : In(t, m) <=> In(s, m) /\ m # p
           /\ \A m, o : m # p /\ o # p /\ Before(s, m, o) => Before(t, m, o)
<1> DEFINE k == CHOOSE i \in DOMAIN s : s[i] = p
           t == RemoveAt(s, k)
           u == SubSeq(s, 1, k - 1)
           v == SubSeq(s, k + 1, Len(s))
<1>1. Len(s) \in Nat /\ DOMAIN s = 1 .. Len(s) /\ \A i \in 1 .. Len(s) : s[i] \in S
  OBVIOUS
<1>2. k \in 1 .. Len(s) /\ s[k] = p
  BY <1>1 DEF In
<1>3. t = u \o v
  BY DEF RemoveAt
<1> HIDE DEF k, t
<1>4. /\ u \in Seq(S) /\ Len(u) = k - 1
      /\ \A i \in 1 .. k - 1 : u[i] = s[i]
  <2>1. \A i \in 1 .. k - 1 : s[i] \in S
    BY <1>1, <1>2
  <2> QED
    BY <1>1, <1>2, <2>1, SubSeqProperties
<1>5. /\ v \in Seq(S) /\ Len(v) = Len(s) - k
      /\ \A i \in 1 .. Len(s) - k : v[i] = s[k + i]
  <2>1. \A i \in k + 1 .. Len(s) : s[i] \in S
    BY <1>1, <1>2
  <2>2. /\ v \in Seq(S) /\ Len(v) = IF k + 1 <= Len(s) THEN Len(s) - (k + 1) + 1 ELSE 0
        /\ \A i \in 1 .. Len(s) - (k + 1) + 1 : v[i] = s[(k + 1) + i - 1]
    BY <1>1, <1>2, <2>1, SubSeqProperties
  <2> HIDE DEF v
  <2>3. Len(v) = Len(s) - k
    <3>1. CASE k + 1 <= Len(s)
      BY <1>1, <1>2, <2>2, <3>1
    <3>2. CASE k = Len(s)
      <4>1. Len(v) = 0
        BY <1>1, <2>2, <3>2
      <4>2. \A i, j \in Nat : i = j => i - j = 0
        OBVIOUS
      <4> QED
        BY <1>1, <3>2, <4>1, <4>2
    <3>3. k + 1 <= Len(s) \/ k = Len(s)
      <4>1. \A n \in Nat : \A j \in 1 .. n : j + 1 <= n \/ j = n
        OBVIOUS
      <4> QED
        BY <1>1, <1>2, <4>1
    <3> QED
      BY <3>1, <3>2, <3>3
  <2>4. ASSUME NEW i \in 1 .. Len(s) - k
        PROVE  v[i] = s[k + i]
    <3>1. i \in 1 .. Len(s) - (k + 1) + 1 /\ (k + 1) + i - 1 = k + i
      BY <1>1, <1>2
    <3> QED
      BY <2>2, <3>1
  <2> QED
    BY <2>2, <2>3, <2>4
<1> HIDE DEF u, v
<1>6. t \in Seq(S) /\ Len(t) = Len(s) - 1 /\ DOMAIN t = 1 .. Len(s) - 1
  <2>1. t \in Seq(S) /\ Len(t) = Len(u) + Len(v)
    BY <1>3, <1>4, <1>5, ConcatProperties
  <2>2. Len(t) = Len(s) - 1
    BY <1>1, <1>2, <1>4, <1>5, <2>1
  <2> QED
    BY <2>1, <2>2, LenProperties
<1>7. \A i \in 1 .. Len(t) : t[i] = IF i < k THEN s[i] ELSE s[i + 1]
  <2> TAKE i \in 1 .. Len(t)
  <2>1. t[i] = IF i <= k - 1 THEN u[i] ELSE v[i - (k - 1)]
    <3>1. i \in 1 .. Len(u) + Len(v)
      BY <1>1, <1>2, <1>4, <1>5, <1>6
    <3> QED
      BY <1>3, <1>4, <1>5, <3>1, ConcatProperties
  <2>2. CASE i < k
    BY <1>1, <1>2, <1>4, <1>6, <2>1, <2>2
  <2>3. CASE i >= k
    <3>1. i - (k - 1) \in 1 .. Len(s) - k /\ k + (i - (k - 1)) = i + 1
      BY <1>1, <1>2, <1>6, <2>3
    <3> QED
      BY <1>2, <1>5, <2>1, <2>3, <3>1
  <2> QED
    BY <1>1, <1>2, <1>6, <2>2, <2>3
<1>8. \A i \in DOMAIN t : \E j \in DOMAIN s : j # k /\ t[i] = s[j] /\ j = (IF i < k THEN i ELSE i + 1)
  BY <1>1, <1>2, <1>6, <1>7
<1>9. \A j \in DOMAIN s : j # k =>
          LET i == IF j < k THEN j ELSE j - 1 IN i \in DOMAIN t /\ t[i] = s[j]
  <2> SUFFICES ASSUME NEW j \in DOMAIN s, j # k
               PROVE  LET i == IF j < k THEN j ELSE j - 1 IN i \in DOMAIN t /\ t[i] = s[j]
    OBVIOUS
  <2>1. CASE j < k
    BY <1>1, <1>2, <1>6, <1>7, <2>1
  <2>2. CASE j > k
    <3>1. j - 1 \in DOMAIN t /\ ~(j < k) /\ (j - 1) + 1 = j
      BY <1>1, <1>2, <1>6, <2>2
    <3>2. t[j - 1] = s[(j - 1) + 1]
      BY <1>1, <1>2, <1>6, <1>7, <2>2, <3>1
    <3> QED
      BY <3>1, <3>2
  <2> QED
    BY <1>1, <1>2, <2>1, <2>2
<1>10. \A m : In(t, m) <=> In(s, m) /\ m # p
  <2>1. ASSUME NEW m, In(t, m) PROVE In(s, m) /\ m # p
    BY <1>1, <1>2, <1>8, <2>1 DEF In, OnceEach
  <2>2. ASSUME NEW m, In(s, m), m # p PROVE In(t, m)
    BY <1>2, <1>9, <2>2 DEF In
  <2> QED
    BY <2>1, <2>2
<1>11. OnceEach(t)
  <2> SUFFICES ASSUME NEW i \in DOMAIN t, NEW j \in DOMAIN t, t[i] = t[j]
               PROVE  i = j
    BY DEF OnceEach
  <2>1. (IF i < k THEN i ELSE i + 1) = (IF j < k THEN j ELSE j + 1)
    BY <1>8 DEF OnceEach
  <2> QED
    BY <1>1, <1>2, <1>6, <2>1
<1>12. ASSUME NEW m, NEW o, m # p, o # p, Before(s, m, o) PROVE Before(t, m, o)
  <2>1. PICK x \in DOMAIN s, y \in DOMAIN s : x < y /\ s[x] = m /\ s[y] = o
    BY <1>12 DEF Before
  <2> DEFINE i == IF x < k THEN x ELSE x - 1
             j == IF y < k THEN y ELSE y - 1
  <2>2. x # k /\ y # k
    BY <1>2, <1>12, <2>1
  <2>3. i \in DOMAIN t /\ t[i] = m /\ j \in DOMAIN t /\ t[j] = o
    BY <1>9, <2>1, <2>2
  <2>4. i < j
    BY <1>1, <1>2, <2>1, <2>2
  <2> HIDE DEF i, j
  <2> QED
    BY <2>3, <2>4 DEF Before
<1> QED
  BY <1>6, <1>10, <1>11, <1>12 DEF t, k

-------------------------------------------------------------------------------
(* The invariant.                                                          *)

Pointers == Entries \cup {FREED, LIST_POISON_NEXT, LIST_POISON_PREV}

TypeOK ==
    /\ nr_buckets \in BucketCounts \cup {0}
    /\ links \in LinksOf(Entries, Pointers)
    /\ hash = [n \in Nodes |-> hash[n]]
    /\ table \in Seq(Nodes)

\* Every node is in the table at most once, with the hash of its key.
Filed ==
    /\ OnceEach(table)
    /\ nr_buckets = 0 => table = <<>>
    /\ \A n \in Nodes : Stored(n) => hash[n] = Hash[KeyOf[n]]

\* The nodes of each bucket are linked in the order of their insertion.
HasRing(lk, t, S, b) ==
    \E k \in Nat : \E c \in [0 .. k + 1 -> Entries] :
        /\ Ring(lk.next, lk.prev, b, c, k)
        /\ Lists(c, k, S)
        /\ Sorted(c, k, t)

Chained == \A b \in InUse : HasRing(links, table, Chain(b), b)

Inv == TypeOK /\ Filed /\ Chained

\* Every key has its bucket.
LEMMA BucketsInUse ==
    ASSUME TypeOK
    PROVE  /\ InUse \subseteq Buckets
           /\ nr_buckets # 0 => \A key \in Keys : _ht_get_bucket(Hash[key]) \in InUse
           /\ nr_buckets = 0 => InUse = {}
<1>1. nr_buckets \in BucketCounts => InUse \subseteq Buckets
  BY DEF InUse, Buckets
<1>2. nr_buckets = 0 => InUse = {}
  BY DEF InUse
<1>3. nr_buckets # 0 => \A key \in Keys : _ht_get_bucket(Hash[key]) \in InUse
  BY MaskAssumption DEF TypeOK, Keys, _ht_get_bucket, InUse
<1> QED
  BY <1>1, <1>2, <1>3 DEF TypeOK

\* The order of a ring keeps its entries apart.
LEMMA SortedDistinct ==
    ASSUME table \in Seq(Nodes), OnceEach(table), NEW b, b \notin Nodes, NEW k \in Nat, NEW c,
           c[0] = b, Lists(c, k, Chain(b)), Sorted(c, k, table)
    PROVE  Distinct(c, k)
<1>1. \A m : ~Before(table, m, m)
  <2> SUFFICES ASSUME NEW m, Before(table, m, m) PROVE FALSE
    OBVIOUS
  <2>1. PICK i \in DOMAIN table, j \in DOMAIN table : i < j /\ table[i] = m /\ table[j] = m
    BY DEF Before
  <2>2. i = j
    BY <2>1 DEF OnceEach
  <2>3. i < i
    BY <2>1, <2>2
  <2> QED
    BY <2>3
<1>2. \A i \in 1 .. k : c[i] # b
  BY DEF Lists, Chain
<1>3. \A i, j \in 1 .. k : i < j => c[i] # c[j]
  BY <1>1 DEF Sorted
<1>4. ASSUME NEW i \in 0 .. k, NEW j \in 0 .. k, c[i] = c[j] PROVE i = j
  <2>1. i = 0 \/ i \in 1 .. k
    OBVIOUS
  <2>2. j = 0 \/ j \in 1 .. k
    OBVIOUS
  <2>3. CASE i \in 1 .. k /\ j \in 1 .. k
    BY <1>3, <1>4, <2>3
  <2> QED
    BY <1>2, <1>4, <2>1, <2>2, <2>3
<1> QED
  BY <1>4 DEF Distinct

\* A ring is found again in a table whose stores and changes were elsewhere.
LEMMA ChainKept ==
    ASSUME Inv, NEW b \in InUse, b \in InUse', nr_buckets' = nr_buckets,
           NEW n \in Nodes, NEW bn \in InUse, b # bn,
           \A m \in Nodes : m # n => (In(table', m) <=> In(table, m)) /\ hash'[m] = hash[m],
           In(table, n) => _ht_get_bucket(hash[n]) = bn,
           In(table', n) => _ht_get_bucket(hash'[n]) = bn,
           \A e \in Entries : e # n /\ e # bn /\ e \notin Chain(bn) =>
                links'.next[e] = links.next[e] /\ links'.prev[e] = links.prev[e],
           \A m, o : m # n /\ o # n /\ Before(table, m, o) => Before(table', m, o)
    PROVE  HasRing(links', table', Chain(b)', b)
<1>1. PICK k \in Nat : \E c \in [0 .. k + 1 -> Entries] :
          /\ Ring(links.next, links.prev, b, c, k)
          /\ Lists(c, k, Chain(b))
          /\ Sorted(c, k, table)
  BY DEF Inv, Chained, HasRing
<1>2. PICK c \in [0 .. k + 1 -> Entries] :
          /\ Ring(links.next, links.prev, b, c, k)
          /\ Lists(c, k, Chain(b))
          /\ Sorted(c, k, table)
  BY <1>1
<1>3. n \notin Chain(b) /\ n \notin Chain(b)'
  BY DEF Chain, Stored, In, _ht_get_bucket
<1>4. Chain(b)' = Chain(b)
  <2>1. \A m \in Nodes : m # n => (m \in Chain(b)' <=> m \in Chain(b))
    BY DEF Chain, Stored, In, _ht_get_bucket
  <2>2. Chain(b) \subseteq Nodes /\ Chain(b)' \subseteq Nodes
    BY DEF Chain
  <2>3. \A m : m \in Chain(b)' <=> m \in Chain(b)
    BY <1>3, <2>1, <2>2
  <2> QED
    BY <2>3
<1>5. b \notin Nodes /\ bn \notin Nodes
  BY BucketsInUse, NodeAssumption DEF Inv
<1>6. ASSUME NEW i \in 0 .. k
      PROVE  links'.next[c[i]] = links.next[c[i]] /\ links'.prev[c[i]] = links.prev[c[i]]
  <2>1. c[i] \in Entries
    OBVIOUS
  <2>2. c[i] = b \/ c[i] \in Chain(b)
    <3>1. i = 0 \/ i \in 1 .. k
      OBVIOUS
    <3> QED
      BY <1>2, <3>1 DEF Ring, Lists
  <2>3. \A m : m \in Chain(b) => m \notin Chain(bn) /\ m \in Nodes
    BY DEF Chain
  <2>4. c[i] # n /\ c[i] # bn /\ c[i] \notin Chain(bn)
    <3>1. Chain(bn) \subseteq Nodes
      BY DEF Chain
    <3> QED
      BY <1>3, <1>5, <2>2, <2>3, <3>1
  <2> QED
    BY <2>1, <2>4
<1>7. Ring(links'.next, links'.prev, b, c, k)
  BY <1>2, <1>6, RingKept
<1>8. Sorted(c, k, table')
  BY <1>2, <1>3 DEF Sorted, Lists
<1> QED
  BY <1>2, <1>4, <1>7, <1>8 DEF HasRing

-------------------------------------------------------------------------------
(* The operations.                                                         *)

\* An empty list is a ring.
LEMMA InitStep ==
    ASSUME Inv, NEW nr \in BucketCounts, ht_init(nr)
    PROVE  Inv'
<1>1. /\ nr_buckets = 0 /\ nr_buckets' = nr /\ table = <<>> /\ table' = <<>>
      /\ links' = list_init(links, 0 .. nr - 1) /\ hash' = hash
  BY DEF ht_init, Inv, Filed
<1>2. 0 .. nr - 1 \subseteq Buckets /\ InUse' = 0 .. nr - 1 /\ nr # 0
  BY <1>1, CountAssumption DEF InUse, Buckets
<1>3. /\ links' \in LinksOf(Entries, Pointers)
      /\ \A b \in 0 .. nr - 1 : links'.next[b] = b /\ links'.prev[b] = b
  BY <1>1, <1>2 DEF list_init, LinksOf, Inv, TypeOK, Entries, Pointers
<1>4. TypeOK'
  BY <1>1, <1>3 DEF Inv, TypeOK
<1>5. \A n : ~Stored(n)'
  BY <1>1 DEF Stored
<1>6. Filed'
  BY <1>1, <1>2, <1>5 DEF Filed, OnceEach
<1>7. ASSUME NEW b \in InUse'
      PROVE  HasRing(links', table', Chain(b)', b)
  <2> DEFINE c == [i \in 0 .. 0 + 1 |-> b]
  <2>1. c \in [0 .. 0 + 1 -> Entries]
    BY <1>2 DEF Entries
  <2>2. Ring(links'.next, links'.prev, b, c, 0)
    BY <1>2, <1>3 DEF Ring
  <2>3. Lists(c, 0, Chain(b)')
    <3>1. Chain(b)' = {}
      BY <1>5 DEF Chain
    <3> QED
      BY <3>1 DEF Lists
  <2>4. Sorted(c, 0, table')
    BY DEF Sorted
  <2> HIDE DEF c
  <2> QED
    BY <2>1, <2>2, <2>3, <2>4 DEF HasRing
<1>8. Chained'
  BY <1>7 DEF Chained
<1> QED
  BY <1>4, <1>6, <1>8 DEF Inv

\* ht_cleanup keeps the invariant.
LEMMA CleanupStep ==
    ASSUME Inv, ht_cleanup
    PROVE  Inv'
<1> DEFINE Free(f) == [e \in Entries |-> IF e \in Buckets \/ f[e] \in Buckets THEN FREED ELSE f[e]]
<1>1. /\ nr_buckets' = 0 /\ table' = <<>> /\ hash' = hash
      /\ links' = [next |-> Free(links.next), prev |-> Free(links.prev)]
  BY DEF ht_cleanup
<1>2. TypeOK'
  BY <1>1 DEF Inv, TypeOK, LinksOf, Pointers
<1>3. \A n : ~Stored(n)'
  BY <1>1 DEF Stored
<1>4. Filed'
  BY <1>1, <1>3 DEF Filed, OnceEach
<1>5. InUse' = {}
  BY <1>1 DEF InUse
<1> QED
  BY <1>2, <1>4, <1>5 DEF Inv, Chained

\* What is known of the ring of one bucket.
LEMMA PickRing ==
    ASSUME Inv, NEW b \in InUse
    PROVE  \E k \in Nat : \E c \in [0 .. k + 1 -> Entries] :
              /\ Ring(links.next, links.prev, b, c, k)
              /\ Lists(c, k, Chain(b))
              /\ Sorted(c, k, table)
              /\ Distinct(c, k)
<1>1. b \notin Nodes
  BY BucketsInUse, NodeAssumption DEF Inv
<1> QED
  BY <1>1, SortedDistinct DEF Inv, Chained, HasRing, Ring, TypeOK, Filed

\* ht_insert keeps the invariant.
LEMMA InsertStep ==
    ASSUME Inv, NEW n \in Nodes, ht_insert(n)
    PROVE  Inv'
<1>0. nr_buckets # 0
  BY DEF ht_insert
<1>b. PICK bn \in InUse : bn = _ht_get_bucket(Hash[KeyOf[n]])
  BY <1>0, BucketsInUse, NodeAssumption DEF Inv
<1>1. /\ nr_buckets # 0 /\ nr_buckets' = nr_buckets /\ ~In(table, n)
      /\ hash' = [hash EXCEPT ![n] = Hash[KeyOf[n]]]
      /\ links' = list_append(links, bn, n)
      /\ table' = Append(table, n)
  BY <1>b DEF ht_insert, Stored, In
<1>2. bn \in InUse /\ bn \in Entries /\ bn # n /\ bn \notin Nodes /\ InUse' = InUse
  BY <1>1, BucketsInUse, NodeAssumption DEF Inv, Entries, InUse
<1>3. /\ table' \in Seq(Nodes) /\ OnceEach(table')
      /\ \A m : In(table', m) <=> In(table, m) \/ m = n
      /\ \A m, o : Before(table, m, o) => Before(table', m, o)
      /\ \A m : In(table, m) => Before(table', m, n)
  BY <1>1, TableAppend DEF Inv, TypeOK, Filed
<1>4. /\ hash' = [m \in Nodes |-> hash'[m]] /\ hash'[n] = Hash[KeyOf[n]]
      /\ \A m \in Nodes : m # n => hash'[m] = hash[m]
  BY <1>1 DEF Inv, TypeOK
<1>5. _ht_get_bucket(hash'[n]) = bn /\ \A h : _ht_get_bucket(h)' = _ht_get_bucket(h)
  BY <1>1, <1>4, <1>b DEF _ht_get_bucket
<1>. PICK k \in Nat : \E c \in [0 .. k + 1 -> Entries] :
         /\ Ring(links.next, links.prev, bn, c, k)
         /\ Lists(c, k, Chain(bn))
         /\ Sorted(c, k, table)
         /\ Distinct(c, k)
  BY <1>2, PickRing
<1>6. PICK c \in [0 .. k + 1 -> Entries] :
         /\ Ring(links.next, links.prev, bn, c, k)
         /\ Lists(c, k, Chain(bn))
         /\ Sorted(c, k, table)
         /\ Distinct(c, k)
  OBVIOUS
<1>7. n \notin Chain(bn) /\ Chain(bn) \subseteq Nodes /\ \A m \in Chain(bn) : In(table, m)
  BY <1>1 DEF Chain, Stored, In
<1>8. \A i \in 0 .. k : c[i] \in Entries /\ (c[i] = bn \/ c[i] \in Chain(bn)) /\ c[i] # n
  <2> TAKE i \in 0 .. k
  <2>1. c[i] \in Entries
    OBVIOUS
  <2>2. CASE i = 0
    BY <1>2, <1>6, <2>1, <2>2 DEF Ring
  <2>3. CASE i \in 1 .. k
    BY <1>6, <1>7, <2>1, <2>3 DEF Lists
  <2> QED
    BY <2>2, <2>3
<1>9. links.prev[bn] = c[k]
  BY <1>6 DEF Ring
<1>10. n \in Entries /\ c[k] \in Entries /\ c[k] # n /\ Entries \subseteq Pointers
  BY <1>8 DEF Entries, Pointers
<1>11. /\ links' \in LinksOf(Entries, Pointers)
       /\ Inserted(Entries, links, links', c[k], n, bn)
  <2>1. links \in LinksOf(Entries, Pointers)
    BY DEF Inv, TypeOK
  <2> QED
    BY <1>1, <1>2, <1>9, <1>10, <2>1, AppendStores
<1>12. TypeOK'
  BY <1>1, <1>3, <1>4, <1>11 DEF Inv, TypeOK
<1>13. Filed'
  <2>1. \A m \in Nodes : In(table', m) => hash'[m] = Hash[KeyOf[m]]
    BY <1>3, <1>4 DEF Inv, Filed, Stored, In
  <2> QED
    BY <1>1, <1>3, <2>1 DEF Filed, Stored, In
<1>14. ASSUME NEW b \in InUse, b # bn
       PROVE  HasRing(links', table', Chain(b)', b)
  <2>1. \A e \in Entries : e # n /\ e # bn /\ e \notin Chain(bn) =>
           links'.next[e] = links.next[e] /\ links'.prev[e] = links.prev[e]
    <3>1. c[k] = bn \/ c[k] \in Chain(bn)
      BY <1>8
    <3> QED
      BY <1>11, <3>1 DEF Inserted
  <2>2. \A m \in Nodes : m # n => (In(table', m) <=> In(table, m)) /\ hash'[m] = hash[m]
    BY <1>3, <1>4
  <2> QED
    BY <1>1, <1>2, <1>3, <1>5, <1>14, <2>1, <2>2, ChainKept
<1>15. HasRing(links', table', Chain(bn)', bn)
  <2> DEFINE d == Longer(c, k, n, bn)
  <2>1. /\ d \in [0 .. (k + 1) + 1 -> Entries]
        /\ Ring(links'.next, links'.prev, bn, d, k + 1)
    <3>1. \A i \in 0 .. k : c[i] # n
      BY <1>8
    <3> QED
      BY <1>2, <1>6, <1>10, <1>11, <3>1, RingAppend
  <2>2. (\A i \in 0 .. k : d[i] = c[i]) /\ d[k + 1] = n
    BY DEF Longer
  <2> HIDE DEF d
  <2>3. \A m : m \in Chain(bn)' <=> m \in Chain(bn) \/ m = n
    <3>1. \A m \in Nodes : m # n => (m \in Chain(bn)' <=> m \in Chain(bn))
      BY <1>3, <1>4, <1>5 DEF Chain, Stored, In, _ht_get_bucket
    <3>2. n \in Chain(bn)'
      BY <1>3, <1>4, <1>5 DEF Chain, Stored, In, _ht_get_bucket
    <3>3. Chain(bn)' \subseteq Nodes
      BY DEF Chain
    <3> QED
      BY <1>7, <3>1, <3>2, <3>3
  <2>4. Lists(d, k + 1, Chain(bn)')
    <3>1. ASSUME NEW i \in 1 .. k + 1 PROVE d[i] \in Chain(bn)'
      <4>1. i = k + 1 \/ (i \in 0 .. k /\ i \in 1 .. k)
        OBVIOUS
      <4> QED
        BY <1>6, <2>2, <2>3, <4>1 DEF Lists
    <3>2. ASSUME NEW m \in Chain(bn)' PROVE \E i \in 1 .. k + 1 : d[i] = m
      <4>1. CASE m = n
        BY <2>2, <4>1
      <4>2. CASE m \in Chain(bn)
        <5>1. PICK i \in 1 .. k : c[i] = m
          BY <1>6, <4>2 DEF Lists
        <5>2. i \in 1 .. k + 1 /\ d[i] = m
          BY <2>2, <5>1
        <5> QED
          BY <5>2
      <4> QED
        BY <2>3, <4>1, <4>2
    <3> QED
      BY <3>1, <3>2 DEF Lists
  <2>5. Sorted(d, k + 1, table')
    <3> SUFFICES ASSUME NEW i \in 1 .. k + 1, NEW j \in 1 .. k + 1, i < j
                 PROVE  Before(table', d[i], d[j])
      BY DEF Sorted
    <3>1. i \in 1 .. k /\ i \in 0 .. k /\ d[i] = c[i] /\ In(table, c[i])
      <4>1. i \in 1 .. k /\ i \in 0 .. k
        OBVIOUS
      <4> QED
        BY <1>6, <1>7, <2>2, <4>1 DEF Lists
    <3>2. CASE j = k + 1
      BY <1>3, <2>2, <3>1, <3>2
    <3>3. CASE j \in 1 .. k
      <4>1. d[j] = c[j]
        BY <2>2, <3>3
      <4> QED
        BY <1>3, <1>6, <3>1, <3>3, <4>1 DEF Sorted
    <3> QED
      BY <3>2, <3>3
  <2>6. k + 1 \in Nat
    OBVIOUS
  <2> QED
    BY <2>1, <2>4, <2>5, <2>6 DEF HasRing
<1>16. Chained'
  BY <1>2, <1>14, <1>15 DEF Chained
<1> QED
  BY <1>12, <1>13, <1>16 DEF Inv

\* ht_delete keeps the invariant.
LEMMA DeleteStep ==
    ASSUME Inv, ~DeletesLate, NEW n \in Nodes, ht_delete(n)
    PROVE  Inv'
<1>0. In(table, n) /\ nr_buckets # 0 /\ hash[n] = Hash[KeyOf[n]]
  <2>1. In(table, n)
    BY DEF ht_delete, Stored, In
  <2>2. table # <<>>
    BY <2>1 DEF In
  <2> QED
    BY <2>1, <2>2 DEF Inv, Filed, Stored, In
<1>b. PICK bn \in InUse : bn = _ht_get_bucket(hash[n])
  BY <1>0, BucketsInUse, NodeAssumption DEF Inv
<1>1. /\ nr_buckets' = nr_buckets
      /\ hash' = [hash EXCEPT ![n] = 0]
      /\ links' = list_del(links, n)
      /\ table' = RemoveAt(table, CHOOSE i \in DOMAIN table : table[i] = n)
  BY <1>0 DEF ht_delete, Stored, In
<1>2. bn \in InUse /\ bn \in Entries /\ bn # n /\ bn \notin Nodes /\ InUse' = InUse
  BY <1>1, BucketsInUse, NodeAssumption DEF Inv, Entries, InUse
<1>3. /\ table' \in Seq(Nodes) /\ OnceEach(table')
      /\ \A m : In(table', m) <=> In(table, m) /\ m # n
      /\ \A m, o : m # n /\ o # n /\ Before(table, m, o) => Before(table', m, o)
  BY <1>0, <1>1, TableDelete DEF Inv, TypeOK, Filed
<1>4. /\ hash' = [m \in Nodes |-> hash'[m]]
      /\ \A m \in Nodes : m # n => hash'[m] = hash[m]
  BY <1>1 DEF Inv, TypeOK
<1>. PICK k \in Nat : \E c \in [0 .. k + 1 -> Entries] :
         /\ Ring(links.next, links.prev, bn, c, k)
         /\ Lists(c, k, Chain(bn))
         /\ Sorted(c, k, table)
         /\ Distinct(c, k)
  BY <1>2, PickRing
<1>5. PICK c \in [0 .. k + 1 -> Entries] :
         /\ Ring(links.next, links.prev, bn, c, k)
         /\ Lists(c, k, Chain(bn))
         /\ Sorted(c, k, table)
         /\ Distinct(c, k)
  OBVIOUS
<1>6. n \in Chain(bn) /\ Chain(bn) \subseteq Nodes
  BY <1>0, <1>b DEF Chain, Stored, In
<1>7. PICK d \in 1 .. k : c[d] = n
  BY <1>5, <1>6 DEF Lists
<1>8. \A i \in 0 .. k + 1 : c[i] \in Entries /\ (c[i] = bn \/ c[i] \in Chain(bn))
  <2> TAKE i \in 0 .. k + 1
  <2>1. c[i] \in Entries
    OBVIOUS
  <2>2. CASE i = 0 \/ i = k + 1
    BY <1>5, <2>1, <2>2 DEF Ring
  <2>3. CASE i \in 1 .. k
    BY <1>5, <2>1, <2>3 DEF Lists
  <2> QED
    BY <2>2, <2>3
<1>9. links.prev[n] = c[d - 1] /\ links.next[n] = c[d + 1]
  <2>1. d \in 0 .. k /\ d - 1 \in 0 .. k /\ (d - 1) + 1 = d
    OBVIOUS
  <2>2. links.next[c[d]] = c[d + 1] /\ links.prev[c[(d - 1) + 1]] = c[d - 1]
    BY <1>5, <2>1 DEF Ring
  <2> QED
    BY <1>7, <2>1, <2>2
<1>10. c[d - 1] # n /\ c[d + 1] # n /\ c[d - 1] \in Entries /\ c[d + 1] \in Entries
  <2>1. d - 1 \in 0 .. k /\ d \in 0 .. k /\ d - 1 # d /\ d + 1 # d /\ d + 1 \in 0 .. k + 1
    OBVIOUS
  <2>2. c[d - 1] # c[d]
    BY <1>5, <2>1 DEF Distinct
  <2>3. c[d + 1] # c[d]
    <3>1. CASE d + 1 \in 0 .. k
      BY <1>5, <2>1, <3>1 DEF Distinct
    <3>2. CASE d + 1 = k + 1
      BY <1>2, <1>5, <1>7, <3>2 DEF Ring
    <3> QED
      BY <2>1, <3>1, <3>2
  <2> QED
    BY <1>7, <2>1, <2>2, <2>3
<1>11. /\ links' \in LinksOf(Entries, Pointers)
       /\ Unlinked(Entries, links, links', n)
  <2>1. /\ links \in LinksOf(Entries, Pointers) /\ n \in Entries /\ Entries \subseteq Pointers
        /\ {LIST_POISON_NEXT, LIST_POISON_PREV} \subseteq Pointers
    BY DEF Inv, TypeOK, Entries, Pointers
  <2> QED
    BY <1>1, <1>9, <1>10, <2>1, DelStores
<1>12. TypeOK'
  BY <1>1, <1>3, <1>4, <1>11 DEF Inv, TypeOK
<1>13. Filed'
  <2>1. \A m \in Nodes : In(table', m) => hash'[m] = Hash[KeyOf[m]]
    BY <1>3, <1>4 DEF Inv, Filed, Stored, In
  <2> QED
    BY <1>0, <1>1, <1>3, <2>1 DEF Filed, Stored, In
<1>14. ASSUME NEW b \in InUse, b # bn PROVE HasRing(links', table', Chain(b)', b)
  <2>1. \A e \in Entries : e # n /\ e # bn /\ e \notin Chain(bn) =>
           links'.next[e] = links.next[e] /\ links'.prev[e] = links.prev[e]
    <3>1. d - 1 \in 0 .. k + 1 /\ d + 1 \in 0 .. k + 1
      OBVIOUS
    <3>2. /\ c[d - 1] = bn \/ c[d - 1] \in Chain(bn)
          /\ c[d + 1] = bn \/ c[d + 1] \in Chain(bn)
      BY <1>8, <3>1
    <3> QED
      BY <1>9, <1>11, <3>2 DEF Unlinked
  <2>2. \A m \in Nodes : m # n => (In(table', m) <=> In(table, m)) /\ hash'[m] = hash[m]
    BY <1>3, <1>4
  <2> QED
    BY <1>1, <1>2, <1>3, <1>b, <1>14, <2>1, <2>2, ChainKept
<1>15. HasRing(links', table', Chain(bn)', bn)
  <2> DEFINE s == Shorter(c, k, d)
  <2>1. /\ s \in [0 .. (k - 1) + 1 -> Entries]
        /\ Ring(links'.next, links'.prev, bn, s, k - 1)
    BY <1>2, <1>5, <1>7, <1>11, RingDelete
  <2>2. \A i \in 0 .. k : s[i] = IF i < d THEN c[i] ELSE c[i + 1]
    BY DEF Shorter
  <2> HIDE DEF s
  <2>3. \A m : m \in Chain(bn)' <=> m \in Chain(bn) /\ m # n
    <3>1. \A m \in Nodes : m # n => (m \in Chain(bn)' <=> m \in Chain(bn))
      BY <1>1, <1>3, <1>4 DEF Chain, Stored, In, _ht_get_bucket
    <3>2. n \notin Chain(bn)'
      BY <1>3 DEF Chain, Stored, In
    <3>3. Chain(bn)' \subseteq Nodes
      BY DEF Chain
    <3> QED
      BY <1>6, <3>1, <3>2, <3>3
  <2>4. \A i \in 1 .. k - 1 : \E j \in 1 .. k : /\ j = (IF i < d THEN i ELSE i + 1)
                                                /\ s[i] = c[j] /\ j # d
    <3> TAKE i \in 1 .. k - 1
    <3>1. i \in 0 .. k /\ i \in 1 .. k /\ i + 1 \in 1 .. k /\ (i < d => i # d) /\ (~(i < d) => i + 1 # d)
      OBVIOUS
    <3> QED
      BY <2>2, <3>1
  <2>5. \A j \in 1 .. k : c[j] = n => j = d
    <3>1. \A j \in 1 .. k : j \in 0 .. k
      OBVIOUS
    <3> QED
      BY <1>5, <1>7, <3>1 DEF Distinct
  <2>6. Lists(s, k - 1, Chain(bn)')
    <3>1. ASSUME NEW i \in 1 .. k - 1 PROVE s[i] \in Chain(bn)'
      BY <1>5, <2>3, <2>4, <2>5 DEF Lists
    <3>2. ASSUME NEW m \in Chain(bn)' PROVE \E i \in 1 .. k - 1 : s[i] = m
      <4>1. PICK j \in 1 .. k : c[j] = m
        BY <1>5, <2>3 DEF Lists
      <4>2. j # d
        BY <1>7, <2>3, <4>1
      <4>3. CASE j < d
        <5>1. j \in 1 .. k - 1 /\ j \in 0 .. k
          BY <4>3
        <5> QED
          BY <2>2, <4>1, <4>3, <5>1
      <4>4. CASE j > d
        <5>1. j - 1 \in 1 .. k - 1 /\ j - 1 \in 0 .. k /\ ~(j - 1 < d) /\ (j - 1) + 1 = j
          BY <4>4
        <5> QED
          BY <2>2, <4>1, <5>1
      <4> QED
        BY <4>2, <4>3, <4>4
    <3> QED
      BY <3>1, <3>2 DEF Lists
  <2>7. Sorted(s, k - 1, table')
    <3> SUFFICES ASSUME NEW i \in 1 .. k - 1, NEW j \in 1 .. k - 1, i < j
                 PROVE  Before(table', s[i], s[j])
      BY DEF Sorted
    <3>1. PICK x \in 1 .. k : x = (IF i < d THEN i ELSE i + 1) /\ s[i] = c[x] /\ x # d
      BY <2>4
    <3>2. PICK y \in 1 .. k : y = (IF j < d THEN j ELSE j + 1) /\ s[j] = c[y] /\ y # d
      BY <2>4
    <3>3. x < y
      BY <3>1, <3>2
    <3>4. Before(table, c[x], c[y])
      BY <1>5, <3>3 DEF Sorted
    <3>5. c[x] # n /\ c[y] # n
      BY <2>5, <3>1, <3>2
    <3> QED
      BY <1>3, <3>1, <3>2, <3>4, <3>5
  <2>8. k - 1 \in Nat
    OBVIOUS
  <2> QED
    BY <2>1, <2>6, <2>7, <2>8 DEF HasRing
<1>16. Chained'
  BY <1>2, <1>14, <1>15 DEF Chained
<1> QED
  BY <1>12, <1>13, <1>16 DEF Inv

-------------------------------------------------------------------------------
(* The theorems.                                                           *)

\* The invariant holds initially.
LEMMA InitInv ==
    ASSUME Init PROVE Inv
<1>1. nr_buckets = 0 /\ table = <<>> /\ InUse = {}
  BY DEF Init, InUse
<1>2. links \in LinksOf(Entries, Pointers)
  BY DEF Init, list_init, LinksOf, Entries, Pointers
<1>3. TypeOK
  BY <1>1, <1>2 DEF Init, TypeOK
<1>4. Filed
  BY <1>1 DEF Filed, OnceEach, Stored
<1> QED
  BY <1>1, <1>3, <1>4 DEF Inv, Chained

\* Every step keeps the invariant.
LEMMA NextInv ==
    ASSUME Inv, ~DeletesLate, [Next]_vars PROVE Inv'
<1>1. CASE UNCHANGED vars
  BY <1>1 DEF vars, Inv, TypeOK, Filed, Chained, InUse, Chain, Stored, _ht_get_bucket
<1> QED
  BY <1>1, InitStep, CleanupStep, InsertStep, DeleteStep DEF Next

\* As long as callers delete nodes only from the table they are in, as
\* hash_table.h asks them to, the links of every bucket are a ring of its nodes
\* in the order of their insertion, whatever tables the nodes were in before.
THEOREM Invariance ==
    ASSUME ~DeletesLate PROVE Spec => []Inv
<1>1. Init => Inv
  BY InitInv
<1>2. Inv /\ [Next]_vars => Inv'
  BY NextInv
<1> QED
  BY <1>1, <1>2, PTL DEF Spec

\* A traversal of any bucket (list_for_each_type in ht_find) meets exactly the
\* bucket's nodes, once each, and is back at the head; backwards as well.
THEOREM RingsHold ==
    ASSUME ~DeletesLate PROVE Spec => []BucketsAreRings
<1>1. Inv => BucketsAreRings
  <2> SUFFICES ASSUME Inv, NEW b \in InUse
               PROVE  LET size == Cardinality(Chain(b))
                          at   == Walk(links, b, size)
                      IN  /\ at[size] = b
                          /\ {at[i] : i \in 0 .. size - 1} = Chain(b)
                          /\ \A e \in Chain(b) \cup {b} : links.prev[links.next[e]] = e
    BY DEF BucketsAreRings
  <2>. PICK k \in Nat : \E c \in [0 .. k + 1 -> Entries] :
           /\ Ring(links.next, links.prev, b, c, k)
           /\ Lists(c, k, Chain(b))
           /\ Sorted(c, k, table)
           /\ Distinct(c, k)
    BY PickRing
  <2>1. PICK c \in [0 .. k + 1 -> Entries] :
           /\ Ring(links.next, links.prev, b, c, k)
           /\ Lists(c, k, Chain(b))
           /\ Sorted(c, k, table)
           /\ Distinct(c, k)
    OBVIOUS
  <2>2. Cardinality(Chain(b)) = k
    BY <2>1, RingSize
  <2> DEFINE at == Walk(links, b, k)
  <2>3. \A i \in 0 .. k : at[i] = c[i + 1]
    <3>1. Circle(links, b, c, k)
      BY <2>1 DEF Inv, TypeOK, LinksOf, Circle
    <3>2. \A i \in 0 .. k : i <= k => at[i] = c[i + 1]
      BY <3>1, RingWalk
    <3> QED
      BY <3>2
  <2> HIDE DEF at
  <2>4. at[k] = b
    BY <2>1, <2>3 DEF Ring
  <2>5. {at[i] : i \in 0 .. k - 1} = Chain(b)
    <3>1. ASSUME NEW i \in 0 .. k - 1 PROVE at[i] \in Chain(b)
      <4>1. i + 1 \in 1 .. k /\ i \in 0 .. k
        OBVIOUS
      <4> QED
        BY <2>1, <2>3, <4>1 DEF Lists
    <3>2. ASSUME NEW m \in Chain(b) PROVE \E i \in 0 .. k - 1 : at[i] = m
      <4>1. PICK j \in 1 .. k : c[j] = m
        BY <2>1 DEF Lists
      <4>2. j - 1 \in 0 .. k - 1 /\ j - 1 \in 0 .. k /\ (j - 1) + 1 = j
        OBVIOUS
      <4> QED
        BY <2>3, <4>1, <4>2
    <3> QED
      BY <3>1, <3>2
  <2>6. ASSUME NEW e \in Chain(b) \cup {b} PROVE links.prev[links.next[e]] = e
    <3>1. PICK i \in 0 .. k : c[i] = e
      <4>1. CASE e = b
        BY <2>1, <4>1 DEF Ring
      <4>2. CASE e \in Chain(b)
        <5>1. PICK i \in 1 .. k : c[i] = e
          BY <2>1, <4>2 DEF Lists
        <5>2. i \in 0 .. k
          OBVIOUS
        <5> QED
          BY <5>1, <5>2
      <4> QED
        BY <4>1, <4>2
    <3> QED
      BY <2>1, <3>1 DEF Ring
  <2> QED
    BY <2>2, <2>4, <2>5, <2>6 DEF at
<1> QED
  BY <1>1, Invariance, PTL

\* A set of natural numbers that is not empty has a least member.
LEMMA LeastNat ==
    ASSUME NEW S, S \subseteq Nat, S # {}
    PROVE  \E x \in S : \A y \in S : x <= y
<1>1. IsWellFoundedOn(OpToRel(<, Nat), Nat)
  BY NatLessThanWellFounded
<1>2. PICK x \in S : \A y \in S : ~(<<y, x>> \in OpToRel(<, Nat))
  BY <1>1, WFMin
<1>3. \A y \in S : ~(y < x)
  BY <1>2 DEF OpToRel
<1> QED
  BY <1>3

\* The place where the loop of ht_find stops is the first one that ends it.
LEMMA FirstStop ==
    ASSUME NEW S, S \subseteq Nat, NEW x \in S, \A y \in S : x <= y
    PROVE  (CHOOSE i \in S : \A j \in S : i <= j) = x
<1> DEFINE f == CHOOSE i \in S : \A j \in S : i <= j
<1>1. f \in S /\ \A j \in S : f <= j
  OBVIOUS
<1> HIDE DEF f
<1>2. f <= x /\ x <= f /\ f \in Nat /\ x \in Nat
  BY <1>1
<1>3. f = x
  BY <1>2
<1> QED
  BY <1>3 DEF f

\* ht_find answers like a search of the whole table in the order of insertion:
\* hashing, chaining and the list operations neither hide a node nor show one
\* that is not in the table.  It needs a comparison function that does not fail.
THEOREM FindIsSearch ==
    ASSUME ~DeletesLate, Unreadable = {} PROVE Spec => []FindAgrees
<1>1. Inv => FindAgrees
  <2> SUFFICES ASSUME Inv, nr_buckets # 0, NEW key \in Keys
               PROVE  LET with == {i \in DOMAIN table : KeyOf[table[i]] = key}
                      IN  ht_find(key) = IF with = {} THEN [ret |-> "A_E_NOTFOUND", pfound |-> NULL]
                                         ELSE [ret |-> "A_OK", pfound |-> table[Min(with)]]
    BY DEF FindAgrees
  <2>1. PICK b \in InUse : b = _ht_get_bucket(Hash[key])
    BY BucketsInUse DEF Inv
  <2>2. b \notin Nodes
    BY BucketsInUse, NodeAssumption DEF Inv
  <2>. PICK k \in Nat : \E c \in [0 .. k + 1 -> Entries] :
           /\ Ring(links.next, links.prev, b, c, k)
           /\ Lists(c, k, Chain(b))
           /\ Sorted(c, k, table)
           /\ Distinct(c, k)
    BY PickRing
  <2>3. PICK c \in [0 .. k + 1 -> Entries] :
           /\ Ring(links.next, links.prev, b, c, k)
           /\ Lists(c, k, Chain(b))
           /\ Sorted(c, k, table)
           /\ Distinct(c, k)
    OBVIOUS
  <2>4. Cardinality(Nodes) \in Nat /\ k <= Cardinality(Nodes)
    <3>1. Chain(b) \subseteq Nodes
      BY DEF Chain
    <3>2. Cardinality(Chain(b)) = k
      BY <2>3, RingSize
    <3> QED
      BY <3>1, <3>2, NodeAssumption, FS_Subset, FS_CardinalityType
  <2> DEFINE N == Cardinality(Nodes)
             at == Walk(links, b, N)
             Ends(n) == hash[n] = Hash[key] /\ (n \in Unreadable \/ KeyOf[n] = key)
             stops == {i \in DOMAIN at : at[i] = b \/ Ends(at[i])}
             first == CHOOSE i \in stops : \A j \in stops : i <= j
             with == {i \in DOMAIN table : KeyOf[table[i]] = key}
  <2>5. ht_find(key) = IF at[first] = b THEN [ret |-> "A_E_NOTFOUND", pfound |-> NULL]
                       ELSE [ret |-> "A_OK", pfound |-> at[first]]
    BY <2>1 DEF ht_find
  <2>6. \A i \in 0 .. k : at[i] = c[i + 1]
    <3>1. Circle(links, b, c, k)
      BY <2>3 DEF Inv, TypeOK, LinksOf, Circle
    <3> HIDE DEF N
    <3>2. N \in Nat /\ k <= N
      BY <2>4 DEF N
    <3>3. \A i \in 0 .. k : i <= N => at[i] = c[i + 1]
      BY <3>1, <3>2, RingWalk
    <3>4. \A i \in 0 .. k : i <= N
      BY <3>2
    <3> QED
      BY <3>3, <3>4
  <2>7. DOMAIN at = 0 .. N /\ N \in Nat /\ k <= N
    BY <2>4, WalkSteps
  <2> HIDE DEF N, at
  <2>8. at[k] = b
    BY <2>3, <2>6 DEF Ring
  <2>9. k \in stops /\ stops \subseteq Nat
    BY <2>7, <2>8
  <2>10. \A i \in 0 .. k - 1 :
           /\ at[i] = c[i + 1] /\ i + 1 \in 1 .. k
           /\ at[i] \in Chain(b) /\ at[i] # b /\ at[i] \in Nodes /\ In(table, at[i])
    <3> TAKE i \in 0 .. k - 1
    <3>1. i \in 0 .. k /\ i + 1 \in 1 .. k
      OBVIOUS
    <3>2. at[i] = c[i + 1] /\ c[i + 1] \in Chain(b)
      BY <2>3, <2>6, <3>1 DEF Lists
    <3> QED
      BY <2>2, <3>1, <3>2 DEF Chain, Stored, In
  <2>11. CASE with = {}
    <3>1. \A i \in stops : k <= i
      <4> SUFFICES ASSUME NEW i \in stops, ~(k <= i) PROVE FALSE
        OBVIOUS
      <4>1. i \in 0 .. k - 1
        BY <2>9
      <4>2. KeyOf[at[i]] = key
        BY <2>10, <4>1
      <4> QED
        BY <2>10, <2>11, <4>1, <4>2 DEF In
    <3>2. first = k
      BY <2>9, <3>1, FirstStop
    <3> HIDE DEF first
    <3> QED
      BY <2>5, <2>8, <2>11, <3>2
  <2>12. CASE with # {}
    <3>1. PICK m \in with : m = Min(with) /\ \A i \in with : m <= i
      <4>1. with \subseteq Nat
        BY DEF Inv, TypeOK
      <4>2. \E x \in with : \A y \in with : x <= y
        BY <2>12, <4>1, LeastNat
      <4> HIDE DEF with
      <4> QED
        BY <4>2 DEF Min
    <3>2. m \in DOMAIN table /\ KeyOf[table[m]] = key /\ table[m] \in Nodes
      BY DEF Inv, TypeOK
    <3>3. hash[table[m]] = Hash[key] /\ table[m] \in Chain(b)
      <4>1. Stored(table[m])
        BY <3>2 DEF Stored
      <4>2. hash[table[m]] = Hash[key]
        BY <3>2, <4>1 DEF Inv, Filed
      <4> QED
        BY <2>1, <3>2, <4>1, <4>2 DEF Chain
    <3>4. PICK j \in 1 .. k : c[j] = table[m]
      BY <2>3, <3>3 DEF Lists
    <3>5. j - 1 \in 0 .. k - 1 /\ j - 1 \in 0 .. k /\ (j - 1) + 1 = j /\ j - 1 \in 0 .. N
      BY <2>7
    <3>6. at[j - 1] = table[m] /\ j - 1 \in stops
      BY <2>6, <2>7, <3>2, <3>3, <3>4, <3>5
    <3>7. ASSUME NEW i \in stops PROVE j - 1 <= i
      <4> SUFFICES ASSUME i < j - 1 PROVE FALSE
        BY <2>7
      <4>1. i \in 0 .. k - 1 /\ i + 1 \in 1 .. k /\ i + 1 < j
        BY <2>7
      <4>2. at[i] # b /\ at[i] = c[i + 1]
        BY <2>10, <4>1
      <4>3. KeyOf[at[i]] = key
        BY <4>2
      <4>4. Before(table, at[i], table[m])
        BY <2>3, <3>4, <4>1, <4>2 DEF Sorted
      <4>5. PICK x \in DOMAIN table, y \in DOMAIN table :
               x < y /\ table[x] = at[i] /\ table[y] = table[m]
        BY <4>4 DEF Before
      <4>6. y = m
        BY <3>2, <4>5 DEF Inv, Filed, OnceEach
      <4>7. x \in with
        BY <4>3, <4>5
      <4>8. m <= x /\ x < m /\ x \in Nat /\ m \in Nat
        BY <3>1, <3>2, <4>5, <4>6, <4>7 DEF Inv, TypeOK
      <4> QED
        BY <4>8
    <3>8. first = j - 1
      BY <2>9, <3>6, <3>7, FirstStop
    <3>9. table[m] # b
      BY <2>2, <3>2
    <3> HIDE DEF first, with
    <3> QED
      BY <2>5, <2>12, <3>1, <3>6, <3>8, <3>9 DEF with
  <2> QED
    BY <2>11, <2>12
<1> QED
  BY <1>1, Invariance, PTL
===============================================================================
