-------------------------- MODULE SlabAllocatorProofs --------------------------
(***************************************************************************)
(* Proofs about SlabAllocator, for any number of allocators and pages, any *)
(* sizes and any bound.                                                    *)
(***************************************************************************)
EXTENDS SlabAllocator, SequenceTheorems, FiniteSetTheorems, WellFoundedInduction, TLAPS

-------------------------------------------------------------------------------
(* Numbers.                                                                *)

\* A set of natural numbers has a least element: what the inductions below
\* rest on.
LEMMA NatMin ==
    ASSUME NEW T, T \subseteq Nat, T # {}
    PROVE  \E n \in T : \A m \in T : n <= m
<1>1. IsWellFoundedOn(OpToRel(<, Nat), Nat)
  BY NatLessThanWellFounded
<1>2. PICK n \in T : \A m \in T : ~(<<m, n>> \in OpToRel(<, Nat))
  BY <1>1, WFMin
<1>3. \A m \in T : ~(m < n)
  BY <1>2 DEF OpToRel
<1> QED
  BY <1>3

\* A bounded set of natural numbers has a greatest element, and Max finds it.
LEMMA NatMax ==
    ASSUME NEW T, T \subseteq Nat, T # {}, NEW b \in Nat, \A n \in T : n <= b
    PROVE  Max(T) \in T /\ \A n \in T : n <= Max(T)
<1> DEFINE D == {b - n : n \in T}
<1>1. D \subseteq Nat /\ D # {}
  OBVIOUS
<1>2. PICK d \in D : \A e \in D : d <= e
  BY <1>1, NatMin
<1>3. PICK m \in T : d = b - m
  OBVIOUS
<1>4. \A n \in T : n <= m
  <2> TAKE n \in T
  <2>1. b - m <= b - n
    BY <1>2, <1>3
  <2> QED
    BY <2>1
<1>5. \E x \in T : \A y \in T : x >= y
  BY <1>4
<1> QED
  BY <1>5 DEF Max

\* Division: i blocks of d fit into n.
LEMMA DivFits ==
    ASSUME NEW n \in Nat, NEW d \in Nat \ {0}, NEW i \in Nat
    PROVE  i * d <= n <=> i <= n \div d
<1> DEFINE q == n \div d
<1>1. q \in Nat /\ q * d <= n /\ n < (q + 1) * d
  OBVIOUS
<1> HIDE DEF q
<1>2. i <= q => i * d <= q * d
  BY <1>1
<1>3. i >= q + 1 => i * d >= (q + 1) * d
  BY <1>1
<1>4. i * d \in Nat /\ q * d \in Nat /\ (q + 1) * d \in Nat
  BY <1>1
<1>5. i * d <= n <=> i <= q
  BY <1>1, <1>2, <1>3, <1>4
<1> QED
  BY <1>5 DEF q

-------------------------------------------------------------------------------
(* Sizes.                                                                  *)

\* Items are rounded to at least 16 bytes.
LEMMA RealSize ==
    ASSUME NEW a \in Allocators
    PROVE  real_size(a) \in Nat \ {0}
<1>1. ItemSize[a] \in Nat \ {0}
  BY SizeAssumption
<1> QED
  BY <1>1 DEF real_size, ROUND_16

LEMMA ItemCount ==
    ASSUME NEW a \in Allocators
    PROVE  item_count(a) \in Nat /\ item_count(a) <= SlabBytes
<1>1. SlabBytes - HeaderBytes \in Nat /\ SlabBytes - HeaderBytes <= SlabBytes
  BY SizeAssumption
<1> DEFINE n == SlabBytes - HeaderBytes
           d == real_size(a)
<1>2. n \in Nat /\ d \in Nat \ {0}
  BY <1>1, RealSize
<1> HIDE DEF n, d
<1>3. n \div d \in Nat /\ n \div d <= n
  BY <1>2
<1>4. item_count(a) = n \div d /\ n <= SlabBytes
  BY <1>1 DEF item_count, n, d
<1> QED
  BY <1>2, <1>3, <1>4, SizeAssumption

LEMMA ItemsPerSlab ==
    ASSUME NEW a \in Allocators
    PROVE  items_per_slab(a) \in Nat
<1>1. SlabBytes \in Nat /\ real_size(a) \in Nat \ {0}
  BY SizeAssumption, RealSize
<1> QED
  BY <1>1 DEF items_per_slab

\* Items is an interval that holds the items of every allocator.
LEMMA ItemsInterval ==
    /\ \E m \in Nat \ {0} : Items = 1 .. m /\ Max(Items) = m
    /\ \A a \in Allocators : 1 .. item_count(a) \subseteq Items
    /\ \A a \in Allocators : item_count(a) \in 0 .. Max(Items)
<1> DEFINE T == {1} \cup {item_count(a) : a \in Allocators}
           m == Max(T)
<1>1. T \subseteq Nat /\ T # {} /\ SlabBytes \in Nat /\ \A n \in T : n <= SlabBytes
  BY ItemCount, SizeAssumption
<1>2. m \in T /\ \A n \in T : n <= m
  <2> HIDE DEF T
  <2> QED
    BY <1>1, NatMax
<1>3. m \in Nat \ {0} /\ \A a \in Allocators : item_count(a) <= m
  BY <1>1, <1>2
<1>4. Items = 1 .. m
  BY DEF Items
<1> HIDE DEF m
<1>5. Max(1 .. m) = m
  <2>1. Max(1 .. m) \in 1 .. m /\ \A n \in 1 .. m : n <= Max(1 .. m)
    BY <1>3, NatMax, SMTT(30)
  <2> QED
    BY <1>3, <2>1
<1> QED
  BY <1>3, <1>4, <1>5, ItemCount

\* The test of allocator_alloc and the division of __helper_slab_init agree on
\* how many items a slab has room for.
LEMMA FitsCount ==
    ASSUME NEW a \in Allocators, NEW i \in Nat
    PROVE  Fits(a, i) <=> i <= item_count(a)
<1> DEFINE n == SlabBytes - HeaderBytes
           d == real_size(a)
<1>1. n \in Nat /\ d \in Nat \ {0} /\ SlabBytes \in Nat /\ HeaderBytes \in Nat
  BY SizeAssumption, RealSize
<1>2. i * d \in Nat
  BY <1>1
<1>3. i * d <= n <=> i <= n \div d
  <2> HIDE DEF n, d
  <2> QED
    BY <1>1, DivFits
<1> QED
  BY <1>1, <1>2, <1>3 DEF Fits, item_count

-------------------------------------------------------------------------------
(* Lists of slabs: sequences without repetition.                           *)

\* A slab is put in front (list_prepend).
LEMMA ConsList ==
    ASSUME NEW S, NEW s \in Seq(S), NEW p \in S
    PROVE  LET t == <<p>> \o s IN
           /\ t \in Seq(S) /\ t # <<>>
           /\ Len(t) = Len(s) + 1
           /\ t[1] = p
           /\ \A i \in 2 .. Len(t) : t[i] = s[i - 1]
           /\ Range(t) = Range(s) \cup {p}
           /\ IsInjective(s) /\ p \notin Range(s) => IsInjective(t)
<1> DEFINE t == <<p>> \o s
<1>1. t \in Seq(S) /\ t # <<>> /\ Len(t) = Len(s) + 1 /\ t[1] = p
  OBVIOUS
<1>2. \A i \in 2 .. Len(t) : t[i] = s[i - 1]
  OBVIOUS
<1>3. DOMAIN t = 1 .. Len(s) + 1 /\ DOMAIN s = 1 .. Len(s) /\ Len(s) \in Nat
  BY <1>1
<1> HIDE DEF t
<1>4. Range(t) = Range(s) \cup {p}
  <2>1. \A i \in DOMAIN s : i + 1 \in DOMAIN t /\ t[i + 1] = s[i]
    BY <1>1, <1>2, <1>3
  <2>2. \A i \in DOMAIN t : i = 1 \/ (i - 1 \in DOMAIN s /\ t[i] = s[i - 1])
    BY <1>1, <1>2, <1>3
  <2>3. 1 \in DOMAIN t
    BY <1>3
  <2>4. Range(t) \subseteq Range(s) \cup {p}
    BY <1>1, <2>2 DEF Range
  <2>5. Range(s) \cup {p} \subseteq Range(t)
    BY <1>1, <2>1, <2>3 DEF Range
  <2> QED
    BY <2>4, <2>5
<1>5. IsInjective(s) /\ p \notin Range(s) => IsInjective(t)
  <2> SUFFICES ASSUME IsInjective(s), p \notin Range(s),
                      NEW i \in DOMAIN t, NEW j \in DOMAIN t, t[i] = t[j]
               PROVE  i = j
    BY DEF IsInjective
  <2>1. i # 1 => i - 1 \in DOMAIN s /\ t[i] = s[i - 1] /\ t[i] # p
    BY <1>1, <1>2, <1>3 DEF Range
  <2>2. j # 1 => j - 1 \in DOMAIN s /\ t[j] = s[j - 1] /\ t[j] # p
    BY <1>1, <1>2, <1>3 DEF Range
  <2>3. i # 1 /\ j # 1 => i - 1 = j - 1
    BY <2>1, <2>2 DEF IsInjective
  <2> QED
    BY <1>1, <1>3, <2>1, <2>2, <2>3
<1> QED
  BY <1>1, <1>2, <1>4, <1>5 DEF t

\* The first slab is taken off.
LEMMA TailList ==
    ASSUME NEW S, NEW s \in Seq(S), s # <<>>
    PROVE  /\ Head(s) \in S /\ Head(s) \in Range(s) /\ Head(s) = s[1]
           /\ Tail(s) \in Seq(S)
           /\ Len(Tail(s)) = Len(s) - 1
           /\ \A i \in 1 .. Len(s) - 1 : Tail(s)[i] = s[i + 1]
           /\ IsInjective(s) => IsInjective(Tail(s)) /\ Range(Tail(s)) = Range(s) \ {Head(s)}
<1> DEFINE t == Tail(s)
<1>1. Head(s) = s[1] /\ t \in Seq(S) /\ Len(t) = Len(s) - 1 /\ Len(s) \in Nat \ {0}
  BY EmptySeq
<1>2. \A i \in 1 .. Len(s) - 1 : t[i] = s[i + 1]
  BY <1>1
<1>3. DOMAIN t = 1 .. Len(s) - 1 /\ DOMAIN s = 1 .. Len(s)
  BY <1>1
<1>4. Head(s) \in S /\ Head(s) \in Range(s)
  BY <1>1, <1>3 DEF Range
<1> HIDE DEF t
<1>5. ASSUME IsInjective(s)
      PROVE  IsInjective(t) /\ Range(t) = Range(s) \ {s[1]}
  <2>1. \A i \in DOMAIN t : i + 1 \in DOMAIN s /\ t[i] = s[i + 1] /\ s[i + 1] # s[1]
    BY <1>1, <1>2, <1>3, <1>5 DEF IsInjective
  <2>2. \A i \in DOMAIN s : i # 1 => i - 1 \in DOMAIN t /\ t[i - 1] = s[i]
    BY <1>1, <1>2, <1>3
  <2>3. IsInjective(t)
    <3> SUFFICES ASSUME NEW i \in DOMAIN t, NEW j \in DOMAIN t, t[i] = t[j]
                 PROVE  i = j
      BY DEF IsInjective
    <3>1. i + 1 = j + 1
      BY <2>1, <1>5 DEF IsInjective
    <3> QED
      BY <3>1, <1>3, <1>1
  <2> QED
    BY <2>1, <2>2, <2>3 DEF Range
<1> QED
  BY <1>1, <1>2, <1>4, <1>5 DEF t

\* A slab is put behind the others (list_append).
LEMMA AppendList ==
    ASSUME NEW S, NEW s \in Seq(S), NEW p \in S
    PROVE  LET t == Append(s, p) IN
           /\ t \in Seq(S) /\ t # <<>>
           /\ Len(t) = Len(s) + 1
           /\ t[Len(s) + 1] = p
           /\ \A i \in 1 .. Len(s) : t[i] = s[i]
           /\ Range(t) = Range(s) \cup {p}
           /\ IsInjective(s) /\ p \notin Range(s) => IsInjective(t)
<1> DEFINE t == Append(s, p)
<1>1. t \in Seq(S) /\ t # <<>> /\ Len(t) = Len(s) + 1 /\ t[Len(s) + 1] = p
  OBVIOUS
<1>2. \A i \in 1 .. Len(s) : t[i] = s[i]
  OBVIOUS
<1>3. DOMAIN t = 1 .. Len(s) + 1 /\ DOMAIN s = 1 .. Len(s) /\ Len(s) \in Nat
  BY <1>1
<1> HIDE DEF t
<1>4. \A i \in DOMAIN t : i = Len(s) + 1 \/ (i \in DOMAIN s /\ t[i] = s[i])
  BY <1>2, <1>3
<1>5. Range(t) = Range(s) \cup {p}
  <2>1. \A i \in DOMAIN s : i \in DOMAIN t /\ t[i] = s[i]
    BY <1>2, <1>3
  <2>2. Len(s) + 1 \in DOMAIN t
    BY <1>3
  <2> QED
    BY <1>1, <1>4, <2>1, <2>2 DEF Range
<1>6. IsInjective(s) /\ p \notin Range(s) => IsInjective(t)
  BY <1>1, <1>4 DEF IsInjective, Range
<1> QED
  BY <1>1, <1>2, <1>5, <1>6 DEF t

\* A slab is taken out of the list; the others keep their order.
LEMMA DelList ==
    ASSUME NEW S, NEW s \in Seq(S), IsInjective(s), NEW p \in Range(s)
    PROVE  LET t == list_del(s, p) IN
           /\ t \in Seq(S)
           /\ Len(t) = Len(s) - 1 /\ Len(s) \in Nat \ {0}
           /\ IsInjective(t)
           /\ Range(t) = Range(s) \ {p}
           /\ \E k \in 1 .. Len(s) :
                 \A i \in 1 .. Len(t) : t[i] = IF i < k THEN s[i] ELSE s[i + 1]
<1> DEFINE k == CHOOSE i \in DOMAIN s : s[i] = p
           t == list_del(s, p)
           u == SubSeq(s, 1, k - 1)
           v == SubSeq(s, k + 1, Len(s))
<1>1. Len(s) \in Nat /\ DOMAIN s = 1 .. Len(s) /\ \A i \in 1 .. Len(s) : s[i] \in S
  OBVIOUS
<1>2. k \in 1 .. Len(s) /\ s[k] = p
  BY <1>1 DEF Range
<1>3. t = u \o v
  BY DEF list_del, RemoveAt
<1> HIDE DEF k, t
<1>4. /\ u \in Seq(S) /\ Len(u) = k - 1
      /\ \A i \in 1 .. k - 1 : u[i] = s[i]
  <2>1. \A i \in 1 .. k - 1 : s[i] \in S
    BY <1>1, <1>2
  <2> QED
    BY <1>1, <1>2, <2>1, SubSeqProperties
<1>5. /\ v \in Seq(S) /\ Len(v) = Len(s) - k
      /\ \A i \in 1 .. Len(s) - k : v[i] = s[k + i]
  <2>1. \A i \in k + 1 .. Len(s) : s[i] \in S
    BY <1>1, <1>2
  <2>2. /\ v \in Seq(S) /\ Len(v) = IF k + 1 <= Len(s) THEN Len(s) - (k + 1) + 1 ELSE 0
        /\ \A i \in 1 .. Len(s) - (k + 1) + 1 : v[i] = s[(k + 1) + i - 1]
    BY <1>1, <1>2, <2>1, SubSeqProperties
  <2> HIDE DEF v
  <2>3. Len(v) = Len(s) - k
    <3>1. CASE k + 1 <= Len(s)
      BY <1>1, <1>2, <2>2, <3>1
    <3>2. CASE k = Len(s)
      <4>1. Len(v) = 0
        BY <1>1, <2>2, <3>2
      <4>2. \A i, j \in Nat : i = j => i - j = 0
        OBVIOUS
      <4> QED
        BY <1>1, <3>2, <4>1, <4>2
    <3>3. k + 1 <= Len(s) \/ k = Len(s)
      <4>1. \A n \in Nat : \A j \in 1 .. n : j + 1 <= n \/ j = n
        OBVIOUS
      <4> QED
        BY <1>1, <1>2, <4>1
    <3> QED
      BY <3>1, <3>2, <3>3
  <2>4. ASSUME NEW i \in 1 .. Len(s) - k
        PROVE  v[i] = s[k + i]
    <3>1. i \in 1 .. Len(s) - (k + 1) + 1 /\ (k + 1) + i - 1 = k + i
      BY <1>1, <1>2
    <3> QED
      BY <2>2, <3>1
  <2> QED
    BY <2>2, <2>3, <2>4
<1> HIDE DEF u, v
<1>6. t \in Seq(S) /\ Len(t) = Len(s) - 1 /\ DOMAIN t = 1 .. Len(s) - 1
  <2>1. t \in Seq(S) /\ Len(t) = Len(u) + Len(v)
    BY <1>3, <1>4, <1>5, ConcatProperties
  <2>2. Len(t) = Len(s) - 1
    BY <1>1, <1>2, <1>4, <1>5, <2>1
  <2> QED
    BY <2>1, <2>2, LenProperties
<1>7. \A i \in 1 .. Len(t) : t[i] = IF i < k THEN s[i] ELSE s[i + 1]
  <2> TAKE i \in 1 .. Len(t)
  <2>1. t[i] = IF i <= k - 1 THEN u[i] ELSE v[i - (k - 1)]
    <3>1. i \in 1 .. Len(u) + Len(v)
      BY <1>1, <1>2, <1>4, <1>5, <1>6
    <3> QED
      BY <1>3, <1>4, <1>5, <3>1, ConcatProperties
  <2>2. CASE i < k
    BY <1>1, <1>2, <1>4, <1>6, <2>1, <2>2
  <2>3. CASE i >= k
    <3>1. i - (k - 1) \in 1 .. Len(s) - k /\ k + (i - (k - 1)) = i + 1
      BY <1>1, <1>2, <1>6, <2>3
    <3> QED
      BY <1>2, <1>5, <2>1, <2>3, <3>1
  <2> QED
    BY <1>1, <1>2, <1>6, <2>2, <2>3
<1>8. \A i \in DOMAIN t : \E j \in DOMAIN s : j # k /\ t[i] = s[j] /\ j = (IF i < k THEN i ELSE i + 1)
  BY <1>1, <1>2, <1>6, <1>7
<1>9. \A j \in DOMAIN s : j # k => \E i \in DOMAIN t : t[i] = s[j]
  <2> SUFFICES ASSUME NEW j \in DOMAIN s, j # k
               PROVE  \E i \in DOMAIN t : t[i] = s[j]
    OBVIOUS
  <2>1. CASE j < k
    BY <1>1, <1>2, <1>6, <1>7, <2>1
  <2>2. CASE j > k
    <3>1. j - 1 \in DOMAIN t /\ t[j - 1] = s[(j - 1) + 1]
      BY <1>1, <1>2, <1>6, <1>7, <2>2
    <3> QED
      BY <1>1, <3>1
  <2> QED
    BY <1>1, <1>2, <2>1, <2>2
<1>10. Range(t) = Range(s) \ {p}
  BY <1>1, <1>2, <1>8, <1>9 DEF Range, IsInjective
<1>11. IsInjective(t)
  <2> SUFFICES ASSUME NEW i \in DOMAIN t, NEW j \in DOMAIN t, t[i] = t[j]
               PROVE  i = j
    BY DEF IsInjective
  <2>1. (IF i < k THEN i ELSE i + 1) = (IF j < k THEN j ELSE j + 1)
    BY <1>8 DEF IsInjective
  <2> QED
    BY <1>1, <1>2, <1>6, <2>1
<1>12. \E j \in 1 .. Len(s) :
          \A i \in 1 .. Len(t) : t[i] = IF i < j THEN s[i] ELSE s[i + 1]
  BY <1>2, <1>7
<1>13. Len(s) \in Nat \ {0}
  BY <1>1, <1>2
<1> QED
  BY <1>6, <1>10, <1>11, <1>12, <1>13 DEF t

-------------------------------------------------------------------------------
(* What the operations do to a slab.                                       *)

\* Anything a slab may hold, without regard to what is in use.
SlabState ==
    [free_items      : Items \cup {NULL, LINK, STALE},
     free_item_count : Int,
     max_items       : Int,
     next            : [Items -> Items \cup {NULL, LINK, STALE}]]

LEMMA TakenFields ==
    ASSUME NEW a \in Allocators, NEW s \in SlabState, s.free_items \in Items
    PROVE  LET t == Taken(a, s)
               i == s.free_items
           IN  /\ t \in SlabState
               /\ t.free_items = NextFree(a, s, i)
               /\ t.free_item_count = s.free_item_count - 1
               /\ t.max_items = s.max_items
               /\ \A j \in Items :
                     t.next[j] = IF j = i THEN NULL
                                 ELSE IF j = i + 1 /\ s.next[i] = LINK /\ Fits(a, j) THEN LINK
                                 ELSE s.next[j]
<1> DEFINE t == Taken(a, s)
           i == s.free_items
           next == [j \in Items |->
                       IF j = i THEN NULL
                       ELSE IF j = i + 1 /\ s.next[i] = LINK /\ Fits(a, j) THEN LINK
                       ELSE s.next[j]]
<1>1. /\ s.free_item_count \in Int /\ s.max_items \in Int
      /\ s.next \in [Items -> Items \cup {NULL, LINK, STALE}]
  BY DEF SlabState
<1>2. next \in [Items -> Items \cup {NULL, LINK, STALE}]
  BY <1>1
<1>3. NextFree(a, s, i) \in Items \cup {NULL, LINK, STALE}
  <2>1. CASE s.next[i] # LINK
    BY <1>1, <2>1 DEF NextFree
  <2>2. CASE s.next[i] = LINK /\ Fits(a, i + 1)
    <3>1. i + 1 \in Nat /\ i + 1 >= 1
      BY ItemsInterval
    <3>2. i + 1 \in 1 .. item_count(a)
      BY <2>2, <3>1, FitsCount, ItemCount
    <3> QED
      BY <2>2, <3>2, ItemsInterval DEF NextFree
  <2>3. CASE s.next[i] = LINK /\ ~Fits(a, i + 1)
    BY <2>3 DEF NextFree
  <2> QED
    BY <2>1, <2>2, <2>3
<1>4. t = [free_items |-> NextFree(a, s, i), free_item_count |-> s.free_item_count - 1,
           max_items |-> s.max_items, next |-> next]
  BY DEF Taken
<1> HIDE DEF next, t
<1>5. t \in SlabState
  BY <1>1, <1>2, <1>3, <1>4 DEF SlabState
<1>6. /\ t.free_items = NextFree(a, s, i)
      /\ t.free_item_count = s.free_item_count - 1
      /\ t.max_items = s.max_items
      /\ t.next = next
  BY <1>4
<1> QED
  BY <1>5, <1>6 DEF t, next

LEMMA ReturnedFields ==
    ASSUME NEW s \in SlabState, NEW i \in Items
    PROVE  LET t == Returned(s, i)
           IN  /\ t \in SlabState
               /\ t.free_items = i
               /\ t.free_item_count = s.free_item_count + 1
               /\ t.max_items = s.max_items
               /\ \A j \in Items : t.next[j] = IF j = i THEN s.free_items ELSE s.next[j]
<1> DEFINE t == Returned(s, i)
           next == [s.next EXCEPT ![i] = s.free_items]
<1>1. /\ s.free_item_count \in Int /\ s.max_items \in Int
      /\ s.free_items \in Items \cup {NULL, LINK, STALE}
      /\ s.next \in [Items -> Items \cup {NULL, LINK, STALE}]
  BY DEF SlabState
<1>2. next \in [Items -> Items \cup {NULL, LINK, STALE}]
  BY <1>1
<1>3. t = [free_items |-> i, free_item_count |-> s.free_item_count + 1,
           max_items |-> s.max_items, next |-> next]
  BY DEF Returned
<1>4. \A j \in Items : next[j] = IF j = i THEN s.free_items ELSE s.next[j]
  BY <1>1
<1> HIDE DEF next, t
<1>5. t \in SlabState
  BY <1>1, <1>2, <1>3 DEF SlabState
<1>6. /\ t.free_items = i
      /\ t.free_item_count = s.free_item_count + 1
      /\ t.max_items = s.max_items
      /\ t.next = next
  BY <1>3
<1> QED
  BY <1>4, <1>5, <1>6 DEF t

LEMMA InitFields ==
    ASSUME NEW a \in Allocators
    PROVE  LET t == __helper_slab_init(a)
           IN  /\ t \in SlabState
               /\ t.free_items = 1
               /\ t.free_item_count = item_count(a)
               /\ t.max_items = item_count(a)
               /\ \A j \in Items : t.next[j] = IF j = 1 THEN LINK ELSE STALE
<1> DEFINE next == [i \in Items |-> IF i = 1 THEN LINK ELSE STALE]
<1>1. next \in [Items -> Items \cup {NULL, LINK, STALE}]
  OBVIOUS
<1>2. 1 \in Items /\ item_count(a) \in Int
  BY ItemsInterval, ItemCount
<1>3. __helper_slab_init(a) = [free_items |-> 1, free_item_count |-> item_count(a),
                               max_items |-> item_count(a), next |-> next]
  BY DEF __helper_slab_init
<1>4. \A j \in Items : next[j] = IF j = 1 THEN LINK ELSE STALE
  OBVIOUS
<1> HIDE DEF next
<1> QED
  BY <1>1, <1>2, <1>3, <1>4 DEF SlabState

-------------------------------------------------------------------------------
(* The list of free items.                                                 *)

\* L[1], ..., L[n] are the items of 1 .. c that are not in H, each once.
Listing(L, n, c, H) ==
    /\ n \in Nat
    /\ L \in [1 .. n -> 1 .. c]
    /\ \A j, k \in 1 .. n : L[j] = L[k] => j = k
    /\ H \subseteq 1 .. c
    /\ \A x \in 1 .. c : x \in H <=> \A k \in 1 .. n : L[k] # x

\* Slab s of allocator a has the list L of n free items.  The list is real up
\* to place m, where the item with LINK is: from there on the items are
\* neighbours, up to the last one that fits.  m = n + 1 when no free item has
\* LINK.
Linked(a, s, L, n, m) ==
    /\ m \in 1 .. n + 1
    /\ s.free_item_count = n
    /\ s.max_items = item_count(a)
    /\ n > 0 => s.free_items = L[1]
    /\ n = 0 /\ item_count(a) > 0 => s.free_items = NULL
    /\ \A k \in 1 .. n : k < m => s.next[L[k]] = IF k = n THEN NULL ELSE L[k + 1]
    /\ m <= n => /\ s.next[L[m]] = LINK
                 /\ L[n] = item_count(a)
                 /\ \A k \in m .. n : L[k] = L[m] + (k - m)

\* The list without its first item.
Rest(L, n) == [k \in 1 .. n - 1 |-> L[k + 1]]

\* The list with item i in front.
InFront(L, n, i) == [k \in 1 .. n + 1 |-> IF k = 1 THEN i ELSE L[k - 1]]

\* A list of n different items out of c: what cardinalities say.
LEMMA ListingCount ==
    ASSUME NEW L, NEW n, NEW c \in Nat, NEW H, Listing(L, n, c, H)
    PROVE  /\ n <= c
           /\ Cardinality((1 .. c) \ H) = n
           /\ n = c => H = {}
<1> DEFINE F == (1 .. c) \ H
<1>1. n \in Nat /\ L \in [1 .. n -> F]
  BY DEF Listing
<1>2. L \in Bijection(1 .. n, F)
  <2>1. \A j, k \in 1 .. n : L[j] = L[k] => j = k
    BY DEF Listing
  <2>2. \A x \in F : \E k \in 1 .. n : L[k] = x
    BY DEF Listing
  <2> HIDE DEF F
  <2> QED
    BY <1>1, <2>1, <2>2 DEF Bijection, Injection, Surjection, IsInjective
<1>3. IsFiniteSet(1 .. n) /\ Cardinality(1 .. n) = n
  <2>1. Cardinality(1 .. n) = IF 1 > n THEN 0 ELSE n - 1 + 1
    BY <1>1, FS_Interval
  <2> QED
    BY <1>1, <2>1, FS_Interval
<1>4. IsFiniteSet(1 .. c) /\ Cardinality(1 .. c) = c
  <2>1. Cardinality(1 .. c) = IF 1 > c THEN 0 ELSE c - 1 + 1
    BY FS_Interval
  <2> QED
    BY <2>1, FS_Interval
<1>5. Cardinality(F) = n
  <2> HIDE DEF F
  <2>1. ExistsBijection(1 .. n, F)
    BY <1>2 DEF ExistsBijection
  <2> QED
    BY <1>3, <2>1, FS_Bijection
<1>6. Cardinality(F) <= c /\ (c = Cardinality(F) => 1 .. c = F)
  <2>1. F \in SUBSET (1 .. c)
    OBVIOUS
  <2> HIDE DEF F
  <2> QED
    BY <1>4, <2>1, FS_Subset
<1>7. 1 .. c = F => H = {}
  BY DEF Listing
<1> QED
  BY <1>5, <1>6, <1>7

\* A slab that was just initialised.
LEMMA InitLinked ==
    ASSUME NEW a \in Allocators
    PROVE  LET L == [k \in 1 .. item_count(a) |-> k] IN
           /\ Listing(L, item_count(a), item_count(a), {})
           /\ Linked(a, __helper_slab_init(a), L, item_count(a), 1)
<1> DEFINE c == item_count(a)
           t == __helper_slab_init(a)
           L == [k \in 1 .. c |-> k]
<1>1. c \in Nat /\ 1 .. c \subseteq Items
  BY ItemCount, ItemsInterval
<1>2. /\ t.free_items = 1
      /\ t.free_item_count = c
      /\ t.max_items = c
      /\ \A j \in Items : t.next[j] = IF j = 1 THEN LINK ELSE STALE
  BY InitFields
<1> HIDE DEF c, t
<1>3. Listing(L, c, c, {})
  BY <1>1 DEF Listing
<1>4. Linked(a, t, L, c, 1)
  BY <1>1, <1>2 DEF Linked, c
<1> QED
  BY <1>3, <1>4 DEF c, t

\* allocator_alloc takes the first item off the list, and nothing else.
LEMMA TakenLinked ==
    ASSUME NEW a \in Allocators, NEW s \in SlabState, NEW L, NEW n, NEW m, n > 0,
           n \in Nat, L \in [1 .. n -> 1 .. item_count(a)],
           \A j, k \in 1 .. n : L[j] = L[k] => j = k,
           Linked(a, s, L, n, m)
    PROVE  /\ s.free_items \in Items
           /\ \E m2 : Linked(a, Taken(a, s), Rest(L, n), n - 1, m2)
<1> DEFINE c == item_count(a)
           t == Taken(a, s)
           R == Rest(L, n)
           i == s.free_items
<1>1. c \in Nat /\ 1 .. c \subseteq Items
  BY ItemCount, ItemsInterval
<1>2. 1 \in 1 .. n /\ i = L[1] /\ i \in 1 .. c
  BY DEF Linked
<1>3. i \in Items
  BY <1>1, <1>2
<1>4. /\ t.free_items = NextFree(a, s, i)
      /\ t.free_item_count = s.free_item_count - 1
      /\ t.max_items = s.max_items
      /\ \A j \in Items :
            t.next[j] = IF j = i THEN NULL
                        ELSE IF j = i + 1 /\ s.next[i] = LINK /\ Fits(a, j) THEN LINK
                        ELSE s.next[j]
  BY <1>3, TakenFields
<1>5. \A k \in 1 .. n - 1 : k + 1 \in 1 .. n /\ R[k] = L[k + 1] /\ R[k] # i /\ R[k] \in 1 .. c
  <2> TAKE k \in 1 .. n - 1
  <2>1. k + 1 \in 1 .. n /\ k + 1 # 1
    OBVIOUS
  <2>2. L[k + 1] # L[1]
    BY <2>1, <1>2
  <2> QED
    BY <1>2, <2>1, <2>2 DEF Rest
<1>6. /\ m \in 1 .. n + 1
      /\ s.free_item_count = n
      /\ s.max_items = c
      /\ \A k \in 1 .. n : k < m => s.next[L[k]] = IF k = n THEN NULL ELSE L[k + 1]
      /\ m <= n => /\ s.next[L[m]] = LINK
                   /\ L[n] = c
                   /\ \A k \in m .. n : L[k] = L[m] + (k - m)
  BY DEF Linked
<1>7. t.free_item_count = n - 1 /\ t.max_items = c
  BY <1>4, <1>6
<1> HIDE DEF c, t, R, i
<1>8. CASE m > 1
  <2>1. s.next[i] = IF n = 1 THEN NULL ELSE L[2]
    BY <1>2, <1>6, <1>8
  <2>2. s.next[i] # LINK
    BY <1>1, <2>1 DEF NULL, LINK
  <2>3. t.free_items = IF n = 1 THEN NULL ELSE L[2]
    BY <1>4, <2>1, <2>2 DEF NextFree
  <2>4. n - 1 > 0 => t.free_items = R[1]
    BY <1>5, <2>3
  <2>5. n - 1 = 0 => t.free_items = NULL
    BY <2>3
  <2>6. \A k \in 1 .. n - 1 : t.next[R[k]] = s.next[L[k + 1]]
    BY <1>1, <1>4, <1>5, <2>2
  <2>7. \A k \in 1 .. n - 1 : k < m - 1 => t.next[R[k]] = IF k = n - 1 THEN NULL ELSE R[k + 1]
    <3> SUFFICES ASSUME NEW k \in 1 .. n - 1, k < m - 1
                 PROVE  t.next[R[k]] = IF k = n - 1 THEN NULL ELSE R[k + 1]
      OBVIOUS
    <3>1. k + 1 < m /\ k + 1 \in 1 .. n
      BY <1>6
    <3>2. t.next[R[k]] = IF k + 1 = n THEN NULL ELSE L[(k + 1) + 1]
      BY <1>6, <2>6, <3>1
    <3>3. CASE k = n - 1
      BY <3>2, <3>3
    <3>4. CASE k # n - 1
      <4>1. k + 1 \in 1 .. n - 1 /\ k + 1 # n
        BY <3>4
      <4> QED
        BY <1>5, <3>2, <3>4, <4>1
    <3> QED
      BY <3>3, <3>4
  <2>8. ASSUME m - 1 <= n - 1
        PROVE  /\ t.next[R[m - 1]] = LINK
               /\ R[n - 1] = c
               /\ \A k \in m - 1 .. n - 1 : R[k] = R[m - 1] + (k - (m - 1))
    <3>1. m - 1 \in 1 .. n - 1 /\ n - 1 \in 1 .. n - 1 /\ m <= n
      BY <1>6, <1>8, <2>8
    <3>2. R[m - 1] = L[m] /\ R[n - 1] = L[n] /\ t.next[R[m - 1]] = s.next[L[m]]
      <4>1. (m - 1) + 1 = m /\ (n - 1) + 1 = n
        BY <1>6
      <4> QED
        BY <1>5, <2>6, <3>1, <4>1
    <3>3. \A k \in m - 1 .. n - 1 : R[k] = L[m] + (k - (m - 1))
      <4> TAKE k \in m - 1 .. n - 1
      <4>1. k \in 1 .. n - 1 /\ k + 1 \in m .. n /\ (k + 1) - m = k - (m - 1)
        BY <1>6, <1>8, <3>1, SMTT(30)
      <4> QED
        BY <1>5, <1>6, <3>1, <4>1
    <3> QED
      BY <1>6, <3>1, <3>2, <3>3
  <2>9. m - 1 \in 1 .. (n - 1) + 1
    BY <1>6, <1>8
  <2>10. Linked(a, t, R, n - 1, m - 1)
    BY <1>7, <2>4, <2>5, <2>7, <2>8, <2>9 DEF Linked, c
  <2> QED
    BY <1>3, <2>10 DEF i, t, R
<1>9. CASE m = 1
  <2>1. s.next[i] = LINK /\ L[n] = c /\ \A k \in 1 .. n : L[k] = i + (k - 1)
    BY <1>2, <1>6, <1>9
  <2>2. Fits(a, i + 1) <=> i + 1 <= c
    BY <1>1, <1>2, FitsCount DEF c
  <2>3. CASE n = 1
    <3>1. i = c /\ ~Fits(a, i + 1)
      BY <1>1, <1>2, <2>1, <2>2, <2>3
    <3>2. t.free_items = NULL
      BY <1>4, <2>1, <3>1 DEF NextFree
    <3>3. Linked(a, t, R, n - 1, 1)
      BY <1>7, <2>3, <3>2 DEF Linked, c
    <3> QED
      BY <1>3, <3>3 DEF i, t, R
  <2>4. CASE n > 1
    <3>1. 1 \in 1 .. n - 1 /\ 2 \in 1 .. n /\ L[2] = i + 1 /\ R[1] = i + 1
      <4>1. 1 \in 1 .. n - 1 /\ 2 \in 1 .. n
        BY <2>4
      <4>2. L[2] = i + 1
        BY <1>2, <2>1, <4>1
      <4>3. R[1] = L[2]
        BY <1>5, <4>1
      <4> QED
        BY <4>1, <4>2, <4>3
    <3>2. i + 1 \in 1 .. c /\ Fits(a, i + 1) /\ i + 1 \in Items /\ i + 1 # i
      BY <1>1, <1>2, <1>5, <2>2, <3>1
    <3>3. t.free_items = R[1] /\ t.next[R[1]] = LINK
      BY <1>4, <2>1, <3>1, <3>2 DEF NextFree
    <3>4. R[n - 1] = c
      <4>1. n - 1 \in 1 .. n - 1 /\ (n - 1) + 1 = n
        BY <2>4
      <4> QED
        BY <1>5, <2>1, <4>1
    <3>5. \A k \in 1 .. n - 1 : R[k] = R[1] + (k - 1)
      <4> TAKE k \in 1 .. n - 1
      <4>1. R[k] = i + ((k + 1) - 1)
        BY <1>5, <2>1
      <4> QED
        BY <1>2, <3>1, <4>1
    <3>6. Linked(a, t, R, n - 1, 1)
      BY <1>7, <2>4, <3>3, <3>4, <3>5 DEF Linked, c
    <3> QED
      BY <1>3, <3>6 DEF i, t, R
  <2> QED
    BY <2>3, <2>4
<1> QED
  BY <1>6, <1>8, <1>9

\* An item that is taken off the list is in use.
LEMMA RestListing ==
    ASSUME NEW L, NEW n, NEW c \in Nat, NEW H, Listing(L, n, c, H), n > 0
    PROVE  /\ L[1] \in (1 .. c) \ H
           /\ Listing(Rest(L, n), n - 1, c, H \cup {L[1]})
<1> DEFINE R == Rest(L, n)
<1>1. /\ n \in Nat /\ 1 \in 1 .. n
      /\ L \in [1 .. n -> 1 .. c]
      /\ \A j, k \in 1 .. n : L[j] = L[k] => j = k
      /\ H \subseteq 1 .. c
      /\ \A x \in 1 .. c : x \in H <=> \A k \in 1 .. n : L[k] # x
  BY DEF Listing
<1>2. L[1] \in (1 .. c) \ H
  BY <1>1
<1>3. n - 1 \in Nat /\ \A k \in 1 .. n - 1 : k + 1 \in 1 .. n
  BY <1>1
<1>4. R \in [1 .. n - 1 -> 1 .. c] /\ \A k \in 1 .. n - 1 : R[k] = L[k + 1]
  BY <1>1, <1>3 DEF Rest
<1> HIDE DEF R
<1>5. \A j, k \in 1 .. n - 1 : R[j] = R[k] => j = k
  <2> SUFFICES ASSUME NEW j \in 1 .. n - 1, NEW k \in 1 .. n - 1, R[j] = R[k]
               PROVE  j = k
    OBVIOUS
  <2>1. j + 1 = k + 1
    BY <1>1, <1>3, <1>4
  <2> QED
    BY <2>1
<1>6. ASSUME NEW x \in 1 .. c
      PROVE  x \in H \cup {L[1]} <=> \A k \in 1 .. n - 1 : R[k] # x
  <2>1. ASSUME x \in H \cup {L[1]}, NEW k \in 1 .. n - 1 PROVE R[k] # x
    <3>1. k + 1 \in 1 .. n /\ k + 1 # 1 /\ R[k] = L[k + 1]
      BY <1>3, <1>4
    <3> QED
      BY <1>1, <2>1, <3>1
  <2>2. ASSUME x \notin H, x # L[1] PROVE \E k \in 1 .. n - 1 : R[k] = x
    <3>1. PICK k \in 1 .. n : L[k] = x
      BY <1>1, <2>2
    <3>2. k # 1
      BY <2>2, <3>1
    <3>3. k - 1 \in 1 .. n - 1 /\ (k - 1) + 1 = k
      BY <1>1, <3>2
    <3> QED
      BY <1>4, <3>1, <3>3
  <2> QED
    BY <2>1, <2>2
<1> QED
  BY <1>1, <1>2, <1>3, <1>4, <1>5, <1>6 DEF Listing, R

\* allocator_free puts an item that is in use in front of the list.
LEMMA ReturnedLinked ==
    ASSUME NEW a \in Allocators, NEW s \in SlabState, NEW L, NEW n, NEW m, NEW H, NEW i \in H,
           Listing(L, n, item_count(a), H),
           Linked(a, s, L, n, m)
    PROVE  /\ Listing(InFront(L, n, i), n + 1, item_count(a), H \ {i})
           /\ Linked(a, Returned(s, i), InFront(L, n, i), n + 1, m + 1)
<1> DEFINE c == item_count(a)
           t == Returned(s, i)
           P == InFront(L, n, i)
<1>1. c \in Nat /\ 1 .. c \subseteq Items
  BY ItemCount, ItemsInterval
<1>2. /\ n \in Nat
      /\ L \in [1 .. n -> 1 .. c]
      /\ \A j, k \in 1 .. n : L[j] = L[k] => j = k
      /\ H \subseteq 1 .. c
      /\ \A x \in 1 .. c : x \in H <=> \A k \in 1 .. n : L[k] # x
  BY DEF Listing
<1>3. i \in 1 .. c /\ i \in Items /\ c > 0 /\ \A k \in 1 .. n : L[k] # i
  <2>1. i \in 1 .. c
    BY <1>2
  <2> QED
    BY <1>1, <1>2, <2>1
<1>4. /\ t.free_items = i
      /\ t.free_item_count = s.free_item_count + 1
      /\ t.max_items = s.max_items
      /\ \A j \in Items : t.next[j] = IF j = i THEN s.free_items ELSE s.next[j]
  BY <1>3, ReturnedFields
<1>5. /\ n + 1 \in Nat /\ 1 \in 1 .. n + 1
      /\ P[1] = i
      /\ \A k \in 2 .. n + 1 : k - 1 \in 1 .. n /\ P[k] = L[k - 1]
      /\ P \in [1 .. n + 1 -> 1 .. c]
  <2>1. \A k \in 2 .. n + 1 : k - 1 \in 1 .. n
    BY <1>2
  <2>2. \A k \in 1 .. n + 1 : k = 1 \/ k \in 2 .. n + 1
    BY <1>2
  <2>3. n + 1 \in Nat /\ 1 \in 1 .. n + 1
    BY <1>2
  <2>4. \A k \in 2 .. n + 1 : P[k] = L[k - 1]
    BY <1>2 DEF InFront
  <2> QED
    BY <1>2, <1>3, <2>1, <2>2, <2>3, <2>4 DEF InFront
<1>6. /\ m \in 1 .. n + 1
      /\ s.free_item_count = n
      /\ s.max_items = c
      /\ n > 0 => s.free_items = L[1]
      /\ n = 0 => s.free_items = NULL
      /\ \A k \in 1 .. n : k < m => s.next[L[k]] = IF k = n THEN NULL ELSE L[k + 1]
      /\ m <= n => /\ s.next[L[m]] = LINK
                   /\ L[n] = c
                   /\ \A k \in m .. n : L[k] = L[m] + (k - m)
  BY <1>3 DEF Linked
<1> HIDE DEF c, t, P
<1>7. Listing(P, n + 1, c, H \ {i})
  <2>1. \A k \in 1 .. n + 1 : k = 1 \/ k \in 2 .. n + 1
    BY <1>2
  <2>2. ASSUME NEW j \in 1 .. n + 1, NEW k \in 1 .. n + 1, P[j] = P[k]
        PROVE  j = k
    <3>1. \A x \in 2 .. n + 1 : P[x] # i
      BY <1>3, <1>5
    <3>2. j = 1 <=> k = 1
      BY <1>5, <2>1, <2>2, <3>1
    <3>3. j # 1 => j - 1 = k - 1
      BY <1>2, <1>5, <2>1, <2>2, <3>2
    <3> QED
      BY <1>2, <3>2, <3>3
  <2>3. ASSUME NEW x \in 1 .. c
        PROVE  x \in H \ {i} <=> \A k \in 1 .. n + 1 : P[k] # x
    <3>1. ASSUME x \in H, x # i, NEW k \in 1 .. n + 1 PROVE P[k] # x
      BY <1>2, <1>5, <2>1, <3>1
    <3>2. ASSUME x \notin H PROVE \E k \in 1 .. n + 1 : P[k] = x
      <4>1. PICK k \in 1 .. n : L[k] = x
        BY <1>2, <3>2
      <4>2. k + 1 \in 2 .. n + 1 /\ (k + 1) - 1 = k /\ k + 1 \in 1 .. n + 1
        BY <1>2
      <4> QED
        BY <1>5, <4>1, <4>2
    <3>3. x = i => \E k \in 1 .. n + 1 : P[k] = x
      BY <1>5
    <3> QED
      BY <3>1, <3>2, <3>3
  <2> QED
    BY <1>2, <1>5, <2>2, <2>3 DEF Listing
<1>8. Linked(a, t, P, n + 1, m + 1)
  <2>1. \A k \in 1 .. n : t.next[L[k]] = s.next[L[k]]
    BY <1>1, <1>2, <1>3, <1>4
  <2>2. t.next[i] = IF n = 0 THEN NULL ELSE L[1]
    BY <1>2, <1>3, <1>4, <1>6
  <2>3. \A k \in 1 .. n + 1 : k < m + 1 => t.next[P[k]] = IF k = n + 1 THEN NULL ELSE P[k + 1]
    <3> SUFFICES ASSUME NEW k \in 1 .. n + 1, k < m + 1
                 PROVE  t.next[P[k]] = IF k = n + 1 THEN NULL ELSE P[k + 1]
      OBVIOUS
    <3>1. CASE k = 1
      <4>1. n # 0 => P[2] = L[1]
        BY <1>2, <1>5
      <4> QED
        BY <1>2, <1>5, <2>2, <3>1, <4>1
    <3>2. CASE k # 1
      <4>1. k \in 2 .. n + 1 /\ k - 1 \in 1 .. n /\ k - 1 < m
        BY <1>2, <1>6, <3>2
      <4>2. t.next[P[k]] = IF k - 1 = n THEN NULL ELSE L[(k - 1) + 1]
        BY <1>5, <1>6, <2>1, <4>1
      <4>3. CASE k = n + 1
        BY <1>2, <4>2, <4>3
      <4>4. CASE k # n + 1
        <5>1. k + 1 \in 2 .. n + 1 /\ (k + 1) - 1 = k /\ (k - 1) + 1 = k /\ k - 1 # n
          BY <1>2, <4>1, <4>4
        <5> QED
          BY <1>5, <4>2, <4>4, <5>1
      <4> QED
        BY <4>3, <4>4
    <3> QED
      BY <3>1, <3>2
  <2>4. ASSUME m + 1 <= n + 1
        PROVE  /\ t.next[P[m + 1]] = LINK
               /\ P[n + 1] = c
               /\ \A k \in m + 1 .. n + 1 : P[k] = P[m + 1] + (k - (m + 1))
    <3>1. m + 1 \in 2 .. n + 1 /\ n + 1 \in 2 .. n + 1 /\ m <= n /\ m \in 1 .. n
      BY <1>2, <1>6, <2>4
    <3>2. (m + 1) - 1 = m /\ (n + 1) - 1 = n
      BY <1>2, <1>6
    <3>3. P[m + 1] = L[m] /\ P[n + 1] = L[n] /\ t.next[P[m + 1]] = s.next[L[m]]
      BY <1>5, <2>1, <3>1, <3>2
    <3>4. \A k \in m + 1 .. n + 1 : P[k] = L[m] + (k - (m + 1))
      <4> TAKE k \in m + 1 .. n + 1
      <4>1. k \in 2 .. n + 1 /\ k - 1 \in m .. n /\ (k - 1) - m = k - (m + 1)
        <5>1. m \in Nat /\ m >= 1 /\ k \in Int /\ m + 1 <= k /\ k <= n + 1
          BY <1>2, <1>6
        <5>2. \A x, y \in Int : (x - 1) - y = x - (y + 1)
          OBVIOUS
        <5>3. k \in 2 .. n + 1 /\ k - 1 \in m .. n
          BY <1>2, <5>1
        <5> QED
          BY <5>1, <5>2, <5>3
      <4> QED
        BY <1>5, <1>6, <3>1, <4>1
    <3> QED
      BY <1>6, <3>1, <3>3, <3>4
  <2>5. m + 1 \in 1 .. (n + 1) + 1 /\ n + 1 # 0
    BY <1>2, <1>6
  <2>6. t.free_item_count = n + 1 /\ t.max_items = c /\ t.free_items = P[1]
    BY <1>4, <1>5, <1>6
  <2> QED
    BY <2>3, <2>4, <2>5, <2>6 DEF Linked, c
<1> QED
  BY <1>7, <1>8 DEF c, t, P

-------------------------------------------------------------------------------
(* What FreeListSound says of one slab.                                    *)

\* The list of free items of slab s, of whose items those in H are in use.
FreeList(a, s, H) ==
    \E n \in 0 .. item_count(a) : \E L \in [1 .. n -> 1 .. item_count(a)] :
        \E m \in 1 .. n + 1 :
            Listing(L, n, item_count(a), H) /\ Linked(a, s, L, n, m)

LEMMA FreeListIntro ==
    ASSUME NEW a \in Allocators, NEW s, NEW H, NEW L, NEW n, NEW m,
           Listing(L, n, item_count(a), H), Linked(a, s, L, n, m)
    PROVE  FreeList(a, s, H)
<1>1. n \in Nat /\ L \in [1 .. n -> 1 .. item_count(a)] /\ m \in 1 .. n + 1
  BY DEF Listing, Linked
<1>2. n \in 0 .. item_count(a)
  <2>1. item_count(a) \in Nat
    BY ItemCount
  <2>2. n <= item_count(a)
    BY <2>1, ListingCount
  <2> QED
    BY <1>1, <2>1, <2>2
<1> QED
  BY <1>1, <1>2 DEF FreeList

LEMMA FreeListInit ==
    ASSUME NEW a \in Allocators
    PROVE  FreeList(a, __helper_slab_init(a), {})
  BY InitLinked, FreeListIntro

LEMMA FreeListTaken ==
    ASSUME NEW a \in Allocators, NEW s \in SlabState, NEW H, FreeList(a, s, H),
           s.free_item_count > 0
    PROVE  /\ s.free_items \in (1 .. item_count(a)) \ H
           /\ s.free_items \in Items
           /\ FreeList(a, Taken(a, s), H \cup {s.free_items})
<1>1. PICK n \in 0 .. item_count(a) : \E L \in [1 .. n -> 1 .. item_count(a)] :
                \E m \in 1 .. n + 1 : Listing(L, n, item_count(a), H) /\ Linked(a, s, L, n, m)
  BY DEF FreeList
<1>2. PICK L \in [1 .. n -> 1 .. item_count(a)], m \in 1 .. n + 1 :
                Listing(L, n, item_count(a), H) /\ Linked(a, s, L, n, m)
  BY <1>1
<1>3. n > 0 /\ n \in Nat /\ s.free_items = L[1]
  BY <1>2, ItemCount DEF Linked
<1>4. \A j, k \in 1 .. n : L[j] = L[k] => j = k
  BY <1>2 DEF Listing
<1>5. PICK m2 : Linked(a, Taken(a, s), Rest(L, n), n - 1, m2)
  BY <1>2, <1>3, <1>4, TakenLinked
<1>6. s.free_items \in Items
  BY <1>2, <1>3, <1>4, TakenLinked
<1>7. /\ L[1] \in (1 .. item_count(a)) \ H
      /\ Listing(Rest(L, n), n - 1, item_count(a), H \cup {L[1]})
  BY <1>2, <1>3, ItemCount, RestListing
<1> QED
  BY <1>3, <1>5, <1>6, <1>7, FreeListIntro

LEMMA FreeListReturned ==
    ASSUME NEW a \in Allocators, NEW s \in SlabState, NEW H, FreeList(a, s, H), NEW i \in H
    PROVE  FreeList(a, Returned(s, i), H \ {i})
<1>1. PICK n \in 0 .. item_count(a) : \E L \in [1 .. n -> 1 .. item_count(a)] :
                \E m \in 1 .. n + 1 : Listing(L, n, item_count(a), H) /\ Linked(a, s, L, n, m)
  BY DEF FreeList
<1>2. PICK L \in [1 .. n -> 1 .. item_count(a)], m \in 1 .. n + 1 :
                Listing(L, n, item_count(a), H) /\ Linked(a, s, L, n, m)
  BY <1>1
<1>3. /\ Listing(InFront(L, n, i), n + 1, item_count(a), H \ {i})
      /\ Linked(a, Returned(s, i), InFront(L, n, i), n + 1, m + 1)
  BY <1>2, ReturnedLinked
<1> QED
  BY <1>3, FreeListIntro

\* The counters of a slab tell whether any of its items is in use.
LEMMA FreeListCount ==
    ASSUME NEW a \in Allocators, NEW s, NEW H, FreeList(a, s, H)
    PROVE  /\ s.free_item_count \in 0 .. item_count(a)
           /\ s.max_items = item_count(a)
           /\ H \subseteq 1 .. item_count(a)
           /\ s.free_item_count = s.max_items => H = {}
           /\ s.free_items \in Items \cup {NULL} \/ item_count(a) = 0
<1>1. PICK n \in 0 .. item_count(a) : \E L \in [1 .. n -> 1 .. item_count(a)] :
                \E m \in 1 .. n + 1 : Listing(L, n, item_count(a), H) /\ Linked(a, s, L, n, m)
  BY DEF FreeList
<1>2. PICK L \in [1 .. n -> 1 .. item_count(a)], m \in 1 .. n + 1 :
                Listing(L, n, item_count(a), H) /\ Linked(a, s, L, n, m)
  BY <1>1
<1>3. s.free_item_count = n /\ s.max_items = item_count(a) /\ H \subseteq 1 .. item_count(a)
  BY <1>2 DEF Linked, Listing
<1>4. n = item_count(a) => H = {}
  BY <1>2, ItemCount, ListingCount
<1>5. s.free_items \in Items \cup {NULL} \/ item_count(a) = 0
  <2>1. 1 .. item_count(a) \subseteq Items /\ item_count(a) \in Nat
    BY ItemsInterval, ItemCount
  <2>2. n > 0 => L[1] \in 1 .. item_count(a)
    BY <2>1
  <2> QED
    BY <1>2, <2>1, <2>2 DEF Linked
<1> QED
  BY <1>3, <1>4, <1>5

\* One step of After.
TakeNext(a, x) == IF x.free_items \in Items THEN Taken(a, x) ELSE x

\* The slabs that taking one item after the other leads through: they give the
\* recursive definition of After its meaning.
LEMMA Iterates ==
    ASSUME NEW a \in Allocators, NEW s \in SlabState, NEW b \in Nat
    PROVE  \E f \in [0 .. b -> SlabState] :
              f[0] = s /\ \A k \in 1 .. b : f[k] = TakeNext(a, f[k - 1])
<1> DEFINE Path(f, n) == /\ f \in [0 .. n -> SlabState]
                         /\ f[0] = s
                         /\ \A k \in 1 .. n : f[k] = TakeNext(a, f[k - 1])
           T == {n \in Nat : ~ \E f : Path(f, n)}
<1>1. T = {}
  <2> SUFFICES ASSUME T # {} PROVE FALSE
    OBVIOUS
  <2>1. T \subseteq Nat
    OBVIOUS
  <2>2. PICK n \in T : \A m \in T : n <= m
    <3> HIDE DEF T
    <3> QED
      BY <2>1, NatMin
  <2>3. CASE n = 0
    <3>1. Path([k \in 0 .. 0 |-> s], 0)
      OBVIOUS
    <3> HIDE DEF Path
    <3> QED
      BY <2>3, <3>1
  <2>4. CASE n # 0
    <3>1. n \in Nat /\ n - 1 \in Nat /\ n - 1 \notin T
      <4>1. n \in Nat
        BY <2>1, <2>2
      <4> HIDE DEF T
      <4>2. n - 1 \in T => n <= n - 1
        BY <2>2
      <4> QED
        BY <2>4, <4>1, <4>2
    <3>2. PICK f : Path(f, n - 1)
      <4> HIDE DEF Path
      <4> QED
        BY <3>1
    <3> DEFINE g == [k \in 0 .. n |-> IF k = n THEN TakeNext(a, f[n - 1]) ELSE f[k]]
    <3>3. \A k \in 0 .. n : k # n => k \in 0 .. n - 1
      BY <3>1
    <3>4. n - 1 \in 0 .. n - 1 /\ f[n - 1] \in SlabState
      BY <3>1, <3>2
    <3>5. g \in [0 .. n -> SlabState]
      <4>1. TakeNext(a, f[n - 1]) \in SlabState
        BY <3>4, TakenFields DEF TakeNext
      <4> QED
        BY <3>2, <3>3, <4>1
    <3>6. g[0] = s
      BY <2>4, <3>1, <3>2
    <3>7. ASSUME NEW k \in 1 .. n PROVE g[k] = TakeNext(a, g[k - 1])
      <4>1. k - 1 \in 0 .. n /\ k - 1 # n /\ g[k - 1] = f[k - 1]
        BY <3>1
      <4>2. CASE k = n
        BY <3>1, <4>1, <4>2
      <4>3. CASE k # n
        <5>1. k \in 1 .. n - 1
          BY <3>1, <4>3
        <5> QED
          BY <3>1, <3>2, <4>1, <4>3, <5>1
      <4> QED
        BY <4>2, <4>3
    <3>8. Path(g, n)
      BY <3>5, <3>6, <3>7
    <3> HIDE DEF Path, g
    <3> QED
      BY <3>8
  <2> QED
    BY <2>3, <2>4
<1>2. PICK f : Path(f, b)
  <2> HIDE DEF Path
  <2> QED
    BY <1>1
<1> QED
  BY <1>2

\* After unfolds as its definition says.
LEMMA AfterUnfolds ==
    ASSUME NEW a \in Allocators, NEW s \in SlabState
    PROVE  /\ After(a, s)[0] = s
           /\ \A n \in 1 .. Max(Items) :
                 After(a, s)[n] = IF After(a, s)[n - 1].free_items \in Items
                                  THEN Taken(a, After(a, s)[n - 1])
                                  ELSE After(a, s)[n - 1]
<1> DEFINE b == Max(Items)
           G(f) == [n \in 0 .. b |->
                       IF n = 0 THEN s
                       ELSE IF f[n - 1].free_items \in Items THEN Taken(a, f[n - 1])
                       ELSE f[n - 1]]
           h == After(a, s)
<1>1. b \in Nat
  BY ItemsInterval
<1>3. h = CHOOSE f : f = G(f)
  BY DEF After
<1> HIDE DEF b, h
<1>4. \E f : f = G(f)
  <2>1. PICK f \in [0 .. b -> SlabState] :
                f[0] = s /\ \A k \in 1 .. b : f[k] = TakeNext(a, f[k - 1])
    BY <1>1, Iterates
  <2>2. ASSUME NEW n \in 0 .. b
        PROVE  f[n] = G(f)[n]
    <3>1. CASE n = 0
      BY <2>1, <3>1
    <3>2. CASE n # 0
      <4>1. n \in 1 .. b /\ n - 1 \in 0 .. b
        BY <1>1, <3>2
      <4> QED
        BY <2>1, <3>2, <4>1 DEF TakeNext
    <3> QED
      BY <3>1, <3>2
  <2>3. f = G(f)
    BY <2>1, <2>2
  <2> HIDE DEF G
  <2> QED
    BY <2>3
<1>5. h = G(h)
  <2> HIDE DEF G
  <2> QED
    BY <1>3, <1>4
<1>6. h[0] = s
  BY <1>1, <1>5
<1>7. ASSUME NEW n \in 1 .. b
      PROVE  h[n] = IF h[n - 1].free_items \in Items THEN Taken(a, h[n - 1]) ELSE h[n - 1]
  <2>1. n \in 0 .. b /\ n # 0
    BY <1>1
  <2>2. h[n] = G(h)[n]
    BY <1>5
  <2> QED
    BY <2>1, <2>2
<1> QED
  BY <1>6, <1>7 DEF h, b

\* The list without its first k items.
Drop(L, n, k) == [j \in 1 .. n - k |-> L[j + k]]

\* Taking the items one by one walks along the list.
LEMMA WalkList ==
    ASSUME NEW a \in Allocators, NEW s \in SlabState, NEW L, NEW n, NEW m, NEW H,
           Listing(L, n, item_count(a), H), Linked(a, s, L, n, m)
    PROVE  \A k \in 0 .. n : /\ After(a, s)[k] \in SlabState
                             /\ \E m2 : Linked(a, After(a, s)[k], Drop(L, n, k), n - k, m2)
<1> DEFINE h == After(a, s)
           c == item_count(a)
           P(k) == h[k] \in SlabState /\ \E m2 : Linked(a, h[k], Drop(L, n, k), n - k, m2)
           T == {k \in 0 .. n : ~P(k)}
<1>1. /\ n \in Nat /\ L \in [1 .. n -> 1 .. c]
      /\ \A j, k \in 1 .. n : L[j] = L[k] => j = k
  BY DEF Listing
<1>2. c \in Nat /\ n <= c /\ Max(Items) \in Nat /\ c <= Max(Items)
  <2>1. c \in Nat
    BY ItemCount
  <2>2. n <= c
    BY <2>1, ListingCount
  <2>3. Max(Items) \in Nat /\ c \in 0 .. Max(Items)
    BY ItemsInterval
  <2> QED
    BY <2>1, <2>2, <2>3
<1>3. /\ h[0] = s
      /\ \A k \in 1 .. n : h[k] = IF h[k - 1].free_items \in Items THEN Taken(a, h[k - 1])
                                  ELSE h[k - 1]
  <2>1. \A k \in 1 .. n : k \in 1 .. Max(Items)
    BY <1>1, <1>2
  <2> QED
    BY <2>1, AfterUnfolds
<1> HIDE DEF h, c
<1>4. P(0)
  <2>1. n - 0 = n /\ \A j \in 1 .. n : j + 0 = j
    BY <1>1
  <2>2. Drop(L, n, 0) = L
    BY <1>1, <2>1 DEF Drop
  <2>3. Linked(a, h[0], Drop(L, n, 0), n - 0, m)
    BY <1>3, <2>1, <2>2
  <2> QED
    BY <1>3, <2>3
<1>5. ASSUME NEW k \in 0 .. n - 1, P(k)
      PROVE  P(k + 1)
  <2> DEFINE D == Drop(L, n, k)
  <2>1. PICK m2 : Linked(a, h[k], D, n - k, m2)
    BY <1>5
  <2>2. n - k \in Nat /\ n - k > 0 /\ (n - k) - 1 = n - (k + 1)
    BY <1>1
  <2>3. \A j \in 1 .. n - k : j + k \in 1 .. n /\ D[j] = L[j + k]
    BY <1>1 DEF Drop
  <2>4. D \in [1 .. n - k -> 1 .. c]
    BY <1>1, <2>3 DEF Drop
  <2>5. \A i, j \in 1 .. n - k : D[i] = D[j] => i = j
    <3> SUFFICES ASSUME NEW i \in 1 .. n - k, NEW j \in 1 .. n - k, D[i] = D[j]
                 PROVE  i = j
      OBVIOUS
    <3>1. i + k = j + k
      BY <1>1, <2>3
    <3> QED
      BY <3>1
  <2>6. Rest(D, n - k) = Drop(L, n, k + 1)
    <3>1. \A j \in 1 .. (n - k) - 1 : j + 1 \in 1 .. n - k /\ (j + 1) + k = j + (k + 1)
      BY <1>1
    <3>2. \A j \in 1 .. (n - k) - 1 : D[j + 1] = L[j + (k + 1)]
      BY <2>3, <3>1
    <3> HIDE DEF D
    <3> QED
      BY <2>2, <3>2 DEF Rest, Drop
  <2> HIDE DEF D
  <2>7. h[k].free_items \in Items /\ \E m3 : Linked(a, Taken(a, h[k]), Rest(D, n - k), (n - k) - 1, m3)
    BY <1>5, <2>1, <2>2, <2>4, <2>5, TakenLinked DEF c
  <2>8. k + 1 \in 1 .. n /\ (k + 1) - 1 = k
    BY <1>1
  <2>9. h[k + 1] = Taken(a, h[k])
    BY <1>3, <2>7, <2>8
  <2>10. h[k + 1] \in SlabState
    BY <1>5, <2>7, <2>9, TakenFields
  <2> QED
    BY <2>2, <2>6, <2>7, <2>9, <2>10
<1>6. T = {}
  <2> SUFFICES ASSUME T # {} PROVE FALSE
    OBVIOUS
  <2> HIDE DEF P
  <2>1. T \subseteq Nat
    OBVIOUS
  <2>2. PICK k \in T : \A j \in T : k <= j
    <3> HIDE DEF T
    <3> QED
      BY <2>1, NatMin
  <2>3. k \in 0 .. n /\ ~P(k) /\ k # 0
    BY <1>4, <2>2
  <2>4. k - 1 \in 0 .. n - 1 /\ (k - 1) + 1 = k /\ k - 1 \notin T
    <3>1. k - 1 \in T => k <= k - 1
      BY <2>2
    <3> QED
      BY <1>1, <2>3, <3>1
  <2>5. k - 1 \in 0 .. n
    BY <1>1, <2>3
  <2> QED
    BY <1>5, <2>3, <2>4, <2>5
<1> QED
  BY <1>6 DEF h

\* One slab's share of FreeListSound.
LEMMA SlabSound ==
    ASSUME NEW a \in Allocators, NEW s \in SlabState, NEW H, FreeList(a, s, H)
    PROVE  LET n     == s.free_item_count
               after == After(a, s)
               free  == 1 .. item_count(a) \ H
           IN  n > 0 => /\ {after[k].free_items : k \in 0 .. n - 1} = free
                        /\ Cardinality(free) = n
                        /\ after[n].free_items = NULL
<1> DEFINE c == item_count(a)
           h == After(a, s)
<1>1. PICK n \in 0 .. c : \E L \in [1 .. n -> 1 .. c] :
                \E m \in 1 .. n + 1 : Listing(L, n, c, H) /\ Linked(a, s, L, n, m)
  BY DEF FreeList
<1>2. PICK L \in [1 .. n -> 1 .. c], m \in 1 .. n + 1 :
                Listing(L, n, c, H) /\ Linked(a, s, L, n, m)
  BY <1>1
<1>3. s.free_item_count = n /\ n \in Nat /\ c \in Nat
  BY <1>2, ItemCount DEF Linked
<1> SUFFICES ASSUME n > 0
             PROVE  /\ {h[k].free_items : k \in 0 .. n - 1} = 1 .. c \ H
                    /\ Cardinality(1 .. c \ H) = n
                    /\ h[n].free_items = NULL
  BY <1>3
<1>4. Cardinality(1 .. c \ H) = n
  <2> HIDE DEF c
  <2> QED
    BY <1>2, <1>3, ListingCount
<1>5. \A k \in 0 .. n : \E m2 : Linked(a, h[k], Drop(L, n, k), n - k, m2)
  BY <1>2, WalkList
<1>6. c > 0
  BY <1>3
<1> HIDE DEF h
<1>7. ASSUME NEW k \in 0 .. n - 1
      PROVE  h[k].free_items = L[k + 1]
  <2>1. k \in 0 .. n /\ n - k > 0 /\ 1 \in 1 .. n - k
    BY <1>3
  <2>2. h[k].free_items = Drop(L, n, k)[1]
    BY <1>5, <2>1 DEF Linked
  <2>3. 1 + k = k + 1
    OBVIOUS
  <2> QED
    BY <2>1, <2>2, <2>3 DEF Drop
<1>8. h[n].free_items = NULL
  <2>1. n \in 0 .. n /\ n - n = 0
    BY <1>3
  <2>2. PICK m2 : Linked(a, h[n], Drop(L, n, n), n - n, m2)
    BY <1>5, <2>1
  <2> QED
    BY <1>6, <2>1, <2>2 DEF Linked
<1>9. {h[k].free_items : k \in 0 .. n - 1} \subseteq 1 .. c \ H
  <2> SUFFICES ASSUME NEW k \in 0 .. n - 1 PROVE h[k].free_items \in 1 .. c \ H
    OBVIOUS
  <2>1. k + 1 \in 1 .. n
    BY <1>3
  <2> QED
    BY <1>2, <1>7, <2>1 DEF Listing
<1>10. 1 .. c \ H \subseteq {h[k].free_items : k \in 0 .. n - 1}
  <2> SUFFICES ASSUME NEW x \in 1 .. c \ H PROVE \E k \in 0 .. n - 1 : h[k].free_items = x
    OBVIOUS
  <2>1. PICK j \in 1 .. n : L[j] = x
    BY <1>2 DEF Listing
  <2>2. j - 1 \in 0 .. n - 1 /\ (j - 1) + 1 = j
    BY <1>3
  <2> QED
    BY <1>7, <2>1, <2>2
<1> QED
  BY <1>4, <1>8, <1>9, <1>10

-------------------------------------------------------------------------------
(* The inductive invariant.                                                *)

\* A page is in one place only.
Placed ==
    /\ IsInjective(avail)
    /\ \A a \in Allocators :
          /\ IsInjective(slabs[a])
          /\ Range(slabs[a]) \cap Range(avail) = {}
          /\ \A b \in Allocators \ {a} : Range(slabs[a]) \cap Range(slabs[b]) = {}

\* Items in use are on a page of a living allocator.
InUse ==
    \A p \in Pages :
        held[p] # {} =>
            \E a \in Allocators : pc[a] \in {"live", "delete"} /\ p \in Range(slabs[a])

\* Every slab of every allocator has its list of free items.
Lists ==
    \A a \in Allocators : \A p \in Range(slabs[a]) : FreeList(a, slab[p], held[p])

\* allocator_new stops as soon as it has all its pages.
Wanted == \A a \in Allocators : pc[a] = "new" => want[a] > 0

Inv == TypeOK /\ Placed /\ InUse /\ Lists /\ FirstSlabServes /\ Wanted

\* In the list t, slabs with free items come before those without.
OrderedIn(f, t) ==
    \A i, j \in DOMAIN t :
        i < j /\ f[t[j]].free_item_count > 0 => f[t[i]].free_item_count > 0

LEMMA SlabIsState == Slab \subseteq SlabState
<1> SUFFICES ASSUME NEW s \in Slab PROVE s \in SlabState
  OBVIOUS
<1>1. Max(Items) \in Nat
  BY ItemsInterval
<1>2. /\ s.free_items \in Items \cup {NULL, LINK, STALE}
      /\ s.free_item_count \in Int /\ s.max_items \in Int
      /\ s.next \in [Items -> Items \cup {NULL, LINK, STALE}]
  BY <1>1 DEF Slab
<1>3. s = [free_items |-> s.free_items, free_item_count |-> s.free_item_count,
           max_items |-> s.max_items, next |-> s.next]
  BY DEF Slab
<1> QED
  BY <1>2, <1>3 DEF SlabState

\* A slab with a list of free items, whose first item exists, is well formed.
LEMMA StateIsSlab ==
    ASSUME NEW a \in Allocators, NEW s \in SlabState, NEW H, FreeList(a, s, H),
           s.free_items \in Items \cup {NULL}
    PROVE  s \in Slab
<1>1. Max(Items) \in Nat /\ item_count(a) \in 0 .. Max(Items)
  BY ItemsInterval
<1>2. s.free_item_count \in 0 .. item_count(a) /\ s.max_items = item_count(a)
  BY FreeListCount
<1>3. s.free_item_count \in 0 .. Max(Items) /\ s.max_items \in 0 .. Max(Items)
  BY <1>1, <1>2
<1>4. /\ s.next \in [Items -> Items \cup {NULL, LINK, STALE}]
      /\ s = [free_items |-> s.free_items, free_item_count |-> s.free_item_count,
              max_items |-> s.max_items, next |-> s.next]
  BY DEF SlabState
<1> QED
  BY <1>3, <1>4 DEF Slab

LEMMA UnusedSlab == Unused \in Slab
<1> DEFINE next == [i \in Items |-> STALE]
<1>1. next \in [Items -> Items \cup {NULL, LINK, STALE}]
  OBVIOUS
<1>2. Unused = [free_items |-> NULL, free_item_count |-> 0, max_items |-> 0, next |-> next]
  BY DEF Unused
<1>3. 0 \in 0 .. Max(Items)
  BY ItemsInterval
<1> HIDE DEF next
<1> QED
  BY <1>1, <1>2, <1>3 DEF Slab

LEMMA InitSlab ==
    ASSUME NEW a \in Allocators
    PROVE  __helper_slab_init(a) \in Slab
<1>1. 1 \in Items
  BY ItemsInterval
<1> QED
  BY <1>1, InitFields, FreeListInit, StateIsSlab

\* A step that touches one page p and the list of one allocator a: what it must
\* look like to keep the page in one place, its items accounted for and the
\* slabs in order.
LEMMA PageStep ==
    ASSUME Inv,
           NEW a \in Allocators, NEW p \in Pages, NEW t \in Seq(Pages), NEW x \in Slab,
           NEW H \in SUBSET Items,
           slabs' = [slabs EXCEPT ![a] = t],
           slab' = [slab EXCEPT ![p] = x],
           held' = [held EXCEPT ![p] = H],
           p \in Range(avail) \cup Range(slabs[a]),
           IsInjective(t),
           Range(t) \subseteq Range(slabs[a]) \cup {p},
           Range(slabs[a]) \ {p} \subseteq Range(t),
           avail' \in Seq(Pages),
           IsInjective(avail'),
           Range(avail') \subseteq Range(avail) \cup {p},
           p \in Range(t) => p \notin Range(avail') /\ FreeList(a, x, H),
           H # {} => p \in Range(t) /\ pc'[a] \in {"live", "delete"},
           pc[a] \in {"live", "delete"} => pc'[a] \in {"live", "delete"},
           \A b \in Allocators \ {a} : pc'[b] = pc[b],
           pc'[a] = "live" => t # <<>>,
           OrderedIn(slab', t)
    PROVE  /\ slab' \in [Pages -> Slab] /\ slabs' \in [Allocators -> Seq(Pages)]
           /\ held' \in [Pages -> SUBSET Items]
           /\ Placed' /\ InUse' /\ Lists' /\ FirstSlabServes'
<1>1. /\ slab \in [Pages -> Slab] /\ slabs \in [Allocators -> Seq(Pages)]
      /\ held \in [Pages -> SUBSET Items]
  BY DEF Inv, TypeOK
<1>2. slab' \in [Pages -> Slab] /\ slabs' \in [Allocators -> Seq(Pages)]
  BY <1>1
<1>3. held' \in [Pages -> SUBSET Items]
  BY <1>1
<1>4. /\ slabs'[a] = t /\ \A b \in Allocators \ {a} : slabs'[b] = slabs[b]
      /\ slab'[p] = x /\ \A q \in Pages \ {p} : slab'[q] = slab[q]
      /\ held'[p] = H /\ \A q \in Pages \ {p} : held'[q] = held[q]
  BY <1>1
<1>5. \A b \in Allocators : Range(slabs[b]) \subseteq Pages
  BY <1>1 DEF Range
<1>6. \A b \in Allocators \ {a} : p \notin Range(slabs[b])
  BY DEF Inv, Placed
<1>7. Placed'
  <2>1. \A b \in Allocators : IsInjective(slabs[b]) /\ Range(slabs[b]) \cap Range(avail) = {}
    BY DEF Inv, Placed
  <2>2. \A b, c \in Allocators : b # c => Range(slabs[b]) \cap Range(slabs[c]) = {}
    BY DEF Inv, Placed
  <2>3. ASSUME NEW b \in Allocators
        PROVE  IsInjective(slabs'[b]) /\ Range(slabs'[b]) \cap Range(avail') = {}
    <3>1. CASE b = a
      BY <1>4, <2>1, <3>1
    <3>2. CASE b # a
      BY <1>4, <1>6, <2>1, <3>2, SMTT(30)
    <3> QED
      BY <3>1, <3>2
  <2>4. ASSUME NEW b \in Allocators, NEW c \in Allocators, b # c
        PROVE  Range(slabs'[b]) \cap Range(slabs'[c]) = {}
    <3>1. CASE b = a
      <4>1. slabs'[b] = t /\ slabs'[c] = slabs[c] /\ p \notin Range(slabs[c])
        BY <1>4, <1>6, <2>4, <3>1
      <4> QED
        BY <2>2, <2>4, <3>1, <4>1
    <3>2. CASE c = a
      <4>1. slabs'[c] = t /\ slabs'[b] = slabs[b] /\ p \notin Range(slabs[b])
        BY <1>4, <1>6, <2>4, <3>2
      <4> QED
        BY <2>2, <2>4, <3>2, <4>1
    <3>3. CASE b # a /\ c # a
      BY <1>4, <2>2, <2>4, <3>3
    <3> QED
      BY <3>1, <3>2, <3>3
  <2> QED
    BY <2>3, <2>4 DEF Placed
<1>8. InUse'
  <2> SUFFICES ASSUME NEW q \in Pages, held'[q] # {}
               PROVE  \E b \in Allocators : pc'[b] \in {"live", "delete"} /\ q \in Range(slabs'[b])
    BY DEF InUse
  <2>1. CASE q = p
    BY <1>4, <2>1
  <2>2. CASE q # p
    <3>1. held[q] # {}
      BY <1>4, <2>2
    <3>2. PICK b \in Allocators : pc[b] \in {"live", "delete"} /\ q \in Range(slabs[b])
      BY <3>1 DEF Inv, InUse
    <3>3. CASE b = a
      BY <1>4, <2>2, <3>2, <3>3
    <3>4. CASE b # a
      BY <1>4, <3>2, <3>4
    <3> QED
      BY <3>3, <3>4
  <2> QED
    BY <2>1, <2>2
<1>9. Lists'
  <2> SUFFICES ASSUME NEW b \in Allocators, NEW q \in Range(slabs'[b])
               PROVE  FreeList(b, slab'[q], held'[q])
    BY DEF Lists, FreeList, Listing, Linked, item_count, real_size, ROUND_16
  <2>1. CASE q = p
    <3>1. b = a
      BY <1>4, <1>6, <2>1
    <3> QED
      BY <1>4, <2>1, <3>1
  <2>2. CASE q # p
    <3>1. q \in Range(slabs[b])
      BY <1>4, <2>2
    <3>2. q \in Pages
      BY <1>5, <3>1
    <3> QED
      BY <1>4, <2>2, <3>1, <3>2 DEF Inv, Lists
  <2> QED
    BY <2>1, <2>2
<1>10. FirstSlabServes'
  <2>1. ASSUME NEW b \in Allocators
        PROVE  /\ pc'[b] = "live" => slabs'[b] # <<>>
               /\ OrderedIn(slab', slabs'[b])
    <3>1. CASE b = a
      BY <1>4, <3>1
    <3>2. CASE b # a
      <4>1. slabs'[b] = slabs[b] /\ pc'[b] = pc[b] /\ p \notin Range(slabs[b])
        BY <1>4, <1>6, <3>2
      <4>2. \A i \in DOMAIN slabs[b] : slab'[slabs[b][i]] = slab[slabs[b][i]]
        BY <1>4, <1>5, <4>1 DEF Range
      <4> QED
        BY <4>1, <4>2 DEF Inv, FirstSlabServes, OrderedIn
    <3> QED
      BY <3>1, <3>2
  <2> QED
    BY <2>1 DEF FirstSlabServes, OrderedIn
<1> QED
  BY <1>2, <1>3, <1>7, <1>8, <1>9, <1>10

\* A page from the pool becomes a slab in front of the allocator's others: the
\* first part of NewSlab and AllocGrow.
LEMMA FreshPage ==
    ASSUME Inv, NEW a \in Allocators, avail # <<>>
    PROVE  LET p == Head(avail)
               t == <<p>> \o slabs[a]
           IN  /\ p \in Pages /\ p \in Range(avail) /\ p \notin Range(slabs[a])
               /\ held[p] = {}
               /\ t \in Seq(Pages) /\ t # <<>> /\ IsInjective(t)
               /\ Range(t) = Range(slabs[a]) \cup {p}
               /\ Tail(avail) \in Seq(Pages) /\ IsInjective(Tail(avail))
               /\ Range(Tail(avail)) = Range(avail) \ {p}
<1> DEFINE p == Head(avail)
<1>1. avail \in Seq(Pages) /\ slabs[a] \in Seq(Pages)
  BY DEF Inv, TypeOK
<1>2. IsInjective(avail) /\ IsInjective(slabs[a])
  BY DEF Inv, Placed
<1>3. /\ p \in Pages /\ p \in Range(avail)
      /\ Tail(avail) \in Seq(Pages) /\ IsInjective(Tail(avail))
      /\ Range(Tail(avail)) = Range(avail) \ {p}
  BY <1>1, <1>2, TailList
<1> HIDE DEF p
<1>4. \A b \in Allocators : p \notin Range(slabs[b])
  BY <1>3 DEF Inv, Placed
<1>5. held[p] = {}
  BY <1>3, <1>4 DEF Inv, InUse
<1>6. LET t == <<p>> \o slabs[a]
      IN  /\ t \in Seq(Pages) /\ t # <<>> /\ IsInjective(t)
          /\ Range(t) = Range(slabs[a]) \cup {p}
  BY <1>1, <1>2, <1>3, <1>4, ConsList
<1> QED
  BY <1>3, <1>4, <1>5, <1>6 DEF p

\* Order: a slab is put in front of others; it has free items, or they have none.
LEMMA ConsOrdered ==
    ASSUME NEW f, NEW s \in Seq(Pages), NEW p \in Pages, OrderedIn(f, s),
           f[p].free_item_count > 0
             \/ \A i \in DOMAIN s : ~(f[s[i]].free_item_count > 0)
    PROVE  OrderedIn(f, <<p>> \o s)
<1> DEFINE t == <<p>> \o s
<1>1. t[1] = p /\ t \in Seq(Pages) /\ Len(t) = Len(s) + 1 /\ \A i \in 2 .. Len(t) : t[i] = s[i - 1]
  BY ConsList
<1>2. DOMAIN s = 1 .. Len(s) /\ Len(s) \in Nat /\ DOMAIN t = 1 .. Len(s) + 1
  BY <1>1, LenProperties
<1> HIDE DEF t
<1> SUFFICES ASSUME NEW i \in DOMAIN t, NEW j \in DOMAIN t, i < j,
                    f[t[j]].free_item_count > 0
             PROVE  f[t[i]].free_item_count > 0
  BY DEF OrderedIn, t
<1>3. j \in 2 .. Len(t) /\ j - 1 \in DOMAIN s /\ t[j] = s[j - 1]
  BY <1>1, <1>2
<1>4. CASE i = 1
  BY <1>1, <1>3, <1>4
<1>5. CASE i # 1
  <2>1. i \in 2 .. Len(t) /\ i - 1 \in DOMAIN s /\ t[i] = s[i - 1] /\ i - 1 < j - 1
    BY <1>1, <1>2, <1>5
  <2> QED
    BY <1>3, <2>1 DEF OrderedIn
<1> QED
  BY <1>4, <1>5

\* Order: a slab without free items is put behind the others.
LEMMA AppendOrdered ==
    ASSUME NEW f, NEW s \in Seq(Pages), NEW p \in Pages, OrderedIn(f, s),
           ~(f[p].free_item_count > 0)
    PROVE  OrderedIn(f, Append(s, p))
<1> DEFINE t == Append(s, p)
<1>1. t \in Seq(Pages) /\ t[Len(s) + 1] = p /\ Len(t) = Len(s) + 1 /\ \A i \in 1 .. Len(s) : t[i] = s[i]
  BY AppendList
<1>2. DOMAIN s = 1 .. Len(s) /\ Len(s) \in Nat /\ DOMAIN t = 1 .. Len(s) + 1
  BY <1>1, LenProperties
<1> HIDE DEF t
<1> SUFFICES ASSUME NEW i \in DOMAIN t, NEW j \in DOMAIN t, i < j,
                    f[t[j]].free_item_count > 0
             PROVE  f[t[i]].free_item_count > 0
  BY DEF OrderedIn, t
<1>3. j # Len(s) + 1
  BY <1>1
<1>4. j \in DOMAIN s /\ i \in DOMAIN s /\ t[i] = s[i] /\ t[j] = s[j]
  BY <1>1, <1>2, <1>3
<1> QED
  BY <1>4 DEF OrderedIn

\* Order: the first slab is taken off.
LEMMA TailOrdered ==
    ASSUME NEW f, NEW s \in Seq(Pages), s # <<>>, OrderedIn(f, s)
    PROVE  OrderedIn(f, Tail(s))
<1> DEFINE t == Tail(s)
<1>1. t \in Seq(Pages) /\ Len(t) = Len(s) - 1 /\ \A i \in 1 .. Len(s) - 1 : t[i] = s[i + 1]
  BY TailList
<1>2. DOMAIN s = 1 .. Len(s) /\ Len(s) \in Nat /\ DOMAIN t = 1 .. Len(s) - 1
  BY <1>1, LenProperties
<1> HIDE DEF t
<1> SUFFICES ASSUME NEW i \in DOMAIN t, NEW j \in DOMAIN t, i < j,
                    f[t[j]].free_item_count > 0
             PROVE  f[t[i]].free_item_count > 0
  BY DEF OrderedIn, t
<1>3. j + 1 \in DOMAIN s /\ i + 1 \in DOMAIN s /\ t[i] = s[i + 1] /\ t[j] = s[j + 1] /\ i + 1 < j + 1
  BY <1>1, <1>2
<1> QED
  BY <1>3 DEF OrderedIn

\* Order: a slab is taken out.
LEMMA DelOrdered ==
    ASSUME NEW f, NEW s \in Seq(Pages), IsInjective(s), NEW p \in Range(s), OrderedIn(f, s)
    PROVE  OrderedIn(f, list_del(s, p))
<1> DEFINE t == list_del(s, p)
<1>1. t \in Seq(Pages) /\ Len(t) = Len(s) - 1 /\ Len(s) \in Nat \ {0}
  BY DelList
<1>2. PICK k \in 1 .. Len(s) : \A i \in 1 .. Len(t) : t[i] = IF i < k THEN s[i] ELSE s[i + 1]
  BY DelList
<1>3. DOMAIN s = 1 .. Len(s) /\ DOMAIN t = 1 .. Len(s) - 1
  BY <1>1, LenProperties
<1> HIDE DEF t
<1> SUFFICES ASSUME NEW i \in DOMAIN t, NEW j \in DOMAIN t, i < j,
                    f[t[j]].free_item_count > 0
             PROVE  f[t[i]].free_item_count > 0
  BY DEF OrderedIn, t
<1>4. \E u, v \in DOMAIN s : u < v /\ t[i] = s[u] /\ t[j] = s[v]
  <2> DEFINE u == IF i < k THEN i ELSE i + 1
             v == IF j < k THEN j ELSE j + 1
  <2>1. u \in DOMAIN s /\ v \in DOMAIN s /\ u < v
    BY <1>1, <1>2, <1>3
  <2>2. t[i] = s[u] /\ t[j] = s[v]
    BY <1>1, <1>2, <1>3
  <2> HIDE DEF u, v
  <2> QED
    BY <2>1, <2>2
<1> QED
  BY <1>4 DEF OrderedIn

-------------------------------------------------------------------------------
(* The actions.                                                            *)

\* A list of pages none of which was written is in the order it was in.
LEMMA SameOrder ==
    ASSUME NEW f, NEW g, NEW s, OrderedIn(f, s), \A i \in DOMAIN s : g[s[i]] = f[s[i]]
    PROVE  OrderedIn(g, s)
  BY DEF OrderedIn

\* The same for a list the page p is not on.
LEMMA OtherPages ==
    ASSUME Inv, NEW a \in Allocators, NEW p \in Pages, NEW x,
           slab' = [slab EXCEPT ![p] = x]
    PROVE  /\ slab'[p] = x
           /\ \A i \in DOMAIN slabs[a] : slabs[a][i] # p => slab'[slabs[a][i]] = slab[slabs[a][i]]
           /\ p \notin Range(slabs[a]) => OrderedIn(slab', slabs[a])
<1>1. slab \in [Pages -> Slab] /\ slabs[a] \in Seq(Pages)
  BY DEF Inv, TypeOK
<1>2. \A i \in DOMAIN slabs[a] : slabs[a][i] \in Pages
  BY <1>1
<1>3. OrderedIn(slab, slabs[a])
  BY DEF Inv, FirstSlabServes, OrderedIn
<1>4. slab'[p] = x /\ \A q \in Pages : q # p => slab'[q] = slab[q]
  BY <1>1
<1>5. ASSUME p \notin Range(slabs[a]) PROVE OrderedIn(slab', slabs[a])
  <2>1. \A i \in DOMAIN slabs[a] : slabs[a][i] # p
    BY <1>5 DEF Range
  <2>2. \A i \in DOMAIN slabs[a] : slab'[slabs[a][i]] = slab[slabs[a][i]]
    BY <1>2, <1>4, <2>1
  <2> QED
    BY <1>3, <2>2, SameOrder
<1> QED
  BY <1>2, <1>4, <1>5

\* A slab that was just initialised may stand in front.
LEMMA FreshOrdered ==
    ASSUME Inv, NEW a \in Allocators, NEW p \in Pages, p \notin Range(slabs[a]),
           slab' = [slab EXCEPT ![p] = __helper_slab_init(a)]
    PROVE  OrderedIn(slab', <<p>> \o slabs[a])
<1>1. slabs[a] \in Seq(Pages) /\ item_count(a) \in Nat
  BY ItemCount DEF Inv, TypeOK
<1>2. /\ OrderedIn(slab', slabs[a])
      /\ slab'[p].free_item_count = item_count(a)
      /\ \A i \in DOMAIN slabs[a] : slab'[slabs[a][i]] = slab[slabs[a][i]]
  <2>1. /\ OrderedIn(slab', slabs[a]) /\ slab'[p] = __helper_slab_init(a)
        /\ \A i \in DOMAIN slabs[a] :
              slabs[a][i] # p => slab'[slabs[a][i]] = slab[slabs[a][i]]
    BY OtherPages
  <2>2. \A i \in DOMAIN slabs[a] : slabs[a][i] # p
    BY DEF Range
  <2> QED
    BY <2>1, <2>2, InitFields
<1>3. CASE item_count(a) > 0
  BY <1>1, <1>2, <1>3, ConsOrdered
<1>4. CASE item_count(a) = 0
  <2>1. ASSUME NEW i \in DOMAIN slabs[a]
        PROVE  ~(slab'[slabs[a][i]].free_item_count > 0)
    <3>1. FreeList(a, slab[slabs[a][i]], held[slabs[a][i]])
      BY DEF Inv, Lists, Range
    <3>2. slab[slabs[a][i]].free_item_count \in 0 .. 0
      BY <1>4, <3>1, FreeListCount
    <3> QED
      BY <1>2, <3>2
  <2> QED
    BY <1>1, <1>2, <2>1, ConsOrdered
<1> QED
  BY <1>1, <1>3, <1>4

LEMMA NewSlabStep ==
    ASSUME Inv, NEW a \in Allocators, NewSlab(a)
    PROVE  Inv'
<1> DEFINE p == Head(avail)
           x == __helper_slab_init(a)
           t == <<p>> \o slabs[a]
<1>1. /\ pc[a] = "new" /\ avail # <<>>
      /\ avail' = Tail(avail)
      /\ slabs' = [slabs EXCEPT ![a] = t]
      /\ slab' = [slab EXCEPT ![p] = x]
      /\ max_items' = [max_items EXCEPT ![a] = @ + item_count(a)]
      /\ want' = [want EXCEPT ![a] = @ - 1]
      /\ pc' = [pc EXCEPT ![a] = IF want[a] = 1 THEN "live" ELSE "new"]
      /\ nogrow' = nogrow /\ asked' = asked /\ held' = held
  BY DEF NewSlab, AddSlab, __allocator_acquire_page
<1>2. TypeOK /\ want[a] > 0
  BY <1>1 DEF Inv, Wanted
<1>3. /\ p \in Pages /\ p \in Range(avail) /\ p \notin Range(slabs[a])
      /\ held[p] = {}
      /\ t \in Seq(Pages) /\ t # <<>> /\ IsInjective(t)
      /\ Range(t) = Range(slabs[a]) \cup {p}
      /\ Tail(avail) \in Seq(Pages) /\ IsInjective(Tail(avail))
      /\ Range(Tail(avail)) = Range(avail) \ {p}
  BY <1>1, FreshPage
<1>4. x \in Slab /\ FreeList(a, x, {}) /\ x.free_item_count = item_count(a) /\ item_count(a) \in Nat
  BY InitSlab, FreeListInit, InitFields, ItemCount
<1> HIDE DEF p, x
<1>5. held' = [held EXCEPT ![p] = {}]
  BY <1>1, <1>2, <1>3 DEF TypeOK
<1>6. OrderedIn(slab', t)
  BY <1>1, <1>3, FreshOrdered DEF x
<1>7. /\ pc'[a] \in {"live", "new"} /\ \A b \in Allocators \ {a} : pc'[b] = pc[b]
      /\ pc' \in [Allocators -> {"none", "new", "live", "delete"}]
  BY <1>1, <1>2 DEF TypeOK
<1> HIDE DEF t
<1>8. /\ slab' \in [Pages -> Slab] /\ slabs' \in [Allocators -> Seq(Pages)]
      /\ held' \in [Pages -> SUBSET Items]
      /\ Placed' /\ InUse' /\ Lists' /\ FirstSlabServes'
  <2>1. p \in Range(avail) \cup Range(slabs[a]) /\ {} \in SUBSET Items
    BY <1>3
  <2>2. /\ Range(t) \subseteq Range(slabs[a]) \cup {p} /\ Range(slabs[a]) \ {p} \subseteq Range(t)
        /\ Range(avail') \subseteq Range(avail) \cup {p} /\ p \notin Range(avail')
        /\ avail' \in Seq(Pages) /\ IsInjective(avail')
    BY <1>1, <1>3
  <2>3. ~(pc[a] \in {"live", "delete"})
    BY <1>1
  <2> QED
    BY <1>1, <1>3, <1>4, <1>5, <1>6, <1>7, <2>1, <2>2, <2>3, PageStep, ZenonT(30)
<1>9. max_items' \in [Allocators -> Int] /\ want' \in [Allocators -> Nat]
  BY <1>1, <1>2, <1>4 DEF TypeOK
<1>10. Wanted'
  <2> SUFFICES ASSUME NEW b \in Allocators, pc'[b] = "new" PROVE want'[b] > 0
    BY DEF Wanted
  <2>1. CASE b = a
    <3>1. want[a] # 1 /\ want[a] \in Nat
      BY <1>1, <1>2, <2>1 DEF TypeOK
    <3>2. want'[a] = want[a] - 1
      BY <1>1, <1>2 DEF TypeOK
    <3> QED
      BY <1>2, <2>1, <3>1, <3>2
  <2>2. CASE b # a
    <3>1. pc[b] = "new" /\ want'[b] = want[b]
      BY <1>1, <1>2, <2>2 DEF TypeOK
    <3> QED
      BY <3>1 DEF Inv, Wanted
  <2> QED
    BY <2>1, <2>2
<1>11. TypeOK'
  BY <1>1, <1>2, <1>3, <1>7, <1>8, <1>9 DEF TypeOK
<1> QED
  BY <1>8, <1>10, <1>11 DEF Inv

\* FullToBack keeps the slabs of the list and leaves them in order.
LEMMA FullToBackList ==
    ASSUME NEW u \in Seq(Pages), u # <<>>, IsInjective(u), NEW f,
           f[Head(u)].free_item_count \in Nat, OrderedIn(f, Tail(u))
    PROVE  LET t == FullToBack(u, f[Head(u)])
           IN  /\ t \in Seq(Pages) /\ t # <<>> /\ IsInjective(t)
               /\ Range(t) = Range(u)
               /\ OrderedIn(f, t)
<1> DEFINE p == Head(u)
           t == FullToBack(u, f[p])
<1>1. /\ p \in Pages /\ p \in Range(u) /\ p = u[1]
      /\ Tail(u) \in Seq(Pages) /\ IsInjective(Tail(u)) /\ Range(Tail(u)) = Range(u) \ {p}
      /\ Len(Tail(u)) = Len(u) - 1
      /\ \A i \in 1 .. Len(u) - 1 : Tail(u)[i] = u[i + 1]
  BY TailList
<1>2. CASE f[p].free_item_count = 0
  <2>1. t = Append(Tail(u), p)
    BY <1>2 DEF FullToBack
  <2> DEFINE v == Tail(u)
  <2>2. /\ v \in Seq(Pages) /\ IsInjective(v) /\ p \notin Range(v) /\ p \in Pages
        /\ OrderedIn(f, v) /\ ~(f[p].free_item_count > 0) /\ t = Append(v, p)
        /\ Range(v) = Range(u) \ {p}
    BY <1>1, <1>2, <2>1
  <2> HIDE DEF p, t, v
  <2>3. t \in Seq(Pages) /\ t # <<>> /\ Range(t) = Range(v) \cup {p} /\ IsInjective(t)
    BY <2>2, AppendList
  <2>4. OrderedIn(f, t)
    BY <2>2, AppendOrdered
  <2> QED
    BY <1>1, <2>2, <2>3, <2>4 DEF t, p
<1>3. CASE f[p].free_item_count # 0
  <2>1. t = u /\ f[p].free_item_count > 0
    BY <1>3 DEF FullToBack
  <2> HIDE DEF p, t
  <2>2. DOMAIN u = 1 .. Len(u) /\ DOMAIN Tail(u) = 1 .. Len(u) - 1 /\ Len(u) \in Nat
    BY <1>1, LenProperties
  <2>3. ASSUME NEW i \in DOMAIN u, NEW j \in DOMAIN u, i < j, f[u[j]].free_item_count > 0
        PROVE  f[u[i]].free_item_count > 0
    <3>1. CASE i = 1
      BY <1>1, <2>1, <3>1
    <3>2. CASE i # 1
      <4>1. /\ i - 1 \in DOMAIN Tail(u) /\ j - 1 \in DOMAIN Tail(u) /\ i - 1 < j - 1
            /\ (i - 1) + 1 = i /\ (j - 1) + 1 = j
        BY <2>2, <2>3, <3>2
      <4>2. Tail(u)[i - 1] = u[i] /\ Tail(u)[j - 1] = u[j]
        BY <1>1, <2>2, <4>1
      <4> QED
        BY <2>3, <4>1, <4>2 DEF OrderedIn
    <3> QED
      BY <3>1, <3>2
  <2>4. OrderedIn(f, u)
    BY <2>3 DEF OrderedIn
  <2> QED
    BY <2>1, <2>4 DEF t, p
<1> QED
  BY <1>2, <1>3

LEMMA AllocHitStep ==
    ASSUME Inv, NEW a \in Allocators, AllocHit(a)
    PROVE  Inv'
<1> DEFINE l == slabs[a]
           p == Head(l)
           x == Taken(a, slab[p])
           H == held[p] \cup {slab[p].free_items}
           t == FullToBack(l, x)
<1>1. /\ pc[a] = "live" /\ l # <<>> /\ slab[p].free_item_count # 0
      /\ slab' = [slab EXCEPT ![p] = x]
      /\ slabs' = [slabs EXCEPT ![a] = t]
      /\ held' = [held EXCEPT ![p] = H]
      /\ avail' = avail /\ max_items' = max_items /\ pc' = pc
      /\ nogrow' = nogrow /\ asked' = asked /\ want' = want
  BY DEF AllocHit, NeedsPage, ownVars
<1>2. TypeOK /\ l \in Seq(Pages) /\ IsInjective(l) /\ avail \in Seq(Pages) /\ IsInjective(avail)
  BY DEF Inv, Placed, TypeOK
<1>3. /\ p \in Pages /\ p \in Range(l)
      /\ Tail(l) \in Seq(Pages) /\ Range(Tail(l)) = Range(l) \ {p}
  BY <1>1, <1>2, TailList
<1>4. slab[p] \in Slab /\ slab[p] \in SlabState /\ held[p] \subseteq Items
  BY <1>2, <1>3, SlabIsState DEF TypeOK
<1>5. FreeList(a, slab[p], held[p])
  BY <1>3 DEF Inv, Lists
<1>6. slab[p].free_item_count > 0
  <2>1. slab[p].free_item_count \in 0 .. item_count(a) /\ item_count(a) \in Nat
    BY <1>5, FreeListCount, ItemCount
  <2> QED
    BY <1>1, <2>1
<1>7. slab[p].free_items \in Items /\ FreeList(a, x, H)
      /\ slab[p].free_items \in 1 .. item_count(a)
  BY <1>4, <1>5, <1>6, FreeListTaken
<1>8. x \in SlabState /\ H \in SUBSET Items
  BY <1>4, <1>7, TakenFields
<1> HIDE DEF x, H
<1>9. x \in Slab /\ x.free_item_count \in Nat
  <2>1. item_count(a) \in Nat /\ item_count(a) # 0
    BY <1>7, ItemCount
  <2>2. x.free_items \in Items \cup {NULL} /\ x.free_item_count \in 0 .. item_count(a)
    BY <1>7, <2>1, FreeListCount
  <2> QED
    BY <1>7, <1>8, <2>1, <2>2, StateIsSlab
<1>10. slab'[p] = x /\ OrderedIn(slab', Tail(l))
  <2>1. OrderedIn(slab, l)
    BY DEF Inv, FirstSlabServes, OrderedIn
  <2>2. OrderedIn(slab, Tail(l))
    BY <1>1, <1>2, <2>1, TailOrdered
  <2>3. slab \in [Pages -> Slab]
    BY <1>2 DEF TypeOK
  <2>4. \A i \in DOMAIN Tail(l) : Tail(l)[i] \in Pages /\ Tail(l)[i] # p
    <3>1. \A i \in DOMAIN Tail(l) : Tail(l)[i] \in Range(Tail(l))
      BY DEF Range
    <3>2. Range(Tail(l)) \subseteq Pages
      BY <1>3 DEF Range
    <3> QED
      BY <1>3, <3>1, <3>2
  <2> HIDE DEF p, l
  <2>5. \A i \in DOMAIN Tail(l) : slab'[Tail(l)[i]] = slab[Tail(l)[i]]
    BY <1>1, <1>3, <2>3, <2>4
  <2>6. slab'[p] = x
    BY <1>1, <1>3, <2>3
  <2> QED
    BY <2>2, <2>5, <2>6, SameOrder
<1>11. /\ t \in Seq(Pages) /\ t # <<>> /\ IsInjective(t)
       /\ Range(t) = Range(l)
       /\ OrderedIn(slab', t)
  BY <1>1, <1>2, <1>9, <1>10, FullToBackList
<1> HIDE DEF p, t
<1>12. /\ slab' \in [Pages -> Slab] /\ slabs' \in [Allocators -> Seq(Pages)]
       /\ held' \in [Pages -> SUBSET Items]
       /\ Placed' /\ InUse' /\ Lists' /\ FirstSlabServes'
  <2>1. /\ p \in Range(avail) \cup Range(slabs[a]) /\ p \notin Range(avail)
        /\ Range(t) \subseteq Range(slabs[a]) \cup {p} /\ Range(slabs[a]) \ {p} \subseteq Range(t)
        /\ p \in Range(t)
    BY <1>3, <1>11 DEF Inv, Placed
  <2>2. /\ avail' \in Seq(Pages) /\ IsInjective(avail')
        /\ Range(avail') \subseteq Range(avail) \cup {p} /\ p \notin Range(avail')
    BY <1>1, <1>2, <2>1
  <2>3. pc'[a] \in {"live", "delete"} /\ \A b \in Allocators \ {a} : pc'[b] = pc[b]
    BY <1>1
  <2> QED
    BY <1>1, <1>3, <1>7, <1>8, <1>9, <1>11, <2>1, <2>2, <2>3, PageStep
<1>13. Wanted'
  BY <1>1 DEF Inv, Wanted
<1>14. TypeOK'
  BY <1>1, <1>2, <1>12 DEF TypeOK
<1> QED
  BY <1>12, <1>13, <1>14 DEF Inv

LEMMA ConsHeadTail ==
    ASSUME NEW S, NEW s \in Seq(S), NEW p \in S
    PROVE  Head(<<p>> \o s) = p /\ Tail(<<p>> \o s) = s
<1> DEFINE t == <<p>> \o s
<1>1. t \in Seq(S) /\ t # <<>> /\ Len(t) = Len(s) + 1 /\ t[1] = p
      /\ \A i \in 2 .. Len(t) : t[i] = s[i - 1]
  BY ConsList
<1> HIDE DEF t
<1>2. Head(t) = p /\ Tail(t) \in Seq(S) /\ Len(Tail(t)) = Len(t) - 1
      /\ \A i \in 1 .. Len(t) - 1 : Tail(t)[i] = t[i + 1]
  BY <1>1, TailList
<1>3. Len(s) \in Nat /\ Len(Tail(t)) = Len(s)
  BY <1>1, <1>2, LenProperties
<1>4. ASSUME NEW i \in 1 .. Len(s) PROVE Tail(t)[i] = s[i]
  <2>1. i + 1 \in 2 .. Len(t) /\ (i + 1) - 1 = i /\ i \in 1 .. Len(t) - 1
    BY <1>1, <1>3
  <2> QED
    BY <1>1, <1>2, <2>1
<1>5. Tail(t) = s
  BY <1>2, <1>3, <1>4, SeqEqual
<1> QED
  BY <1>2, <1>5 DEF t

LEMMA AllocGrowStep ==
    ASSUME Inv, NEW a \in Allocators, AllocGrow(a)
    PROVE  Inv'
<1> DEFINE l == slabs[a]
           p == Head(avail)
           new == __helper_slab_init(a)
           got == new.free_item_count > 0
           u == <<p>> \o l
           x == IF got THEN Taken(a, new) ELSE new
           H == IF got THEN held[p] \cup {new.free_items} ELSE held[p]
           t == IF got THEN FullToBack(u, Taken(a, new)) ELSE u
<1>1. /\ pc[a] = "live" /\ avail # <<>>
      /\ avail' = Tail(avail)
      /\ slab' = [slab EXCEPT ![p] = x]
      /\ slabs' = [slabs EXCEPT ![a] = t]
      /\ held' = [held EXCEPT ![p] = H]
      /\ max_items' = [max_items EXCEPT ![a] = @ + item_count(a)]
      /\ pc' = pc /\ nogrow' = nogrow /\ asked' = asked /\ want' = want
  BY DEF AllocGrow, __allocator_acquire_page, ownVars
<1>2. TypeOK /\ l \in Seq(Pages) /\ item_count(a) \in Nat
  BY ItemCount DEF Inv, TypeOK
<1>3. /\ p \in Pages /\ p \in Range(avail) /\ p \notin Range(l)
      /\ held[p] = {}
      /\ u \in Seq(Pages) /\ u # <<>> /\ IsInjective(u)
      /\ Range(u) = Range(l) \cup {p}
      /\ Tail(avail) \in Seq(Pages) /\ IsInjective(Tail(avail))
      /\ Range(Tail(avail)) = Range(avail) \ {p}
  BY <1>1, FreshPage
<1>4. /\ new \in Slab /\ new \in SlabState /\ FreeList(a, new, {})
      /\ new.free_item_count = item_count(a)
  BY InitSlab, SlabIsState, FreeListInit, InitFields
<1>5. /\ x \in Slab /\ H \in SUBSET Items /\ FreeList(a, x, H)
      /\ t \in Seq(Pages) /\ t # <<>> /\ IsInjective(t) /\ Range(t) = Range(u)
      /\ OrderedIn(slab', t)
  <2>1. CASE got
    <3> DEFINE y == Taken(a, new)
    <3>1. /\ x = y /\ H = {} \cup {new.free_items} /\ t = FullToBack(u, y)
      BY <1>3, <2>1
    <3>2. /\ new.free_items \in Items /\ FreeList(a, y, {} \cup {new.free_items})
          /\ new.free_items \in 1 .. item_count(a)
      BY <1>4, <2>1, FreeListTaken
    <3>3. y \in SlabState
      BY <1>4, <3>2, TakenFields
    <3> HIDE DEF y, new, p, x, H, t, got
    <3>4. y.free_items \in Items \cup {NULL} /\ y.free_item_count \in Nat
      <4>1. item_count(a) \in Nat /\ item_count(a) # 0
        BY <1>2, <3>2
      <4>2. y.free_items \in Items \cup {NULL} /\ y.free_item_count \in 0 .. item_count(a)
        BY <3>2, <4>1, FreeListCount
      <4> QED
        BY <4>1, <4>2
    <3>5. y \in Slab
      BY <3>2, <3>3, <3>4, StateIsSlab
    <3>6. Head(u) = p /\ Tail(u) = l
      BY <1>2, <1>3, ConsHeadTail
    <3>7. slab'[p] = y /\ OrderedIn(slab', l)
      BY <1>1, <1>3, <3>1, OtherPages
    <3> HIDE DEF u, l
    <3>8. /\ t \in Seq(Pages) /\ t # <<>> /\ IsInjective(t) /\ Range(t) = Range(u)
          /\ OrderedIn(slab', t)
      BY <1>3, <3>1, <3>4, <3>6, <3>7, FullToBackList
    <3> QED
      BY <3>1, <3>2, <3>5, <3>8
  <2>2. CASE ~got
    <3>1. x = new /\ H = {} /\ t = u
      BY <1>3, <2>2
    <3>2. OrderedIn(slab', u)
      BY <1>1, <1>3, <3>1, FreshOrdered
    <3> QED
      BY <1>3, <1>4, <3>1, <3>2
  <2> QED
    BY <2>1, <2>2
<1> HIDE DEF p, x, H, t, u, new, got
<1>6. /\ slab' \in [Pages -> Slab] /\ slabs' \in [Allocators -> Seq(Pages)]
      /\ held' \in [Pages -> SUBSET Items]
      /\ Placed' /\ InUse' /\ Lists' /\ FirstSlabServes'
  <2>1. /\ p \in Range(avail) \cup Range(slabs[a])
        /\ Range(t) \subseteq Range(slabs[a]) \cup {p} /\ Range(slabs[a]) \ {p} \subseteq Range(t)
        /\ p \in Range(t)
    BY <1>3, <1>5
  <2>2. /\ avail' \in Seq(Pages) /\ IsInjective(avail')
        /\ Range(avail') \subseteq Range(avail) \cup {p} /\ p \notin Range(avail')
    BY <1>1, <1>3
  <2>3. pc'[a] \in {"live", "delete"} /\ \A b \in Allocators \ {a} : pc'[b] = pc[b]
    BY <1>1
  <2> QED
    BY <1>1, <1>3, <1>5, <2>1, <2>2, <2>3, PageStep
<1>7. max_items' \in [Allocators -> Int]
  BY <1>1, <1>2 DEF TypeOK
<1>8. Wanted'
  BY <1>1 DEF Inv, Wanted
<1>9. TypeOK'
  BY <1>1, <1>2, <1>3, <1>6, <1>7 DEF TypeOK
<1> QED
  BY <1>6, <1>8, <1>9 DEF Inv

\* Order: a slab is taken out and its page written.
LEMMA DelOtherOrdered ==
    ASSUME Inv, NEW a \in Allocators, NEW p \in Range(slabs[a]), p \in Pages, NEW x,
           slab' = [slab EXCEPT ![p] = x]
    PROVE  OrderedIn(slab', list_del(slabs[a], p))
<1> DEFINE t == list_del(slabs[a], p)
<1>1. slab \in [Pages -> Slab] /\ slabs[a] \in Seq(Pages) /\ IsInjective(slabs[a])
  BY DEF Inv, TypeOK, Placed
<1>2. OrderedIn(slab, slabs[a])
  BY DEF Inv, FirstSlabServes, OrderedIn
<1>3. t \in Seq(Pages) /\ Range(t) = Range(slabs[a]) \ {p}
  BY <1>1, DelList
<1>4. OrderedIn(slab, t)
  BY <1>1, <1>2, DelOrdered
<1> HIDE DEF t
<1>5. \A i \in DOMAIN t : t[i] \in Pages /\ t[i] # p
  <2>1. \A i \in DOMAIN t : t[i] \in Range(t)
    BY DEF Range
  <2>2. Range(t) \subseteq Pages
    BY <1>3 DEF Range
  <2> QED
    BY <1>3, <2>1, <2>2
<1>6. \A i \in DOMAIN t : slab'[t[i]] = slab[t[i]]
  BY <1>1, <1>5
<1> QED
  BY <1>4, <1>6, SameOrder DEF t

LEMMA FreeStep ==
    ASSUME Inv, NEW a \in Allocators, NEW p \in Pages, NEW i \in Items, allocator_free(a, p, i)
    PROVE  Inv'
<1> DEFINE l == slabs[a]
           s == Returned(slab[p], i)
           empty == s.free_item_count = s.max_items
           H == held[p] \ {i}
           d == list_del(l, p)
<1>1. /\ pc[a] = "live" /\ p \in Range(l) /\ i \in held[p]
      /\ held' = [held EXCEPT ![p] = H]
      /\ max_items' = max_items /\ pc' = pc
      /\ nogrow' = nogrow /\ asked' = asked /\ want' = want
  BY DEF allocator_free, __helper_allocator_shrink, ownVars
<1>2. TypeOK /\ l \in Seq(Pages) /\ IsInjective(l) /\ avail \in Seq(Pages) /\ IsInjective(avail)
  BY DEF Inv, Placed, TypeOK
<1>3. p \notin Range(avail)
  BY <1>1 DEF Inv, Placed
<1>4. slab[p] \in SlabState /\ held[p] \subseteq Items /\ FreeList(a, slab[p], held[p])
  BY <1>1, <1>2, SlabIsState DEF TypeOK, Inv, Lists
<1>5. /\ s \in SlabState /\ s.free_items = i /\ FreeList(a, s, H)
      /\ s.free_item_count = slab[p].free_item_count + 1
  BY <1>1, <1>4, ReturnedFields, FreeListReturned
<1>6. /\ s \in Slab /\ H \in SUBSET Items /\ s.free_item_count > 0
      /\ empty => H = {}
  <2>1. s \in Slab
    BY <1>5, StateIsSlab
  <2>2. slab[p].free_item_count \in 0 .. item_count(a) /\ item_count(a) \in Nat
    BY <1>4, FreeListCount, ItemCount
  <2>3. empty => H = {}
    BY <1>5, FreeListCount
  <2> QED
    BY <1>4, <1>5, <2>1, <2>2, <2>3
<1>7. /\ d \in Seq(Pages) /\ Len(d) = Len(l) - 1 /\ Len(l) \in Nat \ {0}
      /\ IsInjective(d) /\ Range(d) = Range(l) \ {p}
  BY <1>1, <1>2, DelList
<1>8. pc'[a] \in {"live", "delete"} /\ \A b \in Allocators \ {a} : pc'[b] = pc[b]
  BY <1>1
<1>9. ASSUME NEW x, slab' = [slab EXCEPT ![p] = x]
      PROVE  OrderedIn(slab', d) /\ slab'[p] = x
  BY <1>1, <1>2, <1>9, DelOtherOrdered DEF TypeOK
<1>10. /\ slab' \in [Pages -> Slab] /\ slabs' \in [Allocators -> Seq(Pages)]
       /\ held' \in [Pages -> SUBSET Items] /\ avail' \in Seq(Pages)
       /\ Placed' /\ InUse' /\ Lists' /\ FirstSlabServes'
  <2>1. CASE empty /\ HasOtherSlabs(a)
    <3>1. /\ slabs' = [slabs EXCEPT ![a] = d]
          /\ slab' = [slab EXCEPT ![p] = Unused]
          /\ avail' = Append(avail, p)
      BY <2>1 DEF allocator_free, __helper_allocator_shrink, __allocator_release_page
    <3>2. d # <<>>
      <4>1. Len(d) # 0
        BY <1>7, <2>1 DEF HasOtherSlabs
      <4> QED
        BY <4>1
    <3>3. Unused \in Slab /\ H = {}
      BY <1>6, <2>1, UnusedSlab
    <3> HIDE DEF d, H, s
    <3>4. /\ avail' \in Seq(Pages) /\ IsInjective(avail') /\ Range(avail') = Range(avail) \cup {p}
      BY <1>2, <1>3, <3>1, AppendList
    <3>5. OrderedIn(slab', d)
      BY <1>9, <3>1
    <3>6. /\ p \in Range(avail) \cup Range(slabs[a]) /\ p \notin Range(d)
          /\ Range(d) \subseteq Range(slabs[a]) \cup {p} /\ Range(slabs[a]) \ {p} \subseteq Range(d)
          /\ Range(avail') \subseteq Range(avail) \cup {p}
      BY <1>1, <1>7, <3>4
    <3> QED
      BY <1>1, <1>6, <1>7, <1>8, <3>1, <3>2, <3>3, <3>4, <3>5, <3>6, PageStep
  <2>2. CASE empty /\ ~HasOtherSlabs(a)
    <3>1. /\ slabs' = [slabs EXCEPT ![a] = l]
          /\ slab' = [slab EXCEPT ![p] = s]
          /\ avail' = avail
      BY <2>2 DEF allocator_free
    <3>2. Len(l) = 1 /\ DOMAIN l = 1 .. 1 /\ l # <<>>
      <4>1. Len(l) = 1
        BY <2>2 DEF HasOtherSlabs
      <4> HIDE DEF l
      <4>2. DOMAIN l = 1 .. 1
        BY <1>2, <4>1, LenProperties
      <4>3. l # <<>>
        BY <4>1
      <4> QED
        BY <4>1, <4>2, <4>3
    <3>3. OrderedIn(slab', l)
      BY <3>2 DEF OrderedIn
    <3> HIDE DEF s, H
    <3>4. /\ p \in Range(avail) \cup Range(slabs[a]) /\ p \notin Range(avail')
          /\ Range(l) \subseteq Range(slabs[a]) \cup {p} /\ Range(slabs[a]) \ {p} \subseteq Range(l)
          /\ Range(avail') \subseteq Range(avail) \cup {p}
          /\ avail' \in Seq(Pages) /\ IsInjective(avail')
      BY <1>1, <1>2, <1>3, <3>1
    <3> QED
      BY <1>1, <1>2, <1>5, <1>6, <1>8, <3>1, <3>2, <3>3, <3>4, PageStep
  <2>3. CASE ~empty
    <3> DEFINE t == <<p>> \o d
    <3>1. /\ slabs' = [slabs EXCEPT ![a] = t]
          /\ slab' = [slab EXCEPT ![p] = s]
          /\ avail' = avail
      BY <2>3 DEF allocator_free
    <3> HIDE DEF d, H, s
    <3>2. t \in Seq(Pages) /\ t # <<>> /\ IsInjective(t) /\ Range(t) = Range(d) \cup {p}
      BY <1>7, ConsList
    <3>3. OrderedIn(slab', t)
      BY <1>6, <1>7, <1>9, <3>1, ConsOrdered
    <3> HIDE DEF t
    <3>4. /\ p \in Range(avail) \cup Range(slabs[a]) /\ p \notin Range(avail') /\ p \in Range(t)
          /\ Range(t) \subseteq Range(slabs[a]) \cup {p} /\ Range(slabs[a]) \ {p} \subseteq Range(t)
          /\ Range(avail') \subseteq Range(avail) \cup {p}
          /\ avail' \in Seq(Pages) /\ IsInjective(avail')
      BY <1>1, <1>2, <1>3, <1>7, <3>1, <3>2
    <3> QED
      BY <1>1, <1>5, <1>6, <1>8, <3>1, <3>2, <3>3, <3>4, PageStep
  <2> QED
    BY <2>1, <2>2, <2>3
<1>11. Wanted'
  BY <1>1 DEF Inv, Wanted
<1>12. TypeOK'
  BY <1>1, <1>2, <1>10 DEF TypeOK
<1> QED
  BY <1>10, <1>11, <1>12 DEF Inv

LEMMA DeleteSlabStep ==
    ASSUME Inv, NEW a \in Allocators, DeleteSlab(a)
    PROVE  Inv'
<1> DEFINE l == slabs[a]
           p == Head(l)
           t == Tail(l)
<1>1. /\ pc[a] = "delete" /\ l # <<>> /\ ~SlabBusy(slab[p])
      /\ slabs' = [slabs EXCEPT ![a] = t]
      /\ max_items' = [max_items EXCEPT ![a] = @ - slab[p].max_items]
      /\ slab' = [slab EXCEPT ![p] = Unused]
      /\ avail' = Append(avail, p)
      /\ pc' = pc /\ nogrow' = nogrow /\ asked' = asked /\ want' = want /\ held' = held
  BY DEF DeleteSlab, __allocator_release_page, ownVars
<1>2. TypeOK /\ l \in Seq(Pages) /\ IsInjective(l) /\ avail \in Seq(Pages) /\ IsInjective(avail)
  BY DEF Inv, Placed, TypeOK
<1>3. /\ p \in Pages /\ p \in Range(l)
      /\ t \in Seq(Pages) /\ IsInjective(t) /\ Range(t) = Range(l) \ {p}
  BY <1>1, <1>2, TailList
<1>4. p \notin Range(avail)
  BY <1>3 DEF Inv, Placed
<1>5. held[p] = {}
  <2>1. FreeList(a, slab[p], held[p])
    BY <1>3 DEF Inv, Lists
  <2> QED
    BY <1>1, <2>1, FreeListCount DEF SlabBusy
<1>6. OrderedIn(slab', t)
  <2>1. OrderedIn(slab, l)
    BY DEF Inv, FirstSlabServes, OrderedIn
  <2>2. OrderedIn(slab, t)
    BY <1>1, <1>2, <2>1, TailOrdered
  <2>3. slab \in [Pages -> Slab]
    BY <1>2 DEF TypeOK
  <2> HIDE DEF t, p
  <2>4. \A i \in DOMAIN t : t[i] \in Pages /\ t[i] # p
    <3>1. \A i \in DOMAIN t : t[i] \in Range(t)
      BY DEF Range
    <3>2. Range(t) \subseteq Pages
      BY <1>3 DEF Range
    <3> QED
      BY <1>3, <3>1, <3>2
  <2>5. \A i \in DOMAIN t : slab'[t[i]] = slab[t[i]]
    BY <1>1, <2>3, <2>4
  <2> QED
    BY <2>2, <2>5, SameOrder
<1> HIDE DEF t, p
<1>7. /\ avail' \in Seq(Pages) /\ IsInjective(avail') /\ Range(avail') = Range(avail) \cup {p}
  BY <1>1, <1>2, <1>3, <1>4, AppendList
<1>8. held' = [held EXCEPT ![p] = {}]
  BY <1>1, <1>2, <1>3, <1>5 DEF TypeOK
<1>9. /\ slab' \in [Pages -> Slab] /\ slabs' \in [Allocators -> Seq(Pages)]
      /\ held' \in [Pages -> SUBSET Items]
      /\ Placed' /\ InUse' /\ Lists' /\ FirstSlabServes'
  <2>1. /\ p \in Range(avail) \cup Range(slabs[a]) /\ p \notin Range(t)
        /\ Range(t) \subseteq Range(slabs[a]) \cup {p} /\ Range(slabs[a]) \ {p} \subseteq Range(t)
        /\ Range(avail') \subseteq Range(avail) \cup {p}
    BY <1>3, <1>7
  <2>2. /\ pc'[a] \in {"live", "delete"} /\ \A b \in Allocators \ {a} : pc'[b] = pc[b]
        /\ pc'[a] # "live" /\ {} \in SUBSET Items
    BY <1>1
  <2> QED
    BY <1>1, <1>3, <1>6, <1>7, <1>8, <2>1, <2>2, UnusedSlab, PageStep
<1>10. max_items' \in [Allocators -> Int]
  <2>1. slab[p].max_items \in Int
    BY <1>2, <1>3, SlabIsState DEF TypeOK, SlabState
  <2> QED
    BY <1>1, <1>2, <2>1 DEF TypeOK
<1>11. Wanted'
  BY <1>1 DEF Inv, Wanted
<1>12. TypeOK'
  BY <1>1, <1>2, <1>7, <1>9, <1>10 DEF TypeOK
<1> QED
  BY <1>9, <1>11, <1>12 DEF Inv

\* A step that moves no page: allocator_new and allocator_delete enter and leave.
LEMMA PcStep ==
    ASSUME Inv, NEW a \in Allocators,
           avail' = avail, slab' = slab, slabs' = slabs, held' = held,
           \A b \in Allocators \ {a} : pc'[b] = pc[b],
           pc'[a] = "live" => slabs[a] # <<>>,
           pc[a] \in {"live", "delete"} => pc'[a] \in {"live", "delete"} \/ slabs[a] = <<>>
    PROVE  Placed' /\ InUse' /\ Lists' /\ FirstSlabServes'
<1>1. Placed'
  BY DEF Inv, Placed
<1>2. InUse'
  <2> SUFFICES ASSUME NEW q \in Pages, held'[q] # {}
               PROVE  \E b \in Allocators : pc'[b] \in {"live", "delete"} /\ q \in Range(slabs'[b])
    BY DEF InUse
  <2>1. PICK b \in Allocators : pc[b] \in {"live", "delete"} /\ q \in Range(slabs[b])
    BY DEF Inv, InUse
  <2>2. slabs[b] # <<>>
    BY <2>1 DEF Range
  <2> QED
    BY <2>1, <2>2
<1>3. Lists'
  <2> SUFFICES ASSUME NEW b \in Allocators, NEW q \in Range(slabs'[b])
               PROVE  FreeList(b, slab'[q], held'[q])
    BY DEF Lists, FreeList, Listing, Linked, item_count, real_size, ROUND_16
  <2> QED
    BY DEF Inv, Lists
<1>4. FirstSlabServes'
  BY DEF Inv, FirstSlabServes
<1> QED
  BY <1>1, <1>2, <1>3, <1>4

LEMMA NewStep ==
    ASSUME Inv, NEW a \in Allocators, allocator_new(a)
    PROVE  Inv'
<1>1. PICK n \in ItemCounts, ng \in NoGrowFlags, garbage \in BOOLEAN :
          /\ asked' = [asked EXCEPT ![a] = [item_count |-> n, nogrow |-> ng]]
          /\ want' = [want EXCEPT ![a] = (n + items_per_slab(a) - 1) \div items_per_slab(a)]
          /\ nogrow' = [nogrow EXCEPT ![a] = garbage]
  BY DEF allocator_new
<1>2. /\ pc[a] = "none" /\ items_per_slab(a) > 0
      /\ pc' = [pc EXCEPT ![a] = "new"]
      /\ avail' = avail /\ slab' = slab /\ slabs' = slabs /\ max_items' = max_items /\ held' = held
  BY DEF allocator_new
<1>3. TypeOK
  BY DEF Inv
<1> DEFINE w == (n + items_per_slab(a) - 1) \div items_per_slab(a)
<1>4. w \in Nat /\ w > 0
  <2>1. n \in Nat \ {0} /\ items_per_slab(a) \in Nat \ {0}
    BY <1>2, SizeAssumption, ItemsPerSlab
  <2> DEFINE d == items_per_slab(a)
             m == n + d - 1
  <2>2. d \in Nat \ {0} /\ m \in Nat /\ 1 * d <= m
    BY <2>1
  <2>3. w = m \div d
    OBVIOUS
  <2> HIDE DEF d, m, w
  <2>4. 1 <= m \div d
    BY <2>2, DivFits
  <2>5. m \div d \in Nat
    BY <2>2
  <2> QED
    BY <2>3, <2>4, <2>5
<1> HIDE DEF w
<1>5. pc' \in [Allocators -> {"none", "new", "live", "delete"}] /\ pc'[a] = "new"
      /\ \A b \in Allocators \ {a} : pc'[b] = pc[b]
  BY <1>2, <1>3 DEF TypeOK
<1>6. Placed' /\ InUse' /\ Lists' /\ FirstSlabServes'
  BY <1>2, <1>5, PcStep
<1>7. want' \in [Allocators -> Nat] /\ want'[a] > 0 /\ \A b \in Allocators \ {a} : want'[b] = want[b]
  BY <1>1, <1>3, <1>4 DEF TypeOK, w
<1>8. nogrow' \in [Allocators -> BOOLEAN] /\ asked' \in [Allocators -> [item_count : Nat, nogrow : BOOLEAN]]
  <2>1. [item_count |-> n, nogrow |-> ng] \in [item_count : Nat, nogrow : BOOLEAN]
    BY SizeAssumption
  <2> QED
    BY <1>1, <1>3, <2>1 DEF TypeOK
<1>9. Wanted'
  BY <1>5, <1>7 DEF Inv, Wanted
<1>10. TypeOK'
  BY <1>2, <1>3, <1>5, <1>7, <1>8 DEF TypeOK
<1> QED
  BY <1>6, <1>9, <1>10 DEF Inv

\* allocator_new gives up: the pages it has taken are nobody's, and nothing on
\* them is in use.
LEMMA NewFailsStep ==
    ASSUME Inv, NEW a \in Allocators, NewFails(a)
    PROVE  Inv'
<1>1. /\ pc[a] = "new"
      /\ slabs' = [slabs EXCEPT ![a] = <<>>]
      /\ pc' = [pc EXCEPT ![a] = "none"]
      /\ max_items' = [max_items EXCEPT ![a] = 0]
      /\ nogrow' = [nogrow EXCEPT ![a] = FALSE]
      /\ asked' = [asked EXCEPT ![a] = NotAsked]
      /\ want' = [want EXCEPT ![a] = 0]
      /\ avail' = avail /\ slab' = slab /\ held' = held
  BY DEF NewFails, Forgotten
<1>2. TypeOK
  BY DEF Inv
<1>3. TypeOK'
  BY <1>1, <1>2 DEF TypeOK, NotAsked
<1>4. /\ slabs'[a] = <<>> /\ \A b \in Allocators \ {a} : slabs'[b] = slabs[b]
      /\ pc'[a] = "none" /\ \A b \in Allocators \ {a} : pc'[b] = pc[b]
      /\ \A b \in Allocators \ {a} : want'[b] = want[b]
      /\ Range(slabs'[a]) = {} /\ IsInjective(slabs'[a]) /\ DOMAIN slabs'[a] = {}
  <2>1. slabs'[a] = <<>>
    BY <1>1, <1>2 DEF TypeOK
  <2> QED
    BY <1>1, <1>2, <2>1 DEF TypeOK, Range, IsInjective
<1>5. Placed'
  BY <1>1, <1>4 DEF Inv, Placed
<1>6. InUse'
  <2> SUFFICES ASSUME NEW q \in Pages, held'[q] # {}
               PROVE  \E b \in Allocators : pc'[b] \in {"live", "delete"} /\ q \in Range(slabs'[b])
    BY DEF InUse
  <2>1. PICK b \in Allocators : pc[b] \in {"live", "delete"} /\ q \in Range(slabs[b])
    BY <1>1 DEF Inv, InUse
  <2>2. b # a
    BY <1>1, <2>1
  <2> QED
    BY <1>4, <2>1, <2>2
<1>7. Lists'
  <2> SUFFICES ASSUME NEW b \in Allocators, NEW q \in Range(slabs'[b])
               PROVE  FreeList(b, slab'[q], held'[q])
    BY DEF Lists, FreeList, Listing, Linked, item_count, real_size, ROUND_16
  <2> QED
    BY <1>1, <1>4 DEF Inv, Lists
<1>8. FirstSlabServes'
  BY <1>1, <1>4 DEF Inv, FirstSlabServes
<1>9. Wanted'
  BY <1>4 DEF Inv, Wanted
<1> QED
  BY <1>3, <1>5, <1>6, <1>7, <1>8, <1>9 DEF Inv

\* The steps in which allocator_delete starts and ends.
LEMMA DeleteEnds ==
    ASSUME Inv, NEW a \in Allocators, BeginDelete(a) \/ DeleteBusy(a) \/ DeleteDone(a)
    PROVE  Inv'
<1>1. TypeOK /\ avail' = avail /\ slab' = slab /\ slabs' = slabs /\ held' = held
  BY DEF Inv, BeginDelete, DeleteBusy, DeleteDone
<1>2. CASE BeginDelete(a)
  <2>1. /\ pc[a] = "live" /\ pc' = [pc EXCEPT ![a] = "delete"]
        /\ max_items' = max_items /\ nogrow' = nogrow /\ asked' = asked /\ want' = want
    BY <1>2 DEF BeginDelete
  <2>2. /\ pc'[a] = "delete" /\ \A b \in Allocators \ {a} : pc'[b] = pc[b]
        /\ pc' \in [Allocators -> {"none", "new", "live", "delete"}]
    BY <1>1, <2>1 DEF TypeOK
  <2>3. Placed' /\ InUse' /\ Lists' /\ FirstSlabServes'
    BY <1>1, <2>2, PcStep
  <2> QED
    BY <1>1, <2>1, <2>2, <2>3 DEF Inv, TypeOK, Wanted
<1>3. CASE DeleteBusy(a)
  <2>1. /\ slabs[a] # <<>> /\ pc' = [pc EXCEPT ![a] = "live"]
        /\ max_items' = max_items /\ nogrow' = nogrow /\ asked' = asked /\ want' = want
    BY <1>3 DEF DeleteBusy
  <2>2. /\ pc'[a] = "live" /\ \A b \in Allocators \ {a} : pc'[b] = pc[b]
        /\ pc' \in [Allocators -> {"none", "new", "live", "delete"}]
    BY <1>1, <2>1 DEF TypeOK
  <2>3. Placed' /\ InUse' /\ Lists' /\ FirstSlabServes'
    BY <1>1, <2>1, <2>2, PcStep
  <2> QED
    BY <1>1, <2>1, <2>2, <2>3 DEF Inv, TypeOK, Wanted
<1>4. CASE DeleteDone(a)
  <2>1. /\ slabs[a] = <<>>
        /\ pc' = [pc EXCEPT ![a] = "none"]
        /\ max_items' = [max_items EXCEPT ![a] = 0]
        /\ nogrow' = [nogrow EXCEPT ![a] = FALSE]
        /\ asked' = [asked EXCEPT ![a] = NotAsked]
        /\ want' = [want EXCEPT ![a] = 0]
    BY <1>4 DEF DeleteDone, Forgotten
  <2>2. /\ pc'[a] = "none" /\ \A b \in Allocators \ {a} : pc'[b] = pc[b] /\ want'[b] = want[b]
    BY <1>1, <2>1 DEF TypeOK
  <2>3. Placed' /\ InUse' /\ Lists' /\ FirstSlabServes'
    BY <1>1, <2>1, <2>2, PcStep
  <2>4. TypeOK'
    BY <1>1, <2>1 DEF TypeOK, NotAsked
  <2>5. Wanted'
    BY <2>2 DEF Inv, Wanted
  <2> QED
    BY <2>3, <2>4, <2>5 DEF Inv
<1> QED
  BY <1>2, <1>3, <1>4

-------------------------------------------------------------------------------
(* Theorems.                                                               *)

LEMMA InvInit == Init => Inv
<1> SUFFICES ASSUME Init PROVE Inv
  OBVIOUS
<1>1. /\ avail = [p \in Pages |-> p] /\ NrSlabs \in Nat
      /\ slabs = [a \in Allocators |-> <<>>]
      /\ pc = [a \in Allocators |-> "none"]
      /\ held = [p \in Pages |-> {}]
  BY SizeAssumption DEF Init
<1>2. TypeOK
  <2>1. avail \in Seq(Pages)
    BY <1>1 DEF Pages
  <2>2. slab \in [Pages -> Slab]
    BY UnusedSlab DEF Init
  <2> QED
    BY <2>1, <2>2 DEF Init, TypeOK, NotAsked
<1>3. IsInjective(avail)
  BY <1>1 DEF IsInjective
<1>4. \A a \in Allocators : IsInjective(slabs[a]) /\ Range(slabs[a]) = {} /\ DOMAIN slabs[a] = {}
  BY <1>1 DEF IsInjective, Range
<1> QED
  BY <1>1, <1>2, <1>3, <1>4 DEF Inv, Placed, InUse, Lists, FirstSlabServes, Wanted

LEMMA InvNext == Inv /\ [Next]_vars => Inv'
<1> SUFFICES ASSUME Inv, [Next]_vars PROVE Inv'
  OBVIOUS
<1>1. CASE UNCHANGED vars
  <2>1. /\ avail' = avail /\ slab' = slab /\ slabs' = slabs /\ max_items' = max_items
        /\ pc' = pc /\ nogrow' = nogrow /\ asked' = asked /\ want' = want /\ held' = held
    BY <1>1 DEF vars, ownVars
  <2>2. TypeOK' /\ Wanted'
    BY <2>1 DEF Inv, TypeOK, Wanted
  <2>3. Placed' /\ InUse' /\ FirstSlabServes'
    BY <2>1 DEF Inv, Placed, InUse, FirstSlabServes
  <2>4. Lists'
    <3> SUFFICES ASSUME NEW b \in Allocators, NEW q \in Range(slabs'[b])
                 PROVE  FreeList(b, slab'[q], held'[q])
      BY DEF Lists, FreeList, Listing, Linked, item_count, real_size, ROUND_16
    <3> QED
      BY <2>1 DEF Inv, Lists
  <2> QED
    BY <2>2, <2>3, <2>4 DEF Inv
<1>2. CASE Next
  <2>1. PICK a \in Allocators :
            \/ allocator_new(a)
            \/ NewSlab(a)
            \/ NewFails(a)
            \/ AllocHit(a)
            \/ AllocGrow(a)
            \/ \E p \in Pages, i \in Items : allocator_free(a, p, i)
            \/ BeginDelete(a)
            \/ DeleteSlab(a)
            \/ DeleteBusy(a)
            \/ DeleteDone(a)
    BY <1>2 DEF Next
  <2> QED
    BY <2>1, NewStep, NewSlabStep, NewFailsStep, AllocHitStep, AllocGrowStep, FreeStep,
       DeleteSlabStep, DeleteEnds
<1> QED
  BY <1>1, <1>2

\* The inductive invariant holds of every reachable state.
THEOREM Invariance == Spec => []Inv
  BY InvInit, InvNext, PTL DEF Spec

\* Every field of every slab and allocator stays within its type.
THEOREM TypeCorrect == Spec => []TypeOK
<1>1. Inv => TypeOK
  BY DEF Inv
<1> QED
  BY <1>1, Invariance, PTL

\* allocator_alloc and allocator_free keep the lazily built list of free items
\* sound, whatever the sizes of items, header and page are: the items a slab
\* hands out next are those that nobody holds, each once, and then NULL.
THEOREM FreeListsSound == Spec => []FreeListSound
<1>1. Inv => FreeListSound
  <2> SUFFICES ASSUME Inv, NEW a \in Allocators, NEW p \in Range(slabs[a])
               PROVE  LET n     == slab[p].free_item_count
                          after == After(a, slab[p])
                          free  == 1 .. item_count(a) \ held[p]
                      IN  n > 0 => /\ {after[k].free_items : k \in 0 .. n - 1} = free
                                   /\ Cardinality(free) = n
                                   /\ after[n].free_items = NULL
    BY DEF FreeListSound
  <2>1. FreeList(a, slab[p], held[p])
    BY DEF Inv, Lists
  <2>2. p \in Pages /\ slab[p] \in SlabState
    <3>1. slabs[a] \in Seq(Pages) /\ slab \in [Pages -> Slab]
      BY DEF Inv, TypeOK
    <3>2. p \in Pages
      BY <3>1 DEF Range
    <3> QED
      BY <3>1, <3>2, SlabIsState
  <2> QED
    BY <2>1, <2>2, SlabSound
<1> QED
  BY <1>1, Invariance, PTL

\* No page is in two places, and none goes back to the pool or is lost while an
\* item on it is in use: allocator_delete and allocator_free decide from the
\* counters of the slab, and those tell the truth.
THEOREM PagesAreOwned == Spec => []PagesOwned
<1>1. Inv => PagesOwned
  BY DEF Inv, Placed, InUse, PagesOwned
<1> QED
  BY <1>1, Invariance, PTL

\* Looking at the first slab only is enough for allocator_alloc.
THEOREM FirstServes == Spec => []FirstSlabServes
<1>1. Inv => FirstSlabServes
  BY DEF Inv
<1> QED
  BY <1>1, Invariance, PTL
================================================================================
