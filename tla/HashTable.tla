------------------------------- MODULE HashTable -------------------------------
(***************************************************************************)
(* tsl/hash_table.c: a chained hash table.  Every bucket is the head of a  *)
(* list (tsl/list.h) of the nodes whose hash selects it; nodes are         *)
(* embedded in the caller's objects, which hold the key.                   *)
(*                                                                         *)
(* The caller follows the documented protocol: it inserts nodes that are   *)
(* in no table and deletes nodes "from the hash table [they are] in".  The *)
(* hash and the comparison function are the caller's; a hash that cannot   *)
(* be computed ends ht_insert and ht_find without a change.                *)
(***************************************************************************)
EXTENDS List, SequencesExt

CONSTANTS
    Nodes,         \* struct hash_node of the caller's objects
    KeyOf,         \* the key of each object
    Hash,          \* the hash of each key
    BucketCounts,  \* nr_buckets a table may be made with
    BitAnd(_, _),  \* the C operator &
    Unreadable,    \* nodes for which the comparison function fails
    DeletesLate,   \* TRUE: nodes are also deleted when their table is gone
    FREED,         \* where a bucket used to be
    NULL

ASSUME CountAssumption == BucketCounts \subseteq Nat \ {0}
ASSUME MaskAssumption ==
    \A nr \in BucketCounts, key \in DOMAIN Hash : BitAnd(Hash[key], nr - 1) \in 0 .. nr - 1
ASSUME LateAssumption == DeletesLate \in BOOLEAN

VARIABLES
    nr_buckets,   \* 0: table->buckets is NULL
    links,        \* prev and next of every bucket and node
    hash,         \* node->hash
    table,        \* nodes in the table, in the order of their insertion
    corrupted     \* something was written to buckets that were freed

vars == <<nr_buckets, links, hash, table, corrupted>>

Keys    == DOMAIN Hash
Buckets == UNION {0 .. nr - 1 : nr \in BucketCounts}
Entries == Buckets \cup Nodes

ASSUME NodeAssumption ==
    /\ IsFiniteSet(Nodes)
    /\ Nodes \cap Buckets = {}
    /\ KeyOf \in [Nodes -> Keys]

Stored(n) == \E i \in DOMAIN table : table[i] = n

\* Still linked into the buckets of a table that was cleaned up.
Stale(n) == ~Stored(n) /\ links.next[n] \notin {n, LIST_POISON_NEXT}

-------------------------------------------------------------------------------
\* Every bucket gets an empty list.  A table that has buckets is answered with
\* A_E_BUSY.
ht_init(nr) ==
    /\ nr_buckets = 0
    /\ nr_buckets' = nr
    /\ links' = list_init(links, 0 .. nr - 1)
    /\ UNCHANGED <<hash, table, corrupted>>

\* The buckets are freed; nodes keep their links, some of which dangle now.
ht_cleanup ==
    LET Free(f) == [e \in Entries |-> IF e \in Buckets \/ f[e] \in Buckets THEN FREED
                                      ELSE f[e]]
    IN  /\ nr_buckets # 0
        /\ nr_buckets' = 0
        /\ links' = [next |-> Free(links.next), prev |-> Free(links.prev)]
        /\ table' = <<>>
        /\ UNCHANGED <<hash, corrupted>>

_ht_get_bucket(h) == BitAnd(h, nr_buckets - 1)

ht_insert(n) ==
    LET hash_val == Hash[KeyOf[n]]
    IN  /\ nr_buckets # 0
        /\ ~Stored(n)
        /\ hash' = [hash EXCEPT ![n] = hash_val]
        /\ links' = list_append(links, _ht_get_bucket(hash_val), n)
        /\ table' = Append(table, n)
        /\ UNCHANGED <<nr_buckets, corrupted>>

\* Mutant: only the stored hash is compared.
FindByHash(key) ==
    LET head  == _ht_get_bucket(Hash[key])
        at    == Walk(links, head, Cardinality(Nodes))
        stops == {i \in DOMAIN at : at[i] = head \/ hash[at[i]] = Hash[key]}
        first == CHOOSE i \in stops : \A j \in stops : i <= j
    IN  IF at[first] = head THEN [ret |-> "A_E_NOTFOUND", pfound |-> NULL]
        ELSE [ret |-> "A_OK", pfound |-> at[first]]

\* The walk along a bucket stops at the first node with the hash and the key; a
\* comparison that fails ends it as well, without a node and, because the result
\* is set again, without the error.
ht_find(key) ==
    LET head  == _ht_get_bucket(Hash[key])
        at    == Walk(links, head, Cardinality(Nodes))
        Ends(n) == hash[n] = Hash[key] /\ (n \in Unreadable \/ KeyOf[n] = key)
        stops == {i \in DOMAIN at : at[i] = head \/ Ends(at[i])}
        first == CHOOSE i \in stops : \A j \in stops : i <= j
    IN  IF at[first] \in Unreadable \cup {head}
        THEN [ret |-> "A_E_NOTFOUND", pfound |-> NULL]
        ELSE [ret |-> "A_OK", pfound |-> at[first]]

ht_delete(n) ==
    /\ Stored(n) \/ (DeletesLate /\ Stale(n))
    /\ corrupted' = (corrupted \/ FREED \in {links.next[n], links.prev[n]})
    /\ links' = list_del(links, n)
    /\ hash' = [hash EXCEPT ![n] = 0]
    /\ table' = IF Stored(n) THEN RemoveAt(table, CHOOSE i \in DOMAIN table : table[i] = n)
                ELSE table
    /\ UNCHANGED nr_buckets

-------------------------------------------------------------------------------
\* HASH_TABLE_INIT, and ht_node_init on every node.
Init ==
    /\ nr_buckets = 0
    /\ LET Nowhere == [e \in Entries |-> FREED]
       IN  links = list_init([next |-> Nowhere, prev |-> Nowhere], Nodes)
    /\ hash = [n \in Nodes |-> 0]
    /\ table = <<>>
    /\ corrupted = FALSE

Next ==
    \/ \E nr \in BucketCounts : ht_init(nr)
    \/ ht_cleanup
    \/ \E n \in Nodes : ht_insert(n) \/ ht_delete(n)

Spec == Init /\ [][Next]_vars

-------------------------------------------------------------------------------
(* Properties.                                                             *)

InUse   == 0 .. nr_buckets - 1
Chain(b) == {n \in Nodes : Stored(n) /\ _ht_get_bucket(hash[n]) = b}

\* Every bucket of the table heads a list of exactly the stored nodes whose hash
\* selects it, which a traversal meets once each before it is back at the head,
\* and which reads the same backwards: list_append and list_del have mended both
\* directions, whatever became of the nodes' former neighbours and tables.
BucketsAreRings ==
    \A b \in InUse :
        LET size == Cardinality(Chain(b))
            at   == Walk(links, b, size)
        IN  /\ at[size] = b
            /\ {at[i] : i \in 0 .. size - 1} = Chain(b)
            /\ \A e \in Chain(b) \cup {b} : links.prev[links.next[e]] = e

\* ht_find gives the node that was inserted first of those in the table with the
\* key, and A_E_NOTFOUND for a key that none of them has: not for a node that was
\* deleted or whose table was cleaned up, and not for another key with the same
\* hash or in the same bucket.
FindAgrees ==
    nr_buckets # 0 =>
        \A key \in Keys :
            LET with == {i \in DOMAIN table : KeyOf[table[i]] = key}
            IN  ht_find(key) = IF with = {} THEN [ret |-> "A_E_NOTFOUND", pfound |-> NULL]
                               ELSE [ret |-> "A_OK", pfound |-> table[Min(with)]]

\* hash_table.h, ht_cleanup: "This does not release tracked data structures": the
\* caller still has them, and deletes them with ht_delete.
NothingFreedIsWritten == ~corrupted

\* hash_table.h, ht_find: "A_E_NOTFOUND if the key could not be found, an error
\* code otherwise": A_E_NOTFOUND means that there is no such node.
NotFoundIsAbsent ==
    nr_buckets # 0 =>
        \A n \in Nodes : Stored(n) => ht_find(KeyOf[n]).ret # "A_E_NOTFOUND"
===============================================================================
