------------------------------ MODULE SlabAllocator ------------------------------
(***************************************************************************)
(* tsl/alloc/allocator.c: allocators of fixed-size items over a shared     *)
(* pool of pages.                                                          *)
(*                                                                         *)
(* An allocator belongs to one thread and has no lock; what allocators of  *)
(* different threads share is the list of available pages, under a         *)
(* spinlock.  An operation that takes or returns at most one page is one   *)
(* step; allocator_new and allocator_delete take one step per page.        *)
(*                                                                         *)
(* A page in use starts with a struct slab.  Its items are numbered from 1 *)
(* in address order.  The list of free items is built lazily: an item      *)
(* whose next is LINK (ALLOC_SLAB_NEXT_LINK) is followed in the list by    *)
(* its neighbour, if that still fits in the slab.  STALE is memory that    *)
(* was not written since the slab was initialised.                         *)
(*                                                                         *)
(* allocator_free is called with items the allocator handed out and that   *)
(* were not freed since.  The contents of a page in the pool are never     *)
(* read, so they are forgotten.                                            *)
(***************************************************************************)
EXTENDS Integers, FiniteSets, SequencesExt

CONSTANTS
    Allocators,
    ItemSize,       \* [Allocators -> Nat]: item_size given to allocator_new
    SlabBytes,      \* class->slab_bytes: the page size
    HeaderBytes,    \* sizeof(struct slab), rounded to a cache line
    NrSlabs,        \* class->nr_slabs
    ItemCounts,     \* item_count a caller may ask for
    NoGrowFlags,    \* subset of BOOLEAN: ALLOC_FLAG_NO_GROW in a caller's flags
    MaxTotal        \* bound: the largest max_items an allocator grows from

ASSUME SizeAssumption ==
    /\ ItemSize \in [Allocators -> Nat \ {0}]
    /\ HeaderBytes \in Nat \ {0}
    /\ SlabBytes \in Nat /\ SlabBytes >= HeaderBytes
    /\ NrSlabs \in Nat \ {0}
    /\ ItemCounts \subseteq Nat \ {0}
    /\ NoGrowFlags \subseteq BOOLEAN
    /\ MaxTotal \in Nat

VARIABLES
    avail,      \* class->avail_slabs
    slab,       \* [Pages -> the struct slab and the items' next fields]
    pc,         \* [Allocators -> {"none", "new", "live", "delete"}]
    slabs,      \* alloc->slabs
    max_items,  \* alloc->max_items
    nogrow,     \* alloc->flags & ALLOC_FLAG_NO_GROW
    asked,      \* what allocator_new was asked for: item_count and NO_GROW
    want,       \* pages allocator_new still has to take
    held        \* [Pages -> items the application holds]

ownVars == <<pc, nogrow, asked, want>>
vars    == <<avail, slab, slabs, max_items, ownVars, held>>

Pages == 1 .. NrSlabs

NULL  == 0
LINK  == -1
STALE == -2

NotAsked == [item_count |-> 0, nogrow |-> FALSE]

-------------------------------------------------------------------------------
(* Sizes.                                                                  *)

ROUND_16(x) == ((x + 15) \div 16) * 16

real_size(a) == ROUND_16(ItemSize[a])

\* How many items allocator_new expects of a slab ...
items_per_slab(a) == SlabBytes \div real_size(a)

\* ... and how many __helper_slab_init finds room for behind the header.
item_count(a) == (SlabBytes - HeaderBytes) \div real_size(a)

\* __helper_slab_init writes to the first item even if it does not fit.
Items == 1 .. Max({1} \cup {item_count(a) : a \in Allocators})

-------------------------------------------------------------------------------
(* Slabs.                                                                  *)

Unused == [free_items |-> NULL, free_item_count |-> 0, max_items |-> 0,
           next |-> [i \in Items |-> STALE]]

__helper_slab_init(a) ==
    [free_items      |-> 1,
     free_item_count |-> item_count(a),
     max_items       |-> item_count(a),
     next            |-> [i \in Items |-> IF i = 1 THEN LINK ELSE STALE]]

\* Mutant: the last item that fits is taken for one that does not.
FitsOffByOne(a, i) == HeaderBytes + i * real_size(a) < SlabBytes

\* Item i ends within the slab.
Fits(a, i) == HeaderBytes + i * real_size(a) <= SlabBytes

\* The item that follows i in the list of free items.
NextFree(a, s, i) ==
    IF s.next[i] # LINK THEN s.next[i]
    ELSE IF Fits(a, i + 1) THEN i + 1 ELSE NULL

\* allocator_alloc takes the first free item, and makes the list real up to the
\* item behind it.
Taken(a, s) ==
    LET i == s.free_items IN
    [free_items      |-> NextFree(a, s, i),
     free_item_count |-> s.free_item_count - 1,
     max_items       |-> s.max_items,
     next            |-> [j \in Items |->
                             IF j = i THEN NULL
                             ELSE IF j = i + 1 /\ s.next[i] = LINK /\ Fits(a, j) THEN LINK
                             ELSE s.next[j]]]

\* allocator_free puts the item in front.
Returned(s, i) ==
    [free_items      |-> i,
     free_item_count |-> s.free_item_count + 1,
     max_items       |-> s.max_items,
     next            |-> [s.next EXCEPT ![i] = s.free_items]]

-------------------------------------------------------------------------------
(* allocator_new.                                                          *)

\* __allocator_acquire_page takes the first available page.
__allocator_acquire_page == Tail(avail)

\* alloc->flags is never set: what malloc happened to return decides whether the
\* allocator may grow.
allocator_new(a) ==
    /\ pc[a] = "none"
    /\ items_per_slab(a) > 0
    /\ \E n \in ItemCounts, ng \in NoGrowFlags :
          /\ asked' = [asked EXCEPT ![a] = [item_count |-> n, nogrow |-> ng]]
          /\ want' = [want EXCEPT ![a] = (n + items_per_slab(a) - 1) \div items_per_slab(a)]
    /\ \E garbage \in BOOLEAN : nogrow' = [nogrow EXCEPT ![a] = garbage]
    /\ pc' = [pc EXCEPT ![a] = "new"]
    /\ UNCHANGED <<avail, slab, slabs, max_items, held>>

\* __allocator_acquire_page, __helper_slab_init, __helper_add_slab.
AddSlab(a) ==
    LET p == Head(avail) IN
    /\ avail' = __allocator_acquire_page
    /\ slabs' = [slabs EXCEPT ![a] = <<p>> \o @]
    /\ max_items' = [max_items EXCEPT ![a] = @ + item_count(a)]

NewSlab(a) ==
    /\ pc[a] = "new"
    /\ avail # <<>>
    /\ AddSlab(a)
    /\ slab' = [slab EXCEPT ![Head(avail)] = __helper_slab_init(a)]
    /\ want' = [want EXCEPT ![a] = @ - 1]
    /\ pc' = [pc EXCEPT ![a] = IF want[a] = 1 THEN "live" ELSE "new"]
    /\ UNCHANGED <<nogrow, asked, held>>

\* The caller has no pointer to the struct allocator any more.
Forgotten(a) ==
    /\ pc' = [pc EXCEPT ![a] = "none"]
    /\ max_items' = [max_items EXCEPT ![a] = 0]
    /\ nogrow' = [nogrow EXCEPT ![a] = FALSE]
    /\ asked' = [asked EXCEPT ![a] = NotAsked]
    /\ want' = [want EXCEPT ![a] = 0]

\* No page: the caller gets A_E_NOMEM, and what was built so far is lost.
NewFails(a) ==
    /\ pc[a] = "new"
    /\ avail = <<>>
    /\ slabs' = [slabs EXCEPT ![a] = <<>>]
    /\ Forgotten(a)
    /\ UNCHANGED <<avail, slab, held>>

-------------------------------------------------------------------------------
(* allocator_alloc.                                                        *)

\* Mutant: a slab without free items stays at the front.
KeepInFront(list, s) == list

\* A slab without free items goes to the back of the list.
FullToBack(list, s) ==
    IF s.free_item_count = 0 THEN Append(Tail(list), Head(list)) ELSE list

NeedsPage(a) == slabs[a] = <<>> \/ slab[Head(slabs[a])].free_item_count = 0

\* The first slab has a free item.  Otherwise, and when the allocator cannot
\* grow, the answer is A_E_NOMEM and nothing changes.
AllocHit(a) ==
    /\ pc[a] = "live"
    /\ ~NeedsPage(a)
    /\ LET p == Head(slabs[a]) IN
       /\ slab[p].free_items # NULL
       /\ slab' = [slab EXCEPT ![p] = Taken(a, @)]
       /\ slabs' = [slabs EXCEPT ![a] = FullToBack(@, Taken(a, slab[p]))]
       /\ held' = [held EXCEPT ![p] = @ \cup {slab[p].free_items}]
    /\ UNCHANGED <<avail, max_items, ownVars>>

\* __helper_allocator_grow, and then the same from the new slab; when not even
\* one item fits in it the answer is A_E_NOMEM all the same.
AllocGrow(a) ==
    LET p   == Head(avail)
        new == __helper_slab_init(a)
        got == new.free_item_count > 0
    IN  /\ pc[a] = "live"
        /\ NeedsPage(a)
        /\ ~nogrow[a]
        /\ avail # <<>>
        /\ max_items[a] <= MaxTotal
        /\ avail' = __allocator_acquire_page
        /\ max_items' = [max_items EXCEPT ![a] = @ + item_count(a)]
        /\ slab' = [slab EXCEPT ![p] = IF got THEN Taken(a, new) ELSE new]
        /\ slabs' = [slabs EXCEPT ![a] =
                        IF got THEN FullToBack(<<p>> \o @, Taken(a, new)) ELSE <<p>> \o @]
        /\ held' = [held EXCEPT ![p] = IF got THEN @ \cup {new.free_items} ELSE @]
        /\ UNCHANGED ownVars

-------------------------------------------------------------------------------
(* allocator_free.                                                         *)

list_del(list, p) == RemoveAt(list, CHOOSE i \in DOMAIN list : list[i] = p)

\* A page that is given back is taken last.
__allocator_release_page(p) == Append(avail, p)

\* max_items is not touched.
__helper_allocator_shrink(a, p) ==
    /\ slabs' = [slabs EXCEPT ![a] = list_del(@, p)]
    /\ slab' = [slab EXCEPT ![p] = Unused]
    /\ avail' = __allocator_release_page(p)

\* alloc->slabs.next != alloc->slabs.prev
HasOtherSlabs(a) == Len(slabs[a]) # 1

\* A slab that becomes entirely free goes back to the pool unless it is the
\* allocator's only one; one that stays in use moves to the front.
allocator_free(a, p, i) ==
    LET s     == Returned(slab[p], i)
        empty == s.free_item_count = s.max_items
    IN  /\ pc[a] = "live"
        /\ p \in Range(slabs[a])
        /\ i \in held[p]
        /\ held' = [held EXCEPT ![p] = @ \ {i}]
        /\ IF empty /\ HasOtherSlabs(a)
           THEN __helper_allocator_shrink(a, p)
           ELSE /\ slabs' = [slabs EXCEPT ![a] = IF empty THEN @ ELSE <<p>> \o list_del(@, p)]
                /\ slab' = [slab EXCEPT ![p] = s]
                /\ UNCHANGED avail
        /\ UNCHANGED <<max_items, ownVars>>

-------------------------------------------------------------------------------
(* allocator_delete.                                                       *)

BeginDelete(a) ==
    /\ pc[a] = "live"
    /\ pc' = [pc EXCEPT ![a] = "delete"]
    /\ UNCHANGED <<avail, slab, slabs, max_items, nogrow, asked, want, held>>

\* Mutant: slabs are released without looking whether they are in use.
SlabNeverBusy(s) == FALSE

SlabBusy(s) == s.max_items # s.free_item_count

\* Slabs are released from the front ...
DeleteSlab(a) ==
    /\ pc[a] = "delete"
    /\ slabs[a] # <<>>
    /\ LET p == Head(slabs[a]) IN
       /\ ~SlabBusy(slab[p])
       /\ slabs' = [slabs EXCEPT ![a] = Tail(@)]
       /\ max_items' = [max_items EXCEPT ![a] = @ - slab[p].max_items]
       /\ slab' = [slab EXCEPT ![p] = Unused]
       /\ avail' = __allocator_release_page(p)
    /\ UNCHANGED <<ownVars, held>>

\* ... until one has items in use: A_E_BUSY, and the allocator lives on with
\* the slabs it has left ...
DeleteBusy(a) ==
    /\ pc[a] = "delete"
    /\ slabs[a] # <<>>
    /\ SlabBusy(slab[Head(slabs[a])])
    /\ pc' = [pc EXCEPT ![a] = "live"]
    /\ UNCHANGED <<avail, slab, slabs, max_items, nogrow, asked, want, held>>

\* ... or none is left.
DeleteDone(a) ==
    /\ pc[a] = "delete"
    /\ slabs[a] = <<>>
    /\ Forgotten(a)
    /\ UNCHANGED <<avail, slab, slabs, held>>

-------------------------------------------------------------------------------
\* allocator_subsystem_init and __allocator_subsystem_init_page_class.
Init ==
    /\ avail = [p \in Pages |-> p]
    /\ slab = [p \in Pages |-> Unused]
    /\ pc = [a \in Allocators |-> "none"]
    /\ slabs = [a \in Allocators |-> <<>>]
    /\ max_items = [a \in Allocators |-> 0]
    /\ nogrow = [a \in Allocators |-> FALSE]
    /\ asked = [a \in Allocators |-> NotAsked]
    /\ want = [a \in Allocators |-> 0]
    /\ held = [p \in Pages |-> {}]

Next ==
    \E a \in Allocators :
        \/ allocator_new(a)
        \/ NewSlab(a)
        \/ NewFails(a)
        \/ AllocHit(a)
        \/ AllocGrow(a)
        \/ \E p \in Pages, i \in Items : allocator_free(a, p, i)
        \/ BeginDelete(a)
        \/ DeleteSlab(a)
        \/ DeleteBusy(a)
        \/ DeleteDone(a)

Spec == Init /\ [][Next]_vars

-------------------------------------------------------------------------------
(* Properties.                                                             *)

Slab == [free_items      : Items \cup {NULL},
         free_item_count : 0 .. Max(Items),
         max_items       : 0 .. Max(Items),
         next            : [Items -> Items \cup {NULL, LINK, STALE}]]

TypeOK ==
    /\ avail \in Seq(Pages)
    /\ slab \in [Pages -> Slab]
    /\ pc \in [Allocators -> {"none", "new", "live", "delete"}]
    /\ slabs \in [Allocators -> Seq(Pages)]
    /\ max_items \in [Allocators -> Int]
    /\ nogrow \in [Allocators -> BOOLEAN]
    /\ asked \in [Allocators -> [item_count : Nat, nogrow : BOOLEAN]]
    /\ want \in [Allocators -> Nat]
    /\ held \in [Pages -> SUBSET Items]

\* Slab s after n items were taken from it and none was returned.
After(a, s) ==
    LET after[n \in 0 .. Max(Items)] ==
            IF n = 0 THEN s
            ELSE IF after[n - 1].free_items \in Items THEN Taken(a, after[n - 1])
            ELSE after[n - 1]
    IN  after

\* The lazily built list of free items of every slab is sound: taking as many
\* items as free_item_count says yields each item that is not in the hands of
\* the application, and each once, and then the list has ended.  So no item is
\* handed out twice, none is lost, and allocator_alloc never follows a pointer
\* in memory that was not initialised.
FreeListSound ==
    \A a \in Allocators : \A p \in Range(slabs[a]) :
        LET n     == slab[p].free_item_count
            after == After(a, slab[p])
            free  == 1 .. item_count(a) \ held[p]
        IN  n > 0 => /\ {after[k].free_items : k \in 0 .. n - 1} = free
                     /\ Cardinality(free) = n
                     /\ after[n].free_items = NULL

\* A page is in one place only, in the pool or with one allocator, although the
\* pool is shared and allocator_new and allocator_delete of one thread interleave
\* with those of another; and whoever holds an item holds it from a page that a
\* living allocator owns: no page goes back to the pool, by a free, by a failed or
\* by a half-done delete, while one of its items is in use.
PagesOwned ==
    /\ IsInjective(avail)
    /\ \A a \in Allocators :
          /\ IsInjective(slabs[a])
          /\ Range(slabs[a]) \cap Range(avail) = {}
          /\ \A b \in Allocators \ {a} : Range(slabs[a]) \cap Range(slabs[b]) = {}
    /\ \A p \in Pages :
          held[p] # {} =>
              \E a \in Allocators : pc[a] \in {"live", "delete"} /\ p \in Range(slabs[a])

\* allocator_alloc looks at the first slab only.  There is one, after allocator_free
\* and after an allocator_delete that ended in A_E_BUSY as well, and it has a free
\* item whenever any slab has: those with free items come before those without.
FirstSlabServes ==
    \A a \in Allocators :
        /\ pc[a] = "live" => slabs[a] # <<>>
        /\ \A i, j \in DOMAIN slabs[a] :
              i < j /\ slab[slabs[a][j]].free_item_count > 0
                  => slab[slabs[a][i]].free_item_count > 0

\* alloc_priv.h:53: alloc->max_items is the "Maximum count of items".
MaxItemsIsCapacity ==
    \A a \in Allocators :
        pc[a] = "live" => max_items[a] = Len(slabs[a]) * item_count(a)

\* allocator.c:399: allocator_new says it "Should free memory!" when it fails: a
\* page is in the pool or belongs to an allocator that somebody can reach.
PagesConserved ==
    \A p \in Pages :
        \/ p \in Range(avail)
        \/ \E a \in Allocators : p \in Range(slabs[a])

\* alloc.h:58: an allocator tagged as non-growable does not grow.
NoGrowHolds ==
    [][\A a \in Allocators :
          pc[a] = "live" /\ asked[a].nogrow => Len(slabs'[a]) <= Len(slabs[a])]_slabs

\* alloc.h:47: a new allocator is "setup to contain at least item_count items".
CapacityAsAsked ==
    \A a \in Allocators :
        pc[a] = "live" => max_items[a] >= asked[a].item_count
===============================================================================
