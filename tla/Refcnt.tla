--------------------------------- MODULE Refcnt ---------------------------------
(***************************************************************************)
(* tsl/refcnt.h: a reference counted object and the owners of references   *)
(* to it.  An owner holds at most one reference; code that holds several   *)
(* is several owners.  Each access of refcnt_get and refcnt_release to the *)
(* count is a step.                                                        *)
(*                                                                         *)
(* refcnt_get adds with a compare-and-swap, refcnt_release subtracts with  *)
(* a plain load and a plain store, and nothing keeps calls apart: any gets *)
(* and releases of different owners interleave.  Three ways of doing so go *)
(* wrong; races remembers which of them have happened, so that the         *)
(* properties can say that there is no fourth:                             *)
(*   "lost"      a release stored although the count had changed since it  *)
(*               was loaded;                                               *)
(*   "revived"   the compare-and-swap of a get made a 0 into a 1;          *)
(*   "together"  the count reached 0 while another release was between its *)
(*               store and its test.                                       *)
(***************************************************************************)
EXTENDS Naturals, FiniteSets

CONSTANTS
    Owners,      \* whoever may hold a reference
    Modulus      \* 2^32: the count is a uint32_t

ASSUME OwnersAssumption == IsFiniteSet(Owners)
ASSUME ModulusAssumption == Modulus \in Nat /\ Modulus > 1

VARIABLES
    count,       \* ref->refcnt
    holders,     \* the owners that hold a reference
    pc,          \* where each owner is in refcnt_get or refcnt_release
    initial,     \* each owner's local copy of the count, 0 outside of calls
    destroyed,   \* number of times the destructor was called; 2 stands for more
    races        \* history: which of the three races have happened

vars == <<count, holders, pc, initial, destroyed, races>>

Getting == {"load", "cas"}
Releasing == {"check", "dec", "store", "test"}

-------------------------------------------------------------------------------
(* refcnt_get.                                                             *)

\* The first look: a dead object is refused at once.
GetCheck(o) ==
    /\ pc[o] = "idle"
    /\ o \notin holders
    /\ pc' = [pc EXCEPT ![o] = IF count = 0 THEN "idle" ELSE "load"]
    /\ UNCHANGED <<count, holders, initial, destroyed, races>>

GetLoad(o) ==
    /\ pc[o] = "load"
    /\ initial' = [initial EXCEPT ![o] = count]
    /\ pc' = [pc EXCEPT ![o] = "cas"]
    /\ UNCHANGED <<count, holders, destroyed, races>>

\* Mutant: the loop tries again with the value of its first load.
GetCasStale(o) ==
    /\ pc[o] = "cas"
    /\ IF count = initial[o]
         THEN /\ count' = (initial[o] + 1) % Modulus
              /\ holders' = holders \cup {o}
              /\ pc' = [pc EXCEPT ![o] = "idle"]
         ELSE UNCHANGED <<count, holders, pc>>
    /\ UNCHANGED <<initial, destroyed, races>>

\* Mutant: the count is stored without comparing.
GetStore(o) ==
    /\ pc[o] = "cas"
    /\ count' = (initial[o] + 1) % Modulus
    /\ holders' = holders \cup {o}
    /\ pc' = [pc EXCEPT ![o] = "idle"]
    /\ UNCHANGED <<initial, destroyed, races>>

\* The compare-and-swap returns the value it found.  When that is 0 the last
\* reference was dropped in the meantime and the get fails, whether or not the
\* swap took place: it does when the 0 is also what was loaded.
GetCas(o) ==
    LET swaps == count = initial[o]
        over  == swaps \/ count = 0
    IN  /\ pc[o] = "cas"
        /\ count' = IF swaps THEN (initial[o] + 1) % Modulus ELSE count
        /\ holders' = IF swaps /\ count # 0 THEN holders \cup {o} ELSE holders
        /\ pc' = [pc EXCEPT ![o] = IF over THEN "idle" ELSE "load"]
        /\ initial' = [initial EXCEPT ![o] = IF over THEN 0 ELSE @]
        /\ races' = IF swaps /\ count = 0 THEN races \cup {"revived"} ELSE races
        /\ UNCHANGED destroyed

-------------------------------------------------------------------------------
(* refcnt_release.                                                         *)

\* The owner gives its reference up by calling.
ReleaseCall(o) ==
    /\ pc[o] = "idle"
    /\ o \in holders
    /\ holders' = holders \ {o}
    /\ pc' = [pc EXCEPT ![o] = "check"]
    /\ UNCHANGED <<count, initial, destroyed, races>>

ReleaseCheck(o) ==
    /\ pc[o] = "check"
    /\ pc' = [pc EXCEPT ![o] = IF count = 0 THEN "idle" ELSE "dec"]
    /\ UNCHANGED <<count, holders, initial, destroyed, races>>

ReleaseLoad(o) ==
    /\ pc[o] = "dec"
    /\ initial' = [initial EXCEPT ![o] = count]
    /\ pc' = [pc EXCEPT ![o] = "store"]
    /\ UNCHANGED <<count, holders, destroyed, races>>

Testing == {o \in Owners : pc[o] = "test"}

ReleaseStore(o) ==
    LET targ == IF initial[o] = 0 THEN Modulus - 1 ELSE initial[o] - 1
    IN  /\ pc[o] = "store"
        /\ count' = targ
        /\ initial' = [initial EXCEPT ![o] = targ]
        /\ pc' = [pc EXCEPT ![o] = "test"]
        /\ races' = races \cup (IF initial[o] # count THEN {"lost"} ELSE {})
                          \cup (IF targ = 0 /\ Testing # {} THEN {"together"} ELSE {})
        /\ UNCHANGED <<holders, destroyed>>

\* Mutant: the destructor runs for the last but one reference.
ReleaseTestEarly(o) ==
    /\ pc[o] = "test"
    /\ destroyed' = IF count <= 1 /\ destroyed < 2 THEN destroyed + 1 ELSE destroyed
    /\ pc' = [pc EXCEPT ![o] = "idle"]
    /\ initial' = [initial EXCEPT ![o] = 0]
    /\ UNCHANGED <<count, holders, races>>

\* The count is compared with 0 once more, which calls the destructor.  The count
\* is a plain variable: the compiler reads it again, or uses what it has stored.
ReleaseTest(o) ==
    /\ pc[o] = "test"
    /\ \E seen \in {count, initial[o]} :
          destroyed' = IF seen = 0 /\ destroyed < 2 THEN destroyed + 1 ELSE destroyed
    /\ pc' = [pc EXCEPT ![o] = "idle"]
    /\ initial' = [initial EXCEPT ![o] = 0]
    /\ UNCHANGED <<count, holders, races>>

-------------------------------------------------------------------------------
refcnt_get(o) == GetCheck(o) \/ GetLoad(o) \/ GetCas(o)

refcnt_release(o) ==
    ReleaseCall(o) \/ ReleaseCheck(o) \/ ReleaseLoad(o) \/ ReleaseStore(o) \/ ReleaseTest(o)

\* refcnt_check's answer.
refcnt_check == count # 0

\* refcnt_init leaves one reference, with whoever made the object.
Init ==
    /\ count = 1
    /\ \E o \in Owners : holders = {o}
    /\ pc = [o \in Owners |-> "idle"]
    /\ initial = [o \in Owners |-> 0]
    /\ destroyed = 0
    /\ races = {}

Next == \E o \in Owners : refcnt_get(o) \/ refcnt_release(o)

Spec == Init /\ [][Next]_vars

\* A thread inside a call is scheduled until the call returns; nobody has to
\* make one.
InCall(o) == pc[o] # "idle" /\ (refcnt_get(o) \/ refcnt_release(o))

FairSpec == Spec /\ \A o \in Owners : WF_vars(InCall(o))

-------------------------------------------------------------------------------
(* Properties.                                                             *)

TypeOK ==
    /\ count \in 0 .. Modulus - 1
    /\ holders \subseteq Owners
    /\ pc \in [Owners -> {"idle"} \cup Getting \cup Releasing]
    /\ initial \in [Owners -> 0 .. Modulus - 1]
    /\ destroyed \in 0 .. 2
    /\ races \subseteq {"lost", "revived", "together"}

\* The references the count still stands for: the ones held, and the one of a
\* release that has not stored yet.
Counted == holders \cup {o \in Owners : pc[o] \in {"check", "dec", "store"}}

\* However gets and releases interleave, the only ways to lose or to invent a
\* reference are a release that stores over a count that has changed ("lost") and
\* a get that swaps a 0 ("revived").  Before one of them has happened the count is
\* the number of references, and refcnt_check tells a held object alive.
CountIsExact ==
    races \subseteq {"together"} =>
        /\ count = Cardinality(Counted)
        /\ holders # {} => refcnt_check

\* As long as none of the three races has happened, the destructor runs once, when
\* the last reference is gone and no release is still on its way, and it does run:
\* also when the last reference is dropped in the middle of somebody's refcnt_get,
\* which then fails.
DestroyedOnce ==
    LET gone == Counted = {} /\ \A o \in Owners : pc[o] \notin Releasing
    IN  races = {} => /\ destroyed <= 1
                      /\ destroyed = 1 <=> gone

\* Why the destructor runs once.  The object was not destroyed while somebody has
\* a reference; when the count is 0 one release has still to test it, or has done
\* so; and a release sees the same whether it reads the count again or not.
EndInv ==
    races = {} =>
        /\ count # 0 => destroyed = 0
        /\ count = 0 => \/ destroyed = 1 /\ Testing = {}
                        \/ destroyed = 0 /\ \E o \in Owners : Testing = {o}
        /\ \A o \in Testing : initial[o] = 0 <=> count = 0

\* Nobody calls refcnt_get while it has a reference.
CallsInv == \A o \in holders : pc[o] = "idle"

Inv == TypeOK /\ CountIsExact /\ EndInv /\ CallsInv

\* There are fewer owners than the count can tell apart.
FewOwners == Cardinality(Owners) < Modulus

\* The compare-and-swap loop of refcnt_get is lock-free: whatever the others do,
\* a get returns unless the count is changed under it again and again, that is,
\* unless other calls keep succeeding.
GetReturns ==
    \A o \in Owners : []<>(pc[o] \notin Getting) \/ []<><<count' # count>>_vars

\* refcnt.h:87: a reference taken with refcnt_get is "safe": the object is not
\* destroyed while somebody holds one.
ReferenceIsSafe == holders # {} => destroyed = 0

\* refcnt.h:129: when the count reaches 0 "the destructor function [...] will be
\* called".  So once every reference was given up and all calls have returned, it
\* has been, at least when no decrement was lost.
LastReleaseDestroys ==
    ("lost" \notin races /\ holders = {} /\ \A o \in Owners : pc[o] = "idle")
        => destroyed > 0
===============================================================================
