----------------------------- MODULE ReferenceProofs -----------------------------
(***************************************************************************)
(* The two components that count references to what they manage.           *)
(*                                                                         *)
(* Refcnt, for every number of owners and however their gets and releases *)
(* interleave, as long as there are fewer owners than the count can tell   *)
(* apart: until one of three races happens the count is exact and the      *)
(* destructor runs once.                                                   *)
(*                                                                         *)
(* Logalloc, for every size of the log and of its cells, every size asked  *)
(* for and every payload, as long as one thread takes references: objects  *)
(* do not overlap, the headers tell the truth, nothing leaks.              *)
(***************************************************************************)
EXTENDS Refcnt, Logalloc, FiniteSetTheorems, WellFoundedInduction, TLAPS

-------------------------------------------------------------------------------
(* Refcnt.                                                                 *)

\* Sets of owners are finite and no larger than all of them.
LEMMA OwnerSets ==
    ASSUME NEW S \in SUBSET Owners
    PROVE  /\ IsFiniteSet(S)
           /\ Cardinality(S) \in Nat
           /\ Cardinality(S) <= Cardinality(Owners)
           /\ Cardinality(S) = 0 <=> S = {}
<1>1. IsFiniteSet(S) /\ Cardinality(S) <= Cardinality(Owners)
  BY OwnersAssumption, FS_Subset
<1> QED BY <1>1, FS_CardinalityType, FS_EmptySet

\* One more reference: there is room for it in the count.
LEMMA OneMore ==
    ASSUME FewOwners, NEW S \in SUBSET Owners, NEW o \in Owners \ S
    PROVE  /\ Cardinality(S \cup {o}) = Cardinality(S) + 1
           /\ (Cardinality(S) + 1) % Modulus = Cardinality(S) + 1
           /\ Cardinality(S) + 1 \in 0 .. Modulus - 1
<1>1. IsFiniteSet(S) /\ Cardinality(S) \in Nat
  BY OwnerSets
<1>2. Cardinality(S \cup {o}) = Cardinality(S) + 1
  BY <1>1, FS_AddElement
<1>3. Cardinality(S \cup {o}) <= Cardinality(Owners) /\ Cardinality(Owners) \in Nat
  BY OwnerSets
<1>4. Cardinality(S) + 1 \in 0 .. Modulus - 1
  BY <1>1, <1>2, <1>3, ModulusAssumption DEF FewOwners
<1>5. (Cardinality(S) + 1) % Modulus = Cardinality(S) + 1
  BY <1>4, ModulusAssumption, SMT
<1> QED BY <1>2, <1>4, <1>5

\* One reference less.
LEMMA OneLess ==
    ASSUME NEW S \in SUBSET Owners, NEW o \in S
    PROVE  /\ Cardinality(S) # 0
           /\ Cardinality(S \ {o}) = Cardinality(S) - 1
<1>1. IsFiniteSet(S)
  BY OwnerSets
<1> QED BY <1>1, OwnerSets, FS_RemoveElement

\* The object begins with one reference.
LEMMA InitInv == Init => Inv
<1> SUFFICES ASSUME Init PROVE Inv
  OBVIOUS
<1>1. PICK o \in Owners : holders = {o}
  BY DEF Init
<1>2. Counted = {o}
  BY <1>1 DEF Init, Counted
<1>3. Cardinality({o}) = 1
  BY FS_Singleton
<1>4. TypeOK
  BY <1>1, ModulusAssumption DEF Init, TypeOK
<1>5. CountIsExact
  BY <1>2, <1>3 DEF Init, CountIsExact, refcnt_check
<1>6. EndInv
  BY DEF Init, EndInv, Testing
<1>7. CallsInv
  BY DEF Init, CallsInv
<1> QED BY <1>4, <1>5, <1>6, <1>7 DEF Inv

\* A step that changes neither the count nor who is counted keeps the count exact
\* if a holder was counted before.
LEMMA SameCount ==
    ASSUME Inv, count' = count, races' = races, Counted' = Counted,
           holders' \subseteq holders
    PROVE  CountIsExact'
  BY DEF Inv, CountIsExact, refcnt_check

\* A step that leaves the count, the destructor and the tests alone.
LEMMA SameEnd ==
    ASSUME Inv, count' = count, races' = races, destroyed' = destroyed,
           Testing' = Testing, \A o \in Testing : initial'[o] = initial[o]
    PROVE  EndInv'
  BY DEF Inv, EndInv

\* The steps of refcnt_get, whoever releases meanwhile.
LEMMA GetKeepsInv ==
    ASSUME Inv, FewOwners, NEW o \in Owners, refcnt_get(o)
    PROVE  Inv'
<1> USE DEF Inv, Getting, Releasing
<1>0. Counted \in SUBSET Owners
  BY DEF TypeOK, Counted
<1>1. CASE GetCheck(o)
  <2>1. Counted' = Counted /\ Testing' = Testing
    BY <1>1 DEF GetCheck, Counted, Testing, TypeOK
  <2>2. TypeOK'
    BY <1>1 DEF GetCheck, TypeOK
  <2>3. CountIsExact'
    BY <1>1, <2>1, SameCount DEF GetCheck
  <2>4. EndInv'
    BY <1>1, <2>1, SameEnd DEF GetCheck
  <2>5. CallsInv'
    BY <1>1 DEF GetCheck, CallsInv, TypeOK
  <2> QED BY <2>2, <2>3, <2>4, <2>5
<1>2. CASE GetLoad(o)
  <2>1. Counted' = Counted /\ Testing' = Testing /\ o \notin Testing
    BY <1>2 DEF GetLoad, Counted, Testing, TypeOK
  <2>2. TypeOK'
    BY <1>2 DEF GetLoad, TypeOK
  <2>3. CountIsExact'
    BY <1>2, <2>1, SameCount DEF GetLoad
  <2>4. EndInv'
    <3>1. \A p \in Testing : initial'[p] = initial[p]
      BY <1>2, <2>1 DEF GetLoad, Testing, TypeOK
    <3> QED BY <1>2, <2>1, <3>1, SameEnd DEF GetLoad
  <2>5. CallsInv'
    BY <1>2 DEF GetLoad, CallsInv, TypeOK
  <2> QED BY <2>2, <2>3, <2>4, <2>5
<1>3. ASSUME GetCas(o)
      PROVE  /\ o \notin Counted /\ o \notin holders
             /\ Testing' = Testing
             /\ \A p \in Testing : initial'[p] = initial[p]
  BY <1>3 DEF GetCas, CallsInv, Counted, Testing, TypeOK
<1>4. CASE GetCas(o) /\ count # initial[o]
  <2>1. Counted' = Counted
    BY <1>4 DEF GetCas, Counted, TypeOK
  <2>2. TypeOK'
    BY <1>4 DEF GetCas, TypeOK
  <2>3. CountIsExact'
    BY <1>4, <2>1, SameCount DEF GetCas
  <2>4. EndInv'
    BY <1>3, <1>4, SameEnd DEF GetCas
  <2>5. CallsInv'
    BY <1>4 DEF GetCas, CallsInv, TypeOK
  <2> QED BY <2>2, <2>3, <2>4, <2>5
<1>5. CASE GetCas(o) /\ count = initial[o] /\ count = 0
  \* The swap revives the object: the invariant says nothing about it any more.
  <2>1. races' = races \cup {"revived"}
    BY <1>5 DEF GetCas
  <2>2. 1 % Modulus \in 0 .. Modulus - 1
    BY ModulusAssumption
  <2>3. TypeOK'
    BY <1>5, <2>1, <2>2 DEF GetCas, TypeOK
  <2>4. CountIsExact' /\ EndInv'
    BY <2>1 DEF CountIsExact, EndInv
  <2>5. CallsInv'
    BY <1>5 DEF GetCas, CallsInv, TypeOK
  <2> QED BY <2>3, <2>4, <2>5
<1>6. CASE GetCas(o) /\ count = initial[o] /\ count # 0
  <2>1. Counted' = Counted \cup {o} /\ races' = races
    BY <1>3, <1>6 DEF GetCas, Counted, TypeOK
  <2>2. count' = (count + 1) % Modulus /\ count' \in 0 .. Modulus - 1
    BY <1>6, ModulusAssumption DEF GetCas, TypeOK
  <2>3. /\ Cardinality(Counted') = Cardinality(Counted) + 1
        /\ (Cardinality(Counted) + 1) % Modulus = Cardinality(Counted) + 1
        /\ Cardinality(Counted) + 1 \in 0 .. Modulus - 1
    BY <1>0, <1>3, <1>6, <2>1, OneMore
  <2>4. TypeOK'
    BY <1>6, <2>1, <2>2, ModulusAssumption DEF GetCas, TypeOK
  <2>5. races \subseteq {"together"} => count' = Cardinality(Counted') /\ count' # 0
    BY <1>0, <2>2, <2>3, OwnerSets DEF CountIsExact
  <2>6. CountIsExact'
    BY <2>1, <2>5 DEF CountIsExact, refcnt_check
  <2>7. EndInv'
    BY <1>3, <1>6, <2>1, <2>5 DEF GetCas, EndInv
  <2>8. CallsInv'
    BY <1>6 DEF GetCas, CallsInv, TypeOK
  <2> QED BY <2>4, <2>6, <2>7, <2>8
<1> QED BY <1>1, <1>2, <1>4, <1>5, <1>6 DEF refcnt_get

\* The steps of refcnt_release, whoever else gets or releases meanwhile.
LEMMA ReleaseKeepsInv ==
    ASSUME Inv, NEW o \in Owners, refcnt_release(o)
    PROVE  Inv'
<1> USE DEF Inv, Getting, Releasing
<1>0. Counted \in SUBSET Owners
  BY DEF TypeOK, Counted
<1>1. CASE ReleaseCall(o)
  <2>1. Counted' = Counted /\ Testing' = Testing
    BY <1>1 DEF ReleaseCall, Counted, Testing, TypeOK
  <2>2. TypeOK'
    BY <1>1 DEF ReleaseCall, TypeOK
  <2>3. CountIsExact'
    BY <1>1, <2>1, SameCount DEF ReleaseCall
  <2>4. EndInv'
    BY <1>1, <2>1, SameEnd DEF ReleaseCall
  <2>5. CallsInv'
    BY <1>1 DEF ReleaseCall, CallsInv, TypeOK
  <2> QED BY <2>2, <2>3, <2>4, <2>5
<1>2. CASE ReleaseCheck(o)
  <2>1. Testing' = Testing
    BY <1>2 DEF ReleaseCheck, Testing, TypeOK
  <2>2. TypeOK'
    BY <1>2 DEF ReleaseCheck, TypeOK
  <2>3. CountIsExact'
    \* The one who asks is counted, so the count is not 0.
    <3> SUFFICES ASSUME races \subseteq {"together"} PROVE CountIsExact'
      BY <1>2 DEF ReleaseCheck, CountIsExact
    <3>1. count # 0
      BY <1>0, <1>2, OneLess DEF ReleaseCheck, CountIsExact, Counted
    <3>2. Counted' = Counted
      BY <1>2, <3>1 DEF ReleaseCheck, Counted, TypeOK
    <3> QED BY <1>2, <3>2, SameCount DEF ReleaseCheck
  <2>4. EndInv'
    BY <1>2, <2>1, SameEnd DEF ReleaseCheck
  <2>5. CallsInv'
    BY <1>2 DEF ReleaseCheck, CallsInv, TypeOK
  <2> QED BY <2>2, <2>3, <2>4, <2>5
<1>3. CASE ReleaseLoad(o)
  <2>1. Counted' = Counted /\ Testing' = Testing /\ o \notin Testing
    BY <1>3 DEF ReleaseLoad, Counted, Testing, TypeOK
  <2>2. TypeOK'
    BY <1>3 DEF ReleaseLoad, TypeOK
  <2>3. CountIsExact'
    BY <1>3, <2>1, SameCount DEF ReleaseLoad
  <2>4. EndInv'
    <3>1. \A p \in Testing : initial'[p] = initial[p]
      BY <1>3, <2>1 DEF ReleaseLoad, Testing, TypeOK
    <3> QED BY <1>3, <2>1, <3>1, SameEnd DEF ReleaseLoad
  <2>5. CallsInv'
    BY <1>3 DEF ReleaseLoad, CallsInv, TypeOK
  <2> QED BY <2>2, <2>3, <2>4, <2>5
<1>4. CASE ReleaseStore(o)
  <2>1. o \in Counted /\ o \notin holders /\ o \notin Testing
    BY <1>4 DEF ReleaseStore, Counted, CallsInv, Testing
  <2>2. Counted' = Counted \ {o} /\ Testing' = Testing \cup {o}
    BY <1>4, <2>1 DEF ReleaseStore, Counted, Testing, TypeOK
  <2>3. Cardinality(Counted) # 0 /\ Cardinality(Counted') = Cardinality(Counted) - 1
    BY <1>0, <2>1, <2>2, OneLess
  <2>4. /\ count' \in 0 .. Modulus - 1 /\ initial' = [initial EXCEPT ![o] = count']
        /\ races \subseteq races' /\ races' \subseteq {"lost", "revived", "together"}
    BY <1>4, ModulusAssumption DEF ReleaseStore, TypeOK
  <2>5. TypeOK'
    BY <1>4, <2>4 DEF ReleaseStore, TypeOK
  \* A store that loses nothing takes one reference off.
  <2>6. ASSUME races' \subseteq {"together"}
        PROVE  /\ count = Cardinality(Counted) /\ count # 0
               /\ count' = count - 1 /\ count' = Cardinality(Counted')
    <3>1. initial[o] = count
      BY <1>4, <2>6 DEF ReleaseStore
    <3>2. count = Cardinality(Counted)
      BY <2>4, <2>6 DEF CountIsExact
    <3> QED BY <1>4, <2>3, <3>1, <3>2 DEF ReleaseStore
  <2>7. CountIsExact'
    <3>1. holders' \subseteq Counted' /\ Counted' \in SUBSET Owners
      BY <1>0, <1>4, <2>1, <2>2 DEF ReleaseStore, Counted
    <3> QED BY <2>6, <3>1, OwnerSets DEF CountIsExact, refcnt_check
  <2>8. EndInv'
    <3> SUFFICES ASSUME races' = {} PROVE EndInv'
      BY DEF EndInv
    <3>1. count # 0 /\ count' = count - 1 /\ races = {}
      BY <2>4, <2>6
    <3>2. destroyed = 0 /\ destroyed' = 0
      BY <1>4, <3>1 DEF ReleaseStore, EndInv
    <3>3. count' = 0 => Testing = {}
      BY <1>4 DEF ReleaseStore
    <3>4. \A p \in Testing : initial[p] # 0 /\ initial'[p] = initial[p]
      BY <2>1, <2>4, <3>1 DEF EndInv, TypeOK, Testing
    <3>5. initial'[o] = count'
      BY <2>4 DEF TypeOK
    <3>6. \A p \in Testing' : initial'[p] = 0 <=> count' = 0
      BY <2>2, <3>3, <3>4, <3>5
    <3> QED BY <2>2, <3>2, <3>3, <3>6 DEF EndInv
  <2>9. CallsInv'
    BY <1>4 DEF ReleaseStore, CallsInv, TypeOK
  <2> QED BY <2>5, <2>7, <2>8, <2>9
<1>5. CASE ReleaseTest(o)
  <2>1. Counted' = Counted /\ Testing' = Testing \ {o} /\ o \in Testing
    BY <1>5 DEF ReleaseTest, Counted, Testing, TypeOK
  <2>2. TypeOK'
    BY <1>5, ModulusAssumption DEF ReleaseTest, TypeOK
  <2>3. CountIsExact'
    BY <1>5, <2>1, SameCount DEF ReleaseTest
  <2>4. EndInv'
    <3> SUFFICES ASSUME races = {} PROVE EndInv'
      BY <1>5 DEF ReleaseTest, EndInv
    <3>1. initial[o] = 0 <=> count = 0
      BY <2>1 DEF EndInv
    <3>2. destroyed = 0 /\ (count = 0 => Testing = {o})
      BY <2>1 DEF EndInv
    <3>3. destroyed' = IF count = 0 THEN 1 ELSE 0
      BY <1>5, <3>1, <3>2 DEF ReleaseTest
    <3>4. \A p \in Testing' : initial'[p] = initial[p]
      BY <1>5, <2>1 DEF ReleaseTest, Testing, TypeOK
    <3> QED BY <1>5, <2>1, <3>2, <3>3, <3>4 DEF ReleaseTest, EndInv
  <2>5. CallsInv'
    BY <1>5 DEF ReleaseTest, CallsInv, TypeOK
  <2> QED BY <2>2, <2>3, <2>4, <2>5
<1> QED BY <1>1, <1>2, <1>3, <1>4, <1>5 DEF refcnt_release

\* Every step of every owner keeps the invariant.
LEMMA StepInv == Inv /\ FewOwners /\ [Next]_vars => Inv'
<1> SUFFICES ASSUME Inv, FewOwners, [Next]_vars PROVE Inv'
  OBVIOUS
<1>1. CASE Next
  BY <1>1, GetKeepsInv, ReleaseKeepsInv DEF Next
<1>2. CASE UNCHANGED vars
  BY <1>2 DEF vars, Inv, TypeOK, CountIsExact, EndInv, CallsInv, Counted, Testing, refcnt_check
<1> QED BY <1>1, <1>2

\* However the gets and releases of any number of owners interleave, refcnt_get and
\* refcnt_release keep the count equal to the number of references until a release
\* stores over a changed count or a get swaps a 0: nothing else loses a reference.
\* The count must not overflow.
THEOREM CountExact ==
    ASSUME FewOwners
    PROVE  Spec => []CountIsExact
<1>1. Init => Inv
  BY InitInv
<1>2. Inv /\ [Next]_vars => Inv'
  BY StepInv
<1>3. Inv => CountIsExact
  BY DEF Inv
<1> QED BY <1>1, <1>2, <1>3, PTL DEF Spec

\* refcnt_release calls the destructor once, when the last reference is gone, and
\* not before, in all those interleavings, a get that is under way when the last
\* reference is dropped included, until one of the three races happens.
THEOREM DestructorRunsOnce ==
    ASSUME FewOwners
    PROVE  Spec => []DestroyedOnce
<1>1. Init => Inv
  BY InitInv
<1>2. Inv /\ [Next]_vars => Inv'
  BY StepInv
<1>3. Inv => DestroyedOnce
  <2> SUFFICES ASSUME Inv, races = {}
               PROVE  /\ destroyed <= 1
                      /\ destroyed = 1 <=> (Counted = {} /\ \A o \in Owners : pc[o] \notin Releasing)
    BY DEF DestroyedOnce
  <2>1. Counted \in SUBSET Owners
    BY DEF Inv, TypeOK, Counted
  <2>2. count = 0 <=> Counted = {}
    BY <2>1, OwnerSets DEF Inv, CountIsExact
  <2>3. (\A o \in Owners : pc[o] \notin Releasing) => Testing = {}
    BY DEF Testing, Releasing
  <2>4. Counted = {} /\ Testing = {} => \A o \in Owners : pc[o] \notin Releasing
    BY DEF Counted, Testing, Releasing
  <2>5. /\ destroyed \in {0, 1}
        /\ destroyed = 1 <=> count = 0 /\ Testing = {}
    BY DEF Inv, EndInv
  <2> QED BY <2>2, <2>3, <2>4, <2>5
<1> QED BY <1>1, <1>2, <1>3, PTL DEF Spec

-------------------------------------------------------------------------------
(* Logalloc.  The invariant says that some set of cells R cuts the log     *)
(* into runs (Cut), at log_head and at every object, and that the runs in  *)
(* use are the objects (Agree).  Every operation that writes headers       *)
(* replaces the cuts of a stretch of free runs by others (Recut).          *)

-------------------------------------------------------------------------------
(* Walking over the headers.                                               *)

\* Induction over a set of natural numbers, from the least one it does not hold.
LEMMA NatSet ==
    ASSUME NEW T, 0 \in T, \A n \in Nat : n \in T => n + 1 \in T
    PROVE  Nat \subseteq T
<1> SUFFICES ASSUME Nat \ T # {} PROVE FALSE
  OBVIOUS
<1>1. IsWellFoundedOn(OpToRel(<, Nat), Nat)
  BY NatLessThanWellFounded
<1>2. PICK n \in Nat \ T : \A m \in Nat \ T : ~(<<m, n>> \in OpToRel(<, Nat))
  BY <1>1, WFMin
<1>3. \A m \in Nat \ T : ~(m < n)
  BY <1>2 DEF OpToRel
<1>4. n # 0 /\ n - 1 \in Nat
  OBVIOUS
<1>5. n - 1 \in T
  BY <1>3, <1>4
<1> QED
  BY <1>4, <1>5

\* A set of natural numbers that is not empty has a least member.
LEMMA LeastNat ==
    ASSUME NEW S, S \subseteq Nat, S # {}
    PROVE  \E x \in S : \A y \in S : x <= y
<1>1. IsWellFoundedOn(OpToRel(<, Nat), Nat)
  BY NatLessThanWellFounded
<1>2. PICK x \in S : \A y \in S : ~(<<y, x>> \in OpToRel(<, Nat))
  BY <1>1, WFMin
<1>3. \A y \in S : ~(y < x)
  BY <1>2 DEF OpToRel
<1> QED
  BY <1>3

\* The sizes are positive numbers.
LEMMA Numbers ==
    /\ NrCells \in Nat /\ NrCells # 0 /\ MaxByte \in Nat /\ MaxByte # 0
    /\ CellBytes \in Nat /\ CellBytes # 0
  BY SizeAssumption

\* One run further in a walk.
Further(h, c) == IF c \in Cells THEN c + RunLength(h, c) ELSE c

\* What the recursion of Positions computes.
LEMMA PositionSteps ==
    ASSUME NEW h, NEW start
    PROVE  LET at == Positions(h, start) IN
           /\ at[0] = start
           /\ \A i \in 0 .. NrCells - 1 : at[i + 1] = Further(h, at[i])
           /\ DOMAIN at = 0 .. NrCells
<1> DEFINE W(n, f) == [i \in 0 .. n |-> IF i = 0 THEN start
                                       ELSE Further(h, f[i - 1])]
           T == {n \in Nat : \E f : f = W(n, f)}
<1>1. 0 \in T
  <2> DEFINE f == [i \in 0 .. 0 |-> start]
  <2>1. f = W(0, f)
    OBVIOUS
  <2> QED
    BY <2>1
<1>2. ASSUME NEW n \in Nat, n \in T PROVE n + 1 \in T
  <2>1. PICK f : f = W(n, f)
    BY <1>2
  <2> DEFINE x == Further(h, f[n])
             g == [i \in 0 .. n + 1 |-> IF i <= n THEN f[i] ELSE x]
  <2>2. \A i \in 0 .. n : f[i] = IF i = 0 THEN start ELSE Further(h, f[i - 1])
    <3> DEFINE w == W(n, f)
    <3>1. \A i \in 0 .. n : w[i] = IF i = 0 THEN start ELSE Further(h, f[i - 1])
      OBVIOUS
    <3>2. f = w
      BY <2>1
    <3> HIDE DEF w
    <3> QED
      BY <3>1, <3>2, Zenon
  <2>3. \A i \in 0 .. n + 1 : g[i] = IF i = 0 THEN start ELSE Further(h, g[i - 1])
    <3> HIDE DEF x
    <3> TAKE i \in 0 .. n + 1
    <3>1. CASE i <= n
      <4>1. i \in 0 .. n /\ g[i] = f[i]
        BY <3>1
      <4>2. i # 0 => g[i - 1] = f[i - 1]
        BY <3>1
      <4> HIDE DEF g
      <4> QED
        BY <2>2, <4>1, <4>2
    <3>2. CASE i = n + 1
      <4>1. i # 0 /\ g[i] = x /\ g[i - 1] = f[n]
        BY <3>2
      <4> HIDE DEF g
      <4> QED
        BY <4>1 DEF x
    <3> QED
      BY <3>1, <3>2
  <2>4. g = W(n + 1, g)
    <3>1. g = [i \in 0 .. n + 1 |-> g[i]]
      OBVIOUS
    <3> HIDE DEF g
    <3> QED
      BY <2>3, <3>1
  <2>5. \E d : d = W(n + 1, d)
    <3> HIDE DEF g, W
    <3> QED
      BY <2>4
  <2> QED
    BY <2>5
<1>3. NrCells \in T
  <2> HIDE DEF T
  <2> QED
    BY <1>1, <1>2, NatSet, Numbers
<1> DEFINE at == Positions(h, start)
<1>4. at = CHOOSE f : f = W(NrCells, f)
  BY DEF Positions, Further
<1>5. at = W(NrCells, at)
  <2> HIDE DEF at
  <2> QED
    BY <1>3, <1>4
<1>6. \A i \in 0 .. NrCells : at[i] = IF i = 0 THEN start ELSE Further(h, at[i - 1])
  <2> DEFINE w == W(NrCells, at)
  <2> HIDE DEF at
  <2>1. \A i \in 0 .. NrCells : w[i] = IF i = 0 THEN start ELSE Further(h, at[i - 1])
    OBVIOUS
  <2>2. at = w
    BY <1>5
  <2> HIDE DEF w
  <2> QED
    BY <2>1, <2>2, Zenon
<1>7. DOMAIN at = 0 .. NrCells
  <2> DEFINE w == W(NrCells, at)
  <2> HIDE DEF at
  <2>1. DOMAIN w = 0 .. NrCells
    OBVIOUS
  <2>2. at = w
    BY <1>5
  <2> HIDE DEF w
  <2> QED
    BY <2>1, <2>2
<1>8. \A i \in 0 .. NrCells - 1 : i + 1 \in 0 .. NrCells /\ i + 1 # 0 /\ (i + 1) - 1 = i
  BY Numbers
<1> HIDE DEF at
<1> QED
  BY <1>6, <1>7, <1>8, Numbers DEF at

-------------------------------------------------------------------------------
(* Logs cut into runs.                                                     *)

Header == [nr : 0 .. MaxByte, ref : 0 .. MaxByte]

\* The headers at the cells of R cut the log into runs without gap or overlap.
Cut(h, R) ==
    /\ R \subseteq Cells /\ 0 \in R
    /\ \A c \in R : c + RunLength(h, c) \in R \cup {NrCells}
    /\ \A c, d \in R : c < d => c + RunLength(h, c) <= d

\* The cells are the numbers below NrCells.
LEMMA CellRange ==
    /\ \A c \in Cells : c \in Nat /\ c < NrCells
    /\ \A c \in Nat : c < NrCells => c \in Cells
    /\ NrCells \notin Cells
  BY Numbers DEF Cells

\* What a header holds, and that its run is not empty.
LEMMA HeaderTyped ==
    ASSUME NEW h \in [Cells -> Header], NEW c \in Cells
    PROVE  /\ h[c].nr \in Nat /\ h[c].nr <= MaxByte /\ h[c].ref \in Nat /\ h[c].ref <= MaxByte
           /\ RunLength(h, c) \in Nat /\ RunLength(h, c) > 0
           /\ h[c] = [nr |-> h[c].nr, ref |-> h[c].ref]
<1>1. h[c].nr \in Nat /\ h[c].nr <= MaxByte /\ h[c].ref \in Nat /\ h[c].ref <= MaxByte
  BY Numbers DEF Header
<1>2. RunLength(h, c) \in Nat /\ RunLength(h, c) > 0
  BY <1>1, Numbers, CellRange DEF RunLength
<1>3. h[c] = [nr |-> h[c].nr, ref |-> h[c].ref]
  BY DEF Header
<1> QED
  BY <1>1, <1>2, <1>3

\* A walk over the headers from the start of a run meets the runs from there on.
LEMMA WalkFinds ==
    ASSUME NEW h \in [Cells -> Header], NEW R, Cut(h, R), NEW at \in R
    PROVE  RunsFrom(h, at) = {c \in R : at <= c}
<1> DEFINE pos == Positions(h, at)
           T == {n \in Nat : n <= NrCells =>
                    /\ pos[n] \in R \cup {NrCells} /\ at <= pos[n]
                    /\ pos[n] = NrCells \/ at + n <= pos[n]
                    /\ \A c \in R : at <= c /\ c < pos[n] => \E k \in 0 .. n : pos[k] = c}
<1>1. /\ pos[0] = at
      /\ \A n \in 0 .. NrCells - 1 : pos[n + 1] = Further(h, pos[n])
      /\ DOMAIN pos = 0 .. NrCells
  BY PositionSteps
<1>2. /\ R \subseteq Cells /\ at \in Nat /\ \A c \in R : c \in Nat /\ c < NrCells
  BY CellRange DEF Cut
<1> HIDE DEF pos
<1>3. 0 \in T
  BY <1>1, <1>2, Numbers
<1>4. ASSUME NEW n \in Nat, n \in T PROVE n + 1 \in T
  <2> SUFFICES ASSUME n + 1 <= NrCells
               PROVE  /\ pos[n + 1] \in R \cup {NrCells} /\ at <= pos[n + 1]
                      /\ pos[n + 1] = NrCells \/ at + (n + 1) <= pos[n + 1]
                      /\ \A c \in R : at <= c /\ c < pos[n + 1] =>
                                          \E k \in 0 .. n + 1 : pos[k] = c
    OBVIOUS
  <2>1. n <= NrCells /\ n \in 0 .. NrCells - 1 /\ n \in 0 .. n + 1
    BY Numbers
  <2>2. /\ pos[n] \in R \cup {NrCells} /\ at <= pos[n]
        /\ pos[n] = NrCells \/ at + n <= pos[n]
        /\ \A c \in R : at <= c /\ c < pos[n] => \E k \in 0 .. n + 1 : pos[k] = c
    BY <1>4, <2>1
  <2>3. pos[n + 1] = Further(h, pos[n])
    BY <1>1, <2>1
  <2>4. CASE pos[n] = NrCells
    <3>1. pos[n + 1] = NrCells
      BY <2>3, <2>4, CellRange DEF Further
    <3> QED
      BY <2>2, <2>4, <3>1
  <2>5. CASE pos[n] \in R
    <3> DEFINE p == pos[n]
               len == RunLength(h, p)
    <3>1. p \in Cells /\ p \in Nat /\ len \in Nat /\ len > 0
      BY <1>2, <2>5, HeaderTyped
    <3>2. pos[n + 1] = p + len
      BY <2>3, <3>1 DEF Further
    <3>3. p + len \in R \cup {NrCells} /\ \A d \in R : p < d => p + len <= d
      BY <2>5 DEF Cut
    <3>4. at + n <= p
      BY <1>2, <2>2, <2>5, Numbers
    <3> HIDE DEF len
    <3>5. ASSUME NEW c \in R, at <= c, c < p + len PROVE \E k \in 0 .. n + 1 : pos[k] = c
      <4>1. CASE c < p
        BY <2>2, <3>5, <4>1
      <4>2. CASE c = p
        BY <2>1, <4>2
      <4>3. CASE p < c
        BY <1>2, <3>1, <3>3, <3>5, <4>3
      <4> QED
        BY <1>2, <3>1, <4>1, <4>2, <4>3
    <3> QED
      BY <1>2, <2>2, <3>1, <3>2, <3>3, <3>4, <3>5
  <2> QED
    BY <2>2, <2>4, <2>5
<1>5. \A n \in Nat : n \in T
  <2> HIDE DEF T
  <2> QED
    BY <1>3, <1>4, NatSet
<1>6. pos[NrCells] = NrCells
  <2>1. NrCells \in T
    BY <1>5, Numbers
  <2>2. pos[NrCells] \in R \cup {NrCells} /\ (pos[NrCells] = NrCells \/ at + NrCells <= pos[NrCells])
    BY <2>1, Numbers
  <2> DEFINE last == pos[NrCells]
  <2>3. CASE last \in R
    <3>1. last \in Nat /\ last < NrCells /\ (last = NrCells \/ at + NrCells <= last)
      BY <1>2, <2>2, <2>3
    <3> HIDE DEF last
    <3> QED
      BY <1>2, <3>1, Numbers
  <2> QED
    BY <2>2, <2>3
<1>7. ASSUME NEW c \in R, at <= c PROVE c \in RunsFrom(h, at)
  <2>1. \E k \in 0 .. NrCells : pos[k] = c
    BY <1>2, <1>5, <1>6, <1>7, Numbers
  <2> QED
    BY <1>2, <2>1 DEF RunsFrom, pos
<1>8. ASSUME NEW c \in RunsFrom(h, at) PROVE c \in R /\ at <= c
  <2>1. PICK n \in 0 .. NrCells : pos[n] = c
    BY DEF RunsFrom, pos
  <2>2. c \in Cells
    BY DEF RunsFrom
  <2> QED
    BY <1>5, <2>1, <2>2, Numbers, CellRange
<1> QED
  BY <1>7, <1>8

\* The run before a cell at which a run starts, or before the end of the log.
LEMMA Predecessor ==
    ASSUME NEW h \in [Cells -> Header], NEW R, Cut(h, R), NEW at \in R,
           NEW c \in R \cup {NrCells}, at < c
    PROVE  \E d \in R : at <= d /\ d < c /\ d + RunLength(h, d) = c
<1>1. /\ R \subseteq Cells /\ c \in Nat /\ \A d \in R : d \in Nat /\ d < NrCells
  BY CellRange, Numbers DEF Cut
<1> DEFINE S == {c - d : d \in {e \in R : at <= e /\ e < c}}
<1>2. S \subseteq Nat /\ c - at \in S
  BY <1>1
<1>3. \E x \in S : \A y \in S : x <= y
  <2> HIDE DEF S
  <2> QED
    BY <1>2, LeastNat
<1>4. PICK d \in R : at <= d /\ d < c /\ \A e \in R : at <= e /\ e < c => c - d <= c - e
  BY <1>3
<1> DEFINE len == RunLength(h, d)
<1>5. len \in Nat /\ len > 0
  BY <1>1, HeaderTyped
<1>6. d + len \in R \cup {NrCells} /\ \A e \in R : d < e => d + len <= e
  BY DEF Cut
<1> HIDE DEF len
<1>7. d + len <= c
  BY <1>1, <1>4, <1>5, <1>6
<1>8. ~(d + len < c)
  <2> SUFFICES ASSUME d + len < c PROVE FALSE
    OBVIOUS
  <2>1. d + len \in R
    BY <1>1, <1>6, Numbers
  <2>2. c - d <= c - (d + len)
    BY <1>1, <1>4, <1>5, <2>1
  <2> QED
    BY <1>1, <1>5, <2>2
<1> QED
  BY <1>1, <1>4, <1>5, <1>7, <1>8 DEF len

-------------------------------------------------------------------------------
(* Cutting a part of the log anew.                                         *)

\* The cells of M cut the part of the log from a up to b into runs.
Segment(k, a, b, M) ==
    /\ M \subseteq a .. b - 1 /\ a \in M
    /\ \A c \in M : c + RunLength(k, c) \in M \cup {b}
    /\ \A c, d \in M : c < d => c + RunLength(k, c) <= d

\* Between the headers h and k the free runs from a up to b were cut anew, at M.
Recut(h, k, R, a, b, M) ==
    /\ a \in R /\ b \in R \cup {NrCells} /\ a < b
    /\ \A c \in R : c < a \/ b <= c => k[c] = h[c]
    /\ \A c \in R : a <= c /\ c < b => h[c].ref = 0
    /\ Segment(k, a, b, M)

Cuts(R, a, b, M) == {c \in R : c < a \/ b <= c} \cup M

\* The cells a new cut is about.
LEMMA RecutTyped ==
    ASSUME NEW h, NEW k, NEW R, NEW a, NEW b, NEW M, Cut(h, R), Recut(h, k, R, a, b, M)
    PROVE  /\ a \in Nat /\ b \in Nat /\ b <= NrCells
           /\ \A c \in R : c \in Cells /\ c \in Nat /\ c < NrCells
           /\ \A c \in M : c \in Cells /\ c \in Nat /\ a <= c /\ c < b
           /\ Cuts(R, a, b, M) \subseteq Cells
<1>1. \A c \in R : c \in Cells /\ c \in Nat /\ c < NrCells
  BY CellRange DEF Cut
<1>2. a \in Nat /\ b \in Nat /\ b <= NrCells
  BY <1>1, Numbers DEF Recut
<1>3. \A c \in M : c \in Cells /\ c \in Nat /\ a <= c /\ c < b
  <2> TAKE c \in M
  <2>1. c \in a .. b - 1
    BY DEF Recut, Segment
  <2>2. c \in Nat /\ a <= c /\ c < b /\ c < NrCells
    BY <1>2, <2>1, Numbers
  <2> QED
    BY <2>2, CellRange
<1> QED
  BY <1>1, <1>2, <1>3 DEF Cuts

\* After cutting anew the log is cut into runs again.
LEMMA RecutCuts ==
    ASSUME NEW h \in [Cells -> Header], NEW k \in [Cells -> Header], NEW R, NEW a, NEW b, NEW M,
           Cut(h, R), Recut(h, k, R, a, b, M)
    PROVE  Cut(k, Cuts(R, a, b, M))
<1> DEFINE Q == Cuts(R, a, b, M)
<1>1. /\ a \in Nat /\ b \in Nat /\ b <= NrCells
      /\ \A c \in R : c \in Cells /\ c \in Nat /\ c < NrCells
      /\ \A c \in M : c \in Cells /\ c \in Nat /\ a <= c /\ c < b
      /\ Q \subseteq Cells
  BY RecutTyped
<1>2. \A c \in R : c < a \/ b <= c => RunLength(k, c) = RunLength(h, c)
  BY DEF Recut, RunLength
<1>3. \A c \in Cells : RunLength(h, c) \in Nat /\ RunLength(k, c) \in Nat
  BY HeaderTyped
<1>4. a \in R /\ b \in R \cup {NrCells} /\ a < b /\ a \in M
  BY DEF Recut, Segment
<1>5. 0 \in Q
  <2>1. 0 \in R
    BY DEF Cut
  <2>2. CASE 0 < a
    BY <2>1, <2>2 DEF Cuts
  <2>3. CASE a = 0
    BY <1>4, <2>3 DEF Cuts
  <2> QED
    BY <1>1, <2>2, <2>3
<1>6. ASSUME NEW c \in Q
      PROVE  /\ c + RunLength(k, c) \in Q \cup {NrCells}
             /\ \A d \in Q : c < d => c + RunLength(k, c) <= d
  <2> DEFINE e == c + RunLength(k, c)
  <2>1. CASE c \in R /\ c < a
    <3>1. e = c + RunLength(h, c)
      BY <1>2, <2>1
    <3>2. e \in R \cup {NrCells} /\ (\A d \in R : c < d => e <= d) /\ e <= a
      BY <1>4, <2>1, <3>1 DEF Cut
    <3>3. e \in Nat
      BY <1>1, <3>2, Numbers
    <3> HIDE DEF e
    <3>4. e \in Q
      <4>1. e \in R
        BY <1>1, <1>4, <3>2, <3>3, Numbers
      <4> QED
        BY <1>1, <1>4, <3>2, <3>3, <4>1 DEF Cuts
    <3>5. ASSUME NEW d \in Q, c < d PROVE e <= d
      <4>1. CASE d \in R
        BY <3>2, <3>5, <4>1
      <4>2. CASE d \in M
        BY <1>1, <3>2, <3>3, <4>2
      <4> QED
        BY <4>1, <4>2 DEF Cuts
    <3> QED
      BY <3>4, <3>5 DEF e
  <2>2. CASE c \in R /\ b <= c
    <3>1. e = c + RunLength(h, c)
      BY <1>2, <2>2
    <3>2. e \in R \cup {NrCells} /\ (\A d \in R : c < d => e <= d)
      BY <2>2, <3>1 DEF Cut
    <3>3. c \in Nat /\ e \in Nat /\ b <= e
      BY <1>1, <1>3, <2>2, <3>1
    <3> HIDE DEF e
    <3>4. e \in Q \cup {NrCells}
      BY <3>2, <3>3 DEF Cuts
    <3>5. ASSUME NEW d \in Q, c < d PROVE e <= d
      <4>1. CASE d \in R
        BY <3>2, <3>5, <4>1
      <4>2. CASE d \in M
        BY <1>1, <2>2, <3>3, <3>5, <4>2
      <4> QED
        BY <4>1, <4>2 DEF Cuts
    <3> QED
      BY <3>4, <3>5 DEF e
  <2>3. CASE c \in M
    <3>1. e \in M \cup {b} /\ (\A d \in M : c < d => e <= d)
      BY <2>3 DEF Recut, Segment
    <3>2. e \in Nat /\ e <= b /\ c \in Nat /\ a <= c
      BY <1>1, <2>3, <3>1
    <3> HIDE DEF e
    <3>3. e \in Q \cup {NrCells}
      BY <1>1, <1>4, <3>1 DEF Cuts
    <3>4. ASSUME NEW d \in Q, c < d PROVE e <= d
      <4>1. CASE d \in R /\ d < a
        BY <1>1, <3>2, <3>4, <4>1
      <4>2. CASE d \in R /\ b <= d
        BY <1>1, <3>2, <4>2
      <4>3. CASE d \in M
        BY <3>1, <3>4, <4>3
      <4> QED
        BY <4>1, <4>2, <4>3 DEF Cuts
    <3> QED
      BY <3>3, <3>4 DEF e
  <2> QED
    BY <2>1, <2>2, <2>3 DEF Cuts
<1> QED
  BY <1>1, <1>5, <1>6 DEF Cut

\* The same cuts, when no length changed.
LEMMA CutKept ==
    ASSUME NEW h \in [Cells -> Header], NEW k \in [Cells -> Header], NEW R, Cut(h, R),
           \A c \in R : k[c].nr = h[c].nr
    PROVE  Cut(k, R)
<1>1. \A c \in R : RunLength(k, c) = RunLength(h, c)
  BY DEF RunLength
<1> QED
  BY <1>1 DEF Cut

-------------------------------------------------------------------------------
(* The objects in use.                                                     *)

Lives(l) == {o \in Objects : l[o].refs > 0}

ObjectType == [Objects -> [at : Nat, len : Nat, refs : Nat]]

\* The runs in use are the objects l, with the references held to them.
Agree(h, l, R) ==
    /\ \A o \in Lives(l) : /\ l[o].at \in R /\ l[o].len > 0
                           /\ h[l[o].at].nr = l[o].len /\ h[l[o].at].ref = l[o].refs
    /\ \A c \in R : h[c].ref # 0 => \E o \in Lives(l) : l[o].at = c
    /\ \A o, p \in Lives(l) : l[o].at = l[p].at => o = p

\* Objects lie outside of what is cut anew.
LEMMA OutsideRecut ==
    ASSUME NEW h, NEW k, NEW R, NEW a, NEW b, NEW M, NEW l \in ObjectType,
           Cut(h, R), Recut(h, k, R, a, b, M), Agree(h, l, R), NEW o \in Lives(l)
    PROVE  /\ l[o].at \in R /\ (l[o].at < a \/ b <= l[o].at) /\ k[l[o].at] = h[l[o].at]
           /\ l[o].at \in Cuts(R, a, b, M)
<1>1. /\ a \in Nat /\ b \in Nat
      /\ \A c \in R : c \in Nat
  BY RecutTyped
<1>2. l[o].at \in R /\ h[l[o].at].ref = l[o].refs /\ l[o].refs > 0 /\ l[o].refs \in Nat
  BY DEF Agree, Lives, ObjectType
<1>3. l[o].at < a \/ b <= l[o].at
  <2> DEFINE c == l[o].at
  <2>0. c \in R /\ c \in Nat /\ h[c].ref # 0
    BY <1>1, <1>2
  <2>1. c \in Nat /\ ~(a <= c /\ c < b)
    <3> HIDE DEF c
    <3> QED
      BY <2>0 DEF Recut
  <2> HIDE DEF c
  <2>2. c < a \/ b <= c
    BY <1>1, <2>1
  <2> QED
    BY <2>2 DEF c
<1> QED
  BY <1>2, <1>3 DEF Recut, Cuts

\* Free runs that stay free.
LEMMA RecutFree ==
    ASSUME NEW h, NEW k, NEW R, NEW a, NEW b, NEW M, NEW l \in ObjectType,
           Cut(h, R), Recut(h, k, R, a, b, M), Agree(h, l, R),
           \A c \in M : k[c].ref = 0
    PROVE  Agree(k, l, Cuts(R, a, b, M))
<1>1. \A o \in Lives(l) : /\ l[o].at \in R /\ k[l[o].at] = h[l[o].at]
                          /\ l[o].at \in Cuts(R, a, b, M)
  BY OutsideRecut
<1>2. ASSUME NEW c \in Cuts(R, a, b, M), k[c].ref # 0 PROVE \E o \in Lives(l) : l[o].at = c
  <2>1. c \in R /\ (c < a \/ b <= c)
    BY <1>2 DEF Cuts
  <2>2. h[c].ref # 0
    BY <1>2, <2>1 DEF Recut
  <2> QED
    BY <2>1, <2>2 DEF Agree
<1> QED
  BY <1>1, <1>2 DEF Agree

\* The first run of those cut at M is given to object o, the others are free.
Given(k, M, l, o, a, len, m) ==
    /\ k[a].nr = len /\ k[a].ref = 1
    /\ \A c \in M : c # a => k[c].ref = 0
    /\ m = [l EXCEPT ![o] = [at |-> a, len |-> len, refs |-> 1]]

\* Free runs of which the first is given to a new object.
LEMMA RecutTaken ==
    ASSUME NEW h, NEW k, NEW R, NEW a, NEW b, NEW M, NEW l \in ObjectType, NEW len \in Nat,
           Cut(h, R), Recut(h, k, R, a, b, M), Agree(h, l, R), len > 0,
           NEW o \in Objects \ Lives(l), NEW m, Given(k, M, l, o, a, len, m)
    PROVE  m \in ObjectType /\ Agree(k, m, Cuts(R, a, b, M))
<1> DEFINE Q == Cuts(R, a, b, M)
<1>1. /\ a \in Nat /\ b \in Nat /\ a < b /\ a \in Q
  <2>1. a \in Nat /\ b \in Nat
    BY RecutTyped
  <2>2. a < b /\ a \in Q
    BY DEF Recut, Segment, Cuts
  <2> QED
    BY <2>1, <2>2
<1>2. m \in ObjectType
  BY <1>1 DEF ObjectType, Given
<1>3. /\ m[o] = [at |-> a, len |-> len, refs |-> 1]
      /\ \A p \in Objects : p # o => m[p] = l[p]
  BY DEF ObjectType, Given
<1>4. Lives(m) = Lives(l) \cup {o}
  <2>1. m[o].refs > 0
    BY <1>3
  <2> QED
    BY <1>3, <2>1 DEF Lives
<1>5. \A p \in Lives(l) : /\ m[p] = l[p] /\ p # o /\ l[p].at \in R /\ k[l[p].at] = h[l[p].at]
                          /\ (l[p].at < a \/ b <= l[p].at) /\ l[p].at \in Q
  BY <1>3, OutsideRecut DEF Lives
<1>6. \A p \in Lives(l) : l[p].at # a
  BY <1>1, <1>5
<1>7. \A p \in Lives(m) : /\ m[p].at \in Q /\ m[p].len > 0
                          /\ k[m[p].at].nr = m[p].len /\ k[m[p].at].ref = m[p].refs
  <2> TAKE p \in Lives(m)
  <2>1. CASE p = o
    BY <1>1, <1>3, <2>1 DEF Given
  <2>2. CASE p \in Lives(l)
    BY <1>5, <2>2 DEF Agree
  <2> QED
    BY <1>4, <2>1, <2>2
<1>8. ASSUME NEW c \in Q, k[c].ref # 0 PROVE \E p \in Lives(m) : m[p].at = c
  <2>1. CASE c = a
    <3>1. m[o].at = a
      BY <1>3
    <3>2. o \in Lives(m)
      BY <1>4
    <3> QED
      BY <2>1, <3>1, <3>2
  <2>2. CASE c # a
    <3>1. c \in R /\ (c < a \/ b <= c)
      BY <1>8, <2>2 DEF Cuts, Given
    <3>2. h[c].ref # 0
      BY <1>8, <3>1 DEF Recut
    <3>3. PICK p \in Lives(l) : l[p].at = c
      BY <3>1, <3>2 DEF Agree
    <3> QED
      BY <1>4, <1>5, <3>3
  <2> QED
    BY <2>1, <2>2
<1>9. \A p, q \in Lives(m) : m[p].at = m[q].at => p = q
  <2> TAKE p, q \in Lives(m)
  <2> HAVE m[p].at = m[q].at
  <2>0. m[o].at = a /\ \A r \in Lives(l) : m[r].at # a
    BY <1>3, <1>5, <1>6
  <2>1. CASE p = o \/ q = o
    BY <1>4, <2>0, <2>1
  <2>2. CASE p \in Lives(l) /\ q \in Lives(l)
    BY <1>5, <2>2 DEF Agree
  <2> QED
    BY <1>4, <2>1, <2>2
<1> QED
  BY <1>2, <1>7, <1>8, <1>9 DEF Agree

-------------------------------------------------------------------------------
(* The walks of logalloc_alloc and logalloc_prepare_region.                *)

\* Every request needs a cell.
LEMMA SomeCells ==
    ASSUME NEW size \in Sizes PROVE CellsFor(size) \in Nat /\ CellsFor(size) > 0
<1>0. Sizes \subseteq Nat \ {0}
  BY SizeAssumption
<1>1. size \in Nat /\ size > 0
  BY <1>0
<1> DEFINE x == size + CellBytes - 1
           q == x \div CellBytes
<1>2. x \in Nat /\ x >= CellBytes
  BY <1>1, Numbers
<1>3. q \in Int /\ x < CellBytes * q + CellBytes /\ CellBytes * q <= x
  BY <1>2, Numbers
<1>4. q > 0
  <2> HIDE DEF q, x
  <2> SUFFICES ASSUME q <= 0 PROVE FALSE
    BY <1>3
  <2>1. CellBytes * q <= 0
    BY <1>3, Numbers
  <2> QED
    BY <1>2, <1>3, <2>1, Numbers
<1>5. CellsFor(size) = q
  BY DEF CellsFor
<1> HIDE DEF q
<1> QED
  BY <1>3, <1>4, <1>5

\* log_head goes back to the start at the end of the log.
LEMMA WrapHead ==
    ASSUME NEW x \in Nat, x <= NrCells
    PROVE  x % NrCells = IF x = NrCells THEN 0 ELSE x
<1>1. CASE x = NrCells
  BY <1>1, Numbers
<1>2. CASE x < NrCells
  BY <1>2, Numbers
<1> QED
  BY <1>1, <1>2, Numbers

\* Min is the least member.
LEMMA MinIs ==
    ASSUME NEW S, S \subseteq Nat, S # {}
    PROVE  Min(S) \in S /\ \A y \in S : Min(S) <= y
  BY LeastNat DEF Min

\* What a walk from cell at on found: the free cells from there up to the start
\* of a run or the end of the log, and what the last run adds to those asked for.
Found(h, R, at, req, g) ==
    /\ g.found \in Nat /\ g.last \in Nat
    /\ g.found >= req =>
          /\ at + g.found \in R \cup {NrCells}
          /\ \A c \in R : at <= c /\ c < at + g.found => h[c].ref = 0
          /\ IF g.last = 0 THEN at + g.found = NrCells ELSE g.found - req <= MaxByte
    /\ (\A c \in R : h[c].ref = 0) => g.found >= req

\* The walk of logalloc_alloc.
LEMMA GatherFinds ==
    ASSUME NEW h \in [Cells -> Header], NEW R, Cut(h, R), NEW at \in R,
           NEW req \in Nat, req > 0, at + req <= NrCells
    PROVE  Found(h, R, at, req, Gather(h, at, req))
<1> DEFINE Stop(d) == h[d].ref # 0 \/ h[d].nr = 0 \/ d - at + h[d].nr >= req
           stops == {d \in RunsFrom(h, at) : Stop(d)}
           c == Min(stops)
           g == Gather(h, at, req)
<1>1. /\ at \in Nat /\ at < NrCells
      /\ \A d \in R : d \in Cells /\ d \in Nat /\ d < NrCells
  BY CellRange DEF Cut
<1>2. /\ \A d \in R : /\ h[d].nr \in Nat /\ h[d].nr <= MaxByte /\ h[d].ref \in Nat
                      /\ RunLength(h, d) = IF h[d].nr = 0 THEN NrCells - d ELSE h[d].nr
  BY <1>1, HeaderTyped DEF RunLength
<1>3. stops = {d \in R : at <= d /\ Stop(d)}
  BY WalkFinds
<1>4. stops # {}
  <2>0. NrCells \in R \cup {NrCells} /\ at < NrCells
    BY <1>1
  <2>1. PICK d \in R : at <= d /\ d < NrCells /\ d + RunLength(h, d) = NrCells
    BY <2>0, Predecessor
  <2>2. Stop(d)
    BY <1>1, <1>2, <2>1, Numbers
  <2> QED
    BY <1>3, <2>1, <2>2
<1>5. /\ c \in R /\ at <= c /\ Stop(c)
      /\ \A d \in R : at <= d /\ d < c => ~Stop(d)
  <2> DEFINE S == stops
  <2>1. S \subseteq Nat
    BY <1>1, <1>3
  <2>2. Min(S) \in S /\ \A y \in S : Min(S) <= y
    <3> HIDE DEF S
    <3> QED
      BY <1>4, <2>1, MinIs DEF S
  <2>3. c \in stops /\ \A y \in stops : c <= y
    BY <2>2
  <2> HIDE DEF c, S
  <2>4. c \in R /\ at <= c /\ Stop(c)
    BY <1>3, <2>3
  <2>5. ASSUME NEW d \in R, at <= d, d < c PROVE ~Stop(d)
    <3> HIDE DEF Stop
    <3> SUFFICES ASSUME Stop(d) PROVE FALSE
      OBVIOUS
    <3>1. c <= d
      BY <1>3, <2>3, <2>5
    <3> QED
      BY <1>1, <2>4, <2>5, <3>1
  <2> QED
    BY <2>4, <2>5
<1>6. g = IF h[c].ref # 0 THEN [found |-> c - at, last |-> 0]
          ELSE IF h[c].nr = 0 THEN [found |-> NrCells - at, last |-> 0]
          ELSE [found |-> c - at + h[c].nr, last |-> h[c].nr]
  BY DEF Gather
<1> HIDE DEF c, g
<1>7. c \in Nat /\ c < NrCells
  BY <1>1, <1>5
<1>8. c - at < req
  <2>1. CASE c = at
    BY <1>1, <2>1
  <2>2. CASE at < c
    <3>1. PICK d \in R : at <= d /\ d < c /\ d + RunLength(h, d) = c
      BY <1>5, <2>2, Predecessor
    <3>2. ~Stop(d)
      BY <1>5, <3>1
    <3> QED
      BY <1>1, <1>2, <3>1, <3>2
  <2> QED
    BY <1>1, <1>5, <1>7, <2>1, <2>2
<1>9. CASE h[c].ref # 0
  <2>1. g.found = c - at /\ g.last = 0
    BY <1>6, <1>9
  <2>2. g.found \in Nat /\ ~(g.found >= req)
    BY <1>1, <1>5, <1>7, <1>8, <2>1
  <2> QED
    BY <1>5, <1>9, <2>1, <2>2, Numbers DEF Found, g
<1>10. CASE h[c].ref = 0 /\ h[c].nr = 0
  <2>1. g.found = NrCells - at /\ g.last = 0
    BY <1>6, <1>10
  <2>2. g.found \in Nat /\ g.found >= req /\ at + g.found = NrCells
    BY <1>1, <2>1, Numbers
  <2>3. c + RunLength(h, c) = NrCells
    BY <1>2, <1>5, <1>7, <1>10, Numbers
  <2>4. ASSUME NEW d \in R, at <= d PROVE h[d].ref = 0
    <3>1. ~(c < d)
      <4> SUFFICES ASSUME c < d PROVE FALSE
        OBVIOUS
      <4>1. c + RunLength(h, c) <= d
        BY <1>5 DEF Cut
      <4> QED
        BY <1>1, <2>3, <4>1, Numbers
    <3>2. d = c \/ d < c
      BY <1>1, <1>7, <3>1
    <3> QED
      BY <1>5, <1>10, <2>4, <3>2
  <2> QED
    BY <2>1, <2>2, <2>4 DEF Found, g
<1>11. CASE h[c].ref = 0 /\ h[c].nr # 0
  <2>1. g.found = c - at + h[c].nr /\ g.last = h[c].nr
    BY <1>6, <1>11
  <2>2. g.found \in Nat /\ g.found >= req /\ g.last \in Nat /\ g.last # 0 /\ g.found - req <= MaxByte
    BY <1>1, <1>2, <1>5, <1>7, <1>8, <1>11, <2>1, Numbers
  <2>3. c + RunLength(h, c) = at + g.found
    BY <1>1, <1>2, <1>5, <1>7, <1>11, <2>1
  <2>4. at + g.found \in R \cup {NrCells}
    BY <1>5, <2>3 DEF Cut
  <2>5. ASSUME NEW d \in R, at <= d, d < at + g.found PROVE h[d].ref = 0
    <3>1. ~(c < d)
      <4> SUFFICES ASSUME c < d PROVE FALSE
        OBVIOUS
      <4>1. c + RunLength(h, c) <= d
        BY <1>5 DEF Cut
      <4> QED
        BY <1>1, <2>2, <2>3, <2>5, <4>1
    <3>2. d = c \/ d < c
      BY <1>1, <1>7, <3>1
    <3> QED
      BY <1>5, <1>11, <2>5, <3>2
  <2> QED
    BY <2>1, <2>2, <2>4, <2>5 DEF Found, g
<1> QED
  BY <1>9, <1>10, <1>11

-------------------------------------------------------------------------------
(* What the operations do to the headers.                                  *)

\* The headers after an allocation of req cells at cell at that found g.
LEMMA AllocatedIs ==
    ASSUME NEW h \in [Cells -> Header], NEW at \in Cells, NEW req \in Nat, req > 0,
           req <= MaxByte, at + req <= NrCells, NEW size, ~Spills(size), NEW p \in Payloads,
           NEW g, g.found \in Nat, g.last \in Nat, req <= g.found, at + g.found <= NrCells,
           g.last # 0 => g.found - req <= MaxByte,
           NEW k, k = Allocated(h, at, req, size, g, p)
    PROVE  /\ k \in [Cells -> Header]
           /\ k[at].nr = req /\ k[at].ref = 1
           /\ req < g.found =>
                 /\ k[at + req].ref = 0
                 /\ k[at + req].nr = IF g.last = 0 THEN 0 ELSE g.found - req
           /\ \A c \in Cells : c < at \/ at + g.found <= c => k[c] = h[c]
<1> DEFINE rem == IF g.last = 0 THEN 0 ELSE g.found - req
           rest == at + req
           w == IF req < g.found THEN [h EXCEPT ![rest] = [nr |-> rem, ref |-> 0]] ELSE h
<1>1. at \in Nat /\ at < NrCells /\ \A c \in Cells : c \in Nat
  BY CellRange
<1>2. rem \in Nat /\ rem <= MaxByte /\ (req < g.found => rest \in Cells)
  BY <1>1, Numbers, CellRange
<1>3. [nr |-> rem, ref |-> 0] \in Header /\ [nr |-> req, ref |-> 1] \in Header /\ p \in Header
  <2>1. rem \in 0 .. MaxByte /\ req \in 0 .. MaxByte /\ 0 \in 0 .. MaxByte /\ 1 \in 0 .. MaxByte
    BY <1>2, Numbers
  <2>2. Payloads \subseteq Header
    BY SizeAssumption DEF Header
  <2> HIDE DEF rem
  <2> QED
    BY <2>1, <2>2 DEF Header
<1>4. /\ w \in [Cells -> Header]
      /\ \A c \in Cells : c # rest \/ ~(req < g.found) => w[c] = h[c]
      /\ req < g.found => w[rest] = [nr |-> rem, ref |-> 0]
  <2> HIDE DEF rem, rest
  <2> QED
    BY <1>2, <1>3
<1>5. k = Placed(w, at, req, size, p)
  BY DEF Allocated
<1> HIDE DEF w
<1>6. k[at] = [nr |-> req, ref |-> 1]
  <2>1. at \notin Span(at + 1, req - 1) /\ at # at + req
    BY <1>1 DEF Span
  <2> QED
    BY <1>5, <2>1 DEF Placed
<1>7. k \in [Cells -> Header]
  <2>1. DOMAIN k = Cells /\ k = [c \in Cells |-> k[c]]
    BY <1>5 DEF Placed
  <2>2. ASSUME NEW c \in Cells PROVE k[c] \in Header
    <3>1. CASE c = at
      BY <1>3, <1>6, <3>1
    <3>2. CASE c # at /\ c \in Span(at + 1, req - 1)
      <4>1. k[c] = p
        BY <1>5, <3>2 DEF Placed
      <4> QED
        BY <1>3, <4>1
    <3>3. CASE c # at /\ c \notin Span(at + 1, req - 1)
      <4>1. k[c] = w[c]
        BY <1>5, <3>3 DEF Placed
      <4> QED
        BY <1>4, <4>1
    <3> QED
      BY <3>1, <3>2, <3>3
  <2> QED
    BY <2>1, <2>2
<1>8. \A c \in Cells : c < at \/ rest <= c => k[c] = w[c]
  <2> TAKE c \in Cells
  <2> HAVE c < at \/ rest <= c
  <2>1. c # at /\ c \notin Span(at + 1, req - 1)
    BY <1>1 DEF Span
  <2> QED
    BY <1>5, <2>1 DEF Placed
<1>9. ASSUME req < g.found PROVE k[rest] = [nr |-> rem, ref |-> 0]
  <2>1. rest \in Cells /\ rest <= rest
    BY <1>1, <1>2, <1>9
  <2> HIDE DEF rest, rem
  <2> QED
    BY <1>4, <1>8, <1>9, <2>1
<1>10. ASSUME NEW c \in Cells, c < at \/ at + g.found <= c PROVE k[c] = h[c]
  <2>1. (c < at \/ rest <= c) /\ (c # rest \/ ~(req < g.found))
    BY <1>1, <1>10
  <2> HIDE DEF rest
  <2> QED
    BY <1>4, <1>8, <2>1
<1> QED
  BY <1>6, <1>7, <1>9, <1>10

\* Where the log is cut after that.
Taken(at, req, g) == {at} \cup (IF req < g.found THEN {at + req} ELSE {})

\* An allocation cuts the free runs it found anew.
LEMMA AllocatedRecut ==
    ASSUME NEW h \in [Cells -> Header], NEW R, Cut(h, R), NEW at \in R,
           NEW req \in Nat, req > 0, req <= MaxByte, at + req <= NrCells,
           NEW g, Found(h, R, at, req, g), req <= g.found,
           NEW size, ~Spills(size), NEW p \in Payloads,
           NEW k, k = Allocated(h, at, req, size, g, p)
    PROVE  /\ k \in [Cells -> Header]
           /\ k[at].nr = req /\ k[at].ref = 1
           /\ Recut(h, k, R, at, at + g.found, Taken(at, req, g))
           /\ \A c \in Taken(at, req, g) : c # at => k[c].ref = 0
<1> DEFINE b == at + g.found
           M == Taken(at, req, g)
<1>1. /\ at \in Cells /\ at \in Nat /\ at < NrCells
      /\ \A d \in R : d \in Cells /\ d \in Nat /\ d < NrCells
  BY CellRange DEF Cut
<1>2. /\ g.found \in Nat /\ g.last \in Nat /\ b \in R \cup {NrCells}
      /\ \A c \in R : at <= c /\ c < b => h[c].ref = 0
      /\ IF g.last = 0 THEN b = NrCells ELSE g.found - req <= MaxByte
  BY DEF Found
<1>3. b \in Nat /\ b <= NrCells /\ at < b
  BY <1>1, <1>2, Numbers
<1>4. /\ k \in [Cells -> Header]
      /\ k[at].nr = req /\ k[at].ref = 1
      /\ req < g.found =>
            /\ k[at + req].ref = 0
            /\ k[at + req].nr = IF g.last = 0 THEN 0 ELSE g.found - req
      /\ \A c \in Cells : c < at \/ b <= c => k[c] = h[c]
  BY <1>1, <1>2, <1>3, AllocatedIs
<1>5. RunLength(k, at) = req
  BY <1>4 DEF RunLength
<1>6. Segment(k, at, b, M) /\ \A c \in M : c # at => k[c].ref = 0
  <2>1. CASE req < g.found
    <3>1. M = {at, at + req}
      BY <2>1 DEF Taken
    <3>2. at + req + RunLength(k, at + req) = b
      BY <1>1, <1>2, <1>4, <2>1, Numbers DEF RunLength
    <3>3. M \subseteq at .. b - 1 /\ at \in M
      BY <1>1, <1>2, <2>1, <3>1
    <3> HIDE DEF b
    <3> QED
      BY <1>1, <1>4, <1>5, <2>1, <3>1, <3>2, <3>3 DEF Segment
  <2>2. CASE req = g.found
    <3>1. M = {at} /\ at + RunLength(k, at) = b /\ at \in at .. b - 1
      BY <1>1, <1>2, <1>3, <1>5, <2>2 DEF Taken
    <3> HIDE DEF b
    <3> QED
      BY <3>1 DEF Segment
  <2> QED
    BY <1>2, <2>1, <2>2
<1> QED
  BY <1>1, <1>2, <1>3, <1>4, <1>6 DEF Recut

\* Wrapping around when nothing behind log_head is in use.
LEMMA SkippedRecut ==
    ASSUME hdr \in [Cells -> Header], NEW R, Cut(hdr, R), log_head \in R,
           Agree(hdr, live, R), ~InUseBehind, NrCells - log_head <= MaxByte
    PROVE  /\ Skipped \in [Cells -> Header]
           /\ Recut(hdr, Skipped, R, log_head, NrCells, {log_head})
           /\ Skipped[log_head].ref = 0
<1>1. /\ log_head \in Cells /\ log_head \in Nat /\ log_head < NrCells
      /\ \A d \in R : d \in Cells /\ d \in Nat /\ d < NrCells
  BY CellRange DEF Cut
<1>2. [nr |-> NrCells - log_head, ref |-> 0] \in Header
  <2>1. NrCells - log_head \in 0 .. MaxByte /\ 0 \in 0 .. MaxByte
    BY <1>1, Numbers
  <2> QED
    BY <2>1 DEF Header
<1>3. /\ Skipped \in [Cells -> Header]
      /\ Skipped[log_head] = [nr |-> NrCells - log_head, ref |-> 0]
      /\ \A c \in Cells : c # log_head => Skipped[c] = hdr[c]
  BY <1>1, <1>2 DEF Skipped
<1>4. log_head + RunLength(Skipped, log_head) = NrCells
  BY <1>1, <1>3, Numbers DEF RunLength
<1>5. ASSUME NEW c \in R, log_head <= c PROVE hdr[c].ref = 0
  <2> SUFFICES ASSUME hdr[c].ref # 0 PROVE FALSE
    OBVIOUS
  <2>1. PICK o \in Lives(live) : live[o].at = c
    BY DEF Agree
  <2> QED
    BY <1>5, <2>1 DEF InUseBehind, Live, Lives
<1>6. Segment(Skipped, log_head, NrCells, {log_head})
  <2>1. log_head \in log_head .. NrCells - 1
    BY <1>1, Numbers
  <2> QED
    BY <1>1, <1>4, <2>1 DEF Segment
<1>7. \A c \in R : c < log_head \/ NrCells <= c => Skipped[c] = hdr[c]
  BY <1>1, <1>3, Numbers
<1> QED
  BY <1>1, <1>3, <1>5, <1>6, <1>7 DEF Recut

-------------------------------------------------------------------------------
(* The invariant.                                                          *)

LogTypeOK ==
    /\ open \in BOOLEAN
    /\ taking \in [Threads -> Objects \cup {None}]

\* The cells of R cut the log into runs, at log_head and at every object in use.
CutAt(R) == Cut(hdr, R) /\ log_head \in R /\ Agree(hdr, live, R)

\* A prepared region is a free run of known length at log_head.
RegionFree == region > 0 => hdr[log_head].ref = 0 /\ hdr[log_head].nr # 0

\* What a thread taking a reference may rely on between its test and the increment.
TakersSafe ==
    \A t \in Threads : taking[t] # None =>
        taking[t] \in Lives(live) /\ live[taking[t]].refs < MaxByte

LogSound ==
    /\ hdr \in [Cells -> Header] /\ live \in ObjectType
    /\ \E R \in SUBSET Cells : CutAt(R)
    /\ RegionFree
    /\ TakersSafe

LogClosed ==
    /\ faults = {} /\ region = 0
    /\ live = [o \in Objects |-> NoObject]
    /\ \A t \in Threads : taking[t] = None

LogInv ==
    /\ LogTypeOK
    /\ open /\ faults = {} => LogSound
    /\ ~open => LogClosed

\* The cells a new object is put at, and the cuts before it is put there.
LEMMA RoomSound ==
    ASSUME LogSound, NEW req \in Nat, req > 0, req <= MaxByte, req <= NrCells,
           HeadIsFree, ~(Wraps(req) /\ InUseBehind),
           NEW at, at = IF Wraps(req) THEN 0 ELSE log_head,
           NEW h, h = IF Wraps(req) THEN Skipped ELSE hdr
    PROVE  /\ h \in [Cells -> Header] /\ at + req <= NrCells
           /\ \E R \in SUBSET Cells : /\ Cut(h, R) /\ log_head \in R /\ at \in R
                                      /\ Agree(h, live, R)
<1>1. PICK R \in SUBSET Cells : Cut(hdr, R) /\ log_head \in R /\ Agree(hdr, live, R)
  BY DEF LogSound, CutAt
<1>2. log_head \in Nat /\ log_head < NrCells
  BY <1>1, CellRange DEF Cut
<1>3. CASE ~Wraps(req)
  <2>1. h = hdr /\ at = log_head /\ at + req <= NrCells
    BY <1>2, <1>3, Numbers DEF Wraps
  <2> QED
    BY <1>1, <2>1 DEF LogSound
<1>4. CASE Wraps(req)
  <2>1. h = Skipped /\ at = 0 /\ at + req <= NrCells /\ NrCells - log_head <= MaxByte
    BY <1>2, <1>4, Numbers DEF Wraps
  <2>2. hdr \in [Cells -> Header] /\ live \in ObjectType
    BY DEF LogSound
  <2>3. /\ Skipped \in [Cells -> Header]
        /\ Recut(hdr, Skipped, R, log_head, NrCells, {log_head})
        /\ Skipped[log_head].ref = 0
    BY <1>1, <1>4, <2>1, <2>2, SkippedRecut
  <2> DEFINE Q == Cuts(R, log_head, NrCells, {log_head})
  <2>4. Cut(Skipped, Q)
    BY <1>1, <2>2, <2>3, RecutCuts
  <2>5. Agree(Skipped, live, Q)
    <3>1. \A c \in {log_head} : Skipped[c].ref = 0
      BY <2>3
    <3> QED
      BY <1>1, <2>2, <2>3, <3>1, RecutFree
  <2>6. log_head \in Q /\ 0 \in Q /\ Q \in SUBSET Cells
    BY <2>4 DEF Cuts, Cut
  <2> HIDE DEF Q
  <2> QED
    BY <2>1, <2>3, <2>4, <2>5, <2>6
<1> QED
  BY <1>3, <1>4

\* An allocation that found enough.
LEMMA AllocSound ==
    ASSUME LogSound, NEW req \in Nat, req > 0, req <= MaxByte, NEW h \in [Cells -> Header],
           NEW R \in SUBSET Cells, Cut(h, R), NEW at \in R, Agree(h, live, R),
           at + req <= NrCells, NEW g, Found(h, R, at, req, g), req <= g.found,
           NEW size, ~Spills(size),
           NEW p \in Payloads, hdr' = Allocated(h, at, req, size, g, p),
           NEW o \in Objects \ Lives(live),
           live' = [live EXCEPT ![o] = [at |-> at, len |-> req, refs |-> 1]],
           log_head' = (at + req) % NrCells, region' = 0, taking' = taking
    PROVE  LogSound'
<1>1. live \in ObjectType /\ TakersSafe
  BY DEF LogSound
<1>2. at \in Nat /\ at < NrCells
  BY CellRange
<1>3. g.found \in Nat /\ at + g.found \in R \cup {NrCells}
  BY DEF Found
<1>4. PICK k : k = hdr'
  OBVIOUS
<1>5. PICK m : m = live'
  OBVIOUS
<1>6. PICK M : M = Taken(at, req, g)
  OBVIOUS
<1>7. PICK Q : Q = Cuts(R, at, at + g.found, M)
  OBVIOUS
<1>8. /\ k \in [Cells -> Header]
      /\ k[at].nr = req /\ k[at].ref = 1
      /\ Recut(h, k, R, at, at + g.found, M)
      /\ \A c \in M : c # at => k[c].ref = 0
  <2>1. k = Allocated(h, at, req, size, g, p)
    BY <1>4
  <2> QED
    BY <1>6, <2>1, AllocatedRecut
<1>9. Cut(k, Q)
  BY <1>7, <1>8, RecutCuts
<1>10. m \in ObjectType /\ Agree(k, m, Q)
  <2>1. m = [live EXCEPT ![o] = [at |-> at, len |-> req, refs |-> 1]]
    BY <1>5
  <2>2. Given(k, M, live, o, at, req, m)
    BY <1>8, <2>1 DEF Given
  <2> QED
    BY <1>1, <1>7, <1>8, <2>2, RecutTaken
<1>11. log_head' \in Q
  <2>1. log_head' = IF at + req = NrCells THEN 0 ELSE at + req
    BY <1>2, WrapHead
  <2>2. 0 \in Q
    BY <1>9 DEF Cut
  <2>3. ASSUME at + req # NrCells PROVE at + req \in Q
    <3>1. CASE req < g.found
      BY <1>6, <1>7, <3>1 DEF Cuts, Taken
    <3>2. CASE req = g.found
      <4>1. at + g.found \in R
        BY <1>3, <2>3, <3>2
      <4> QED
        BY <1>2, <1>3, <1>7, <3>2, <4>1 DEF Cuts
    <3> QED
      BY <1>3, <3>1, <3>2
  <2> QED
    BY <2>1, <2>2, <2>3
<1>12. TakersSafe'
  <2>1. \A q \in Objects : q # o => m[q] = live[q]
    BY <1>1, <1>5 DEF ObjectType
  <2>2. \A q \in Lives(live) : q \in Lives(m) /\ m[q] = live[q]
    BY <2>1 DEF Lives
  <2>3. Lives(live)' = Lives(m)
    BY <1>5 DEF Lives
  <2> QED
    BY <1>1, <1>5, <2>2, <2>3 DEF TakersSafe
<1>13. CutAt(Q)' /\ Q \in SUBSET Cells
  BY <1>4, <1>5, <1>9, <1>10, <1>11 DEF CutAt, Cut, Agree, Lives, RunLength
<1>14. RegionFree'
  BY DEF RegionFree
<1>15. hdr' \in [Cells -> Header] /\ (live \in ObjectType)'
  BY <1>4, <1>5, <1>8, <1>10 DEF ObjectType
<1> QED
  BY <1>12, <1>13, <1>14, <1>15 DEF LogSound

\* An allocation that did not find enough may have wrapped around.
LEMMA NoRoomSound ==
    ASSUME LogSound, NEW h \in [Cells -> Header], NEW R \in SUBSET Cells, Cut(h, R),
           log_head \in R, Agree(h, live, R), hdr' = h,
           log_head' = log_head, live' = live, region' = 0, taking' = taking
    PROVE  LogSound'
<1>1. live \in ObjectType /\ TakersSafe
  BY DEF LogSound
<1>2. CutAt(R)'
  BY DEF CutAt, Cut, Agree, Lives, RunLength
<1>3. TakersSafe'
  BY <1>1 DEF TakersSafe, Lives
<1>4. RegionFree'
  BY DEF RegionFree
<1>5. (live \in ObjectType)'
  BY <1>1 DEF ObjectType
<1> QED
  BY <1>2, <1>3, <1>4, <1>5 DEF LogSound

\* logalloc_alloc keeps the invariant.
LEMMA AllocStep ==
    ASSUME LogInv, NEW size \in Sizes, logalloc_alloc(size) PROVE LogInv'
<1>1. PICK req : req = CellsFor(size)
  OBVIOUS
<1>2. PICK at : at = IF Wraps(req) THEN 0 ELSE log_head
  OBVIOUS
<1>3. PICK h : h = IF Wraps(req) THEN Skipped ELSE hdr
  OBVIOUS
<1>4. PICK g : g = Gather(h, at, req)
  OBVIOUS
<1>5. /\ open /\ req <= MaxByte /\ req <= NrCells /\ HeadIsFree /\ region' = 0
      /\ taking' = taking /\ open' = open
  BY <1>1 DEF logalloc_alloc, Usable
<1>6. faults' = faults \cup (IF Wraps(req) /\ InUseBehind THEN {"wrapped over"} ELSE {})
                       \cup (IF g.found >= req /\ Spills(size) THEN {"spilled"} ELSE {})
  BY <1>1, <1>2, <1>3, <1>4 DEF logalloc_alloc
<1>7. \/ /\ g.found < req
         /\ hdr' = h /\ log_head' = log_head /\ live' = live
      \/ /\ g.found >= req
         /\ \E p \in Payloads : hdr' = Allocated(h, at, req, size, g, p)
         /\ log_head' = (at + req) % NrCells
         /\ \E o \in Objects \ Live :
                live' = [live EXCEPT ![o] = [at |-> at, len |-> req, refs |-> 1]]
  BY <1>1, <1>2, <1>3, <1>4 DEF logalloc_alloc
<1>8. LogTypeOK'
  BY <1>5 DEF LogInv, LogTypeOK
<1>9. CASE faults' # {}
  BY <1>5, <1>8, <1>9 DEF LogInv
<1>10. CASE faults' = {}
  <2>1. /\ faults = {} /\ ~(Wraps(req) /\ InUseBehind)
        /\ ~(g.found >= req /\ Spills(size))
    BY <1>6, <1>10
  <2>2. LogSound
    BY <1>5, <2>1 DEF LogInv
  <2>3. req \in Nat /\ req > 0
    BY <1>1, SomeCells
  <2>4. h \in [Cells -> Header] /\ at + req <= NrCells
    BY <1>2, <1>3, <1>5, <2>1, <2>2, <2>3, RoomSound
  <2>5. PICK R \in SUBSET Cells : Cut(h, R) /\ log_head \in R /\ at \in R /\ Agree(h, live, R)
    BY <1>2, <1>3, <1>5, <2>1, <2>2, <2>3, RoomSound
  <2>6. Found(h, R, at, req, g)
    BY <1>4, <2>3, <2>4, <2>5, GatherFinds
  <2>7. g.found \in Nat
    BY <2>6 DEF Found
  <2>8. LogSound'
    <3>1. CASE g.found < req
      <4>1. hdr' = h /\ log_head' = log_head /\ live' = live
        BY <1>7, <2>3, <2>7, <3>1
      <4> QED
        BY <1>5, <2>2, <2>4, <2>5, <4>1, NoRoomSound
    <3>2. CASE g.found >= req
      <4>1. PICK p \in Payloads : hdr' = Allocated(h, at, req, size, g, p)
        BY <1>7, <2>3, <2>7, <3>2
      <4>2. PICK o \in Objects \ Lives(live) :
               live' = [live EXCEPT ![o] = [at |-> at, len |-> req, refs |-> 1]]
        BY <1>7, <2>3, <2>7, <3>2 DEF Live, Lives
      <4>3. log_head' = (at + req) % NrCells /\ ~Spills(size) /\ req <= g.found
        BY <1>7, <2>1, <2>3, <2>7, <3>2
      <4> QED
        BY <1>5, <2>2, <2>3, <2>4, <2>5, <2>6, <4>1, <4>2, <4>3, AllocSound
    <3> QED
      BY <2>3, <2>7, <3>1, <3>2
  <2> QED
    BY <1>5, <1>8, <2>8 DEF LogInv
<1> QED
  BY <1>9, <1>10

-------------------------------------------------------------------------------
(* Regions.                                                                *)

\* The walk of logalloc_prepare_region, when it stays inside the log.
LEMMA RegionFinds ==
    ASSUME hdr \in [Cells -> Header], NEW R, Cut(hdr, R), log_head \in R,
           NEW nr \in Nat, NEW g, g = GatherRegion(nr), g.how # "past"
    PROVE  /\ g.how = "run" =>
                 /\ g.found \in Nat /\ log_head + g.found \in R \cup {NrCells}
                 /\ \A c \in R : log_head <= c /\ c < log_head + g.found => hdr[c].ref = 0
           /\ g.how = "rest" => \A c \in R : log_head <= c => hdr[c].ref = 0
           /\ g.how \in {"run", "rest"}
<1> DEFINE Stop(d) == hdr[d].ref # 0 \/ hdr[d].nr = 0 \/ d - log_head + hdr[d].nr <= nr
           stops == {d \in RunsFrom(hdr, log_head) : Stop(d)}
           c == Min(stops)
<1>1. /\ log_head \in Nat /\ log_head < NrCells
      /\ \A d \in R : d \in Cells /\ d \in Nat /\ d < NrCells
  BY CellRange DEF Cut
<1>2. /\ \A d \in R : /\ hdr[d].nr \in Nat
                      /\ RunLength(hdr, d) = IF hdr[d].nr = 0 THEN NrCells - d ELSE hdr[d].nr
  BY <1>1, HeaderTyped DEF RunLength
<1>3. stops = {d \in R : log_head <= d /\ Stop(d)}
  <2>1. RunsFrom(hdr, log_head) = {d \in R : log_head <= d}
    BY WalkFinds
  <2> QED
    BY <2>1
<1>4. g = IF stops = {} THEN [found |-> 0, how |-> "past"]
          ELSE IF hdr[c].ref # 0 THEN [found |-> c - log_head, how |-> "run"]
          ELSE IF hdr[c].nr = 0 THEN [found |-> (NrCells - 2 * log_head) % 2^16, how |-> "rest"]
          ELSE [found |-> c - log_head + hdr[c].nr, how |-> "run"]
  BY DEF GatherRegion
<1>5. stops # {}
  <2> HIDE DEF stops, c
  <2> QED
    BY <1>4
<1>6. /\ c \in R /\ log_head <= c
      /\ \A d \in R : log_head <= d /\ d < c => ~Stop(d)
  <2> DEFINE S == stops
  <2>1. S \subseteq Nat
    BY <1>1, <1>3
  <2>2. Min(S) \in S /\ \A y \in S : Min(S) <= y
    <3> HIDE DEF S
    <3> QED
      BY <1>5, <2>1, MinIs DEF S
  <2>3. c \in stops /\ \A y \in stops : c <= y
    BY <2>2
  <2> HIDE DEF c, S
  <2>4. c \in R /\ log_head <= c
    BY <1>3, <2>3
  <2>5. ASSUME NEW d \in R, log_head <= d, d < c PROVE ~Stop(d)
    <3> HIDE DEF Stop
    <3> SUFFICES ASSUME Stop(d) PROVE FALSE
      OBVIOUS
    <3>1. c <= d
      BY <1>3, <2>3, <2>5
    <3> QED
      BY <1>1, <2>4, <2>5, <3>1
  <2> QED
    BY <2>4, <2>5
<1> HIDE DEF stops, c
<1>7. c \in Nat /\ c < NrCells
  BY <1>1, <1>6
<1>8. \A d \in R : log_head <= d /\ d < c => hdr[d].ref = 0
  BY <1>6
<1>9. CASE hdr[c].ref # 0
  <2>1. g = [found |-> c - log_head, how |-> "run"]
    BY <1>4, <1>5, <1>9
  <2>2. g.how = "run" /\ g.found \in Nat /\ log_head + g.found = c
    BY <1>1, <1>6, <1>7, <2>1
  <2> QED
    BY <1>6, <1>8, <2>2
<1>10. CASE hdr[c].ref = 0 /\ hdr[c].nr = 0
  <2>1. g.how = "rest"
    BY <1>4, <1>5, <1>10
  <2>2. c + RunLength(hdr, c) = NrCells
    BY <1>2, <1>6, <1>7, <1>10, Numbers
  <2>3. ASSUME NEW d \in R, log_head <= d PROVE hdr[d].ref = 0
    <3>1. ~(c < d)
      <4> SUFFICES ASSUME c < d PROVE FALSE
        OBVIOUS
      <4>1. c + RunLength(hdr, c) <= d
        BY <1>6 DEF Cut
      <4> QED
        BY <1>1, <2>2, <4>1, Numbers
    <3>2. d = c \/ d < c
      BY <1>1, <1>7, <3>1
    <3> QED
      BY <1>8, <1>10, <2>3, <3>2
  <2> QED
    BY <2>1, <2>3
<1>11. CASE hdr[c].ref = 0 /\ hdr[c].nr # 0
  <2>1. g = [found |-> c - log_head + hdr[c].nr, how |-> "run"]
    BY <1>4, <1>5, <1>11
  <2>2. /\ g.how = "run" /\ g.found \in Nat
        /\ log_head + g.found = c + RunLength(hdr, c)
    BY <1>1, <1>2, <1>6, <1>7, <1>11, <2>1
  <2>3. log_head + g.found \in R \cup {NrCells}
    BY <1>6, <2>2 DEF Cut
  <2>4. ASSUME NEW d \in R, log_head <= d, d < log_head + g.found PROVE hdr[d].ref = 0
    <3>1. ~(c < d)
      <4> SUFFICES ASSUME c < d PROVE FALSE
        OBVIOUS
      <4>1. c + RunLength(hdr, c) <= d
        BY <1>6 DEF Cut
      <4> QED
        BY <1>1, <2>2, <2>4, <4>1
    <3>2. d = c \/ d < c
      BY <1>1, <1>7, <3>1
    <3> QED
      BY <1>8, <1>11, <2>4, <3>2
  <2> QED
    BY <2>2, <2>3, <2>4
<1> QED
  BY <1>9, <1>10, <1>11

\* Multiples of the largest run.
LEMMA Multiples ==
    \A j \in Nat : /\ j * MaxByte \in Nat /\ j <= j * MaxByte
                   /\ (j + 1) * MaxByte = j * MaxByte + MaxByte
                   /\ \A l \in Nat : j < l => j * MaxByte + MaxByte <= l * MaxByte
<1> TAKE j \in Nat
<1>1. j * MaxByte \in Nat /\ j <= j * MaxByte
  BY Numbers
<1>2. (j + 1) * MaxByte = j * MaxByte + MaxByte
  BY Numbers
<1>3. ASSUME NEW l \in Nat, j < l PROVE j * MaxByte + MaxByte <= l * MaxByte
  BY <1>3, Numbers
<1> QED
  BY <1>1, <1>2, <1>3

\* Min of a pair.
LEMMA MinOfTwo ==
    ASSUME NEW x \in Nat, NEW y \in Nat
    PROVE  Min({x, y}) = IF x <= y THEN x ELSE y
<1>1. {x, y} \subseteq Nat /\ {x, y} # {}
  OBVIOUS
<1>2. Min({x, y}) \in {x, y} /\ \A z \in {x, y} : Min({x, y}) <= z
  BY <1>1, MinIs
<1> QED
  BY <1>2

\* The headers B mark the cells from first up to b as free runs.
Marks(B, first, b) ==
    /\ DOMAIN B \subseteq first .. b - 1
    /\ first < b => first \in DOMAIN B
    /\ \A c \in DOMAIN B :
          /\ B[c] \in Header /\ B[c].ref = 0
          /\ c + RunLength(B, c) \in DOMAIN B \cup {b}
          /\ \A d \in DOMAIN B : c < d => c + RunLength(B, c) <= d

\* The header written when the region is taken from the free rest of the log.
LEMMA RestMarked ==
    ASSUME NEW first \in Nat, first < NrCells, NEW B, B = [c \in {first} |-> [nr |-> 0, ref |-> 0]]
    PROVE  Marks(B, first, NrCells)
<1>1. DOMAIN B = {first} /\ B[first].nr = 0 /\ B[first].ref = 0 /\ B[first] \in Header
  BY Numbers DEF Header
<1>2. first + RunLength(B, first) = NrCells /\ first \in first .. NrCells - 1
  BY <1>1, Numbers DEF RunLength
<1> QED
  BY <1>1, <1>2 DEF Marks

\* The headers written when the region is taken from runs of known length.
LEMMA RunsMarked ==
    ASSUME NEW first \in Nat, NEW rem \in Nat, first + rem <= NrCells,
           NEW runs, runs = {j \in 0 .. NrCells : j * MaxByte < rem},
           NEW D, D = {first + j * MaxByte : j \in runs},
           NEW B, DOMAIN B = D,
           \A c \in D : B[c] = [nr |-> Min({MaxByte, first + rem - c}), ref |-> 0]
    PROVE  Marks(B, first, first + rem)
<1> DEFINE b == first + rem
<1>1. DOMAIN B = D /\ \A c \in D : B[c] = [nr |-> Min({MaxByte, first + rem - c}), ref |-> 0]
  OBVIOUS
<1>2. \A j \in runs : j \in Nat /\ j * MaxByte \in Nat /\ j * MaxByte < rem
  BY Multiples
<1>3. \A c \in D : c \in Nat /\ first <= c /\ c < b
  BY <1>2
<1>4. ASSUME NEW c \in D
      PROVE  /\ B[c] \in Header /\ B[c].ref = 0
             /\ RunLength(B, c) = IF MaxByte <= b - c THEN MaxByte ELSE b - c
  <2>1. b - c \in Nat /\ b - c > 0
    BY <1>3
  <2>2. B[c].nr = Min({MaxByte, b - c}) /\ B[c].ref = 0
       /\ B[c] = [nr |-> Min({MaxByte, b - c}), ref |-> 0]
    <3>1. b - c = first + rem - c
      BY <1>3
    <3>2. B[c] = [nr |-> Min({MaxByte, b - c}), ref |-> 0]
      BY <1>1, <3>1, Zenon
    <3> HIDE DEF b
    <3> QED
      BY <3>2
  <2>3. Min({MaxByte, b - c}) = IF MaxByte <= b - c THEN MaxByte ELSE b - c
    BY <2>1, MinOfTwo, Numbers
  <2>4. Min({MaxByte, b - c}) \in 0 .. MaxByte /\ Min({MaxByte, b - c}) # 0 /\ 0 \in 0 .. MaxByte
    BY <2>1, <2>3, Numbers
  <2>5. B[c] \in Header
    BY <2>2, <2>4 DEF Header
  <2> HIDE DEF b
  <2> QED
    BY <2>2, <2>3, <2>4, <2>5 DEF RunLength
<1>5. ASSUME NEW c \in D PROVE c + RunLength(B, c) \in D \cup {b}
  <2>0. /\ c \in Nat /\ first <= c /\ c < b /\ MaxByte \in Nat
        /\ RunLength(B, c) = IF MaxByte <= b - c THEN MaxByte ELSE b - c
    <3> HIDE DEF b
    <3> QED
      BY <1>3, <1>4, Numbers
  <2>1. CASE MaxByte < b - c
    <3>1. PICK j \in runs : c = first + j * MaxByte
      OBVIOUS
    <3>2. c + RunLength(B, c) = c + MaxByte
      BY <2>0, <2>1
    <3>3. /\ c + MaxByte = first + (j + 1) * MaxByte
          /\ (j + 1) * MaxByte < rem /\ j + 1 \in Nat /\ j + 1 <= (j + 1) * MaxByte
          /\ (j + 1) * MaxByte \in Nat
      BY <1>2, <1>3, <2>1, <3>1, Multiples, Numbers
    <3>4. j + 1 \in runs
      BY <3>3, Numbers
    <3> QED
      BY <3>2, <3>3, <3>4
  <2>2. CASE ~(MaxByte < b - c)
    <3>1. c + RunLength(B, c) = b
      BY <2>0, <2>2
    <3> QED
      BY <3>1
  <2> QED
    BY <2>1, <2>2
<1>6. ASSUME NEW c \in D, NEW d \in D, c < d PROVE c + RunLength(B, c) <= d
  <2>1. PICK j \in runs : c = first + j * MaxByte
    OBVIOUS
  <2>2. PICK l \in runs : d = first + l * MaxByte
    OBVIOUS
  <2>3. j < l
    <3> SUFFICES ASSUME l <= j PROVE FALSE
      BY <1>2
    <3>1. l = j \/ l < j
      BY <1>2
    <3>2. l * MaxByte <= j * MaxByte
      BY <1>2, <3>1, Multiples, Numbers
    <3> QED
      BY <1>2, <1>6, <2>1, <2>2, <3>2
  <2>4. c + MaxByte <= d
    BY <1>2, <2>1, <2>2, <2>3, Multiples, Numbers
  <2>5. /\ c \in Nat /\ d \in Nat /\ c < b /\ MaxByte \in Nat
        /\ RunLength(B, c) = IF MaxByte <= b - c THEN MaxByte ELSE b - c
    <3> HIDE DEF b
    <3> QED
      BY <1>3, <1>4, Numbers
  <2> QED
    BY <2>4, <2>5
<1>7. first < b => first \in D
  <2> SUFFICES ASSUME first < b PROVE first \in D
    OBVIOUS
  <2>1. 0 \in runs /\ first + 0 * MaxByte = first
    BY Numbers
  <2> QED
    BY <2>1
<1>8. D \subseteq first .. b - 1
  BY <1>3
<1> HIDE DEF b
<1> QED
  BY <1>1, <1>4, <1>5, <1>6, <1>7, <1>8 DEF Marks, b

\* A region of nr cells prepared at cell a, with the headers B behind it.
Prepared(h, a, nr, B, p) ==
    [c \in Cells |->
        CASE c = a                       -> [nr |-> nr, ref |-> 0]
          [] c \in Span(a + 1, nr - 1)   -> p
          [] c \in DOMAIN B              -> B[c]
          [] OTHER                       -> h[c]]

Unused(h, M) == \A c \in M : h[c].ref = 0

AllFree(h, R, a, b) == \A c \in R : a <= c /\ c < b => h[c].ref = 0

\* Preparing a region cuts the free runs it found anew.
LEMMA PreparedRecut ==
    ASSUME NEW h \in [Cells -> Header], NEW R, Cut(h, R), NEW a \in R,
           NEW nr \in Nat, nr > 0, nr <= MaxByte,
           NEW first, first = a + nr, NEW b, b \in R \cup {NrCells}, first <= b,
           AllFree(h, R, a, b),
           NEW B, Marks(B, first, b), NEW p \in Payloads,
           NEW k, k = Prepared(h, a, nr, B, p), NEW M, M = {a} \cup DOMAIN B
    PROVE  /\ k \in [Cells -> Header]
           /\ k[a] = [nr |-> nr, ref |-> 0]
           /\ Recut(h, k, R, a, b, M)
           /\ Unused(k, M)
<1> DEFINE D == DOMAIN B
<1>1. /\ a \in Cells /\ a \in Nat /\ a < NrCells
      /\ \A d \in R : d \in Cells /\ d \in Nat /\ d < NrCells
  BY CellRange DEF Cut
<1>2. b \in Nat /\ b <= NrCells /\ a < b
  BY <1>1, Numbers
<1>3. /\ D \subseteq first .. b - 1
      /\ first < b => first \in D
      /\ \A c \in D : /\ B[c] \in Header /\ B[c].ref = 0
                      /\ c + RunLength(B, c) \in D \cup {b}
                      /\ \A d \in D : c < d => c + RunLength(B, c) <= d
  BY DEF Marks
<1> HIDE DEF D
<1>4. \A c \in D : /\ c \in Nat /\ c \in Cells /\ first <= c /\ c < b
                   /\ c # a /\ c \notin Span(a + 1, nr - 1)
  <2> TAKE c \in D
  <2>1. c \in Nat /\ first <= c /\ c < b
    BY <1>1, <1>2, <1>3
  <2>2. c < NrCells /\ c # a /\ c \notin Span(a + 1, nr - 1)
    BY <1>1, <1>2, <2>1, Numbers DEF Span
  <2> QED
    BY <2>1, <2>2, CellRange
<1>5. a \notin Span(a + 1, nr - 1) /\ a \notin D
  BY <1>1, <1>4 DEF Span
<1>6. [nr |-> nr, ref |-> 0] \in Header /\ p \in Header
  <2>1. nr \in 0 .. MaxByte /\ 0 \in 0 .. MaxByte
    BY Numbers
  <2>2. Payloads \subseteq Header
    BY SizeAssumption DEF Header
  <2> QED
    BY <2>1, <2>2 DEF Header
<1>7. k[a] = [nr |-> nr, ref |-> 0]
  BY <1>1, <1>5 DEF Prepared, D
<1>8. \A c \in D : k[c] = B[c]
  BY <1>4 DEF Prepared, D
<1>9. \A c \in Cells : c # a /\ c \notin Span(a + 1, nr - 1) /\ c \notin D => k[c] = h[c]
  BY DEF Prepared, D
<1>10. k \in [Cells -> Header]
  <2>1. DOMAIN k = Cells /\ k = [c \in Cells |-> k[c]]
    BY DEF Prepared
  <2>2. ASSUME NEW c \in Cells PROVE k[c] \in Header
    <3>1. CASE c = a
      BY <1>6, <1>7, <3>1
    <3>2. CASE c # a /\ c \in Span(a + 1, nr - 1)
      <4>1. c \notin D
        BY <1>4, <3>2
      <4>2. k[c] = p
        BY <3>2, <4>1 DEF Prepared, D
      <4> QED
        BY <1>6, <4>2
    <3>3. CASE c \in D
      BY <1>3, <1>8, <3>3
    <3>4. CASE c # a /\ c \notin Span(a + 1, nr - 1) /\ c \notin D
      BY <1>9, <3>4
    <3> QED
      BY <3>1, <3>2, <3>3, <3>4
  <2> QED
    BY <2>1, <2>2
<1>11. \A c \in R : c < a \/ b <= c => k[c] = h[c]
  <2> TAKE c \in R
  <2> HAVE c < a \/ b <= c
  <2>1. c \in Cells /\ c # a /\ c \notin Span(a + 1, nr - 1) /\ c \notin D
    BY <1>1, <1>2, <1>4 DEF Span
  <2> QED
    BY <1>9, <2>1
<1>12. RunLength(k, a) = nr /\ \A c \in D : RunLength(k, c) = RunLength(B, c)
  BY <1>7, <1>8 DEF RunLength
<1>13. a + RunLength(k, a) \in D \cup {b}
  <2>1. first = b \/ first < b
    BY <1>1, <1>2
  <2> QED
    BY <1>3, <1>12, <2>1
<1>14. Segment(k, a, b, {a} \cup D)
  <2>1. {a} \cup D \subseteq a .. b - 1
    BY <1>1, <1>2, <1>4
  <2>2. \A d \in D : a < d => a + RunLength(k, a) <= d
    BY <1>4, <1>12
  <2>3. \A c \in D : ~(c < a)
    BY <1>1, <1>4
  <2>4. ~(a < a)
    BY <1>1
  <2>5. \A c \in D : /\ c + RunLength(k, c) \in D \cup {b}
                     /\ \A d \in D : c < d => c + RunLength(k, c) <= d
    BY <1>3, <1>12
  <2> QED
    BY <1>13, <2>1, <2>2, <2>3, <2>4, <2>5 DEF Segment
<1>15. \A c \in {a} \cup D : k[c].ref = 0
  <2>1. k[a].ref = 0
    BY <1>7
  <2>2. \A c \in D : k[c].ref = 0
    BY <1>3, <1>8, Zenon
  <2> QED
    BY <2>1, <2>2
<1> QED
  BY <1>2, <1>7, <1>10, <1>11, <1>14, <1>15 DEF Recut, D, AllFree, Unused

\* What logalloc_prepare_region writes behind the region marks it as free.
LEMMA BehindMarks ==
    ASSUME log_head \in Nat, NEW nr \in Nat, NEW g, g.how \in {"run", "rest"}, NEW b,
           IF g.how = "rest" THEN b = NrCells /\ log_head + nr < NrCells
           ELSE /\ g.found \in Nat /\ nr <= g.found
                /\ b = log_head + g.found /\ b <= NrCells
    PROVE  Marks(Behind(nr, g), log_head + nr, b)
<1> DEFINE first == log_head + nr
           rem == g.found - nr
           runs == {j \in 0 .. NrCells : j * MaxByte < rem}
           D == {first + j * MaxByte : j \in runs}
           W == [c \in D |-> [nr |-> Min({MaxByte, first + rem - c}), ref |-> 0]]
<1>1. CASE g.how = "rest"
  <2>1. Behind(nr, g) = [c \in {first} |-> [nr |-> 0, ref |-> 0]]
    BY <1>1 DEF Behind
  <2>2. first \in Nat /\ first < NrCells /\ b = NrCells
    BY <1>1
  <2> HIDE DEF first
  <2>3. Marks(Behind(nr, g), first, NrCells)
    BY <2>1, <2>2, RestMarked
  <2> QED
    BY <2>2, <2>3 DEF first
<1>2. CASE g.how = "run"
  <2>1. Behind(nr, g) = W
    BY <1>2 DEF Behind
  <2>2. first \in Nat /\ rem \in Nat /\ first + rem <= NrCells /\ first + rem = b
    BY <1>2, Numbers
  <2>3. Marks(Behind(nr, g), first, first + rem)
    <3> HIDE DEF first, rem
    <3>1. DOMAIN W = D /\ \A c \in D : W[c] = [nr |-> Min({MaxByte, first + rem - c}), ref |-> 0]
      <4> HIDE DEF D
      <4> QED
        OBVIOUS
    <3> HIDE DEF W
    <3>2. Marks(W, first, first + rem)
      BY <2>2, <3>1, RunsMarked
    <3> QED
      BY <2>1, <3>2
  <2> QED
    BY <2>2, <2>3
<1> QED
  BY <1>1, <1>2

\* logalloc_prepare_region keeps the invariant.
LEMMA PrepareStep ==
    ASSUME LogInv, NEW size \in Sizes, logalloc_prepare_region(size) PROVE LogInv'
<1>1. PICK nr : nr = Min({CellsFor(size), MaxByte})
  OBVIOUS
<1>2. PICK g : g = GatherRegion(nr)
  OBVIOUS
<1>3. PICK unsafe : unsafe = PrepareUnsafe(nr, g)
  OBVIOUS
<1>4. /\ open /\ NrCells - log_head >= nr /\ faults' = faults \cup unsafe
      /\ log_head' = log_head /\ live' = live /\ taking' = taking /\ open' = open
  <2>1. /\ open /\ log_head' = log_head /\ live' = live /\ taking' = taking /\ open' = open
    BY Zenon DEF logalloc_prepare_region, Usable
  <2>2. NrCells - log_head >= nr
    BY <1>1, Zenon DEF logalloc_prepare_region
  <2>3. faults' = faults \cup unsafe
    BY <1>1, <1>2, <1>3, Zenon DEF logalloc_prepare_region
  <2> QED
    BY <2>1, <2>2, <2>3
<1>5. \/ hdr' = hdr /\ region' = region
      \/ /\ unsafe = {} /\ ~(g.found < nr) /\ region' = nr
         /\ \E p \in Payloads : hdr' = Prepared(hdr, log_head, nr, Behind(nr, g), p)
  <2>1. IF unsafe # {} \/ g.found < nr THEN UNCHANGED <<hdr, region>>
        ELSE /\ region' = nr
             /\ \E p \in Payloads : hdr' = Prepared(hdr, log_head, nr, Behind(nr, g), p)
    <3> DEFINE n == Min({CellsFor(size), MaxByte})
               f == GatherRegion(n)
               u == PrepareUnsafe(n, f)
    <3>1. IF u # {} \/ f.found < n THEN UNCHANGED <<hdr, region>>
          ELSE /\ region' = n
               /\ \E p \in Payloads : hdr' = Prepared(hdr, log_head, n, Behind(n, f), p)
      BY Zenon DEF logalloc_prepare_region, Prepared
    <3>2. n = nr /\ f = g /\ u = unsafe
      BY <1>1, <1>2, <1>3
    <3> HIDE DEF n, f, u
    <3> QED
      BY <3>1, <3>2
  <2> QED
    BY <2>1
<1>6. LogTypeOK'
  BY <1>4 DEF LogInv, LogTypeOK
<1>7. nr \in Nat /\ nr > 0 /\ nr <= MaxByte
  <2>1. CellsFor(size) \in Nat /\ CellsFor(size) > 0
    BY SomeCells
  <2>2. nr = IF CellsFor(size) <= MaxByte THEN CellsFor(size) ELSE MaxByte
    BY <1>1, <2>1, MinOfTwo, Numbers
  <2> QED
    BY <2>1, <2>2, Numbers
<1>8. CASE faults' # {}
  BY <1>4, <1>6, <1>8 DEF LogInv
<1>9. CASE faults' = {}
  <2>1. faults = {}
    BY <1>4, <1>9
  <2>2. LogSound
    BY <1>4, <2>1 DEF LogInv
  <2>3. TakersSafe' /\ (live \in ObjectType)'
    BY <1>4, <2>2 DEF LogSound, TakersSafe, Lives, ObjectType
  <2>4. CASE hdr' = hdr /\ region' = region
    <3>1. PICK R \in SUBSET Cells : CutAt(R)
      BY <2>2 DEF LogSound
    <3>2. CutAt(R)'
      BY <1>4, <2>4, <3>1 DEF CutAt, Cut, Agree, Lives, RunLength
    <3>3. RegionFree' /\ hdr' \in [Cells -> Header]
      BY <1>4, <2>2, <2>4 DEF LogSound, RegionFree
    <3>4. LogSound'
      BY <2>3, <3>2, <3>3 DEF LogSound
    <3> QED
      BY <1>4, <1>6, <3>4 DEF LogInv
  <2>5. CASE /\ unsafe = {} /\ ~(g.found < nr) /\ region' = nr
             /\ \E p \in Payloads : hdr' = Prepared(hdr, log_head, nr, Behind(nr, g), p)
    <3>1. PICK R \in SUBSET Cells : Cut(hdr, R) /\ log_head \in R /\ Agree(hdr, live, R)
      BY <2>2 DEF LogSound, CutAt
    <3>2. log_head \in Nat /\ log_head < NrCells /\ hdr \in [Cells -> Header] /\ live \in ObjectType
      BY <2>2, <3>1, CellRange DEF LogSound
    <3>3. g.how # "past" /\ ~(g.how = "rest" /\ g.found >= nr /\ log_head + nr = NrCells)
      BY <1>3, <2>5 DEF PrepareUnsafe
    <3>4. /\ g.how = "run" =>
                /\ g.found \in Nat /\ log_head + g.found \in R \cup {NrCells}
                /\ \A c \in R : log_head <= c /\ c < log_head + g.found => hdr[c].ref = 0
          /\ g.how = "rest" => \A c \in R : log_head <= c => hdr[c].ref = 0
          /\ g.how \in {"run", "rest"}
      BY <1>2, <1>7, <3>1, <3>2, <3>3, RegionFinds
    <3>5. PICK b : b = IF g.how = "rest" THEN NrCells ELSE log_head + g.found
      OBVIOUS
    <3>6. /\ b \in R \cup {NrCells}
          /\ \A c \in R : log_head <= c /\ c < b => hdr[c].ref = 0
      BY <3>4, <3>5
    <3>7. IF g.how = "rest" THEN b = NrCells /\ log_head + nr < NrCells
          ELSE /\ g.found \in Nat /\ nr <= g.found
               /\ b = log_head + g.found /\ b <= NrCells
      <4>1. CASE g.how = "rest"
        <5>1. g.found >= nr
          <6>1. g.found \in Int
            <7> DEFINE x == (NrCells - 2 * log_head) % 2^16
            <7>1. x \in Int
              BY <3>2, Numbers
            <7>2. g.found = x
              <8> HIDE DEF x
              <8> QED
                BY <1>2, <4>1 DEF GatherRegion, x
            <7> QED
              BY <7>1, <7>2
          <6> QED
            BY <1>7, <2>5, <6>1
        <5>2. log_head + nr # NrCells
          BY <3>3, <4>1, <5>1
        <5> QED
          BY <1>4, <1>7, <3>2, <3>5, <4>1, <5>2, Numbers
      <4>2. CASE g.how = "run"
        <5>1. g.found \in Nat /\ b = log_head + g.found /\ nr <= g.found
          BY <1>7, <2>5, <3>4, <3>5, <4>2
        <5>2. b <= NrCells
          BY <3>1, <3>6, CellRange, Numbers
        <5> QED
          BY <4>2, <5>1, <5>2
      <4> QED
        BY <3>4, <4>1, <4>2
    <3>8. log_head + nr <= b
      BY <1>7, <3>2, <3>4, <3>7, Numbers
    <3>9. PICK B : B = Behind(nr, g)
      OBVIOUS
    <3>10. Marks(B, log_head + nr, b)
      BY <1>7, <3>2, <3>4, <3>7, <3>9, BehindMarks
    <3>11. PICK p \in Payloads : hdr' = Prepared(hdr, log_head, nr, B, p)
      BY <2>5, <3>9
    <3>12. PICK k : k = hdr'
      OBVIOUS
    <3>13. PICK M : M = {log_head} \cup DOMAIN B
      OBVIOUS
    <3>14. /\ k \in [Cells -> Header]
           /\ k[log_head] = [nr |-> nr, ref |-> 0]
           /\ Recut(hdr, k, R, log_head, b, M)
           /\ \A c \in M : k[c].ref = 0
      <4>1. k = Prepared(hdr, log_head, nr, B, p)
        BY <3>11, <3>12
      <4>2. PICK first : first = log_head + nr
        OBVIOUS
      <4>3. Marks(B, first, b) /\ first <= b
        BY <3>8, <3>10, <4>2
      <4>4. AllFree(hdr, R, log_head, b) /\ b \in R \cup {NrCells}
        BY <3>6 DEF AllFree
      <4>5. p \in Payloads
        BY <3>11
      <4>6. /\ k \in [Cells -> Header]
            /\ k[log_head] = [nr |-> nr, ref |-> 0]
            /\ Recut(hdr, k, R, log_head, b, M)
            /\ Unused(k, M)
        BY <1>7, <3>1, <3>2, <3>13, <4>1, <4>2, <4>3, <4>4, <4>5, PreparedRecut
      <4> QED
        BY <4>6 DEF Unused
    <3>15. PICK Q : Q = Cuts(R, log_head, b, M)
      OBVIOUS
    <3>16. Cut(k, Q)
      BY <3>1, <3>2, <3>14, <3>15, RecutCuts
    <3>17. Agree(k, live, Q)
      BY <3>1, <3>2, <3>14, <3>15, RecutFree
    <3>18. log_head \in Q
      BY <3>13, <3>15 DEF Cuts
    <3>19. CutAt(Q)' /\ Q \in SUBSET Cells
      BY <1>4, <3>12, <3>16, <3>17, <3>18 DEF CutAt, Cut, Agree, Lives, RunLength
    <3>20. RegionFree' /\ hdr' \in [Cells -> Header]
      <4>1. k[log_head].nr = nr /\ k[log_head].ref = 0
        BY <3>14
      <4> QED
        BY <1>4, <1>7, <3>12, <3>14, <4>1 DEF RegionFree
    <3>21. LogSound'
      BY <2>3, <3>19, <3>20 DEF LogSound
    <3> QED
      BY <1>4, <1>6, <3>21 DEF LogInv
  <2> QED
    BY <1>5, <2>4, <2>5
<1> QED
  BY <1>8, <1>9

\* Of the nr cells from a up to b the first used ones are taken, the rest, at c,
\* stays free.
Finalization(h, a, used, nr, b, c, M, k) ==
    /\ nr = h[a].nr /\ used < nr
    /\ b = a + nr /\ c = a + used /\ M = {a, c}
    /\ k = [h EXCEPT ![a] = [nr |-> used, ref |-> 1], ![c] = [nr |-> nr - used, ref |-> 0]]

\* Finalizing a part of a region cuts the region in two.
LEMMA FinalizedRecut ==
    ASSUME NEW h \in [Cells -> Header], NEW R, Cut(h, R), NEW a \in R, h[a].ref = 0,
           NEW used \in Nat, used > 0, NEW nr, NEW b, NEW c, NEW M, NEW k,
           Finalization(h, a, used, nr, b, c, M, k)
    PROVE  /\ k \in [Cells -> Header] /\ c < NrCells
           /\ k[a].nr = used /\ k[a].ref = 1 /\ k[c].ref = 0
           /\ Recut(h, k, R, a, b, M)
<1>1. /\ nr = h[a].nr /\ used < nr
      /\ b = a + nr /\ c = a + used /\ M = {a, c}
      /\ k = [h EXCEPT ![a] = [nr |-> used, ref |-> 1], ![c] = [nr |-> nr - used, ref |-> 0]]
  BY DEF Finalization
<1>2. /\ a \in Cells /\ a \in Nat /\ a < NrCells
      /\ \A d \in R : d \in Cells /\ d \in Nat /\ d < NrCells
  BY CellRange DEF Cut
<1>3. nr \in Nat /\ nr <= MaxByte /\ nr # 0 /\ RunLength(h, a) = nr
  <2>1. nr \in Nat /\ nr <= MaxByte
    BY <1>1, <1>2, HeaderTyped
  <2>2. nr # 0
    BY <1>1, <2>1
  <2> QED
    BY <1>1, <2>1, <2>2 DEF RunLength
<1>4. b \in R \cup {NrCells} /\ \A d \in R : a < d => b <= d
  BY <1>1, <1>3 DEF Cut
<1>5. b \in Nat /\ b <= NrCells /\ a < b
  <2>1. b \in Nat /\ a < b
    BY <1>1, <1>2, <1>3
  <2>2. CASE b \in R
    BY <1>2, <2>1, <2>2, Numbers
  <2> QED
    BY <1>4, <2>1, <2>2, Numbers
<1>6. PICK rem : rem = nr - used
  OBVIOUS
<1>7. /\ c \in Nat /\ a < c /\ c < b /\ c < NrCells /\ c \in Cells
      /\ rem \in Nat /\ rem # 0 /\ rem <= MaxByte /\ c + rem = b
  <2>1. /\ c \in Nat /\ a < c /\ c < b /\ c < NrCells
        /\ rem \in Nat /\ rem # 0 /\ rem <= MaxByte /\ c + rem = b
    BY <1>1, <1>2, <1>3, <1>5, <1>6, Numbers
  <2> QED
    BY <2>1, CellRange
<1>8. [nr |-> used, ref |-> 1] \in Header /\ [nr |-> rem, ref |-> 0] \in Header
  <2>1. used \in 0 .. MaxByte /\ rem \in 0 .. MaxByte /\ 0 \in 0 .. MaxByte /\ 1 \in 0 .. MaxByte
    BY <1>1, <1>3, <1>7, Numbers
  <2> QED
    BY <2>1 DEF Header
<1>9. /\ k \in [Cells -> Header]
      /\ k[a] = [nr |-> used, ref |-> 1] /\ k[c] = [nr |-> rem, ref |-> 0]
      /\ \A d \in Cells : d # a /\ d # c => k[d] = h[d]
  <2>1. k = [h EXCEPT ![a] = [nr |-> used, ref |-> 1], ![c] = [nr |-> rem, ref |-> 0]]
    BY <1>1, <1>6
  <2>2. a # c
    BY <1>2, <1>7
  <2>3. PICK x \in Header : x = [nr |-> used, ref |-> 1]
    BY <1>8
  <2>4. PICK y \in Header : y = [nr |-> rem, ref |-> 0]
    BY <1>8
  <2>5. k = [h EXCEPT ![a] = x, ![c] = y]
    BY <2>1, <2>3, <2>4
  <2>6. /\ k \in [Cells -> Header] /\ k[a] = x /\ k[c] = y
        /\ \A d \in Cells : d # a /\ d # c => k[d] = h[d]
    BY <1>2, <1>7, <2>2, <2>3, <2>4, <2>5
  <2> QED
    BY <2>3, <2>4, <2>6
<1>10. k[a].nr = used /\ k[a].ref = 1 /\ k[c].ref = 0 /\ k[c].nr = rem
  BY <1>9
<1>11. a + RunLength(k, a) = c /\ c + RunLength(k, c) = b
  BY <1>1, <1>2, <1>7, <1>10 DEF RunLength
<1>12. Segment(k, a, b, {a, c})
  <2>1. {a, c} \subseteq a .. b - 1 /\ a \in {a, c}
    BY <1>2, <1>5, <1>7
  <2>2. /\ a + RunLength(k, a) \in {a, c} \cup {b}
        /\ c + RunLength(k, c) \in {a, c} \cup {b}
    BY <1>11
  <2>3. a + RunLength(k, a) <= c /\ ~(c < a) /\ ~(a < a) /\ ~(c < c)
    BY <1>2, <1>7, <1>11
  <2>4. \A d, e \in {a, c} : d < e => d + RunLength(k, d) <= e
    BY <2>3
  <2> QED
    BY <2>1, <2>2, <2>4 DEF Segment
<1>13. ASSUME NEW d \in R, d < a \/ b <= d PROVE k[d] = h[d]
  <2>1. d \in Cells /\ d # a /\ d # c
    BY <1>2, <1>3, <1>7, <1>13
  <2> QED
    BY <1>9, <2>1
<1>14. ASSUME NEW d \in R, a <= d, d < b PROVE h[d].ref = 0
  <2>1. d = a
    BY <1>2, <1>3, <1>4, <1>14
  <2> QED
    BY <2>1
<1>15. Recut(h, k, R, a, b, {a, c})
  BY <1>4, <1>5, <1>12, <1>13, <1>14 DEF Recut
<1> QED
  BY <1>1, <1>7, <1>9, <1>10, <1>15

\* logalloc_finalize_region keeps the invariant.
LEMMA FinalizeStep ==
    ASSUME LogInv, NEW size \in Sizes, logalloc_finalize_region(size) PROVE LogInv'
<1>1. PICK used : used = CellsFor(size)
  OBVIOUS
<1>2. PICK rest : rest = (log_head + used) % NrCells
  OBVIOUS
<1>3. PICK nr : nr = hdr[log_head].nr
  OBVIOUS
<1>4. /\ open /\ region > 0 /\ used <= nr /\ region' = 0 /\ log_head' = rest
      /\ taking' = taking /\ open' = open
  BY <1>1, <1>2, <1>3 DEF logalloc_finalize_region, Usable
<1>5. nr # used => hdr' = [hdr EXCEPT ![log_head] = [nr |-> used, ref |-> 1],
                                      ![rest] = [nr |-> nr - used, ref |-> 0]]
  BY <1>1, <1>2, <1>3 DEF logalloc_finalize_region, Usable
<1>6. faults' = faults \cup (IF nr = used THEN {"not marked"} ELSE {})
                        \cup (IF Spills(size) THEN {"spilled"} ELSE {})
  BY <1>1, <1>2, <1>3 DEF logalloc_finalize_region, Usable
<1>7. \E o \in Objects \ Lives(live) :
          live' = [live EXCEPT ![o] = [at |-> log_head, len |-> used, refs |-> 1]]
  BY <1>1 DEF logalloc_finalize_region, Live, Lives
<1>8. LogTypeOK'
  BY <1>4 DEF LogInv, LogTypeOK
<1>9. used \in Nat /\ used > 0
  BY <1>1, SomeCells
<1>10. CASE faults' # {}
  BY <1>4, <1>8, <1>10 DEF LogInv
<1>11. CASE faults' = {}
  <2>1. faults = {} /\ nr # used
    <3>1. nr = used => "not marked" \in faults'
      BY <1>6
    <3>2. faults \subseteq faults'
      BY <1>6
    <3> QED
      BY <1>11, <3>1, <3>2
  <2>2. LogSound
    BY <1>4, <2>1 DEF LogInv
  <2>3. PICK R \in SUBSET Cells : Cut(hdr, R) /\ log_head \in R /\ Agree(hdr, live, R)
    BY <2>2 DEF LogSound, CutAt
  <2>4. /\ log_head \in Nat /\ log_head < NrCells /\ log_head \in Cells
        /\ hdr \in [Cells -> Header] /\ live \in ObjectType /\ TakersSafe
        /\ hdr[log_head].ref = 0
    BY <1>4, <2>2, <2>3, CellRange DEF LogSound, RegionFree
  <2>5. nr \in Nat /\ used < nr
    <3>1. nr \in Nat
      BY <1>3, <2>4, HeaderTyped
    <3> QED
      BY <1>4, <1>9, <2>1, <3>1
  <2>6. log_head + RunLength(hdr, log_head) \in R \cup {NrCells} /\ RunLength(hdr, log_head) = nr
    BY <1>3, <1>9, <2>3, <2>5 DEF Cut, RunLength
  <2>7. rest = log_head + used
    <3>1. log_head + nr <= NrCells
      BY <2>3, <2>6, CellRange, Numbers
    <3>2. log_head + used \in Nat /\ log_head + used < NrCells
      BY <1>9, <2>4, <2>5, <3>1, Numbers
    <3> QED
      BY <1>2, <3>2, WrapHead, Numbers
  <2>8. PICK k : k = hdr'
    OBVIOUS
  <2>9. PICK m : m = live'
    OBVIOUS
  <2>10. PICK c : c = log_head + used
    OBVIOUS
  <2>11. PICK M : M = {log_head, c}
    OBVIOUS
  <2>12. PICK b : b = log_head + nr
    OBVIOUS
  <2>13. /\ k \in [Cells -> Header]
         /\ k[log_head].nr = used /\ k[log_head].ref = 1 /\ k[c].ref = 0
         /\ Recut(hdr, k, R, log_head, b, M)
    <3>1. Finalization(hdr, log_head, used, nr, b, c, M, k)
      BY <1>3, <1>5, <2>1, <2>5, <2>7, <2>8, <2>10, <2>12, <2>11 DEF Finalization
    <3> QED
      BY <1>9, <2>3, <2>4, <3>1, FinalizedRecut
  <2>14. PICK Q : Q = Cuts(R, log_head, b, M)
    OBVIOUS
  <2>15. Cut(k, Q)
    BY <2>3, <2>4, <2>13, <2>14, RecutCuts
  <2>16. PICK o \in Objects \ Lives(live) :
            m = [live EXCEPT ![o] = [at |-> log_head, len |-> used, refs |-> 1]]
    BY <1>7, <2>9
  <2>17. m \in ObjectType /\ Agree(k, m, Q)
    <3>1. Given(k, M, live, o, log_head, used, m)
      <4>1. \A d \in M : d # log_head => k[d].ref = 0
        BY <2>11, <2>13
      <4> QED
        BY <2>13, <2>16, <4>1 DEF Given
    <3>2. Cut(hdr, R) /\ Agree(hdr, live, R) /\ live \in ObjectType
      BY <2>3, <2>4
    <3> QED
      BY <1>9, <2>13, <2>14, <2>16, <3>1, <3>2, RecutTaken
  <2>18. rest \in Q
    BY <2>7, <2>10, <2>14, <2>11 DEF Cuts
  <2>19. TakersSafe'
    <3>1. \A q \in Objects : q # o => m[q] = live[q]
      BY <2>4, <2>16 DEF ObjectType
    <3>2. \A q \in Lives(live) : q \in Lives(m) /\ m[q] = live[q]
      BY <2>16, <3>1 DEF Lives
    <3>3. Lives(live)' = Lives(m)
      BY <2>9 DEF Lives
    <3> QED
      BY <1>4, <2>4, <2>9, <3>2, <3>3 DEF TakersSafe
  <2>20. CutAt(Q)' /\ Q \in SUBSET Cells
    BY <1>4, <2>8, <2>9, <2>15, <2>17, <2>18 DEF CutAt, Cut, Agree, Lives, RunLength
  <2>21. RegionFree'
    BY <1>4 DEF RegionFree
  <2>22. hdr' \in [Cells -> Header] /\ (live \in ObjectType)'
    BY <2>8, <2>9, <2>13, <2>17 DEF ObjectType
  <2>23. LogSound'
    BY <2>19, <2>20, <2>21, <2>22 DEF LogSound
  <2> QED
    BY <1>4, <1>8, <2>23 DEF LogInv
<1> QED
  BY <1>10, <1>11

-------------------------------------------------------------------------------
(* References.                                                             *)

\* n references are held to object o from now on, and its header says so.
Recounted(h, l, o, n, k, m) ==
    /\ k = [h EXCEPT ![l[o].at].ref = n]
    /\ m = IF n = 0 THEN [l EXCEPT ![o] = NoObject] ELSE [l EXCEPT ![o].refs = n]

\* Headers and objects agree after a reference is taken or released.
LEMMA Recount ==
    ASSUME NEW h \in [Cells -> Header], NEW R, Cut(h, R), NEW l \in ObjectType, Agree(h, l, R),
           NEW o \in Lives(l), NEW n \in Nat, n <= MaxByte, NEW k, NEW m,
           Recounted(h, l, o, n, k, m)
    PROVE  /\ k \in [Cells -> Header] /\ Cut(k, R)
           /\ m \in ObjectType /\ Agree(k, m, R)
           /\ m[o].refs = n /\ \A p \in Objects : p # o => m[p] = l[p]
           /\ \A c \in Cells : c # l[o].at => k[c] = h[c]
<1>1. PICK a : a = l[o].at
  OBVIOUS
<1>2. R \subseteq Cells
  BY DEF Cut
<1>3. /\ o \in Objects /\ a \in R /\ a \in Cells /\ a \in Nat
      /\ h[a].nr = l[o].len /\ h[a].ref = l[o].refs /\ l[o].len > 0
  BY <1>1, <1>2, CellRange DEF Agree, Lives
<1>4. /\ k \in [Cells -> Header]
      /\ k[a].nr = h[a].nr /\ k[a].ref = n
      /\ \A c \in Cells : c # a => k[c] = h[c]
  <2>1. k = [h EXCEPT ![a].ref = n]
    BY <1>1 DEF Recounted
  <2>2. n \in 0 .. MaxByte
    BY Numbers
  <2>3. PICK x : x = h[a]
    OBVIOUS
  <2>4. x \in Header /\ [x EXCEPT !.ref = n] \in Header
    BY <1>3, <2>2, <2>3 DEF Header
  <2>5. [x EXCEPT !.ref = n].nr = x.nr /\ [x EXCEPT !.ref = n].ref = n
    BY <2>4 DEF Header
  <2>6. k = [h EXCEPT ![a] = [x EXCEPT !.ref = n]]
    BY <2>1, <2>3
  <2>7. PICK y \in Header : y = [x EXCEPT !.ref = n]
    BY <2>4
  <2>8. k \in [Cells -> Header] /\ k[a] = y /\ \A c \in Cells : c # a => k[c] = h[c]
    BY <1>3, <2>6, <2>7
  <2> QED
    BY <2>3, <2>5, <2>7, <2>8
<1>5. /\ m \in ObjectType /\ m[o].refs = n
      /\ n # 0 => m[o].at = a /\ m[o].len = l[o].len
      /\ \A p \in Objects : p # o => m[p] = l[p]
  <2>1. CASE n = 0
    <3>1. m = [l EXCEPT ![o] = NoObject]
      BY <2>1 DEF Recounted
    <3>2. NoObject \in [at : Nat, len : Nat, refs : Nat] /\ NoObject.refs = 0
      BY DEF NoObject
    <3> HIDE DEF NoObject
    <3> QED
      BY <1>3, <2>1, <3>1, <3>2 DEF ObjectType
  <2>2. CASE n # 0
    <3>1. m = [l EXCEPT ![o].refs = n]
      BY <2>2 DEF Recounted
    <3>2. m = [l EXCEPT ![o] = [l[o] EXCEPT !.refs = n]]
      BY <3>1
    <3>3. l[o] \in [at : Nat, len : Nat, refs : Nat]
      BY <1>3 DEF ObjectType
    <3>4. PICK x : x = [l[o] EXCEPT !.refs = n]
      OBVIOUS
    <3>5. x \in [at : Nat, len : Nat, refs : Nat] /\ x.refs = n /\ x.at = l[o].at /\ x.len = l[o].len
      BY <3>3, <3>4
    <3>6. m \in ObjectType /\ m[o] = x /\ \A p \in Objects : p # o => m[p] = l[p]
      BY <1>3, <3>2, <3>4, <3>5 DEF ObjectType
    <3> QED
      BY <1>1, <3>5, <3>6
  <2> QED
    BY <2>1, <2>2
<1>6. Cut(k, R)
  <2>1. \A c \in R : k[c].nr = h[c].nr
    BY <1>2, <1>4
  <2> QED
    BY <1>4, <2>1, CutKept
<1>7. \A p \in Lives(l) : p # o => l[p].at # a /\ l[p].at \in R /\ l[p].at \in Cells
  BY <1>1, <1>2 DEF Agree
<1>8. \A p \in Objects : p # o => (p \in Lives(m) <=> p \in Lives(l))
  BY <1>5 DEF Lives
<1>9. o \in Lives(m) <=> n # 0
  BY <1>3, <1>5 DEF Lives
<1>10. \A p \in Lives(m) : /\ p \in Objects /\ m[p].at \in R /\ m[p].len > 0
                           /\ k[m[p].at].nr = m[p].len /\ k[m[p].at].ref = m[p].refs
  <2> TAKE p \in Lives(m)
  <2>1. CASE p = o
    BY <1>3, <1>4, <1>5, <1>9, <2>1
  <2>2. CASE p # o
    <3>1. p \in Objects
      BY DEF Lives
    <3>2. p \in Lives(l) /\ m[p] = l[p]
      BY <1>5, <1>8, <2>2, <3>1
    <3>3. k[l[p].at] = h[l[p].at]
      BY <1>4, <1>7, <2>2, <3>2
    <3> QED
      BY <3>1, <3>2, <3>3 DEF Agree
  <2> QED
    BY <2>1, <2>2
<1>11. ASSUME NEW c \in R, k[c].ref # 0 PROVE \E p \in Lives(m) : m[p].at = c
  <2>1. CASE c = a
    <3>1. n # 0
      BY <1>4, <1>11, <2>1
    <3> QED
      BY <1>5, <1>9, <2>1, <3>1
  <2>2. CASE c # a
    <3>1. h[c].ref # 0
      BY <1>2, <1>4, <1>11, <2>2
    <3>2. PICK p \in Lives(l) : l[p].at = c
      BY <3>1 DEF Agree
    <3>3. p # o /\ p \in Objects
      BY <1>1, <2>2, <3>2 DEF Lives
    <3> QED
      BY <1>5, <1>8, <3>2, <3>3
  <2> QED
    BY <2>1, <2>2
<1>12. ASSUME NEW p \in Lives(m), NEW q \in Lives(m), m[p].at = m[q].at PROVE p = q
  <2>1. p \in Objects /\ q \in Objects
    BY DEF Lives
  <2>2. CASE p # o /\ q # o
    <3>1. p \in Lives(l) /\ q \in Lives(l) /\ m[p] = l[p] /\ m[q] = l[q]
      BY <1>5, <1>8, <2>1, <2>2
    <3> QED
      BY <1>12, <3>1 DEF Agree
  <2>3. CASE p = o /\ q # o
    BY <1>5, <1>7, <1>8, <1>9, <1>12, <2>1, <2>3
  <2>4. CASE p # o /\ q = o
    BY <1>5, <1>7, <1>8, <1>9, <1>12, <2>1, <2>4
  <2> QED
    BY <2>2, <2>3, <2>4
<1>13. Agree(k, m, R)
  BY <1>10, <1>11, <1>12 DEF Agree
<1> QED
  BY <1>1, <1>4, <1>5, <1>6, <1>13

\* The invariant is kept when the number of references to an object changes and
\* nobody is left to rely on what it was.
LEMMA RecountSound ==
    ASSUME LogSound, NEW o \in Lives(live), NEW n \in Nat, n <= MaxByte,
           Recounted(hdr, live, o, n, hdr', live'),
           log_head' = log_head, region' = region,
           \A t \in Threads : taking'[t] # None =>
               taking'[t] = taking[t] /\ (taking[t] = o => n > 0 /\ n < MaxByte)
    PROVE  LogSound'
<1>1. PICK R \in SUBSET Cells : Cut(hdr, R) /\ log_head \in R /\ Agree(hdr, live, R)
  BY DEF LogSound, CutAt
<1>2. /\ hdr \in [Cells -> Header] /\ live \in ObjectType /\ RegionFree /\ TakersSafe
      /\ log_head \in Cells
  BY <1>1 DEF LogSound, Cut
<1>3. PICK k : k = hdr'
  OBVIOUS
<1>4. PICK m : m = live'
  OBVIOUS
<1>5. Recounted(hdr, live, o, n, k, m)
  BY <1>3, <1>4
<1>6. /\ k \in [Cells -> Header] /\ Cut(k, R)
      /\ m \in ObjectType /\ Agree(k, m, R)
      /\ m[o].refs = n /\ \A p \in Objects : p # o => m[p] = live[p]
      /\ \A c \in Cells : c # live[o].at => k[c] = hdr[c]
  BY <1>1, <1>2, <1>5, Recount
<1>7. CutAt(R)'
  BY <1>1, <1>3, <1>4, <1>6 DEF CutAt, Cut, Agree, Lives, RunLength
<1>8. RegionFree'
  <2>1. ASSUME region > 0 PROVE live[o].at # log_head
    <3>1. hdr[log_head].ref = 0
      BY <1>2, <2>1 DEF RegionFree
    <3>2. hdr[live[o].at].ref = live[o].refs /\ live[o].refs > 0 /\ live[o].refs \in Nat
      BY <1>1, <1>2 DEF Agree, Lives, ObjectType
    <3> QED
      BY <3>1, <3>2
  <2> QED
    BY <1>2, <1>3, <1>6, <2>1 DEF RegionFree
<1>9. TakersSafe'
  <2>1. ASSUME NEW t \in Threads, taking'[t] # None
        PROVE  taking'[t] \in Lives(m) /\ m[taking'[t]].refs < MaxByte
    <3>1. PICK p : p = taking'[t]
      OBVIOUS
    <3>2. p = taking[t] /\ p # None /\ (p = o => n > 0 /\ n < MaxByte)
      BY <2>1, <3>1
    <3>3. p \in Lives(live) /\ p \in Objects /\ live[p].refs < MaxByte
      BY <1>2, <3>2 DEF TakersSafe, Lives
    <3>4. CASE p = o
      BY <1>6, <3>1, <3>2, <3>3, <3>4 DEF Lives
    <3>5. CASE p # o
      <4>1. m[p] = live[p]
        BY <1>6, <3>3, <3>5
      <4> QED
        BY <3>1, <3>3, <4>1 DEF Lives
    <3> QED
      BY <3>4, <3>5
  <2>2. Lives(live)' = Lives(m)
    BY <1>4 DEF Lives
  <2> QED
    BY <1>4, <2>1, <2>2 DEF TakersSafe
<1>10. hdr' \in [Cells -> Header] /\ (live \in ObjectType)'
  BY <1>3, <1>4, <1>6 DEF ObjectType
<1> QED
  BY <1>7, <1>8, <1>9, <1>10 DEF LogSound

\* One thread takes references.  logalloc_reference tests the count before it
\* increments it: two threads can both pass the test when one reference is left.
OneTaker == \A t, u \in Threads : t = u

\* The test of logalloc_reference keeps the invariant.
LEMMA ReferenceCheckStep ==
    ASSUME LogInv, NEW t \in Threads, NEW o \in Objects, ReferenceCheck(t, o) PROVE LogInv'
<1>1. /\ open /\ o \in Lives(live) /\ hdr[live[o].at].ref # MaxByte
      /\ taking' = [taking EXCEPT ![t] = o]
      /\ hdr' = hdr /\ log_head' = log_head /\ region' = region /\ live' = live
      /\ faults' = faults /\ open' = open
  BY DEF ReferenceCheck, Live, Lives
<1>2. taking \in [Threads -> Objects \cup {None}] /\ LogTypeOK'
  BY <1>1 DEF LogInv, LogTypeOK
<1>3. ASSUME faults = {} PROVE LogSound'
  <2>1. LogSound
    BY <1>1, <1>3 DEF LogInv
  <2>2. PICK R \in SUBSET Cells : CutAt(R)
    BY <2>1 DEF LogSound
  <2>3. CutAt(R)'
    BY <1>1, <2>2 DEF CutAt, Cut, Agree, Lives, RunLength
  <2>4. hdr' \in [Cells -> Header] /\ (live \in ObjectType)' /\ RegionFree'
    BY <1>1, <2>1 DEF LogSound, ObjectType, RegionFree
  <2>5. live[o].refs < MaxByte
    <3>1. live[o].at \in Cells /\ hdr[live[o].at].ref = live[o].refs
      BY <1>1, <2>2 DEF CutAt, Cut, Agree
    <3>2. hdr[live[o].at].ref \in Nat /\ hdr[live[o].at].ref <= MaxByte
      BY <2>1, <3>1, HeaderTyped DEF LogSound
    <3> QED
      BY <1>1, <3>1, <3>2, Numbers
  <2>6. TakersSafe'
    <3>1. TakersSafe
      BY <2>1 DEF LogSound
    <3>2. ASSUME NEW u \in Threads, taking'[u] # None
          PROVE  taking'[u] \in Lives(live) /\ live[taking'[u]].refs < MaxByte
      <4>1. CASE u = t
        <5>1. taking'[u] = o
          BY <1>1, <1>2, <4>1
        <5> QED
          BY <1>1, <2>5, <5>1
      <4>2. CASE u # t
        <5>1. taking'[u] = taking[u]
          BY <1>1, <1>2, <4>2
        <5> QED
          BY <3>1, <3>2, <5>1 DEF TakersSafe
      <4> QED
        BY <4>1, <4>2
    <3> QED
      BY <1>1, <3>2 DEF TakersSafe, Lives
  <2> QED
    BY <2>3, <2>4, <2>6 DEF LogSound
<1> QED
  BY <1>1, <1>2, <1>3 DEF LogInv

\* The increment of logalloc_reference keeps the invariant.
LEMMA ReferenceIncStep ==
    ASSUME LogInv, OneTaker, NEW t \in Threads, ReferenceInc(t) PROVE LogInv'
<1>1. PICK o : o = taking[t]
  OBVIOUS
<1>2. /\ open /\ o # None
      /\ hdr' = [hdr EXCEPT ![live[o].at].ref = (hdr[live[o].at].ref + 1) % (MaxByte + 1)]
      /\ live' = [live EXCEPT ![o].refs = live[o].refs + 1]
      /\ taking' = [taking EXCEPT ![t] = None]
      /\ log_head' = log_head /\ region' = region /\ faults' = faults /\ open' = open
  BY <1>1 DEF ReferenceInc
<1>3. taking \in [Threads -> Objects \cup {None}] /\ LogTypeOK'
  BY <1>2 DEF LogInv, LogTypeOK
<1>4. ASSUME faults = {} PROVE LogSound'
  <2>1. LogSound
    BY <1>2, <1>4 DEF LogInv
  <2>2. PICK R \in SUBSET Cells : CutAt(R)
    BY <2>1 DEF LogSound
  <2>3. o \in Lives(live) /\ live[o].refs < MaxByte
    BY <1>1, <1>2, <2>1 DEF LogSound, TakersSafe
  <2>4. live[o].refs \in Nat /\ hdr[live[o].at].ref = live[o].refs
    BY <2>1, <2>2, <2>3 DEF LogSound, CutAt, Agree, ObjectType, Lives
  <2>5. PICK n : n = live[o].refs + 1
    OBVIOUS
  <2>6. n \in Nat /\ n # 0 /\ n <= MaxByte /\ (hdr[live[o].at].ref + 1) % (MaxByte + 1) = n
    <3>1. n \in Nat /\ n # 0 /\ n <= MaxByte
      BY <2>3, <2>4, <2>5, Numbers
    <3>2. n % (MaxByte + 1) = n
      BY <3>1, Numbers
    <3> QED
      BY <2>4, <2>5, <3>1, <3>2
  <2>7. Recounted(hdr, live, o, n, hdr', live')
    <3>1. hdr' = [hdr EXCEPT ![live[o].at].ref = n]
      BY <1>2, <2>6, Zenon
    <3>2. live' = [live EXCEPT ![o].refs = n]
      BY <1>2, <2>5, Zenon
    <3> QED
      BY <2>6, <3>1, <3>2 DEF Recounted
  <2>8. \A u \in Threads : taking'[u] = None
    BY <1>2, <1>3 DEF OneTaker
  <2> QED
    BY <1>2, <2>1, <2>3, <2>6, <2>7, <2>8, RecountSound
<1> QED
  BY <1>2, <1>3, <1>4 DEF LogInv

\* logalloc_free keeps the invariant.
LEMMA FreeStep ==
    ASSUME LogInv, OneTaker, NEW o \in Objects, logalloc_free(o) PROVE LogInv'
<1>1. /\ open /\ o \in Lives(live) /\ live[o].refs > Cardinality(Takers(o))
      /\ hdr' = IF hdr[live[o].at].ref = 0 THEN hdr
                ELSE [hdr EXCEPT ![live[o].at].ref = hdr[live[o].at].ref - 1]
      /\ live' = IF live[o].refs = 1 THEN [live EXCEPT ![o] = NoObject]
                 ELSE [live EXCEPT ![o].refs = live[o].refs - 1]
      /\ log_head' = log_head /\ region' = region /\ faults' = faults /\ open' = open
      /\ taking' = taking
  BY DEF logalloc_free, Live, Lives
<1>2. LogTypeOK'
  BY <1>1 DEF LogInv, LogTypeOK
<1>3. ASSUME faults = {} PROVE LogSound'
  <2>1. LogSound
    BY <1>1, <1>3 DEF LogInv
  <2>2. PICK R \in SUBSET Cells : CutAt(R)
    BY <2>1 DEF LogSound
  <2>3. /\ live[o].refs \in Nat /\ live[o].refs > 0 /\ hdr[live[o].at].ref = live[o].refs
        /\ hdr[live[o].at].ref <= MaxByte
    <3>1. live[o].at \in Cells /\ hdr[live[o].at].ref = live[o].refs
      BY <1>1, <2>2 DEF CutAt, Cut, Agree
    <3>2. hdr[live[o].at].ref \in Nat /\ hdr[live[o].at].ref <= MaxByte
      BY <2>1, <3>1, HeaderTyped DEF LogSound
    <3> QED
      BY <1>1, <3>1, <3>2 DEF Lives
  <2>4. PICK n : n = live[o].refs - 1
    OBVIOUS
  <2>5. n \in Nat /\ n <= MaxByte /\ n < MaxByte /\ (n = 0 <=> live[o].refs = 1)
    BY <2>3, <2>4, Numbers
  <2>6. Recounted(hdr, live, o, n, hdr', live')
    <3>1. hdr' = [hdr EXCEPT ![live[o].at].ref = n]
      BY <1>1, <2>3, <2>4
    <3>2. CASE n = 0
      <4>1. live' = [live EXCEPT ![o] = NoObject]
        BY <1>1, <2>5, <3>2
      <4> QED
        BY <3>1, <3>2, <4>1 DEF Recounted
    <3>3. CASE n # 0
      <4>1. live' = [live EXCEPT ![o].refs = n]
        BY <1>1, <2>4, <2>5, <3>3
      <4> QED
        BY <3>1, <3>3, <4>1 DEF Recounted
    <3> QED
      BY <3>2, <3>3
  <2>7. ASSUME NEW t \in Threads, taking[t] = o PROVE n > 0
    <3>1. Takers(o) = {t}
      BY <2>7 DEF Takers, OneTaker
    <3>2. Cardinality(Takers(o)) = 1
      BY <3>1, FS_Singleton
    <3> QED
      BY <1>1, <2>3, <2>4, <3>2
  <2> QED
    BY <1>1, <2>1, <2>5, <2>6, <2>7, RecountSound
<1> QED
  BY <1>1, <1>2, <1>3 DEF LogInv

-------------------------------------------------------------------------------
(* The beginning and the end of a log.                                     *)

\* A new log is one free run.
LEMMA FreshCut ==
    ASSUME NEW l, l = [o \in Objects |-> NoObject]
    PROVE  /\ Fresh \in [Cells -> Header] /\ l \in ObjectType
           /\ {0} \in SUBSET Cells /\ Cut(Fresh, {0}) /\ Agree(Fresh, l, {0})
           /\ Lives(l) = {}
<1>1. 0 \in Cells
  BY Numbers, CellRange
<1>2. \A c \in Cells : Fresh[c].nr = 0 /\ Fresh[c].ref = 0
  BY DEF Fresh
<1>3. Fresh \in [Cells -> Header]
  <2>1. [nr |-> 0, ref |-> 0] \in Header
    BY Numbers DEF Header
  <2> QED
    BY <2>1 DEF Fresh
<1>4. l \in ObjectType /\ Lives(l) = {}
  <2>1. NoObject \in [at : Nat, len : Nat, refs : Nat] /\ ~(NoObject.refs > 0)
    BY DEF NoObject
  <2> QED
    BY <2>1 DEF ObjectType, Lives
<1>5. RunLength(Fresh, 0) = NrCells
  BY <1>1, <1>2, Numbers DEF RunLength
<1>6. Cut(Fresh, {0})
  <2>1. 0 + RunLength(Fresh, 0) = NrCells
    BY <1>5, Numbers
  <2> QED
    BY <1>1, <2>1 DEF Cut
<1>7. Agree(Fresh, l, {0})
  BY <1>1, <1>2, <1>4 DEF Agree
<1> QED
  BY <1>1, <1>3, <1>4, <1>6, <1>7

\* The invariant holds in a new log.
LEMMA LogInitInv ==
    ASSUME LogInit PROVE LogInv
<1>1. CutAt({0}) /\ hdr \in [Cells -> Header] /\ live \in ObjectType /\ {0} \in SUBSET Cells
  BY FreshCut DEF LogInit, CutAt
<1>2. LogTypeOK /\ TakersSafe /\ RegionFree
  BY DEF LogInit, LogTypeOK, TakersSafe, RegionFree
<1>3. LogSound
  BY <1>1, <1>2 DEF LogSound
<1> QED
  BY <1>2, <1>3 DEF LogInit, LogInv

\* logalloc_new establishes the invariant again.
LEMMA NewStep ==
    ASSUME LogInv, logalloc_new PROVE LogInv'
<1>1. /\ hdr' = Fresh /\ log_head' = 0 /\ open' = TRUE
      /\ region' = region /\ live' = live /\ taking' = taking /\ faults' = faults
  BY DEF logalloc_new
<1>2. LogClosed
  BY DEF logalloc_new, LogInv
<1>3. live = [o \in Objects |-> NoObject] /\ region = 0 /\ \A t \in Threads : taking[t] = None
  BY <1>2 DEF LogClosed
<1>4. /\ Fresh \in [Cells -> Header] /\ live \in ObjectType
      /\ {0} \in SUBSET Cells /\ Cut(Fresh, {0}) /\ Agree(Fresh, live, {0})
  BY <1>3, FreshCut
<1>5. CutAt({0})'
  BY <1>1, <1>4 DEF CutAt, Cut, Agree, Lives, RunLength
<1>6. TakersSafe' /\ RegionFree' /\ hdr' \in [Cells -> Header] /\ (live \in ObjectType)'
  BY <1>1, <1>3, <1>4 DEF TakersSafe, RegionFree, ObjectType
<1>7. LogSound'
  BY <1>4, <1>5, <1>6 DEF LogSound
<1>8. LogTypeOK'
  BY <1>1 DEF LogInv, LogTypeOK
<1> QED
  BY <1>1, <1>7, <1>8 DEF LogInv

\* logalloc_delete leaves nothing to say about the log.
LEMMA DeleteStep ==
    ASSUME LogInv, logalloc_delete PROVE LogInv'
<1>1. LogClosed' /\ ~open'
  BY DEF logalloc_delete, LogClosed
<1>2. LogTypeOK'
  BY DEF logalloc_delete, LogInv, LogTypeOK
<1> QED
  BY <1>1, <1>2 DEF LogInv

\* Every step keeps the invariant.
LEMMA LogNextInv ==
    ASSUME LogInv, OneTaker, [LogNext]_logVars PROVE LogInv'
<1>1. CASE logalloc_new
  BY <1>1, NewStep
<1>2. CASE logalloc_delete
  BY <1>2, DeleteStep
<1>3. ASSUME NEW size \in Sizes,
             logalloc_alloc(size) \/ logalloc_prepare_region(size) \/ logalloc_finalize_region(size)
      PROVE  LogInv'
  BY <1>3, AllocStep, PrepareStep, FinalizeStep
<1>4. ASSUME NEW o \in Objects, logalloc_free(o) PROVE LogInv'
  BY <1>4, FreeStep
<1>5. ASSUME NEW o \in Objects, NEW t \in Threads, ReferenceCheck(t, o) PROVE LogInv'
  BY <1>5, ReferenceCheckStep
<1>6. ASSUME NEW t \in Threads, ReferenceInc(t) PROVE LogInv'
  BY <1>6, ReferenceIncStep
<1>7. CASE UNCHANGED logVars
  BY <1>7 DEF logVars, LogInv, LogTypeOK, LogSound, LogClosed, CutAt, Cut, Agree, Lives,
              RunLength, RegionFree, TakersSafe, ObjectType
<1> QED
  BY <1>1, <1>2, <1>3, <1>4, <1>5, <1>6, <1>7 DEF LogNext

\* The invariant of the log: as long as nothing went wrong, the headers cut the
\* log into runs without gap or overlap, at log_head and at every object in use.
THEOREM LogInvariance ==
    ASSUME OneTaker PROVE LogSpec => []LogInv
<1>1. LogInit => LogInv
  BY LogInitInv
<1>2. LogInv /\ [LogNext]_logVars => LogInv'
  BY LogNextInv
<1> QED
  BY <1>1, <1>2, PTL DEF LogSpec

\* Where the cells of an object are.
LEMMA ObjectSpan ==
    ASSUME NEW h \in [Cells -> Header], NEW R, Cut(h, R), NEW l \in ObjectType, Agree(h, l, R),
           NEW o \in Lives(l)
    PROVE  /\ l[o].at \in R /\ l[o].at \in Nat /\ l[o].len \in Nat
           /\ l[o].at + l[o].len <= NrCells
           /\ \A c \in R : l[o].at < c => l[o].at + l[o].len <= c
<1>1. l[o].at \in R /\ l[o].len > 0 /\ h[l[o].at].nr = l[o].len /\ l[o].at \in Nat /\ l[o].len \in Nat
  BY DEF Agree, Lives, ObjectType
<1>2. RunLength(h, l[o].at) = l[o].len
  BY <1>1 DEF RunLength
<1>3. /\ l[o].at + l[o].len \in R \cup {NrCells}
      /\ \A c \in R : l[o].at < c => l[o].at + l[o].len <= c
  BY <1>1, <1>2 DEF Cut
<1>4. l[o].at + l[o].len <= NrCells
  <2>1. \A c \in R : c \in Nat /\ c < NrCells
    BY CellRange DEF Cut
  <2>2. PICK e : e = l[o].at + l[o].len
    OBVIOUS
  <2>3. e \in Nat /\ e \in R \cup {NrCells}
    BY <1>1, <1>3, <2>2
  <2> QED
    BY <2>1, <2>2, <2>3, Numbers
<1> QED
  BY <1>1, <1>3, <1>4

\* Runs do not overlap, so objects do not.
LEMMA SoundDisjoint ==
    ASSUME LogSound PROVE Disjoint
<1>1. PICK R \in SUBSET Cells : Cut(hdr, R) /\ Agree(hdr, live, R)
  BY DEF LogSound, CutAt
<1>2. /\ hdr \in [Cells -> Header] /\ live \in ObjectType /\ Live = Lives(live)
  BY DEF LogSound, Live, Lives
<1>3. \A o \in Live : /\ live[o].at \in R /\ live[o].at \in Nat /\ live[o].len \in Nat
                      /\ live[o].at + live[o].len <= NrCells
                      /\ \A c \in R : live[o].at < c => live[o].at + live[o].len <= c
  BY <1>1, <1>2, ObjectSpan
<1>4. ASSUME NEW o \in Live PROVE Span(live[o].at, live[o].len) \subseteq Cells
  <2>1. live[o].at \in Nat /\ live[o].len \in Nat /\ live[o].at + live[o].len <= NrCells
    BY <1>3
  <2> QED
    BY <2>1, Numbers DEF Span, Cells
<1>5. ASSUME NEW o \in Live, NEW p \in Live, o # p
      PROVE  Span(live[o].at, live[o].len) \cap Span(live[p].at, live[p].len) = {}
  <2>1. live[o].at # live[p].at
    BY <1>1, <1>2, <1>5 DEF Agree
  <2>2. \/ live[o].at + live[o].len <= live[p].at
        \/ live[p].at + live[p].len <= live[o].at
    <3>1. live[o].at < live[p].at \/ live[p].at < live[o].at
      BY <1>3, <2>1
    <3> QED
      BY <1>3, <3>1
  <2>3. /\ live[o].at \in Nat /\ live[o].len \in Nat
        /\ live[p].at \in Nat /\ live[p].len \in Nat
    BY <1>3
  <2> QED
    BY <2>2, <2>3 DEF Span
<1> QED
  BY <1>4, <1>5 DEF Disjoint

\* No cell is in two objects, for every size of the log, of its cells and of what
\* is asked for: logalloc_alloc and logalloc_finalize_region hand out cells no
\* other object has.
THEOREM ObjectsDisjoint ==
    ASSUME OneTaker PROVE LogSpec => []NoOverlap
<1>1. LogInv => NoOverlap
  <2> SUFFICES ASSUME LogInv, faults = {} PROVE Disjoint
    BY DEF NoOverlap
  <2>1. CASE open
    BY <2>1, SoundDisjoint DEF LogInv
  <2>2. CASE ~open
    <3>1. live = [o \in Objects |-> NoObject]
      BY <2>2 DEF LogInv, LogClosed
    <3>2. Lives(live) = {}
      BY <3>1, FreshCut
    <3> QED
      BY <3>2 DEF Disjoint, Live, Lives
  <2> QED
    BY <2>1, <2>2
<1> QED
  BY <1>1, LogInvariance, PTL

\* The headers are true: a walk over them from the start of the log meets
\* log_head and every object, and the count of an object is the number of
\* references held to it.
THEOREM HeadersStayTrue ==
    ASSUME OneTaker PROVE LogSpec => []HeadersTrue
<1>1. LogInv => HeadersTrue
  <2> SUFFICES ASSUME LogInv, open, faults = {}
               PROVE  /\ log_head \in Runs
                      /\ \A o \in Live : /\ live[o].at \in Runs
                                         /\ hdr[live[o].at].nr = live[o].len
                                         /\ hdr[live[o].at].ref = live[o].refs
                      /\ \A c \in Runs : /\ c + hdr[c].nr <= NrCells
                                         /\ hdr[c].ref # 0 => \E o \in Live : live[o].at = c
    BY DEF HeadersTrue
  <2>1. LogSound
    BY DEF LogInv
  <2>2. PICK R \in SUBSET Cells : Cut(hdr, R) /\ log_head \in R /\ Agree(hdr, live, R)
    BY <2>1 DEF LogSound, CutAt
  <2>3. hdr \in [Cells -> Header] /\ Live = Lives(live)
    BY <2>1 DEF LogSound, Live, Lives
  <2>4. \A c \in R : c \in Cells /\ c \in Nat /\ c < NrCells
    BY CellRange
  <2>5. Runs = R
    <3>1. 0 \in R
      BY <2>2 DEF Cut
    <3>2. RunsFrom(hdr, 0) = {c \in R : 0 <= c}
      BY <2>2, <2>3, <3>1, WalkFinds
    <3> QED
      BY <2>4, <3>2 DEF Runs
  <2>6. ASSUME NEW c \in R PROVE c + hdr[c].nr <= NrCells
    <3>1. hdr[c].nr \in Nat
      BY <2>3, <2>4, HeaderTyped
    <3>2. CASE hdr[c].nr = 0
      BY <2>4, <3>2, Numbers
    <3>3. CASE hdr[c].nr # 0
      <4>1. c + hdr[c].nr \in R \cup {NrCells}
        BY <2>2, <3>3 DEF Cut, RunLength
      <4>2. PICK e : e = c + hdr[c].nr
        OBVIOUS
      <4> QED
        BY <2>4, <4>1, <4>2, Numbers
    <3> QED
      BY <3>2, <3>3
  <2> QED
    BY <2>2, <2>3, <2>5, <2>6 DEF Agree
<1> QED
  BY <1>1, LogInvariance, PTL

\* Nothing leaks: when every object has been released, logalloc_alloc finds room
\* for whatever fits into the log, wherever log_head is.
THEOREM EmptyLogServes ==
    ASSUME OneTaker PROVE LogSpec => []EmptyServes
<1>1. LogInv => EmptyServes
  <2> SUFFICES ASSUME LogInv, open, faults = {}, Live = {}, NEW size \in Sizes,
                      NEW req, req = CellsFor(size), req <= Min({NrCells, MaxByte}),
                      NEW at, at = IF Wraps(req) THEN 0 ELSE log_head,
                      NEW h, h = IF Wraps(req) THEN Skipped ELSE hdr
               PROVE  HeadIsFree /\ Gather(h, at, req).found >= req
    BY Zenon DEF EmptyServes
  <2>1. LogSound
    BY DEF LogInv
  <2>2. req \in Nat /\ req > 0 /\ req <= NrCells /\ req <= MaxByte
    <3>1. req \in Nat /\ req > 0
      BY SomeCells
    <3>2. Min({NrCells, MaxByte}) = IF NrCells <= MaxByte THEN NrCells ELSE MaxByte
      BY MinOfTwo, Numbers
    <3> QED
      BY <3>1, <3>2, Numbers
  <2>3. Lives(live) = {} /\ ~InUseBehind
    BY DEF Lives, Live, InUseBehind
  <2>4. HeadIsFree
    <3>1. PICK R \in SUBSET Cells : CutAt(R)
      BY <2>1 DEF LogSound
    <3> QED
      BY <2>3, <3>1 DEF CutAt, Agree, HeadIsFree
  <2>5. h \in [Cells -> Header] /\ at + req <= NrCells
    BY <2>1, <2>2, <2>3, <2>4, RoomSound
  <2>6. PICK R \in SUBSET Cells : Cut(h, R) /\ log_head \in R /\ at \in R /\ Agree(h, live, R)
    BY <2>1, <2>2, <2>3, <2>4, RoomSound
  <2>7. \A c \in R : h[c].ref = 0
    BY <2>3, <2>6 DEF Agree
  <2>8. PICK g : g = Gather(h, at, req)
    OBVIOUS
  <2>9. Found(h, R, at, req, g)
    BY <2>2, <2>5, <2>6, <2>8, GatherFinds
  <2>10. g.found >= req
    BY <2>7, <2>9 DEF Found
  <2> QED
    BY <2>4, <2>8, <2>10
<1> QED
  BY <1>1, LogInvariance, PTL
===============================================================================
