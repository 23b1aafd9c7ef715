----------------------------- MODULE CowCounts ------------------------------
(***************************************************************************)
(* Every step of Cow changes the reference count of a page with the number *)
(* of its holders.                                                         *)
(***************************************************************************)
EXTENDS CowSteps, FiniteSetTheorems, FunctionTheorems

-----------------------------------------------------------------------------
(* Counting the holders of a page.                                         *)

(* The holders of a page frame that put_page and get_page count are        *)
(* finitely many.                                                          *)
LEMMA FiniteHolders ==
    ASSUME NEW f
    PROVE  /\ IsFiniteSet(Mappers(f)) /\ Cardinality(Mappers(f)) \in Nat
           /\ IsFiniteSet(Pending(f)) /\ Cardinality(Pending(f)) \in Nat
  <1>1. IsFiniteSet(Procs \X Pages)
    BY FS_Product, CowAssumption, Zenon
  <1>2. Mappers(f) \in SUBSET (Procs \X Pages) /\ Pending(f) \in SUBSET Procs
    BY Zenon DEF Mappers, Pending
  <1>3. IsFiniteSet(Mappers(f)) /\ IsFiniteSet(Pending(f))
    BY <1>1, <1>2, FS_Subset, CowAssumption, Zenon
  <1> QED BY <1>3, FS_CardinalityType, Zenon

(* Two different holders count for two.                                    *)
LEMMA HoldersCount ==
    ASSUME TypeOK, RefCounts, NEW f \in Frames
    PROVE  /\ \A m \in Mappers(f) : ref[f] >= 1
           /\ \A p \in Pending(f) : ref[f] >= 1
           /\ f \in lost => ref[f] >= 1
           /\ \A m, n \in Mappers(f) : m # n => ref[f] >= 2
           /\ \A m \in Mappers(f), p \in Pending(f) : ref[f] >= 2
           /\ \A m \in Mappers(f) : f \in lost => ref[f] >= 2
           /\ \A p \in Pending(f) : f \in lost => ref[f] >= 2
  <1> DEFINE M == Mappers(f)
             P == Pending(f)
  <1>0. /\ IsFiniteSet(M) /\ Cardinality(M) \in Nat
        /\ IsFiniteSet(P) /\ Cardinality(P) \in Nat
        /\ ref[f] = Cardinality(M) + Cardinality(P) + (IF f \in lost THEN 1 ELSE 0)
    BY FiniteHolders, Zenon DEF RefCounts
  <1>1. ASSUME NEW m \in M PROVE Cardinality(M) >= 1
    BY <1>0, <1>1, FS_EmptySet
  <1>2. ASSUME NEW p \in P PROVE Cardinality(P) >= 1
    BY <1>0, <1>2, FS_EmptySet
  <1>3. ASSUME NEW m \in M, NEW n \in M, m # n PROVE Cardinality(M) >= 2
    <2>1. Cardinality(M) # 1
      BY <1>0, <1>3, FS_Singleton
    <2> QED BY <2>1, <1>1, <1>0
  <1> HIDE DEF M, P
  <1>4. \A m \in M : Cardinality(M) >= 1
    BY <1>1, Zenon
  <1>5. \A p \in P : Cardinality(P) >= 1
    BY <1>2, Zenon
  <1>6. \A m, n \in M : m # n => Cardinality(M) >= 2
    BY <1>3, Zenon
  <1>7. /\ \A m \in M : ref[f] >= 1
        /\ \A p \in P : ref[f] >= 1
        /\ f \in lost => ref[f] >= 1
        /\ \A m, n \in M : m # n => ref[f] >= 2
        /\ \A m \in M, p \in P : ref[f] >= 2
        /\ \A m \in M : f \in lost => ref[f] >= 2
        /\ \A p \in P : f \in lost => ref[f] >= 2
    BY <1>0, <1>4, <1>5, <1>6
  <1> QED BY <1>7, Zenon DEF M, P

(* The same, leaf by leaf.                                                 *)
LEMMA CountedHolders == ASSUME TypeOK, RefCounts PROVE Holders
  <1>1. ASSUME NEW p \in Procs, pend[p] # NoFrame PROVE ref[pend[p]] >= 1
    <2>1. pend[p] \in Frames /\ p \in Pending(pend[p])
      BY <1>1, Zenon DEF TypeOK, Pending
    <2> QED BY <2>1, HoldersCount, Zenon
  <1>2. ASSUME NEW p \in Procs, NEW v \in Pages, pte[p][v] # NoPte
        PROVE  /\ ref[pte[p][v].frame] >= 1
               /\ \A q \in Procs :
                    /\ pend[q] = pte[p][v].frame => ref[pte[p][v].frame] >= 2
                    /\ \A u \in Pages :
                         MapsTo(pte[q][u], pte[p][v].frame) /\ ~(q = p /\ u = v)
                             => ref[pte[p][v].frame] >= 2
    <2>1. PICK f \in Frames : f = pte[p][v].frame
      BY <1>2 DEF TypeOK, Leaf
    <2>2. <<p, v>> \in Mappers(f)
      BY <1>2, <2>1, Zenon DEF Mappers, MapsTo
    <2>3. ASSUME NEW q \in Procs, pend[q] = f PROVE ref[f] >= 2
      <3>1. q \in Pending(f)
        BY <2>3, Zenon DEF Pending
      <3> QED BY <2>2, <3>1, HoldersCount, Zenon
    <2>4. ASSUME NEW q \in Procs, NEW u \in Pages, MapsTo(pte[q][u], f), ~(q = p /\ u = v)
          PROVE  ref[f] >= 2
      <3>1. <<q, u>> \in Mappers(f) /\ <<q, u>> # <<p, v>>
        BY <2>4, Zenon DEF Mappers
      <3> QED BY <2>2, <3>1, HoldersCount, Zenon
    <2> QED BY <2>1, <2>2, <2>3, <2>4, HoldersCount, Zenon
  <1> QED BY <1>1, <1>2, Zenon DEF Holders

(* A page nobody holds is mapped nowhere, owed by nobody and not lost.     *)
LEMMA FreeUnheld ==
    ASSUME TypeOK, RefCounts, NEW f \in Frames, ref[f] = 0
    PROVE  Mappers(f) = {} /\ Pending(f) = {} /\ f \notin lost
  BY HoldersCount DEF TypeOK

Count(b) == IF b THEN 1 ELSE 0
Same(x, y) == IF x = y THEN 1 ELSE 0

(* Changing one leaf changes the number of mappers of two pages.           *)
LEMMA LeafCount ==
    ASSUME TypeOK, NEW p \in Procs, NEW v \in Pages, NEW e, NEW f,
           pte' = [pte EXCEPT ![p][v] = e]
    PROVE  Cardinality(Mappers(f)') =
             Cardinality(Mappers(f)) - Count(MapsTo(pte[p][v], f)) + Count(MapsTo(e, f))
  <1> DEFINE m == <<p, v>>
             M == Mappers(f)
             N == Mappers(f)'
  <1>0. IsFiniteSet(M) /\ Cardinality(M) \in Nat
    BY FiniteHolders, Zenon
  <1>1. m \in M <=> MapsTo(pte[p][v], f)
    BY Zenon DEF Mappers
  <1>2. CASE MapsTo(e, f)
    <2>1. N = M \cup {m}
      BY <1>2 DEF Mappers, TypeOK
    <2> HIDE DEF m, M, N
    <2>2. Cardinality(M \cup {m}) = IF m \in M THEN Cardinality(M) ELSE Cardinality(M) + 1
      BY <1>0, FS_AddElement, Zenon
    <2>3. Cardinality(N) = Cardinality(M) - Count(MapsTo(pte[p][v], f)) + Count(MapsTo(e, f))
      BY <1>0, <1>1, <1>2, <2>1, <2>2 DEF Count
    <2> QED BY <2>3, Zenon DEF M, N
  <1>3. CASE ~MapsTo(e, f)
    <2>1. N = M \ {m}
      BY <1>3 DEF Mappers, TypeOK
    <2> HIDE DEF m, M, N
    <2>2. Cardinality(M \ {m}) = IF m \in M THEN Cardinality(M) - 1 ELSE Cardinality(M)
      BY <1>0, FS_RemoveElement, Zenon
    <2>3. Cardinality(N) = Cardinality(M) - Count(MapsTo(pte[p][v], f)) + Count(MapsTo(e, f))
      BY <1>0, <1>1, <1>3, <2>1, <2>2 DEF Count
    <2> QED BY <2>3, Zenon DEF M, N
  <1> QED BY <1>2, <1>3, Zenon

(* ... by one each, when the leaf is mapped to another page.               *)
LEMMA MoveCount ==
    ASSUME TypeOK, NEW p \in Procs, NEW v \in Pages, NEW e \in Leaf, NEW g,
           pte[p][v] \in Leaf, pte' = [pte EXCEPT ![p][v] = e]
    PROVE  Cardinality(Mappers(g)') =
             Cardinality(Mappers(g)) - Same(pte[p][v].frame, g) + Same(e.frame, g)
  <1>1. Cardinality(Mappers(g)') = Cardinality(Mappers(g))
          - Count(MapsTo(pte[p][v], g)) + Count(MapsTo(e, g))
    BY LeafCount, Zenon
  <1>2. /\ Count(MapsTo(pte[p][v], g)) = Same(pte[p][v].frame, g)
        /\ Count(MapsTo(e, g)) = Same(e.frame, g)
    BY LeafPresent, Zenon DEF Count, Same, MapsTo
  <1> QED BY <1>1, <1>2, Zenon

(* Changing pend[p] changes the number of puts owed on two pages.          *)
LEMMA PendCount ==
    ASSUME TypeOK, NEW p \in Procs, NEW g, NEW f, pend' = [pend EXCEPT ![p] = g]
    PROVE  Cardinality(Pending(f)') =
             Cardinality(Pending(f)) - Same(pend[p], f) + Same(g, f)
  <1> DEFINE P == Pending(f)
             Q == Pending(f)'
  <1>0. IsFiniteSet(P) /\ Cardinality(P) \in Nat
    BY FiniteHolders, Zenon
  <1>1. p \in P <=> pend[p] = f
    BY Zenon DEF Pending
  <1>2. CASE g = f
    <2>1. Q = P \cup {p}
      BY <1>2, Zenon DEF Pending, TypeOK
    <2> HIDE DEF P, Q
    <2>2. Cardinality(P \cup {p}) = IF p \in P THEN Cardinality(P) ELSE Cardinality(P) + 1
      BY <1>0, FS_AddElement, Zenon
    <2>3. Cardinality(Q) = Cardinality(P) - Same(pend[p], f) + Same(g, f)
      BY <1>0, <1>1, <1>2, <2>1, <2>2 DEF Same
    <2> QED BY <2>3, Zenon DEF P, Q
  <1>3. CASE g # f
    <2>1. Q = P \ {p}
      BY <1>3, Zenon DEF Pending, TypeOK
    <2> HIDE DEF P, Q
    <2>2. Cardinality(P \ {p}) = IF p \in P THEN Cardinality(P) - 1 ELSE Cardinality(P)
      BY <1>0, FS_RemoveElement, Zenon
    <2>3. Cardinality(Q) = Cardinality(P) - Same(pend[p], f) + Same(g, f)
      BY <1>0, <1>1, <1>3, <2>1, <2>2 DEF Same
    <2> QED BY <2>3, Zenon DEF P, Q
  <1> QED BY <1>2, <1>3, Zenon

(* When no leaf changes its page, no page changes its mappers.             *)
LEMMA SameMappers ==
    ASSUME \A p \in Procs, v \in Pages, f \in Frames :
              MapsTo(pte'[p][v], f) <=> MapsTo(pte[p][v], f),
           NEW g \in Frames
    PROVE  Mappers(g)' = Mappers(g)
  BY Zenon DEF Mappers

(* RefCounts: one lemma per way a step changes the holders of pages.       *)

Counts == RefCounts /\ LostUnmapped

(* A step that changes neither _refcount nor a holder of a frame keeps the *)
(* counts exact.                                                           *)
LEMMA SameCounts ==
    ASSUME IInv, UNCHANGED <<ref, pend, lost>>,
           \A q \in Procs, v \in Pages, f \in Frames :
              MapsTo(pte'[q][v], f) <=> MapsTo(pte[q][v], f)
    PROVE  Counts'
  <1>1. \A f \in Frames : Mappers(f)' = Mappers(f) /\ Pending(f)' = Pending(f)
    BY SameMappers, Zenon DEF Pending
  <1>2. lost \subseteq Frames
    BY Zenon DEF IInv, TypeOK
  <1> QED BY <1>1, <1>2, Zenon DEF Counts, IInv, RefCounts, LostUnmapped

(* A fresh page is mapped at an empty leaf.                                *)
LEMMA AllocCounts ==
    ASSUME IInv, NEW q \in Procs, NEW v \in Pages, NEW f \in Frames, NEW e \in Leaf,
           ref[f] = 0, e.frame = f, pte[q][v] = NoPte,
           ref' = [ref EXCEPT ![f] = 1], pte' = [pte EXCEPT ![q][v] = e],
           UNCHANGED <<pend, lost>>
    PROVE  Counts'
  <1>0. TypeOK /\ RefCounts /\ LostUnmapped
    BY Zenon DEF IInv
  <1>1. Mappers(f) = {} /\ Pending(f) = {} /\ f \notin lost
    BY <1>0, FreeUnheld, Zenon
  <1>2. ASSUME NEW g \in Frames
        PROVE  /\ Cardinality(Mappers(g)') = Cardinality(Mappers(g)) + Count(g = f)
               /\ Pending(g)' = Pending(g)
               /\ Cardinality(Mappers(g)) \in Nat /\ Cardinality(Pending(g)) \in Nat
    <2>1. Count(MapsTo(pte[q][v], g)) = 0 /\ Count(MapsTo(e, g)) = Count(g = f)
      BY LeafPresent, Zenon DEF Count, MapsTo
    <2>2. Cardinality(Mappers(g)') = Cardinality(Mappers(g))
              - Count(MapsTo(pte[q][v], g)) + Count(MapsTo(e, g))
      BY <1>0, LeafCount, Zenon
    <2>3. Cardinality(Mappers(g)) \in Nat /\ Cardinality(Pending(g)) \in Nat
      BY FiniteHolders, Zenon
    <2>4. Count(g = f) \in Nat
      BY Zenon DEF Count
    <2> QED BY <2>1, <2>2, <2>3, <2>4 DEF Pending
  <1>3. RefCounts'
    <2> SUFFICES ASSUME NEW g \in Frames
                 PROVE  ref'[g] = Cardinality(Mappers(g)') + Cardinality(Pending(g)')
                                    + (IF g \in lost' THEN 1 ELSE 0)
      BY Zenon DEF RefCounts
    <2>1. ref[g] = Cardinality(Mappers(g)) + Cardinality(Pending(g))
                     + (IF g \in lost THEN 1 ELSE 0)
      BY <1>0, Zenon DEF RefCounts
    <2>2. ref'[g] = ref[g] + Count(g = f)
      BY <1>0 DEF TypeOK, Count
    <2> QED BY <1>2, <2>1, <2>2 DEF Count
  <1>4. LostUnmapped'
    BY <1>0, <1>1 DEF LostUnmapped, Mappers, MapsTo, Pending, TypeOK
  <1> QED BY <1>3, <1>4, Zenon DEF Counts

(* A leaf is cleared and its page put.                                     *)
LEMMA DropCounts ==
    ASSUME IInv, NEW q \in Procs, NEW v \in Pages, DropLeaf(q, v),
           UNCHANGED <<pend, lost>>
    PROVE  Counts'
  <1>0. TypeOK /\ RefCounts /\ LostUnmapped
    BY Zenon DEF IInv
  <1>1. CASE pte[q][v] = NoPte
    BY <1>1, SameCounts, Zenon DEF DropLeaf
  <1>2. CASE pte[q][v] # NoPte
    <2>1. PICK f \in Frames : pte[q][v].frame = f
      BY <1>0, <1>2 DEF TypeOK, Leaf
    <2>2. ref' = [ref EXCEPT ![f] = ref[f] - 1] /\ pte' = [pte EXCEPT ![q][v] = NoPte]
      BY <1>2, <2>1, Zenon DEF DropLeaf, put_page
    <2>3. ASSUME NEW g \in Frames
          PROVE  ref'[g] = Cardinality(Mappers(g)') + Cardinality(Pending(g)')
                                    + (IF g \in lost' THEN 1 ELSE 0)
      <3>1. ref[g] = Cardinality(Mappers(g)) + Cardinality(Pending(g))
                       + (IF g \in lost THEN 1 ELSE 0)
        BY <1>0, Zenon DEF RefCounts
      <3>2. Cardinality(Mappers(g)') = Cardinality(Mappers(g))
              - Count(MapsTo(pte[q][v], g)) + Count(MapsTo(NoPte, g))
        <4>1. TypeOK /\ pte' = [pte EXCEPT ![q][v] = NoPte]
          BY <1>0, <2>2, Zenon
        <4> QED BY <4>1, LeafCount, Zenon
      <3>3. Count(MapsTo(pte[q][v], g)) = Count(g = f) /\ Count(MapsTo(NoPte, g)) = 0
        BY <1>2, <2>1, Zenon DEF Count, MapsTo
      <3>4. Cardinality(Mappers(g)) \in Nat /\ Cardinality(Pending(g)) \in Nat
        BY FiniteHolders, Zenon
      <3>5. ref'[g] = ref[g] - Count(g = f)
        BY <1>0, <2>2 DEF TypeOK, Count
      <3>6. Pending(g)' = Pending(g)
        BY Zenon DEF Pending
      <3> QED BY <3>1, <3>2, <3>3, <3>4, <3>5, <3>6 DEF Count
    <2>4. LostUnmapped'
      BY <1>0, <2>2 DEF LostUnmapped, Mappers, MapsTo, Pending, TypeOK
    <2> QED BY <2>3, <2>4, Zenon DEF Counts, RefCounts
  <1> QED BY <1>1, <1>2, Zenon

(* fork maps a page of the parent in the child too.                        *)
LEMMA ShareCounts ==
    ASSUME IInv, NEW p \in Procs, NEW c \in Procs, NEW v \in Pages, NEW f \in Frames,
           NEW s \in Leaf, p # c, MapsTo(pte[p][v], f), pte[c][v] = NoPte, s.frame = f,
           ref' = [ref EXCEPT ![f] = ref[f] + 1],
           pte' = [pte EXCEPT ![p][v] = s, ![c][v] = s],
           UNCHANGED <<pend, lost>>
    PROVE  Counts'
  <1>0. TypeOK /\ RefCounts /\ LostUnmapped
    BY Zenon DEF IInv
  <1>1. f \notin lost
    <2>1. <<p, v>> \in Mappers(f)
      BY Zenon DEF Mappers
    <2> QED BY <1>0, <2>1, Zenon DEF LostUnmapped
  <1>2. s # NoPte
    BY LeafPresent, Zenon
  <1>3. \A q \in Procs, u \in Pages :
          pte'[q][u] = IF u = v /\ q \in {p, c} THEN s ELSE pte[q][u]
    BY <1>0, Zenon DEF TypeOK
  <1>4. ASSUME NEW g \in Frames
        PROVE  Mappers(g)' = IF g = f THEN Mappers(g) \cup {<<c, v>>} ELSE Mappers(g)
    <2>0. /\ MapsTo(s, g) <=> g = f
          /\ MapsTo(pte[p][v], g) <=> g = f
          /\ ~MapsTo(pte[c][v], g)
      BY <1>2, Zenon DEF MapsTo
    <2>1. ASSUME NEW q \in Procs, NEW u \in Pages
          PROVE  MapsTo(pte'[q][u], g)
                   <=> MapsTo(pte[q][u], g) \/ (g = f /\ q = c /\ u = v)
      <3>1. CASE u = v /\ q = p
        <4>1. pte'[q][u] = s
          BY <1>3, <3>1, Zenon
        <4>2. MapsTo(pte'[q][u], g) <=> g = f
          BY <2>0, <4>1, Zenon
        <4>3. MapsTo(pte[q][u], g) <=> g = f
          BY <2>0, <3>1, Zenon
        <4> QED BY <4>2, <4>3, <3>1, Zenon
      <3>2. CASE u = v /\ q = c
        <4>1. pte'[q][u] = s
          BY <1>3, <3>2, Zenon
        <4>2. MapsTo(pte'[q][u], g) <=> g = f
          BY <2>0, <4>1, Zenon
        <4>3. ~MapsTo(pte[q][u], g)
          BY <2>0, <3>2, Zenon
        <4> QED BY <4>2, <4>3, <3>2, Zenon
      <3>3. CASE ~(u = v /\ q \in {p, c})
        <4>1. pte'[q][u] = pte[q][u]
          BY <1>3, <3>3, Zenon
        <4> QED BY <4>1, <3>3, Zenon
      <3> QED BY <3>1, <3>2, <3>3, Zenon
    <2>2. CASE g = f
      <3>1. ASSUME NEW m \in Procs \X Pages
            PROVE  m \in Mappers(g)' <=> m \in Mappers(g) \cup {<<c, v>>}
        <4>1. m[1] \in Procs /\ m[2] \in Pages /\ m = <<m[1], m[2]>>
          OBVIOUS
        <4>2. MapsTo(pte'[m[1]][m[2]], g)
                <=> MapsTo(pte[m[1]][m[2]], g) \/ (m[1] = c /\ m[2] = v)
          BY <2>1, <2>2, <4>1, Zenon
        <4>3. (m[1] = c /\ m[2] = v) <=> m = <<c, v>>
          BY <4>1
        <4> QED BY <4>2, <4>3, Zenon DEF Mappers
      <3>2. Mappers(g) \subseteq Procs \X Pages /\ Mappers(g)' \subseteq Procs \X Pages
        BY Zenon DEF Mappers
      <3>3. <<c, v>> \in Procs \X Pages
        BY Zenon
      <3>4. Mappers(g)' = Mappers(g) \cup {<<c, v>>}
        BY <3>1, <3>2, <3>3, Zenon
      <3> QED BY <3>4, <2>2, Zenon
    <2>3. CASE g # f
      BY <2>1, <2>3, Zenon DEF Mappers
    <2> QED BY <2>2, <2>3, Zenon
  <1>5. <<c, v>> \notin Mappers(f)
    BY Zenon DEF Mappers, MapsTo
  <1>6. Cardinality(Mappers(f)') = Cardinality(Mappers(f)) + 1
    BY <1>4, <1>5, FiniteHolders, FS_AddElement
  <1>7. ASSUME NEW g \in Frames
        PROVE  ref'[g] = Cardinality(Mappers(g)') + Cardinality(Pending(g)')
                                  + (IF g \in lost' THEN 1 ELSE 0)
    <2>1. ref[g] = Cardinality(Mappers(g)) + Cardinality(Pending(g))
                     + (IF g \in lost THEN 1 ELSE 0)
      BY <1>0, Zenon DEF RefCounts
    <2>2. Cardinality(Mappers(g)) \in Nat /\ Cardinality(Pending(g)) \in Nat
      BY FiniteHolders, Zenon
    <2>3. Cardinality(Mappers(g)') = Cardinality(Mappers(g)) + Count(g = f)
      BY <1>4, <1>6, <2>2 DEF Count
    <2>4. ref'[g] = ref[g] + Count(g = f)
      BY <1>0 DEF TypeOK, Count
    <2>5. Pending(g)' = Pending(g)
      BY Zenon DEF Pending
    <2> QED BY <2>1, <2>2, <2>3, <2>4, <2>5 DEF Count
  <1>8. LostUnmapped'
    BY <1>0, <1>1, <1>4, Zenon DEF LostUnmapped, Pending, TypeOK
  <1> QED BY <1>7, <1>8, Zenon DEF Counts, RefCounts

(* do_cow_fault installs its copy; the put of the old page is still owed.  *)
LEMMA CopyCounts ==
    ASSUME IInv, NEW p \in Procs, NEW v \in Pages, NEW f \in Frames, NEW e \in Leaf,
           ref[f] = 0, e.frame = f, pte[p][v] \in Leaf, pend[p] = NoFrame,
           ref' = [ref EXCEPT ![f] = 1], pte' = [pte EXCEPT ![p][v] = e],
           pend' = [pend EXCEPT ![p] = pte[p][v].frame], UNCHANGED lost
    PROVE  Counts'
  <1>0. TypeOK /\ RefCounts /\ LostUnmapped
    BY Zenon DEF IInv
  <1>1. Mappers(f) = {} /\ Pending(f) = {} /\ f \notin lost
    BY <1>0, FreeUnheld, Zenon
  <1>2. PICK o \in Frames : pte[p][v].frame = o
    BY Zenon DEF Leaf
  <1>3. o \notin lost
    <2>1. <<p, v>> \in Mappers(o)
      BY <1>2, LeafPresent, Zenon DEF Mappers, MapsTo
    <2> QED BY <1>0, <2>1, Zenon DEF LostUnmapped
  <1>4. ASSUME NEW g \in Frames
        PROVE  ref'[g] = Cardinality(Mappers(g)') + Cardinality(Pending(g)')
                                  + (IF g \in lost' THEN 1 ELSE 0)
    <2>1. ref[g] = Cardinality(Mappers(g)) + Cardinality(Pending(g))
                     + (IF g \in lost THEN 1 ELSE 0)
      BY <1>0, Zenon DEF RefCounts
    <2>2. Cardinality(Mappers(g)) \in Nat /\ Cardinality(Pending(g)) \in Nat
      BY FiniteHolders, Zenon
    <2>3. Cardinality(Mappers(g)') = Cardinality(Mappers(g))
            - Same(pte[p][v].frame, g) + Same(e.frame, g)
      BY <1>0, MoveCount, Zenon
    <2>4. Same(pte[p][v].frame, g) = Same(o, g) /\ Same(e.frame, g) = Same(f, g)
      BY <1>2, Zenon
    <2>5. Cardinality(Pending(g)') = Cardinality(Pending(g))
            - Same(pend[p], g) + Same(o, g)
      <3>1. pend' = [pend EXCEPT ![p] = o]
        BY <1>2, Zenon
      <3> QED BY <1>0, <3>1, PendCount, Zenon
    <2>6. Same(pend[p], g) = 0
      BY CowAssumption, Zenon DEF Same
    <2>7. ref'[g] = ref[g] + Same(f, g)
      BY <1>0, <1>1, <2>1 DEF TypeOK, Same
    <2>8. Same(o, g) \in Nat /\ Same(f, g) \in Nat
      BY Zenon DEF Same
    <2> QED BY <2>1, <2>2, <2>3, <2>4, <2>5, <2>6, <2>7, <2>8
  <1>5. LostUnmapped'
    BY <1>0, <1>1, <1>2, <1>3, LeafPresent DEF LostUnmapped, Mappers, MapsTo, Pending, TypeOK
  <1> QED BY <1>4, <1>5, Zenon DEF Counts, RefCounts

(* The put do_cow_fault owed is made.                                      *)
LEMMA PutCounts ==
    ASSUME IInv, NEW p \in Procs, NEW f \in Frames, pend[p] = f,
           ref' = [ref EXCEPT ![f] = ref[f] - 1], pend' = [pend EXCEPT ![p] = NoFrame],
           UNCHANGED <<pte, lost>>
    PROVE  Counts'
  <1>0. TypeOK /\ RefCounts /\ LostUnmapped
    BY Zenon DEF IInv
  <1>1. ASSUME NEW g \in Frames
        PROVE  ref'[g] = Cardinality(Mappers(g)') + Cardinality(Pending(g)')
                                  + (IF g \in lost' THEN 1 ELSE 0)
    <2>1. ref[g] = Cardinality(Mappers(g)) + Cardinality(Pending(g))
                     + (IF g \in lost THEN 1 ELSE 0)
      BY <1>0, Zenon DEF RefCounts
    <2>2. Cardinality(Mappers(g)) \in Nat /\ Cardinality(Pending(g)) \in Nat
      BY FiniteHolders, Zenon
    <2>3. Cardinality(Pending(g)') = Cardinality(Pending(g))
            - Same(pend[p], g) + Same(NoFrame, g)
      BY <1>0, PendCount, Zenon
    <2>4. Same(pend[p], g) = Same(f, g) /\ Same(NoFrame, g) = 0
      BY CowAssumption, Zenon DEF Same
    <2>5. ref'[g] = ref[g] - Same(f, g)
      BY <1>0 DEF TypeOK, Same
    <2>6. Mappers(g)' = Mappers(g)
      BY Zenon DEF Mappers
    <2> QED BY <2>1, <2>2, <2>3, <2>4, <2>5, <2>6 DEF Same
  <1>2. LostUnmapped'
    BY <1>0, CowAssumption, Zenon DEF LostUnmapped, Mappers, Pending, TypeOK
  <1> QED BY <1>1, <1>2, Zenon DEF Counts, RefCounts

(* setup_stack loses the page it allocated.                                *)
LEMMA StackCounts ==
    ASSUME IInv, NEW f \in Frames, ref[f] = 0,
           ref' = [ref EXCEPT ![f] = 1], lost' = lost \cup {f}, UNCHANGED <<pte, pend>>
    PROVE  Counts'
  <1>0. TypeOK /\ RefCounts /\ LostUnmapped
    BY Zenon DEF IInv
  <1>1. Mappers(f) = {} /\ Pending(f) = {} /\ f \notin lost
    BY <1>0, FreeUnheld, Zenon
  <1>2. \A g : Mappers(g)' = Mappers(g) /\ Pending(g)' = Pending(g)
    BY Zenon DEF Mappers, Pending
  <1>3. ASSUME NEW g \in Frames
        PROVE  ref'[g] = Cardinality(Mappers(g)') + Cardinality(Pending(g)')
                                  + (IF g \in lost' THEN 1 ELSE 0)
    <2>1. ref[g] = Cardinality(Mappers(g)) + Cardinality(Pending(g))
                     + (IF g \in lost THEN 1 ELSE 0)
      BY <1>0, Zenon DEF RefCounts
    <2>2. Cardinality(Mappers(g)) \in Nat /\ Cardinality(Pending(g)) \in Nat
      BY FiniteHolders, Zenon
    <2>3. ref'[g] = IF g = f THEN 1 ELSE ref[g]
      BY <1>0, Zenon DEF TypeOK
    <2> QED BY <1>1, <1>2, <2>1, <2>2, <2>3
  <1>4. LostUnmapped'
    BY <1>0, <1>1, <1>2, Zenon DEF LostUnmapped
  <1> QED BY <1>3, <1>4, Zenon DEF Counts, RefCounts

(* An overlapping segment replaces the only leaf of a page: it is lost.    *)
LEMMA OverlapCounts ==
    ASSUME IInv, NEW c \in Procs, NEW v \in Pages, NEW f \in Frames, NEW e \in Leaf,
           NEW o \in Frames, ref[f] = 0, e.frame = f, ref[o] = 1,
           pte[c][v] \in Leaf, pte[c][v].frame = o,
           ref' = [ref EXCEPT ![f] = 1], pte' = [pte EXCEPT ![c][v] = e],
           lost' = lost \cup {o}, UNCHANGED pend
    PROVE  Counts'
  <1>0. TypeOK /\ RefCounts /\ LostUnmapped
    BY Zenon DEF IInv
  <1>1. Mappers(f) = {} /\ Pending(f) = {} /\ f \notin lost
    BY <1>0, FreeUnheld, Zenon
  <1>2. <<c, v>> \in Mappers(o)
    BY LeafPresent, Zenon DEF Mappers, MapsTo
  <1>3. /\ o \notin lost /\ Pending(o) = {} /\ o # f
        /\ \A m \in Mappers(o) : m = <<c, v>>
    BY <1>0, <1>2, HoldersCount
  <1>4. ASSUME NEW g \in Frames
        PROVE  ref'[g] = Cardinality(Mappers(g)') + Cardinality(Pending(g)')
                                  + (IF g \in lost' THEN 1 ELSE 0)
    <2>1. ref[g] = Cardinality(Mappers(g)) + Cardinality(Pending(g))
                     + (IF g \in lost THEN 1 ELSE 0)
      BY <1>0, Zenon DEF RefCounts
    <2>2. Cardinality(Mappers(g)) \in Nat /\ Cardinality(Pending(g)) \in Nat
      BY FiniteHolders, Zenon
    <2>3. Cardinality(Mappers(g)') = Cardinality(Mappers(g))
            - Same(pte[c][v].frame, g) + Same(e.frame, g)
      BY <1>0, MoveCount, Zenon
    <2>4. Same(pte[c][v].frame, g) = Same(o, g) /\ Same(e.frame, g) = Same(f, g)
      BY Zenon
    <2>5. Pending(g)' = Pending(g)
      BY Zenon DEF Pending
    <2>6. ref'[g] = ref[g] + Same(f, g)
      BY <1>0 DEF TypeOK, Same
    <2> QED BY <1>3, <2>1, <2>2, <2>3, <2>4, <2>5, <2>6 DEF Same
  <1>5. ASSUME NEW g \in lost' PROVE Mappers(g)' = {} /\ Pending(g)' = {}
    <2>1. g # f /\ g \in Frames /\ \A m \in Mappers(g) : m = <<c, v>>
      BY <1>0, <1>1, <1>3, Zenon DEF LostUnmapped, TypeOK
    <2>2. ~MapsTo(e, g)
      BY <2>1, Zenon DEF MapsTo
    <2>3. Pending(g)' = {}
      BY <1>0, <1>3, Zenon DEF LostUnmapped, Pending
    <2> QED BY <1>0, <2>1, <2>2, <2>3 DEF Mappers, TypeOK
  <1> QED BY <1>4, <1>5, Zenon DEF Counts, RefCounts, LostUnmapped

(* execve trades the leaves of two slots: the mappers move one to one.     *)
LEMMA SwapCounts ==
    ASSUME IInv, NEW p \in Procs, NEW c \in Procs,
           pte' = [pte EXCEPT ![p] = pte[c], ![c] = pte[p]], UNCHANGED <<ref, pend, lost>>
    PROVE  Counts'
  <1>0. TypeOK /\ RefCounts /\ LostUnmapped
    BY Zenon DEF IInv
  <1> DEFINE Swap(q) == IF q = p THEN c ELSE IF q = c THEN p ELSE q
  <1>1. \A q \in Procs : pte'[q] = pte[Swap(q)] /\ Swap(q) \in Procs /\ Swap(Swap(q)) = q
    BY <1>0, Zenon DEF TypeOK
  <1>2. ASSUME NEW g
        PROVE  /\ Cardinality(Mappers(g)') = Cardinality(Mappers(g))
               /\ Mappers(g) = {} => Mappers(g)' = {}
    <2> DEFINE h == [m \in Mappers(g) |-> <<Swap(m[1]), m[2]>>]
    <2>1. ASSUME NEW m \in Mappers(g) PROVE <<Swap(m[1]), m[2]>> \in Mappers(g)'
      <3>1. m[1] \in Procs /\ m[2] \in Pages /\ MapsTo(pte[m[1]][m[2]], g)
        BY Zenon DEF Mappers
      <3>2. pte'[Swap(m[1])] = pte[m[1]] /\ Swap(m[1]) \in Procs
        BY <1>1, <3>1, Zenon
      <3> HIDE DEF Swap
      <3> QED BY <3>1, <3>2, Zenon DEF Mappers
    <2>2. \A a, b \in Mappers(g) : h[a] = h[b] => a = b
      BY <1>1 DEF Mappers
    <2>3. ASSUME NEW t \in Mappers(g)' PROVE \E s \in Mappers(g) : h[s] = t
      <3>1. t \in Procs \X Pages /\ MapsTo(pte'[t[1]][t[2]], g)
        BY Zenon DEF Mappers
      <3>2. <<Swap(t[1]), t[2]>> \in Mappers(g)
        BY <1>1, <3>1, Zenon DEF Mappers
      <3>3. h[<<Swap(t[1]), t[2]>>] = t
        BY <1>1, <3>1, <3>2
      <3> QED BY <3>2, <3>3, Zenon
    <2>4. h \in [Mappers(g) -> Mappers(g)']
      BY <2>1, Zenon
    <2> HIDE DEF h
    <2>5. h \in Bijection(Mappers(g), Mappers(g)')
      BY <2>2, <2>3, <2>4, Fun_IsBij, Zenon
    <2>6. ExistsBijection(Mappers(g), Mappers(g)')
      BY <2>5, Zenon DEF ExistsBijection
    <2> QED BY <2>3, <2>6, FiniteHolders, FS_Bijection, Zenon
  <1>3. \A g : Pending(g)' = Pending(g)
    BY Zenon DEF Pending
  <1>4. RefCounts'
    BY <1>0, <1>2, <1>3, Zenon DEF RefCounts
  <1>5. LostUnmapped'
    BY <1>0, <1>2, <1>3, Zenon DEF LostUnmapped
  <1> QED BY <1>4, <1>5, Zenon DEF Counts

(* A step that leaves tables, counts and debts alone keeps the counts.     *)
LEMMA QuietCounts ==
    ASSUME IInv, UNCHANGED <<pte, ref, pend, lost>> PROVE Counts'
  BY SameCounts, Zenon

(* Faults, copy-on-write, user accesses and the one-page steps of the walks *)
(* change _refcount with the holders.                                      *)
LEMMA PageCounts ==
    ASSUME IInv, NEW p \in Procs, NEW v \in Pages, PageStep(p, v)
    PROVE  Counts'
  <1>0. TypeOK
    BY Zenon DEF IInv
  <1> USE DEF kernel
  <1>1. CASE TlbFill(p, v)
    BY <1>1, QuietCounts, Zenon DEF TlbFill
  <1>2. ASSUME NEW x \in Values, UserStore(p, v, x) PROVE Counts'
    BY <1>2, QuietCounts, Zenon DEF UserStore
  <1>3. ASSUME NEW x \in Values, copy_to_user(p, v, x) PROVE Counts'
    BY <1>3, QuietCounts, Zenon DEF copy_to_user
  <1>4. ASSUME NEW acc \in {"read", "write"}, UaccessAbort(p, v, acc) PROVE Counts'
    BY <1>4, QuietCounts, Zenon DEF UaccessAbort
  <1>5. ASSUME NEW acc \in Access, FaultSegv(p, v, acc) PROVE Counts'
    BY <1>5, QuietCounts, Zenon DEF FaultSegv
  <1>6. ASSUME NEW acc \in Access, FaultDemand(p, v, acc) PROVE Counts'
    <2>1. PICK f \in Frames :
            /\ ref[f] = 0
            /\ ref' = [ref EXCEPT ![f] = 1]
            /\ pte' = [pte EXCEPT ![p][v] = prot_to_pte(f, vma[p][v])]
      BY <1>6, Zenon DEF FaultDemand, FreePage
    <2>2. prot_to_pte(f, vma[p][v]) \in Leaf /\ prot_to_pte(f, vma[p][v]).frame = f
      BY Zenon DEF Leaf, prot_to_pte
    <2>3. pte[p][v] = NoPte /\ UNCHANGED <<pend, lost>>
      BY <1>6, Zenon DEF FaultDemand, do_page_fault
    <2> QED BY <2>1, <2>2, <2>3, AllocCounts, Zenon
  <1>7. ASSUME NEW acc \in Access, FaultOom(p, v, acc) PROVE Counts'
    BY <1>7, QuietCounts, Zenon DEF FaultOom
  <1>8. ASSUME NEW acc \in Access, FaultCow(p, v, acc) PROVE Counts'
    BY <1>8, QuietCounts, Zenon DEF FaultCow
  <1>9. CASE CowMkwrite(p, v)
    <2>1. pte[p][v] \in Leaf
      BY <1>9, CowLeaf, Zenon DEF CowMkwrite
    <2>2. pte' = [pte EXCEPT ![p][v] = pte_mkwrite(pte[p][v])] /\ UNCHANGED <<ref, pend, lost>>
      BY <1>9, Zenon DEF CowMkwrite
    <2>3. pte_mkwrite(pte[p][v]) \in Leaf /\ pte_mkwrite(pte[p][v]).frame = pte[p][v].frame
      BY <2>1, Zenon DEF Leaf, pte_mkwrite
    <2>4. ASSUME NEW q \in Procs, NEW u \in Pages, NEW f \in Frames
          PROVE  MapsTo(pte'[q][u], f) <=> MapsTo(pte[q][u], f)
      BY <1>0, <2>1, <2>2, <2>3, LeafPresent, Zenon DEF TypeOK, MapsTo
    <2> QED BY <2>2, <2>4, SameCounts, Zenon
  <1>10. CASE CowCopy(p, v)
    <2>1. pte[p][v] \in Leaf
      BY <1>10, CowLeaf, Zenon DEF CowCopy
    <2>2. PICK f \in Frames :
            /\ ref[f] = 0
            /\ ref' = [ref EXCEPT ![f] = 1]
            /\ pte' = [pte EXCEPT ![p][v] = pte_mkwrite([pte[p][v] EXCEPT !.frame = f])]
      BY <1>10, Zenon DEF CowCopy, FreePage
    <2>3. /\ pte_mkwrite([pte[p][v] EXCEPT !.frame = f]) \in Leaf
          /\ pte_mkwrite([pte[p][v] EXCEPT !.frame = f]).frame = f
      BY <2>1, Zenon DEF Leaf, pte_mkwrite
    <2>4. pend[p] = NoFrame
      BY <1>10, Zenon DEF CowCopy, IInv, Slots, Builders
    <2>5. pend' = [pend EXCEPT ![p] = pte[p][v].frame] /\ UNCHANGED lost
      BY <1>10, Zenon DEF CowCopy
    <2> QED BY <2>1, <2>2, <2>3, <2>4, <2>5, CopyCounts, Zenon
  <1>11. CASE unmap_page(p, v)
    BY <1>11, DropCounts, Zenon DEF unmap_page
  <1>12. CASE dup_pgtable_level(p, v)
    <2>1. kid[p] \in Procs /\ kid[p] # p
      BY <1>12, KidSlot, Zenon DEF dup_pgtable_level
    <2>2. pte[kid[p]][v] = NoPte
      BY <1>12, Zenon DEF dup_pgtable_level, NextPage, IInv, Path, BuiltLeaf
    <2>3. CASE pte[p][v] = NoPte
      BY <1>12, <2>3, QuietCounts, Zenon DEF dup_pgtable_level
    <2>4. CASE pte[p][v] # NoPte
      <3>1. pte[p][v] \in Leaf
        BY <1>0, <2>4 DEF TypeOK
      <3>2. PICK f \in Frames : pte[p][v].frame = f
        BY <3>1, Zenon DEF Leaf
      <3>0. SharedLeaf(pte[p][v]) \in Leaf /\ SharedLeaf(pte[p][v]).frame = f
        BY <3>1, <3>2, Zenon DEF Leaf, SharedLeaf, pte_wrprotect
      <3>3. PICK s \in Leaf : s = SharedLeaf(pte[p][v]) /\ s.frame = f
        BY <3>0, Zenon
      <3>4. /\ ref' = [ref EXCEPT ![f] = ref[f] + 1]
            /\ pte' = [pte EXCEPT ![p][v] = s, ![kid[p]][v] = s]
            /\ UNCHANGED <<pend, lost>>
        BY <1>12, <2>4, <3>2, <3>3, Zenon DEF dup_pgtable_level
      <3>5. MapsTo(pte[p][v], f)
        BY <2>4, <3>2, Zenon DEF MapsTo
      <3> QED BY <2>1, <2>2, <3>3, <3>4, <3>5, ShareCounts, Zenon
    <2> QED BY <2>3, <2>4, Zenon
  <1>13. CASE UndoPage(p, v)
    <2>1. kid[p] \in Procs /\ DropLeaf(kid[p], v) /\ UNCHANGED <<pend, lost>>
      BY <1>13, KidSlot, Zenon DEF UndoPage
    <2> QED BY <2>1, DropCounts, Zenon
  <1>14. CASE ReapPage(p, v)
    BY <1>14, DropCounts, Zenon DEF ReapPage
  <1>15. CASE NoSegment(p, v)
    BY <1>15, QuietCounts, Zenon DEF NoSegment
  <1>16. ASSUME NEW prot \in Prots, NEW x \in Values, load_segment(p, v, prot, x)
         PROVE  Counts'
    <2>1. kid[p] \in Procs
      BY <1>16, KidSlot, Zenon DEF load_segment
    <2>2. PICK f \in Frames :
            /\ ref[f] = 0
            /\ ref' = [ref EXCEPT ![f] = 1]
            /\ pte' = [pte EXCEPT ![kid[p]][v] = prot_to_pte(f, prot)]
      BY <1>16, Zenon DEF load_segment, FreePage
    <2>3. prot_to_pte(f, prot) \in Leaf /\ prot_to_pte(f, prot).frame = f
      BY Zenon DEF Leaf, prot_to_pte
    <2>4. pte[kid[p]][v] = NoPte /\ UNCHANGED <<pend, lost>>
      BY <1>16, Zenon DEF load_segment, NextPage, IInv, Path, BuiltLeaf
    <2> QED BY <2>1, <2>2, <2>3, <2>4, AllocCounts, Zenon
  <1>17. ASSUME NEW prot \in Prots, NEW x \in Values, SegmentOverlap(p, v, prot, x)
         PROVE  Counts'
    <2>1. kid[p] \in Procs
      BY <1>17, KidSlot, Zenon DEF SegmentOverlap
    <2>2. PICK f \in Frames :
            /\ ref[f] = 0
            /\ ref' = [ref EXCEPT ![f] = 1]
            /\ pte' = [pte EXCEPT ![kid[p]][v] = prot_to_pte(f, prot)]
      BY <1>17, Zenon DEF SegmentOverlap, FreePage
    <2>3. prot_to_pte(f, prot) \in Leaf /\ prot_to_pte(f, prot).frame = f
      BY Zenon DEF Leaf, prot_to_pte
    <2>4. pte[kid[p]][v] \in Leaf
      BY <1>0, <1>17, <2>1 DEF SegmentOverlap, TypeOK
    <2>5. PICK o \in Frames : pte[kid[p]][v].frame = o
      BY <2>4, Zenon DEF Leaf
    <2>6. ref[o] = 1
      BY <1>17, <2>1, <2>5, Zenon DEF SegmentOverlap, IInv, ExclusiveCounts, Exclusive
    <2>7. lost' = lost \cup {o} /\ UNCHANGED pend
      BY <1>17, <2>5, Zenon DEF SegmentOverlap
    <2> QED BY <2>1, <2>2, <2>3, <2>4, <2>5, <2>6, <2>7, OverlapCounts, Zenon
  <1> QED BY <1>1, <1>2, <1>3, <1>4, <1>5, <1>6, <1>7, <1>8, <1>9, <1>10, <1>11, <1>12,
             <1>13, <1>14, <1>15, <1>16, <1>17, Zenon DEF PageStep

(* fork, exec and exit change _refcount with the holders.                  *)
LEMMA ProcCounts ==
    ASSUME IInv, NEW p \in Procs, ProcStep(p)
    PROVE  Counts'
  <1>0. TypeOK
    BY Zenon DEF IInv
  <1> USE DEF kernel
  <1>1. CASE CowOom(p)
    BY <1>1, QuietCounts, Zenon DEF CowOom
  <1>2. CASE CowPut(p)
    <2>1. PICK f \in Frames : pend[p] = f
      BY <1>0, <1>2 DEF CowPut, IInv, Slots, Builders, TypeOK
    <2>2. /\ ref' = [ref EXCEPT ![f] = ref[f] - 1]
          /\ pend' = [pend EXCEPT ![p] = NoFrame]
          /\ UNCHANGED <<pte, lost>>
      BY <1>2, <2>1, Zenon DEF CowPut, put_page
    <2> QED BY <2>1, <2>2, PutCounts, Zenon
  <1>3. CASE UnmapDone(p)
    BY <1>3, QuietCounts, Zenon DEF UnmapDone
  <1>4. CASE ForkDone(p)
    BY <1>4, QuietCounts, Zenon DEF ForkDone
  <1>5. CASE ForkFail(p)
    BY <1>5, QuietCounts, Zenon DEF ForkFail
  <1>6. CASE UndoDone(p)
    BY <1>6, QuietCounts, Zenon DEF UndoDone
  <1>7. CASE StackMapFail(p)
    BY <1>7, StackCounts, Zenon DEF StackMapFail, FreePage
  <1>8. CASE ExecFail(p)
    BY <1>8, QuietCounts, Zenon DEF ExecFail
  <1>9. CASE ExecSwap(p)
    <2>1. kid[p] \in Procs
      BY <1>9, KidSlot, Zenon DEF ExecSwap
    <2>2. /\ pte' = [pte EXCEPT ![p] = pte[kid[p]], ![kid[p]] = pte[p]]
          /\ UNCHANGED <<ref, pend, lost>>
      BY <1>9, Zenon DEF ExecSwap
    <2> QED BY <2>1, <2>2, SwapCounts, Zenon
  <1>10. CASE ksys_exit(p)
    BY <1>10, QuietCounts, Zenon DEF ksys_exit
  <1>11. CASE mm_put(p)
    BY <1>11, QuietCounts, Zenon DEF mm_put
  <1>12. CASE ReapDone(p)
    BY <1>12, QuietCounts, Zenon DEF ReapDone
  <1> QED BY <1>1, <1>2, <1>3, <1>4, <1>5, <1>6, <1>7, <1>8, <1>9, <1>10, <1>11, <1>12,
             Zenon DEF ProcStep

(* The system calls on a mapping change _refcount with the holders.        *)
LEMMA CallCounts ==
    ASSUME IInv, NEW p \in Procs, CallStep(p)
    PROVE  Counts'
  <1>0. TypeOK
    BY Zenon DEF IInv
  <1> USE DEF kernel
  <1>1. ASSUME NEW S \in Ranges, NEW prot \in Prots, do_mmap(p, S, prot) PROVE Counts'
    BY <1>1, QuietCounts, Zenon DEF do_mmap
  <1>2. ASSUME NEW S \in Ranges, NEW prot \in Prots, mm_mprotect(p, S, prot)
        PROVE  Counts'
    <2>1. ASSUME NEW q \in Procs, NEW u \in Pages, NEW f \in Frames
          PROVE  MapsTo(pte'[q][u], f) <=> MapsTo(pte[q][u], f)
      <3>1. CASE q = p /\ u \in S /\ pte[p][u] # NoPte
        <4>1. pte[p][u] \in Leaf /\ pte'[q][u] = ReprotectedLeaf(pte[p][u], prot)
          BY <1>0, <1>2, <3>1 DEF mm_mprotect, TypeOK
        <4>2. /\ ReprotectedLeaf(pte[p][u], prot) \in Leaf
              /\ ReprotectedLeaf(pte[p][u], prot).frame = pte[p][u].frame
          BY <4>1, LeafTypes, LeafFrames DEF Leaf
        <4> QED BY <3>1, <4>1, <4>2, LeafPresent, Zenon DEF MapsTo
      <3>2. CASE ~(q = p /\ u \in S /\ pte[p][u] # NoPte)
        BY <1>0, <1>2, <3>2, Zenon DEF mm_mprotect, TypeOK
      <3> QED BY <3>1, <3>2, Zenon
    <2> QED BY <1>2, <2>1, SameCounts, Zenon DEF mm_mprotect
  <1>3. ASSUME NEW S \in Ranges, NEW prot \in Prots \cup {NoVma},
               vma_erase_range(p, S, prot)
        PROVE  Counts'
    BY <1>3, QuietCounts, Zenon DEF vma_erase_range
  <1>4. ASSUME NEW c \in Procs, dup_mm(p, c) PROVE Counts'
    BY <1>4, QuietCounts, Zenon DEF dup_mm
  <1>5. ASSUME NEW c \in Procs, load_elf_binary(p, c) PROVE Counts'
    BY <1>5, QuietCounts, Zenon DEF load_elf_binary
  <1> QED BY <1>1, <1>2, <1>3, <1>4, <1>5, Zenon DEF CallStep

(* Every step keeps _refcount equal to the number of holders.              *)
LEMMA StepCounts == IInv /\ [Next]_vars => Counts'
  <1> SUFFICES ASSUME IInv, [Next]_vars PROVE Counts'
    BY Zenon
  <1>1. CASE mm_install
    BY <1>1, QuietCounts, Zenon DEF mm_install, kernel
  <1>2. CASE UNCHANGED vars
    BY <1>2, QuietCounts, Zenon DEF vars
  <1> QED BY <1>1, <1>2, PageCounts, ProcCounts, CallCounts, Zenon DEF Next

=============================================================================
