----------------------------- MODULE CowProofs ------------------------------
(***************************************************************************)
(* Theorems about Cow, for every number of processes, pages and frames:    *)
(* the inductive invariant, the properties it gives, and the refinement of *)
(* PrivateMemory.                                                          *)
(***************************************************************************)
EXTENDS CowCounts, CowMemory

(* Before the first execve of PID 1 nobody holds a page.                   *)
LEMMA InitIInv == Init => IInv
  <1> SUFFICES ASSUME Init PROVE IInv
    OBVIOUS
  <1>1. TypeOK
    BY InitTypeOK
  <1>2. /\ pte = [q \in Procs |-> NoPtes] /\ pend = [q \in Procs |-> NoFrame]
        /\ lost = {} /\ ref = [f \in Frames |-> 0]
    BY DEF Init
  <1>3. \A q \in Procs, v \in Pages : pte[q][v] = NoPte
    BY <1>2 DEF NoPtes
  <1>4. \A f \in Frames : Mappers(f) = {} /\ Pending(f) = {}
    BY <1>2, <1>3, CowAssumption DEF Mappers, MapsTo, Pending
  <1>5. RefCounts /\ LostUnmapped
    BY <1>2, <1>4, FS_EmptySet DEF RefCounts, LostUnmapped
  <1>6. Holders
    BY <1>1, <1>5, CountedHolders
  <1>7. ExclusiveCounts /\ MappedData
    BY <1>3 DEF ExclusiveCounts, Exclusive, MappedData
  <1>8. Slots
    BY CowAssumption DEF Init, Slots, Builders
  <1>9. ASSUME NEW q \in Procs PROVE Path(q)
    <2>1. \A r \in Procs : at[r] \in {"exec", "build", "none"}
      BY DEF Init
    <2>2. \A v \in Pages : tlb[q][v] = NoPte
      BY DEF Init, NoPtes
    <2>3. at[q] = "exec" => kid[q] \in Procs
      BY DEF Init
    <2> QED BY <1>3, <2>1, <2>2, <2>3
            DEF Path, CowPath, UnmapPath, TlbHeld, BuiltLeaf, LeafFollows, Follows
  <1> QED BY <1>1, <1>5, <1>6, <1>7, <1>8, <1>9 DEF IInv

(* Every step of every process preserves the strengthened invariant.       *)
THEOREM Invariance == Spec => []IInv
  <1>1. TypeOK /\ RefCounts => Holders
    BY CountedHolders
  <1>2. TypeOK' /\ RefCounts' => Holders'
    BY <1>1, PTL
  <1>3. ASSUME IInv, [Next]_vars PROVE IInv'
    <2>1. TypeOK' /\ ExclusiveCounts' /\ MappedData'
      BY <1>3, StepTypeOK, StepExclusive, StepMapped
    <2>2. Slots' /\ (\A p \in Procs : Path(p))'
      BY <1>3, StepPaths
    <2>3. RefCounts' /\ LostUnmapped'
      BY <1>3, StepCounts DEF Counts
    <2> QED BY <1>2, <2>1, <2>2, <2>3 DEF IInv
  <1> QED BY InitIInv, <1>3, PTL DEF Spec

(* The variables of the paging code stay in their domains; in particular   *)
(* put_page is never called on a page whose count is already zero.         *)
THEOREM TypeCorrect == Spec => []TypeOK
  <1>1. IInv => TypeOK
    BY DEF IInv
  <1> QED BY Invariance, <1>1, PTL

(* _refcount is exact in every reachable state, for any number of          *)
(* processes, pages and frames: no mapped page is freed, none but those    *)
(* execve loses leaks.                                                     *)
THEOREM RefCountsExact == Spec => []RefCounts
  <1>1. IInv => RefCounts
    BY DEF IInv
  <1> QED BY Invariance, <1>1, PTL

(* fork, mprotect and the COW fault never leave a writable leaf on a page  *)
(* that another leaf maps or another process is still copying.             *)
THEOREM WritablePagesPrivate == Spec => []WritableIsPrivate
  <1>1. ASSUME IInv, NEW p \in Procs, NEW v \in Pages,
               pte[p][v] # NoPte, ~pte[p][v].rdonly
        PROVE  /\ Mappers(pte[p][v].frame) = {<<p, v>>}
               /\ Pending(pte[p][v].frame) = {}
    <2>1. Exclusive(p, v)
      BY <1>1 DEF Exclusive
    <2>2. PICK f \in Frames : pte[p][v].frame = f /\ ref[f] = 1
      BY <1>1, <2>1, SoleHolder
    <2>3. <<p, v>> \in Mappers(f)
      BY <1>1, <2>2 DEF Mappers, MapsTo
    <2>4. Pending(f) = {} /\ \A m \in Mappers(f) : m = <<p, v>>
      BY <1>1, <2>2, <2>3, HoldersCount DEF IInv
    <2> QED BY <2>2, <2>3, <2>4
  <1>2. IInv => WritableIsPrivate
    BY <1>1 DEF WritableIsPrivate
  <1> QED BY Invariance, <1>2, PTL

(* The test page_count(old) == 1 of do_cow_fault stays true until the leaf *)
(* is made writable.                                                       *)
THEOREM SoleOwnerTestStable == Spec => []SoleOwnerStable
  <1>1. ASSUME IInv, NEW p \in Procs, NEW v \in Pages, at[p] = "mkwrite", todo[p] = {v}
        PROVE  ref[pte[p][v].frame] = 1
    <2>1. pte[p][v] # NoPte
      BY <1>1, CowLeaf, LeafPresent
    <2>2. Exclusive(p, v)
      BY <1>1, <2>1 DEF Exclusive
    <2> QED BY <1>1, <2>2 DEF IInv, ExclusiveCounts
  <1>2. IInv => SoleOwnerStable
    BY <1>1 DEF SoleOwnerStable
  <1> QED BY Invariance, <1>2, PTL

(* A process in user mode only uses translations its page table holds,     *)
(* although munmap, mprotect and COW faults flush one CPU's TLB only.      *)
THEOREM TranslationsCoherent == Spec => []TlbCoherent
  <1>1. IInv => TlbCoherent
    BY UserTranslation DEF TlbCoherent
  <1> QED BY Invariance, <1>1, PTL

(* The MMU and do_page_fault together grant exactly what the VMAs grant.   *)
THEOREM AccessesExact == Spec => []AccessExact
  <1>1. ASSUME IInv, NEW p \in Procs, NEW v \in Pages, NEW acc \in Access, at[p] = "user"
        PROVE  /\ ~HwAllows(Translation(p, v), acc) /\ Permitted(p, v, acc)
                      => do_page_fault(p, v, acc) # "efault"
               /\ HwAllows(Translation(p, v), acc) => Permitted(p, v, acc)
    <2>1. Translation(p, v) = pte[p][v] /\ Follows(pte[p][v], vma[p][v])
      BY <1>1, UserTranslation
    <2>2. acc \in {"read", "write", "exec"}
      BY DEF Access
    <2> QED BY <2>1, <2>2
            DEF HwAllows, Permitted, VmaAllows, do_page_fault, pte_cow_candidate, Follows
  <1>2. IInv => AccessExact
    BY <1>1 DEF AccessExact, Faults
  <1> QED BY Invariance, <1>2, PTL

(* Demand paging, copy-on-write, fork, execve and exit implement private   *)
(* memories: each process sees only its own stores and its own calls.      *)
THEOREM Refinement == Spec => RefinesPrivateMemory
  <1>1. Init => Private!Init
    BY InitRefines
  <1>2. IInv /\ [Next]_vars => [Private!Next]_(Private!vars)
    BY StepRefines
  <1> QED BY Invariance, <1>1, <1>2, PTL DEF Spec, RefinesPrivateMemory, Private!Spec

=============================================================================
