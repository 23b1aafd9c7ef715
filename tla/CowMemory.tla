----------------------------- MODULE CowMemory ------------------------------
(***************************************************************************)
(* Every step of Cow preserves type correctness, keeps the kernel paths    *)
(* apart and leaves each of them, and every user process, with the leaves, *)
(* VMAs and cached translations it relies on.  No step changes a page      *)
(* under a leaf that stays, except a store through that leaf, and every    *)
(* step is a step of PrivateMemory or shows to no process.                 *)
(***************************************************************************)
EXTENDS CowSteps

-----------------------------------------------------------------------------
(* Type correctness.                                                       *)

(* The state after mmap_init and the first exec is type correct.           *)
LEMMA InitTypeOK == Init => TypeOK
  BY CowAssumption DEF Init, TypeOK, At, NoReq, NoPtes, NoVmas

(* put_page is only called on a page with a reference to drop.             *)
LEMMA DropTypes ==
    ASSUME IInv, NEW q \in Procs, NEW v \in Pages, DropLeaf(q, v)
    PROVE  /\ pte' \in [Procs -> [Pages -> Leaf \cup {NoPte}]]
           /\ ref' \in [Frames -> Nat]
           /\ data' \in [Frames -> Values \cup {Junk}]
  <1>1. CASE pte[q][v] = NoPte
    BY <1>1, Zenon DEF DropLeaf, IInv, TypeOK
  <1>2. CASE pte[q][v] # NoPte
    <2> DEFINE f == pte[q][v].frame
    <2>1. f \in Frames /\ <<q, v>> \in Mappers(f)
      BY <1>2 DEF IInv, TypeOK, Leaf, Mappers, MapsTo
    <2>2. ref[f] \in Nat /\ ref[f] >= 1
      BY <1>2, <2>1, Zenon DEF IInv, TypeOK, Holders
    <2>3. /\ pte' = [pte EXCEPT ![q][v] = NoPte]
          /\ ref' = [ref EXCEPT ![f] = ref[f] - 1]
          /\ data' = [data EXCEPT ![f] = IF ref[f] = 1 THEN Junk ELSE data[f]]
      BY <1>2, Zenon DEF DropLeaf, put_page
    <2>4. ref[f] - 1 \in Nat
      BY <2>2
    <2> HIDE DEF f
    <2> QED BY <2>1, <2>3, <2>4, Zenon DEF IInv, TypeOK
  <1> QED BY <1>1, <1>2, Zenon

(* The faults, user accesses and one-page steps of the walks keep the state *)
(* type correct.                                                           *)
LEMMA PageTypeOK ==
    ASSUME IInv, NEW p \in Procs, NEW v \in Pages, PageStep(p, v)
    PROVE  TypeOK'
  <1>0. TypeOK
    BY Zenon DEF IInv
  <1> USE DEF TypeOK, At, kernel
  <1>1. CASE TlbFill(p, v)
    BY <1>0, <1>1, Zenon DEF TlbFill
  <1>2. ASSUME NEW x \in Values, UserStore(p, v, x) PROVE TypeOK'
    BY <1>0, <1>2, Zenon DEF UserStore
  <1>3. ASSUME NEW x \in Values, copy_to_user(p, v, x) PROVE TypeOK'
    BY <1>0, <1>3, Zenon DEF copy_to_user
  <1>4. ASSUME NEW acc \in {"read", "write"}, UaccessAbort(p, v, acc) PROVE TypeOK'
    BY <1>0, <1>4, Zenon DEF UaccessAbort
  <1>5. ASSUME NEW acc \in Access, FaultSegv(p, v, acc) PROVE TypeOK'
    BY <1>0, <1>5, Zenon DEF FaultSegv, do_exit, NoPtes
  <1>6. ASSUME NEW acc \in Access, FaultDemand(p, v, acc) PROVE TypeOK'
    <2>1. PICK f \in Frames :
            /\ ref' = [ref EXCEPT ![f] = 1]
            /\ data' = [data EXCEPT ![f] = Zero]
            /\ pte' = [pte EXCEPT ![p][v] = prot_to_pte(f, vma[p][v])]
      BY <1>6, Zenon DEF FaultDemand
    <2>2. prot_to_pte(f, vma[p][v]) \in Leaf
      BY Zenon DEF Leaf, prot_to_pte
    <2> QED BY <1>0, <1>6, <2>1, <2>2, CowAssumption, Zenon DEF FaultDemand, TlbFlushPage
  <1>7. ASSUME NEW acc \in Access, FaultOom(p, v, acc) PROVE TypeOK'
    BY <1>0, <1>7, Zenon DEF FaultOom, do_exit, NoPtes
  <1>8. ASSUME NEW acc \in Access, FaultCow(p, v, acc) PROVE TypeOK'
    BY <1>0, <1>8, Zenon DEF FaultCow
  <1>9. CASE CowMkwrite(p, v)
    <2>1. pte[p][v] \in Leaf
      BY <1>9, CowLeaf, Zenon DEF CowMkwrite
    <2>2. pte_mkwrite(pte[p][v]) \in Leaf
      BY <2>1, Zenon DEF Leaf, pte_mkwrite
    <2> QED BY <1>0, <1>9, <2>2, Zenon DEF CowMkwrite, TlbFlushPage
  <1>10. CASE CowCopy(p, v)
    <2>1. pte[p][v] \in Leaf
      BY <1>10, CowLeaf, Zenon DEF CowCopy
    <2>2. PICK f \in Frames :
            /\ ref' = [ref EXCEPT ![f] = 1]
            /\ data' = [data EXCEPT ![f] = data[pte[p][v].frame]]
            /\ pte' = [pte EXCEPT ![p][v] = pte_mkwrite([@ EXCEPT !.frame = f])]
      BY <1>10, Zenon DEF CowCopy
    <2>3. /\ pte_mkwrite([pte[p][v] EXCEPT !.frame = f]) \in Leaf
          /\ pte[p][v].frame \in Frames
      BY <2>1, Zenon DEF Leaf, pte_mkwrite
    <2> QED BY <1>0, <1>10, <2>2, <2>3, Zenon DEF CowCopy, TlbFlushPage
  <1>11. CASE unmap_page(p, v)
    <2>1. DropLeaf(p, v)
      BY <1>11, Zenon DEF unmap_page
    <2> QED BY <1>0, <1>11, <2>1, DropTypes, Zenon DEF unmap_page, TlbFlushPage
  <1>12. CASE dup_pgtable_level(p, v)
    <2>1. kid[p] \in Procs
      BY <1>0, <1>12 DEF dup_pgtable_level, IInv, Slots, Builders
    <2>2. CASE pte[p][v] = NoPte
      BY <1>0, <1>12, <2>2, Zenon DEF dup_pgtable_level
    <2>3. CASE pte[p][v] # NoPte
      <3>1. pte[p][v] \in Leaf
        BY <1>0, <2>3
      <3>2. SharedLeaf(pte[p][v]) \in Leaf /\ pte[p][v].frame \in Frames
        BY <3>1, Zenon DEF Leaf, SharedLeaf, pte_wrprotect
      <3>3. /\ ref' = [ref EXCEPT ![pte[p][v].frame] = @ + 1]
            /\ pte' = [pte EXCEPT ![p][v] = SharedLeaf(pte[p][v]),
                                  ![kid[p]][v] = SharedLeaf(pte[p][v])]
            /\ TlbFlushPage(p, v)
        BY <1>12, <2>3, Zenon DEF dup_pgtable_level
      <3>4. pte' \in [Procs -> [Pages -> Leaf \cup {NoPte}]]
        BY <1>0, <2>1, <3>2, <3>3, Zenon
      <3>5. ref' \in [Frames -> Nat]
        BY <1>0, <3>2, <3>3
      <3>6. tlb' \in [Procs -> [Pages -> Leaf \cup {NoPte}]]
        BY <1>0, <3>3, Zenon DEF TlbFlushPage
      <3>7. /\ todo' \in [Procs -> SUBSET Pages]
            /\ UNCHANGED <<at, kernel, vma, data, lost>>
        BY <1>0, <1>12, Zenon DEF dup_pgtable_level
      <3> QED BY <1>0, <3>4, <3>5, <3>6, <3>7, Zenon
    <2> QED BY <2>2, <2>3, Zenon
  <1>13. CASE UndoPage(p, v)
    <2>1. kid[p] \in Procs /\ DropLeaf(kid[p], v)
      BY <1>0, <1>13 DEF UndoPage, IInv, Slots, Builders
    <2> QED BY <1>0, <1>13, <2>1, DropTypes, Zenon DEF UndoPage
  <1>14. CASE ReapPage(p, v)
    <2>1. DropLeaf(p, v)
      BY <1>14, Zenon DEF ReapPage
    <2> QED BY <1>0, <1>14, <2>1, DropTypes, Zenon DEF ReapPage
  <1>15. CASE NoSegment(p, v)
    BY <1>0, <1>15, Zenon DEF NoSegment
  <1>16. ASSUME NEW prot \in Prots, NEW x \in Values, load_segment(p, v, prot, x)
         PROVE  TypeOK'
    <2>1. kid[p] \in Procs
      BY <1>0, <1>16 DEF load_segment, IInv, Slots, Builders
    <2>2. PICK f \in Frames :
            /\ ref' = [ref EXCEPT ![f] = 1]
            /\ data' = [data EXCEPT ![f] = x]
            /\ pte' = [pte EXCEPT ![kid[p]][v] = prot_to_pte(f, prot)]
      BY <1>16, Zenon DEF load_segment
    <2>3. prot_to_pte(f, prot) \in Leaf
      BY Zenon DEF Leaf, prot_to_pte
    <2> QED BY <1>0, <1>16, <2>1, <2>2, <2>3, Zenon DEF load_segment, TlbFlushAll, NoPtes
  <1>17. ASSUME NEW prot \in Prots, NEW x \in Values, SegmentOverlap(p, v, prot, x)
         PROVE  TypeOK'
    <2>1. kid[p] \in Procs /\ pte[kid[p]][v].frame \in Frames
      BY <1>0, <1>17 DEF SegmentOverlap, IInv, Slots, Builders, Leaf
    <2>2. PICK f \in Frames :
            /\ ref' = [ref EXCEPT ![f] = 1]
            /\ data' = [data EXCEPT ![f] = x]
            /\ pte' = [pte EXCEPT ![kid[p]][v] = prot_to_pte(f, prot)]
      BY <1>17, Zenon DEF SegmentOverlap
    <2>3. prot_to_pte(f, prot) \in Leaf
      BY Zenon DEF Leaf, prot_to_pte
    <2> QED BY <1>0, <1>17, <2>1, <2>2, <2>3, Zenon DEF SegmentOverlap, ExecUndo,
               TlbFlushAll, NoPtes
  <1> QED BY <1>1, <1>2, <1>3, <1>4, <1>5, <1>6, <1>7, <1>8, <1>9, <1>10, <1>11,
             <1>12, <1>13, <1>14, <1>15, <1>16, <1>17, Zenon DEF PageStep

(* The steps of fork, exec, exit and do_cow_fault keep the state type      *)
(* correct.                                                                *)
LEMMA ProcTypeOK ==
    ASSUME IInv, NEW p \in Procs, ProcStep(p)
    PROVE  TypeOK'
  <1>0. TypeOK
    BY Zenon DEF IInv
  <1> USE DEF TypeOK, At, kernel
  <1>1. CASE CowOom(p)
    BY <1>0, <1>1, Zenon DEF CowOom, do_exit, NoPtes
  <1>2. CASE CowPut(p)
    <2> DEFINE f == pend[p]
    <2>1. f \in Frames /\ p \in Pending(f)
      BY <1>0, <1>2 DEF CowPut, IInv, Slots, Builders, Pending
    <2>2. ref[f] - 1 \in Nat
      <3> HIDE DEF f
      <3>1. f # NoFrame /\ ref[f] \in Nat
        BY <1>0, <2>1, CowAssumption, Zenon
      <3>2. f # NoFrame => ref[f] >= 1
        BY Zenon DEF IInv, Holders, f
      <3> QED BY <3>1, <3>2
    <2>3. /\ ref' = [ref EXCEPT ![f] = ref[f] - 1]
          /\ data' = [data EXCEPT ![f] = IF ref[f] = 1 THEN Junk ELSE data[f]]
      BY <1>2, Zenon DEF CowPut, put_page
    <2> HIDE DEF f
    <2>4. ref' \in [Frames -> Nat] /\ data' \in [Frames -> Values \cup {Junk}]
      BY <1>0, <2>1, <2>2, <2>3, Zenon
    <2> QED BY <1>0, <1>2, <2>4, Zenon DEF CowPut
  <1>3. CASE UnmapDone(p)
    <2>1. PICK prot \in {req[p].prot, NoVma} :
            vma' = [vma EXCEPT ![p] =
                      [v \in Pages |-> IF v \in req[p].range THEN prot ELSE @[v]]]
      BY <1>3, Zenon DEF UnmapDone
    <2>2. prot \in Prots \cup {NoVma}
      BY <1>0, Zenon
    <2> QED BY <1>0, <1>3, <2>1, <2>2 DEF UnmapDone, NoReq
  <1>4. CASE ForkDone(p)
    <2>1. kid[p] \in Procs
      BY <1>0, <1>4 DEF ForkDone, IInv, Slots, Builders
    <2> QED BY <1>0, <1>4, <2>1, Zenon DEF ForkDone
  <1>5. CASE ForkFail(p)
    BY <1>0, <1>5, Zenon DEF ForkFail
  <1>6. CASE UndoDone(p)
    <2>1. kid[p] \in Procs
      BY <1>0, <1>6 DEF UndoDone, IInv, Slots, Builders
    <2>2. tlb' \in [Procs -> [Pages -> Leaf \cup {NoPte}]]
      BY <1>0, <1>6 DEF UndoDone, TlbFlushAll, NoPtes
    <2>3. vma' \in [Procs -> [Pages -> Prots \cup {NoVma}]]
      BY <1>0, <1>6, <2>1, Zenon DEF UndoDone, NoVmas
    <2>4. at' \in [Procs -> At]
      BY <1>0, <1>6, <2>1, Zenon DEF UndoDone
    <2> QED BY <1>0, <1>6, <2>2, <2>3, <2>4, Zenon DEF UndoDone
  <1>7. CASE StackMapFail(p)
    <2>1. PICK f \in Frames :
            /\ ref' = [ref EXCEPT ![f] = 1]
            /\ data' = [data EXCEPT ![f] = Zero]
            /\ lost' = lost \cup {f}
      BY <1>7, Zenon DEF StackMapFail
    <2> QED BY <1>0, <1>7, <2>1, CowAssumption DEF StackMapFail, ExecUndo
  <1>8. CASE ExecFail(p)
    BY <1>0, <1>8, Zenon DEF ExecFail, ExecUndo
  <1>9. CASE ExecSwap(p)
    <2>1. kid[p] \in Procs
      BY <1>0, <1>9 DEF ExecSwap, IInv, Slots, Builders
    <2> QED BY <1>0, <1>9, <2>1, Zenon DEF ExecSwap
  <1>10. CASE ksys_exit(p)
    BY <1>0, <1>10, Zenon DEF ksys_exit, do_exit, NoPtes
  <1>11. CASE mm_put(p)
    BY <1>0, <1>11, Zenon DEF mm_put
  <1>12. CASE ReapDone(p)
    BY <1>0, <1>12, Zenon DEF ReapDone, NoVmas
  <1> QED BY <1>1, <1>2, <1>3, <1>4, <1>5, <1>6, <1>7, <1>8, <1>9, <1>10, <1>11,
             <1>12, Zenon DEF ProcStep

(* mmap, munmap, mprotect, brk and the user accesses keep the state type   *)
(* correct.                                                                *)
LEMMA CallTypeOK ==
    ASSUME IInv, NEW p \in Procs, CallStep(p)
    PROVE  TypeOK'
  <1>0. TypeOK
    BY Zenon DEF IInv
  <1> USE DEF TypeOK, At, kernel
  <1>1. ASSUME NEW S \in Ranges, NEW prot \in Prots, do_mmap(p, S, prot) PROVE TypeOK'
    <2>1. vma' \in [Procs -> [Pages -> Prots \cup {NoVma}]]
      BY <1>0, <1>1, Zenon DEF do_mmap
    <2> QED BY <1>0, <1>1, <2>1, Zenon DEF do_mmap
  <1>2. ASSUME NEW S \in Ranges, NEW prot \in Prots, mm_mprotect(p, S, prot)
        PROVE  TypeOK'
    <2>1. \A e \in Leaf : ReprotectedLeaf(e, prot) \in Leaf
      BY LeafTypes, Zenon DEF Leaf
    <2>2. pte' \in [Procs -> [Pages -> Leaf \cup {NoPte}]]
      BY <1>0, <1>2, <2>1 DEF mm_mprotect
    <2>3. vma' \in [Procs -> [Pages -> Prots \cup {NoVma}]]
      BY <1>0, <1>2, Zenon DEF mm_mprotect
    <2>4. tlb' \in [Procs -> [Pages -> Leaf \cup {NoPte}]]
      BY <1>0, <1>2, Zenon DEF mm_mprotect
    <2>5. UNCHANGED <<at, todo, kid, pend, req, ref, data, lost>>
      BY <1>2, Zenon DEF mm_mprotect
    <2> QED BY <1>0, <2>2, <2>3, <2>4, <2>5, Zenon
  <1>3. ASSUME NEW S \in Ranges, NEW prot \in Prots \cup {NoVma},
               vma_erase_range(p, S, prot)
        PROVE  TypeOK'
    <2>1. S \subseteq Pages
      BY DEF Ranges
    <2>2. vma' \in [Procs -> [Pages -> Prots \cup {NoVma}]]
      BY <1>0, <1>3, Zenon DEF vma_erase_range
    <2>3. /\ at' \in [Procs -> At] /\ todo' \in [Procs -> SUBSET Pages]
          /\ req' \in [Procs -> [range : SUBSET Pages, prot : Prots \cup {NoVma}]]
      BY <1>0, <1>3, <2>1, Zenon DEF vma_erase_range
    <2>4. UNCHANGED <<kid, pend, pte, tlb, ref, data, lost>>
      BY <1>3, Zenon DEF vma_erase_range
    <2> QED BY <1>0, <2>2, <2>3, <2>4, Zenon
  <1>4. ASSUME NEW c \in Procs, dup_mm(p, c) PROVE TypeOK'
    BY <1>0, <1>4, Zenon DEF dup_mm
  <1>5. ASSUME NEW c \in Procs, load_elf_binary(p, c) PROVE TypeOK'
    BY <1>0, <1>5, Zenon DEF load_elf_binary
  <1> QED BY <1>1, <1>2, <1>3, <1>4, <1>5, Zenon DEF CallStep

(* Every step of the memory manager keeps the state type correct.          *)
LEMMA StepTypeOK == IInv /\ [Next]_vars => TypeOK'
  <1> SUFFICES ASSUME IInv, [Next]_vars PROVE TypeOK'
    BY Zenon
  <1>0. TypeOK
    BY Zenon DEF IInv
  <1>1. CASE mm_install
    BY <1>0, <1>1, Zenon DEF mm_install, TlbFlushAll, NoPtes, TypeOK, kernel
  <1>2. CASE UNCHANGED vars
    BY <1>0, <1>2, Zenon DEF TypeOK, vars
  <1> QED BY <1>1, <1>2, PageTypeOK, ProcTypeOK, CallTypeOK, Zenon DEF Next

-----------------------------------------------------------------------------
(* The slots of the kernel paths.                                          *)

(* What a step of p does to its own entry of Slots.                        *)
OwnSlot(p) ==
    /\ at[p] \notin {"none", "build"}
    /\ at'[p] \in Builders <=> kid'[p] # NoProc
    /\ kid'[p] # NoProc => /\ at'[kid'[p]] = "build"
                           /\ kid'[p] = kid[p] \/ at[kid'[p]] = "none"
    /\ at'[p] = "put" <=> pend'[p] # NoFrame

(* A fault, a user access or a one-page step of p.                         *)
LEMMA PageOwnSlot ==
    ASSUME IInv, NEW p \in Procs, NEW v \in Pages, PageStep(p, v)
    PROVE  OwnSlot(p)
  <1>0. TypeOK /\ Slots
    BY Zenon DEF IInv
  <1> USE DEF TypeOK, Slots, Builders, OwnSlot, kernel
  <1>1. CASE TlbFill(p, v)
    BY <1>0, <1>1, Zenon DEF TlbFill
  <1>2. ASSUME NEW x \in Values, UserStore(p, v, x)
      PROVE  OwnSlot(p)
    BY <1>0, <1>2, Zenon DEF UserStore
  <1>3. ASSUME NEW x \in Values, copy_to_user(p, v, x)
      PROVE  OwnSlot(p)
    BY <1>0, <1>3, Zenon DEF copy_to_user
  <1>4. ASSUME NEW acc \in {"read", "write"}, UaccessAbort(p, v, acc)
      PROVE  OwnSlot(p)
    BY <1>0, <1>4, Zenon DEF UaccessAbort
  <1>5. ASSUME NEW acc \in Access, FaultSegv(p, v, acc)
      PROVE  OwnSlot(p)
    BY <1>0, <1>5, Zenon DEF FaultSegv, Faults, do_exit
  <1>6. ASSUME NEW acc \in Access, FaultDemand(p, v, acc)
      PROVE  OwnSlot(p)
    BY <1>0, <1>6, Zenon DEF FaultDemand, Faults
  <1>7. ASSUME NEW acc \in Access, FaultOom(p, v, acc)
      PROVE  OwnSlot(p)
    BY <1>0, <1>7, Zenon DEF FaultOom, Faults, do_exit
  <1>8. ASSUME NEW acc \in Access, FaultCow(p, v, acc)
      PROVE  OwnSlot(p)
    BY <1>0, <1>8, Zenon DEF FaultCow, Faults
  <1>9. CASE CowMkwrite(p, v)
    BY <1>0, <1>9, Zenon DEF CowMkwrite
  <1>10. CASE CowCopy(p, v)
    <2>1. pte[p][v].frame # NoFrame
      BY <1>10, CowLeaf, CowAssumption DEF CowCopy, Leaf
    <2> QED BY <1>0, <1>10, <2>1, Zenon DEF CowCopy
  <1>11. CASE unmap_page(p, v)
    BY <1>0, <1>11, Zenon DEF unmap_page
  <1>12. CASE dup_pgtable_level(p, v)
    BY <1>0, <1>12, Zenon DEF dup_pgtable_level
  <1>13. CASE UndoPage(p, v)
    BY <1>0, <1>13, Zenon DEF UndoPage
  <1>14. CASE ReapPage(p, v)
    BY <1>0, <1>14, Zenon DEF ReapPage
  <1>15. CASE NoSegment(p, v)
    BY <1>0, <1>15, Zenon DEF NoSegment
  <1>16. ASSUME NEW prot \in Prots, NEW x \in Values, load_segment(p, v, prot, x)
       PROVE  OwnSlot(p)
    BY <1>0, <1>16, Zenon DEF load_segment
  <1>17. ASSUME NEW prot \in Prots, NEW x \in Values, SegmentOverlap(p, v, prot, x)
       PROVE  OwnSlot(p)
    BY <1>0, <1>17 DEF SegmentOverlap, ExecUndo
  <1> QED BY <1>1, <1>2, <1>3, <1>4, <1>5, <1>6, <1>7, <1>8, <1>9, <1>10,
             <1>11, <1>12, <1>13, <1>14, <1>15, <1>16, <1>17, Zenon DEF PageStep

(* A whole-process step of p.                                              *)
LEMMA ProcOwnSlot ==
    ASSUME IInv, NEW p \in Procs, ProcStep(p)
    PROVE  OwnSlot(p)
  <1>0. TypeOK /\ Slots
    BY Zenon DEF IInv
  <1> USE DEF TypeOK, Slots, Builders, OwnSlot, kernel
  <1>1. CASE CowOom(p)
    BY <1>0, <1>1, Zenon DEF CowOom, do_exit
  <1>2. CASE CowPut(p)
    BY <1>0, <1>2, Zenon DEF CowPut
  <1>3. CASE UnmapDone(p)
    BY <1>0, <1>3, Zenon DEF UnmapDone
  <1>4. CASE ForkDone(p)
    BY <1>0, <1>4, Zenon DEF ForkDone
  <1>5. CASE ForkFail(p)
    BY <1>0, <1>5 DEF ForkFail
  <1>6. CASE UndoDone(p)
    BY <1>0, <1>6, Zenon DEF UndoDone
  <1>7. CASE StackMapFail(p)
    BY <1>0, <1>7 DEF StackMapFail, ExecUndo
  <1>8. CASE ExecFail(p)
    BY <1>0, <1>8 DEF ExecFail, ExecUndo
  <1>9. CASE ExecSwap(p)
    BY <1>0, <1>9 DEF ExecSwap
  <1>10. CASE ksys_exit(p)
    BY <1>0, <1>10, Zenon DEF ksys_exit, do_exit
  <1>11. CASE mm_put(p)
    BY <1>0, <1>11, Zenon DEF mm_put
  <1>12. CASE ReapDone(p)
    BY <1>0, <1>12, Zenon DEF ReapDone
  <1> QED BY <1>1, <1>2, <1>3, <1>4, <1>5, <1>6, <1>7, <1>8, <1>9, <1>10,
             <1>11, <1>12, Zenon DEF ProcStep

(* A system call of p.                                                     *)
LEMMA CallOwnSlot ==
    ASSUME IInv, NEW p \in Procs, CallStep(p)
    PROVE  OwnSlot(p)
  <1>0. TypeOK /\ Slots
    BY Zenon DEF IInv
  <1> USE DEF TypeOK, Slots, Builders, OwnSlot, kernel
  <1>1. ASSUME NEW S \in Ranges, NEW prot \in Prots, do_mmap(p, S, prot)
        PROVE  OwnSlot(p)
    BY <1>0, <1>1, Zenon DEF do_mmap
  <1>2. ASSUME NEW S \in Ranges, NEW prot \in Prots, mm_mprotect(p, S, prot)
        PROVE  OwnSlot(p)
    BY <1>0, <1>2, Zenon DEF mm_mprotect
  <1>3. ASSUME NEW S \in Ranges, NEW prot \in Prots \cup {NoVma},
               vma_erase_range(p, S, prot)
        PROVE  OwnSlot(p)
    BY <1>0, <1>3, Zenon DEF vma_erase_range
  <1>4. ASSUME NEW c \in Procs, dup_mm(p, c)
        PROVE  OwnSlot(p)
    BY <1>0, <1>4, CowAssumption DEF dup_mm
  <1>5. ASSUME NEW c \in Procs, load_elf_binary(p, c)
        PROVE  OwnSlot(p)
    BY <1>0, <1>5, CowAssumption DEF load_elf_binary
  <1> QED BY <1>1, <1>2, <1>3, <1>4, <1>5, Zenon DEF CallStep

(* A step of p keeps the slots of all processes apart.                     *)
LEMMA KeepSlots ==
    ASSUME IInv, TypeOK', NEW p \in Procs, OwnSlot(p),
           \A q \in Procs : q # p => Elsewhere(p, q)
    PROVE  Slots'
  <1>0. TypeOK /\ Slots
    BY Zenon DEF IInv
  <1>1. ASSUME NEW q \in Procs, q # p, kid[q] # NoProc
        PROVE  kid[q] \in Procs /\ at'[kid[q]] = "build" /\ kid[q] \notin {kid[p], kid'[p]}
    BY <1>0, <1>1 DEF Slots, OwnSlot, Elsewhere, Aside, TypeOK
  <1>2. \A q \in Procs : q # p => kid'[q] = kid[q] /\ pend'[q] = pend[q]
    BY Zenon DEF Elsewhere, Aside, Handled
  <1>3. ASSUME NEW q \in Procs, q # p
        PROVE  (at'[q] \in Builders <=> kid'[q] # NoProc) /\ (at'[q] = "put" <=> pend'[q] # NoFrame)
    BY <1>0, <1>2, <1>3 DEF Slots, Elsewhere, Aside, Handled, Builders
  <1>4. ASSUME NEW q \in Procs, kid'[q] # NoProc PROVE at'[kid'[q]] = "build"
    BY <1>1, <1>2, <1>4, Zenon DEF OwnSlot
  <1>5. ASSUME NEW q \in Procs, NEW r \in Procs, kid'[q] = kid'[r], kid'[q] # NoProc
        PROVE  q = r
    BY <1>0, <1>1, <1>2, <1>5 DEF Slots
  <1> QED BY <1>3, <1>4, <1>5, Zenon DEF Slots, OwnSlot

-----------------------------------------------------------------------------
(* What each path relies on.                                               *)

(* A fresh leaf, and one change_pte_prot rewrites, grant what the VMA does. *)
LEMMA NewFollows ==
    ASSUME NEW prot \in Prots, NEW f, NEW e
    PROVE  Follows(prot_to_pte(f, prot), prot) /\ Follows(ReprotectedLeaf(e, prot), prot)
  BY CowAssumption, Zenon DEF Follows, prot_to_pte, ReprotectedLeaf, pte_wrprotect

(* Write protection by dup_pgtable_level and its end in do_cow_fault keep  *)
(* a leaf in line with its VMA.                                            *)
LEMMA KeptFollows ==
    ASSUME NEW prot, NEW f \in Frames, NEW e \in Leaf, Follows(e, prot)
    PROVE  /\ Follows(SharedLeaf(e), prot)
           /\ "w" \in prot => /\ Follows(pte_mkwrite(e), prot)
                             /\ Follows(pte_mkwrite([e EXCEPT !.frame = f]), prot)
  BY CowAssumption, Zenon DEF Follows, Leaf, SharedLeaf, pte_wrprotect, pte_mkwrite

(* A fault, a user access or a one-page step of p.                         *)
LEMMA PagePath ==
    ASSUME IInv, NEW p \in Procs, NEW v \in Pages, PageStep(p, v)
    PROVE  Path(p)'
  <1>0. TypeOK /\ Path(p)
    BY Zenon DEF IInv
  <1> USE DEF TypeOK, kernel, Path, CowPath, UnmapPath, TlbHeld, BuiltLeaf,
              LeafFollows, Follows, Running, NoPtes, NoVmas
  <1>1. CASE TlbFill(p, v)
    BY <1>0, <1>1, KidSlot DEF TlbFill
  <1>2. ASSUME NEW x \in Values, UserStore(p, v, x)
      PROVE  Path(p)'
    BY <1>0, <1>2, KidSlot, Zenon DEF UserStore
  <1>3. ASSUME NEW x \in Values, copy_to_user(p, v, x)
      PROVE  Path(p)'
    BY <1>0, <1>3, KidSlot, Zenon DEF copy_to_user
  <1>4. ASSUME NEW acc \in {"read", "write"}, UaccessAbort(p, v, acc)
      PROVE  Path(p)'
    BY <1>0, <1>4, KidSlot DEF UaccessAbort
  <1>5. ASSUME NEW acc \in Access, FaultSegv(p, v, acc)
      PROVE  Path(p)'
    BY <1>0, <1>5, KidSlot, Zenon DEF FaultSegv, Faults, do_exit
  <1>6. ASSUME NEW acc \in Access, FaultDemand(p, v, acc)
      PROVE  Path(p)'
    <2>1. PICK f \in Frames : pte' = [pte EXCEPT ![p][v] = prot_to_pte(f, vma[p][v])]
      BY <1>6, Zenon DEF FaultDemand
    <2>2. vma[p][v] \in Prots
      BY <1>0, <1>6 DEF FaultDemand, do_page_fault
    <2>3. Follows(prot_to_pte(f, vma[p][v]), vma[p][v])
      BY <2>2, NewFollows, Zenon
    <2> HIDE DEF Follows
    <2> QED BY <1>0, <1>6, <2>1, <2>3 DEF FaultDemand, Faults, TlbFlushPage
  <1>7. ASSUME NEW acc \in Access, FaultOom(p, v, acc)
      PROVE  Path(p)'
    BY <1>0, <1>7, KidSlot, Zenon DEF FaultOom, Faults, do_exit
  <1>8. ASSUME NEW acc \in Access, FaultCow(p, v, acc)
      PROVE  Path(p)'
    BY <1>0, <1>8, KidSlot DEF FaultCow, Faults, do_page_fault, pte_cow_candidate
  <1>9. CASE CowMkwrite(p, v)
    <2>1. Follows(pte[p][v], vma[p][v]) /\ pte[p][v] \in Leaf /\ "w" \in vma[p][v]
      BY <1>0, <1>9, CowLeaf, Zenon DEF CowMkwrite
    <2> HIDE DEF Follows
    <2>2. pte[p][v].frame \in Frames
      BY <2>1, Zenon DEF Leaf
    <2>3. Follows(pte_mkwrite(pte[p][v]), vma[p][v])
      BY <2>1, <2>2, KeptFollows, Zenon
    <2> QED BY <1>0, <1>9, <2>3, Zenon DEF CowMkwrite, TlbFlushPage
  <1>10. CASE CowCopy(p, v)
    <2>1. Follows(pte[p][v], vma[p][v]) /\ pte[p][v] \in Leaf /\ "w" \in vma[p][v]
      BY <1>0, <1>10, CowLeaf, Zenon DEF CowCopy
    <2> HIDE DEF Follows
    <2>2. PICK f \in Frames :
            pte' = [pte EXCEPT ![p][v] = pte_mkwrite([@ EXCEPT !.frame = f])]
      BY <1>10, Zenon DEF CowCopy
    <2>3. Follows(pte_mkwrite([pte[p][v] EXCEPT !.frame = f]), vma[p][v])
      BY <2>1, KeptFollows, Zenon
    <2> QED BY <1>0, <1>10, <2>2, <2>3 DEF CowCopy, TlbFlushPage
  <1>11. CASE unmap_page(p, v)
    BY <1>0, <1>11, KidSlot DEF unmap_page, DropLeaf, TlbFlushPage
  <1>12. CASE dup_pgtable_level(p, v)
    <2> HIDE DEF Follows
    <2>0. /\ at[p] = "fork" /\ at' = at /\ kid' = kid /\ vma' = vma
          /\ todo'[p] = todo[p] \ {v}
          /\ kid[p] \in Procs /\ kid[p] # p
      BY <1>0, <1>12, KidSlot, Zenon DEF dup_pgtable_level
    <2>1. CASE pte[p][v] = NoPte
      BY <1>0, <1>12, <2>0, <2>1, Zenon DEF dup_pgtable_level
    <2>2. CASE pte[p][v] # NoPte
      <3>0. /\ pte[p][v] \in Leaf /\ pte[p][v].frame \in Frames
            /\ Follows(pte[p][v], vma[p][v])
        BY <1>0, <2>0, <2>2 DEF Leaf
      <3>1. Follows(SharedLeaf(pte[p][v]), vma[p][v])
        BY <3>0, KeptFollows, Zenon
      <3>2. /\ pte' = [pte EXCEPT ![p][v] = SharedLeaf(pte[p][v]),
                                  ![kid[p]][v] = SharedLeaf(pte[p][v])]
            /\ tlb' = [tlb EXCEPT ![p][v] = NoPte]
        BY <1>12, <2>2, Zenon DEF dup_pgtable_level, TlbFlushPage
      <3>3. \A u \in Pages :
              /\ pte'[p][u] = IF u = v THEN SharedLeaf(pte[p][v]) ELSE pte[p][u]
              /\ pte'[kid[p]][u] = IF u = v THEN SharedLeaf(pte[p][v]) ELSE pte[kid[p]][u]
              /\ tlb'[p][u] = IF u = v THEN NoPte ELSE tlb[p][u]
        BY <1>0, <2>0, <3>2, Zenon
      <3> HIDE DEF TypeOK
      <3> QED BY <1>0, <2>0, <3>1, <3>3
    <2> QED BY <2>1, <2>2, Zenon
  <1>13. CASE UndoPage(p, v)
    BY <1>0, <1>13, KidSlot DEF UndoPage, DropLeaf
  <1>14. CASE ReapPage(p, v)
    BY <1>0, <1>14, KidSlot DEF ReapPage, DropLeaf
  <1>15. CASE NoSegment(p, v)
    BY <1>0, <1>15, KidSlot, Zenon DEF NoSegment
  <1>16. ASSUME NEW prot \in Prots, NEW x \in Values, load_segment(p, v, prot, x)
       PROVE  Path(p)'
    <2> HIDE DEF Follows
    <2>1. PICK f \in Frames : pte' = [pte EXCEPT ![kid[p]][v] = prot_to_pte(f, prot)]
      BY <1>16, Zenon DEF load_segment
    <2>2. Follows(prot_to_pte(f, prot), prot)
      BY NewFollows, Zenon
    <2>3. kid[p] \in Procs /\ kid[p] # p /\ at[p] = "exec"
      BY <1>16, KidSlot, Zenon DEF load_segment
    <2> QED BY <1>0, <1>16, <2>1, <2>2, <2>3 DEF load_segment, TlbFlushAll
  <1>17. ASSUME NEW prot \in Prots, NEW x \in Values, SegmentOverlap(p, v, prot, x)
       PROVE  Path(p)'
    BY <1>0, <1>17, KidSlot DEF SegmentOverlap, ExecUndo, TlbFlushAll
  <1> QED BY <1>1, <1>2, <1>3, <1>4, <1>5, <1>6, <1>7, <1>8, <1>9, <1>10,
             <1>11, <1>12, <1>13, <1>14, <1>15, <1>16, <1>17, Zenon DEF PageStep

(* A whole-process step of p.                                              *)
LEMMA ProcPath ==
    ASSUME IInv, NEW p \in Procs, ProcStep(p)
    PROVE  Path(p)'
  <1>0. TypeOK /\ Path(p)
    BY Zenon DEF IInv
  <1> USE DEF TypeOK, kernel, Path, CowPath, UnmapPath, TlbHeld, BuiltLeaf,
              LeafFollows, Follows, Running, NoPtes, NoVmas
  <1>1. CASE CowOom(p)
    BY <1>0, <1>1, KidSlot, Zenon DEF CowOom, do_exit
  <1>2. CASE CowPut(p)
    BY <1>0, <1>2, KidSlot, Zenon DEF CowPut
  <1>3. CASE UnmapDone(p)
    BY <1>0, <1>3, KidSlot DEF UnmapDone
  <1>4. CASE ForkDone(p)
    BY <1>0, <1>4, KidSlot, Zenon DEF ForkDone
  <1>5. CASE ForkFail(p)
    BY <1>0, <1>5, KidSlot, Zenon DEF ForkFail
  <1>6. CASE UndoDone(p)
    BY <1>0, <1>6, KidSlot DEF UndoDone, TlbFlushAll
  <1>7. CASE StackMapFail(p)
    BY <1>0, <1>7, KidSlot, Zenon DEF StackMapFail, ExecUndo
  <1>8. CASE ExecFail(p)
    BY <1>0, <1>8, KidSlot, Zenon DEF ExecFail, ExecUndo
  <1>9. CASE ExecSwap(p)
    BY <1>0, <1>9, KidSlot, Zenon DEF ExecSwap
  <1>10. CASE ksys_exit(p)
    BY <1>0, <1>10, KidSlot, Zenon DEF ksys_exit, do_exit
  <1>11. CASE mm_put(p)
    BY <1>0, <1>11, KidSlot, Zenon DEF mm_put
  <1>12. CASE ReapDone(p)
    BY <1>0, <1>12, KidSlot, Zenon DEF ReapDone
  <1> QED BY <1>1, <1>2, <1>3, <1>4, <1>5, <1>6, <1>7, <1>8, <1>9, <1>10,
             <1>11, <1>12, Zenon DEF ProcStep

(* A system call of p.                                                     *)
LEMMA CallPath ==
    ASSUME IInv, NEW p \in Procs, CallStep(p)
    PROVE  Path(p)'
  <1>0. TypeOK /\ Path(p)
    BY Zenon DEF IInv
  <1> USE DEF TypeOK, kernel, Path, CowPath, UnmapPath, TlbHeld, BuiltLeaf,
              LeafFollows, Follows, Running, NoPtes, NoVmas
  <1>1. ASSUME NEW S \in Ranges, NEW prot \in Prots, do_mmap(p, S, prot)
        PROVE  Path(p)'
    BY <1>0, <1>1, KidSlot DEF do_mmap
  <1>2. ASSUME NEW S \in Ranges, NEW prot \in Prots, mm_mprotect(p, S, prot)
        PROVE  Path(p)'
    <2> HIDE DEF Follows
    <2>1. \A e : Follows(ReprotectedLeaf(e, prot), prot)
      BY NewFollows, Zenon
    <2>2. \A u \in Pages :
            /\ pte'[p][u] = IF u \in S /\ pte[p][u] # NoPte
                              THEN ReprotectedLeaf(pte[p][u], prot) ELSE pte[p][u]
            /\ vma'[p][u] = IF u \in S THEN prot ELSE vma[p][u]
            /\ tlb'[p][u] = IF u \in S THEN NoPte ELSE tlb[p][u]
      BY <1>0, <1>2, Zenon DEF mm_mprotect
    <2>3. at[p] = "user" /\ at' = at
      BY <1>2, Zenon DEF mm_mprotect
    <2>4. \A u \in Pages : Follows(pte'[p][u], vma'[p][u])
      BY <1>0, <2>1, <2>2, <2>3 DEF Follows
    <2> HIDE DEF TypeOK
    <2> QED BY <1>0, <2>2, <2>3, <2>4, Zenon
  <1>3. ASSUME NEW S \in Ranges, NEW prot \in Prots \cup {NoVma},
               vma_erase_range(p, S, prot)
        PROVE  Path(p)'
    <2>1. S \subseteq Pages
      BY DEF Ranges
    <2> QED BY <1>0, <1>3, <2>1, Zenon DEF vma_erase_range
  <1>4. ASSUME NEW c \in Procs, dup_mm(p, c)
        PROVE  Path(p)'
    <2>1. \A u \in Pages : pte[c][u] = NoPte
      BY <1>4, Zenon DEF dup_mm, IInv
    <2> QED BY <1>0, <1>4, <2>1, Zenon DEF dup_mm
  <1>5. ASSUME NEW c \in Procs, load_elf_binary(p, c)
        PROVE  Path(p)'
    <2>1. \A u \in Pages : pte[c][u] = NoPte
      BY <1>5, Zenon DEF load_elf_binary, IInv
    <2> QED BY <1>0, <1>5, <2>1, Zenon DEF load_elf_binary
  <1> QED BY <1>1, <1>2, <1>3, <1>4, <1>5, Zenon DEF CallStep

(* The slot of another process, or the one a new mm is built in.           *)
LEMMA OtherPath ==
    ASSUME IInv, NEW p \in Procs, OwnSlot(p),
           \A r \in Procs : r # p => Elsewhere(p, r),
           NEW q \in Procs, q # p
    PROVE  Path(q)'
  <1>0. TypeOK /\ Slots /\ Path(q) /\ Elsewhere(p, q)
    BY Zenon DEF IInv
  <1>1. CASE Aside(q)
    <2>1. /\ at'[q] = at[q] /\ todo'[q] = todo[q] /\ kid'[q] = kid[q] /\ req'[q] = req[q]
          /\ vma'[q] = vma[q] /\ pte'[q] = pte[q]
      BY <1>1, Zenon DEF Aside
    <2>2. CowPath(q)' /\ UnmapPath(q)'
      BY <1>0, <2>1, Zenon DEF Path, CowPath, UnmapPath
    <2>3. \A v \in Pages : tlb'[q][v] \in {tlb[q][v], NoPte}
      BY <1>1, Zenon DEF Aside, NoPtes
    <2>4. \A v \in Pages : TlbHeld(q, v)'
      BY <1>0, <2>1, <2>3, Zenon DEF Path, TlbHeld
    <2>5. ASSUME at[q] \in Builders
          PROVE  pte'[kid[q]] = pte[kid[q]] /\ vma'[kid[q]] = vma[kid[q]]
      <3>1. kid[q] \in Procs /\ kid[q] # NoProc
        BY <1>0, <2>5 DEF Slots, TypeOK
      <3>2. kid[q] \notin {p, kid[p], kid'[p]}
        BY <1>0, <3>1 DEF Slots, OwnSlot
      <3> QED BY <3>1, <3>2, Zenon DEF Elsewhere, Aside
    <2>6. \A v \in Pages : BuiltLeaf(q, v)'
      BY <1>0, <2>1, <2>5, Zenon DEF Path, BuiltLeaf, Builders
    <2>7. \A v \in Pages : LeafFollows(q, v)'
      BY <1>0, <2>1, <2>5, Zenon DEF Path, LeafFollows, Builders
    <2> QED BY <2>2, <2>4, <2>6, <2>7, Zenon DEF Path
  <1>2. ASSUME Handled(q)
        PROVE  /\ at'[q] \in {"none", "build", "user"} /\ CowPath(q)' /\ UnmapPath(q)'
               /\ \A v \in Pages : tlb'[q][v] = NoPte
    <2>1. at[q] \in {"none", "build"} /\ at'[q] \in {"none", "build", "user"} /\ tlb'[q] \in {tlb[q], NoPtes}
      BY <1>2, Zenon DEF Handled
    <2>2. CowPath(q)' /\ UnmapPath(q)'
      BY <2>1, Zenon DEF CowPath, UnmapPath
    <2>3. \A v \in Pages : tlb[q][v] = NoPte
      BY <1>0, <2>1, Zenon DEF Path, TlbHeld, Running
    <2>4. \A v \in Pages : tlb'[q][v] = NoPte
      BY <2>1, <2>3, Zenon DEF NoPtes
    <2> QED BY <2>1, <2>2, <2>4, Zenon
  <1>3. CASE Handled(q) /\ at'[q] = "build"
    <2>1. \A v \in Pages : TlbHeld(q, v)' /\ BuiltLeaf(q, v)' /\ LeafFollows(q, v)'
      BY <1>2, <1>3, Zenon DEF TlbHeld, BuiltLeaf, LeafFollows, Running
    <2> QED BY <1>2, <1>3, <2>1, Zenon DEF Path
  <1>4. CASE q \in {kid[p], kid'[p]} /\ Handled(q) /\ ForkDone(p)
    <2>1. /\ at[p] = "fork" /\ todo[p] = {} /\ kid[p] \in Procs
          /\ vma' = [vma EXCEPT ![kid[p]] = vma[p]] /\ pte' = pte
          /\ at' = [at EXCEPT ![p] = "user", ![kid[p]] = "user"]
          /\ kid' = [kid EXCEPT ![p] = NoProc]
      BY <1>4, KidSlot, Zenon DEF ForkDone
    <2>2. q = kid[p] /\ vma'[q] = vma[p] /\ at'[q] = "user"
      BY <1>0, <1>4, <2>1, CowAssumption DEF TypeOK
    <2>3. \A v \in Pages : BuiltLeaf(p, v) /\ LeafFollows(p, v)
      BY Zenon DEF IInv, Path
    <2>4. \A v \in Pages : pte'[q][v] = pte[p][v]
      BY <2>1, <2>2, <2>3, Zenon DEF BuiltLeaf
    <2>5. \A v \in Pages : Follows(pte'[q][v], vma'[q][v])
      BY <2>1, <2>2, <2>3, <2>4, Zenon DEF LeafFollows, Running
    <2>6. \A v \in Pages : TlbHeld(q, v)' /\ BuiltLeaf(q, v)' /\ LeafFollows(q, v)'
      BY <1>2, <1>4, <2>2, <2>5, Zenon DEF TlbHeld, BuiltLeaf, LeafFollows, Running
    <2> QED BY <1>2, <1>4, <2>6, Zenon DEF Path
  <1>5. CASE q \in {kid[p], kid'[p]} /\ Handled(q) /\ UndoDone(p)
    <2>1. /\ at[p] \in {"undo", "drop"} /\ todo[p] = {} /\ kid[p] \in Procs /\ pte' = pte
          /\ kid' = [kid EXCEPT ![p] = NoProc]
      BY <1>5, KidSlot, Zenon DEF UndoDone
    <2>2. at'[kid[p]] = "none"
      BY <1>0, <1>5, <2>1, Zenon DEF UndoDone, TypeOK
    <2>3. q = kid[p]
      BY <1>0, <1>5, <2>1, CowAssumption DEF TypeOK
    <2>4. \A v \in Pages : BuiltLeaf(p, v)
      BY Zenon DEF IInv, Path
    <2>5. \A v \in Pages : pte'[q][v] = NoPte
      BY <2>1, <2>3, <2>4, Zenon DEF BuiltLeaf
    <2>6. \A v \in Pages : TlbHeld(q, v)' /\ BuiltLeaf(q, v)' /\ LeafFollows(q, v)'
      BY <1>2, <1>5, <2>2, <2>3, <2>5, Zenon DEF TlbHeld, BuiltLeaf, LeafFollows, Running
    <2> QED BY <1>2, <1>5, <2>6, Zenon DEF Path
  <1> QED BY <1>0, <1>1, <1>3, <1>4, <1>5, Zenon DEF Elsewhere

(* Every step keeps the slots apart and every path what it relies on.      *)
LEMMA StepPaths ==
    ASSUME IInv, [Next]_vars
    PROVE  Slots' /\ \A q \in Procs : Path(q)'
  <1>0. TypeOK /\ TypeOK' /\ Slots /\ \A q \in Procs : Path(q)
    BY StepTypeOK, Zenon DEF IInv
  <1>1. CASE mm_install
    BY <1>0, <1>1 DEF mm_install, TlbFlushAll, kernel, Slots, Path, CowPath, UnmapPath,
                      TlbHeld, BuiltLeaf, LeafFollows, NoPtes
  <1>2. CASE UNCHANGED vars
    BY <1>0, <1>2 DEF vars, Slots, Path, CowPath, UnmapPath, TlbHeld, BuiltLeaf, LeafFollows
  <1>3. ASSUME NEW p \in Procs, OwnSlot(p), Path(p)',
               \A q \in Procs : q # p => Elsewhere(p, q)
        PROVE  Slots' /\ \A q \in Procs : Path(q)'
    BY <1>0, <1>3, KeepSlots, OtherPath, Zenon
  <1>4. ASSUME NEW p \in Procs, ProcStep(p) PROVE Slots' /\ \A q \in Procs : Path(q)'
    BY <1>3, <1>4, ProcOwnSlot, ProcPath, ProcElsewhere, Zenon
  <1>5. ASSUME NEW p \in Procs, CallStep(p) PROVE Slots' /\ \A q \in Procs : Path(q)'
    BY <1>3, <1>5, CallOwnSlot, CallPath, CallElsewhere, Zenon
  <1>6. ASSUME NEW p \in Procs, NEW v \in Pages, PageStep(p, v)
        PROVE  Slots' /\ \A q \in Procs : Path(q)'
    BY <1>3, <1>6, PageOwnSlot, PagePath, PageElsewhere, Zenon
  <1> QED BY <1>1, <1>2, <1>4, <1>5, <1>6, Zenon DEF Next

-----------------------------------------------------------------------------
(* The contents of pages.                                                  *)

(* The page under leaf u of slot q keeps its contents.                     *)
KeepsPage(q, u) ==
    pte[q][u] # NoPte => data'[pte[q][u].frame] = data[pte[q][u].frame]
Keeps(q) == \A u \in Pages : KeepsPage(q, u)

(* alloc_pages hands out a page nobody maps.                               *)
LEMMA AllocKeeps ==
    ASSUME IInv, NEW f \in Frames, ref[f] = 0, NEW x, data' = [data EXCEPT ![f] = x]
    PROVE  \A q \in Procs : Keeps(q)
  <1>1. \A q \in Procs, u \in Pages : pte[q][u] # NoPte => pte[q][u].frame # f
    BY NoHolder, Zenon
  <1>2. data \in [Frames -> Values \cup {Junk}]
    BY Zenon DEF IInv, TypeOK
  <1>3. \A q \in Procs, u \in Pages : pte[q][u] # NoPte => pte[q][u].frame \in Frames
    BY DEF IInv, TypeOK, Leaf
  <1> QED BY <1>1, <1>2, <1>3, Zenon DEF Keeps, KeepsPage

(* put_page by the path that clears leaf v of slot r frees the page only   *)
(* if no other leaf maps it.                                               *)
LEMMA DropKeeps ==
    ASSUME IInv, NEW r \in Procs, NEW v \in Pages, DropLeaf(r, v),
           NEW q \in Procs, NEW u \in Pages, ~(q = r /\ u = v)
    PROVE  KeepsPage(q, u)
  <1>0. TypeOK
    BY Zenon DEF IInv
  <1>1. CASE pte[r][v] = NoPte
    BY <1>1, Zenon DEF DropLeaf, KeepsPage
  <1>2. CASE pte[r][v] # NoPte /\ pte[q][u] # NoPte
    <2>1. /\ pte[r][v].frame \in Frames /\ pte[q][u].frame \in Frames
          /\ data' = [data EXCEPT ![pte[r][v].frame] =
                          IF ref[pte[r][v].frame] = 1 THEN Junk ELSE @]
      BY <1>0, <1>2 DEF DropLeaf, put_page, TypeOK, Leaf
    <2>2. CASE ref[pte[r][v].frame] = 1
      <3>1. pte[q][u].frame # pte[r][v].frame
        BY <1>2, <2>2, OneHolder
      <3> QED BY <1>0, <2>1, <3>1, Zenon DEF KeepsPage, TypeOK
    <2>3. CASE ref[pte[r][v].frame] # 1
      BY <1>0, <2>1, <2>3, Zenon DEF KeepsPage, TypeOK
    <2> QED BY <2>2, <2>3, Zenon
  <1> QED BY <1>1, <1>2, Zenon DEF KeepsPage

(* The put_page of do_cow_fault frees the old page only if nobody maps it. *)
LEMMA PutKeeps ==
    ASSUME IInv, NEW p \in Procs, CowPut(p)
    PROVE  \A q \in Procs : Keeps(q)
  <1>0. TypeOK
    BY Zenon DEF IInv
  <1>1. /\ pend[p] \in Frames
        /\ data' = [data EXCEPT ![pend[p]] = IF ref[pend[p]] = 1 THEN Junk ELSE @]
    BY <1>0 DEF CowPut, put_page, TypeOK, IInv, Slots
  <1>2. ASSUME NEW q \in Procs, NEW u \in Pages, pte[q][u] # NoPte
        PROVE  data'[pte[q][u].frame] = data[pte[q][u].frame]
    <2>1. pte[q][u].frame \in Frames
      BY <1>0, <1>2 DEF TypeOK, Leaf
    <2>2. ref[pend[p]] = 1 => pte[q][u].frame # pend[p]
      BY <1>2, OneHolder
    <2> QED BY <1>0, <1>1, <2>1, <2>2, Zenon DEF TypeOK
  <1> QED BY <1>2, Zenon DEF Keeps, KeepsPage

(* A store goes to a page only the storing leaf maps.                      *)
LEMMA StoreKeeps ==
    ASSUME IInv, NEW p \in Procs, NEW v \in Pages, NEW x, pte[p][v] # NoPte, ~pte[p][v].rdonly,
           data' = [data EXCEPT ![pte[p][v].frame] = x],
           NEW q \in Procs, NEW u \in Pages, ~(q = p /\ u = v)
    PROVE  KeepsPage(q, u)
  <1>1. Exclusive(p, v)
    BY Zenon DEF Exclusive
  <1>2. pte[q][u] # NoPte => pte[q][u].frame # pte[p][v].frame
    BY <1>1, SoleHolder
  <1>3. pte[q][u] # NoPte => pte[q][u].frame \in Frames
    BY DEF IInv, TypeOK, Leaf
  <1> QED BY <1>2, <1>3, Zenon DEF KeepsPage, IInv, TypeOK

(* Leaves that stay and pages that keep their contents.                    *)
LEMMA KeptMapped ==
    ASSUME IInv,
           \A q \in Procs, u \in Pages : pte'[q][u] # NoPte =>
              \/ data'[pte'[q][u].frame] \in Values
              \/ pte[q][u] # NoPte /\ pte'[q][u].frame = pte[q][u].frame /\ KeepsPage(q, u)
    PROVE  MappedData'
  BY DEF IInv, MappedData, KeepsPage

(* Neither a leaf nor a page changes.                                      *)
LEMMA StillMapped == ASSUME IInv, UNCHANGED <<pte, data>> PROVE MappedData'
  BY Zenon DEF IInv, MappedData

(* A fresh page is filled and mapped.                                      *)
LEMMA AllocMapped ==
    ASSUME IInv, NEW r \in Procs, NEW v \in Pages, NEW f \in Frames, NEW x \in Values, NEW e,
           ref[f] = 0, e.frame = f, data' = [data EXCEPT ![f] = x],
           pte' = [pte EXCEPT ![r][v] = e]
    PROVE  MappedData'
  <1>1. TypeOK /\ \A q \in Procs, u \in Pages : KeepsPage(q, u)
    BY AllocKeeps, Zenon DEF IInv, Keeps
  <1>2. data'[f] = x
    BY <1>1, Zenon DEF TypeOK
  <1>3. \A q \in Procs, u \in Pages : pte'[q][u] = IF q = r /\ u = v THEN e ELSE pte[q][u]
    BY <1>1, Zenon DEF TypeOK
  <1> QED BY <1>1, <1>2, <1>3, KeptMapped

(* A leaf is cleared and its page put.                                     *)
LEMMA DropMapped ==
    ASSUME IInv, NEW r \in Procs, NEW v \in Pages, DropLeaf(r, v)
    PROVE  MappedData'
  <1>1. \A q \in Procs, u \in Pages :
           pte'[q][u] = IF q = r /\ u = v THEN NoPte ELSE pte[q][u]
    BY DropOne, Zenon DEF IInv
  <1>2. \A q \in Procs, u \in Pages : ~(q = r /\ u = v) => KeepsPage(q, u)
    BY DropKeeps, Zenon
  <1> QED BY <1>1, <1>2, KeptMapped, Zenon

(* A store through the writable leaf of v.                                 *)
LEMMA StoreMapped ==
    ASSUME IInv, NEW p \in Procs, NEW v \in Pages, NEW x \in Values,
           pte[p][v] # NoPte, ~pte[p][v].rdonly,
           data' = [data EXCEPT ![pte[p][v].frame] = x], pte' = pte
    PROVE  MappedData'
  <1>1. \A q \in Procs, u \in Pages : ~(q = p /\ u = v) => KeepsPage(q, u)
    BY StoreKeeps, Zenon
  <1>2. data'[pte[p][v].frame] = x
    BY DEF IInv, TypeOK, Leaf
  <1> QED BY <1>1, <1>2, KeptMapped, Zenon

(* In user mode a cached translation is the leaf itself.                   *)
LEMMA UserTranslation ==
    ASSUME IInv, NEW p \in Procs, NEW v \in Pages, at[p] = "user"
    PROVE  /\ tlb[p][v] # NoPte => tlb[p][v] = pte[p][v]
           /\ Translation(p, v) = pte[p][v]
           /\ Follows(pte[p][v], vma[p][v])
  BY Zenon DEF IInv, Path, TlbHeld, LeafFollows, Running, Translation

(* A fault, a user access or a one-page step of p.                         *)
LEMMA PageMapped ==
    ASSUME IInv, NEW p \in Procs, NEW v \in Pages, PageStep(p, v)
    PROVE  MappedData'
  <1>0. TypeOK
    BY Zenon DEF IInv
  <1> USE DEF TypeOK
  <1>1. CASE TlbFill(p, v)
    BY <1>1, StillMapped, Zenon DEF TlbFill
  <1>2. ASSUME NEW x \in Values, UserStore(p, v, x)
      PROVE  MappedData'
    <2>1. pte[p][v] # NoPte /\ ~pte[p][v].rdonly /\ tlb[p][v] = pte[p][v]
      BY <1>2, UserTranslation, Zenon DEF UserStore, HwAllows
    <2> QED BY <1>2, <2>1, StoreMapped, Zenon DEF UserStore
  <1>3. ASSUME NEW x \in Values, copy_to_user(p, v, x)
      PROVE  MappedData'
    <2>1. pte[p][v] # NoPte /\ ~pte[p][v].rdonly /\ Translation(p, v) = pte[p][v]
      BY <1>3, UserTranslation, Zenon DEF copy_to_user, HwAllowsKernel
    <2> QED BY <1>3, <2>1, StoreMapped, Zenon DEF copy_to_user
  <1>4. ASSUME NEW acc \in {"read", "write"}, UaccessAbort(p, v, acc)
      PROVE  MappedData'
    BY <1>4, StillMapped, Zenon DEF UaccessAbort
  <1>5. ASSUME NEW acc \in Access, FaultSegv(p, v, acc)
      PROVE  MappedData'
    BY <1>5, StillMapped, Zenon DEF FaultSegv
  <1>6. ASSUME NEW acc \in Access, FaultDemand(p, v, acc)
      PROVE  MappedData'
    <2>1. PICK f \in Frames :
            /\ ref[f] = 0
            /\ data' = [data EXCEPT ![f] = Zero]
            /\ pte' = [pte EXCEPT ![p][v] = prot_to_pte(f, vma[p][v])]
      BY <1>6, Zenon DEF FaultDemand, FreePage
    <2>2. prot_to_pte(f, vma[p][v]).frame = f
      BY Zenon DEF prot_to_pte
    <2> QED BY <2>1, <2>2, AllocMapped, CowAssumption, Zenon
  <1>7. ASSUME NEW acc \in Access, FaultOom(p, v, acc)
      PROVE  MappedData'
    BY <1>7, StillMapped, Zenon DEF FaultOom
  <1>8. ASSUME NEW acc \in Access, FaultCow(p, v, acc)
      PROVE  MappedData'
    BY <1>8, StillMapped, Zenon DEF FaultCow
  <1>9. CASE CowMkwrite(p, v)
    <2>1. pte[p][v] \in Leaf /\ pte_mkwrite(pte[p][v]).frame = pte[p][v].frame
      BY <1>9, CowLeaf, Zenon DEF CowMkwrite, Leaf, pte_mkwrite
    <2>2. \A q \in Procs, u \in Pages :
            pte'[q][u] = IF q = p /\ u = v THEN pte_mkwrite(pte[p][v]) ELSE pte[q][u]
      BY <1>0, <1>9, Zenon DEF CowMkwrite
    <2> QED BY <1>0, <1>9, <2>1, <2>2, LeafPresent, KeptMapped, Zenon DEF CowMkwrite,
               KeepsPage
  <1>10. CASE CowCopy(p, v)
    <2>1. PICK f \in Frames :
            /\ ref[f] = 0
            /\ data' = [data EXCEPT ![f] = data[pte[p][v].frame]]
            /\ pte' = [pte EXCEPT ![p][v] = pte_mkwrite([@ EXCEPT !.frame = f])]
      BY <1>10, Zenon DEF CowCopy, FreePage
    <2>2. pte[p][v] \in Leaf /\ pte[p][v] # NoPte
      BY <1>10, CowLeaf, LeafPresent, Zenon DEF CowCopy
    <2>3. pte_mkwrite([pte[p][v] EXCEPT !.frame = f]).frame = f
      BY <2>2, Zenon DEF Leaf, pte_mkwrite
    <2>4. data[pte[p][v].frame] \in Values
      BY <2>2, Zenon DEF IInv, MappedData
    <2> QED BY <2>1, <2>3, <2>4, AllocMapped, Zenon
  <1>11. CASE unmap_page(p, v)
    BY <1>11, KidSlot, DropMapped, Zenon DEF unmap_page
  <1>12. CASE dup_pgtable_level(p, v)
    <2>1. CASE pte[p][v] = NoPte
      BY <1>12, <2>1, StillMapped, Zenon DEF dup_pgtable_level
    <2>2. CASE pte[p][v] # NoPte
      <3>1. kid[p] \in Procs /\ data' = data
        BY <1>12, KidSlot, Zenon DEF dup_pgtable_level
      <3>2. SharedLeaf(pte[p][v]).frame = pte[p][v].frame
        BY <1>0, <2>2 DEF Leaf, SharedLeaf, pte_wrprotect
      <3>3. \A q \in Procs, u \in Pages :
              pte'[q][u] = IF q \in {p, kid[p]} /\ u = v THEN SharedLeaf(pte[p][v])
                                                       ELSE pte[q][u]
        BY <1>0, <1>12, <2>2, <3>1 DEF dup_pgtable_level
      <3>4. data[pte[p][v].frame] \in Values
        BY <2>2, Zenon DEF IInv, MappedData
      <3> QED BY <3>1, <3>2, <3>3, <3>4, KeptMapped, Zenon DEF KeepsPage
    <2> QED BY <2>1, <2>2, Zenon
  <1>13. CASE UndoPage(p, v)
    BY <1>13, KidSlot, DropMapped, Zenon DEF UndoPage
  <1>14. CASE ReapPage(p, v)
    BY <1>14, KidSlot, DropMapped, Zenon DEF ReapPage
  <1>15. CASE NoSegment(p, v)
    BY <1>15, StillMapped, Zenon DEF NoSegment
  <1>16. ASSUME NEW prot \in Prots, NEW x \in Values, load_segment(p, v, prot, x)
       PROVE  MappedData'
    <2>1. PICK f \in Frames :
            /\ ref[f] = 0
            /\ data' = [data EXCEPT ![f] = x]
            /\ pte' = [pte EXCEPT ![kid[p]][v] = prot_to_pte(f, prot)]
      BY <1>16, Zenon DEF load_segment, FreePage
    <2>2. prot_to_pte(f, prot).frame = f /\ kid[p] \in Procs
      BY <1>16, KidSlot, Zenon DEF prot_to_pte, load_segment
    <2> QED BY <2>1, <2>2, AllocMapped, Zenon
  <1>17. ASSUME NEW prot \in Prots, NEW x \in Values, SegmentOverlap(p, v, prot, x)
       PROVE  MappedData'
    <2>1. PICK f \in Frames :
            /\ ref[f] = 0
            /\ data' = [data EXCEPT ![f] = x]
            /\ pte' = [pte EXCEPT ![kid[p]][v] = prot_to_pte(f, prot)]
      BY <1>17, Zenon DEF SegmentOverlap, FreePage
    <2>2. prot_to_pte(f, prot).frame = f /\ kid[p] \in Procs
      BY <1>17, KidSlot, Zenon DEF prot_to_pte, SegmentOverlap
    <2> QED BY <2>1, <2>2, AllocMapped, Zenon
  <1> QED BY <1>1, <1>2, <1>3, <1>4, <1>5, <1>6, <1>7, <1>8, <1>9, <1>10,
             <1>11, <1>12, <1>13, <1>14, <1>15, <1>16, <1>17, Zenon DEF PageStep

(* A whole-process step of p.                                              *)
LEMMA ProcMapped ==
    ASSUME IInv, NEW p \in Procs, ProcStep(p)
    PROVE  MappedData'
  <1>0. TypeOK
    BY Zenon DEF IInv
  <1> USE DEF TypeOK
  <1>1. CASE CowOom(p)
    BY <1>1, StillMapped, Zenon DEF CowOom
  <1>2. CASE CowPut(p)
    BY <1>2, PutKeeps, KeptMapped, Zenon DEF CowPut, Keeps
  <1>3. CASE UnmapDone(p)
    BY <1>3, StillMapped, Zenon DEF UnmapDone
  <1>4. CASE ForkDone(p)
    BY <1>4, StillMapped, Zenon DEF ForkDone
  <1>5. CASE ForkFail(p)
    BY <1>5, StillMapped, Zenon DEF ForkFail
  <1>6. CASE UndoDone(p)
    BY <1>6, StillMapped, Zenon DEF UndoDone
  <1>7. CASE StackMapFail(p)
    <2>1. PICK f \in Frames : ref[f] = 0 /\ data' = [data EXCEPT ![f] = Zero]
      BY <1>7, Zenon DEF StackMapFail, FreePage
    <2>2. pte' = pte /\ \A q \in Procs : Keeps(q)
      BY <1>7, <2>1, AllocKeeps, Zenon DEF StackMapFail
    <2> QED BY <2>2, KeptMapped, Zenon DEF Keeps
  <1>8. CASE ExecFail(p)
    BY <1>8, StillMapped, Zenon DEF ExecFail
  <1>9. CASE ExecSwap(p)
    <2>1. kid[p] \in Procs /\ data' = data
      BY <1>9, KidSlot, Zenon DEF ExecSwap
    <2>2. \A q \in Procs : pte'[q] = IF q = p THEN pte[kid[p]]
                                    ELSE IF q = kid[p] THEN pte[p] ELSE pte[q]
      BY <1>0, <1>9, <2>1, KidSlot, Zenon DEF ExecSwap
    <2>3. \A q \in Procs, u \in Pages :
            pte[q][u] # NoPte => data[pte[q][u].frame] \in Values
      BY Zenon DEF IInv, MappedData
    <2> HIDE DEF TypeOK
    <2> QED BY <2>1, <2>2, <2>3, Zenon DEF MappedData
  <1>10. CASE ksys_exit(p)
    BY <1>10, StillMapped, Zenon DEF ksys_exit
  <1>11. CASE mm_put(p)
    BY <1>11, StillMapped, Zenon DEF mm_put
  <1>12. CASE ReapDone(p)
    BY <1>12, StillMapped, Zenon DEF ReapDone
  <1> QED BY <1>1, <1>2, <1>3, <1>4, <1>5, <1>6, <1>7, <1>8, <1>9, <1>10,
             <1>11, <1>12, Zenon DEF ProcStep

(* A system call of p.                                                     *)
LEMMA CallMapped ==
    ASSUME IInv, NEW p \in Procs, CallStep(p)
    PROVE  MappedData'
  <1>0. TypeOK
    BY Zenon DEF IInv
  <1> USE DEF TypeOK
  <1>1. ASSUME NEW S \in Ranges, NEW prot \in Prots, do_mmap(p, S, prot)
        PROVE  MappedData'
    BY <1>1, StillMapped, Zenon DEF do_mmap
  <1>2. ASSUME NEW S \in Ranges, NEW prot \in Prots, mm_mprotect(p, S, prot)
        PROVE  MappedData'
    <2>1. \A q \in Procs, u \in Pages :
            pte'[q][u] = IF q = p /\ u \in S /\ pte[p][u] # NoPte
                           THEN ReprotectedLeaf(pte[p][u], prot) ELSE pte[q][u]
      BY <1>0, <1>2, Zenon DEF mm_mprotect
    <2>2. \A e \in Leaf : ReprotectedLeaf(e, prot).frame = e.frame
      BY Zenon DEF Leaf, ReprotectedLeaf, prot_to_pte, pte_wrprotect
    <2>3. data' = data
      BY <1>2, Zenon DEF mm_mprotect
    <2> QED BY <1>0, <2>1, <2>2, <2>3, KeptMapped DEF KeepsPage
  <1>3. ASSUME NEW S \in Ranges, NEW prot \in Prots \cup {NoVma},
               vma_erase_range(p, S, prot)
        PROVE  MappedData'
    BY <1>3, StillMapped, Zenon DEF vma_erase_range
  <1>4. ASSUME NEW c \in Procs, dup_mm(p, c)
        PROVE  MappedData'
    BY <1>4, StillMapped, Zenon DEF dup_mm
  <1>5. ASSUME NEW c \in Procs, load_elf_binary(p, c)
        PROVE  MappedData'
    BY <1>5, StillMapped, Zenon DEF load_elf_binary
  <1> QED BY <1>1, <1>2, <1>3, <1>4, <1>5, Zenon DEF CallStep

(* Every step: no mapped page is on the free list.                         *)
LEMMA StepMapped == ASSUME IInv, [Next]_vars PROVE MappedData'
  <1>1. CASE mm_install
    BY <1>1, StillMapped, Zenon DEF mm_install
  <1>2. CASE UNCHANGED vars
    BY <1>2, StillMapped, Zenon DEF vars
  <1> QED BY <1>1, <1>2, PageMapped, ProcMapped, CallMapped, Zenon DEF Next

-----------------------------------------------------------------------------
(* Steps of PrivateMemory, one lemma for each.                             *)

(* The process in slot q sees no difference.                               *)
Unseen(q) == DoingOf(q)' = DoingOf(q) /\ MemOf(q)' = MemOf(q) /\ ProtOf(q)' = ProtOf(q)
OthersUnseen(p) == \A q \in Procs : q # p => Unseen(q)

(* A step that shows to no process.                                        *)
LEMMA HiddenStep == ASSUME \A q \in Procs : Unseen(q) PROVE Private!Next
  BY Zenon DEF Unseen, Private!Next, Private!Hidden, Private!vars

(* The abstract state changes at p only.                                   *)
LEMMA Shown ==
    ASSUME NEW p \in Procs, OthersUnseen(p)
    PROVE  /\ [q \in Procs |-> DoingOf(q)]' =
                  [[q \in Procs |-> DoingOf(q)] EXCEPT ![p] = DoingOf(p)']
           /\ [q \in Procs |-> MemOf(q)]' =
                  [[q \in Procs |-> MemOf(q)] EXCEPT ![p] = MemOf(p)']
           /\ [q \in Procs |-> ProtOf(q)]' =
                  [[q \in Procs |-> ProtOf(q)] EXCEPT ![p] = ProtOf(p)']
  BY Zenon DEF OthersUnseen, Unseen

(* p enters or leaves the kernel.                                          *)
LEMMA TrapStep ==
    ASSUME NEW p \in Procs, OthersUnseen(p), MemOf(p)' = MemOf(p), ProtOf(p)' = ProtOf(p),
           \/ DoingOf(p) = "user" /\ DoingOf(p)' \in {"fault", "call", "exec"}
           \/ DoingOf(p) \in {"fault", "call"} /\ DoingOf(p)' = "user"
           \/ DoingOf(p) = "exec" /\ DoingOf(p)' = "call"
    PROVE  Private!Next
  <1>1. Private!Trap(p)
    BY Shown, Zenon DEF Private!Trap, Private!Goes
  <1> QED BY <1>1, Zenon DEF Private!Next

(* p stores x at v.                                                        *)
LEMMA StoreStep ==
    ASSUME NEW p \in Procs, OthersUnseen(p), DoingOf(p) = "user", DoingOf(p)' = "user",
           NEW v \in Pages, NEW x \in Values,
           ProtOf(p)[v] # NoVma, "w" \in ProtOf(p)[v], ProtOf(p)' = ProtOf(p),
           MemOf(p)' = [MemOf(p) EXCEPT ![v] = x]
    PROVE  Private!Next
  <1>1. Private!Store(p, v, x)
    BY Shown, Zenon DEF Private!Store, Private!Goes
  <1> QED BY <1>1, Zenon DEF Private!Next

(* A range of pages is mapped at p.                                        *)
LEMMA MapStep ==
    ASSUME NEW p \in Procs, OthersUnseen(p),
           DoingOf(p) \in {"user", "call"}, DoingOf(p)' = "user",
           NEW S \in (SUBSET Pages) \ {{}}, NEW pr \in Prots,
           \A v \in S : ProtOf(p)[v] = NoVma,
           MemOf(p)' = [v \in Pages |-> IF v \in S THEN Zero ELSE MemOf(p)[v]],
           ProtOf(p)' = [v \in Pages |-> IF v \in S THEN pr ELSE ProtOf(p)[v]]
    PROVE  Private!Next
  <1>1. Private!Map(p, S, pr)
    BY Shown, Zenon DEF Private!Map, Private!Goes, Private!Set
  <1> QED BY <1>1, Zenon DEF Private!Next

(* munmap takes a range of pages away from p.                              *)
LEMMA UnmapStep ==
    ASSUME NEW p \in Procs, OthersUnseen(p), DoingOf(p) = "user", DoingOf(p)' = "call",
           NEW S \in (SUBSET Pages) \ {{}},
           MemOf(p)' = [v \in Pages |-> IF v \in S THEN NoVma ELSE MemOf(p)[v]],
           ProtOf(p)' = [v \in Pages |-> IF v \in S THEN NoVma ELSE ProtOf(p)[v]]
    PROVE  Private!Next
  <1>1. Private!Unmap(p, S)
    BY Shown, Zenon DEF Private!Unmap, Private!Goes, Private!Set
  <1> QED BY <1>1, Zenon DEF Private!Next

(* mprotect changes what p may do in a range, and no byte.                 *)
LEMMA ProtectStep ==
    ASSUME NEW p \in Procs, OthersUnseen(p), DoingOf(p) = "user", DoingOf(p)' = "user",
           NEW S \in (SUBSET Pages) \ {{}}, NEW pr \in Prots,
           \A v \in S : ProtOf(p)[v] # NoVma, MemOf(p)' = MemOf(p),
           ProtOf(p)' = [v \in Pages |-> IF v \in S THEN pr ELSE ProtOf(p)[v]]
    PROVE  Private!Next
  <1>1. Private!Protect(p, S, pr)
    BY Shown, Zenon DEF Private!Protect, Private!Goes, Private!Set
  <1> QED BY <1>1, Zenon DEF Private!Next

(* The child c starts with the memory of p.                                *)
LEMMA ForkStep ==
    ASSUME NEW p \in Procs, NEW c \in Procs, p # c,
           \A q \in Procs : q \notin {p, c} => Unseen(q),
           DoingOf(p) = "call", DoingOf(p)' = "user", MemOf(p)' = MemOf(p),
           ProtOf(p)' = ProtOf(p),
           DoingOf(c) = "none", DoingOf(c)' = "user", MemOf(c)' = MemOf(p),
           ProtOf(c)' = ProtOf(p)
    PROVE  Private!Next
  <1>1. Private!Fork(p, c)
    BY Zenon DEF Private!Fork, Unseen
  <1> QED BY <1>1, Zenon DEF Private!Next

(* execve gives p a new image.                                             *)
LEMMA ExecStep ==
    ASSUME NEW p \in Procs, OthersUnseen(p), DoingOf(p) = "exec", DoingOf(p)' = "call",
           ProtOf(p)' \in [Pages -> Prots \cup {NoVma}],
           MemOf(p)' \in [Pages -> Values \cup {NoVma}],
           \A v \in Pages : MemOf(p)'[v] = NoVma <=> ProtOf(p)'[v] = NoVma
    PROVE  Private!Next
  <1>1. Private!Exec(p)
    BY Shown, Zenon DEF Private!Exec, Private!Goes
  <1> QED BY <1>1, Zenon DEF Private!Next

(* p is gone.                                                              *)
LEMMA ExitStep ==
    ASSUME NEW p \in Procs, OthersUnseen(p),
           DoingOf(p) \in {"user", "fault"}, DoingOf(p)' = "none",
           MemOf(p)' = NoVmas, ProtOf(p)' = NoVmas
    PROVE  Private!Next
  <1>1. Private!Exit(p)
    BY Shown, Zenon DEF Private!Exit, Private!Goes, Private!Unmapped, NoVmas
  <1> QED BY <1>1, Zenon DEF Private!Next

-----------------------------------------------------------------------------
(* Each step of Cow is such a step.                                        *)

(* The step of p does not start a process in slot q.                       *)
Bystander(p, q) ==
    Elsewhere(p, q) /\ (at'[q] = at[q] \/ at'[q] \in {"none", "build"})

(* What the other processes see does not change when their pages keep      *)
(* their contents.                                                         *)
LEMMA KeptUnseen ==
    ASSUME IInv, NEW p \in Procs, NEW q \in Procs, q # p, Bystander(p, q),
           at[q] \in Running => Keeps(q)
    PROVE  Unseen(q)
  <1>1. CASE Aside(q)
    <2>1. at'[q] = at[q] /\ vma'[q] = vma[q] /\ pte'[q] = pte[q]
      BY <1>1, Zenon DEF Aside
    <2>2. DoingOf(q)' = DoingOf(q) /\ ProtOf(q)' = ProtOf(q)
      BY <2>1, Zenon DEF DoingOf, ProtOf
    <2>3. MemOf(q)' = MemOf(q)
      BY <2>1, Zenon DEF MemOf, Keeps, KeepsPage
    <2> QED BY <2>2, <2>3, Zenon DEF Unseen
  <1>2. CASE Handled(q)
    <2>1. at[q] \in {"none", "build"} /\ at'[q] \in {"none", "build"}
      BY <1>2, Zenon DEF Handled, Bystander
    <2> QED BY <2>1, Zenon DEF Unseen, DoingOf, MemOf, ProtOf, Running
  <1> QED BY <1>1, <1>2, Zenon DEF Elsewhere, Bystander

(* What p itself sees does not change when each page it may use keeps its  *)
(* contents, wherever they are.                                            *)
LEMMA OwnUnseen ==
    ASSUME NEW p \in Procs, at[p] \in Running, at'[p] \in Running, vma'[p] = vma[p],
           \A u \in Pages : vma[p][u] # NoVma =>
              \/ pte'[p][u] = NoPte /\ pte[p][u] = NoPte
              \/ /\ pte'[p][u] # NoPte
                 /\ data'[pte'[p][u].frame] =
                       IF pte[p][u] = NoPte THEN Zero ELSE data[pte[p][u].frame]
    PROVE  MemOf(p)' = MemOf(p) /\ ProtOf(p)' = ProtOf(p)
  <1>1. ProtOf(p)' = ProtOf(p)
    BY Zenon DEF ProtOf
  <1>2. MemOf(p)' = MemOf(p)
    BY Zenon DEF MemOf
  <1> QED BY <1>1, <1>2, Zenon

(* A step that changes no VMA, no leaf and no page.                        *)
LEMMA QuietUnseen ==
    ASSUME IInv, NEW p \in Procs, at[p] \in Running, at'[p] \in Running,
           UNCHANGED <<vma, pte, data>>,
           \A q \in Procs : q # p => Bystander(p, q)
    PROVE  OthersUnseen(p) /\ MemOf(p)' = MemOf(p) /\ ProtOf(p)' = ProtOf(p)
  <1>1. \A q \in Procs : Keeps(q)
    BY Zenon DEF Keeps, KeepsPage
  <1>2. OthersUnseen(p)
    BY <1>1, KeptUnseen, Zenon DEF OthersUnseen
  <1> QED BY <1>2, OwnUnseen, Zenon

(* do_exit: the memory of p is gone.                                       *)
LEMMA ExitUnseen ==
    ASSUME IInv, NEW p \in Procs, at'[p] \in {"zombie", "reap", "none"},
           UNCHANGED <<vma, pte, data>>,
           \A q \in Procs : q # p => Bystander(p, q)
    PROVE  /\ OthersUnseen(p) /\ DoingOf(p)' = "none"
           /\ MemOf(p)' = NoVmas /\ ProtOf(p)' = NoVmas
  <1>1. \A q \in Procs : Keeps(q)
    BY Zenon DEF Keeps, KeepsPage
  <1>2. OthersUnseen(p)
    BY <1>1, KeptUnseen, Zenon DEF OthersUnseen
  <1>3. DoingOf(p)' = "none"
    BY Zenon DEF DoingOf
  <1>4. MemOf(p)' = NoVmas /\ ProtOf(p)' = NoVmas
    BY Zenon DEF MemOf, NoMem, ProtOf, NoVmas, Running
  <1> QED BY <1>2, <1>3, <1>4, Zenon

(* A step that leaves processes, VMAs, leaves and pages alone.             *)
LEMMA QuietRefines == ASSUME UNCHANGED <<at, vma, pte, data>> PROVE Private!Next
  <1>1. \A q \in Procs : Unseen(q)
    BY Zenon DEF Unseen, DoingOf, MemOf, ProtOf
  <1> QED BY <1>1, HiddenStep, Zenon

(* A store by the process or by the kernel on its behalf.                  *)
LEMMA StoreRefines ==
    ASSUME IInv, NEW p \in Procs, NEW v \in Pages, NEW x \in Values, at[p] = "user",
           pte[p][v] # NoPte, ~pte[p][v].rdonly,
           data' = [data EXCEPT ![pte[p][v].frame] = x], UNCHANGED <<at, vma, pte>>
    PROVE  Private!Next
  <1>1. ASSUME NEW q \in Procs, q # p PROVE Unseen(q)
    <2>1. \A u \in Pages : KeepsPage(q, u)
      BY <1>1, StoreKeeps, Zenon
    <2> QED BY <2>1, Zenon DEF Unseen, DoingOf, MemOf, ProtOf, KeepsPage
  <1>2. DoingOf(p) = "user" /\ DoingOf(p)' = "user"
    BY Zenon DEF DoingOf
  <1>3. ProtOf(p) = vma[p] /\ ProtOf(p)' = vma[p]
    BY Zenon DEF ProtOf, Running
  <1>4. vma[p][v] # NoVma /\ "w" \in vma[p][v]
    BY UserTranslation, Zenon DEF Follows
  <1>5. data'[pte[p][v].frame] = x
    BY DEF IInv, TypeOK, Leaf
  <1>6. \A u \in Pages : u # v => KeepsPage(p, u)
    BY StoreKeeps, Zenon
  <1>7. MemOf(p)' = [MemOf(p) EXCEPT ![v] = x]
    BY <1>4, <1>5, <1>6, Zenon DEF MemOf, KeepsPage, Running
  <1> QED BY <1>1, <1>2, <1>3, <1>4, <1>7, StoreStep, Zenon DEF OthersUnseen

(* The step of p is hidden, or p enters or leaves the kernel.              *)
LEMMA KernelStep ==
    ASSUME NEW p \in Procs, OthersUnseen(p), MemOf(p)' = MemOf(p), ProtOf(p)' = ProtOf(p),
           \/ DoingOf(p)' = DoingOf(p)
           \/ DoingOf(p) = "user" /\ DoingOf(p)' \in {"fault", "call", "exec"}
           \/ DoingOf(p) \in {"fault", "call"} /\ DoingOf(p)' = "user"
           \/ DoingOf(p) = "exec" /\ DoingOf(p)' = "call"
    PROVE  Private!Next
  <1>1. CASE DoingOf(p)' = DoingOf(p)
    BY <1>1, HiddenStep, Zenon DEF OthersUnseen, Unseen
  <1>2. CASE DoingOf(p)' # DoingOf(p)
    BY <1>2, TrapStep, Zenon
  <1> QED BY <1>1, <1>2, Zenon

(* A fault, a user access or a one-page step of p.                         *)
LEMMA PageRefines ==
    ASSUME IInv, NEW p \in Procs, NEW v \in Pages, PageStep(p, v)
    PROVE  Private!Next
  <1>0. at \in [Procs -> At] /\ Path(p)
    BY Zenon DEF IInv, TypeOK
  <1>a. \A q \in Procs : q # p => Elsewhere(p, q)
    BY PageElsewhere, Zenon
  <1>1. CASE TlbFill(p, v)
    BY <1>1, QuietRefines, Zenon DEF TlbFill
  <1>2. ASSUME NEW x \in Values, UserStore(p, v, x)
      PROVE  Private!Next
    <2>1. pte[p][v] # NoPte /\ ~pte[p][v].rdonly /\ tlb[p][v] = pte[p][v]
      BY <1>2, UserTranslation, Zenon DEF UserStore, HwAllows
    <2> QED BY <1>2, <2>1, StoreRefines, Zenon DEF UserStore
  <1>3. ASSUME NEW x \in Values, copy_to_user(p, v, x)
      PROVE  Private!Next
    <2>1. pte[p][v] # NoPte /\ ~pte[p][v].rdonly /\ Translation(p, v) = pte[p][v]
      BY <1>3, UserTranslation, Zenon DEF copy_to_user, HwAllowsKernel
    <2> QED BY <1>3, <2>1, StoreRefines, Zenon DEF copy_to_user
  <1>4. ASSUME NEW acc \in {"read", "write"}, UaccessAbort(p, v, acc)
      PROVE  Private!Next
    <2>1. at[p] = "user" /\ at'[p] \in {"hang"}
      BY <1>0, <1>4, Zenon DEF UaccessAbort
    <2>2. OthersUnseen(p) /\ MemOf(p)' = MemOf(p) /\ ProtOf(p)' = ProtOf(p)
      BY <1>0, <1>4, <1>a, <2>1, QuietUnseen, Zenon DEF UaccessAbort, Bystander, Running
    <2> QED BY <2>1, <2>2, KernelStep, Zenon DEF DoingOf
  <1>5. ASSUME NEW acc \in Access, FaultSegv(p, v, acc)
      PROVE  Private!Next
    <2>1. at[p] = "user" /\ at' = [at EXCEPT ![p] = "zombie"]
      BY <1>5, Zenon DEF FaultSegv, Faults, do_exit
    <2>2. at'[p] = "zombie" /\ \A q \in Procs : q # p => Bystander(p, q)
      BY <1>0, <1>a, <2>1, Zenon DEF Bystander
    <2>3. DoingOf(p) = "user"
      BY <2>1, Zenon DEF DoingOf
    <2> QED BY <1>5, <2>2, <2>3, ExitUnseen, ExitStep, Zenon DEF FaultSegv
  <1>6. ASSUME NEW acc \in Access, FaultDemand(p, v, acc)
      PROVE  Private!Next
    <2>1. PICK f \in Frames :
            /\ ref[f] = 0
            /\ data' = [data EXCEPT ![f] = Zero]
            /\ pte' = [pte EXCEPT ![p][v] = prot_to_pte(f, vma[p][v])]
      BY <1>6, Zenon DEF FaultDemand, FreePage
    <2>2. at[p] = "user" /\ at' = at /\ vma' = vma /\ pte[p][v] = NoPte
      BY <1>6, Zenon DEF FaultDemand, Faults, do_page_fault
    <2>3. \A q \in Procs : Keeps(q)
      BY <2>1, AllocKeeps, Zenon
    <2>4. OthersUnseen(p)
      BY <1>a, <2>2, <2>3, KeptUnseen, Zenon DEF OthersUnseen, Bystander
    <2>5. prot_to_pte(f, vma[p][v]) # NoPte /\ prot_to_pte(f, vma[p][v]).frame = f
      BY LeafPresent, Zenon DEF prot_to_pte, Leaf
    <2>6. /\ \A u \in Pages : pte'[p][u] = IF u = v THEN prot_to_pte(f, vma[p][v]) ELSE pte[p][u]
          /\ data'[f] = Zero
      BY <2>1, Zenon DEF IInv, TypeOK
    <2>7. MemOf(p)' = MemOf(p) /\ ProtOf(p)' = ProtOf(p)
      BY <2>2, <2>3, <2>5, <2>6, OwnUnseen, Zenon DEF Running, Keeps, KeepsPage
    <2> QED BY <2>2, <2>4, <2>7, KernelStep, Zenon DEF DoingOf
  <1>7. ASSUME NEW acc \in Access, FaultOom(p, v, acc)
      PROVE  Private!Next
    <2>1. at[p] = "user" /\ at' = [at EXCEPT ![p] = "zombie"]
      BY <1>7, Zenon DEF FaultOom, Faults, do_exit
    <2>2. at'[p] = "zombie" /\ \A q \in Procs : q # p => Bystander(p, q)
      BY <1>0, <1>a, <2>1, Zenon DEF Bystander
    <2>3. DoingOf(p) = "user"
      BY <2>1, Zenon DEF DoingOf
    <2> QED BY <1>7, <2>2, <2>3, ExitUnseen, ExitStep, Zenon DEF FaultOom
  <1>8. ASSUME NEW acc \in Access, FaultCow(p, v, acc)
      PROVE  Private!Next
    <2>1. at[p] = "user" /\ at'[p] \in {"mkwrite", "copy"}
      BY <1>0, <1>8, Zenon DEF FaultCow, Faults
    <2>2. OthersUnseen(p) /\ MemOf(p)' = MemOf(p) /\ ProtOf(p)' = ProtOf(p)
      BY <1>0, <1>8, <1>a, <2>1, QuietUnseen, Zenon DEF FaultCow, Bystander, Running,
         Faults
    <2> QED BY <2>1, <2>2, KernelStep, Zenon DEF DoingOf
  <1>9. CASE CowMkwrite(p, v)
    <2>1. at[p] = "mkwrite" /\ at'[p] = "user" /\ vma' = vma /\ data' = data
      BY <1>0, <1>9, Zenon DEF CowMkwrite
    <2>2. OthersUnseen(p)
      BY <1>0, <1>9, <1>a, <2>1, KeptUnseen, Zenon DEF CowMkwrite, OthersUnseen,
         Bystander, Keeps, KeepsPage
    <2>3. pte[p][v] \in Leaf
      BY <1>9, CowLeaf, Zenon DEF CowMkwrite
    <2>4. /\ pte[p][v] # NoPte /\ pte_mkwrite(pte[p][v]) # NoPte
           /\ pte_mkwrite(pte[p][v]).frame = pte[p][v].frame
      BY <2>3, LeafPresent, Zenon DEF Leaf, pte_mkwrite
    <2>5. \A u \in Pages : pte'[p][u] = IF u = v THEN pte_mkwrite(pte[p][v]) ELSE pte[p][u]
      BY <1>9, Zenon DEF CowMkwrite, IInv, TypeOK
    <2>6. MemOf(p)' = MemOf(p) /\ ProtOf(p)' = ProtOf(p)
      BY <2>1, <2>4, <2>5, OwnUnseen, Zenon DEF Running
    <2> QED BY <2>1, <2>2, <2>6, KernelStep, Zenon DEF DoingOf
  <1>10. CASE CowCopy(p, v)
    <2>1. PICK f \in Frames :
            /\ ref[f] = 0
            /\ data' = [data EXCEPT ![f] = data[pte[p][v].frame]]
            /\ pte' = [pte EXCEPT ![p][v] = pte_mkwrite([@ EXCEPT !.frame = f])]
      BY <1>10, Zenon DEF CowCopy, FreePage
    <2>2. at[p] = "copy" /\ at'[p] = "put" /\ vma' = vma
      BY <1>0, <1>10, Zenon DEF CowCopy
    <2>3. \A q \in Procs : Keeps(q)
      BY <2>1, AllocKeeps, Zenon
    <2>4. OthersUnseen(p)
      BY <1>0, <1>10, <1>a, <2>3, KeptUnseen, Zenon DEF CowCopy, OthersUnseen, Bystander
    <2>5. pte[p][v] \in Leaf
      BY <1>10, CowLeaf, Zenon DEF CowCopy
    <2>6. LET e == pte_mkwrite([pte[p][v] EXCEPT !.frame = f])
          IN  e # NoPte /\ e.frame = f
      BY <2>5, LeafPresent, Zenon DEF Leaf, pte_mkwrite
    <2>7. /\ \A u \in Pages : pte'[p][u] = IF u = v THEN pte_mkwrite([pte[p][v] EXCEPT !.frame = f])
                                           ELSE pte[p][u]
          /\ data'[f] = data[pte[p][v].frame]
      BY <2>1, Zenon DEF IInv, TypeOK
    <2>8. MemOf(p)' = MemOf(p) /\ ProtOf(p)' = ProtOf(p)
      BY <2>2, <2>3, <2>5, <2>6, <2>7, LeafPresent, OwnUnseen, Zenon DEF Running, Keeps,
         KeepsPage
    <2> QED BY <2>2, <2>4, <2>8, KernelStep, Zenon DEF DoingOf
  <1>11. CASE unmap_page(p, v)
    <2>1. at[p] = "unmap" /\ at' = at /\ vma' = vma /\ v \in todo[p] /\ DropLeaf(p, v)
      BY <1>11, Zenon DEF unmap_page, NextPage
    <2>2. \A q \in Procs, u \in Pages : ~(q = p /\ u = v) => KeepsPage(q, u)
      BY <2>1, DropKeeps, Zenon
    <2>3. OthersUnseen(p)
      BY <1>a, <2>1, <2>2, KeptUnseen, Zenon DEF OthersUnseen, Bystander, Keeps
    <2>4. vma[p][v] = NoVma
      BY <1>0, <2>1, Zenon DEF Path, UnmapPath
    <2>5. \A u \in Pages : u # v => pte'[p][u] = pte[p][u]
      BY <2>1, DropOne DEF IInv
    <2>6. MemOf(p)' = MemOf(p) /\ ProtOf(p)' = ProtOf(p)
      BY <2>1, <2>2, <2>4, <2>5, OwnUnseen, Zenon DEF Running, KeepsPage
    <2> QED BY <2>1, <2>3, <2>6, KernelStep, Zenon DEF DoingOf
  <1>12. CASE dup_pgtable_level(p, v)
    <2>1. /\ at[p] = "fork" /\ at' = at /\ vma' = vma /\ data' = data
          /\ kid[p] \in Procs /\ kid[p] # p
      BY <1>12, KidSlot, Zenon DEF dup_pgtable_level
    <2>2. OthersUnseen(p)
      BY <1>a, <2>1, KeptUnseen, Zenon DEF OthersUnseen, Bystander, Keeps, KeepsPage
    <2>3. CASE pte[p][v] = NoPte
      <3>1. pte' = pte
        BY <1>12, <2>3, Zenon DEF dup_pgtable_level
      <3> QED BY <2>1, <3>1, QuietRefines, Zenon
    <2>4. CASE pte[p][v] # NoPte
      <3>0. pte[p][v] \in Leaf
        BY <2>4 DEF IInv, TypeOK
      <3>1. /\ SharedLeaf(pte[p][v]) # NoPte
            /\ SharedLeaf(pte[p][v]).frame = pte[p][v].frame
        BY <3>0, LeafPresent, Zenon DEF Leaf, SharedLeaf, pte_wrprotect
      <3>2. \A u \in Pages : pte'[p][u] = IF u = v THEN SharedLeaf(pte[p][v]) ELSE pte[p][u]
        BY <1>12, <2>1, <2>4 DEF dup_pgtable_level, IInv, TypeOK
      <3>3. MemOf(p)' = MemOf(p) /\ ProtOf(p)' = ProtOf(p)
        BY <2>1, <2>4, <3>1, <3>2, OwnUnseen, Zenon DEF Running
      <3> QED BY <2>1, <2>2, <3>3, KernelStep, Zenon DEF DoingOf
    <2> QED BY <2>3, <2>4, Zenon
  <1>13. CASE UndoPage(p, v)
    <2>1. /\ at[p] \in {"undo", "drop"} /\ at' = at /\ vma' = vma
          /\ kid[p] \in Procs /\ kid[p] # p /\ at[kid[p]] = "build" /\ DropLeaf(kid[p], v)
      BY <1>13, KidSlot, Zenon DEF UndoPage
    <2>2. \A q \in Procs, u \in Pages : q # kid[p] => KeepsPage(q, u)
      BY <2>1, DropKeeps, Zenon
    <2>3. OthersUnseen(p)
      BY <1>a, <2>1, <2>2, KeptUnseen, Zenon DEF OthersUnseen, Bystander, Keeps, Running
    <2>4. \A u \in Pages : pte'[p][u] = pte[p][u]
      BY <2>1, DropOne DEF IInv
    <2>5. MemOf(p)' = MemOf(p) /\ ProtOf(p)' = ProtOf(p)
      BY <2>1, <2>2, <2>4, OwnUnseen, Zenon DEF Running, KeepsPage
    <2> QED BY <2>1, <2>3, <2>5, KernelStep, Zenon DEF DoingOf
  <1>14. CASE ReapPage(p, v)
    <2>1. at[p] = "reap" /\ at' = at /\ vma' = vma /\ DropLeaf(p, v)
      BY <1>14, Zenon DEF ReapPage
    <2>2. \A q \in Procs, u \in Pages : q # p => KeepsPage(q, u)
      BY <2>1, DropKeeps, Zenon
    <2>3. OthersUnseen(p)
      BY <1>a, <2>1, <2>2, KeptUnseen, Zenon DEF OthersUnseen, Bystander, Keeps
    <2>4. MemOf(p)' = MemOf(p) /\ ProtOf(p)' = ProtOf(p)
      BY <2>1, Zenon DEF MemOf, ProtOf, Running
    <2> QED BY <2>1, <2>3, <2>4, KernelStep, Zenon DEF DoingOf
  <1>15. CASE NoSegment(p, v)
    BY <1>15, QuietRefines, Zenon DEF NoSegment
  <1>16. ASSUME NEW prot \in Prots, NEW x \in Values, load_segment(p, v, prot, x)
       PROVE  Private!Next
    <2>1. PICK f \in Frames :
            /\ ref[f] = 0
            /\ data' = [data EXCEPT ![f] = x]
            /\ pte' = [pte EXCEPT ![kid[p]][v] = prot_to_pte(f, prot)]
      BY <1>16, Zenon DEF load_segment, FreePage
    <2>2. /\ at[p] = "exec" /\ at'[p] = "exec"
          /\ kid[p] # p /\ \A q \in Procs : q # p => at'[q] = at[q]
      BY <1>0, <1>16, KidSlot, Zenon DEF load_segment
    <2>3. \A q \in Procs : Keeps(q)
      BY <2>1, AllocKeeps, Zenon
    <2>4. OthersUnseen(p)
      BY <1>a, <2>2, <2>3, KeptUnseen, Zenon DEF OthersUnseen, Bystander
    <2>5. vma'[p] = vma[p] /\ pte'[p] = pte[p]
      BY <1>16, <2>1, <2>2, Zenon DEF load_segment, IInv, TypeOK
    <2>6. MemOf(p)' = MemOf(p) /\ ProtOf(p)' = ProtOf(p)
      BY <2>2, <2>3, <2>5, OwnUnseen, Zenon DEF Running, Keeps, KeepsPage
    <2> QED BY <2>2, <2>4, <2>6, KernelStep, Zenon DEF DoingOf
  <1>17. ASSUME NEW prot \in Prots, NEW x \in Values, SegmentOverlap(p, v, prot, x)
       PROVE  Private!Next
    <2>1. PICK f \in Frames :
            /\ ref[f] = 0
            /\ data' = [data EXCEPT ![f] = x]
            /\ pte' = [pte EXCEPT ![kid[p]][v] = prot_to_pte(f, prot)]
      BY <1>17, Zenon DEF SegmentOverlap, FreePage
    <2>2. /\ at[p] = "exec" /\ at'[p] = "undo"
          /\ kid[p] # p /\ \A q \in Procs : q # p => at'[q] = at[q]
      BY <1>0, <1>17, KidSlot, Zenon DEF SegmentOverlap, ExecUndo
    <2>3. \A q \in Procs : Keeps(q)
      BY <2>1, AllocKeeps, Zenon
    <2>4. OthersUnseen(p)
      BY <1>a, <2>2, <2>3, KeptUnseen, Zenon DEF OthersUnseen, Bystander
    <2>5. vma'[p] = vma[p] /\ pte'[p] = pte[p]
      BY <1>17, <2>1, <2>2, Zenon DEF SegmentOverlap, IInv, TypeOK
    <2>6. MemOf(p)' = MemOf(p) /\ ProtOf(p)' = ProtOf(p)
      BY <2>2, <2>3, <2>5, OwnUnseen, Zenon DEF Running, Keeps, KeepsPage
    <2> QED BY <2>2, <2>4, <2>6, KernelStep, Zenon DEF DoingOf
  <1> QED BY <1>1, <1>2, <1>3, <1>4, <1>5, <1>6, <1>7, <1>8, <1>9, <1>10,
             <1>11, <1>12, <1>13, <1>14, <1>15, <1>16, <1>17, Zenon DEF PageStep

(* A range is a set of pages, not empty.                                    *)
LEMMA RangePages == ASSUME NEW S \in Ranges PROVE S # {} /\ S \subseteq Pages
  BY DEF Ranges

(* Pages of S, where p has neither VMA nor leaf, become readable as zero.   *)
LEMMA MapRefines ==
    ASSUME IInv, NEW p \in Procs, NEW S \in Ranges, NEW prot \in Prots, OthersUnseen(p),
           at[p] \in {"user", "unmap"}, at'[p] = "user",
           \A v \in S : vma[p][v] = NoVma /\ pte[p][v] = NoPte,
           vma'[p] = [v \in Pages |-> IF v \in S THEN prot ELSE vma[p][v]],
           UNCHANGED <<pte, data>>
    PROVE  Private!Next
  <1>1. S \in (SUBSET Pages) \ {{}} /\ prot # NoVma
    BY RangePages, CowAssumption, Zenon
  <1>2. DoingOf(p) \in {"user", "call"} /\ DoingOf(p)' = "user"
    BY Zenon DEF DoingOf
  <1>3. ProtOf(p) = vma[p] /\ ProtOf(p)' = vma'[p]
    BY Zenon DEF ProtOf, Running
  <1>4. MemOf(p)' = [v \in Pages |-> IF v \in S THEN Zero ELSE MemOf(p)[v]]
    BY <1>1, Zenon DEF MemOf, Running
  <1> QED BY <1>1, <1>2, <1>3, <1>4, MapStep

(* A step of p that is not bound to one page.                              *)
LEMMA ProcRefines ==
    ASSUME IInv, NEW p \in Procs, ProcStep(p)
    PROVE  Private!Next
  <1>0. at \in [Procs -> At] /\ Path(p)
    BY Zenon DEF IInv, TypeOK
  <1>a. \A q \in Procs : q # p => Elsewhere(p, q)
    BY ProcElsewhere, Zenon
  <1>1. CASE CowOom(p)
    <2>1. at[p] = "copy" /\ at' = [at EXCEPT ![p] = "zombie"]
      BY <1>1, Zenon DEF CowOom, do_exit
    <2>2. at'[p] = "zombie" /\ \A q \in Procs : q # p => Bystander(p, q)
      BY <1>0, <1>a, <2>1, Zenon DEF Bystander
    <2>3. DoingOf(p) = "fault"
      BY <2>1, Zenon DEF DoingOf
    <2> QED BY <1>1, <2>2, <2>3, ExitUnseen, ExitStep, Zenon DEF CowOom
  <1>2. CASE CowPut(p)
    <2>1. at[p] = "put" /\ at'[p] = "user" /\ vma' = vma /\ pte' = pte
      BY <1>0, <1>2, Zenon DEF CowPut
    <2>2. \A q \in Procs : Keeps(q)
      BY <1>2, PutKeeps, Zenon
    <2>3. OthersUnseen(p)
      BY <1>0, <1>2, <1>a, <2>2, KeptUnseen, Zenon DEF CowPut, OthersUnseen, Bystander
    <2>4. MemOf(p)' = MemOf(p) /\ ProtOf(p)' = ProtOf(p)
      BY <2>1, <2>2, OwnUnseen, Zenon DEF Running, Keeps, KeepsPage
    <2> QED BY <2>1, <2>3, <2>4, KernelStep, Zenon DEF DoingOf
  <1>3. CASE UnmapDone(p)
    <2>1. /\ at[p] = "unmap" /\ at'[p] = "user" /\ todo[p] = {} /\ UNCHANGED <<pte, data>>
          /\ \A q \in Procs : q # p => at'[q] = at[q]
      BY <1>0, <1>3, Zenon DEF UnmapDone
    <2>2. OthersUnseen(p)
      BY <1>a, <2>1, KeptUnseen, Zenon DEF OthersUnseen, Bystander, Keeps, KeepsPage
    <2>3. req[p].range \in Ranges /\ \A v \in req[p].range : vma[p][v] = NoVma
      BY <1>0, <2>1, Zenon DEF Path, UnmapPath
    <2>4. \A v \in req[p].range : v \in Pages /\ pte[p][v] = NoPte
      BY <1>0, <2>1, <2>3, RangePages, Zenon DEF Path, LeafFollows, Follows, Running
    <2>5. PICK prot \in {req[p].prot, NoVma} :
            vma'[p] = [v \in Pages |-> IF v \in req[p].range THEN prot ELSE vma[p][v]]
      BY <1>3, Zenon DEF UnmapDone, IInv, TypeOK
    <2>6. CASE prot = NoVma
      <3>1. vma'[p] = vma[p]
        BY <2>3, <2>5, <2>6, Zenon DEF IInv, TypeOK
      <3>2. MemOf(p)' = MemOf(p) /\ ProtOf(p)' = ProtOf(p)
        BY <2>1, <3>1, OwnUnseen, Zenon DEF Running
      <3> QED BY <2>1, <2>2, <3>2, KernelStep, Zenon DEF DoingOf
    <2>7. CASE prot # NoVma
      <3>1. prot \in Prots
        BY <2>5, <2>7 DEF IInv, TypeOK
      <3> QED BY <2>1, <2>2, <2>3, <2>4, <2>5, <3>1, MapRefines, Zenon
    <2> QED BY <2>6, <2>7, Zenon
  <1>4. CASE ForkDone(p)
    <2>0. PICK c \in Procs : c = kid[p]
      BY <1>4, KidSlot, Zenon DEF ForkDone
    <2>1. /\ at[p] = "fork" /\ todo[p] = {} /\ c # p /\ at[c] = "build"
          /\ UNCHANGED <<pte, data>>
      BY <1>4, <2>0, KidSlot, Zenon DEF ForkDone
    <2>2. at'[p] = "user" /\ at'[c] = "user" /\ vma'[p] = vma[p] /\ vma'[c] = vma[p]
      BY <1>0, <1>4, <2>0, <2>1, Zenon DEF ForkDone, IInv, TypeOK
    <2>3. ASSUME NEW q \in Procs, q \notin {p, c} PROVE Unseen(q)
      <3>1. at'[q] = at[q]
        BY <1>0, <1>4, <2>0, <2>3, Zenon DEF ForkDone
      <3> QED BY <1>a, <2>1, <2>3, <3>1, KeptUnseen, Zenon DEF Bystander, Keeps, KeepsPage
    <2>4. DoingOf(p) = "call" /\ DoingOf(p)' = "user" /\ DoingOf(c) = "none" /\ DoingOf(c)' = "user"
      BY <2>1, <2>2, Zenon DEF DoingOf
    <2>5. ProtOf(p) = vma[p] /\ ProtOf(p)' = vma[p] /\ ProtOf(c)' = vma[p]
      BY <2>1, <2>2, Zenon DEF ProtOf, Running
    <2>6. MemOf(p)' = MemOf(p)
      BY <2>1, <2>2, Zenon DEF MemOf, Running
    <2>7. \A v \in Pages : pte[c][v] = pte[p][v]
      BY <1>0, <2>0, <2>1, Zenon DEF Path, BuiltLeaf
    <2>8. MemOf(c)' = MemOf(p)
      BY <2>1, <2>2, <2>7, Zenon DEF MemOf, Running
    <2> QED BY <2>1, <2>3, <2>4, <2>5, <2>6, <2>8, ForkStep, Zenon
  <1>5. CASE ForkFail(p)
    <2>1. /\ at[p] = "fork" /\ at'[p] = "undo" /\ UNCHANGED <<vma, pte, data>>
          /\ \A q \in Procs : q # p => at'[q] = at[q]
      BY <1>0, <1>5, Zenon DEF ForkFail
    <2>2. OthersUnseen(p) /\ MemOf(p)' = MemOf(p) /\ ProtOf(p)' = ProtOf(p)
      BY <1>a, <2>1, QuietUnseen, Zenon DEF Bystander, Running
    <2> QED BY <2>1, <2>2, KernelStep, Zenon DEF DoingOf
  <1>6. CASE UndoDone(p)
    <2>1. /\ at[p] \in {"undo", "drop"} /\ kid[p] \in Procs /\ kid[p] # p
          /\ UNCHANGED <<pte, data>>
      BY <1>6, KidSlot, Zenon DEF UndoDone
    <2>2. /\ at'[p] \in {"hang", "user"} /\ vma'[p] = vma[p]
          /\ \A q \in Procs : q # p => at'[q] \in {at[q], "none"}
      BY <1>0, <1>6, <2>1, Zenon DEF UndoDone, IInv, TypeOK
    <2>3. OthersUnseen(p)
      BY <1>a, <2>1, <2>2, KeptUnseen, Zenon DEF OthersUnseen, Bystander, Keeps, KeepsPage
    <2>4. MemOf(p)' = MemOf(p) /\ ProtOf(p)' = ProtOf(p)
      BY <2>1, <2>2, OwnUnseen, Zenon DEF Running
    <2> QED BY <2>1, <2>2, <2>3, <2>4, KernelStep, Zenon DEF DoingOf
  <1>7. CASE StackMapFail(p)
    <2>1. /\ at[p] = "exec" /\ at'[p] = "undo" /\ UNCHANGED <<vma, pte>>
          /\ \A q \in Procs : q # p => at'[q] = at[q]
      BY <1>0, <1>7, Zenon DEF StackMapFail, ExecUndo
    <2>2. PICK f \in Frames : ref[f] = 0 /\ data' = [data EXCEPT ![f] = Zero]
      BY <1>7, Zenon DEF StackMapFail, FreePage
    <2>3. \A q \in Procs : Keeps(q)
      BY <2>2, AllocKeeps, Zenon
    <2>4. OthersUnseen(p)
      BY <1>a, <2>1, <2>3, KeptUnseen, Zenon DEF OthersUnseen, Bystander
    <2>5. MemOf(p)' = MemOf(p) /\ ProtOf(p)' = ProtOf(p)
      BY <2>1, <2>3, OwnUnseen, Zenon DEF Running, Keeps, KeepsPage
    <2> QED BY <2>1, <2>4, <2>5, KernelStep, Zenon DEF DoingOf
  <1>8. CASE ExecFail(p)
    <2>1. /\ at[p] = "exec" /\ at'[p] = "undo" /\ UNCHANGED <<vma, pte, data>>
          /\ \A q \in Procs : q # p => at'[q] = at[q]
      BY <1>0, <1>8, Zenon DEF ExecFail, ExecUndo
    <2>2. OthersUnseen(p) /\ MemOf(p)' = MemOf(p) /\ ProtOf(p)' = ProtOf(p)
      BY <1>a, <2>1, QuietUnseen, Zenon DEF Bystander, Running
    <2> QED BY <2>1, <2>2, KernelStep, Zenon DEF DoingOf
  <1>9. CASE ExecSwap(p)
    <2>1. /\ at[p] = "exec" /\ at'[p] = "drop" /\ data' = data
          /\ kid[p] \in Procs /\ kid[p] # p /\ \A q \in Procs : q # p => at'[q] = at[q]
      BY <1>0, <1>9, KidSlot, Zenon DEF ExecSwap
    <2>2. vma'[p] = vma[kid[p]] /\ pte'[p] = pte[kid[p]]
      BY <1>9, <2>1, Zenon DEF ExecSwap, IInv, TypeOK
    <2>3. OthersUnseen(p)
      BY <1>a, <2>1, KeptUnseen, Zenon DEF OthersUnseen, Bystander, Keeps, KeepsPage
    <2>4. DoingOf(p) = "exec" /\ DoingOf(p)' = "call"
      BY <2>1, Zenon DEF DoingOf
    <2>5. ProtOf(p)' = vma[kid[p]] /\ vma[kid[p]] \in [Pages -> Prots \cup {NoVma}]
      BY <2>1, <2>2, Zenon DEF ProtOf, Running, IInv, TypeOK
    <2>6. MemOf(p)' = [v \in Pages |-> IF vma[kid[p]][v] = NoVma THEN NoVma
                                       ELSE IF pte[kid[p]][v] = NoPte THEN Zero
                                       ELSE data[pte[kid[p]][v].frame]]
      BY <2>1, <2>2, Zenon DEF MemOf, NoMem, Running
    <2>7. \A v \in Pages : pte[kid[p]][v] # NoPte => data[pte[kid[p]][v].frame] \in Values
      BY <2>1, Zenon DEF IInv, MappedData
    <2>8. /\ MemOf(p)' \in [Pages -> Values \cup {NoVma}]
          /\ \A v \in Pages : MemOf(p)'[v] = NoVma <=> vma[kid[p]][v] = NoVma
      BY <2>6, <2>7, CowAssumption
    <2> QED BY <2>3, <2>4, <2>5, <2>8, ExecStep, Zenon
  <1>10. CASE ksys_exit(p)
    <2>1. at[p] = "user" /\ at' = [at EXCEPT ![p] = "zombie"]
      BY <1>10, Zenon DEF ksys_exit, do_exit
    <2>2. at'[p] = "zombie" /\ \A q \in Procs : q # p => Bystander(p, q)
      BY <1>0, <1>a, <2>1, Zenon DEF Bystander
    <2>3. DoingOf(p) = "user"
      BY <2>1, Zenon DEF DoingOf
    <2> QED BY <1>10, <2>2, <2>3, ExitUnseen, ExitStep, Zenon DEF ksys_exit
  <1>11. CASE mm_put(p)
    <2>1. /\ at[p] = "zombie" /\ at'[p] = "reap" /\ UNCHANGED <<pte, data>>
          /\ \A q \in Procs : q # p => at'[q] = at[q]
      BY <1>0, <1>11, Zenon DEF mm_put
    <2>2. OthersUnseen(p)
      BY <1>a, <2>1, KeptUnseen, Zenon DEF OthersUnseen, Bystander, Keeps, KeepsPage
    <2>3. MemOf(p)' = MemOf(p) /\ ProtOf(p)' = ProtOf(p)
      BY <2>1, Zenon DEF MemOf, ProtOf, Running
    <2> QED BY <2>1, <2>2, <2>3, KernelStep, Zenon DEF DoingOf
  <1>12. CASE ReapDone(p)
    <2>1. /\ at[p] = "reap" /\ at'[p] = "none" /\ UNCHANGED <<pte, data>>
          /\ \A q \in Procs : q # p => at'[q] = at[q]
      BY <1>0, <1>12, Zenon DEF ReapDone
    <2>2. OthersUnseen(p)
      BY <1>a, <2>1, KeptUnseen, Zenon DEF OthersUnseen, Bystander, Keeps, KeepsPage
    <2>3. MemOf(p)' = MemOf(p) /\ ProtOf(p)' = ProtOf(p)
      BY <2>1, Zenon DEF MemOf, ProtOf, Running
    <2> QED BY <2>1, <2>2, <2>3, KernelStep, Zenon DEF DoingOf
  <1> QED BY <1>1, <1>2, <1>3, <1>4, <1>5, <1>6, <1>7, <1>8, <1>9, <1>10,
             <1>11, <1>12, Zenon DEF ProcStep

(* A system call p makes.                                                  *)
LEMMA CallRefines ==
    ASSUME IInv, NEW p \in Procs, CallStep(p)
    PROVE  Private!Next
  <1>0. at \in [Procs -> At] /\ vma \in [Procs -> [Pages -> Prots \cup {NoVma}]]
    BY Zenon DEF IInv, TypeOK
  <1>a. \A q \in Procs : q # p => Elsewhere(p, q)
    BY CallElsewhere, Zenon
  <1>1. ASSUME NEW S \in Ranges, NEW prot \in Prots, do_mmap(p, S, prot)
        PROVE  Private!Next
    <2>1. /\ at[p] = "user" /\ at' = at /\ UNCHANGED <<pte, data>>
          /\ \A v \in S : v \in Pages /\ vma[p][v] = NoVma
          /\ vma'[p] = [v \in Pages |-> IF v \in S THEN prot ELSE vma[p][v]]
      BY <1>0, <1>1, RangePages, Zenon DEF do_mmap
    <2>2. OthersUnseen(p)
      BY <1>a, <2>1, KeptUnseen, Zenon DEF OthersUnseen, Bystander, Keeps, KeepsPage
    <2>3. \A v \in S : pte[p][v] = NoPte
      BY <2>1, UserTranslation, Zenon DEF Follows
    <2> QED BY <2>1, <2>2, <2>3, MapRefines, Zenon
  <1>2. ASSUME NEW S \in Ranges, NEW prot \in Prots, mm_mprotect(p, S, prot)
        PROVE  Private!Next
    <2>1. /\ at[p] = "user" /\ at' = at /\ data' = data
          /\ S \in (SUBSET Pages) \ {{}} /\ prot # NoVma
          /\ \A v \in S : vma[p][v] # NoVma
          /\ vma'[p] = [v \in Pages |-> IF v \in S THEN prot ELSE vma[p][v]]
      BY <1>0, <1>2, RangePages, CowAssumption, Zenon DEF mm_mprotect
    <2>2. OthersUnseen(p)
      BY <1>a, <2>1, KeptUnseen, Zenon DEF OthersUnseen, Bystander, Keeps, KeepsPage
    <2>3. \A v \in Pages : pte'[p][v] = IF v \in S /\ pte[p][v] # NoPte
                                        THEN ReprotectedLeaf(pte[p][v], prot) ELSE pte[p][v]
      BY <1>2, Zenon DEF mm_mprotect, IInv, TypeOK
    <2>4. \A e \in Leaf : /\ ReprotectedLeaf(e, prot) # NoPte
                         /\ ReprotectedLeaf(e, prot).frame = e.frame
      BY LeafPresent, Zenon DEF ReprotectedLeaf, prot_to_pte, pte_wrprotect, Leaf
    <2>5. ASSUME NEW v \in Pages
          PROVE  /\ pte'[p][v] = NoPte <=> pte[p][v] = NoPte
                 /\ pte[p][v] # NoPte => pte'[p][v].frame = pte[p][v].frame
      <3>1. pte[p][v] = NoPte \/ pte[p][v] \in Leaf
        BY DEF IInv, TypeOK
      <3> QED BY <2>3, <2>4, <3>1, LeafPresent, Zenon
    <2>6. \A v \in Pages : vma'[p][v] = NoVma <=> vma[p][v] = NoVma
      BY <2>1, Zenon
    <2>7. MemOf(p)' = MemOf(p)
      BY <2>1, <2>5, <2>6, Zenon DEF MemOf
    <2>8. ProtOf(p) = vma[p] /\ ProtOf(p)' = vma'[p]
      BY <2>1, Zenon DEF ProtOf, Running
    <2>9. DoingOf(p) = "user" /\ DoingOf(p)' = "user"
      BY <2>1, Zenon DEF DoingOf
    <2> QED BY <2>1, <2>2, <2>7, <2>8, <2>9, ProtectStep
  <1>3. ASSUME NEW S \in Ranges, NEW prot \in Prots \cup {NoVma},
               vma_erase_range(p, S, prot)
        PROVE  Private!Next
    <2>1. /\ at[p] = "user" /\ at'[p] = "unmap" /\ UNCHANGED <<pte, data>>
          /\ S \in (SUBSET Pages) \ {{}} /\ \A q \in Procs : q # p => at'[q] = at[q]
          /\ vma'[p] = [v \in Pages |-> IF v \in S THEN NoVma ELSE vma[p][v]]
      BY <1>0, <1>3, RangePages, Zenon DEF vma_erase_range
    <2>2. OthersUnseen(p)
      BY <1>a, <2>1, KeptUnseen, Zenon DEF OthersUnseen, Bystander, Keeps, KeepsPage
    <2>3. ProtOf(p) = vma[p] /\ ProtOf(p)' = vma'[p]
      BY <2>1, Zenon DEF ProtOf, Running
    <2>4. MemOf(p)' = [v \in Pages |-> IF v \in S THEN NoVma ELSE MemOf(p)[v]]
      BY <2>1, Zenon DEF MemOf, NoMem, Running
    <2>5. DoingOf(p) = "user" /\ DoingOf(p)' = "call"
      BY <2>1, Zenon DEF DoingOf
    <2> QED BY <2>1, <2>2, <2>3, <2>4, <2>5, UnmapStep
  <1>4. ASSUME NEW c \in Procs, dup_mm(p, c)
        PROVE  Private!Next
    <2>1. /\ at[p] = "user" /\ at'[p] = "fork" /\ UNCHANGED <<vma, pte, data>>
          /\ \A q \in Procs : q # p => at'[q] \in {at[q], "build"}
      BY <1>0, <1>4, Zenon DEF dup_mm
    <2>2. OthersUnseen(p) /\ MemOf(p)' = MemOf(p) /\ ProtOf(p)' = ProtOf(p)
      BY <1>a, <2>1, QuietUnseen, Zenon DEF Bystander, Running
    <2> QED BY <2>1, <2>2, KernelStep, Zenon DEF DoingOf
  <1>5. ASSUME NEW c \in Procs, load_elf_binary(p, c)
        PROVE  Private!Next
    <2>1. /\ at[p] = "user" /\ at'[p] = "exec" /\ UNCHANGED <<vma, pte, data>>
          /\ \A q \in Procs : q # p => at'[q] \in {at[q], "build"}
      BY <1>0, <1>5, Zenon DEF load_elf_binary
    <2>2. OthersUnseen(p) /\ MemOf(p)' = MemOf(p) /\ ProtOf(p)' = ProtOf(p)
      BY <1>a, <2>1, QuietUnseen, Zenon DEF Bystander, Running
    <2> QED BY <2>1, <2>2, KernelStep, Zenon DEF DoingOf
  <1> QED BY <1>1, <1>2, <1>3, <1>4, <1>5, Zenon DEF CallStep

(* Every step of Cow is a step of PrivateMemory ...                        *)
LEMMA StepRefines ==
    ASSUME IInv, [Next]_vars
    PROVE  [Private!Next]_(Private!vars)
  <1>1. CASE mm_install
    BY <1>1, QuietRefines, Zenon DEF mm_install
  <1>2. CASE UNCHANGED vars
    BY <1>2, QuietRefines, Zenon DEF vars
  <1> QED BY <1>1, <1>2, PageRefines, ProcRefines, CallRefines, Zenon DEF Next

(* ... and starts where PrivateMemory starts.                              *)
LEMMA InitRefines == ASSUME Init PROVE Private!Init
  <1>1. PICK p \in Procs, c \in Procs :
          /\ p # c
          /\ at = [q \in Procs |-> CASE q = p -> "exec" [] q = c -> "build" [] OTHER -> "none"]
    BY Zenon DEF Init
  <1>2. vma = [q \in Procs |-> NoVmas]
    BY Zenon DEF Init
  <1>3. \A q \in Procs : DoingOf(q) = IF q = p THEN "exec" ELSE "none"
    BY <1>1, Zenon DEF DoingOf
  <1>4. \A q \in Procs : ProtOf(q) = NoVmas /\ MemOf(q) = NoVmas
    BY <1>2, Zenon DEF ProtOf, MemOf, NoMem, NoVmas
  <1> QED BY <1>3, <1>4, Zenon DEF Private!Init, Private!Unmapped, NoVmas

=============================================================================
