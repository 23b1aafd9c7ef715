------------------------------ MODULE CowSteps ------------------------------
(***************************************************************************)
(* What a step of Cow does to slots its process does not handle, and to    *)
(* the leaves that must be the only holder of their page.                  *)
(***************************************************************************)
EXTENDS Cow, TLAPS

-----------------------------------------------------------------------------
(* Leaves.                                                                 *)

(* prot_to_pte and the leaf operators yield leaves.                        *)
LEMMA LeafTypes ==
    ASSUME NEW e \in Leaf, NEW f \in Frames, NEW prot
    PROVE  /\ prot_to_pte(f, prot) \in Leaf
           /\ pte_wrprotect(e) \in Leaf
           /\ pte_mkwrite(e) \in Leaf
           /\ SharedLeaf(e) \in Leaf
           /\ ReprotectedLeaf(e, prot) \in Leaf
           /\ [e EXCEPT !.frame = f] \in Leaf
  BY Zenon DEF Leaf, prot_to_pte, pte_wrprotect, pte_mkwrite, SharedLeaf, ReprotectedLeaf

(* The leaf operators keep the page.                                       *)
LEMMA LeafFrames ==
    ASSUME NEW e \in Leaf, NEW f \in Frames, NEW prot
    PROVE  /\ prot_to_pte(f, prot).frame = f
           /\ pte_wrprotect(e).frame = e.frame
           /\ pte_mkwrite(e).frame = e.frame
           /\ pte_mkwrite([e EXCEPT !.frame = f]).frame = f
           /\ SharedLeaf(e).frame = e.frame
           /\ ReprotectedLeaf(e, prot).frame = e.frame
           /\ SharedLeaf(e).rdonly
           /\ e.frame \in Frames
  BY Zenon DEF Leaf, prot_to_pte, pte_wrprotect, pte_mkwrite, SharedLeaf, ReprotectedLeaf

(* A leaf is not the absent entry.                                         *)
LEMMA LeafPresent == ASSUME NEW e \in Leaf PROVE e # NoPte
  BY CowAssumption, Zenon

-----------------------------------------------------------------------------
(* Holders of a page.                                                      *)

(* A page with one reference has one holder.                               *)
LEMMA OneHolder ==
    ASSUME IInv, NEW q \in Procs, NEW u \in Pages,
           pte[q][u] # NoPte, ref[pte[q][u].frame] = 1
    PROVE  /\ \A r \in Procs, w \in Pages :
                 pte[r][w] # NoPte /\ pte[r][w].frame = pte[q][u].frame => r = q /\ w = u
           /\ \A r \in Procs : pend[r] # pte[q][u].frame
  BY DEF IInv, Holders, MapsTo

(* An exclusive leaf is the only holder of its page.                       *)
LEMMA SoleHolder ==
    ASSUME IInv, NEW q \in Procs, NEW u \in Pages, Exclusive(q, u)
    PROVE  /\ pte[q][u] \in Leaf /\ pte[q][u].frame \in Frames
           /\ ref[pte[q][u].frame] = 1
           /\ \A r \in Procs, w \in Pages :
                 pte[r][w] # NoPte /\ pte[r][w].frame = pte[q][u].frame => r = q /\ w = u
           /\ \A r \in Procs : pend[r] # pte[q][u].frame
  <1>1. pte[q][u] \in Leaf /\ pte[q][u] # NoPte
    BY DEF IInv, Exclusive, TypeOK
  <1>2. ref[pte[q][u].frame] = 1
    BY Zenon DEF IInv, ExclusiveCounts
  <1> QED BY <1>1, <1>2, OneHolder, Zenon DEF Leaf

(* A page on the free list has none.                                       *)
LEMMA NoHolder ==
    ASSUME IInv, NEW f \in Frames, ref[f] = 0
    PROVE  /\ \A q \in Procs, u \in Pages : pte[q][u] # NoPte => pte[q][u].frame # f
           /\ \A q \in Procs : pend[q] # f
  BY CowAssumption DEF IInv, Holders

-----------------------------------------------------------------------------
(* The paths of the kernel.                                                *)

(* do_cow_fault works on the page it faulted on, which is mapped.          *)
LEMMA CowLeaf ==
    ASSUME IInv, NEW p \in Procs, NEW v \in Pages,
           at[p] \in {"mkwrite", "copy"}, todo[p] = {v}
    PROVE  /\ pte[p][v] \in Leaf /\ pte[p][v].rdonly
           /\ vma[p][v] # NoVma /\ "w" \in vma[p][v]
  <1>1. PICK u \in Pages : /\ todo[p] = {u} /\ pte[p][u] # NoPte /\ pte[p][u].rdonly
                           /\ vma[p][u] # NoVma /\ "w" \in vma[p][u]
    BY Zenon DEF IInv, Path, CowPath
  <1>2. u = v
    BY <1>1, Zenon
  <1> QED BY <1>1, <1>2 DEF IInv, TypeOK

(* The slot a fork, an execve or a teardown works on.                      *)
LEMMA KidSlot ==
    ASSUME IInv, NEW p \in Procs, at[p] \in {"fork", "exec", "undo", "drop"}
    PROVE  kid[p] \in Procs /\ at[kid[p]] = "build" /\ kid[p] # p
  BY DEF IInv, TypeOK, Slots, Builders

(* DropLeaf clears one leaf and no other.                                  *)
LEMMA DropOne ==
    ASSUME TypeOK, NEW r \in Procs, NEW v \in Pages, DropLeaf(r, v)
    PROVE  \A q \in Procs, u \in Pages :
              pte'[q][u] = IF q = r /\ u = v THEN NoPte ELSE pte[q][u]
  <1>1. CASE pte[r][v] = NoPte
    BY <1>1, Zenon DEF DropLeaf
  <1>2. CASE pte[r][v] # NoPte
    BY <1>2 DEF DropLeaf, TypeOK
  <1> QED BY <1>1, <1>2, Zenon

-----------------------------------------------------------------------------
(* What a step of one process does to the slots of the others.             *)

(* The step leaves slot q alone, but may empty its TLB.                    *)
Aside(q) ==
    /\ at'[q] = at[q] /\ todo'[q] = todo[q] /\ kid'[q] = kid[q]
    /\ pend'[q] = pend[q] /\ req'[q] = req[q]
    /\ vma'[q] = vma[q] /\ pte'[q] = pte[q]
    /\ tlb'[q] \in {tlb[q], NoPtes}

(* Slot q is the one in which the step builds or tears down an mm.         *)
Handled(q) ==
    /\ at[q] \in {"none", "build"} /\ at'[q] \in {"none", "build", "user"}
    /\ kid'[q] = kid[q] /\ pend'[q] = pend[q]
    /\ tlb'[q] \in {tlb[q], NoPtes}

Elsewhere(p, q) ==
    \/ Aside(q)
    \/ /\ q \in {kid[p], kid'[p]} /\ Handled(q)
       /\ at'[q] = "build" \/ ForkDone(p) \/ UndoDone(p)

(* A fault, a user access or a one-page step of p.                         *)
LEMMA PageElsewhere ==
    ASSUME IInv, NEW p \in Procs, NEW v \in Pages, PageStep(p, v),
           NEW q \in Procs, q # p
    PROVE  Elsewhere(p, q)
  <1>0. TypeOK
    BY Zenon DEF IInv
  <1> USE DEF TypeOK, Elsewhere, Aside, Handled, kernel
  <1>1. CASE TlbFill(p, v)
    BY <1>0, <1>1, KidSlot, Zenon DEF TlbFill
  <1>2. ASSUME NEW x \in Values, UserStore(p, v, x)
        PROVE  Elsewhere(p, q)
    BY <1>0, <1>2, KidSlot, Zenon DEF UserStore
  <1>3. ASSUME NEW x \in Values, copy_to_user(p, v, x)
        PROVE  Elsewhere(p, q)
    BY <1>0, <1>3, KidSlot, Zenon DEF copy_to_user
  <1>4. ASSUME NEW acc \in {"read", "write"}, UaccessAbort(p, v, acc)
        PROVE  Elsewhere(p, q)
    BY <1>0, <1>4, KidSlot, Zenon DEF UaccessAbort
  <1>5. ASSUME NEW acc \in Access, FaultSegv(p, v, acc)
        PROVE  Elsewhere(p, q)
    BY <1>0, <1>5, KidSlot, Zenon DEF FaultSegv, do_exit
  <1>6. ASSUME NEW acc \in Access, FaultDemand(p, v, acc)
        PROVE  Elsewhere(p, q)
    BY <1>0, <1>6, KidSlot, Zenon DEF FaultDemand, TlbFlushPage
  <1>7. ASSUME NEW acc \in Access, FaultOom(p, v, acc)
        PROVE  Elsewhere(p, q)
    BY <1>0, <1>7, KidSlot, Zenon DEF FaultOom, do_exit
  <1>8. ASSUME NEW acc \in Access, FaultCow(p, v, acc)
        PROVE  Elsewhere(p, q)
    BY <1>0, <1>8, KidSlot, Zenon DEF FaultCow
  <1>9. CASE CowMkwrite(p, v)
    BY <1>0, <1>9, KidSlot, Zenon DEF CowMkwrite, TlbFlushPage
  <1>10. CASE CowCopy(p, v)
    BY <1>0, <1>10, KidSlot, Zenon DEF CowCopy, TlbFlushPage
  <1>11. CASE unmap_page(p, v)
    BY <1>0, <1>11, KidSlot, Zenon DEF unmap_page, TlbFlushPage, DropLeaf
  <1>12. CASE dup_pgtable_level(p, v)
    BY <1>0, <1>12, KidSlot DEF dup_pgtable_level, TlbFlushPage
  <1>13. CASE UndoPage(p, v)
    BY <1>0, <1>13, KidSlot, Zenon DEF UndoPage, DropLeaf
  <1>14. CASE ReapPage(p, v)
    BY <1>0, <1>14, KidSlot, Zenon DEF ReapPage, DropLeaf
  <1>15. CASE NoSegment(p, v)
    BY <1>0, <1>15, KidSlot, Zenon DEF NoSegment
  <1>16. ASSUME NEW prot \in Prots, NEW x \in Values, load_segment(p, v, prot, x)
         PROVE  Elsewhere(p, q)
    BY <1>0, <1>16, KidSlot DEF load_segment, TlbFlushAll, NextPage
  <1>17. ASSUME NEW prot \in Prots, NEW x \in Values, SegmentOverlap(p, v, prot, x)
         PROVE  Elsewhere(p, q)
    BY <1>0, <1>17, KidSlot DEF SegmentOverlap, TlbFlushAll, ExecUndo
  <1> QED BY <1>1, <1>2, <1>3, <1>4, <1>5, <1>6, <1>7, <1>8, <1>9, <1>10, <1>11, <1>12, <1>13, <1>14, <1>15, <1>16, <1>17, Zenon DEF PageStep

(* A whole-process step of p.                                              *)
LEMMA ProcElsewhere ==
    ASSUME IInv, NEW p \in Procs, ProcStep(p), NEW q \in Procs, q # p
    PROVE  Elsewhere(p, q)
  <1>0. TypeOK
    BY Zenon DEF IInv
  <1> USE DEF TypeOK, Elsewhere, Aside, Handled, kernel
  <1>1. CASE CowOom(p)
    BY <1>0, <1>1, KidSlot, Zenon DEF CowOom, do_exit
  <1>2. CASE CowPut(p)
    BY <1>0, <1>2, KidSlot, Zenon DEF CowPut
  <1>3. CASE UnmapDone(p)
    BY <1>0, <1>3, KidSlot, Zenon DEF UnmapDone
  <1>4. CASE ForkDone(p)
    BY <1>0, <1>4, KidSlot, Zenon DEF ForkDone
  <1>5. CASE ForkFail(p)
    BY <1>0, <1>5, KidSlot, Zenon DEF ForkFail
  <1>6. CASE UndoDone(p)
    BY <1>0, <1>6, KidSlot, Zenon DEF UndoDone, TlbFlushAll
  <1>7. CASE StackMapFail(p)
    BY <1>0, <1>7, KidSlot, Zenon DEF StackMapFail, ExecUndo
  <1>8. CASE ExecFail(p)
    BY <1>0, <1>8, KidSlot, Zenon DEF ExecFail, ExecUndo
  <1>9. CASE ExecSwap(p)
    BY <1>0, <1>9, KidSlot, Zenon DEF ExecSwap
  <1>10. CASE ksys_exit(p)
    BY <1>0, <1>10, KidSlot, Zenon DEF ksys_exit, do_exit
  <1>11. CASE mm_put(p)
    BY <1>0, <1>11, KidSlot, Zenon DEF mm_put
  <1>12. CASE ReapDone(p)
    BY <1>0, <1>12, KidSlot, Zenon DEF ReapDone
  <1> QED BY <1>1, <1>2, <1>3, <1>4, <1>5, <1>6, <1>7, <1>8, <1>9, <1>10, <1>11, <1>12, Zenon DEF ProcStep

(* A system call of p.                                                     *)
LEMMA CallElsewhere ==
    ASSUME IInv, NEW p \in Procs, CallStep(p), NEW q \in Procs, q # p
    PROVE  Elsewhere(p, q)
  <1>0. TypeOK
    BY Zenon DEF IInv
  <1> USE DEF TypeOK, Elsewhere, Aside, Handled, kernel
  <1>1. ASSUME NEW S \in Ranges, NEW prot \in Prots, do_mmap(p, S, prot)
        PROVE  Elsewhere(p, q)
    BY <1>0, <1>1, Zenon DEF do_mmap
  <1>2. ASSUME NEW S \in Ranges, NEW prot \in Prots, mm_mprotect(p, S, prot)
        PROVE  Elsewhere(p, q)
    BY <1>0, <1>2, Zenon DEF mm_mprotect
  <1>3. ASSUME NEW S \in Ranges, NEW prot \in Prots \cup {NoVma}, vma_erase_range(p, S, prot)
        PROVE  Elsewhere(p, q)
    BY <1>0, <1>3, Zenon DEF vma_erase_range
  <1>4. ASSUME NEW c \in Procs, dup_mm(p, c) PROVE Elsewhere(p, q)
    BY <1>0, <1>4, Zenon DEF dup_mm
  <1>5. ASSUME NEW c \in Procs, load_elf_binary(p, c) PROVE Elsewhere(p, q)
    BY <1>0, <1>5, Zenon DEF load_elf_binary
  <1> QED BY <1>1, <1>2, <1>3, <1>4, <1>5, Zenon DEF CallStep

-----------------------------------------------------------------------------
(* Sole holders.                                                           *)

(* Exclusive leaves that were exclusive before, over the same page with    *)
(* the same count, keep ExclusiveCounts.                                   *)
LEMMA KeepExclusive ==
    ASSUME IInv,
           \A q \in Procs, u \in Pages : Exclusive(q, u)' =>
              \/ ref'[pte'[q][u].frame] = 1
              \/ /\ Exclusive(q, u)
                 /\ pte'[q][u].frame = pte[q][u].frame
                 /\ ref'[pte[q][u].frame] = ref[pte[q][u].frame]
    PROVE  ExclusiveCounts'
  <1>1. ASSUME NEW q \in Procs, NEW u \in Pages, Exclusive(q, u)'
        PROVE  ref'[pte'[q][u].frame] = 1
    <2>1. Exclusive(q, u) => ref[pte[q][u].frame] = 1
      BY Zenon DEF IInv, ExclusiveCounts
    <2> QED BY <1>1, <2>1, Zenon
  <1> QED BY <1>1, Zenon DEF ExclusiveCounts

(* A step by which no process starts an exclusive use.                     *)
Calm ==
    \A q \in Procs :
        /\ at'[q] = "mkwrite" => at[q] = "mkwrite" /\ todo'[q] = todo[q]
        /\ at'[q] = "exec" => at[q] = "exec" /\ kid'[q] = kid[q]

(* Where such a step leaves a leaf alone, it was exclusive before.         *)
LEMMA CalmExclusive ==
    ASSUME Calm, NEW q \in Procs, NEW u \in Pages, Exclusive(q, u)', pte'[q][u] = pte[q][u]
    PROVE  Exclusive(q, u)
  BY Zenon DEF Calm, Exclusive

(* The step leaves tables and counts alone.                                *)
LEMMA QuietExclusive ==
    ASSUME IInv, UNCHANGED <<pte, ref>>, Calm PROVE ExclusiveCounts'
  BY KeepExclusive, CalmExclusive, Zenon

(* The step maps a fresh page.                                             *)
LEMMA AllocExclusive ==
    ASSUME IInv, Calm, NEW r \in Procs, NEW v \in Pages, NEW f \in Frames, NEW e \in Leaf,
           ref[f] = 0, e.frame = f, ref' = [ref EXCEPT ![f] = 1],
           pte' = [pte EXCEPT ![r][v] = e]
    PROVE  ExclusiveCounts'
  <1>0. TypeOK
    BY Zenon DEF IInv
  <1>1. ASSUME NEW q \in Procs, NEW u \in Pages, Exclusive(q, u)'
        PROVE  \/ ref'[pte'[q][u].frame] = 1
               \/ /\ Exclusive(q, u)
                  /\ pte'[q][u].frame = pte[q][u].frame
                  /\ ref'[pte[q][u].frame] = ref[pte[q][u].frame]
    <2>1. CASE q = r /\ u = v
      BY <1>0, <2>1, Zenon DEF TypeOK
    <2>2. CASE ~(q = r /\ u = v)
      <3>1. pte'[q][u] = pte[q][u]
        BY <1>0, <2>2, Zenon DEF TypeOK
      <3>2. Exclusive(q, u)
        BY <1>1, <3>1, CalmExclusive, Zenon
      <3>3. pte[q][u].frame \in Frames /\ ref[pte[q][u].frame] = 1
        BY <3>2, SoleHolder, Zenon
      <3> QED BY <1>0, <3>1, <3>2, <3>3, Zenon DEF TypeOK
    <2> QED BY <2>1, <2>2, Zenon
  <1> QED BY <1>1, KeepExclusive, Zenon

(* The step clears a leaf and puts its page: nobody else holds an          *)
(* exclusive one over it.                                                  *)
LEMMA DropExclusive ==
    ASSUME IInv, Calm, NEW r \in Procs, NEW v \in Pages, DropLeaf(r, v)
    PROVE  ExclusiveCounts'
  <1>0. TypeOK
    BY Zenon DEF IInv
  <1>1. CASE pte[r][v] = NoPte
    BY <1>1, QuietExclusive, Zenon DEF DropLeaf
  <1>2. CASE pte[r][v] # NoPte
    <2>0. ref' = [ref EXCEPT ![pte[r][v].frame] = ref[pte[r][v].frame] - 1]
      BY <1>2, Zenon DEF DropLeaf, put_page
    <2>1. ASSUME NEW q \in Procs, NEW u \in Pages, Exclusive(q, u)'
          PROVE  /\ Exclusive(q, u)
                 /\ pte'[q][u].frame = pte[q][u].frame
                 /\ ref'[pte[q][u].frame] = ref[pte[q][u].frame]
      <3>1. pte'[q][u] # NoPte
        BY <2>1, Zenon DEF Exclusive
      <3>2. ~(q = r /\ u = v) /\ pte'[q][u] = pte[q][u]
        BY <1>0, <3>1, DropOne, Zenon
      <3>3. Exclusive(q, u)
        BY <2>1, <3>2, CalmExclusive, Zenon
      <3>4. pte[q][u].frame \in Frames /\ pte[r][v].frame # pte[q][u].frame
        BY <1>2, <3>2, <3>3, SoleHolder
      <3> QED BY <1>0, <2>0, <3>2, <3>3, <3>4, Zenon DEF TypeOK
    <2> QED BY <2>1, KeepExclusive, Zenon
  <1> QED BY <1>1, <1>2, Zenon

(* do_cow_fault makes a page writable only for its sole holder; the other  *)
(* page steps keep writable pages private.                                 *)
LEMMA PageExclusive ==
    ASSUME IInv, NEW p \in Procs, NEW v \in Pages, PageStep(p, v)
    PROVE  ExclusiveCounts'
  <1>0. TypeOK /\ Slots
    BY Zenon DEF IInv
  <1> USE DEF kernel, TypeOK, Calm
  <1>1. CASE TlbFill(p, v)
    BY <1>0, <1>1, QuietExclusive, Zenon DEF TlbFill
  <1>2. ASSUME NEW x \in Values, UserStore(p, v, x) PROVE ExclusiveCounts'
    BY <1>0, <1>2, QuietExclusive, Zenon DEF UserStore
  <1>3. ASSUME NEW x \in Values, copy_to_user(p, v, x) PROVE ExclusiveCounts'
    BY <1>0, <1>3, QuietExclusive, Zenon DEF copy_to_user
  <1>4. ASSUME NEW acc \in {"read", "write"}, UaccessAbort(p, v, acc)
        PROVE  ExclusiveCounts'
    BY <1>0, <1>4, QuietExclusive, Zenon DEF UaccessAbort
  <1>5. ASSUME NEW acc \in Access, FaultSegv(p, v, acc) PROVE ExclusiveCounts'
    BY <1>0, <1>5, QuietExclusive, Zenon DEF FaultSegv, Faults, do_exit
  <1>6. ASSUME NEW acc \in Access, FaultDemand(p, v, acc) PROVE ExclusiveCounts'
    <2>1. PICK f \in Frames :
            /\ ref[f] = 0
            /\ ref' = [ref EXCEPT ![f] = 1]
            /\ pte' = [pte EXCEPT ![p][v] = prot_to_pte(f, vma[p][v])]
      BY <1>6, Zenon DEF FaultDemand, FreePage
    <2>2. prot_to_pte(f, vma[p][v]) \in Leaf /\ prot_to_pte(f, vma[p][v]).frame = f
      BY Zenon DEF Leaf, prot_to_pte
    <2>3. p \in Procs
      BY <1>6, KidSlot, Zenon DEF FaultDemand
    <2>4. Calm
      BY <1>0, <1>6, Zenon DEF FaultDemand
    <2> QED BY <2>1, <2>2, <2>3, <2>4, AllocExclusive, Zenon
  <1>7. ASSUME NEW acc \in Access, FaultOom(p, v, acc) PROVE ExclusiveCounts'
    BY <1>0, <1>7, QuietExclusive, Zenon DEF FaultOom, Faults, do_exit
  <1>8. ASSUME NEW acc \in Access, FaultCow(p, v, acc) PROVE ExclusiveCounts'
    <2>1. ASSUME NEW q \in Procs, NEW u \in Pages, Exclusive(q, u)'
          PROVE  \/ ref'[pte'[q][u].frame] = 1
                 \/ /\ Exclusive(q, u)
                    /\ pte'[q][u].frame = pte[q][u].frame
                    /\ ref'[pte[q][u].frame] = ref[pte[q][u].frame]
      <3>1. UNCHANGED <<pte, ref, kid>>
        BY <1>8, Zenon DEF FaultCow
      <3>2. /\ \A r \in Procs : r # p => at'[r] = at[r] /\ todo'[r] = todo[r]
            /\ todo'[p] = {v} /\ at'[p] # "exec"
            /\ at'[p] = "mkwrite" => ref[pte[p][v].frame] = 1
        BY <1>0, <1>8, Zenon DEF FaultCow
      <3>3. CASE q = p /\ u = v /\ at'[p] = "mkwrite"
        BY <3>1, <3>2, <3>3, Zenon
      <3>4. CASE ~(q = p /\ u = v /\ at'[p] = "mkwrite")
        BY <2>1, <3>1, <3>2, <3>4, Zenon DEF Exclusive
      <3> QED BY <3>3, <3>4, Zenon
    <2> QED BY <2>1, KeepExclusive, Zenon
  <1>9. CASE CowMkwrite(p, v)
    <2>0. pte[p][v] \in Leaf
      BY <1>9, CowLeaf, Zenon DEF CowMkwrite
    <2>1. Exclusive(p, v)
      BY <2>0, <1>9, LeafPresent, Zenon DEF CowMkwrite, Exclusive
    <2>2. Calm /\ ref' = ref
      BY <1>0, <1>9, Zenon DEF CowMkwrite
    <2>3. \A q \in Procs, u \in Pages : ~(q = p /\ u = v) => pte'[q][u] = pte[q][u]
      BY <1>0, <1>9, Zenon DEF CowMkwrite
    <2>4. pte'[p][v].frame = pte[p][v].frame
      BY <1>0, <2>0, <1>9, LeafFrames, Zenon DEF CowMkwrite, Leaf
    <2>5. ASSUME NEW q \in Procs, NEW u \in Pages, Exclusive(q, u)'
          PROVE  Exclusive(q, u) /\ pte'[q][u].frame = pte[q][u].frame
      BY <2>1, <2>2, <2>3, <2>4, <2>5, CalmExclusive, Zenon
    <2> QED BY <2>2, <2>5, KeepExclusive, Zenon
  <1>10. CASE CowCopy(p, v)
    <2>1. pte[p][v] \in Leaf
      BY <1>10, CowLeaf, Zenon DEF CowCopy
    <2>2. PICK f \in Frames :
            /\ ref[f] = 0
            /\ ref' = [ref EXCEPT ![f] = 1]
            /\ pte' = [pte EXCEPT ![p][v] = pte_mkwrite([pte[p][v] EXCEPT !.frame = f])]
      BY <1>10, Zenon DEF CowCopy, FreePage
    <2>3. /\ pte_mkwrite([pte[p][v] EXCEPT !.frame = f]) \in Leaf
          /\ pte_mkwrite([pte[p][v] EXCEPT !.frame = f]).frame = f
      BY <2>1, Zenon DEF Leaf, pte_mkwrite
    <2>4. Calm
      BY <1>0, <1>10, Zenon DEF CowCopy
    <2> QED BY <2>2, <2>3, <2>4, AllocExclusive, Zenon
  <1>11. CASE unmap_page(p, v)
    <2>1. p \in Procs /\ DropLeaf(p, v)
      BY <1>11, KidSlot, Zenon DEF unmap_page
    <2>2. Calm
      BY <1>0, <1>11, Zenon DEF unmap_page
    <2> QED BY <2>1, <2>2, DropExclusive, Zenon
  <1>12. CASE dup_pgtable_level(p, v)
    <2>0. kid[p] \in Procs /\ at[p] = "fork" /\ at[kid[p]] = "build"
      BY <1>12, KidSlot, Zenon DEF dup_pgtable_level
    <2>1. Calm /\ at' = at /\ kid' = kid
      BY <1>0, <1>12, Zenon DEF dup_pgtable_level
    <2>2. CASE pte[p][v] = NoPte
      BY <1>12, <2>1, <2>2, QuietExclusive, Zenon DEF dup_pgtable_level
    <2>3. CASE pte[p][v] # NoPte
      <3>1. pte[p][v] \in Leaf
        BY <1>0, <2>3
      <3>2. PICK s \in Leaf : s = SharedLeaf(pte[p][v]) /\ s.rdonly
        BY <3>1, LeafTypes, LeafFrames, Zenon DEF Leaf
      <3>3. /\ ref' = [ref EXCEPT ![pte[p][v].frame] = ref[pte[p][v].frame] + 1]
            /\ pte' = [pte EXCEPT ![p][v] = s, ![kid[p]][v] = s]
        BY <1>12, <2>3, <3>2, Zenon DEF dup_pgtable_level
      <3>4. pte'[p][v] = s /\ pte'[kid[p]][v] = s
        BY <1>0, <2>0, <3>3, Zenon
      <3>5. \A q \in Procs, u \in Pages :
              ~(q \in {p, kid[p]} /\ u = v) => pte'[q][u] = pte[q][u]
        BY <1>0, <2>0, <3>3, Zenon
      <3>6. ~\E r \in Procs : at'[r] = "exec" /\ kid'[r] \in {p, kid[p]}
        BY <1>0, <2>0, <2>1, Zenon DEF Slots, Builders
      <3>7. ASSUME NEW q \in Procs, NEW u \in Pages, Exclusive(q, u)'
            PROVE  /\ Exclusive(q, u)
                   /\ pte'[q][u].frame = pte[q][u].frame
                   /\ ref'[pte[q][u].frame] = ref[pte[q][u].frame]
        <4>1. ~(q \in {p, kid[p]} /\ u = v)
          BY <2>0, <2>1, <3>2, <3>4, <3>6, <3>7, Zenon DEF Exclusive
        <4>2. pte'[q][u] = pte[q][u]
          BY <3>5, <4>1, Zenon
        <4>3. Exclusive(q, u)
          BY <2>1, <3>7, <4>2, CalmExclusive, Zenon
        <4>4. pte[q][u].frame \in Frames /\ pte[p][v].frame # pte[q][u].frame
          BY <2>3, <4>1, <4>3, SoleHolder
        <4> QED BY <1>0, <3>3, <4>2, <4>3, <4>4, Zenon
      <3> QED BY <3>7, KeepExclusive, Zenon
    <2> QED BY <2>2, <2>3, Zenon
  <1>13. CASE UndoPage(p, v)
    <2>1. kid[p] \in Procs /\ DropLeaf(kid[p], v)
      BY <1>13, KidSlot, Zenon DEF UndoPage
    <2>2. Calm
      BY <1>0, <1>13, Zenon DEF UndoPage
    <2> QED BY <2>1, <2>2, DropExclusive, Zenon
  <1>14. CASE ReapPage(p, v)
    <2>1. p \in Procs /\ DropLeaf(p, v)
      BY <1>14, KidSlot, Zenon DEF ReapPage
    <2>2. Calm
      BY <1>0, <1>14, Zenon DEF ReapPage
    <2> QED BY <2>1, <2>2, DropExclusive, Zenon
  <1>15. CASE NoSegment(p, v)
    BY <1>0, <1>15, QuietExclusive, Zenon DEF NoSegment
  <1>16. ASSUME NEW prot \in Prots, NEW x \in Values, load_segment(p, v, prot, x)
        PROVE  ExclusiveCounts'
    <2>1. PICK f \in Frames :
            /\ ref[f] = 0
            /\ ref' = [ref EXCEPT ![f] = 1]
            /\ pte' = [pte EXCEPT ![kid[p]][v] = prot_to_pte(f, prot)]
      BY <1>16, Zenon DEF load_segment, FreePage
    <2>2. prot_to_pte(f, prot) \in Leaf /\ prot_to_pte(f, prot).frame = f
      BY Zenon DEF Leaf, prot_to_pte
    <2>3. kid[p] \in Procs
      BY <1>16, KidSlot, Zenon DEF load_segment
    <2>4. Calm
      BY <1>0, <1>16, Zenon DEF load_segment
    <2> QED BY <2>1, <2>2, <2>3, <2>4, AllocExclusive, Zenon
  <1>17. ASSUME NEW prot \in Prots, NEW x \in Values, SegmentOverlap(p, v, prot, x)
        PROVE  ExclusiveCounts'
    <2>1. PICK f \in Frames :
            /\ ref[f] = 0
            /\ ref' = [ref EXCEPT ![f] = 1]
            /\ pte' = [pte EXCEPT ![kid[p]][v] = prot_to_pte(f, prot)]
      BY <1>17, Zenon DEF SegmentOverlap, FreePage
    <2>2. prot_to_pte(f, prot) \in Leaf /\ prot_to_pte(f, prot).frame = f
      BY Zenon DEF Leaf, prot_to_pte
    <2>3. kid[p] \in Procs
      BY <1>17, KidSlot, Zenon DEF SegmentOverlap
    <2>4. Calm
      BY <1>0, <1>17, Zenon DEF SegmentOverlap, ExecUndo
    <2> QED BY <2>1, <2>2, <2>3, <2>4, AllocExclusive, Zenon
  <1> QED BY <1>1, <1>2, <1>3, <1>4, <1>5, <1>6, <1>7, <1>8, <1>9, <1>10, <1>11, <1>12,
             <1>13, <1>14, <1>15, <1>16, <1>17, Zenon DEF PageStep

(* dup_pgtable_level makes both copies of a writable page read-only, so    *)
(* fork keeps writable pages private.                                      *)
LEMMA ProcExclusive ==
    ASSUME IInv, NEW p \in Procs, ProcStep(p)
    PROVE  ExclusiveCounts'
  <1>0. TypeOK /\ Slots
    BY Zenon DEF IInv
  <1> USE DEF kernel, TypeOK, Calm
  <1>1. CASE CowOom(p)
    BY <1>0, <1>1, KidSlot, QuietExclusive, Zenon DEF CowOom, do_exit
  <1>2. CASE CowPut(p)
    <2>1. Calm /\ pte' = pte /\ ref' = [ref EXCEPT ![pend[p]] = ref[pend[p]] - 1]
      BY <1>0, <1>2, Zenon DEF CowPut, put_page
    <2>2. ASSUME NEW q \in Procs, NEW u \in Pages, Exclusive(q, u)'
          PROVE  /\ Exclusive(q, u)
                 /\ pte'[q][u].frame = pte[q][u].frame
                 /\ ref'[pte[q][u].frame] = ref[pte[q][u].frame]
      <3>1. Exclusive(q, u)
        BY <2>1, <2>2, CalmExclusive, Zenon
      <3>2. pte[q][u].frame \in Frames /\ pend[p] # pte[q][u].frame
        BY <3>1, SoleHolder, Zenon
      <3> QED BY <1>0, <2>1, <3>1, <3>2, Zenon
    <2> QED BY <2>2, KeepExclusive, Zenon
  <1>3. CASE UnmapDone(p)
    BY <1>0, <1>3, KidSlot, QuietExclusive, Zenon DEF UnmapDone
  <1>4. CASE ForkDone(p)
    BY <1>0, <1>4, KidSlot, QuietExclusive, Zenon DEF ForkDone
  <1>5. CASE ForkFail(p)
    BY <1>0, <1>5, KidSlot, QuietExclusive, Zenon DEF ForkFail
  <1>6. CASE UndoDone(p)
    BY <1>0, <1>6, KidSlot, QuietExclusive, Zenon DEF UndoDone
  <1>7. CASE StackMapFail(p)
    <2>1. PICK f \in Frames : ref[f] = 0 /\ ref' = [ref EXCEPT ![f] = 1]
      BY <1>7, Zenon DEF StackMapFail, FreePage
    <2>2. Calm /\ pte' = pte
      BY <1>0, <1>7, Zenon DEF StackMapFail, ExecUndo
    <2>3. ASSUME NEW q \in Procs, NEW u \in Pages, Exclusive(q, u)'
          PROVE  /\ Exclusive(q, u)
                 /\ pte'[q][u].frame = pte[q][u].frame
                 /\ ref'[pte[q][u].frame] = ref[pte[q][u].frame]
      <3>1. Exclusive(q, u)
        BY <2>2, <2>3, CalmExclusive, Zenon
      <3>2. pte[q][u].frame \in Frames /\ f # pte[q][u].frame
        BY <2>1, <3>1, SoleHolder
      <3> QED BY <1>0, <2>1, <2>2, <3>1, <3>2, Zenon
    <2> QED BY <2>3, KeepExclusive, Zenon
  <1>8. CASE ExecFail(p)
    BY <1>0, <1>8, KidSlot, QuietExclusive, Zenon DEF ExecFail, ExecUndo
  <1>9. CASE ExecSwap(p)
    <2>1. kid[p] \in Procs /\ kid[p] # p /\ at[p] = "exec" /\ at[kid[p]] = "build"
      BY <1>9, KidSlot, Zenon DEF ExecSwap
    <2>2. Calm /\ ref' = ref
      BY <1>0, <1>9, Zenon DEF ExecSwap
    <2>3. /\ pte'[p] = pte[kid[p]] /\ pte'[kid[p]] = pte[p]
          /\ \A q \in Procs : q \notin {p, kid[p]} => pte'[q] = pte[q]
      BY <1>0, <2>1, <1>9, Zenon DEF ExecSwap
    <2>4. ~\E r \in Procs : at'[r] = "exec" /\ kid'[r] = kid[p]
      BY <1>0, <2>1, <1>9, CowAssumption DEF ExecSwap, Slots
    <2>5. at'[kid[p]] = "build" /\ kid' = kid
      BY <1>0, <2>1, <1>9, Zenon DEF ExecSwap
    <2>6. ASSUME NEW q \in Procs, NEW u \in Pages, Exclusive(q, u)'
          PROVE  ref'[pte'[q][u].frame] = 1
      <3>1. CASE q = p
        <4>1. Exclusive(kid[p], u)
          BY <2>1, <2>3, <2>6, <3>1, Zenon DEF Exclusive
        <4> QED BY <2>1, <2>2, <2>3, <3>1, <4>1, SoleHolder
      <3>2. CASE q = kid[p]
        <4>1. Exclusive(p, u)
          BY <2>3, <2>4, <2>5, <2>6, <3>2, Zenon DEF Exclusive
        <4> QED BY <2>2, <2>3, <3>2, <4>1, SoleHolder
      <3>3. CASE q \notin {p, kid[p]}
        <4>1. Exclusive(q, u)
          BY <2>2, <2>3, <2>6, <3>3, CalmExclusive, Zenon
        <4> QED BY <2>2, <2>3, <3>3, <4>1, SoleHolder
      <3> QED BY <3>1, <3>2, <3>3, Zenon
    <2> QED BY <2>6, KeepExclusive, Zenon
  <1>10. CASE ksys_exit(p)
    BY <1>0, <1>10, KidSlot, QuietExclusive, Zenon DEF ksys_exit, do_exit
  <1>11. CASE mm_put(p)
    BY <1>0, <1>11, KidSlot, QuietExclusive, Zenon DEF mm_put
  <1>12. CASE ReapDone(p)
    BY <1>0, <1>12, KidSlot, QuietExclusive, Zenon DEF ReapDone
  <1> QED BY <1>1, <1>2, <1>3, <1>4, <1>5, <1>6, <1>7, <1>8, <1>9, <1>10, <1>11, <1>12,
             Zenon DEF ProcStep

(* The system calls on a mapping keep writable pages private (mm_mprotect  *)
(* never clears the read-only bit of a shared page).                       *)
LEMMA CallExclusive ==
    ASSUME IInv, NEW p \in Procs, CallStep(p)
    PROVE  ExclusiveCounts'
  <1>0. TypeOK /\ Slots
    BY Zenon DEF IInv
  <1> USE DEF kernel, TypeOK, Calm
  <1>1. ASSUME NEW S \in Ranges, NEW prot \in Prots, do_mmap(p, S, prot)
        PROVE  ExclusiveCounts'
    BY <1>0, <1>1, QuietExclusive, Zenon DEF do_mmap
  <1>2. ASSUME NEW S \in Ranges, NEW prot \in Prots, mm_mprotect(p, S, prot)
        PROVE  ExclusiveCounts'
    <2>1. Calm /\ ref' = ref
      BY <1>0, <1>2, Zenon DEF mm_mprotect
    <2>2. ASSUME NEW q \in Procs, NEW u \in Pages, Exclusive(q, u)'
          PROVE  \/ ref'[pte'[q][u].frame] = 1
                 \/ /\ Exclusive(q, u)
                    /\ pte'[q][u].frame = pte[q][u].frame
                    /\ ref'[pte[q][u].frame] = ref[pte[q][u].frame]
      <3>1. CASE q = p /\ u \in S /\ pte[p][u] # NoPte
        <4>1. pte[p][u] \in Leaf /\ pte'[q][u] = ReprotectedLeaf(pte[p][u], prot)
          BY <1>0, <1>2, <3>1 DEF mm_mprotect
        <4>2. pte'[q][u].frame = pte[p][u].frame
          BY <4>1, LeafFrames DEF Leaf
        <4>3. PICK f \in Frames : pte[p][u].frame = f
          BY <4>1, Zenon DEF Leaf
        <4>4. ref[f] >= 1 /\ ref[f] \in Nat
          BY <1>0, <3>1, <4>3, Zenon DEF IInv, Holders
        <4>5. at'[p] # "mkwrite" /\ \A r \in Procs : ~(at'[r] = "exec" /\ kid'[r] = p)
          BY <1>0, <1>2, CowAssumption, Zenon DEF mm_mprotect, Slots
        <4>6. ~pte'[q][u].rdonly
          BY <2>2, <3>1, <4>5, Zenon DEF Exclusive
        <4>7. ~(ref[f] > 1)
          <5>1. CASE "w" \in prot
            BY <4>1, <4>3, <4>6, <5>1, Zenon DEF ReprotectedLeaf, pte_wrprotect, prot_to_pte
          <5>2. CASE "w" \notin prot
            <6>1. ReprotectedLeaf(pte[p][u], prot) = prot_to_pte(pte[p][u].frame, prot)
              BY <5>2, Zenon DEF ReprotectedLeaf
            <6>2. prot_to_pte(pte[p][u].frame, prot).rdonly
              BY <5>2, Zenon DEF prot_to_pte
            <6> QED BY <4>1, <4>6, <6>1, <6>2, Zenon
          <5> QED BY <5>1, <5>2, Zenon
        <4>8. ref[f] = 1
          BY <4>4, <4>7
        <4> QED BY <2>1, <4>2, <4>3, <4>8, Zenon
      <3>2. CASE ~(q = p /\ u \in S /\ pte[p][u] # NoPte)
        <4>1. pte'[q][u] = pte[q][u]
          BY <1>0, <1>2, <3>2, Zenon DEF mm_mprotect
        <4> QED BY <2>1, <2>2, <4>1, CalmExclusive, Zenon
      <3> QED BY <3>1, <3>2, Zenon
    <2> QED BY <2>2, KeepExclusive, Zenon
  <1>3. ASSUME NEW S \in Ranges, NEW prot \in Prots \cup {NoVma}, vma_erase_range(p, S, prot)
        PROVE  ExclusiveCounts'
    BY <1>0, <1>3, QuietExclusive, Zenon DEF vma_erase_range
  <1>4. ASSUME NEW c \in Procs, dup_mm(p, c) PROVE ExclusiveCounts'
    BY <1>0, <1>4, QuietExclusive, Zenon DEF dup_mm
  <1>5. ASSUME NEW c \in Procs, load_elf_binary(p, c) PROVE ExclusiveCounts'
    <2>1. UNCHANGED <<pte, ref>> /\ p # c
      BY <1>5, Zenon DEF load_elf_binary
    <2>2. \A q \in Procs : /\ at'[q] = IF q = p THEN "exec" ELSE IF q = c THEN "build" ELSE at[q]
                           /\ kid'[q] = IF q = p THEN c ELSE kid[q]
                           /\ q # p => todo'[q] = todo[q]
      BY <1>0, <2>1, <1>5, Zenon DEF load_elf_binary
    <2>3. \A u \in Pages : pte[c][u] = NoPte
      BY <1>5, Zenon DEF load_elf_binary, IInv, Path, BuiltLeaf
    <2>4. ASSUME NEW q \in Procs, NEW u \in Pages, Exclusive(q, u)' PROVE Exclusive(q, u)
      BY <2>1, <2>2, <2>3, <2>4 DEF Exclusive
    <2> QED BY <2>1, <2>4, KeepExclusive, Zenon
  <1> QED BY <1>1, <1>2, <1>3, <1>4, <1>5, Zenon DEF CallStep

(* Every step keeps a writable page private to its holder.                 *)
LEMMA StepExclusive == IInv /\ [Next]_vars => ExclusiveCounts'
  <1> SUFFICES ASSUME IInv, [Next]_vars PROVE ExclusiveCounts'
    BY Zenon
  <1>1. CASE mm_install
    BY <1>1, QuietExclusive, Zenon DEF mm_install, kernel, Calm
  <1>2. CASE UNCHANGED vars
    BY <1>2, QuietExclusive, Zenon DEF vars, Calm
  <1> QED BY <1>1, <1>2, PageExclusive, ProcExclusive, CallExclusive, Zenon DEF Next

=============================================================================
