-------------------------------- MODULE Vma --------------------------------
(***************************************************************************)
(* The areas of one address space: the list of vm_area_structs, the break  *)
(* and the leaves of the page table as brk, mmap, munmap, mprotect and     *)
(* demand faults of mm/mmap.c change them together.  Addresses are bytes;  *)
(* PAGE_SIZE is small so that lengths and breaks inside a page matter, and *)
(* sums are taken modulo Word, the 2^64 of an unsigned long.               *)
(* What sharing does to a leaf is the subject of Cow.  The calls of one    *)
(* address space do not overlap: each process has its own and one thread.  *)
(***************************************************************************)
EXTENDS Integers, Sequences, FiniteSets, SequencesExt

CONSTANTS
    PAGE_SIZE,
    NPages,             \* the pages a page table can map (2^27 in the code)
    Word,               \* the number of values of an unsigned long
    ImageEnd,           \* the image is one segment, from page 1 to here
    USER_MMAP_BASE, USER_STACK_TOP, USER_STACK_SIZE,
    Prots,              \* the protections programs ask for
    Addrs, Lens, Breaks,    \* addresses, lengths and breaks programs ask for, in bytes
    Unmapped

Pages == 0 .. NPages - 1
Addresses == 0 .. Word - 1
Plus(a, b) == (a + b) % Word
PageDown(a) == (a \div PAGE_SIZE) * PAGE_SIZE
PageUp(a) == PageDown(Plus(a, PAGE_SIZE - 1))

ASSUME VmaAssumption ==
    /\ PAGE_SIZE \in Nat \ {0} /\ NPages \in Nat
    /\ Word \in {PAGE_SIZE * NPages * n : n \in 1 .. Word}
    /\ {PAGE_SIZE, ImageEnd, USER_MMAP_BASE, USER_STACK_TOP, USER_STACK_SIZE}
         \subseteq {PAGE_SIZE * n : n \in 1 .. NPages}
    /\ PAGE_SIZE < ImageEnd /\ ImageEnd <= USER_MMAP_BASE
    /\ USER_MMAP_BASE <= USER_STACK_TOP - USER_STACK_SIZE
    /\ \A prot \in Prots : prot \subseteq {"r", "w", "x"}
    /\ Addrs \cup Lens \cup Breaks \subseteq Addresses

VARIABLES
    vmas,       \* mm->mmap, a sorted list
    brk,        \* mm->brk
    mmap_base,  \* mm->mmap_base
    leaf,       \* leaf[n]: Unmapped, or the protection of the present leaf
    nobj,       \* objects of vma_cache in use by this address space
    asked,      \* specification variable: the last call and its arguments
    bent        \* specification variable: since execve, a call was one of Bends

mmVars == <<vmas, brk, mmap_base, leaf, nobj>>
vars == <<mmVars, asked, bent>>

Vm(s, e, flags) == [vm_start |-> s, vm_end |-> e, vm_flags |-> flags]
Covers(v, n) == v.vm_start <= n * PAGE_SIZE /\ n * PAGE_SIZE < v.vm_end    \* page n is in v
Prot(v) == v.vm_flags \ {"stack"}
stack_limit == USER_STACK_TOP - USER_STACK_SIZE
Call(name, addr, len, prot) == [name |-> name, addr |-> addr, len |-> len, prot |-> prot]

-----------------------------------------------------------------------------
(* The list.  An index stands for a pointer into it, 0 for NULL.           *)

(* The first area that ends above addr.                                    *)
find_vma(q, addr) == SelectInSeq(q, LAMBDA v : v.vm_end > addr)

(* Where insert_vma links a new area, and whether it accepts it.           *)
InsertPos(q, new) ==
    LET i == SelectInSeq(q, LAMBDA v : v.vm_start >= new.vm_start)
    IN  IF i = 0 THEN Len(q) + 1 ELSE i

Insertable(q, new) ==
    LET i == InsertPos(q, new)
    IN  /\ new.vm_start < new.vm_end
        /\ i <= Len(q) => new.vm_end <= q[i].vm_start
        /\ i > 1 => q[i - 1].vm_end <= new.vm_start

insert_vma(q, new) == InsertAt(q, InsertPos(q, new), new)

(* What is left of area v when start .. end is cut out of it.  An end that *)
(* wrapped below start makes two pieces that overlap.                      *)
Outside(v, start, end) == v.vm_end <= start \/ v.vm_start >= end
Pieces(v, start, end) ==
    IF Outside(v, start, end) THEN <<v>>
    ELSE (IF v.vm_start < start THEN <<[v EXCEPT !.vm_end = start]>> ELSE <<>>)
         \o (IF end < v.vm_end THEN <<[v EXCEPT !.vm_start = end]>> ELSE <<>>)

vma_erase_range(q, start, end) ==
    FlattenSeq([i \in DOMAIN q |-> Pieces(q[i], start, end)])

(* The area that loses its middle and needs a second object for its tail.  *)
Tails(q, start, end) ==
    {i \in DOMAIN q : /\ ~Outside(q[i], start, end)
                      /\ q[i].vm_start < start /\ end < q[i].vm_end}
Removed(q, start, end) == {i \in DOMAIN q : start <= q[i].vm_start /\ q[i].vm_end <= end}

(* vma_erase_range when that object cannot be had: it stops there.         *)
EraseFailed(q, start, end) ==
    LET i == CHOOSE i \in Tails(q, start, end) : \A j \in Tails(q, start, end) : i <= j
    IN  vma_erase_range(SubSeq(q, 1, i - 1), start, end) \o SubSeq(q, i, Len(q))

-----------------------------------------------------------------------------
(* Mutant: areas below mmap_base do not count, and neither do the others.  *)
find_unmapped_area_first(q, base, len) ==
    LET last == PageUp(base)
    IN  IF Plus(last, len) <= stack_limit THEN last ELSE 0

(* First fit at or above mmap_base, below the stack; 0 if there is none.   *)
find_unmapped_area(q, base, len) ==
    LET Fits(last, v) == Plus(last, len) <= v.vm_start /\ Plus(last, len) <= stack_limit
        Step(s, v) == IF s.found \/ Fits(s.last, v) THEN [s EXCEPT !.found = TRUE]
                      ELSE IF v.vm_end > s.last THEN [s EXCEPT !.last = PageUp(v.vm_end)]
                      ELSE s
        end == FoldLeft(Step, [found |-> FALSE, last |-> PageUp(base)], q)
    IN  IF end.found \/ Plus(end.last, len) <= stack_limit THEN end.last ELSE 0

(* execve: the segment and the stack, both with their pages present.       *)
start_brk == PageUp(ImageEnd)
ImageVmas == << Vm(PAGE_SIZE, ImageEnd, {"r", "x"}),
                Vm(stack_limit, USER_STACK_TOP, {"r", "w", "stack"}) >>
LeafOf(q) == [n \in Pages |->
                LET S == {i \in DOMAIN q : Covers(q[i], n)}
                IN  IF S = {} THEN Unmapped ELSE Prot(q[CHOOSE i \in S : TRUE])]

Init ==
    /\ vmas = ImageVmas
    /\ brk = start_brk
    /\ mmap_base = USER_MMAP_BASE
    /\ leaf = LeafOf(ImageVmas)
    /\ nobj = Len(ImageVmas)
    /\ asked = Call("execve", 0, 0, {})
    /\ bent = FALSE

(* load_elf_binary builds the new address space and frees the old one.     *)
load_elf_binary ==
    /\ vmas' = ImageVmas
    /\ brk' = start_brk
    /\ mmap_base' = USER_MMAP_BASE
    /\ leaf' = LeafOf(ImageVmas)
    /\ nobj' = nobj - Len(vmas) + Len(ImageVmas)

-----------------------------------------------------------------------------
(* munmap and mmap.                                                        *)

(* The entries of the page table that pages start to end are looked up in: *)
(* the bits of an address above the table's reach are dropped.             *)
Slot(va) == (va \div PAGE_SIZE) % NPages
Slots(start, end) == {Slot(PAGE_SIZE * n) : n \in start \div PAGE_SIZE .. end \div PAGE_SIZE - 1}

(* Mutant: the leaf of the last page stays.                                *)
unmap_pages_short(start, end) ==
    [n \in Pages |-> IF n \in Slots(start, end - PAGE_SIZE) THEN Unmapped ELSE leaf[n]]

(* unmap_page of every page from start to end.                             *)
unmap_pages(start, end) ==
    [n \in Pages |-> IF n \in Slots(start, end) THEN Unmapped ELSE leaf[n]]

(* vma_alloc fails in vma_erase_range: the caller returns -ENOMEM.         *)
EraseEnomem(start, end) ==
    LET cut == Tails(vmas, start, end)
    IN  /\ cut # {}
        /\ vmas' = EraseFailed(vmas, start, end)
        /\ nobj' = nobj - Cardinality({i \in Removed(vmas, start, end) : \A j \in cut : i < j})
        /\ UNCHANGED <<brk, mmap_base, leaf>>

(* The areas and the objects left after vma_erase_range.                   *)
Erased(start, end) == vma_erase_range(vmas, start, end)
ErasedObjects(start, end) ==
    nobj + Cardinality(Tails(vmas, start, end)) - Cardinality(Removed(vmas, start, end))

do_munmap(addr, len) ==
    LET end == PageUp(Plus(addr, len))
    IN  /\ len # 0 /\ addr % PAGE_SIZE = 0
        /\ \/ EraseEnomem(addr, end)
           \/ /\ vmas' = Erased(addr, end)
              /\ nobj' = ErasedObjects(addr, end)
              /\ leaf' = unmap_pages(addr, end)
              /\ UNCHANGED <<brk, mmap_base>>

(* The end of do_mmap: an area of len bytes at va joins list q, of which   *)
(* objs objects are in use; one that does not fit is freed again.          *)
MmapInsert(q, objs, va, len, prot) ==
    LET end == Plus(va, len)
        new == Vm(va, end, prot)
    IN  IF Insertable(q, new)
        THEN /\ vmas' = insert_vma(q, new)
             /\ nobj' = objs + 1
             /\ mmap_base' = IF end > mmap_base THEN end ELSE mmap_base
        ELSE vmas' = q /\ nobj' = objs /\ UNCHANGED mmap_base

MmapAnywhere(len, prot) ==
    LET va == find_unmapped_area(vmas, mmap_base, len)
    IN  /\ va # 0
        /\ MmapInsert(vmas, nobj, va, len, prot)
        /\ UNCHANGED <<brk, leaf>>

(* What was mapped at va is gone before the new area is allocated.         *)
MmapFixed(va, len, prot) ==
    LET end == Plus(va, len)
    IN  /\ va # 0 /\ end <= stack_limit
        /\ \/ EraseEnomem(va, end)
           \/ /\ \/ MmapInsert(Erased(va, end), ErasedObjects(va, end), va, len, prot)
                 \/ /\ vmas' = Erased(va, end)      \* vma_alloc returned NULL
                    /\ nobj' = ErasedObjects(va, end)
                    /\ UNCHANGED mmap_base
              /\ leaf' = unmap_pages(va, end)
              /\ UNCHANGED brk

do_mmap(addr, len, prot, fixed) ==
    /\ len # 0
    /\ IF addr = 0 \/ ~fixed THEN MmapAnywhere(PageUp(len), prot)
       ELSE MmapFixed(PageDown(addr), PageUp(len), prot)

-----------------------------------------------------------------------------
(* mprotect.                                                               *)

(* Every address of the range is in the area find_vma gives for it.        *)
mprotect_covered(q, start, end) ==
    \A va \in start .. end - 1 :
        find_vma(q, va) # 0 /\ q[find_vma(q, va)].vm_start <= va

(* vma_split of area i, and the objects it takes.                          *)
SplitObjects(q, i, addr) ==
    IF i # 0 /\ q[i].vm_start < addr /\ addr < q[i].vm_end THEN 1 ELSE 0
vma_split(q, i, addr) ==
    IF SplitObjects(q, i, addr) = 0 THEN q
    ELSE InsertAt([q EXCEPT ![i].vm_end = addr], i + 1, [q[i] EXCEPT !.vm_start = addr])

StartVma(q, start) == find_vma(q, start)

(* Mutant: the area that reaches beyond the range is not found.            *)
EndVma_inside(q, end) == SelectInSeq(q, LAMBDA v : v.vm_end = end)

EndVma(q, end) == find_vma(q, end - 1)

(* The areas the loop of mm_mprotect visits.                               *)
Visited(q, start, end) ==
    {i \in DOMAIN q : /\ i >= find_vma(q, start)
                      /\ \A j \in find_vma(q, start) .. i : q[j].vm_start < end}

mm_mprotect(start, end, prot) ==
    LET q1 == vma_split(vmas, StartVma(vmas, start), start)
        n1 == SplitObjects(vmas, StartVma(vmas, start), start)
        q2 == vma_split(q1, EndVma(q1, end), end)
        n2 == SplitObjects(q1, EndVma(q1, end), end)
        new == {q2[i] : i \in Visited(q2, start, end)}
    IN  /\ start < end
        /\ mprotect_covered(vmas, start, end)
        /\ \/ /\ vmas' = [i \in DOMAIN q2 |->
                            IF i \in Visited(q2, start, end)
                            THEN [q2[i] EXCEPT !.vm_flags = (@ \ {"r", "w", "x"}) \cup prot]
                            ELSE q2[i]]
              /\ nobj' = nobj + n1 + n2
              /\ leaf' = [n \in Pages |->
                            IF leaf[n] # Unmapped
                               /\ \E v \in new : Covers(v, n)
                            THEN prot ELSE leaf[n]]
           \/ /\ n1 = 1 /\ n2 = 1           \* the second vma_alloc returned NULL
              /\ vmas' = q1
              /\ nobj' = nobj + 1
              /\ UNCHANGED leaf
        /\ UNCHANGED <<brk, mmap_base>>

ksys_mprotect(addr, len, prot) ==
    /\ addr % PAGE_SIZE = 0 /\ len # 0
    /\ len <= Word - PAGE_SIZE /\ addr < Word - PageUp(len)
    /\ mm_mprotect(addr, Plus(addr, PageUp(len)), prot)

-----------------------------------------------------------------------------
(* brk.                                                                    *)

find_heap_vma(q) == SelectInSeq(q, LAMBDA v : v.vm_start = start_brk)

(* The heap area is extended, up to the next area, or recorded.            *)
BrkGrow(newbrk) ==
    LET h == find_heap_vma(vmas)
        new_end == PageUp(newbrk)
        new == Vm(start_brk, new_end, {"r", "w"})
    IN  /\ newbrk > brk
        /\ \/ /\ h # 0
              /\ h < Len(vmas) => new_end <= vmas[h + 1].vm_start
              /\ vmas' = IF new_end > vmas[h].vm_end THEN [vmas EXCEPT ![h].vm_end = new_end]
                         ELSE vmas
              /\ UNCHANGED nobj
           \/ /\ h = 0
              /\ Insertable(vmas, new)
              /\ vmas' = insert_vma(vmas, new)
              /\ nobj' = nobj + 1
        /\ UNCHANGED leaf

BrkShrink(newbrk) ==
    LET h == find_heap_vma(vmas)
        new_end == PageUp(newbrk)
    IN  /\ newbrk < brk
        /\ leaf' = unmap_pages(new_end, PageUp(brk))
        /\ IF h = 0 THEN UNCHANGED <<vmas, nobj>>
           ELSE IF new_end <= vmas[h].vm_start
           THEN vmas' = RemoveAt(vmas, h) /\ nobj' = nobj - 1
           ELSE vmas' = [vmas EXCEPT ![h].vm_end = new_end] /\ UNCHANGED nobj

do_brk(newbrk) ==
    /\ start_brk <= newbrk /\ newbrk < stack_limit
    /\ BrkGrow(newbrk) \/ BrkShrink(newbrk)
    /\ brk' = newbrk
    /\ UNCHANGED mmap_base

-----------------------------------------------------------------------------
(* The first access to a page, of the kind access; it may fail for lack of *)
(* memory.  A present leaf is left to the hardware and to Cow.             *)
do_page_fault(addr, access) ==
    LET i == find_vma(vmas, addr)
        n == Slot(addr)
    IN  /\ i # 0 /\ vmas[i].vm_start <= addr
        /\ IF access = "r" THEN vmas[i].vm_flags \cap {"r", "w", "x"} # {}
           ELSE access \in vmas[i].vm_flags
        /\ leaf[n] = Unmapped
        /\ leaf' = [leaf EXCEPT ![n] = Prot(vmas[i])]
        /\ UNCHANGED <<vmas, brk, mmap_base, nobj>>

-----------------------------------------------------------------------------
(* The calls that the code does not carry out as asked, in the state they  *)
(* are made in: a range whose end wraps below its start and lies with it   *)
(* in one area; a munmap that runs past the page table, whose lookup then  *)
(* finds other pages; and a lower break while the heap is not one area up  *)
(* to the break, because a part of it was unmapped, reprotected or mapped  *)
(* over.  What they do is in the actions above; nothing checks for them.   *)
Free(s, e) == \A v \in ToSet(vmas) : v.vm_end <= s \/ e <= v.vm_start
HeapWhole ==
    LET h == find_heap_vma(vmas)
    IN  IF h = 0 THEN Free(start_brk, PageUp(brk)) ELSE vmas[h].vm_end = PageUp(brk)
Crosses(start, end) == end < start /\ Tails(vmas, start, end) # {}
PastTable(start, end) == start < end /\ end > PAGE_SIZE * NPages

Bends(c) ==
    \/ /\ c.name = "munmap"
       /\ LET end == PageUp(Plus(c.addr, c.len))
          IN  Crosses(c.addr, end) \/ PastTable(c.addr, end)
    \/ c.name = "mmap" /\ Crosses(PageDown(c.addr), Plus(PageDown(c.addr), PageUp(c.len)))
    \/ c.name = "brk" /\ c.addr < brk /\ ~HeapWhole

Asks(c) ==
    /\ asked' = c
    /\ bent' = (c.name # "execve" /\ (bent \/ Bends(c)))

Next ==
    \/ load_elf_binary /\ Asks(Call("execve", 0, 0, {}))
    \/ \E addr \in Addrs, len \in Lens :
         \/ do_munmap(addr, len) /\ Asks(Call("munmap", addr, len, {}))
         \/ \E prot \in Prots :
              \/ ksys_mprotect(addr, len, prot) /\ Asks(Call("mprotect", addr, len, prot))
              \/ do_mmap(addr, len, prot, TRUE) /\ Asks(Call("mmap", addr, len, prot))
    \/ \E len \in Lens, prot \in Prots :     \* a hint without MAP_FIXED has no effect
         do_mmap(USER_MMAP_BASE, len, prot, FALSE) /\ Asks(Call("mmap", 0, len, prot))
    \/ \E newbrk \in Breaks : do_brk(newbrk) /\ Asks(Call("brk", newbrk, 0, {}))
    \/ \E addr \in Addrs, access \in {"r", "w", "x"} :
         do_page_fault(addr, access) /\ Asks(Call("access", addr, 1, {}))

Spec == Init /\ [][Next]_vars

-----------------------------------------------------------------------------
(* Properties.                                                             *)

(* Until a call is one of Bends, whatever else was asked, wrapping lengths *)
(* included: the list is sorted and its areas are disjoint, whole pages    *)
(* and not empty; every object taken from vma_cache is linked and every    *)
(* object unlinked was freed, also when an allocation fails between two    *)
(* splits; and every present leaf lies in an area and has its protection,  *)
(* so that munmap, brk and mprotect change list and page table alike.      *)
ListSound ==
    ~bent =>
    /\ \A i \in DOMAIN vmas :
         /\ vmas[i].vm_start < vmas[i].vm_end
         /\ {vmas[i].vm_start, vmas[i].vm_end} \subseteq {PAGE_SIZE * n : n \in 1 .. NPages}
         /\ i > 1 => vmas[i - 1].vm_end <= vmas[i].vm_start
    /\ nobj = Len(vmas)
    /\ \A n \in Pages : leaf[n] # Unmapped =>
         \E v \in ToSet(vmas) : Covers(v, n) /\ leaf[n] = Prot(v)

(* find_unmapped_area is first fit: its answer is the lowest page at or    *)
(* above mmap_base with len free bytes below the stack.  Without room it   *)
(* answers "none", whatever holes munmap left in the list, or, for a       *)
(* length that wraps or was rounded to 0, a page at which the new area     *)
(* would be empty, so that insert_vma refuses it.                          *)
AreaFree ==
    ~bent =>
    \A len \in {PageUp(l) : l \in Lens} :
        LET Room == {a \in Addresses : /\ a % PAGE_SIZE = 0 /\ mmap_base <= a /\ len > 0
                                       /\ a + len <= stack_limit /\ Free(a, a + len)}
            va == find_unmapped_area(vmas, mmap_base, len)
        IN  IF Room = {} THEN va = 0 \/ Plus(va, len) <= va
            ELSE va \in Room /\ \A a \in Room : va <= a

(* The address space as a program sees it: what AddressSpace is about.     *)
PageView(q, g) ==
    [n \in Pages |-> LET S == {i \in DOMAIN q : Covers(q[i], n)}
                     IN  IF S = {} THEN Unmapped
                         ELSE [prot |-> Prot(q[CHOOSE i \in S : TRUE]),
                               touched |-> g[n] # Unmapped]]
=============================================================================
