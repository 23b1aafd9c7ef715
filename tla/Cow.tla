------------------------------- MODULE Cow -------------------------------
(***************************************************************************)
(* Copy-on-write address spaces: mm/mmap.c, mm/fault.c, the reference      *)
(* counts of mm/page_alloc.c, dup_mm of kernel/fork.c and the mm swap of   *)
(* fs/binfmt.c.                                                            *)
(*                                                                         *)
(* A process slot owns at most one mm.  The three-level page table is the  *)
(* function pte[p] from virtual pages to leaves, the VMA list is the       *)
(* protection vma[p] of each page, NoVma in a hole.  A process is single   *)
(* threaded and the kernel is not preempted, but processes run on several  *)
(* CPUs, so a handler is split wherever it reads or drops a reference      *)
(* count other processes share.                                            *)
(***************************************************************************)
EXTENDS Naturals, FiniteSets

CONSTANTS
    Procs,      \* process slots
    Pages,      \* virtual page numbers
    Frames,     \* physical pages of the buddy pool that back user memory
    Values,     \* contents of a page
    Zero,       \* the contents page_zero leaves
    Junk,       \* the contents of a free page: the free list links through it
    Prots,      \* protections in use: sets of "r", "w", "x"
    NoVma, NoPte, NoFrame, NoProc

Access == {"read", "write", "exec"}

(* A leaf: PTE_USER, PTE_RDONLY and PTE_UXN beside the page address.       *)
Leaf == [frame : Frames, user : BOOLEAN, rdonly : BOOLEAN, uxn : BOOLEAN]

ASSUME CowAssumption ==
    /\ IsFiniteSet(Procs) /\ IsFiniteSet(Pages)
    /\ Pages \subseteq Nat
    /\ Zero \in Values /\ Junk \notin Values
    /\ Prots \subseteq SUBSET {"r", "w", "x"}
    /\ NoVma \notin Prots /\ NoVma \notin Values
    /\ NoPte \notin Leaf
    /\ NoFrame \notin Frames
    /\ NoProc \notin Procs

VARIABLES
    at,     \* at[p]: where p, or the kernel on its behalf, is
    todo,   \* todo[p]: pages the kernel path of p has still to visit
    kid,    \* kid[p]: the slot whose mm p is building or tearing down
    pend,   \* pend[p]: shared page replaced by do_cow_fault, not yet put
    req,    \* req[p]: the arguments of the mmap(MAP_FIXED) or munmap running
    vma,    \* vma[p][v]: flags of the VMA that covers v, or NoVma
    pte,    \* pte[p][v]: the leaf of v, or NoPte
    tlb,    \* tlb[p][v]: the translation the CPU running p has cached
    ref,    \* ref[f]: _refcount of the page
    data,   \* data[f]: contents of the page
    lost    \* pages whose only pointer execve dropped without freeing them

vars == <<at, todo, kid, pend, req, vma, pte, tlb, ref, data, lost>>
kernel == <<kid, pend, req>>

At == {"none", "build", "user", "mkwrite", "copy", "put", "unmap",
       "fork", "exec", "undo", "drop", "hang", "zombie", "reap"}

(* The address space belongs to a process that still runs.                 *)
Running == {"user", "mkwrite", "copy", "put", "unmap",
            "fork", "exec", "undo", "drop", "hang"}

Ranges ==
    {S \in {{v \in Pages : a <= v /\ v <= b} : a, b \in Pages} : S # {}}

NoReq == [range |-> {}, prot |-> NoVma]
NoPtes == [v \in Pages |-> NoPte]
NoVmas == [v \in Pages |-> NoVma]

-----------------------------------------------------------------------------
(* Page-table entries.                                                     *)

prot_to_pte(f, prot) ==
    [frame  |-> f,
     user   |-> prot # {},
     rdonly |-> "w" \notin prot,
     uxn    |-> "x" \notin prot]

pte_wrprotect(e) == [e EXCEPT !.rdonly = TRUE]
pte_mkwrite(e) == [e EXCEPT !.rdonly = FALSE]
pte_cow_candidate(e, prot) == e # NoPte /\ e.rdonly /\ "w" \in prot

(* dup_pgtable_level: a writable leaf becomes read-only on both sides.     *)
SharedLeaf(e) == IF ~e.rdonly THEN pte_wrprotect(e) ELSE e

(* Mutant: change_pte_prot without the page_count test.                    *)
ReprotectedLeafUnchecked(e, prot) == prot_to_pte(e.frame, prot)

(* Mutant: a leaf EL0 could use stays so.                                  *)
ReprotectedLeafUser(e, prot) ==
    [prot_to_pte(e.frame, prot) EXCEPT !.user = @ \/ e.user,
                                       !.rdonly = @ \/ ref[e.frame] > 1]

(* change_pte_prot: a page somebody else also maps stays read-only.        *)
ReprotectedLeaf(e, prot) ==
    LET new == prot_to_pte(e.frame, prot)
    IN  IF "w" \in prot /\ ref[e.frame] > 1 THEN pte_wrprotect(new) ELSE new

(* What the MMU checks at EL0.                                             *)
HwAllows(e, acc) ==
    /\ e # NoPte
    /\ e.user
    /\ acc = "write" => ~e.rdonly
    /\ acc = "exec" => ~e.uxn

(* ... and at EL1, where AP[2] still forbids stores.                       *)
HwAllowsKernel(e, acc) == e # NoPte /\ (acc = "write" => ~e.rdonly)

Translation(p, v) == IF tlb[p][v] # NoPte THEN tlb[p][v] ELSE pte[p][v]

(* The permission test of do_page_fault on vm_flags.                       *)
VmaAllows(prot, acc) ==
    CASE acc = "exec"  -> "x" \in prot
      [] acc = "write" -> "w" \in prot
      [] OTHER         -> prot # {}

(* The branch do_page_fault takes.                                         *)
do_page_fault(p, v, acc) ==
    IF vma[p][v] = NoVma THEN "efault"
    ELSE IF ~VmaAllows(vma[p][v], acc) THEN "efault"
    ELSE IF pte[p][v] = NoPte THEN "demand"
    ELSE IF acc = "write" /\ pte_cow_candidate(pte[p][v], vma[p][v])
         THEN "cow"
    ELSE "efault"

TlbFlushPage(p, v) == tlb' = [tlb EXCEPT ![p][v] = NoPte]
TlbFlushAll == tlb' = [p \in Procs |-> NoPtes]

(* alloc_pages(0): any page nobody holds.                                  *)
FreePage(f) == ref[f] = 0
(* The last put_page frees the page, and free_list_add writes into it.     *)
put_page(f) ==
    /\ ref' = [ref EXCEPT ![f] = @ - 1]
    /\ data' = [data EXCEPT ![f] = IF ref[f] = 1 THEN Junk ELSE @]

(* The page loops walk their range upwards.                                *)
NextPage(p, v) == v \in todo[p] /\ \A u \in todo[p] : v <= u

-----------------------------------------------------------------------------
(* PID 1 is a kernel thread without an mm, inside its first execve.        *)
Init ==
    \E p \in Procs, c \in Procs :
        /\ p # c
        /\ at = [q \in Procs |-> CASE q = p -> "exec" [] q = c -> "build"
                                   [] OTHER -> "none"]
        /\ todo = [q \in Procs |-> IF q = p THEN Pages ELSE {}]
        /\ kid = [q \in Procs |-> IF q = p THEN c ELSE NoProc]
        /\ pend = [q \in Procs |-> NoFrame]
        /\ req = [q \in Procs |-> NoReq]
        /\ vma = [q \in Procs |-> NoVmas]
        /\ pte = [q \in Procs |-> NoPtes]
        /\ tlb = [q \in Procs |-> NoPtes]
        /\ ref = [f \in Frames |-> 0]
        /\ data = [f \in Frames |-> Junk]
        /\ lost = {}

-----------------------------------------------------------------------------
(* The processor: user-mode accesses and address-space switches.           *)

(* A table walk caches the leaf it finds.                                  *)
TlbFill(p, v) ==
    /\ at[p] = "user"
    /\ pte[p][v] # NoPte
    /\ tlb' = [tlb EXCEPT ![p][v] = pte[p][v]]
    /\ UNCHANGED <<at, todo, kernel, vma, pte, ref, data, lost>>

UserStore(p, v, x) ==
    /\ at[p] = "user"
    /\ HwAllows(tlb[p][v], "write")
    /\ data' = [data EXCEPT ![tlb[p][v].frame] = x]
    /\ UNCHANGED <<at, todo, kernel, vma, pte, tlb, ref, lost>>

(* A system call stores into its caller's buffer.                          *)
copy_to_user(p, v, x) ==
    /\ at[p] = "user"
    /\ HwAllowsKernel(Translation(p, v), "write")
    /\ data' = [data EXCEPT ![Translation(p, v).frame] = x]
    /\ UNCHANGED <<at, todo, kernel, vma, pte, tlb, ref, lost>>

(* An abort taken from EL1 goes to exc_hang: nothing pages the buffer in   *)
(* or breaks its COW, and the copy never returns.                          *)
UaccessAbort(p, v, acc) ==
    /\ at[p] = "user"
    /\ ~HwAllowsKernel(Translation(p, v), acc)
    /\ at' = [at EXCEPT ![p] = "hang"]
    /\ todo' = [todo EXCEPT ![p] = {v}]
    /\ UNCHANGED <<kernel, vma, pte, tlb, ref, data, lost>>

(* context_switch installs the next mm and invalidates every TLB.          *)
mm_install ==
    /\ TlbFlushAll
    /\ UNCHANGED <<at, todo, kernel, vma, pte, ref, data, lost>>

(* do_exit leaves the mm to the reaper; its final schedule() switches      *)
(* away, which drops what the CPU has cached.                              *)
do_exit(p) ==
    /\ at' = [at EXCEPT ![p] = "zombie"]
    /\ tlb' = [tlb EXCEPT ![p] = NoPtes]

-----------------------------------------------------------------------------
(* EL0 aborts: do_data_abort, do_page_fault, do_cow_fault.                 *)

Faults(p, v, acc) == at[p] = "user" /\ ~HwAllows(Translation(p, v), acc)

(* Any error of do_page_fault ends in do_exit(SIGSEGV).                    *)
FaultSegv(p, v, acc) ==
    /\ Faults(p, v, acc)
    /\ do_page_fault(p, v, acc) = "efault"
    /\ do_exit(p)
    /\ UNCHANGED <<todo, kernel, vma, pte, ref, data, lost>>

(* First touch: a zeroed page with the protection of its VMA.              *)
FaultDemand(p, v, acc) ==
    /\ Faults(p, v, acc)
    /\ do_page_fault(p, v, acc) = "demand"
    /\ \E f \in Frames :
         /\ FreePage(f)
         /\ ref' = [ref EXCEPT ![f] = 1]
         /\ data' = [data EXCEPT ![f] = Zero]
         /\ pte' = [pte EXCEPT ![p][v] = prot_to_pte(f, vma[p][v])]
    /\ TlbFlushPage(p, v)
    /\ UNCHANGED <<at, todo, kernel, vma, lost>>

(* No page for the data or for a table: -ENOMEM, and the page is freed.    *)
FaultOom(p, v, acc) ==
    /\ Faults(p, v, acc)
    /\ do_page_fault(p, v, acc) = "demand"
    /\ do_exit(p)
    /\ UNCHANGED <<todo, kernel, vma, pte, ref, data, lost>>

(* Mutant: one other mapper is overlooked.                                 *)
FaultCowOffByOne(p, v, acc) ==
    /\ Faults(p, v, acc)
    /\ do_page_fault(p, v, acc) = "cow"
    /\ at' = [at EXCEPT ![p] = IF ref[pte[p][v].frame] <= 2 THEN "mkwrite"
                                                            ELSE "copy"]
    /\ todo' = [todo EXCEPT ![p] = {v}]
    /\ UNCHANGED <<kernel, vma, pte, tlb, ref, data, lost>>

(* do_cow_fault up to the test of page_count.                              *)
FaultCow(p, v, acc) ==
    /\ Faults(p, v, acc)
    /\ do_page_fault(p, v, acc) = "cow"
    /\ at' = [at EXCEPT ![p] = IF ref[pte[p][v].frame] = 1 THEN "mkwrite"
                                                           ELSE "copy"]
    /\ todo' = [todo EXCEPT ![p] = {v}]
    /\ UNCHANGED <<kernel, vma, pte, tlb, ref, data, lost>>

(* Sole owner: write permission is restored in place.                      *)
CowMkwrite(p, v) ==
    /\ at[p] = "mkwrite"
    /\ todo[p] = {v}
    /\ pte' = [pte EXCEPT ![p][v] = pte_mkwrite(@)]
    /\ TlbFlushPage(p, v)
    /\ at' = [at EXCEPT ![p] = "user"]
    /\ todo' = [todo EXCEPT ![p] = {}]
    /\ UNCHANGED <<kernel, vma, ref, data, lost>>

(* Mutant: memcpy is forgotten after alloc_pages.                          *)
CowCopyBlank(p, v) ==
    /\ at[p] = "copy"
    /\ todo[p] = {v}
    /\ \E f \in Frames :
         /\ FreePage(f)
         /\ ref' = [ref EXCEPT ![f] = 1]
         /\ data' = [data EXCEPT ![f] = Zero]
         /\ pte' = [pte EXCEPT ![p][v] = pte_mkwrite([@ EXCEPT !.frame = f])]
    /\ TlbFlushPage(p, v)
    /\ pend' = [pend EXCEPT ![p] = pte[p][v].frame]
    /\ at' = [at EXCEPT ![p] = "put"]
    /\ todo' = [todo EXCEPT ![p] = {}]
    /\ UNCHANGED <<kid, req, vma, lost>>

(* Shared: a private copy is installed before the old page is put.         *)
CowCopy(p, v) ==
    /\ at[p] = "copy"
    /\ todo[p] = {v}
    /\ \E f \in Frames :
         /\ FreePage(f)
         /\ ref' = [ref EXCEPT ![f] = 1]
         /\ data' = [data EXCEPT ![f] = data[pte[p][v].frame]]
         /\ pte' = [pte EXCEPT ![p][v] = pte_mkwrite([@ EXCEPT !.frame = f])]
    /\ TlbFlushPage(p, v)
    /\ pend' = [pend EXCEPT ![p] = pte[p][v].frame]
    /\ at' = [at EXCEPT ![p] = "put"]
    /\ todo' = [todo EXCEPT ![p] = {}]
    /\ UNCHANGED <<kid, req, vma, lost>>

CowOom(p) ==
    /\ at[p] = "copy"
    /\ do_exit(p)
    /\ todo' = [todo EXCEPT ![p] = {}]
    /\ UNCHANGED <<kernel, vma, pte, ref, data, lost>>

CowPut(p) ==
    /\ at[p] = "put"
    /\ put_page(pend[p])
    /\ pend' = [pend EXCEPT ![p] = NoFrame]
    /\ at' = [at EXCEPT ![p] = "user"]
    /\ UNCHANGED <<todo, kid, req, vma, pte, tlb, lost>>

-----------------------------------------------------------------------------
(* System calls on the caller's own mm.                                    *)

(* mmap without MAP_FIXED records a VMA over a hole; pages come later.     *)
do_mmap(p, S, prot) ==
    /\ at[p] = "user"
    /\ \A v \in S : vma[p][v] = NoVma
    /\ vma' = [vma EXCEPT ![p] = [v \in Pages |-> IF v \in S THEN prot
                                                            ELSE @[v]]]
    /\ UNCHANGED <<at, todo, kernel, pte, tlb, ref, data, lost>>

(* munmap (prot = NoVma) and mmap(MAP_FIXED) first erase the VMAs ...      *)
vma_erase_range(p, S, prot) ==
    /\ at[p] = "user"
    /\ vma' = [vma EXCEPT ![p] = [v \in Pages |-> IF v \in S THEN NoVma
                                                            ELSE @[v]]]
    /\ at' = [at EXCEPT ![p] = "unmap"]
    /\ todo' = [todo EXCEPT ![p] = S]
    /\ req' = [req EXCEPT ![p] = [range |-> S, prot |-> prot]]
    /\ UNCHANGED <<kid, pend, pte, tlb, ref, data, lost>>

(* Clear the leaf of v in q and put its page, if it has one.               *)
DropLeaf(q, v) ==
    IF pte[q][v] = NoPte THEN UNCHANGED <<pte, ref, data>>
    ELSE /\ pte' = [pte EXCEPT ![q][v] = NoPte]
         /\ put_page(pte[q][v].frame)

(* ... then unmap every page of the range ...                              *)
unmap_page(p, v) ==
    /\ at[p] = "unmap"
    /\ NextPage(p, v)
    /\ DropLeaf(p, v)
    /\ TlbFlushPage(p, v)
    /\ todo' = [todo EXCEPT ![p] = @ \ {v}]
    /\ UNCHANGED <<at, kernel, vma, lost>>

(* ... and mmap inserts the new VMA, unless vma_alloc fails.               *)
UnmapDone(p) ==
    /\ at[p] = "unmap"
    /\ todo[p] = {}
    /\ \E prot \in {req[p].prot, NoVma} :
         vma' = [vma EXCEPT ![p] =
                    [v \in Pages |-> IF v \in req[p].range THEN prot ELSE @[v]]]
    /\ at' = [at EXCEPT ![p] = "user"]
    /\ req' = [req EXCEPT ![p] = NoReq]
    /\ UNCHANGED <<todo, kid, pend, pte, tlb, ref, data, lost>>

(* mprotect: the whole range must be covered; present leaves follow.  One  *)
(* step although change_pte_prot reads shared counts page by page: a count *)
(* of 1 cannot change meanwhile, and a larger one only defers to a fault.  *)
mm_mprotect(p, S, prot) ==
    /\ at[p] = "user"
    /\ \A v \in S : vma[p][v] # NoVma
    /\ vma' = [vma EXCEPT ![p] = [v \in Pages |-> IF v \in S THEN prot
                                                            ELSE @[v]]]
    /\ pte' = [pte EXCEPT ![p] =
                  [v \in Pages |-> IF v \in S /\ @[v] # NoPte
                                     THEN ReprotectedLeaf(@[v], prot)
                                     ELSE @[v]]]
    /\ tlb' = [tlb EXCEPT ![p] = [v \in Pages |-> IF v \in S THEN NoPte
                                                            ELSE @[v]]]
    /\ UNCHANGED <<at, todo, kernel, ref, data, lost>>

-----------------------------------------------------------------------------
(* fork: dup_mm shares every leaf, page by page.                           *)

dup_mm(p, c) ==
    /\ at[p] = "user"
    /\ at[c] = "none"
    /\ at' = [at EXCEPT ![p] = "fork", ![c] = "build"]
    /\ todo' = [todo EXCEPT ![p] = Pages]
    /\ kid' = [kid EXCEPT ![p] = c]
    /\ UNCHANGED <<pend, req, vma, pte, tlb, ref, data, lost>>

(* Mutant: get_page is forgotten.                                          *)
dup_pgtable_level_noget(p, v) ==
    /\ at[p] = "fork"
    /\ NextPage(p, v)
    /\ IF pte[p][v] = NoPte THEN UNCHANGED <<pte, tlb>>
       ELSE /\ pte' = [pte EXCEPT ![p][v] = SharedLeaf(pte[p][v]),
                                  ![kid[p]][v] = SharedLeaf(pte[p][v])]
            /\ TlbFlushPage(p, v)
    /\ todo' = [todo EXCEPT ![p] = @ \ {v}]
    /\ UNCHANGED <<at, kernel, vma, ref, data, lost>>

(* Mutant: the parent keeps its writable translation.                      *)
dup_pgtable_level_noflush(p, v) ==
    /\ at[p] = "fork"
    /\ NextPage(p, v)
    /\ IF pte[p][v] = NoPte THEN UNCHANGED <<pte, ref>>
       ELSE /\ ref' = [ref EXCEPT ![pte[p][v].frame] = @ + 1]
            /\ pte' = [pte EXCEPT ![p][v] = SharedLeaf(pte[p][v]),
                                  ![kid[p]][v] = SharedLeaf(pte[p][v])]
    /\ todo' = [todo EXCEPT ![p] = @ \ {v}]
    /\ UNCHANGED <<at, kernel, vma, tlb, data, lost>>

dup_pgtable_level(p, v) ==
    /\ at[p] = "fork"
    /\ NextPage(p, v)
    /\ IF pte[p][v] = NoPte THEN UNCHANGED <<pte, ref, tlb>>
       ELSE /\ ref' = [ref EXCEPT ![pte[p][v].frame] = @ + 1]
            /\ pte' = [pte EXCEPT ![p][v] = SharedLeaf(pte[p][v]),
                                  ![kid[p]][v] = SharedLeaf(pte[p][v])]
            /\ TlbFlushPage(p, v)
    /\ todo' = [todo EXCEPT ![p] = @ \ {v}]
    /\ UNCHANGED <<at, kernel, vma, data, lost>>

(* dup_vma_list succeeded: the child can run.                              *)
ForkDone(p) ==
    /\ at[p] = "fork"
    /\ todo[p] = {}
    /\ vma' = [vma EXCEPT ![kid[p]] = vma[p]]
    /\ at' = [at EXCEPT ![p] = "user", ![kid[p]] = "user"]
    /\ kid' = [kid EXCEPT ![p] = NoProc]
    /\ UNCHANGED <<todo, pend, req, pte, tlb, ref, data, lost>>

(* A table or a VMA could not be allocated: the copy is torn down, the     *)
(* parent's leaves stay write-protected.                                   *)
ForkFail(p) ==
    /\ at[p] = "fork"
    /\ at' = [at EXCEPT ![p] = "undo"]
    /\ todo' = [todo EXCEPT ![p] = Pages]
    /\ UNCHANGED <<kernel, vma, pte, tlb, ref, data, lost>>

(* free_pgtable_level on the mm in slot kid[p]: a failed copy or image     *)
(* ("undo"), or the old image after execve ("drop").                       *)
UndoPage(p, v) ==
    /\ at[p] \in {"undo", "drop"}
    /\ NextPage(p, v)
    /\ DropLeaf(kid[p], v)
    /\ todo' = [todo EXCEPT ![p] = @ \ {v}]
    /\ UNCHANGED <<at, kernel, vma, tlb, lost>>

(* free_all_vmas; after an execve ret_from_fork installs the new mm.       *)
(* When the first execve of PID 1 fails there is no image to return to:    *)
(* kernel_init waits for ever.                                             *)
UndoDone(p) ==
    /\ at[p] \in {"undo", "drop"}
    /\ todo[p] = {}
    /\ vma' = [vma EXCEPT ![kid[p]] = NoVmas]
    /\ at' = [at EXCEPT ![p] = IF vma[p] = NoVmas THEN "hang" ELSE "user",
                        ![kid[p]] = "none"]
    /\ kid' = [kid EXCEPT ![p] = NoProc]
    /\ IF at[p] = "drop" THEN TlbFlushAll ELSE UNCHANGED tlb
    /\ UNCHANGED <<todo, pend, req, pte, ref, data, lost>>

-----------------------------------------------------------------------------
(* execve: load_elf_binary builds a new mm in slot kid[p], then swaps.     *)

load_elf_binary(p, c) ==
    /\ at[p] = "user"
    /\ at[c] = "none"
    /\ at' = [at EXCEPT ![p] = "exec", ![c] = "build"]
    /\ todo' = [todo EXCEPT ![p] = Pages]
    /\ kid' = [kid EXCEPT ![p] = c]
    /\ UNCHANGED <<pend, req, vma, pte, tlb, ref, data, lost>>

(* load_segment or setup_stack maps a fresh page; do_map flushes all TLBs. *)
load_segment(p, v, prot, x) ==
    /\ at[p] = "exec"
    /\ NextPage(p, v)
    /\ \E f \in Frames :
         /\ FreePage(f)
         /\ ref' = [ref EXCEPT ![f] = 1]
         /\ data' = [data EXCEPT ![f] = x]
         /\ pte' = [pte EXCEPT ![kid[p]][v] = prot_to_pte(f, prot)]
    /\ vma' = [vma EXCEPT ![kid[p]][v] = prot]
    /\ TlbFlushAll
    /\ todo' = [todo EXCEPT ![p] = @ \ {v}]
    /\ UNCHANGED <<at, kernel, lost>>

(* The image has nothing at v.                                             *)
NoSegment(p, v) ==
    /\ at[p] = "exec"
    /\ NextPage(p, v)
    /\ todo' = [todo EXCEPT ![p] = @ \ {v}]
    /\ UNCHANGED <<at, kernel, vma, pte, tlb, ref, data, lost>>

ExecUndo(p) ==
    /\ at' = [at EXCEPT ![p] = "undo"]
    /\ todo' = [todo EXCEPT ![p] = Pages]

(* A second PT_LOAD covers page v again: the leaf is overwritten, then     *)
(* vma_record refuses the overlap; the first page is never freed.          *)
SegmentOverlap(p, v, prot, x) ==
    /\ at[p] = "exec"
    /\ pte[kid[p]][v] # NoPte
    /\ \E f \in Frames :
         /\ FreePage(f)
         /\ ref' = [ref EXCEPT ![f] = 1]
         /\ data' = [data EXCEPT ![f] = x]
         /\ pte' = [pte EXCEPT ![kid[p]][v] = prot_to_pte(f, prot)]
    /\ lost' = lost \cup {pte[kid[p]][v].frame}
    /\ TlbFlushAll
    /\ ExecUndo(p)
    /\ UNCHANGED <<kernel, vma>>

(* setup_stack: the page is allocated, do_map fails for want of a table,   *)
(* and the page is not freed.                                              *)
StackMapFail(p) ==
    /\ at[p] = "exec"
    /\ \E f \in Frames :
         /\ FreePage(f)
         /\ ref' = [ref EXCEPT ![f] = 1]
         /\ data' = [data EXCEPT ![f] = Zero]
         /\ lost' = lost \cup {f}
    /\ ExecUndo(p)
    /\ UNCHANGED <<kernel, vma, pte, tlb>>

(* Any other error: mm_put(new mm).                                        *)
ExecFail(p) ==
    /\ at[p] = "exec"
    /\ ExecUndo(p)
    /\ UNCHANGED <<kernel, vma, pte, tlb, ref, data, lost>>

(* task->mm = mm; mm_put(old_mm): the slots trade their contents.          *)
ExecSwap(p) ==
    /\ at[p] = "exec"
    /\ todo[p] = {}
    /\ pte' = [pte EXCEPT ![p] = pte[kid[p]], ![kid[p]] = pte[p]]
    /\ vma' = [vma EXCEPT ![p] = vma[kid[p]], ![kid[p]] = vma[p]]
    /\ at' = [at EXCEPT ![p] = "drop"]
    /\ todo' = [todo EXCEPT ![p] = Pages]
    /\ UNCHANGED <<kernel, tlb, ref, data, lost>>

-----------------------------------------------------------------------------
(* exit and the reaper's mm_put.                                           *)

ksys_exit(p) ==
    /\ at[p] = "user"
    /\ do_exit(p)
    /\ UNCHANGED <<todo, kernel, vma, pte, ref, data, lost>>

mm_put(p) ==
    /\ at[p] = "zombie"
    /\ at' = [at EXCEPT ![p] = "reap"]
    /\ todo' = [todo EXCEPT ![p] = Pages]
    /\ UNCHANGED <<kernel, vma, pte, tlb, ref, data, lost>>

ReapPage(p, v) ==
    /\ at[p] = "reap"
    /\ NextPage(p, v)
    /\ DropLeaf(p, v)
    /\ todo' = [todo EXCEPT ![p] = @ \ {v}]
    /\ UNCHANGED <<at, kernel, vma, tlb, lost>>

ReapDone(p) ==
    /\ at[p] = "reap"
    /\ todo[p] = {}
    /\ vma' = [vma EXCEPT ![p] = NoVmas]
    /\ at' = [at EXCEPT ![p] = "none"]
    /\ UNCHANGED <<todo, kernel, pte, tlb, ref, data, lost>>

-----------------------------------------------------------------------------
PageStep(p, v) ==
    \/ TlbFill(p, v)
    \/ \E x \in Values : UserStore(p, v, x) \/ copy_to_user(p, v, x)
    \/ \E acc \in {"read", "write"} : UaccessAbort(p, v, acc)
    \/ \E acc \in Access : \/ FaultSegv(p, v, acc)
                            \/ FaultDemand(p, v, acc)
                            \/ FaultOom(p, v, acc)
                            \/ FaultCow(p, v, acc)
    \/ CowMkwrite(p, v)
    \/ CowCopy(p, v)
    \/ unmap_page(p, v)
    \/ dup_pgtable_level(p, v)
    \/ UndoPage(p, v)
    \/ ReapPage(p, v)
    \/ NoSegment(p, v)
    \/ \E prot \in Prots, x \in Values : \/ load_segment(p, v, prot, x)
                                         \/ SegmentOverlap(p, v, prot, x)

ProcStep(p) ==
    \/ CowOom(p) \/ CowPut(p)
    \/ UnmapDone(p)
    \/ ForkDone(p) \/ ForkFail(p)
    \/ UndoDone(p)
    \/ StackMapFail(p) \/ ExecFail(p) \/ ExecSwap(p)
    \/ ksys_exit(p) \/ mm_put(p) \/ ReapDone(p)

CallStep(p) ==
    \/ \E S \in Ranges, prot \in Prots : do_mmap(p, S, prot)
                                         \/ mm_mprotect(p, S, prot)
    \/ \E S \in Ranges, prot \in Prots \cup {NoVma} : vma_erase_range(p, S, prot)
    \/ \E c \in Procs : dup_mm(p, c) \/ load_elf_binary(p, c)

Next ==
    \/ mm_install
    \/ \E p \in Procs : \/ ProcStep(p)
                        \/ CallStep(p)
                        \/ \E v \in Pages : PageStep(p, v)

Spec == Init /\ [][Next]_vars

-----------------------------------------------------------------------------
(* Properties.                                                             *)

(* Every variable stays in its domain; kernel paths have their arguments.  *)
TypeOK ==
    /\ at \in [Procs -> At]
    /\ todo \in [Procs -> SUBSET Pages]
    /\ kid \in [Procs -> Procs \cup {NoProc}]
    /\ pend \in [Procs -> Frames \cup {NoFrame}]
    /\ req \in [Procs -> [range : SUBSET Pages, prot : Prots \cup {NoVma}]]
    /\ vma \in [Procs -> [Pages -> Prots \cup {NoVma}]]
    /\ pte \in [Procs -> [Pages -> Leaf \cup {NoPte}]]
    /\ tlb \in [Procs -> [Pages -> Leaf \cup {NoPte}]]
    /\ ref \in [Frames -> Nat]
    /\ data \in [Frames -> Values \cup {Junk}]
    /\ lost \in SUBSET Frames

MapsTo(e, f) == e # NoPte /\ e.frame = f
Mappers(f) == {m \in Procs \X Pages : MapsTo(pte[m[1]][m[2]], f)}
Pending(f) == {p \in Procs : pend[p] = f}

(* _refcount of every page is the number of leaves that map it, plus the   *)
(* put_page calls do_cow_fault still owes, plus one if execve lost it: no  *)
(* page is freed while mapped, and none but the lost ones leaks, however   *)
(* faults, forks, unmaps, execs and exits of several processes interleave. *)
RefCounts ==
    \A f \in Frames :
        ref[f] = Cardinality(Mappers(f)) + Cardinality(Pending(f))
                    + (IF f \in lost THEN 1 ELSE 0)

(* A leaf that lets EL0 store (directly or through the TLB) is the only    *)
(* one that maps its page, and no other process is still copying from it.  *)
WritableIsPrivate ==
    \A p \in Procs, v \in Pages :
        pte[p][v] # NoPte /\ ~pte[p][v].rdonly
            => /\ Mappers(pte[p][v].frame) = {<<p, v>>}
               /\ Pending(pte[p][v].frame) = {}

(* page_count(old) == 1 in do_cow_fault stays true until the leaf is made  *)
(* writable, whatever the other CPUs do in between.                        *)
SoleOwnerStable ==
    \A p \in Procs, v \in Pages :
        at[p] = "mkwrite" /\ todo[p] = {v} => ref[pte[p][v].frame] = 1

(* In user mode a process never uses a translation its tables no longer    *)
(* hold, although every flush but mm_install's is local to one CPU.        *)
TlbCoherent ==
    \A p \in Procs, v \in Pages :
        at[p] = "user" => tlb[p][v] \in {NoPte, pte[p][v]}

Permitted(p, v, acc) == vma[p][v] # NoVma /\ VmaAllows(vma[p][v], acc)

(* What the VMA permits is what a program can do, through demand paging,   *)
(* fork, COW breaks and mprotect: do_page_fault never answers a permitted  *)
(* access with SIGSEGV (no leaf is stricter than its VMA, except the COW   *)
(* read-only ones), and the hardware never lets a forbidden one through.   *)
AccessExact ==
    \A p \in Procs, v \in Pages, acc \in Access :
        /\ Faults(p, v, acc) /\ Permitted(p, v, acc) => do_page_fault(p, v, acc) # "efault"
        /\ at[p] = "user" /\ HwAllows(Translation(p, v), acc) => Permitted(p, v, acc)

(* A system call that touches memory its caller has mapped returns, with   *)
(* -EFAULT if it has to (strncpy_from_user: "-EFAULT on fault"), even when *)
(* the page is not there yet or is shared copy-on-write.                   *)
UaccessReturns ==
    \A p \in Procs, v \in Pages :
        at[p] = "hang" /\ todo[p] = {v} => vma[p][v] = NoVma

-----------------------------------------------------------------------------
(* The inductive invariant: what makes the properties above hold.          *)

(* A kernel path that builds or tears down an mm owns the slot it is in,   *)
(* and only a COW fault owes a put_page.                                   *)
Builders == {"fork", "exec", "undo", "drop"}
Slots ==
    \A p \in Procs :
        /\ at[p] \in Builders <=> kid[p] # NoProc
        /\ kid[p] # NoProc => at[kid[p]] = "build"
        /\ \A q \in Procs : kid[p] = kid[q] /\ kid[p] # NoProc => p = q
        /\ at[p] = "put" <=> pend[p] # NoFrame

(* do_cow_fault works on the read-only leaf of a writable VMA.             *)
CowPath(p) ==
    at[p] \in {"mkwrite", "copy"} =>
        \E v \in Pages :
            /\ todo[p] = {v}
            /\ pte[p][v] # NoPte /\ pte[p][v].rdonly
            /\ vma[p][v] # NoVma /\ "w" \in vma[p][v]

(* munmap has erased the VMAs of its range before it visits the leaves.    *)
UnmapPath(p) ==
    at[p] = "unmap" =>
        /\ req[p].range \in Ranges
        /\ todo[p] \subseteq req[p].range
        /\ \A v \in req[p].range : vma[p][v] = NoVma

(* A CPU has cached only leaves of the process it runs, but for the time   *)
(* between the swap of execve and ret_from_fork; nothing is cached of a    *)
(* slot no process runs in.                                                *)
TlbHeld(p, v) ==
    /\ at[p] \in Running \ {"drop"} => tlb[p][v] \in {NoPte, pte[p][v]}
    /\ at[p] \notin Running => tlb[p][v] = NoPte

(* Slots that are free, or still to be filled, or already torn down, map   *)
(* nothing; dup_pgtable_level leaves parent and child with the same leaf.  *)
BuiltLeaf(p, v) ==
    /\ at[p] = "none" => pte[p][v] = NoPte
    /\ at[p] \in {"fork", "exec"} /\ v \in todo[p] => pte[kid[p]][v] = NoPte
    /\ at[p] = "fork" /\ v \notin todo[p] => pte[kid[p]][v] = pte[p][v]
    /\ at[p] \in {"undo", "drop"} /\ v \notin todo[p] => pte[kid[p]][v] = NoPte
    /\ at[p] = "reap" /\ v \notin todo[p] => pte[p][v] = NoPte

(* A leaf grants what its VMA grants, except stores to a shared page ...   *)
Follows(e, prot) ==
    e # NoPte => /\ prot # NoVma
                 /\ e.user <=> prot # {}
                 /\ e.uxn <=> "x" \notin prot
                 /\ e.rdonly \/ "w" \in prot

(* ... in every mm but on the pages munmap has still to visit.             *)
LeafFollows(p, v) ==
    /\ at[p] \in Running /\ ~(at[p] = "unmap" /\ v \in todo[p])
           => Follows(pte[p][v], vma[p][v])
    /\ at[p] = "exec" => Follows(pte[kid[p]][v], vma[kid[p]][v])

Path(p) ==
    /\ CowPath(p)
    /\ UnmapPath(p)
    /\ \A v \in Pages : TlbHeld(p, v) /\ BuiltLeaf(p, v) /\ LeafFollows(p, v)

(* Leaves the hardware lets through, leaves about to become writable, and  *)
(* the leaves of an image being built are the only holders of their page.  *)
Exclusive(p, v) ==
    /\ pte[p][v] # NoPte
    /\ \/ ~pte[p][v].rdonly
       \/ at[p] = "mkwrite" /\ todo[p] = {v}
       \/ \E q \in Procs : at[q] = "exec" /\ kid[q] = p
ExclusiveCounts ==
    \A p \in Procs, v \in Pages :
        Exclusive(p, v) => ref[pte[p][v].frame] = 1

(* What exact counts say without counting: a page that is held has a       *)
(* count, and one with two holders counts two.                             *)
Holders ==
    /\ \A p \in Procs : pend[p] # NoFrame => ref[pend[p]] >= 1
    /\ \A p \in Procs, v \in Pages :
         pte[p][v] # NoPte =>
            /\ ref[pte[p][v].frame] >= 1
            /\ \A q \in Procs :
                 /\ pend[q] = pte[p][v].frame => ref[pte[p][v].frame] >= 2
                 /\ \A u \in Pages :
                      MapsTo(pte[q][u], pte[p][v].frame) /\ ~(q = p /\ u = v)
                          => ref[pte[p][v].frame] >= 2

(* Nobody maps a page execve lost.                                         *)
LostUnmapped == \A f \in lost : Mappers(f) = {} /\ Pending(f) = {}

(* The free list never writes into a page somebody maps.                   *)
MappedData ==
    \A p \in Procs, v \in Pages :
        pte[p][v] # NoPte => data[pte[p][v].frame] \in Values

IInv ==
    /\ TypeOK
    /\ Slots
    /\ \A p \in Procs : Path(p)
    /\ RefCounts
    /\ Holders
    /\ ExclusiveCounts
    /\ LostUnmapped
    /\ MappedData

-----------------------------------------------------------------------------
(* Refinement: each running process sees a memory of its own.              *)

NoMem == NoVma
MemOf(p) ==
    [v \in Pages |->
        IF at[p] \notin Running \/ vma[p][v] = NoVma THEN NoMem
        ELSE IF pte[p][v] = NoPte THEN Zero
        ELSE data[pte[p][v].frame]]
ProtOf(p) == IF at[p] \in Running THEN vma[p] ELSE NoVmas

DoingOf(p) ==
    CASE at[p] = "user" -> "user"
      [] at[p] = "exec" -> "exec"
      [] at[p] \in {"mkwrite", "copy", "put"} -> "fault"
      [] at[p] \in {"unmap", "fork", "undo", "drop", "hang"} -> "call"
      [] OTHER -> "none"

Private == INSTANCE PrivateMemory WITH
    doing <- [p \in Procs |-> DoingOf(p)],
    mem   <- [p \in Procs |-> MemOf(p)],
    prot  <- [p \in Procs |-> ProtOf(p)]

(* Demand paging and copy-on-write implement private memories: a store     *)
(* shows in the storing process only, a child starts with the bytes of its *)
(* parent, and faults, mprotect, failed forks and failed execs change no   *)
(* byte of anybody's.                                                      *)
RefinesPrivateMemory == Private!Spec

=============================================================================
