------------------------------- MODULE Buddy -------------------------------
(***************************************************************************)
(* The physical page allocator, mm/page_alloc.c.                           *)
(*                                                                         *)
(* A page is named by its pfn in the pool.  A block of order k is the 2^k  *)
(* pages from a pfn on.  The callers (page tables, user pages, kernel      *)
(* stacks, slabs) free a block once, with the order they asked for, and    *)
(* share only single pages.  The allocator takes no lock: every operation  *)
(* is one step, which is what happens on one CPU, where the kernel is not  *)
(* preempted and interrupt handlers allocate nothing.                      *)
(***************************************************************************)
EXTENDS Integers, Sequences, FiniteSets, SequencesExt, FiniteSetsExt

CONSTANTS
    NPages,     \* pages between mem_start and the end of memory
    Base,       \* mem_start / PAGE_SIZE
    MaxRef      \* bound: references callers take to one page

ASSUME BuddyAssumption == NPages \in Nat \ {0} /\ Base \in Nat /\ MaxRef \in Nat \ {0}

(* 63 - clz(npages): the pool is the largest power of two that fits.       *)
max_order == CHOOSE k \in 0 .. NPages : 2^k <= NPages /\ NPages < 2^(k + 1)
pool_pages == 2^max_order

Pfns == 0 .. pool_pages - 1
Orders == 0 .. max_order

VARIABLES
    free_area,      \* free_area[k]: the list of free blocks of order k
    block_order,    \* block_order[p]: order of the free block at p, or -1
    refcount,       \* mem_map[p]._refcount
    held            \* held[p]: order of the block at p a caller owns, or -1

buddyVars == <<free_area, block_order, refcount, held>>

page_alloc_init ==
    /\ free_area = [k \in Orders |-> IF k = max_order THEN <<0>> ELSE <<>>]
    /\ block_order = [p \in Pfns |-> IF p = 0 THEN max_order ELSE -1]
    /\ refcount = [p \in Pfns |-> 0]
    /\ held = [p \in Pfns |-> -1]

(* pfn ^ (1 << k)                                                          *)
BuddyOf(p, k) == IF (p \div 2^k) % 2 = 0 THEN p + 2^k ELSE p - 2^k

-----------------------------------------------------------------------------
(* The free lists alloc_pages can serve the request from.                  *)
Fits(order) == {k \in order .. max_order : free_area[k] # <<>>}

(* Mutant: the upper halves are dropped.                                   *)
alloc_pages_nosplit(order) ==
    /\ Fits(order) # {}
    /\ LET k == Min(Fits(order))
           p == Head(free_area[k])
       IN  /\ free_area' = [free_area EXCEPT ![k] = Tail(@)]
           /\ block_order' = [block_order EXCEPT ![p] = -1]
           /\ refcount' = [refcount EXCEPT ![p] = 1]
           /\ held' = [held EXCEPT ![p] = order]

(* The head of the first list that is not empty; split_block returns the   *)
(* upper halves.  With no such list the call fails and changes nothing.    *)
alloc_pages(order) ==
    /\ Fits(order) # {}
    /\ LET from == Min(Fits(order))
           p == Head(free_area[from])
           halves == order .. from - 1
       IN  /\ free_area' = [k \in Orders |->
                 IF k = from THEN Tail(free_area[k])
                 ELSE IF k \in halves THEN <<BuddyOf(p, k)>> \o free_area[k]
                 ELSE free_area[k]]
           /\ block_order' = [q \in Pfns |->
                 IF q = p THEN -1
                 ELSE IF \E k \in halves : q = BuddyOf(p, k)
                      THEN CHOOSE k \in halves : q = BuddyOf(p, k)
                 ELSE block_order[q]]
           /\ refcount' = [refcount EXCEPT ![p] = 1]
           /\ held' = [held EXCEPT ![p] = order]

(* Mutant: the block goes on its own list, whatever its buddy.             *)
buddy_free_alone(p, order) ==
    /\ free_area' = [free_area EXCEPT ![order] = <<p>> \o @]
    /\ block_order' = [block_order EXCEPT ![p] = order]

(* Merge with the buddy as long as it is a free block of the same order,   *)
(* then put the result at the head of its list.  at(k) is the pfn after k  *)
(* rounds, the smaller of the two each time.                               *)
buddy_free(p, order) ==
    LET at(k) == p - (p % 2^k)
        Merges(k) == k < max_order /\ block_order[BuddyOf(at(k), k)] = k
        top == Min({k \in order .. max_order : ~Merges(k)})
        merged == order .. top - 1
    IN  /\ free_area' = [k \in Orders |->
              IF k = top THEN <<at(top)>> \o free_area[k]
              ELSE IF k \in merged THEN Remove(free_area[k], BuddyOf(at(k), k))
              ELSE free_area[k]]
        /\ block_order' = [q \in Pfns |->
              IF q = at(top) THEN top
              ELSE IF \E k \in merged : q = BuddyOf(at(k), k) THEN -1
              ELSE block_order[q]]

(* addr_in_pool: the address, not the pfn, must be aligned to the block.   *)
addr_in_pool(p, order) == p + 2^order <= pool_pages /\ (Base + p) % 2^order = 0

(* The owner of an unshared block frees it.                                *)
free_pages(p) ==
    /\ held[p] # -1
    /\ refcount[p] = 1
    /\ IF addr_in_pool(p, held[p]) /\ block_order[p] < 0
       THEN /\ refcount' = [refcount EXCEPT ![p] = 0]
            /\ buddy_free(p, held[p])
       ELSE UNCHANGED <<free_area, block_order, refcount>>
    /\ held' = [held EXCEPT ![p] = -1]

get_page(p) ==
    /\ held[p] = 0
    /\ refcount[p] < MaxRef
    /\ refcount' = [refcount EXCEPT ![p] = @ + 1]
    /\ UNCHANGED <<free_area, block_order, held>>

put_page(p) ==
    /\ held[p] = 0
    /\ refcount' = [refcount EXCEPT ![p] = @ - 1]
    /\ IF refcount[p] = 1
       THEN buddy_free(p, 0) /\ held' = [held EXCEPT ![p] = -1]
       ELSE UNCHANGED <<free_area, block_order, held>>

-----------------------------------------------------------------------------
BuddyNext ==
    \/ \E order \in Orders : alloc_pages(order)
    \/ \E p \in Pfns : free_pages(p) \/ get_page(p) \/ put_page(p)

BuddySpec == page_alloc_init /\ [][BuddyNext]_buddyVars

-----------------------------------------------------------------------------
(* Properties.                                                             *)

FreeBlocks == UNION {{<<p, k>> : p \in ToSet(free_area[k])} : k \in Orders}
HeldBlocks == {<<p, held[p]>> : p \in {q \in Pfns : held[q] # -1}}
PagesOf(b) == b[1] .. b[1] + 2^b[2] - 1

(* Free and allocated blocks partition the pool: no page is handed out     *)
(* twice and none is lost, through every split and merge.  block_order, on *)
(* which buddy_free relies, marks the heads of the free blocks and nothing *)
(* else; a free block is linked once, and no free page has references.     *)
Partition ==
    /\ \A q \in Pfns : Cardinality({b \in FreeBlocks \cup HeldBlocks : q \in PagesOf(b)}) = 1
    /\ \A p \in Pfns, k \in Orders : block_order[p] = k <=> <<p, k>> \in FreeBlocks
    /\ \A k \in Orders : IsInjective(free_area[k])
    /\ \A p \in Pfns : held[p] = -1 => refcount[p] = 0

(* alloc_pages fails only when memory is short or fragmented: if some      *)
(* aligned run of 2^order pages is free, whatever the sequence of calls    *)
(* that freed it, buddy_free has merged it and the request is served.      *)
AllocComplete ==
    LET taken == UNION {PagesOf(b) : b \in HeldBlocks}
    IN  \A order \in Orders, p \in Pfns :
            p % 2^order = 0 /\ PagesOf(<<p, order>>) \cap taken = {} => Fits(order) # {}

=============================================================================
