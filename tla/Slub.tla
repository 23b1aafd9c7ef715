-------------------------------- MODULE Slub --------------------------------
(***************************************************************************)
(* kmalloc, kfree and the object caches of mm/slub.c, on the page          *)
(* allocator of module Buddy.  A cache is named by its object size.  The   *)
(* critical sections under cache->lock are single steps.  An object of a   *)
(* slab is its page and its index; a large object is its page and index 0. *)
(* Page tables, kernel stacks and user pages come out of the same pool.    *)
(***************************************************************************)
EXTENDS Buddy

CONSTANTS
    PAGE_SIZE,
    SlabSize,       \* sizeof(struct slab)
    CacheSizes,     \* the caches of slub_init, by increasing object size
    Sizes,          \* the sizes kmalloc is called with
    NoSlab          \* header of a page that is no slab

ASSUME SlubAssumption ==
    /\ PAGE_SIZE \in Nat /\ SlabSize \in 1 .. PAGE_SIZE
    /\ CacheSizes \subseteq 1 .. PAGE_SIZE
    /\ Sizes \subseteq Nat

Caches == CacheSizes
Large == 0      \* slab->cache == NULL

VARIABLES
    slab,       \* slab[p]: the header at page p
    partial,    \* partial[c]: cache->partial
    live        \* objects callers hold: page, index and size asked for

slubVars == <<buddyVars, slab, partial, live>>

-----------------------------------------------------------------------------
(* Layout.                                                                 *)

(* Objects start at the first multiple of their size after the header.     *)
slab_object_offset(c) == ((SlabSize + c - 1) \div c) * c

slab_objects_per_page(c) ==
    IF slab_object_offset(c) >= PAGE_SIZE THEN 0
    ELSE (PAGE_SIZE - slab_object_offset(c)) \div c

(* Bytes of its page that object i of a slab of c occupies.                *)
Bytes(c, i) ==
    slab_object_offset(c) + i * c .. slab_object_offset(c) + (i + 1) * c - 1

cache_for_size(size) ==
    LET S == {c \in Caches : size <= c}
    IN  IF S = {} THEN Large ELSE Min(S)

(* Mutant: the header is forgotten.                                        *)
large_order_nohdr(size) == Min({k \in 0 .. 15 : k = 15 \/ PAGE_SIZE * 2^k >= size})

(* The order alloc_large asks for: the header comes out of the block.      *)
large_order(size) == Min({k \in 0 .. 15 : k = 15 \/ PAGE_SIZE * 2^k >= size + SlabSize})

-----------------------------------------------------------------------------
SlubInit ==
    /\ page_alloc_init
    /\ slab = [p \in Pfns |-> NoSlab]
    /\ partial = [c \in Caches |-> <<>>]
    /\ live = {}

NewSlab(c) ==
    [cache |-> c, free |-> 0 .. slab_objects_per_page(c) - 1,
     inuse |-> 0, objects |-> slab_objects_per_page(c)]

(* Take object i out of slab s at page p; a slab without free objects      *)
(* leaves the partial list, here given as q.                               *)
TakeObject(size, c, p, s, i, q) ==
    LET left == s.free \ {i}
    IN  /\ slab' = [slab EXCEPT ![p] = [s EXCEPT !.free = left, !.inuse = @ + 1]]
        /\ partial' = [partial EXCEPT ![c] = IF left = {} THEN Remove(q, p) ELSE q]
        /\ live' = live \cup {<<p, i, size>>}

HasFree(c) == partial[c] # <<>> /\ slab[Head(partial[c])].free # {}

(* kmem_cache_alloc: from the head of the partial list, or from a new slab *)
(* if there is none.                                                       *)
kmem_cache_alloc(c, size) ==
    \/ /\ HasFree(c)
       /\ \E i \in slab[Head(partial[c])].free :
            TakeObject(size, c, Head(partial[c]), slab[Head(partial[c])], i, partial[c])
       /\ UNCHANGED buddyVars
    \/ /\ ~HasFree(c)
       /\ slab_objects_per_page(c) > 0
       /\ alloc_pages(0)
       /\ LET p == Head(free_area[Min(Fits(0))])
          IN  \E i \in NewSlab(c).free :
                TakeObject(size, c, p, NewSlab(c), i, <<p>> \o partial[c])

alloc_large(size) ==
    /\ large_order(size) \in Orders
    /\ alloc_pages(large_order(size))
    /\ LET p == Head(free_area[Min(Fits(large_order(size)))])
       IN  /\ slab' = [slab EXCEPT ![p] = [cache |-> Large, free |-> {}, inuse |-> 1,
                                           objects |-> large_order(size)]]
           /\ live' = live \cup {<<p, 0, size>>}
    /\ UNCHANGED partial

kmalloc(size) ==
    LET c == cache_for_size(IF size = 0 THEN 1 ELSE size)
    IN  IF c # Large THEN kmem_cache_alloc(c, size) ELSE alloc_large(size)

(* Mutant: a slab of one object is linked before the test for empty slabs. *)
kmem_cache_free_order(p, i, size) ==
    LET s == [slab[p] EXCEPT !.free = @ \cup {i}, !.inuse = @ - 1]
        c == s.cache
    IN  /\ IF s.inuse = s.objects - 1
           THEN /\ partial' = [partial EXCEPT ![c] = <<p>> \o @]
                /\ slab' = [slab EXCEPT ![p] = s]
                /\ UNCHANGED buddyVars
           ELSE IF s.inuse = 0
           THEN /\ partial' = [partial EXCEPT ![c] = Remove(@, p)]
                /\ free_pages(p)
                /\ slab' = [slab EXCEPT ![p] = NoSlab]
           ELSE /\ slab' = [slab EXCEPT ![p] = s]
                /\ UNCHANGED <<partial, buddyVars>>
        /\ live' = live \ {<<p, i, size>>}

(* kmem_cache_free: an empty slab returns its page, a full one is linked.  *)
kmem_cache_free(p, i, size) ==
    LET s == [slab[p] EXCEPT !.free = @ \cup {i}, !.inuse = @ - 1]
        c == s.cache
    IN  /\ IF s.inuse = 0
           THEN /\ partial' = [partial EXCEPT ![c] = Remove(@, p)]
                /\ free_pages(p)
                /\ slab' = [slab EXCEPT ![p] = NoSlab]
           ELSE /\ partial' = [partial EXCEPT ![c] =
                                  IF s.inuse = s.objects - 1 THEN <<p>> \o @ ELSE @]
                /\ slab' = [slab EXCEPT ![p] = s]
                /\ UNCHANGED buddyVars
        /\ live' = live \ {<<p, i, size>>}

free_large(p, i, size) ==
    /\ free_pages(p)
    /\ slab' = [slab EXCEPT ![p] = NoSlab]
    /\ live' = live \ {<<p, i, size>>}
    /\ UNCHANGED partial

kfree(p, i, size) ==
    IF slab[p].cache = Large THEN free_large(p, i, size) ELSE kmem_cache_free(p, i, size)

(* The callers of the page allocator that bypass kmalloc.                  *)
PageCaller ==
    /\ \/ \E order \in Orders : alloc_pages(order)
       \/ \E p \in Pfns : slab[p] = NoSlab /\ (free_pages(p) \/ get_page(p) \/ put_page(p))
    /\ UNCHANGED <<slab, partial, live>>

SlubNext ==
    \/ \E size \in Sizes : kmalloc(size)
    \/ \E o \in live : kfree(o[1], o[2], o[3])
    \/ PageCaller

SlubSpec == SlubInit /\ [][SlubNext]_slubVars

-----------------------------------------------------------------------------
(* Properties.                                                             *)

Slabs(c) == {p \in Pfns : slab[p] # NoSlab /\ slab[p].cache = c}

(* The partial list of a cache holds, once each, exactly its slabs with    *)
(* both live and free objects, also for caches with one object per slab:   *)
(* kmem_cache_alloc finds every free object by looking at the head only,   *)
(* and slab_destroy leaves no freed page linked.  A page is a slab for     *)
(* live objects only, so that with AllocComplete the pool is whole again   *)
(* when the last object and the last page are freed.                       *)
PartialLists ==
    /\ \A c \in Caches :
         /\ IsInjective(partial[c])
         /\ ToSet(partial[c]) = {p \in Slabs(c) : slab[p].free # {} /\ slab[p].inuse > 0}
    /\ \A p \in Pfns : slab[p] # NoSlab => held[p] # -1 /\ \E o \in live : o[1] = p

(* An object has room for what was asked for, in its block and behind the  *)
(* header, also when the size is just below or above a cache or a page.    *)
HasRoom(o) ==
    LET s == slab[o[1]]
    IN  IF s.cache = Large
        THEN SlabSize + o[3] <= PAGE_SIZE * 2^held[o[1]]
        ELSE /\ Bytes(s.cache, o[2]) \subseteq SlabSize .. PAGE_SIZE - 1
             /\ o[3] <= s.cache

(* No object is handed out twice, each has room for what kmalloc was asked *)
(* for, live and free objects partition a slab, and slab->inuse counts the *)
(* live ones.                                                              *)
Objects ==
    /\ \A o1, o2 \in live : o1[1] = o2[1] /\ o1[2] = o2[2] => o1 = o2
    /\ \A o \in live : HasRoom(o)
    /\ \A c \in Caches : \A p \in Slabs(c) :
         LET s == slab[p]
             used == {o[2] : o \in {o \in live : o[1] = p}}
         IN  /\ used \cap s.free = {}
             /\ used \cup s.free = 0 .. s.objects - 1
             /\ s.inuse = Cardinality(used)

=============================================================================
