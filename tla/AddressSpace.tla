---------------------------- MODULE AddressSpace ----------------------------
(***************************************************************************)
(* What brk, mmap, munmap and mprotect promise a program, page by page and *)
(* with no list of areas in sight: a call changes the pages of its range   *)
(* and no others, and a page never touched since it was mapped is empty.   *)
(* Module Vma implements it; Cow takes up the pages from here.             *)
(***************************************************************************)
EXTENDS Integers, FiniteSets

CONSTANTS
    PAGE_SIZE, NPages, Prots,
    Unmapped,       \* a page at which nothing is mapped
    start_brk,
    Image           \* the address space execve makes

VARIABLES
    mem,    \* mem[n]: Unmapped, or the page's protection and whether it was touched
    brk,    \* the program break, in bytes
    asked   \* the last call: its name, address, length and protection

vars == <<mem, brk, asked>>

Pages == 0 .. NPages - 1
Ranges == {i .. j - 1 : i, j \in Pages \cup {NPages}}
Mapped(n) == mem[n] # Unmapped
Fresh(prot) == [prot |-> prot, touched |-> FALSE]

(* The pages that bytes start up to and without end lie in.                *)
PagesOf(start, end) == {n \in Pages : n * PAGE_SIZE < end /\ start < (n + 1) * PAGE_SIZE}

(* The pages in R become New, the others stay as they are.                 *)
Becomes(R, New(_)) == \A n \in Pages : mem'[n] = IF n \in R THEN New(n) ELSE mem[n]
Unmap(R) == Becomes(R, LAMBDA n : Unmapped)
Map(R, prot) == Becomes(R, LAMBDA n : Fresh(prot))

Init == mem = Image /\ brk = start_brk

(* The range lies in the pages there are; a call with another changes nothing. *)
InReach(c) == c.addr + c.len <= PAGE_SIZE * NPages

munmap(c) == Unmap(PagesOf(c.addr, c.addr + c.len)) /\ UNCHANGED brk

(* Without an address the kernel finds free pages, with one they start at  *)
(* its page.  If memory runs out after the old pages went, none is mapped. *)
mmap(c) ==
    /\ IF c.addr = 0
       THEN \E R \in Ranges : /\ \A n \in R : ~Mapped(n)
                              /\ Cardinality(R) = Cardinality(PagesOf(0, c.len))
                              /\ Map(R, c.prot)
       ELSE LET start == c.addr - (c.addr % PAGE_SIZE)
                R == PagesOf(start, start + c.len)
            IN  Map(R, c.prot) \/ Unmap(R)
    /\ UNCHANGED brk

(* No hole in the range, and what was stored there stays.                  *)
mprotect(c) ==
    LET R == PagesOf(c.addr, c.addr + c.len)
    IN  /\ \A n \in R : Mapped(n)
        /\ Becomes(R, LAMBDA n : [mem[n] EXCEPT !.prot = c.prot])
        /\ UNCHANGED brk

access(c) ==
    /\ \A n \in PagesOf(c.addr, c.addr + 1) : Mapped(n) /\ mem[n].prot # {}
    /\ Becomes(PagesOf(c.addr, c.addr + 1), LAMBDA n : [mem[n] EXCEPT !.touched = TRUE])
    /\ UNCHANGED brk

(* Growing, everything between start_brk and the new break can be used and *)
(* what was there before is untouched; shrinking, whole pages go.          *)
Brk(c) ==
    /\ brk' = c.addr
    /\ \/ /\ c.addr > brk
          /\ \E prot \in Prots : Map({n \in PagesOf(start_brk, c.addr) : ~Mapped(n)}, prot)
       \/ /\ c.addr < brk
          /\ Unmap(PagesOf(start_brk, brk) \ PagesOf(start_brk, c.addr))

execve == brk' = start_brk /\ Becomes(Pages, LAMBDA n : Image[n])

(* A call does what it was asked for, or fails and changes nothing.        *)
Next ==
    LET c == asked'
    IN  \/ UNCHANGED <<mem, brk>>
        \/ c.name = "munmap" /\ InReach(c) /\ munmap(c)
        \/ c.name = "mmap" /\ InReach(c) /\ mmap(c)
        \/ c.name = "mprotect" /\ InReach(c) /\ mprotect(c)
        \/ c.name = "access" /\ access(c)
        \/ c.name = "brk" /\ Brk(c)
        \/ c.name = "execve" /\ execve

Spec == Init /\ [][Next]_vars
=============================================================================
