--------------------------- MODULE PrivateMemory ---------------------------
(***************************************************************************)
(* What the memory system promises to processes, with no page, no leaf and *)
(* no sharing in sight: every process has a memory of its own, protected   *)
(* page by page, which only its own stores and its own completed system    *)
(* calls change; a page fault never does.  Module Cow implements it.       *)
(***************************************************************************)

CONSTANTS Procs, Pages, Values, Zero, Prots, NoVma

VARIABLES
    doing,  \* doing[p]: "user", "fault", "call", "exec", or "none": no such process
    mem,    \* mem[p][v]: the contents p sees at v, NoVma where nothing is mapped
    prot    \* prot[p][v]: what p may do at v, NoVma where nothing is mapped

vars == <<doing, mem, prot>>

Unmapped == [v \in Pages |-> NoVma]
Set(g, S, x) == [v \in Pages |-> IF v \in S THEN x ELSE g[v]]

Goes(p, from, to) ==
    /\ doing[p] = from /\ doing'[p] = to
    /\ doing' = [doing EXCEPT ![p] = to]

(* PID 1, about to execute its first image, with nothing mapped.           *)
Init ==
    /\ \E p \in Procs : doing = [q \in Procs |-> IF q = p THEN "exec" ELSE "none"]
    /\ mem = [p \in Procs |-> Unmapped]
    /\ prot = [p \in Procs |-> Unmapped]

Store(p, v, x) ==
    /\ Goes(p, "user", "user")
    /\ prot[p][v] # NoVma
    /\ "w" \in prot[p][v]
    /\ mem' = [mem EXCEPT ![p][v] = x]
    /\ UNCHANGED prot

(* Entering and leaving the kernel, and failing there, changes no byte.    *)
Trap(p) ==
    /\ \/ \E d \in {"fault", "call", "exec"} : Goes(p, "user", d)
       \/ \E d \in {"fault", "call"} : Goes(p, d, "user")
       \/ Goes(p, "exec", "call")
    /\ UNCHANGED <<mem, prot>>

(* New pages read as zero.                                                 *)
Map(p, S, pr) ==
    /\ \A v \in S : prot[p][v] = NoVma
    /\ Goes(p, "user", "user") \/ Goes(p, "call", "user")
    /\ mem' = [mem EXCEPT ![p] = Set(@, S, Zero)]
    /\ prot' = [prot EXCEPT ![p] = Set(@, S, pr)]

Unmap(p, S) ==
    /\ Goes(p, "user", "call")
    /\ mem' = [mem EXCEPT ![p] = Set(@, S, NoVma)]
    /\ prot' = [prot EXCEPT ![p] = Set(@, S, NoVma)]

Protect(p, S, pr) ==
    /\ Goes(p, "user", "user")
    /\ \A v \in S : prot[p][v] # NoVma
    /\ prot' = [prot EXCEPT ![p] = Set(@, S, pr)]
    /\ UNCHANGED mem

Fork(p, c) ==
    /\ doing[p] = "call" /\ doing[c] = "none"
    /\ doing' = [doing EXCEPT ![p] = "user", ![c] = "user"]
    /\ mem' = [mem EXCEPT ![c] = mem[p]]
    /\ prot' = [prot EXCEPT ![c] = prot[p]]

(* A new image: any contents where it maps something.                      *)
Exec(p) ==
    /\ Goes(p, "exec", "call")
    /\ prot'[p] \in [Pages -> Prots \cup {NoVma}]
    /\ mem'[p] \in [Pages -> Values \cup {NoVma}]
    /\ \A v \in Pages : mem'[p][v] = NoVma <=> prot'[p][v] = NoVma
    /\ prot' = [prot EXCEPT ![p] = prot'[p]]
    /\ mem' = [mem EXCEPT ![p] = mem'[p]]

Exit(p) ==
    /\ Goes(p, "user", "none") \/ Goes(p, "fault", "none")
    /\ mem' = [mem EXCEPT ![p] = Unmapped]
    /\ prot' = [prot EXCEPT ![p] = Unmapped]

(* Most steps of the kernel show to no process.  [Next]_vars allows them   *)
(* anyway; named first, TLC recognises them first.                         *)
Hidden == UNCHANGED vars

Next ==
    \/ Hidden
    \/ \E p \in Procs :
           \/ Trap(p)
           \/ \E v \in Pages, x \in Values : Store(p, v, x)
           \/ \E S \in (SUBSET Pages) \ {{}} :
                 Unmap(p, S) \/ \E pr \in Prots : Map(p, S, pr) \/ Protect(p, S, pr)
           \/ \E c \in Procs : Fork(p, c)
           \/ Exec(p)
           \/ Exit(p)

Spec == Init /\ [][Next]_vars

=============================================================================
