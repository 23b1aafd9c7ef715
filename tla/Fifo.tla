-------------------------------- MODULE Fifo --------------------------------
(***************************************************************************)
(* What a pipe promises its users: a bounded first-in first-out channel of *)
(* bytes.  A write takes a non-empty prefix of what its caller hands over, *)
(* a read removes a non-empty prefix of what the channel holds.            *)
(***************************************************************************)
EXTENDS Naturals, Sequences

CONSTANTS Procs, Bytes, Capacity

VARIABLES
    chan,   \* the bytes written and not yet read
    given,  \* given[p]: what p asks to write, empty if it does not write
    got     \* got[p]: what the read of p in progress has got

vars == <<chan, given, got>>

Init ==
    /\ chan = <<>>
    /\ given = [p \in Procs |-> <<>>]
    /\ got = [p \in Procs |-> <<>>]

Ask(p) ==
    /\ given[p] = <<>>
    /\ given'[p] # <<>> /\ given'[p] \in Seq(Bytes)
    /\ given' = [given EXCEPT ![p] = given'[p]]
    /\ UNCHANGED <<chan, got>>

Put(p) ==
    /\ \E n \in 1 .. Len(given[p]) :
         /\ Len(chan) + n <= Capacity
         /\ chan' = chan \o SubSeq(given[p], 1, n)
    /\ given' = [given EXCEPT ![p] = <<>>]
    /\ UNCHANGED got

(* The write fails: nobody can read, the caller does not wait or is        *)
(* interrupted.                                                            *)
Fail(p) ==
    /\ given' = [given EXCEPT ![p] = <<>>]
    /\ UNCHANGED <<chan, got>>

Get(p) ==
    /\ got[p] = <<>>
    /\ \E n \in 1 .. Len(chan) :
         /\ got' = [got EXCEPT ![p] = SubSeq(chan, 1, n)]
         /\ chan' = SubSeq(chan, n + 1, Len(chan))
    /\ UNCHANGED given

Done(p) ==
    /\ got' = [got EXCEPT ![p] = <<>>]
    /\ UNCHANGED <<chan, given>>

Next == \E p \in Procs : Ask(p) \/ Put(p) \/ Fail(p) \/ Get(p) \/ Done(p)

Spec == Init /\ [][Next]_vars

=============================================================================
