------------------------------- MODULE MCVma -------------------------------
(* A small instance of Vma for TLC.                                        *)
EXTENDS Vma

VARIABLE view       \* the page view of the state, kept so that it is computed once

ReadOnly == {"r"}
ReadWrite == {"r", "w"}
AskedProts == {ReadOnly, ReadWrite}

MCInit == Init /\ view = PageView(vmas, leaf)
(* Bound: after a call that is one of Bends, only execve is followed.      *)
MCNext ==
    /\ Next
    /\ bent => asked'.name = "execve"
    /\ view' = PageView(vmas', leaf')
MCSpec == MCInit /\ [][MCNext]_<<vars, view>>

(* The last call is no part of the state: no step depends on it.           *)
Memory == <<mmVars, bent>>

(* Seen page by page, each call that is not one of Bends changes the range *)
(* it was asked for and no other page, keeps what was stored where it only *)
(* splits or reprotects areas, and never shows an old leaf in a new        *)
(* mapping; execve starts over whatever went before.                       *)
A == INSTANCE AddressSpace WITH mem <- view, Image <- PageView(ImageVmas, LeafOf(ImageVmas))
RefinesAddressSpace == A!Init /\ [][~bent' => A!Next]_A!vars
=============================================================================
