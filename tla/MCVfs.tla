------------------------------- MODULE MCVfs -------------------------------
(* A small instance of Vfs for TLC.                                        *)
EXTENDS Vfs

CONSTANTS a, b

(* An absolute link to a name and a relative link to another.              *)
LinkTargets == {[abs |-> TRUE, path |-> <<a>>], [abs |-> FALSE, path |-> <<b>>]}

(* Two shapes of file system, explored to the end: directories nested to   *)
(* any depth, and links and device nodes side by side in the root.         *)
(* Behaviours stop where an i_parent pointer would dangle (ParentsLive).   *)
Directories == \A i \in Inodes : ino[i].kind \in {"free", "dir"}
OneLevel == \A i \in Inodes \ {Root} : ino[i].kind # "dir"
TreeOrLinks == ParentsLive /\ (Directories \/ OneLevel)
=============================================================================
