------------------------------ MODULE MCFiles -------------------------------
(* A small instance of Files for TLC.                                      *)
EXTENDS Files

CONSTANTS a, b, t1, t2

(* Nothing, one byte, and more than the buffer of vfs_write; vectors of    *)
(* which one is empty, and two of which the first is cut short.            *)
Strings == { <<>>, <<a>>, <<b, b, a>> }
Vectors == { << <<b>>, <<>>, <<a, b>> >>, << <<a, b, b>>, <<a>> >>, << <<>> >> }
Distances == {-1, 0, 1}

(* Two shapes, each explored to the end: tasks and descriptors while the   *)
(* file is empty and no offset moved, and one task that uses the file.     *)
Untouched == node.data = <<>> /\ \A f \in Files : file[f].f_pos = 0
OneUser == Cardinality(alive) = 1 /\ close_on_exec = [t \in Tasks |-> {}]
TablesOrData == Untouched \/ OneUser
Symmetry == Permutations(Tasks)
=============================================================================
