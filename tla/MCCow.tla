------------------------------- MODULE MCCow -------------------------------
(* Instances of Cow for TLC.                                               *)
EXTENDS Cow, TLC

(* Processes and page frames are interchangeable.                          *)
Symmetry == Permutations(Procs) \cup Permutations(Frames)

NoneReadWrite == {{}, {"r", "w"}}
OnePage == {0}
Bits == {0, 1}

=============================================================================
