------------------------------ MODULE MCTasks ------------------------------
(* Instances of Tasks for TLC.                                             *)
EXTENDS Tasks

(* Tasks are interchangeable.                                              *)
Symmetry == Permutations(Tasks)

(* SMP behaviours up to a step after which a task runs twice, or runs      *)
(* after its memory was freed or its exit was over.                       *)
BeforeFindings == OneCpuPerTask /\ EndedIsOffCpu

ForkAndWait == {"yield", "fork", "exit", "wait4"}
AllCalls == {"yield", "nanosleep", "fork", "kill", "exit", "wait4"}

=============================================================================
