----------------------------- MODULE MCSemaphore -----------------------------
(***************************************************************************)
(* Instances of the semaphores for TLC: three processes on one semaphore   *)
(* (two of them can sleep while a third one ups, closes, reopens or kills),*)
(* or two processes on two semaphores.                                     *)
(***************************************************************************)
EXTENDS SemRefinement, TLC

InitialValues == {-1, 0, 1}

Symmetry == Permutations(Procs) \cup Permutations(Sems)

==============================================================================
