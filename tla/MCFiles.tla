------------------------------- MODULE MCFiles -------------------------------
(***************************************************************************)
(* Pipes and open files for TLC: two slots of processes, a pipe of two     *)
(* bytes whose counters wrap at four, and inodes.                          *)
(***************************************************************************)
EXTENDS Files, TLC

CONSTANTS a, b

MCBytes == {a, b}
MCTexts == {<<a, b>>}

Symmetry == Permutations(Procs)

\* Bound: bytes go through pipes, or files of inodes are open.
VARIABLE part

MCInit == part \in {"bytes", "inodes"} /\ Init

MCNext ==
  /\ Next /\ UNCHANGED part
  /\ IF part = "bytes" THEN UNCHANGED iref ELSE UNCHANGED io

MCSpec == MCInit /\ [][MCNext]_<<part, vars>>

==============================================================================
