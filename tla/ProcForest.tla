------------------------------ MODULE ProcForest ------------------------------
(***************************************************************************)
(* What fork, exit and wait promise, without locks: a tree of processes    *)
(* rooted at init.  A process that exits hands its children, dead or alive,*)
(* to init at that instant, and a dead process stays until its parent      *)
(* collects it, once.                                                      *)
(***************************************************************************)
CONSTANTS Slots, initproc, NoProc

VARIABLES
  alive,      \* the processes that run
  dead,       \* those that have exited and were not collected
  parentOf    \* the parent of each of them

forestVars == <<alive, dead, parentOf>>

Init ==
  /\ alive = {initproc} /\ dead = {}
  /\ parentOf = [q \in Slots |-> NoProc]

Fork(p, q) ==
  /\ p \in alive /\ q \notin alive \cup dead
  /\ alive' = alive \cup {q} /\ dead' = dead
  /\ parentOf' = [parentOf EXCEPT ![q] = p]

Exit(p) ==
  /\ p \in alive \ {initproc}
  /\ alive' = alive \ {p} /\ dead' = dead \cup {p}
  /\ parentOf' = [q \in Slots |-> IF parentOf[q] = p THEN initproc ELSE parentOf[q]]

Collect(p, q) ==
  /\ p \in alive /\ q \in dead /\ parentOf[q] = p
  /\ dead' = dead \ {q} /\ alive' = alive
  /\ parentOf' = [parentOf EXCEPT ![q] = NoProc]

Next == \E p, q \in Slots : Fork(p, q) \/ Exit(p) \/ Collect(p, q)

Spec == Init /\ [][Next]_forestVars

==============================================================================
