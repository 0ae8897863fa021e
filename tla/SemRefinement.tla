---------------------------- MODULE SemRefinement ----------------------------
(***************************************************************************)
(* The refinement mapping from the kernel's semaphores (Semaphore) to the  *)
(* linearizable semaphore object (LinearizableSem).                        *)
(***************************************************************************)
EXTENDS Semaphore

\* What a caller can tell of a semaphore: the value of one that is not in use
\* (0 before the first sem_open, -1 after a sem_close) cannot be seen.
SemOf(s) == IF is_use[s] THEN value[s] ELSE CLOSED_SEM_VAL

absSem == [s \in Sems |-> SemOf(s)]

\* A close has taken effect when its wakeup loop starts, an up when it ends.
PhaseOf(p) ==
  IF pc[p] \in {"user", "exited"} THEN "idle"
  ELSE IF pc[p] = "return" \/ (pc[p] = "wakeup" /\ req[p].op = "close") THEN "done"
  ELSE "called"

absPhase == [p \in Procs |-> PhaseOf(p)]

Abstract ==
  INSTANCE LinearizableSem WITH sem <- absSem, phase <- absPhase,
    call <- req, res <- ret, Requests <- Requests, NoReq <- NoReq, Valid <- Valid

\* Every behaviour of the kernel's semaphores is one of the linearizable
\* object: each system call returns what one atomic operation between its call
\* and its return would have returned, also when it slept, was woken by kill,
\* or found the semaphore closed (and reopened) when it came back.
Linearizable == Abstract!Spec

==============================================================================
