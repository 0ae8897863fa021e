------------------------------ MODULE SemObject ------------------------------
(***************************************************************************)
(* The data type behind the named semaphores of kernel/semaphore.c, seen   *)
(* by a caller: what each system call does to one semaphore and what it    *)
(* returns when it runs alone.  A semaphore is either NotInUse (is_use is  *)
(* false) or the natural number of its permits.                            *)
(* The abstract specification of the kernel component (LinearizableSem)    *)
(* and the user programs (PingPong, TaTeTi) use the same operators, so     *)
(* what the kernel is shown to provide is what the programs rely on.       *)
(***************************************************************************)
EXTENDS Integers

NotInUse == -1

\* sem_open: only a semaphore that is not in use can be opened.
OpenSem(old, val) ==
  IF old = NotInUse THEN [sem |-> val, ret |-> 1] ELSE [sem |-> old, ret |-> 0]

\* sem_close: closing what is not in use fails.
CloseSem(old) == [sem |-> NotInUse, ret |-> IF old = NotInUse THEN 0 ELSE 1]

\* sem_up: one more permit.
UpSem(old) ==
  IF old = NotInUse THEN [sem |-> old, ret |-> 0] ELSE [sem |-> old + 1, ret |-> 1]

\* sem_down takes a permit; while there is none it has no outcome.
DownBlocks(old) == old = 0

DownSem(old) ==
  IF old = NotInUse THEN [sem |-> old, ret |-> 0] ELSE [sem |-> old - 1, ret |-> 1]

==============================================================================
