---------------------------- MODULE TurnPrograms ----------------------------
(***************************************************************************)
(* Runs of pingpong and runs of tateti at the same time, over the one      *)
(* array of semaphores of the kernel.  Nothing in the kernel keeps one     *)
(* program from the semaphores of another: only the numbers the programs   *)
(* choose do, and the refusal of sem_open.                                 *)
(***************************************************************************)
EXTENDS SemObject, Sequences

CONSTANTS
  PingRuns, PingRounds,      \* the pids and the rounds of pingpong
  TatetiRuns, TatetiRounds,  \* the runs and the rounds of tateti
  ForkFails,                 \* the forks of tateti that may fail
  MAX_SEM, Taken             \* as in PingPong

ASSUME TurnAssumption ==
  /\ PingRuns \subseteq Nat \ {0} /\ PingRounds \in Nat \ {0}
  /\ TatetiRounds \in Nat \ {0} /\ ForkFails \subseteq {1, 2}
  /\ MAX_SEM \in Nat /\ Taken \subseteq Nat

VARIABLES
  sem,                                                \* the kernel's semaphores
  pingParent, pingChild, i, j, pingOut,               \* pingpong
  opener, main, idx, stop, at, round, tatetiOut, foreign  \* tateti

pingVars == <<pingParent, pingChild, i, j, pingOut>>
tatetiVars == <<opener, main, idx, stop, at, round, tatetiOut, foreign>>
vars == <<sem, pingVars, tatetiVars>>

P == INSTANCE PingPong WITH
  Runs <- PingRuns, N <- PingRounds,
  parent <- pingParent, child <- pingChild, out <- pingOut

T == INSTANCE TaTeTi WITH Runs <- TatetiRuns, N <- TatetiRounds, out <- tatetiOut

Init ==
  /\ P!LocalInit /\ T!LocalInit
  /\ sem = [id \in P!Ids \cup T!Words |-> IF id \in Taken THEN 0 ELSE NotInUse]

Next ==
  \/ P!Next /\ UNCHANGED tatetiVars
  \/ T!Next /\ UNCHANGED pingVars

Spec == Init /\ [][Next]_vars

------------------------------------------------------------------------------

\* The words of every run of pingpong alternate and those of every run of tateti
\* go round, whichever runs of either program start and end meanwhile.
InOrder == P!InOrder /\ T!InOrder

\* No run changes a semaphore another program has open.
ForeignKept == P!ForeignKept

\* A run of tateti closes only semaphores it opened itself.
ClosesItsOwn == T!ClosesItsOwn

\* A run of either program that ends, for whatever reason, leaves none of its
\* semaphores open.
LeavesClosed == P!LeavesClosed /\ T!LeavesClosed

\* No run of either program disturbs another's semaphores or forgets its own, whatever
\* fails: what it closes is what it opened, and all of it.
OwnSemaphores == ForeignKept /\ ClosesItsOwn /\ LeavesClosed

\* Every run of either program ends, having printed all its words if its forks worked.
AllRunsEnd == P!AllRunsEnd /\ T!AllRunsEnd

==============================================================================
