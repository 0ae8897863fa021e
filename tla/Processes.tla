------------------------------ MODULE Processes ------------------------------
(***************************************************************************)
(* The process table of the kernel and the two programs that take turns by *)
(* its semaphores, each with a state of its own, checked side by side: a   *)
(* behaviour is one of the part that it begins with.                       *)
(***************************************************************************)
EXTENDS TurnPrograms, ProcTable

VARIABLE part

Parts == {"table", "turns"}

ProcessesInit == part \in Parts /\ Init /\ ProcInit

ProcessesNext ==
  /\ UNCHANGED part
  /\ \/ part = "turns" /\ Next /\ UNCHANGED procVars
     \/ part = "table" /\ ProcNext /\ UNCHANGED vars

\* Every process of every run is scheduled again and again.
TurnFairness ==
  /\ \A r \in PingRuns :
       /\ WF_vars(part = "turns" /\ P!Step(r) /\ UNCHANGED tatetiVars)
       /\ WF_vars(part = "turns" /\ P!ChildStep(r) /\ UNCHANGED tatetiVars)
  /\ \A r \in TatetiRuns :
       /\ WF_vars(part = "turns" /\ T!MainStep(r) /\ UNCHANGED pingVars)
       /\ \A k \in T!Words :
            WF_vars(part = "turns" /\ T!LoopStep(r, k) /\ UNCHANGED pingVars)

\* What a thread does with wait_lock once it is let in: a fork, the exit of a killed
\* process, and the scan of a wait by who has slept in it, or by init.
TakesWaitLock(p) ==
  \/ ForkParent(p) \/ KilledExit(p)
  \/ WaitScan(p) /\ (p = initproc \/ pc[p] = "wait_asleep")

\* The kernel goes on with every thread, wait_lock is refused to none of them for ever,
\* and the program of init takes its next step.
TableFairness ==
  /\ WF_procVars(part = "table" /\ InitProgram)
  /\ \A p \in Slots :
       /\ WF_procVars(part = "table" /\ KernelStep(p))
       /\ SF_procVars(part = "table" /\ TakesWaitLock(p))

ProcessesSpec ==
  /\ ProcessesInit /\ [][ProcessesNext]_<<part, vars, procVars>>
  /\ TurnFairness /\ TableFairness

-------------------------------------------------------------------------------

\* Every run of pingpong and of tateti ends, having printed all its words if its forks
\* worked (main of both programs, over sem_down and sem_up).
RunsEnd == part = "turns" => AllRunsEnd

===============================================================================
