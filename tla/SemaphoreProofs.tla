--------------------------- MODULE SemaphoreProofs ---------------------------
(***************************************************************************)
(* Theorems about the semaphores of the kernel, for any processes,         *)
(* semaphores and initial values.                                          *)
(***************************************************************************)
EXTENDS SemRefinement, TLAPS

\* What a process in a handler knows of its own call.
CallFacts ==
  \A p \in Procs :
    /\ pc[p] \in PastCheck => req[p].op = "down"
    /\ pc[p] = "wakeup" => req[p].op \in {"up", "close"}
    /\ pc[p] = "wakeup" /\ req[p].op = "up" =>
         is_use[req[p].sem] /\ value[req[p].sem] = 0
    /\ pc[p] = "wakeup" /\ req[p].op = "close" => ret[p] = 1

IInv ==
  /\ TypeOK
  /\ LockOwner
  /\ CallFacts
  /\ ClosedIsVisible
  /\ PermitsNotNegative
  /\ NoLostWakeup

\* What the requests the wrappers accept look like.
LEMMA RequestFacts ==
  /\ \A r \in Requests : Valid(r) => r.sem \in Sems
  /\ \A r \in Requests : Valid(r) /\ r.op = "open" => r.val \in Nat
  /\ NoReq \notin Requests
  /\ \A r \in Requests : r.op \in {"open", "close", "up", "down"}
<1> USE SemAssumption DEF SemAssumption
<1>1. ASSUME NEW r \in Requests PROVE r.val \in Int
  <2>1. CASE r \in [op : {"open"}, sem : Sems \cup {BadSem}, val : OpenVals]
    BY <2>1
  <2>2. CASE r \in [op : {"close", "up", "down"}, sem : Sems \cup {BadSem}, val : {0}]
    BY <2>2
  <2> QED
    BY <2>1, <2>2 DEF Requests
<1> QED
  BY <1>1 DEF Requests, Valid, NoReq

\* The variables have their types in the zeroed memory of a kernel that boots.
LEMMA TypeInit == Init => TypeOK
BY SemAssumption DEF SemAssumption, Init, TypeOK, PcValues

\* No step of a handler, of sleep, wakeup or kill leaves those types.
LEMMA TypeStep == TypeOK /\ [Next]_vars => TypeOK'
<1> SUFFICES ASSUME TypeOK, [Next]_vars PROVE TypeOK'
  OBVIOUS
<1> USE SemAssumption, RequestFacts DEF SemAssumption, TypeOK, PcValues
<1>1. ASSUME NEW p \in Procs, Syscall(p) PROVE TypeOK'
  BY <1>1 DEF Syscall
<1>2. ASSUME NEW p \in Procs, Acquire(p) PROVE TypeOK'
  BY <1>2 DEF Acquire
<1>3. ASSUME NEW p \in Procs, Refuse(p) PROVE TypeOK'
  BY <1>3 DEF Refuse, Finish
<1>4. ASSUME NEW p \in Procs, OpenBody(p) PROVE TypeOK'
  <2>1. req[p].sem \in Sems /\ req[p].val \in Int
    BY <1>4 DEF OpenBody
  <2> QED
    BY <1>4, <2>1 DEF OpenBody, Finish
<1>5. ASSUME NEW p \in Procs, CloseBody(p) PROVE TypeOK'
  BY <1>5 DEF CloseBody, StartWakeup, CLOSED_SEM_VAL
<1>6. ASSUME NEW p \in Procs, UpBody(p) PROVE TypeOK'
  BY <1>6 DEF UpBody, StartWakeup, Increment, Finish
<1>7. ASSUME NEW p \in Procs, WakeOne(p) PROVE TypeOK'
  BY <1>7 DEF WakeOne
<1>8. ASSUME NEW p \in Procs, AfterWakeup(p) PROVE TypeOK'
  BY <1>8 DEF AfterWakeup, Increment, Finish
<1>9. ASSUME NEW p \in Procs, DownBody(p) PROVE TypeOK'
  BY <1>9 DEF DownBody, TakeOrSleep, Finish
<1>10. ASSUME NEW p \in Procs, SleepRelease(p) PROVE TypeOK'
  BY <1>10 DEF SleepRelease
<1>11. ASSUME NEW p \in Procs, SleepSched(p) PROVE TypeOK'
  BY <1>11 DEF SleepSched
<1>12. ASSUME NEW p \in Procs, Dispatch(p) PROVE TypeOK'
  BY <1>12 DEF Dispatch
<1>13. ASSUME NEW p \in Procs, Recheck(p) PROVE TypeOK'
  BY <1>13 DEF Recheck, TakeOrSleep, Finish
<1>14. ASSUME NEW p \in Procs, Return(p) PROVE TypeOK'
  BY <1>14 DEF Return
<1>15. ASSUME NEW p \in Procs, Exit(p) PROVE TypeOK'
  BY <1>15 DEF Exit
<1>16. ASSUME NEW p \in Procs, NEW q \in Procs, Kill(p, q) PROVE TypeOK'
  BY <1>16 DEF Kill
<1>17. CASE UNCHANGED vars
  BY <1>17 DEF vars
<1> QED
  BY <1>1, <1>2, <1>3, <1>4, <1>5, <1>6, <1>7, <1>8, <1>9, <1>10, <1>11, <1>12,
     <1>13, <1>14, <1>15, <1>16, <1>17 DEF Next, KernelStep

\* The variables keep the types of the code's declarations, and every process
\* in a handler is there with arguments its system-call wrapper accepted.
THEOREM TypeCorrect == Spec => []TypeOK
BY TypeInit, TypeStep, PTL DEF Spec

\* A critical section is entered by taking the lock and left by giving it back.
LEMMA LockStep == TypeOK /\ LockOwner /\ TypeOK' /\ [Next]_vars => LockOwner'
<1> SUFFICES ASSUME TypeOK /\ LockOwner, TypeOK', [Next]_vars PROVE LockOwner'
  OBVIOUS
<1> USE SemAssumption, RequestFacts DEF SemAssumption, TypeOK, PcValues, CLOSED_SEM_VAL,
      Holding, LockOwner
<1>1. ASSUME NEW p \in Procs, Syscall(p) PROVE LockOwner'
  BY <1>1 DEF Syscall
<1>2. ASSUME NEW p \in Procs, Acquire(p) PROVE LockOwner'
  BY <1>2 DEF Acquire
<1>3. ASSUME NEW p \in Procs, Refuse(p) PROVE LockOwner'
  BY <1>3 DEF Refuse, Finish
<1>4. ASSUME NEW p \in Procs, OpenBody(p) PROVE LockOwner'
  BY <1>4 DEF OpenBody, Finish
<1>5. ASSUME NEW p \in Procs, CloseBody(p) PROVE LockOwner'
  BY <1>5 DEF CloseBody, StartWakeup
<1>6. ASSUME NEW p \in Procs, UpBody(p) PROVE LockOwner'
  BY <1>6 DEF UpBody, StartWakeup, Increment, Finish
<1>7. ASSUME NEW p \in Procs, WakeOne(p) PROVE LockOwner'
  BY <1>7 DEF WakeOne, ProcLockHeld
<1>8. ASSUME NEW p \in Procs, AfterWakeup(p) PROVE LockOwner'
  BY <1>8 DEF AfterWakeup, Increment, Finish
<1>9. ASSUME NEW p \in Procs, DownBody(p) PROVE LockOwner'
  BY <1>9 DEF DownBody, TakeOrSleep, Finish
<1>10. ASSUME NEW p \in Procs, SleepRelease(p) PROVE LockOwner'
  BY <1>10 DEF SleepRelease
<1>11. ASSUME NEW p \in Procs, SleepSched(p) PROVE LockOwner'
  BY <1>11 DEF SleepSched
<1>12. ASSUME NEW p \in Procs, Dispatch(p) PROVE LockOwner'
  BY <1>12 DEF Dispatch
<1>13. ASSUME NEW p \in Procs, Recheck(p) PROVE LockOwner'
  BY <1>13 DEF Recheck, TakeOrSleep, Finish
<1>14. ASSUME NEW p \in Procs, Return(p) PROVE LockOwner'
  BY <1>14 DEF Return
<1>15. ASSUME NEW p \in Procs, Exit(p) PROVE LockOwner'
  BY <1>15 DEF Exit
<1>16. ASSUME NEW p \in Procs, NEW q \in Procs, Kill(p, q) PROVE LockOwner'
  BY <1>16 DEF Kill
<1>17. CASE UNCHANGED vars
  BY <1>17 DEF vars
<1> QED
  BY <1>1, <1>2, <1>3, <1>4, <1>5, <1>6, <1>7, <1>8, <1>9, <1>10, <1>11, <1>12,
     <1>13, <1>14, <1>15, <1>16, <1>17 DEF Next, KernelStep

\* What a handler found under the lock stays true until it gives the lock back.
LEMMA CallStep == TypeOK /\ LockOwner /\ CallFacts /\ TypeOK' /\ [Next]_vars => CallFacts'
<1> SUFFICES ASSUME TypeOK /\ LockOwner /\ CallFacts, TypeOK', [Next]_vars PROVE CallFacts'
  OBVIOUS
<1> USE SemAssumption, RequestFacts DEF SemAssumption, TypeOK, PcValues, CLOSED_SEM_VAL,
      Holding, PastCheck, LockOwner, CallFacts
<1>1. ASSUME NEW p \in Procs, Syscall(p) PROVE CallFacts'
  BY <1>1 DEF Syscall
<1>2. ASSUME NEW p \in Procs, Acquire(p) PROVE CallFacts'
  BY <1>2 DEF Acquire
<1>3. ASSUME NEW p \in Procs, Refuse(p) PROVE CallFacts'
  BY <1>3 DEF Refuse, Finish
<1>4. ASSUME NEW p \in Procs, OpenBody(p) PROVE CallFacts'
  BY <1>4 DEF OpenBody, Finish
<1>5. ASSUME NEW p \in Procs, CloseBody(p) PROVE CallFacts'
  BY <1>5 DEF CloseBody, StartWakeup
<1>6. ASSUME NEW p \in Procs, UpBody(p) PROVE CallFacts'
  BY <1>6 DEF UpBody, StartWakeup, Increment, Finish
<1>7. ASSUME NEW p \in Procs, WakeOne(p) PROVE CallFacts'
  BY <1>7 DEF WakeOne, ProcLockHeld
<1>8. ASSUME NEW p \in Procs, AfterWakeup(p) PROVE CallFacts'
  BY <1>8 DEF AfterWakeup, Increment, Finish
<1>9. ASSUME NEW p \in Procs, DownBody(p) PROVE CallFacts'
  BY <1>9 DEF DownBody, TakeOrSleep, Finish
<1>10. ASSUME NEW p \in Procs, SleepRelease(p) PROVE CallFacts'
  BY <1>10 DEF SleepRelease
<1>11. ASSUME NEW p \in Procs, SleepSched(p) PROVE CallFacts'
  BY <1>11 DEF SleepSched
<1>12. ASSUME NEW p \in Procs, Dispatch(p) PROVE CallFacts'
  BY <1>12 DEF Dispatch
<1>13. ASSUME NEW p \in Procs, Recheck(p) PROVE CallFacts'
  BY <1>13 DEF Recheck, TakeOrSleep, Finish
<1>14. ASSUME NEW p \in Procs, Return(p) PROVE CallFacts'
  BY <1>14 DEF Return
<1>15. ASSUME NEW p \in Procs, Exit(p) PROVE CallFacts'
  BY <1>15 DEF Exit
<1>16. ASSUME NEW p \in Procs, NEW q \in Procs, Kill(p, q) PROVE CallFacts'
  BY <1>16 DEF Kill
<1>17. CASE UNCHANGED vars
  BY <1>17 DEF vars
<1> QED
  BY <1>1, <1>2, <1>3, <1>4, <1>5, <1>6, <1>7, <1>8, <1>9, <1>10, <1>11, <1>12,
     <1>13, <1>14, <1>15, <1>16, <1>17 DEF Next, KernelStep

\* Only sem_close ends the use of a semaphore, and it writes CLOSED_SEM_VAL.
LEMMA ClosedStep == TypeOK /\ LockOwner /\ CallFacts /\ PermitsNotNegative /\
      ClosedIsVisible /\ TypeOK' /\ [Next]_vars => ClosedIsVisible'
<1> SUFFICES ASSUME TypeOK /\ LockOwner /\ CallFacts /\ PermitsNotNegative /\
      ClosedIsVisible, TypeOK', [Next]_vars PROVE ClosedIsVisible'
  OBVIOUS
<1> USE SemAssumption, RequestFacts DEF SemAssumption, TypeOK, PcValues, CLOSED_SEM_VAL,
      Holding, PastCheck, LockOwner, CallFacts, PermitsNotNegative, ClosedIsVisible
<1>1. ASSUME NEW p \in Procs, Syscall(p) PROVE ClosedIsVisible'
  BY <1>1 DEF Syscall
<1>2. ASSUME NEW p \in Procs, Acquire(p) PROVE ClosedIsVisible'
  BY <1>2 DEF Acquire
<1>3. ASSUME NEW p \in Procs, Refuse(p) PROVE ClosedIsVisible'
  BY <1>3 DEF Refuse, Finish
<1>4. ASSUME NEW p \in Procs, OpenBody(p) PROVE ClosedIsVisible'
  BY <1>4 DEF OpenBody, Finish
<1>5. ASSUME NEW p \in Procs, CloseBody(p) PROVE ClosedIsVisible'
  BY <1>5 DEF CloseBody, StartWakeup
<1>6. ASSUME NEW p \in Procs, UpBody(p) PROVE ClosedIsVisible'
  BY <1>6 DEF UpBody, StartWakeup, Increment, Finish
<1>7. ASSUME NEW p \in Procs, WakeOne(p) PROVE ClosedIsVisible'
  BY <1>7 DEF WakeOne, ProcLockHeld
<1>8. ASSUME NEW p \in Procs, AfterWakeup(p) PROVE ClosedIsVisible'
  BY <1>8 DEF AfterWakeup, Increment, Finish
<1>9. ASSUME NEW p \in Procs, DownBody(p) PROVE ClosedIsVisible'
  BY <1>9 DEF DownBody, TakeOrSleep, Finish
<1>10. ASSUME NEW p \in Procs, SleepRelease(p) PROVE ClosedIsVisible'
  BY <1>10 DEF SleepRelease
<1>11. ASSUME NEW p \in Procs, SleepSched(p) PROVE ClosedIsVisible'
  BY <1>11 DEF SleepSched
<1>12. ASSUME NEW p \in Procs, Dispatch(p) PROVE ClosedIsVisible'
  BY <1>12 DEF Dispatch
<1>13. ASSUME NEW p \in Procs, Recheck(p) PROVE ClosedIsVisible'
  BY <1>13 DEF Recheck, TakeOrSleep, Finish
<1>14. ASSUME NEW p \in Procs, Return(p) PROVE ClosedIsVisible'
  BY <1>14 DEF Return
<1>15. ASSUME NEW p \in Procs, Exit(p) PROVE ClosedIsVisible'
  BY <1>15 DEF Exit
<1>16. ASSUME NEW p \in Procs, NEW q \in Procs, Kill(p, q) PROVE ClosedIsVisible'
  BY <1>16 DEF Kill
<1>17. CASE UNCHANGED vars
  BY <1>17 DEF vars
<1> QED
  BY <1>1, <1>2, <1>3, <1>4, <1>5, <1>6, <1>7, <1>8, <1>9, <1>10, <1>11, <1>12,
     <1>13, <1>14, <1>15, <1>16, <1>17 DEF Next, KernelStep

\* sem_down takes a permit only from a positive value.
LEMMA PermitsStep == TypeOK /\ LockOwner /\ CallFacts /\ ClosedIsVisible /\
      PermitsNotNegative /\ TypeOK' /\ [Next]_vars => PermitsNotNegative'
<1> SUFFICES ASSUME TypeOK /\ LockOwner /\ CallFacts /\ ClosedIsVisible /\
      PermitsNotNegative, TypeOK', [Next]_vars PROVE PermitsNotNegative'
  OBVIOUS
<1> USE SemAssumption, RequestFacts DEF SemAssumption, TypeOK, PcValues, CLOSED_SEM_VAL,
      Holding, PastCheck, LockOwner, CallFacts, ClosedIsVisible, PermitsNotNegative
<1>1. ASSUME NEW p \in Procs, Syscall(p) PROVE PermitsNotNegative'
  BY <1>1 DEF Syscall
<1>2. ASSUME NEW p \in Procs, Acquire(p) PROVE PermitsNotNegative'
  BY <1>2 DEF Acquire
<1>3. ASSUME NEW p \in Procs, Refuse(p) PROVE PermitsNotNegative'
  BY <1>3 DEF Refuse, Finish
<1>4. ASSUME NEW p \in Procs, OpenBody(p) PROVE PermitsNotNegative'
  BY <1>4 DEF OpenBody, Finish
<1>5. ASSUME NEW p \in Procs, CloseBody(p) PROVE PermitsNotNegative'
  BY <1>5 DEF CloseBody, StartWakeup
<1>6. ASSUME NEW p \in Procs, UpBody(p) PROVE PermitsNotNegative'
  BY <1>6 DEF UpBody, StartWakeup, Increment, Finish
<1>7. ASSUME NEW p \in Procs, WakeOne(p) PROVE PermitsNotNegative'
  BY <1>7 DEF WakeOne, ProcLockHeld
<1>8. ASSUME NEW p \in Procs, AfterWakeup(p) PROVE PermitsNotNegative'
  BY <1>8 DEF AfterWakeup, Increment, Finish
<1>9. ASSUME NEW p \in Procs, DownBody(p) PROVE PermitsNotNegative'
  BY <1>9 DEF DownBody, TakeOrSleep, Finish
<1>10. ASSUME NEW p \in Procs, SleepRelease(p) PROVE PermitsNotNegative'
  BY <1>10 DEF SleepRelease
<1>11. ASSUME NEW p \in Procs, SleepSched(p) PROVE PermitsNotNegative'
  BY <1>11 DEF SleepSched
<1>12. ASSUME NEW p \in Procs, Dispatch(p) PROVE PermitsNotNegative'
  BY <1>12 DEF Dispatch
<1>13. ASSUME NEW p \in Procs, Recheck(p) PROVE PermitsNotNegative'
  BY <1>13 DEF Recheck, TakeOrSleep, Finish
<1>14. ASSUME NEW p \in Procs, Return(p) PROVE PermitsNotNegative'
  BY <1>14 DEF Return
<1>15. ASSUME NEW p \in Procs, Exit(p) PROVE PermitsNotNegative'
  BY <1>15 DEF Exit
<1>16. ASSUME NEW p \in Procs, NEW q \in Procs, Kill(p, q) PROVE PermitsNotNegative'
  BY <1>16 DEF Kill
<1>17. CASE UNCHANGED vars
  BY <1>17 DEF vars
<1> QED
  BY <1>1, <1>2, <1>3, <1>4, <1>5, <1>6, <1>7, <1>8, <1>9, <1>10, <1>11, <1>12,
     <1>13, <1>14, <1>15, <1>16, <1>17 DEF Next, KernelStep

\* A process falls asleep with p->lock held from before it gives up the lock of the
\* semaphore, so a wakeup loop that starts later waits for it to be SLEEPING.
LEMMA WakeupStep == TypeOK /\ LockOwner /\ CallFacts /\ ClosedIsVisible /\ NoLostWakeup
      /\ TypeOK' /\ [Next]_vars => NoLostWakeup'
<1> SUFFICES ASSUME TypeOK /\ LockOwner /\ CallFacts /\ ClosedIsVisible /\ NoLostWakeup,
      TypeOK', [Next]_vars PROVE NoLostWakeup'
  OBVIOUS
<1> USE SemAssumption, RequestFacts DEF SemAssumption, TypeOK, PcValues, CLOSED_SEM_VAL,
      Holding, PastCheck, LockOwner, CallFacts, ClosedIsVisible, NoLostWakeup, Waiting,
      Waking
<1>1. ASSUME NEW p \in Procs, Syscall(p) PROVE NoLostWakeup'
  BY <1>1 DEF Syscall
<1>2. ASSUME NEW p \in Procs, Acquire(p) PROVE NoLostWakeup'
  BY <1>2 DEF Acquire
<1>3. ASSUME NEW p \in Procs, Refuse(p) PROVE NoLostWakeup'
  BY <1>3 DEF Refuse, Finish
<1>4. ASSUME NEW p \in Procs, OpenBody(p) PROVE NoLostWakeup'
  BY <1>4 DEF OpenBody, Finish
<1>5. ASSUME NEW p \in Procs, CloseBody(p) PROVE NoLostWakeup'
  BY <1>5 DEF CloseBody, StartWakeup
<1>6. ASSUME NEW p \in Procs, UpBody(p) PROVE NoLostWakeup'
  BY <1>6 DEF UpBody, StartWakeup, Increment, Finish
<1>7. ASSUME NEW p \in Procs, WakeOne(p) PROVE NoLostWakeup'
  BY <1>7 DEF WakeOne, ProcLockHeld
<1>8. ASSUME NEW p \in Procs, AfterWakeup(p) PROVE NoLostWakeup'
  BY <1>8 DEF AfterWakeup, Increment, Finish
<1>9. ASSUME NEW p \in Procs, DownBody(p) PROVE NoLostWakeup'
  BY <1>9 DEF DownBody, TakeOrSleep, Finish
<1>10. ASSUME NEW p \in Procs, SleepRelease(p) PROVE NoLostWakeup'
  BY <1>10 DEF SleepRelease
<1>11. ASSUME NEW p \in Procs, SleepSched(p) PROVE NoLostWakeup'
  BY <1>11 DEF SleepSched
<1>12. ASSUME NEW p \in Procs, Dispatch(p) PROVE NoLostWakeup'
  BY <1>12 DEF Dispatch
<1>13. ASSUME NEW p \in Procs, Recheck(p) PROVE NoLostWakeup'
  BY <1>13 DEF Recheck, TakeOrSleep, Finish
<1>14. ASSUME NEW p \in Procs, Return(p) PROVE NoLostWakeup'
  BY <1>14 DEF Return
<1>15. ASSUME NEW p \in Procs, Exit(p) PROVE NoLostWakeup'
  BY <1>15 DEF Exit
<1>16. ASSUME NEW p \in Procs, NEW q \in Procs, Kill(p, q) PROVE NoLostWakeup'
  BY <1>16 DEF Kill
<1>17. CASE UNCHANGED vars
  BY <1>17 DEF vars
<1> QED
  BY <1>1, <1>2, <1>3, <1>4, <1>5, <1>6, <1>7, <1>8, <1>9, <1>10, <1>11, <1>12,
     <1>13, <1>14, <1>15, <1>16, <1>17 DEF Next, KernelStep

\* The inductive invariant holds at boot.
LEMMA IInvInit == Init => IInv
<1> SUFFICES ASSUME Init PROVE IInv
  OBVIOUS
<1>1. LockOwner /\ CallFacts /\ ClosedIsVisible /\ PermitsNotNegative /\ NoLostWakeup
  BY DEF Init, LockOwner, Holding, CallFacts, ClosedIsVisible, PastCheck,
    PermitsNotNegative, NoLostWakeup, Waiting
<1> QED
  BY <1>1, TypeInit DEF IInv

\* Each step keeps it: the parts are proved one by one above, and each uses
\* the parts proved before it.
LEMMA IInvStep == IInv /\ [Next]_vars => IInv'
BY TypeStep, LockStep, CallStep, ClosedStep, PermitsStep, WakeupStep DEF IInv

\* The inductive invariant of the handlers: the types, the ownership of the
\* locks, what a handler knows under its lock and what sem_down may rely on.
THEOREM InductiveInvariant == Spec => []IInv
BY IInvInit, IInvStep, PTL DEF Spec

\* Mutual exclusion: whatever path the processes take through the handlers,
\* each is in a critical section of a semaphore only as the holder of its lock,
\* and no path leaves the lock taken.
THEOREM MutualExclusion == Spec => []LockOwner
<1>1. IInv => LockOwner
  BY DEF IInv
<1> QED
  BY <1>1, InductiveInvariant, PTL

\* No process sleeps through the wakeup that was meant for it, for any number
\* of processes, semaphores and kills.
THEOREM WakeupsReachSleepers == Spec => []NoLostWakeup
<1>1. IInv => NoLostWakeup
  BY DEF IInv
<1> QED
  BY <1>1, InductiveInvariant, PTL

\* A semaphore closed under a process in sem_down shows it CLOSED_SEM_VAL, and
\* the process goes to sleep only on an open semaphore without permits.
THEOREM CloseIsSeen == Spec => []ClosedIsVisible
<1>1. IInv => ClosedIsVisible
  BY DEF IInv
<1> QED
  BY <1>1, InductiveInvariant, PTL

\* sem_down never takes a permit that is not there.
THEOREM NoOverdraft == Spec => []PermitsNotNegative
<1>1. IInv => PermitsNotNegative
  BY DEF IInv
<1> QED
  BY <1>1, InductiveInvariant, PTL

------------------------------------------------------------------------------
(***************************************************************************)
(* The refinement: each step of the kernel is one step of the linearizable *)
(* object, or leaves it as it is.                                          *)
(***************************************************************************)

\* A step that leaves the calls of the other processes alone changes the phase
\* of one process.
LEMMA PhaseUpdate ==
  ASSUME NEW p \in Procs, NEW x,
         \A q \in Procs \ {p} : pc'[q] = pc[q] /\ req'[q] = req[q],
         PhaseOf(p)' = x
  PROVE  absPhase' = [absPhase EXCEPT ![p] = x]
BY DEF absPhase, PhaseOf

\* The same for the semaphores.
LEMMA SemUpdate ==
  ASSUME NEW s \in Sems, NEW x,
         \A t \in Sems \ {s} : value'[t] = value[t] /\ is_use'[t] = is_use[t],
         SemOf(s)' = x
  PROVE  absSem' = [absSem EXCEPT ![s] = x]
BY DEF absSem, SemOf

\* The outcome of a request is the one of its operation.
LEMMA OutcomeOf ==
  ASSUME NEW r, NEW old
  PROVE  /\ r.op = "open" => Abstract!Outcome(r, old) = Abstract!OpenSem(old, r.val)
         /\ r.op = "close" => Abstract!Outcome(r, old) = Abstract!CloseSem(old)
         /\ r.op = "up" => Abstract!Outcome(r, old) = Abstract!UpSem(old)
         /\ r.op = "down" => Abstract!Outcome(r, old) = Abstract!DownSem(old)
BY DEF Abstract!Outcome

\* When process p runs the effect of its call on semaphore s of the object.
LEMMA EffectOf ==
  ASSUME NEW p \in Procs, NEW s \in Sems, s = req[p].sem,
         PhaseOf(p) = "called", PhaseOf(p)' = "done",
         req' = req, \A q \in Procs \ {p} : pc'[q] = pc[q],
         \A t \in Sems \ {s} : value'[t] = value[t] /\ is_use'[t] = is_use[t],
         req[p].op = "down" => SemOf(s) # 0,
         SemOf(s)' = Abstract!Outcome(req[p], SemOf(s)).sem,
         ret' = [ret EXCEPT ![p] = Abstract!Outcome(req[p], SemOf(s)).ret]
  PROVE  Abstract!Effect(p)
<1>1. absPhase' = [absPhase EXCEPT ![p] = "done"]
  BY PhaseUpdate
<1>2. absSem' = [absSem EXCEPT ![s] = Abstract!Outcome(req[p], SemOf(s)).sem]
  BY SemUpdate
<1>3. absSem[s] = SemOf(s) /\ absPhase[p] = "called"
  BY DEF absSem, absPhase
<1> QED
  BY <1>1, <1>2, <1>3 DEF Abstract!Effect, Abstract!DownBlocks

\* The kernel boots with an object whose semaphores are all closed.
LEMMA RefinementInit == Init => Abstract!Init
BY DEF Init, Abstract!Init, absSem, absPhase, SemOf, PhaseOf, CLOSED_SEM_VAL, Abstract!NotInUse

\* A step of the linearizable object, or one that leaves it as it is.
AbsStep == [Abstract!Next]_(Abstract!semVars)

\* Every step of the kernel is a step of the object or leaves it as it is.
LEMMA RefinementStep == IInv /\ IInv' /\ [Next]_vars => AbsStep
<1> SUFFICES ASSUME IInv, IInv', [Next]_vars PROVE AbsStep
  OBVIOUS
<1>0. TypeOK /\ CallFacts /\ LockOwner /\ ClosedIsVisible /\ PermitsNotNegative
  BY DEF IInv
<1> USE SemAssumption, RequestFacts DEF SemAssumption, TypeOK
<1>1. ASSUME NEW p \in Procs, Syscall(p) PROVE AbsStep
  <2>1. PICK r \in Requests :
          /\ req' = [req EXCEPT ![p] = r]
          /\ IF Valid(r)
               THEN pc' = [pc EXCEPT ![p] = "acquire"] /\ ret' = ret
               ELSE pc' = [pc EXCEPT ![p] = "return"] /\ ret' = [ret EXCEPT ![p] = -1]
    BY <1>1 DEF Syscall
  <2>2. absSem' = absSem /\ absPhase[p] = "idle"
    BY <1>1 DEF Syscall, absSem, SemOf, absPhase, PhaseOf
  <2>3. absPhase' = [absPhase EXCEPT ![p] = IF Valid(r) THEN "called" ELSE "done"]
    BY <1>0, <2>1, PhaseUpdate DEF PhaseOf
  <2>4. Abstract!Invoke(p, r)
    BY <2>1, <2>2, <2>3 DEF Abstract!Invoke
  <2> QED
    BY <2>4 DEF AbsStep, Abstract!Next
<1>2. ASSUME NEW p \in Procs, Acquire(p) PROVE AbsStep
BY <1>0, <1>2 DEF CallFacts, Acquire, AbsStep, Abstract!semVars, absSem, SemOf,
      absPhase, PhaseOf
<1>3. ASSUME NEW p \in Procs, Refuse(p) PROVE AbsStep
  <2>1. PICK s \in Sems : s = req[p].sem
    BY <1>0, <1>3 DEF CallFacts, Refuse, Finish
  <2>2. PhaseOf(p) = "called" /\ PhaseOf(p)' = "done" /\ req' = req
    BY <1>0, <1>3 DEF CallFacts, Refuse, Finish, PhaseOf
  <2>3. /\ \A q \in Procs \ {p} : pc'[q] = pc[q]
        /\ \A t \in Sems \ {s} : value'[t] = value[t] /\ is_use'[t] = is_use[t]
    BY <1>0, <1>3, <2>1 DEF CallFacts, Refuse, Finish
  <2>4. SemOf(s) = -1 /\ SemOf(s) # 0 /\ SemOf(s)' = -1 /\ ret' = [ret EXCEPT ![p] = 0]
    BY <1>0, <1>3, <2>1 DEF Refuse, Finish, SemOf, CLOSED_SEM_VAL
  <2>5. /\ Abstract!Outcome(req[p], SemOf(s)).sem = -1
        /\ Abstract!Outcome(req[p], SemOf(s)).ret = 0
    <3>1. req[p].op \in {"close", "up", "down"}
      BY <1>0, <1>3 DEF Refuse
    <3> QED
      BY <2>4, <3>1, OutcomeOf
        DEF Abstract!NotInUse, Abstract!CloseSem, Abstract!UpSem, Abstract!DownSem
  <2>6. /\ req[p].op = "down" => SemOf(s) # 0
        /\ SemOf(s)' = Abstract!Outcome(req[p], SemOf(s)).sem
        /\ ret' = [ret EXCEPT ![p] = Abstract!Outcome(req[p], SemOf(s)).ret]
    BY <2>4, <2>5
  <2>7. Abstract!Effect(p)
    BY <2>1, <2>2, <2>3, <2>6, EffectOf
  <2> QED
    BY <2>7 DEF AbsStep, Abstract!Next
<1>4. ASSUME NEW p \in Procs, OpenBody(p) PROVE AbsStep
  <2>1. PICK s \in Sems : s = req[p].sem
    BY <1>0, <1>4 DEF CallFacts, OpenBody, Finish
  <2>2. PhaseOf(p) = "called" /\ PhaseOf(p)' = "done" /\ req' = req
    BY <1>0, <1>4 DEF CallFacts, OpenBody, Finish, PhaseOf
  <2>3. /\ \A q \in Procs \ {p} : pc'[q] = pc[q]
        /\ \A t \in Sems \ {s} : value'[t] = value[t] /\ is_use'[t] = is_use[t]
    BY <1>0, <1>4, <2>1 DEF CallFacts, OpenBody, Finish
  <2>4. /\ req[p].op = "down" => SemOf(s) # 0
        /\ SemOf(s)' = Abstract!Outcome(req[p], SemOf(s)).sem
        /\ ret' = [ret EXCEPT ![p] = Abstract!Outcome(req[p], SemOf(s)).ret]
    BY <1>0, <1>4, <2>1, OutcomeOf
      DEF CallFacts, ClosedIsVisible, PermitsNotNegative, PastCheck, CLOSED_SEM_VAL, Abstract!NotInUse,
        OpenBody, Finish, SemOf, Abstract!OpenSem, Abstract!CloseSem,
        Abstract!UpSem, Abstract!DownSem
  <2>5. Abstract!Effect(p)
    BY <2>1, <2>2, <2>3, <2>4, EffectOf
  <2> QED
    BY <2>5 DEF AbsStep, Abstract!Next
<1>5. ASSUME NEW p \in Procs, CloseBody(p) PROVE AbsStep
  <2>1. PICK s \in Sems : s = req[p].sem
    BY <1>0, <1>5 DEF CallFacts, CloseBody, StartWakeup
  <2>2. PhaseOf(p) = "called" /\ PhaseOf(p)' = "done" /\ req' = req
    BY <1>0, <1>5 DEF CallFacts, CloseBody, StartWakeup, PhaseOf
  <2>3. /\ \A q \in Procs \ {p} : pc'[q] = pc[q]
        /\ \A t \in Sems \ {s} : value'[t] = value[t] /\ is_use'[t] = is_use[t]
    BY <1>0, <1>5, <2>1 DEF CallFacts, CloseBody, StartWakeup
  <2>4. SemOf(s) \in Nat /\ SemOf(s)' = -1 /\ ret' = [ret EXCEPT ![p] = 1]
BY <1>0, <1>5, <2>1 DEF CloseBody, StartWakeup, SemOf, CLOSED_SEM_VAL,
      PermitsNotNegative
  <2>5. Abstract!Outcome(req[p], SemOf(s)) = [sem |-> -1, ret |-> 1] /\ req[p].op = "close"
    BY <1>5, <2>4, OutcomeOf DEF CloseBody, Abstract!NotInUse, Abstract!CloseSem
  <2>6. /\ req[p].op = "down" => SemOf(s) # 0
        /\ SemOf(s)' = Abstract!Outcome(req[p], SemOf(s)).sem
        /\ ret' = [ret EXCEPT ![p] = Abstract!Outcome(req[p], SemOf(s)).ret]
    BY <2>4, <2>5
  <2>7. Abstract!Effect(p)
    BY <2>1, <2>2, <2>3, <2>6, EffectOf
  <2> QED
    BY <2>7 DEF AbsStep, Abstract!Next
<1>6. ASSUME NEW p \in Procs, UpBody(p) PROVE AbsStep
  <2>1. CASE value[req[p].sem] # 0
    <3>1. PICK s \in Sems : s = req[p].sem
      BY <1>0, <1>6, <2>1 DEF CallFacts, UpBody, StartWakeup, Increment, Finish
    <3>2. PhaseOf(p) = "called" /\ PhaseOf(p)' = "done" /\ req' = req
      BY <1>0, <1>6, <2>1 DEF CallFacts, UpBody, StartWakeup, Increment, Finish, PhaseOf
    <3>3. /\ \A q \in Procs \ {p} : pc'[q] = pc[q]
          /\ \A t \in Sems \ {s} : value'[t] = value[t] /\ is_use'[t] = is_use[t]
      BY <1>0, <1>6, <2>1, <3>1 DEF CallFacts, UpBody, StartWakeup, Increment, Finish
    <3>4. /\ req[p].op = "down" => SemOf(s) # 0
          /\ SemOf(s)' = Abstract!Outcome(req[p], SemOf(s)).sem
          /\ ret' = [ret EXCEPT ![p] = Abstract!Outcome(req[p], SemOf(s)).ret]
      BY <1>0, <1>6, <2>1, <3>1, OutcomeOf
      DEF CallFacts, ClosedIsVisible, PermitsNotNegative, PastCheck, CLOSED_SEM_VAL, Abstract!NotInUse,
        UpBody, StartWakeup, Increment, Finish, SemOf, Abstract!OpenSem, Abstract!CloseSem,
          Abstract!UpSem, Abstract!DownSem
    <3>5. Abstract!Effect(p)
      BY <3>1, <3>2, <3>3, <3>4, EffectOf
    <3> QED
      BY <3>5 DEF AbsStep, Abstract!Next
  <2>2. CASE ~(value[req[p].sem] # 0)
BY <1>0, <1>6, <2>2 DEF CallFacts, UpBody, StartWakeup, Increment, Finish, AbsStep,
      Abstract!semVars, absSem, SemOf, absPhase, PhaseOf
  <2> QED
    BY <2>1, <2>2
<1>7. ASSUME NEW p \in Procs, WakeOne(p) PROVE AbsStep
BY <1>0, <1>7 DEF CallFacts, WakeOne, ProcLockHeld, AbsStep, Abstract!semVars, absSem,
      SemOf, absPhase, PhaseOf
<1>8. ASSUME NEW p \in Procs, AfterWakeup(p) PROVE AbsStep
  <2>1. CASE req[p].op = "up"
    <3>1. PICK s \in Sems : s = req[p].sem
      BY <1>0, <1>8, <2>1 DEF CallFacts, AfterWakeup, Increment, Finish
    <3>2. PhaseOf(p) = "called" /\ PhaseOf(p)' = "done" /\ req' = req
      BY <1>0, <1>8, <2>1 DEF CallFacts, AfterWakeup, Increment, Finish, PhaseOf
    <3>3. /\ \A q \in Procs \ {p} : pc'[q] = pc[q]
          /\ \A t \in Sems \ {s} : value'[t] = value[t] /\ is_use'[t] = is_use[t]
      BY <1>0, <1>8, <2>1, <3>1 DEF CallFacts, AfterWakeup, Increment, Finish
    <3>4. /\ req[p].op = "down" => SemOf(s) # 0
          /\ SemOf(s)' = Abstract!Outcome(req[p], SemOf(s)).sem
          /\ ret' = [ret EXCEPT ![p] = Abstract!Outcome(req[p], SemOf(s)).ret]
      BY <1>0, <1>8, <2>1, <3>1, OutcomeOf
      DEF CallFacts, ClosedIsVisible, PermitsNotNegative, PastCheck, CLOSED_SEM_VAL, Abstract!NotInUse,
        AfterWakeup, Increment, Finish, SemOf, Abstract!OpenSem, Abstract!CloseSem,
          Abstract!UpSem, Abstract!DownSem
    <3>5. Abstract!Effect(p)
      BY <3>1, <3>2, <3>3, <3>4, EffectOf
    <3> QED
      BY <3>5 DEF AbsStep, Abstract!Next
  <2>2. CASE ~(req[p].op = "up")
BY <1>0, <1>8, <2>2 DEF CallFacts, AfterWakeup, Increment, Finish, AbsStep,
      Abstract!semVars, absSem, SemOf, absPhase, PhaseOf
  <2> QED
    BY <2>1, <2>2
<1>9. ASSUME NEW p \in Procs, DownBody(p) PROVE AbsStep
  <2>1. CASE value[req[p].sem] # 0
    <3>1. PICK s \in Sems : s = req[p].sem
      BY <1>0, <1>9, <2>1 DEF CallFacts, DownBody, TakeOrSleep, Finish
    <3>2. PhaseOf(p) = "called" /\ PhaseOf(p)' = "done" /\ req' = req
      BY <1>0, <1>9, <2>1 DEF CallFacts, DownBody, TakeOrSleep, Finish, PhaseOf
    <3>3. /\ \A q \in Procs \ {p} : pc'[q] = pc[q]
          /\ \A t \in Sems \ {s} : value'[t] = value[t] /\ is_use'[t] = is_use[t]
      BY <1>0, <1>9, <2>1, <3>1 DEF CallFacts, DownBody, TakeOrSleep, Finish
    <3>4. /\ req[p].op = "down" => SemOf(s) # 0
          /\ SemOf(s)' = Abstract!Outcome(req[p], SemOf(s)).sem
          /\ ret' = [ret EXCEPT ![p] = Abstract!Outcome(req[p], SemOf(s)).ret]
      BY <1>0, <1>9, <2>1, <3>1, OutcomeOf
      DEF CallFacts, ClosedIsVisible, PermitsNotNegative, PastCheck, CLOSED_SEM_VAL, Abstract!NotInUse,
        DownBody, TakeOrSleep, Finish, SemOf, Abstract!OpenSem, Abstract!CloseSem,
          Abstract!UpSem, Abstract!DownSem
    <3>5. Abstract!Effect(p)
      BY <3>1, <3>2, <3>3, <3>4, EffectOf
    <3> QED
      BY <3>5 DEF AbsStep, Abstract!Next
  <2>2. CASE ~(value[req[p].sem] # 0)
BY <1>0, <1>9, <2>2 DEF CallFacts, DownBody, TakeOrSleep, Finish, AbsStep,
      Abstract!semVars, absSem, SemOf, absPhase, PhaseOf
  <2> QED
    BY <2>1, <2>2
<1>10. ASSUME NEW p \in Procs, SleepRelease(p) PROVE AbsStep
BY <1>0, <1>10 DEF CallFacts, SleepRelease, AbsStep, Abstract!semVars, absSem, SemOf,
      absPhase, PhaseOf
<1>11. ASSUME NEW p \in Procs, SleepSched(p) PROVE AbsStep
BY <1>0, <1>11 DEF CallFacts, SleepSched, AbsStep, Abstract!semVars, absSem, SemOf,
      absPhase, PhaseOf
<1>12. ASSUME NEW p \in Procs, Dispatch(p) PROVE AbsStep
BY <1>0, <1>12 DEF CallFacts, Dispatch, AbsStep, Abstract!semVars, absSem, SemOf,
      absPhase, PhaseOf
<1>13. ASSUME NEW p \in Procs, Recheck(p) PROVE AbsStep
  <2>1. CASE value[req[p].sem] # 0
    <3>1. PICK s \in Sems : s = req[p].sem
      BY <1>0, <1>13, <2>1 DEF CallFacts, Recheck, TakeOrSleep, Finish
    <3>2. PhaseOf(p) = "called" /\ PhaseOf(p)' = "done" /\ req' = req
      BY <1>0, <1>13, <2>1 DEF CallFacts, Recheck, TakeOrSleep, Finish, PhaseOf
    <3>3. /\ \A q \in Procs \ {p} : pc'[q] = pc[q]
          /\ \A t \in Sems \ {s} : value'[t] = value[t] /\ is_use'[t] = is_use[t]
      BY <1>0, <1>13, <2>1, <3>1 DEF CallFacts, Recheck, TakeOrSleep, Finish
    <3>4. /\ req[p].op = "down" => SemOf(s) # 0
          /\ SemOf(s)' = Abstract!Outcome(req[p], SemOf(s)).sem
          /\ ret' = [ret EXCEPT ![p] = Abstract!Outcome(req[p], SemOf(s)).ret]
      BY <1>0, <1>13, <2>1, <3>1, OutcomeOf
      DEF CallFacts, ClosedIsVisible, PermitsNotNegative, PastCheck, CLOSED_SEM_VAL, Abstract!NotInUse,
        Recheck, TakeOrSleep, Finish, SemOf, Abstract!OpenSem, Abstract!CloseSem,
          Abstract!UpSem, Abstract!DownSem
    <3>5. Abstract!Effect(p)
      BY <3>1, <3>2, <3>3, <3>4, EffectOf
    <3> QED
      BY <3>5 DEF AbsStep, Abstract!Next
  <2>2. CASE ~(value[req[p].sem] # 0)
BY <1>0, <1>13, <2>2 DEF CLOSED_SEM_VAL, CallFacts, Recheck, TakeOrSleep, Finish,
      AbsStep, Abstract!semVars, absSem, SemOf, absPhase, PhaseOf
  <2> QED
    BY <2>1, <2>2
<1>14. ASSUME NEW p \in Procs, Return(p) PROVE AbsStep
  <2>1. absPhase' = [absPhase EXCEPT ![p] = "idle"]
    BY <1>0, <1>14, PhaseUpdate DEF Return, PhaseOf
  <2>2. absSem' = absSem /\ absPhase[p] = "done"
    BY <1>0, <1>14 DEF CallFacts, Return, absSem, SemOf, absPhase, PhaseOf
  <2>3. Abstract!Respond(p)
    BY <1>0, <1>14, <2>1, <2>2 DEF CallFacts, Return, Abstract!Respond
  <2> QED
    BY <2>3 DEF AbsStep, Abstract!Next
<1>15. ASSUME NEW p \in Procs, Exit(p) PROVE AbsStep
BY <1>0, <1>15 DEF CallFacts, Exit, AbsStep, Abstract!semVars, absSem, SemOf, absPhase,
      PhaseOf
<1>16. ASSUME NEW p \in Procs, NEW q \in Procs, Kill(p, q) PROVE AbsStep
BY <1>0, <1>16 DEF CallFacts, Kill, AbsStep, Abstract!semVars, absSem, SemOf, absPhase,
      PhaseOf
<1>17. CASE UNCHANGED vars
BY <1>0, <1>17 DEF CallFacts, vars, AbsStep, Abstract!semVars, absSem, SemOf, absPhase,
      PhaseOf
<1> QED
  BY <1>1, <1>2, <1>3, <1>4, <1>5, <1>6, <1>7, <1>8, <1>9, <1>10, <1>11, <1>12,
     <1>13, <1>14, <1>15, <1>16, <1>17 DEF Next, KernelStep

\* The kernel's semaphores implement the linearizable object: for any number of
\* processes and semaphores each system call behaves as one atomic operation.
THEOREM Refinement == Spec => Linearizable
<1>1. Spec => []IInv
  BY InductiveInvariant
<1> QED
  BY <1>1, RefinementInit, RefinementStep, PTL
    DEF Spec, Linearizable, Abstract!Spec, AbsStep

==============================================================================
