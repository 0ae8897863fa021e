--------------------------- MODULE LinearizableSem ---------------------------
(***************************************************************************)
(* What the semaphore system calls promise: each call takes effect at one  *)
(* instant between its invocation and its return, as if it ran alone, and  *)
(* returns the result that effect gives.  A sem_down has no effect, hence  *)
(* does not return, while the semaphore is open without permits.           *)
(***************************************************************************)
EXTENDS SemObject

CONSTANTS Procs, Sems, Requests, NoReq, Valid(_)

VARIABLES
  sem,      \* the semaphores
  phase,    \* "idle", "called" (no effect yet) or "done" (effect taken)
  call,     \* the call each process is in
  res       \* the result of a call that took effect

semVars == <<sem, phase, call, res>>

Init ==
  /\ sem = [s \in Sems |-> NotInUse]
  /\ phase = [p \in Procs |-> "idle"]
  /\ call = [p \in Procs |-> NoReq]
  /\ res = [p \in Procs |-> 0]

Invoke(p, r) ==
  /\ phase[p] = "idle"
  /\ call' = [call EXCEPT ![p] = r]
  /\ IF Valid(r)
       THEN phase' = [phase EXCEPT ![p] = "called"] /\ res' = res
       ELSE phase' = [phase EXCEPT ![p] = "done"] /\ res' = [res EXCEPT ![p] = -1]
  /\ sem' = sem

\* The outcome of request r on a semaphore whose state is old.
Outcome(r, old) ==
  CASE r.op = "open"  -> OpenSem(old, r.val)
    [] r.op = "close" -> CloseSem(old)
    [] r.op = "up"    -> UpSem(old)
    [] r.op = "down"  -> DownSem(old)

Effect(p) ==
  LET r == call[p]
      outcome == Outcome(r, sem[r.sem])
  IN
  /\ phase[p] = "called"
  /\ ~(r.op = "down" /\ DownBlocks(sem[r.sem]))
  /\ sem' = [sem EXCEPT ![r.sem] = outcome.sem]
  /\ res' = [res EXCEPT ![p] = outcome.ret]
  /\ phase' = [phase EXCEPT ![p] = "done"]
  /\ call' = call

Respond(p) ==
  /\ phase[p] = "done"
  /\ phase' = [phase EXCEPT ![p] = "idle"]
  /\ call' = [call EXCEPT ![p] = NoReq]
  /\ res' = [res EXCEPT ![p] = 0]
  /\ sem' = sem

Next ==
  \E p \in Procs :
    \/ \E r \in Requests : Invoke(p, r)
    \/ Effect(p) \/ Respond(p)

Spec == Init /\ [][Next]_semVars

==============================================================================
