------------------------------ MODULE Semaphore ------------------------------
(***************************************************************************)
(* The named semaphores the lab adds to xv6: sem_open, sem_close, sem_up   *)
(* and sem_down of kernel/semaphore.c with their system-call wrappers of   *)
(* kernel/sysproc.c, on top of sleep, wakeup and kill of kernel/proc.c and *)
(* the spin locks of kernel/spinlock.c.                                    *)
(*                                                                         *)
(* Every process is a thread of control with a program counter.  A step    *)
(* ends where the code takes or gives up a lock, because that is where     *)
(* another CPU can see or change what it left: the spin lock of a          *)
(* semaphore (lock), and the spin lock of a process, p->lock, which sleep  *)
(* holds from before it gives up the semaphore's lock until the process is *)
(* marked SLEEPING (program counter "sched").                              *)
(***************************************************************************)
EXTENDS Integers

CONSTANTS
  Procs,      \* the processes
  Sems,       \* the semaphore numbers 0 .. MAX_SEM - 1
  BadSem,     \* a number outside that range
  OpenVals,   \* the initial values passed to sem_open, negative ones too
  NoProc,     \* a lock nobody holds
  Killers,    \* the processes whose program calls kill
  MaxVal      \* bound: no process calls sem_up on a value this large

ASSUME SemAssumption ==
  /\ NoProc \notin Procs
  /\ Killers \subseteq Procs
  /\ BadSem \notin Sems
  /\ OpenVals \subseteq Int
  /\ MaxVal \in Nat

VARIABLES
  is_use,     \* semaphore.is_use
  value,      \* semaphore.value
  lock,       \* holder of semaphore.lock
  pc,         \* where each process is
  req,        \* the system call it is in, with its arguments
  ret,        \* what that system call returns
  todo,       \* wakeup: the processes its loop has still to look at
  killed      \* the processes whose p->killed is set

vars == <<is_use, value, lock, pc, req, ret, todo, killed>>

CLOSED_SEM_VAL == -1

NoReq == [op |-> "none", sem |-> BadSem, val |-> 0]

Requests ==
  [op : {"open"}, sem : Sems \cup {BadSem}, val : OpenVals]
    \cup [op : {"close", "up", "down"}, sem : Sems \cup {BadSem}, val : {0}]

Valid(r) == r.sem \in Sems /\ (r.op = "open" => r.val >= 0)

\* Mutant: sleep gives up the semaphore's lock before it takes p->lock.
ProcLockHeld_TakenLate(p) == FALSE

\* The p->lock of p is held across steps only inside sleep, by p itself.
ProcLockHeld(p) == pc[p] = "sched"

------------------------------------------------------------------------------

\* The array of semaphores is in the zeroed BSS: is_use and value are both 0.
Init ==
  /\ is_use = [s \in Sems |-> FALSE]
  /\ value = [s \in Sems |-> 0]
  /\ lock = [s \in Sems |-> NoProc]
  /\ pc = [p \in Procs |-> "user"]
  /\ req = [p \in Procs |-> NoReq]
  /\ ret = [p \in Procs |-> 0]
  /\ todo = [p \in Procs |-> {}]
  /\ killed = {}

\* Mutant: the wrapper of sem_open checks the number but not the value.
Syscall_AnyValue(p) ==
  /\ pc[p] = "user" /\ p \notin killed
  /\ \E r \in Requests :
       /\ r.op = "up" /\ r.sem \in Sems => value[r.sem] < MaxVal
       /\ req' = [req EXCEPT ![p] = r]
       /\ IF r.sem \in Sems
            THEN pc' = [pc EXCEPT ![p] = "acquire"] /\ ret' = ret
            ELSE pc' = [pc EXCEPT ![p] = "return"] /\ ret' = [ret EXCEPT ![p] = -1]
  /\ UNCHANGED <<is_use, value, lock, todo, killed>>

\* usertrap runs the system call of a process that was not killed; the
\* wrapper checks the arguments.
Syscall(p) ==
  /\ pc[p] = "user" /\ p \notin killed
  /\ \E r \in Requests :
       /\ r.op = "up" /\ r.sem \in Sems => value[r.sem] < MaxVal
       /\ req' = [req EXCEPT ![p] = r]
       /\ IF Valid(r)
            THEN pc' = [pc EXCEPT ![p] = "acquire"] /\ ret' = ret
            ELSE pc' = [pc EXCEPT ![p] = "return"] /\ ret' = [ret EXCEPT ![p] = -1]
  /\ UNCHANGED <<is_use, value, lock, todo, killed>>

\* acquire(&sem_array[sem].lock), on entry and at the end of sleep.
Acquire(p) ==
  /\ pc[p] \in {"acquire", "reacquire"}
  /\ lock[req[p].sem] = NoProc
  /\ lock' = [lock EXCEPT ![req[p].sem] = p]
  /\ pc' = [pc EXCEPT ![p] = IF @ = "acquire" THEN "body" ELSE "recheck"]
  /\ UNCHANGED <<is_use, value, req, ret, todo, killed>>

\* Gives the semaphore's lock back and leaves the handler with result r.
Finish(p, r) ==
  /\ lock' = [lock EXCEPT ![req[p].sem] = NoProc]
  /\ pc' = [pc EXCEPT ![p] = "return"]
  /\ ret' = [ret EXCEPT ![p] = r]
  /\ UNCHANGED <<req, todo, killed>>

\* Mutant: the early return forgets to release the lock.
Refuse_KeepsLock(p) ==
  /\ pc[p] = "body" /\ req[p].op # "open" /\ ~is_use[req[p].sem]
  /\ pc' = [pc EXCEPT ![p] = "return"]
  /\ ret' = [ret EXCEPT ![p] = 0]
  /\ UNCHANGED <<is_use, value, lock, req, todo, killed>>

\* sem_close, sem_up and sem_down on a semaphore nobody opened.
Refuse(p) ==
  /\ pc[p] = "body" /\ req[p].op # "open" /\ ~is_use[req[p].sem]
  /\ Finish(p, 0)
  /\ UNCHANGED <<is_use, value>>

\* Mutant: an open semaphore can be opened again.
OpenBody_Again(p) ==
  /\ pc[p] = "body" /\ req[p].op = "open"
  /\ value' = [value EXCEPT ![req[p].sem] = req[p].val]
  /\ is_use' = [is_use EXCEPT ![req[p].sem] = TRUE]
  /\ Finish(p, 1)

\* sem_open: the semaphore is taken, or it checks the value once more.
OpenBody(p) ==
  LET s == req[p].sem IN
  /\ pc[p] = "body" /\ req[p].op = "open"
  /\ IF is_use[s] \/ req[p].val < 0
       THEN Finish(p, 0) /\ UNCHANGED <<is_use, value>>
       ELSE /\ value' = [value EXCEPT ![s] = req[p].val]
            /\ is_use' = [is_use EXCEPT ![s] = TRUE]
            /\ Finish(p, 1)

\* The loop of wakeup is about to start, with the semaphore's lock held.
StartWakeup(p) ==
  /\ pc' = [pc EXCEPT ![p] = "wakeup"]
  /\ todo' = [todo EXCEPT ![p] = Procs \ {p}]
  /\ UNCHANGED <<lock, req, killed>>

\* Mutant: sem_close leaves the value as it was.
CloseBody_KeepsValue(p) ==
  /\ pc[p] = "body" /\ req[p].op = "close" /\ is_use[req[p].sem]
  /\ is_use' = [is_use EXCEPT ![req[p].sem] = FALSE]
  /\ ret' = [ret EXCEPT ![p] = 1]
  /\ value' = value
  /\ StartWakeup(p)

\* Mutant: sem_close wakes nobody.
CloseBody_NoWakeup(p) ==
  /\ pc[p] = "body" /\ req[p].op = "close" /\ is_use[req[p].sem]
  /\ is_use' = [is_use EXCEPT ![req[p].sem] = FALSE]
  /\ value' = [value EXCEPT ![req[p].sem] = CLOSED_SEM_VAL]
  /\ Finish(p, 1)

CloseBody(p) ==
  LET s == req[p].sem IN
  /\ pc[p] = "body" /\ req[p].op = "close" /\ is_use[s]
  /\ is_use' = [is_use EXCEPT ![s] = FALSE]
  /\ value' = [value EXCEPT ![s] = CLOSED_SEM_VAL]
  /\ ret' = [ret EXCEPT ![p] = 1]
  /\ StartWakeup(p)

Increment(p) ==
  /\ value' = [value EXCEPT ![req[p].sem] = @ + 1]
  /\ Finish(p, 1)
  /\ UNCHANGED is_use

\* Mutant: sem_up wakes nobody.
UpBody_NoWakeup(p) ==
  /\ pc[p] = "body" /\ req[p].op = "up" /\ is_use[req[p].sem]
  /\ Increment(p)

UpBody(p) ==
  LET s == req[p].sem IN
  /\ pc[p] = "body" /\ req[p].op = "up" /\ is_use[s]
  /\ IF value[s] = 0
       THEN StartWakeup(p) /\ UNCHANGED <<is_use, value, ret>>
       ELSE Increment(p)

\* One turn of wakeup's loop: under q->lock, q is made RUNNABLE if it sleeps
\* on this semaphore.
WakeOne(p) ==
  /\ pc[p] = "wakeup"
  /\ \E q \in todo[p] :
       /\ ~ProcLockHeld(q)
       /\ todo' = [todo EXCEPT ![p] = @ \ {q}]
       /\ pc' = [pc EXCEPT ![q] =
                   IF @ = "sleeping" /\ req[q].sem = req[p].sem THEN "runnable" ELSE @]
  /\ UNCHANGED <<is_use, value, lock, req, ret, killed>>

\* What is left of sem_up and sem_close when wakeup returns.
AfterWakeup(p) ==
  /\ pc[p] = "wakeup" /\ todo[p] = {}
  /\ IF req[p].op = "up"
       THEN Increment(p)
       ELSE Finish(p, 1) /\ UNCHANGED <<is_use, value>>

\* The test of sem_down's loop, and what follows the loop.
TakeOrSleep(p) ==
  LET s == req[p].sem IN
  /\ IF value[s] = 0
       THEN pc' = [pc EXCEPT ![p] = "sleep"]
            /\ UNCHANGED <<value, lock, req, ret, todo, killed>>
       ELSE value' = [value EXCEPT ![s] = @ - 1] /\ Finish(p, 1)
  /\ UNCHANGED is_use

DownBody(p) ==
  /\ pc[p] = "body" /\ req[p].op = "down" /\ is_use[req[p].sem]
  /\ TakeOrSleep(p)

\* sleep takes p->lock and only then gives up the semaphore's lock.
SleepRelease(p) ==
  /\ pc[p] = "sleep"
  /\ lock' = [lock EXCEPT ![req[p].sem] = NoProc]
  /\ pc' = [pc EXCEPT ![p] = "sched"]
  /\ UNCHANGED <<is_use, value, req, ret, todo, killed>>

\* p->state = SLEEPING, sched, and the scheduler releases p->lock.
SleepSched(p) ==
  /\ pc[p] = "sched"
  /\ pc' = [pc EXCEPT ![p] = "sleeping"]
  /\ UNCHANGED <<is_use, value, lock, req, ret, todo, killed>>

\* The scheduler runs a RUNNABLE process, which comes back from sched.
Dispatch(p) ==
  /\ pc[p] = "runnable"
  /\ pc' = [pc EXCEPT ![p] = "reacquire"]
  /\ UNCHANGED <<is_use, value, lock, req, ret, todo, killed>>

\* sem_down after sleep: is the value the one of a closed semaphore?
Recheck(p) ==
  /\ pc[p] = "recheck"
  /\ IF value[req[p].sem] = CLOSED_SEM_VAL
       THEN Finish(p, 0) /\ UNCHANGED <<is_use, value>>
       ELSE TakeOrSleep(p)

\* Back in usertrap: a killed process exits, another returns to user space.
Return(p) ==
  /\ pc[p] = "return"
  /\ pc' = [pc EXCEPT ![p] = IF p \in killed THEN "exited" ELSE "user"]
  /\ req' = [req EXCEPT ![p] = NoReq]
  /\ ret' = [ret EXCEPT ![p] = 0]
  /\ UNCHANGED <<is_use, value, lock, todo, killed>>

\* exit, called by the program or by usertrap once the process is killed.
\* It touches no semaphore: those the process opened stay open.
Exit(p) ==
  /\ pc[p] = "user"
  /\ pc' = [pc EXCEPT ![p] = "exited"]
  /\ UNCHANGED <<is_use, value, lock, req, ret, todo, killed>>

\* kill, on any process (its own pid is allowed).
Kill(p, q) ==
  /\ p \in Killers /\ pc[p] = "user" /\ p \notin killed
  /\ pc[q] # "exited" /\ q \notin killed /\ ~ProcLockHeld(q)
  /\ killed' = killed \cup {q}
  /\ pc' = [pc EXCEPT ![q] = IF @ = "sleeping" THEN "runnable" ELSE @]
  /\ UNCHANGED <<is_use, value, lock, req, ret, todo>>

\* The steps the kernel takes on behalf of p once p has made a call.
KernelStep(p) ==
  \/ Refuse(p) \/ OpenBody(p) \/ CloseBody(p) \/ UpBody(p) \/ DownBody(p)
  \/ WakeOne(p) \/ AfterWakeup(p)
  \/ SleepRelease(p) \/ SleepSched(p) \/ Dispatch(p) \/ Recheck(p)
  \/ Return(p)

Next ==
  \E p \in Procs :
    \/ Syscall(p) \/ Acquire(p) \/ KernelStep(p) \/ Exit(p)
    \/ \E q \in Procs : Kill(p, q)

Spec == Init /\ [][Next]_vars

\* A process in the kernel keeps running (timer interrupts and the round
\* robin of scheduler), and one that spins for a lock that is free again and
\* again gets it.  Nothing makes a process call, kill or exit.
Fairness ==
  \A p \in Procs : WF_vars(KernelStep(p)) /\ SF_vars(Acquire(p))

FairSpec == Spec /\ Fairness

------------------------------------------------------------------------------

PcValues ==
  {"user", "acquire", "body", "wakeup", "sleep", "sched", "sleeping",
   "runnable", "reacquire", "recheck", "return", "exited"}

\* The variables have the types of the declarations in the code, and a
\* process in a handler is there with a request the wrapper accepted.
TypeOK ==
  /\ is_use \in [Sems -> BOOLEAN]
  /\ value \in [Sems -> Int]
  /\ lock \in [Sems -> Procs \cup {NoProc}]
  /\ pc \in [Procs -> PcValues]
  /\ req \in [Procs -> Requests \cup {NoReq}]
  /\ ret \in [Procs -> {-1, 0, 1}]
  /\ todo \in [Procs -> SUBSET Procs]
  /\ killed \subseteq Procs
  /\ \A p \in Procs :
       pc[p] \notin {"user", "return", "exited"} => req[p] \in Requests /\ Valid(req[p])

\* Where a process holds the lock of its semaphore.
Holding == {"body", "wakeup", "sleep", "recheck"}

\* Where a process has found sem_down's semaphore in use and not taken from it.
PastCheck == {"sleep", "sched", "sleeping", "runnable", "reacquire", "recheck"}

\* Where a process counts on someone else's wakeup.
Waiting(p, s) == pc[p] \in {"sched", "sleeping"} /\ req[p].sem = s

Waking(p, s) == pc[p] = "wakeup" /\ req[p].sem = s

\* A process is in a critical section of a semaphore exactly while it is
\* recorded as the holder of its lock: two processes are never in there
\* together, on whichever path (wakeup, sleep, early return) they left, and no
\* path leaves the lock taken behind it.
LockOwner ==
  /\ \A p \in Procs : pc[p] \in Holding => lock[req[p].sem] = p
  /\ \A s \in Sems : lock[s] # NoProc =>
       pc[lock[s]] \in Holding /\ req[lock[s]].sem = s

\* No lost wakeup: a process gone to sleep on a semaphore (or past the point
\* where sleep gives up its lock) is there because the semaphore is in use
\* with no permits, unless a wakeup loop that will still look at it is running.
NoLostWakeup ==
  \A p \in Procs, s \in Sems :
    Waiting(p, s) =>
      \/ \E q \in Procs : Waking(q, s) /\ p \in todo[q]
      \/ is_use[s] /\ value[s] = 0 /\ \A q \in Procs : ~Waking(q, s)

\* sem_down looks only at the value after it slept, never at is_use: that is
\* enough because a semaphore closed under it reads CLOSED_SEM_VAL, never a
\* value that would be taken for an open one.
ClosedIsVisible ==
  \A p \in Procs :
    /\ pc[p] \in PastCheck /\ ~is_use[req[p].sem] => value[req[p].sem] = CLOSED_SEM_VAL
    /\ pc[p] = "sleep" => is_use[req[p].sem] /\ value[req[p].sem] = 0

\* An open semaphore never has a negative number of permits, whatever
\* downs, closes and reopenings raced.
PermitsNotNegative == \A s \in Sems : is_use[s] => value[s] >= 0

\* Every process that sleeps on a semaphore when it is closed, or that is on its
\* way to, leaves sem_down in the end, unless the semaphore is opened again first.
CloseReleases ==
  \A p \in Procs, s \in Sems :
    (pc[p] \in PastCheck /\ req[p].sem = s /\ ~is_use[s])
      ~> (pc[p] \in {"return", "exited"} \/ is_use[s])

\* As long as a semaphore has permits no process stays blocked in sem_down on
\* it: each one leaves, or someone takes the permits or closes the semaphore first.
PermitsReachWaiters ==
  \A p \in Procs, s \in Sems :
    (pc[p] \in PastCheck /\ req[p].sem = s /\ value[s] > 0)
      ~> (pc[p] \in {"return", "exited"} \/ value[s] <= 0)

\* Nobody is left in sem_down when there is a reason to leave it: a close or a permit.
WaitersLeave == CloseReleases /\ PermitsReachWaiters

==============================================================================
