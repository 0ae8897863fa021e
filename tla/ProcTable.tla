------------------------------ MODULE ProcTable ------------------------------
(***************************************************************************)
(* The process table of xv6 (kernel/proc.c): fork, exit with reparent,     *)
(* wait, kill and the scheduler, and the program of init (user/init.c).    *)
(*                                                                         *)
(* A step is a critical section of wait_lock or of one p->lock, or the     *)
(* part of one between two points where another CPU can see or block it.   *)
(* A pid is the slot while it is in use: allocpid never gives out a pid    *)
(* twice.  The free slots all have pid 0, and a kill of pid 0 finds them.  *)
(***************************************************************************)
EXTENDS Integers

CONSTANTS
  NPROC,    \* the size of the table
  Killable  \* bound: the slots whose processes get killed

Slots == 0 .. NPROC - 1

initproc == 0

\* A null pointer, a lock nobody holds.
Nobody == -1

ASSUME ProcAssumption == NPROC \in Nat \ {0} /\ Killable \subseteq Slots

VARIABLES
  state,      \* p->state
  parent,     \* p->parent
  killed,     \* the slots whose p->killed is set
  wait_lock,  \* holder of wait_lock
  pc,         \* where the kernel thread of a slot is
  child,      \* fork: the slot of np
  shell,      \* init: the child whose exit it waits for
  booted      \* FALSE once the kernel has panicked

procVars == <<state, parent, killed, wait_lock, pc, child, shell, booted>>

ProcInit ==
  /\ state = [q \in Slots |-> IF q = initproc THEN "RUNNABLE" ELSE "UNUSED"]
  /\ parent = [q \in Slots |-> Nobody]
  /\ killed = {}
  /\ wait_lock = Nobody
  /\ pc = [q \in Slots |-> IF q = initproc THEN "user" ELSE "gone"]
  /\ child = [q \in Slots |-> Nobody]
  /\ shell = Nobody
  /\ booted = TRUE

\* Mutant: nobody waits for the p->lock of a process that is leaving the CPU.
Locked_Never(q) == FALSE

\* p->lock is held across steps only by its own thread, in sched: on its way to
\* sleep and on its way out.
Locked(q) == pc[q] \in {"wait_sched", "exit_sched"}

\* The scheduler runs p, a RUNNABLE process whose thread is at l.  The model does
\* not tell RUNNABLE from RUNNING: which process takes the next step is the choice
\* of the scheduler.
Runs(p, l) == booted /\ state[p] = "RUNNABLE" /\ pc[p] = l

Goto(p, l) == pc' = [pc EXCEPT ![p] = l]

\* wakeup(chan), where chan is the proc structure of q: only q sleeps there.
Wakeup(q) ==
  state' = [state EXCEPT ![q] = IF @ = "SLEEPING" THEN "RUNNABLE" ELSE @]

------------------------------------------------------------------------------
(* fork *)

\* The first free slot of the table.
FirstUnused(q) ==
  state[q] = "UNUSED" /\ \A r \in Slots : r < q => state[r] # "UNUSED"

\* allocproc up to release(&np->lock): the first free slot becomes USED.  The
\* program of init forks only when it has no shell.
ForkAlloc(p) ==
  /\ Runs(p, "user") /\ p \notin killed
  /\ p = initproc => shell = Nobody
  /\ \E q \in Slots :
       /\ FirstUnused(q)
       /\ state' = [state EXCEPT ![q] = "USED"]
       /\ child' = [child EXCEPT ![p] = q]
  /\ Goto(p, "fork_parent")
  /\ UNCHANGED <<parent, killed, wait_lock, shell, booted>>

\* No free slot, or no memory: freeproc frees the slot again, and clears what a kill had
\* left in it.  When its fork fails the program of init exits, and that is the end.
ForkFailed(p) ==
  /\ Runs(p, "user") /\ p \notin killed
  /\ p = initproc => shell = Nobody
  /\ killed' = { q \in killed : ~FirstUnused(q) }
  /\ booted' = (p # initproc)
  /\ UNCHANGED <<state, parent, wait_lock, pc, child, shell>>

\* Mutant: np->parent is never set.
ForkParent_Forgotten(p) ==
  /\ Runs(p, "fork_parent")
  /\ Goto(p, "fork_run")
  /\ UNCHANGED <<state, parent, killed, wait_lock, child, shell, booted>>

ForkParent(p) ==
  /\ Runs(p, "fork_parent") /\ wait_lock = Nobody
  /\ parent' = [parent EXCEPT ![child[p]] = p]
  /\ Goto(p, "fork_run")
  /\ UNCHANGED <<state, killed, wait_lock, child, shell, booted>>

ForkRun(p) ==
  /\ Runs(p, "fork_run")
  /\ state' = [state EXCEPT ![child[p]] = "RUNNABLE"]
  /\ pc' = [pc EXCEPT ![p] = "user", ![child[p]] = "user"]
  /\ shell' = IF p = initproc THEN child[p] ELSE shell
  /\ child' = [child EXCEPT ![p] = Nobody]
  /\ UNCHANGED <<parent, killed, wait_lock, booted>>

------------------------------------------------------------------------------
(* exit *)

\* init must not exit: the kernel panics.  It does when it was killed.
InitExit ==
  /\ Runs(initproc, "user") /\ initproc \in killed
  /\ booted' = FALSE
  /\ UNCHANGED <<state, parent, killed, wait_lock, pc, child, shell>>

Offspring(p) == { q \in Slots : parent[q] = p }

\* Mutant: init is not told of the children it is given.
ExitReparent_Quiet(p) ==
  /\ Runs(p, "user") /\ p # initproc /\ wait_lock = Nobody
  /\ wait_lock' = p
  /\ parent' = [q \in Slots |-> IF parent[q] = p THEN initproc ELSE parent[q]]
  /\ Goto(p, "exit_wake")
  /\ UNCHANGED <<state, killed, child, shell, booted>>

\* Mutant: exit leaves its children to themselves.
ExitReparent_KeepsChildren(p) ==
  /\ Runs(p, "user") /\ p # initproc /\ wait_lock = Nobody
  /\ wait_lock' = p
  /\ Goto(p, "exit_wake")
  /\ UNCHANGED <<state, parent, killed, child, shell, booted>>

\* acquire(&wait_lock) and reparent; its wakeups of init follow.
ExitReparent(p) ==
  /\ Runs(p, "user") /\ p # initproc /\ wait_lock = Nobody
  /\ wait_lock' = p
  /\ parent' = [q \in Slots |-> IF parent[q] = p THEN initproc ELSE parent[q]]
  /\ Goto(p, IF Offspring(p) = {} THEN "exit_wake" ELSE "exit_wake_init")
  /\ UNCHANGED <<state, killed, child, shell, booted>>

ExitWakeInit(p) ==
  /\ Runs(p, "exit_wake_init") /\ ~Locked(initproc)
  /\ Wakeup(initproc)
  /\ Goto(p, "exit_wake")
  /\ UNCHANGED <<parent, killed, wait_lock, child, shell, booted>>

\* Mutant: wait_lock is given up before the process is a zombie.
ExitWake_GivesUpLock(p) ==
  /\ Runs(p, "exit_wake") /\ ~Locked(parent[p])
  /\ Wakeup(parent[p])
  /\ wait_lock' = Nobody
  /\ Goto(p, "exit_zombie")
  /\ UNCHANGED <<parent, killed, child, shell, booted>>

ExitWake(p) ==
  /\ Runs(p, "exit_wake") /\ ~Locked(parent[p])
  /\ Wakeup(parent[p])
  /\ Goto(p, "exit_zombie")
  /\ UNCHANGED <<parent, killed, wait_lock, child, shell, booted>>

\* Under p->lock the process becomes a zombie; then wait_lock is given up.
ExitZombie(p) ==
  /\ Runs(p, "exit_zombie")
  /\ state' = [state EXCEPT ![p] = "ZOMBIE"]
  /\ wait_lock' = Nobody
  /\ Goto(p, "exit_sched")
  /\ UNCHANGED <<parent, killed, child, shell, booted>>

\* swtch to the scheduler, which releases p->lock.
ExitSched(p) ==
  /\ booted /\ pc[p] = "exit_sched"
  /\ Goto(p, "gone")
  /\ UNCHANGED <<state, parent, killed, wait_lock, child, shell, booted>>

------------------------------------------------------------------------------
(* wait *)

\* The scan of the table, with wait_lock, at the start of the call and each time
\* p comes back from sleep.  The program of init waits when it has a shell.
Scan(p) ==
  /\ \/ Runs(p, "user") /\ p \notin killed /\ (p = initproc => shell # Nobody)
     \/ Runs(p, "wait_asleep")
  /\ wait_lock = Nobody

Zombies(p) == { q \in Offspring(p) : state[q] = "ZOMBIE" }

\* freeproc
FreeSlot(q) ==
  /\ state' = [state EXCEPT ![q] = "UNUSED"]
  /\ parent' = [parent EXCEPT ![q] = Nobody]
  /\ killed' = killed \ {q}

\* The first zombie of the scan: with its lock, so that it is off the CPU, it is
\* freed and wait returns its pid.
WaitCollect(p) ==
  /\ Scan(p)
  /\ \E q \in Zombies(p) :
       /\ \A r \in Zombies(p) : q <= r
       /\ ~Locked(q)
       /\ FreeSlot(q)
       /\ shell' = IF p = initproc /\ q = shell THEN Nobody ELSE shell
  /\ Goto(p, "user")
  /\ UNCHANGED <<wait_lock, child, booted>>

\* The scan finds a zombie but the program's address is no good.
WaitBadAddress(p) ==
  /\ Scan(p)
  /\ p # initproc /\ Zombies(p) # {}
  /\ Goto(p, "user")
  /\ UNCHANGED <<state, parent, killed, wait_lock, child, shell, booted>>

\* No zombie: wait fails when there are no children or p was killed, init's
\* program then exits.
WaitFails(p) ==
  /\ Scan(p)
  /\ Zombies(p) = {} /\ (Offspring(p) = {} \/ p \in killed)
  /\ booted' = (p # initproc)
  /\ Goto(p, "user")
  /\ UNCHANGED <<state, parent, killed, wait_lock, child, shell>>

\* Mutant: wait does not look at p->killed.
WaitNone_IgnoresKill(p) ==
  /\ Scan(p)
  /\ Zombies(p) = {} /\ Offspring(p) # {}
  /\ wait_lock' = p
  /\ Goto(p, "wait_sleep")
  /\ UNCHANGED <<state, parent, killed, child, shell, booted>>

\* Otherwise p holds on to wait_lock until it holds p->lock.
WaitNone(p) ==
  /\ Scan(p)
  /\ Zombies(p) = {} /\ Offspring(p) # {} /\ p \notin killed
  /\ wait_lock' = p
  /\ Goto(p, "wait_sleep")
  /\ UNCHANGED <<state, parent, killed, child, shell, booted>>

\* sleep: p->lock is taken, wait_lock is given up.
WaitSleep(p) ==
  /\ Runs(p, "wait_sleep")
  /\ wait_lock' = Nobody
  /\ Goto(p, "wait_sched")
  /\ UNCHANGED <<state, parent, killed, child, shell, booted>>

\* p->state = SLEEPING and swtch to the scheduler, which releases p->lock.
WaitSched(p) ==
  /\ Runs(p, "wait_sched")
  /\ state' = [state EXCEPT ![p] = "SLEEPING"]
  /\ Goto(p, "wait_asleep")
  /\ UNCHANGED <<parent, killed, wait_lock, child, shell, booted>>

------------------------------------------------------------------------------
(* kill *)

\* Any process but init may call kill, with the pid of any process or with 0, which is
\* the pid of the free slots: the scan of the table then stops at the first of them.
Kill(p, q) ==
  /\ Runs(p, "user") /\ p \notin killed /\ p # initproc
  /\ q \in Killable /\ ~Locked(q)
  /\ state[q] = "UNUSED" => FirstUnused(q)
  /\ killed' = killed \cup {q}
  /\ Wakeup(q)
  /\ UNCHANGED <<parent, wait_lock, pc, child, shell, booted>>

\* What the kernel goes on to do for p.
KernelStep(p) ==
  \/ ForkRun(p)
  \/ ExitWakeInit(p) \/ ExitWake(p) \/ ExitZombie(p) \/ ExitSched(p)
  \/ WaitSleep(p) \/ WaitSched(p)

WaitScan(p) ==
  WaitCollect(p) \/ WaitBadAddress(p) \/ WaitFails(p) \/ WaitNone(p)

\* A killed process exits when it is back in user space.
KilledExit(p) == p \in killed /\ ExitReparent(p)

ProcNext ==
  \/ InitExit
  \/ \E p \in Slots :
       \/ ForkAlloc(p) \/ ForkFailed(p) \/ ExitReparent(p)
       \/ ForkParent(p) \/ WaitScan(p) \/ KernelStep(p)
       \/ \E q \in Slots : Kill(p, q)

ProcSpec == ProcInit /\ [][ProcNext]_procVars

\* The program of init goes on: it forks a shell and waits, or was killed.
InitProgram == ForkAlloc(initproc) \/ ForkFailed(initproc) \/ InitExit

------------------------------------------------------------------------------
(* The refinement mapping to ProcForest: a process lives from ForkRun on and *)
(* is dead once it has given its children away.                              *)

Exiting(q) == pc[q] \in {"exit_wake_init", "exit_wake", "exit_zombie"}

Dead == { q \in Slots : Exiting(q) \/ state[q] = "ZOMBIE" }

Alive == { q \in Slots : state[q] \in {"RUNNABLE", "SLEEPING"} } \ Dead

LivingParent == [q \in Slots |-> IF q \in Alive \cup Dead THEN parent[q] ELSE Nobody]

Forest == INSTANCE ProcForest WITH
  NoProc <- Nobody, alive <- Alive, dead <- Dead, parentOf <- LivingParent

------------------------------------------------------------------------------

\* The family tree is sound whenever wait_lock is free: the parent of every
\* process is a process that has not exited, never a slot that was freed or given
\* to someone else meanwhile.
ParentAlive ==
  wait_lock = Nobody =>
    \A q \in Slots \ {initproc} :
      state[q] \in {"SLEEPING", "RUNNABLE", "ZOMBIE"} =>
        parent[q] # Nobody /\ state[parent[q]] \in {"SLEEPING", "RUNNABLE"}

\* No exit is lost: a process asleep in wait, or past the point where it can hear
\* of no one, has no zombie to collect, unless the reparent that gave it one is
\* about to wake it.
NoLostExit ==
  \A p \in Slots :
    /\ pc[p] = "wait_sched" \/ state[p] = "SLEEPING"
    /\ ~(p = initproc /\ \E q \in Slots : pc[q] = "exit_wake_init")
    => Zombies(p) = {}

\* A slot is freed, and its stack used again, only after its last thread has
\* left the CPU, and nothing of the old process is left in it but, after a kill of pid 0,
\* p->killed.  A slot is taken from the free ones only while a fork is at work on it.
FreeIsClean ==
  \A q \in Slots :
    /\ state[q] \in {"UNUSED", "USED"} => pc[q] = "gone"
    /\ state[q] = "UNUSED" => parent[q] = Nobody
    /\ state[q] = "USED" => \E p \in Slots : child[p] = q

\* Processes: the family tree is sound, no exit is lost on a parent that sleeps, and a
\* slot is free only when nothing of its process is left.
ProcessesRight == ParentAlive /\ NoLostExit /\ FreeIsClean

\* fork, exit and wait behave as atomic operations on the tree of processes.
AtomicForest == Forest!Spec

\* A wait by a process that has a zombie child, its own or one it was given (init),
\* returns, unless the kernel panics.
WaitReturns ==
  \A p \in Slots :
    (pc[p] \in {"wait_sleep", "wait_sched", "wait_asleep"} /\ Zombies(p) # {})
      ~> (pc[p] = "user" \/ ~booted)

\* A process that is killed while it sleeps in wait leaves it and exits.
KilledSleeperExits ==
  \A p \in Slots :
    (p \in killed /\ pc[p] = "wait_asleep" /\ state[p] # "SLEEPING")
      ~> (pc[p] = "gone" \/ ~booted)

\* No process waits for ever in wait: not with a zombie to collect, and not once killed.
EveryWaitEnds == WaitReturns /\ KilledSleeperExits

==============================================================================
