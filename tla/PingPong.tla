------------------------------- MODULE PingPong -------------------------------
(***************************************************************************)
(* user/pingpong.c: runs of the program, several at a time, over the       *)
(* semaphores.  The kernel is shown to make each semaphore call atomic     *)
(* (Refinement in SemaphoreProofs), so a call is one step here.            *)
(***************************************************************************)
EXTENDS SemObject, Sequences

CONSTANTS
  Runs,       \* the pids of the processes that run pingpong
  N,          \* the rounds each is asked for
  MAX_SEM,    \* the number of semaphores of the kernel
  Taken       \* the semaphores some other program has open

VARIABLES
  sem,        \* the kernel's semaphores
  parent,     \* where the parent is in main
  child,      \* where the child is in main, "none" before fork
  i, j,       \* the loop counters of the parent and of the child
  out         \* the words printed so far

vars == <<sem, parent, child, i, j, out>>

Ping(r) == (r + 64) * 2
Pong(r) == Ping(r) + 1

Ids == { Ping(r) : r \in Runs } \cup { Pong(r) : r \in Runs }

InRange(id) == id >= 0 /\ id < MAX_SEM

\* A down, up or close with the outcome it has when it runs alone; the wrapper
\* turns down a number out of range with -1.
Call(id, outcome) ==
  sem' = IF InRange(id) THEN [sem EXCEPT ![id] = outcome.sem] ELSE sem

\* A sem_open, and where main goes after it: the program takes only a result
\* of 0 for an error, and no error is recorded.
OpenCall(r, id, val, from, ok, error) ==
  LET outcome == OpenSem(sem[id], val) IN
  /\ parent[r] = from
  /\ sem' = IF InRange(id) THEN [sem EXCEPT ![id] = outcome.sem] ELSE sem
  /\ parent' = [parent EXCEPT ![r] =
                  IF InRange(id) /\ outcome.ret = 0 THEN error ELSE ok]
  /\ UNCHANGED <<child, i, j, out>>

------------------------------------------------------------------------------

\* The processes before their first step; Init adds the kernel's semaphores.
LocalInit ==
  /\ parent = [r \in Runs |-> "open_ping"]
  /\ child = [r \in Runs |-> "none"]
  /\ i = [r \in Runs |-> 1]
  /\ j = [r \in Runs |-> 1]
  /\ out = [r \in Runs |-> <<>>]

Init == LocalInit /\ sem = [id \in Ids |-> IF id \in Taken THEN 0 ELSE NotInUse]

Goto(r, from, to) == parent[r] = from /\ parent' = [parent EXCEPT ![r] = to]

ChildGoto(r, from, to) == child[r] = from /\ child' = [child EXCEPT ![r] = to]

OpenPing(r) == OpenCall(r, Ping(r), 1, "open_ping", "open_pong", "exited")

\* Mutant: when pong cannot be opened, both semaphores are closed.
OpenPong_ClosesBoth(r) == OpenCall(r, Pong(r), 0, "open_pong", "fork", "close_ping")

\* When pong cannot be opened, ping is closed again.
OpenPong(r) == OpenCall(r, Pong(r), 0, "open_pong", "fork", "undo_ping")

UndoPing(r) ==
  /\ Goto(r, "undo_ping", "exited")
  /\ Call(Ping(r), CloseSem(sem[Ping(r)]))
  /\ UNCHANGED <<child, i, j, out>>

\* Mutant: an error of fork ends the program at once.
Fork_ErrorExits(r) ==
  /\ \/ Goto(r, "fork", "down") /\ child' = [child EXCEPT ![r] = "down"]
     \/ Goto(r, "fork", "exited") /\ child' = child
  /\ UNCHANGED <<sem, i, j, out>>

\* fork, which may find no free process.
Fork(r) ==
  /\ \/ Goto(r, "fork", "down") /\ child' = [child EXCEPT ![r] = "down"]
     \/ Goto(r, "fork", "close_ping") /\ child' = child
  /\ UNCHANGED <<sem, i, j, out>>

\* The child's loop: down(ping), print, up(pong).
ChildDown(r) ==
  /\ ChildGoto(r, "down", "print")
  /\ InRange(Ping(r)) => ~DownBlocks(sem[Ping(r)])
  /\ Call(Ping(r), DownSem(sem[Ping(r)]))
  /\ UNCHANGED <<parent, i, j, out>>

ChildPrint(r) ==
  /\ ChildGoto(r, "print", "up")
  /\ out' = [out EXCEPT ![r] = Append(@, "ping")]
  /\ UNCHANGED <<sem, parent, i, j>>

ChildUp(r) ==
  /\ ChildGoto(r, "up", IF j[r] < N THEN "down" ELSE "exited")
  /\ Call(Pong(r), UpSem(sem[Pong(r)]))
  /\ j' = [j EXCEPT ![r] = @ + 1]
  /\ UNCHANGED <<parent, i, out>>

\* The parent's loop: down(pong), print, up(ping).
ParentDown(r) ==
  /\ Goto(r, "down", "print")
  /\ InRange(Pong(r)) => ~DownBlocks(sem[Pong(r)])
  /\ Call(Pong(r), DownSem(sem[Pong(r)]))
  /\ UNCHANGED <<child, i, j, out>>

ParentPrint(r) ==
  /\ Goto(r, "print", "up")
  /\ out' = [out EXCEPT ![r] = Append(@, "pong")]
  /\ UNCHANGED <<sem, child, i, j>>

\* Mutant: the parent wakes its own semaphore.
ParentUp_OwnSem(r) ==
  /\ Goto(r, "up", IF i[r] < N THEN "down" ELSE "wait")
  /\ Call(Pong(r), UpSem(sem[Pong(r)]))
  /\ i' = [i EXCEPT ![r] = @ + 1]
  /\ UNCHANGED <<child, j, out>>

ParentUp(r) ==
  /\ Goto(r, "up", IF i[r] < N THEN "down" ELSE "wait")
  /\ Call(Ping(r), UpSem(sem[Ping(r)]))
  /\ i' = [i EXCEPT ![r] = @ + 1]
  /\ UNCHANGED <<child, j, out>>

\* wait(0) returns once the child has exited.
Wait(r) ==
  /\ Goto(r, "wait", "close_ping")
  /\ child[r] = "exited"
  /\ UNCHANGED <<sem, child, i, j, out>>

ClosePing(r) ==
  /\ Goto(r, "close_ping", "close_pong")
  /\ Call(Ping(r), CloseSem(sem[Ping(r)]))
  /\ UNCHANGED <<child, i, j, out>>

ClosePong(r) ==
  /\ Goto(r, "close_pong", "exited")
  /\ Call(Pong(r), CloseSem(sem[Pong(r)]))
  /\ UNCHANGED <<child, i, j, out>>

Step(r) ==
  \/ OpenPing(r) \/ OpenPong(r) \/ UndoPing(r) \/ Fork(r)
  \/ ParentDown(r) \/ ParentPrint(r) \/ ParentUp(r) \/ Wait(r)
  \/ ClosePing(r) \/ ClosePong(r)

ChildStep(r) == ChildDown(r) \/ ChildPrint(r) \/ ChildUp(r)

Next == \E r \in Runs : Step(r) \/ ChildStep(r)

Spec == Init /\ [][Next]_vars

\* Both processes of a run are scheduled again and again.
Fairness == \A r \in Runs : WF_vars(Step(r)) /\ WF_vars(ChildStep(r))

------------------------------------------------------------------------------

\* The words of a run alternate, ping first: each process prints only in its
\* turn of every round, whatever the scheduler does.
InOrder ==
  \A r \in Runs : \A k \in 1..Len(out[r]) :
    out[r][k] = IF k % 2 = 1 THEN "ping" ELSE "pong"

\* A semaphore that another program has open is left as it is, on the error
\* paths too: a run closes only what it opened.
ForeignKept == \A id \in Taken \cap Ids : sem[id] = 0

\* A run that ends, after its rounds or for want of a process, leaves no
\* semaphore open.
LeavesClosed ==
  \A r \in Runs : parent[r] = "exited" =>
    \A id \in {Ping(r), Pong(r)} \ Taken : sem[id] = NotInUse

\* Every run ends, and the ones whose fork worked printed all their rounds.
AllRunsEnd ==
  <>(\A r \in Runs : parent[r] = "exited" /\ (child[r] # "none" => Len(out[r]) = 2 * N))

==============================================================================
