-------------------------------- MODULE TaTeTi --------------------------------
(***************************************************************************)
(* user/tateti.c: runs of the program over the semaphores 0, 1 and 2.      *)
(* Every run uses the same three, so runs that overlap compete for them.   *)
(* The words "Ta", "Te" and "Ti" are the numbers 0, 1 and 2: in each run   *)
(* process k waits on semaphore k, prints word k and ups the semaphore of  *)
(* the next one; 0 and 1 are the children, 2 is the parent.                *)
(***************************************************************************)
EXTENDS SemObject, Sequences

CONSTANTS
  Runs,       \* the processes that run tateti
  N,          \* the rounds each is asked for
  ForkFails   \* the forks that may find no free process: a subset of {1, 2}

VARIABLES
  sem,        \* semaphores 0 .. 2
  opener,     \* the run that opened each of them last
  main,       \* where the parent of a run is before and after its loop
  idx,        \* the semaphore it opens or closes next
  stop,       \* when closing: the number of semaphores to close
  at,         \* where process k of a run is in its loop
  round,      \* the loop counter of process k of a run
  out,        \* the words printed by a run
  foreign     \* closes of a semaphore another run opened

vars == <<sem, opener, main, idx, stop, at, round, out, foreign>>

Words == 0..2

Next3(k) == (k + 1) % 3

\* The processes before their first step; Init adds the kernel's semaphores.
LocalInit ==
  /\ opener = [k \in Words |-> {}]
  /\ main = [r \in Runs |-> "open"]
  /\ idx = [r \in Runs |-> 0]
  /\ stop = [r \in Runs |-> 0]
  /\ at = [r \in Runs |-> [k \in Words |-> "none"]]
  /\ round = [r \in Runs |-> [k \in Words |-> 1]]
  /\ out = [r \in Runs |-> <<>>]
  /\ foreign = {}

Init == LocalInit /\ sem = [k \in Words |-> NotInUse]

\* Mutant: one more semaphore than the run opened is closed.
CloseFirst_OneMore(r, n) ==
  /\ main' = [main EXCEPT ![r] = "close"]
  /\ idx' = [idx EXCEPT ![r] = 0]
  /\ stop' = [stop EXCEPT ![r] = IF n = 3 THEN 3 ELSE n + 1]

\* main goes to sem_close semaphores 0 .. n - 1 and exit.
CloseFirst(r, n) ==
  /\ main' = [main EXCEPT ![r] = IF n = 0 THEN "exited" ELSE "close"]
  /\ idx' = [idx EXCEPT ![r] = 0]
  /\ stop' = [stop EXCEPT ![r] = n]

\* Mutant: every semaphore starts with a permit.
Open_AllPermits(r) ==
  LET k == idx[r]
      outcome == OpenSem(sem[k], 1)
  IN
  /\ main[r] = "open"
  /\ sem' = [sem EXCEPT ![k] = outcome.sem]
  /\ IF outcome.ret = 0
       THEN CloseFirst(r, k) /\ opener' = opener
       ELSE /\ opener' = [opener EXCEPT ![k] = {r}]
            /\ main' = [main EXCEPT ![r] = IF k = 2 THEN "fork1" ELSE "open"]
            /\ idx' = [idx EXCEPT ![r] = k + 1]
            /\ stop' = stop
  /\ UNCHANGED <<at, round, out, foreign>>

\* sem_open(0, 1), sem_open(1, 0), sem_open(2, 0); a refusal undoes the earlier ones.
Open(r) ==
  LET k == idx[r]
      outcome == OpenSem(sem[k], IF k = 0 THEN 1 ELSE 0)
  IN
  /\ main[r] = "open"
  /\ sem' = [sem EXCEPT ![k] = outcome.sem]
  /\ IF outcome.ret = 0
       THEN CloseFirst(r, k) /\ opener' = opener
       ELSE /\ opener' = [opener EXCEPT ![k] = {r}]
            /\ main' = [main EXCEPT ![r] = IF k = 2 THEN "fork1" ELSE "open"]
            /\ idx' = [idx EXCEPT ![r] = k + 1]
            /\ stop' = stop
  /\ UNCHANGED <<at, round, out, foreign>>

\* The first fork starts "Ta", the second "Te"; then the parent goes into its
\* loop for "Ti".  A fork that fails closes the semaphores, also when the first
\* child is already at work.
Fork(r, f) ==
  /\ main[r] = <<"fork1", "fork2">>[f]
  /\ \/ /\ at' = [at EXCEPT ![r] = IF f = 1 THEN [@ EXCEPT ![0] = "down"]
                                  ELSE [@ EXCEPT ![1] = "down", ![2] = "down"]]
        /\ main' = [main EXCEPT ![r] = IF f = 1 THEN "fork2" ELSE "loop"]
        /\ UNCHANGED <<idx, stop>>
     \/ f \in ForkFails /\ CloseFirst(r, 3) /\ at' = at
  /\ UNCHANGED <<sem, opener, round, out, foreign>>

Goto(r, k, from, to) == at[r][k] = from /\ at' = [at EXCEPT ![r][k] = to]

Down(r, k) ==
  /\ Goto(r, k, "down", "print")
  /\ ~DownBlocks(sem[k])
  /\ sem' = [sem EXCEPT ![k] = DownSem(@).sem]
  /\ UNCHANGED <<opener, main, idx, stop, round, out, foreign>>

PrintWord(r, k) ==
  /\ Goto(r, k, "print", "up")
  /\ out' = [out EXCEPT ![r] = Append(@, k)]
  /\ UNCHANGED <<sem, opener, main, idx, stop, round, foreign>>

\* The end of a turn of the loop.
Up(r, k) ==
  /\ Goto(r, k, "up", IF round[r][k] < N THEN "down" ELSE "exited")
  /\ sem' = [sem EXCEPT ![Next3(k)] = UpSem(@).sem]
  /\ round' = [round EXCEPT ![r][k] = @ + 1]
  /\ UNCHANGED <<opener, main, idx, stop, out, foreign>>

\* The two calls of wait(0), after the parent's own loop.
Wait(r) ==
  /\ main[r] = "loop" /\ \A k \in Words : at[r][k] = "exited"
  /\ CloseFirst(r, 3)
  /\ UNCHANGED <<sem, opener, at, round, out, foreign>>

Close(r) ==
  LET k == idx[r] IN
  /\ main[r] = "close"
  /\ sem' = [sem EXCEPT ![k] = CloseSem(@).sem]
  /\ foreign' = IF sem[k] # NotInUse /\ opener[k] # {r} THEN foreign \cup {r} ELSE foreign
  /\ idx' = [idx EXCEPT ![r] = k + 1]
  /\ main' = [main EXCEPT ![r] = IF k + 1 = stop[r] THEN "exited" ELSE "close"]
  /\ UNCHANGED <<opener, stop, at, round, out>>

MainStep(r) == Open(r) \/ (\E f \in {1, 2} : Fork(r, f)) \/ Wait(r) \/ Close(r)

LoopStep(r, k) == Down(r, k) \/ PrintWord(r, k) \/ Up(r, k)

Next == \E r \in Runs : MainStep(r) \/ \E k \in Words : LoopStep(r, k)

Spec == Init /\ [][Next]_vars

\* Every process is scheduled again and again.
Fairness ==
  \A r \in Runs : WF_vars(MainStep(r)) /\ \A k \in Words : WF_vars(LoopStep(r, k))

------------------------------------------------------------------------------

\* The words of a run come out as Ta, Te, Ti, Ta, ..., whatever the scheduler
\* does and whichever runs start and end meanwhile.
InOrder ==
  \A r \in Runs : \A n \in 1..Len(out[r]) : out[r][n] = (n - 1) % 3

\* A run closes only semaphores it opened itself, though every run uses the
\* same three and closes them one by one while another may be opening them.
ClosesItsOwn == foreign = {}

\* A run that ends leaves none of its semaphores open.
LeavesClosed ==
  \A r \in Runs, k \in Words :
    main[r] = "exited" /\ opener[k] = {r} => sem[k] = NotInUse

\* Every run ends, and one whose forks worked has printed all its rounds.
AllRunsEnd ==
  <>(\A r \in Runs :
       /\ main[r] = "exited"
       /\ at[r][1] # "none" => Len(out[r]) = 3 * N
       /\ at[r][0] \in {"none", "exited"})

==============================================================================
