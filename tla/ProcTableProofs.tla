--------------------------- MODULE ProcTableProofs ---------------------------
(***************************************************************************)
(* Theorems about fork, exit, wait and kill, for a process table of any    *)
(* size and whichever processes are killed.                                *)
(***************************************************************************)
EXTENDS ProcTable, TLAPS

PcValues ==
  {"gone", "user", "fork_parent", "fork_run", "exit_wake_init", "exit_wake",
   "exit_zombie", "exit_sched", "wait_sleep", "wait_sched", "wait_asleep"}

TypeOK ==
  /\ state \in [Slots -> {"UNUSED", "USED", "RUNNABLE", "SLEEPING", "ZOMBIE"}]
  /\ parent \in [Slots -> Slots \cup {Nobody}]
  /\ killed \subseteq Slots
  /\ wait_lock \in Slots \cup {Nobody}
  /\ pc \in [Slots -> PcValues]
  /\ child \in [Slots -> Slots \cup {Nobody}]
  /\ shell \in Slots \cup {Nobody}
  /\ booted \in BOOLEAN

\* Where the thread of a slot can be in each state of the process.
ThreadOfState ==
  \A q \in Slots :
    /\ state[q] \in {"UNUSED", "USED"} => pc[q] = "gone"
    /\ state[q] = "SLEEPING" => pc[q] = "wait_asleep"
    /\ state[q] = "ZOMBIE" => pc[q] \in {"exit_sched", "gone"}
    /\ state[q] = "RUNNABLE" => pc[q] \notin {"exit_sched", "gone"}

\* wait_lock is held across steps by an exit until the process is a zombie, and by a
\* wait until it has p->lock.
Holder(q) == Exiting(q) \/ pc[q] = "wait_sleep"
LockHolder == \A q \in Slots : Holder(q) <=> wait_lock = q

\* A fork has its slot to itself, and from the second half on the slot is its child.
ForkOwnsChild ==
  /\ \A p \in Slots :
       /\ pc[p] \in {"fork_parent", "fork_run"} <=> child[p] # Nobody
       /\ child[p] # Nobody => state[child[p]] = "USED"
       /\ pc[p] = "fork_parent" => parent[child[p]] = Nobody
       /\ pc[p] = "fork_run" => parent[child[p]] = p
  /\ \A p, q \in Slots : child[p] = child[q] /\ child[p] # Nobody => p = q
  /\ \A q \in Slots : state[q] = "USED" => \E p \in Slots : child[p] = q

\* init lives, every other process has a parent, and a parent lives and has not begun
\* to exit, wait_lock free or not.
TreeSound ==
  /\ state[initproc] \in {"RUNNABLE", "SLEEPING"} /\ ~Exiting(initproc)
  /\ \A q \in Slots :
       /\ state[q] \in {"RUNNABLE", "SLEEPING", "ZOMBIE"} /\ q # initproc => parent[q] # Nobody
       /\ state[q] = "UNUSED" => parent[q] = Nobody
       /\ parent[q] # Nobody =>
            state[parent[q]] \in {"RUNNABLE", "SLEEPING"} /\ ~Exiting(parent[q])

\* With wait_lock an exit has woken its parent, and a wait has seen no zombie.
HandsOver ==
  \A p \in Slots :
    /\ pc[p] = "exit_zombie" =>
         state[parent[p]] # "SLEEPING" /\ pc[parent[p]] # "wait_sched"
    /\ pc[p] = "wait_sleep" => Zombies(p) = {}

IInv ==
  /\ TypeOK
  /\ ThreadOfState
  /\ LockHolder
  /\ ForkOwnsChild
  /\ TreeSound
  /\ HandsOver
  /\ NoLostExit


\* The null pointer is no slot, and init has one.
LEMMA SlotFacts == Nobody \notin Slots /\ initproc \in Slots /\ Slots \subseteq Int
BY ProcAssumption DEF ProcAssumption, Slots, Nobody, initproc

\* What holds when the kernel boots.
LEMMA ProcInitially == ProcInit => IInv
BY SlotFacts DEF ProcInit, IInv, TypeOK, PcValues, ThreadOfState, LockHolder, Holder, Exiting,
  ForkOwnsChild, TreeSound, HandsOver, NoLostExit, Zombies, Offspring

\* The slot that a fork has taken.
LEMMA ForkChild ==
  ASSUME TypeOK, ThreadOfState, ForkOwnsChild,
         NEW p \in Slots, pc[p] \in {"fork_parent", "fork_run"}
  PROVE  /\ child[p] \in Slots /\ state[child[p]] = "USED" /\ pc[child[p]] = "gone"
         /\ pc[p] = "fork_run" => parent[child[p]] = p
BY DEF TypeOK, ThreadOfState, ForkOwnsChild

\* What ForkRun does, slot by slot: the thread of p comes back from fork, that of its
\* child starts.
ForkRunOf(p, c) ==
  /\ state[p] = "RUNNABLE" /\ pc[p] = "fork_run"
  /\ c = child[p] /\ state[c] = "USED" /\ pc[c] = "gone" /\ parent[c] = p
  /\ \A r \in Slots :
       /\ state'[r] = IF r = c THEN "RUNNABLE" ELSE state[r]
       /\ pc'[r] = IF r = c \/ r = p THEN "user" ELSE pc[r]
  /\ parent' = parent /\ killed' = killed /\ wait_lock' = wait_lock

\* ForkRun acts on a slot that its fork has taken.
LEMMA ForkRunEffect ==
  ASSUME TypeOK, ThreadOfState, ForkOwnsChild, NEW p \in Slots, ForkRun(p)
  PROVE  \E c \in Slots : ForkRunOf(p, c)
<1>1. state[p] = "RUNNABLE" /\ pc[p] = "fork_run"
  BY DEF ForkRun, Runs
<1>2. PICK c \in Slots : c = child[p] /\ state[c] = "USED" /\ parent[c] = p /\ pc[c] = "gone"
  BY <1>1, ForkChild
<1>3. /\ state' = [state EXCEPT ![c] = "RUNNABLE"]
      /\ pc' = [pc EXCEPT ![p] = "user", ![c] = "user"]
      /\ parent' = parent /\ killed' = killed /\ wait_lock' = wait_lock
  BY <1>2 DEF ForkRun
<1> QED
  BY <1>1, <1>2, <1>3 DEF ForkRunOf, TypeOK

\* No step leaves the types of the fields.
LEMMA TypeStep == TypeOK /\ [ProcNext]_procVars => TypeOK'
<1> SUFFICES ASSUME TypeOK, [ProcNext]_procVars PROVE TypeOK'
  OBVIOUS
<1> USE SlotFacts DEF TypeOK, PcValues
<1>1. ASSUME NEW p \in Slots, ForkAlloc(p) PROVE TypeOK'
  BY <1>1 DEF ForkAlloc, Runs, Goto, FirstUnused
<1>2. ASSUME NEW p \in Slots, ForkFailed(p) PROVE TypeOK'
  BY <1>2 DEF ForkFailed
<1>3. ASSUME NEW p \in Slots, ForkParent(p) PROVE TypeOK'
  BY <1>3 DEF ForkParent, Runs, Goto
<1>4. ASSUME NEW p \in Slots, ForkRun(p) PROVE TypeOK'
  BY <1>4 DEF ForkRun, Runs
<1>5. ASSUME NEW p \in Slots, ExitReparent(p) PROVE TypeOK'
  BY <1>5 DEF ExitReparent, Runs, Goto
<1>6. ASSUME NEW p \in Slots, ExitWakeInit(p) PROVE TypeOK'
  BY <1>6 DEF ExitWakeInit, Runs, Goto, Wakeup, Locked
<1>7. ASSUME NEW p \in Slots, ExitWake(p) PROVE TypeOK'
  BY <1>7 DEF ExitWake, Runs, Goto, Wakeup, Locked
<1>8. ASSUME NEW p \in Slots, ExitZombie(p) PROVE TypeOK'
  BY <1>8 DEF ExitZombie, Runs, Goto
<1>9. ASSUME NEW p \in Slots, ExitSched(p) PROVE TypeOK'
  BY <1>9 DEF ExitSched, Goto
<1>10. ASSUME NEW p \in Slots, WaitCollect(p) PROVE TypeOK'
  BY <1>10 DEF WaitCollect, Scan, Runs, Goto, FreeSlot, Zombies, Offspring, Locked
<1>11. ASSUME NEW p \in Slots, WaitBadAddress(p) PROVE TypeOK'
  BY <1>11 DEF WaitBadAddress, Scan, Runs, Goto
<1>12. ASSUME NEW p \in Slots, WaitFails(p) PROVE TypeOK'
  BY <1>12 DEF WaitFails, Scan, Runs, Goto
<1>13. ASSUME NEW p \in Slots, WaitNone(p) PROVE TypeOK'
  BY <1>13 DEF WaitNone, Scan, Runs, Goto
<1>14. ASSUME NEW p \in Slots, WaitSleep(p) PROVE TypeOK'
  BY <1>14 DEF WaitSleep, Runs, Goto
<1>15. ASSUME NEW p \in Slots, WaitSched(p) PROVE TypeOK'
  BY <1>15 DEF WaitSched, Runs, Goto
<1>16. ASSUME NEW p \in Slots, NEW q \in Slots, Kill(p, q) PROVE TypeOK'
  BY <1>16 DEF Kill, Runs, Wakeup, Locked
<1>17. ASSUME InitExit PROVE TypeOK'
  BY <1>17 DEF InitExit
<1>18. CASE UNCHANGED procVars
  BY <1>18 DEF procVars
<1> QED
  BY <1>1, <1>2, <1>3, <1>4, <1>5, <1>6, <1>7, <1>8, <1>9, <1>10, <1>11, <1>12, <1>13,
     <1>14, <1>15, <1>16, <1>17, <1>18 DEF ProcNext, KernelStep, WaitScan

\* A thread goes on and off the CPU as the state of its process says.
LEMMA ThreadStep ==
  TypeOK /\ ThreadOfState /\ ForkOwnsChild /\ [ProcNext]_procVars
  => ThreadOfState'
<1> SUFFICES ASSUME TypeOK, ThreadOfState, ForkOwnsChild,
                    [ProcNext]_procVars
    PROVE  ThreadOfState'
  OBVIOUS
<1> USE SlotFacts DEF TypeOK, PcValues, ThreadOfState
<1>1. ASSUME NEW p \in Slots, ForkAlloc(p) PROVE ThreadOfState'
  <2>1. PICK q \in Slots : /\ state[q] = "UNUSED" /\ state' = [state EXCEPT ![q] = "USED"]
                         /\ child' = [child EXCEPT ![p] = q]
    BY <1>1 DEF ForkAlloc, FirstUnused
  <2>2. /\ state[p] = "RUNNABLE" /\ pc[p] = "user"
        /\ pc' = [pc EXCEPT ![p] = "fork_parent"] /\ wait_lock' = wait_lock
    BY <1>1 DEF ForkAlloc, Runs, Goto
  <2> QED
    BY <2>1, <2>2
<1>2. ASSUME NEW p \in Slots, ForkFailed(p) PROVE ThreadOfState'
  BY <1>2 DEF ForkFailed
<1>3. ASSUME NEW p \in Slots, ForkParent(p) PROVE ThreadOfState'
  BY <1>3 DEF ForkParent, Runs, Goto
<1>4. ASSUME NEW p \in Slots, ForkRun(p) PROVE ThreadOfState'
  <2>1. PICK c \in Slots : ForkRunOf(p, c)
    BY <1>4, ForkRunEffect
  <2> QED
    BY <2>1 DEF ForkRunOf
<1>5. ASSUME NEW p \in Slots, ExitReparent(p) PROVE ThreadOfState'
  BY <1>5 DEF ExitReparent, Runs, Goto
<1>6. ASSUME NEW p \in Slots, ExitWakeInit(p) PROVE ThreadOfState'
  BY <1>6 DEF ExitWakeInit, Runs, Goto, Wakeup, Locked
<1>7. ASSUME NEW p \in Slots, ExitWake(p) PROVE ThreadOfState'
  BY <1>7 DEF ExitWake, Runs, Goto, Wakeup, Locked
<1>8. ASSUME NEW p \in Slots, ExitZombie(p) PROVE ThreadOfState'
  BY <1>8 DEF ExitZombie, Runs, Goto
<1>9. ASSUME NEW p \in Slots, ExitSched(p) PROVE ThreadOfState'
  BY <1>9 DEF ExitSched, Goto
<1>10. ASSUME NEW p \in Slots, WaitCollect(p) PROVE ThreadOfState'
  <2>1. PICK q \in Slots : state[q] = "ZOMBIE" /\ ~Locked(q) /\ FreeSlot(q)
    BY <1>10 DEF WaitCollect, Zombies, Offspring
  <2>2. pc[q] = "gone"
    BY <2>1 DEF Locked
  <2>3. /\ state[p] = "RUNNABLE" /\ pc[p] \in {"user", "wait_asleep"}
        /\ pc' = [pc EXCEPT ![p] = "user"] /\ wait_lock' = wait_lock
    BY <1>10 DEF WaitCollect, Scan, Runs, Goto
  <2> QED
    BY <2>1, <2>2, <2>3 DEF FreeSlot
<1>11. ASSUME NEW p \in Slots, WaitBadAddress(p) PROVE ThreadOfState'
  BY <1>11 DEF WaitBadAddress, Scan, Runs, Goto
<1>12. ASSUME NEW p \in Slots, WaitFails(p) PROVE ThreadOfState'
  BY <1>12 DEF WaitFails, Scan, Runs, Goto
<1>13. ASSUME NEW p \in Slots, WaitNone(p) PROVE ThreadOfState'
  BY <1>13 DEF WaitNone, Scan, Runs, Goto
<1>14. ASSUME NEW p \in Slots, WaitSleep(p) PROVE ThreadOfState'
  BY <1>14 DEF WaitSleep, Runs, Goto
<1>15. ASSUME NEW p \in Slots, WaitSched(p) PROVE ThreadOfState'
  BY <1>15 DEF WaitSched, Runs, Goto
<1>16. ASSUME NEW p \in Slots, NEW q \in Slots, Kill(p, q) PROVE ThreadOfState'
  BY <1>16 DEF Kill, Runs, Wakeup, Locked
<1>17. ASSUME InitExit PROVE ThreadOfState'
  BY <1>17 DEF InitExit
<1>18. CASE UNCHANGED procVars
  BY <1>18 DEF procVars
<1> QED
  BY <1>1, <1>2, <1>3, <1>4, <1>5, <1>6, <1>7, <1>8, <1>9, <1>10, <1>11, <1>12, <1>13,
     <1>14, <1>15, <1>16, <1>17, <1>18 DEF ProcNext, KernelStep, WaitScan

\* wait_lock is taken free and given back by its holder.
LEMMA LockStep ==
  TypeOK /\ ThreadOfState /\ ForkOwnsChild /\ LockHolder /\ [ProcNext]_procVars
  => LockHolder'
<1> SUFFICES ASSUME TypeOK, ThreadOfState, ForkOwnsChild, LockHolder,
                    [ProcNext]_procVars
    PROVE  LockHolder'
  OBVIOUS
<1> USE SlotFacts DEF TypeOK, PcValues, ThreadOfState, LockHolder, Holder, Exiting
<1>1. ASSUME NEW p \in Slots, ForkAlloc(p) PROVE LockHolder'
  <2>1. PICK q \in Slots : /\ state[q] = "UNUSED" /\ state' = [state EXCEPT ![q] = "USED"]
                         /\ child' = [child EXCEPT ![p] = q]
    BY <1>1 DEF ForkAlloc, FirstUnused
  <2>2. /\ state[p] = "RUNNABLE" /\ pc[p] = "user"
        /\ pc' = [pc EXCEPT ![p] = "fork_parent"] /\ wait_lock' = wait_lock
    BY <1>1 DEF ForkAlloc, Runs, Goto
  <2> QED
    BY <2>1, <2>2
<1>2. ASSUME NEW p \in Slots, ForkFailed(p) PROVE LockHolder'
  BY <1>2 DEF ForkFailed
<1>3. ASSUME NEW p \in Slots, ForkParent(p) PROVE LockHolder'
  BY <1>3 DEF ForkParent, Runs, Goto
<1>4. ASSUME NEW p \in Slots, ForkRun(p) PROVE LockHolder'
  <2>1. PICK c \in Slots : ForkRunOf(p, c)
    BY <1>4, ForkRunEffect
  <2> QED
    BY <2>1 DEF ForkRunOf
<1>5. ASSUME NEW p \in Slots, ExitReparent(p) PROVE LockHolder'
  BY <1>5 DEF ExitReparent, Runs, Goto
<1>6. ASSUME NEW p \in Slots, ExitWakeInit(p) PROVE LockHolder'
  BY <1>6 DEF ExitWakeInit, Runs, Goto, Wakeup, Locked
<1>7. ASSUME NEW p \in Slots, ExitWake(p) PROVE LockHolder'
  BY <1>7 DEF ExitWake, Runs, Goto, Wakeup, Locked
<1>8. ASSUME NEW p \in Slots, ExitZombie(p) PROVE LockHolder'
  BY <1>8 DEF ExitZombie, Runs, Goto
<1>9. ASSUME NEW p \in Slots, ExitSched(p) PROVE LockHolder'
  BY <1>9 DEF ExitSched, Goto
<1>10. ASSUME NEW p \in Slots, WaitCollect(p) PROVE LockHolder'
  <2>1. PICK q \in Slots : state[q] = "ZOMBIE" /\ ~Locked(q) /\ FreeSlot(q)
    BY <1>10 DEF WaitCollect, Zombies, Offspring
  <2>2. pc[q] = "gone"
    BY <2>1 DEF Locked
  <2>3. /\ state[p] = "RUNNABLE" /\ pc[p] \in {"user", "wait_asleep"}
        /\ pc' = [pc EXCEPT ![p] = "user"] /\ wait_lock' = wait_lock
    BY <1>10 DEF WaitCollect, Scan, Runs, Goto
  <2> QED
    BY <2>1, <2>2, <2>3 DEF FreeSlot
<1>11. ASSUME NEW p \in Slots, WaitBadAddress(p) PROVE LockHolder'
  BY <1>11 DEF WaitBadAddress, Scan, Runs, Goto
<1>12. ASSUME NEW p \in Slots, WaitFails(p) PROVE LockHolder'
  BY <1>12 DEF WaitFails, Scan, Runs, Goto
<1>13. ASSUME NEW p \in Slots, WaitNone(p) PROVE LockHolder'
  BY <1>13 DEF WaitNone, Scan, Runs, Goto
<1>14. ASSUME NEW p \in Slots, WaitSleep(p) PROVE LockHolder'
  BY <1>14 DEF WaitSleep, Runs, Goto
<1>15. ASSUME NEW p \in Slots, WaitSched(p) PROVE LockHolder'
  BY <1>15 DEF WaitSched, Runs, Goto
<1>16. ASSUME NEW p \in Slots, NEW q \in Slots, Kill(p, q) PROVE LockHolder'
  BY <1>16 DEF Kill, Runs, Wakeup, Locked
<1>17. ASSUME InitExit PROVE LockHolder'
  BY <1>17 DEF InitExit
<1>18. CASE UNCHANGED procVars
  BY <1>18 DEF procVars
<1> QED
  BY <1>1, <1>2, <1>3, <1>4, <1>5, <1>6, <1>7, <1>8, <1>9, <1>10, <1>11, <1>12, <1>13,
     <1>14, <1>15, <1>16, <1>17, <1>18 DEF ProcNext, KernelStep, WaitScan

\* Nobody else sees the slot of a fork.
LEMMA ForkStep ==
  TypeOK /\ ThreadOfState /\ ForkOwnsChild /\ TreeSound /\ [ProcNext]_procVars
  => ForkOwnsChild'
<1> SUFFICES ASSUME TypeOK, ThreadOfState, ForkOwnsChild, TreeSound,
                    [ProcNext]_procVars
    PROVE  ForkOwnsChild'
  OBVIOUS
<1> USE SlotFacts DEF TypeOK, PcValues, ThreadOfState, ForkOwnsChild, TreeSound
<1>1. ASSUME NEW p \in Slots, ForkAlloc(p) PROVE ForkOwnsChild'
  BY <1>1 DEF ForkAlloc, Runs, Goto, FirstUnused
<1>2. ASSUME NEW p \in Slots, ForkFailed(p) PROVE ForkOwnsChild'
  BY <1>2 DEF ForkFailed
<1>3. ASSUME NEW p \in Slots, ForkParent(p) PROVE ForkOwnsChild'
  BY <1>3 DEF ForkParent, Runs, Goto
<1>4. ASSUME NEW p \in Slots, ForkRun(p) PROVE ForkOwnsChild'
  BY <1>4 DEF ForkRun, Runs
<1>5. ASSUME NEW p \in Slots, ExitReparent(p) PROVE ForkOwnsChild'
  BY <1>5 DEF ExitReparent, Runs, Goto
<1>6. ASSUME NEW p \in Slots, ExitWakeInit(p) PROVE ForkOwnsChild'
  BY <1>6 DEF ExitWakeInit, Runs, Goto, Wakeup, Locked
<1>7. ASSUME NEW p \in Slots, ExitWake(p) PROVE ForkOwnsChild'
  BY <1>7 DEF ExitWake, Runs, Goto, Wakeup, Locked
<1>8. ASSUME NEW p \in Slots, ExitZombie(p) PROVE ForkOwnsChild'
  BY <1>8 DEF ExitZombie, Runs, Goto
<1>9. ASSUME NEW p \in Slots, ExitSched(p) PROVE ForkOwnsChild'
  BY <1>9 DEF ExitSched, Goto
<1>10. ASSUME NEW p \in Slots, WaitCollect(p) PROVE ForkOwnsChild'
  BY <1>10 DEF WaitCollect, Scan, Runs, Goto, FreeSlot, Zombies, Offspring, Locked
<1>11. ASSUME NEW p \in Slots, WaitBadAddress(p) PROVE ForkOwnsChild'
  BY <1>11 DEF WaitBadAddress, Scan, Runs, Goto
<1>12. ASSUME NEW p \in Slots, WaitFails(p) PROVE ForkOwnsChild'
  BY <1>12 DEF WaitFails, Scan, Runs, Goto
<1>13. ASSUME NEW p \in Slots, WaitNone(p) PROVE ForkOwnsChild'
  BY <1>13 DEF WaitNone, Scan, Runs, Goto
<1>14. ASSUME NEW p \in Slots, WaitSleep(p) PROVE ForkOwnsChild'
  BY <1>14 DEF WaitSleep, Runs, Goto
<1>15. ASSUME NEW p \in Slots, WaitSched(p) PROVE ForkOwnsChild'
  BY <1>15 DEF WaitSched, Runs, Goto
<1>16. ASSUME NEW p \in Slots, NEW q \in Slots, Kill(p, q) PROVE ForkOwnsChild'
  BY <1>16 DEF Kill, Runs, Wakeup, Locked
<1>17. ASSUME InitExit PROVE ForkOwnsChild'
  BY <1>17 DEF InitExit
<1>18. CASE UNCHANGED procVars
  BY <1>18 DEF procVars
<1> QED
  BY <1>1, <1>2, <1>3, <1>4, <1>5, <1>6, <1>7, <1>8, <1>9, <1>10, <1>11, <1>12, <1>13,
     <1>14, <1>15, <1>16, <1>17, <1>18 DEF ProcNext, KernelStep, WaitScan

\* Every step keeps the tree sound.
LEMMA TreeStep ==
  TypeOK /\ ThreadOfState /\ LockHolder /\ ForkOwnsChild /\ TreeSound /\ [ProcNext]_procVars
  => TreeSound'
<1> SUFFICES ASSUME TypeOK, ThreadOfState, LockHolder, ForkOwnsChild, TreeSound,
                    [ProcNext]_procVars
    PROVE  TreeSound'
  OBVIOUS
<1> USE SlotFacts DEF TypeOK, PcValues, ThreadOfState, LockHolder, Holder, Exiting, TreeSound
<1>1. ASSUME NEW p \in Slots, ForkAlloc(p) PROVE TreeSound'
  BY <1>1 DEF ForkAlloc, Runs, Goto, FirstUnused
<1>2. ASSUME NEW p \in Slots, ForkFailed(p) PROVE TreeSound'
  BY <1>2 DEF ForkFailed
<1>3. ASSUME NEW p \in Slots, ForkParent(p) PROVE TreeSound'
  <2>1. pc[p] = "fork_parent"
    BY <1>3 DEF ForkParent, Runs
  <2>2. child[p] \in Slots /\ state[child[p]] = "USED" /\ pc[child[p]] = "gone"
    BY <2>1, ForkChild
  <2> QED
    BY <1>3, <2>1, <2>2 DEF ForkParent, Runs, Goto
<1>4. ASSUME NEW p \in Slots, ForkRun(p) PROVE TreeSound'
  <2>1. PICK c \in Slots : ForkRunOf(p, c)
    BY <1>4, ForkRunEffect
  <2> USE DEF ForkRunOf
  <2>2. \A r \in Slots : parent[r] \in (Slots \ {c}) \cup {Nobody}
    BY <2>1
  <2>3. state'[initproc] \in {"RUNNABLE", "SLEEPING"} /\ ~Exiting(initproc)'
    BY <2>1
  <2>4. ASSUME NEW q \in Slots
        PROVE  /\ state'[q] \in {"RUNNABLE", "SLEEPING", "ZOMBIE"} /\ q # initproc =>
                    parent'[q] # Nobody
               /\ state'[q] = "UNUSED" => parent'[q] = Nobody
               /\ parent'[q] # Nobody =>
                    state'[parent'[q]] \in {"RUNNABLE", "SLEEPING"} /\ ~Exiting(parent[q])'
    <3>1. /\ state'[q] \in {"RUNNABLE", "SLEEPING", "ZOMBIE"} /\ q # initproc =>
               parent'[q] # Nobody
          /\ state'[q] = "UNUSED" => parent'[q] = Nobody
      BY <2>1
    <3>2. CASE parent[q] = Nobody
      BY <3>1, <3>2, <2>1
    <3>3. CASE parent[q] # Nobody
      <4>1. PICK r \in Slots \ {c} : r = parent[q]
        BY <3>3, <2>2
      <4>2. /\ state[r] \in {"RUNNABLE", "SLEEPING"}
            /\ pc[r] \notin {"exit_wake_init", "exit_wake", "exit_zombie"}
        BY <4>1, <3>3
      <4>3. state'[r] = state[r] /\ pc'[r] \in {pc[r], "user"} /\ parent' = parent
        BY <4>1, <2>1
      <4> QED
        BY <3>1, <4>1, <4>2, <4>3
    <3> QED
      BY <3>2, <3>3
  <2> QED
    BY <2>3, <2>4
<1>5. ASSUME NEW p \in Slots, ExitReparent(p) PROVE TreeSound'
  BY <1>5 DEF ExitReparent, Runs, Goto
<1>6. ASSUME NEW p \in Slots, ExitWakeInit(p) PROVE TreeSound'
  BY <1>6 DEF ExitWakeInit, Runs, Goto, Wakeup, Locked
<1>7. ASSUME NEW p \in Slots, ExitWake(p) PROVE TreeSound'
  BY <1>7 DEF ExitWake, Runs, Goto, Wakeup, Locked
<1>8. ASSUME NEW p \in Slots, ExitZombie(p) PROVE TreeSound'
  BY <1>8 DEF ExitZombie, Runs, Goto
<1>9. ASSUME NEW p \in Slots, ExitSched(p) PROVE TreeSound'
  BY <1>9 DEF ExitSched, Goto
<1>10. ASSUME NEW p \in Slots, WaitCollect(p) PROVE TreeSound'
  BY <1>10 DEF WaitCollect, Scan, Runs, Goto, FreeSlot, Zombies, Offspring, Locked
<1>11. ASSUME NEW p \in Slots, WaitBadAddress(p) PROVE TreeSound'
  BY <1>11 DEF WaitBadAddress, Scan, Runs, Goto
<1>12. ASSUME NEW p \in Slots, WaitFails(p) PROVE TreeSound'
  BY <1>12 DEF WaitFails, Scan, Runs, Goto
<1>13. ASSUME NEW p \in Slots, WaitNone(p) PROVE TreeSound'
  BY <1>13 DEF WaitNone, Scan, Runs, Goto
<1>14. ASSUME NEW p \in Slots, WaitSleep(p) PROVE TreeSound'
  BY <1>14 DEF WaitSleep, Runs, Goto
<1>15. ASSUME NEW p \in Slots, WaitSched(p) PROVE TreeSound'
  BY <1>15 DEF WaitSched, Runs, Goto
<1>16. ASSUME NEW p \in Slots, NEW q \in Slots, Kill(p, q) PROVE TreeSound'
  BY <1>16 DEF Kill, Runs, Wakeup, Locked
<1>17. ASSUME InitExit PROVE TreeSound'
  BY <1>17 DEF InitExit
<1>18. CASE UNCHANGED procVars
  BY <1>18 DEF procVars
<1> QED
  BY <1>1, <1>2, <1>3, <1>4, <1>5, <1>6, <1>7, <1>8, <1>9, <1>10, <1>11, <1>12, <1>13,
     <1>14, <1>15, <1>16, <1>17, <1>18 DEF ProcNext, KernelStep, WaitScan

\* What exit and wait do with wait_lock is not undone while they hold it.
LEMMA HandsOverStep ==
  TypeOK /\ ThreadOfState /\ LockHolder /\ ForkOwnsChild /\ TreeSound /\ HandsOver
  /\ [ProcNext]_procVars
  => HandsOver'
<1> SUFFICES ASSUME TypeOK, ThreadOfState, LockHolder, ForkOwnsChild, TreeSound, HandsOver,
                    [ProcNext]_procVars
    PROVE  HandsOver'
  OBVIOUS
<1> USE SlotFacts DEF TypeOK, PcValues, ThreadOfState, LockHolder, Holder, Exiting,
      TreeSound, HandsOver, Zombies, Offspring
<1>1. ASSUME NEW p \in Slots, ForkAlloc(p) PROVE HandsOver'
  BY <1>1 DEF ForkAlloc, Runs, Goto, FirstUnused
<1>2. ASSUME NEW p \in Slots, ForkFailed(p) PROVE HandsOver'
  BY <1>2 DEF ForkFailed
<1>3. ASSUME NEW p \in Slots, ForkParent(p) PROVE HandsOver'
  <2>1. pc[p] = "fork_parent"
    BY <1>3 DEF ForkParent, Runs
  <2>2. child[p] \in Slots /\ state[child[p]] = "USED" /\ pc[child[p]] = "gone"
    BY <2>1, ForkChild
  <2> QED
    BY <1>3, <2>1, <2>2 DEF ForkParent, Runs, Goto
<1>4. ASSUME NEW p \in Slots, ForkRun(p) PROVE HandsOver'
  <2>1. PICK c \in Slots : ForkRunOf(p, c)
    BY <1>4, ForkRunEffect
  <2> USE DEF ForkRunOf
  <2>2. \A r \in Slots : parent[r] \in (Slots \ {c}) \cup {Nobody}
    BY <2>1
  <2>3. ASSUME NEW q \in Slots, pc'[q] = "exit_zombie"
        PROVE  state'[parent'[q]] # "SLEEPING" /\ pc'[parent'[q]] # "wait_sched"
    <3>1. pc[q] = "exit_zombie" /\ q # initproc /\ state[q] = "RUNNABLE"
      BY <2>1, <2>3
    <3>2. PICK r \in Slots \ {c} : r = parent[q]
      BY <3>1, <2>2
    <3>3. state[r] # "SLEEPING" /\ pc[r] # "wait_sched"
      BY <3>1, <3>2
    <3>4. state'[r] = state[r] /\ pc'[r] \in {pc[r], "user"} /\ parent' = parent
      BY <3>2, <2>1
    <3> QED
      BY <3>2, <3>3, <3>4
  <2>4. ASSUME NEW q \in Slots, pc'[q] = "wait_sleep"
        PROVE  Zombies(q)' = {}
    <3>1. pc[q] = "wait_sleep" /\ Zombies(q) = {}
      BY <2>1, <2>4
    <3>2. Zombies(q)' \subseteq Zombies(q)
      BY <2>1
    <3> QED
      BY <3>1, <3>2
  <2> QED
    BY <2>3, <2>4
<1>5. ASSUME NEW p \in Slots, ExitReparent(p) PROVE HandsOver'
  BY <1>5 DEF ExitReparent, Runs, Goto
<1>6. ASSUME NEW p \in Slots, ExitWakeInit(p) PROVE HandsOver'
  BY <1>6 DEF ExitWakeInit, Runs, Goto, Wakeup, Locked
<1>7. ASSUME NEW p \in Slots, ExitWake(p) PROVE HandsOver'
  BY <1>7 DEF ExitWake, Runs, Goto, Wakeup, Locked
<1>8. ASSUME NEW p \in Slots, ExitZombie(p) PROVE HandsOver'
  BY <1>8 DEF ExitZombie, Runs, Goto
<1>9. ASSUME NEW p \in Slots, ExitSched(p) PROVE HandsOver'
  BY <1>9 DEF ExitSched, Goto
<1>10. ASSUME NEW p \in Slots, WaitCollect(p) PROVE HandsOver'
  BY <1>10 DEF WaitCollect, Scan, Runs, Goto, FreeSlot, Zombies, Offspring, Locked
<1>11. ASSUME NEW p \in Slots, WaitBadAddress(p) PROVE HandsOver'
  BY <1>11 DEF WaitBadAddress, Scan, Runs, Goto
<1>12. ASSUME NEW p \in Slots, WaitFails(p) PROVE HandsOver'
  BY <1>12 DEF WaitFails, Scan, Runs, Goto
<1>13. ASSUME NEW p \in Slots, WaitNone(p) PROVE HandsOver'
  BY <1>13 DEF WaitNone, Scan, Runs, Goto
<1>14. ASSUME NEW p \in Slots, WaitSleep(p) PROVE HandsOver'
  BY <1>14 DEF WaitSleep, Runs, Goto
<1>15. ASSUME NEW p \in Slots, WaitSched(p) PROVE HandsOver'
  BY <1>15 DEF WaitSched, Runs, Goto
<1>16. ASSUME NEW p \in Slots, NEW q \in Slots, Kill(p, q) PROVE HandsOver'
  BY <1>16 DEF Kill, Runs, Wakeup, Locked
<1>17. ASSUME InitExit PROVE HandsOver'
  BY <1>17 DEF InitExit
<1>18. CASE UNCHANGED procVars
  BY <1>18 DEF procVars
<1> QED
  BY <1>1, <1>2, <1>3, <1>4, <1>5, <1>6, <1>7, <1>8, <1>9, <1>10, <1>11, <1>12, <1>13,
     <1>14, <1>15, <1>16, <1>17, <1>18 DEF ProcNext, KernelStep, WaitScan

\* Nobody goes to sleep, or sleeps on, with a zombie to collect.
LEMMA NoLostExitStep ==
  TypeOK /\ ThreadOfState /\ LockHolder /\ ForkOwnsChild /\ TreeSound /\ HandsOver
  /\ NoLostExit /\ [ProcNext]_procVars
  => NoLostExit'
<1> SUFFICES ASSUME TypeOK, ThreadOfState, LockHolder, ForkOwnsChild, TreeSound, HandsOver,
                    NoLostExit, [ProcNext]_procVars
    PROVE  NoLostExit'
  OBVIOUS
<1> USE SlotFacts DEF TypeOK, PcValues, ThreadOfState, LockHolder, Holder, Exiting,
      TreeSound, HandsOver, NoLostExit, Zombies, Offspring
<1>1. ASSUME NEW p \in Slots, ForkAlloc(p) PROVE NoLostExit'
  BY <1>1 DEF ForkAlloc, Runs, Goto, FirstUnused
<1>2. ASSUME NEW p \in Slots, ForkFailed(p) PROVE NoLostExit'
  BY <1>2 DEF ForkFailed
<1>3. ASSUME NEW p \in Slots, ForkParent(p) PROVE NoLostExit'
  <2>1. pc[p] = "fork_parent"
    BY <1>3 DEF ForkParent, Runs
  <2>2. child[p] \in Slots /\ state[child[p]] = "USED" /\ pc[child[p]] = "gone"
    BY <2>1, ForkChild
  <2> QED
    BY <1>3, <2>1, <2>2 DEF ForkParent, Runs, Goto
<1>4. ASSUME NEW p \in Slots, ForkRun(p) PROVE NoLostExit'
  <2>1. PICK c \in Slots : ForkRunOf(p, c)
    BY <1>4, ForkRunEffect
  <2>2. ASSUME NEW q \in Slots PROVE Zombies(q)' \subseteq Zombies(q)
    BY <2>1 DEF ForkRunOf
  <2>3. \A q \in Slots :
          /\ pc'[q] = "wait_sched" => pc[q] = "wait_sched"
          /\ state'[q] = "SLEEPING" => state[q] = "SLEEPING"
          /\ pc[q] = "exit_wake_init" => pc'[q] = "exit_wake_init"
    BY <2>1 DEF ForkRunOf
  <2> HIDE DEF TypeOK, ThreadOfState, LockHolder, TreeSound, HandsOver, Zombies
  <2> QED
    BY <2>2, <2>3
<1>5. ASSUME NEW p \in Slots, ExitReparent(p) PROVE NoLostExit'
  BY <1>5 DEF ExitReparent, Runs, Goto
<1>6. ASSUME NEW p \in Slots, ExitWakeInit(p) PROVE NoLostExit'
  BY <1>6 DEF ExitWakeInit, Runs, Goto, Wakeup, Locked
<1>7. ASSUME NEW p \in Slots, ExitWake(p) PROVE NoLostExit'
  BY <1>7 DEF ExitWake, Runs, Goto, Wakeup, Locked
<1>8. ASSUME NEW p \in Slots, ExitZombie(p) PROVE NoLostExit'
  BY <1>8 DEF ExitZombie, Runs, Goto
<1>9. ASSUME NEW p \in Slots, ExitSched(p) PROVE NoLostExit'
  BY <1>9 DEF ExitSched, Goto
<1>10. ASSUME NEW p \in Slots, WaitCollect(p) PROVE NoLostExit'
  BY <1>10 DEF WaitCollect, Scan, Runs, Goto, FreeSlot, Zombies, Offspring, Locked
<1>11. ASSUME NEW p \in Slots, WaitBadAddress(p) PROVE NoLostExit'
  BY <1>11 DEF WaitBadAddress, Scan, Runs, Goto
<1>12. ASSUME NEW p \in Slots, WaitFails(p) PROVE NoLostExit'
  BY <1>12 DEF WaitFails, Scan, Runs, Goto
<1>13. ASSUME NEW p \in Slots, WaitNone(p) PROVE NoLostExit'
  BY <1>13 DEF WaitNone, Scan, Runs, Goto
<1>14. ASSUME NEW p \in Slots, WaitSleep(p) PROVE NoLostExit'
  BY <1>14 DEF WaitSleep, Runs, Goto
<1>15. ASSUME NEW p \in Slots, WaitSched(p) PROVE NoLostExit'
  BY <1>15 DEF WaitSched, Runs, Goto
<1>16. ASSUME NEW p \in Slots, NEW q \in Slots, Kill(p, q) PROVE NoLostExit'
  BY <1>16 DEF Kill, Runs, Wakeup, Locked
<1>17. ASSUME InitExit PROVE NoLostExit'
  BY <1>17 DEF InitExit
<1>18. CASE UNCHANGED procVars
  BY <1>18 DEF procVars
<1> QED
  BY <1>1, <1>2, <1>3, <1>4, <1>5, <1>6, <1>7, <1>8, <1>9, <1>10, <1>11, <1>12, <1>13,
     <1>14, <1>15, <1>16, <1>17, <1>18 DEF ProcNext, KernelStep, WaitScan

\* IInv is inductive.
LEMMA Inductive == IInv /\ [ProcNext]_procVars => IInv'
BY TypeStep, ThreadStep, LockStep, ForkStep, TreeStep, HandsOverStep, NoLostExitStep DEF IInv

\* It holds in every reachable state.
THEOREM Invariance == ProcSpec => []IInv
BY ProcInitially, Inductive, PTL DEF ProcSpec

\* Every field of every slot keeps the type of its declaration.
THEOREM TypeCorrect == ProcSpec => []TypeOK
<1>1. IInv => TypeOK
  BY DEF IInv
<1> QED
  BY <1>1, Invariance, PTL

\* At most one process is between reparent and the end of its exit, or between the scan
\* and the sleep of its wait, and wait_lock says which.
THEOREM OneHolder == ProcSpec => []LockHolder
<1>1. IInv => LockHolder
  BY DEF IInv
<1> QED
  BY <1>1, Invariance, PTL

\* The family tree is sound, no exit is lost on a parent that sleeps, and a free slot
\* is clean.
LEMMA RightFollows == IInv => ProcessesRight
<1> SUFFICES ASSUME IInv PROVE ParentAlive /\ NoLostExit /\ FreeIsClean
  BY DEF ProcessesRight
<1> USE SlotFacts DEF IInv
<1>1. ParentAlive
  BY DEF ParentAlive, TreeSound
<1>2. FreeIsClean
  BY DEF FreeIsClean, TreeSound, ThreadOfState, ForkOwnsChild
<1> QED
  BY <1>1, <1>2

\* fork, exit, wait and kill keep the table right, however they interleave.
THEOREM TableRight == ProcSpec => []ProcessesRight
BY Invariance, RightFollows, PTL

------------------------------------------------------------------------------
(* The refinement of ProcForest *)

\* When the kernel boots the tree is init alone.
LEMMA ForestInit == ProcInit => Forest!Init
<1> SUFFICES ASSUME ProcInit PROVE Forest!Init
  OBVIOUS
<1> USE SlotFacts DEF ProcInit, Exiting
<1>1. Dead = {}
  BY DEF Dead
<1>2. Alive = {initproc}
  BY <1>1 DEF Alive
<1>3. LivingParent = [q \in Slots |-> Nobody]
  BY DEF LivingParent
<1> QED
  BY <1>1, <1>2, <1>3 DEF Forest!Init

\* What the tree sees of a slot.
View(q) ==
  IF Exiting(q) \/ state[q] = "ZOMBIE" THEN "dead"
  ELSE IF state[q] \in {"RUNNABLE", "SLEEPING"} THEN "alive" ELSE "none"

\* A step that changes neither what a slot is to the tree nor its parent is a stutter.
LEMMA ForestSame ==
  ASSUME \A q \in Slots : View(q)' = View(q) /\ (View(q) # "none" => parent'[q] = parent[q])
  PROVE  UNCHANGED Forest!forestVars
<1>1. Dead = { q \in Slots : View(q) = "dead" } /\ Dead' = { q \in Slots : View(q)' = "dead" }
  BY DEF Dead, View
<1>2. Alive = { q \in Slots : View(q) = "alive" } /\ Alive' = { q \in Slots : View(q)' = "alive" }
  BY DEF Alive, Dead, View
<1>3. Dead' = Dead /\ Alive' = Alive
  BY <1>1, <1>2
<1>4. LivingParent' = LivingParent
  BY <1>1, <1>2, <1>3 DEF LivingParent
<1> QED
  BY <1>3, <1>4 DEF Forest!forestVars

\* Each step of the table is one fork, exit or collect of the tree, or nothing to it.
LEMMA ForestStep == IInv /\ [ProcNext]_procVars => [Forest!Next]_(Forest!forestVars)
<1> SUFFICES ASSUME TypeOK, ThreadOfState, LockHolder, ForkOwnsChild, [ProcNext]_procVars
    PROVE  [Forest!Next]_(Forest!forestVars)
  BY DEF IInv
<1> DEFINE Same ==
      \A r \in Slots : View(r)' = View(r) /\ (View(r) # "none" => parent'[r] = parent[r])
<1> USE SlotFacts DEF TypeOK, PcValues, ThreadOfState, LockHolder, Holder, Exiting, View
<1>1. ASSUME NEW p \in Slots, ForkAlloc(p) PROVE Same
  <2>1. PICK q \in Slots : /\ state[q] = "UNUSED" /\ state' = [state EXCEPT ![q] = "USED"]
                         /\ child' = [child EXCEPT ![p] = q]
    BY <1>1 DEF ForkAlloc, FirstUnused
  <2>2. /\ state[p] = "RUNNABLE" /\ pc[p] = "user"
        /\ pc' = [pc EXCEPT ![p] = "fork_parent"] /\ wait_lock' = wait_lock
    BY <1>1 DEF ForkAlloc, Runs, Goto
  <2>3. pc[q] = "gone" /\ parent' = parent
    BY <2>1, <1>1 DEF ForkAlloc
  <2> QED
    BY <2>1, <2>2, <2>3
<1>2. ASSUME NEW p \in Slots, ForkFailed(p) PROVE Same
  BY <1>2 DEF ForkFailed
<1>3. ASSUME NEW p \in Slots, ForkParent(p) PROVE Same
  <2>1. pc[p] = "fork_parent"
    BY <1>3 DEF ForkParent, Runs
  <2>2. child[p] \in Slots /\ state[child[p]] = "USED" /\ pc[child[p]] = "gone"
    BY <2>1, ForkChild
  <2> QED
    BY <1>3, <2>1, <2>2 DEF ForkParent, Runs, Goto
<1>4. ASSUME NEW p \in Slots, ForkRun(p) PROVE Forest!Next
  <2>1. PICK c \in Slots : ForkRunOf(p, c)
    BY <1>4, ForkRunEffect
  <2> USE <2>1 DEF ForkRunOf, Exiting
  <2>2. p \in Alive /\ c \notin Alive \cup Dead
    BY DEF Alive, Dead
  <2>3. Dead' = Dead /\ Alive' = Alive \cup {c}
    <3>1. \A r \in Slots : r \in Dead' <=> r \in Dead
      BY DEF Dead
    <3>2. \A r \in Slots : r \in Alive' <=> r \in Alive \/ r = c
      BY DEF Alive, Dead
    <3>3. /\ Dead \subseteq Slots /\ Dead' \subseteq Slots
          /\ Alive \subseteq Slots /\ Alive' \subseteq Slots
      BY DEF Alive, Dead
    <3> HIDE <2>1, SlotFacts DEF TypeOK, PcValues, ThreadOfState, LockHolder, View, ForkRunOf
    <3> QED
      BY <3>1, <3>2, <3>3
  <2>4. LivingParent' = [LivingParent EXCEPT ![c] = p]
    BY <2>3 DEF LivingParent
  <2> QED
    BY <2>2, <2>3, <2>4 DEF Forest!Next, Forest!Fork
<1>5. ASSUME NEW p \in Slots, ExitReparent(p) PROVE Forest!Next
  <2>1. /\ state[p] = "RUNNABLE" /\ pc[p] = "user" /\ p # initproc /\ state' = state
        /\ parent' = [q \in Slots |-> IF parent[q] = p THEN initproc ELSE parent[q]]
        /\ \E l \in {"exit_wake", "exit_wake_init"} : pc' = [pc EXCEPT ![p] = l]
    BY <1>5 DEF ExitReparent, Runs, Goto
  <2> USE <2>1 DEF Exiting
  <2>2. p \in Alive /\ p \notin Dead
    BY DEF Alive, Dead
  <2>3. Dead' = Dead \cup {p} /\ Alive' = Alive \ {p}
    BY DEF Alive, Dead
  <2>4. LivingParent' =
          [q \in Slots |-> IF LivingParent[q] = p THEN initproc ELSE LivingParent[q]]
    BY <2>2, <2>3 DEF LivingParent
  <2> QED
    BY <2>2, <2>3, <2>4 DEF Forest!Next, Forest!Exit
<1>6. ASSUME NEW p \in Slots, ExitWakeInit(p) PROVE Same
  BY <1>6 DEF ExitWakeInit, Runs, Goto, Wakeup, Locked
<1>7. ASSUME NEW p \in Slots, ExitWake(p) PROVE Same
  BY <1>7 DEF ExitWake, Runs, Goto, Wakeup, Locked
<1>8. ASSUME NEW p \in Slots, ExitZombie(p) PROVE Same
  BY <1>8 DEF ExitZombie, Runs, Goto
<1>9. ASSUME NEW p \in Slots, ExitSched(p) PROVE Same
  BY <1>9 DEF ExitSched, Goto
<1>10. ASSUME NEW p \in Slots, WaitCollect(p) PROVE Forest!Next
  <2>1. PICK q \in Slots : state[q] = "ZOMBIE" /\ parent[q] = p /\ ~Locked(q) /\ FreeSlot(q)
    BY <1>10 DEF WaitCollect, Zombies, Offspring
  <2>2. /\ state[p] = "RUNNABLE" /\ pc[p] \in {"user", "wait_asleep"}
        /\ pc' = [pc EXCEPT ![p] = "user"] /\ pc[q] = "gone"
    BY <1>10, <2>1 DEF WaitCollect, Scan, Runs, Goto, Locked
  <2> USE <2>1, <2>2 DEF Exiting, FreeSlot
  <2>3. p \in Alive /\ q \in Dead /\ LivingParent[q] = p
    BY DEF Alive, Dead, LivingParent
  <2>4. Dead' = Dead \ {q} /\ Alive' = Alive
    BY DEF Alive, Dead
  <2>5. LivingParent' = [LivingParent EXCEPT ![q] = Nobody]
    BY <2>3, <2>4 DEF LivingParent
  <2> QED
    BY <2>3, <2>4, <2>5 DEF Forest!Next, Forest!Collect
<1>11. ASSUME NEW p \in Slots, WaitBadAddress(p) PROVE Same
  BY <1>11 DEF WaitBadAddress, Scan, Runs, Goto
<1>12. ASSUME NEW p \in Slots, WaitFails(p) PROVE Same
  BY <1>12 DEF WaitFails, Scan, Runs, Goto
<1>13. ASSUME NEW p \in Slots, WaitNone(p) PROVE Same
  BY <1>13 DEF WaitNone, Scan, Runs, Goto
<1>14. ASSUME NEW p \in Slots, WaitSleep(p) PROVE Same
  BY <1>14 DEF WaitSleep, Runs, Goto
<1>15. ASSUME NEW p \in Slots, WaitSched(p) PROVE Same
  BY <1>15 DEF WaitSched, Runs, Goto
<1>16. ASSUME NEW p \in Slots, NEW q \in Slots, Kill(p, q) PROVE Same
  BY <1>16 DEF Kill, Runs, Wakeup, Locked
<1>17. ASSUME InitExit PROVE Same
  BY <1>17 DEF InitExit
<1>18. CASE UNCHANGED procVars
  <2>1. Same
    BY <1>18 DEF procVars
  <2> QED
    BY <2>1, ForestSame
<1>19. Same => UNCHANGED Forest!forestVars
  BY ForestSame
<1> QED
  BY <1>1, <1>2, <1>3, <1>4, <1>5, <1>6, <1>7, <1>8, <1>9, <1>10, <1>11, <1>12, <1>13,
     <1>14, <1>15, <1>16, <1>17, <1>18, <1>19 DEF ProcNext, KernelStep, WaitScan

\* fork, exit and wait behave as atomic operations on the tree of processes.
THEOREM Refinement == ProcSpec => AtomicForest
BY ForestInit, ForestStep, Invariance, PTL DEF ProcSpec, AtomicForest, Forest!Spec

==============================================================================
