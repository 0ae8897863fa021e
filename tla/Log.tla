--------------------------------- MODULE Log ---------------------------------
(***************************************************************************)
(* The write-ahead log of the xv6 file system (kernel/log.c) over the disk *)
(* and the buffer cache (kernel/bio.c): concurrent operations between      *)
(* begin_op and end_op, group commit by the last one to end, and recovery  *)
(* after a crash at any point, recovery included.                          *)
(*                                                                         *)
(* A step is a critical section of log.lock or one disk write.  A crash    *)
(* loses the memory and keeps every write the disk has completed (bwrite   *)
(* returns when the write is done).  The sleep and wakeup of begin_op are  *)
(* one step each: module Semaphore shows that the pair loses no wakeup.    *)
(* A log_write that finds the log full panics, with log.lock held: nobody  *)
(* takes that lock again until the machine is reset, which is Crash.       *)
(***************************************************************************)
EXTENDS Integers, Sequences, FiniteSets

CONSTANTS
  Procs,          \* the processes that make file-system calls
  Blocks,         \* the home blocks they write
  Vals,           \* contents of a block
  Absent,         \* no buffer holds the block
  MAXOPBLOCKS,    \* the blocks begin_op sets aside for an operation
  LOGSIZE,        \* the entries of the header
  LogDiskSize,    \* log.size: the log's blocks on disk, the header included
  OpWrites        \* the blocks an operation really writes, at most

ASSUME LogAssumption ==
  /\ MAXOPBLOCKS \in Nat /\ LOGSIZE \in Nat /\ LogDiskSize \in Nat /\ OpWrites \in Nat
  /\ OpWrites <= MAXOPBLOCKS
  /\ LogDiskSize <= LOGSIZE + 1
  /\ Absent \notin Vals /\ Vals # {}
  /\ IsFiniteSet(Procs) /\ IsFiniteSet(Blocks)

VARIABLES
  home,           \* disk: the blocks at their home locations
  logged,         \* disk: the log's data blocks
  head,           \* disk: the header block, the sequence of block numbers
  cache,          \* memory: the buffers
  pinned,         \* memory: the blocks held in the cache by bpin
  lh,             \* memory: log.lh
  outstanding,    \* memory: log.outstanding
  committing,     \* memory: log.committing
  pc,             \* where each process is
  wrote,          \* the blocks its operation wrote
  tail,           \* the loop variable of write_log and install_trans
  boot            \* "up", or where recover_from_log is

disk == <<home, logged, head>>
memory == <<cache, pinned, lh, outstanding, committing>>
vars == <<disk, memory, pc, wrote, tail, boot>>

Entries == { lh[k] : k \in 1..Len(lh) }

Init ==
  /\ home \in [Blocks -> Vals]
  /\ logged = [k \in 1..LOGSIZE |-> CHOOSE v \in Vals : TRUE]
  /\ head = <<>>
  /\ cache = [b \in Blocks |-> Absent]
  /\ pinned = {}
  /\ lh = <<>>
  /\ outstanding = 0
  /\ committing = FALSE
  /\ pc = [p \in Procs |-> "user"]
  /\ wrote = [p \in Procs |-> {}]
  /\ tail = 1
  /\ boot = "up"

------------------------------------------------------------------------------
(* The buffer cache *)

\* bread of a block no buffer holds.
Load(b) ==
  /\ boot = "up" /\ cache[b] = Absent
  /\ cache' = [cache EXCEPT ![b] = home[b]]
  /\ UNCHANGED <<disk, pinned, lh, outstanding, committing, pc, wrote, tail, boot>>

\* bget recycles the buffer of a block nobody holds.
Evict(b) ==
  /\ cache[b] # Absent /\ b \notin pinned
  /\ cache' = [cache EXCEPT ![b] = Absent]
  /\ UNCHANGED <<disk, pinned, lh, outstanding, committing, pc, wrote, tail, boot>>

------------------------------------------------------------------------------
(* Operations *)

\* Mutant: the operation that wants to begin is not counted.
MustWait_OneShort == committing \/ Len(lh) + outstanding * MAXOPBLOCKS > LOGSIZE

\* begin_op would have to wait: a commit runs, or the log might overflow.
MustWait == committing \/ Len(lh) + (outstanding + 1) * MAXOPBLOCKS > LOGSIZE

\* No process has panicked in log_write, with log.lock.
LogLockFree == \A p \in Procs : pc[p] # "panicked"

CallBegin(p) ==
  /\ boot = "up" /\ pc[p] = "user"
  /\ pc' = [pc EXCEPT ![p] = "begin"]
  /\ UNCHANGED <<disk, memory, wrote, tail, boot>>

BeginSleep(p) ==
  /\ LogLockFree /\ pc[p] = "begin" /\ MustWait
  /\ pc' = [pc EXCEPT ![p] = "asleep"]
  /\ UNCHANGED <<disk, memory, wrote, tail, boot>>

BeginEnter(p) ==
  /\ LogLockFree /\ pc[p] = "begin" /\ ~MustWait
  /\ outstanding' = outstanding + 1
  /\ pc' = [pc EXCEPT ![p] = "active"]
  /\ wrote' = [wrote EXCEPT ![p] = {}]
  /\ UNCHANGED <<disk, cache, pinned, lh, committing, tail, boot>>

\* What log_write finds too big a transaction, whether the block is already logged or not.
LogFull == Len(lh) >= LOGSIZE \/ Len(lh) >= LogDiskSize - 1

\* p calls log_write with the buffer of block b, one it wrote before or one more.
CallsLogWrite(p, b) ==
  /\ LogLockFree /\ pc[p] = "active" /\ cache[b] # Absent
  /\ b \in wrote[p] \/ Cardinality(wrote[p]) < OpWrites

\* bread, a change to the buffer, log_write, brelse.  A block already in the
\* log is absorbed, another one is pinned and appended.
Write(p, b) ==
  /\ CallsLogWrite(p, b) /\ ~LogFull
  /\ \E v \in Vals : cache' = [cache EXCEPT ![b] = v]
  /\ IF b \in Entries
       THEN UNCHANGED <<pinned, lh>>
       ELSE pinned' = pinned \cup {b} /\ lh' = Append(lh, b)
  /\ wrote' = [wrote EXCEPT ![p] = @ \cup {b}]
  /\ UNCHANGED <<disk, outstanding, committing, pc, tail, boot>>

\* log_write panics before it looks whether the block is logged.  The change made to the
\* buffer, which p keeps locked, is left out: nobody sees it.
WritePanics(p, b) ==
  /\ CallsLogWrite(p, b) /\ LogFull
  /\ pc' = [pc EXCEPT ![p] = "panicked"]
  /\ UNCHANGED <<disk, memory, wrote, tail, boot>>

\* wakeup(&log): the program counters after it.
WakeAll(new) == [p \in Procs |-> IF new[p] = "asleep" THEN "begin" ELSE new[p]]

\* end_op by an operation that is not the last outstanding one.
EndOp(p) ==
  /\ LogLockFree /\ pc[p] = "active" /\ outstanding > 1
  /\ outstanding' = outstanding - 1
  /\ pc' = WakeAll([pc EXCEPT ![p] = "user"])
  /\ UNCHANGED <<disk, cache, pinned, lh, committing, wrote, tail, boot>>

\* Mutant: the header is written without the blocks it names.
EndLast_HeadFirst(p) ==
  /\ LogLockFree /\ pc[p] = "active" /\ outstanding = 1
  /\ outstanding' = 0
  /\ committing' = TRUE
  /\ pc' = [pc EXCEPT ![p] = IF lh = <<>> THEN "committed" ELSE "write_head"]
  /\ tail' = 1
  /\ UNCHANGED <<disk, cache, pinned, lh, wrote, boot>>

\* Mutant: the last end_op leaves the commit to a later one.
EndLast_NoCommit(p) ==
  /\ LogLockFree /\ pc[p] = "active" /\ outstanding = 1
  /\ outstanding' = 0
  /\ committing' = TRUE
  /\ pc' = [pc EXCEPT ![p] = "committed"]
  /\ tail' = 1
  /\ UNCHANGED <<disk, cache, pinned, lh, wrote, boot>>

\* end_op by the last one, which goes on to commit.
EndLast(p) ==
  /\ LogLockFree /\ pc[p] = "active" /\ outstanding = 1
  /\ outstanding' = 0
  /\ committing' = TRUE
  /\ pc' = [pc EXCEPT ![p] = IF lh = <<>> THEN "committed" ELSE "write_log"]
  /\ tail' = 1
  /\ UNCHANGED <<disk, cache, pinned, lh, wrote, boot>>

------------------------------------------------------------------------------
(* commit *)

\* What bread returns for block b.
Cached(b) == IF cache[b] = Absent THEN home[b] ELSE cache[b]

\* write_log copies one block from the cache to the log.
WriteLog(p) ==
  /\ pc[p] = "write_log"
  /\ logged' = [logged EXCEPT ![tail] = Cached(lh[tail])]
  /\ pc' = [pc EXCEPT ![p] = IF tail = Len(lh) THEN "write_head" ELSE @]
  /\ tail' = IF tail = Len(lh) THEN 1 ELSE tail + 1
  /\ UNCHANGED <<home, head, memory, wrote, boot>>

WriteHead(p) ==
  /\ pc[p] = "write_head"
  /\ head' = lh
  /\ pc' = [pc EXCEPT ![p] = "install"]
  /\ UNCHANGED <<home, logged, memory, wrote, tail, boot>>

\* One turn of install_trans: a block goes from the log to its home.
InstallOne ==
  /\ home' = [home EXCEPT ![lh[tail]] = logged[tail]]
  /\ cache' = [cache EXCEPT ![lh[tail]] = logged[tail]]
  /\ tail' = IF tail = Len(lh) THEN 1 ELSE tail + 1

Install(p) ==
  /\ pc[p] = "install"
  /\ InstallOne
  /\ pinned' = pinned \ {lh[tail]}
  /\ pc' = [pc EXCEPT ![p] = IF tail = Len(lh) THEN "clear" ELSE @]
  /\ UNCHANGED <<logged, head, lh, outstanding, committing, wrote, boot>>

\* log.lh.n = 0 and the header is written again.
ClearLog == lh' = <<>> /\ head' = <<>>

Clear(p) ==
  /\ pc[p] = "clear"
  /\ ClearLog
  /\ pc' = [pc EXCEPT ![p] = "committed"]
  /\ UNCHANGED <<home, logged, cache, pinned, outstanding, committing, wrote, tail, boot>>

\* Mutant: the end of a commit wakes nobody.
Committed_NoWakeup(p) ==
  /\ pc[p] = "committed"
  /\ committing' = FALSE
  /\ pc' = [pc EXCEPT ![p] = "user"]
  /\ UNCHANGED <<disk, cache, pinned, lh, outstanding, wrote, tail, boot>>

\* The end of end_op's commit: others may begin.
Committed(p) ==
  /\ pc[p] = "committed"
  /\ committing' = FALSE
  /\ pc' = WakeAll([pc EXCEPT ![p] = "user"])
  /\ UNCHANGED <<disk, cache, pinned, lh, outstanding, wrote, tail, boot>>

------------------------------------------------------------------------------
(* Crash and recovery *)

Crash ==
  /\ cache' = [b \in Blocks |-> Absent]
  /\ pinned' = {} /\ lh' = <<>> /\ outstanding' = 0 /\ committing' = FALSE
  /\ pc' = [p \in Procs |-> "user"]
  /\ wrote' = [p \in Procs |-> {}]
  /\ tail' = 1
  /\ boot' = "read_head"
  /\ UNCHANGED disk

ReadHead ==
  /\ boot = "read_head"
  /\ lh' = head
  /\ boot' = IF head = <<>> THEN "clear" ELSE "install"
  /\ UNCHANGED <<disk, cache, pinned, outstanding, committing, pc, wrote, tail>>

RecoverInstall ==
  /\ boot = "install"
  /\ InstallOne
  /\ boot' = IF tail = Len(lh) THEN "clear" ELSE "install"
  /\ UNCHANGED <<logged, head, pinned, lh, outstanding, committing, pc, wrote>>

RecoverClear ==
  /\ boot = "clear"
  /\ ClearLog
  /\ boot' = "up"
  /\ UNCHANGED <<home, logged, cache, pinned, outstanding, committing, pc, wrote, tail>>

CommitStep(p) ==
  WriteLog(p) \/ WriteHead(p) \/ Install(p) \/ Clear(p) \/ Committed(p)

EndStep(p) == EndOp(p) \/ EndLast(p)

Recover == ReadHead \/ RecoverInstall \/ RecoverClear

Next ==
  \/ \E p \in Procs :
       \/ CallBegin(p) \/ BeginSleep(p) \/ BeginEnter(p)
       \/ EndStep(p) \/ CommitStep(p)
       \/ \E b \in Blocks : Write(p, b) \/ WritePanics(p, b)
  \/ \E b \in Blocks : Load(b) \/ Evict(b)
  \/ Crash \/ Recover

Spec == Init /\ [][Next]_vars

\* Operations end, a commit and a recovery go on, and a process that finds
\* room in the log again and again gets it.
FairSpec ==
  /\ Spec /\ WF_vars(Recover)
  /\ \A p \in Procs :
       /\ WF_vars(EndStep(p)) /\ WF_vars(CommitStep(p)) /\ WF_vars(BeginSleep(p))
       /\ SF_vars(BeginEnter(p))

------------------------------------------------------------------------------
(* The refinement mapping to AtomicDisk *)

\* The disk after a recovery from what the disk holds now.
Recovered ==
  [b \in Blocks |->
     IF \E k \in 1..Len(head) : head[k] = b
       THEN logged[CHOOSE k \in 1..Len(head) : head[k] = b]
       ELSE home[b]]

Current == IF boot = "up" THEN [b \in Blocks |-> Cached(b)] ELSE Recovered

\* The operations log.outstanding counts.
Active == { p \in Procs : pc[p] \in {"active", "panicked"} }

Atomic == INSTANCE AtomicDisk WITH
            current <- Current, durable <- Recovered, active <- Active

------------------------------------------------------------------------------

\* Every history of operations, commits, crashes and recoveries is one of the
\* atomic disk: a crash never leaves a part of an operation, and a commit never
\* takes in an operation that has not ended.
AtomicTransactions == Atomic!Spec

\* When nothing is active and no commit runs, what the operations wrote is
\* durable: end_op of the last operation does not return before.
DurableAtRest ==
  boot = "up" /\ Active = {} /\ ~committing => Recovered = Current

\* No log_write ever panics for want of room, one that would only be absorbed included:
\* what begin_op set aside is enough, however operations overlap, end and write again.
NeverPanics == LogLockFree

\* A process in begin_op gets to start its operation, unless the machine crashes.
BeginReturns ==
  \A p \in Procs : (pc[p] \in {"begin", "asleep"}) ~> (pc[p] \in {"active", "user"})

==============================================================================
