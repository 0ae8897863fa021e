# A verification project for the FAMAF operating-systems labs

The repository holds three labs of the course *Sistemas Operativos* (FAMAF, 2025),
all under `Sistema_operativo_2025/labs/`:

| lab | directory | what it is |
|---|---|---|
| 1 | `so25lab1g16` | *mybash*, a shell: parsing of pipelines, built-in commands, pipes, redirections, background processes |
| 2 | `so25lab2g16` | the xv6-riscv kernel with *named semaphores* added to it, and the programs `pingpong` and `tateti` that use them |
| 3 | `so25lab3g16` | a FAT32 file system in user space (FUSE), with a hidden log of what users read and write ("big brother") |

The modules here model the concurrent, crash-prone or stateful parts of these
programs.  TLC checks small instances; TLAPS proves, for every value of the constants,
the parts on which the others rest: the semaphores, the two programs that use them, the
process table, the log, the buffer cache with the disk driver below it, open files and
pipes, and the pipelines and background list of mybash.

## 1. Inventory

### 1.1 Lab 2: the kernel and its programs

* **Named semaphores** (`kernel/semaphore.c`, wrappers in `kernel/sysproc.c`).
  State: `sem_array[MAX_SEM]`, each with `is_use`, `value` and a spin lock.
  Operations: `sem_open`, `sem_close`, `sem_up`, `sem_down`, `sem_init`.
  Hard: handlers of several CPUs interleave wherever a lock is taken or given up;
  `sem_down` sleeps and rechecks only the value; `sem_close` and `kill` wake sleepers.
  Correct when: each call is atomic, no wakeup is lost, closing releases everybody.
* **Sleep, wakeup, kill and the scheduler** (`kernel/proc.c`).  State: `p->state`,
  `p->chan`, `p->killed` under `p->lock`.  Used by every blocking kernel service.
* **Process table** (`kernel/proc.c`: `fork`, `exit`, `wait`, `reparent`; `user/init.c`).
  State: 64 slots, `parent` under `wait_lock`.  Hard: a child that exits while its parent
  goes to sleep in `wait`, or exits too; a stack freed while its thread is on the CPU.
  Correct when: the tree is sound and each zombie is collected exactly once.
* **Log and buffer cache** (`kernel/log.c`, `kernel/bio.c`).  State: the header on disk
  and in memory, `outstanding`, `committing`, pinned buffers.  Operations: `begin_op`,
  `end_op`, `log_write`, commit, recovery.  Hard: a crash between any two disk writes,
  group commit, space reservation.  Correct when: operations are atomic and durable.
* **Inodes, directories, path names** (`kernel/fs.c`) and the **system calls on them**
  (`kernel/sysfile.c`).  State: dinodes with `nlink`, the in-memory table with `ref`,
  `valid` and a sleep lock each, directory entries, `p->cwd`, open files.  Operations:
  `open`, `mkdir`, `link`, `unlink`, `chdir`, `close`.  Hard: locks are given up between
  lookup and use; the last link and the last reference can go in any order; every
  call fails halfway in several places.  Correct when: counts are exact at each commit,
  nothing freed is used, nothing is lost, nobody waits for himself.
* **Blocks of inodes** (`kernel/fs.c`: `balloc`, `bmap`, `itrunc`, `readi`, `writei`,
  `dirlink`; `filewrite`).  State: the bit map, direct and indirect block numbers, sizes.
  Hard: a disk that fills up in the middle of a write, writes cut into transactions.
  Correct when: each block is marked and owned once, a file reads as it was written.
* **Open files and pipes** (`kernel/file.c`, `kernel/pipe.c`, `pipe`, `dup`, `close`,
  `read`, `write` in `sysfile.c`).  State: `ftable` with `ref`, `p->ofile`, the ring of a
  pipe.  Hard: calls that fail with half of what they need in hand; readers and writers
  on two channels; a kill or a close between test and sleep.  Correct when: everything is
  given back once, pipes are streams of bytes, nobody sleeps without a reason.
* **Buffer cache, sleep locks and virtio disk** (`kernel/bio.c`, `kernel/sleeplock.c`,
  `kernel/virtio_disk.c`).  State: buffers with `refcnt` and a lock, descriptors, rings.
  Hard: a block asked for while its buffer is recycled; a completion that comes while
  the interrupt handler runs.  Correct when: nobody sees a stale block, no descriptor is
  lost, every transfer ends.
* **Console and UART** (`kernel/console.c`, `kernel/uart.c`): two rings between processes
  and an interrupt handler that edits lines and echoes them past the output ring.  Correct
  when: no character is lost or given twice, nobody sleeps on.
* **Memory** (`kernel/kalloc.c`, `kernel/vm.c`, and `fork`, `sbrk`, `exec`, `exit`, `wait` on
  them).  State: the free list, a tree of pages for each process.  Hard: memory that runs
  out half-way through a call.  Correct when: every page is free or has one owner, and a
  process finds in its memory what it put there.
* **Shell of xv6** (`user/sh.c`): a recursive-descent parser, and `runcmd`, which forks a
  tree of processes over pipes and redirections.  **`malloc`** (`user/umalloc.c`).
* **`pingpong` and `tateti`** (`user/`): two and three processes that print in turns,
  ordered only by semaphores.  Hard: runs that overlap, a `fork` that fails halfway,
  semaphore numbers computed from a pid.

The semaphores, the pipes, the console, the disk driver and the log use sleep and
wakeup of `proc.c`; the system calls of `sysfile.c` run between `begin_op` and `end_op`
of the log and change blocks through the buffer cache; the programs see the
semaphores only as atomic calls.

### 1.2 Lab 1: mybash

`execute.c` forks one child per simple command and connects them with pipes, keeps up
to 100 background pids and collects them before each prompt; `parsing.c` builds the
pipeline; `command.c` holds it.  Hard: a pipe or fork that fails halfway, descriptors
left open, children nobody waits for.  Correct when: the prompt comes back, pipelines
deliver what they are fed, every process ends.

### 1.3 Lab 3: FAT FUSE

* **FAT** (`fat_table.c`, `fat_volume.c`): one entry per cluster, chains that end in EOC.
* **Files** (`fat_file.c`): dentries inside directory clusters, `pread`, `pwrite`,
  `truncate`, cluster allocation, removal.
* **Hierarchy tree** (`hierarchy_tree.c`, `fat_fs_tree.c`): a binary search tree of the
  paths in memory whose nodes are also linked as directories and children.
* **FUSE operations** (`fat_fuse_ops.c`) and **big brother** (`big_brother.c`): the
  handlers, the hidden directory `/bb` with `fs.log`, searched for by scanning the FAT
  for a bad-sector cluster.
* The program runs with `-s`: one handler at a time.  Hard: a handler that stops
  halfway (no free cluster, full directory) and leaves memory, FAT and dentries apart.
  Correct when: chains are disjoint, data stay where they belong, memory and image
  agree, and no cluster is stranded, over mounts and unmounts too.

## 2. Modules and the code

| module | models | with |
|---|---|---|
| `SemObject` | what each semaphore call does to one semaphore and returns, run alone | |
| `Semaphore` | the handlers, step by step, with `sleep`, `wakeup`, `kill`, `exit` | `MCSemaphore` |
| `LinearizableSem` | abstract: one atomic effect between call and return | |
| `SemRefinement` | the mapping of `Semaphore` to `LinearizableSem`, `Linearizable` | |
| `SemaphoreProofs` | theorems of `Semaphore` | |
| `PingPong`, `TaTeTi` | `main` of the two programs over `SemObject` | |
| `TurnPrograms` | both programs composed over one array of semaphores | |
| `TurnProgramsProofs` | theorems of `TurnPrograms` | |
| `AtomicDisk` | abstract: operations that become durable all together | |
| `Log` | log, buffer cache, crashes, recovery; implements `AtomicDisk` | |
| `LogProofs` | theorems of `Log` | |
| `ProcForest` | abstract: fork, exit and wait as atomic steps on a tree | |
| `ProcTable` | fork, exit, wait, kill, init; implements `ProcForest` | |
| `ProcTableProofs` | theorems of `ProcTable` | |
| `Processes` | `TurnPrograms` and `ProcTable` side by side, with their fairness | |
| `Inodes` | inodes, directories and the system calls on path names | `MCInodes` |
| `Blocks` | bit map, block numbers, contents and directory entries of inodes | |
| `ByteStream` | abstract: a pipe as a stream of bytes | |
| `Files` | descriptors, open files and pipes; implements `ByteStream` | `MCFiles` |
| `FilesProofs` | theorems of `Files` | |
| `Shell` | `runcmd` and `main` of `sh.c` composed with `Files` | `MCShell` |
| `ShParser` | the parser of `sh.c`, and what a line means | |
| `Umalloc` | `malloc` and `free` | |
| `BlockIO` | buffer cache, sleep locks, virtio driver and device | |
| `BlockIOProofs` | theorems of `BlockIO` | |
| `Console` | line editing, UART, their interrupt | `MCConsole` |
| `Memory` | page allocator, page tables, the calls that use them | `MCMemory` |
| `MyBash` | the shell of lab 1 and the processes it forks | `MCMyBash` |
| `MyBashProofs` | theorems of `MyBash` | |
| `ListLemmas` | lemmas about least elements and lists, for the proofs | |
| `FatFs` | the FAT volume, the FUSE handlers and big brother | |
| `FileSet` | abstract: a set of paths | |
| `HTree` | the hierarchy tree, pointer by pointer; implements `FileSet` | `MCHTree` |
| `Components` | seven parts checked side by side in one run | |

`Components` composes nothing that interacts: a behaviour chooses one part and is a
behaviour of it, while the other variables keep their initial values.  Its properties
ask of each part what the module of the part defines.

### 2.1 Semaphores

`is_use`, `value` and `lock` are the fields of the struct; `pc[p]` is the point of the
handler that process `p` has reached, and a step runs to the next point where a lock is
taken or given up.  Inside `sleep` there are two such points: after `acquire(&p->lock)`
the semaphore's lock is released (`SleepRelease`, `pc = "sched"`: `p->lock` is held and
the state is still RUNNING), then the process is SLEEPING and the scheduler releases
`p->lock` (`SleepSched`).  `wakeup` takes `q->lock` of every other process in turn, one
`WakeOne` each, and so has to wait for a process in `"sched"`; the model lets it visit
the processes in any order, the code's table order being one of them.  `kill` is the
same for one process.  A process exits only from user space, or on its return there
when it was killed, as `usertrap` does it.

### 2.2 User programs

`PingPong` and `TaTeTi` have one step per system call or `printf`.  A semaphore call is
one step because `Semaphore` implements the atomic object (theorem `Refinement`), and
both use the same operators of `SemObject`.  `PingPong` keeps the arithmetic of the
semaphore numbers, the range check of the wrappers and the programs' habit of testing
for 0 only.  The runs of `TaTeTi` share semaphores 0, 1 and 2.  `TurnPrograms` runs
both at once; the kernel's array is the one variable they have in common.

### 2.3 Log

`Log` has the disk (`home`, `logged`, `head`), which a crash keeps, and the memory
(`cache`, `pinned`, `lh`, `outstanding`, `committing`), which it loses.  One step is one
critical section of `log.lock` or one disk write; a crash can come between any two, in
the middle of recovery too.  The `sleep` and `wakeup` in `begin_op` are one step each, by
the argument of `NoLostWakeup` (the code has the same form: the condition is tested and
`sleep` called under `log.lock`, and changed under it before `wakeup`).  In the mapping
to `AtomicDisk`, `durable` is what recovery would rebuild from the disk now, and `current`
the cache over the disk.

`log_write` tests whether the log is full before it looks whether the block is in it, so a
write that would only be absorbed panics too (`WritePanics`).  `panic` is called with
`log.lock` held: from then on nobody takes that lock (`LogLockFree`), a commit that runs
may still write to the disk, and only a reset (`Crash`) gets the machine out of it.

### 2.4 Process table

`state`, `parent`, `killed` and `wait_lock` are the kernel's; `pc` is where the kernel
thread of a slot is.  Because `exit` and `wait` go through `sched` with `p->lock` held, a
process on its way off the CPU (`exit_sched`, `wait_sched`) holds its lock (`Locked`), and
whoever scans the table waits for it.  A pid is its slot: `allocpid` never repeats a
pid, so only a free slot, whose pid is 0, can be mistaken for something else.  `kill(0)`
does that: `Kill` of a slot in use is a kill by its pid, and `Kill` of a free slot is a
kill of pid 0, which finds the first one (section 5, 10).  `allocproc` does not clear
`killed`, so the process that gets the slot next starts killed.  `ProcForest` gives the
children to init at the instant of the exit.

### 2.5 Inodes

`inode` and `dir` are the blocks as the buffer cache has them, `core` is the copy of an
inode in `itable`, `ref` its reference count, `lock` its sleep lock, and `kt[p]` holds the
locals of the handler of `p`: the directory (`at`), the inode (`ip`), the rest of the
path, and the references about to be dropped by `iput` (`puts`).  A step runs from one
sleep lock, or critical section of `itable.lock`, to the next point where another
process can see it; an inode that is locked, looked at and unlocked is one step.
`iput` has the code's three: freeing under the inode's lock, unlocking, and the last
`ip->ref--`.  A name may fail to enter a directory for want of a disk block
(`CreateNoBlock`, `LinkFails`) at any time, and `open` fails after it found its inode
when the process has no descriptor left (one here).

Operations are atomic and durable together (`AtomicDisk`), so a crash is a step of the
states in which no operation is active: one that comes in the middle takes the disk
back to the state in which the active operations began, from which the same `Crash`
leads on.  `stranded` is a history variable for the gap of section 5.

### 2.6 Open files, pipes and the shell of xv6

In `Files` a step is a critical section of `ftable.lock` or of one `pi->lock`.  The bytes
of a call that fit are moved in one step, as `pi->lock` is held all along; a kill, which
takes no lock of the pipe, may come between two of them and is then part of the step.
`untold` records what the code does to a reader: a writer that is killed between two
bytes returns without `wakeup(&pi->nread)` (`pipe.c:83`).  `nread` and `nwrite` wrap at
`UINT`, a multiple of `PIPESIZE` as 2^32 is of 512.  Calls that fail close what they
hold file by file (`todo`), since another process may see each step.  `open` of a path
has a reference on an inode first (`iref` counts those that open files hold), then a file
and a descriptor, and gives back what it has when one of them is not there (`OpenInode`);
the last `fileclose` gives the inode back.

`ByteStream` is what the pipes implement.  Its state is the bytes in each pipe, the open
ends, and the read or write that each process is in: what it has left to write, how much
it has moved, how much it asks for.  A write puts the first bytes it has left at the end of
the stream and waits only when the pipe is full; a read takes bytes from the front, gets
none only at the end of the stream (or if it asks for none), and fails only when it would
have to wait.  The mapping is `Contents` (the cells of the ring from `nread` to `nwrite`),
`OpenEnds` and `Calling` (the locals of `piperead` and `pipewrite`).

`Shell` adds to `Files` where each process is in `runcmd`, `main`, `echo` or `cat`, and
makes its calls through the actions of `Files`, so every interleaving of the kernel's
steps is in it.  `fork` may fail whenever the table is full, and `exec` at any time.

`ShParser` has one operator per function of the parser, over positions in a line of
characters that grows to `MaxLine`; what a line means (`Line`, `Back`, `Pipe`, `Simple`)
is said a second time over its tokens, by the precedence of the operators, and the two
are compared on every line.  `Umalloc` counts addresses in headers, as the code does.

### 2.7 Blocks, disk, console, memory

*Blocks.*  An operation on a locked inode is one step, one transaction of `filewrite` too.
`content` is a history variable: what the calls put into an inode according to what they
returned.  A unit of a file stands for a byte, one of a directory for an entry.

*BlockIO.*  A step is a critical section of `bcache.lock`, a sleep lock's spin lock or
`vdisk_lock`.  The interrupt handler's section alone is cut, at the acknowledgement and
at each entry of the ring, because the device goes on while it runs.  The device is
external: it reads requests in order and completes them in any order.  A failed
`alloc3_desc` gives back what it found, and `free_desc` wakes the others that wait.

*Console.*  `held` is `cons.lock`, which the handler keeps while it echoes and waits for
the UART, and `txlock` is `uart_tx_lock`.  `uartputc_sync` tests the status register and
writes the transmit register in two steps, without `uart_tx_lock`, and so does
`uartstart`, with it; either may come between the two steps of the other, on another
hart.  The registers are external: `uartinit` turns the FIFOs on, so a byte written while
another waits is queued, up to `TxMax`, and one written to a full FIFO is lost
(`WriteTHR`).  A byte on its way out carries who wrote it, so that what each writer wrote
can be told apart on the line.

*Memory.*  A page table is its root, its lower table pages and its leaves.  The operators
take a memory and return it with what a failure leaves (pages that `walk` made, segments
that were loaded), so the error paths of `uvmalloc`, `uvmcopy`, `proc_pagetable`, `fork`
and `exec` are the code's.  A call is one step: processes share the free list only.

### 2.8 mybash

`ends` has the ends of pipes each process holds, the shell included; a pipe delivers end
of file when nobody has its write end, and a writer dies when nobody has its read end.
These are the only rules taken from the system (`Show`, `Put`, `Get` are external).  The
programs a line runs are three: one that writes some units, one that copies, one that
ends at once.

### 2.9 FAT

A handler of FUSE is one step.  Sizes count units of 32 bytes, the size of a directory
entry, so a cluster is `PerCluster` entries or units of data, and a directory cluster
can be read as what it is: cells that hold an entry, data, or zero.  `tree` has the
files in memory with what `struct fat_file` keeps of them (first cluster, size, position
of the entry, `nentries`).  Handlers that index the FAT with the end-of-chain mark end
the process (`CreateCrash`, `MountCrash`).

`NothingStranded` is asked of every step, mounts, unmounts and ends of the process among
them: a cluster that was free, or in the chain of a file that could be reached, is so
after it.  A file can be reached in memory or on disk from the root, as the next mount
does it.  The property excepts exactly the files whose clusters the code does lose:

* those without a place of their own in a directory (`Displaced`): in a full directory a
  new file overwrites the last entry or gets none (`fat_file.c:388`, `317`), and the log of
  a later mount writes its entry over that of the first (`fat_fuse_ops.c:64`);
* those of a directory that `rmdir` removes before anything has loaded it (`Unread`;
  section 5, 11).

Without either exception TLC finds the property violated in a few steps.

`HTree` is separate: `FatFs` takes the tree of files as a function of the path, and `HTree`
shows that the code's pointers are one.  A directory may be deleted in it before its
files, as by a `rmdir` that does not find their entries on disk: they stay in the search
tree and their `h_parent` is freed memory (`FREED`).  `ChildrenRight` holds with them: a
directory made again under the same path does not list them.  Deleting one of them reads
the freed parent, and `DeleteAbort` ends the process.

## 3. Runs

Every action fires in some passing run, and each property of a passing run has a mutant
of the code, kept beside the definition it changes (comment `Mutant:`), under which TLC
finds the property violated.

| run | instance | shows |
|---|---|---|
| `semaphores` | 3 processes, 1 semaphore, all may be killed | `NoLostWakeup`, `ClosedIsVisible`, `Linearizable`, and the type invariant `TypeOK` |
| `sem_liveness` | 3 processes, 1 semaphore opened with 0 | `WaitersLeave`: `CloseReleases` and `PermitsReachWaiters` |
| `processes`, turns | pingpong with pids 4 and 65, 2 rounds, semaphore 137 taken; 2 runs of tateti, 2 rounds, whose first fork may fail | `InOrder`, `OwnSemaphores` (`ForeignKept`, `ClosesItsOwn`, `LeavesClosed`), `RunsEnd` |
| `processes`, table | init and 2 slots, all of which may be killed | `ProcessesRight` (`ParentAlive`, `NoLostExit`, `FreeIsClean`), `AtomicForest`, `EveryWaitEnds` (`WaitReturns`, `KilledSleeperExits`) |
| `log` | 2 processes, 3 blocks of 2 values, operations that write the one block set aside for them, again and again, a header of 3 entries on the disk `mkfs` makes, panics and crashes | `AtomicTransactions`, `DurableAtRest` |
| `log_room` | the same with 2 blocks set aside and 1 written, a header of 4 entries, fairness | `NeverPanics`, `BeginReturns` |
| `files` | 2 processes, 3 open files, 2 descriptors each, one page, and a pipe of 2 bytes with a kill, or up to 2 references on inodes | `CountsExact`, `SleepersHaveReason`, `IsStream` |
| `shell` | `echo \| cat` through a pipe of one byte, `echo & ; cat < f`, 3 processes besides init and sh | `NoStrayDescriptors`, `ForegroundDone`, `ShellReturns` |
| `blockio` | 2 processes, 2 buffers, 3 blocks, 5 descriptors, indices that wrap at 5 | `Coherent`, `DescriptorsExact`, `TransfersEnd` |
| `console` | a reader and keys, or 2 writers and keys; an input ring of 2, an output ring of 1, a FIFO of 2, 5 bytes in all | `TextExact`, `OutputExact`, `ConsoleMoves` |
| `mybash` | lines of all kinds, 3 processes, 2 pipes of 1 unit | `BackgroundIsOurs`, `AllDelivered`, `LinesEnd` (`PromptReturns`, `ProcessesEnd`) |
| `components` | see below | one property for each part, and `NothingLost`, `NothingStranded`, `TreeIsSet` |
| `fat_remount` | the volume of the part fat of `components` | `OneLog` **violated**: a second mount makes a second log |

The parts of `components`:

| part | instance | shows |
|---|---|---|
| inodes | 2 processes, the root and 2 more inodes, names `a` and `b`, crashes | `InodesRight` (`RefsExact`, `LinksExact`, `NoPanic`, `PutNeverBlocks`, `NoDeadlock`), `NothingLost` |
| blocks | a file and a directory, 4 blocks of 2 units, 1 direct and 2 indirect numbers | `BlocksRight` (`BitmapExact`, `ReadsBack`) |
| memory | 2 processes, 15 pages, 3 levels of 4 entries, 8 calls | `MemoryRight` (`PagesExact`, `MemoryPrivate`) |
| fat | 6 clusters of 3 entries, a file and a directory of users, any number of mounts | `FatRight` (`ChainsDisjoint`, `SizeFits`, `DataKept`, `Mirrored`), `NothingStranded` |
| tree | 7 paths, two of them in a directory | `TreeRight` (`SizeRight`, `ChildrenRight`), `TreeIsSet` |
| parser | every line of up to 5 characters | `ParserRight` (`ParsesRight`) |
| heap | 10 headers, `morecore` of 4, sizes 2, 3 and 5 | `HeapRight` (`HeapExact`) |

### 3.1 Bounds

* *Semaphores.*  Three processes are the smallest number in which two can sleep on a
  semaphore while a third ups, closes, reopens or kills; the processes are symmetric and
  the properties speak of one or two of them.  `MaxVal = 1` stops `sem_up` calls on a
  value of 1: values 0, 1 and 2 cover every test in the code (`== 0`, `== CLOSED_SEM_VAL`),
  and the theorems have no bound but `MaxVal \in Nat`.
* *Programs.*  65 is the last pid with numbers inside `MAX_SEM = 260`, and 137 is the
  second semaphore of pid 4, so one run takes the error path.  Two rounds show a turn
  that follows a turn; two runs of tateti compete for the three semaphores.
* *Log.*  Two operations in the log together absorb each other's writes or fill the log;
  an operation that changes its block twice would show a commit that comes between.  Two
  values tell old from new contents, and a third block is outside a full log.  The log on
  disk is as large as the header, as `mkfs` makes it, so one entry of the header is never
  used.  In `log` operations write all that is set aside for them: the third panics, and so
  does one that writes a block again in a full log.  In `log_room` they leave one block, and
  two of them are as many as `begin_op` lets in, so it has to wait for space as well as
  for commits.  The theorems have no bounds.
* *Processes.*  Init and two slots, all of which may be killed: a parent and its child,
  which init inherits, or two children of init, and a table that is full.  The theorems
  hold for a table of any size.
* *Files.*  Two processes with two descriptors each fill the table of three files; a
  second pipe finds no page; two bytes fill a pipe, counters wrap at 4.  One kill at a
  time, of a process that sleeps or is in the middle of a step: any other only makes
  it exit.  Which process is which does not matter (symmetry).  A behaviour of `MCFiles`
  has bytes in its pipes or files of inodes, not both: opens of inodes fail at the table of
  files (three) and at the descriptors (two), next to pipes that are made and closed, and
  open files are shared by forks.  `MaxInodes` bounds the references; in `shell` it is 0.
* *Shell.*  Two bytes through a pipe of one make the writer wait for the reader; with
  three processes the second `fork` of a pipeline fails while the last line's background
  process is there; four open files run out.
* *BlockIO.*  Three blocks in two buffers recycle a buffer whose block is wanted again;
  with five descriptors the second request waits, after it found two.  One block gets
  changed: the others show that nothing else changes.
* *Console.*  Rings of two and one fill up, their indices wrap at 4.  A
  reader is between two characters while up to five keys come; or there are two writers, so
  that both wait for one free place and the second finds it taken again (`uart.c:95`), with
  the echo of up to two keys on its way past the ring.  The FIFO of two is the smallest that
  keeps the bytes of both harts when `uartstart` and the echo have each found the transmit
  register idle; with one place TLC finds the byte that is lost (the 16550 has sixteen).
* *Memory.*  Fifteen pages run out in `fork`, `sbrk` and at every step of `exec`; four
  entries make tables of a second branch necessary for the trampoline; eight calls reach a
  fork of a process that grew, exec and exit on both sides.  Sizes that
  are not a multiple of a page are among them.
* *Blocks.*  Four blocks run out in a direct block, in an indirect one and after it;
  `MaxWrite = 3` cuts writes off a block's border.  An address is good or bad for a whole
  chunk of a write.
* *Parser, heap.*  Five characters hold two operators with operands, a block with a
  redirection, and `>>` in every place; ten headers hold three blocks in use with free
  ones on both sides.
* *Inodes.*  One process works from inside `/a` (`chdir`, `open`, create, `mkdir` and
  `unlink` of `b`, back to the root), the other makes and removes `/a` and `/a/b` and
  links `/a/b` to `b`.  With two free inodes the table of inodes runs out and numbers
  are used again at once.  Left out of the paths: `..` (section 5, 6).
* *mybash.*  A pipeline of three commands, one in the background whose reader quits, a
  writer that quits, an empty command first and last, a builtin in a pipeline.  A failed
  line may keep one of the two pipes or three processes, so `pipe` and `fork` fail too.
  One background slot: a second process finds the list full.
* *FAT.*  Six clusters: the root, `/bb`, the log, and three for users, so that the volume
  fills up, at a mount too; with three entries, a directory cluster fills up as well.
  The volume starts empty, or with a directory and a file another system made.  File
  data begin with a zero byte, so that data left in a cluster read as the end of a
  directory.
* *Tree.*  Seven keys give a search tree with every shape that `delete_root` tells apart.

### 3.2 Fairness

Kernel steps are weakly fair: timer interrupts and the round robin of `scheduler` run
every RUNNABLE process.  Taking a lock that others compete for is strongly fair
(`Acquire`, `BeginEnter`, `TakesWaitLock`): the spin loop retries for ever, but RISC-V's `amoswap` does not promise that a CPU wins against the others, so
this part is an assumption about the hardware.  Nothing obliges a user process to make a
call, to kill or to exit; init's own loop goes on, since it is a program of the
repository.  In the log operations end: each system call between `begin_op` and `end_op`
is finite.  In `MyBash` and `Shell` the shell and its processes run again and again; nothing is
asked of the user, who may never type another line.  A command of `Shell` that is in the
background is not waited for, and its zombie may stay: init's `wait` takes the first
zombie of the table each time, so nothing is asked of the second.  In `BlockIO` the device
completes what it has, the interrupt handler runs, and a process goes on with a transfer
or a lock it waits for; what it does with a buffer once it has it is its own business.
In `Console` the UART sends, interrupts are served, and a process or handler that waits for
`uart_tx_lock` or an idle transmitter gets it; keys need not be typed.

### 3.3 Where the system stops

`CHECK_DEADLOCK` is off where the code really may stop: processes that exited or all
wait in `sem_down`; programs that ended; a panic of the kernel (`InitExit`); a shell
that exited or aborted; a FAT process that died of a full volume or a tree operation.
`log` is checked for deadlock; of the inodes `NoDeadlock` says that no circle of processes wait for each other's locks.

## 4. Proofs

Each theorem holds for every value of the constants that the assumption of its module
allows.  In each module the inductive invariant was checked with TLC before it was
proved, and the proof has one step per action and conjunct.

### 4.1 Semaphores (`SemaphoreProofs`)

From `SemAssumption` alone, for any sets of processes and semaphores, any initial values
and any `MaxVal`:

* `TypeCorrect`, `WakeupsReachSleepers`, `CloseIsSeen`: the invariants of the run
  `semaphores`; `MutualExclusion`: a process is in a critical section exactly while it
  holds the lock (`LockOwner`); `NoOverdraft`: no open semaphore has a negative value,
  which the run checks as part of `Linearizable`;
* `Refinement`: `Spec => Linearizable`.

The inductive invariant `IInv` joins them with `CallFacts` (what a handler knows once it
has passed its test: in a wakeup loop of an up the semaphore is still in use with value
0, and so on).  `NoLostWakeup` is not inductive alone: it needs `LockOwner` (nobody else
changes the semaphore while a wakeup loop runs or a process is on its way to `sleep`)
and `ClosedIsVisible` (a process goes to sleep only on an open semaphore with value 0).
The refinement maps each action to one step of the object or to a stutter; the points
where calls take effect are the start of the wakeup loop for `sem_close`, its end for
`sem_up`, and the decrement or refusal for `sem_down`.

### 4.2 pingpong and tateti (`TurnProgramsProofs`)

* `Separation`, `SemaphoresKept`: with any number of runs, any semaphores taken by others,
  any forks that fail and any pids, `OwnSemaphores` holds.  The invariant `Separate` ties
  the array to the programs: a semaphore in use was taken from the start or belongs to
  exactly one run, which is between its `sem_open` and its `sem_close` (`PingOwns`,
  `TatetiOwns`).  `ChildKept` is the part one would not think of: a child of pingpong is
  alive only while its parent waits for it, so it never ups a number that its parent
  has closed and another run has opened since.
* `WordsInOrder`: `InBounds /\ Spec => []InOrder`, for any number of rounds.  `InOrder` is
  not inductive: `PingTurns` and `TatetiTurns` add who has the one permit at each point of
  the two loops, and `LoopsKept` how far each process is in its own.  The hypothesis
  `InBounds` is where the code works (section 5, 4): the numbers that `pingpong`
  computes are those of semaphores, and tateti's second fork does not fail.  Without it
  the property is false, as TLC shows at once.

### 4.3 Process table (`ProcTableProofs`)

For a table of any size, with init its first slot:

* `TypeCorrect`, and `OneHolder`: between two steps `wait_lock` is held exactly by an `exit`
  whose process is not a zombie yet, or by a `wait` that found no zombie;
* `TableRight`: `ParentAlive`, `NoLostExit` and `FreeIsClean`, with kills of pid 0 among the
  steps: a free slot has no thread, no parent and is nobody's, but may be marked killed;
* `Refinement`: `Spec => AtomicForest`, the mapping that gives the children to init at
  the instant their parent exits.

`NoLostExit` needs the holder of `wait_lock` (`LockHolder`) and what is handed over with it
(`HandsOver`): a `wait` that goes to sleep has seen no zombie and lets nobody become one
before it sleeps, and an `exit` that is about to make its process a zombie has woken the
parent.  `TreeSound` needs that a parent never begins to exit with children
(`ExitReparent`), and that the slot of a `fork` is its own until it runs (`ForkOwnsChild`).

### 4.4 Log (`LogProofs`)

For any finite sets of processes and blocks, any non-empty set of values, any sizes with
`OpWrites <= MAXOPBLOCKS` and `LogDiskSize <= LOGSIZE + 1`, panics and crashes at any point, recovery
included:

* `TypeCorrect`; `CommitAlone`: while a commit runs no operation is active and nobody else
  commits, so the steps of a commit are alone on the disk;
* `DurableOnReturn`: `DurableAtRest`;
* `Refinement`: `Spec => AtomicTransactions`: after a crash at any step the disk holds all
  operations of a group or none of them;
* `RoomInHeader` (`RoomKept`): the writes that active operations still have to make and the
  entries that are there fit in the header together; `NeverTooBig`: `EnoughLog /\ Spec =>
  []NeverPanics`: no `log_write` panics, one that would only be absorbed included.
  `EnoughLog` says that the log on disk is at least as large as the header, as `mkfs` makes
  it, and that an operation leaves a block of its reservation unused, and two of the header
  (`BlockToSpare`).  The operations of the file system do: a `filewrite` transaction, the
  largest, writes three blocks' worth of bytes (`file.c:155`), so up to four data blocks,
  the inode, the indirect block and the bit map, 7 of the 10.  Without the hypothesis the
  statement is false (section 5, 5); the other theorems do not use it.

The invariant says for each point of a commit which blocks the log, the header on the
disk and the home locations have, relative to the cache; that a block of the header is
pinned; and that a block outside it is the same in the cache and at home.  The sets are
finite because the room `begin_op` reserves is a count of processes times
`MAXOPBLOCKS`, and the entries a set of blocks.

### 4.5 mybash (`MyBashProofs`)

For any lines, any number of processes, pipes and units and any sizes of pipes and array:

* `TypeCorrect`, with `Progress`: a pipeline forks only when it has a pipe between any two
  commands, so `pipes[i - 1]` and `pipes[i]` of the `i`-th child exist;
* `BackgroundOurs`: `BackgroundIsOurs`.  The strengthening is `WaitedAreOurs`: the processes
  the shell still has to wait for are unreaped, different, and none is in the background;
  without it a `waitpid` in the foreground could free a pid that is still in the list;
* `PipelinesDeliver`: `AllDelivered`.  That units shown, units in the hands of processes of
  the line and units in its pipes add up to `Units` (`Conserved`) is inductive only with
  what keeps others out of these pipes (`EndsRight`: nobody but the shell and the processes
  of the line has an end of them open, whatever background lines and given-up lines left
  behind) and what keeps their processes alive: while the shell has the pipes, no cat ends
  (`Forked`); afterwards each writes to what the next reads, and who still runs has a
  reader that runs (`Chained`), so no writer is killed and no unit goes with a pipe.  The
  sums are cardinalities of sets of units, which a put, a get and a show change by one.

Lemmas about what the code's list operations return (`RemoveFirstGives` for
`cleanup_zombies`, `AddedGives` for `add_background_pid`) and `MinIn`, the least element of
a set of numbers, from the library's well-founded induction, carry the proof.  What both
this module and the next need of lists is in `ListLemmas`.

### 4.6 Buffer cache and disk driver (`BlockIOProofs`)

For any finite set of processes, any numbers of buffers, blocks and descriptors (more than
two of those: a request takes three), any non-empty set of data, any index width that is a
multiple of the rings' size, and a device that answers in any order:

* `TypeCorrect`: no count goes below zero, no index of a ring beyond its width, and the list
  of the cache keeps all buffers, each once;
* `BlocksCoherent`: `Coherent`; `DescriptorsKept`: `DescriptorsExact`.

Neither is inductive.  `Coherent` breaks when a buffer is recycled, unless nobody uses it
(`Counted`: `refcnt` counts its users and its pin) and what it holds is on the disk (`Clean`);
and when a transfer ends, unless the data have moved by then (`Transferred`).  That is so
because a request is at any time in one ring, in the hands of the device or done
(`Stages`), and `b->disk` says which.  `DescriptorsExact` needs that each request is that of
one process that waits (`Requests`), which holds the buffer alone (`LockHeld`), and that
chains are disjoint (`Chains`).  `RingOK` says what the two rings have where: `RingHasRoom`
is why neither ever overwrites an entry, although nobody checks for room: entries are
heads of chains, so at least two descriptors are never in a ring.

### 4.7 Open files and pipes (`FilesProofs`)

For any finite set of processes, any numbers of files, descriptors and pages, any bytes,
pipes of any size, and counters of any width that is a multiple of it (`FilesAssumption`,
as 2^32 is of 512); what is written is any list of bytes, and what is asked for any
number (`CallsAssumption`):

* `TypeCorrect`; `CountsRight`: `CountsExact`; `SleepersJustified`: `SleepersHaveReason`;
* `PipesAreStreams`: `Spec => IsStream`, the refinement of `ByteStream`.

`CountsExact` compares `ref` with a count of descriptors and of the references that calls
have in hand, and is not inductive.  It needs what each label tells of the locals
(`TodoRight`, `LastRight`): which files a call is giving back and how many; that a file
half made by `pipealloc` has no other reference (`HalfMade`), or `fileclose` in an error
path would find an end that never was; that a process in `fork` alone owns the slot of
its child (`Forks`); and that files with no reference, free slots and processes that
exit hold nothing (`FreeClean`, `EmptyHanded`).  Lemmas say how each count changes when
one descriptor, one list of files or one file does; for `exit`, that the list of a
process's open files has each file as often as its descriptors (`OpenFiles`).  The
references on inodes that `open` takes are counted the same way, `AnyCall` being split by
what `open` finds: no file, a file and no descriptor, or both.

`SleepersHaveReason` needs in addition that a reader sleeps only while somebody may
write (`Sleeps`).  For the refinement, `Ring` bounds how far `nwrite` is ahead of `nread`,
and lemmas say what the wrapping counters do to the contents: a put appends (`PutIs`), a
take removes from the front (`TakeIs`), and what a read delivers is what it takes
(`DeliveredIs`).  `CallRight` keeps the end of a call's pipe open as long as the call (a
process in a call cannot close), so the pipe is not given to another meanwhile.
`pipeclose` maps to `CloseEnd`, the end of `sys_pipe` to `Make`, the sections of
`pipewrite` and `piperead` to `WriteStep` and `ReadStep`, and all else, closes of files that
others share included, to a step in which no stream changes.

### 4.8 Only model-checked

* All liveness (`WaitersLeave`, `RunsEnd`, `BeginReturns`, `EveryWaitEnds`, `LinesEnd`,
  `ShellReturns`, `TransfersEnd`, `ConsoleMoves`): beyond the prover's reach.
* What is said with folds or recursion over data: `TextExact` and `OutputExact` of
  `Console`, `FatFs`, and the modules of `components` except `Inodes` (parsers, trees,
  chains of clusters and pages).
* `PutNeverBlocks` and `RefsExact` of `Inodes`, `NoStrayDescriptors` and `ForegroundDone` of
  `Shell`: within reach, see section 7.

## 5. What the code does otherwise than one would think

The first is run `fat_remount`.  The others were met while modelling; the passing runs have
them or keep away from them as told here.

1. **The log is never found again** (`big_brother.c:66`).  `fat_table_get_next_cluster`
   turns the bad-sector mark into the end of a chain, so the search of the mount sees no
   orphan directory, and each mount makes a new one.  `tests/test_logging.sh:130` expects
   the log to be there after a re-mount.
2. **Reopened semaphores** (`semaphore.c:97`).  The recheck in `sem_down` compares the
   value with `CLOSED_SEM_VAL`, so a sleeper woken by a close that is followed by an open
   goes on with the new semaphore.  `Linearizable` allows that: it is an atomic down of an
   open semaphore.
3. **`sem_init`** (`semaphore.c:19`, `sysproc.c:147`) is a system call that resets locks
   in use; a process inside a handler then panics in `release`.  Not in the model.
4. **`pingpong` above pid 65** (`pingpong.c:24`) computes numbers past `MAX_SEM = 260`, and
   takes the -1 of every call for success.  **`tateti`**, when its second fork fails
   (`tateti.c:66`), closes the semaphores under the first child, which then prints
   without a turn; `ForkFails` is `{1}`.
5. **Log size** (`mkfs.c:25`, `log.c:220`).  `nlog` counts the header, so one of the `LOGSIZE`
   entries that `begin_op` gives out does not exist.  `log_write` panics when all the others
   are used, before it looks whether the block is one of them: with three operations that
   write all of their `MAXOPBLOCKS`, the third panics.  None of the file system writes as
   many (section 4.4); run `log` has operations that do, and the panics.
6. **`..` of a removed directory** (`fs.c:314`).  `mkdir a; mkdir a/b; chdir a/b`; then
   another process unlinks `a/b` and `a`; the entry `..` of `a/b` still names the inode of
   `a`, which is free, and `open("..")` panics with `ilock: no type`.
7. **The last step of `iput`** (`fs.c:360`) drops its reference without looking again.
   Between the freeing and that step `ialloc` may give the inode out; when its new user
   drops it without links first (a `create` that fails), its count stays above 1 there
   and the late step takes the last reference of an inode that nobody then frees.
   `NothingLost` excepts this step.
8. **A file made in a removed directory** keeps its link count when the directory is
   freed, and stays allocated for ever (`stranded` in `LinksExact`); `mkdir` there raises
   the count of the removed directory from 0 to 1, so that both are lost.  A crash loses
   the files that were removed while open.
9. **mybash** keeps the pipes it made when a later `pipe()` fails (`execute.c:176`), aborts
   on a line that begins with `|` (`execute.c:128`), and neither waits for nor records the
   children of a line that ends with one.  The liveness properties hold all the same.
10. **`wait` and `kill`** (`proc.c:427`): a kill between the test of `killed` and the sleep
    wakes nobody; the victim sleeps until a child of it exits.  `sem_down` never tests
    `killed` at all (`semaphore.c:96`).  `kill(0)` (`proc.c:592`) matches the first free slot,
    whose pid is 0, and leaves `killed` set for the next process that gets it; the comment
    at `proc.c:582` says "Kill the process with the given pid.", and `user/kill.c` passes 0
    for any argument that is no number.
11. **FAT**: `rmdir` reads the names of the files from disk and unlinks those it finds in
    memory (`fat_fuse_ops.c:552`): of a directory that was not loaded since the mount it
    frees the directory and leaves the clusters of its files allocated with no entry,
    although its comments say that all children are removed (lines 541 and 543).  A create
    in a full directory returns 0 with no entry written (`fat_file.c:355`), where
    `README.md:193` of the lab promises an error; once loaded full, a directory loses its
    last entry to the next one (`fat_file.c:388`).  The first line of the log after a second
    mount overwrites the entry of the first log (`fat_fuse_ops.c:64`).  A full volume ends
    the process (`fat_file.c:218`), a delete in the tree may destroy a file twice
    (`hierarchy_tree.c:208`) or follow a freed parent (`hierarchy_tree.c:162`).
12. **A killed writer** (`pipe.c:83`) returns from the middle of a write without waking the
    readers; one of them may sleep on bytes that are there until somebody else writes or
    closes.  `SleepersHaveReason` excepts these bytes (`untold`).
13. **Redirections of `sh`** (`sh.c:380`) nest inside out: after `a > f > g` both files are
    made and the output is in `f`, the first one.  `ParsesRight` takes the nesting as it is.
14. **`growproc` below zero** (`proc.c:271`): `sz + n` wraps, `uvmdealloc` takes it for growth
    and `sbrk` succeeds without doing anything.
15. **A write from a bad address** (`fs.c:522`): `copyin` may have copied the first page of a
    chunk into the buffer before it fails at the second; the buffer is then released
    without `log_write`, changed.  Not in the model (bound of `Blocks`).

## 6. Not modelled

Formatting, argument parsing, the bits of page-table entries and the kernel's own page
table, boot and device set-up; the overflow of `value` after 2^31 - 1 calls of `sem_up`;
`printf` of the kernel, which writes to the UART from any hart; memory ordering below the
level of the spin locks (their fences make critical sections sequentially consistent); `fstat`, `mknod` and device numbers; the test programs
(`usertests.c`, `grind.c`), which only make calls that are modelled; the user programs
that neither share nor wait; names, dates and open counts of the FAT file system.
`Inodes` and `Blocks` are not composed: the first takes a directory as a function from
names to inodes, the second shows that entries and their blocks are one.  Nor are `Log`
and `BlockIO`: the log takes a buffer's contents and pins as given, `Coherent` is what it
relies on.  `PROJECT.json` lists every component with its status.

## 7. Plan

Done: every part of section 1 has a module; the theorems of section 4.  Still to do, in
this order:

1. Proofs of `RefsExact` and `PutNeverBlocks` of `Inodes`.
2. A proof of `NoStrayDescriptors` of `Shell` on top of `FilesProofs`.
3. `mknod`, `fstat`, `sem_init` as a system call, and the first page of a chunk (section 5,
   15) as actions.
