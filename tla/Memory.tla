------------------------------- MODULE Memory -------------------------------
(***************************************************************************)
(* Memory in xv6: the page allocator (kernel/kalloc.c), page tables        *)
(* (kernel/vm.c) and what fork, sbrk, exec, exit and wait do with them     *)
(* (kernel/proc.c, kernel/exec.c, sys_exec).                               *)
(*                                                                         *)
(* A page table is its root page, its lower table pages, each named by its *)
(* level and the addresses it covers, and its leaves.  The operators take a*)
(* memory (the free pages, what pages hold, a page table) and return it, so*)
(* that a call that fails half-way leaves what the code leaves.  A system  *)
(* call is one step: processes share the free pages only.                  *)
(***************************************************************************)
EXTENDS Integers, FiniteSets, FiniteSetsExt, SequencesExt, TLC

CONSTANTS
  Pids,
  First,     \* the process that userinit makes
  Pages,     \* the pages from the end of the kernel to PHYSTOP
  PGSIZE,
  FAN,       \* entries of a page-table page
  LEVELS,    \* levels of a page table
  PageData,  \* what a user page can hold, 0 among it
  Programs,  \* the segments of the executables: sequences of vaddr, filesz, memsz
  Deltas,    \* the arguments of sbrk
  MaxCalls   \* bound: system calls and stores

ASSUME MemoryAssumption ==
  /\ First \in Pids /\ Pages \subseteq Nat \ {0} /\ 0 \in PageData
  /\ PGSIZE \in Nat \ {0} /\ FAN \in Nat \ {0, 1} /\ LEVELS \in Nat \ {0}
  /\ Cardinality(Pages) < FAN ^ LEVELS - 2   \* memory runs out before addresses do

VARIABLES
  free,   \* kmem.freelist
  held,   \* what the user pages hold
  proc,   \* pagetable, sz and trapframe of the processes in use
  panic,  \* the kernel has panicked, or a page was freed twice
  calls,  \* how many system calls and stores there were
  image   \* history: what a process has in its memory, page by page

memoryVars == <<free, held, proc, panic, calls, image>>

Junk == -1
NoPage == 0
MAXVA == FAN ^ LEVELS
TRAMPOLINE == MAXVA - 1
TRAPFRAME == MAXVA - 2
Up(sz) == (sz + PGSIZE - 1) \div PGSIZE   \* PGROUNDUP, in pages
NoTable == [root |-> NoPage, tables |-> <<>>, leaf |-> <<>>]

Memory == [free |-> free, held |-> held, pt |-> NoTable, ok |-> TRUE, panic |-> panic]

\* The memory m with the page table t.
With(m, t) == [m EXCEPT !.pt = t, !.ok = TRUE]
Fail(m) == [m EXCEPT !.ok = FALSE]
Panics(m) == [m EXCEPT !.panic = TRUE, !.ok = FALSE]

\* A step that is taken only if those before it succeeded, and what undoes a failed one.
AndThen(m, Do(_)) == IF m.ok THEN Do(m) ELSE m
OrElse(m, Undo(_)) == IF m.ok THEN m ELSE Fail(Undo(m))
Loop(Op(_, _), m, first, n) == FoldLeft(Op, m, [i \in 1 .. n |-> first + i - 1])

------------------------------------------------------------------------------
(* kernel/kalloc.c *)

Kfree(m, pa) ==
  [m EXCEPT !.free = @ \cup {pa}, !.held[pa] = Junk, !.panic = @ \/ pa \in m.free]

\* The page kalloc gives, and the memory without it.
Page(m) == Min(m.free)
Kalloc(m) == [m EXCEPT !.free = @ \ {Page(m)}]

------------------------------------------------------------------------------
(* walk, mappages, uvmunmap, freewalk *)

Node(level, va) == <<level, va \div FAN ^ level>>

\* walk with alloc: the table pages on the way that are missing, from the top; those it
\* made stay when the memory runs out.
walk(m, va) ==
  LET down(t, i) ==
        LET node == Node(LEVELS - i, va) IN
        CASE ~t.ok \/ node \in DOMAIN t.pt.tables -> t
          [] t.free = {} -> Fail(t)
          [] OTHER -> [Kalloc(t) EXCEPT !.pt.tables = (node :> Page(t)) @@ @]
  IN Loop(down, m, 1, LEVELS - 1)

\* mappages of one page.
Mappages(m, va, pa, user) ==
  LET t == walk(m, va) IN
  IF ~t.ok THEN t
  ELSE IF va \in DOMAIN t.pt.leaf THEN Panics(t)
  ELSE [t EXCEPT !.pt.leaf = (va :> [pa |-> pa, user |-> user]) @@ @]

Uvmunmap(m, va, npages, do_free) ==
  LET one(t, a) ==
        IF a \notin DOMAIN t.pt.leaf THEN Panics(t)
        ELSE LET u == IF do_free THEN Kfree(t, t.pt.leaf[a].pa) ELSE t
             IN [u EXCEPT !.pt.leaf = [b \in DOMAIN @ \ {a} |-> @[b]]]
  IN Loop(one, m, va, npages)

\* freewalk panics on a leaf.
Freewalk(m) ==
  LET all == {m.pt.root} \cup { m.pt.tables[n] : n \in DOMAIN m.pt.tables }
      t == FoldSet(LAMBDA pa, u : Kfree(u, pa), m, all)
  IN IF DOMAIN m.pt.leaf # {} THEN Panics(m) ELSE With(t, NoTable)

Uvmcreate(m) ==
  IF m.free = {} THEN Fail(m)
  ELSE [Kalloc(m) EXCEPT !.pt = [NoTable EXCEPT !.root = Page(m)]]

Uvmfree(m, sz) == Freewalk(Uvmunmap(m, 0, Up(sz), TRUE))

\* walkaddr: the address is one the user may use.
UserPage(t, va) == va \in DOMAIN t.leaf /\ t.leaf[va].user

------------------------------------------------------------------------------
(* uvmalloc, uvmdealloc, uvmcopy, copyout *)

Uvmdealloc(m, oldsz, newsz) ==
  IF Up(newsz) < Up(oldsz) THEN Uvmunmap(m, Up(newsz), Up(oldsz) - Up(newsz), TRUE) ELSE m

\* Mutant: a page that could not be mapped is forgotten.
Unmapped_Lost(t, mem) == Fail(t)

Unmapped(t, mem) == Fail(Kfree(t, mem))

\* Mutant: the page is not zeroed.
Zeroed_Not(m) == Kalloc(m)

Zeroed(m) == [Kalloc(m) EXCEPT !.held[Page(m)] = 0]

\* A zeroed page for every page from oldsz to newsz, or none.
Uvmalloc(m, oldsz, newsz) ==
  LET undo(t, a) == Fail(Uvmdealloc(t, a * PGSIZE, Up(oldsz) * PGSIZE))
      one(t, a) ==
        CASE ~t.ok -> t
          [] t.ok /\ t.free = {} -> undo(t, a)
          [] OTHER ->
               OrElse(Mappages(Zeroed(t), a, Page(t), TRUE),
                      LAMBDA u : undo(Unmapped(u, Page(t)), a))
  IN IF newsz < oldsz THEN m ELSE Loop(one, m, Up(oldsz), Up(newsz) - Up(oldsz))

CopyErr(t, i) == Fail(Uvmunmap(t, 0, i, TRUE))

\* The sz bytes of the page table old, copied to that of m.
Uvmcopy(m, old, sz) ==
  LET one(t, i) ==
        CASE ~t.ok -> t
          [] t.ok /\ i \notin DOMAIN old.leaf -> Panics(t)
          [] t.ok /\ i \in DOMAIN old.leaf /\ t.free = {} -> CopyErr(t, i)
          [] OTHER ->
               OrElse(Mappages([Kalloc(t) EXCEPT !.held[Page(t)] = t.held[old.leaf[i].pa]],
                               i, Page(t), old.leaf[i].user),
                      LAMBDA u : CopyErr(Unmapped(u, Page(t)), i))
  IN Loop(one, m, 0, Up(sz))

\* copyout of n pages: those before the first that is not the user's are written.
Copyout(m, va, n, d) ==
  LET one(t, a) == IF ~t.ok \/ ~UserPage(t.pt, a) THEN Fail(t)
                   ELSE [t EXCEPT !.held[t.pt.leaf[a].pa] = d]
  IN Loop(one, m, va, n)

------------------------------------------------------------------------------
(* proc_pagetable, allocproc and freeproc *)

ProcPagetable(m, trapframe) ==
  LET frame(t) == OrElse(Mappages(t, TRAPFRAME, trapframe, FALSE),
                         LAMBDA u : Uvmfree(Uvmunmap(u, TRAMPOLINE, 1, FALSE), 0))
      trampoline(t) == OrElse(Mappages(t, TRAMPOLINE, NoPage, FALSE), LAMBDA u : Uvmfree(u, 0))
  IN AndThen(AndThen(Uvmcreate(m), trampoline), frame)

ProcFreePagetable(m, sz) ==
  Uvmfree(Uvmunmap(Uvmunmap(m, TRAMPOLINE, 1, FALSE), TRAPFRAME, 1, FALSE), sz)

\* freeproc: the trapframe, then the page table if there is one.
Freeproc(m, trapframe, sz) ==
  LET t == Kfree(m, trapframe)
  IN IF t.pt.root = NoPage THEN t ELSE ProcFreePagetable(t, sz)

\* allocproc: on failure nothing is left of the process.
Allocproc(m) ==
  IF m.free = {} THEN Fail(m)
  ELSE OrElse(ProcPagetable(Kalloc(m), Page(m)),
              LAMBDA t : Freeproc(With(t, NoTable), Page(m), 0))

------------------------------------------------------------------------------
(* the processes *)

InUse == DOMAIN proc

\* The memory of m, and the processes.
SetMemory(m, procs) == free' = m.free /\ held' = m.held /\ panic' = m.panic /\ proc' = procs

\* userinit, with the memory that allocproc leaves: uvmfirst gives the process a page.
Boot(m) ==
  LET t == Mappages([Kalloc(m) EXCEPT !.held[Page(m)] = 0], 0, Page(m), TRUE)
  IN SetMemory(t, First :> [pt |-> t.pt, sz |-> PGSIZE, trapframe |-> Min(Pages)])

\* kinit frees every page.
MemoryInit ==
  /\ free = Pages /\ held = [pa \in Pages |-> Junk] /\ panic = FALSE
  /\ proc = <<>> /\ image = <<>> /\ calls = 0

Userinit ==
  /\ InUse = {}
  /\ Boot(Allocproc(Memory)) /\ image' = First :> <<0>> /\ UNCHANGED calls

\* fork: the child's table and a copy of the memory, or nothing.
ForkInto(p, q, new, tf) ==
  LET m == Uvmcopy(new, proc[p].pt, proc[p].sz)
      child == [pt |-> m.pt, sz |-> proc[p].sz, trapframe |-> tf]
  IN IF m.ok THEN SetMemory(m, (q :> child) @@ proc) /\ image' = (q :> image[p]) @@ image
     ELSE SetMemory(Freeproc(m, tf, 0), proc) /\ UNCHANGED image

Fork(p, q) ==
  LET new == Allocproc(Memory)
  IN /\ q \notin InUse
     /\ IF new.ok THEN ForkInto(p, q, new, Page(Memory))
        ELSE SetMemory(new, proc) /\ UNCHANGED image

Pad(s, n) == [i \in 1 .. n |-> IF i <= Len(s) THEN s[i] ELSE 0]

\* sbrk and growproc: a size below 0 wraps, and then nothing is freed.
Growproc(p, n) ==
  LET old == proc[p].sz
      new == old + n
      m == With(Memory, proc[p].pt)
      t == IF n > 0 THEN Uvmalloc(m, old, new) ELSE Uvmdealloc(m, old, new)
      sz == IF ~t.ok \/ new < 0 THEN old ELSE new
  IN /\ IF new < 0 THEN SetMemory(Memory, proc)
        ELSE SetMemory(t, [proc EXCEPT ![p].pt = t.pt, ![p].sz = sz])
     /\ image' = [image EXCEPT ![p] = Pad(@, Up(sz))]

\* freeproc, when the parent collects q.
Reap(q) ==
  /\ q \in InUse /\ q # First
  /\ SetMemory(Freeproc(With(Memory, proc[q].pt), proc[q].trapframe, proc[q].sz),
         [p \in InUse \ {q} |-> proc[p]])
  /\ image' = [p \in InUse \ {q} |-> image[p]]

\* A process writes to its memory, itself or through copyout.
Store(p, va, n, d) ==
  LET m == Copyout(With(Memory, proc[p].pt), va, n, d)
      here(i) == \E k \in va .. va + n - 1 : k + 1 = i /\ \A j \in va .. k : UserPage(proc[p].pt, j)
  IN /\ SetMemory(m, proc)
     /\ image' = [image EXCEPT ![p] = [i \in DOMAIN @ |-> IF here(i) THEN d ELSE @[i]]]

------------------------------------------------------------------------------
(* sys_exec and exec *)

\* A page for each argument; those there are are freed when a string cannot be fetched
\* or the memory runs out.
Arguments(m, n, fetched) ==
  LET one(t, i) == IF ~t.ok \/ t.free = {} THEN Fail(t)
                   ELSE [Kalloc(t) EXCEPT !.ok = fetched \/ i < n]
  IN Loop(one, m, 1, n)

\* The segments up to the first that cannot be read; sz is kept beside the memory.
LoadSegments(m, segments, readable) ==
  LET one(r, i) ==
        LET s == segments[i]
            t == Uvmalloc(r.m, r.sz, s.vaddr + s.memsz)
            sz == IF s.vaddr + s.memsz < r.sz THEN r.sz ELSE s.vaddr + s.memsz
        IN CASE ~r.m.ok -> r
             [] r.m.ok /\ (s.memsz < s.filesz \/ s.vaddr % PGSIZE # 0) -> [r EXCEPT !.m = Fail(@)]
             [] r.m.ok /\ s.memsz >= s.filesz /\ s.vaddr % PGSIZE = 0 ->
                  IF ~t.ok \/ sz = 0 THEN [r EXCEPT !.m = Fail(t)]
                  ELSE [m |-> IF i > readable THEN Fail(t) ELSE t, sz |-> sz]
  IN Loop(one, [m |-> m, sz |-> 0], 1, Len(segments))

\* The guard page below the stack is not the user's.
Uvmclear(m, va) == [m EXCEPT !.pt.leaf[va].user = FALSE]

\* Every way out of exec frees the pages that the arguments args took.
ExecEnds(args, m, procs) ==
  SetMemory(FoldSet(LAMBDA pa, t : Kfree(t, pa), m, Memory.free \ args.free), procs)

ExecBad(args, m, sz) == ExecEnds(args, ProcFreePagetable(m, sz), proc) /\ UNCHANGED image

\* With the stack in place (base is the guard page): the arguments are copied, if they
\* fit, and the old table is freed.
ExecCommit(p, args, m, base, fit, d) ==
  IF ~m.ok \/ ~fit THEN ExecBad(args, m, (base + 2) * PGSIZE)
  ELSE /\ ExecEnds(args, ProcFreePagetable(With(m, proc[p].pt), proc[p].sz),
                   [proc EXCEPT ![p].pt = m.pt, ![p].sz = (base + 2) * PGSIZE])
       /\ image' = [image EXCEPT ![p] = Append(Pad(<<>>, base + 1), d)]

ExecStack(p, args, m, base, fit, d) ==
  IF ~m.ok THEN ExecBad(args, m, base * PGSIZE)
  ELSE ExecCommit(p, args, Copyout(Uvmclear(m, base), base + 1, 1, d), base, fit, d)

ExecLoaded(p, args, r, fit, d) ==
  IF ~r.m.ok THEN ExecBad(args, r.m, r.sz)
  ELSE ExecStack(p, args, Uvmalloc(r.m, Up(r.sz) * PGSIZE, (Up(r.sz) + 2) * PGSIZE),
                 Up(r.sz), fit, d)

ExecTable(p, program, args, m, upto, d) ==
  IF ~m.ok THEN ExecEnds(args, m, proc) /\ UNCHANGED image
  ELSE ExecLoaded(p, args, LoadSegments(m, program, upto), upto # Len(program), d)

\* upto: the segments that can be read, or one more when the arguments fit the stack.
Exec(p, program, nargs, fetched, upto, d) ==
  LET args == Arguments(Memory, nargs, fetched)
  IN IF ~args.ok THEN ExecEnds(args, args, proc) /\ UNCHANGED image
     ELSE ExecTable(p, program, args,
                    ProcPagetable(With(args, NoTable), proc[p].trapframe), upto, d)

------------------------------------------------------------------------------

MemoryNext ==
  \/ Userinit
  \/ /\ ~panic /\ calls < MaxCalls
     /\ calls' = calls + 1
     /\ \E p \in InUse :
          \/ \E q \in Pids : Fork(p, q)
          \/ \E n \in Deltas : Growproc(p, n)
          \/ \E va \in 0 .. Up(proc[p].sz), d \in PageData \ {0} : Store(p, va, 2, d)
          \/ \E program \in Programs, nargs \in 0 .. 1, d \in PageData \ {0} :
               \E fetched \in {TRUE, nargs = 0}, upto \in 0 .. Len(program) + 1 :
                 Exec(p, program, nargs, fetched, upto, d)
          \/ Reap(p)

MemorySpec == MemoryInit /\ [][MemoryNext]_memoryVars

------------------------------------------------------------------------------
(* Properties *)

UserLeaves(p) == DOMAIN proc[p].pt.leaf \ {TRAMPOLINE, TRAPFRAME}

Owned(p) ==
  LET t == proc[p].pt
  IN {t.root, proc[p].trapframe} \cup { t.tables[n] : n \in DOMAIN t.tables }
       \cup { t.leaf[a].pa : a \in UserLeaves(p) }

PageCount(p) == 2 + Cardinality(DOMAIN proc[p].pt.tables) + Cardinality(UserLeaves(p))

\* Between system calls every page is free or has one owner, however calls fail for
\* want of memory: nothing leaks, nothing is freed twice or shared, and no panic of
\* mappages, uvmunmap, uvmcopy or freewalk is reached.
PagesExact ==
  /\ ~panic
  /\ \A p \in InUse : Cardinality(Owned(p)) = PageCount(p) /\ Owned(p) \cap free = {}
  /\ \A p, q \in InUse : p # q => Owned(p) \cap Owned(q) = {}
  /\ Pages = free \cup UNION { Owned(p) : p \in InUse }

\* A process finds in its memory, from 0 to its size, what it has put there, what its
\* parent had at the fork, or zeroes: never what another process left in a page
\* (uvmalloc, uvmcopy, growproc, exec).
MemoryPrivate ==
  \A p \in InUse :
    LET t == proc[p].pt IN
    /\ DOMAIN t.leaf = 0 .. Up(proc[p].sz) - 1 \cup {TRAMPOLINE, TRAPFRAME}
    /\ \A i \in DOMAIN image[p] : held[t.leaf[i - 1].pa] = image[p][i]

==============================================================================
