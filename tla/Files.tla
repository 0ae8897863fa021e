-------------------------------- MODULE Files --------------------------------
(***************************************************************************)
(* Descriptors, open files and pipes of xv6 (kernel/file.c, pipe.c and the *)
(* calls pipe, dup, close, read and write of sysfile.c; fork and exit as   *)
(* far as they share and close files).                                     *)
(*                                                                         *)
(* A step is one critical section of ftable.lock or of one pi->lock, with  *)
(* the work on the process's own data next to it.  The bytes of a call that*)
(* fit are moved in one step because pi->lock is held all along; a kill can*)
(* still come between two of them, or between the test of killed and the   *)
(* sleep, and then it is part of the step.                                 *)
(***************************************************************************)
EXTENDS Integers, FiniteSets, FiniteSetsExt, Sequences

CONSTANTS
  Procs,      \* slots of the process table
  NoProc,     \* none of them
  NFILE,      \* size of ftable.file
  NOFILE,     \* descriptors of a process
  PIPESIZE,   \* size of pi->data
  UINT,       \* one more than the largest uint: 2^32, a multiple of PIPESIZE
  Pages,      \* the pages kalloc has for pipes
  Bytes,      \* what a byte can be
  MaxKills    \* bound: how many processes are killed at a time

ASSUME FilesAssumption ==
  /\ NoProc \notin Procs /\ MaxKills \in Nat
  /\ NFILE \in Nat \ {0} /\ NOFILE \in Nat \ {0} /\ PIPESIZE \in Nat \ {0}
  /\ UINT \in Nat /\ UINT > PIPESIZE /\ UINT % PIPESIZE = 0
  /\ IsFiniteSet(Procs)

Fs == 1 .. NFILE
FDs == 0 .. NOFILE - 1
Ends == {"read", "write"}

\* Null pointers, and what a page holds that nobody has written.
NoFile == 0
NoPage == "no page"
NoChan == <<>>
Junk == "junk"

VARIABLES
  ofile,   \* p->ofile
  ref,     \* f->ref
  file,    \* the rest of struct file: type, what it is open for, its pipe
  iref,    \* references on inodes that open files hold
  pipe,    \* struct pipe of a page; no end is open on a free page.  untold is history:
           \* the last bytes were put in without a wakeup
  pc,      \* where a process is: "none" is a free slot
  io,      \* the locals of piperead and pipewrite
  todo,    \* the files a process has allocated and not returned, or has to close
  last,    \* ff of fileclose
  child,   \* np of fork
  exiting, \* who is in exit
  chan,    \* what a sleeping process sleeps on
  killed,  \* who has p->killed set
  failed,  \* whose call returns -1 once it has closed its files
  out      \* the call that has just returned: whose, its result, the bytes it read

vars == <<ofile, ref, file, iref, pipe, pc, io, todo, last, child, exiting, chan,
          killed, failed, out>>

tables == <<ofile, ref, file, iref>>
calls == <<io, todo, last, child, exiting, failed>>

FreeFile == [type |-> "FD_NONE", mode |-> {}, pipe |-> NoPage]
InodeFile == [type |-> "FD_INODE", mode |-> Ends, pipe |-> NoPage]
PipeFile(g, e) == [type |-> "FD_PIPE", mode |-> {e}, pipe |-> g]

FreePage == [ends |-> {}, data |-> [i \in 0 .. PIPESIZE - 1 |-> Junk],
             nread |-> 0, nwrite |-> 0, untold |-> FALSE]

NoCall == [pipe |-> NoPage, left |-> <<>>, n |-> 0, done |-> 0]

NoReturn == [proc |-> NoProc, ret |-> 0, got |-> <<>>]

NoFiles == [d \in FDs |-> NoFile]

Init ==
  /\ ofile = [p \in Procs |-> NoFiles] /\ ref = [f \in Fs |-> 0]
  /\ file = [f \in Fs |-> FreeFile] /\ iref = 0
  /\ pipe = [g \in Pages |-> FreePage]
  /\ \E first \in Procs : pc = [p \in Procs |-> IF p = first THEN "user" ELSE "none"]
  /\ io = [p \in Procs |-> NoCall] /\ todo = [p \in Procs |-> <<>>]
  /\ last = [p \in Procs |-> FreeFile] /\ child = [p \in Procs |-> p]
  /\ exiting = {} /\ chan = [p \in Procs |-> NoChan] /\ killed = {}
  /\ failed = {} /\ out = NoReturn

At(p, l) == pc[p] = l /\ chan[p] = NoChan
Goto(p, l) == pc' = [pc EXCEPT ![p] = l]
Returns(p, r, bytes) == out' = [proc |-> p, ret |-> r, got |-> bytes]
Return(p, r) == Goto(p, "user") /\ Returns(p, r, <<>>)

\* No call returns in this step.
Within == out' = NoReturn

\* The call fails once the files in todo are closed.
GiveUp(p) == Goto(p, "close") /\ failed' = failed \cup {p} /\ Within

\* usertrap lets no killed process into a system call.
Syscall(p) == At(p, "user") /\ p \notin killed

------------------------------------------------------------------------------
(* descriptors and files *)

FreeFiles == { f \in Fs : ref[f] = 0 }
FreeFds(p) == { d \in FDs : ofile[p][d] = NoFile }

\* argfd: the descriptor is open.
Open(p, d) == d \in FDs /\ ofile[p][d] # NoFile

\* The files of a process, in the order of their descriptors.
Rank(S, d) == Cardinality({ e \in S : e < d })
OpenFiles(p) ==
  LET used == FDs \ FreeFds(p) IN
  [i \in 1 .. Cardinality(used) |-> ofile[p][CHOOSE d \in used : Rank(used, d) = i - 1]]

\* argfd, or what a file is open for, refuses the call.
Refuse(p) ==
  /\ Syscall(p) /\ Return(p, -1)
  /\ UNCHANGED <<tables, calls, pipe, chan, killed>>

\* filedup counts the new descriptor.
Dup(p, d) ==
  /\ Syscall(p) /\ Open(p, d) /\ FreeFds(p) # {}
  /\ LET e == Min(FreeFds(p)) IN
       ofile' = [ofile EXCEPT ![p][e] = ofile[p][d]] /\ Return(p, e)
  /\ ref' = [ref EXCEPT ![ofile[p][d]] = @ + 1]
  /\ UNCHANGED <<file, iref, pipe, calls, chan, killed>>

\* Mutant: the file is given its inode before there is a descriptor, so that with none
\* left the inode is put both by fileclose and by open itself.
OpenInode_TypeFirst(p) ==
  /\ Syscall(p) /\ FreeFiles # {}
  /\ LET f == Min(FreeFiles) IN
       /\ ref' = [ref EXCEPT ![f] = 1] /\ file' = [file EXCEPT ![f] = InodeFile]
       /\ IF FreeFds(p) = {}
          THEN /\ todo' = [todo EXCEPT ![p] = <<f>>]
               /\ GiveUp(p) /\ UNCHANGED <<ofile, iref>>
          ELSE /\ ofile' = [ofile EXCEPT ![p][Min(FreeFds(p))] = f]
               /\ iref' = iref + 1
               /\ Return(p, Min(FreeFds(p))) /\ UNCHANGED <<todo, failed>>
  /\ UNCHANGED <<pipe, io, last, child, exiting, chan, killed>>

\* open of an inode or a device, once the inode is found: a file and a descriptor
\* for it, and the reference that namei took goes to the file; with no descriptor
\* left the file, still without a type, is closed.
OpenInode(p) ==
  /\ Syscall(p) /\ FreeFiles # {}
  /\ LET f == Min(FreeFiles) IN
       /\ ref' = [ref EXCEPT ![f] = 1]
       /\ IF FreeFds(p) = {}
          THEN /\ todo' = [todo EXCEPT ![p] = <<f>>]
               /\ GiveUp(p) /\ UNCHANGED <<ofile, file, iref>>
          ELSE /\ ofile' = [ofile EXCEPT ![p][Min(FreeFds(p))] = f]
               /\ file' = [file EXCEPT ![f] = InodeFile] /\ iref' = iref + 1
               /\ Return(p, Min(FreeFds(p))) /\ UNCHANGED <<todo, failed>>
  /\ UNCHANGED <<pipe, io, last, child, exiting, chan, killed>>

Close(p, d) ==
  /\ Syscall(p) /\ Open(p, d)
  /\ ofile' = [ofile EXCEPT ![p][d] = NoFile]
  /\ todo' = [todo EXCEPT ![p] = <<ofile[p][d]>>]
  /\ Goto(p, "close") /\ Within
  /\ UNCHANGED <<ref, file, iref, pipe, io, last, child, exiting, failed, chan, killed>>

------------------------------------------------------------------------------
(* fileclose *)

\* Where a process goes when it has closed a file: to the next one, out of the
\* table, or back from the call.
AfterClose(p, files) ==
  /\ pc' = [pc EXCEPT ![p] = IF files # <<>> THEN "close"
                             ELSE IF p \in exiting THEN "gone" ELSE "user"]
  /\ IF files = <<>> /\ p \notin exiting
     THEN /\ Returns(p, IF p \in failed THEN -1 ELSE 0, <<>>)
          /\ failed' = failed \ {p}
     ELSE Within /\ UNCHANGED failed

\* Under ftable.lock: one reference less, and the last one empties the slot of the
\* table and leaves the pipe or the inode to be closed.
CloseFile(p) ==
  /\ At(p, "close")
  /\ LET f == Head(todo[p])
         rest == Tail(todo[p])
     IN /\ todo' = [todo EXCEPT ![p] = rest]
        /\ ref' = [ref EXCEPT ![f] = @ - 1]
        /\ file' = IF ref[f] > 1 THEN file ELSE [file EXCEPT ![f] = FreeFile]
        /\ IF ref[f] > 1 \/ file[f].type = "FD_NONE"
           THEN AfterClose(p, rest) /\ UNCHANGED last
           ELSE /\ Goto(p, "close_last") /\ Within
                /\ last' = [last EXCEPT ![p] = file[f]] /\ UNCHANGED failed
  /\ UNCHANGED <<ofile, iref, pipe, io, child, exiting, chan, killed>>

Wakeup(c) == chan' = [q \in Procs |-> IF chan[q] = c THEN NoChan ELSE chan[q]]

\* Mutant: the readers are not told that the last writer is gone.
PipeClose_Quiet(g, e) ==
  /\ pipe' = [pipe EXCEPT ![g] = IF @.ends = {e} THEN FreePage
                                 ELSE [@ EXCEPT !.ends = pipe[g].ends \ {e}]]
  /\ IF e = "read" THEN Wakeup(<<"nwrite", g>>) ELSE UNCHANGED chan

\* pipeclose: the other end's sleepers are told; with both ends closed the page is
\* freed.
PipeClose(g, e) ==
  /\ pipe' = [pipe EXCEPT ![g] = IF @.ends = {e} THEN FreePage
                                 ELSE [@ EXCEPT !.ends = pipe[g].ends \ {e}]]
  /\ Wakeup(<<IF e = "write" THEN "nread" ELSE "nwrite", g>>)

CloseLast(p) ==
  /\ At(p, "close_last")
  /\ IF last[p].type = "FD_PIPE"
     THEN /\ PipeClose(last[p].pipe, CHOOSE e \in last[p].mode : TRUE)
          /\ UNCHANGED iref
     ELSE iref' = iref - 1 /\ UNCHANGED <<pipe, chan>>
  /\ last' = [last EXCEPT ![p] = FreeFile]
  /\ AfterClose(p, todo[p])
  /\ UNCHANGED <<ofile, ref, file, io, todo, child, exiting, killed>>

------------------------------------------------------------------------------
(* pipe *)

\* sys_pipe and pipealloc: two files, each under ftable.lock, then the page, then
\* two descriptors and their numbers in the user's memory.
Pipe(p) ==
  /\ Syscall(p) /\ FreeFiles # {}
  /\ ref' = [ref EXCEPT ![Min(FreeFiles)] = 1]
  /\ todo' = [todo EXCEPT ![p] = <<Min(FreeFiles)>>]
  /\ Goto(p, "pipe_file") /\ Within
  /\ UNCHANGED <<ofile, file, iref, pipe, io, last, child, exiting, failed, chan, killed>>

PipeFile1(p) ==
  /\ At(p, "pipe_file")
  /\ IF FreeFiles = {}
     THEN GiveUp(p) /\ UNCHANGED <<ref, todo>>
     ELSE /\ ref' = [ref EXCEPT ![Min(FreeFiles)] = 1]
          /\ todo' = [todo EXCEPT ![p] = Append(@, Min(FreeFiles))]
          /\ Goto(p, "pipe_page") /\ Within /\ UNCHANGED failed
  /\ UNCHANGED <<ofile, file, iref, pipe, io, last, child, exiting, chan, killed>>

PipeNoPage(p) ==
  /\ At(p, "pipe_page") /\ \A g \in Pages : pipe[g].ends # {}
  /\ GiveUp(p)
  /\ UNCHANGED <<tables, io, todo, last, child, exiting, pipe, chan, killed>>

\* kalloc and the fields of the new pipe and of its files.
NewPipe(g, files) ==
  /\ pipe[g].ends = {}
  /\ pipe' = [pipe EXCEPT ![g] = [FreePage EXCEPT !.ends = Ends]]
  /\ file' = [file EXCEPT ![files[1]] = PipeFile(g, "read"),
                          ![files[2]] = PipeFile(g, "write")]

PipeDescriptors(p) ==
  /\ At(p, "pipe_page") /\ Cardinality(FreeFds(p)) > 1
  /\ \E g \in Pages : NewPipe(g, todo[p])
  /\ LET d == Min(FreeFds(p))
         e == Min(FreeFds(p) \ {d})
     IN ofile' = [ofile EXCEPT ![p][d] = todo[p][1], ![p][e] = todo[p][2]]
  /\ todo' = [todo EXCEPT ![p] = <<>>]
  /\ Return(p, 0)
  /\ UNCHANGED <<ref, iref, io, last, child, exiting, failed, chan, killed>>

\* Mutant: only the reading end is closed when the descriptors run out.
PipeNoDescriptors_One(p) ==
  /\ At(p, "pipe_page")
  /\ \E g \in Pages : NewPipe(g, todo[p])
  /\ todo' = [todo EXCEPT ![p] = <<todo[p][1]>>]
  /\ GiveUp(p)
  /\ UNCHANGED <<ofile, ref, iref, io, last, child, exiting, chan, killed>>

\* No descriptors, or a bad address for their numbers: what was set in ofile is
\* cleared, both files are closed.
PipeNoDescriptors(p) ==
  /\ At(p, "pipe_page")
  /\ \E g \in Pages : NewPipe(g, todo[p])
  /\ GiveUp(p)
  /\ UNCHANGED <<ofile, ref, iref, io, todo, last, child, exiting, chan, killed>>

------------------------------------------------------------------------------
(* read and write *)

Full(pi) == pi.nwrite = (pi.nread + PIPESIZE) % UINT
Empty(pi) == pi.nread = pi.nwrite

Cells == 0 .. PIPESIZE - 1

\* How far a cell is from the one that a counter stands at.
Past(i, counter) == (i + UINT - counter) % PIPESIZE

\* The bytes go to the cells from nwrite on; they fit (Fits).
PutBytes(pi, w) ==
  [pi EXCEPT !.data = [i \in Cells |-> IF Past(i, pi.nwrite) < Len(w)
                                        THEN w[Past(i, pi.nwrite) + 1] ELSE @[i]],
             !.nwrite = (@ + Len(w)) % UINT]

\* What is in the pipe, the next byte first.
Fill(pi) == (pi.nwrite + UINT - pi.nread) % UINT
Content(pi) == [i \in 1 .. Fill(pi) |-> pi.data[(pi.nread + i - 1) % PIPESIZE]]

\* A cell that has been read is junk to everybody; of an empty pipe nobody is to be told.
Take(pi, k) ==
  [pi EXCEPT !.nread = (@ + k) % UINT,
             !.data = [i \in Cells |-> IF Past(i, pi.nread) < k THEN Junk ELSE @[i]],
             !.untold = @ /\ k < Fill(pi)]

\* A call is for the pipe of a descriptor that is open for it.
Call(p, d, e, arg) ==
  /\ Syscall(p) /\ Open(p, d)
  /\ LET f == file[ofile[p][d]] IN
       /\ f.type = "FD_PIPE" /\ e \in f.mode
       /\ io' = [io EXCEPT ![p] = [arg EXCEPT !.pipe = f.pipe]]
  /\ Goto(p, e) /\ Within
  /\ UNCHANGED <<tables, pipe, todo, last, child, exiting, failed, chan, killed>>

Write(p, d, w) == Call(p, d, "write", [NoCall EXCEPT !.left = w])
Read(p, d, n) == Call(p, d, "read", [NoCall EXCEPT !.n = n])

\* The console and other inodes: their transfer is not of this module.
InodeIO(p, d, r) ==
  /\ Syscall(p) /\ Open(p, d) /\ file[ofile[p][d]].type = "FD_INODE"
  /\ Return(p, r)
  /\ UNCHANGED <<tables, calls, pipe, chan, killed>>

\* How many of the bytes of w go in before the pipe is full.
Fits(pi, w) ==
  { k \in 0 .. Len(w) : \A j \in 0 .. k - 1 : ~Full(PutBytes(pi, SubSeq(w, 1, j))) }

\* The kill of p comes in the middle of the step.
KilledNow(p) ==
  p \notin killed /\ Cardinality(killed) < MaxKills /\ killed' = killed \cup {p}

\* The call is over: the locals are gone.
IOReturn(p, r) == Return(p, r) /\ io' = [io EXCEPT ![p] = NoCall]

\* The reader is gone or p is killed, at the first byte of a section.
WriteFails(p) ==
  /\ At(p, "write") /\ io[p].left # <<>>
  /\ "read" \notin pipe[io[p].pipe].ends \/ p \in killed
  /\ IOReturn(p, -1)
  /\ UNCHANGED <<tables, pipe, todo, last, child, exiting, failed, chan, killed>>

\* A section of pipewrite that puts k bytes in and tells the readers, or does not.
Put(p, k, told) ==
  /\ At(p, "write")
  /\ LET c == io[p] IN
       /\ c.left # <<>> => "read" \in pipe[c.pipe].ends /\ p \notin killed
       /\ k \in Fits(pipe[c.pipe], c.left)
       /\ pipe' = [pipe EXCEPT ![c.pipe] =
                    [PutBytes(@, SubSeq(c.left, 1, k)) EXCEPT !.untold = ~told]]
  /\ UNCHANGED <<tables, todo, last, child, exiting, failed>>

\* Everything is in, or the user's memory ends here: the readers are told.
WriteReturns(p) ==
  \E k \in 0 .. Len(io[p].left) :
    /\ Put(p, k, TRUE)
    /\ k < Len(io[p].left) => ~Full(pipe'[io[p].pipe])
    /\ Wakeup(<<"nread", io[p].pipe>>)
    /\ IOReturn(p, io[p].done + k)
    /\ UNCHANGED killed

\* The pipe is full: the readers are told, and p sleeps.  A kill that falls between
\* the test of killed and the sleep finds p RUNNING and does not wake it.
WriteSleeps(p) ==
  \E k \in 0 .. Len(io[p].left) - 1 :
    /\ Put(p, k, TRUE) /\ Full(pipe'[io[p].pipe])
    /\ chan' = [q \in Procs |->
                  IF q = p THEN <<"nwrite", io[p].pipe>>
                  ELSE IF chan[q] = <<"nread", io[p].pipe>> THEN NoChan ELSE chan[q]]
    /\ io' = [io EXCEPT ![p].left = SubSeq(@, k + 1, Len(@)), ![p].done = @ + k]
    /\ UNCHANGED killed \/ KilledNow(p)
    /\ Within /\ UNCHANGED pc

\* p is killed while it moves bytes: it leaves without a word to the readers.
WriteCut(p) ==
  \E k \in 1 .. Len(io[p].left) - 1 :
    /\ Put(p, k, FALSE)
    /\ KilledNow(p)
    /\ IOReturn(p, -1)
    /\ UNCHANGED chan

\* Nothing to read, but it may come.
MustWait(pi) == Empty(pi) /\ "write" \in pi.ends

ReadFails(p) ==
  /\ At(p, "read") /\ MustWait(pipe[io[p].pipe]) /\ p \in killed
  /\ IOReturn(p, -1)
  /\ UNCHANGED <<tables, pipe, todo, last, child, exiting, failed, chan, killed>>

ReadSleeps(p) ==
  /\ At(p, "read") /\ MustWait(pipe[io[p].pipe]) /\ p \notin killed
  /\ chan' = [chan EXCEPT ![p] = <<"nread", io[p].pipe>>]
  /\ UNCHANGED killed \/ KilledNow(p)
  /\ Within
  /\ UNCHANGED <<tables, calls, pipe, pc>>

\* Mutant: the bytes are copied out from the start of the buffer.
Delivered_FromZero(pi, k) == [i \in 1 .. k |-> pi.data[(i - 1) % PIPESIZE]]

\* The first k bytes of the pipe.
Delivered(pi, k) == [i \in 1 .. k |-> pi.data[(pi.nread + i - 1) % PIPESIZE]]

\* What there is and fits the buffer, or the bytes up to one that copyout refuses,
\* which is lost.
ReadReturns(p) ==
  /\ At(p, "read")
  /\ LET g == io[p].pipe
         pi == pipe[g]
         all == Min({io[p].n, Fill(pi)})
     IN
     /\ ~MustWait(pi)
     /\ \E k \in 0 .. all :
          /\ pipe' = [pipe EXCEPT ![g] = Take(@, IF k < all THEN k + 1 ELSE k)]
          /\ Returns(p, k, Delivered(pi, k))
     /\ Goto(p, "user") /\ io' = [io EXCEPT ![p] = NoCall]
     /\ Wakeup(<<"nwrite", g>>)
  /\ UNCHANGED <<tables, todo, last, child, exiting, failed, killed>>

------------------------------------------------------------------------------
(* fork, exit and kill *)

Fork(p, q) ==
  /\ Syscall(p) /\ pc[q] = "none"
  /\ pc' = [pc EXCEPT ![p] = "fork", ![q] = "new"]
  /\ child' = [child EXCEPT ![p] = q] /\ Within
  /\ UNCHANGED <<tables, pipe, io, todo, last, exiting, failed, chan, killed>>

\* filedup for each descriptor, one at a time.
ForkDup(p) ==
  /\ At(p, "fork") /\ FreeFds(child[p]) # FreeFds(p)
  /\ LET d == Min(FreeFds(child[p]) \ FreeFds(p)) IN
       /\ ofile' = [ofile EXCEPT ![child[p]][d] = ofile[p][d]]
       /\ ref' = [ref EXCEPT ![ofile[p][d]] = @ + 1]
  /\ Within
  /\ UNCHANGED <<file, iref, pipe, calls, pc, chan, killed>>

ForkRun(p) ==
  /\ At(p, "fork") /\ FreeFds(child[p]) = FreeFds(p)
  /\ pc' = [pc EXCEPT ![p] = "user", ![child[p]] = "user"]
  /\ Returns(p, 1, <<>>)
  /\ child' = [child EXCEPT ![p] = p]
  /\ UNCHANGED <<tables, pipe, io, todo, last, exiting, failed, chan, killed>>

\* exit closes every file.  It clears ofile one descriptor at a time; nobody else
\* looks at it.
Exit(p) ==
  /\ At(p, "user")
  /\ exiting' = exiting \cup {p}
  /\ todo' = [todo EXCEPT ![p] = OpenFiles(p)]
  /\ ofile' = [ofile EXCEPT ![p] = NoFiles]
  /\ pc' = [pc EXCEPT ![p] = IF OpenFiles(p) = <<>> THEN "gone" ELSE "close"]
  /\ Within
  /\ UNCHANGED <<ref, file, iref, pipe, io, last, child, failed, chan, killed>>

\* The parent collects the zombie (freeproc).
Reap(p) ==
  /\ pc[p] = "gone"
  /\ Goto(p, "none")
  /\ exiting' = exiting \ {p} /\ killed' = killed \ {p}
  /\ Within
  /\ UNCHANGED <<tables, pipe, io, todo, last, child, failed, chan>>

\* kill: a sleeping victim is woken.  Bound: the victim sleeps.  A kill within a call is
\* part of the step it comes in (KilledNow); any other shows only in that p exits next.
Kill(p) ==
  /\ chan[p] # NoChan /\ KilledNow(p)
  /\ chan' = [chan EXCEPT ![p] = NoChan]
  /\ Within
  /\ UNCHANGED <<tables, calls, pipe, pc>>

\* The steps of a process that is in a call.
InCall(p) ==
  \/ CloseFile(p) \/ CloseLast(p)
  \/ PipeFile1(p) \/ PipeNoPage(p) \/ PipeDescriptors(p) \/ PipeNoDescriptors(p)
  \/ WriteFails(p) \/ WriteReturns(p) \/ WriteSleeps(p) \/ WriteCut(p)
  \/ ReadFails(p) \/ ReadSleeps(p) \/ ReadReturns(p)
  \/ ForkDup(p) \/ ForkRun(p)

------------------------------------------------------------------------------
(* The processes call what they like. *)

CONSTANTS
  Texts, Sizes,  \* bounds: what is written, how much is asked for
  MaxInodes      \* bound: the references on inodes that calls of open make

ASSUME CallsAssumption ==
  Texts \subseteq Seq(Bytes) /\ Sizes \subseteq Nat /\ MaxInodes \in Nat

AnyCall(p) ==
  \/ Refuse(p) \/ Pipe(p) \/ Exit(p) \/ Reap(p) \/ Kill(p)
  \/ iref < MaxInodes /\ OpenInode(p)
  \/ \E d \in FDs :
       \/ Dup(p, d) \/ Close(p, d) \/ InodeIO(p, d, 0)
       \/ \E w \in Texts : Write(p, d, w)
       \/ \E n \in Sizes : Read(p, d, n)
  \/ \E q \in Procs : Fork(p, q)

Next == \E p \in Procs : AnyCall(p) \/ InCall(p)

Spec == Init /\ [][Next]_vars

------------------------------------------------------------------------------
(* Properties *)

Descriptors(f) == Cardinality({ x \in Procs \X FDs : ofile[x[1]][x[2]] = f })
InFlight(f) ==
  Cardinality(UNION { {p} \X { i \in DOMAIN todo[p] : todo[p][i] = f } : p \in Procs })

\* A file of the table is counted exactly once for every descriptor, in whatever
\* process, and for every call that has it half made or half closed; an inode once
\* for every open file: nothing is closed while somebody uses it, and nothing stays
\* open for ever (file.c filealloc, filedup, fileclose; the error paths of pipealloc
\* and sys_pipe; fork, exit).
RefsExact ==
  /\ \A f \in Fs : ref[f] = Descriptors(f) + InFlight(f)
  /\ iref = Cardinality({ f \in Fs : file[f].type = "FD_INODE" })
            + Cardinality({ p \in Procs : last[p].type = "FD_INODE" })

\* An end of a pipe is open exactly while one file is open for it or is on its way
\* through pipeclose, so the page is freed once, after the last use (pipealloc,
\* pipeclose).
EndsExact ==
  \A g \in Pages, e \in Ends :
    LET f == PipeFile(g, e) IN
    Cardinality({ x \in Fs : file[x] = f }) + Cardinality({ p \in Procs : last[p] = f })
      = IF e \in pipe[g].ends THEN 1 ELSE 0

\* Both: every file, page and inode reference is given back exactly once.
CountsExact == RefsExact /\ EndsExact

\* Who sleeps in piperead or pipewrite has a reason to, which its waker will see:
\* the only bytes nobody was told of are those of a writer killed among them.
SleepersHaveReason ==
  \A p \in Procs :
    chan[p] # NoChan =>
      LET pi == pipe[chan[p][2]] IN
      /\ chan[p][1] = "nwrite" => Full(pi) /\ "read" \in pi.ends
      /\ chan[p][1] = "nread" => MustWait(pi) \/ pi.untold

\* What a pipe is to those who use it: its bytes, its ends, their calls.
Contents == [g \in Pages |-> Content(pipe[g])]
OpenEnds == [g \in Pages |-> pipe[g].ends]
Calling ==
  [p \in Procs |-> [op |-> IF pc[p] \in Ends THEN pc[p] ELSE "none",
                    on |-> io[p].pipe, left |-> io[p].left,
                    moved |-> io[p].done, asked |-> io[p].n]]

Stream == INSTANCE ByteStream WITH
  Capacity <- PIPESIZE, stream <- Contents, ends <- OpenEnds, call <- Calling

\* Pipes implement streams of bytes: the ring and its wrapping counters lose, repeat
\* and reorder nothing whatever the sections of the readers and the writers, and a
\* call says truthfully how much it moved (pipewrite, piperead).
IsStream == Stream!Spec

==============================================================================
