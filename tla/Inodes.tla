-------------------------------- MODULE Inodes --------------------------------
(***************************************************************************)
(* Inodes, directories and path names of the xv6 file system (kernel/fs.c) *)
(* under the system calls of kernel/sysfile.c: open, mkdir, link, unlink,  *)
(* chdir and close by several processes at once, and crashes.              *)
(*                                                                         *)
(* A step is what a handler does under itable.lock, or from one sleep lock *)
(* of an inode to the next point where another process can see it: an      *)
(* inode locked, looked at and unlocked again is one step.  begin_op and   *)
(* end_op are those of module AtomicDisk: the last operation to end makes  *)
(* all of them durable together.                                           *)
(***************************************************************************)
EXTENDS Integers, Sequences, FiniteSets, TLC

CONSTANTS
  Procs,      \* the processes
  NINODES,    \* sb.ninodes - 1: inodes 1 .. NINODES can be allocated
  Calls,      \* the calls with a path that each process makes: [op, path, new]
  NoProc      \* a lock nobody holds

Inodes == 1 .. NINODES

ROOTINO == 1

\* A null pointer to an inode.
Null == 0

ASSUME InodesAssumption ==
  /\ NINODES \in Nat \ {0}
  /\ NoProc \notin Procs
  /\ \A c \in UNION { Calls[p] : p \in Procs } :
       /\ c.op \in {"open", "create", "mkdir", "unlink", "chdir", "link"}
       /\ \A path \in {c.path, c.new} : path.abs \in BOOLEAN /\ path.names \in Seq(STRING)

VARIABLES
  inode,    \* the dinodes, through the buffer cache: type and nlink
  dir,      \* the entries of each directory, through the buffer cache
  ref,      \* ip->ref, 0 where the inode is not in itable
  core,     \* the copy in itable, Invalid while ip->valid is 0
  lock,     \* the holder of ip->lock
  cwd,      \* p->cwd
  fd,       \* the inode of the process's open file
  kt,       \* the kernel thread of each process
  stranded  \* history: the inodes with an entry in a directory that was freed

vars == <<inode, dir, ref, core, lock, cwd, fd, kt, stranded>>

Free == [type |-> "none", nlink |-> 0]

Invalid == [type |-> "invalid", nlink |-> 0]

EmptyDir == <<>>

NoPath == [abs |-> FALSE, names |-> <<>>]

\* A thread in user space.  goal is the handler that a walk of a path leads to, type
\* what create makes, new the second path of link; at and ip are the locals of the
\* handlers; puts are the references about to be dropped by iput, then what
\* follows.
Idle ==
  [pc |-> "user", goal |-> "", names |-> <<>>, type |-> "none", new |-> NoPath,
   at |-> Null, ip |-> Null, puts |-> <<>>, then |-> ""]

Init ==
  /\ inode = [i \in Inodes |-> IF i = ROOTINO THEN [type |-> "dir", nlink |-> 1] ELSE Free]
  /\ dir = [i \in Inodes |-> IF i = ROOTINO THEN ("." :> ROOTINO @@ ".." :> ROOTINO)
                                            ELSE EmptyDir]
  /\ stranded = {}
  /\ ref = [i \in Inodes |-> IF i = ROOTINO THEN Cardinality(Procs) ELSE 0]
  /\ core = [i \in Inodes |-> Invalid]
  /\ lock = [i \in Inodes |-> NoProc]
  /\ cwd = [p \in Procs |-> ROOTINO]
  /\ fd = [p \in Procs |-> Null]
  /\ kt = [p \in Procs |-> Idle]

------------------------------------------------------------------------------
(* References and locks of in-memory inodes *)

\* The fields r of p's thread change.
Thread(p, r) == kt' = [kt EXCEPT ![p] = r @@ @]

At(p, l) == kt[p].pc = l

\* iget, idup
Get(i) == ref' = [ref EXCEPT ![i] = @ + 1]

\* What ilock makes of the inode: read from the disk if need be.
InCore(i) == IF core[i] = Invalid THEN inode[i] ELSE core[i]

\* ilock would panic: the inode it reads is free.
NoType(i) == core[i] = Invalid /\ inode[i].type = "none"

\* The lock of i is to be had and the inode is a good one.
CanLock(i) == lock[i] = NoProc /\ ~NoType(i)

\* The copy in memory of i is read, or is written and goes out with iupdate.
ReadInode(i) == core' = [core EXCEPT ![i] = InCore(i)]

Links(i, n) == [InCore(i) EXCEPT !.nlink = @ + n]

\* iput of the references s, then on to l with the fields r of the thread.
PutThen(p, s, l, r) == Thread(p, [pc |-> "put", puts |-> s, then |-> l] @@ r)

\* iput of the references s, then end_op: the locals of the call are dead.
Finish(p, s) ==
  kt' = [kt EXCEPT ![p] = [Idle EXCEPT !.pc = "put", !.puts = s, !.then = "end"]]

\* iput must free the inode: the last reference, and no links.
LastPut(i) == ref[i] = 1 /\ core[i] # Invalid /\ core[i].nlink = 0

\* ip->ref--.  What iget finds at ref 0 it takes for another inode's old entry.
Drop(p) ==
  LET i == Head(kt[p].puts)
      rest == Tail(kt[p].puts) IN
  /\ ref' = [ref EXCEPT ![i] = @ - 1]
  /\ core' = IF ref[i] = 1 THEN [core EXCEPT ![i] = Invalid] ELSE core
  /\ Thread(p, IF rest = <<>> THEN [pc |-> kt[p].then, puts |-> rest, then |-> ""]
                              ELSE [pc |-> "put", puts |-> rest])
  /\ UNCHANGED <<inode, dir, lock, cwd, fd, stranded>>

\* iput, when others hold the inode or it has links.
Put(p) == At(p, "put") /\ ~LastPut(Head(kt[p].puts)) /\ Drop(p)

\* The entries of a directory but "." and "..".
Names(i) == DOMAIN dir[i] \ {".", ".."}

\* The inode is locked and truncated, and it is free on the disk.
PutFree(p) ==
  LET i == Head(kt[p].puts) IN
  /\ At(p, "put") /\ LastPut(i) /\ lock[i] = NoProc
  /\ lock' = [lock EXCEPT ![i] = p]
  /\ inode' = [inode EXCEPT ![i] = Free]
  /\ dir' = [dir EXCEPT ![i] = EmptyDir]
  /\ core' = [core EXCEPT ![i] = Free]
  /\ stranded' = stranded \cup { dir[i][n] : n \in Names(i) }
  /\ Thread(p, [pc |-> "put_unlock"])
  /\ UNCHANGED <<ref, cwd, fd>>

\* Mutant: ip->valid stays set.
PutUnlock_StaysValid(p) ==
  /\ At(p, "put_unlock")
  /\ lock' = [lock EXCEPT ![Head(kt[p].puts)] = NoProc]
  /\ Thread(p, [pc |-> "put_drop"])
  /\ UNCHANGED <<inode, dir, ref, core, cwd, fd, stranded>>

\* ip->valid = 0, releasesleep.
PutUnlock(p) ==
  LET i == Head(kt[p].puts) IN
  /\ At(p, "put_unlock")
  /\ core' = [core EXCEPT ![i] = Invalid]
  /\ lock' = [lock EXCEPT ![i] = NoProc]
  /\ Thread(p, [pc |-> "put_drop"])
  /\ UNCHANGED <<inode, dir, ref, cwd, fd, stranded>>

PutDrop(p) == At(p, "put_drop") /\ Drop(p)

------------------------------------------------------------------------------
(* Path names *)

\* The walk stops one level early: nameiparent.
Parent(goal) == goal \in {"create", "unlink", "link_enter"}

\* The path leads nowhere: namex puts i and returns 0.
NoSuch(p, goal, i, r) ==
  IF goal = "link_enter"
    THEN PutThen(p, <<i>>, "link_bad", [at |-> Null, goal |-> "", names |-> <<>>] @@ r)
    ELSE Finish(p, <<i>>)

\* namex up to its loop, for a path that leads to goal; r are the other fields.
Start(p, path, goal, r) ==
  LET i == IF path.abs THEN ROOTINO ELSE cwd[p] IN
  /\ Get(i)
  /\ IF path.names # <<>>
       THEN Thread(p, [pc |-> "walk", goal |-> goal, names |-> path.names, at |-> i] @@ r)
       ELSE IF Parent(goal)
              THEN NoSuch(p, goal, i, r)
              ELSE Thread(p, [pc |-> goal, at |-> i] @@ r)

\* A system call with a path: begin_op, then the walk.  create is open with O_CREATE,
\* open is without.
Call(p) ==
  /\ At(p, "user")
  /\ \E c \in Calls[p] :
       Start(p, c.path, IF c.op = "mkdir" THEN "create" ELSE c.op,
             [type |-> CASE c.op = "create" -> "file" [] c.op = "mkdir" -> "dir" [] OTHER -> "none",
              new |-> IF c.op = "link" THEN c.new ELSE NoPath])
  /\ UNCHANGED <<inode, dir, core, lock, cwd, fd, stranded>>

\* The directory of the walk, which is no directory or has not the name.
WalkFails(p) ==
  LET t == kt[p] IN
  /\ At(p, "walk") /\ CanLock(t.at)
  /\ \/ InCore(t.at).type # "dir"
     \/ /\ ~(Parent(t.goal) /\ Len(t.names) = 1)
        /\ Head(t.names) \notin DOMAIN dir[t.at]
  /\ ReadInode(t.at)
  /\ NoSuch(p, t.goal, t.at, <<>>)
  /\ UNCHANGED <<inode, dir, ref, lock, cwd, fd, stranded>>

WalkStops(p) ==
  LET t == kt[p] IN
  /\ At(p, "walk") /\ CanLock(t.at)
  /\ InCore(t.at).type = "dir"
  /\ Parent(t.goal) /\ Len(t.names) = 1
  /\ ReadInode(t.at)
  /\ Thread(p, [pc |-> t.goal, goal |-> ""])
  /\ UNCHANGED <<inode, dir, ref, lock, cwd, fd, stranded>>

\* Mutant: the inode of the name is looked up without a reference of its own.
WalkOn_NoReference(p) ==
  LET t == kt[p]
      rest == Tail(t.names) IN
  /\ At(p, "walk") /\ CanLock(t.at)
  /\ InCore(t.at).type = "dir"
  /\ ~(Parent(t.goal) /\ rest = <<>>)
  /\ Head(t.names) \in DOMAIN dir[t.at]
  /\ ReadInode(t.at)
  /\ Thread(p, [pc |-> IF rest = <<>> THEN t.goal ELSE "walk",
                at |-> dir[t.at][Head(t.names)], names |-> rest])
  /\ UNCHANGED <<inode, dir, ref, lock, cwd, fd, stranded>>

\* dirlookup finds the name: the walk goes on from its inode.
WalkOn(p) ==
  LET t == kt[p]
      rest == Tail(t.names) IN
  /\ At(p, "walk") /\ CanLock(t.at)
  /\ InCore(t.at).type = "dir"
  /\ ~(Parent(t.goal) /\ rest = <<>>)
  /\ Head(t.names) \in DOMAIN dir[t.at]
  /\ Get(dir[t.at][Head(t.names)])
  /\ ReadInode(t.at)
  /\ PutThen(p, <<t.at>>, IF rest = <<>> THEN t.goal ELSE "walk",
             [at |-> dir[t.at][Head(t.names)], names |-> rest,
              goal |-> IF rest = <<>> THEN "" ELSE t.goal])
  /\ UNCHANGED <<inode, dir, lock, cwd, fd, stranded>>

------------------------------------------------------------------------------
(* open and chdir of what is there *)

Name(p) == Head(kt[p].names)

\* The file is opened, or the process has no descriptor left: the inode is unlocked
\* and becomes the file's, or is put.
OpenFile(p, i) ==
  IF fd[p] = Null
    THEN fd' = [fd EXCEPT ![p] = i] /\ kt' = [kt EXCEPT ![p] = [Idle EXCEPT !.pc = "end"]]
    ELSE Finish(p, <<i>>) /\ UNCHANGED fd

\* open without O_CREATE, for reading: a directory will do as well.
Open(p) ==
  /\ At(p, "open") /\ CanLock(kt[p].at)
  /\ ReadInode(kt[p].at)
  /\ OpenFile(p, kt[p].at)
  /\ UNCHANGED <<inode, dir, ref, lock, cwd, stranded>>

\* p->cwd, which only p looks at, is set after end_op in the code.
Chdir(p) ==
  LET i == kt[p].at IN
  /\ At(p, "chdir") /\ CanLock(i)
  /\ ReadInode(i)
  /\ IF InCore(i).type = "dir"
       THEN cwd' = [cwd EXCEPT ![p] = i] /\ Finish(p, <<cwd[p]>>)
       ELSE Finish(p, <<i>>) /\ UNCHANGED cwd
  /\ UNCHANGED <<inode, dir, ref, lock, fd, stranded>>

\* fileclose of the last descriptor of the file.
Close(p) ==
  /\ At(p, "user") /\ fd[p] # Null
  /\ fd' = [fd EXCEPT ![p] = Null]
  /\ Finish(p, <<fd[p]>>)
  /\ UNCHANGED <<inode, dir, ref, core, lock, cwd, stranded>>

------------------------------------------------------------------------------
(* create: open with O_CREATE, mkdir *)

\* Mutant: the directory stays locked while the inode that was there is locked.
CreateOld_KeepsLock(p) ==
  LET dp == kt[p].at IN
  /\ At(p, "create") /\ CanLock(dp)
  /\ Name(p) \in DOMAIN dir[dp]
  /\ Get(dir[dp][Name(p)])
  /\ ReadInode(dp)
  /\ lock' = [lock EXCEPT ![dp] = p]
  /\ Thread(p, [pc |-> "create_found", ip |-> dir[dp][Name(p)]])
  /\ UNCHANGED <<inode, dir, cwd, fd, stranded>>

\* The name is there: the directory is put before its inode is locked.
CreateOld(p) ==
  LET dp == kt[p].at IN
  /\ At(p, "create") /\ CanLock(dp)
  /\ Name(p) \in DOMAIN dir[dp]
  /\ Get(dir[dp][Name(p)])
  /\ ReadInode(dp)
  /\ PutThen(p, <<dp>>, "create_found", [at |-> Null, ip |-> dir[dp][Name(p)], names |-> <<>>])
  /\ UNCHANGED <<inode, dir, lock, cwd, fd, stranded>>

\* A file that was there is opened; anything else is an error.
CreateFound(p) ==
  LET i == kt[p].ip IN
  /\ At(p, "create_found") /\ CanLock(i)
  /\ ReadInode(i)
  /\ IF kt[p].type = "file" /\ InCore(i).type = "file"
       THEN OpenFile(p, i)
       ELSE Finish(p, <<i>>) /\ UNCHANGED fd
  /\ UNCHANGED <<inode, dir, ref, lock, cwd, stranded>>

\* ialloc finds no free inode.
CreateNoInode(p) ==
  LET dp == kt[p].at IN
  /\ At(p, "create") /\ CanLock(dp)
  /\ Name(p) \notin DOMAIN dir[dp]
  /\ \A i \in Inodes : inode[i].type # "none"
  /\ ReadInode(dp)
  /\ Finish(p, <<dp>>)
  /\ UNCHANGED <<inode, dir, ref, lock, cwd, fd, stranded>>

FirstFree(i) == inode[i].type = "none" /\ \A j \in Inodes : j < i => inode[j].type # "none"

\* ialloc marks the first free inode and gets a reference; dp stays locked.
CreateAlloc(p) ==
  LET dp == kt[p].at IN
  /\ At(p, "create") /\ CanLock(dp)
  /\ Name(p) \notin DOMAIN dir[dp]
  /\ ReadInode(dp)
  /\ lock' = [lock EXCEPT ![dp] = p]
  /\ \E i \in Inodes :
       /\ FirstFree(i)
       /\ Get(i)
       /\ inode' = [inode EXCEPT ![i] =
            [type |-> kt[p].type, nlink |-> 0]]
       /\ Thread(p, [pc |-> "create_link", ip |-> i])
  /\ UNCHANGED <<dir, cwd, fd, stranded>>

\* ilock, nlink = 1, the entries, and one more link to dp for the ".." of a
\* directory.  dp is unlocked and put, ip stays locked.
CreateLink(p) ==
  LET dp == kt[p].at
      ip == kt[p].ip
      new == [Links(ip, 0) EXCEPT !.nlink = 1]
      parent == Links(dp, IF kt[p].type = "dir" THEN 1 ELSE 0) IN
  /\ At(p, "create_link") /\ CanLock(ip)
  /\ lock' = [lock EXCEPT ![ip] = p, ![dp] = NoProc]
  /\ core' = [core EXCEPT ![ip] = new, ![dp] = parent]
  /\ inode' = [inode EXCEPT ![ip] = new, ![dp] = parent]
  /\ dir' = [dir EXCEPT ![dp] = Name(p) :> ip @@ @,
                        ![ip] = IF kt[p].type = "dir" THEN ("." :> ip @@ ".." :> dp) ELSE @]
  /\ PutThen(p, <<dp>>, "create_done", [at |-> Null, names |-> <<>>])
  /\ UNCHANGED <<ref, cwd, fd, stranded>>

\* A directory needs a block for the entry and the disk has none: the new inode is
\* put with no links, before dp is unlocked.
CreateNoBlock(p) ==
  LET ip == kt[p].ip
      new == [Links(ip, 0) EXCEPT !.nlink = 0] IN
  /\ At(p, "create_link") /\ CanLock(ip)
  /\ core' = [core EXCEPT ![ip] = new]
  /\ inode' = [inode EXCEPT ![ip] = new]
  /\ PutThen(p, <<ip>>, "bad", [ip |-> Null, names |-> <<>>, type |-> "none"])
  /\ UNCHANGED <<dir, ref, lock, cwd, fd, stranded>>

\* iunlock of the new inode: open keeps it, mkdir puts it.
CreateDone(p) ==
  LET ip == kt[p].ip IN
  /\ At(p, "create_done")
  /\ lock' = [lock EXCEPT ![ip] = NoProc]
  /\ IF kt[p].type = "file"
       THEN OpenFile(p, ip)
       ELSE Finish(p, <<ip>>) /\ UNCHANGED fd
  /\ UNCHANGED <<inode, dir, ref, core, cwd, stranded>>

\* The error path of create and unlink: iunlockput(dp).
Bad(p) ==
  LET dp == kt[p].at IN
  /\ At(p, "bad")
  /\ lock' = [lock EXCEPT ![dp] = NoProc]
  /\ Finish(p, <<dp>>)
  /\ UNCHANGED <<inode, dir, ref, core, cwd, fd, stranded>>

------------------------------------------------------------------------------
(* unlink *)

UnlinkFails(p) ==
  LET dp == kt[p].at IN
  /\ At(p, "unlink") /\ CanLock(dp)
  /\ Name(p) \in {".", ".."} \/ Name(p) \notin DOMAIN dir[dp]
  /\ ReadInode(dp)
  /\ Finish(p, <<dp>>)
  /\ UNCHANGED <<inode, dir, ref, lock, cwd, fd, stranded>>

\* The entry is found; dp stays locked.
UnlinkFind(p) ==
  LET dp == kt[p].at IN
  /\ At(p, "unlink") /\ CanLock(dp)
  /\ Name(p) \in Names(dp)
  /\ ReadInode(dp)
  /\ lock' = [lock EXCEPT ![dp] = p]
  /\ Get(dir[dp][Name(p)])
  /\ Thread(p, [pc |-> "unlink_entry", ip |-> dir[dp][Name(p)]])
  /\ UNCHANGED <<inode, dir, cwd, fd, stranded>>

\* isdirempty
IsEmpty(i) == Names(i) = {}

\* Mutant: the directory that is not empty is unlocked and not put.
UnlinkNotEmpty_NoPut(p) ==
  LET ip == kt[p].ip IN
  /\ At(p, "unlink_entry") /\ CanLock(ip)
  /\ InCore(ip).nlink > 0 /\ InCore(ip).type = "dir" /\ ~IsEmpty(ip)
  /\ ReadInode(ip)
  /\ Thread(p, [pc |-> "bad", ip |-> Null])
  /\ UNCHANGED <<inode, dir, ref, lock, cwd, fd, stranded>>

UnlinkNotEmpty(p) ==
  LET ip == kt[p].ip IN
  /\ At(p, "unlink_entry") /\ CanLock(ip)
  /\ InCore(ip).nlink > 0 /\ InCore(ip).type = "dir" /\ ~IsEmpty(ip)
  /\ ReadInode(ip)
  /\ PutThen(p, <<ip>>, "bad", [ip |-> Null, names |-> <<>>, type |-> "none"])
  /\ UNCHANGED <<inode, dir, ref, lock, cwd, fd, stranded>>

\* Mutant: the parent keeps the link of the ".." of a directory.
UnlinkEntry_KeepsDotDot(p) ==
  LET dp == kt[p].at
      ip == kt[p].ip IN
  /\ At(p, "unlink_entry") /\ CanLock(ip)
  /\ InCore(ip).nlink > 0
  /\ lock' = [lock EXCEPT ![ip] = p, ![dp] = NoProc]
  /\ core' = [core EXCEPT ![ip] = InCore(ip)]
  /\ dir' = [dir EXCEPT ![dp] = [n \in DOMAIN @ \ {Name(p)} |-> @[n]]]
  /\ PutThen(p, <<dp>>, "unlink_count", [at |-> Null, names |-> <<>>])
  /\ UNCHANGED <<inode, ref, cwd, fd, stranded>>

\* The entry is cleared, a directory's ".." no longer counts.  dp is unlocked and
\* put, ip stays locked.
UnlinkEntry(p) ==
  LET dp == kt[p].at
      ip == kt[p].ip
      parent == Links(dp, IF InCore(ip).type = "dir" THEN -1 ELSE 0) IN
  /\ At(p, "unlink_entry") /\ CanLock(ip)
  /\ InCore(ip).nlink > 0 /\ (InCore(ip).type = "dir" => IsEmpty(ip))
  /\ lock' = [lock EXCEPT ![ip] = p, ![dp] = NoProc]
  /\ core' = [core EXCEPT ![ip] = InCore(ip), ![dp] = parent]
  /\ inode' = [inode EXCEPT ![dp] = parent]
  /\ dir' = [dir EXCEPT ![dp] = [n \in DOMAIN @ \ {Name(p)} |-> @[n]]]
  /\ PutThen(p, <<dp>>, "unlink_count", [at |-> Null, names |-> <<>>])
  /\ UNCHANGED <<ref, cwd, fd, stranded>>

\* Mutant: the reference is put before the link is taken off the count.
UnlinkCount_PutFirst(p) ==
  LET ip == kt[p].ip IN
  /\ At(p, "unlink_count")
  /\ inode' = [inode EXCEPT ![ip] = Links(ip, -1)]
  /\ core' = [core EXCEPT ![ip] = IF ref[ip] = 1 THEN Invalid ELSE Links(ip, -1)]
  /\ lock' = [lock EXCEPT ![ip] = NoProc]
  /\ ref' = [ref EXCEPT ![ip] = @ - 1]
  /\ Thread(p, [pc |-> "end", ip |-> Null])
  /\ UNCHANGED <<dir, cwd, fd, stranded>>

UnlinkCount(p) ==
  LET ip == kt[p].ip IN
  /\ At(p, "unlink_count")
  /\ core' = [core EXCEPT ![ip] = Links(ip, -1)]
  /\ inode' = [inode EXCEPT ![ip] = Links(ip, -1)]
  /\ lock' = [lock EXCEPT ![ip] = NoProc]
  /\ Finish(p, <<ip>>)
  /\ UNCHANGED <<dir, ref, cwd, fd, stranded>>

------------------------------------------------------------------------------
(* link *)

LinkDir(p) ==
  LET i == kt[p].at IN
  /\ At(p, "link") /\ CanLock(i) /\ InCore(i).type = "dir"
  /\ ReadInode(i)
  /\ Finish(p, <<i>>)
  /\ UNCHANGED <<inode, dir, ref, lock, cwd, fd, stranded>>

\* The link is counted first, then the walk to the new name begins.
LinkCount(p) ==
  LET i == kt[p].at IN
  /\ At(p, "link") /\ CanLock(i) /\ InCore(i).type # "dir"
  /\ core' = [core EXCEPT ![i] = Links(i, 1)]
  /\ inode' = [inode EXCEPT ![i] = Links(i, 1)]
  /\ Start(p, kt[p].new, "link_enter", [ip |-> i, new |-> NoPath])
  /\ UNCHANGED <<dir, lock, cwd, fd, stranded>>

LinkEnter(p) ==
  LET dp == kt[p].at IN
  /\ At(p, "link_enter") /\ CanLock(dp)
  /\ Name(p) \notin DOMAIN dir[dp]
  /\ ReadInode(dp)
  /\ dir' = [dir EXCEPT ![dp] = Name(p) :> kt[p].ip @@ @]
  /\ Finish(p, <<dp, kt[p].ip>>)
  /\ UNCHANGED <<inode, ref, lock, cwd, fd, stranded>>

\* The name is there, or there is no block for it.
LinkFails(p) ==
  LET dp == kt[p].at IN
  /\ At(p, "link_enter") /\ CanLock(dp)
  /\ ReadInode(dp)
  /\ PutThen(p, <<dp>>, "link_bad", [at |-> Null, names |-> <<>>])
  /\ UNCHANGED <<inode, dir, ref, lock, cwd, fd, stranded>>

LinkBad(p) ==
  LET ip == kt[p].ip IN
  /\ At(p, "link_bad") /\ CanLock(ip)
  /\ core' = [core EXCEPT ![ip] = Links(ip, -1)]
  /\ inode' = [inode EXCEPT ![ip] = Links(ip, -1)]
  /\ Finish(p, <<ip>>)
  /\ UNCHANGED <<dir, ref, lock, cwd, fd, stranded>>

------------------------------------------------------------------------------
(* The end of a call, panics, crashes *)

\* end_op
End(p) ==
  /\ At(p, "end")
  /\ kt' = [kt EXCEPT ![p] = Idle]
  /\ UNCHANGED <<inode, dir, ref, core, lock, cwd, fd, stranded>>

\* The inode whose lock p asks for with ilock.
Wanted(p) ==
  CASE kt[p].pc \in {"walk", "open", "chdir", "create", "unlink", "link", "link_enter"} ->
         kt[p].at
    [] kt[p].pc \in {"create_found", "create_link", "unlink_entry", "link_bad"} -> kt[p].ip
    [] OTHER -> Null

\* No operation is active: what there is has been committed.
Settled == \A p \in Procs : kt[p].pc = "user"

\* Memory is lost, and every process starts in the root directory again.  A crash
\* during operations takes the disk back to the last commit, which is to the state
\* they began in: it leads where a crash in that state leads.
Crash ==
  /\ Settled
  /\ ref' = [i \in Inodes |-> IF i = ROOTINO THEN Cardinality(Procs) ELSE 0]
  /\ core' = [i \in Inodes |-> Invalid]
  /\ lock' = [i \in Inodes |-> NoProc]
  /\ cwd' = [p \in Procs |-> ROOTINO]
  /\ fd' = [p \in Procs |-> Null]
  /\ kt' = [p \in Procs |-> Idle]
  /\ UNCHANGED <<inode, dir, stranded>>

Iput(p) == Put(p) \/ PutFree(p) \/ PutUnlock(p) \/ PutDrop(p)

Walk(p) == WalkFails(p) \/ WalkStops(p) \/ WalkOn(p)

Create(p) ==
  \/ CreateOld(p) \/ CreateFound(p) \/ CreateNoInode(p) \/ CreateAlloc(p)
  \/ CreateLink(p) \/ CreateNoBlock(p) \/ CreateDone(p)

Unlink(p) ==
  UnlinkFails(p) \/ UnlinkFind(p) \/ UnlinkNotEmpty(p) \/ UnlinkEntry(p) \/ UnlinkCount(p)

Link(p) == LinkDir(p) \/ LinkCount(p) \/ LinkEnter(p) \/ LinkFails(p) \/ LinkBad(p)

Next ==
  \/ \E p \in Procs :
       \/ Call(p) \/ Close(p) \/ Iput(p) \/ Walk(p) \/ Open(p) \/ Chdir(p)
       \/ Create(p) \/ Bad(p) \/ Unlink(p) \/ Link(p) \/ End(p)
  \/ Crash

Spec == Init /\ [][Next]_vars

------------------------------------------------------------------------------

\* The references of a process, one for each pointer it has.
Pointers(p) == <<cwd[p], fd[p], kt[p].at, kt[p].ip>> \o kt[p].puts

PlacesOf(i, pointers) == { n \in DOMAIN pointers : pointers[n] = i }

\* No call loses or invents a reference, on any of its error paths: the count of
\* each inode is the number of pointers to it.
RefsExact ==
  \A i \in Inodes :
    ref[i] = Cardinality(UNION { {p} \X PlacesOf(i, Pointers(p)) : p \in Procs })

Freeing(p, i) == kt[p].pc \in {"put_unlock", "put_drop"} /\ Head(kt[p].puts) = i

\* The kernel does not panic in ilock (no type) or unlink (nlink < 1): nothing a
\* process points to is free, but for what its own iput has just freed, and an entry
\* that unlink has found keeps its link.  A name removed or an inode reused
\* meanwhile never reaches a process on its way to it.
NoPanic ==
  \A p \in Procs :
    /\ \A i \in Inodes :
         PlacesOf(i, Pointers(p)) # {} => inode[i].type # "none" \/ Freeing(p, i)
    /\ kt[p].pc = "unlink_entry" => inode[kt[p].ip].nlink > 0

\* iput sleeps for no lock: as its comment says, nobody else can have an inode
\* locked of which it holds the last reference.
PutNeverBlocks ==
  \A p \in Procs :
    kt[p].pc = "put" /\ LastPut(Head(kt[p].puts)) => lock[Head(kt[p].puts)] = NoProc

\* Locks are taken in an order, from a directory down: no set of processes waits
\* for locks that they hold themselves.
NoDeadlock ==
  \A S \in SUBSET Procs \ {{}} :
    ~ \A p \in S : Wanted(p) # Null /\ lock[Wanted(p)] \in S

\* The entries of an inode, and the directories whose ".." counts for it.
EntriesOf(i) ==
  UNION { { <<d, n>> : n \in { m \in DOMAIN dir[d] \ {".", ".."} : dir[d][m] = i } } :
          d \in Inodes }

ChildrenOf(i) ==
  { d \in Inodes : inode[d].type = "dir" /\ EntriesOf(d) # {} /\ dir[d][".."] = i }

\* Whenever the machine crashes, the link count of each inode on disk is the number
\* of its entries (and of the ".." that lead to it), a free inode has none, and a
\* directory has one entry at most.  The exception is in the code: a file made in
\* a directory that was removed already keeps its count when the directory goes.
LinksExact ==
  Settled => \A i \in Inodes \ stranded :
    /\ inode[i].nlink = Cardinality(EntriesOf(i)) + Cardinality(ChildrenOf(i))
                            + (IF i = ROOTINO THEN 1 ELSE 0)
    /\ inode[i].type = "none" => inode[i].nlink = 0
    /\ inode[i].type = "dir" => Cardinality(EntriesOf(i)) <= 1

\* Inodes that nothing will ever free.
Lost == { i \in Inodes : inode[i].type # "none" /\ inode[i].nlink = 0 /\ ref[i] = 0 }

\* The last of the links and references of an inode to go takes the inode with it, in
\* whichever order they go.  A crash may lose a removed file that is open.  And the
\* code has a gap: the last step of an iput that freed its inode drops a reference
\* without looking again, though ialloc may have given the inode out meanwhile.
NothingLost ==
  [][Lost' \subseteq Lost \/ Crash \/ \E p \in Procs : PutDrop(p)]_vars

==============================================================================
