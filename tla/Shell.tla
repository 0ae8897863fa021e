-------------------------------- MODULE Shell --------------------------------
(***************************************************************************)
(* The shell of xv6 (user/sh.c: main, fork1, runcmd) on the open files and *)
(* pipes of the kernel, with the programs echo and cat as what it runs.    *)
(*                                                                         *)
(* at[p] is the statement a process is at; it makes its next call when the *)
(* kernel has returned from the last one (pc[p] = "user").  What exec loads*)
(* is one of the two programs or nothing; cd, which calls nothing of these,*)
(* is left out.                                                            *)
(***************************************************************************)
EXTENDS Files

CONSTANTS
  initproc, sh,  \* the two processes there always are
  Commands,      \* bound: what is typed, as parsecmd returns it
  EchoArgs       \* what echo writes, argument by argument

ASSUME ShellAssumption ==
  {initproc, sh} \subseteq Procs /\ Procs \subseteq Nat /\ initproc # sh /\ NOFILE > 4 /\ MaxKills = 0

VARIABLES
  at,      \* the statement of a process
  cmd,     \* the command or program it runs
  fd,      \* p[0] and p[1] of runcmd
  res,     \* what its last call returned
  text,    \* buf of cat, what echo has left to write
  parent,  \* p->parent
  loose    \* processes nobody waits for: of & commands, left behind by a panic

shellVars == <<at, cmd, fd, res, text, parent, loose>>
allVars == <<vars, shellVars>>

NoCmd == [type |-> "none"]

\* init has opened the console as 0, 1 and 2, has forked sh and waits.
ShellInit ==
  /\ ofile = [p \in Procs |-> [d \in FDs |->
                IF p \in {initproc, sh} /\ d < 3 THEN 1 ELSE NoFile]]
  /\ ref = [f \in Fs |-> IF f = 1 THEN 6 ELSE 0]
  /\ file = [f \in Fs |-> IF f = 1 THEN InodeFile ELSE FreeFile] /\ iref = 1
  /\ pipe = [g \in Pages |-> FreePage]
  /\ pc = [p \in Procs |-> IF p \in {initproc, sh} THEN "user" ELSE "none"]
  /\ io = [p \in Procs |-> NoCall] /\ todo = [p \in Procs |-> <<>>]
  /\ last = [p \in Procs |-> FreeFile] /\ child = [p \in Procs |-> p]
  /\ exiting = {} /\ chan = [p \in Procs |-> NoChan] /\ killed = {}
  /\ failed = {} /\ out = NoReturn
  /\ at = [p \in Procs |-> IF p = initproc THEN "init" ELSE "main"]
  /\ cmd = [p \in Procs |-> NoCmd] /\ fd = [p \in Procs |-> <<3, 4>>]
  /\ res = [p \in Procs |-> 0] /\ text = [p \in Procs |-> <<>>]
  /\ parent = [p \in Procs |-> initproc] /\ loose = {}

Here(p, l) == At(p, "user") /\ at[p] = l
To(p, l) == at' = [at EXCEPT ![p] = l]

\* A call that changes nothing of the program but where it is.
Then(p, call, l) ==
  call /\ To(p, l) /\ UNCHANGED <<cmd, fd, text, parent, loose>>

\* A step of the program between two calls.
Local(p, l) ==
  To(p, l) /\ UNCHANGED <<vars, cmd, fd, res, text, parent, loose>>

\* The result of the call that returns in this step; who is not there has none.
KeepResult ==
  res' = [q \in Procs |-> IF pc'[q] \in {"none", "gone"} THEN 0
                          ELSE IF out' # out /\ out'.proc = q THEN out'.ret ELSE res[q]]

Children(p) == { q \in Procs \ {p} : pc[q] # "none" /\ parent[q] = p }

\* exit: the children go to init, the program's memory is forgotten.
Leave(p) ==
  /\ Exit(p)
  /\ parent' = [q \in Procs |-> IF q # p /\ parent[q] = p THEN initproc ELSE parent[q]]
  /\ cmd' = [cmd EXCEPT ![p] = NoCmd] /\ text' = [text EXCEPT ![p] = <<>>]
  /\ To(p, "exit") /\ UNCHANGED fd

ProgramExit(p) == Leave(p) /\ UNCHANGED loose

\* A child that has exited is collected.
Collect(p) ==
  \E q \in Children(p) :
    /\ Reap(q)
    /\ parent' = [parent EXCEPT ![q] = initproc] /\ loose' = loose \ {q}

\* wait(0): one child that has exited, if there is any child.
Wait(p, l) ==
  /\ Collect(p) \/ (Children(p) = {} /\ UNCHANGED <<vars, parent, loose>>)
  /\ To(p, l) /\ UNCHANGED <<cmd, fd, text>>

FreeSlots == { q \in Procs : pc[q] = "none" }

\* fork1: the child starts at first with command c and is waited for, or is not.
Fork1(p, l, first, c, waited) ==
  LET q == Min(FreeSlots) IN
    /\ FreeSlots # {} /\ Fork(p, q)
    /\ at' = [at EXCEPT ![p] = l, ![q] = first]
    /\ cmd' = [cmd EXCEPT ![q] = c] /\ fd' = [fd EXCEPT ![q] = fd[p]]
    /\ UNCHANGED text
    /\ parent' = [parent EXCEPT ![q] = p]
    /\ loose' = IF p \in loose \/ ~waited THEN loose \cup {q} ELSE loose

\* fork returns -1: panic, which leaves the children there are to init.
ForkPanics(p) ==
  Leave(p) /\ loose' = loose \cup Children(p)

ForkOne(p, l, first, c) == Fork1(p, l, first, c, TRUE) \/ ForkPanics(p)

------------------------------------------------------------------------------
(* main *)

\* Three descriptors are open for sure when open gives one past them.
MainOpen == Here(sh, "main") /\ Then(sh, OpenInode(sh), "opened")
MainClose ==
  /\ Here(sh, "opened")
  /\ IF res[sh] >= 3 THEN Then(sh, Close(sh, res[sh]), "prompt")
     ELSE Local(sh, IF res[sh] < 0 THEN "prompt" ELSE "main")

\* The end of the input, or a command.
Prompt ==
  /\ Here(sh, "prompt")
  /\ \/ ProgramExit(sh)
     \/ \E c \in Commands : ForkOne(sh, "wait", "run", c)

MainWait == Here(sh, "wait") /\ Wait(sh, "prompt")

------------------------------------------------------------------------------
(* runcmd *)

Running(p, t) == Here(p, "run") /\ cmd[p].type = t

\* exec loads the program, or there is none of that name.
Exec(p) ==
  /\ Running(p, "EXEC")
  /\ \/ /\ To(p, cmd[p].prog)
        /\ text' = [text EXCEPT ![p] = IF cmd[p].prog = "echo" THEN EchoArgs ELSE <<>>]
        /\ UNCHANGED <<vars, cmd, fd, parent, loose>>
     \/ ProgramExit(p)

Redir(p) == Running(p, "REDIR") /\ Then(p, Close(p, cmd[p].fd), "redir")

\* open: the file takes the descriptor just closed, or it cannot be opened.
RedirOpen(p) ==
  /\ Here(p, "redir")
  /\ \/ /\ OpenInode(p) /\ To(p, "run")
        /\ cmd' = [cmd EXCEPT ![p] = @.cmd] /\ UNCHANGED <<fd, text, parent, loose>>
     \/ ProgramExit(p)

List(p) == Running(p, "LIST") /\ ForkOne(p, "list_wait", "run", cmd[p].left)
ListRight(p) ==
  /\ Here(p, "list_wait")
  /\ Collect(p) \/ (Children(p) = {} /\ UNCHANGED <<vars, parent, loose>>)
  /\ To(p, "run") /\ cmd' = [cmd EXCEPT ![p] = @.right]
  /\ UNCHANGED <<fd, text>>

Back(p) ==
  /\ Running(p, "BACK")
  /\ Fork1(p, "end", "run", cmd[p].cmd, FALSE) \/ ForkPanics(p)

\* pipe gives the two lowest descriptors.
PipeCall(p) ==
  /\ Running(p, "PIPE")
  /\ LET d == Min(FreeFds(p)) IN fd' = [fd EXCEPT ![p] = <<d, Min(FreeFds(p) \ {d})>>]
  /\ Pipe(p) \/ (FreeFiles = {} /\ Refuse(p))
  /\ To(p, "piped") /\ UNCHANGED <<cmd, text, parent, loose>>

PipeLeft(p) ==
  /\ Here(p, "piped")
  /\ IF res[p] < 0 THEN ProgramExit(p) ELSE ForkOne(p, "pipe_right", "left1", cmd[p].left)
PipeRight(p) == Here(p, "pipe_right") /\ ForkOne(p, "parent1", "right1", cmd[p].right)

\* Mutant: the parent keeps the writing end.
PipeParent_KeepsEnd(p) ==
  \/ Here(p, "parent1") /\ Then(p, Close(p, fd[p][1]), "wait1")
  \/ Here(p, "wait1") /\ Wait(p, "wait2")
  \/ Here(p, "wait2") /\ Wait(p, "end")

\* Mutant: the parent waits for one side only.
PipeParent_OneWait(p) ==
  \/ Here(p, "parent1") /\ Then(p, Close(p, fd[p][1]), "parent2")
  \/ Here(p, "parent2") /\ Then(p, Close(p, fd[p][2]), "wait2")
  \/ Here(p, "wait2") /\ Wait(p, "end")

\* The parent closes its ends and waits for both sides.
PipeParent(p) ==
  \/ Here(p, "parent1") /\ Then(p, Close(p, fd[p][1]), "parent2")
  \/ Here(p, "parent2") /\ Then(p, Close(p, fd[p][2]), "wait1")
  \/ Here(p, "wait1") /\ Wait(p, "wait2")
  \/ Here(p, "wait2") /\ Wait(p, "end")

\* Mutant: the left side does not close the reading end.
PipeSide_KeepsEnd(p, i, std) ==
  LET l == <<"left", "right">>[3 - i] IN
  \/ Here(p, l \o "1") /\ Then(p, Close(p, std), l \o "2")
  \/ Here(p, l \o "2") /\ Then(p, Dup(p, fd[p][i]), l \o "4")
  \/ Here(p, l \o "4") /\ Then(p, Close(p, fd[p][2]), "run")

\* The side of p[i - 1]: its end becomes the standard input or output, and the
\* descriptors of the pipe are closed.
PipeSide(p, i, std) ==
  LET l == <<"left", "right">>[3 - i] IN
  \/ Here(p, l \o "1") /\ Then(p, Close(p, std), l \o "2")
  \/ Here(p, l \o "2") /\ Then(p, Dup(p, fd[p][i]), l \o "3")
  \/ Here(p, l \o "3") /\ Then(p, Close(p, fd[p][1]), l \o "4")
  \/ Here(p, l \o "4") /\ Then(p, Close(p, fd[p][2]), "run")

\* A reader of a file is at its end at once; what is written to one is not followed.
Console(p, d, n) == InodeIO(p, d, n)

End(p) == Here(p, "end") /\ ProgramExit(p)

------------------------------------------------------------------------------
(* echo and cat *)

\* echo writes its arguments, whatever write returns.
Echo(p) ==
  /\ Here(p, "echo")
  /\ IF text[p] = <<>> THEN ProgramExit(p)
     ELSE /\ Write(p, 1, Head(text[p])) \/ Console(p, 1, Len(Head(text[p])))
          /\ text' = [text EXCEPT ![p] = Tail(@)]
          /\ UNCHANGED <<at, cmd, fd, parent, loose>>

CatRead(p) ==
  /\ Here(p, "cat")
  /\ Read(p, 0, 2) \/ Console(p, 0, 0)
  /\ To(p, "cat_write") /\ UNCHANGED <<cmd, fd, text, parent, loose>>

\* What was read is written out; at the end of the input, and when either call
\* fails, cat ends.
CatWrite(p) ==
  /\ Here(p, "cat_write")
  /\ IF res[p] <= 0 THEN ProgramExit(p)
     ELSE /\ Write(p, 1, text[p]) \/ Console(p, 1, Len(text[p]))
          /\ To(p, "cat_check") /\ UNCHANGED <<cmd, fd, text, parent, loose>>
CatCheck(p) ==
  /\ Here(p, "cat_check")
  /\ IF res[p] # Len(text[p]) THEN ProgramExit(p) ELSE Local(p, "cat")

\* init collects the orphans; that it starts sh again is left out.
InitWaits ==
  /\ Here(initproc, "init")
  /\ Collect(initproc) /\ UNCHANGED <<at, cmd, fd, res, text>>

------------------------------------------------------------------------------

Program(p) ==
  \/ Exec(p) \/ Redir(p) \/ RedirOpen(p) \/ List(p) \/ ListRight(p) \/ Back(p)
  \/ PipeCall(p) \/ PipeLeft(p) \/ PipeRight(p) \/ PipeParent(p)
  \/ PipeSide(p, 2, 1) \/ PipeSide(p, 1, 0)
  \/ Echo(p) \/ CatRead(p) \/ CatWrite(p) \/ CatCheck(p) \/ End(p)

\* The bytes a read delivers are in cat's buffer when it returns.
InKernel(p) ==
  /\ InCall(p)
  /\ text' = IF out'.proc = p /\ at[p] = "cat_write" THEN [text EXCEPT ![p] = out'.got]
             ELSE text
  /\ UNCHANGED <<at, cmd, fd, parent, loose>>

MainStep == MainOpen \/ MainClose \/ MainWait
Step(p) == (Program(p) \/ InKernel(p) \/ (p = sh /\ MainStep)) /\ KeepResult

ShellNext ==
  \/ \E p \in Procs : Step(p)
  \/ InitWaits
  \/ Prompt /\ KeepResult

ShellSpec == ShellInit /\ [][ShellNext]_allVars

\* The scheduler runs everybody who can run; nobody has to type a command.
Fairness == \A p \in Procs \ {initproc} : WF_allVars(Step(p))

FairShellSpec == ShellSpec /\ Fairness

------------------------------------------------------------------------------
(* Properties *)

\* A program starts with the standard descriptors and no other: no end of a pipe is
\* left open where nobody knows of it (runcmd PIPE and REDIR).
NoStrayDescriptors ==
  \A p \in Procs :
    at[p] \in {"echo", "cat"} /\ pc[p] = "user" => FDs \ FreeFds(p) = 0 .. 2

\* When the shell asks for a command, nothing of the last one runs any more but what
\* was meant to or was left behind by a panic (main, runcmd LIST, PIPE and BACK).
ForegroundDone ==
  at[sh] = "prompt" /\ pc[sh] = "user" =>
    \A p \in Procs \ {initproc, sh} : pc[p] \notin {"none", "gone"} => p \in loose

\* The shell comes back from every command that is not meant for the background: the
\* readers of a pipe see its end, the writers of one that nobody reads fail, and every
\* wait has its child (runcmd, cat; pipeclose, pipewrite, piperead).
ShellReturns == at[sh] = "wait" ~> at[sh] # "wait"

==============================================================================
