-------------------------------- MODULE MyBash --------------------------------
(***************************************************************************)
(* The shell of so25lab1g16 (mybash.c, execute.c and what they use of      *)
(* parsing.c, command.c and builtin.c): its loop, pipelines, background    *)
(* processes, and the processes it forks.                                  *)
(*                                                                         *)
(* What a command does is left to three programs: "gen" writes some units, *)
(* "cat" copies its input to its output, "quit" ends at once, as a command *)
(* that is not found, whose redirection fails, or that is internal.        *)
(***************************************************************************)
EXTENDS Integers, FiniteSets, SequencesExt

CONSTANTS
  Pids,           \* bound: the processes there may be besides the shell
  PipeIds,        \* bound: the pipes there may be
  Lines,          \* bound: the lines that the user types
  Units,          \* bound: the units that a gen writes
  PipeSize,       \* the units that a pipe holds
  MAX_BACKGROUND_PROCS

Shell == 0
TTY == 0
Programs == {"gen", "cat", "quit"}
Commands == Programs \cup {"empty", "cd", "exit"}

ASSUME BashAssumption ==
  /\ Pids \subseteq Nat \ {Shell} /\ IsFiniteSet(Pids)
  /\ PipeIds \subseteq Nat \ {TTY} /\ IsFiniteSet(PipeIds)
  /\ PipeSize \in Nat \ {0} /\ Units \in Nat /\ MAX_BACKGROUND_PROCS \in Nat
  /\ \A l \in Lines : l.cmds \in Seq(Commands) /\ l.cmds # <<>> /\ l.wait \in BOOLEAN

VARIABLES
  pc,          \* where the shell is
  line,        \* the pipeline that it executes
  pipes,       \* pipes of execute_pipeline, in order
  pids,        \* pids that are still to be waited for
  background,  \* background_pids
  child,       \* the processes of the shell
  ends,        \* the ends of pipes that each process has open
  buf,         \* the units in each pipe
  shown        \* the units that the processes in pids wrote to the terminal

shell == <<pc, line, pipes, pids, background>>
vars == <<pc, line, pipes, pids, background, child, ends, buf, shown>>

Ends(P) == P \X {"r", "w"}
Free == [st |-> "free"]
Unreaped == { c \in Pids : child[c] # Free }
Zombie(c) == child[c].st = "zombie"

NoLine == [cmds |-> <<"empty">>, wait |-> TRUE]

Init ==
  /\ pc = "reap"
  /\ line = NoLine
  /\ pipes = <<>> /\ pids = <<>> /\ background = <<>>
  /\ child = [c \in Pids |-> Free]
  /\ ends = [p \in {Shell} \cup Pids |-> {}]
  /\ buf = [p \in PipeIds |-> 0]
  /\ shown = 0

------------------------------------------------------------------------------
(* main: the loop *)

\* Mutant: the process stays in the list of the background.
ReapOne_KeepsEntry ==
  /\ pc = "reap"
  /\ \E c \in Pids : Zombie(c) /\ child' = [child EXCEPT ![c] = Free]
  /\ UNCHANGED <<shell, ends, buf, shown>>

\* A turn of the loop of cleanup_zombies, and its end.
ReapOne ==
  /\ pc = "reap"
  /\ \E c \in Pids :
       /\ Zombie(c)
       /\ child' = [child EXCEPT ![c] = Free]
       /\ background' = RemoveFirst(background, c)
  /\ UNCHANGED <<pc, line, pipes, pids, ends, buf, shown>>

Reaped ==
  /\ pc = "reap" /\ \A c \in Pids : ~Zombie(c)
  /\ pc' = "prompt"
  /\ line' = NoLine /\ shown' = 0
  /\ UNCHANGED <<pipes, pids, background, child, ends, buf>>

\* parse_pipeline returns no pipeline for one command without words.  A builtin comes
\* first or not at all: the rest of its pipeline, and its &, are ignored.  The front of
\* a first command without words does not exist, and its assert aborts.
FirstStep(cmds) ==
  CASE cmds[1] = "empty" -> IF Len(cmds) = 1 THEN "reap" ELSE "aborted"
    [] cmds[1] = "cd" -> "reap"
    [] cmds[1] = "exit" -> "exited"
    [] OTHER -> IF Len(cmds) = 1 THEN "fork" ELSE "pipe"

\* What ends the shell closes its descriptors.
ShellGoes(to) ==
  /\ pc' = to
  /\ ends' = IF to \in {"exited", "aborted"} THEN [ends EXCEPT ![Shell] = {}] ELSE ends

ReadLine ==
  /\ pc = "prompt"
  /\ \E l \in Lines : line' = l /\ ShellGoes(FirstStep(l.cmds))
  /\ UNCHANGED <<pipes, pids, background, child, buf, shown>>

EndOfInput ==
  /\ pc = "prompt" /\ ShellGoes("exited")
  /\ UNCHANGED <<line, pipes, pids, background, child, buf, shown>>

------------------------------------------------------------------------------
(* execute_pipeline *)

Unused == { p \in PipeIds : \A q \in DOMAIN ends : ends[q] \cap Ends({p}) = {} }

\* pipe(): two descriptors of a new pipe.
MakePipe ==
  LET p == Min(Unused) IN
  /\ pc = "pipe" /\ Unused # {}
  /\ pipes' = Append(pipes, p)
  /\ ends' = [ends EXCEPT ![Shell] = @ \cup Ends({p})]
  /\ buf' = [buf EXCEPT ![p] = 0]
  /\ pc' = IF Len(pipes) = Len(line.cmds) - 2 THEN "fork" ELSE "pipe"
  /\ UNCHANGED <<line, pids, background, child, shown>>

\* The pipes that were made stay open.
PipeFails ==
  /\ pc = "pipe" /\ pc' = "reap"
  /\ pipes' = <<>>
  /\ UNCHANGED <<line, pids, background, child, ends, buf, shown>>

\* Mutant: every command but the first reads from the first pipe.
NewChild_FirstPipe(i) ==
  [st |-> "setup", prog |-> line.cmds[i], close |-> ToSet(pipes),
   in |-> IF i > 1 THEN pipes[1] ELSE TTY,
   out |-> IF i < Len(line.cmds) THEN pipes[i] ELSE TTY,
   todo |-> IF line.cmds[i] = "gen" THEN Units ELSE 0]

\* The process of the i-th command: what it will be connected to and what it will close.
NewChild(i) ==
  [st |-> "setup", prog |-> line.cmds[i], close |-> ToSet(pipes),
   in |-> IF i > 1 THEN pipes[i - 1] ELSE TTY,
   out |-> IF i < Len(line.cmds) THEN pipes[i] ELSE TTY,
   todo |-> IF line.cmds[i] = "gen" THEN Units ELSE 0]

\* fork of the next command.
Fork ==
  LET i == Len(pids) + 1
      c == Min(Pids \ Unreaped)
  IN  /\ pc = "fork" /\ Unreaped # Pids
      /\ line.cmds[i] # "empty"
      /\ child' = [child EXCEPT ![c] = NewChild(i)]
      /\ ends' = [ends EXCEPT ![c] = ends[Shell]]
      /\ pids' = Append(pids, c)
      /\ pc' = IF i = Len(line.cmds) THEN "close" ELSE "fork"
      /\ UNCHANGED <<line, pipes, background, buf, shown>>

ClosePipes == ends' = [ends EXCEPT ![Shell] = @ \ Ends(ToSet(pipes))]

\* Mutant: the pipes stay open.
GiveUp_KeepsPipes ==
  /\ pc = "fork" /\ pc' = "reap"
  /\ pids' = <<>> /\ pipes' = <<>>
  /\ UNCHANGED <<line, background, child, ends, buf, shown>>

\* A fork fails, or the next command has no words, when others already run: they are
\* neither waited for nor in the list of the background.
GiveUp ==
  /\ pc = "fork" /\ pc' = "reap"
  /\ ClosePipes
  /\ pids' = <<>> /\ pipes' = <<>>
  /\ UNCHANGED <<line, background, child, buf, shown>>

\* add_background_pid: what does not fit is left out.
Added(list, new) == SubSeq(list \o new, 1, Min({MAX_BACKGROUND_PROCS, Len(list \o new)}))

\* Mutant: the shell waits with the pipes open.
AllForked_KeepsPipes ==
  /\ pc = "close"
  /\ IF line.wait
       THEN pc' = "wait" /\ UNCHANGED <<pids, background>>
       ELSE pc' = "reap" /\ pids' = <<>> /\ background' = Added(background, pids)
  /\ pipes' = <<>>
  /\ UNCHANGED <<line, child, ends, buf, shown>>

\* After the last fork.
AllForked ==
  /\ pc = "close"
  /\ ClosePipes
  /\ IF line.wait
       THEN pc' = "wait" /\ UNCHANGED <<pids, background>>
       ELSE pc' = "reap" /\ pids' = <<>> /\ background' = Added(background, pids)
  /\ pipes' = <<>>
  /\ UNCHANGED <<line, child, buf, shown>>

\* waitpid of the next process, and the end of the loop.
WaitOne ==
  /\ pc = "wait" /\ pids # <<>> /\ Zombie(Head(pids))
  /\ child' = [child EXCEPT ![Head(pids)] = Free]
  /\ pids' = Tail(pids)
  /\ UNCHANGED <<pc, line, pipes, background, ends, buf, shown>>

WaitDone ==
  /\ pc = "wait" /\ pids = <<>>
  /\ pc' = "reap"
  /\ UNCHANGED <<line, pipes, pids, background, child, ends, buf, shown>>

------------------------------------------------------------------------------
(* The processes *)

Running(c) == child[c].st = "running"

\* The child of execute_pipeline: dup2 of its two ends, and all pipes of the line closed.
Setup(c) ==
  /\ child[c].st = "setup"
  /\ child' = [child EXCEPT ![c].st = "running", ![c].close = {}]
  /\ ends' = [ends EXCEPT ![c] =
                (@ \ Ends(child[c].close))
                \cup { e \in {<<child[c].in, "r">>, <<child[c].out, "w">>} : e[1] # TTY }]
  /\ UNCHANGED <<shell, buf, shown>>

HasEnd(p, side) == \E q \in DOMAIN ends : <<p, side>> \in ends[q]

\* A pipe goes with the last of its ends.
Dies(c) ==
  /\ child' = [child EXCEPT ![c] = [st |-> "zombie"]]
  /\ ends' = [ends EXCEPT ![c] = {}]
  /\ buf' = [p \in PipeIds |->
               IF \E q \in DOMAIN ends \ {c} : ends[q] \cap Ends({p}) # {} THEN buf[p] ELSE 0]

Show(c) ==
  /\ Running(c) /\ child[c].todo > 0 /\ child[c].out = TTY
  /\ child' = [child EXCEPT ![c].todo = @ - 1]
  /\ shown' = IF c \in ToSet(pids) THEN shown + 1 ELSE shown
  /\ UNCHANGED <<shell, ends, buf>>

\* A write to a pipe waits for room, and kills when nobody can read.
Put(c) ==
  LET p == child[c].out IN
  /\ Running(c) /\ child[c].todo > 0 /\ p # TTY
  /\ IF HasEnd(p, "r")
       THEN /\ buf[p] < PipeSize
            /\ buf' = [buf EXCEPT ![p] = @ + 1]
            /\ child' = [child EXCEPT ![c].todo = @ - 1]
            /\ ends' = ends
       ELSE Dies(c)
  /\ UNCHANGED <<shell, shown>>

Get(c) ==
  LET p == child[c].in IN
  /\ Running(c) /\ child[c].prog = "cat" /\ child[c].todo = 0
  /\ p # TTY /\ buf[p] > 0
  /\ buf' = [buf EXCEPT ![p] = @ - 1]
  /\ child' = [child EXCEPT ![c].todo = 1]
  /\ UNCHANGED <<shell, ends, shown>>

\* The program is over: a cat when its input is empty and nobody can write to it.
Finish(c) ==
  /\ Running(c) /\ child[c].todo = 0
  /\ child[c].prog = "cat" => buf[child[c].in] = 0 /\ ~HasEnd(child[c].in, "w")
  /\ Dies(c)
  /\ UNCHANGED <<shell, shown>>

------------------------------------------------------------------------------

ShellStep ==
  \/ ReapOne \/ Reaped \/ MakePipe \/ PipeFails \/ Fork \/ GiveUp
  \/ AllForked \/ WaitOne \/ WaitDone

ChildStep(c) == Setup(c) \/ Show(c) \/ Put(c) \/ Get(c) \/ Finish(c)

Next == ShellStep \/ ReadLine \/ EndOfInput \/ \E c \in Pids : ChildStep(c)

Spec == Init /\ [][Next]_vars

\* Every process is scheduled again and again; nothing is asked of the user.
FairSpec == Spec /\ WF_vars(ShellStep) /\ \A c \in Pids : WF_vars(ChildStep(c))

------------------------------------------------------------------------------

\* A number in background_pids is that of a process of the shell that has not been
\* reaped, and is there once: it cannot be that of another process.
BackgroundIsOurs ==
  /\ ToSet(background) \subseteq Unreaped /\ IsInjective(background)
  /\ Len(background) <= MAX_BACKGROUND_PROCS

\* A foreground pipeline of commands that run to their end has sent everything through
\* all its pipes when the shell has waited for it.
AllDelivered ==
  pc = "wait" /\ pids = <<>> /\ line.cmds[1] = "gen" /\ ToSet(Tail(line.cmds)) \subseteq {"cat"}
    => shown = Units

\* The shell comes back from every line, whatever fails on the way.
PromptReturns ==
  pc \in {"pipe", "fork", "wait"} ~> pc = "prompt"

\* Every process of a pipeline ends, of one in the background or given up too: nobody
\* keeps open an end of a pipe that another waits on.
ProcessesEnd ==
  \A c \in Pids : child[c].st = "setup" ~> child[c].st \in {"zombie", "free"}

\* The shell and the processes it makes always come to their end, or back to the prompt.
LinesEnd == PromptReturns /\ ProcessesEnd

=============================================================================
