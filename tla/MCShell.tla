------------------------------- MODULE MCShell -------------------------------
(***************************************************************************)
(* The shell for TLC: echo into cat through a pipe of one byte, and a list  *)
(* of echo in the background and cat on a file.                            *)
(***************************************************************************)
EXTENDS Shell

CONSTANT a

exec(p) == [type |-> "EXEC", prog |-> p]
pipeOf(l, r) == [type |-> "PIPE", left |-> l, right |-> r]
MCPipe == pipeOf(exec("echo"), exec("cat"))

MCCommands ==
  { MCPipe,
    [type |-> "LIST", left |-> [type |-> "BACK", cmd |-> exec("echo")],
     right |-> [type |-> "REDIR", fd |-> 0, cmd |-> exec("cat")]] }

MCArgs == <<<<a, a>>>>
MCBytes == {a}
MCNone == {}

==============================================================================
