------------------------------- MODULE MCInodes -------------------------------
(***************************************************************************)
(* An instance of Inodes for TLC: one process works in a directory /a that *)
(* the other makes and removes.                                            *)
(***************************************************************************)
EXTENDS Inodes

CONSTANTS p1, p2

RootPath == [abs |-> TRUE, names |-> <<>>]
A == [abs |-> TRUE, names |-> <<"a">>]
AB == [abs |-> TRUE, names |-> <<"a", "b">>]
B == [abs |-> FALSE, names |-> <<"b">>]

On(op, paths) == { [op |-> op, path |-> path, new |-> NoPath] : path \in paths }

\* What p1 does below its directory, and p2 from the root.
Below ==
  On("chdir", {A, B, RootPath}) \cup On("create", {B}) \cup On("mkdir", {B})
  \cup On("unlink", {B}) \cup On("open", {A})
Above ==
  On("mkdir", {A}) \cup On("unlink", {A, AB}) \cup On("create", {AB})
  \cup {[op |-> "link", path |-> AB, new |-> B]}

CallsOf == p1 :> Below @@ p2 :> Above

==============================================================================
