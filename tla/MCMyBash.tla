------------------------------ MODULE MCMyBash ------------------------------
EXTENDS MyBash

Line(cmds, wait) == [cmds |-> cmds, wait |-> wait]

\* A pipeline of three, one in the background whose reader quits, one whose writer
\* quits, "gen |", "| gen", one that starts with a builtin, and single commands.
MCLines ==
  { Line(<<"gen", "cat", "cat">>, TRUE), Line(<<"gen", "quit">>, FALSE),
    Line(<<"quit", "cat">>, TRUE), Line(<<"gen", "empty">>, TRUE),
    Line(<<"empty", "gen">>, TRUE), Line(<<"cd", "cat">>, TRUE),
    Line(<<"gen">>, TRUE), Line(<<"exit">>, TRUE), Line(<<"empty">>, TRUE) }

=============================================================================
