------------------------------ MODULE MCConsole ------------------------------
(***************************************************************************)
(* One writer with more than fits the output buffer, another, and a reader.*)
(***************************************************************************)
EXTENDS Console

MCSay == [w \in Writers |-> IF w = "u" THEN <<"x", "y">> ELSE <<"z">>]

Silent == \A w \in Writers : said[w] = 0 /\ wpc[w] = "done"

\* Bound: nobody reads while others write, and two keys are pressed then.
MCNext == Next /\ (Silent \/ (UNCHANGED <<rpc, killed>> /\ keys' <= 2))

MCSpec == Init /\ [][MCNext]_vars /\ Fairness

==============================================================================
