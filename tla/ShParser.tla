------------------------------ MODULE ShParser ------------------------------
(***************************************************************************)
(* The parser of the xv6 shell (user/sh.c): recursive descent over a line  *)
(* of characters, and what the commands it makes mean by precedence.       *)
(*                                                                         *)
(* A parser takes the position it is at and gives the next one and the     *)
(* command; ok is FALSE once it has panicked.  A word is the pair of its   *)
(* ends, q and eq.                                                         *)
(***************************************************************************)
EXTENDS Integers, FiniteSets, FiniteSetsExt, SequencesExt

CONSTANTS
  MAXARGS,
  MaxLine   \* bound: characters of a line

Whitespace == {" "}
Symbols == {"<", "|", ">", "&", ";", "(", ")"}
Chars == {"a"} \cup Whitespace \cup Symbols   \* "a" is any other character

VARIABLE text   \* the line typed so far

ParserInit == text = <<>>
ParserNext == Len(text) < MaxLine /\ \E c \in Chars : text' = Append(text, c)
ParserSpec == ParserInit /\ [][ParserNext]_text

es == Len(text) + 1
Char(s) == IF s < es THEN text[s] ELSE ""

------------------------------------------------------------------------------
(* the commands *)

execcmd(argv) == [type |-> "EXEC", argv |-> argv]
redircmd(subcmd, mode, file) == [type |-> "REDIR", cmd |-> subcmd, mode |-> mode, file |-> file]
pipecmd(left, right) == [type |-> "PIPE", left |-> left, right |-> right]
listcmd(left, right) == [type |-> "LIST", left |-> left, right |-> right]
backcmd(subcmd) == [type |-> "BACK", cmd |-> subcmd]
none == [type |-> "none"]

------------------------------------------------------------------------------
(* gettoken and peek *)

\* The first character from s on that is not in the set C.
Past(s, C) == Min({ t \in s .. es : Char(t) \notin C })

Skip(s) == Past(s, Whitespace)

\* Mutant: >> is two tokens.
Wide_Never(s) == FALSE

\* The two characters >>.
Wide(s) == Char(s) = ">" /\ Char(s + 1) = ">"

\* Where the token that begins at q ends.
TokenEnd(q) ==
  IF Char(q) = "" THEN q
  ELSE IF Wide(q) THEN q + 2
  ELSE IF Char(q) \in Symbols THEN q + 1
  ELSE Past(q, Chars \ (Whitespace \cup Symbols))

Token(q, eq) == [tok |-> IF Wide(q) THEN "+" ELSE Char(q), word |-> <<q, eq>>, s |-> Skip(eq)]
TokenAt(q) == Token(q, TokenEnd(q))
gettoken(ps) == TokenAt(Skip(ps))

peek(ps, toks) == Char(Skip(ps)) \in toks

------------------------------------------------------------------------------
(* the recursive descent *)

Result(s, cmd) == [s |-> s, cmd |-> cmd, ok |-> TRUE]
Panicked(r) == [r EXCEPT !.ok = FALSE]

\* What follows a parser's result, unless it panicked.
Then(r, Op(_)) == IF r.ok THEN Op(r) ELSE r

RECURSIVE parseline(_), parsepipe(_), parseredirs(_), Backs(_), Args(_, _)

parseredirs(r) ==
  LET redirect(tok, file) ==
        IF file.tok # "a" THEN Panicked(r)
        ELSE parseredirs([r EXCEPT !.s = file.s, !.cmd = redircmd(@, tok.tok, file.word)])
      after(tok) == redirect(tok, gettoken(tok.s))
  IN IF ~r.ok \/ ~peek(r.s, {"<", ">"}) THEN r ELSE after(gettoken(r.s))

\* The loop of parseexec; the execcmd is inside the redirections made so far, so its
\* words are kept beside them.
Args(r, argv) ==
  LET add(t) ==
        IF t.tok # "a" \/ Len(argv) + 1 >= MAXARGS THEN [r |-> Panicked(r), argv |-> argv]
        ELSE Args(parseredirs([r EXCEPT !.s = t.s]), Append(argv, t.word))
  IN IF ~r.ok \/ peek(r.s, {"|", ")", "&", ";", ""}) THEN [r |-> r, argv |-> argv]
     ELSE add(gettoken(r.s))

RECURSIVE WithArgs(_, _)
WithArgs(cmd, argv) ==
  IF cmd.type = "EXEC" THEN execcmd(argv) ELSE [cmd EXCEPT !.cmd = WithArgs(@, argv)]

parseblock(ps) ==
  LET after(t) == IF peek(t.s, {")"}) THEN parseredirs([t EXCEPT !.s = gettoken(@).s])
                  ELSE Panicked(t)
  IN Then(parseline(gettoken(ps).s), after)

parseexec(ps) ==
  IF peek(ps, {"("}) THEN parseblock(ps)
  ELSE LET whole(a) == [a.r EXCEPT !.cmd = WithArgs(@, a.argv)]
       IN whole(Args(parseredirs(Result(Skip(ps), execcmd(<<>>))), <<>>))

parsepipe(ps) ==
  LET both(left, right) == [right EXCEPT !.cmd = pipecmd(left, @)]
      more(r) == IF peek(r.s, {"|"}) THEN both(r.cmd, parsepipe(gettoken(r.s).s)) ELSE r
  IN Then(parseexec(ps), more)

Backs(r) ==
  IF r.ok /\ peek(r.s, {"&"})
  THEN Backs([r EXCEPT !.s = gettoken(@).s, !.cmd = backcmd(@)]) ELSE r

parseline(ps) ==
  LET both(left, right) == [right EXCEPT !.cmd = listcmd(left, @)]
      more(r) == IF peek(r.s, {";"}) THEN both(r.cmd, parseline(gettoken(r.s).s)) ELSE r
  IN Then(Backs(parsepipe(ps)), more)

\* none is a line that parsecmd refuses.
parsecmd ==
  LET whole(r) == IF r.ok /\ Skip(r.s) = es THEN r.cmd ELSE none IN whole(parseline(1))

\* nulterminate: where it puts the zeroes that end the words.
RECURSIVE nulterminate(_)
nulterminate(cmd) ==
  CASE cmd.type = "EXEC" -> { cmd.argv[i][2] : i \in DOMAIN cmd.argv }
    [] cmd.type = "REDIR" -> nulterminate(cmd.cmd) \cup {cmd.file[2]}
    [] cmd.type \in {"PIPE", "LIST"} -> nulterminate(cmd.left) \cup nulterminate(cmd.right)
    [] cmd.type = "BACK" -> nulterminate(cmd.cmd)
    [] OTHER -> {}

------------------------------------------------------------------------------
(* What a line means: ; binds least, then &, then |, and parentheses group. *)

Words == Chars \ (Whitespace \cup Symbols)

\* A token begins at i: a symbol that is not the second half of a >>, or a word.
Begins(i) ==
  \/ text[i] \in Symbols \ {">"}
  \/ text[i] = ">" /\ (i - Max({ j \in 0 .. i : j = 0 \/ Char(j) # ">" }) - 1) % 2 = 0
  \/ text[i] \in Words /\ (i = 1 \/ Char(i - 1) \notin Words)

Tokens ==
  LET starts == { i \in DOMAIN text : Begins(i) }
      end(i) == IF text[i] \in Words THEN Min({ j \in i .. es : Char(j) \notin Words })
                ELSE IF text[i] = ">" /\ Char(i + 1) = ">" THEN i + 2 ELSE i + 1
      token(i) == [tok |-> IF end(i) = i + 2 /\ text[i] = ">" THEN "+" ELSE text[i],
                   word |-> <<i, end(i)>>]
      nth(k) == CHOOSE i \in starts : Cardinality({ j \in starts : j <= i }) = k
  IN [k \in 1 .. Cardinality(starts) |-> token(nth(k))]

\* How deep in parentheses the k-th token is, and where tokens c stand outside of them.
Depth(t, k) ==
  Cardinality({ j \in 1 .. k : t[j].tok = "(" }) - Cardinality({ j \in 1 .. k : t[j].tok = ")" })
Outside(t, c) == { k \in DOMAIN t : t[k].tok = c /\ Depth(t, k) = 0 }

\* A command made of others is none when one of them is.
Over(c, Make(_)) == IF c = none THEN none ELSE Make(c)
Both(l, r, Make(_, _)) == IF l = none \/ r = none THEN none ELSE Make(l, r)
Redirs == {"<", ">", "+"}

RECURSIVE Line(_), Back(_), Pipe(_), Simple(_), Redirected(_, _)

Line(t) ==
  LET cut(k) == Both(Back(SubSeq(t, 1, k - 1)), Line(SubSeq(t, k + 1, Len(t))), listcmd)
  IN IF Outside(t, ";") = {} THEN Back(t) ELSE cut(Min(Outside(t, ";")))

Back(t) ==
  IF t # <<>> /\ Last(t).tok = "&" THEN Over(Back(Front(t)), backcmd) ELSE Pipe(t)

Pipe(t) ==
  LET cut(k) == Both(Simple(SubSeq(t, 1, k - 1)), Pipe(SubSeq(t, k + 1, Len(t))), pipecmd)
  IN IF Outside(t, "|") = {} THEN Simple(t) ELSE cut(Min(Outside(t, "|")))

\* The command c with the redirections t.
Redirected(c, t) ==
  IF t = <<>> THEN c
  ELSE IF Len(t) < 2 \/ t[1].tok \notin Redirs \/ t[2].tok # "a" THEN none
  ELSE Redirected(redircmd(c, t[1].tok, t[2].word), SubSeq(t, 3, Len(t)))

Simple(t) ==
  IF t # <<>> /\ t[1].tok = "("
  THEN IF \A k \in DOMAIN t : Depth(t, k) # 0 THEN none
       ELSE LET group(k) == Over(Line(SubSeq(t, 2, k - 1)),
                                 LAMBDA c : Redirected(c, SubSeq(t, k + 1, Len(t))))
            IN group(Min({ j \in DOMAIN t : Depth(t, j) = 0 }))
  ELSE LET redir(k) == t[k].tok \in Redirs
           files == { k \in DOMAIN t : k > 1 /\ redir(k - 1) }
           words == { k \in DOMAIN t : t[k].tok = "a" /\ k \notin files }
           pick(S) == [i \in 1 .. Cardinality(S) |->
                         t[CHOOSE k \in S : Cardinality({ j \in S : j <= k }) = i]]
           argv == pick(words)
       IN IF Len(argv) >= MAXARGS THEN none
          ELSE IF \E k \in DOMAIN t : k \notin files /\ ~redir(k) /\ t[k].tok # "a" THEN none
          ELSE Redirected(execcmd([i \in DOMAIN argv |-> argv[i].word]), pick(DOMAIN t \ words))

------------------------------------------------------------------------------
(* Properties *)

RECURSIVE WordsOf(_)
WordsOf(cmd) ==
  CASE cmd.type = "EXEC" -> Range(cmd.argv)
    [] cmd.type = "REDIR" -> WordsOf(cmd.cmd) \cup {cmd.file}
    [] cmd.type \in {"PIPE", "LIST"} -> WordsOf(cmd.left) \cup WordsOf(cmd.right)
    [] cmd.type = "BACK" -> WordsOf(cmd.cmd)
    [] OTHER -> {}

\* The parser accepts the lines that mean something and gives each its meaning: the
\* commands, nested by precedence and parentheses, with their words and redirections in
\* order, and every word ends where it was seen to end (parseline, parsepipe, parseexec,
\* parseblock, parseredirs, gettoken, nulterminate).
ParsesRight ==
  LET right(cmd, ends) ==
        /\ cmd = Line(Tokens)
        /\ \A w \in WordsOf(cmd) : w[2] = Min({ i \in ends : i >= w[1] })
  IN right(parsecmd, nulterminate(parsecmd) \cup {es})

==============================================================================
