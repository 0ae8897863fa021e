----------------------------- MODULE MyBashProofs -----------------------------
(***************************************************************************)
(* Theorems about mybash, for any lines, any numbers of processes, pipes   *)
(* and units, and any sizes of pipes and of the list of the background.    *)
(***************************************************************************)
EXTENDS MyBash, ListLemmas, FiniteSetTheorems

\* A process of a pipeline until it has ended.
Process ==
  [st : {"setup", "running"}, prog : Commands, close : SUBSET PipeIds,
   in : PipeIds \cup {TTY}, out : PipeIds \cup {TTY}, todo : Nat]

TypeOK ==
  /\ pc \in {"reap", "prompt", "pipe", "fork", "close", "wait", "exited", "aborted"}
  /\ line \in Lines \cup {NoLine}
  /\ pipes \in Seq(PipeIds) /\ pids \in Seq(Pids) /\ background \in Seq(Pids)
  /\ child \in [Pids -> {Free, [st |-> "zombie"]} \cup Process]
  /\ ends \in [{Shell} \cup Pids -> SUBSET Ends(PipeIds)]
  /\ buf \in [PipeIds -> Nat] /\ shown \in Nat

\* What execute_pipeline has made so far: a pipe between any two commands before the
\* first fork, a process for each command before the shell waits.
Progress ==
  /\ pc = "pipe" => Len(pipes) < Len(line.cmds) - 1
  /\ pc = "fork" => Len(pipes) = Len(line.cmds) - 1 /\ Len(pids) < Len(line.cmds)
  /\ pc \notin {"fork", "close", "wait"} => pids = <<>>
  /\ pc \notin {"pipe", "fork", "close"} => pipes = <<>>

\* The processes that the shell is to wait for have not been reaped and are not in the
\* background, and each is to be waited for once.
WaitedAreOurs ==
  /\ ToSet(pids) \subseteq Unreaped /\ IsInjective(pids)
  /\ ToSet(pids) \cap ToSet(background) = {}

IInv == TypeOK /\ Progress /\ WaitedAreOurs /\ BackgroundIsOurs

------------------------------------------------------------------------------

\* What add_background_pid makes of the two lists.
LEMMA AddedGives ==
  ASSUME NEW S, NEW list \in Seq(S), NEW new \in Seq(S),
         IsInjective(list), IsInjective(new), ToSet(list) \cap ToSet(new) = {}
  PROVE  /\ Added(list, new) \in Seq(S) /\ Len(Added(list, new)) <= MAX_BACKGROUND_PROCS
         /\ IsInjective(Added(list, new))
         /\ ToSet(Added(list, new)) \subseteq ToSet(list) \cup ToSet(new)
<1> DEFINE both == list \o new
           n == IF MAX_BACKGROUND_PROCS <= Len(both) THEN MAX_BACKGROUND_PROCS ELSE Len(both)
           t == SubSeq(both, 1, n)
<1>1. /\ Len(list) \in Nat /\ DOMAIN list = 1..Len(list)
      /\ Len(new) \in Nat /\ DOMAIN new = 1..Len(new)
  BY LenProperties
<1>2. /\ both \in Seq(S) /\ Len(both) = Len(list) + Len(new)
      /\ \A k \in 1..Len(list) + Len(new) :
           both[k] = IF k <= Len(list) THEN list[k] ELSE new[k - Len(list)]
  BY ConcatProperties
<1> HIDE DEF both
<1>3. Len(both) \in Nat /\ MAX_BACKGROUND_PROCS \in Nat
  BY <1>1, <1>2, BashAssumption
<1>4. Added(list, new) = t
  BY <1>3, MinOfTwo DEF Added, both
<1>5. n \in Nat /\ n <= Len(both) /\ n <= MAX_BACKGROUND_PROCS
  BY <1>3
<1> HIDE DEF n
<1>6. t \in Seq(S) /\ Len(t) = n /\ \A k \in 1..n : t[k] = both[k]
  <2>1. \A k \in 1..n : both[k] \in S
    BY <1>2, <1>3, <1>5, ElementOfSeq
  <2>2. 1 \in Int /\ n \in Int
    BY <1>5
  <2>3. /\ t \in Seq(S) /\ Len(t) = IF 1 <= n THEN n - 1 + 1 ELSE 0
        /\ \A k \in 1..(n - 1 + 1) : t[k] = both[1 + k - 1]
    BY <2>1, <2>2, SubSeqProperties
  <2> QED
    BY <1>5, <2>3
<1> HIDE DEF t
<1>7. DOMAIN t = 1..n
  BY <1>6, LenProperties
<1>8. \A k \in 1..n : \/ k \in DOMAIN list /\ t[k] = list[k]
                      \/ /\ k > Len(list) /\ k - Len(list) \in DOMAIN new
                         /\ t[k] = new[k - Len(list)]
  <2> SUFFICES ASSUME NEW k \in 1..n
               PROVE  \/ k \in DOMAIN list /\ t[k] = list[k]
                      \/ /\ k > Len(list) /\ k - Len(list) \in DOMAIN new
                         /\ t[k] = new[k - Len(list)]
    OBVIOUS
  <2>1. t[k] = IF k <= Len(list) THEN list[k] ELSE new[k - Len(list)]
    BY <1>1, <1>2, <1>5, <1>6
  <2>2. CASE k <= Len(list)
    BY <1>1, <1>5, <2>1, <2>2
  <2>3. CASE k > Len(list)
    BY <1>1, <1>2, <1>5, <2>1, <2>3
  <2> QED
    BY <1>1, <1>5, <2>2, <2>3
<1>9. ToSet(t) \subseteq ToSet(list) \cup ToSet(new)
  BY <1>7, <1>8 DEF ToSet
<1>10. IsInjective(t)
  <2> SUFFICES ASSUME NEW j \in 1..n, NEW k \in 1..n, t[j] = t[k] PROVE j = k
    BY <1>7 DEF IsInjective
  <2>1. \A i1 \in DOMAIN list, i2 \in DOMAIN new : list[i1] # new[i2]
    BY DEF ToSet
  <2>2. CASE j \in DOMAIN list /\ t[j] = list[j] /\ k \in DOMAIN list /\ t[k] = list[k]
    BY <2>2 DEF IsInjective
  <2>3. CASE /\ j > Len(list) /\ j - Len(list) \in DOMAIN new /\ t[j] = new[j - Len(list)]
             /\ k > Len(list) /\ k - Len(list) \in DOMAIN new /\ t[k] = new[k - Len(list)]
    <3>1. j - Len(list) = k - Len(list)
      BY <2>3 DEF IsInjective
    <3> QED
      BY <1>1, <1>5, <3>1
  <2> QED
    BY <1>8, <2>1, <2>2, <2>3
<1> QED
  BY <1>4, <1>5, <1>6, <1>9, <1>10

------------------------------------------------------------------------------

LEMMA LineParts ==
  ASSUME TypeOK
  PROVE  /\ line.cmds \in Seq(Commands) /\ Len(line.cmds) \in Nat \ {0}
         /\ \A i \in 1..Len(line.cmds) : line.cmds[i] \in Commands
<1>1. line.cmds \in Seq(Commands) /\ line.cmds # <<>>
  <2>1. CASE line \in Lines
    BY <2>1, BashAssumption
  <2>2. CASE line = NoLine
    <3>1. "empty" \in Commands
      BY DEF Commands
    <3>2. line.cmds = <<"empty">>
      BY <2>2 DEF NoLine
    <3> QED
      BY <3>1, <3>2
  <2> QED
    BY <2>1, <2>2 DEF TypeOK
<1> QED
  BY <1>1, EmptySeq, LenProperties, ElementOfSeq

\* A pipe that nobody has open, and a process that is not one yet, can be found.
LEMMA NewOnes ==
  /\ Unused # {} => Min(Unused) \in PipeIds
  /\ Unreaped # Pids => Min(Pids \ Unreaped) \in Pids \ Unreaped
<1>1. Unused \in SUBSET Nat /\ Unused \subseteq PipeIds
  BY BashAssumption DEF Unused
<1>2. Pids \ Unreaped \in SUBSET Nat /\ (Unreaped # Pids => Pids \ Unreaped # {})
  BY BashAssumption DEF Unreaped
<1> QED
  BY <1>1, <1>2, MinIn

\* The process that a fork makes.
LEMMA NewChildType ==
  ASSUME TypeOK, Progress, pc = "fork"
  PROVE  /\ NewChild(Len(pids) + 1) \in Process
         /\ NewChild(Len(pids) + 1).st = "setup"
<1> DEFINE i == Len(pids) + 1
<1>1. /\ Len(pids) \in Nat /\ Len(pipes) = Len(line.cmds) - 1 /\ Len(pids) < Len(line.cmds)
      /\ DOMAIN pipes = 1..Len(pipes) /\ Len(pipes) \in Nat
  BY LenProperties DEF TypeOK, Progress
<1>2. i \in 1..Len(line.cmds) /\ line.cmds[i] \in Commands
  BY <1>1, LineParts
<1>3. \A k \in 1..Len(pipes) : pipes[k] \in PipeIds
  BY ElementOfSeq DEF TypeOK
<1>4. i > 1 => pipes[i - 1] \in PipeIds
  BY <1>1, <1>2, <1>3
<1>5. i < Len(line.cmds) => pipes[i] \in PipeIds
  BY <1>1, <1>2, <1>3, LineParts
<1>6. ToSet(pipes) \subseteq PipeIds
  BY <1>1, <1>3 DEF ToSet
<1>7. Units \in Nat
  BY BashAssumption
<1> HIDE DEF i
<1>8. NewChild(i) \in Process /\ NewChild(i).st = "setup"
  BY <1>2, <1>4, <1>5, <1>6, <1>7 DEF NewChild, Process, TTY
<1> QED
  BY <1>8 DEF i

\* The processes that have not been reaped, and everything of the shell, stay as they are.
SameFamily ==
  /\ TypeOK'
  /\ Unreaped' = Unreaped
  /\ UNCHANGED shell

\* A step of a process of the shell: it takes nothing out of the family, its end included.
LEMMA ChildSteps ==
  ASSUME TypeOK, NEW c \in Pids, ChildStep(c)
  PROVE  SameFamily
<1> DEFINE Kinds == {Free, [st |-> "zombie"]} \cup Process
<1>1. /\ child \in [Pids -> Kinds] /\ ends \in [{Shell} \cup Pids -> SUBSET Ends(PipeIds)]
      /\ buf \in [PipeIds -> Nat] /\ shown \in Nat
  BY DEF TypeOK
<1>2. child[c].st \in {"setup", "running"} => child[c] \in Process
  BY <1>1 DEF Free
<1>3. \A k \in Process : /\ k.in \in PipeIds \cup {TTY} /\ k.out \in PipeIds \cup {TTY}
                         /\ k.todo \in Nat /\ k.st # "free"
                         /\ \A m \in Nat : [k EXCEPT !.todo = m] \in Process
                         /\ [k EXCEPT !.st = "running", !.close = {}] \in Process
  BY DEF Process
<1>4. child[c].st \in {"setup", "running"} => child[c] # Free
  BY DEF Free
<1>5. \A k \in Process : k # Free
  <2> SUFFICES ASSUME NEW k \in Process, k = Free PROVE FALSE
    OBVIOUS
  <2>1. k.st = "free"
    BY DEF Free
  <2> QED
    BY <1>3, <2>1
<1>6. [st |-> "zombie"] # Free
  BY DEF Free
<1> DEFINE Effect ==
      /\ \E k \in Kinds \ {Free} : child' = [child EXCEPT ![c] = k]
      /\ ends' \in [{Shell} \cup Pids -> SUBSET Ends(PipeIds)]
      /\ buf' \in [PipeIds -> Nat] /\ shown' \in Nat
      /\ UNCHANGED shell /\ child[c] # Free
<1>7. Effect => SameFamily
  <2> SUFFICES ASSUME Effect PROVE SameFamily
    OBVIOUS
  <2>1. child' \in [Pids -> Kinds] /\ Unreaped' = Unreaped
    BY <1>1 DEF Unreaped
  <2> QED
    BY <2>1 DEF SameFamily, TypeOK, shell
<1>8. Dies(c) /\ UNCHANGED <<shell, shown>> /\ Running(c) => Effect
  <2> SUFFICES ASSUME Dies(c), UNCHANGED <<shell, shown>>, Running(c) PROVE Effect
    OBVIOUS
  <2>1. [st |-> "zombie"] \in Kinds \ {Free} /\ child' = [child EXCEPT ![c] = [st |-> "zombie"]]
    BY <1>6 DEF Dies
  <2>2. ends' \in [{Shell} \cup Pids -> SUBSET Ends(PipeIds)]
    BY <1>1 DEF Dies
  <2>3. buf' \in [PipeIds -> Nat]
    BY <1>1 DEF Dies
  <2> QED
    BY <1>1, <1>4, <2>1, <2>2, <2>3 DEF Running
<1>9. CASE Setup(c)
  <2>1. child[c] \in Process /\ child[c] # Free
    BY <1>2, <1>4, <1>9 DEF Setup
  <2>2. child' = [child EXCEPT ![c] = [child[c] EXCEPT !.st = "running", !.close = {}]]
    BY <1>1, <1>9 DEF Setup
  <2>3. [child[c] EXCEPT !.st = "running", !.close = {}] \in Kinds \ {Free}
    BY <1>3, <1>5, <2>1
  <2>4. { e \in {<<child[c].in, "r">>, <<child[c].out, "w">>} : e[1] # TTY }
          \subseteq Ends(PipeIds)
    <3>1. child[c].in \in PipeIds \cup {TTY} /\ child[c].out \in PipeIds \cup {TTY}
      BY <1>3, <2>1
    <3>2. \A p \in PipeIds : <<p, "r">> \in Ends(PipeIds) /\ <<p, "w">> \in Ends(PipeIds)
      BY DEF Ends
    <3>3. \A p \in PipeIds \cup {TTY}, x \in {"r", "w"} :
            <<p, x>>[1] # TTY => p \in PipeIds
      OBVIOUS
    <3> QED
      BY <3>1, <3>2, <3>3
  <2>5. ends' \in [{Shell} \cup Pids -> SUBSET Ends(PipeIds)]
    BY <1>1, <1>9, <2>4 DEF Setup
  <2>6. Effect
    BY <1>1, <1>9, <2>1, <2>2, <2>3, <2>5 DEF Setup
  <2> QED
    BY <1>7, <2>6
<1>10. CASE Show(c)
  <2>1. child[c] \in Process /\ child[c] # Free /\ child[c].todo - 1 \in Nat
    <3>1. child[c].st = "running" /\ child[c].todo > 0
      BY <1>10 DEF Show, Running
    <3>2. child[c] \in Process /\ child[c] # Free
      BY <1>2, <1>4, <3>1
    <3>3. child[c].todo \in Nat
      BY <1>3, <3>2
    <3> QED
      BY <3>1, <3>2, <3>3
  <2>2. child' = [child EXCEPT ![c] = [child[c] EXCEPT !.todo = child[c].todo - 1]]
    BY <1>1, <1>10 DEF Show
  <2>3. [child[c] EXCEPT !.todo = child[c].todo - 1] \in Kinds \ {Free}
    BY <1>3, <1>5, <2>1
  <2>4. shown' \in Nat
    BY <1>1, <1>10 DEF Show
  <2>5. Effect
    BY <1>1, <1>10, <2>1, <2>2, <2>3, <2>4 DEF Show
  <2> QED
    BY <1>7, <2>5
<1>11. CASE Put(c)
  <2>1. /\ child[c] \in Process /\ child[c] # Free /\ child[c].todo - 1 \in Nat
        /\ child[c].out \in PipeIds
    <3>1. child[c].st = "running" /\ child[c].todo > 0 /\ child[c].out # TTY
      BY <1>11 DEF Put, Running
    <3>2. child[c] \in Process /\ child[c] # Free
      BY <1>2, <1>4, <3>1
    <3>3. child[c].todo \in Nat /\ child[c].out \in PipeIds \cup {TTY}
      BY <1>3, <3>2
    <3> QED
      BY <3>1, <3>2, <3>3
  <2>2. CASE Dies(c)
    BY <1>7, <1>8, <1>11, <2>2 DEF Put
  <2>3. CASE ~Dies(c)
    <3>1. /\ buf' = [buf EXCEPT ![child[c].out] = @ + 1] /\ UNCHANGED <<ends, shell, shown>>
          /\ child' = [child EXCEPT ![c].todo = @ - 1]
      BY <1>11, <2>3 DEF Put
    <3>2. child' = [child EXCEPT ![c] = [child[c] EXCEPT !.todo = child[c].todo - 1]]
      BY <1>1, <3>1
    <3>3. [child[c] EXCEPT !.todo = child[c].todo - 1] \in Kinds \ {Free}
      BY <1>3, <1>5, <2>1
    <3>4. buf' \in [PipeIds -> Nat]
      BY <1>1, <2>1, <3>1
    <3>5. Effect
      BY <1>1, <2>1, <3>1, <3>2, <3>3, <3>4
    <3> QED
      BY <1>7, <3>5
  <2> QED
    BY <2>2, <2>3
<1>12. CASE Get(c)
  <2>1. /\ child[c] \in Process /\ child[c] # Free /\ child[c].in \in PipeIds
        /\ buf[child[c].in] > 0
    BY <1>2, <1>3, <1>4, <1>12 DEF Get, Running
  <2>2. child' = [child EXCEPT ![c] = [child[c] EXCEPT !.todo = 1]]
    BY <1>1, <1>12 DEF Get
  <2>3. [child[c] EXCEPT !.todo = 1] \in Kinds \ {Free}
    BY <1>3, <1>5, <2>1
  <2>4. buf' \in [PipeIds -> Nat]
    BY <1>1, <1>12, <2>1 DEF Get
  <2>5. Effect
    BY <1>1, <1>12, <2>1, <2>2, <2>3, <2>4 DEF Get
  <2> QED
    BY <1>7, <2>5
<1>13. CASE Finish(c)
  BY <1>7, <1>8, <1>13 DEF Finish
<1> QED
  BY <1>9, <1>10, <1>11, <1>12, <1>13 DEF ChildStep

LEMMA InitHolds == Init => IInv
<1> SUFFICES ASSUME Init PROVE IInv
  OBVIOUS
<1>1. TypeOK
  BY EmptySeq DEF Init, TypeOK
<1>2. Progress
  BY DEF Init, Progress
<1>3. WaitedAreOurs /\ BackgroundIsOurs
  <2>1. pids = <<>> /\ background = <<>> /\ ToSet(<<>>) = {} /\ IsInjective(<<>>) /\ Len(<<>>) = 0
    BY EmptySeq DEF Init, ToSet, IsInjective
  <2> QED
    BY <2>1, BashAssumption DEF WaitedAreOurs, BackgroundIsOurs
<1> QED
  BY <1>1, <1>2, <1>3 DEF IInv

\* A turn of the loop of cleanup_zombies takes what it reaps out of the list, the only
\* place of it that its number has.
LEMMA ReapOneStep == IInv /\ ReapOne => IInv'
<1> SUFFICES ASSUME IInv, ReapOne PROVE IInv'
  OBVIOUS
<1> USE DEF IInv
<1>1. PICK c \in Pids : /\ Zombie(c) /\ child' = [child EXCEPT ![c] = Free]
                        /\ background' = RemoveFirst(background, c)
  BY DEF ReapOne
<1>2. pc = "reap" /\ UNCHANGED <<pc, line, pipes, pids, ends, buf, shown>> /\ pids = <<>>
  BY DEF ReapOne, Progress
<1>3. /\ background' \in Seq(Pids) /\ Len(background') <= Len(background)
      /\ IsInjective(background') /\ ToSet(background') \subseteq ToSet(background) \ {c}
  BY <1>1, RemoveFirstGives DEF TypeOK, BackgroundIsOurs
<1>4. Unreaped \ {c} \subseteq Unreaped'
  BY <1>1 DEF TypeOK, Unreaped
<1>5. TypeOK'
  BY <1>1, <1>2, <1>3 DEF TypeOK
<1>6. Progress'
  BY <1>2 DEF Progress
<1>7. BackgroundIsOurs'
  <2>1. Len(background') \in Nat /\ Len(background) \in Nat /\ MAX_BACKGROUND_PROCS \in Nat
    BY <1>3, LenProperties, BashAssumption DEF TypeOK
  <2> QED
    BY <1>3, <1>4, <2>1 DEF BackgroundIsOurs
<1>8. WaitedAreOurs'
  <2>1. ToSet(<<>>) = {} /\ IsInjective(<<>>)
    BY EmptySeq DEF ToSet, IsInjective
  <2> QED
    BY <1>2, <2>1 DEF WaitedAreOurs
<1> QED
  BY <1>5, <1>6, <1>7, <1>8

\* A fork's process has a number that nobody has: no entry of a list can mean it.
LEMMA ForkStep == IInv /\ Fork => IInv'
<1> SUFFICES ASSUME IInv, Fork PROVE IInv'
  OBVIOUS
<1> USE DEF IInv
<1> DEFINE i == Len(pids) + 1
           c == Min(Pids \ Unreaped)
<1>1. c \in Pids \ Unreaped
  BY NewOnes DEF Fork
<1>2. NewChild(i) \in Process /\ NewChild(i).st = "setup"
  BY NewChildType DEF Fork
<1>3. NewChild(i) # Free
  <2> HIDE DEF i
  <2>1. NewChild(i) = Free => NewChild(i).st = "free"
    BY DEF Free
  <2> QED
    BY <1>2, <2>1
<1>4. /\ pc = "fork" /\ child' = [child EXCEPT ![c] = NewChild(i)]
      /\ ends' = [ends EXCEPT ![c] = ends[Shell]] /\ pids' = Append(pids, c)
      /\ pc' = IF i = Len(line.cmds) THEN "close" ELSE "fork"
      /\ UNCHANGED <<line, pipes, background, buf, shown>>
  BY DEF Fork
<1>5. Len(pids) \in Nat /\ Len(line.cmds) \in Nat /\ Len(pids) < Len(line.cmds)
  BY <1>4, LineParts, LenProperties DEF TypeOK, Progress
<1> HIDE DEF c, i
<1>6. /\ pids' \in Seq(Pids) /\ Len(pids') = Len(pids) + 1
      /\ \A k \in 1..Len(pids) : pids'[k] = pids[k]
      /\ pids'[Len(pids) + 1] = c
  BY <1>1, <1>4, AppendProperties DEF TypeOK
<1>7. Unreaped' = Unreaped \cup {c}
  BY <1>1, <1>3, <1>4 DEF TypeOK, Unreaped
<1>8. TypeOK'
  <2>1. child' \in [Pids -> {Free, [st |-> "zombie"]} \cup Process]
    BY <1>1, <1>2, <1>4 DEF TypeOK
  <2>2. ends' \in [{Shell} \cup Pids -> SUBSET Ends(PipeIds)]
    BY <1>1, <1>4 DEF TypeOK
  <2> QED
    BY <1>4, <1>6, <2>1, <2>2 DEF TypeOK
<1>9. Progress'
  BY <1>4, <1>5, <1>6 DEF Progress, i
<1>10. DOMAIN pids = 1..Len(pids) /\ DOMAIN pids' = 1..(Len(pids) + 1)
  BY <1>6, LenProperties DEF TypeOK
<1>11. ToSet(pids') = ToSet(pids) \cup {c}
  BY <1>5, <1>6, <1>10 DEF ToSet
<1>12. IsInjective(pids')
  <2> SUFFICES ASSUME NEW j \in DOMAIN pids', NEW k \in DOMAIN pids', pids'[j] = pids'[k]
               PROVE  j = k
    BY DEF IsInjective
  <2>1. \A m \in 1..Len(pids) : pids[m] # c
    BY <1>1, <1>10 DEF WaitedAreOurs, ToSet
  <2>2. CASE j \in 1..Len(pids) /\ k \in 1..Len(pids)
    BY <1>6, <1>10, <2>2 DEF WaitedAreOurs, IsInjective
  <2>3. j \in 1..Len(pids) \/ j = Len(pids) + 1
    BY <1>5, <1>10
  <2>4. k \in 1..Len(pids) \/ k = Len(pids) + 1
    BY <1>5, <1>10
  <2> QED
    BY <1>6, <2>1, <2>2, <2>3, <2>4
<1>13. BackgroundIsOurs' /\ c \notin ToSet(background)
  BY <1>1, <1>4, <1>7 DEF BackgroundIsOurs
<1>14. WaitedAreOurs'
  BY <1>4, <1>7, <1>11, <1>12, <1>13 DEF WaitedAreOurs
<1> QED
  BY <1>8, <1>9, <1>13, <1>14

\* The shell goes on to wait for all of them, or puts what fits of them into the list.
LEMMA AllForkedStep == IInv /\ AllForked => IInv'
<1> SUFFICES ASSUME IInv, AllForked PROVE IInv'
  OBVIOUS
<1> USE DEF IInv
<1>1. /\ pc = "close" /\ pipes' = <<>> /\ UNCHANGED <<line, child, buf, shown>>
      /\ Unreaped' = Unreaped
  BY DEF AllForked, Unreaped
<1>2. ends' \in [{Shell} \cup Pids -> SUBSET Ends(PipeIds)]
  BY DEF AllForked, ClosePipes, TypeOK
<1>3. /\ <<>> \in Seq(PipeIds) /\ <<>> \in Seq(Pids)
      /\ ToSet(<<>>) = {} /\ IsInjective(<<>>)
  BY EmptySeq DEF ToSet, IsInjective
<1>4. CASE line.wait
  <2>1. pc' = "wait" /\ UNCHANGED <<pids, background>>
    BY <1>4 DEF AllForked
  <2> QED
    BY <1>1, <1>2, <1>3, <2>1 DEF TypeOK, Progress, WaitedAreOurs, BackgroundIsOurs
<1>5. CASE ~line.wait
  <2>1. pc' = "reap" /\ pids' = <<>> /\ background' = Added(background, pids)
    BY <1>5 DEF AllForked
  <2>2. /\ background' \in Seq(Pids) /\ Len(background') <= MAX_BACKGROUND_PROCS
        /\ IsInjective(background')
        /\ ToSet(background') \subseteq ToSet(background) \cup ToSet(pids)
    <3>1. /\ background \in Seq(Pids) /\ pids \in Seq(Pids)
          /\ IsInjective(background) /\ IsInjective(pids)
          /\ ToSet(background) \cap ToSet(pids) = {}
      BY DEF TypeOK, WaitedAreOurs, BackgroundIsOurs
    <3> QED
      BY ONLY <2>1, <3>1, AddedGives
  <2>3. TypeOK'
    BY <1>1, <1>2, <1>3, <2>1, <2>2 DEF TypeOK
  <2>4. Progress'
    BY <1>1, <2>1 DEF Progress
  <2>5. WaitedAreOurs' /\ BackgroundIsOurs'
    BY <1>1, <1>3, <2>1, <2>2 DEF WaitedAreOurs, BackgroundIsOurs
  <2> QED
    BY <2>3, <2>4, <2>5
<1> QED
  BY <1>4, <1>5

\* The shell takes a process that has ended off those it waits for.
LEMMA WaitOneStep == IInv /\ WaitOne => IInv'
<1> SUFFICES ASSUME IInv, WaitOne PROVE IInv'
  OBVIOUS
<1> USE DEF IInv
<1> DEFINE c == Head(pids)
<1>1. /\ pc = "wait" /\ pids # <<>> /\ child' = [child EXCEPT ![c] = Free]
      /\ pids' = Tail(pids) /\ UNCHANGED <<pc, line, pipes, background, ends, buf, shown>>
  BY DEF WaitOne
<1>2. /\ c \in Pids /\ pids' \in Seq(Pids) /\ Len(pids') = Len(pids) - 1
      /\ \A k \in 1..Len(pids') : pids'[k] = pids[k + 1]
  BY <1>1, HeadTailProperties DEF TypeOK
<1>3. /\ Len(pids) \in Nat \ {0} /\ c = pids[1]
      /\ DOMAIN pids = 1..Len(pids) /\ DOMAIN pids' = 1..(Len(pids) - 1)
  BY <1>1, <1>2, EmptySeq, LenProperties DEF TypeOK
<1> HIDE DEF c
<1>4. Unreaped' = Unreaped \ {c}
  BY <1>1, <1>2 DEF TypeOK, Unreaped
<1>5. TypeOK' /\ Progress'
  <2>1. child' \in [Pids -> {Free, [st |-> "zombie"]} \cup Process]
    BY <1>1, <1>2 DEF TypeOK
  <2>2. TypeOK'
    BY <1>1, <1>2, <2>1 DEF TypeOK
  <2>3. Progress'
    BY <1>1 DEF Progress
  <2> QED
    BY <2>2, <2>3
<1>6. \A k \in 1..(Len(pids) - 1) : k + 1 \in DOMAIN pids /\ pids'[k] = pids[k + 1]
  BY <1>2, <1>3
<1>7. ToSet(pids') \subseteq ToSet(pids) \ {c}
  <2> SUFFICES ASSUME NEW k \in 1..(Len(pids) - 1) PROVE pids'[k] \in ToSet(pids) \ {c}
    BY <1>3 DEF ToSet
  <2>1. k + 1 # 1 /\ k + 1 \in DOMAIN pids /\ 1 \in DOMAIN pids
    BY <1>3, <1>6
  <2>2. pids[k + 1] # pids[1]
    BY <2>1 DEF WaitedAreOurs, IsInjective
  <2> QED
    BY <1>3, <1>6, <2>1, <2>2 DEF ToSet
<1>8. IsInjective(pids')
  <2> SUFFICES ASSUME NEW j \in 1..(Len(pids) - 1), NEW k \in 1..(Len(pids) - 1),
                      pids'[j] = pids'[k]
               PROVE  j = k
    BY <1>3 DEF IsInjective
  <2>1. j + 1 = k + 1
    BY <1>6 DEF WaitedAreOurs, IsInjective
  <2> QED
    BY <1>3, <2>1
<1>9. c \in ToSet(pids)
  BY <1>3 DEF ToSet
<1>10. WaitedAreOurs' /\ BackgroundIsOurs'
  BY <1>1, <1>4, <1>7, <1>8, <1>9 DEF WaitedAreOurs, BackgroundIsOurs
<1> QED
  BY <1>5, <1>10

\* The steps that make no process, take none away and put none in a list.
LEMMA QuietSteps ==
  ASSUME IInv, Reaped \/ ReadLine \/ EndOfInput \/ MakePipe \/ PipeFails \/ GiveUp \/ WaitDone
  PROVE  IInv'
<1> USE DEF IInv
<1> DEFINE Quiet == TypeOK' /\ Progress' /\ Unreaped' = Unreaped
                    /\ background' = background /\ pids' \in {pids, <<>>}
<1>1. Quiet => IInv'
  <2>1. ToSet(<<>>) = {} /\ IsInjective(<<>>)
    BY EmptySeq DEF ToSet, IsInjective
  <2> QED
    BY <2>1 DEF WaitedAreOurs, BackgroundIsOurs
<1>2. /\ <<>> \in Seq(PipeIds) /\ <<>> \in Seq(Pids) /\ Len(<<>>) = 0
      /\ Len(pipes) \in Nat /\ Len(pids) \in Nat
  BY EmptySeq, LenProperties DEF TypeOK
<1>3. \A to : ShellGoes(to) => ends' \in [{Shell} \cup Pids -> SUBSET Ends(PipeIds)]
  BY DEF ShellGoes, TypeOK
<1>4. CASE Reaped
  <2>1. TypeOK'
    BY <1>2, <1>4 DEF Reaped, TypeOK
  <2>2. Progress'
    BY <1>4 DEF Reaped, Progress
  <2> QED
    BY <1>1, <1>4, <2>1, <2>2 DEF Reaped, Unreaped
<1>5. CASE ReadLine
  <2>1. PICK l \in Lines : line' = l /\ ShellGoes(FirstStep(l.cmds))
    BY <1>5 DEF ReadLine
  <2>2. /\ pc = "prompt" /\ UNCHANGED <<pipes, pids, background, child, buf, shown>>
        /\ pids = <<>> /\ pipes = <<>>
    BY <1>5 DEF ReadLine, Progress
  <2>3. l.cmds \in Seq(Commands) /\ l.cmds # <<>> /\ Len(l.cmds) \in Nat \ {0}
    <3>1. l.cmds \in Seq(Commands) /\ l.cmds # <<>>
      BY BashAssumption
    <3> QED
      BY <3>1, EmptySeq, LenProperties
  <2>4. /\ pc' \in {"reap", "aborted", "exited", "fork", "pipe"}
        /\ pc' = "fork" => Len(l.cmds) = 1
        /\ pc' = "pipe" => Len(l.cmds) # 1
    BY <2>1 DEF ShellGoes, FirstStep
  <2>5. TypeOK'
    BY <1>3, <2>1, <2>2, <2>4 DEF TypeOK
  <2>6. Progress'
    <3>1. line' = l /\ pids' = <<>> /\ pipes' = <<>>
      BY <2>1, <2>2
    <3>2. pc' = "pipe" => 0 < Len(l.cmds) - 1
      <4>1. \A n \in Nat \ {0} : n # 1 => 0 < n - 1
        OBVIOUS
      <4> QED
        BY ONLY <2>3, <2>4, <4>1
    <3>3. pc' = "fork" => 0 = Len(l.cmds) - 1 /\ 0 < Len(l.cmds)
      BY <2>3, <2>4
    <3> QED
      BY <1>2, <2>4, <3>1, <3>2, <3>3 DEF Progress
  <2> QED
    BY <1>1, <2>2, <2>5, <2>6 DEF Unreaped
<1>6. CASE EndOfInput
  <2>1. pc' = "exited" /\ UNCHANGED <<line, pipes, pids, background, child, buf, shown>>
    BY <1>6 DEF EndOfInput, ShellGoes
  <2>2. pids = <<>> /\ pipes = <<>>
    BY <1>6 DEF EndOfInput, Progress
  <2>3. TypeOK'
    BY <1>3, <1>6, <2>1 DEF EndOfInput, TypeOK
  <2>4. Progress'
    BY <2>1, <2>2 DEF Progress
  <2> QED
    BY <1>1, <2>1, <2>3, <2>4 DEF Unreaped
<1>7. CASE MakePipe
  <2> DEFINE p == Min(Unused)
  <2>1. p \in PipeIds
    BY <1>7, NewOnes DEF MakePipe
  <2>2. /\ pc = "pipe" /\ pipes' = Append(pipes, p)
        /\ ends' = [ends EXCEPT ![Shell] = @ \cup Ends({p})]
        /\ buf' = [buf EXCEPT ![p] = 0]
        /\ pc' = IF Len(pipes) = Len(line.cmds) - 2 THEN "fork" ELSE "pipe"
        /\ UNCHANGED <<line, pids, background, child, shown>>
    BY <1>7 DEF MakePipe
  <2> HIDE DEF p
  <2>3. pids = <<>> /\ Len(pipes) < Len(line.cmds) - 1 /\ Len(line.cmds) \in Nat \ {0}
    BY <2>2, LineParts DEF Progress
  <2>4. pipes' \in Seq(PipeIds) /\ Len(pipes') = Len(pipes) + 1
    BY <2>1, <2>2, AppendProperties DEF TypeOK
  <2>5. TypeOK'
    <3>1. Ends({p}) \subseteq Ends(PipeIds)
      BY <2>1 DEF Ends
    <3>2. ends' \in [{Shell} \cup Pids -> SUBSET Ends(PipeIds)] /\ buf' \in [PipeIds -> Nat]
      BY <2>1, <2>2, <3>1 DEF TypeOK
    <3> QED
      BY <2>2, <2>4, <3>2 DEF TypeOK
  <2>6. Progress'
    BY <1>2, <2>2, <2>3, <2>4 DEF Progress
  <2> QED
    BY <1>1, <2>2, <2>5, <2>6 DEF Unreaped
<1>8. CASE PipeFails
  <2>1. TypeOK'
    BY <1>2, <1>8 DEF PipeFails, TypeOK
  <2>2. Progress'
    BY <1>8 DEF PipeFails, Progress
  <2> QED
    BY <1>1, <1>8, <2>1, <2>2 DEF PipeFails, Unreaped
<1>9. CASE GiveUp
  <2>1. TypeOK'
    BY <1>2, <1>9 DEF GiveUp, ClosePipes, TypeOK
  <2>2. Progress'
    BY <1>9 DEF GiveUp, Progress
  <2> QED
    BY <1>1, <1>9, <2>1, <2>2 DEF GiveUp, Unreaped
<1>10. CASE WaitDone
  <2>1. TypeOK'
    BY <1>10 DEF WaitDone, TypeOK
  <2>2. Progress'
    BY <1>10 DEF WaitDone, Progress
  <2> QED
    BY <1>1, <1>10, <2>1, <2>2 DEF WaitDone, Unreaped
<1> QED
  BY <1>4, <1>5, <1>6, <1>7, <1>8, <1>9, <1>10

LEMMA StepHolds == IInv /\ [Next]_vars => IInv'
<1> SUFFICES ASSUME IInv, [Next]_vars PROVE IInv'
  OBVIOUS
<1>1. SameFamily => IInv'
  BY DEF IInv, SameFamily, shell, Progress, WaitedAreOurs, BackgroundIsOurs
<1>2. CASE \E c \in Pids : ChildStep(c)
  BY <1>1, <1>2, ChildSteps DEF IInv
<1>3. CASE UNCHANGED vars
  BY <1>3 DEF vars, IInv, TypeOK, Progress, WaitedAreOurs, BackgroundIsOurs, Unreaped
<1> QED
  BY <1>2, <1>3, ReapOneStep, ForkStep, AllForkedStep, WaitOneStep, QuietSteps
  DEF Next, ShellStep

\* The inductive invariant, whatever lines the user types and whatever fails.
THEOREM Invariance == Spec => []IInv
BY InitHolds, StepHolds, PTL DEF Spec

\* Every variable has its type: no pipeline asks for a pipe or a process that is not there.
THEOREM TypeCorrect == Spec => []TypeOK
<1>1. IInv => TypeOK
  BY DEF IInv
<1> QED
  BY <1>1, Invariance, PTL

\* A number in background_pids is that of one process of the shell that has not been reaped,
\* so that the loop of cleanup_zombies takes off the list what it has reaped and nothing
\* else, and the list never outgrows its array.
THEOREM BackgroundOurs == Spec => []BackgroundIsOurs
<1>1. IInv => BackgroundIsOurs
  BY DEF IInv
<1> QED
  BY <1>1, Invariance, PTL

------------------------------------------------------------------------------
(* What a pipeline delivers *)

Alive(c) == child[c].st \in {"setup", "running"}

\* The pipes of the line: those that the shell has, and those that a process of it reads.
LinePipes ==
  ToSet(pipes) \cup ({ child[c].in : c \in { d \in ToSet(pids) : Alive(d) } } \ {TTY})

\* The ends that a process has open until it ends.
Grip(c) == { e \in {<<child[c].in, "r">>, <<child[c].out, "w">>} : e[1] # TTY }

\* Who has what open: nobody else has an end of a pipe of the line.
EndsRight ==
  /\ Ends(ToSet(pipes)) \subseteq ends[Shell]
  /\ \A c \in Pids : IF Alive(c) THEN Grip(c) \subseteq ends[c] ELSE ends[c] = {}
  /\ \A c \in Pids \ ToSet(pids) : ends[c] \cap Ends(LinePipes) = {}

Amounts ==
  /\ \A c \in Pids : Alive(c) => child[c].todo <= Units + 1
  /\ \A p \in PipeIds : buf[p] <= PipeSize

\* The lines that AllDelivered is about.
Copies == line.cmds[1] = "gen" /\ ToSet(Tail(line.cmds)) \subseteq {"cat"}

\* The processes of such a line while the shell has its pipes: no cat has ended.
Forked ==
  \A j \in DOMAIN pids :
    /\ j > 1 => Alive(pids[j])
    /\ Alive(pids[j]) =>
         LET k == child[pids[j]] IN
         /\ k.prog = IF j = 1 THEN "gen" ELSE "cat"
         /\ k.in = IF j > 1 THEN pipes[j - 1] ELSE TTY
         /\ k.out = IF j < Len(line.cmds) THEN pipes[j] ELSE TTY

\* While the shell waits: they end in their order, each writes to what the next reads.
Chained ==
  \A j \in DOMAIN pids :
    Alive(pids[j]) =>
      LET k == child[pids[j]] IN
      /\ k.prog = IF k.in = TTY THEN "gen" ELSE "cat"
      /\ IF j = Len(pids) THEN k.out = TTY
         ELSE k.out # TTY /\ Alive(pids[j + 1]) /\ child[pids[j + 1]].in = k.out

\* The units that processes of the line have, and those in its pipes.
InHands == { x \in Pids \X (1 .. Units + 1) :
               x[1] \in ToSet(pids) /\ Alive(x[1]) /\ x[2] <= child[x[1]].todo }
InPipes == { x \in PipeIds \X (1 .. PipeSize) : x[1] \in LinePipes /\ x[2] <= buf[x[1]] }

Conserved ==
  shown + Cardinality(InHands) + Cardinality(InPipes) =
    IF pids = <<>> /\ pc # "wait" THEN 0 ELSE Units

Flow ==
  /\ pc = "prompt" => shown = 0
  /\ pc = "close" => Len(pids) = Len(line.cmds) /\ Len(pipes) = Len(line.cmds) - 1
  /\ Copies => /\ pc \in {"fork", "close"} => Forked
               /\ pc = "wait" => Chained
               /\ pc \in {"pipe", "fork", "close", "wait"} => Conserved

Delivery == EndsRight /\ Amounts /\ Flow

LEMMA BashConstants ==
  /\ Shell \notin Pids /\ TTY \notin PipeIds /\ IsFiniteSet(Pids) /\ IsFiniteSet(PipeIds)
  /\ Units \in Nat /\ PipeSize \in Nat \ {0}
BY BashAssumption

LEMMA ChildFacts ==
  ASSUME TypeOK, NEW c \in Pids
  PROVE  /\ Alive(c) => /\ child[c] \in Process /\ child[c].todo \in Nat
                        /\ child[c].in \in PipeIds \cup {TTY}
                        /\ child[c].out \in PipeIds \cup {TTY}
         /\ child[c] = Free => ~Alive(c)
         /\ child[c] = [st |-> "zombie"] => ~Alive(c)
<1>1. child[c] \in {Free, [st |-> "zombie"]} \cup Process
  BY DEF TypeOK
<1>2. child[c] = Free => child[c].st = "free"
  BY DEF Free
<1>3. child[c] = [st |-> "zombie"] => child[c].st = "zombie"
  OBVIOUS
<1>4. child[c] \in Process => /\ child[c].todo \in Nat
                              /\ child[c].in \in PipeIds \cup {TTY}
                              /\ child[c].out \in PipeIds \cup {TTY}
  BY DEF Process
<1> QED
  BY <1>1, <1>2, <1>3, <1>4 DEF Alive

LEMMA LineFacts ==
  ASSUME TypeOK
  PROVE  /\ LinePipes \subseteq PipeIds /\ ToSet(pipes) \subseteq PipeIds
         /\ ToSet(pids) \subseteq Pids
         /\ IsFiniteSet(InHands) /\ Cardinality(InHands) \in Nat
         /\ IsFiniteSet(InPipes) /\ Cardinality(InPipes) \in Nat
<1>1. ToSet(pipes) \subseteq PipeIds /\ ToSet(pids) \subseteq Pids
  BY ElementOfSeq, LenProperties DEF TypeOK, ToSet
<1>2. LinePipes \subseteq PipeIds
  <2>1. \A c \in ToSet(pids) : Alive(c) => child[c].in \in PipeIds \cup {TTY}
    BY <1>1, ChildFacts
  <2> QED
    BY <1>1, <2>1 DEF LinePipes
<1>3. IsFiniteSet(1 .. Units + 1) /\ IsFiniteSet(1 .. PipeSize)
  <2>1. 1 \in Int /\ Units + 1 \in Int /\ PipeSize \in Int
    BY BashConstants
  <2> QED
    BY <2>1, FS_Interval, Zenon
<1>4. IsFiniteSet(Pids \X (1 .. Units + 1)) /\ IsFiniteSet(PipeIds \X (1 .. PipeSize))
  BY <1>3, BashConstants, FS_Product, Zenon
<1>5. IsFiniteSet(InHands) /\ IsFiniteSet(InPipes)
  <2>1. InHands \subseteq Pids \X (1 .. Units + 1) /\ InPipes \subseteq PipeIds \X (1 .. PipeSize)
    BY DEF InHands, InPipes
  <2> QED
    BY <1>4, <2>1, FS_Subset, Zenon
<1> QED
  BY <1>1, <1>2, <1>5, FS_CardinalityType

\* A process that is not of the line neither reads nor writes a pipe of it.
LEMMA NotOurs ==
  ASSUME TypeOK, EndsRight, NEW c \in Pids \ ToSet(pids), Alive(c)
  PROVE  child[c].in \notin LinePipes /\ child[c].out \notin LinePipes
<1>1. Grip(c) \subseteq ends[c] /\ ends[c] \cap Ends(LinePipes) = {} /\ TTY \notin LinePipes
  BY LineFacts, BashConstants DEF EndsRight
<1>2. \A p \in LinePipes : <<p, "r">> \in Ends(LinePipes) /\ <<p, "w">> \in Ends(LinePipes)
  BY DEF Ends
<1>3. ASSUME NEW p \in LinePipes, <<p, "r">> \in Grip(c) \/ <<p, "w">> \in Grip(c)
      PROVE  FALSE
  BY <1>1, <1>2, <1>3
<1>4. /\ child[c].in # TTY => <<child[c].in, "r">> \in Grip(c)
      /\ child[c].out # TTY => <<child[c].out, "w">> \in Grip(c)
  BY DEF Grip
<1> QED
  BY <1>1, <1>3, <1>4

LEMMA InitDelivers == Init => Delivery
<1> SUFFICES ASSUME Init PROVE Delivery
  OBVIOUS
<1>1. \A c \in Pids : ~Alive(c) /\ ends[c] = {}
  BY DEF Init, Alive, Free
<1>2. ToSet(<<>>) = {} /\ Ends({}) = {}
  BY EmptySeq DEF ToSet, Ends
<1>3. LinePipes = {}
  BY <1>2 DEF LinePipes, Init
<1>4. EndsRight
  BY <1>1, <1>2, <1>3 DEF EndsRight, Init
<1>5. Amounts
  BY <1>1, BashConstants DEF Amounts, Init
<1>6. Flow
  BY DEF Flow, Init
<1> QED
  BY <1>4, <1>5, <1>6 DEF Delivery

\* The shell has no line in hand: nothing is of the line, and nothing was shown.
LEMMA WithoutLine ==
  ASSUME IInv, Delivery, IInv', pids' = <<>>, pipes' = <<>>,
         \A c \in Pids : \/ Alive(c)' /\ child'[c] = child[c] /\ ends'[c] = ends[c] /\ Alive(c)
                         \/ ~Alive(c)' /\ ends'[c] = {},
         buf' = buf, pc' \notin {"close", "wait"},
         pc' \in {"prompt", "pipe", "fork"} => shown' = 0
  PROVE  Delivery'
<1>1. ToSet(<<>>) = {} /\ Ends({}) = {} /\ Len(<<>>) = 0 /\ DOMAIN <<>> = {}
  BY EmptySeq DEF ToSet, Ends
<1>2. LinePipes' = {} /\ InHands' = {} /\ InPipes' = {}
  <2>1. LinePipes' = {}
    BY <1>1 DEF LinePipes
  <2> QED
    BY <1>1, <2>1 DEF InHands, InPipes
<1>3. EndsRight'
  <2>1. \A c \in Pids : IF Alive(c)' THEN Grip(c)' \subseteq ends'[c] ELSE ends'[c] = {}
    BY DEF Delivery, EndsRight, Grip
  <2> QED
    BY <1>1, <1>2, <2>1 DEF EndsRight
<1>4. Amounts'
  BY DEF Delivery, Amounts
<1>5. Flow'
  <2>1. pc' \in {"pipe", "fork"} => Conserved'
    BY <1>2, FS_EmptySet DEF Conserved
  <2>2. Forked'
    BY <1>1 DEF Forked
  <2> QED
    BY <2>1, <2>2 DEF Flow
<1> QED
  BY <1>3, <1>4, <1>5 DEF Delivery

\* What the shell does between lines, and what ends a line.
LEMMA LoopSteps ==
  ASSUME IInv, Delivery, IInv',
         \/ ReapOne \/ Reaped \/ ReadLine \/ EndOfInput \/ PipeFails \/ GiveUp \/ WaitDone
         \/ AllForked /\ ~line.wait
  PROVE  Delivery'
<1>1. /\ pc \notin {"fork", "close", "wait"} => pids = <<>>
      /\ pc \notin {"pipe", "fork", "close"} => pipes = <<>>
      /\ pc = "prompt" => shown = 0
      /\ child \in [Pids -> {Free, [st |-> "zombie"]} \cup Process]
      /\ ends \in [{Shell} \cup Pids -> SUBSET Ends(PipeIds)]
  BY DEF IInv, TypeOK, Progress, Delivery, Flow
<1>2. \A c \in Pids : Alive(c) \/ ends[c] = {}
  BY DEF Delivery, EndsRight
<1>3. \A to : ShellGoes(to) => pc' = to /\ \A c \in Pids : ends'[c] = ends[c]
  BY <1>1, BashConstants DEF ShellGoes
<1>4. ClosePipes => \A c \in Pids : ends'[c] = ends[c]
  BY <1>1, BashConstants DEF ClosePipes
<1>5. ASSUME child' = child, \A c \in Pids : ends'[c] = ends[c]
      PROVE  \A c \in Pids :
               \/ Alive(c)' /\ child'[c] = child[c] /\ ends'[c] = ends[c] /\ Alive(c)
               \/ ~Alive(c)' /\ ends'[c] = {}
  BY <1>2, <1>5 DEF Alive
<1>6. CASE ReapOne
  <2>1. PICK c \in Pids : Zombie(c) /\ child' = [child EXCEPT ![c] = Free]
    BY <1>6 DEF ReapOne
  <2>2. ~Alive(c) /\ ~Alive(c)'
    BY <1>1, <2>1 DEF Zombie, Alive, Free
  <2>3. \A d \in Pids \ {c} : child'[d] = child[d]
    BY <1>1, <2>1
  <2>4. pc = "reap" /\ UNCHANGED <<pc, line, pipes, pids, ends, buf, shown>>
    BY <1>6 DEF ReapOne
  <2>5. \A d \in Pids :
               \/ Alive(d)' /\ child'[d] = child[d] /\ ends'[d] = ends[d] /\ Alive(d)
               \/ ~Alive(d)' /\ ends'[d] = {}
    BY <1>2, <2>2, <2>3, <2>4 DEF Alive
  <2> QED
    BY <1>1, <2>4, <2>5, WithoutLine
<1>7. CASE Reaped
  BY <1>1, <1>5, <1>7, WithoutLine DEF Reaped
<1>8. CASE ReadLine
  <2>1. PICK l \in Lines : ShellGoes(FirstStep(l.cmds))
    BY <1>8 DEF ReadLine
  <2>2. pc' \in {"reap", "aborted", "exited", "fork", "pipe"}
    BY <1>3, <2>1 DEF FirstStep
  <2>3. pc = "prompt" /\ UNCHANGED <<pipes, pids, background, child, buf, shown>>
    BY <1>8 DEF ReadLine
  <2> QED
    BY <1>1, <1>3, <1>5, <2>1, <2>2, <2>3, WithoutLine
<1>9. CASE EndOfInput
  BY <1>1, <1>3, <1>5, <1>9, WithoutLine DEF EndOfInput
<1>10. CASE PipeFails
  BY <1>1, <1>5, <1>10, WithoutLine DEF PipeFails
<1>11. CASE GiveUp
  BY <1>1, <1>4, <1>5, <1>11, WithoutLine DEF GiveUp
<1>12. CASE WaitDone
  BY <1>1, <1>5, <1>12, WithoutLine DEF WaitDone
<1>13. CASE AllForked /\ ~line.wait
  BY <1>1, <1>4, <1>5, <1>13, WithoutLine DEF AllForked
<1> QED
  BY <1>6, <1>7, <1>8, <1>9, <1>10, <1>11, <1>12, <1>13

\* A pipe that nobody had open becomes one of the line, empty.
LEMMA MakePipeDelivers ==
  ASSUME IInv, Delivery, IInv', MakePipe
  PROVE  Delivery'
<1> DEFINE p == Min(Unused)
<1>1. p \in Unused /\ p \in PipeIds
  <2>1. Unused \in SUBSET Nat /\ Unused \subseteq PipeIds /\ Unused # {}
    BY BashAssumption DEF Unused, MakePipe
  <2> QED
    BY <2>1, MinIn
<1>2. /\ pc = "pipe" /\ pipes' = Append(pipes, p) /\ pc' \in {"pipe", "fork"}
      /\ ends' = [ends EXCEPT ![Shell] = @ \cup Ends({p})]
      /\ buf' = [buf EXCEPT ![p] = 0]
      /\ UNCHANGED <<line, pids, child, shown>>
  BY DEF MakePipe
<1> HIDE DEF p
<1>3. /\ pids = <<>> /\ pipes \in Seq(PipeIds) /\ buf \in [PipeIds -> Nat]
      /\ ends \in [{Shell} \cup Pids -> SUBSET Ends(PipeIds)]
  BY <1>2 DEF IInv, TypeOK, Progress
<1>4. ToSet(pids) = {} /\ ToSet(pids') = {} /\ DOMAIN pids' = {}
  BY <1>2, <1>3, EmptySeq DEF ToSet
<1>5. ToSet(pipes') = ToSet(pipes) \cup {p}
  <2>1. /\ Len(pipes) \in Nat /\ DOMAIN pipes = 1 .. Len(pipes)
        /\ DOMAIN pipes' = 1 .. Len(pipes) + 1
        /\ \A j \in 1 .. Len(pipes) : pipes'[j] = pipes[j]
        /\ pipes'[Len(pipes) + 1] = p
    BY <1>1, <1>2, <1>3, AppendProperties, LenProperties
  <2> QED
    BY <2>1 DEF ToSet
<1>6. LinePipes = ToSet(pipes) /\ LinePipes' = ToSet(pipes) \cup {p}
  BY <1>4, <1>5 DEF LinePipes
<1>7. Ends(ToSet(pipes) \cup {p}) = Ends(ToSet(pipes)) \cup Ends({p})
  BY DEF Ends
<1>8. \A q \in DOMAIN ends : ends[q] \cap Ends({p}) = {}
  BY <1>1 DEF Unused
<1>9. \A c \in Pids : ends'[c] = ends[c]
  BY <1>2, <1>3, BashConstants
<1>10. EndsRight'
  <2>1. Ends(ToSet(pipes)) \subseteq ends[Shell] /\ ends'[Shell] = ends[Shell] \cup Ends({p})
    BY <1>2, <1>3 DEF Delivery, EndsRight
  <2>2. \A c \in Pids : IF Alive(c)' THEN Grip(c)' \subseteq ends'[c] ELSE ends'[c] = {}
    BY <1>2, <1>9 DEF Delivery, EndsRight, Alive, Grip
  <2>3. \A c \in Pids \ ToSet(pids') : ends'[c] \cap Ends(LinePipes') = {}
    BY <1>2, <1>3, <1>6, <1>7, <1>8, <1>9 DEF Delivery, EndsRight
  <2> QED
    BY <1>5, <1>7, <2>1, <2>2, <2>3 DEF EndsRight
<1>11. Amounts'
  BY <1>1, <1>2, <1>3, BashConstants DEF Delivery, Amounts, Alive
<1>12. InHands = {} /\ InHands' = {} /\ InPipes' = InPipes
  <2>1. InHands = {} /\ InHands' = {}
    BY <1>4 DEF InHands
  <2>2. p \notin ToSet(pipes)
    <3>1. <<p, "r">> \in Ends({p}) /\ Ends({p}) \cap ends[Shell] = {}
      BY <1>3, <1>8 DEF Ends
    <3>2. p \in ToSet(pipes) => <<p, "r">> \in ends[Shell]
      BY DEF Delivery, EndsRight, Ends
    <3> QED
      BY <3>1, <3>2
  <2>3. buf'[p] = 0 /\ \A q \in PipeIds \ {p} : buf'[q] = buf[q]
    BY <1>1, <1>2, <1>3
  <2>4. \A x \in PipeIds \X (1 .. PipeSize) :
          (x[1] \in LinePipes' /\ x[2] <= buf'[x[1]]) <=> (x[1] \in LinePipes /\ x[2] <= buf[x[1]])
    <3> SUFFICES ASSUME NEW q \in PipeIds, NEW n \in 1 .. PipeSize
                 PROVE  (q \in LinePipes' /\ n <= buf'[q]) <=> (q \in LinePipes /\ n <= buf[q])
      OBVIOUS
    <3>1. CASE q = p
      BY <1>6, <2>2, <2>3, <3>1
    <3>2. CASE q # p
      BY <1>6, <2>3, <3>2
    <3> QED
      BY <3>1, <3>2
  <2> QED
    BY <2>1, <2>4 DEF InPipes
<1>13. Flow'
  <2>1. Copies' = Copies
    BY <1>2 DEF Copies
  <2>2. Copies => Conserved'
    BY <1>2, <1>3, <1>12 DEF Delivery, Flow, Conserved
  <2>3. Forked'
    BY <1>4 DEF Forked
  <2> QED
    BY <1>2, <2>1, <2>2, <2>3 DEF Flow
<1> QED
  BY <1>10, <1>11, <1>13 DEF Delivery

\* The commands of such a line.
LEMMA CopyCommands ==
  ASSUME TypeOK, Copies, NEW i \in 1 .. Len(line.cmds)
  PROVE  line.cmds[i] = IF i = 1 THEN "gen" ELSE "cat"
<1> DEFINE t == Tail(line.cmds)
<1>1. /\ line.cmds \in Seq(Commands) /\ Len(line.cmds) \in Nat \ {0} /\ line.cmds # <<>>
  BY LineParts, EmptySeq
<1>2. /\ t \in Seq(Commands) /\ Len(t) = Len(line.cmds) - 1
      /\ \A k \in 1 .. Len(t) : t[k] = line.cmds[k + 1]
  BY <1>1, HeadTailProperties
<1>3. DOMAIN t = 1 .. Len(t)
  BY <1>2, LenProperties
<1> HIDE DEF t
<1>4. CASE i = 1
  BY <1>4 DEF Copies
<1>5. CASE i # 1
  <2>1. i - 1 \in 1 .. Len(t) /\ t[i - 1] = line.cmds[i]
    BY <1>1, <1>2, <1>5
  <2>2. t[i - 1] \in ToSet(t)
    BY <1>3, <2>1 DEF ToSet
  <2>3. t[i - 1] = "cat"
    BY <2>2 DEF Copies, t
  <2> QED
    BY <1>5, <2>1, <2>3
<1> QED
  BY <1>4, <1>5

\* The next process of the line: it has what the shell has open, and a gen its units.
LEMMA ForkDelivers ==
  ASSUME IInv, Delivery, IInv', Fork
  PROVE  Delivery'
<1>0. PICK i \in Nat \ {0}, n \in Nat \ {0} : i = Len(pids) + 1 /\ n = Len(line.cmds)
  <2>1. Len(pids) + 1 \in Nat \ {0} /\ Len(line.cmds) \in Nat \ {0}
    BY LineParts, LenProperties DEF IInv, TypeOK
  <2> QED
    BY <2>1
<1>1. PICK c \in Pids \ Unreaped : c = Min(Pids \ Unreaped)
  BY NewOnes DEF Fork
<1>2. /\ pc = "fork" /\ child' = [child EXCEPT ![c] = NewChild(i)]
      /\ ends' = [ends EXCEPT ![c] = ends[Shell]] /\ pids' = Append(pids, c)
      /\ pc' = (IF i = Len(line.cmds) THEN "close" ELSE "fork")
      /\ UNCHANGED <<line, pipes, background, buf, shown>>
  BY <1>0, <1>1 DEF Fork
<1>3. /\ TypeOK /\ child \in [Pids -> {Free, [st |-> "zombie"]} \cup Process]
      /\ ends \in [{Shell} \cup Pids -> SUBSET Ends(PipeIds)]
      /\ pids \in Seq(Pids) /\ pipes \in Seq(PipeIds)
  BY DEF IInv, TypeOK
<1>4. /\ Len(pids) \in Nat /\ n \in Nat \ {0} /\ Len(pids) < n /\ Len(pipes) = n - 1
      /\ DOMAIN pids = 1 .. Len(pids) /\ DOMAIN pipes = 1 .. n - 1
      /\ i \in 1 .. n
  BY <1>0, <1>2, <1>3, LenProperties DEF IInv, Progress
<1>5. /\ Len(pids') = i /\ pids'[i] = c
      /\ \A k \in 1 .. Len(pids) : pids'[k] = pids[k]
      /\ DOMAIN pids' = 1 .. i /\ pids' # <<>>
  <2>1. pids' \in Seq(Pids) /\ Len(pids') = i /\ pids'[i] = c
        /\ \A k \in 1 .. Len(pids) : pids'[k] = pids[k]
    BY <1>0, <1>1, <1>2, <1>3, AppendProperties
  <2> QED
    BY <1>0, <1>4, <2>1, LenProperties, EmptySeq
<1>6. /\ ToSet(pids') = ToSet(pids) \cup {c} /\ c \notin ToSet(pids)
      /\ ToSet(pids) \subseteq Pids
  <2>1. ToSet(pids') = ToSet(pids) \cup {c}
    BY <1>0, <1>4, <1>5 DEF ToSet
  <2> QED
    BY <1>1, <1>3, <2>1, LineFacts DEF IInv, WaitedAreOurs
<1>7. /\ child'[c] = NewChild(i) /\ \A d \in Pids \ {c} : child'[d] = child[d]
      /\ ends'[c] = ends[Shell] /\ \A d \in Pids \ {c} : ends'[d] = ends[d]
      /\ ends'[Shell] = ends[Shell]
  BY <1>1, <1>2, <1>3, BashConstants
<1>8. \A k \in 1 .. n - 1 : pipes[k] \in ToSet(pipes)
  BY <1>4 DEF ToSet
<1>9. /\ NewChild(i).st = "setup" /\ NewChild(i).prog = line.cmds[i]
      /\ NewChild(i).in = (IF i > 1 THEN pipes[i - 1] ELSE TTY)
      /\ NewChild(i).out = (IF i < n THEN pipes[i] ELSE TTY)
      /\ NewChild(i).todo = (IF line.cmds[i] = "gen" THEN Units ELSE 0)
  BY <1>0 DEF NewChild
<1>10. /\ NewChild(i).in \in ToSet(pipes) \cup {TTY}
       /\ NewChild(i).out \in ToSet(pipes) \cup {TTY}
  BY <1>4, <1>8, <1>9
<1>11. Alive(c)' /\ ~Alive(c) /\ \A d \in Pids \ {c} : Alive(d)' = Alive(d)
  <2>1. ~Alive(c)
    BY <1>1, <1>3, ChildFacts DEF Unreaped
  <2> QED
    BY <1>7, <1>9, <2>1 DEF Alive
<1>12. LinePipes' = LinePipes
  <2>1. { child'[d].in : d \in { e \in ToSet(pids') : Alive(e)' } }
          = { child[d].in : d \in { e \in ToSet(pids) : Alive(e) } } \cup {NewChild(i).in}
    BY <1>6, <1>7, <1>11
  <2>2. LinePipes' = ToSet(pipes) \cup
          ({ child'[d].in : d \in { e \in ToSet(pids') : Alive(e)' } } \ {TTY})
    BY <1>2 DEF LinePipes
  <2> QED
    BY <1>10, <2>1, <2>2 DEF LinePipes
<1>13. EndsRight'
  <2>1. Grip(c)' \subseteq ends'[c]
    <3>1. Ends(ToSet(pipes)) \subseteq ends[Shell]
      BY DEF Delivery, EndsRight
    <3>2. \A q \in ToSet(pipes) : <<q, "r">> \in ends[Shell] /\ <<q, "w">> \in ends[Shell]
      BY <3>1 DEF Ends
    <3>3. Grip(c)' = { e \in {<<NewChild(i).in, "r">>, <<NewChild(i).out, "w">>} : e[1] # TTY }
      BY <1>7 DEF Grip
    <3>4. ASSUME NEW e \in {<<NewChild(i).in, "r">>, <<NewChild(i).out, "w">>}, e[1] # TTY
          PROVE  e \in ends[Shell]
      <4>1. CASE e = <<NewChild(i).in, "r">>
        BY <1>10, <3>2, <3>4, <4>1
      <4>2. CASE e = <<NewChild(i).out, "w">>
        BY <1>10, <3>2, <3>4, <4>2
      <4> QED
        BY <4>1, <4>2
    <3> QED
      BY <1>7, <3>3, <3>4
  <2>2. \A d \in Pids : IF Alive(d)' THEN Grip(d)' \subseteq ends'[d] ELSE ends'[d] = {}
    <3> SUFFICES ASSUME NEW d \in Pids \ {c}
                 PROVE  IF Alive(d)' THEN Grip(d)' \subseteq ends'[d] ELSE ends'[d] = {}
      BY <1>11, <2>1
    <3>1. Grip(d)' = Grip(d)
      BY <1>7 DEF Grip
    <3> QED
      BY <1>7, <1>11, <3>1 DEF Delivery, EndsRight
  <2>3. \A d \in Pids \ ToSet(pids') : ends'[d] \cap Ends(LinePipes') = {}
    BY <1>6, <1>7, <1>12 DEF Delivery, EndsRight
  <2> QED
    BY <1>2, <1>7, <2>2, <2>3 DEF Delivery, EndsRight
<1>14. Amounts'
  <2>1. NewChild(i).todo <= Units + 1
    BY <1>9, BashConstants
  <2> QED
    BY <1>2, <1>7, <1>11, <2>1 DEF Delivery, Amounts
<1>15. ASSUME Copies PROVE Forked'
  <2>0. Forked
    BY <1>2, <1>15 DEF Delivery, Flow
  <2> SUFFICES ASSUME NEW j \in 1 .. i
               PROVE  /\ j > 1 => child'[pids'[j]].st \in {"setup", "running"}
                      /\ child'[pids'[j]].st \in {"setup", "running"} =>
                           /\ child'[pids'[j]].prog = IF j = 1 THEN "gen" ELSE "cat"
                           /\ child'[pids'[j]].in = IF j > 1 THEN pipes[j - 1] ELSE TTY
                           /\ child'[pids'[j]].out = IF j < n THEN pipes[j] ELSE TTY
    BY <1>0, <1>2, <1>5 DEF Forked, Alive
  <2>1. CASE j = i
    <3>1. line.cmds[i] = IF i = 1 THEN "gen" ELSE "cat"
      BY <1>3, <1>4, <1>15, <1>0, CopyCommands
    <3> QED
      BY <1>5, <1>7, <1>9, <2>1, <3>1
  <2>2. CASE j # i
    <3>1. j \in 1 .. Len(pids)
      BY <1>4, <1>0, <2>2
    <3>2. pids'[j] = pids[j] /\ pids[j] \in ToSet(pids) /\ pids[j] \in Pids \ {c}
      BY <1>4, <1>5, <1>6, <3>1 DEF ToSet
    <3>3. child'[pids'[j]] = child[pids[j]]
      BY <1>7, <3>2
    <3> QED
      BY <1>0, <1>4, <2>0, <3>1, <3>3 DEF Forked, Alive
  <2> QED
    BY <2>1, <2>2
<1>16. InPipes' = InPipes
  BY <1>2, <1>12 DEF InPipes
<1>17. ASSUME Copies PROVE Conserved'
  <2>0. shown + Cardinality(InHands) + Cardinality(InPipes) =
          IF pids = <<>> THEN 0 ELSE Units
    BY <1>2, <1>17 DEF Delivery, Flow, Conserved
  <2>1. line.cmds[i] = IF i = 1 THEN "gen" ELSE "cat"
    BY <1>3, <1>4, <1>17, <1>0, CopyCommands
  <2>2. SUFFICES shown + Cardinality(InHands') + Cardinality(InPipes) = Units
    BY <1>2, <1>5, <1>16 DEF Conserved
  <2>3. CASE i = 1
    <3>1. pids = <<>> /\ ToSet(pids) = {}
      <4>1. pids = <<>>
        BY <1>3, <1>4, <2>3, EmptySeq, <1>0
      <4> QED
        BY <1>4, <2>3, <4>1, EmptySeq DEF ToSet
    <3>2. shown \in Nat /\ Cardinality(InHands) \in Nat /\ Cardinality(InPipes) \in Nat
      BY <1>3, LineFacts DEF TypeOK
    <3>3. shown = 0 /\ Cardinality(InPipes) = 0
      BY <2>0, <3>1, <3>2
    <3>4. InHands' = {c} \X (1 .. Units)
      <4>1. \A d \in Pids, k \in 1 .. Units + 1 :
              (d \in ToSet(pids') /\ Alive(d)' /\ k <= child'[d].todo) <=> (d = c /\ k <= Units)
        BY <1>1, <1>6, <1>7, <1>9, <1>11, <2>1, <2>3, <3>1
      <4>2. InHands' = { x \in Pids \X (1 .. Units + 1) : x[1] = c /\ x[2] <= Units }
        BY <4>1 DEF InHands
      <4> QED
        BY <1>1, <4>2, BashConstants
    <3>5. Cardinality({c} \X (1 .. Units)) = Units
      <4>1. IsFiniteSet({c}) /\ Cardinality({c}) = 1
        BY FS_Singleton
      <4>2. 1 \in Int /\ Units \in Int /\ Units \in Nat
        BY BashConstants
      <4>3. /\ IsFiniteSet(1 .. Units)
            /\ Cardinality(1 .. Units) = IF 1 > Units THEN 0 ELSE Units - 1 + 1
        BY <4>2, FS_Interval
      <4>4. Cardinality(1 .. Units) = Units
        BY <4>2, <4>3
      <4> DEFINE U == 1 .. Units
      <4> HIDE DEF U
      <4>5. Cardinality({c} \X U) = Cardinality({c}) * Cardinality(U)
        BY <4>1, <4>3, FS_Product DEF U
      <4>6. Cardinality({c} \X U) = 1 * Units
        BY <4>1, <4>4, <4>5 DEF U
      <4> QED
        BY <4>2, <4>6 DEF U
    <3> QED
      BY <3>3, <3>4, <3>5, BashConstants
  <2>4. CASE i # 1
    <3>1. pids # <<>>
      BY <1>4, <2>4, EmptySeq, <1>0
    <3>2. InHands' = InHands
      <4>1. \A d \in Pids, k \in 1 .. Units + 1 :
              (d \in ToSet(pids') /\ Alive(d)' /\ k <= child'[d].todo)
                <=> (d \in ToSet(pids) /\ Alive(d) /\ k <= child[d].todo)
        <5> SUFFICES ASSUME NEW d \in Pids, NEW k \in 1 .. Units + 1
                     PROVE  (d \in ToSet(pids') /\ Alive(d)' /\ k <= child'[d].todo)
                              <=> (d \in ToSet(pids) /\ Alive(d) /\ k <= child[d].todo)
          OBVIOUS
        <5>1. CASE d = c
          <6>1. child'[d].todo = 0 /\ ~(k <= 0)
            BY <1>7, <1>9, <2>1, <2>4, <5>1, BashConstants
          <6> QED
            BY <1>6, <5>1, <6>1
        <5>2. CASE d # c
          BY <1>6, <1>7, <1>11, <5>2
        <5> QED
          BY <5>1, <5>2
      <4> QED
        BY <4>1 DEF InHands
    <3> QED
      BY <2>0, <3>1, <3>2
  <2> QED
    BY <2>3, <2>4
<1>18. Flow'
  <2>1. Copies' = Copies
    BY <1>2 DEF Copies
  <2>2. pc' = "close" => Len(pids') = Len(line'.cmds) /\ Len(pipes') = Len(line'.cmds) - 1
    BY <1>2, <1>0, <1>4, <1>5
  <2> QED
    BY <1>2, <1>15, <1>17, <2>1, <2>2 DEF Flow
<1> QED
  BY <1>13, <1>14, <1>18 DEF Delivery

\* The shell closes its pipes: those that its processes read are still the same.
LEMMA AllForkedDelivers ==
  ASSUME IInv, Delivery, IInv', AllForked, line.wait
  PROVE  Delivery'
<1>1. /\ pc = "close" /\ pc' = "wait" /\ pipes' = <<>>
      /\ ends' = [ends EXCEPT ![Shell] = @ \ Ends(ToSet(pipes))]
      /\ UNCHANGED <<line, pids, child, buf, shown>>
  BY DEF AllForked, ClosePipes
<1>2. /\ TypeOK /\ ends \in [{Shell} \cup Pids -> SUBSET Ends(PipeIds)]
      /\ pids \in Seq(Pids) /\ pipes \in Seq(PipeIds)
  BY DEF IInv, TypeOK
<1>3. PICK n \in Nat \ {0} : n = Len(line.cmds)
  BY <1>2, LineParts
<1>4. /\ Len(pids) = n /\ Len(pipes) = n - 1 /\ pids # <<>>
      /\ DOMAIN pids = 1 .. n /\ DOMAIN pipes = 1 .. n - 1
  <2>1. Len(pids) = n /\ Len(pipes) = n - 1
    BY <1>1, <1>3 DEF Delivery, Flow
  <2> QED
    BY <1>2, <2>1, EmptySeq, LenProperties
<1>5. \A k \in 1 .. n - 1 : pipes[k] \in PipeIds /\ pipes[k] # TTY
  BY <1>2, <1>4, ElementOfSeq, BashConstants
<1>6. \A c \in Pids : ends'[c] = ends[c]
  BY <1>1, <1>2, BashConstants
<1>7. ToSet(<<>>) = {} /\ Ends({}) = {}
  BY EmptySeq DEF ToSet, Ends
<1>8. LinePipes' = { child[c].in : c \in { d \in ToSet(pids) : Alive(d) } } \ {TTY}
  BY <1>1, <1>7 DEF LinePipes, Alive
<1>9. EndsRight'
  <2>1. \A c \in Pids : IF Alive(c)' THEN Grip(c)' \subseteq ends'[c] ELSE ends'[c] = {}
    BY <1>1, <1>6 DEF Delivery, EndsRight, Alive, Grip
  <2>2. Ends(LinePipes') \subseteq Ends(LinePipes)
    BY <1>8 DEF LinePipes, Ends
  <2>3. \A c \in Pids \ ToSet(pids) : ends'[c] \cap Ends(LinePipes') = {}
    BY <1>6, <2>2 DEF Delivery, EndsRight
  <2> QED
    BY <1>1, <1>7, <2>1, <2>3 DEF EndsRight
<1>10. Amounts'
  BY <1>1 DEF Delivery, Amounts, Alive
<1>11. ASSUME Copies PROVE Chained' /\ Conserved'
  <2>1. \A j \in 1 .. n :
          /\ j > 1 => Alive(pids[j])
          /\ Alive(pids[j]) =>
               /\ child[pids[j]].prog = IF j = 1 THEN "gen" ELSE "cat"
               /\ child[pids[j]].in = IF j > 1 THEN pipes[j - 1] ELSE TTY
               /\ child[pids[j]].out = IF j < n THEN pipes[j] ELSE TTY
    BY <1>1, <1>3, <1>4, <1>11 DEF Delivery, Flow, Forked
  <2>2. Chained
    <3> SUFFICES ASSUME NEW j \in 1 .. n, Alive(pids[j])
                 PROVE  /\ child[pids[j]].prog = IF child[pids[j]].in = TTY THEN "gen" ELSE "cat"
                        /\ IF j = n THEN child[pids[j]].out = TTY
                           ELSE /\ child[pids[j]].out # TTY /\ Alive(pids[j + 1])
                                /\ child[pids[j + 1]].in = child[pids[j]].out
      BY <1>4 DEF Chained
    <3>1. child[pids[j]].prog = IF child[pids[j]].in = TTY THEN "gen" ELSE "cat"
      <4>1. CASE j = 1
        BY <2>1, <4>1
      <4>2. CASE j # 1
        BY <1>5, <2>1, <4>2
      <4> QED
        BY <4>1, <4>2
    <3>2. CASE j = n
      BY <2>1, <3>1, <3>2
    <3>3. CASE j # n
      <4>1. j + 1 \in 1 .. n /\ j + 1 > 1 /\ j < n /\ (j + 1) - 1 = j /\ j \in 1 .. n - 1
        BY <3>3
      <4>2. child[pids[j + 1]].in = pipes[j] /\ child[pids[j]].out = pipes[j]
        BY <2>1, <4>1
      <4> QED
        BY <1>5, <2>1, <3>1, <3>3, <4>1, <4>2
    <3> QED
      BY <3>2, <3>3
  <2>3. LinePipes' = LinePipes
    <3>1. ToSet(pipes) \subseteq { child[c].in : c \in { d \in ToSet(pids) : Alive(d) } } \ {TTY}
      <4> SUFFICES ASSUME NEW k \in 1 .. n - 1
                   PROVE  pipes[k] \in { child[c].in : c \in { d \in ToSet(pids) : Alive(d) } }
        BY <1>4, <1>5 DEF ToSet
      <4>1. k + 1 \in 1 .. n /\ k + 1 > 1 /\ (k + 1) - 1 = k
        OBVIOUS
      <4>2. Alive(pids[k + 1]) /\ child[pids[k + 1]].in = pipes[k]
        BY <2>1, <4>1
      <4>3. pids[k + 1] \in ToSet(pids)
        BY <1>4, <4>1 DEF ToSet
      <4> QED
        BY <4>2, <4>3
    <3> QED
      BY <1>8, <3>1 DEF LinePipes
  <2>4. Conserved
    BY <1>1, <1>11 DEF Delivery, Flow
  <2>5. InHands' = InHands /\ InPipes' = InPipes
    BY <1>1, <2>3 DEF InHands, InPipes, Alive
  <2> QED
    BY <1>1, <1>4, <2>2, <2>4, <2>5 DEF Chained, Conserved, Alive
<1>12. Flow'
  BY <1>1, <1>11 DEF Flow, Copies
<1> QED
  BY <1>9, <1>10, <1>12 DEF Delivery

\* The first of the processes that the shell waits for has ended: it has nothing.
LEMMA WaitOneDelivers ==
  ASSUME IInv, Delivery, IInv', WaitOne
  PROVE  Delivery'
<1>1. PICK c \in Pids : c = Head(pids)
  <2>1. pids \in Seq(Pids) /\ pids # <<>>
    BY DEF IInv, TypeOK, WaitOne
  <2>2. Head(pids) \in Pids
    BY <2>1, HeadTailProperties
  <2> QED
    BY <2>2
<1>2. /\ pc = "wait" /\ pids # <<>> /\ Zombie(c) /\ child' = [child EXCEPT ![c] = Free]
      /\ pids' = Tail(pids) /\ UNCHANGED <<pc, line, pipes, background, ends, buf, shown>>
  BY <1>1 DEF WaitOne
<1>3. /\ TypeOK /\ pids \in Seq(Pids)
      /\ child \in [Pids -> {Free, [st |-> "zombie"]} \cup Process]
      /\ pipes = <<>>
  BY <1>2 DEF IInv, TypeOK, Progress
<1>4. PICK m \in Nat \ {0} : m = Len(pids)
  BY <1>2, <1>3, EmptySeq, LenProperties
<1>5. /\ DOMAIN pids = 1 .. m /\ DOMAIN pids' = 1 .. m - 1 /\ c = pids[1]
      /\ Len(pids') = m - 1 /\ \A k \in 1 .. m - 1 : pids'[k] = pids[k + 1]
  <2>1. /\ pids' \in Seq(Pids) /\ Len(pids') = m - 1
        /\ \A k \in 1 .. m - 1 : pids'[k] = pids[k + 1] /\ c = pids[1]
    BY <1>1, <1>2, <1>3, <1>4, HeadTailProperties
  <2>2. c = pids[1]
    BY <1>1, <1>2, <1>3, HeadTailProperties
  <2> QED
    BY <1>3, <1>4, <2>1, <2>2, LenProperties
<1>6. \A k \in 1 .. m - 1 : /\ pids'[k] = pids[k + 1] /\ k + 1 \in 1 .. m
                            /\ pids[k + 1] # c /\ pids[k + 1] \in Pids
  <2> SUFFICES ASSUME NEW k \in 1 .. m - 1
               PROVE  /\ pids'[k] = pids[k + 1] /\ k + 1 \in 1 .. m
                      /\ pids[k + 1] # c /\ pids[k + 1] \in Pids
    OBVIOUS
  <2>1. k + 1 \in DOMAIN pids /\ 1 \in DOMAIN pids /\ k + 1 # 1
    BY <1>5
  <2>2. pids[k + 1] # pids[1]
    BY <2>1 DEF IInv, WaitedAreOurs, IsInjective
  <2>3. pids[k + 1] \in Pids
    BY <1>3, <1>4, <1>5, <2>1, ElementOfSeq
  <2> QED
    BY <1>5, <2>1, <2>2, <2>3
<1>7. ToSet(pids) = ToSet(pids') \cup {c} /\ c \notin ToSet(pids')
  <2>1. \A k \in 1 .. m : k = 1 \/ k - 1 \in 1 .. m - 1
    OBVIOUS
  <2>2. \A k \in 1 .. m : pids[k] \in ToSet(pids') \cup {c}
    <3> SUFFICES ASSUME NEW k \in 1 .. m, k # 1 PROVE pids[k] \in ToSet(pids')
      BY <1>5
    <3>1. k - 1 \in 1 .. m - 1 /\ (k - 1) + 1 = k
      BY <2>1
    <3> QED
      BY <1>5, <1>6, <3>1 DEF ToSet
  <2>3. \A x \in ToSet(pids') : x \in ToSet(pids) /\ x # c
    BY <1>5, <1>6 DEF ToSet
  <2>4. c \in ToSet(pids) /\ \A x \in ToSet(pids) : x \in ToSet(pids') \cup {c}
    <3>1. 1 \in 1 .. m
      OBVIOUS
    <3> QED
      BY <1>5, <2>2, <3>1 DEF ToSet
  <2> QED
    BY <2>3, <2>4
<1>8. \A d \in Pids \ {c} : child'[d] = child[d]
  BY <1>3, <1>2
<1>9. ~Alive(c) /\ ~Alive(c)' /\ \A d \in Pids \ {c} : Alive(d)' = Alive(d)
  <2>1. child'[c] = Free
    BY <1>2, <1>3
  <2> QED
    BY <1>2, <1>8, <2>1 DEF Zombie, Alive, Free
<1>10. ToSet(pids') \subseteq Pids \ {c}
  BY <1>3, <1>7, LineFacts
<1>11. LinePipes' = LinePipes
  <2>1. { child'[d].in : d \in { e \in ToSet(pids') : Alive(e)' } }
          = { child[d].in : d \in { e \in ToSet(pids) : Alive(e) } }
    BY <1>7, <1>8, <1>9, <1>10
  <2>2. LinePipes' = ToSet(pipes) \cup
          ({ child'[d].in : d \in { e \in ToSet(pids') : Alive(e)' } } \ {TTY})
    BY <1>2 DEF LinePipes
  <2> QED
    BY <2>1, <2>2 DEF LinePipes
<1>12. EndsRight'
  <2>1. \A d \in Pids : IF Alive(d)' THEN Grip(d)' \subseteq ends'[d] ELSE ends'[d] = {}
    <3>1. ends' = ends /\ ends[c] = {}
      BY <1>2, <1>9 DEF Delivery, EndsRight
    <3>2. \A d \in Pids \ {c} : Grip(d)' = Grip(d)
      BY <1>8 DEF Grip
    <3> QED
      BY <1>9, <3>1, <3>2 DEF Delivery, EndsRight
  <2>2. \A d \in Pids \ ToSet(pids') : ends'[d] \cap Ends(LinePipes') = {}
    BY <1>2, <1>7, <1>9, <1>11 DEF Delivery, EndsRight
  <2> QED
    BY <1>2, <2>1, <2>2 DEF Delivery, EndsRight
<1>13. Amounts'
  BY <1>2, <1>8, <1>9 DEF Delivery, Amounts
<1>14. ASSUME Copies PROVE Chained' /\ Conserved'
  <2>1. Chained /\ Conserved
    BY <1>2, <1>14 DEF Delivery, Flow
  <2>2. Chained'
    <3> SUFFICES ASSUME NEW j \in 1 .. m - 1, child'[pids'[j]].st \in {"setup", "running"}
                 PROVE  /\ child'[pids'[j]].prog =
                             IF child'[pids'[j]].in = TTY THEN "gen" ELSE "cat"
                        /\ IF j = m - 1 THEN child'[pids'[j]].out = TTY
                           ELSE /\ child'[pids'[j]].out # TTY
                                /\ child'[pids'[j + 1]].st \in {"setup", "running"}
                                /\ child'[pids'[j + 1]].in = child'[pids'[j]].out
      BY <1>5 DEF Chained, Alive
    <3>1. child'[pids'[j]] = child[pids[j + 1]] /\ j + 1 \in 1 .. m
      BY <1>6, <1>8
    <3>2. Alive(pids[j + 1])
      BY <3>1 DEF Alive
    <3>3. /\ child[pids[j + 1]].prog = IF child[pids[j + 1]].in = TTY THEN "gen" ELSE "cat"
          /\ IF j + 1 = m THEN child[pids[j + 1]].out = TTY
             ELSE /\ child[pids[j + 1]].out # TTY /\ Alive(pids[(j + 1) + 1])
                  /\ child[pids[(j + 1) + 1]].in = child[pids[j + 1]].out
      BY <1>4, <1>5, <2>1, <3>1, <3>2 DEF Chained
    <3>4. CASE j = m - 1
      BY <3>1, <3>3, <3>4
    <3>5. CASE j # m - 1
      <4>1. j + 1 \in 1 .. m - 1
        BY <3>5
      <4>2. child'[pids'[j + 1]] = child[pids[(j + 1) + 1]]
        BY <1>6, <1>8, <4>1
      <4> QED
        BY <3>1, <3>3, <3>5, <4>2 DEF Alive
    <3> QED
      BY <3>4, <3>5
  <2>3. InHands' = InHands
    <3>1. \A d \in Pids, k \in 1 .. Units + 1 :
            (d \in ToSet(pids') /\ Alive(d)' /\ k <= child'[d].todo)
              <=> (d \in ToSet(pids) /\ Alive(d) /\ k <= child[d].todo)
      BY <1>7, <1>8, <1>9
    <3> QED
      BY <3>1 DEF InHands
  <2>4. InPipes' = InPipes
    BY <1>2, <1>11 DEF InPipes
  <2> QED
    BY <1>2, <2>1, <2>2, <2>3, <2>4 DEF Conserved
<1>15. Flow'
  BY <1>2, <1>14 DEF Flow, Copies
<1> QED
  BY <1>12, <1>13, <1>15 DEF Delivery

\* What one process does, while it goes on, to what the line has open.
LEMMA GoesOn ==
  ASSUME TypeOK, EndsRight, NEW c \in Pids, Alive(c),
         \A d \in Pids \ {c} : child'[d] = child[d],
         child'[c].st \in {"setup", "running"}, child'[c].prog = child[c].prog,
         child'[c].in = child[c].in, child'[c].out = child[c].out,
         \A d \in Pids \ {c} : ends'[d] = ends[d], ends'[Shell] = ends[Shell],
         ends'[c] \subseteq ends[c], Grip(c) \subseteq ends'[c], UNCHANGED shell
  PROVE  /\ LinePipes' = LinePipes /\ EndsRight' /\ Copies' = Copies
         /\ Forked => Forked'
         /\ Chained => Chained'
         /\ \A d \in Pids : Alive(d)' = Alive(d)
<1>1. \A d \in Pids : /\ Alive(d)' = Alive(d)
                      /\ child'[d].in = child[d].in /\ child'[d].out = child[d].out
                      /\ child'[d].prog = child[d].prog
  BY DEF Alive
<1>2. UNCHANGED <<pc, line, pipes, pids>> /\ ToSet(pids) \subseteq Pids
  BY LineFacts DEF shell
<1>3. LinePipes' = LinePipes
  <2>1. { child'[d].in : d \in { e \in ToSet(pids) : Alive(e)' } }
          = { child[d].in : d \in { e \in ToSet(pids) : Alive(e) } }
    BY <1>1, <1>2
  <2> QED
    BY <1>2, <2>1 DEF LinePipes
<1>4. EndsRight'
  <2>1. \A d \in Pids : Grip(d)' = Grip(d)
    BY <1>1 DEF Grip
  <2>2. \A d \in Pids : IF Alive(d)' THEN Grip(d)' \subseteq ends'[d] ELSE ends'[d] = {}
    BY <1>1, <2>1 DEF EndsRight
  <2>3. \A d \in Pids \ ToSet(pids) : ends'[d] \cap Ends(LinePipes) = {}
    BY DEF EndsRight
  <2> QED
    BY <1>2, <1>3, <2>2, <2>3 DEF EndsRight
<1>5. \A j \in DOMAIN pids : pids[j] \in Pids
  BY <1>2 DEF ToSet
<1>6. ASSUME Forked PROVE Forked'
  <2> SUFFICES ASSUME NEW j \in DOMAIN pids
               PROVE  /\ j > 1 => Alive(pids[j])'
                      /\ Alive(pids[j])' =>
                           /\ child'[pids[j]].prog = IF j = 1 THEN "gen" ELSE "cat"
                           /\ child'[pids[j]].in = IF j > 1 THEN pipes[j - 1] ELSE TTY
                           /\ child'[pids[j]].out = IF j < Len(line.cmds) THEN pipes[j] ELSE TTY
    BY <1>2 DEF Forked, Alive
  <2>1. /\ Alive(pids[j])' = Alive(pids[j])
        /\ child'[pids[j]].in = child[pids[j]].in /\ child'[pids[j]].out = child[pids[j]].out
        /\ child'[pids[j]].prog = child[pids[j]].prog
    BY <1>1, <1>2, <1>5 DEF Alive
  <2> QED
    BY <1>6, <2>1 DEF Forked
<1>7. ASSUME Chained PROVE Chained'
  <2> SUFFICES ASSUME NEW j \in DOMAIN pids, child'[pids[j]].st \in {"setup", "running"}
               PROVE  /\ child'[pids[j]].prog = IF child'[pids[j]].in = TTY THEN "gen" ELSE "cat"
                      /\ IF j = Len(pids) THEN child'[pids[j]].out = TTY
                         ELSE /\ child'[pids[j]].out # TTY
                              /\ child'[pids[j + 1]].st \in {"setup", "running"}
                              /\ child'[pids[j + 1]].in = child'[pids[j]].out
    BY <1>2 DEF Chained, Alive
  <2>1. /\ child[pids[j]].st \in {"setup", "running"}
        /\ child'[pids[j]].in = child[pids[j]].in /\ child'[pids[j]].out = child[pids[j]].out
        /\ child'[pids[j]].prog = child[pids[j]].prog
    BY <1>1, <1>5 DEF Alive
  <2>2. CASE j = Len(pids)
    BY <1>7, <2>1, <2>2 DEF Chained, Alive
  <2>3. CASE j # Len(pids)
    <3>1. j + 1 \in DOMAIN pids
      BY <2>3, LenProperties DEF TypeOK
    <3>2. /\ child[pids[j + 1]].st \in {"setup", "running"}
                => child'[pids[j + 1]].st \in {"setup", "running"}
          /\ child'[pids[j + 1]].in = child[pids[j + 1]].in
      BY <1>1, <1>5, <3>1 DEF Alive
    <3> QED
      BY <1>7, <2>1, <2>3, <3>2 DEF Chained, Alive
  <2> QED
    BY <2>2, <2>3
<1> QED
  BY <1>1, <1>2, <1>3, <1>4, <1>6, <1>7 DEF Copies

\* The units of the other processes stay where they are.
LEMMA HandsOf ==
  ASSUME TypeOK, NEW c \in Pids, Alive(c), \A d \in Pids \ {c} : child'[d] = child[d],
         \A d \in Pids : Alive(d)' = Alive(d), pids' = pids, Amounts
  PROVE  /\ c \notin ToSet(pids) \/ child'[c].todo = child[c].todo => InHands' = InHands
         /\ c \in ToSet(pids) /\ child[c].todo > 0 /\ child'[c].todo = child[c].todo - 1
              => Cardinality(InHands') = Cardinality(InHands) - 1
         /\ c \in ToSet(pids) /\ child[c].todo = 0 /\ child'[c].todo = 1
              => Cardinality(InHands') = Cardinality(InHands) + 1
<1>1. /\ child[c].todo \in Nat /\ child[c].todo <= Units + 1 /\ Units \in Nat
      /\ IsFiniteSet(InHands) /\ Cardinality(InHands) \in Nat
  BY ChildFacts, LineFacts, BashConstants DEF Amounts
<1>2. InHands' = { x \in Pids \X (1 .. Units + 1) :
                     x[1] \in ToSet(pids) /\ Alive(x[1]) /\ x[2] <= child'[x[1]].todo }
  <2>1. InHands' = { x \in Pids \X (1 .. Units + 1) :
                     x[1] \in ToSet(pids) /\ Alive(x[1])' /\ x[2] <= child'[x[1]].todo }
    BY DEF InHands
  <2> QED
    BY <2>1
<1>3. ASSUME c \notin ToSet(pids) \/ child'[c].todo = child[c].todo PROVE InHands' = InHands
  <2>1. \A x \in Pids \X (1 .. Units + 1) :
          x[1] \in ToSet(pids) /\ Alive(x[1]) =>
            (x[2] <= child'[x[1]].todo <=> x[2] <= child[x[1]].todo)
    <3> SUFFICES ASSUME NEW d \in Pids, NEW k \in 1 .. Units + 1, d \in ToSet(pids)
                 PROVE  k <= child'[d].todo <=> k <= child[d].todo
      OBVIOUS
    <3> QED
      BY <1>3
  <2> QED
    BY <1>2, <2>1 DEF InHands
<1>4. ASSUME NEW u \in Nat, u + 1 <= Units + 1, c \in ToSet(pids)
      PROVE  /\ child[c].todo = u + 1 /\ child'[c].todo = u => InHands' = InHands \ {<<c, u + 1>>}
             /\ child[c].todo = u /\ child'[c].todo = u + 1 => InHands' = InHands \cup {<<c, u + 1>>}
             /\ child[c].todo = u + 1 => <<c, u + 1>> \in InHands
             /\ child[c].todo = u => <<c, u + 1>> \notin InHands
  <2>1. <<c, u + 1>> \in Pids \X (1 .. Units + 1)
    BY <1>1, <1>4
  <2>2. ASSUME child[c].todo = u + 1, child'[c].todo = u
        PROVE  InHands' = InHands \ {<<c, u + 1>>}
    <3>1. ASSUME NEW d \in Pids, NEW k \in 1 .. Units + 1
          PROVE  (d \in ToSet(pids) /\ Alive(d) /\ k <= child'[d].todo)
                   <=> (d \in ToSet(pids) /\ Alive(d) /\ k <= child[d].todo
                        /\ ~(d = c /\ k = u + 1))
      <4>1. CASE d = c
        <5>1. k <= u <=> (k <= u + 1 /\ k # u + 1)
          BY <1>4, <3>1
        <5> QED
          BY <2>2, <4>1, <5>1
      <4>2. CASE d # c
        BY <3>1, <4>2
      <4> QED
        BY <4>1, <4>2
    <3> QED
      BY <1>2, <3>1 DEF InHands
  <2>3. ASSUME child[c].todo = u, child'[c].todo = u + 1
        PROVE  InHands' = InHands \cup {<<c, u + 1>>}
    <3>1. ASSUME NEW d \in Pids, NEW k \in 1 .. Units + 1
          PROVE  (d \in ToSet(pids) /\ Alive(d) /\ k <= child'[d].todo)
                   <=> \/ d \in ToSet(pids) /\ Alive(d) /\ k <= child[d].todo
                       \/ d = c /\ k = u + 1
      <4>1. CASE d = c
        <5>1. k <= u + 1 <=> (k <= u \/ k = u + 1)
          BY <1>4, <3>1
        <5> QED
          BY <1>4, <2>3, <4>1, <5>1
      <4>2. CASE d # c
        BY <3>1, <4>2
      <4> QED
        BY <4>1, <4>2
    <3> QED
      BY <1>2, <2>1, <3>1 DEF InHands
  <2>4. child[c].todo = u + 1 => <<c, u + 1>> \in InHands
    BY <1>4, <2>1 DEF InHands
  <2>5. child[c].todo = u => <<c, u + 1>> \notin InHands
    BY <1>4 DEF InHands
  <2> QED
    BY <2>2, <2>3, <2>4, <2>5
<1>5. ASSUME c \in ToSet(pids), child[c].todo > 0, child'[c].todo = child[c].todo - 1
      PROVE  Cardinality(InHands') = Cardinality(InHands) - 1
  <2>1. PICK u \in Nat : u + 1 = child[c].todo /\ u = child'[c].todo
    <3>1. child[c].todo - 1 \in Nat /\ (child[c].todo - 1) + 1 = child[c].todo
      BY <1>1, <1>5
    <3> QED
      BY <1>5, <3>1
  <2>2. InHands' = InHands \ {<<c, u + 1>>} /\ <<c, u + 1>> \in InHands
    BY <1>1, <1>4, <1>5, <2>1
  <2> QED
    BY <1>1, <2>2, FS_RemoveElement
<1>6. ASSUME c \in ToSet(pids), child[c].todo = 0, child'[c].todo = 1
      PROVE  Cardinality(InHands') = Cardinality(InHands) + 1
  <2>1. 0 \in Nat /\ 0 + 1 = 1 /\ 0 + 1 <= Units + 1
    BY <1>1
  <2>2. InHands' = InHands \cup {<<c, 1>>} /\ <<c, 1>> \notin InHands
    BY <1>4, <1>6, <2>1
  <2> QED
    BY <1>1, <2>2, FS_AddElement
<1> QED
  BY <1>3, <1>5, <1>6

\* The units of the other pipes stay where they are.
LEMMA PipesOf ==
  ASSUME TypeOK, Amounts, NEW p \in PipeIds, \A q \in PipeIds \ {p} : buf'[q] = buf[q],
         LinePipes' = LinePipes
  PROVE  /\ p \notin LinePipes => InPipes' = InPipes
         /\ p \in LinePipes /\ buf[p] < PipeSize /\ buf'[p] = buf[p] + 1
              => Cardinality(InPipes') = Cardinality(InPipes) + 1
         /\ p \in LinePipes /\ buf[p] > 0 /\ buf'[p] = buf[p] - 1
              => Cardinality(InPipes') = Cardinality(InPipes) - 1
<1>1. /\ buf[p] \in Nat /\ buf[p] <= PipeSize /\ PipeSize \in Nat
      /\ IsFiniteSet(InPipes) /\ Cardinality(InPipes) \in Nat
  BY LineFacts, BashConstants DEF Amounts, TypeOK
<1>2. InPipes' = { x \in PipeIds \X (1 .. PipeSize) : x[1] \in LinePipes /\ x[2] <= buf'[x[1]] }
  BY DEF InPipes
<1>3. ASSUME p \notin LinePipes PROVE InPipes' = InPipes
  <2>1. \A q \in PipeIds, k \in 1 .. PipeSize :
          (q \in LinePipes /\ k <= buf'[q]) <=> (q \in LinePipes /\ k <= buf[q])
    BY <1>3
  <2> QED
    BY <1>2, <2>1 DEF InPipes
<1>4. ASSUME NEW u \in Nat, u + 1 <= PipeSize, p \in LinePipes
      PROVE  /\ buf[p] = u + 1 /\ buf'[p] = u => InPipes' = InPipes \ {<<p, u + 1>>}
             /\ buf[p] = u /\ buf'[p] = u + 1 => InPipes' = InPipes \cup {<<p, u + 1>>}
             /\ buf[p] = u + 1 => <<p, u + 1>> \in InPipes
             /\ buf[p] = u => <<p, u + 1>> \notin InPipes
  <2>1. <<p, u + 1>> \in PipeIds \X (1 .. PipeSize)
    BY <1>1, <1>4
  <2>2. ASSUME buf[p] = u + 1, buf'[p] = u PROVE InPipes' = InPipes \ {<<p, u + 1>>}
    <3>1. ASSUME NEW q \in PipeIds, NEW k \in 1 .. PipeSize
          PROVE  (q \in LinePipes /\ k <= buf'[q])
                   <=> (q \in LinePipes /\ k <= buf[q] /\ ~(q = p /\ k = u + 1))
      <4>1. CASE q = p
        <5>1. k <= u <=> (k <= u + 1 /\ k # u + 1)
          BY <1>4, <3>1
        <5> QED
          BY <2>2, <4>1, <5>1
      <4>2. CASE q # p
        BY <3>1, <4>2
      <4> QED
        BY <4>1, <4>2
    <3> QED
      BY <1>2, <3>1 DEF InPipes
  <2>3. ASSUME buf[p] = u, buf'[p] = u + 1 PROVE InPipes' = InPipes \cup {<<p, u + 1>>}
    <3>1. ASSUME NEW q \in PipeIds, NEW k \in 1 .. PipeSize
          PROVE  (q \in LinePipes /\ k <= buf'[q])
                   <=> (q \in LinePipes /\ k <= buf[q]) \/ (q = p /\ k = u + 1)
      <4>1. CASE q = p
        <5>1. k <= u + 1 <=> (k <= u \/ k = u + 1)
          BY <1>4, <3>1
        <5> QED
          BY <1>4, <2>3, <4>1, <5>1
      <4>2. CASE q # p
        BY <3>1, <4>2
      <4> QED
        BY <4>1, <4>2
    <3> QED
      BY <1>2, <2>1, <3>1 DEF InPipes
  <2>4. buf[p] = u + 1 => <<p, u + 1>> \in InPipes
    BY <1>4, <2>1 DEF InPipes
  <2>5. buf[p] = u => <<p, u + 1>> \notin InPipes
    BY <1>4 DEF InPipes
  <2> QED
    BY <2>2, <2>3, <2>4, <2>5
<1>5. ASSUME p \in LinePipes, buf[p] < PipeSize, buf'[p] = buf[p] + 1
      PROVE  Cardinality(InPipes') = Cardinality(InPipes) + 1
  <2>1. buf[p] + 1 <= PipeSize
    BY <1>1, <1>5
  <2>2. InPipes' = InPipes \cup {<<p, buf[p] + 1>>} /\ <<p, buf[p] + 1>> \notin InPipes
    BY <1>1, <1>4, <1>5, <2>1
  <2> QED
    BY <1>1, <2>2, FS_AddElement
<1>6. ASSUME p \in LinePipes, buf[p] > 0, buf'[p] = buf[p] - 1
      PROVE  Cardinality(InPipes') = Cardinality(InPipes) - 1
  <2>1. PICK u \in Nat : u + 1 = buf[p] /\ u = buf'[p]
    <3>1. buf[p] - 1 \in Nat /\ (buf[p] - 1) + 1 = buf[p]
      BY <1>1, <1>6
    <3> QED
      BY <1>6, <3>1
  <2>2. InPipes' = InPipes \ {<<p, u + 1>>} /\ <<p, u + 1>> \in InPipes
    BY <1>1, <1>4, <1>6, <2>1
  <2> QED
    BY <1>1, <2>2, FS_RemoveElement
<1> QED
  BY <1>3, <1>5, <1>6

\* A process of the line writes to a pipe of the line, which somebody may still read.
LEMMA Reader ==
  ASSUME IInv, Delivery, Copies, pc \in {"fork", "close", "wait"},
         NEW c \in ToSet(pids), Alive(c), child[c].out # TTY
  PROVE  child[c].out \in LinePipes /\ HasEnd(child[c].out, "r")
<1>1. PICK j \in DOMAIN pids : c = pids[j]
  BY DEF ToSet
<1>2. TypeOK /\ DOMAIN pids = 1 .. Len(pids) /\ Len(pids) \in Nat /\ c \in Pids
      /\ DOMAIN ends = {Shell} \cup Pids /\ ToSet(pids) \subseteq Pids
  BY LenProperties, LineFacts DEF IInv, TypeOK
<1>3. CASE pc = "wait"
  <2>1. Chained
    BY <1>3 DEF Delivery, Flow
  <2>2. j + 1 \in DOMAIN pids /\ Alive(pids[j + 1]) /\ child[pids[j + 1]].in = child[c].out
    BY <1>1, <1>2, <2>1 DEF Chained
  <2>3. pids[j + 1] \in ToSet(pids)
    BY <2>2 DEF ToSet
  <2>4. child[c].out \in LinePipes
    BY <2>2, <2>3 DEF LinePipes
  <2>5. <<child[c].out, "r">> \in Grip(pids[j + 1])
    BY <2>2 DEF Grip
  <2>6. <<child[c].out, "r">> \in ends[pids[j + 1]] /\ pids[j + 1] \in DOMAIN ends
    BY <1>2, <2>2, <2>3, <2>5 DEF Delivery, EndsRight
  <2> QED
    BY <2>4, <2>6 DEF HasEnd
<1>4. CASE pc \in {"fork", "close"}
  <2>1. Forked
    BY <1>4 DEF Delivery, Flow
  <2>2. child[c].out = pipes[j] /\ j < Len(line.cmds) /\ j \in Nat /\ j > 0
    BY <1>1, <1>2, <2>1 DEF Forked
  <2>3. DOMAIN pipes = 1 .. Len(line.cmds) - 1 /\ Len(line.cmds) \in Nat
    <3>1. Len(pipes) = Len(line.cmds) - 1 /\ Len(line.cmds) \in Nat
      BY <1>2, <1>4, LineParts DEF Delivery, Flow, IInv, Progress
    <3> QED
      BY <1>2, <3>1, LenProperties DEF TypeOK
  <2>4. child[c].out \in ToSet(pipes)
    BY <2>2, <2>3 DEF ToSet
  <2>5. <<child[c].out, "r">> \in ends[Shell]
    BY <2>4 DEF Delivery, EndsRight, Ends
  <2> QED
    BY <1>2, <2>4, <2>5 DEF HasEnd, LinePipes
<1> QED
  BY <1>3, <1>4

\* What holds of the line once its units are where they were, or moved.
LEMMA FlowKept ==
  ASSUME IInv, Delivery, EndsRight', Amounts', Copies' = Copies, UNCHANGED shell,
         pids = <<>> => shown' = shown,
         Copies /\ pc \in {"fork", "close"} /\ Forked => Forked',
         Copies /\ pc = "wait" /\ Chained => Chained',
         Copies /\ pc \in {"pipe", "fork", "close", "wait"} =>
           shown' + Cardinality(InHands') + Cardinality(InPipes')
             = shown + Cardinality(InHands) + Cardinality(InPipes)
  PROVE  Delivery'
<1>1. UNCHANGED <<pc, line, pipes, pids>> /\ (pc = "prompt" => pids = <<>>)
  BY DEF shell, IInv, Progress
<1>2. Flow'
  <2>1. Copies /\ pc \in {"pipe", "fork", "close", "wait"} => Conserved'
    BY <1>1 DEF Delivery, Flow, Conserved
  <2> QED
    BY <1>1, <2>1 DEF Delivery, Flow
<1> QED
  BY <1>2 DEF Delivery

\* A process connects itself: it keeps the ends that it will use.
LEMMA SetupDelivers ==
  ASSUME IInv, Delivery, NEW c \in Pids, Setup(c)
  PROVE  Delivery'
<1>1. TypeOK /\ EndsRight /\ Amounts /\ Alive(c)
  BY DEF IInv, Delivery, Setup, Alive
<1>2. child[c] \in Process /\ child \in [Pids -> {Free, [st |-> "zombie"]} \cup Process]
      /\ ends \in [{Shell} \cup Pids -> SUBSET Ends(PipeIds)]
  BY <1>1, ChildFacts DEF TypeOK
<1>3. child' = [child EXCEPT ![c] = [child[c] EXCEPT !.st = "running", !.close = {}]]
  BY <1>2 DEF Setup
<1>4. /\ child'[c].st = "running" /\ child'[c].prog = child[c].prog
      /\ child'[c].in = child[c].in /\ child'[c].out = child[c].out
      /\ child'[c].todo = child[c].todo
      /\ \A d \in Pids \ {c} : child'[d] = child[d]
  <2>1. child'[c] = [child[c] EXCEPT !.st = "running", !.close = {}]
    BY <1>2, <1>3
  <2> QED
    BY <1>2, <1>3, <2>1 DEF Process
<1>5. /\ ends' = [ends EXCEPT ![c] = (@ \ Ends(child[c].close)) \cup Grip(c)]
      /\ UNCHANGED <<buf, shown>> /\ UNCHANGED shell
  BY DEF Setup, Grip
<1>6. /\ \A d \in Pids \ {c} : ends'[d] = ends[d]
      /\ ends'[Shell] = ends[Shell]
      /\ ends'[c] \subseteq ends[c] /\ Grip(c) \subseteq ends'[c]
  <2>1. Grip(c) \subseteq ends[c]
    BY <1>1 DEF EndsRight
  <2> QED
    BY <1>2, <1>5, <2>1, BashConstants
<1>7. /\ LinePipes' = LinePipes /\ EndsRight' /\ Copies' = Copies
      /\ Forked => Forked'
      /\ Chained => Chained'
      /\ \A d \in Pids : Alive(d)' = Alive(d)
  BY <1>1, <1>4, <1>5, <1>6, GoesOn
<1>8. Amounts'
  BY <1>1, <1>4, <1>5, <1>7 DEF Amounts
<1>9. InHands' = InHands /\ InPipes' = InPipes
  <2>1. InHands' = InHands
    BY <1>1, <1>4, <1>5, <1>7, HandsOf DEF shell
  <2> QED
    BY <1>5, <1>7, <2>1 DEF InPipes
<1> QED
  BY <1>5, <1>7, <1>8, <1>9, FlowKept

\* What a process that runs has to write changes by one; what it is stays.
LEMMA TodoSet ==
  ASSUME IInv, Delivery, NEW c \in Pids, Running(c), NEW v \in Nat,
         child' = [child EXCEPT ![c].todo = v], ends' = ends, UNCHANGED shell
  PROVE  /\ child'[c].todo = v /\ \A d \in Pids \ {c} : child'[d] = child[d]
         /\ LinePipes' = LinePipes /\ EndsRight' /\ Copies' = Copies
         /\ Forked => Forked'
         /\ Chained => Chained'
         /\ \A d \in Pids : Alive(d)' = Alive(d)
         /\ Alive(c) /\ child[c].todo \in Nat
         /\ child[c].in \in PipeIds \cup {TTY} /\ child[c].out \in PipeIds \cup {TTY}
<1>1. TypeOK /\ EndsRight /\ Alive(c)
  BY DEF IInv, Delivery, Running, Alive
<1>2. /\ child[c] \in Process /\ child \in [Pids -> {Free, [st |-> "zombie"]} \cup Process]
      /\ child[c].todo \in Nat
      /\ child[c].in \in PipeIds \cup {TTY} /\ child[c].out \in PipeIds \cup {TTY}
  BY <1>1, ChildFacts DEF TypeOK
<1>3. child' = [child EXCEPT ![c] = [child[c] EXCEPT !.todo = v]]
  BY <1>2
<1>4. /\ child'[c].st = "running" /\ child'[c].prog = child[c].prog
      /\ child'[c].in = child[c].in /\ child'[c].out = child[c].out
      /\ child'[c].todo = v
      /\ \A d \in Pids \ {c} : child'[d] = child[d]
  <2>1. child'[c] = [child[c] EXCEPT !.todo = v]
    BY <1>2, <1>3
  <2> QED
    BY <1>2, <1>3, <2>1 DEF Process, Running
<1>5. Grip(c) \subseteq ends[c]
  BY <1>1 DEF EndsRight
<1> QED
  BY <1>1, <1>2, <1>4, <1>5, GoesOn

LEMMA ShowDelivers ==
  ASSUME IInv, Delivery, NEW c \in Pids, Show(c)
  PROVE  Delivery'
<1>1. /\ Running(c) /\ child[c].todo > 0
      /\ child' = [child EXCEPT ![c].todo = @ - 1]
      /\ shown' = (IF c \in ToSet(pids) THEN shown + 1 ELSE shown)
      /\ UNCHANGED <<ends, buf>> /\ UNCHANGED shell
      /\ TypeOK /\ Amounts
  BY DEF Show, IInv, Delivery
<1>2. child[c].todo \in Nat /\ Alive(c)
  BY <1>1, ChildFacts DEF Running, Alive
<1>3. PICK v \in Nat : v = child[c].todo - 1
  BY <1>1, <1>2
<1>4. child' = [child EXCEPT ![c].todo = v]
  BY <1>1, <1>3 DEF TypeOK
<1>5. /\ child'[c].todo = v /\ \A d \in Pids \ {c} : child'[d] = child[d]
      /\ LinePipes' = LinePipes /\ EndsRight' /\ Copies' = Copies
      /\ Forked => Forked'
      /\ Chained => Chained'
      /\ \A d \in Pids : Alive(d)' = Alive(d)
  BY <1>1, <1>4, TodoSet
<1>6. Amounts'
  BY <1>1, <1>2, <1>3, <1>5, BashConstants DEF Amounts
<1>7. shown \in Nat /\ Cardinality(InHands) \in Nat /\ Cardinality(InPipes) \in Nat
  BY <1>1, LineFacts DEF TypeOK
<1>8. InPipes' = InPipes
  BY <1>1, <1>5 DEF InPipes
<1>9. shown' + Cardinality(InHands') + Cardinality(InPipes')
             = shown + Cardinality(InHands) + Cardinality(InPipes)
  <2>1. CASE c \in ToSet(pids)
    <3>1. Cardinality(InHands') = Cardinality(InHands) - 1
      BY <1>1, <1>2, <1>3, <1>5, <2>1, HandsOf DEF shell
    <3> QED
      BY <1>1, <1>7, <1>8, <2>1, <3>1
  <2>2. CASE c \notin ToSet(pids)
    <3>1. InHands' = InHands
      BY <1>1, <1>2, <1>5, <2>2, HandsOf DEF shell
    <3> QED
      BY <1>1, <1>8, <2>2, <3>1
  <2> QED
    BY <2>1, <2>2
<1>10. pids = <<>> => shown' = shown
  <2>1. pids = <<>> => ToSet(pids) = {}
    BY EmptySeq DEF ToSet
  <2> QED
    BY <1>1, <2>1
<1> QED
  BY <1>1, <1>5, <1>6, <1>9, <1>10, FlowKept

\* A unit goes into a pipe of the line if it was a process of the line that had it.
LEMMA PutDelivers ==
  ASSUME IInv, Delivery, NEW c \in Pids, Put(c), HasEnd(child[c].out, "r")
  PROVE  Delivery'
<1>1. /\ Running(c) /\ child[c].todo > 0 /\ child[c].out # TTY
      /\ child' = [child EXCEPT ![c].todo = @ - 1] /\ buf[child[c].out] < PipeSize
      /\ buf' = [buf EXCEPT ![child[c].out] = @ + 1]
      /\ UNCHANGED <<ends, shown>> /\ UNCHANGED shell
      /\ TypeOK /\ Amounts
  BY DEF Put, IInv, Delivery
<1>2. child[c].todo \in Nat /\ Alive(c) /\ child[c].out \in PipeIds
  BY <1>1, ChildFacts DEF Running, Alive
<1>3. PICK v \in Nat : v = child[c].todo - 1
  BY <1>1, <1>2
<1>4. PICK p \in PipeIds : p = child[c].out
  BY <1>2
<1>5. child' = [child EXCEPT ![c].todo = v]
  BY <1>1, <1>3 DEF TypeOK
<1>6. /\ child'[c].todo = v /\ \A d \in Pids \ {c} : child'[d] = child[d]
      /\ LinePipes' = LinePipes /\ EndsRight' /\ Copies' = Copies
      /\ Forked => Forked'
      /\ Chained => Chained'
      /\ \A d \in Pids : Alive(d)' = Alive(d)
  BY <1>1, <1>5, TodoSet
<1>7. buf'[p] = buf[p] + 1 /\ buf[p] < PipeSize /\ \A q \in PipeIds \ {p} : buf'[q] = buf[q]
  BY <1>1, <1>4 DEF TypeOK
<1>8. Amounts'
  <2>1. buf[p] \in Nat /\ PipeSize \in Nat /\ Units \in Nat
    BY <1>1, BashConstants DEF TypeOK
  <2> QED
    BY <1>1, <1>2, <1>3, <1>6, <1>7, <2>1 DEF Amounts
<1>9. shown \in Nat /\ Cardinality(InHands) \in Nat /\ Cardinality(InPipes) \in Nat
  BY <1>1, LineFacts DEF TypeOK
<1>10. ASSUME Copies, pc \in {"pipe", "fork", "close", "wait"}
       PROVE  shown' + Cardinality(InHands') + Cardinality(InPipes')
                = shown + Cardinality(InHands) + Cardinality(InPipes)
  <2>1. CASE c \in ToSet(pids)
    <3>1. pc # "pipe"
      <4>1. pc = "pipe" => pids = <<>>
        BY DEF IInv, Progress
      <4> QED
        BY <2>1, <4>1, EmptySeq DEF ToSet
    <3>2. p \in LinePipes
      BY <1>1, <1>2, <1>4, <1>10, <2>1, <3>1, Reader
    <3>3. Cardinality(InHands') = Cardinality(InHands) - 1
      BY <1>1, <1>2, <1>3, <1>6, <2>1, HandsOf DEF shell
    <3>4. Cardinality(InPipes') = Cardinality(InPipes) + 1
      BY <1>1, <1>6, <1>7, <3>2, PipesOf
    <3> QED
      BY <1>1, <1>9, <3>3, <3>4
  <2>2. CASE c \notin ToSet(pids)
    <3>1. p \notin LinePipes
      BY <1>1, <1>2, <1>4, <2>2, NotOurs DEF Delivery
    <3>2. InHands' = InHands
      BY <1>1, <1>2, <1>6, <2>2, HandsOf DEF shell
    <3>3. InPipes' = InPipes
      BY <1>1, <1>6, <1>7, <3>1, PipesOf
    <3> QED
      BY <1>1, <3>2, <3>3
  <2> QED
    BY <2>1, <2>2
<1> QED
  BY <1>1, <1>6, <1>8, <1>10, FlowKept

\* A cat of the line takes a unit out of a pipe of the line.
LEMMA GetDelivers ==
  ASSUME IInv, Delivery, NEW c \in Pids, Get(c)
  PROVE  Delivery'
<1>1. /\ Running(c) /\ child[c].todo = 0 /\ child[c].in # TTY /\ buf[child[c].in] > 0
      /\ child' = [child EXCEPT ![c].todo = 1]
      /\ buf' = [buf EXCEPT ![child[c].in] = @ - 1]
      /\ UNCHANGED <<ends, shown>> /\ UNCHANGED shell
      /\ TypeOK /\ Amounts
  BY DEF Get, IInv, Delivery
<1>2. child[c].todo \in Nat /\ Alive(c) /\ child[c].in \in PipeIds
  BY <1>1, ChildFacts DEF Running, Alive
<1>3. PICK p \in PipeIds : p = child[c].in
  BY <1>2
<1>4. /\ child'[c].todo = 1 /\ \A d \in Pids \ {c} : child'[d] = child[d]
      /\ LinePipes' = LinePipes /\ EndsRight' /\ Copies' = Copies
      /\ Forked => Forked'
      /\ Chained => Chained'
      /\ \A d \in Pids : Alive(d)' = Alive(d)
  BY <1>1, TodoSet
<1>5. buf'[p] = buf[p] - 1 /\ buf[p] > 0 /\ \A q \in PipeIds \ {p} : buf'[q] = buf[q]
  BY <1>1, <1>3 DEF TypeOK
<1>6. Amounts'
  <2>1. buf[p] \in Nat /\ PipeSize \in Nat /\ Units \in Nat
    BY <1>1, BashConstants DEF TypeOK
  <2> QED
    BY <1>1, <1>4, <1>5, <2>1 DEF Amounts
<1>7. shown \in Nat /\ Cardinality(InHands) \in Nat /\ Cardinality(InPipes) \in Nat
  BY <1>1, LineFacts DEF TypeOK
<1>8. shown' + Cardinality(InHands') + Cardinality(InPipes')
                = shown + Cardinality(InHands) + Cardinality(InPipes)
  <2>1. CASE c \in ToSet(pids)
    <3>1. p \in LinePipes
      BY <1>1, <1>2, <1>3, <2>1 DEF LinePipes
    <3>2. Cardinality(InHands') = Cardinality(InHands) + 1
      BY <1>1, <1>2, <1>4, <2>1, HandsOf DEF shell
    <3>3. Cardinality(InPipes') = Cardinality(InPipes) - 1
      BY <1>1, <1>4, <1>5, <3>1, PipesOf
    <3> QED
      BY <1>1, <1>7, <3>2, <3>3
  <2>2. CASE c \notin ToSet(pids)
    <3>1. p \notin LinePipes
      BY <1>1, <1>2, <1>3, <2>2, NotOurs DEF Delivery
    <3>2. InHands' = InHands
      BY <1>1, <1>2, <1>4, <2>2, HandsOf DEF shell
    <3>3. InPipes' = InPipes
      BY <1>1, <1>4, <1>5, <3>1, PipesOf
    <3> QED
      BY <1>1, <3>2, <3>3
  <2> QED
    BY <2>1, <2>2
<1> QED
  BY <1>1, <1>4, <1>6, <1>8, FlowKept

\* In such a line the first process is the gen.
LEMMA ProgramOf ==
  ASSUME IInv, Delivery, Copies, pc \in {"fork", "close", "wait"},
         NEW c \in ToSet(pids), Alive(c)
  PROVE  child[c].prog = IF child[c].in = TTY THEN "gen" ELSE "cat"
<1>1. PICK j \in DOMAIN pids : c = pids[j]
  BY DEF ToSet
<1>2. CASE pc = "wait"
  BY <1>1, <1>2 DEF Delivery, Flow, Chained
<1>3. CASE pc \in {"fork", "close"}
  <2>1. /\ child[c].prog = IF j = 1 THEN "gen" ELSE "cat"
        /\ child[c].in = IF j > 1 THEN pipes[j - 1] ELSE TTY
    BY <1>1, <1>3 DEF Delivery, Flow, Forked
  <2>2. TypeOK /\ pids \in Seq(Pids) /\ pipes \in Seq(PipeIds)
    BY DEF IInv, TypeOK
  <2>3. /\ Len(pipes) = Len(line.cmds) - 1 /\ Len(pids) <= Len(line.cmds)
        /\ Len(line.cmds) \in Nat /\ Len(pids) \in Nat
        /\ DOMAIN pids = 1 .. Len(pids)
    BY <1>3, <2>2, LineParts, LenProperties DEF Delivery, Flow, IInv, Progress
  <2>4. j \in Nat /\ j >= 1 /\ j <= Len(line.cmds)
    BY <2>3
  <2>5. CASE j = 1
    BY <2>1, <2>5
  <2>6. CASE j # 1
    <3>1. j - 1 \in 1 .. Len(pipes) /\ j > 1
      BY <2>3, <2>4, <2>6
    <3>2. pipes[j - 1] \in PipeIds
      BY <2>2, <3>1, ElementOfSeq
    <3> QED
      BY <2>1, <2>6, <3>1, <3>2, BashConstants
  <2> QED
    BY <2>5, <2>6
<1> QED
  BY <1>2, <1>3

\* A process ends: one of the line only with nothing in hand, and a cat only when its pipe
\* is empty and nobody can write to it.
LEMMA DeathDelivers ==
  ASSUME IInv, Delivery, NEW c \in Pids, Running(c), Dies(c), UNCHANGED <<shell, shown>>,
         Copies /\ c \in ToSet(pids) /\ pc \in {"fork", "close", "wait"} =>
           /\ child[c].todo = 0
           /\ child[c].prog = "cat" => buf[child[c].in] = 0 /\ ~HasEnd(child[c].in, "w")
  PROVE  Delivery'
<1>1. /\ TypeOK /\ EndsRight /\ Amounts /\ Alive(c) /\ ToSet(pids) \subseteq Pids
      /\ child \in [Pids -> {Free, [st |-> "zombie"]} \cup Process]
      /\ ends \in [{Shell} \cup Pids -> SUBSET Ends(PipeIds)] /\ buf \in [PipeIds -> Nat]
      /\ pids \in Seq(Pids) /\ pipes \in Seq(PipeIds)
  BY LineFacts DEF IInv, TypeOK, Delivery, Running, Alive
<1>2. /\ UNCHANGED <<pc, line, pipes, pids, shown>>
      /\ child'[c] = [st |-> "zombie"] /\ \A d \in Pids \ {c} : child'[d] = child[d]
      /\ ends'[c] = {} /\ \A d \in Pids \ {c} : ends'[d] = ends[d]
      /\ ends'[Shell] = ends[Shell]
      /\ \A p \in PipeIds :
           buf'[p] = IF \E q \in DOMAIN ends \ {c} : ends[q] \cap Ends({p}) # {}
                     THEN buf[p] ELSE 0
  BY <1>1, BashConstants DEF Dies, shell
<1>3. ~Alive(c)' /\ \A d \in Pids \ {c} : Alive(d)' = Alive(d)
  BY <1>2 DEF Alive
<1>4. { child'[d].in : d \in { e \in ToSet(pids) : Alive(e)' } }
          = { child[d].in : d \in { e \in ToSet(pids) : Alive(e) /\ e # c } }
  <2>1. { e \in ToSet(pids) : Alive(e)' } = { e \in ToSet(pids) : Alive(e) /\ e # c }
    BY <1>1, <1>3
  <2>2. \A d \in { e \in ToSet(pids) : Alive(e) /\ e # c } : child'[d].in = child[d].in
    BY <1>1, <1>2
  <2> QED
    BY <2>1, <2>2
<1>5. LinePipes' = ToSet(pipes) \cup
        ({ child[d].in : d \in { e \in ToSet(pids) : Alive(e) /\ e # c } } \ {TTY})
  BY <1>2, <1>4 DEF LinePipes
<1>6. /\ LinePipes' \subseteq LinePipes
      /\ \A p \in LinePipes : p \in LinePipes' \/ (p = child[c].in /\ c \in ToSet(pids))
      /\ LinePipes \subseteq PipeIds
  BY <1>1, <1>5, LineFacts DEF LinePipes
<1>7. \A p \in LinePipes' : buf'[p] = buf[p]
  <2> SUFFICES ASSUME NEW p \in LinePipes'
               PROVE  \E q \in DOMAIN ends \ {c} : ends[q] \cap Ends({p}) # {}
    BY <1>2, <1>6
  <2>1. CASE p \in ToSet(pipes)
    <3>1. <<p, "r">> \in ends[Shell] /\ <<p, "r">> \in Ends({p}) /\ Shell \in DOMAIN ends \ {c}
      BY <1>1, <2>1, BashConstants DEF EndsRight, Ends
    <3> QED
      BY <3>1
  <2>2. CASE p \notin ToSet(pipes)
    <3>1. PICK d \in ToSet(pids) : Alive(d) /\ d # c /\ p = child[d].in /\ p # TTY
      BY <1>5, <2>2
    <3>2. <<p, "r">> \in Grip(d) /\ d \in DOMAIN ends \ {c}
      BY <1>1, <3>1 DEF Grip
    <3>3. <<p, "r">> \in ends[d] /\ <<p, "r">> \in Ends({p})
      BY <1>1, <3>1, <3>2 DEF EndsRight, Ends
    <3> QED
      BY <3>2, <3>3
  <2> QED
    BY <2>1, <2>2
<1>8. EndsRight'
  <2>1. Ends(LinePipes') \subseteq Ends(LinePipes)
    BY <1>6 DEF Ends
  <2>2. \A d \in Pids : IF Alive(d)' THEN Grip(d)' \subseteq ends'[d] ELSE ends'[d] = {}
    <3>1. \A d \in Pids \ {c} : Grip(d)' = Grip(d)
      BY <1>2 DEF Grip
    <3>2. \A d \in Pids : IF Alive(d) THEN Grip(d) \subseteq ends[d] ELSE ends[d] = {}
      BY <1>1 DEF EndsRight
    <3> SUFFICES ASSUME NEW d \in Pids
                 PROVE  IF Alive(d)' THEN Grip(d)' \subseteq ends'[d] ELSE ends'[d] = {}
      OBVIOUS
    <3>3. CASE d = c
      BY <1>2, <1>3, <3>3
    <3>4. CASE d # c
      <4>1. Alive(d)' = Alive(d) /\ Grip(d)' = Grip(d) /\ ends'[d] = ends[d]
        BY <1>2, <1>3, <3>1, <3>4
      <4> QED
        BY ONLY <3>2, <4>1
    <3> QED
      BY <3>3, <3>4
  <2>3. \A d \in Pids \ ToSet(pids) : ends'[d] \cap Ends(LinePipes') = {}
    <3> SUFFICES ASSUME NEW d \in Pids \ ToSet(pids), d # c
                 PROVE  ends'[d] \cap Ends(LinePipes') = {}
      BY <1>2
    <3> QED
      BY <1>1, <1>2, <2>1 DEF EndsRight
  <2> QED
    BY <1>1, <1>2, <2>2, <2>3 DEF EndsRight
<1>9. Amounts'
  <2>1. \A p \in PipeIds : buf'[p] <= PipeSize
    <3> SUFFICES ASSUME NEW p \in PipeIds PROVE buf'[p] <= PipeSize
      OBVIOUS
    <3>1. buf'[p] = buf[p] \/ buf'[p] = 0
      BY <1>2
    <3>2. buf[p] <= PipeSize /\ PipeSize \in Nat
      BY <1>1, BashConstants DEF Amounts
    <3> QED
      BY <3>1, <3>2
  <2> QED
    BY <1>1, <1>2, <1>3, <2>1 DEF Amounts
<1>10. ASSUME Copies, c \in ToSet(pids), pc \in {"fork", "close", "wait"}
       PROVE  /\ child[c].todo = 0
              /\ child[c].in # TTY => buf[child[c].in] = 0 /\ ~HasEnd(child[c].in, "w")
  BY <1>1, <1>10, ProgramOf
<1>11. ASSUME Copies, pc \in {"pipe", "fork", "close", "wait"}
       PROVE  InHands' = InHands /\ InPipes' = InPipes
  <2>1. c \in ToSet(pids) => pc # "pipe"
    <3>1. pc = "pipe" => pids = <<>>
      BY DEF IInv, Progress
    <3> QED
      BY <3>1, EmptySeq DEF ToSet
  <2>2. \A d \in Pids, k \in 1 .. Units + 1 :
          (d \in ToSet(pids') /\ Alive(d)' /\ k <= child'[d].todo)
            <=> (d \in ToSet(pids) /\ Alive(d) /\ k <= child[d].todo)
    <3> SUFFICES ASSUME NEW d \in Pids, NEW k \in 1 .. Units + 1
                 PROVE  (d \in ToSet(pids') /\ Alive(d)' /\ k <= child'[d].todo)
                          <=> (d \in ToSet(pids) /\ Alive(d) /\ k <= child[d].todo)
      OBVIOUS
    <3>1. CASE d = c
      <4>1. c \in ToSet(pids) => ~(k <= child[c].todo)
        BY <1>10, <1>11, <2>1
      <4> QED
        BY <1>2, <1>3, <3>1, <4>1
    <3>2. CASE d # c
      BY <1>2, <1>3, <3>2
    <3> QED
      BY <3>1, <3>2
  <2>3. \A p \in PipeIds, k \in 1 .. PipeSize :
          (p \in LinePipes' /\ k <= buf'[p]) <=> (p \in LinePipes /\ k <= buf[p])
    <3> SUFFICES ASSUME NEW p \in LinePipes, p \notin LinePipes', NEW k \in 1 .. PipeSize
                 PROVE  ~(k <= buf[p])
      BY <1>6, <1>7
    <3>1. p = child[c].in /\ c \in ToSet(pids) /\ p # TTY
      BY <1>6, BashConstants
    <3>2. buf[p] = 0
      BY <1>10, <1>11, <2>1, <3>1
    <3> QED
      BY <3>2
  <2> QED
    BY <2>2, <2>3 DEF InHands, InPipes
<1>12. DOMAIN pids = 1 .. Len(pids) /\ Len(pids) \in Nat /\ \A j \in DOMAIN pids : pids[j] \in Pids
  BY <1>1, LenProperties, ElementOfSeq
<1>13. ASSUME Copies, pc \in {"fork", "close"}, Forked PROVE Forked'
  <2>1. ASSUME NEW j \in DOMAIN pids, pids[j] = c PROVE j = 1
    <3> SUFFICES ASSUME j # 1 PROVE FALSE
      OBVIOUS
    <3>1. c \in ToSet(pids) /\ j > 1
      BY <1>12, <2>1 DEF ToSet
    <3>2. child[c].in = pipes[j - 1]
      BY <1>1, <1>13, <2>1, <3>1 DEF Forked
    <3>3. /\ Len(pipes) = Len(line.cmds) - 1 /\ Len(pids) <= Len(line.cmds)
          /\ Len(line.cmds) \in Nat /\ DOMAIN pipes = 1 .. Len(pipes)
      BY <1>1, <1>12, <1>13, LineParts, LenProperties DEF Delivery, Flow, IInv, Progress
    <3>4. j - 1 \in DOMAIN pipes
      BY <1>12, <3>1, <3>3
    <3>5. pipes[j - 1] \in ToSet(pipes) /\ pipes[j - 1] \in PipeIds
      BY <1>1, <3>3, <3>4, ElementOfSeq DEF ToSet
    <3>6. <<pipes[j - 1], "w">> \in ends[Shell] /\ Shell \in DOMAIN ends
      BY <1>1, <3>5 DEF EndsRight, Ends
    <3>7. HasEnd(child[c].in, "w") /\ child[c].in # TTY
      BY <3>2, <3>5, <3>6, BashConstants DEF HasEnd
    <3> QED
      BY <1>10, <1>13, <3>1, <3>7
  <2> SUFFICES ASSUME NEW j \in DOMAIN pids
               PROVE  /\ j > 1 => child'[pids[j]].st \in {"setup", "running"}
                      /\ child'[pids[j]].st \in {"setup", "running"} =>
                           /\ child'[pids[j]].prog = IF j = 1 THEN "gen" ELSE "cat"
                           /\ child'[pids[j]].in = IF j > 1 THEN pipes[j - 1] ELSE TTY
                           /\ child'[pids[j]].out = IF j < Len(line.cmds) THEN pipes[j] ELSE TTY
    BY <1>2 DEF Forked, Alive
  <2>2. CASE pids[j] = c
    BY <1>2, <2>1, <2>2
  <2>3. CASE pids[j] # c
    <3>1. child'[pids[j]] = child[pids[j]]
      BY <1>2, <1>12, <2>3
    <3> QED
      BY <1>13, <3>1 DEF Forked, Alive
  <2> QED
    BY <2>2, <2>3
<1>14. ASSUME Copies, pc = "wait", Chained PROVE Chained'
  <2> SUFFICES ASSUME NEW j \in DOMAIN pids, child'[pids[j]].st \in {"setup", "running"}
               PROVE  /\ child'[pids[j]].prog = IF child'[pids[j]].in = TTY THEN "gen" ELSE "cat"
                      /\ IF j = Len(pids) THEN child'[pids[j]].out = TTY
                         ELSE /\ child'[pids[j]].out # TTY
                              /\ child'[pids[j + 1]].st \in {"setup", "running"}
                              /\ child'[pids[j + 1]].in = child'[pids[j]].out
    BY <1>2 DEF Chained, Alive
  <2>1. pids[j] # c /\ child'[pids[j]] = child[pids[j]] /\ Alive(pids[j])
    BY <1>2, <1>12 DEF Alive
  <2>2. CASE j = Len(pids)
    BY <1>14, <2>1, <2>2 DEF Chained
  <2>3. CASE j # Len(pids)
    <3>1. j + 1 \in DOMAIN pids /\ pids[j + 1] \in Pids
      BY <1>12, <2>3
    <3>2. child[pids[j]].out # TTY /\ Alive(pids[j + 1]) /\ child[pids[j + 1]].in = child[pids[j]].out
      BY <1>14, <2>1, <2>3 DEF Chained
    <3>3. pids[j + 1] # c
      <4> SUFFICES ASSUME pids[j + 1] = c PROVE FALSE
        OBVIOUS
      <4>1. c \in ToSet(pids)
        BY <3>1 DEF ToSet
      <4>2. <<child[c].in, "w">> \in Grip(pids[j])
        BY <3>2 DEF Grip
      <4>3. <<child[c].in, "w">> \in ends[pids[j]] /\ pids[j] \in DOMAIN ends
        BY <1>1, <1>12, <2>1, <4>2 DEF EndsRight
      <4>4. HasEnd(child[c].in, "w")
        BY <4>3 DEF HasEnd
      <4> QED
        BY <1>10, <1>14, <3>2, <4>1, <4>4
    <3>4. child'[pids[j + 1]] = child[pids[j + 1]]
      BY <1>2, <3>1, <3>3
    <3> QED
      BY <1>14, <2>1, <2>3, <3>2, <3>4 DEF Chained, Alive
  <2> QED
    BY <2>2, <2>3
<1> QED
  BY <1>2, <1>8, <1>9, <1>11, <1>13, <1>14, FlowKept DEF Copies, shell

LEMMA StepDelivers == IInv /\ IInv' /\ Delivery /\ [Next]_vars => Delivery'
<1> SUFFICES ASSUME IInv, IInv', Delivery, [Next]_vars PROVE Delivery'
  OBVIOUS
<1>1. CASE UNCHANGED vars
  BY <1>1 DEF vars, Delivery, EndsRight, Amounts, Flow, Forked, Chained, Conserved, InHands,
              InPipes, LinePipes, Grip, Alive, Copies
<1>2. ASSUME NEW c \in Pids, ChildStep(c) PROVE Delivery'
  <2>1. CASE Setup(c)
    BY <2>1, SetupDelivers
  <2>2. CASE Show(c)
    BY <2>2, ShowDelivers
  <2>3. CASE Put(c)
    <3>1. CASE HasEnd(child[c].out, "r")
      BY <2>3, <3>1, PutDelivers
    <3>2. CASE ~HasEnd(child[c].out, "r")
      <4>1. Running(c) /\ Dies(c) /\ UNCHANGED <<shell, shown>> /\ child[c].out # TTY
        BY <2>3, <3>2 DEF Put
      <4>2. ~(Copies /\ c \in ToSet(pids) /\ pc \in {"fork", "close", "wait"})
        BY <3>2, <4>1, Reader DEF Running, Alive
      <4> QED
        BY <4>1, <4>2, DeathDelivers
    <3> QED
      BY <3>1, <3>2
  <2>4. CASE Get(c)
    BY <2>4, GetDelivers
  <2>5. CASE Finish(c)
    BY <2>5, DeathDelivers DEF Finish
  <2> QED
    BY <1>2, <2>1, <2>2, <2>3, <2>4, <2>5 DEF ChildStep
<1>3. CASE AllForked
  BY <1>3, AllForkedDelivers, LoopSteps
<1> QED
  BY <1>1, <1>2, <1>3, LoopSteps, MakePipeDelivers, ForkDelivers, WaitOneDelivers
  DEF Next, ShellStep

\* A foreground pipeline of commands that run to their end delivers everything, for any
\* number of commands, any sizes of pipes, and whatever else runs in the background: no
\* process reads or writes the pipes of another line, a reader stays as long as its writer
\* and ends only when its pipe is empty (execute_pipeline).
THEOREM PipelinesDeliver == Spec => []AllDelivered
<1>1. IInv /\ Delivery => AllDelivered
  <2> SUFFICES ASSUME IInv, Delivery, pc = "wait", pids = <<>>, Copies PROVE shown = Units
    BY DEF AllDelivered, Copies
  <2>1. ToSet(pids) = {} /\ ToSet(pipes) = {}
    BY EmptySeq DEF ToSet, IInv, Progress
  <2>2. LinePipes = {}
    BY <2>1 DEF LinePipes
  <2>3. InHands = {} /\ InPipes = {}
    BY <2>1, <2>2 DEF InHands, InPipes
  <2>4. shown + Cardinality(InHands) + Cardinality(InPipes) = Units /\ shown \in Nat
    BY DEF Delivery, Flow, Conserved, IInv, TypeOK
  <2> QED
    BY <2>3, <2>4, FS_EmptySet
<1>2. Spec => []Delivery
  BY InitDelivers, StepDelivers, Invariance, PTL DEF Spec
<1> QED
  BY <1>1, <1>2, Invariance, PTL

============================================================================
