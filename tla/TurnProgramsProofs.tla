--------------------------- MODULE TurnProgramsProofs ---------------------------
(***************************************************************************)
(* Theorems about pingpong and tateti, for any number of runs of either at *)
(* the same time and whichever semaphores other programs have open.        *)
(***************************************************************************)
EXTENDS TurnPrograms, SequenceTheorems, TLAPS

SemIds == P!Ids \cup T!Words

PingPcs ==
  {"open_ping", "open_pong", "undo_ping", "fork", "down", "print", "up", "wait",
   "close_ping", "close_pong", "exited"}

LoopPcs == {"none", "down", "print", "up", "exited"}

SemType == sem \in [SemIds -> Nat \cup {NotInUse}]

PingType ==
  /\ pingParent \in [PingRuns -> PingPcs]
  /\ pingChild \in [PingRuns -> LoopPcs]
  /\ i \in [PingRuns -> Nat] /\ j \in [PingRuns -> Nat]
  /\ pingOut \in [PingRuns -> Seq({"ping", "pong"})]

TatetiType ==
  /\ opener \in [T!Words -> SUBSET TatetiRuns]
  /\ main \in [TatetiRuns -> {"open", "fork1", "fork2", "loop", "close", "exited"}]
  /\ idx \in [TatetiRuns -> 0..3] /\ stop \in [TatetiRuns -> 0..3]
  /\ at \in [TatetiRuns -> [T!Words -> LoopPcs]]
  /\ round \in [TatetiRuns -> [T!Words -> Nat]]
  /\ tatetiOut \in [TatetiRuns -> Seq(T!Words)]
  /\ foreign \subseteq TatetiRuns

TypeOK == SemType /\ PingType /\ TatetiType

\* Where main of pingpong is while the run has each of its semaphores open.
HasPing(r) == pingParent[r] \notin {"open_ping", "close_pong", "exited"}
HasPong(r) == pingParent[r] \notin {"open_ping", "open_pong", "undo_ping", "exited"}

\* A number of pingpong is in use while another program or the run itself has it open.
Numbered(id, has) ==
  /\ id \in Taken => sem[id] = 0
  /\ id \in Taken /\ P!InRange(id) => ~has
  /\ id \notin Taken => (sem[id] # NotInUse <=> has /\ P!InRange(id))

PingOwns == \A r \in PingRuns : Numbered(P!Ping(r), HasPing(r)) /\ Numbered(P!Pong(r), HasPong(r))

\* The child of a run of pingpong lives only while its parent is in the loop or waits.
ChildKept ==
  \A r \in PingRuns :
    /\ pingChild[r] \in {"down", "print", "up"} => pingParent[r] \in {"down", "print", "up", "wait"}
    /\ pingParent[r] \in {"open_ping", "open_pong", "undo_ping", "fork"} => pingChild[r] = "none"

Even(n) == n % 2 = 0

\* The one permit of a run of pingpong: in a semaphore, or with the process whose turn
\* it is; an even number of words is out when it is the turn of the child.
Talks(pc) == pc \in {"print", "up"}
PingTurn(r) ==
  \/ /\ ~Talks(pingChild[r]) /\ ~Talks(pingParent[r])
     /\ \/ sem[P!Ping(r)] = 1 /\ sem[P!Pong(r)] = 0 /\ Even(Len(pingOut[r]))
        \/ sem[P!Ping(r)] = 0 /\ sem[P!Pong(r)] = 1 /\ ~Even(Len(pingOut[r]))
  \/ /\ sem[P!Ping(r)] = 0 /\ sem[P!Pong(r)] = 0 /\ ~Talks(pingParent[r])
     /\ \/ pingChild[r] = "print" /\ Even(Len(pingOut[r]))
        \/ pingChild[r] = "up" /\ ~Even(Len(pingOut[r]))
  \/ /\ sem[P!Ping(r)] = 0 /\ sem[P!Pong(r)] = 0 /\ ~Talks(pingChild[r])
     /\ \/ pingParent[r] = "print" /\ ~Even(Len(pingOut[r]))
        \/ pingParent[r] = "up" /\ Even(Len(pingOut[r]))

PingRunTurn(r) ==
  /\ pingParent[r] = "open_pong" => sem[P!Ping(r)] = 1
  /\ pingParent[r] \in {"open_ping", "open_pong"} => pingOut[r] = <<>>
  /\ pingParent[r] \in {"fork", "down", "print", "up", "wait"} => PingTurn(r)

PingTurns == \A r \in PingRuns : PingRunTurn(r)

\* The semaphores a run of tateti has to close: those it has opened, all three once it
\* is past them, and when it closes them those that are left.
Owns(r, k) ==
  \/ main[r] = "open" /\ k < idx[r]
  \/ main[r] \in {"fork1", "fork2", "loop"}
  \/ main[r] = "close" /\ k \in idx[r]..(stop[r] - 1)

RunOwns(r) ==
  /\ main[r] = "open" => idx[r] < 3
  /\ main[r] = "close" => idx[r] < stop[r]
  /\ \A k \in T!Words : Owns(r, k) <=> (sem[k] # NotInUse /\ opener[k] = {r})

TatetiOwns == foreign = {} /\ \A r \in TatetiRuns : RunOwns(r)

\* The processes of a run of tateti that are in their loops have been forked, and not
\* been waited for.
LoopsKept ==
  \A r \in TatetiRuns :
    /\ main[r] \in {"open", "fork1"} => at[r][0] = "none"
    /\ main[r] \in {"open", "fork1", "fork2"} => at[r][1] = "none" /\ at[r][2] = "none"
    /\ \A k \in T!Words : at[r][k] \in {"down", "print", "up"} => main[r] \in {"fork2", "loop"}

\* The one permit of a run of tateti is at process k: in its semaphore or in its hands.
TatetiTurn(r, k) ==
  /\ \A m \in T!Words : m # k => sem[m] = 0 /\ ~Talks(at[r][m])
  /\ \/ sem[k] = 1 /\ ~Talks(at[r][k]) /\ Len(tatetiOut[r]) % 3 = k
     \/ sem[k] = 0 /\ at[r][k] = "print" /\ Len(tatetiOut[r]) % 3 = k
     \/ sem[k] = 0 /\ at[r][k] = "up" /\ Len(tatetiOut[r]) % 3 = T!Next3(k)

TatetiRunTurn(r) ==
  /\ main[r] = "open" => /\ tatetiOut[r] = <<>>
                         /\ \A k \in T!Words : k < idx[r] => sem[k] = IF k = 0 THEN 1 ELSE 0
  /\ main[r] \in {"fork1", "fork2", "loop"} => \E k \in T!Words : TatetiTurn(r, k)

TatetiTurns == \A r \in TatetiRuns : TatetiRunTurn(r)

\* What keeps the runs off each other's semaphores.
Separate == TypeOK /\ PingOwns /\ ChildKept /\ TatetiOwns

IInv == Separate /\ PingTurns /\ P!InOrder /\ LoopsKept /\ TatetiTurns /\ T!InOrder

------------------------------------------------------------------------------

\* The numbers of the runs of pingpong are apart, from one another and from 0, 1 and 2.
LEMMA Numbers ==
  /\ \A r \in PingRuns :
       /\ P!Ping(r) \in P!Ids /\ P!Pong(r) \in P!Ids
       /\ P!Ping(r) \in SemIds /\ P!Pong(r) \in SemIds
       /\ P!Ping(r) \in Nat /\ P!Pong(r) \in Nat
       /\ P!Ping(r) \notin T!Words /\ P!Pong(r) \notin T!Words
  /\ \A q, r \in PingRuns :
       /\ P!Ping(q) # P!Pong(r)
       /\ q # r => P!Ping(q) # P!Ping(r) /\ P!Pong(q) # P!Pong(r)
  /\ T!Words = {0, 1, 2} /\ T!Words \subseteq SemIds /\ P!Ids \cap T!Words = {}
  /\ \A id \in P!Ids : \E r \in PingRuns : id = P!Ping(r) \/ id = P!Pong(r)
BY TurnAssumption DEF TurnAssumption, SemIds, P!Ids, P!Ping, P!Pong, T!Words

\* A word more goes at the end of what is out.
LEMMA OneMore ==
  ASSUME NEW S, NEW s \in Seq(S), NEW e \in S
  PROVE  /\ Append(s, e) \in Seq(S) /\ Len(s) \in Nat /\ Len(Append(s, e)) = Len(s) + 1
         /\ \A n \in 1..Len(s) : Append(s, e)[n] = s[n]
         /\ Append(s, e)[Len(s) + 1] = e
BY AppendProperties, LenProperties

\* The steps of pingpong leave the semaphores of tateti alone, and the other way round.
LEMMA Apart ==
  /\ TypeOK /\ P!Next => \A k \in T!Words : sem'[k] = sem[k]
  /\ TypeOK /\ T!Next /\ TatetiOwns => \A id \in P!Ids : sem'[id] = sem[id]
<1>1. TypeOK /\ P!Next => \A k \in T!Words : sem'[k] = sem[k]
  BY Numbers DEF TypeOK, P!Next, P!Step, P!ChildStep, P!OpenPing, P!OpenPong, P!UndoPing, P!Fork,
    P!ParentDown, P!ParentPrint, P!ParentUp, P!Wait, P!ClosePing, P!ClosePong, P!ChildDown,
    P!ChildPrint, P!ChildUp, P!OpenCall, P!Call, SemType
<1>2. TypeOK /\ T!Next /\ TatetiOwns => \A id \in P!Ids : sem'[id] = sem[id]
  <2> SUFFICES ASSUME TypeOK, T!Next, TatetiOwns, NEW id \in P!Ids PROVE sem'[id] = sem[id]
    OBVIOUS
  <2> USE Numbers DEF TypeOK, SemType, TatetiType
  <2>1. ASSUME NEW r \in TatetiRuns, T!Open(r) PROVE sem'[id] = sem[id]
    <3>1. idx[r] \in T!Words
      BY <2>1 DEF TatetiOwns, RunOwns, T!Open
    <3> QED
      BY <2>1, <3>1 DEF T!Open
  <2>2. ASSUME NEW r \in TatetiRuns, T!Close(r) PROVE sem'[id] = sem[id]
    <3>1. idx[r] \in T!Words
      BY <2>2 DEF TatetiOwns, RunOwns, T!Close
    <3> QED
      BY <2>2, <3>1 DEF T!Close
  <2>3. ASSUME NEW r \in TatetiRuns, NEW k \in T!Words, T!LoopStep(r, k) PROVE sem'[id] = sem[id]
    <3>1. T!Next3(k) \in T!Words
      BY DEF T!Next3
    <3>2. CASE T!Down(r, k)
      BY <3>2 DEF T!Down
    <3>3. CASE T!PrintWord(r, k)
      BY <3>3 DEF T!PrintWord
    <3>4. CASE T!Up(r, k)
      BY <3>4, <3>1 DEF T!Up
    <3> QED
      BY <2>3, <3>2, <3>3, <3>4 DEF T!LoopStep
  <2> QED
    BY <2>1, <2>2, <2>3 DEF T!Next, T!MainStep, T!Fork, T!Wait
<1> QED
  BY <1>1, <1>2

------------------------------------------------------------------------------

\* What holds before the first step.
LEMMA Initially == Init => IInv
<1> SUFFICES ASSUME Init PROVE IInv
  OBVIOUS
<1> USE Numbers, TurnAssumption DEF TypeOK, SemType, PingType, TatetiType, TurnAssumption,
  Init, P!LocalInit, T!LocalInit, NotInUse
<1>1. TypeOK
  <2>1. sem \in [SemIds -> Nat \cup {NotInUse}]
    BY DEF SemIds
  <2>2. /\ pingOut \in [PingRuns -> Seq({"ping", "pong"})]
        /\ tatetiOut \in [TatetiRuns -> Seq(T!Words)]
    BY EmptySeq
  <2>3. /\ pingParent \in [PingRuns -> PingPcs] /\ pingChild \in [PingRuns -> LoopPcs]
        /\ at \in [TatetiRuns -> [T!Words -> LoopPcs]]
        /\ main \in [TatetiRuns -> {"open", "fork1", "fork2", "loop", "close", "exited"}]
    BY DEF PingPcs, LoopPcs
  <2> QED
    BY <2>1, <2>2, <2>3 DEF TypeOK
<1>2. PingOwns
  BY DEF PingOwns, Numbered, HasPing, HasPong, SemIds
<1>3. TatetiOwns
  <2>1. \A r \in TatetiRuns, k \in T!Words : ~Owns(r, k) /\ opener[k] # {r}
    BY DEF Owns
  <2> QED
    BY <2>1 DEF TatetiOwns, RunOwns
<1>4. ChildKept /\ PingTurns
  BY DEF ChildKept, PingTurns, PingRunTurn
<1>5. LoopsKept /\ TatetiTurns
  BY DEF LoopsKept, TatetiTurns, TatetiRunTurn
<1>6. P!InOrder /\ T!InOrder
  BY EmptySeq DEF P!InOrder, T!InOrder
<1> QED
  BY <1>1, <1>2, <1>3, <1>4, <1>5, <1>6 DEF IInv, Separate

\* The steps of pingpong leave the types of the fields.
LEMMA PingTypeStep ==
  ASSUME TypeOK, P!Next, UNCHANGED tatetiVars
  PROVE  TypeOK'
<1> USE Numbers DEF TypeOK, SemType, PingType, TatetiType, tatetiVars, PingPcs, LoopPcs,
      P!OpenCall, P!Call, P!Goto, P!ChildGoto, P!OpenSem, P!CloseSem, P!UpSem, P!DownSem,
      P!DownBlocks,
      NotInUse, P!NotInUse, T!NotInUse
<1>1. ASSUME NEW r \in PingRuns, P!OpenPing(r) PROVE SemType' /\ PingType'
  BY <1>1 DEF P!OpenPing
<1>2. ASSUME NEW r \in PingRuns, P!OpenPong(r) PROVE SemType' /\ PingType'
  BY <1>2 DEF P!OpenPong
<1>3. ASSUME NEW r \in PingRuns, P!UndoPing(r) PROVE SemType' /\ PingType'
  BY <1>3 DEF P!UndoPing
<1>4. ASSUME NEW r \in PingRuns, P!Fork(r) PROVE SemType' /\ PingType'
  BY <1>4 DEF P!Fork
<1>5. ASSUME NEW r \in PingRuns, P!ParentDown(r) PROVE SemType' /\ PingType'
  <2>1. sem' \in [SemIds -> Nat \cup {NotInUse}]
    BY <1>5 DEF P!ParentDown
  <2>2. pingParent' \in [PingRuns -> PingPcs]
    BY <1>5 DEF P!ParentDown
  <2> QED
    BY <1>5, <2>1, <2>2 DEF P!ParentDown
<1>6. ASSUME NEW r \in PingRuns, P!ParentPrint(r) PROVE SemType' /\ PingType'
  <2>1. Append(pingOut[r], "pong") \in Seq({"ping", "pong"})
    BY OneMore
  <2>2. pingOut' \in [PingRuns -> Seq({"ping", "pong"})]
    BY <1>6, <2>1 DEF P!ParentPrint
  <2>3. UNCHANGED <<sem, i, j>>
    BY <1>6 DEF P!ParentPrint
  <2>4. pingParent' \in [PingRuns -> PingPcs] /\ pingChild' \in [PingRuns -> LoopPcs]
    BY <1>6 DEF P!ParentPrint
  <2> QED
    BY ONLY TypeOK, <2>2, <2>3, <2>4 DEF TypeOK, SemType, PingType
<1>7. ASSUME NEW r \in PingRuns, P!ParentUp(r) PROVE SemType' /\ PingType'
  <2>1. sem' \in [SemIds -> Nat \cup {NotInUse}]
    BY <1>7 DEF P!ParentUp
  <2>2. pingParent' \in [PingRuns -> PingPcs] /\ i' \in [PingRuns -> Nat]
    BY <1>7 DEF P!ParentUp
  <2> QED
    BY <1>7, <2>1, <2>2 DEF P!ParentUp
<1>8. ASSUME NEW r \in PingRuns, P!Wait(r) PROVE SemType' /\ PingType'
  BY <1>8 DEF P!Wait
<1>9. ASSUME NEW r \in PingRuns, P!ClosePing(r) PROVE SemType' /\ PingType'
  BY <1>9 DEF P!ClosePing
<1>10. ASSUME NEW r \in PingRuns, P!ClosePong(r) PROVE SemType' /\ PingType'
  BY <1>10 DEF P!ClosePong
<1>11. ASSUME NEW r \in PingRuns, P!ChildDown(r) PROVE SemType' /\ PingType'
  BY <1>11 DEF P!ChildDown
<1>12. ASSUME NEW r \in PingRuns, P!ChildPrint(r) PROVE SemType' /\ PingType'
  <2>1. Append(pingOut[r], "ping") \in Seq({"ping", "pong"})
    BY OneMore
  <2>2. pingOut' \in [PingRuns -> Seq({"ping", "pong"})]
    BY <1>12, <2>1 DEF P!ChildPrint
  <2>3. UNCHANGED <<sem, i, j>>
    BY <1>12 DEF P!ChildPrint
  <2>4. pingParent' \in [PingRuns -> PingPcs] /\ pingChild' \in [PingRuns -> LoopPcs]
    BY <1>12 DEF P!ChildPrint
  <2> QED
    BY ONLY TypeOK, <2>2, <2>3, <2>4 DEF TypeOK, SemType, PingType
<1>13. ASSUME NEW r \in PingRuns, P!ChildUp(r) PROVE SemType' /\ PingType'
  <2>1. sem' \in [SemIds -> Nat \cup {NotInUse}]
    BY <1>13 DEF P!ChildUp
  <2>2. pingChild' \in [PingRuns -> LoopPcs] /\ j' \in [PingRuns -> Nat]
    BY <1>13 DEF P!ChildUp
  <2> QED
    BY <1>13, <2>1, <2>2 DEF P!ChildUp
<1>14. TatetiType'
  OBVIOUS
<1> QED
  BY <1>1, <1>2, <1>3, <1>4, <1>5, <1>6, <1>7, <1>8, <1>9, <1>10, <1>11, <1>12, <1>13,
    <1>14 DEF P!Next, P!Step, P!ChildStep

\* What each step of tateti does.  The next semaphore is opened, or it is in use and the
\* run closes those it has.
GivesUp(r, n) ==
  /\ main' = [main EXCEPT ![r] = IF n = 0 THEN "exited" ELSE "close"]
  /\ idx' = [idx EXCEPT ![r] = 0] /\ stop' = [stop EXCEPT ![r] = n]
  /\ sem' = sem /\ opener' = opener /\ at' = at /\ round' = round
  /\ tatetiOut' = tatetiOut /\ foreign' = foreign

Opened(r) ==
  /\ main[r] = "open" /\ idx[r] \in T!Words /\ sem[idx[r]] = NotInUse
  /\ sem' = [sem EXCEPT ![idx[r]] = IF idx[r] = 0 THEN 1 ELSE 0]
  /\ opener' = [opener EXCEPT ![idx[r]] = {r}]
  /\ main' = [main EXCEPT ![r] = IF idx[r] = 2 THEN "fork1" ELSE "open"]
  /\ idx' = [idx EXCEPT ![r] = idx[r] + 1]
  /\ stop' = stop /\ at' = at /\ round' = round /\ tatetiOut' = tatetiOut /\ foreign' = foreign

Refused(r) == main[r] = "open" /\ idx[r] \in T!Words /\ GivesUp(r, idx[r])

\* A fork starts one child, then another and the parent's own loop, or it fails.
FirstFork(r) ==
  /\ main[r] = "fork1" /\ main' = [main EXCEPT ![r] = "fork2"]
  /\ at' = [at EXCEPT ![r] = [at[r] EXCEPT ![0] = "down"]]
  /\ idx' = idx /\ stop' = stop /\ sem' = sem /\ opener' = opener /\ round' = round
  /\ tatetiOut' = tatetiOut /\ foreign' = foreign

SecondFork(r) ==
  /\ main[r] = "fork2" /\ main' = [main EXCEPT ![r] = "loop"]
  /\ at' = [at EXCEPT ![r] = [at[r] EXCEPT ![1] = "down", ![2] = "down"]]
  /\ idx' = idx /\ stop' = stop /\ sem' = sem /\ opener' = opener /\ round' = round
  /\ tatetiOut' = tatetiOut /\ foreign' = foreign

ForkError(r) ==
  /\ main[r] = "fork1" \/ (main[r] = "fork2" /\ 2 \in ForkFails)
  /\ GivesUp(r, 3)

\* All loops are over.
Waited(r) == main[r] = "loop" /\ (\A k \in T!Words : at[r][k] = "exited") /\ GivesUp(r, 3)

\* A semaphore is closed.
Closed(r) ==
  /\ main[r] = "close" /\ idx[r] \in T!Words /\ stop[r] \in 0..3 /\ idx[r] < stop[r]
  /\ sem' = [sem EXCEPT ![idx[r]] = NotInUse]
  /\ foreign' = IF sem[idx[r]] # NotInUse /\ opener[idx[r]] # {r} THEN foreign \cup {r} ELSE foreign
  /\ idx' = [idx EXCEPT ![r] = idx[r] + 1]
  /\ main' = [main EXCEPT ![r] = IF idx[r] + 1 = stop[r] THEN "exited" ELSE "close"]
  /\ opener' = opener /\ stop' = stop /\ at' = at /\ round' = round /\ tatetiOut' = tatetiOut

\* A process in its loop takes a permit, prints, or gives the next one a permit.
LoopGoes(r, k, from, to) ==
  /\ at[r][k] = from /\ at' = [at EXCEPT ![r] = [at[r] EXCEPT ![k] = to]]
  /\ opener' = opener /\ main' = main /\ idx' = idx /\ stop' = stop /\ foreign' = foreign

Takes(r, k) ==
  /\ LoopGoes(r, k, "down", "print")
  /\ sem[k] # 0
  /\ sem' = [sem EXCEPT ![k] = IF sem[k] = NotInUse THEN NotInUse ELSE sem[k] - 1]
  /\ round' = round /\ tatetiOut' = tatetiOut

Prints(r, k) ==
  /\ LoopGoes(r, k, "print", "up")
  /\ tatetiOut' = [tatetiOut EXCEPT ![r] = Append(tatetiOut[r], k)]
  /\ sem' = sem /\ round' = round

Passes(r, k) ==
  /\ \E to \in {"down", "exited"} : LoopGoes(r, k, "up", to)
  /\ T!Next3(k) \in T!Words
  /\ sem' = [sem EXCEPT ![T!Next3(k)] =
               IF sem[T!Next3(k)] = NotInUse THEN NotInUse ELSE sem[T!Next3(k)] + 1]
  /\ round' \in [TatetiRuns -> [T!Words -> Nat]]
  /\ tatetiOut' = tatetiOut

\* There are no other steps.
LEMMA TatetiSteps ==
  ASSUME TypeOK, TatetiOwns, T!Next
  PROVE  \E r \in TatetiRuns :
           \/ Opened(r) \/ Refused(r) \/ FirstFork(r) \/ SecondFork(r) \/ ForkError(r)
           \/ Waited(r) \/ Closed(r)
           \/ \E k \in T!Words : Takes(r, k) \/ Prints(r, k) \/ Passes(r, k)
<1> USE Numbers DEF TypeOK, SemType, TatetiType,
      T!Goto, T!CloseFirst, T!OpenSem, T!CloseSem, T!UpSem, T!DownSem, T!DownBlocks,
      NotInUse, P!NotInUse, T!NotInUse
<1>1. ASSUME NEW r \in TatetiRuns, T!Open(r) PROVE Opened(r) \/ Refused(r)
  <2>1. main[r] = "open" /\ idx[r] \in T!Words
    <3>1. main[r] = "open" /\ idx[r] \in 0..3 /\ idx[r] < 3
      BY <1>1 DEF TatetiOwns, RunOwns, T!Open
    <3> QED
      BY <3>1
  <2>2. CASE sem[idx[r]] = NotInUse
    BY <1>1, <2>1, <2>2 DEF T!Open, Opened
  <2>3. CASE sem[idx[r]] # NotInUse
    <3>1. [sem EXCEPT ![idx[r]] = sem[idx[r]]] = sem
      OBVIOUS
    <3> QED
      BY <1>1, <2>1, <2>3, <3>1 DEF T!Open, Refused, GivesUp
  <2> QED
    BY <2>2, <2>3
<1>2. ASSUME NEW r \in TatetiRuns, T!Fork(r, 1) PROVE FirstFork(r) \/ ForkError(r)
  <2>1. main[r] = "fork1"
    BY <1>2 DEF T!Fork
  <2>2. CASE main' = [main EXCEPT ![r] = "fork2"]
    BY <1>2, <2>1, <2>2 DEF T!Fork, FirstFork
  <2>3. CASE main' # [main EXCEPT ![r] = "fork2"]
    BY <1>2, <2>1, <2>3 DEF T!Fork, ForkError, GivesUp
  <2> QED
    BY <2>2, <2>3
<1>3. ASSUME NEW r \in TatetiRuns, T!Fork(r, 2) PROVE SecondFork(r) \/ ForkError(r)
  BY <1>3 DEF T!Fork, SecondFork, ForkError, GivesUp
<1>4. ASSUME NEW r \in TatetiRuns, T!Wait(r) PROVE Waited(r)
  BY <1>4 DEF T!Wait, Waited, GivesUp
<1>5. ASSUME NEW r \in TatetiRuns, T!Close(r) PROVE Closed(r)
  <2>1. main[r] = "close" /\ idx[r] \in 0..3 /\ stop[r] \in 0..3 /\ idx[r] < stop[r]
    BY <1>5 DEF TatetiOwns, RunOwns, T!Close
  <2>2. idx[r] \in T!Words
    BY <2>1
  <2> QED
    BY <1>5, <2>1, <2>2 DEF T!Close, Closed
<1>6. ASSUME NEW r \in TatetiRuns, NEW k \in T!Words, T!Down(r, k) PROVE Takes(r, k)
  BY <1>6 DEF T!Down, Takes, LoopGoes
<1>7. ASSUME NEW r \in TatetiRuns, NEW k \in T!Words, T!PrintWord(r, k) PROVE Prints(r, k)
  BY <1>7 DEF T!PrintWord, Prints, LoopGoes
<1>8. ASSUME NEW r \in TatetiRuns, NEW k \in T!Words, T!Up(r, k) PROVE Passes(r, k)
  <2>1. T!Next3(k) \in T!Words
    BY DEF T!Next3
  <2>2. sem[T!Next3(k)] \in Nat \cup {NotInUse}
    BY <2>1
  <2>3. sem' = [sem EXCEPT ![T!Next3(k)] =
                 IF sem[T!Next3(k)] = NotInUse THEN NotInUse ELSE sem[T!Next3(k)] + 1]
    BY <1>8, <2>1, <2>2 DEF T!Up
  <2>4. round' \in [TatetiRuns -> [T!Words -> Nat]]
    BY <1>8 DEF T!Up
  <2>5. \E to \in {"down", "exited"} : LoopGoes(r, k, "up", to)
    BY <1>8 DEF T!Up, LoopGoes
  <2> QED
    BY <1>8, <2>1, <2>3, <2>4, <2>5 DEF T!Up, Passes
<1> QED
  <2> PICK r \in TatetiRuns : T!MainStep(r) \/ \E k \in T!Words : T!LoopStep(r, k)
    BY DEF T!Next
  <2>1. CASE T!MainStep(r)
    <3>1. ASSUME NEW f \in {1, 2}, T!Fork(r, f) PROVE T!Fork(r, 1) \/ T!Fork(r, 2)
      <4>1. f = 1 \/ f = 2
        OBVIOUS
      <4> QED
        BY <3>1, <4>1, Zenon
    <3>2. T!Open(r) \/ T!Wait(r) \/ T!Close(r) \/ T!Fork(r, 1) \/ T!Fork(r, 2)
      BY <2>1, <3>1, Zenon DEF T!MainStep
    <3>3. \/ Opened(r) \/ Refused(r) \/ FirstFork(r) \/ SecondFork(r) \/ ForkError(r)
          \/ Waited(r) \/ Closed(r)
      BY <3>2, <1>1, <1>2, <1>3, <1>4, <1>5, Zenon
    <3> QED
      BY <3>3
  <2>2. CASE \E k \in T!Words : T!LoopStep(r, k)
    BY <2>2, <1>6, <1>7, <1>8, Zenon DEF T!LoopStep
  <2> QED
    BY <2>1, <2>2

\* So do the steps of tateti.
LEMMA TatetiTypeStep ==
  ASSUME TypeOK, TatetiOwns, T!Next, UNCHANGED pingVars
  PROVE  TypeOK'
<1> USE Numbers DEF TypeOK, SemType, PingType, TatetiType, pingVars, LoopPcs, NotInUse
<1>1. ASSUME NEW r \in TatetiRuns, Opened(r) PROVE SemType' /\ TatetiType'
  BY <1>1 DEF Opened
<1>2. ASSUME NEW r \in TatetiRuns, Refused(r) PROVE SemType' /\ TatetiType'
  BY <1>2 DEF Refused, GivesUp
<1>3. ASSUME NEW r \in TatetiRuns, FirstFork(r) PROVE SemType' /\ TatetiType'
  BY <1>3 DEF FirstFork
<1>4. ASSUME NEW r \in TatetiRuns, SecondFork(r) PROVE SemType' /\ TatetiType'
  BY <1>4 DEF SecondFork
<1>5. ASSUME NEW r \in TatetiRuns, ForkError(r) PROVE SemType' /\ TatetiType'
  BY <1>5 DEF ForkError, GivesUp
<1>6. ASSUME NEW r \in TatetiRuns, Waited(r) PROVE SemType' /\ TatetiType'
  BY <1>6 DEF Waited, GivesUp
<1>7. ASSUME NEW r \in TatetiRuns, Closed(r) PROVE SemType' /\ TatetiType'
  <2>1. foreign' \subseteq TatetiRuns
    BY <1>7 DEF Closed
  <2>2. sem' \in [SemIds -> Nat \cup {NotInUse}]
    BY <1>7 DEF Closed
  <2>3. idx' \in [TatetiRuns -> 0..3]
    BY <1>7 DEF Closed
  <2> QED
    BY <1>7, <2>1, <2>2, <2>3 DEF Closed
<1>8. ASSUME NEW r \in TatetiRuns, NEW k \in T!Words, Takes(r, k) PROVE SemType' /\ TatetiType'
  BY <1>8 DEF Takes, LoopGoes
<1>9. ASSUME NEW r \in TatetiRuns, NEW k \in T!Words, Prints(r, k) PROVE SemType' /\ TatetiType'
  <2>1. Append(tatetiOut[r], k) \in Seq(T!Words)
    BY OneMore
  <2> QED
    BY <1>9, <2>1 DEF Prints, LoopGoes
<1>10. ASSUME NEW r \in TatetiRuns, NEW k \in T!Words, Passes(r, k) PROVE SemType' /\ TatetiType'
  <2>1. sem' \in [SemIds -> Nat \cup {NotInUse}]
    BY <1>10 DEF Passes
  <2>2. at' \in [TatetiRuns -> [T!Words -> LoopPcs]]
    BY <1>10 DEF Passes, LoopGoes
  <2> QED
    BY <1>10, <2>1, <2>2 DEF Passes, LoopGoes
<1>11. PingType'
  OBVIOUS
<1> HIDE DEF SemType, TatetiType, PingType
<1> QED
  BY TatetiSteps, <1>1, <1>2, <1>3, <1>4, <1>5, <1>6, <1>7, <1>8, <1>9, <1>10, <1>11, Zenon

------------------------------------------------------------------------------

\* A step of pingpong leaves alone what the runs of tateti own and know, and a step of
\* tateti what the runs of pingpong do.
LEMMA TatetiFrame ==
  ASSUME TypeOK, TypeOK', P!Next, UNCHANGED tatetiVars
  PROVE  /\ TatetiOwns => TatetiOwns'
         /\ LoopsKept => LoopsKept'
         /\ TatetiTurns => TatetiTurns'
         /\ T!InOrder => T!InOrder'
<1>1. \A k \in T!Words : sem'[k] = sem[k]
  BY Apart
<1> USE <1>1, Numbers DEF tatetiVars
<1>2. TatetiOwns => TatetiOwns'
  BY DEF TatetiOwns, RunOwns, Owns
<1>3. LoopsKept => LoopsKept'
  BY DEF LoopsKept
<1>4. TatetiTurns => TatetiTurns'
  <2>1. \A r \in TatetiRuns, k \in T!Words : TatetiTurn(r, k) => TatetiTurn(r, k)'
    <3> SUFFICES ASSUME NEW r \in TatetiRuns, NEW k \in T!Words, TatetiTurn(r, k)
                 PROVE  TatetiTurn(r, k)'
      OBVIOUS
    <3>1. sem'[k] = sem[k] /\ \A m \in T!Words : sem'[m] = sem[m]
      OBVIOUS
    <3>2. at' = at /\ tatetiOut' = tatetiOut
      OBVIOUS
    <3> QED
      BY <3>1, <3>2 DEF TatetiTurn, Talks, T!Next3
  <2> QED
    BY <2>1 DEF TatetiTurns, TatetiRunTurn
<1>5. T!InOrder => T!InOrder'
  BY DEF T!InOrder
<1> QED
  BY <1>2, <1>3, <1>4, <1>5

LEMMA PingFrame ==
  ASSUME TypeOK, TypeOK', TatetiOwns, T!Next, UNCHANGED pingVars
  PROVE  /\ PingOwns => PingOwns'
         /\ ChildKept => ChildKept'
         /\ PingTurns => PingTurns'
         /\ P!InOrder => P!InOrder'
<1>1. \A r \in PingRuns : sem'[P!Ping(r)] = sem[P!Ping(r)] /\ sem'[P!Pong(r)] = sem[P!Pong(r)]
  BY Apart, Numbers
<1> USE <1>1 DEF pingVars
<1>2. PingOwns => PingOwns'
  BY DEF PingOwns, Numbered, HasPing, HasPong
<1>3. ChildKept => ChildKept'
  BY DEF ChildKept
<1>4. PingTurns => PingTurns'
  BY DEF PingTurns, PingRunTurn, PingTurn, Talks, Even
<1>5. P!InOrder => P!InOrder'
  BY DEF P!InOrder
<1> QED
  BY <1>2, <1>3, <1>4, <1>5

\* Pingpong opens and closes only its own semaphores.
LEMMA PingOwnsStep ==
  ASSUME TypeOK, PingOwns, ChildKept, P!Next
  PROVE  PingOwns'
<1> USE Numbers DEF TypeOK, SemType, PingType, PingPcs, LoopPcs, PingOwns, Numbered, HasPing,
      HasPong, P!OpenCall, P!Call, P!Goto, P!ChildGoto, P!OpenSem, P!CloseSem, P!UpSem,
      P!DownSem, P!DownBlocks,
      NotInUse, P!NotInUse, T!NotInUse
<1>1. ASSUME NEW r \in PingRuns, P!OpenPing(r) PROVE PingOwns'
  BY <1>1 DEF P!OpenPing
<1>2. ASSUME NEW r \in PingRuns, P!OpenPong(r) PROVE PingOwns'
  BY <1>2 DEF P!OpenPong
<1>3. ASSUME NEW r \in PingRuns, P!UndoPing(r) PROVE PingOwns'
  BY <1>3 DEF P!UndoPing
<1>4. ASSUME NEW r \in PingRuns, P!Fork(r) PROVE PingOwns'
  <2>1. sem' = sem /\ \A q \in PingRuns : HasPing(q)' = HasPing(q) /\ HasPong(q)' = HasPong(q)
    BY <1>4 DEF P!Fork
  <2> QED
    BY <2>1
<1>5. ASSUME NEW r \in PingRuns, P!ParentDown(r) PROVE PingOwns'
  <2>1. \A id \in SemIds : sem'[id] = NotInUse <=> sem[id] = NotInUse
    BY <1>5 DEF P!ParentDown
  <2>2. \A id \in SemIds : sem[id] = 0 /\ id # P!Pong(r) => sem'[id] = 0
    BY <1>5 DEF P!ParentDown
  <2>3. \A q \in PingRuns : HasPing(q)' = HasPing(q) /\ HasPong(q)' = HasPong(q)
    BY <1>5 DEF P!ParentDown
  <2>4. HasPong(r) /\ (P!InRange(P!Pong(r)) \/ sem' = sem)
    BY <1>5 DEF P!ParentDown
  <2>5. P!Pong(r) \in Taken => sem'[P!Pong(r)] = 0
    BY <2>4
  <2>6. \A id \in SemIds : id \in Taken /\ sem[id] = 0 => sem'[id] = 0
    BY <2>2, <2>5
  <2> HIDE DEF HasPing, HasPong
  <2> QED
    BY <2>1, <2>3, <2>6
<1>6. ASSUME NEW r \in PingRuns, P!ParentPrint(r) PROVE PingOwns'
  BY <1>6 DEF P!ParentPrint
<1>7. ASSUME NEW r \in PingRuns, P!ParentUp(r) PROVE PingOwns'
  BY <1>7 DEF P!ParentUp
<1>8. ASSUME NEW r \in PingRuns, P!Wait(r) PROVE PingOwns'
  BY <1>8 DEF P!Wait
<1>9. ASSUME NEW r \in PingRuns, P!ClosePing(r) PROVE PingOwns'
  BY <1>9 DEF P!ClosePing
<1>10. ASSUME NEW r \in PingRuns, P!ClosePong(r) PROVE PingOwns'
  BY <1>10 DEF P!ClosePong
<1>11. ASSUME NEW r \in PingRuns, P!ChildDown(r) PROVE PingOwns'
  BY <1>11 DEF P!ChildDown
<1>12. ASSUME NEW r \in PingRuns, P!ChildPrint(r) PROVE PingOwns'
  BY <1>12 DEF P!ChildPrint
<1>13. ASSUME NEW r \in PingRuns, P!ChildUp(r) PROVE PingOwns'
  <2>1. \A id \in SemIds : sem'[id] = NotInUse <=> sem[id] = NotInUse
    BY <1>13 DEF P!ChildUp
  <2>2. \A id \in SemIds : sem[id] = 0 /\ id # P!Pong(r) => sem'[id] = 0
    BY <1>13 DEF P!ChildUp
  <2>3. pingChild[r] = "up" /\ (P!Pong(r) \in Taken /\ P!InRange(P!Pong(r)) => ~HasPong(r))
    BY <1>13 DEF P!ChildUp
  <2>4. HasPong(r)
    BY <2>3 DEF ChildKept
  <2> QED
    BY <1>13, <2>1, <2>2, <2>3, <2>4 DEF P!ChildUp
<1> QED
  BY <1>1, <1>2, <1>3, <1>4, <1>5, <1>6, <1>7, <1>8, <1>9, <1>10, <1>11, <1>12, <1>13,
    Zenon DEF P!Next, P!Step, P!ChildStep

\* A child does not outlive its parent's wait.
LEMMA ChildKeptStep ==
  ASSUME TypeOK, ChildKept, P!Next
  PROVE  ChildKept'
<1> USE DEF TypeOK, PingType, PingPcs, LoopPcs, ChildKept, P!OpenCall, P!Goto, P!ChildGoto
<1>1. ASSUME NEW r \in PingRuns, P!OpenPing(r) PROVE ChildKept'
  BY <1>1 DEF P!OpenPing
<1>2. ASSUME NEW r \in PingRuns, P!OpenPong(r) PROVE ChildKept'
  BY <1>2 DEF P!OpenPong
<1>3. ASSUME NEW r \in PingRuns, P!UndoPing(r) PROVE ChildKept'
  BY <1>3 DEF P!UndoPing
<1>4. ASSUME NEW r \in PingRuns, P!Fork(r) PROVE ChildKept'
  BY <1>4 DEF P!Fork
<1>5. ASSUME NEW r \in PingRuns, P!ParentDown(r) PROVE ChildKept'
  BY <1>5 DEF P!ParentDown
<1>6. ASSUME NEW r \in PingRuns, P!ParentPrint(r) PROVE ChildKept'
  BY <1>6 DEF P!ParentPrint
<1>7. ASSUME NEW r \in PingRuns, P!ParentUp(r) PROVE ChildKept'
  BY <1>7 DEF P!ParentUp
<1>8. ASSUME NEW r \in PingRuns, P!Wait(r) PROVE ChildKept'
  BY <1>8 DEF P!Wait
<1>9. ASSUME NEW r \in PingRuns, P!ClosePing(r) PROVE ChildKept'
  BY <1>9 DEF P!ClosePing
<1>10. ASSUME NEW r \in PingRuns, P!ClosePong(r) PROVE ChildKept'
  BY <1>10 DEF P!ClosePong
<1>11. ASSUME NEW r \in PingRuns, P!ChildDown(r) PROVE ChildKept'
  BY <1>11 DEF P!ChildDown
<1>12. ASSUME NEW r \in PingRuns, P!ChildPrint(r) PROVE ChildKept'
  BY <1>12 DEF P!ChildPrint
<1>13. ASSUME NEW r \in PingRuns, P!ChildUp(r) PROVE ChildKept'
  BY <1>13 DEF P!ChildUp
<1> QED
  BY <1>1, <1>2, <1>3, <1>4, <1>5, <1>6, <1>7, <1>8, <1>9, <1>10, <1>11, <1>12, <1>13,
    Zenon DEF P!Next, P!Step, P!ChildStep

\* The permit of a run of pingpong goes from hand to hand, if its numbers are below MAX_SEM.
NumbersFit == \A r \in PingRuns : P!InRange(P!Ping(r)) /\ P!InRange(P!Pong(r))

\* The parity of what is out changes with every word.
LEMMA EvenNext == \A n \in Nat : (Even(n + 1) <=> ~Even(n)) /\ (Even(n) <=> (n + 1) % 2 = 1)
BY DEF Even

\* A step of one run leaves the fields and the semaphores of the others as they are.
LEMMA OtherRuns ==
  ASSUME TypeOK, NEW r \in PingRuns, P!Step(r) \/ P!ChildStep(r), NEW q \in PingRuns, q # r
  PROVE  /\ pingParent'[q] = pingParent[q] /\ pingChild'[q] = pingChild[q] /\ pingOut'[q] = pingOut[q]
         /\ sem'[P!Ping(q)] = sem[P!Ping(q)] /\ sem'[P!Pong(q)] = sem[P!Pong(q)]
BY Numbers DEF TypeOK, SemType, PingType, P!Step, P!ChildStep, P!OpenPing, P!OpenPong, P!UndoPing,
  P!Fork, P!ParentDown, P!ParentPrint, P!ParentUp, P!Wait, P!ClosePing, P!ClosePong, P!ChildDown,
  P!ChildPrint, P!ChildUp, P!OpenCall, P!Call, P!Goto, P!ChildGoto

LEMMA OtherTurns ==
  ASSUME TypeOK, PingTurns, NEW r \in PingRuns, P!Step(r) \/ P!ChildStep(r),
         NEW q \in PingRuns, q # r
  PROVE  PingRunTurn(q)'
BY OtherRuns DEF PingTurns, PingRunTurn, PingTurn, Talks

LEMMA PingTurnsStep ==
  ASSUME NumbersFit, TypeOK, ChildKept, PingTurns, P!Next
  PROVE  PingTurns'
<1> USE Numbers DEF NumbersFit, TypeOK, SemType, PingType, PingPcs, LoopPcs, PingTurns,
      PingRunTurn, PingTurn, Talks, ChildKept, P!OpenCall, P!Call, P!Goto, P!ChildGoto,
      P!OpenSem, P!CloseSem, P!UpSem, P!DownSem, P!DownBlocks,
      NotInUse, P!NotInUse, T!NotInUse
<1>a. \A r \in PingRuns : Len(pingOut[r]) \in Nat
  BY LenProperties
<1>1. ASSUME NEW r \in PingRuns, P!OpenPing(r) PROVE PingRunTurn(r)'
  BY <1>1, <1>a DEF P!OpenPing
<1>2. ASSUME NEW r \in PingRuns, P!OpenPong(r) PROVE PingRunTurn(r)'
  <2>1. pingOut[r] = <<>> /\ sem[P!Ping(r)] = 1 /\ pingChild[r] = "none"
    BY <1>2 DEF P!OpenPong
  <2>2. Len(pingOut[r]) = 0 /\ Even(Len(pingOut[r]))
    BY <2>1 DEF Even
  <2> QED
    BY <1>2, <2>1, <2>2 DEF P!OpenPong
<1>3. ASSUME NEW r \in PingRuns, P!UndoPing(r) PROVE PingRunTurn(r)'
  BY <1>3, <1>a DEF P!UndoPing
<1>4. ASSUME NEW r \in PingRuns, P!Fork(r) PROVE PingRunTurn(r)'
  BY <1>4, <1>a DEF P!Fork
<1>5. ASSUME NEW r \in PingRuns, P!ParentDown(r) PROVE PingRunTurn(r)'
  BY <1>5, <1>a DEF P!ParentDown
<1>6. ASSUME NEW r \in PingRuns, P!ParentPrint(r) PROVE PingRunTurn(r)'
  <2>1. Len(pingOut'[r]) = Len(pingOut[r]) + 1
    BY <1>6, OneMore DEF P!ParentPrint
  <2>2. Even(Len(pingOut'[r])) <=> ~Even(Len(pingOut[r]))
    <3>1. Len(pingOut[r]) \in Nat
      BY <1>a
    <3> QED
      BY ONLY <2>1, <3>1, EvenNext
  <2>3. PingTurn(r) /\ pingParent[r] = "print"
    BY <1>6 DEF P!ParentPrint
  <2> QED
    BY <1>6, <2>2, <2>3 DEF P!ParentPrint
<1>7. ASSUME NEW r \in PingRuns, P!ParentUp(r) PROVE PingRunTurn(r)'
  BY <1>7, <1>a DEF P!ParentUp
<1>8. ASSUME NEW r \in PingRuns, P!Wait(r) PROVE PingRunTurn(r)'
  BY <1>8, <1>a DEF P!Wait
<1>9. ASSUME NEW r \in PingRuns, P!ClosePing(r) PROVE PingRunTurn(r)'
  BY <1>9, <1>a DEF P!ClosePing
<1>10. ASSUME NEW r \in PingRuns, P!ClosePong(r) PROVE PingRunTurn(r)'
  BY <1>10, <1>a DEF P!ClosePong
<1>11. ASSUME NEW r \in PingRuns, P!ChildDown(r) PROVE PingRunTurn(r)'
  BY <1>11, <1>a DEF P!ChildDown
<1>12. ASSUME NEW r \in PingRuns, P!ChildPrint(r) PROVE PingRunTurn(r)'
  <2>1. Len(pingOut'[r]) = Len(pingOut[r]) + 1
    BY <1>12, OneMore DEF P!ChildPrint
  <2>2. Even(Len(pingOut'[r])) <=> ~Even(Len(pingOut[r]))
    <3>1. Len(pingOut[r]) \in Nat
      BY <1>a
    <3> QED
      BY ONLY <2>1, <3>1, EvenNext
  <2>3. PingTurn(r) /\ pingChild[r] = "print"
    BY <1>12 DEF P!ChildPrint
  <2> QED
    BY <1>12, <2>2, <2>3 DEF P!ChildPrint
<1>13. ASSUME NEW r \in PingRuns, P!ChildUp(r) PROVE PingRunTurn(r)'
  BY <1>13, <1>a DEF P!ChildUp
<1>14. ASSUME NEW r \in PingRuns, P!Step(r) \/ P!ChildStep(r) PROVE PingRunTurn(r)'
  BY <1>14, <1>1, <1>2, <1>3, <1>4, <1>5, <1>6, <1>7, <1>8, <1>9, <1>10, <1>11, <1>12, <1>13,
    Zenon DEF P!Step, P!ChildStep
<1>15. ASSUME NEW r \in PingRuns, P!Step(r) \/ P!ChildStep(r), NEW q \in PingRuns, q # r
       PROVE  PingRunTurn(q)'
  BY <1>15, OtherTurns
<1> HIDE DEF PingRunTurn
<1> QED
  BY <1>14, <1>15 DEF P!Next


\* The words of pingpong alternate, since each comes at its turn.
LEMMA PingOrderStep ==
  ASSUME TypeOK, ChildKept, PingTurns, P!InOrder, P!Next
  PROVE  P!InOrder'
<1> USE DEF TypeOK, PingType
<1>1. ASSUME NEW r \in PingRuns, P!ChildPrint(r) PROVE P!InOrder'
  <2>1. /\ PingTurn(r) /\ Even(Len(pingOut[r]))
        /\ pingOut' = [pingOut EXCEPT ![r] = Append(pingOut[r], "ping")]
    BY <1>1 DEF P!ChildPrint, P!Goto, P!ChildGoto, ChildKept, PingTurns, PingRunTurn,
      PingTurn, Talks
  <2>2. ASSUME NEW q \in PingRuns, NEW n \in 1..Len(pingOut'[q])
        PROVE  pingOut'[q][n] = IF n % 2 = 1 THEN "ping" ELSE "pong"
    <3>1. CASE q # r
      BY <2>1, <2>2, <3>1 DEF P!InOrder
    <3>2. CASE q = r /\ n \in 1..Len(pingOut[r])
      <4>1. pingOut'[r][n] = pingOut[r][n]
        BY <2>1, <3>2, OneMore
      <4> QED
        BY <3>2, <4>1 DEF P!InOrder
    <3>3. CASE q = r /\ n = Len(pingOut[r]) + 1
      <4>1. pingOut'[r][n] = "ping"
        BY <2>1, <3>3, OneMore
      <4>2. Len(pingOut[r]) \in Nat
        BY OneMore
      <4>3. n % 2 = 1
        BY <2>1, <3>3, <4>2, EvenNext
      <4> QED
        BY <3>3, <4>1, <4>3
    <3>4. n \in 1..Len(pingOut[r]) \/ n = Len(pingOut[r]) + 1 \/ q # r
      <4>1. Len(pingOut'[r]) = Len(pingOut[r]) + 1 /\ Len(pingOut[r]) \in Nat
        BY <2>1, OneMore
      <4> QED
        BY <4>1
    <3> QED
      BY <3>1, <3>2, <3>3, <3>4
  <2> QED
    BY <2>2 DEF P!InOrder
<1>2. ASSUME NEW r \in PingRuns, P!ParentPrint(r) PROVE P!InOrder'
  <2>1. /\ PingTurn(r) /\ ~Even(Len(pingOut[r]))
        /\ pingOut' = [pingOut EXCEPT ![r] = Append(pingOut[r], "pong")]
    BY <1>2 DEF P!ParentPrint, P!Goto, P!ChildGoto, ChildKept, PingTurns, PingRunTurn,
      PingTurn, Talks
  <2>2. ASSUME NEW q \in PingRuns, NEW n \in 1..Len(pingOut'[q])
        PROVE  pingOut'[q][n] = IF n % 2 = 1 THEN "ping" ELSE "pong"
    <3>1. CASE q # r
      BY <2>1, <2>2, <3>1 DEF P!InOrder
    <3>2. CASE q = r /\ n \in 1..Len(pingOut[r])
      <4>1. pingOut'[r][n] = pingOut[r][n]
        BY <2>1, <3>2, OneMore
      <4> QED
        BY <3>2, <4>1 DEF P!InOrder
    <3>3. CASE q = r /\ n = Len(pingOut[r]) + 1
      <4>1. pingOut'[r][n] = "pong"
        BY <2>1, <3>3, OneMore
      <4>2. Len(pingOut[r]) \in Nat
        BY OneMore
      <4>3. n % 2 # 1
        BY <2>1, <3>3, <4>2, EvenNext
      <4> QED
        BY <3>3, <4>1, <4>3
    <3>4. n \in 1..Len(pingOut[r]) \/ n = Len(pingOut[r]) + 1 \/ q # r
      <4>1. Len(pingOut'[r]) = Len(pingOut[r]) + 1 /\ Len(pingOut[r]) \in Nat
        BY <2>1, OneMore
      <4> QED
        BY <4>1
    <3> QED
      BY <3>1, <3>2, <3>3, <3>4
  <2> QED
    BY <2>2 DEF P!InOrder
<1>3. CASE UNCHANGED pingOut
  BY <1>3 DEF P!InOrder
<1>4. PICK r \in PingRuns : P!Step(r) \/ P!ChildStep(r)
  BY DEF P!Next
<1>5. P!ChildPrint(r) \/ P!ParentPrint(r) \/ UNCHANGED pingOut
  BY <1>4 DEF P!Step, P!ChildStep, P!OpenPing, P!OpenPong, P!UndoPing, P!Fork, P!ParentDown,
    P!ParentUp, P!Wait, P!ClosePing, P!ClosePong, P!ChildDown, P!ChildUp, P!OpenCall
<1> QED
  BY <1>1, <1>2, <1>3, <1>5

------------------------------------------------------------------------------

\* A step that opens and closes nothing, and leaves main where it is.
LEMMA OwnsKept ==
  ASSUME TypeOK, TatetiOwns, main' = main, idx' = idx, stop' = stop, opener' = opener,
         foreign' = foreign, \A k \in T!Words : sem'[k] = NotInUse <=> sem[k] = NotInUse
  PROVE  TatetiOwns'
BY DEF TatetiOwns, RunOwns, Owns

\* Nor does main of another run go on, and it owns what it owned.
LEMMA OthersOwn ==
  ASSUME TypeOK, NEW q \in TatetiRuns, RunOwns(q),
         main'[q] = main[q], idx'[q] = idx[q], stop'[q] = stop[q],
         \A k \in T!Words : sem'[k] # NotInUse /\ opener'[k] = {q} <=>
                              sem[k] # NotInUse /\ opener[k] = {q}
  PROVE  RunOwns(q)'
BY DEF RunOwns, Owns

\* Tateti closes what it has opened, and opens only what nobody has open.
LEMMA TatetiOwnsStep ==
  ASSUME TypeOK, TatetiOwns, T!Next
  PROVE  TatetiOwns'
<1> USE Numbers DEF TypeOK, SemType, TatetiType
<1>a. foreign = {} /\ \A q \in TatetiRuns : RunOwns(q)
  BY DEF TatetiOwns
<1>b. \A q \in TatetiRuns : idx[q] \in 0..3 /\ stop[q] \in 0..3
  OBVIOUS
<1>1. ASSUME NEW r \in TatetiRuns, Opened(r) PROVE TatetiOwns'
  <2>a. \A q \in TatetiRuns : q # r => {q} # {r}
    OBVIOUS
  <2>1. ASSUME NEW q \in TatetiRuns, q # r PROVE RunOwns(q)'
    <3>1. main'[q] = main[q] /\ idx'[q] = idx[q] /\ stop'[q] = stop[q]
      BY <1>1, <2>1 DEF Opened
    <3>2. \A k \in T!Words : (sem'[k] # NotInUse /\ opener'[k] = {q}) <=>
                               (sem[k] # NotInUse /\ opener[k] = {q})
      <4> SUFFICES ASSUME NEW k \in T!Words
                   PROVE  (sem'[k] # NotInUse /\ opener'[k] = {q}) <=>
                            (sem[k] # NotInUse /\ opener[k] = {q})
        OBVIOUS
      <4>1. CASE k = idx[r]
        BY <1>1, <4>1, <2>1, <2>a DEF Opened
      <4>2. CASE k # idx[r]
        BY <1>1, <4>2 DEF Opened
      <4> QED
        BY <4>1, <4>2
    <3> QED
      BY <3>1, <3>2, <1>a, OthersOwn
  <2>2. RunOwns(r)'
    <3>1. RunOwns(r) /\ idx[r] \in 0..3 /\ stop[r] \in 0..3
      BY <1>a, <1>b
    <3>2. (main'[r] = "open" => idx'[r] < 3) /\ (main'[r] = "close" => idx'[r] < stop'[r])
      BY <1>1, <3>1 DEF Opened
    <3>3. ASSUME NEW k \in T!Words PROVE Owns(r, k)' <=> (sem'[k] # NotInUse /\ opener'[k] = {r})
      <4>1. CASE k = idx[r]
        <5>1. sem'[k] # NotInUse /\ opener'[k] = {r}
          BY <1>1, <4>1 DEF Opened, NotInUse
        <5>2. Owns(r, k)'
          BY <1>1, <4>1 DEF Opened, Owns
        <5> QED
          BY <5>1, <5>2
      <4>2. CASE k # idx[r]
        <5>1. sem'[k] = sem[k] /\ opener'[k] = opener[k]
          BY <1>1, <4>2 DEF Opened
        <5>2. Owns(r, k)' <=> Owns(r, k)
          BY <1>1, <4>2 DEF Opened, Owns
        <5> QED
          BY <5>1, <5>2, <3>1 DEF RunOwns
      <4> QED
        BY <4>1, <4>2
    <3> QED
      BY <3>2, <3>3 DEF RunOwns
  <2>3. foreign' = {}
    BY <1>1, <1>a, <2>a DEF Opened
  <2> QED
    BY <2>1, <2>2, <2>3 DEF TatetiOwns
<1>2. ASSUME NEW r \in TatetiRuns, Refused(r) PROVE TatetiOwns'
  <2>1. ASSUME NEW q \in TatetiRuns, q # r PROVE RunOwns(q)'
    <3>1. main'[q] = main[q] /\ idx'[q] = idx[q] /\ stop'[q] = stop[q]
      BY <1>2, <2>1 DEF Refused, GivesUp
    <3>2. \A k \in T!Words : (sem'[k] # NotInUse /\ opener'[k] = {q}) <=>
                               (sem[k] # NotInUse /\ opener[k] = {q})
      BY <1>2, <2>1 DEF Refused, GivesUp
    <3> QED
      BY <3>1, <3>2, <1>a, OthersOwn
  <2>2. RunOwns(r)'
    <3>1. RunOwns(r) /\ idx[r] \in 0..3 /\ stop[r] \in 0..3
      BY <1>a, <1>b
    <3>2. (main'[r] = "open" => idx'[r] < 3) /\ (main'[r] = "close" => idx'[r] < stop'[r])
      BY <1>2, <3>1 DEF Refused, GivesUp
    <3>3. ASSUME NEW k \in T!Words PROVE Owns(r, k)' <=> (sem'[k] # NotInUse /\ opener'[k] = {r})
      <4>1. Owns(r, k)' <=> Owns(r, k)
        <5>1. idx[r] \in Int /\ k \in Int /\ k >= 0
          OBVIOUS
        <5> QED
          BY <1>2, <5>1 DEF Refused, GivesUp, Owns
      <4> QED
        BY <1>2, <4>1, <3>1 DEF Refused, GivesUp, RunOwns
    <3> QED
      BY <3>2, <3>3 DEF RunOwns
  <2>3. foreign' = {}
    BY <1>2, <1>a DEF Refused, GivesUp
  <2> QED
    BY <2>1, <2>2, <2>3 DEF TatetiOwns
<1>3. ASSUME NEW r \in TatetiRuns, FirstFork(r) PROVE TatetiOwns'
  <2>1. ASSUME NEW q \in TatetiRuns, q # r PROVE RunOwns(q)'
    <3>1. main'[q] = main[q] /\ idx'[q] = idx[q] /\ stop'[q] = stop[q]
      BY <1>3, <2>1 DEF FirstFork
    <3>2. \A k \in T!Words : (sem'[k] # NotInUse /\ opener'[k] = {q}) <=>
                               (sem[k] # NotInUse /\ opener[k] = {q})
      BY <1>3, <2>1 DEF FirstFork
    <3> QED
      BY <3>1, <3>2, <1>a, OthersOwn
  <2>2. RunOwns(r)'
    <3>1. RunOwns(r) /\ idx[r] \in 0..3 /\ stop[r] \in 0..3
      BY <1>a, <1>b
    <3>2. (main'[r] = "open" => idx'[r] < 3) /\ (main'[r] = "close" => idx'[r] < stop'[r])
      BY <1>3, <3>1 DEF FirstFork
    <3>3. ASSUME NEW k \in T!Words PROVE Owns(r, k)' <=> (sem'[k] # NotInUse /\ opener'[k] = {r})
      BY <1>3, <3>1 DEF FirstFork, RunOwns, Owns
    <3> QED
      BY <3>2, <3>3 DEF RunOwns
  <2>3. foreign' = {}
    BY <1>3, <1>a DEF FirstFork
  <2> QED
    BY <2>1, <2>2, <2>3 DEF TatetiOwns
<1>4. ASSUME NEW r \in TatetiRuns, SecondFork(r) PROVE TatetiOwns'
  <2>1. ASSUME NEW q \in TatetiRuns, q # r PROVE RunOwns(q)'
    <3>1. main'[q] = main[q] /\ idx'[q] = idx[q] /\ stop'[q] = stop[q]
      BY <1>4, <2>1 DEF SecondFork
    <3>2. \A k \in T!Words : (sem'[k] # NotInUse /\ opener'[k] = {q}) <=>
                               (sem[k] # NotInUse /\ opener[k] = {q})
      BY <1>4, <2>1 DEF SecondFork
    <3> QED
      BY <3>1, <3>2, <1>a, OthersOwn
  <2>2. RunOwns(r)'
    <3>1. RunOwns(r) /\ idx[r] \in 0..3 /\ stop[r] \in 0..3
      BY <1>a, <1>b
    <3>2. (main'[r] = "open" => idx'[r] < 3) /\ (main'[r] = "close" => idx'[r] < stop'[r])
      BY <1>4, <3>1 DEF SecondFork
    <3>3. ASSUME NEW k \in T!Words PROVE Owns(r, k)' <=> (sem'[k] # NotInUse /\ opener'[k] = {r})
      BY <1>4, <3>1 DEF SecondFork, RunOwns, Owns
    <3> QED
      BY <3>2, <3>3 DEF RunOwns
  <2>3. foreign' = {}
    BY <1>4, <1>a DEF SecondFork
  <2> QED
    BY <2>1, <2>2, <2>3 DEF TatetiOwns
<1>5. ASSUME NEW r \in TatetiRuns, ForkError(r) PROVE TatetiOwns'
  <2>1. ASSUME NEW q \in TatetiRuns, q # r PROVE RunOwns(q)'
    <3>1. main'[q] = main[q] /\ idx'[q] = idx[q] /\ stop'[q] = stop[q]
      BY <1>5, <2>1 DEF ForkError, GivesUp
    <3>2. \A k \in T!Words : (sem'[k] # NotInUse /\ opener'[k] = {q}) <=>
                               (sem[k] # NotInUse /\ opener[k] = {q})
      BY <1>5, <2>1 DEF ForkError, GivesUp
    <3> QED
      BY <3>1, <3>2, <1>a, OthersOwn
  <2>2. RunOwns(r)'
    <3>1. RunOwns(r) /\ idx[r] \in 0..3 /\ stop[r] \in 0..3
      BY <1>a, <1>b
    <3>2. (main'[r] = "open" => idx'[r] < 3) /\ (main'[r] = "close" => idx'[r] < stop'[r])
      BY <1>5, <3>1 DEF ForkError, GivesUp
    <3>3. ASSUME NEW k \in T!Words PROVE Owns(r, k)' <=> (sem'[k] # NotInUse /\ opener'[k] = {r})
      BY <1>5, <3>1 DEF ForkError, GivesUp, RunOwns, Owns
    <3> QED
      BY <3>2, <3>3 DEF RunOwns
  <2>3. foreign' = {}
    BY <1>5, <1>a DEF ForkError, GivesUp
  <2> QED
    BY <2>1, <2>2, <2>3 DEF TatetiOwns
<1>6. ASSUME NEW r \in TatetiRuns, Waited(r) PROVE TatetiOwns'
  <2>1. ASSUME NEW q \in TatetiRuns, q # r PROVE RunOwns(q)'
    <3>1. main'[q] = main[q] /\ idx'[q] = idx[q] /\ stop'[q] = stop[q]
      BY <1>6, <2>1 DEF Waited, GivesUp
    <3>2. \A k \in T!Words : (sem'[k] # NotInUse /\ opener'[k] = {q}) <=>
                               (sem[k] # NotInUse /\ opener[k] = {q})
      BY <1>6, <2>1 DEF Waited, GivesUp
    <3> QED
      BY <3>1, <3>2, <1>a, OthersOwn
  <2>2. RunOwns(r)'
    <3>1. RunOwns(r) /\ idx[r] \in 0..3 /\ stop[r] \in 0..3
      BY <1>a, <1>b
    <3>2. (main'[r] = "open" => idx'[r] < 3) /\ (main'[r] = "close" => idx'[r] < stop'[r])
      BY <1>6, <3>1 DEF Waited, GivesUp
    <3>3. ASSUME NEW k \in T!Words PROVE Owns(r, k)' <=> (sem'[k] # NotInUse /\ opener'[k] = {r})
      BY <1>6, <3>1 DEF Waited, GivesUp, RunOwns, Owns
    <3> QED
      BY <3>2, <3>3 DEF RunOwns
  <2>3. foreign' = {}
    BY <1>6, <1>a DEF Waited, GivesUp
  <2> QED
    BY <2>1, <2>2, <2>3 DEF TatetiOwns
<1>7. ASSUME NEW r \in TatetiRuns, Closed(r) PROVE TatetiOwns'
  <2>a. \A q \in TatetiRuns : q # r => {q} # {r}
    OBVIOUS
  <2>b. Owns(r, idx[r])
    BY <1>7 DEF Closed, Owns
  <2>c. opener[idx[r]] = {r}
    BY <1>7, <1>a, <2>b DEF Closed, RunOwns
  <2>1. ASSUME NEW q \in TatetiRuns, q # r PROVE RunOwns(q)'
    <3>1. main'[q] = main[q] /\ idx'[q] = idx[q] /\ stop'[q] = stop[q]
      BY <1>7, <2>1 DEF Closed
    <3>2. \A k \in T!Words : (sem'[k] # NotInUse /\ opener'[k] = {q}) <=>
                               (sem[k] # NotInUse /\ opener[k] = {q})
      <4> SUFFICES ASSUME NEW k \in T!Words
                   PROVE  (sem'[k] # NotInUse /\ opener'[k] = {q}) <=>
                            (sem[k] # NotInUse /\ opener[k] = {q})
        OBVIOUS
      <4>1. CASE k = idx[r]
        BY <1>7, <4>1, <2>1, <2>a, <2>c DEF Closed
      <4>2. CASE k # idx[r]
        BY <1>7, <4>2 DEF Closed
      <4> QED
        BY <4>1, <4>2
    <3> QED
      BY <3>1, <3>2, <1>a, OthersOwn
  <2>2. RunOwns(r)'
    <3>1. RunOwns(r) /\ idx[r] \in 0..3 /\ stop[r] \in 0..3
      BY <1>a, <1>b
    <3>2. (main'[r] = "open" => idx'[r] < 3) /\ (main'[r] = "close" => idx'[r] < stop'[r])
      BY <1>7, <3>1 DEF Closed
    <3>3. ASSUME NEW k \in T!Words PROVE Owns(r, k)' <=> (sem'[k] # NotInUse /\ opener'[k] = {r})
      <4>1. CASE k = idx[r]
        <5>1. sem'[k] = NotInUse
          BY <1>7, <4>1 DEF Closed
        <5>2. ~Owns(r, k)'
          BY <1>7, <4>1 DEF Closed, Owns
        <5> QED
          BY <5>1, <5>2
      <4>2. CASE k # idx[r]
        <5>1. sem'[k] = sem[k] /\ opener'[k] = opener[k]
          BY <1>7, <4>2 DEF Closed
        <5>2. Owns(r, k)' <=> Owns(r, k)
          BY <1>7, <4>2 DEF Closed, Owns
        <5> QED
          BY <5>1, <5>2, <3>1 DEF RunOwns
      <4> QED
        BY <4>1, <4>2
    <3> QED
      BY <3>2, <3>3 DEF RunOwns
  <2>3. foreign' = {}
    BY <1>7, <1>a, <2>c DEF Closed
  <2> QED
    BY <2>1, <2>2, <2>3 DEF TatetiOwns
<1>8. ASSUME NEW r \in TatetiRuns, NEW k \in T!Words, Takes(r, k) PROVE TatetiOwns'
  <2>1. \A l \in T!Words : sem'[l] = NotInUse <=> sem[l] = NotInUse
    BY <1>8 DEF Takes, LoopGoes, NotInUse
  <2> QED
    BY <1>8, <2>1, OwnsKept DEF Takes, LoopGoes
<1>9. ASSUME NEW r \in TatetiRuns, NEW k \in T!Words, Prints(r, k) PROVE TatetiOwns'
  <2>1. \A l \in T!Words : sem'[l] = NotInUse <=> sem[l] = NotInUse
    BY <1>9 DEF Prints, LoopGoes, NotInUse
  <2> QED
    BY <1>9, <2>1, OwnsKept DEF Prints, LoopGoes
<1>10. ASSUME NEW r \in TatetiRuns, NEW k \in T!Words, Passes(r, k) PROVE TatetiOwns'
  <2>1. \A l \in T!Words : sem'[l] = NotInUse <=> sem[l] = NotInUse
    BY <1>10 DEF Passes, LoopGoes, NotInUse
  <2> QED
    BY <1>10, <2>1, OwnsKept DEF Passes, LoopGoes
<1> QED
  BY TatetiSteps, <1>1, <1>2, <1>3, <1>4, <1>5, <1>6, <1>7, <1>8, <1>9, <1>10, Zenon

\* No process of a run is in its loop before it is forked or after it is waited for,
\* unless the second fork fails.
LEMMA LoopsKeptStep ==
  ASSUME 2 \notin ForkFails, TypeOK, TatetiOwns, LoopsKept, T!Next
  PROVE  LoopsKept'
<1> USE Numbers DEF TypeOK, SemType, TatetiType, LoopsKept, LoopPcs
<1>1. ASSUME NEW r \in TatetiRuns, Opened(r) PROVE LoopsKept'
  BY <1>1 DEF Opened
<1>2. ASSUME NEW r \in TatetiRuns, Refused(r) PROVE LoopsKept'
  BY <1>2 DEF Refused, GivesUp
<1>3. ASSUME NEW r \in TatetiRuns, FirstFork(r) PROVE LoopsKept'
  BY <1>3 DEF FirstFork
<1>4. ASSUME NEW r \in TatetiRuns, SecondFork(r) PROVE LoopsKept'
  BY <1>4 DEF SecondFork
<1>5. ASSUME NEW r \in TatetiRuns, ForkError(r) PROVE LoopsKept'
  BY <1>5 DEF ForkError, GivesUp
<1>6. ASSUME NEW r \in TatetiRuns, Waited(r) PROVE LoopsKept'
  BY <1>6 DEF Waited, GivesUp
<1>7. ASSUME NEW r \in TatetiRuns, Closed(r) PROVE LoopsKept'
  BY <1>7 DEF Closed
<1>8. ASSUME NEW r \in TatetiRuns, NEW k \in T!Words, Takes(r, k) PROVE LoopsKept'
  BY <1>8 DEF Takes, LoopGoes
<1>9. ASSUME NEW r \in TatetiRuns, NEW k \in T!Words, Prints(r, k) PROVE LoopsKept'
  BY <1>9 DEF Prints, LoopGoes
<1>10. ASSUME NEW r \in TatetiRuns, NEW k \in T!Words, Passes(r, k) PROVE LoopsKept'
  BY <1>10 DEF Passes, LoopGoes
<1> HIDE DEF LoopsKept
<1> QED
  BY TatetiSteps, <1>1, <1>2, <1>3, <1>4, <1>5, <1>6, <1>7, <1>8, <1>9, <1>10, Zenon

\* A semaphore that a run owns, or nobody has open, is not another's.
LEMMA NotOthers ==
  ASSUME TypeOK, TatetiOwns, NEW r \in TatetiRuns, NEW q \in TatetiRuns, q # r, NEW k \in T!Words,
         Owns(r, k) \/ sem[k] = NotInUse
  PROVE  ~Owns(q, k)
<1>1. {q} # {r}
  OBVIOUS
<1> QED
  BY <1>1 DEF TatetiOwns, RunOwns

\* The turn of a run stays where it is while its semaphores do.
LEMMA OthersTurn ==
  ASSUME TypeOK, NEW q \in TatetiRuns, TatetiRunTurn(q),
         main'[q] = main[q], idx'[q] = idx[q], at'[q] = at[q], tatetiOut'[q] = tatetiOut[q],
         \A k \in T!Words : Owns(q, k) => sem'[k] = sem[k]
  PROVE  TatetiRunTurn(q)'
<1>1. CASE main[q] = "open"
  BY <1>1 DEF TatetiRunTurn, Owns
<1>2. CASE main[q] \in {"fork1", "fork2", "loop"}
  <2>1. \A k \in T!Words : sem'[k] = sem[k]
    BY <1>2 DEF Owns
  <2>2. PICK k \in T!Words : TatetiTurn(q, k)
    BY <1>2 DEF TatetiRunTurn
  <2>3. TatetiTurn(q, k)'
    BY <2>1, <2>2 DEF TatetiTurn, Talks, T!Next3
  <2> QED
    BY <1>2, <2>3 DEF TatetiRunTurn
<1>3. CASE main[q] \notin {"open", "fork1", "fork2", "loop"}
  BY <1>3 DEF TatetiRunTurn
<1> QED
  BY <1>1, <1>2, <1>3

\* The three words go round with the number of words out.
LEMMA RoundNext ==
  /\ T!Next3(0) = 1 /\ T!Next3(1) = 2 /\ T!Next3(2) = 0
  /\ \A n \in Nat : n % 3 \in {0, 1, 2} /\ (n + 1) % 3 = T!Next3(n % 3)
BY DEF T!Next3

\* The permit of a run of tateti goes round, if no fork fails after the first.
LEMMA TatetiTurnsStep ==
  ASSUME 2 \notin ForkFails, TypeOK, TatetiOwns, LoopsKept, TatetiTurns, T!Next
  PROVE  TatetiTurns'
<1> USE Numbers DEF TypeOK, SemType, TatetiType
<1>a. \A q \in TatetiRuns : TatetiRunTurn(q)
  BY DEF TatetiTurns
<1>b. \A r \in TatetiRuns, k \in T!Words :
        at[r][k] \in {"down", "print", "up"} =>
          /\ main[r] \in {"fork2", "loop"} /\ \E m \in T!Words : TatetiTurn(r, m)
          /\ \A m \in T!Words : Owns(r, m)
  BY <1>a DEF LoopsKept, TatetiRunTurn, Owns
<1>c. ASSUME NEW r \in TatetiRuns, TatetiRunTurn(r)',
             \A q \in TatetiRuns : q # r =>
               /\ main'[q] = main[q] /\ idx'[q] = idx[q] /\ at'[q] = at[q]
               /\ tatetiOut'[q] = tatetiOut[q],
             \A k \in T!Words : sem'[k] = sem[k] \/ Owns(r, k) \/ sem[k] = NotInUse
      PROVE  TatetiTurns'
  <2>1. ASSUME NEW q \in TatetiRuns, q # r PROVE TatetiRunTurn(q)'
    <3>1. \A k \in T!Words : Owns(q, k) => sem'[k] = sem[k]
      BY <1>c, <2>1, NotOthers
    <3> QED
      BY <1>a, <1>c, <2>1, <3>1, OthersTurn
  <2> QED
    BY <1>c, <2>1 DEF TatetiTurns
<1>1. ASSUME NEW r \in TatetiRuns, Opened(r) PROVE TatetiTurns'
  <2>1. \A q \in TatetiRuns : q # r =>
          /\ main'[q] = main[q] /\ idx'[q] = idx[q] /\ at'[q] = at[q]
          /\ tatetiOut'[q] = tatetiOut[q]
    BY <1>1 DEF Opened
  <2>2. \A k \in T!Words : sem'[k] = sem[k] \/ Owns(r, k) \/ sem[k] = NotInUse
    BY <1>1 DEF Opened
  <2>3. TatetiRunTurn(r)'
    <3>1. /\ main[r] = "open" /\ tatetiOut[r] = <<>>
          /\ \A k \in T!Words : k < idx[r] => sem[k] = IF k = 0 THEN 1 ELSE 0
      BY <1>1, <1>a DEF Opened, TatetiRunTurn
    <3>2. \A k \in T!Words : k <= idx[r] => sem'[k] = IF k = 0 THEN 1 ELSE 0
      BY <1>1, <3>1 DEF Opened
    <3>3. CASE idx[r] = 2
      <4>1. sem'[0] = 1 /\ sem'[1] = 0 /\ sem'[2] = 0
        BY <3>2, <3>3
      <4>2. \A m \in T!Words : ~Talks(at'[r][m])
        BY <1>1, <3>1 DEF Opened, LoopsKept, Talks
      <4>3. tatetiOut'[r] = <<>> /\ Len(tatetiOut'[r]) % 3 = 0
        BY <1>1, <3>1 DEF Opened
      <4>4. TatetiTurn(r, 0)'
        BY <4>1, <4>2, <4>3 DEF TatetiTurn
      <4> QED
        BY <1>1, <3>3, <4>4 DEF Opened, TatetiRunTurn
    <3>4. CASE idx[r] # 2
      BY <1>1, <3>1, <3>2, <3>4 DEF Opened, TatetiRunTurn
    <3> QED
      BY <3>3, <3>4
  <2> QED
    BY <2>1, <2>2, <2>3, <1>c
<1>2. ASSUME NEW r \in TatetiRuns, Refused(r) PROVE TatetiTurns'
  <2>1. \A q \in TatetiRuns : q # r =>
          /\ main'[q] = main[q] /\ idx'[q] = idx[q] /\ at'[q] = at[q]
          /\ tatetiOut'[q] = tatetiOut[q]
    BY <1>2 DEF Refused, GivesUp
  <2>2. \A k \in T!Words : sem'[k] = sem[k] \/ Owns(r, k) \/ sem[k] = NotInUse
    BY <1>2 DEF Refused, GivesUp
  <2>3. TatetiRunTurn(r)'
    <3>1. main'[r] \notin {"open", "fork1", "fork2", "loop"}
      BY <1>2 DEF Refused, GivesUp
    <3> QED
      BY <3>1 DEF TatetiRunTurn
  <2> QED
    BY <2>1, <2>2, <2>3, <1>c
<1>3. ASSUME NEW r \in TatetiRuns, FirstFork(r) PROVE TatetiTurns'
  <2>1. \A q \in TatetiRuns : q # r =>
          /\ main'[q] = main[q] /\ idx'[q] = idx[q] /\ at'[q] = at[q]
          /\ tatetiOut'[q] = tatetiOut[q]
    BY <1>3 DEF FirstFork
  <2>2. \A k \in T!Words : sem'[k] = sem[k] \/ Owns(r, k) \/ sem[k] = NotInUse
    BY <1>3 DEF FirstFork
  <2>3. TatetiRunTurn(r)'
    <3>1. PICK k \in T!Words : TatetiTurn(r, k)
      BY <1>3, <1>a DEF FirstFork, TatetiRunTurn
    <3>2. \A m \in T!Words : Talks(at'[r][m]) <=> Talks(at[r][m])
      BY <1>3 DEF FirstFork, LoopsKept, Talks
    <3>3. \A m \in T!Words : Talks(at[r][m]) => at'[r][m] = at[r][m]
      BY <1>3 DEF FirstFork, LoopsKept, Talks
    <3>4. TatetiTurn(r, k)'
      BY <1>3, <3>1, <3>2, <3>3 DEF FirstFork, TatetiTurn, Talks
    <3> QED
      BY <1>3, <3>4 DEF FirstFork, TatetiRunTurn
  <2> QED
    BY <2>1, <2>2, <2>3, <1>c
<1>4. ASSUME NEW r \in TatetiRuns, SecondFork(r) PROVE TatetiTurns'
  <2>1. \A q \in TatetiRuns : q # r =>
          /\ main'[q] = main[q] /\ idx'[q] = idx[q] /\ at'[q] = at[q]
          /\ tatetiOut'[q] = tatetiOut[q]
    BY <1>4 DEF SecondFork
  <2>2. \A k \in T!Words : sem'[k] = sem[k] \/ Owns(r, k) \/ sem[k] = NotInUse
    BY <1>4 DEF SecondFork
  <2>3. TatetiRunTurn(r)'
    <3>1. PICK k \in T!Words : TatetiTurn(r, k)
      BY <1>4, <1>a DEF SecondFork, TatetiRunTurn
    <3>2. \A m \in T!Words : Talks(at'[r][m]) <=> Talks(at[r][m])
      BY <1>4 DEF SecondFork, LoopsKept, Talks
    <3>3. \A m \in T!Words : Talks(at[r][m]) => at'[r][m] = at[r][m]
      BY <1>4 DEF SecondFork, LoopsKept, Talks
    <3>4. TatetiTurn(r, k)'
      BY <1>4, <3>1, <3>2, <3>3 DEF SecondFork, TatetiTurn, Talks
    <3> QED
      BY <1>4, <3>4 DEF SecondFork, TatetiRunTurn
  <2> QED
    BY <2>1, <2>2, <2>3, <1>c
<1>5. ASSUME NEW r \in TatetiRuns, ForkError(r) PROVE TatetiTurns'
  <2>1. \A q \in TatetiRuns : q # r =>
          /\ main'[q] = main[q] /\ idx'[q] = idx[q] /\ at'[q] = at[q]
          /\ tatetiOut'[q] = tatetiOut[q]
    BY <1>5 DEF ForkError, GivesUp
  <2>2. \A k \in T!Words : sem'[k] = sem[k] \/ Owns(r, k) \/ sem[k] = NotInUse
    BY <1>5 DEF ForkError, GivesUp
  <2>3. TatetiRunTurn(r)'
    <3>1. main'[r] \notin {"open", "fork1", "fork2", "loop"}
      BY <1>5 DEF ForkError, GivesUp
    <3> QED
      BY <3>1 DEF TatetiRunTurn
  <2> QED
    BY <2>1, <2>2, <2>3, <1>c
<1>6. ASSUME NEW r \in TatetiRuns, Waited(r) PROVE TatetiTurns'
  <2>1. \A q \in TatetiRuns : q # r =>
          /\ main'[q] = main[q] /\ idx'[q] = idx[q] /\ at'[q] = at[q]
          /\ tatetiOut'[q] = tatetiOut[q]
    BY <1>6 DEF Waited, GivesUp
  <2>2. \A k \in T!Words : sem'[k] = sem[k] \/ Owns(r, k) \/ sem[k] = NotInUse
    BY <1>6 DEF Waited, GivesUp
  <2>3. TatetiRunTurn(r)'
    <3>1. main'[r] \notin {"open", "fork1", "fork2", "loop"}
      BY <1>6 DEF Waited, GivesUp
    <3> QED
      BY <3>1 DEF TatetiRunTurn
  <2> QED
    BY <2>1, <2>2, <2>3, <1>c
<1>7. ASSUME NEW r \in TatetiRuns, Closed(r) PROVE TatetiTurns'
  <2>1. \A q \in TatetiRuns : q # r =>
          /\ main'[q] = main[q] /\ idx'[q] = idx[q] /\ at'[q] = at[q]
          /\ tatetiOut'[q] = tatetiOut[q]
    BY <1>7 DEF Closed
  <2>2. \A k \in T!Words : sem'[k] = sem[k] \/ Owns(r, k) \/ sem[k] = NotInUse
    BY <1>7 DEF Closed, Owns
  <2>3. TatetiRunTurn(r)'
    <3>1. main'[r] \in {"close", "exited"}
      BY <1>7 DEF Closed
    <3> QED
      BY <3>1 DEF TatetiRunTurn
  <2> QED
    BY <2>1, <2>2, <2>3, <1>c
<1>8. ASSUME NEW r \in TatetiRuns, NEW k \in T!Words, Takes(r, k) PROVE TatetiTurns'
  <2>1. \A q \in TatetiRuns : q # r =>
          /\ main'[q] = main[q] /\ idx'[q] = idx[q] /\ at'[q] = at[q]
          /\ tatetiOut'[q] = tatetiOut[q]
    BY <1>8 DEF Takes, LoopGoes
  <2>2. \A l \in T!Words : sem'[l] = sem[l] \/ Owns(r, l) \/ sem[l] = NotInUse
    BY <1>8, <1>b DEF Takes, LoopGoes
  <2>3. TatetiRunTurn(r)'
    <3>1. PICK m \in T!Words : TatetiTurn(r, m)
      BY <1>8, <1>b DEF Takes, LoopGoes
    <3>2. main'[r] \in {"fork2", "loop"}
      BY <1>8, <1>b DEF Takes, LoopGoes
    <3>3. \A l \in T!Words : l # k => at'[r][l] = at[r][l]
      BY <1>8 DEF Takes, LoopGoes
    <3>4. m = k /\ sem[k] = 1
      BY <1>8, <3>1 DEF Takes, LoopGoes, TatetiTurn, Talks
    <3>5. sem'[k] = 0 /\ at'[r][k] = "print" /\ tatetiOut' = tatetiOut
      BY <1>8, <3>4 DEF Takes, LoopGoes, NotInUse
    <3>6. \A l \in T!Words : l # k => sem'[l] = sem[l]
      BY <1>8 DEF Takes
    <3>7. Len(tatetiOut[r]) % 3 = k
      BY <1>8, <3>1, <3>4 DEF Takes, LoopGoes, TatetiTurn, Talks
    <3>9. TatetiTurn(r, k)'
      BY <3>1, <3>3, <3>4, <3>5, <3>6, <3>7 DEF TatetiTurn
    <3> QED
      BY <3>2, <3>9 DEF TatetiRunTurn
  <2> QED
    BY <2>1, <2>2, <2>3, <1>c
<1>9. ASSUME NEW r \in TatetiRuns, NEW k \in T!Words, Prints(r, k) PROVE TatetiTurns'
  <2>1. \A q \in TatetiRuns : q # r =>
          /\ main'[q] = main[q] /\ idx'[q] = idx[q] /\ at'[q] = at[q]
          /\ tatetiOut'[q] = tatetiOut[q]
    BY <1>9 DEF Prints, LoopGoes
  <2>2. \A l \in T!Words : sem'[l] = sem[l] \/ Owns(r, l) \/ sem[l] = NotInUse
    BY <1>9 DEF Prints, LoopGoes
  <2>3. TatetiRunTurn(r)'
    <3>1. PICK m \in T!Words : TatetiTurn(r, m)
      BY <1>9, <1>b DEF Prints, LoopGoes
    <3>2. main'[r] \in {"fork2", "loop"}
      BY <1>9, <1>b DEF Prints, LoopGoes
    <3>3. \A l \in T!Words : l # k => at'[r][l] = at[r][l]
      BY <1>9 DEF Prints, LoopGoes
    <3>4. m = k /\ sem[k] = 0 /\ Len(tatetiOut[r]) % 3 = k
      BY <1>9, <3>1 DEF Prints, LoopGoes, TatetiTurn, Talks
    <3>5. sem' = sem /\ at'[r][k] = "up" /\ Len(tatetiOut'[r]) = Len(tatetiOut[r]) + 1
      BY <1>9, OneMore DEF Prints, LoopGoes
    <3>6. Len(tatetiOut[r]) \in Nat
      BY OneMore
    <3>7. Len(tatetiOut'[r]) % 3 = T!Next3(k)
      BY ONLY <3>4, <3>5, <3>6, RoundNext
    <3>9. TatetiTurn(r, k)'
      BY <3>1, <3>3, <3>4, <3>5, <3>7 DEF TatetiTurn, T!Next3
    <3> QED
      BY <3>2, <3>9 DEF TatetiRunTurn
  <2> QED
    BY <2>1, <2>2, <2>3, <1>c
<1>10. ASSUME NEW r \in TatetiRuns, NEW k \in T!Words, Passes(r, k) PROVE TatetiTurns'
  <2>1. \A q \in TatetiRuns : q # r =>
          /\ main'[q] = main[q] /\ idx'[q] = idx[q] /\ at'[q] = at[q]
          /\ tatetiOut'[q] = tatetiOut[q]
    BY <1>10 DEF Passes, LoopGoes
  <2>2. \A l \in T!Words : sem'[l] = sem[l] \/ Owns(r, l) \/ sem[l] = NotInUse
    BY <1>10, <1>b DEF Passes, LoopGoes
  <2>3. TatetiRunTurn(r)'
    <3>1. PICK m \in T!Words : TatetiTurn(r, m)
      BY <1>10, <1>b DEF Passes, LoopGoes
    <3>2. main'[r] \in {"fork2", "loop"}
      BY <1>10, <1>b DEF Passes, LoopGoes
    <3>3. \A l \in T!Words : l # k => at'[r][l] = at[r][l]
      BY <1>10 DEF Passes, LoopGoes
    <3>4. m = k /\ sem[k] = 0 /\ Len(tatetiOut[r]) % 3 = T!Next3(k)
      <4>1. at[r][k] = "up"
        BY <1>10 DEF Passes, LoopGoes
      <4> QED
        BY ONLY <3>1, <4>1, m \in T!Words, k \in T!Words DEF TatetiTurn, Talks
    <3>5. T!Next3(k) \in T!Words /\ T!Next3(k) # k
      BY ONLY k \in T!Words, T!Words = {0, 1, 2}, RoundNext
    <3>6. sem[T!Next3(k)] = 0 /\ sem'[T!Next3(k)] = 1
      BY <1>10, <3>1, <3>4, <3>5 DEF Passes, TatetiTurn, NotInUse
    <3>7. \A l \in T!Words : l # T!Next3(k) => sem'[l] = 0
      BY <1>10, <3>1, <3>4 DEF Passes, TatetiTurn
    <3>8. tatetiOut' = tatetiOut /\ \A l \in T!Words : ~Talks(at'[r][l])
      BY <1>10, <3>1, <3>3, <3>4 DEF Passes, LoopGoes, TatetiTurn, Talks
    <3>9. \E l \in T!Words : TatetiTurn(r, l)'
      BY <3>4, <3>5, <3>6, <3>7, <3>8 DEF TatetiTurn
    <3> QED
      BY <3>2, <3>9 DEF TatetiRunTurn
  <2> QED
    BY <2>1, <2>2, <2>3, <1>c
<1> QED
  BY TatetiSteps, <1>1, <1>2, <1>3, <1>4, <1>5, <1>6, <1>7, <1>8, <1>9, <1>10, Zenon

\* The words of tateti go round, since each comes at its turn.
LEMMA TatetiOrderStep ==
  ASSUME 2 \notin ForkFails, TypeOK, TatetiOwns, LoopsKept, TatetiTurns, T!InOrder, T!Next
  PROVE  T!InOrder'
<1> USE Numbers DEF TypeOK, TatetiType
<1>1. ASSUME NEW r \in TatetiRuns, NEW k \in T!Words, Prints(r, k) PROVE T!InOrder'
  <2>1. at[r][k] = "print" /\ tatetiOut' = [tatetiOut EXCEPT ![r] = Append(tatetiOut[r], k)]
    BY <1>1 DEF Prints, LoopGoes
  <2>2. PICK m \in T!Words : TatetiTurn(r, m)
    BY <2>1 DEF LoopsKept, TatetiTurns, TatetiRunTurn
  <2>3. Len(tatetiOut[r]) % 3 = k
    BY <2>1, <2>2 DEF TatetiTurn, Talks
  <2>4. Len(tatetiOut[r]) \in Nat /\ Len(tatetiOut'[r]) = Len(tatetiOut[r]) + 1
    BY <2>1, OneMore
  <2>5. ASSUME NEW q \in TatetiRuns, NEW n \in 1..Len(tatetiOut'[q])
        PROVE  tatetiOut'[q][n] = (n - 1) % 3
    <3>1. CASE q # r
      BY <2>1, <2>5, <3>1 DEF T!InOrder
    <3>2. CASE q = r /\ n \in 1..Len(tatetiOut[r])
      <4>1. tatetiOut'[r][n] = tatetiOut[r][n]
        BY <2>1, <3>2, OneMore
      <4> QED
        BY <3>2, <4>1 DEF T!InOrder
    <3>3. CASE q = r /\ n = Len(tatetiOut[r]) + 1
      <4>1. tatetiOut'[r][n] = k
        BY <2>1, <3>3, OneMore
      <4>2. n - 1 = Len(tatetiOut[r])
        BY <2>4, <3>3
      <4> QED
        BY <2>3, <3>3, <4>1, <4>2
    <3>4. n \in 1..Len(tatetiOut[r]) \/ n = Len(tatetiOut[r]) + 1 \/ q # r
      BY <2>4
    <3> QED
      BY <3>1, <3>2, <3>3, <3>4
  <2> QED
    BY <2>5 DEF T!InOrder
<1>2. CASE tatetiOut' = tatetiOut
  BY <1>2 DEF T!InOrder
<1>3. (\E r \in TatetiRuns, k \in T!Words : Prints(r, k)) \/ tatetiOut' = tatetiOut
  BY TatetiSteps DEF Opened, Refused, GivesUp, FirstFork, SecondFork, ForkError, Waited, Closed,
    Takes, Passes
<1> QED
  BY <1>1, <1>2, <1>3

------------------------------------------------------------------------------

\* Each step keeps the runs apart; a step of neither program changes nothing.
LEMMA SeparateStep == Separate /\ [Next]_vars => Separate'
<1> SUFFICES ASSUME Separate, [Next]_vars PROVE Separate'
  OBVIOUS
<1>1. CASE P!Next /\ UNCHANGED tatetiVars
  BY <1>1, PingTypeStep, PingOwnsStep, ChildKeptStep, TatetiFrame DEF Separate
<1>2. CASE T!Next /\ UNCHANGED pingVars
  BY <1>2, TatetiTypeStep, TatetiOwnsStep, PingFrame DEF Separate
<1>3. CASE UNCHANGED vars
  BY <1>3 DEF vars, pingVars, tatetiVars, Separate, TypeOK, SemType, PingType, TatetiType,
    PingOwns,
    Numbered, HasPing, HasPong, ChildKept, TatetiOwns, RunOwns, Owns
<1> QED
  BY <1>1, <1>2, <1>3 DEF Next

\* Whichever semaphores are taken, whatever fails and however large the pids are, the
\* runs stay apart.
THEOREM Separation == Spec => []Separate
<1>1. Init => Separate
  BY Initially DEF IInv
<1> QED
  BY <1>1, SeparateStep, PTL DEF Spec

\* No run disturbs the semaphores of another program or run, or forgets its own.
THEOREM SemaphoresKept == Spec => []OwnSemaphores
<1>1. Separate => OwnSemaphores
  <2> SUFFICES ASSUME Separate PROVE OwnSemaphores
    OBVIOUS
  <2> USE Numbers DEF Separate
  <2>1. ForeignKept
    BY DEF ForeignKept, P!ForeignKept, PingOwns, Numbered
  <2>2. ClosesItsOwn
    BY DEF ClosesItsOwn, T!ClosesItsOwn, TatetiOwns
  <2>3. P!LeavesClosed
    BY DEF P!LeavesClosed, PingOwns, Numbered, HasPing, HasPong, NotInUse, P!NotInUse
  <2>4. T!LeavesClosed
    BY DEF T!LeavesClosed, TatetiOwns, RunOwns, Owns, NotInUse, T!NotInUse
  <2> QED
    BY <2>1, <2>2, <2>3, <2>4 DEF OwnSemaphores, LeavesClosed
<1> QED
  BY <1>1, Separation, PTL

\* What the order of the words needs besides: the runs of pingpong have pids whose
\* numbers the kernel has semaphores for, and the second fork of tateti works.
InBounds == NumbersFit /\ 2 \notin ForkFails

LEMMA TurnsStep == InBounds /\ IInv /\ [Next]_vars => IInv'
<1> SUFFICES ASSUME InBounds, IInv, [Next]_vars PROVE IInv'
  OBVIOUS
<1>1. Separate'
  BY SeparateStep DEF IInv
<1>2. TypeOK /\ TypeOK' /\ PingOwns /\ ChildKept /\ TatetiOwns
  BY <1>1 DEF IInv, Separate
<1>3. CASE P!Next /\ UNCHANGED tatetiVars
  <2>1. PingTurns' /\ P!InOrder'
    BY <1>2, <1>3, PingTurnsStep, PingOrderStep DEF IInv, InBounds
  <2>2. LoopsKept' /\ TatetiTurns' /\ T!InOrder'
    BY <1>2, <1>3, TatetiFrame DEF IInv
  <2> QED
    BY <1>1, <2>1, <2>2 DEF IInv
<1>4. CASE T!Next /\ UNCHANGED pingVars
  <2>1. PingTurns' /\ P!InOrder'
    BY <1>2, <1>4, PingFrame DEF IInv
  <2>2. LoopsKept' /\ TatetiTurns' /\ T!InOrder'
    BY <1>2, <1>4, LoopsKeptStep, TatetiTurnsStep, TatetiOrderStep DEF IInv, InBounds
  <2> QED
    BY <1>1, <2>1, <2>2 DEF IInv
<1>5. CASE UNCHANGED vars
  <2> USE <1>5 DEF vars, pingVars, tatetiVars, IInv
  <2>1. PingTurns'
    BY DEF PingTurns, PingRunTurn, PingTurn, Talks, Even
  <2>2. LoopsKept' /\ P!InOrder' /\ T!InOrder'
    BY DEF LoopsKept, P!InOrder, T!InOrder
  <2>3. TatetiTurns'
    <3>1. \A r \in TatetiRuns, k \in T!Words : TatetiTurn(r, k)' <=> TatetiTurn(r, k)
      BY DEF TatetiTurn, Talks, T!Next3
    <3> QED
      BY <3>1 DEF TatetiTurns, TatetiRunTurn
  <2> QED
    BY <1>1, <2>1, <2>2, <2>3
<1> QED
  BY <1>3, <1>4, <1>5 DEF Next

\* For any number of runs of either program, pingpong alternates and tateti goes round.
THEOREM WordsInOrder == InBounds /\ Spec => []InOrder
<1> SUFFICES ASSUME InBounds PROVE Spec => []InOrder
  OBVIOUS
<1>1. Init => IInv
  BY Initially
<1>2. IInv => InOrder
  BY DEF IInv, InOrder
<1>3. IInv /\ [Next]_vars => IInv'
  BY TurnsStep
<1> QED
  BY <1>1, <1>2, <1>3, PTL DEF Spec

=============================================================================
