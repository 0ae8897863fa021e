------------------------------ MODULE LogProofs ------------------------------
(***************************************************************************)
(* Theorems about the log, for any processes, blocks, contents and sizes,  *)
(* and for crashes at any point.                                           *)
(***************************************************************************)
EXTENDS Log, FiniteSetTheorems, SequenceTheorems, TLAPS

CommitPcs == {"write_log", "write_head", "install", "clear", "committed"}

TypeOK ==
  /\ home \in [Blocks -> Vals]
  /\ logged \in [1..LOGSIZE -> Vals]
  /\ head \in Seq(Blocks) /\ Len(head) <= LOGSIZE
  /\ cache \in [Blocks -> Vals \cup {Absent}]
  /\ pinned \subseteq Blocks
  /\ lh \in Seq(Blocks) /\ Len(lh) <= LOGSIZE
  /\ outstanding \in Nat
  /\ committing \in BOOLEAN
  /\ pc \in [Procs -> {"user", "begin", "asleep", "active", "panicked"} \cup CommitPcs]
  /\ wrote \in [Procs -> SUBSET Blocks]
  /\ tail \in Nat \ {0}
  /\ boot \in {"up", "read_head", "install", "clear"}

\* No block is in the header twice.
Distinct(s) == \A j, k \in 1..Len(s) : s[j] = s[k] => j = k

\* A loop over the log is at one of its entries.
TailInLog ==
  /\ Distinct(lh) /\ Distinct(head)
  /\ (boot = "install" \/ \E p \in Procs : pc[p] \in {"write_log", "install"}) => tail <= Len(lh)
  /\ boot = "read_head" => tail = 1
  /\ \A p \in Procs : pc[p] = "write_head" => tail = 1 /\ lh # <<>>

\* log.outstanding counts the active operations.
Counted == outstanding = Cardinality(Active)

\* One process commits, when no operation is active; none does in a recovery.
OneCommits ==
  /\ committing <=> \E p \in Procs : pc[p] \in CommitPcs
  /\ \A p, q \in Procs : pc[p] \in CommitPcs /\ pc[q] \in CommitPcs => p = q
  /\ committing => Active = {}
  /\ boot # "up" => \A p \in Procs : pc[p] = "user"

\* The header on disk is that of memory once the commit is made and until it is erased.
HeadMeans ==
  /\ boot = "up" /\ (\A p \in Procs : pc[p] \notin {"install", "clear"}) => head = <<>>
  /\ (\E p \in Procs : pc[p] \in {"install", "clear"}) => head = lh
  /\ boot \in {"install", "clear"} => head = lh
  /\ boot = "read_head" => lh = <<>>
  /\ \A p \in Procs : pc[p] = "committed" => lh = <<>>
  /\ boot = "up" /\ ~committing /\ Active = {} => lh = <<>>

\* A block is pinned from its first log_write until it is installed.
PinnedLogged ==
  /\ boot = "up" /\ (\A p \in Procs : pc[p] \notin {"install", "clear"}) => pinned = Entries
  /\ (\E p \in Procs : pc[p] = "install") => pinned = { lh[k] : k \in tail..Len(lh) }
  /\ (\E p \in Procs : pc[p] = "clear") \/ boot # "up" => pinned = {}

\* A buffer holds what is at the block's home, or it is pinned.
CacheHolds ==
  \A b \in Blocks :
    IF b \in pinned THEN cache[b] # Absent ELSE cache[b] \in {Absent, home[b]}

\* What the log's data blocks hold, entry by entry.
LogHolds ==
  /\ (\E p \in Procs : pc[p] = "write_log") =>
       \A k \in 1..Len(lh) : k < tail => logged[k] = cache[lh[k]]
  /\ (\E p \in Procs : pc[p] = "write_head") => \A k \in 1..Len(lh) : logged[k] = cache[lh[k]]
  /\ (\E p \in Procs : pc[p] = "install") =>
       \A k \in 1..Len(lh) : k >= tail => logged[k] = cache[lh[k]]
  /\ boot = "install" \/ (\E p \in Procs : pc[p] = "install") =>
       \A k \in 1..Len(lh) : k < tail => home[lh[k]] = logged[k]
  /\ boot = "clear" \/ (\E p \in Procs : pc[p] = "clear") =>
       \A k \in 1..Len(lh) : home[lh[k]] = logged[k]

\* The writes the active operations have not made yet.
ToWrite == { w \in Procs \X (1..OpWrites) : w[1] \in Active /\ w[2] > Cardinality(wrote[w[1]]) }

\* Operations leave a block of those set aside for them, and the header has two entries
\* more than one of them writes.
BlockToSpare == OpWrites < MAXOPBLOCKS /\ OpWrites + 2 <= LOGSIZE

\* The entries that operations can come to need.  Alone an operation begins with an empty
\* header, and beside others each of them leaves a block to spare.
Capacity == IF BlockToSpare THEN LOGSIZE - 2 ELSE LOGSIZE

\* There is an entry for every write to come, and one already for every write made.
RoomKept ==
  /\ Active # {} => Len(lh) + Cardinality(ToWrite) <= Capacity
  /\ \A p \in Active : wrote[p] \subseteq Entries /\ Cardinality(wrote[p]) <= OpWrites

IInv ==
  /\ TypeOK
  /\ TailInLog
  /\ Counted
  /\ OneCommits
  /\ HeadMeans
  /\ PinnedLogged
  /\ CacheHolds
  /\ LogHolds

\* The constants, and the default content that the log's data blocks begin with.
LEMMA LogFacts ==
  /\ MAXOPBLOCKS \in Nat /\ LOGSIZE \in Nat /\ LogDiskSize \in Nat /\ OpWrites \in Nat
  /\ OpWrites <= MAXOPBLOCKS /\ LogDiskSize <= LOGSIZE + 1
  /\ Absent \notin Vals /\ (CHOOSE v \in Vals : TRUE) \in Vals
  /\ IsFiniteSet(Procs) /\ IsFiniteSet(Blocks)
BY LogAssumption DEF LogAssumption

\* A log that is not empty has a first entry.
LEMMA NotEmpty ==
  ASSUME NEW s \in Seq(Blocks), s # <<>>
  PROVE  Len(s) \in Nat \ {0}
BY EmptySeq

\* What holds when the machine first boots.
LEMMA LogInitially == Init => IInv
<1> SUFFICES ASSUME Init PROVE IInv
  OBVIOUS
<1> USE LogFacts DEF Init
<1>1. Active = {} /\ Cardinality(Active) = 0
  BY FS_EmptySet DEF Active
<1>2. Entries = {}
  BY DEF Entries
<1>3. TypeOK
  <2>1. \E v \in Vals : logged = [k \in 1..LOGSIZE |-> v]
    OBVIOUS
  <2>2. logged \in [1..LOGSIZE -> Vals]
    BY <2>1
  <2>3. head \in Seq(Blocks) /\ Len(head) <= LOGSIZE /\ lh \in Seq(Blocks) /\ Len(lh) <= LOGSIZE
    BY EmptySeq
  <2>4. cache \in [Blocks -> Vals \cup {Absent}] /\ wrote \in [Procs -> SUBSET Blocks]
    OBVIOUS
  <2>5. pc \in [Procs -> {"user", "begin", "asleep", "active", "panicked"} \cup CommitPcs]
    OBVIOUS
  <2>6. pinned \subseteq Blocks /\ outstanding \in Nat /\ tail \in Nat \ {0}
    OBVIOUS
  <2>7. committing \in BOOLEAN /\ boot \in {"up", "read_head", "install", "clear"}
    BY Zenon
  <2> QED
    BY <2>2, <2>3, <2>4, <2>5, <2>6, <2>7, Zenon DEF TypeOK
<1>4. TailInLog /\ CacheHolds /\ LogHolds
  BY <1>3 DEF TypeOK, TailInLog, CacheHolds, LogHolds, Distinct
<1>5. Counted /\ OneCommits /\ HeadMeans /\ PinnedLogged
  BY <1>1, <1>2 DEF Counted, OneCommits, HeadMeans, PinnedLogged, CommitPcs
<1> QED
  BY <1>3, <1>4, <1>5 DEF IInv

\* What Write does: a block is pinned and appended, or was in the log before.
WriteOf(p, b) ==
  /\ boot' = boot /\ pc' = pc /\ tail' = tail /\ outstanding' = outstanding
  /\ committing' = committing /\ home' = home /\ logged' = logged /\ head' = head
  /\ pc[p] = "active" /\ Len(lh) < LOGSIZE
  /\ \E v \in Vals : cache' = [cache EXCEPT ![b] = v]
  /\ wrote' = [wrote EXCEPT ![p] = @ \cup {b}]
  /\ \/ /\ b \in Entries /\ pinned' = pinned /\ lh' = lh
     \/ /\ b \notin Entries /\ pinned' = pinned \cup {b}
        /\ lh' \in Seq(Blocks) /\ Len(lh') = Len(lh) + 1
        /\ \A k \in 1..Len(lh) : lh'[k] = lh[k]
        /\ lh'[Len(lh) + 1] = b

\* Write is that.
LEMMA WriteEffect ==
  ASSUME TypeOK, NEW p \in Procs, NEW b \in Blocks, Write(p, b)
  PROVE  WriteOf(p, b)
<1>1. lh \in Seq(Blocks) /\ Len(lh) < LOGSIZE
  BY LogFacts DEF Write, CallsLogWrite, LogFull, TypeOK
<1>2. Append(lh, b) \in Seq(Blocks) /\ Len(Append(lh, b)) = Len(lh) + 1
  BY <1>1, AppendProperties
<1>3. (\A k \in 1..Len(lh) : Append(lh, b)[k] = lh[k]) /\ Append(lh, b)[Len(lh) + 1] = b
  BY <1>1, AppendProperties
<1> QED
  BY <1>1, <1>2, <1>3 DEF Write, CallsLogWrite, WriteOf, disk

\* No step leaves the types of the fields.
LEMMA TypeStep == TypeOK /\ TailInLog /\ [Next]_vars => TypeOK'
<1> SUFFICES ASSUME TypeOK, TailInLog, [Next]_vars PROVE TypeOK'
  OBVIOUS
<1> USE LogFacts DEF disk, memory, TypeOK, TailInLog, CommitPcs
<1>1. ASSUME NEW p \in Procs, CallBegin(p) PROVE TypeOK'
  BY <1>1 DEF CallBegin
<1>2. ASSUME NEW p \in Procs, BeginSleep(p) PROVE TypeOK'
  BY <1>2 DEF BeginSleep
<1>3. ASSUME NEW p \in Procs, BeginEnter(p) PROVE TypeOK'
  BY <1>3 DEF BeginEnter, MustWait
<1>4. ASSUME NEW p \in Procs, NEW b \in Blocks, Write(p, b) PROVE TypeOK'
  <2>1. WriteOf(p, b)
    BY <1>4, WriteEffect
  <2> QED
    BY <2>1 DEF WriteOf, Entries
<1>5. ASSUME NEW p \in Procs, EndOp(p) PROVE TypeOK'
  BY <1>5 DEF EndOp, WakeAll
<1>6. ASSUME NEW p \in Procs, EndLast(p) PROVE TypeOK'
  BY <1>6 DEF EndLast
<1>7. ASSUME NEW p \in Procs, WriteLog(p) PROVE TypeOK'
  BY <1>7 DEF WriteLog, Cached
<1>8. ASSUME NEW p \in Procs, WriteHead(p) PROVE TypeOK'
  BY <1>8 DEF WriteHead
<1>9. ASSUME NEW p \in Procs, Install(p) PROVE TypeOK'
  BY <1>9 DEF Install, InstallOne
<1>10. ASSUME NEW p \in Procs, Clear(p) PROVE TypeOK'
  BY <1>10 DEF Clear, ClearLog
<1>11. ASSUME NEW p \in Procs, Committed(p) PROVE TypeOK'
  BY <1>11 DEF Committed, WakeAll
<1>12. ASSUME NEW b \in Blocks, Load(b) PROVE TypeOK'
  BY <1>12 DEF Load
<1>13. ASSUME NEW b \in Blocks, Evict(b) PROVE TypeOK'
  BY <1>13 DEF Evict
<1>14. ASSUME Crash PROVE TypeOK'
  <2> USE <1>14 DEF Crash
  <2>1. cache' \in [Blocks -> Vals \cup {Absent}] /\ wrote' \in [Procs -> SUBSET Blocks]
    OBVIOUS
  <2>2. pc' \in [Procs -> {"user", "begin", "asleep", "active", "panicked"} \cup CommitPcs]
    OBVIOUS
  <2>3. lh' \in Seq(Blocks) /\ Len(lh') = 0
    BY EmptySeq
  <2>4. home' = home /\ logged' = logged /\ head' = head
    OBVIOUS
  <2>5. /\ pinned' = {} /\ outstanding' = 0 /\ committing' = FALSE /\ tail' = 1
        /\ boot' = "read_head"
    OBVIOUS
  <2>6. home' \in [Blocks -> Vals] /\ logged' \in [1..LOGSIZE -> Vals]
    BY <2>4
  <2>7. head' \in Seq(Blocks) /\ Len(head') <= LOGSIZE /\ Len(lh') <= LOGSIZE
    BY <2>3, <2>4
  <2>8. pinned' \subseteq Blocks /\ outstanding' \in Nat /\ tail' \in Nat \ {0}
    BY <2>5
  <2>9. committing' \in BOOLEAN /\ boot' \in {"up", "read_head", "install", "clear"}
    BY <2>5, Zenon
  <2> QED
    BY <2>1, <2>2, <2>3, <2>6, <2>7, <2>8, <2>9, Zenon
<1>15. ASSUME ReadHead PROVE TypeOK'
  BY <1>15 DEF ReadHead
<1>16. ASSUME RecoverInstall PROVE TypeOK'
  BY <1>16 DEF RecoverInstall, InstallOne
<1>17. ASSUME RecoverClear PROVE TypeOK'
  BY <1>17 DEF RecoverClear, ClearLog
<1>18. CASE UNCHANGED vars
  BY <1>18 DEF vars
<1>19. ASSUME NEW p \in Procs, NEW b \in Blocks, WritePanics(p, b) PROVE TypeOK'
  BY <1>19 DEF WritePanics, CallsLogWrite
<1> QED
  BY <1>1, <1>2, <1>3, <1>4, <1>5, <1>6, <1>7, <1>8, <1>9, <1>10, <1>11, <1>12, <1>13,
     <1>14, <1>15, <1>16, <1>17, <1>18, <1>19 DEF Next, EndStep, CommitStep, Recover

\* The loops stay inside the log.
LEMMA TailStep == TypeOK /\ TailInLog /\ OneCommits /\ HeadMeans /\ [Next]_vars => TailInLog'
<1> SUFFICES ASSUME TypeOK, TailInLog, OneCommits, HeadMeans, [Next]_vars PROVE TailInLog'
  OBVIOUS
<1> USE LogFacts, NotEmpty DEF disk, memory, TypeOK, TailInLog, OneCommits, HeadMeans,
     CommitPcs, Distinct
<1>1. ASSUME NEW p \in Procs, CallBegin(p) PROVE TailInLog'
  BY <1>1 DEF CallBegin
<1>2. ASSUME NEW p \in Procs, BeginSleep(p) PROVE TailInLog'
  BY <1>2 DEF BeginSleep
<1>3. ASSUME NEW p \in Procs, BeginEnter(p) PROVE TailInLog'
  BY <1>3 DEF BeginEnter, MustWait
<1>4. ASSUME NEW p \in Procs, NEW b \in Blocks, Write(p, b) PROVE TailInLog'
  <2>1. WriteOf(p, b)
    BY <1>4, WriteEffect
  <2>2. Distinct(lh')
    <3>1. CASE b \in Entries
      BY <3>1, <2>1 DEF WriteOf
    <3>2. CASE b \notin Entries
      <4>1. \A k \in 1..Len(lh) : lh'[k] = lh[k] /\ lh[k] # b
        BY <3>2, <2>1 DEF WriteOf, Entries
      <4>2. Len(lh') = Len(lh) + 1 /\ lh'[Len(lh) + 1] = b
        BY <3>2, <2>1 DEF WriteOf
      <4>3. ASSUME NEW j \in 1..Len(lh'), NEW k \in 1..Len(lh'), lh'[j] = lh'[k], j <= k
            PROVE  j = k
        <5>1. CASE k <= Len(lh)
          BY <5>1, <4>1, <4>3
        <5>2. CASE j <= Len(lh) /\ k = Len(lh) + 1
          BY <5>2, <4>1, <4>2, <4>3
        <5>3. j \in Int /\ k \in Int /\ Len(lh) \in Nat /\ k <= Len(lh) + 1 /\ j <= k
          BY <4>2, <4>3
        <5> HIDE DEF TypeOK, TailInLog, OneCommits, HeadMeans
        <5> QED
          BY <5>1, <5>2, <5>3
      <4> QED
        BY <4>3
    <3> QED
      BY <3>1, <3>2
  <2>3. \A q \in Procs : pc'[q] \notin CommitPcs
    BY <2>1 DEF WriteOf, Active
  <2>4. boot = "up"
    BY <2>1 DEF WriteOf
  <2> QED
    BY <2>1, <2>2, <2>3, <2>4 DEF WriteOf
<1>5. ASSUME NEW p \in Procs, EndOp(p) PROVE TailInLog'
  BY <1>5 DEF EndOp, WakeAll
<1>6. ASSUME NEW p \in Procs, EndLast(p) PROVE TailInLog'
  BY <1>6 DEF EndLast
<1>7. ASSUME NEW p \in Procs, WriteLog(p) PROVE TailInLog'
  BY <1>7 DEF WriteLog, Cached
<1>8. ASSUME NEW p \in Procs, WriteHead(p) PROVE TailInLog'
  BY <1>8 DEF WriteHead
<1>9. ASSUME NEW p \in Procs, Install(p) PROVE TailInLog'
  BY <1>9 DEF Install, InstallOne
<1>10. ASSUME NEW p \in Procs, Clear(p) PROVE TailInLog'
  BY <1>10 DEF Clear, ClearLog
<1>11. ASSUME NEW p \in Procs, Committed(p) PROVE TailInLog'
  BY <1>11 DEF Committed, WakeAll
<1>12. ASSUME NEW b \in Blocks, Load(b) PROVE TailInLog'
  BY <1>12 DEF Load
<1>13. ASSUME NEW b \in Blocks, Evict(b) PROVE TailInLog'
  BY <1>13 DEF Evict
<1>14. ASSUME Crash PROVE TailInLog'
  BY <1>14 DEF Crash
<1>15. ASSUME ReadHead PROVE TailInLog'
  BY <1>15 DEF ReadHead
<1>16. ASSUME RecoverInstall PROVE TailInLog'
  BY <1>16 DEF RecoverInstall, InstallOne
<1>17. ASSUME RecoverClear PROVE TailInLog'
  BY <1>17 DEF RecoverClear, ClearLog
<1>18. CASE UNCHANGED vars
  BY <1>18 DEF vars
<1>19. ASSUME NEW p \in Procs, NEW b \in Blocks, WritePanics(p, b) PROVE TailInLog'
  BY <1>19 DEF WritePanics, CallsLogWrite
<1> QED
  BY <1>1, <1>2, <1>3, <1>4, <1>5, <1>6, <1>7, <1>8, <1>9, <1>10, <1>11, <1>12, <1>13,
     <1>14, <1>15, <1>16, <1>17, <1>18, <1>19 DEF Next, EndStep, CommitStep, Recover

\* Who is active: the processes of a finite table.
LEMMA ActiveFinite == IsFiniteSet(Active) /\ Active \subseteq Procs
BY LogFacts, FS_Subset DEF Active

\* The last outstanding operation is the only active one, and another one is not.
LEMMA LastActive ==
  ASSUME Counted, NEW p \in Active
  PROVE  outstanding \in Nat \ {0} /\ (outstanding = 1 <=> Active = {p})
<1>1. Cardinality(Active) \in Nat /\ Cardinality(Active) # 0
  BY ActiveFinite, FS_CardinalityType, FS_EmptySet
<1>2. Cardinality(Active) = 1 <=> Active = {p}
  BY ActiveFinite, FS_Singleton
<1> QED
  BY <1>1, <1>2 DEF Counted

\* Operations are counted as they begin and end.
LEMMA CountStep == TypeOK /\ Counted /\ [Next]_vars => Counted'
<1> SUFFICES ASSUME TypeOK, Counted, [Next]_vars PROVE Counted'
  OBVIOUS
<1> USE LogFacts DEF disk, memory, TypeOK, CommitPcs, Counted
<1>1. ASSUME NEW p \in Procs, CallBegin(p) PROVE Counted'
  <2>1. Active' = Active /\ outstanding' = outstanding
    BY <1>1 DEF CallBegin, Active
  <2> QED
    BY <2>1
<1>2. ASSUME NEW p \in Procs, BeginSleep(p) PROVE Counted'
  <2>1. Active' = Active /\ outstanding' = outstanding
    BY <1>2 DEF BeginSleep, Active
  <2> QED
    BY <2>1
<1>3. ASSUME NEW p \in Procs, BeginEnter(p) PROVE Counted'
  <2>1. Active' = Active \cup {p} /\ p \notin Active /\ outstanding' = outstanding + 1
    BY <1>3 DEF BeginEnter, Active
  <2> QED
    BY <2>1, ActiveFinite, FS_AddElement
<1>4. ASSUME NEW p \in Procs, NEW b \in Blocks, Write(p, b) PROVE Counted'
  <2>1. Active' = Active /\ outstanding' = outstanding
    BY <1>4 DEF Write, CallsLogWrite, LogFull, Entries, Active
  <2> QED
    BY <2>1
<1>5. ASSUME NEW p \in Procs, EndOp(p) PROVE Counted'
  <2>1. Active' = Active \ {p} /\ p \in Active /\ outstanding' = outstanding - 1
    BY <1>5 DEF EndOp, WakeAll, Active
  <2> QED
    BY <2>1, ActiveFinite, FS_RemoveElement
<1>6. ASSUME NEW p \in Procs, EndLast(p) PROVE Counted'
  <2>1. Active' = Active \ {p} /\ p \in Active /\ outstanding' = outstanding - 1
    BY <1>6 DEF EndLast, Active
  <2> QED
    BY <2>1, ActiveFinite, FS_RemoveElement
<1>7. ASSUME NEW p \in Procs, WriteLog(p) PROVE Counted'
  <2>1. Active' = Active /\ outstanding' = outstanding
    BY <1>7 DEF WriteLog, Cached, Active
  <2> QED
    BY <2>1
<1>8. ASSUME NEW p \in Procs, WriteHead(p) PROVE Counted'
  <2>1. Active' = Active /\ outstanding' = outstanding
    BY <1>8 DEF WriteHead, Active
  <2> QED
    BY <2>1
<1>9. ASSUME NEW p \in Procs, Install(p) PROVE Counted'
  <2>1. Active' = Active /\ outstanding' = outstanding
    BY <1>9 DEF Install, InstallOne, Active
  <2> QED
    BY <2>1
<1>10. ASSUME NEW p \in Procs, Clear(p) PROVE Counted'
  <2>1. Active' = Active /\ outstanding' = outstanding
    BY <1>10 DEF Clear, ClearLog, Active
  <2> QED
    BY <2>1
<1>11. ASSUME NEW p \in Procs, Committed(p) PROVE Counted'
  <2>1. Active' = Active /\ outstanding' = outstanding
    BY <1>11 DEF Committed, WakeAll, Active
  <2> QED
    BY <2>1
<1>12. ASSUME NEW b \in Blocks, Load(b) PROVE Counted'
  BY <1>12 DEF Load, Active
<1>13. ASSUME NEW b \in Blocks, Evict(b) PROVE Counted'
  BY <1>13 DEF Evict, Active
<1>14. ASSUME Crash PROVE Counted'
  <2>1. Active' = {} /\ outstanding' = 0
    BY <1>14 DEF Crash, Active
  <2> QED
    BY <2>1, FS_EmptySet
<1>15. ASSUME ReadHead PROVE Counted'
  BY <1>15 DEF ReadHead, Active
<1>16. ASSUME RecoverInstall PROVE Counted'
  BY <1>16 DEF RecoverInstall, InstallOne, Active
<1>17. ASSUME RecoverClear PROVE Counted'
  BY <1>17 DEF RecoverClear, ClearLog, Active
<1>18. CASE UNCHANGED vars
  BY <1>18 DEF vars, Active
<1>19. ASSUME NEW p \in Procs, NEW b \in Blocks, WritePanics(p, b) PROVE Counted'
  <2>1. Active' = Active /\ outstanding' = outstanding
    BY <1>19 DEF WritePanics, CallsLogWrite, Active
  <2> QED
    BY <2>1
<1> QED
  BY <1>1, <1>2, <1>3, <1>4, <1>5, <1>6, <1>7, <1>8, <1>9, <1>10, <1>11, <1>12, <1>13,
     <1>14, <1>15, <1>16, <1>17, <1>18, <1>19 DEF Next, EndStep, CommitStep, Recover

\* The last operation to end is the one to commit, and it lets nobody in.
LEMMA CommitsStep == TypeOK /\ Counted /\ OneCommits /\ [Next]_vars => OneCommits'
<1> SUFFICES ASSUME TypeOK, Counted, OneCommits, [Next]_vars PROVE OneCommits'
  OBVIOUS
<1> USE LogFacts DEF disk, memory, TypeOK, OneCommits, CommitPcs, Active
<1>1. ASSUME NEW p \in Procs, CallBegin(p) PROVE OneCommits'
  BY <1>1 DEF CallBegin
<1>2. ASSUME NEW p \in Procs, BeginSleep(p) PROVE OneCommits'
  BY <1>2 DEF BeginSleep
<1>3. ASSUME NEW p \in Procs, BeginEnter(p) PROVE OneCommits'
  BY <1>3 DEF BeginEnter, MustWait
<1>4. ASSUME NEW p \in Procs, NEW b \in Blocks, Write(p, b) PROVE OneCommits'
  BY <1>4 DEF Write, CallsLogWrite, LogFull, Entries
<1>5. ASSUME NEW p \in Procs, EndOp(p) PROVE OneCommits'
  BY <1>5 DEF EndOp, WakeAll
<1>6. ASSUME NEW p \in Procs, EndLast(p) PROVE OneCommits'
  <2>1. Active = {p}
    BY <1>6, LastActive DEF EndLast, Active
  <2> QED
    BY <1>6, <2>1 DEF EndLast, Active
<1>7. ASSUME NEW p \in Procs, WriteLog(p) PROVE OneCommits'
  BY <1>7 DEF WriteLog, Cached
<1>8. ASSUME NEW p \in Procs, WriteHead(p) PROVE OneCommits'
  BY <1>8 DEF WriteHead
<1>9. ASSUME NEW p \in Procs, Install(p) PROVE OneCommits'
  BY <1>9 DEF Install, InstallOne
<1>10. ASSUME NEW p \in Procs, Clear(p) PROVE OneCommits'
  BY <1>10 DEF Clear, ClearLog
<1>11. ASSUME NEW p \in Procs, Committed(p) PROVE OneCommits'
  BY <1>11 DEF Committed, WakeAll
<1>12. ASSUME NEW b \in Blocks, Load(b) PROVE OneCommits'
  BY <1>12 DEF Load
<1>13. ASSUME NEW b \in Blocks, Evict(b) PROVE OneCommits'
  BY <1>13 DEF Evict
<1>14. ASSUME Crash PROVE OneCommits'
  BY <1>14 DEF Crash
<1>15. ASSUME ReadHead PROVE OneCommits'
  BY <1>15 DEF ReadHead
<1>16. ASSUME RecoverInstall PROVE OneCommits'
  BY <1>16 DEF RecoverInstall, InstallOne
<1>17. ASSUME RecoverClear PROVE OneCommits'
  BY <1>17 DEF RecoverClear, ClearLog
<1>18. CASE UNCHANGED vars
  BY <1>18 DEF vars
<1>19. ASSUME NEW p \in Procs, NEW b \in Blocks, WritePanics(p, b) PROVE OneCommits'
  BY <1>19 DEF WritePanics, CallsLogWrite
<1> QED
  BY <1>1, <1>2, <1>3, <1>4, <1>5, <1>6, <1>7, <1>8, <1>9, <1>10, <1>11, <1>12, <1>13,
     <1>14, <1>15, <1>16, <1>17, <1>18, <1>19 DEF Next, EndStep, CommitStep, Recover

\* The header on disk follows the commit.
LEMMA HeadStep ==
  TypeOK /\ TailInLog /\ Counted /\ OneCommits /\ HeadMeans /\ [Next]_vars
  => HeadMeans'
<1> SUFFICES ASSUME TypeOK, TailInLog, Counted, OneCommits, HeadMeans, [Next]_vars
    PROVE HeadMeans'
  OBVIOUS
<1> USE LogFacts DEF disk, memory, TypeOK, TailInLog, OneCommits, HeadMeans, CommitPcs, Active
<1>1. ASSUME NEW p \in Procs, CallBegin(p) PROVE HeadMeans'
  BY <1>1 DEF CallBegin
<1>2. ASSUME NEW p \in Procs, BeginSleep(p) PROVE HeadMeans'
  BY <1>2 DEF BeginSleep
<1>3. ASSUME NEW p \in Procs, BeginEnter(p) PROVE HeadMeans'
  BY <1>3 DEF BeginEnter, MustWait
<1>4. ASSUME NEW p \in Procs, NEW b \in Blocks, Write(p, b) PROVE HeadMeans'
  BY <1>4 DEF Write, CallsLogWrite, LogFull, Entries
<1>5. ASSUME NEW p \in Procs, EndOp(p) PROVE HeadMeans'
  <2>1. PICK q \in Procs : q # p /\ q \in Active /\ pc[p] = "active"
    BY <1>5, LastActive DEF EndOp, Active
  <2>2. pc'[q] = pc[q] /\ \A r \in Procs : pc'[r] \in {pc[r], "user", "begin"}
    BY <1>5, <2>1 DEF EndOp, WakeAll
  <2> QED
    BY <1>5, <2>1, <2>2 DEF EndOp, Active
<1>6. ASSUME NEW p \in Procs, EndLast(p) PROVE HeadMeans'
  <2>1. Active = {p}
    BY <1>6, LastActive DEF EndLast, Active
  <2> QED
    BY <1>6, <2>1 DEF EndLast, Active
<1>7. ASSUME NEW p \in Procs, WriteLog(p) PROVE HeadMeans'
  BY <1>7 DEF WriteLog, Cached
<1>8. ASSUME NEW p \in Procs, WriteHead(p) PROVE HeadMeans'
  BY <1>8 DEF WriteHead
<1>9. ASSUME NEW p \in Procs, Install(p) PROVE HeadMeans'
  BY <1>9 DEF Install, InstallOne
<1>10. ASSUME NEW p \in Procs, Clear(p) PROVE HeadMeans'
  BY <1>10 DEF Clear, ClearLog
<1>11. ASSUME NEW p \in Procs, Committed(p) PROVE HeadMeans'
  BY <1>11 DEF Committed, WakeAll
<1>12. ASSUME NEW b \in Blocks, Load(b) PROVE HeadMeans'
  BY <1>12 DEF Load
<1>13. ASSUME NEW b \in Blocks, Evict(b) PROVE HeadMeans'
  BY <1>13 DEF Evict
<1>14. ASSUME Crash PROVE HeadMeans'
  BY <1>14 DEF Crash
<1>15. ASSUME ReadHead PROVE HeadMeans'
  BY <1>15 DEF ReadHead
<1>16. ASSUME RecoverInstall PROVE HeadMeans'
  BY <1>16 DEF RecoverInstall, InstallOne
<1>17. ASSUME RecoverClear PROVE HeadMeans'
  BY <1>17 DEF RecoverClear, ClearLog
<1>18. CASE UNCHANGED vars
  BY <1>18 DEF vars
<1>19. ASSUME NEW p \in Procs, NEW b \in Blocks, WritePanics(p, b) PROVE HeadMeans'
  BY <1>19 DEF WritePanics, CallsLogWrite
<1> QED
  BY <1>1, <1>2, <1>3, <1>4, <1>5, <1>6, <1>7, <1>8, <1>9, <1>10, <1>11, <1>12, <1>13,
     <1>14, <1>15, <1>16, <1>17, <1>18, <1>19 DEF Next, EndStep, CommitStep, Recover

\* Blocks are pinned and unpinned with the log.
LEMMA PinnedStep ==
  TypeOK /\ TailInLog /\ Counted /\ OneCommits /\ HeadMeans /\ PinnedLogged /\ [Next]_vars
  => PinnedLogged'
<1> SUFFICES ASSUME TypeOK, TailInLog, Counted, OneCommits, HeadMeans, PinnedLogged,
                    [Next]_vars
    PROVE PinnedLogged'
  OBVIOUS
<1> USE LogFacts DEF disk, memory, TypeOK, TailInLog, OneCommits, HeadMeans, PinnedLogged,
     Entries, CommitPcs, Distinct
<1>1. ASSUME NEW p \in Procs, CallBegin(p) PROVE PinnedLogged'
  BY <1>1 DEF CallBegin
<1>2. ASSUME NEW p \in Procs, BeginSleep(p) PROVE PinnedLogged'
  BY <1>2 DEF BeginSleep
<1>3. ASSUME NEW p \in Procs, BeginEnter(p) PROVE PinnedLogged'
  BY <1>3 DEF BeginEnter, MustWait
<1>4. ASSUME NEW p \in Procs, NEW b \in Blocks, Write(p, b) PROVE PinnedLogged'
  <2>1. WriteOf(p, b)
    BY <1>4, WriteEffect
  <2>2. \A q \in Procs : pc[q] \notin CommitPcs
    BY <2>1 DEF WriteOf, Active
  <2>3. boot = "up" /\ pinned = Entries
    BY <2>1, <2>2 DEF WriteOf
  <2>4. \A q \in Procs : pc'[q] \notin CommitPcs
    BY <2>1, <2>2 DEF WriteOf
  <2>5. boot' = "up"
    BY <2>1, <2>3 DEF WriteOf
  <2>6. pinned' = Entries'
    <3>1. CASE b \in Entries
      BY <3>1, <2>1, <2>3 DEF WriteOf
    <3>2. CASE b \notin Entries
      <4>1. lh' \in Seq(Blocks) /\ Len(lh') = Len(lh) + 1 /\ lh'[Len(lh) + 1] = b
        BY <3>2, <2>1 DEF WriteOf
      <4>2. \A k \in 1..Len(lh) : lh'[k] = lh[k]
        BY <3>2, <2>1 DEF WriteOf
      <4>3. ASSUME NEW c PROVE c \in Entries' <=> c \in Entries \/ c = b
        <5>1. ASSUME NEW k \in 1..Len(lh'), c = lh'[k] PROVE c \in Entries \/ c = b
          BY <5>1, <4>1, <4>2
        <5>2. ASSUME NEW k \in 1..Len(lh), c = lh[k] PROVE c \in Entries'
          BY <5>2, <4>1, <4>2
        <5>3. b \in Entries'
          BY <4>1
        <5> QED
          BY <5>1, <5>2, <5>3
      <4> QED
        BY <4>3, <3>2, <2>1, <2>3 DEF WriteOf
    <3> QED
      BY <3>1, <3>2
  <2> QED
    BY <2>4, <2>5, <2>6
<1>5. ASSUME NEW p \in Procs, EndOp(p) PROVE PinnedLogged'
  BY <1>5 DEF EndOp, WakeAll
<1>6. ASSUME NEW p \in Procs, EndLast(p) PROVE PinnedLogged'
  <2>1. boot = "up" /\ \A q \in Procs : pc[q] \notin CommitPcs
    BY <1>6 DEF EndLast, Active
  <2> QED
    BY <1>6, <2>1 DEF EndLast
<1>7. ASSUME NEW p \in Procs, WriteLog(p) PROVE PinnedLogged'
  BY <1>7 DEF WriteLog, Cached
<1>8. ASSUME NEW p \in Procs, WriteHead(p) PROVE PinnedLogged'
  BY <1>8 DEF WriteHead
<1>9. ASSUME NEW p \in Procs, Install(p) PROVE PinnedLogged'
  BY <1>9 DEF Install, InstallOne
<1>10. ASSUME NEW p \in Procs, Clear(p) PROVE PinnedLogged'
  BY <1>10 DEF Clear, ClearLog
<1>11. ASSUME NEW p \in Procs, Committed(p) PROVE PinnedLogged'
  BY <1>11 DEF Committed, WakeAll
<1>12. ASSUME NEW b \in Blocks, Load(b) PROVE PinnedLogged'
  BY <1>12 DEF Load
<1>13. ASSUME NEW b \in Blocks, Evict(b) PROVE PinnedLogged'
  BY <1>13 DEF Evict
<1>14. ASSUME Crash PROVE PinnedLogged'
  BY <1>14 DEF Crash
<1>15. ASSUME ReadHead PROVE PinnedLogged'
  BY <1>15 DEF ReadHead
<1>16. ASSUME RecoverInstall PROVE PinnedLogged'
  BY <1>16 DEF RecoverInstall, InstallOne
<1>17. ASSUME RecoverClear PROVE PinnedLogged'
  BY <1>17 DEF RecoverClear, ClearLog
<1>18. CASE UNCHANGED vars
  BY <1>18 DEF vars
<1>19. ASSUME NEW p \in Procs, NEW b \in Blocks, WritePanics(p, b) PROVE PinnedLogged'
  BY <1>19 DEF WritePanics, CallsLogWrite
<1> QED
  BY <1>1, <1>2, <1>3, <1>4, <1>5, <1>6, <1>7, <1>8, <1>9, <1>10, <1>11, <1>12, <1>13,
     <1>14, <1>15, <1>16, <1>17, <1>18, <1>19 DEF Next, EndStep, CommitStep, Recover

\* Buffers and homes agree.
LEMMA CacheStep ==
  TypeOK /\ TailInLog /\ Counted /\ OneCommits /\ HeadMeans /\ PinnedLogged /\ CacheHolds
  /\ [Next]_vars
  => CacheHolds'
<1> SUFFICES ASSUME TypeOK, TailInLog, Counted, OneCommits, HeadMeans, PinnedLogged,
                    CacheHolds, [Next]_vars
    PROVE CacheHolds'
  OBVIOUS
<1> USE LogFacts DEF disk, memory, TypeOK, TailInLog, OneCommits, HeadMeans, PinnedLogged,
     Entries, CacheHolds, CommitPcs
<1>1. ASSUME NEW p \in Procs, CallBegin(p) PROVE CacheHolds'
  BY <1>1 DEF CallBegin
<1>2. ASSUME NEW p \in Procs, BeginSleep(p) PROVE CacheHolds'
  BY <1>2 DEF BeginSleep
<1>3. ASSUME NEW p \in Procs, BeginEnter(p) PROVE CacheHolds'
  BY <1>3 DEF BeginEnter, MustWait
<1>4. ASSUME NEW p \in Procs, NEW b \in Blocks, Write(p, b) PROVE CacheHolds'
  <2>1. WriteOf(p, b)
    BY <1>4, WriteEffect
  <2>2. b \in pinned'
    BY <2>1 DEF WriteOf, Active
  <2>3. PICK v \in Vals : cache' = [cache EXCEPT ![b] = v]
    BY <2>1 DEF WriteOf
  <2>4. home' = home /\ \A c \in Blocks \ {b} : c \in pinned' <=> c \in pinned
    BY <2>1 DEF WriteOf
  <2> QED
    BY <2>2, <2>3, <2>4
<1>5. ASSUME NEW p \in Procs, EndOp(p) PROVE CacheHolds'
  BY <1>5 DEF EndOp, WakeAll
<1>6. ASSUME NEW p \in Procs, EndLast(p) PROVE CacheHolds'
  BY <1>6 DEF EndLast
<1>7. ASSUME NEW p \in Procs, WriteLog(p) PROVE CacheHolds'
  BY <1>7 DEF WriteLog, Cached
<1>8. ASSUME NEW p \in Procs, WriteHead(p) PROVE CacheHolds'
  BY <1>8 DEF WriteHead
<1>9. ASSUME NEW p \in Procs, Install(p) PROVE CacheHolds'
  BY <1>9 DEF Install, InstallOne
<1>10. ASSUME NEW p \in Procs, Clear(p) PROVE CacheHolds'
  BY <1>10 DEF Clear, ClearLog
<1>11. ASSUME NEW p \in Procs, Committed(p) PROVE CacheHolds'
  BY <1>11 DEF Committed, WakeAll
<1>12. ASSUME NEW b \in Blocks, Load(b) PROVE CacheHolds'
  BY <1>12 DEF Load
<1>13. ASSUME NEW b \in Blocks, Evict(b) PROVE CacheHolds'
  BY <1>13 DEF Evict
<1>14. ASSUME Crash PROVE CacheHolds'
  BY <1>14 DEF Crash
<1>15. ASSUME ReadHead PROVE CacheHolds'
  BY <1>15 DEF ReadHead
<1>16. ASSUME RecoverInstall PROVE CacheHolds'
  BY <1>16 DEF RecoverInstall, InstallOne
<1>17. ASSUME RecoverClear PROVE CacheHolds'
  BY <1>17 DEF RecoverClear, ClearLog
<1>18. CASE UNCHANGED vars
  BY <1>18 DEF vars
<1>19. ASSUME NEW p \in Procs, NEW b \in Blocks, WritePanics(p, b) PROVE CacheHolds'
  BY <1>19 DEF WritePanics, CallsLogWrite
<1> QED
  BY <1>1, <1>2, <1>3, <1>4, <1>5, <1>6, <1>7, <1>8, <1>9, <1>10, <1>11, <1>12, <1>13,
     <1>14, <1>15, <1>16, <1>17, <1>18, <1>19 DEF Next, EndStep, CommitStep, Recover

\* The log's data blocks and the cache or the homes agree.
LEMMA LogStep ==
  TypeOK /\ TailInLog /\ Counted /\ OneCommits /\ HeadMeans /\ PinnedLogged /\ CacheHolds
  /\ LogHolds /\ [Next]_vars
  => LogHolds'
<1> SUFFICES ASSUME TypeOK, TailInLog, Counted, OneCommits, HeadMeans, PinnedLogged,
                    CacheHolds, LogHolds, [Next]_vars
    PROVE LogHolds'
  OBVIOUS
<1> USE LogFacts DEF disk, memory, TypeOK, TailInLog, OneCommits, HeadMeans, PinnedLogged,
     Entries, CacheHolds, LogHolds, CommitPcs, Distinct
<1>1. ASSUME NEW p \in Procs, CallBegin(p) PROVE LogHolds'
  BY <1>1 DEF CallBegin
<1>2. ASSUME NEW p \in Procs, BeginSleep(p) PROVE LogHolds'
  BY <1>2 DEF BeginSleep
<1>3. ASSUME NEW p \in Procs, BeginEnter(p) PROVE LogHolds'
  BY <1>3 DEF BeginEnter, MustWait
<1>4. ASSUME NEW p \in Procs, NEW b \in Blocks, Write(p, b) PROVE LogHolds'
  <2>1. WriteOf(p, b)
    BY <1>4, WriteEffect
  <2>2. \A q \in Procs : pc'[q] \notin CommitPcs
    BY <2>1 DEF WriteOf, Active
  <2>3. boot' = "up"
    BY <2>1, <2>2 DEF WriteOf
  <2> QED
    BY <2>2, <2>3
<1>5. ASSUME NEW p \in Procs, EndOp(p) PROVE LogHolds'
  BY <1>5 DEF EndOp, WakeAll
<1>6. ASSUME NEW p \in Procs, EndLast(p) PROVE LogHolds'
  <2>1. boot = "up" /\ \A q \in Procs : pc[q] \notin CommitPcs
    BY <1>6 DEF EndLast, Active
  <2> QED
    BY <1>6, <2>1 DEF EndLast
<1>7. ASSUME NEW p \in Procs, WriteLog(p) PROVE LogHolds'
  <2>1. boot = "up" /\ (\A q \in Procs : pc[q] \in CommitPcs <=> q = p) /\ tail <= Len(lh)
    BY <1>7 DEF WriteLog
  <2>2. pinned = Entries /\ lh[tail] \in Entries
    BY <1>7, <2>1 DEF WriteLog
  <2>3. logged' = [logged EXCEPT ![tail] = cache[lh[tail]]]
    BY <1>7, <2>2 DEF WriteLog, Cached
  <2>4. \A k \in 1..Len(lh) : k <= tail => logged'[k] = cache[lh[k]]
    BY <1>7, <2>1, <2>3 DEF WriteLog
  <2>5. boot' = boot /\ lh' = lh /\ cache' = cache
    BY <1>7 DEF WriteLog
  <2>6. CASE tail = Len(lh)
    <3>1. pc' = [pc EXCEPT ![p] = "write_head"]
      BY <1>7, <2>6 DEF WriteLog
    <3>2. \A q \in Procs : pc'[q] \in CommitPcs => pc'[q] = "write_head"
      BY <2>1, <3>1
    <3>3. \A k \in 1..Len(lh') : logged'[k] = cache'[lh'[k]]
      BY <2>4, <2>5, <2>6
    <3> QED
      BY <2>1, <2>5, <3>2, <3>3
  <2>7. CASE tail # Len(lh)
    <3>1. pc' = pc /\ tail' = tail + 1
      BY <1>7, <2>7 DEF WriteLog
    <3> QED
      BY <2>1, <2>4, <2>5, <3>1, <1>7 DEF WriteLog
  <2> QED
    BY <2>6, <2>7
<1>8. ASSUME NEW p \in Procs, WriteHead(p) PROVE LogHolds'
  BY <1>8 DEF WriteHead
<1>9. ASSUME NEW p \in Procs, Install(p) PROVE LogHolds'
  BY <1>9 DEF Install, InstallOne
<1>10. ASSUME NEW p \in Procs, Clear(p) PROVE LogHolds'
  BY <1>10 DEF Clear, ClearLog
<1>11. ASSUME NEW p \in Procs, Committed(p) PROVE LogHolds'
  BY <1>11 DEF Committed, WakeAll
<1>12. ASSUME NEW b \in Blocks, Load(b) PROVE LogHolds'
  BY <1>12 DEF Load
<1>13. ASSUME NEW b \in Blocks, Evict(b) PROVE LogHolds'
  BY <1>13 DEF Evict
<1>14. ASSUME Crash PROVE LogHolds'
  BY <1>14 DEF Crash
<1>15. ASSUME ReadHead PROVE LogHolds'
  BY <1>15 DEF ReadHead
<1>16. ASSUME RecoverInstall PROVE LogHolds'
  BY <1>16 DEF RecoverInstall, InstallOne
<1>17. ASSUME RecoverClear PROVE LogHolds'
  BY <1>17 DEF RecoverClear, ClearLog
<1>18. CASE UNCHANGED vars
  BY <1>18 DEF vars
<1>19. ASSUME NEW p \in Procs, NEW b \in Blocks, WritePanics(p, b) PROVE LogHolds'
  BY <1>19 DEF WritePanics, CallsLogWrite
<1> QED
  BY <1>1, <1>2, <1>3, <1>4, <1>5, <1>6, <1>7, <1>8, <1>9, <1>10, <1>11, <1>12, <1>13,
     <1>14, <1>15, <1>16, <1>17, <1>18, <1>19 DEF Next, EndStep, CommitStep, Recover

\* IInv is inductive.
LEMMA Inductive == IInv /\ [Next]_vars => IInv'
BY TypeStep, TailStep, CountStep, CommitsStep, HeadStep, PinnedStep, CacheStep, LogStep DEF IInv

\* It holds in every reachable state.
THEOREM Invariance == Spec => []IInv
BY LogInitially, Inductive, PTL DEF Spec

\* Every variable keeps its type: the log never overflows the header.
THEOREM TypeCorrect == Spec => []TypeOK
<1>1. IInv => TypeOK
  BY DEF IInv
<1> QED
  BY <1>1, Invariance, PTL

\* At most one process commits, and no operation is active while it does.
THEOREM CommitAlone == Spec => []OneCommits
<1>1. IInv => OneCommits
  BY DEF IInv
<1> QED
  BY <1>1, Invariance, PTL

------------------------------------------------------------------------------
(* What a recovery finds *)

\* The disk after a recovery with header h, data blocks l and homes m.
RecoveredFrom(h, l, m) ==
  [b \in Blocks |->
     IF \E k \in 1..Len(h) : h[k] = b THEN l[CHOOSE k \in 1..Len(h) : h[k] = b] ELSE m[b]]

\* A block of the header comes from its place in the log, any other one from its home.
LEMMA RecoveredAt ==
  ASSUME NEW h \in Seq(Blocks), Distinct(h), NEW l, NEW m
  PROVE  /\ \A k \in 1..Len(h) : RecoveredFrom(h, l, m)[h[k]] = l[k]
         /\ \A b \in Blocks :
              (\A k \in 1..Len(h) : h[k] # b) => RecoveredFrom(h, l, m)[b] = m[b]
<1>1. ASSUME NEW k \in 1..Len(h) PROVE RecoveredFrom(h, l, m)[h[k]] = l[k]
  <2>1. (CHOOSE j \in 1..Len(h) : h[j] = h[k]) = k
    BY DEF Distinct
  <2>2. h[k] \in Blocks
    OBVIOUS
  <2> QED
    BY <2>1, <2>2 DEF RecoveredFrom
<1> QED
  BY <1>1 DEF RecoveredFrom

\* With an empty header a recovery changes nothing.
LEMMA RecoveredEmpty ==
  ASSUME NEW l, NEW m \in [Blocks -> Vals]
  PROVE  RecoveredFrom(<<>>, l, m) = m
BY DEF RecoveredFrom

\* Once every home has what its entry holds, the recovery changes nothing either.
LEMMA RecoveredInstalled ==
  ASSUME NEW h \in Seq(Blocks), Distinct(h), NEW l, NEW m \in [Blocks -> Vals],
         \A k \in 1..Len(h) : m[h[k]] = l[k]
  PROVE  RecoveredFrom(h, l, m) = m
<1>1. ASSUME NEW b \in Blocks PROVE RecoveredFrom(h, l, m)[b] = m[b]
  BY RecoveredAt
<1> QED
  BY <1>1 DEF RecoveredFrom

\* Two homes that differ only in blocks of the header give the same disk.
LEMMA RecoveredSame ==
  ASSUME NEW h \in Seq(Blocks), NEW l, NEW m, NEW n,
         \A b \in Blocks : (\A k \in 1..Len(h) : h[k] # b) => m[b] = n[b]
  PROVE  RecoveredFrom(h, l, m) = RecoveredFrom(h, l, n)
BY DEF RecoveredFrom

\* The definition of module Log, by the header on disk.
LEMMA RecoveredIs ==
  /\ Recovered = RecoveredFrom(head, logged, home)
  /\ Recovered' = RecoveredFrom(head', logged', home')
BY DEF Recovered, RecoveredFrom

\* When nothing is active and no commit runs, the log is empty and every buffer clean.
LEMMA RestIsDurable == IInv => DurableAtRest
<1> SUFFICES ASSUME IInv, boot = "up", Active = {}, ~committing PROVE Recovered = Current
  BY DEF DurableAtRest
<1>1. head = <<>> /\ lh = <<>> /\ \A p \in Procs : pc[p] \notin CommitPcs
  BY DEF IInv, HeadMeans, OneCommits, CommitPcs
<1>2. pinned = {}
  BY <1>1 DEF IInv, PinnedLogged, Entries, CommitPcs
<1>3. \A b \in Blocks : Cached(b) = home[b]
  BY <1>2 DEF IInv, CacheHolds, Cached
<1>4. home \in [Blocks -> Vals]
  BY DEF IInv, TypeOK
<1>5. Recovered = home
  BY <1>1, <1>4, RecoveredIs, RecoveredEmpty
<1> QED
  BY <1>3, <1>4, <1>5 DEF Current

\* When nothing is active and no commit runs, what the operations wrote is durable.
THEOREM DurableOnReturn == Spec => []DurableAtRest
BY Invariance, RestIsDurable, PTL

------------------------------------------------------------------------------
(* The refinement of AtomicDisk *)

\* A disk just booted is the disk a recovery would find.
LEMMA DiskInit == Init => Atomic!Init
<1> SUFFICES ASSUME Init PROVE Atomic!Init
  OBVIOUS
<1>1. Recovered = home
  BY RecoveredIs, RecoveredEmpty DEF Init
<1>2. Current = home
  BY DEF Init, Current, Cached
<1>3. Active = {}
  BY DEF Init, Active
<1> QED
  BY <1>1, <1>2, <1>3 DEF Init, Atomic!Init

\* Each step of the log is one step of the atomic disk, or nothing to it.
LEMMA DiskStep == IInv /\ [Next]_vars => [Atomic!Next]_(Atomic!diskVars)
<1> SUFFICES ASSUME IInv, [Next]_vars PROVE [Atomic!Next]_(Atomic!diskVars)
  OBVIOUS
<1> DEFINE Same == Recovered' = Recovered /\ Current' = Current /\ Active' = Active
<1> USE LogFacts DEF IInv, TypeOK
<1>1. ASSUME NEW p \in Procs, CallBegin(p) PROVE Same
  <2>1. Recovered' = Recovered
    BY <1>1 DEF CallBegin, Recovered, disk
  <2>2. Current' = Current /\ Active' = Active
    BY <1>1, <2>1 DEF CallBegin, Current, Cached, Active, disk, memory
  <2> QED
    BY <2>1, <2>2
<1>2. ASSUME NEW p \in Procs, BeginSleep(p) PROVE Same
  <2>1. Recovered' = Recovered
    BY <1>2 DEF BeginSleep, Recovered, disk
  <2>2. Current' = Current /\ Active' = Active
    BY <1>2, <2>1 DEF BeginSleep, Current, Cached, Active, disk, memory
  <2> QED
    BY <2>1, <2>2
<1>3. ASSUME NEW p \in Procs, BeginEnter(p) PROVE Atomic!Next
  <2>1. Recovered' = Recovered /\ Current' = Current
    BY <1>3 DEF BeginEnter, Recovered, Current, Cached, disk
  <2>2. Active' = Active \cup {p} /\ p \notin Active
    BY <1>3 DEF BeginEnter, Active
  <2> QED
    BY <2>1, <2>2 DEF Atomic!Next, Atomic!Begin
<1>4. ASSUME NEW p \in Procs, NEW b \in Blocks, Write(p, b) PROVE Atomic!Next
  <2>1. WriteOf(p, b)
    BY <1>4, WriteEffect
  <2>2. boot = "up" /\ boot' = "up" /\ p \in Active /\ Active' = Active
    BY <2>1 DEF WriteOf, OneCommits, Active
  <2>3. PICK v \in Vals : cache' = [cache EXCEPT ![b] = v]
    BY <2>1 DEF WriteOf
  <2>4. Current' = [Current EXCEPT ![b] = v]
    BY <2>1, <2>2, <2>3 DEF WriteOf, Current, Cached
  <2>5. Recovered' = Recovered
    BY <2>1 DEF WriteOf, Recovered
  <2> QED
    BY <2>2, <2>4, <2>5 DEF Atomic!Next, Atomic!Write
<1>5. ASSUME NEW p \in Procs, EndOp(p) PROVE Atomic!Next
  <2>1. Recovered' = Recovered /\ Current' = Current
    BY <1>5 DEF EndOp, Recovered, Current, Cached, disk
  <2>2. Active' = Active \ {p} /\ p \in Active
    BY <1>5 DEF EndOp, WakeAll, Active
  <2> QED
    BY <2>1, <2>2 DEF Atomic!Next, Atomic!End
<1>6. ASSUME NEW p \in Procs, EndLast(p) PROVE Atomic!Next
  <2>1. Recovered' = Recovered /\ Current' = Current
    BY <1>6 DEF EndLast, Recovered, Current, Cached, disk
  <2>2. Active' = Active \ {p} /\ p \in Active
    BY <1>6 DEF EndLast, Active
  <2> QED
    BY <2>1, <2>2 DEF Atomic!Next, Atomic!End
<1>7. ASSUME NEW p \in Procs, WriteLog(p) PROVE Same
  <2>1. boot = "up" /\ head = <<>> /\ head' = <<>> /\ home' = home
    BY <1>7 DEF WriteLog, OneCommits, HeadMeans, CommitPcs
  <2>2. Recovered' = Recovered
    BY <2>1, RecoveredIs, RecoveredEmpty
  <2>3. Current' = Current /\ Active' = Active
    BY <1>7, <2>1 DEF WriteLog, Current, Cached, Active, memory
  <2> QED
    BY <2>2, <2>3
<1>8. ASSUME NEW p \in Procs, WriteHead(p) PROVE Atomic!Next
  <2>1. boot = "up" /\ pc[p] = "write_head" /\ head' = lh /\ logged' = logged /\ home' = home
    BY <1>8 DEF WriteHead, OneCommits, CommitPcs
  <2>2. \A k \in 1..Len(lh) : cache[lh[k]] # Absent /\ logged[k] = cache[lh[k]]
    BY <2>1 DEF OneCommits, CommitPcs, PinnedLogged, Entries, CacheHolds, LogHolds
  <2>3. \A b \in Blocks : (\A k \in 1..Len(lh) : lh[k] # b) => Cached(b) = home[b]
    BY <2>1 DEF OneCommits, CommitPcs, PinnedLogged, Entries, CacheHolds, Cached
  <2>4. ASSUME NEW b \in Blocks PROVE Recovered'[b] = Current[b]
    <3>1. Recovered' = RecoveredFrom(lh, logged, home) /\ lh \in Seq(Blocks) /\ Distinct(lh)
      BY <2>1, RecoveredIs DEF TailInLog
    <3>2. CASE \A k \in 1..Len(lh) : lh[k] # b
      BY <3>1, <3>2, <2>1, <2>3, RecoveredAt DEF Current
    <3>3. ASSUME NEW k \in 1..Len(lh), lh[k] = b PROVE Recovered'[b] = Current[b]
      BY <3>1, <3>3, <2>1, <2>2, RecoveredAt DEF Current, Cached
    <3> QED
      BY <3>2, <3>3
  <2>5. Recovered' = Current
    BY <2>1, <2>4 DEF Recovered, Current
  <2>6. Active = {} /\ Active' = Active /\ Current' = Current
    BY <1>8, <2>1 DEF WriteHead, Active, OneCommits, CommitPcs, Current, Cached, memory
  <2> QED
    BY <2>5, <2>6 DEF Atomic!Next, Atomic!Commit
<1>9. ASSUME NEW p \in Procs, Install(p) PROVE Same
  <2>1. /\ boot = "up" /\ boot' = "up" /\ pc[p] = "install" /\ head = lh /\ head' = head
        /\ logged' = logged /\ tail \in 1..Len(lh)
    BY <1>9 DEF Install, OneCommits, HeadMeans, TailInLog, CommitPcs
  <2>2. lh[tail] \in Blocks /\ logged[tail] \in Vals /\ logged[tail] = cache[lh[tail]]
    BY <2>1 DEF LogHolds
  <2>3. /\ home' = [home EXCEPT ![lh[tail]] = logged[tail]]
        /\ cache' = [cache EXCEPT ![lh[tail]] = logged[tail]]
    BY <1>9 DEF Install, InstallOne
  <2>4. Recovered' = Recovered
    <3>1. /\ head \in Seq(Blocks)
          /\ \A c \in Blocks : (\A k \in 1..Len(head) : head[k] # c) => home[c] = home'[c]
      BY <2>1, <2>2, <2>3
    <3>2. RecoveredFrom(head, logged, home) = RecoveredFrom(head, logged, home')
      BY <3>1, RecoveredSame
    <3> QED
      BY <3>2, <2>1, RecoveredIs
  <2>5. Current' = Current
    BY <2>1, <2>2, <2>3 DEF Current, Cached
  <2>6. Active' = Active
    BY <1>9 DEF Install, Active
  <2> QED
    BY <2>4, <2>5, <2>6
<1>10. ASSUME NEW p \in Procs, Clear(p) PROVE Same
  <2>1. /\ boot = "up" /\ boot' = "up" /\ pc[p] = "clear" /\ head = lh /\ head' = <<>>
        /\ logged' = logged /\ home' = home /\ cache' = cache
    BY <1>10 DEF Clear, ClearLog, OneCommits, HeadMeans, CommitPcs
  <2>2. \A k \in 1..Len(lh) : home[lh[k]] = logged[k]
    BY <2>1 DEF LogHolds
  <2>3. Recovered = home /\ Recovered' = home
    BY <2>1, <2>2, RecoveredIs, RecoveredEmpty, RecoveredInstalled DEF TailInLog
  <2>4. Current' = Current /\ Active' = Active
    BY <1>10, <2>1 DEF Clear, Active, Current, Cached
  <2> QED
    BY <2>3, <2>4
<1>11. ASSUME NEW p \in Procs, Committed(p) PROVE Same
  <2>1. Recovered' = Recovered
    BY <1>11 DEF Committed, WakeAll, Recovered, disk
  <2>2. Current' = Current /\ Active' = Active
    BY <1>11, <2>1 DEF Committed, WakeAll, Current, Cached, Active, disk, memory
  <2> QED
    BY <2>1, <2>2
<1>12. ASSUME NEW b \in Blocks, Load(b) PROVE Same
  <2>1. Recovered' = Recovered
    BY <1>12 DEF Load, Recovered, disk
  <2>2. Current' = Current /\ Active' = Active
    BY <1>12 DEF Load, Current, Cached, Active, disk
  <2> QED
    BY <2>1, <2>2
<1>13. ASSUME NEW b \in Blocks, Evict(b) PROVE Same
  <2>1. Recovered' = Recovered
    BY <1>13 DEF Evict, Recovered, disk
  <2>2. cache[b] = home[b]
    BY <1>13 DEF Evict, CacheHolds
  <2>3. Current' = Current /\ Active' = Active
    BY <1>13, <2>1, <2>2 DEF Evict, Current, Cached, Active, disk
  <2> QED
    BY <2>1, <2>3
<1>14. ASSUME Crash PROVE Atomic!Next
  <2>1. Recovered' = Recovered /\ Current' = Recovered /\ Active' = {}
    BY <1>14 DEF Crash, Recovered, Current, Active, disk
  <2> QED
    BY <2>1 DEF Atomic!Next, Atomic!Crash
<1>15. ASSUME ReadHead PROVE Same
  <2>1. Recovered' = Recovered
    BY <1>15 DEF ReadHead, Recovered, disk
  <2>2. Current' = Current /\ Active' = Active
    BY <1>15, <2>1 DEF ReadHead, Current, Cached, Active, disk, memory
  <2> QED
    BY <2>1, <2>2
<1>16. ASSUME RecoverInstall PROVE Same
  <2>1. /\ boot = "install" /\ boot' \in {"clear", "install"} /\ head = lh /\ head' = head
        /\ logged' = logged /\ tail \in 1..Len(lh)
        /\ home' = [home EXCEPT ![lh[tail]] = logged[tail]]
    BY <1>16 DEF RecoverInstall, InstallOne, HeadMeans, TailInLog
  <2>2. Recovered' = Recovered
    <3>1. /\ head \in Seq(Blocks)
          /\ \A c \in Blocks : (\A k \in 1..Len(head) : head[k] # c) => home[c] = home'[c]
      BY <2>1
    <3>2. RecoveredFrom(head, logged, home) = RecoveredFrom(head, logged, home')
      BY <3>1, RecoveredSame
    <3> QED
      BY <3>2, <2>1, RecoveredIs
  <2>3. Current' = Current /\ Active' = Active
    BY <1>16, <2>1, <2>2 DEF RecoverInstall, Active, Current
  <2> QED
    BY <2>2, <2>3
<1>17. ASSUME RecoverClear PROVE Same
  <2>1. /\ boot = "clear" /\ boot' = "up" /\ head = lh /\ head' = <<>>
        /\ logged' = logged /\ home' = home /\ cache' = cache
    BY <1>17 DEF RecoverClear, ClearLog, HeadMeans
  <2>2. \A k \in 1..Len(lh) : home[lh[k]] = logged[k]
    BY <2>1 DEF LogHolds
  <2>3. Recovered = home /\ Recovered' = home
    BY <2>1, <2>2, RecoveredIs, RecoveredEmpty, RecoveredInstalled DEF TailInLog
  <2>4. pinned = {}
    BY <2>1 DEF PinnedLogged
  <2>5. Current = Recovered /\ Current' = Recovered /\ Active' = Active
    BY <1>17, <2>1, <2>3, <2>4 DEF RecoverClear, Active, Current, Cached, CacheHolds
  <2> QED
    BY <2>3, <2>5
<1>18. ASSUME UNCHANGED vars PROVE Same
  BY <1>18 DEF vars, disk, memory, Recovered, Current, Cached, Active
<1>19. Same => UNCHANGED Atomic!diskVars
  BY DEF Atomic!diskVars
<1>20. ASSUME NEW p \in Procs, NEW b \in Blocks, WritePanics(p, b) PROVE Same
  <2>1. Recovered' = Recovered
    BY <1>20 DEF WritePanics, Recovered, disk
  <2>2. Current' = Current /\ Active' = Active
    BY <1>20, <2>1 DEF WritePanics, CallsLogWrite, Current, Cached, Active, disk, memory
  <2> QED
    BY <2>1, <2>2
<1> QED
  BY <1>1, <1>2, <1>3, <1>4, <1>5, <1>6, <1>7, <1>8, <1>9, <1>10, <1>11, <1>12, <1>13,
     <1>14, <1>15, <1>16, <1>17, <1>18, <1>19, <1>20 DEF Next, EndStep, CommitStep, Recover

\* Whatever the operations, commits, crashes and recoveries, what is on disk after a
\* recovery is a disk the operations could have left by atomic steps.
THEOREM Refinement == Spec => AtomicTransactions
BY DiskInit, DiskStep, Invariance, PTL DEF Spec, AtomicTransactions, Atomic!Spec

------------------------------------------------------------------------------
(* Room in the log *)

\* Reservations in blocks: n operations that begin_op let in, the first of them with an
\* empty header, write what fits the capacity.
LEMMA ReservedEnough ==
  ASSUME NEW n \in Nat \ {0}, NEW l \in Nat, l + n * MAXOPBLOCKS <= LOGSIZE,
         n = 1 => l = 0
  PROVE  l + n * OpWrites <= Capacity
<1> USE LogFacts DEF Capacity, BlockToSpare
<1>1. CASE BlockToSpare /\ n = 1
  BY <1>1
<1>2. CASE BlockToSpare /\ n # 1
  <2>1. n * (OpWrites + 1) <= n * MAXOPBLOCKS
    BY <1>2
  <2>2. n * (OpWrites + 1) = n * OpWrites + n /\ n >= 2
    BY <1>2
  <2> QED
    BY <1>2, <2>1, <2>2
<1>3. CASE ~BlockToSpare
  <2>1. n * OpWrites <= n * MAXOPBLOCKS
    OBVIOUS
  <2> QED
    BY <1>3, <2>1
<1> QED
  BY <1>1, <1>2, <1>3

\* What the operations of a set A have still to write is at most OpWrites each.
LEMMA WritesBound ==
  ASSUME NEW A, IsFiniteSet(A), NEW W \in SUBSET (A \X (1..OpWrites))
  PROVE  /\ IsFiniteSet(W) /\ Cardinality(W) \in Nat
         /\ Cardinality(W) <= Cardinality(A) * OpWrites
<1>1. IsFiniteSet(1..OpWrites) /\ Cardinality(1..OpWrites) = OpWrites
  BY LogFacts, FS_Interval
<1>2. /\ IsFiniteSet(A \X (1..OpWrites))
      /\ Cardinality(A \X (1..OpWrites)) = Cardinality(A) * OpWrites
  BY <1>1, FS_Product
<1> QED
  BY <1>2, FS_Subset, FS_CardinalityType

\* What the active operations have still to write is finite.
LEMMA ToWriteFinite == IsFiniteSet(ToWrite) /\ Cardinality(ToWrite) \in Nat
<1>1. ToWrite \subseteq Active \X (1..OpWrites)
  BY DEF ToWrite
<1> QED
  BY <1>1, ActiveFinite, WritesBound

\* There is nothing left to count when the operations end or never began.
LEMMA NoneActive ==
  ASSUME Active' = {} PROVE RoomKept'
BY DEF RoomKept

\* Fewer writes to come, or as many, need no more room.
LEMMA FewerToWrite ==
  ASSUME IInv, RoomKept, Active # {}, Active' \subseteq Active, lh' = lh,
         ToWrite' \subseteq ToWrite,
         \A q \in Active' : wrote'[q] \subseteq Entries /\ Cardinality(wrote'[q]) <= OpWrites
  PROVE  RoomKept'
<1>1. /\ Cardinality(ToWrite) \in Nat /\ Cardinality(ToWrite') \in Nat
      /\ Cardinality(ToWrite') <= Cardinality(ToWrite)
  BY ToWriteFinite, FS_Subset, FS_CardinalityType
<1>2. Entries' = Entries
  BY DEF Entries
<1>3. Len(lh) \in Nat /\ Capacity \in Int
  BY LogFacts DEF IInv, TypeOK, Capacity
<1>4. Len(lh') + Cardinality(ToWrite') <= Capacity
  BY <1>1, <1>3 DEF RoomKept
<1> QED
  BY <1>2, <1>4 DEF RoomKept

\* Steps that leave the operations and the log alone leave their room alone.
LEMMA RoomSame ==
  ASSUME RoomKept, Active' = Active, wrote' = wrote, lh' = lh
  PROVE  RoomKept'
<1>1. ToWrite' = ToWrite /\ Entries' = Entries
  BY DEF ToWrite, Entries
<1> QED
  BY <1>1 DEF RoomKept

\* A write by p to b adds b to what its operation wrote.
LEMMA OneMoreWritten ==
  ASSUME IInv, RoomKept, NEW p \in Procs, NEW b \in Blocks, Write(p, b)
  PROVE  /\ wrote'[p] = wrote[p] \cup {b} /\ \A q \in Procs \ {p} : wrote'[q] = wrote[q]
         /\ Cardinality(wrote[p]) \in Nat /\ Cardinality(wrote'[p]) <= OpWrites
         /\ Cardinality(wrote'[p]) =
              IF b \in wrote[p] THEN Cardinality(wrote[p]) ELSE Cardinality(wrote[p]) + 1
<1>1. p \in Active /\ (b \in wrote[p] \/ Cardinality(wrote[p]) < OpWrites)
  BY DEF Write, CallsLogWrite, Active
<1>2. wrote'[p] = wrote[p] \cup {b} /\ \A q \in Procs \ {p} : wrote'[q] = wrote[q]
  BY DEF Write, IInv, TypeOK
<1>3. wrote[p] \subseteq Blocks
  BY DEF IInv, TypeOK
<1>4. IsFiniteSet(wrote[p])
  BY <1>3, LogFacts, FS_Subset
<1>5. Cardinality(wrote[p]) \in Nat /\ Cardinality(wrote[p]) <= OpWrites
  BY <1>1, <1>4, FS_CardinalityType DEF RoomKept
<1>6. Cardinality(wrote[p] \cup {b}) =
        IF b \in wrote[p] THEN Cardinality(wrote[p]) ELSE Cardinality(wrote[p]) + 1
  BY <1>4, FS_AddElement
<1> QED
  BY <1>1, <1>2, <1>5, <1>6, LogFacts

\* begin_op lets an operation in only with room for all it can write, and a write uses up
\* what was kept for it.
LEMMA RoomStep == IInv /\ RoomKept /\ [Next]_vars => RoomKept'
<1> SUFFICES ASSUME IInv, RoomKept, [Next]_vars PROVE RoomKept'
  OBVIOUS
<1>1. ASSUME NEW p \in Procs, CallBegin(p) PROVE RoomKept'
  <2>1. Active' = Active /\ wrote' = wrote /\ lh' = lh
    BY <1>1 DEF CallBegin, memory, Active
  <2> QED
    BY <2>1, RoomSame
<1>2. ASSUME NEW p \in Procs, BeginSleep(p) PROVE RoomKept'
  <2>1. Active' = Active /\ wrote' = wrote /\ lh' = lh
    BY <1>2 DEF BeginSleep, memory, Active
  <2> QED
    BY <2>1, RoomSame
<1>3. ASSUME NEW p \in Procs, BeginEnter(p) PROVE RoomKept'
  <2>1. /\ Active' = Active \cup {p} /\ outstanding' = outstanding + 1 /\ lh' = lh
        /\ wrote' = [wrote EXCEPT ![p] = {}] /\ p \in Procs
    BY <1>3 DEF BeginEnter, Active, IInv, TypeOK
  <2>2. Cardinality(Active') = outstanding + 1
    BY <2>1, Inductive DEF IInv, Counted
  <2>3. outstanding + 1 \in Nat \ {0} /\ Len(lh) \in Nat
    BY DEF IInv, TypeOK
  <2>4. Len(lh) + (outstanding + 1) * OpWrites <= Capacity
    <3>1. (outstanding + 1) * MAXOPBLOCKS \in Nat
      BY <2>3, LogFacts
    <3>2. Len(lh) + (outstanding + 1) * MAXOPBLOCKS <= LOGSIZE
      BY <1>3, <2>3, <3>1, LogFacts DEF BeginEnter, MustWait
    <3>3. ASSUME outstanding = 0 PROVE Len(lh) = 0
      <4>1. Active = {}
        BY <3>3, ActiveFinite, FS_EmptySet DEF IInv, Counted
      <4>2. boot = "up" /\ ~committing
        BY <1>3 DEF BeginEnter, MustWait, IInv, OneCommits
      <4>3. lh = <<>>
        BY <4>1, <4>2 DEF IInv, HeadMeans
      <4> QED
        BY <4>3
    <3> QED
      BY <2>3, <3>2, <3>3, ReservedEnough DEF IInv, TypeOK
  <2>5. Cardinality(ToWrite') \in Nat /\ Cardinality(ToWrite') <= (outstanding + 1) * OpWrites
    <3>1. IsFiniteSet(Active')
      BY <2>1, ActiveFinite, FS_AddElement
    <3>2. ToWrite' \subseteq Active' \X (1..OpWrites)
      BY DEF ToWrite
    <3> QED
      BY <2>2, <3>1, <3>2, WritesBound
  <2>6. (outstanding + 1) * OpWrites \in Nat /\ Capacity \in Int
    BY <2>3, LogFacts DEF Capacity
  <2>7. Len(lh') + Cardinality(ToWrite') <= Capacity
    BY <2>1, <2>3, <2>4, <2>5, <2>6
  <2>8. ASSUME NEW q \in Active'
        PROVE  wrote'[q] \subseteq Entries' /\ Cardinality(wrote'[q]) <= OpWrites
    <3>1. Entries' = Entries /\ wrote \in [Procs -> SUBSET Blocks] /\ q \in Procs
      BY <2>1 DEF Entries, IInv, TypeOK, Active
    <3>2. CASE q = p
      <4>1. wrote'[q] = {} /\ Cardinality({}) = 0
        BY <3>1, <3>2, <2>1, FS_EmptySet
      <4> QED
        BY <4>1, LogFacts
    <3>3. CASE q # p
      BY <3>1, <3>3, <2>1 DEF RoomKept
    <3> QED
      BY <3>2, <3>3
  <2> QED
    BY <2>7, <2>8 DEF RoomKept
<1>4. ASSUME NEW p \in Procs, NEW b \in Blocks, Write(p, b) PROVE RoomKept'
  <2>1. WriteOf(p, b)
    BY <1>4, WriteEffect DEF IInv
  <2>2. p \in Active /\ Active' = Active /\ Active \subseteq Procs
    BY <2>1 DEF WriteOf, Active
  <2> DEFINE c == Cardinality(wrote[p])
  <2>3. /\ wrote'[p] = wrote[p] \cup {b} /\ \A q \in Procs \ {p} : wrote'[q] = wrote[q]
        /\ c \in Nat /\ Cardinality(wrote'[p]) <= OpWrites
        /\ Cardinality(wrote'[p]) = IF b \in wrote[p] THEN c ELSE c + 1
    BY <1>4, OneMoreWritten
  <2>4. \A q \in Active : Cardinality(wrote'[q]) <= OpWrites
    BY <2>2, <2>3 DEF RoomKept
  <2>5. CASE b \in Entries
    <3>1. lh' = lh
      BY <2>1, <2>5 DEF WriteOf
    <3>2. ToWrite' \subseteq ToWrite
      <4>1. ASSUME NEW q \in Procs, NEW n \in 1..OpWrites, q \in Active,
                    n > Cardinality(wrote'[q])
            PROVE  n > Cardinality(wrote[q])
        BY <4>1, <2>3
      <4> QED
        BY <4>1, <2>2 DEF ToWrite
    <3>3. \A q \in Active : wrote'[q] \subseteq Entries
      BY <2>2, <2>3, <2>5 DEF RoomKept
    <3> QED
      BY <3>1, <3>2, <3>3, <2>2, <2>4, FewerToWrite
  <2>6. CASE b \notin Entries
    <3>1. b \notin wrote[p]
      BY <2>2, <2>6 DEF RoomKept
    <3>2. /\ Len(lh') = Len(lh) + 1 /\ lh'[Len(lh) + 1] = b
          /\ \A k \in 1..Len(lh) : lh'[k] = lh[k]
      BY <2>1, <2>6 DEF WriteOf
    <3>3. Len(lh) \in Nat
      BY DEF IInv, TypeOK
    <3>4. <<p, c + 1>> \in ToWrite
      BY <2>2, <2>3, <3>1 DEF ToWrite
    <3>5. ToWrite' = ToWrite \ {<<p, c + 1>>}
      <4>1. \A w \in Procs \X (1..OpWrites) : w \in ToWrite' <=> w \in ToWrite /\ w # <<p, c + 1>>
        <5>1. ASSUME NEW q \in Procs, NEW n \in 1..OpWrites
              PROVE  <<q, n>> \in ToWrite' <=> <<q, n>> \in ToWrite /\ <<q, n>> # <<p, c + 1>>
          <6>1. <<q, n>> \in ToWrite' <=> q \in Active /\ n > Cardinality(wrote'[q])
            BY <2>2 DEF ToWrite
          <6>2. <<q, n>> \in ToWrite <=> q \in Active /\ n > Cardinality(wrote[q])
            BY DEF ToWrite
          <6>3. CASE q = p
            <7>1. n > c + 1 <=> n > c /\ n # c + 1
              BY <2>3
            <7> QED
              BY <6>1, <6>2, <6>3, <7>1, <2>3, <3>1
          <6>4. CASE q # p
            BY <6>1, <6>2, <6>4, <2>3
          <6> QED
            BY <6>3, <6>4
        <5> QED
          BY <5>1
      <4>2. ToWrite \subseteq Procs \X (1..OpWrites) /\ ToWrite' \subseteq Procs \X (1..OpWrites)
        BY DEF ToWrite
      <4> QED
        BY <4>1, <4>2
    <3>6. Cardinality(ToWrite') = Cardinality(ToWrite) - 1 /\ Cardinality(ToWrite) \in Nat
      BY <3>4, <3>5, ToWriteFinite, FS_RemoveElement
    <3>7. Len(lh') + Cardinality(ToWrite') <= Capacity
      BY <2>2, <3>2, <3>3, <3>6 DEF RoomKept
    <3>8. Entries \cup {b} \subseteq Entries'
      <4>1. b \in Entries'
        BY <3>2, <3>3 DEF Entries
      <4>2. Entries \subseteq Entries'
        BY <3>2, <3>3 DEF Entries
      <4> QED
        BY <4>1, <4>2
    <3>9. \A q \in Active : wrote'[q] \subseteq Entries'
      BY <2>2, <2>3, <3>8 DEF RoomKept
    <3> QED
      BY <2>2, <2>4, <3>7, <3>9 DEF RoomKept
  <2> QED
    BY <2>5, <2>6
<1>5. ASSUME NEW p \in Procs, EndOp(p) PROVE RoomKept'
  <2>1. Active' \subseteq Active /\ Active # {} /\ wrote' = wrote /\ lh' = lh
    BY <1>5 DEF EndOp, WakeAll, Active
  <2>2. ToWrite' \subseteq ToWrite
    BY <2>1 DEF ToWrite
  <2>3. \A q \in Active' : wrote'[q] \subseteq Entries /\ Cardinality(wrote'[q]) <= OpWrites
    BY <2>1 DEF RoomKept
  <2> QED
    BY <2>1, <2>2, <2>3, FewerToWrite
<1>6. ASSUME NEW p \in Procs, EndLast(p) PROVE RoomKept'
  <2>1. Active' \subseteq Active /\ Active # {} /\ wrote' = wrote /\ lh' = lh
    BY <1>6 DEF EndLast, Active
  <2>2. ToWrite' \subseteq ToWrite
    BY <2>1 DEF ToWrite
  <2>3. \A q \in Active' : wrote'[q] \subseteq Entries /\ Cardinality(wrote'[q]) <= OpWrites
    BY <2>1 DEF RoomKept
  <2> QED
    BY <2>1, <2>2, <2>3, FewerToWrite
<1>7. ASSUME NEW p \in Procs, WriteLog(p) PROVE RoomKept'
  <2>1. Active' = Active /\ wrote' = wrote /\ lh' = lh
    BY <1>7 DEF WriteLog, Cached, memory, Active
  <2> QED
    BY <2>1, RoomSame
<1>8. ASSUME NEW p \in Procs, WriteHead(p) PROVE RoomKept'
  <2>1. Active' = Active /\ wrote' = wrote /\ lh' = lh
    BY <1>8 DEF WriteHead, memory, Active
  <2> QED
    BY <2>1, RoomSame
<1>9. ASSUME NEW p \in Procs, Install(p) PROVE RoomKept'
  <2>1. Active' = Active /\ wrote' = wrote /\ lh' = lh
    BY <1>9 DEF Install, InstallOne, Active
  <2> QED
    BY <2>1, RoomSame
<1>10. ASSUME NEW p \in Procs, Clear(p) PROVE RoomKept'
  <2>1. Active' = {}
    BY <1>10 DEF Clear, Active, IInv, OneCommits, CommitPcs
  <2> QED
    BY <2>1, NoneActive
<1>11. ASSUME NEW p \in Procs, Committed(p) PROVE RoomKept'
  <2>1. Active' = Active /\ wrote' = wrote /\ lh' = lh
    BY <1>11 DEF Committed, WakeAll, Active
  <2> QED
    BY <2>1, RoomSame
<1>12. ASSUME NEW b \in Blocks, Load(b) PROVE RoomKept'
  <2>1. Active' = Active /\ wrote' = wrote /\ lh' = lh
    BY <1>12 DEF Load, Active
  <2> QED
    BY <2>1, RoomSame
<1>13. ASSUME NEW b \in Blocks, Evict(b) PROVE RoomKept'
  <2>1. Active' = Active /\ wrote' = wrote /\ lh' = lh
    BY <1>13 DEF Evict, Active
  <2> QED
    BY <2>1, RoomSame
<1>14. ASSUME Crash PROVE RoomKept'
  <2>1. Active' = {}
    BY <1>14 DEF Crash, Active
  <2> QED
    BY <2>1, NoneActive
<1>15. ASSUME ReadHead PROVE RoomKept'
  <2>1. Active' = {}
    BY <1>15 DEF ReadHead, Active, IInv, OneCommits
  <2> QED
    BY <2>1, NoneActive
<1>16. ASSUME RecoverInstall PROVE RoomKept'
  <2>1. Active' = Active /\ wrote' = wrote /\ lh' = lh
    BY <1>16 DEF RecoverInstall, InstallOne, Active
  <2> QED
    BY <2>1, RoomSame
<1>17. ASSUME RecoverClear PROVE RoomKept'
  <2>1. Active' = {}
    BY <1>17 DEF RecoverClear, Active, IInv, OneCommits
  <2> QED
    BY <2>1, NoneActive
<1>18. CASE UNCHANGED vars
  <2>1. Active' = Active /\ wrote' = wrote /\ lh' = lh
    BY <1>18 DEF vars, memory, Active
  <2> QED
    BY <2>1, RoomSame
<1>19. ASSUME NEW p \in Procs, NEW b \in Blocks, WritePanics(p, b) PROVE RoomKept'
  <2>1. Active' = Active /\ wrote' = wrote /\ lh' = lh
    BY <1>19 DEF WritePanics, CallsLogWrite, memory, Active, IInv, TypeOK
  <2> QED
    BY <2>1, RoomSame
<1> QED
  BY <1>1, <1>2, <1>3, <1>4, <1>5, <1>6, <1>7, <1>8, <1>9, <1>10, <1>11, <1>12, <1>13,
     <1>14, <1>15, <1>16, <1>17, <1>18, <1>19 DEF Next, EndStep, CommitStep, Recover

\* Before the first operation there is nothing to keep room for.
LEMMA RoomInitially == Init => RoomKept
<1> SUFFICES ASSUME Init PROVE Active = {}
  BY DEF RoomKept
<1> QED
  BY DEF Init, Active

\* The log, with the writes to come, always fits its header, and leaves two entries free
\* when operations leave a block of their share.
THEOREM RoomInHeader == Spec => []RoomKept
BY LogInitially, Inductive, RoomInitially, RoomStep, PTL DEF Spec

\* The log on disk is as large as its header, as mkfs makes it, or larger, and operations
\* leave a block of their share.
EnoughLog == LogDiskSize >= LOGSIZE /\ BlockToSpare

\* While an operation is active log_write finds the log not full, whatever it writes.
LEMMA WritersFit ==
  ASSUME EnoughLog, IInv, RoomKept, NEW p \in Active
  PROVE  ~LogFull
<1>1. Len(lh) \in Nat /\ Cardinality(ToWrite) \in Nat
  BY ToWriteFinite DEF IInv, TypeOK
<1>2. Len(lh) <= LOGSIZE - 2
  BY <1>1, LogFacts DEF RoomKept, Capacity, EnoughLog
<1> QED
  BY <1>1, <1>2, LogFacts DEF LogFull, EnoughLog

\* No step makes a log_write panic.
LEMMA PanicStep ==
  ASSUME EnoughLog, IInv, RoomKept, NeverPanics, [Next]_vars
  PROVE  NeverPanics'
<1> USE DEF NeverPanics, LogLockFree, IInv, TypeOK
<1>1. ASSUME NEW p \in Procs, NEW b \in Blocks, WritePanics(p, b) PROVE FALSE
  <2>1. p \in Active /\ LogFull
    BY <1>1 DEF WritePanics, CallsLogWrite, Active
  <2> QED
    BY <2>1, WritersFit
<1>2. ASSUME NEW p \in Procs,
             \/ CallBegin(p) \/ BeginSleep(p) \/ BeginEnter(p) \/ EndStep(p) \/ CommitStep(p)
             \/ \E b \in Blocks : Write(p, b)
      PROVE  NeverPanics'
  BY <1>2 DEF CallBegin, BeginSleep, BeginEnter, EndStep, EndOp, EndLast, CommitStep, WriteLog,
     WriteHead, Install, Clear, Committed, WakeAll, Write
<1>3. CASE (\E b \in Blocks : Load(b) \/ Evict(b)) \/ Crash \/ Recover \/ UNCHANGED vars
  BY <1>3 DEF Load, Evict, Crash, Recover, ReadHead, RecoverInstall, RecoverClear, vars
<1> QED
  BY <1>1, <1>2, <1>3 DEF Next

\* No log_write ever panics, on a disk as large as mkfs makes it, when operations leave a
\* block of those begin_op set aside for them.
THEOREM NeverTooBig == EnoughLog /\ Spec => []NeverPanics
<1> SUFFICES ASSUME EnoughLog PROVE Spec => []NeverPanics
  OBVIOUS
<1>1. Init => NeverPanics
  BY DEF Init, NeverPanics, LogLockFree
<1>2. IInv /\ RoomKept /\ NeverPanics /\ [Next]_vars => NeverPanics'
  BY PanicStep
<1> QED
  BY <1>1, <1>2, Invariance, RoomInHeader, PTL DEF Spec

==============================================================================
