----------------------------- MODULE BlockIOProofs -----------------------------
(***************************************************************************)
(* Theorems about the buffer cache and the disk driver, for any numbers of *)
(* processes, buffers, blocks and descriptors.                             *)
(***************************************************************************)
EXTENDS BlockIO, ListLemmas, FiniteSetTheorems

Holds == {"have", "read", "write", "filled", "written"}
Waits == {"filled", "written"}

BufType == [block : Blocks \cup {None}, valid : BOOLEAN, refcnt : Nat, data : Data,
            disk : BOOLEAN]

\* What a process sleeps on plays no part here: chan has no type.
TypeOK ==
  /\ disk \in [Blocks -> Data] /\ latest \in [Blocks -> Data]
  /\ buf \in [Bufs -> BufType]
  /\ lru \in Seq(Bufs) /\ Len(lru) = NBUF
  /\ lock \in [Bufs -> Procs \cup {None}]
  /\ pc \in [Procs -> {"idle", "lock", "unref"} \cup Holds]
  /\ at \in [Procs -> Bufs \cup {None}]
  /\ desc \in [Descs -> [free : BOOLEAN, next : Descs \cup {None}]]
  /\ req \in [Descs -> {NoRequest} \cup [buf : Bufs, write : BOOLEAN, block : Blocks]]
  /\ avail \in [ring : [Descs -> Descs \cup {None}], idx : 0 .. UINT16 - 1]
  /\ used \in [ring : [Descs -> Descs \cup {None}], idx : 0 .. UINT16 - 1]
  /\ seen \in 0 .. UINT16 - 1 /\ used_idx \in 0 .. UINT16 - 1
  /\ work \subseteq Descs
  /\ irq \in BOOLEAN /\ intr \in BOOLEAN
  /\ pinned \subseteq Bufs

\* The list of the cache has all buffers.
LruFull == ToSet(lru) = Bufs

\* A buffer's refcnt counts the processes that use it, and its pin.
Users(b) == { p \in Procs : at[p] = b }
Counted ==
  \A b \in Bufs : buf[b].refcnt = Cardinality(Users(b)) + (IF b \in pinned THEN 1 ELSE 0)

\* A process that is not idle has a buffer, with a block in it.
HasBuffer ==
  \A p \in Procs :
    /\ at[p] = None <=> pc[p] = "idle"
    /\ at[p] # None => buf[at[p]].block # None

\* The sleep lock of a buffer, from acquiresleep to releasesleep.
LockHeld ==
  /\ \A p \in Procs : pc[p] \in Holds => lock[at[p]] = p
  /\ \A b \in Bufs : lock[b] # None => at[lock[b]] = b /\ pc[lock[b]] \in Holds

\* Who holds a buffer before and after it is read.
ReadOnce ==
  /\ \A p \in Procs :
       /\ pc[p] \in {"read", "filled"} => ~buf[at[p]].valid
       /\ pc[p] \in {"have", "write", "written"} => buf[at[p]].valid
  /\ \A b \in Bufs : buf[b].valid => buf[b].block # None

\* The requests of the driver are those of the processes that wait for one.
IsHead(i) == req[i].buf # None
Serves(i, p) ==
  /\ pc[p] \in Waits /\ at[p] = req[i].buf
  /\ req[i].write = (pc[p] = "written") /\ req[i].block = buf[at[p]].block
Requests ==
  /\ \A i \in Descs : IsHead(i) => \E p \in Procs : Serves(i, p)
  /\ \A p \in Procs : pc[p] \in Waits => \E i \in Descs : req[i].buf = at[p]
  /\ \A i, j \in Descs : IsHead(i) /\ req[i].buf = req[j].buf => i = j

\* The descriptors in use are the chains of the requests, three each.
Chains ==
  /\ \A i \in Descs : IsHead(i) =>
       LET j == desc[i].next IN
       LET k == desc[j].next IN
       j \in Descs /\ k \in Descs /\ i # j /\ i # k /\ j # k
  /\ \A i, j \in Descs : IsHead(i) /\ IsHead(j) /\ i # j => ChainOf(i) \cap ChainOf(j) = {}
  /\ \A d \in Descs : ~desc[d].free <=> \E i \in Descs : IsHead(i) /\ d \in ChainOf(i)

\* A ring has entries from the slot of the index s on, to the slot of its own index;
\* the two are as far apart as their slots.
Slot(x) == x % NUM
Between(a, b, j) == IF a <= b THEN a <= j /\ j < b ELSE a <= j \/ j < b
Gap(a, b) == IF a <= b THEN b - a ELSE b - a + NUM
Plus(x, n) == IF x + n < UINT16 THEN x + n ELSE x + n - UINT16
RingOK(r, s) ==
  /\ r.idx = Plus(s, Gap(Slot(s), Slot(r.idx)))
  /\ \A j \in Descs : r.ring[j] # None <=> Between(Slot(s), Slot(r.idx), j)
  /\ \A j, k \in Descs : r.ring[j] # None /\ r.ring[j] = r.ring[k] => j = k

\* A request is in one ring, in the hands of the device, or done.
In(r, i) == \E j \in Descs : r.ring[j] = i
Stages ==
  /\ RingOK(avail, seen) /\ RingOK(used, used_idx)
  /\ \A i \in Descs :
       /\ In(avail, i) \/ i \in work \/ In(used, i) => IsHead(i)
       /\ ~(In(avail, i) /\ i \in work) /\ ~(In(avail, i) /\ In(used, i))
       /\ ~(i \in work /\ In(used, i))
       /\ IsHead(i) =>
            (buf[req[i].buf].disk <=> In(avail, i) \/ i \in work \/ In(used, i))
  /\ \A b \in Bufs : buf[b].disk => \E i \in Descs : req[i].buf = b

\* What the device has done: buffer and disk are the same until the process goes on.
Transferred ==
  \A i \in Descs :
    IsHead(i) /\ ~In(avail, i) /\ i \notin work => disk[req[i].block] = buf[req[i].buf].data

\* Only whoever holds a buffer can have something in it that is not saved.
Clean ==
  \A b \in Bufs : buf[b].valid =>
    Saved(b) \/ (lock[b] # None /\ pc[lock[b]] \in {"have", "write", "written"})

IInv ==
  /\ TypeOK /\ LruFull /\ Counted /\ HasBuffer /\ LockHeld /\ ReadOnce
  /\ Requests /\ Chains /\ Stages /\ Transferred /\ Clean /\ Coherent

------------------------------------------------------------------------------
(* Numbers, and the rings *)

Succ(a) == IF a = NUM - 1 THEN 0 ELSE a + 1
Next16(x) == (x + 1) % UINT16

LEMMA Constants ==
  /\ NBUF \in Nat \ {0} /\ NUM \in Nat /\ NUM > 2 /\ UINT16 \in Nat \ {0}
  /\ IsFiniteSet(Procs) /\ None \notin Procs /\ None \notin Blocks
  /\ None = -1 /\ None \notin Bufs /\ None \notin Descs /\ None \in Int
  /\ Bufs \subseteq Nat /\ Descs \subseteq Nat /\ Descs = 0 .. NUM - 1
  /\ (CHOOSE d \in Data : TRUE) \in Data
BY BlockIOAssumption DEF BlockIOAssumption, Bufs, Descs, None

LEMMA DivMod ==
  ASSUME NEW x \in Int
  PROVE  x % NUM \in 0 .. NUM - 1 /\ x = NUM * (x \div NUM) + (x % NUM) /\ x \div NUM \in Int
BY Constants

\* A remainder is the only one.
LEMMA OneRemainder ==
  ASSUME NEW q1 \in Int, NEW q2 \in Int, NEW r1 \in 0 .. NUM - 1, NEW r2 \in 0 .. NUM - 1,
         NUM * q1 + r1 = NUM * q2 + r2
  PROVE  r1 = r2
<1>0. NUM \in Nat /\ NUM > 2
  BY Constants
<1>1. CASE q1 < q2
  <2>1. q2 - q1 >= 1 /\ q2 - q1 \in Nat
    BY <1>1
  <2>2. NUM * (q2 - q1) >= NUM
    BY <1>0, <2>1
  <2>3. NUM * q1 + NUM <= NUM * q2
    BY <1>0, <2>2
  <2> QED
    BY <1>0, <2>3
<1>2. CASE q2 < q1
  <2>1. q1 - q2 >= 1 /\ q1 - q2 \in Nat
    BY <1>2
  <2>2. NUM * (q1 - q2) >= NUM
    BY <1>0, <2>1
  <2>3. NUM * q2 + NUM <= NUM * q1
    BY <1>0, <2>2
  <2> QED
    BY <1>0, <2>3
<1>3. CASE q1 = q2
  BY <1>0, <1>3
<1> QED
  BY <1>1, <1>2, <1>3

\* The slots of an index and of the next one.
LEMMA Slots ==
  /\ NUM <= UINT16
  /\ \A x \in 0 .. UINT16 - 1 :
       /\ Slot(x) \in Descs
       /\ Next16(x) = IF x + 1 = UINT16 THEN 0 ELSE x + 1
       /\ Next16(x) \in 0 .. UINT16 - 1
       /\ Slot(Next16(x)) = Succ(Slot(x))
<1>0. NUM \in Nat /\ NUM > 2 /\ UINT16 \in Nat \ {0} /\ UINT16 % NUM = 0
  BY BlockIOAssumption
<1>1. NUM <= UINT16
  <2>1. UINT16 = NUM * (UINT16 \div NUM) + 0 /\ UINT16 \div NUM \in Int
    BY <1>0, DivMod
  <2> DEFINE q == UINT16 \div NUM
  <2>2. UINT16 = NUM * q /\ q \in Int
    BY <1>0, <2>1
  <2> HIDE DEF q
  <2>3. q >= 1
    <3> SUFFICES ASSUME q <= 0 PROVE FALSE
      BY <2>2
    <3>1. NUM * q <= 0
      BY <1>0, <2>2
    <3> QED
      BY <1>0, <2>2, <3>1
  <2> QED
    BY <1>0, <2>2, <2>3
<1>2. ASSUME NEW x \in 0 .. UINT16 - 1
      PROVE  /\ Slot(x) \in Descs
             /\ Next16(x) = IF x + 1 = UINT16 THEN 0 ELSE x + 1
             /\ Next16(x) \in 0 .. UINT16 - 1
             /\ Slot(Next16(x)) = Succ(Slot(x))
  <2>1. x \in Int /\ x + 1 \in Int
    BY <1>0
  <2>2. Slot(x) \in 0 .. NUM - 1 /\ x = NUM * (x \div NUM) + Slot(x) /\ x \div NUM \in Int
    BY <2>1, DivMod DEF Slot
  <2>3. Next16(x) = IF x + 1 = UINT16 THEN 0 ELSE x + 1
    <3>1. x + 1 < UINT16 => (x + 1) % UINT16 = x + 1
      BY <1>0
    <3>2. UINT16 % UINT16 = 0
      BY <1>0
    <3> QED
      BY <1>0, <3>1, <3>2 DEF Next16
  <2>4. Slot(x + 1) = Succ(Slot(x))
    <3> DEFINE q == x \div NUM
               r == Slot(x)
               q1 == (x + 1) \div NUM
               r1 == Slot(x + 1)
    <3>1. x + 1 = NUM * q1 + r1 /\ r1 \in 0 .. NUM - 1 /\ q1 \in Int
      BY <2>1, DivMod DEF Slot
    <3>2. x = NUM * q + r /\ r \in 0 .. NUM - 1 /\ q \in Int
      BY <2>2
    <3> HIDE DEF q, r, q1, r1
    <3>3. CASE r = NUM - 1
      <4>1. NUM * (q + 1) = NUM * q + NUM
        BY <1>0, <3>2
      <4>2. NUM * (q + 1) + 0 = NUM * q1 + r1
        BY <1>0, <2>1, <3>1, <3>2, <3>3, <4>1
      <4>3. 0 = r1
        BY <1>0, <3>1, <3>2, <4>2, OneRemainder
      <4> QED
        BY <3>3, <4>3 DEF Succ, r, r1
    <3>4. CASE r # NUM - 1
      <4>1. r + 1 \in 0 .. NUM - 1
        BY <1>0, <3>2, <3>4
      <4>2. NUM * q + (r + 1) = NUM * q1 + r1
        BY <1>0, <3>1, <3>2
      <4>3. r + 1 = r1
        BY <3>1, <3>2, <4>1, <4>2, OneRemainder
      <4> QED
        BY <3>4, <4>3 DEF Succ, r, r1
    <3> QED
      BY <3>3, <3>4
  <2>5. Slot(0) = 0
    BY <1>0 DEF Slot
  <2>6. CASE x + 1 = UINT16
    <3>1. Slot(x + 1) = 0
      BY <1>0, <2>6 DEF Slot
    <3> QED
      BY <1>0, <2>2, <2>3, <2>4, <2>5, <2>6, <3>1, Constants
  <2>7. CASE x + 1 # UINT16
    <3>1. Next16(x) = x + 1 /\ x + 1 \in 0 .. UINT16 - 1
      BY <1>0, <2>3, <2>7
    <3> QED
      BY <2>2, <2>3, <2>4, <3>1, Constants
  <2> QED
    BY <2>6, <2>7
<1> QED
  BY <1>1, <1>2

\* The distance of two slots, when one of them moves on.
LEMMA GapSteps ==
  ASSUME NEW a \in Descs, NEW b \in Descs
  PROVE  /\ a # b => Gap(Succ(a), b) = Gap(a, b) - 1 /\ Gap(a, b) \in 1 .. NUM - 1
         /\ Succ(b) # a => Gap(a, Succ(b)) = Gap(a, b) + 1 /\ Gap(a, b) \in 0 .. NUM - 2
<1>0. NUM \in Nat /\ NUM > 2 /\ a \in 0 .. NUM - 1 /\ b \in 0 .. NUM - 1
  BY Constants
<1>1. CASE a < b
  BY ONLY <1>0, <1>1 DEF Gap, Succ
<1>2. CASE a > b
  BY ONLY <1>0, <1>2 DEF Gap, Succ
<1>3. CASE a = b
  BY ONLY <1>0, <1>3 DEF Gap, Succ
<1> QED
  BY <1>0, <1>1, <1>2, <1>3

LEMMA PlusSteps ==
  ASSUME NEW s \in 0 .. UINT16 - 1, NEW g \in 0 .. NUM - 1
  PROVE  /\ g > 0 => Plus(IF s + 1 = UINT16 THEN 0 ELSE s + 1, g - 1) = Plus(s, g)
         /\ LET n == Plus(s, g) IN
            g < NUM - 1 => (IF n + 1 = UINT16 THEN 0 ELSE n + 1) = Plus(s, g + 1)
<1>0. NUM \in Nat /\ NUM > 2 /\ UINT16 \in Nat \ {0} /\ NUM <= UINT16
  BY Constants, Slots
<1>1. CASE s + g < UINT16
  BY <1>0, <1>1 DEF Plus
<1>2. CASE s + g >= UINT16
  BY <1>0, <1>2 DEF Plus
<1> QED
  BY <1>0, <1>1, <1>2

RingType == [ring : [Descs -> Descs \cup {None}], idx : 0 .. UINT16 - 1]

\* The entry at the beginning of a ring is taken out: Fetch, IntrEntry.
LEMMA RingTake ==
  ASSUME NEW r \in RingType, NEW s \in 0 .. UINT16 - 1, RingOK(r, s), s # r.idx,
         NEW ring2, ring2 = [r.ring EXCEPT ![Slot(s)] = None]
  PROVE  /\ Slot(s) \in Descs /\ r.ring[Slot(s)] \in Descs /\ In(r, r.ring[Slot(s)])
         /\ Next16(s) \in 0 .. UINT16 - 1
         /\ [ring |-> ring2, idx |-> r.idx] \in RingType
         /\ RingOK([ring |-> ring2, idx |-> r.idx], Next16(s))
         /\ \A i \in Descs : In([ring |-> ring2, idx |-> r.idx], i)
                               <=> In(r, i) /\ i # r.ring[Slot(s)]
<1> DEFINE a == Slot(s)
           b == Slot(r.idx)
           a2 == Slot(Next16(s))
           r2 == [ring |-> ring2, idx |-> r.idx]
<1>0. NUM \in Nat /\ NUM > 2 /\ UINT16 \in Nat \ {0} /\ NUM <= UINT16 /\ None \notin Descs
      /\ Descs = 0 .. NUM - 1
  BY Constants, Slots
<1>1. r.ring \in [Descs -> Descs \cup {None}] /\ r.idx \in 0 .. UINT16 - 1
  BY DEF RingType
<1>2. /\ a \in Descs /\ b \in Descs /\ a2 = Succ(a) /\ Next16(s) \in 0 .. UINT16 - 1
      /\ Next16(s) = IF s + 1 = UINT16 THEN 0 ELSE s + 1
  BY <1>1, Slots
<1>3. /\ r.idx = Plus(s, Gap(a, b))
      /\ \A j \in Descs : r.ring[j] # None <=> Between(a, b, j)
      /\ \A j, k \in Descs : r.ring[j] # None /\ r.ring[j] = r.ring[k] => j = k
  BY DEF RingOK
<1>4. ring2 \in [Descs -> Descs \cup {None}]
      /\ \A j \in Descs : ring2[j] = IF j = a THEN None ELSE r.ring[j]
  BY <1>1, <1>2
<1> HIDE DEF a, b, a2
<1>5. a # b
  BY <1>0, <1>1, <1>2, <1>3 DEF Gap, Plus
<1>6. Between(a, b, a)
  BY <1>0, <1>2, <1>5 DEF Between
<1>7. r.ring[a] \in Descs
  BY <1>1, <1>2, <1>3, <1>6
<1>8. Gap(a2, b) = Gap(a, b) - 1 /\ Gap(a, b) \in 1 .. NUM - 1
  BY ONLY <1>0, <1>2, <1>5, GapSteps
<1>9. r.idx = Plus(Next16(s), Gap(a2, b))
  BY ONLY <1>0, <1>1, <1>2, <1>3, <1>8, s \in 0 .. UINT16 - 1, PlusSteps
<1>10. \A j \in Descs : Between(a2, b, j) <=> Between(a, b, j) /\ j # a
  BY <1>0, <1>2, <1>5 DEF Between, Succ
<1>11. r2.ring = ring2 /\ r2.idx = r.idx /\ r2 \in RingType
  BY <1>1, <1>4 DEF RingType
<1> HIDE DEF r2
<1>12. \A j \in Descs : r2.ring[j] # None <=> Between(a2, b, j)
  BY <1>3, <1>4, <1>10, <1>11
<1>13. \A j, k \in Descs : r2.ring[j] # None /\ r2.ring[j] = r2.ring[k] => j = k
  BY <1>3, <1>4, <1>11
<1>14. RingOK(r2, Next16(s))
  BY <1>9, <1>11, <1>12, <1>13 DEF RingOK, a2, b
<1>15. \A i \in Descs : In(r2, i) <=> In(r, i) /\ i # r.ring[a]
  <2> SUFFICES ASSUME NEW i \in Descs PROVE In(r2, i) <=> In(r, i) /\ i # r.ring[a]
    OBVIOUS
  <2>1. In(r2, i) => In(r, i) /\ i # r.ring[a]
    BY <1>0, <1>2, <1>3, <1>4, <1>7, <1>11 DEF In
  <2>2. In(r, i) /\ i # r.ring[a] => In(r2, i)
    BY <1>4, <1>11 DEF In
  <2> QED
    BY <2>1, <2>2
<1>16. In(r, r.ring[a])
  BY <1>2 DEF In
<1> QED
  BY <1>2, <1>7, <1>11, <1>14, <1>15, <1>16 DEF r2, a

\* A ring that two descriptors are not in has room for one more.
LEMMA RingHasRoom ==
  ASSUME NEW r \in RingType, NEW s \in 0 .. UINT16 - 1, RingOK(r, s),
         NEW x \in Descs, NEW y \in Descs, x # y, ~In(r, x), ~In(r, y)
  PROVE  Succ(Slot(r.idx)) # Slot(s)
<1> DEFINE a == Slot(s)
           b == Slot(r.idx)
           S == Descs \ {b}
           T == (Descs \ {x}) \ {y}
           f == [j \in S |-> r.ring[j]]
<1>0. NUM \in Nat /\ NUM > 2 /\ None \notin Descs /\ Descs = 0 .. NUM - 1
  BY Constants
<1>1. r.ring \in [Descs -> Descs \cup {None}] /\ r.idx \in 0 .. UINT16 - 1
  BY DEF RingType
<1>2. a \in Descs /\ b \in Descs
  BY <1>1, Slots
<1>3. /\ \A j \in Descs : r.ring[j] # None <=> Between(a, b, j)
      /\ \A j, k \in Descs : r.ring[j] # None /\ r.ring[j] = r.ring[k] => j = k
  BY DEF RingOK
<1> HIDE DEF a, b
<1> SUFFICES ASSUME Succ(b) = a PROVE FALSE
  BY DEF a, b
<1>4. \A j \in S : Between(a, b, j)
  BY <1>0, <1>2 DEF Between, Succ
<1>5. f \in [S -> T]
  BY <1>1, <1>3, <1>4 DEF In
<1>6. IsFiniteSet(Descs) /\ Cardinality(Descs) = NUM
  BY <1>0, FS_Interval
<1>7. IsFiniteSet(S) /\ Cardinality(S) = NUM - 1
  BY <1>2, <1>6, FS_RemoveElement
<1>8. IsFiniteSet(Descs \ {x}) /\ Cardinality(Descs \ {x}) = NUM - 1
  BY <1>6, FS_RemoveElement
<1>a. y \in Descs \ {x}
  OBVIOUS
<1>b. IsFiniteSet(T) /\ Cardinality(T) = Cardinality(Descs \ {x}) - 1
  BY <1>8, <1>a, FS_RemoveElement
<1>9. IsFiniteSet(T) /\ Cardinality(T) = NUM - 2
  <2> HIDE DEF T
  <2> QED
    BY <1>0, <1>8, <1>b
<1> HIDE DEF f, S, T
<1>10. Cardinality(T) < Cardinality(S)
  BY <1>0, <1>7, <1>9
<1>11. PICK j \in S, k \in S : j # k /\ f[j] = f[k]
  BY <1>5, <1>7, <1>9, <1>10, FS_PigeonHole
<1> QED
  BY <1>3, <1>4, <1>11 DEF f, S

\* An entry is put at the end of a ring: virtio_disk_rw and the device.
LEMMA RingPut ==
  ASSUME NEW r \in RingType, NEW s \in 0 .. UINT16 - 1, RingOK(r, s),
         NEW x \in Descs, ~In(r, x), Succ(Slot(r.idx)) # Slot(s),
         NEW r2, r2 = [ring |-> [r.ring EXCEPT ![Slot(r.idx)] = x], idx |-> Next16(r.idx)]
  PROVE  /\ r2 \in RingType /\ RingOK(r2, s)
         /\ \A i \in Descs : In(r2, i) <=> In(r, i) \/ i = x
<1> DEFINE a == Slot(s)
           b == Slot(r.idx)
           b2 == Slot(Next16(r.idx))
<1>0. NUM \in Nat /\ NUM > 2 /\ UINT16 \in Nat \ {0} /\ NUM <= UINT16 /\ None \notin Descs
      /\ Descs = 0 .. NUM - 1
  BY Constants, Slots
<1>1. r.ring \in [Descs -> Descs \cup {None}] /\ r.idx \in 0 .. UINT16 - 1
  BY DEF RingType
<1>2. /\ a \in Descs /\ b \in Descs /\ b2 = Succ(b) /\ Next16(r.idx) \in 0 .. UINT16 - 1
      /\ Next16(r.idx) = IF r.idx + 1 = UINT16 THEN 0 ELSE r.idx + 1
  BY <1>1, Slots
<1>3. /\ r.idx = Plus(s, Gap(a, b))
      /\ \A j \in Descs : r.ring[j] # None <=> Between(a, b, j)
      /\ \A j, k \in Descs : r.ring[j] # None /\ r.ring[j] = r.ring[k] => j = k
  BY DEF RingOK
<1>4. /\ r2.ring \in [Descs -> Descs \cup {None}] /\ r2.idx = Next16(r.idx)
      /\ \A j \in Descs : r2.ring[j] = IF j = b THEN x ELSE r.ring[j]
      /\ r2 \in RingType
  BY <1>1, <1>2 DEF RingType
<1>5. Succ(b) # a
  OBVIOUS
<1> HIDE DEF a, b, b2
<1>6. ~Between(a, b, b)
  BY <1>0, <1>2 DEF Between
<1>7. Gap(a, b2) = Gap(a, b) + 1 /\ Gap(a, b) \in 0 .. NUM - 2
  BY ONLY <1>0, <1>2, <1>5, GapSteps
<1>8. r2.idx = Plus(s, Gap(a, b2))
  <2> DEFINE g == Gap(a, b)
  <2>1. g \in 0 .. NUM - 1 /\ g < NUM - 1 /\ Gap(a, b2) = g + 1 /\ r.idx = Plus(s, g)
    BY <1>0, <1>3, <1>7
  <2> HIDE DEF g
  <2>2. (IF r.idx + 1 = UINT16 THEN 0 ELSE r.idx + 1) = Plus(s, g + 1)
    BY <2>1, PlusSteps
  <2> QED
    BY <1>2, <1>4, <2>1, <2>2
<1>9. \A j \in Descs : Between(a, b2, j) <=> Between(a, b, j) \/ j = b
  BY <1>0, <1>2, <1>5 DEF Between, Succ
<1>10. \A j \in Descs : r2.ring[j] # None <=> Between(a, b2, j)
  BY <1>0, <1>3, <1>4, <1>9
<1>11. \A j, k \in Descs : r2.ring[j] # None /\ r2.ring[j] = r2.ring[k] => j = k
  BY <1>3, <1>4 DEF In
<1>12. RingOK(r2, s)
  BY <1>4, <1>8, <1>10, <1>11 DEF RingOK, a, b2
<1>13. \A i \in Descs : In(r2, i) <=> In(r, i) \/ i = x
  BY <1>0, <1>2, <1>3, <1>4, <1>6 DEF In
<1> QED
  BY <1>4, <1>12, <1>13

------------------------------------------------------------------------------
(* What a step leaves alone *)

SameBlock == \A b \in Bufs : buf'[b].block = buf[b].block
SameValid == \A b \in Bufs : buf'[b].valid = buf[b].valid
SameCount == \A b \in Bufs : buf'[b].refcnt = buf[b].refcnt
SameData == \A b \in Bufs : buf'[b].data = buf[b].data
SameDisk == \A b \in Bufs : buf'[b].disk = buf[b].disk
SameBuf == SameBlock /\ SameValid /\ SameCount /\ SameData /\ SameDisk

\* The program counter of p moves to l.
Moves(p, l) == \A q \in Procs : pc'[q] = IF q = p THEN l ELSE pc[q]

LEMMA Typed ==
  ASSUME TypeOK
  PROVE  /\ \A b \in Bufs :
              /\ buf[b].block \in Blocks \cup {None} /\ buf[b].valid \in BOOLEAN
              /\ buf[b].refcnt \in Nat /\ buf[b].data \in Data /\ buf[b].disk \in BOOLEAN
              /\ lock[b] \in Procs \cup {None}
         /\ \A p \in Procs :
              at[p] \in Bufs \cup {None} /\ pc[p] \in {"idle", "lock", "unref"} \cup Holds
         /\ \A i \in Descs :
              /\ desc[i].free \in BOOLEAN /\ desc[i].next \in Descs \cup {None}
              /\ IsHead(i) => /\ req[i].buf \in Bufs /\ req[i].write \in BOOLEAN
                              /\ req[i].block \in Blocks
              /\ ~IsHead(i) => req[i] = NoRequest
         /\ avail \in RingType /\ used \in RingType
<1>1. \A b \in Bufs : buf[b] \in BufType
  BY DEF TypeOK
<1>2. \A i \in Descs : /\ desc[i] \in [free : BOOLEAN, next : Descs \cup {None}]
                       /\ req[i] \in {NoRequest} \cup
                                     [buf : Bufs, write : BOOLEAN, block : Blocks]
  BY DEF TypeOK
<1>3. \A i \in Descs :
        /\ desc[i].free \in BOOLEAN /\ desc[i].next \in Descs \cup {None}
        /\ IsHead(i) => /\ req[i].buf \in Bufs /\ req[i].write \in BOOLEAN
                        /\ req[i].block \in Blocks
        /\ ~IsHead(i) => req[i] = NoRequest
  <2> SUFFICES ASSUME NEW i \in Descs
               PROVE  /\ desc[i].free \in BOOLEAN /\ desc[i].next \in Descs \cup {None}
                      /\ IsHead(i) => /\ req[i].buf \in Bufs /\ req[i].write \in BOOLEAN
                                      /\ req[i].block \in Blocks
                      /\ ~IsHead(i) => req[i] = NoRequest
    OBVIOUS
  <2>1. desc[i].free \in BOOLEAN /\ desc[i].next \in Descs \cup {None}
    BY <1>2
  <2>2. CASE req[i] = NoRequest
    BY <2>1, <2>2 DEF IsHead, NoRequest
  <2>3. CASE req[i] \in [buf : Bufs, write : BOOLEAN, block : Blocks]
    BY <2>1, <2>3, Constants DEF IsHead
  <2> QED
    BY <1>2, <2>2, <2>3
<1> QED
  BY <1>1, <1>3 DEF TypeOK, RingType, BufType

\* A buffer is put back with a field of it changed.
LEMMA PutBuf ==
  ASSUME buf \in [Bufs -> BufType], NEW b \in Bufs, NEW e \in BufType,
         buf' = [buf EXCEPT ![b] = e]
  PROVE  buf' \in [Bufs -> BufType] /\ buf'[b] = e /\ \A c \in Bufs : c # b => buf'[c] = buf[c]
OBVIOUS

\* A part of the invariant holds on if nothing it speaks of changes.
LEMMA Kept ==
  /\ LruFull /\ UNCHANGED lru => LruFull'
  /\ Counted /\ SameCount /\ UNCHANGED <<at, pinned>> => Counted'
  /\ TypeOK /\ HasBuffer /\ SameBlock /\ UNCHANGED <<at, pc>> => HasBuffer'
  /\ LockHeld /\ UNCHANGED <<at, pc, lock>> => LockHeld'
  /\ TypeOK /\ HasBuffer /\ ReadOnce /\ SameBlock /\ SameValid /\ UNCHANGED <<at, pc>> => ReadOnce'
  /\ TypeOK /\ Requests /\ SameBlock /\ UNCHANGED <<at, pc, req>> => Requests'
  /\ Chains /\ UNCHANGED <<req, desc>> => Chains'
  /\ TypeOK /\ Stages /\ SameDisk /\ UNCHANGED <<req, avail, seen, work, used, used_idx>> => Stages'
  /\ TypeOK /\ Transferred /\ SameData /\ UNCHANGED <<req, avail, work, disk>> => Transferred'
  /\ Clean /\ SameBlock /\ SameValid /\ SameData /\ UNCHANGED <<disk, pinned, lock, pc>> => Clean'
  /\ Coherent /\ SameBlock /\ SameValid /\ SameData /\ UNCHANGED <<latest, disk>> => Coherent'
<1>1. LruFull /\ UNCHANGED lru => LruFull'
  BY DEF LruFull
<1>2. Counted /\ SameCount /\ UNCHANGED <<at, pinned>> => Counted'
  BY DEF Counted, SameCount, Users
<1>3. TypeOK /\ HasBuffer /\ SameBlock /\ UNCHANGED <<at, pc>> => HasBuffer'
  BY Typed DEF HasBuffer, SameBlock
<1>4. LockHeld /\ UNCHANGED <<at, pc, lock>> => LockHeld'
  BY DEF LockHeld
<1>5. TypeOK /\ HasBuffer /\ ReadOnce /\ SameBlock /\ SameValid /\ UNCHANGED <<at, pc>>
        => ReadOnce'
  <2> SUFFICES ASSUME TypeOK, HasBuffer, ReadOnce, SameBlock, SameValid, UNCHANGED <<at, pc>>
               PROVE  ReadOnce'
    OBVIOUS
  <2>1. \A p \in Procs : pc[p] # "idle" => at[p] \in Bufs
    BY Typed DEF HasBuffer
  <2> QED
    BY <2>1 DEF ReadOnce, SameBlock, SameValid
<1>6. TypeOK /\ Requests /\ SameBlock /\ UNCHANGED <<at, pc, req>> => Requests'
  <2> SUFFICES ASSUME TypeOK, Requests, SameBlock, UNCHANGED <<at, pc, req>>
               PROVE  Requests'
    OBVIOUS
  <2>1. \A i \in Descs, p \in Procs : IsHead(i) /\ Serves(i, p) => Serves(i, p)'
    BY Typed DEF Serves, SameBlock
  <2>2. \A i \in Descs : IsHead(i)' <=> IsHead(i)
    BY DEF IsHead
  <2> QED
    BY <2>1, <2>2 DEF Requests
<1>7. Chains /\ UNCHANGED <<req, desc>> => Chains'
  BY DEF Chains, IsHead, ChainOf
<1>8. TypeOK /\ Stages /\ SameDisk /\ UNCHANGED <<req, avail, seen, work, used, used_idx>>
        => Stages'
  <2> SUFFICES ASSUME TypeOK, Stages, SameDisk,
                      UNCHANGED <<req, avail, seen, work, used, used_idx>>
               PROVE  Stages'
    OBVIOUS
  <2>1. (\A i \in Descs : IsHead(i)' <=> IsHead(i))
        /\ \A i \in Descs : IsHead(i) => buf'[req'[i].buf].disk = buf[req[i].buf].disk
    BY Typed DEF IsHead, SameDisk
  <2>2. \A b \in Bufs : buf'[b].disk = buf[b].disk
    BY DEF SameDisk
  <2> QED
    BY <2>1, <2>2 DEF Stages
<1>9. TypeOK /\ Transferred /\ SameData /\ UNCHANGED <<req, avail, work, disk>> => Transferred'
  <2> SUFFICES ASSUME TypeOK, Transferred, SameData, UNCHANGED <<req, avail, work, disk>>
               PROVE  Transferred'
    OBVIOUS
  <2>1. (\A i \in Descs : IsHead(i)' <=> IsHead(i))
        /\ \A i \in Descs : IsHead(i) => buf'[req'[i].buf].data = buf[req[i].buf].data
    BY Typed DEF IsHead, SameData
  <2> QED
    BY <2>1 DEF Transferred
<1>10. Clean /\ SameBlock /\ SameValid /\ SameData /\ UNCHANGED <<disk, pinned, lock, pc>> => Clean'
  BY DEF Clean, SameBlock, SameValid, SameData, Saved
<1>11. Coherent /\ SameBlock /\ SameValid /\ SameData /\ UNCHANGED <<latest, disk>> => Coherent'
  BY DEF Coherent, OneBuffer, Cached, SameBlock, SameValid, SameData
<1> QED
  BY <1>1, <1>2, <1>3, <1>4, <1>5, <1>6, <1>7, <1>8, <1>9, <1>10, <1>11

\* The two halves of Coherent: with one buffer for a block, Cached is that buffer.
LEMMA CoherentMeans ==
  ASSUME None \notin Blocks
  PROVE  Coherent <=>
           /\ OneBuffer
           /\ \A n \in Blocks : \A b \in Bufs :
                buf[b].block = n /\ buf[b].valid => buf[b].data = latest[n]
           /\ \A n \in Blocks :
                (\A b \in Bufs : buf[b].block = n => ~buf[b].valid) => disk[n] = latest[n]
BY DEF Coherent, OneBuffer, Cached

\* Who holds a buffer holds it alone.
LEMMA HeldAlone ==
  ASSUME TypeOK, HasBuffer, LockHeld
  PROVE  /\ \A p \in Procs : pc[p] # "idle" => at[p] \in Bufs /\ buf[at[p]].block \in Blocks
         /\ \A p, q \in Procs : pc[p] \in Holds /\ pc[q] \in Holds /\ at[p] = at[q] => p = q
         /\ \A b \in Bufs : lock[b] # None => lock[b] \in Procs
<1>1. \A p \in Procs : pc[p] # "idle" => at[p] \in Bufs /\ buf[at[p]].block \in Blocks
  BY Typed DEF HasBuffer
<1> QED
  BY <1>1, Typed DEF LockHeld

\* A buffer of a request is held by the process that waits for it.
LEMMA RequestHeld ==
  ASSUME TypeOK, HasBuffer, LockHeld, Requests, NEW i \in Descs, IsHead(i)
  PROVE  \E q \in Procs : Serves(i, q) /\ at[q] = req[i].buf /\ lock[req[i].buf] = q
BY DEF Requests, Serves, LockHeld, Waits, Holds

LEMMA Initially == Init => IInv
<1> SUFFICES ASSUME Init PROVE IInv
  OBVIOUS
<1>1. TypeOK
  <2>1. disk \in [Blocks -> Data] /\ latest \in [Blocks -> Data]
    BY Constants DEF Init
  <2>2. buf \in [Bufs -> BufType]
    BY Constants DEF Init, BufType
  <2>3. lru \in Seq(Bufs) /\ Len(lru) = NBUF
    BY Constants DEF Init, Bufs
  <2>4. desc \in [Descs -> [free : BOOLEAN, next : Descs \cup {None}]]
    BY DEF Init, FreeDesc
  <2>5. req \in [Descs -> {NoRequest} \cup [buf : Bufs, write : BOOLEAN, block : Blocks]]
    BY DEF Init
  <2>6. NoRing \in [ring : [Descs -> Descs \cup {None}], idx : 0 .. UINT16 - 1]
        /\ 0 \in 0 .. UINT16 - 1
    BY Constants DEF NoRing
  <2> QED
    BY <2>1, <2>2, <2>3, <2>4, <2>5, <2>6 DEF TypeOK, Init
<1>2. LruFull
  <2>1. ToSet(lru) = { lru[i] : i \in DOMAIN lru }
    BY DEF ToSet
  <2>2. DOMAIN lru = 1 .. NBUF /\ \A i \in 1 .. NBUF : lru[i] = NBUF + 1 - i
    BY DEF Init
  <2>3. \A b \in Bufs : NBUF + 1 - b \in 1 .. NBUF /\ lru[NBUF + 1 - b] = b
    BY <2>2, Constants DEF Bufs
  <2>4. \A i \in 1 .. NBUF : lru[i] \in Bufs
    BY <2>2, Constants DEF Bufs
  <2> QED
    BY <2>1, <2>2, <2>3, <2>4 DEF LruFull
<1>3. Counted
  <2>1. \A b \in Bufs : Users(b) = {}
    BY Constants DEF Init, Users
  <2>2. \A b \in Bufs : buf[b].refcnt = 0 /\ b \notin pinned
    BY DEF Init
  <2> QED
    BY <2>1, <2>2, FS_EmptySet DEF Counted
<1>4. HasBuffer /\ LockHeld /\ ReadOnce /\ Clean
  BY Constants DEF Init, HasBuffer, LockHeld, ReadOnce, Clean, Holds
<1>5. \A i \in Descs : ~IsHead(i)
  BY DEF Init, IsHead, NoRequest
<1>6. Requests /\ Chains /\ Transferred
  BY <1>5 DEF Requests, Chains, Transferred, Init, FreeDesc, Waits
<1>7. Stages
  <2>1. RingOK(NoRing, 0) /\ \A i \in Descs : ~In(NoRing, i)
    <3>1. Slot(0) = 0
      BY Constants DEF Slot
    <3>2. Gap(0, 0) = 0 /\ Plus(0, 0) = 0 /\ \A j \in Descs : ~Between(0, 0, j)
      BY Constants DEF Gap, Plus, Between
    <3> QED
      BY <3>1, <3>2, Constants DEF RingOK, NoRing, In
  <2> QED
    BY <1>5, <2>1 DEF Stages, Init
<1>8. Coherent
  BY Constants DEF Coherent, OneBuffer, Cached, Init
<1> QED
  BY <1>1, <1>2, <1>3, <1>4, <1>6, <1>7, <1>8 DEF IInv

------------------------------------------------------------------------------
(* bget, brelse and what the holder of a buffer does *)

LEMMA LockKept ==
  ASSUME TypeOK, LockHeld, UNCHANGED lock,
         \A q \in Procs : /\ pc'[q] \in Holds <=> pc[q] \in Holds
                          /\ pc[q] \in Holds => at'[q] = at[q]
  PROVE  LockHeld'
BY Typed DEF LockHeld

LEMMA RequestsKept ==
  ASSUME TypeOK, Requests, UNCHANGED req,
         \A q \in Procs : /\ pc'[q] \in Waits <=> pc[q] \in Waits
                          /\ pc[q] \in Waits => /\ pc'[q] = pc[q] /\ at'[q] = at[q]
                                                /\ buf'[at[q]].block = buf[at[q]].block
  PROVE  Requests'
<1>1. \A i \in Descs : IsHead(i)' <=> IsHead(i)
  BY DEF IsHead
<1>2. \A i \in Descs, q \in Procs : Serves(i, q) => Serves(i, q)'
  BY DEF Serves
<1> QED
  BY <1>1, <1>2 DEF Requests

\* bget: the buffer that has the block, or the one that is recycled for it.
LEMMA BgetStep ==
  ASSUME IInv, NEW p \in Procs, NEW n \in Blocks, Bget(p, n)
  PROVE  IInv'
<1>0. /\ TypeOK /\ LruFull /\ Counted /\ HasBuffer /\ LockHeld /\ ReadOnce
      /\ Requests /\ Chains /\ Stages /\ Transferred /\ Clean /\ Coherent
  BY DEF IInv
<1>1. PICK b \in Bufs :
        /\ at' = [at EXCEPT ![p] = b]
        /\ \/ b \in Cached(n) /\ buf' = [buf EXCEPT ![b].refcnt = @ + 1]
           \/ /\ Cached(n) = {} /\ Unused # {} /\ b = lru[Max(Unused)]
              /\ buf' = [buf EXCEPT ![b] = Recycled(@, n)]
  BY DEF Bget
<1>2. /\ UNCHANGED <<lru, lock, ring, device, irq, latest, pinned>>
      /\ pc[p] = "idle" /\ at[p] = None /\ Moves(p, "lock")
      /\ \A q \in Procs : at'[q] = IF q = p THEN b ELSE at[q]
  BY <1>0, <1>1 DEF Bget, At, Goto, Moves, TypeOK, HasBuffer
\* The buffer is nobody's if it is recycled.
<1>3. ASSUME Cached(n) = {}, Unused # {}, b = lru[Max(Unused)]
      PROVE  buf[b].refcnt = 0 /\ Users(b) = {} /\ b \notin pinned
  <2>1. Unused \subseteq 1 .. NBUF /\ NBUF \in Nat
    BY Constants DEF Unused
  <2>2. Max(Unused) \in Unused
    BY <1>3, <2>1, MaxIn
  <2>3. buf[b].refcnt = 0
    BY <1>3, <2>2 DEF Unused
  <2>4. IsFiniteSet(Users(b)) /\ Cardinality(Users(b)) \in Nat
    BY Constants, FS_Subset, FS_CardinalityType DEF Users
  <2>5. buf[b].refcnt = Cardinality(Users(b)) + (IF b \in pinned THEN 1 ELSE 0)
    BY <1>0 DEF Counted
  <2>6. b \notin pinned /\ Cardinality(Users(b)) = 0
    BY <2>3, <2>4, <2>5
  <2> QED
    BY <2>3, <2>4, <2>6, FS_EmptySet
<1>4. /\ buf' \in [Bufs -> BufType]
      /\ \A c \in Bufs : c # b => buf'[c] = buf[c]
      /\ buf'[b].data = buf[b].data /\ buf'[b].disk = buf[b].disk /\ buf'[b].block = n
      /\ buf'[b].refcnt = buf[b].refcnt + 1
      /\ \/ buf[b].block = n /\ buf'[b].valid = buf[b].valid
         \/ Cached(n) = {} /\ Users(b) = {} /\ b \notin pinned /\ buf'[b].valid = FALSE
  <2>0. buf \in [Bufs -> BufType] /\ buf[b] \in BufType /\ buf[b].refcnt + 1 \in Nat
    BY <1>0, Typed DEF TypeOK
  <2>1. CASE b \in Cached(n) /\ buf' = [buf EXCEPT ![b].refcnt = @ + 1]
    <3> DEFINE e == [buf[b] EXCEPT !.refcnt = buf[b].refcnt + 1]
    <3>1. /\ e \in BufType /\ e.refcnt = buf[b].refcnt + 1 /\ e.block = buf[b].block
          /\ e.valid = buf[b].valid /\ e.data = buf[b].data /\ e.disk = buf[b].disk
      BY <2>0 DEF BufType
    <3>2. buf' = [buf EXCEPT ![b] = e]
      BY <2>0, <2>1
    <3>3. buf[b].block = n
      BY <2>1 DEF Cached
    <3> HIDE DEF e
    <3> QED
      BY <2>0, <3>1, <3>2, <3>3, PutBuf
  <2>2. CASE /\ Cached(n) = {} /\ Unused # {} /\ b = lru[Max(Unused)]
             /\ buf' = [buf EXCEPT ![b] = Recycled(@, n)]
    <3> DEFINE e == Recycled(buf[b], n)
    <3>1. /\ e \in BufType /\ e.block = n /\ e.valid = FALSE /\ e.refcnt = 1
          /\ e.data = buf[b].data /\ e.disk = buf[b].disk
      BY <2>0 DEF BufType, Recycled
    <3>2. buf' = [buf EXCEPT ![b] = e]
      BY <2>0, <2>2
    <3>3. buf[b].refcnt = 0 /\ Users(b) = {} /\ b \notin pinned
      BY <1>3, <2>2
    <3> HIDE DEF e
    <3> QED
      BY <2>0, <2>2, <3>1, <3>2, <3>3, PutBuf
  <2> QED
    BY <1>1, <2>1, <2>2
<1>5. TypeOK'
  <2>2. at' \in [Procs -> Bufs \cup {None}]
    BY <1>0, <1>1 DEF TypeOK
  <2>3. pc' \in [Procs -> {"idle", "lock", "unref"} \cup Holds]
    BY <1>0 DEF TypeOK, Bget, Goto
  <2> QED
    BY <1>0, <1>2, <1>4, <2>2, <2>3 DEF TypeOK, ring, device
<1>6. /\ \A q \in Procs : at[q] # None /\ at[q] \in Bufs =>
           buf'[at[q]].block = buf[at[q]].block /\ buf'[at[q]].valid = buf[at[q]].valid
      /\ \A q \in Procs : q # p => at'[q] = at[q] /\ pc'[q] = pc[q]
      /\ at'[p] = b /\ pc'[p] = "lock" /\ buf'[b].block = n /\ n # None
  BY <1>2, <1>4, Constants DEF Users, Moves
<1>7. \A q \in Procs : pc[q] # "idle" => at[q] \in Bufs /\ at[q] # None
  BY <1>0, HeldAlone, Constants
<1>8. Counted'
  <2>1. IsFiniteSet(Users(b)) /\ p \notin Users(b)
    BY <1>2, Constants, FS_Subset DEF Users
  <2>2. Users(b)' = Users(b) \cup {p}
    BY <1>2 DEF Users
  <2>3. Cardinality(Users(b)') = Cardinality(Users(b)) + 1 /\ Cardinality(Users(b)) \in Nat
    BY <2>1, <2>2, FS_AddElement, FS_CardinalityType
  <2>4. \A c \in Bufs : c # b => Users(c)' = Users(c)
    BY <1>2, Constants DEF Users
  <2>5. buf'[b].refcnt = Cardinality(Users(b)') + (IF b \in pinned' THEN 1 ELSE 0)
    <3>1. buf[b].refcnt = Cardinality(Users(b)) + (IF b \in pinned THEN 1 ELSE 0)
      BY <1>0 DEF Counted
    <3> QED
      BY <1>2, <1>4, <2>3, <3>1
  <2> QED
    BY <1>0, <1>2, <1>4, <2>4, <2>5 DEF Counted
<1>9. HasBuffer'
  BY <1>0, <1>6, <1>7, Constants DEF HasBuffer
<1>10. LockHeld'
  BY <1>0, <1>2, <1>6, LockKept DEF Holds
<1>11. ReadOnce'
  <2>1. \A c \in Bufs : buf'[c].valid => buf'[c].block # None
    BY <1>0, <1>4, Constants DEF ReadOnce
  <2>2. \A q \in Procs : /\ pc'[q] \in {"read", "filled"} => ~buf'[at'[q]].valid
                         /\ pc'[q] \in {"have", "write", "written"} => buf'[at'[q]].valid
    BY <1>0, <1>6, <1>7 DEF ReadOnce
  <2> QED
    BY <2>1, <2>2 DEF ReadOnce
<1>12. Requests'
  BY <1>0, <1>2, <1>6, <1>7, RequestsKept DEF Waits, ring
<1>13. SameData /\ SameDisk
  BY <1>4 DEF SameData, SameDisk
<1>14. Chains' /\ Stages' /\ Transferred' /\ LruFull'
  BY <1>0, <1>2, <1>13, Kept DEF ring, device
<1>15. Clean'
  <2> SUFFICES ASSUME NEW c \in Bufs, buf'[c].valid
               PROVE  \/ Saved(c)'
                      \/ lock'[c] # None /\ pc'[lock'[c]] \in {"have", "write", "written"}
    BY DEF Clean
  <2>1. buf[c].valid /\ buf'[c].block = buf[c].block /\ buf'[c].data = buf[c].data
    BY <1>4
  <2>2. Saved(c) => Saved(c)'
    BY <1>2, <2>1 DEF Saved, device
  <2>3. lock[c] # None => lock[c] \in Procs /\ pc[lock[c]] \in Holds
    BY <1>0, HeldAlone DEF LockHeld
  <2>4. lock[c] # None => pc'[lock[c]] = pc[lock[c]]
    BY <1>2, <1>6, <2>3 DEF Holds
  <2> QED
    BY <1>0, <1>2, <2>1, <2>2, <2>4 DEF Clean
<1>16. Coherent'
  <2>1. None \notin Blocks
    BY Constants
  <2>2. CASE buf[b].block = n /\ buf'[b].valid = buf[b].valid
    <3>1. SameBlock /\ SameValid
      BY <1>4, <2>2 DEF SameBlock, SameValid
    <3> QED
      BY <1>0, <1>2, <1>13, <3>1, Kept DEF device
  <2>3. CASE Cached(n) = {} /\ Users(b) = {} /\ b \notin pinned /\ buf'[b].valid = FALSE
    <3>1. OneBuffer'
      BY <1>0, <1>4, <2>3 DEF Coherent, OneBuffer, Cached
    <3>2. \A m \in Blocks : \A c \in Bufs :
            buf'[c].block = m /\ buf'[c].valid => buf'[c].data = latest'[m]
      BY <1>0, <1>2, <1>4, <2>1, <2>3, CoherentMeans
    <3>3. ASSUME NEW m \in Blocks, \A c \in Bufs : buf'[c].block = m => ~buf'[c].valid
          PROVE  disk'[m] = latest'[m]
      <4>1. UNCHANGED <<disk, latest>>
        BY <1>2 DEF device
      <4>2. CASE buf[b].block = m /\ buf[b].valid
        <5>1. lock[b] = None
          BY <1>0, <2>3, HeldAlone DEF LockHeld, Users
        <5>2. buf[b].data = disk[m]
          BY <1>0, <2>3, <4>2, <5>1 DEF Clean, Saved
        <5>3. buf[b].data = latest[m]
          BY <1>0, <2>1, <4>2, CoherentMeans
        <5> QED
          BY <4>1, <5>2, <5>3
      <4>3. CASE ~(buf[b].block = m /\ buf[b].valid)
        <5>1. \A c \in Bufs : buf[c].block = m => ~buf[c].valid
          BY <1>4, <3>3, <4>3
        <5> QED
          BY <1>0, <2>1, <4>1, <5>1, CoherentMeans
      <4> QED
        BY <4>2, <4>3
    <3>4. Coherent' <=>
            /\ OneBuffer'
            /\ \A m \in Blocks : \A c \in Bufs :
                 buf'[c].block = m /\ buf'[c].valid => buf'[c].data = latest'[m]
            /\ \A m \in Blocks :
                 (\A c \in Bufs : buf'[c].block = m => ~buf'[c].valid) => disk'[m] = latest'[m]
      BY <2>1 DEF Coherent, OneBuffer, Cached
    <3> QED
      BY <3>1, <3>2, <3>3, <3>4
  <2> QED
    BY <1>4, <2>2, <2>3
<1> QED
  BY <1>5, <1>8, <1>9, <1>10, <1>11, <1>12, <1>14, <1>15, <1>16 DEF IInv

\* acquiresleep, for a lock that is free, and for one that is not.
LEMMA AcquireSleepStep ==
  ASSUME IInv, NEW p \in Procs, AcquireSleep(p)
  PROVE  IInv'
<1>0. /\ TypeOK /\ LruFull /\ Counted /\ HasBuffer /\ LockHeld /\ ReadOnce
      /\ Requests /\ Chains /\ Stages /\ Transferred /\ Clean /\ Coherent
  BY DEF IInv
<1>1. /\ UNCHANGED <<buf, lru, at, ring, device, irq, latest, pinned>>
      /\ pc[p] = "lock" /\ at[p] \in Bufs /\ buf[at[p]].block \in Blocks
  BY <1>0, HeldAlone DEF AcquireSleep, At
<1>2. SameBlock /\ SameValid /\ SameCount /\ SameData /\ SameDisk
  BY <1>1 DEF SameBlock, SameValid, SameCount, SameData, SameDisk
<1>3. LruFull' /\ Counted' /\ Chains' /\ Stages' /\ Transferred' /\ Coherent'
  BY <1>0, <1>1, <1>2, Kept DEF ring, device
<1>4. CASE lock[at[p]] # None
  <2>1. UNCHANGED <<lock, pc>>
    BY <1>4 DEF AcquireSleep
  <2>2. TypeOK' /\ HasBuffer' /\ LockHeld' /\ ReadOnce' /\ Requests' /\ Clean'
    BY <1>0, <1>1, <1>2, <2>1, Kept DEF ring, device, TypeOK
  <2> QED
    BY <1>3, <2>2 DEF IInv
<1>5. CASE lock[at[p]] = None
  <2> DEFINE l == IF buf[at[p]].valid THEN "have" ELSE "read"
  <2>1. lock' = [lock EXCEPT ![at[p]] = p] /\ pc' = [pc EXCEPT ![p] = l]
    BY <1>5 DEF AcquireSleep, Goto
  <2>2. /\ \A b \in Bufs : lock'[b] = IF b = at[p] THEN p ELSE lock[b]
        /\ Moves(p, l) /\ l \in {"have", "read"} /\ (l = "have" <=> buf[at[p]].valid)
    BY <1>0, <2>1 DEF TypeOK, Moves
  <2>3. TypeOK'
    BY <1>0, <1>1, <2>1 DEF TypeOK, Holds, ring, device
  <2> HIDE DEF l
  <2>4. HasBuffer'
    BY <1>0, <1>1, <2>2 DEF HasBuffer, Moves
  <2>5. LockHeld'
    <3>1. \A q \in Procs : pc[q] \in Holds => at[q] # at[p] /\ at[q] \in Bufs
      BY <1>0, <1>5, HeldAlone, Constants DEF LockHeld, Holds
    <3>2. \A q \in Procs : pc'[q] \in Holds => lock'[at'[q]] = q
      BY <1>0, <1>1, <2>2, <3>1 DEF LockHeld, Moves
    <3>3. \A b \in Bufs : lock[b] # None => lock[b] # p
      BY <1>0, <1>1, HeldAlone DEF LockHeld, Holds
    <3>4. \A b \in Bufs : lock'[b] # None => at'[lock'[b]] = b /\ pc'[lock'[b]] \in Holds
      BY <1>0, <1>1, <2>2, <3>3, HeldAlone DEF LockHeld, Moves, Holds
    <3> QED
      BY <3>2, <3>4 DEF LockHeld
  <2>6. ReadOnce'
    BY <1>0, <1>1, <2>2 DEF ReadOnce, Moves
  <2>7. Requests'
    BY <1>0, <1>1, <2>2, RequestsKept DEF Waits, Moves, ring
  <2>8. Clean'
    BY <1>0, <1>1, <1>5, <2>2, HeldAlone DEF Clean, Saved, Moves, LockHeld, device
  <2> QED
    BY <1>3, <2>3, <2>4, <2>5, <2>6, <2>7, <2>8 DEF IInv
<1> QED
  BY <1>4, <1>5

\* brelse, the part that gives the lock back.
LEMMA BrelseStep ==
  ASSUME IInv, NEW p \in Procs, Brelse(p)
  PROVE  IInv'
<1>0. /\ TypeOK /\ LruFull /\ Counted /\ HasBuffer /\ LockHeld /\ ReadOnce
      /\ Requests /\ Chains /\ Stages /\ Transferred /\ Clean /\ Coherent
  BY DEF IInv
<1>1. /\ UNCHANGED <<buf, lru, at, ring, device, irq, latest, pinned>>
      /\ pc[p] = "have" /\ at[p] \in Bufs /\ Saved(at[p])
      /\ lock' = [lock EXCEPT ![at[p]] = None] /\ pc' = [pc EXCEPT ![p] = "unref"]
  BY <1>0, HeldAlone DEF Brelse, At, ReleaseSleep, Goto
<1>2. SameBlock /\ SameValid /\ SameCount /\ SameData /\ SameDisk
  BY <1>1 DEF SameBlock, SameValid, SameCount, SameData, SameDisk
<1>3. LruFull' /\ Counted' /\ Chains' /\ Stages' /\ Transferred' /\ Coherent'
  BY <1>0, <1>1, <1>2, Kept DEF ring, device
<1>4. /\ \A b \in Bufs : lock'[b] = IF b = at[p] THEN None ELSE lock[b]
      /\ Moves(p, "unref") /\ lock[at[p]] = p
  BY <1>0, <1>1 DEF TypeOK, Moves, LockHeld, Holds
<1>5. TypeOK'
  BY <1>0, <1>1 DEF TypeOK, ring, device
<1>6. HasBuffer'
  BY <1>0, <1>1, <1>4 DEF HasBuffer, Moves
<1>7. LockHeld'
  <2>1. \A q \in Procs : pc'[q] \in Holds => lock'[at'[q]] = q
    <3> SUFFICES ASSUME NEW q \in Procs, pc'[q] \in Holds PROVE lock'[at'[q]] = q
      OBVIOUS
    <3>1. q # p /\ pc[q] \in Holds /\ lock[at[q]] = q /\ at[q] \in Bufs
      BY <1>0, <1>1, <1>4, HeldAlone DEF LockHeld, Moves, Holds
    <3> QED
      BY <1>1, <1>4, <3>1
  <2>2. \A b \in Bufs : lock'[b] # None => at'[lock'[b]] = b /\ pc'[lock'[b]] \in Holds
    BY <1>0, <1>1, <1>4, HeldAlone DEF LockHeld, Moves
  <2> QED
    BY <2>1, <2>2 DEF LockHeld
<1>8. ReadOnce'
  BY <1>0, <1>1, <1>4 DEF ReadOnce, Moves
<1>9. Requests'
  BY <1>0, <1>1, <1>4, RequestsKept DEF Waits, Moves, ring
<1>10. Clean'
  <2>1. \A b \in Bufs : Saved(b)' <=> Saved(b)
    BY <1>1 DEF Saved, device
  <2>2. \A b \in Bufs : b # at[p] /\ lock[b] # None =>
          lock'[b] = lock[b] /\ pc'[lock[b]] = pc[lock[b]]
    BY <1>0, <1>1, <1>4, HeldAlone DEF LockHeld, Moves
  <2> QED
    BY <1>0, <1>1, <1>4, <2>1, <2>2 DEF Clean
<1> QED
  BY <1>3, <1>5, <1>6, <1>7, <1>8, <1>9, <1>10 DEF IInv

\* brelse, the part that gives the buffer back: it goes to the front of the list.
LEMMA UnrefStep ==
  ASSUME IInv, NEW p \in Procs, Unref(p)
  PROVE  IInv'
<1>0. /\ TypeOK /\ LruFull /\ Counted /\ HasBuffer /\ LockHeld /\ ReadOnce
      /\ Requests /\ Chains /\ Stages /\ Transferred /\ Clean /\ Coherent
  BY DEF IInv
<1>b. PICK b \in Bufs : b = at[p]
  BY <1>0, HeldAlone DEF Unref, At
<1>1. /\ UNCHANGED <<lock, ring, device, irq, latest, pinned>>
      /\ pc[p] = "unref" /\ b \in Bufs
      /\ pc' = [pc EXCEPT ![p] = "idle"] /\ at' = [at EXCEPT ![p] = None]
      /\ lru' = (IF buf'[b].refcnt > 0 THEN lru ELSE <<b>> \o RemoveFirst(lru, b))
  BY <1>b DEF Unref, At, Goto
<1>2. /\ Moves(p, "idle") /\ \A q \in Procs : at'[q] = IF q = p THEN None ELSE at[q]
  BY <1>0, <1>1 DEF TypeOK, Moves
<1>3. /\ p \in Users(b) /\ IsFiniteSet(Users(b)) /\ Cardinality(Users(b)) \in Nat
      /\ Cardinality(Users(b)) >= 1
  <2>1. p \in Users(b) /\ IsFiniteSet(Users(b))
    BY <1>b, Constants, FS_Subset DEF Users
  <2>2. Cardinality(Users(b)) \in Nat /\ Cardinality(Users(b)) # 0
    BY <2>1, FS_EmptySet, FS_CardinalityType
  <2> QED
    BY <2>1, <2>2
<1>4. buf[b].refcnt \in Nat /\ buf[b].refcnt - 1 \in Nat
      /\ buf[b].refcnt = Cardinality(Users(b)) + (IF b \in pinned THEN 1 ELSE 0)
  <2>1. buf[b].refcnt = Cardinality(Users(b)) + (IF b \in pinned THEN 1 ELSE 0)
    BY <1>0, <1>1 DEF Counted
  <2> QED
    BY <1>3, <2>1
<1>5. /\ buf' \in [Bufs -> BufType]
      /\ \A c \in Bufs : c # b => buf'[c] = buf[c]
      /\ buf'[b].data = buf[b].data /\ buf'[b].disk = buf[b].disk
      /\ buf'[b].block = buf[b].block /\ buf'[b].valid = buf[b].valid
      /\ buf'[b].refcnt = buf[b].refcnt - 1
  <2> DEFINE e == [buf[b] EXCEPT !.refcnt = buf[b].refcnt - 1]
  <2>1. buf \in [Bufs -> BufType] /\ buf[b] \in BufType
    BY <1>0, <1>1 DEF TypeOK
  <2>2. /\ e \in BufType /\ e.refcnt = buf[b].refcnt - 1 /\ e.block = buf[b].block
        /\ e.valid = buf[b].valid /\ e.data = buf[b].data /\ e.disk = buf[b].disk
    BY <1>4, <2>1 DEF BufType
  <2>3. buf' = [buf EXCEPT ![b] = e]
    BY <1>b DEF Unref
  <2> HIDE DEF e
  <2> QED
    BY <1>1, <2>1, <2>2, <2>3, PutBuf
<1>6. SameBlock /\ SameValid /\ SameData /\ SameDisk
  BY <1>5 DEF SameBlock, SameValid, SameData, SameDisk
<1>7. Chains' /\ Stages' /\ Transferred' /\ Coherent'
  BY <1>0, <1>1, <1>6, Kept DEF ring, device
<1>8. lru' \in Seq(Bufs) /\ Len(lru') = NBUF /\ LruFull'
  <2>1. lru \in Seq(Bufs) /\ Len(lru) = NBUF /\ ToSet(lru) = Bufs
    BY <1>0 DEF TypeOK, LruFull
  <2> DEFINE s == <<b>> \o RemoveFirst(lru, b)
  <2>2. s \in Seq(Bufs) /\ Len(s) = Len(lru) /\ ToSet(s) = ToSet(lru)
    BY <1>1, <2>1, MovedToFront
  <2> HIDE DEF s
  <2>3. lru' = lru \/ lru' = s
    BY <1>1 DEF s
  <2> QED
    BY <2>1, <2>2, <2>3 DEF LruFull
<1>9. TypeOK'
  BY <1>0, <1>1, <1>5, <1>8 DEF TypeOK, ring, device
<1>10. Counted'
  <2>1. Users(b)' = Users(b) \ {p}
    BY <1>b, <1>2, Constants DEF Users
  <2>2. Cardinality(Users(b)') = Cardinality(Users(b)) - 1
    BY <1>3, <2>1, FS_RemoveElement
  <2>3. buf'[b].refcnt = Cardinality(Users(b)') + (IF b \in pinned' THEN 1 ELSE 0)
    BY <1>1, <1>3, <1>4, <1>5, <2>2
  <2>4. \A c \in Bufs : c # b => Users(c)' = Users(c)
    BY <1>b, <1>2, Constants DEF Users
  <2> QED
    BY <1>0, <1>1, <1>5, <2>3, <2>4 DEF Counted
<1>11. HasBuffer'
  BY <1>0, <1>2, <1>6, Typed, Constants DEF HasBuffer, Moves, SameBlock
<1>12. LockHeld'
  BY <1>0, <1>1, <1>2, LockKept DEF Holds, Moves
<1>13. ReadOnce'
  <2>1. \A q \in Procs : pc'[q] # "idle" =>
          pc'[q] = pc[q] /\ at'[q] = at[q] /\ at[q] \in Bufs
    BY <1>0, <1>2, HeldAlone DEF Moves
  <2> QED
    BY <1>0, <1>6, <2>1 DEF ReadOnce, SameBlock, SameValid
<1>14. Requests'
  <2>1. \A q \in Procs : pc[q] \in Waits => at[q] \in Bufs
    BY <1>0, HeldAlone DEF Waits
  <2> QED
    BY <1>0, <1>1, <1>2, <1>6, <2>1, RequestsKept DEF Waits, Moves, ring, SameBlock
<1>15. Clean'
  <2>1. \A c \in Bufs : /\ Saved(c)' <=> Saved(c)
                        /\ lock[c] # None => lock[c] # p /\ pc'[lock[c]] = pc[lock[c]]
    BY <1>0, <1>1, <1>2, <1>6, HeldAlone
       DEF LockHeld, Holds, Moves, Saved, SameData, SameBlock, device
  <2> QED
    BY <1>0, <1>1, <1>6, <2>1 DEF Clean, SameValid
<1> QED
  BY <1>7, <1>8, <1>9, <1>10, <1>11, <1>12, <1>13, <1>14, <1>15 DEF IInv

\* The holder changes what is in the buffer.
LEMMA ChangeStep ==
  ASSUME IInv, NEW p \in Procs, Change(p)
  PROVE  IInv'
<1>0. /\ TypeOK /\ LruFull /\ Counted /\ HasBuffer /\ LockHeld /\ ReadOnce
      /\ Requests /\ Chains /\ Stages /\ Transferred /\ Clean /\ Coherent
  BY DEF IInv
<1>b. PICK b \in Bufs, n \in Blocks : b = at[p] /\ n = buf[b].block
  BY <1>0, HeldAlone DEF Change, At
<1>1. /\ UNCHANGED <<lru, lock, pc, at, ring, device, irq, pinned>> /\ pc[p] = "have"
      /\ lock[b] = p
  BY <1>0, <1>b DEF Change, At, LockHeld, Holds
<1>2. PICK d \in Data : /\ buf' = [buf EXCEPT ![b].data = d]
                        /\ latest' = [latest EXCEPT ![n] = d]
  BY <1>b DEF Change
<1>3. /\ buf' \in [Bufs -> BufType]
      /\ \A c \in Bufs : c # b => buf'[c] = buf[c]
      /\ buf'[b].data = d /\ buf'[b].disk = buf[b].disk /\ buf'[b].refcnt = buf[b].refcnt
      /\ buf'[b].block = n /\ buf'[b].valid = buf[b].valid
  <2> DEFINE e == [buf[b] EXCEPT !.data = d]
  <2>1. buf \in [Bufs -> BufType] /\ buf[b] \in BufType
    BY <1>0 DEF TypeOK
  <2>2. /\ e \in BufType /\ e.data = d /\ e.block = buf[b].block /\ e.refcnt = buf[b].refcnt
        /\ e.valid = buf[b].valid /\ e.disk = buf[b].disk
    BY <2>1 DEF BufType
  <2>3. buf' = [buf EXCEPT ![b] = e]
    BY <1>2
  <2> HIDE DEF e
  <2> QED
    BY <1>b, <2>1, <2>2, <2>3, PutBuf
<1>4. SameBlock /\ SameValid /\ SameCount /\ SameDisk
  BY <1>b, <1>3 DEF SameBlock, SameValid, SameCount, SameDisk
<1>5. /\ LruFull' /\ Counted' /\ HasBuffer' /\ LockHeld' /\ ReadOnce' /\ Requests'
      /\ Chains' /\ Stages'
  BY <1>0, <1>1, <1>4, Kept DEF ring, device
<1>6. TypeOK'
  <2>1. latest' \in [Blocks -> Data]
    BY <1>0, <1>2 DEF TypeOK
  <2> QED
    BY <1>0, <1>1, <1>3, <2>1 DEF TypeOK, ring, device
\* The buffer is in no request: its holder does not wait.
<1>7. Transferred'
  <2>1. \A i \in Descs : IsHead(i) => req[i].buf # b /\ req[i].buf \in Bufs
    BY <1>0, <1>1, RequestHeld, Typed DEF Serves, Waits
  <2>2. \A i \in Descs : IsHead(i)' <=> IsHead(i)
    BY <1>1 DEF IsHead, ring
  <2> QED
    BY <1>0, <1>1, <1>3, <2>1, <2>2 DEF Transferred, ring, device
<1>8. Clean'
  <2>1. \A c \in Bufs : c # b => (Saved(c)' <=> Saved(c))
    BY <1>1, <1>3 DEF Saved, device
  <2> QED
    BY <1>0, <1>1, <1>3, <2>1, Constants DEF Clean
<1>9. Coherent'
  <2>1. OneBuffer /\ OneBuffer'
    BY <1>0, <1>4 DEF Coherent, OneBuffer, SameBlock
  <2>2. buf[b].valid
    BY <1>0, <1>b, <1>1 DEF ReadOnce
  <2>3. latest' = [latest EXCEPT ![n] = d] /\ latest \in [Blocks -> Data] /\ disk' = disk
    BY <1>0, <1>1, <1>2 DEF TypeOK, device
  <2>4. \A c \in Bufs : c # b => buf[c].block # n
    BY <1>b, <2>1, Constants DEF OneBuffer
  <2>5. \A m \in Blocks : \A c \in Bufs :
          buf'[c].block = m /\ buf'[c].valid => buf'[c].data = latest'[m]
    BY <1>0, <1>3, <2>3, <2>4, CoherentMeans, Constants
  <2>6. ASSUME NEW m \in Blocks, \A c \in Bufs : buf'[c].block = m => ~buf'[c].valid
        PROVE  disk'[m] = latest'[m]
    <3>1. m # n
      BY <1>3, <2>2, <2>6
    <3>2. \A c \in Bufs : buf[c].block = m => ~buf[c].valid
      BY <1>4, <2>6 DEF SameBlock, SameValid
    <3> QED
      BY <1>0, <2>3, <3>1, <3>2, CoherentMeans, Constants
  <2> QED
    BY <2>1, <2>5, <2>6, Constants DEF Coherent, OneBuffer, Cached
<1> QED
  BY <1>5, <1>6, <1>7, <1>8, <1>9 DEF IInv

\* bpin and bunpin: the pin and the count change together.
LEMMA PinStep ==
  ASSUME IInv, NEW p \in Procs, Bpin(p) \/ Bunpin(p)
  PROVE  IInv'
<1>0. /\ TypeOK /\ LruFull /\ Counted /\ HasBuffer /\ LockHeld /\ ReadOnce
      /\ Requests /\ Chains /\ Stages /\ Transferred /\ Clean /\ Coherent
  BY DEF IInv
<1>b. PICK b \in Bufs : b = at[p]
  BY <1>0, HeldAlone DEF Bpin, Bunpin, At
<1>1. /\ UNCHANGED <<lru, lock, pc, at, ring, device, irq, latest>> /\ pc[p] = "have"
      /\ lock[b] = p
  BY <1>0, <1>b DEF Bpin, Bunpin, At, LockHeld, Holds
<1>2. Cardinality(Users(b)) \in Nat
  BY Constants, FS_Subset, FS_CardinalityType DEF Users
<1>3. buf[b].refcnt = Cardinality(Users(b)) + (IF b \in pinned THEN 1 ELSE 0)
      /\ buf[b].refcnt \in Nat
  BY <1>0, Typed DEF Counted
<1>4. PICK k \in Nat :
        /\ buf' = [buf EXCEPT ![b].refcnt = k]
        /\ k = Cardinality(Users(b)) + (IF b \in pinned' THEN 1 ELSE 0)
        /\ pinned' \subseteq Bufs /\ \A c \in Bufs : c # b => (c \in pinned' <=> c \in pinned)
        /\ b \in pinned' \/ buf[b].data = disk[buf[b].block]
  <2>1. CASE Bpin(p)
    <3>1. /\ b \notin pinned /\ buf' = [buf EXCEPT ![b].refcnt = buf[b].refcnt + 1]
          /\ pinned' = pinned \cup {b}
      BY <1>b, <2>1 DEF Bpin
    <3>2. buf[b].refcnt + 1 \in Nat /\ buf[b].refcnt + 1 = Cardinality(Users(b)) + 1
      BY <1>2, <1>3, <3>1
    <3> QED
      BY <1>0, <1>b, <3>1, <3>2 DEF TypeOK
  <2>2. CASE Bunpin(p)
    <3>1. /\ b \in pinned /\ buf' = [buf EXCEPT ![b].refcnt = buf[b].refcnt - 1]
          /\ pinned' = pinned \ {b} /\ buf[b].data = disk[buf[b].block]
      BY <1>b, <2>2 DEF Bunpin
    <3>2. buf[b].refcnt - 1 \in Nat /\ buf[b].refcnt - 1 = Cardinality(Users(b)) + 0
      BY <1>2, <1>3, <3>1
    <3> QED
      BY <1>0, <1>b, <3>1, <3>2 DEF TypeOK
  <2> QED
    BY <2>1, <2>2
<1>5. /\ buf' \in [Bufs -> BufType]
      /\ \A c \in Bufs : c # b => buf'[c] = buf[c]
      /\ buf'[b].refcnt = k /\ buf'[b].disk = buf[b].disk /\ buf'[b].data = buf[b].data
      /\ buf'[b].block = buf[b].block /\ buf'[b].valid = buf[b].valid
  <2> DEFINE e == [buf[b] EXCEPT !.refcnt = k]
  <2>1. buf \in [Bufs -> BufType] /\ buf[b] \in BufType
    BY <1>0 DEF TypeOK
  <2>2. /\ e \in BufType /\ e.refcnt = k /\ e.block = buf[b].block /\ e.data = buf[b].data
        /\ e.valid = buf[b].valid /\ e.disk = buf[b].disk
    BY <2>1 DEF BufType
  <2>3. buf' = [buf EXCEPT ![b] = e]
    BY <1>4
  <2> HIDE DEF e
  <2> QED
    BY <2>1, <2>2, <2>3, PutBuf
<1>6. SameBlock /\ SameValid /\ SameData /\ SameDisk
  BY <1>5 DEF SameBlock, SameValid, SameData, SameDisk
<1>7. /\ LruFull' /\ HasBuffer' /\ LockHeld' /\ ReadOnce' /\ Requests'
      /\ Chains' /\ Stages' /\ Transferred' /\ Coherent'
  BY <1>0, <1>1, <1>6, Kept DEF ring, device
<1>8. TypeOK'
  BY <1>0, <1>1, <1>4, <1>5 DEF TypeOK, ring, device
<1>9. Counted'
  <2>1. \A c \in Bufs : Users(c)' = Users(c)
    BY <1>1 DEF Users
  <2>2. buf'[b].refcnt = Cardinality(Users(b)') + (IF b \in pinned' THEN 1 ELSE 0)
    BY <1>4, <1>5, <2>1
  <2> QED
    BY <1>0, <1>4, <1>5, <2>1, <2>2 DEF Counted
<1>10. Clean'
  <2>1. \A c \in Bufs : c # b => (Saved(c)' <=> Saved(c))
    BY <1>1, <1>4, <1>5 DEF Saved, device
  <2> QED
    BY <1>0, <1>1, <1>6, <2>1, Constants DEF Clean, SameValid
<1> QED
  BY <1>7, <1>8, <1>9, <1>10 DEF IInv

\* bwrite: the transfer begins.
LEMMA BwriteStep ==
  ASSUME IInv, NEW p \in Procs, Bwrite(p)
  PROVE  IInv'
<1>0. /\ TypeOK /\ LruFull /\ Counted /\ HasBuffer /\ LockHeld /\ ReadOnce
      /\ Requests /\ Chains /\ Stages /\ Transferred /\ Clean /\ Coherent
  BY DEF IInv
<1>1. /\ UNCHANGED <<buf, lru, lock, at, ring, device, irq, latest, pinned>>
      /\ pc[p] = "have" /\ pc' = [pc EXCEPT ![p] = "write"] /\ Moves(p, "write")
  BY <1>0 DEF Bwrite, At, Goto, Moves, TypeOK, cache
<1>2. SameBlock /\ SameValid /\ SameCount /\ SameData /\ SameDisk
  BY <1>1 DEF SameBlock, SameValid, SameCount, SameData, SameDisk
<1>3. LruFull' /\ Counted' /\ Chains' /\ Stages' /\ Transferred' /\ Coherent'
  BY <1>0, <1>1, <1>2, Kept DEF ring, device
<1>4. TypeOK'
  BY <1>0, <1>1 DEF TypeOK, ring, device, Holds
<1>5. HasBuffer' /\ ReadOnce'
  BY <1>0, <1>1 DEF HasBuffer, ReadOnce, Moves
<1>6. LockHeld'
  BY <1>0, <1>1, LockKept DEF Moves, Holds
<1>7. Requests'
  BY <1>0, <1>1, RequestsKept DEF Moves, Waits, ring
<1>8. Clean'
  BY <1>0, <1>1, HeldAlone DEF Clean, Saved, Moves, device
<1> QED
  BY <1>3, <1>4, <1>5, <1>6, <1>7, <1>8 DEF IInv

\* A step that changes nothing the invariant speaks of but irq, intr and chan: a process
\* that goes to sleep, the interrupt handler's first and last step, a stutter.
LEMMA QuietStep ==
  ASSUME IInv, irq' \in BOOLEAN, intr' \in BOOLEAN,
         UNCHANGED <<cache, pc, at, desc, req, avail, used_idx, device, latest, pinned>>
  PROVE  IInv'
<1>0. /\ TypeOK /\ LruFull /\ Counted /\ HasBuffer /\ LockHeld /\ ReadOnce
      /\ Requests /\ Chains /\ Stages /\ Transferred /\ Clean /\ Coherent
  BY DEF IInv
<1>1. UNCHANGED <<buf, lru, lock, disk, seen, work, used>>
  BY DEF cache, device
<1>2. SameBlock /\ SameValid /\ SameCount /\ SameData /\ SameDisk
  BY <1>1 DEF SameBlock, SameValid, SameCount, SameData, SameDisk
<1>3. TypeOK'
  BY <1>0, <1>1 DEF TypeOK
<1> QED
  BY <1>0, <1>1, <1>2, <1>3, Kept DEF IInv

------------------------------------------------------------------------------
(* virtio_disk_rw *)

LEMMA ChainHas ==
  ASSUME TypeOK, Chains, NEW i \in Descs, IsHead(i)
  PROVE  \E j, k \in Descs :
           /\ j = desc[i].next /\ k = desc[j].next /\ i # j /\ i # k /\ j # k
           /\ ChainOf(i) = {i, j, k}
           /\ ~desc[i].free /\ ~desc[j].free /\ ~desc[k].free
<1>1. PICK j \in Descs, k \in Descs :
        j = desc[i].next /\ k = desc[j].next /\ i # j /\ i # k /\ j # k
  BY DEF Chains
<1>2. ChainOf(i) = {i, j, k}
  BY <1>1 DEF ChainOf
<1>3. ~desc[i].free /\ ~desc[j].free /\ ~desc[k].free
  BY <1>1, <1>2 DEF Chains
<1> QED
  BY <1>1, <1>2, <1>3

\* alloc3_desc: three descriptors that are free, and of no request.
LEMMA ThreeFree ==
  ASSUME TypeOK, Chains, Cardinality(FreeDescs) >= 3
  PROVE  /\ Three[1] \in FreeDescs /\ Three[2] \in FreeDescs /\ Three[3] \in FreeDescs
         /\ Three[1] # Three[2] /\ Three[1] # Three[3] /\ Three[2] # Three[3]
         /\ \A d \in FreeDescs : ~IsHead(d)
<1> DEFINE a == Min(FreeDescs)
           b == Min(FreeDescs \ {a})
           c == Min(FreeDescs \ {a, b})
<1>1. IsFiniteSet(FreeDescs) /\ FreeDescs \subseteq Nat
  <2>1. 0 \in Int /\ NUM - 1 \in Int /\ Descs = 0 .. NUM - 1
    BY Constants
  <2>2. IsFiniteSet(Descs)
    BY ONLY <2>1, FS_Interval
  <2> QED
    BY <2>2, Constants, FS_Subset DEF FreeDescs
<1>2. FreeDescs # {} /\ Cardinality(FreeDescs) \in Nat
  BY <1>1, FS_EmptySet, FS_CardinalityType
<1>3. a \in FreeDescs
  BY <1>1, <1>2, MinIn
<1> HIDE DEF a
<1>4. IsFiniteSet(FreeDescs \ {a}) /\ Cardinality(FreeDescs \ {a}) = Cardinality(FreeDescs) - 1
  BY <1>1, <1>3, FS_RemoveElement
<1>5. FreeDescs \ {a} # {} /\ FreeDescs \ {a} \subseteq Nat
  <2>1. Cardinality(FreeDescs \ {a}) # 0
    BY <1>2, <1>4
  <2> QED
    BY <1>1, <2>1, FS_EmptySet
<1>6. b \in FreeDescs \ {a}
  BY <1>5, MinIn
<1> HIDE DEF b
<1>7. (FreeDescs \ {a}) \ {b} = FreeDescs \ {a, b}
  OBVIOUS
<1>8. Cardinality((FreeDescs \ {a}) \ {b}) = Cardinality(FreeDescs \ {a}) - 1
  BY <1>4, <1>6, FS_RemoveElement
<1>9. FreeDescs \ {a, b} # {} /\ FreeDescs \ {a, b} \subseteq Nat
  <2>1. Cardinality((FreeDescs \ {a}) \ {b}) # 0
    BY <1>2, <1>4, <1>8
  <2> QED
    BY <1>1, <1>7, <2>1, FS_EmptySet
<1>10. c \in FreeDescs \ {a, b}
  BY <1>9, MinIn
<1> HIDE DEF c
<1>11. Three = <<a, b, c>>
  BY DEF Three, a, b, c
<1>12. \A d \in FreeDescs : ~IsHead(d)
  BY ChainHas DEF FreeDescs
<1> QED
  BY <1>3, <1>6, <1>10, <1>11, <1>12

\* The request is described and put in the ring.
LEMMA SubmitStep ==
  ASSUME IInv, NEW p \in Procs, pc[p] \in {"read", "write"}, Submit(p),
         UNCHANGED <<lru, lock, at, used_idx, intr, device, irq, latest, pinned>>
  PROVE  IInv'
<1>0. /\ TypeOK /\ LruFull /\ Counted /\ HasBuffer /\ LockHeld /\ ReadOnce
      /\ Requests /\ Chains /\ Stages /\ Transferred /\ Clean /\ Coherent
  BY DEF IInv
<1>b. PICK b \in Bufs, n \in Blocks : b = at[p] /\ n = buf[b].block
  BY <1>0, HeldAlone
<1>i. PICK i \in Descs, j \in Descs, k \in Descs :
        /\ i = Three[1] /\ j = Three[2] /\ k = Three[3]
        /\ desc[i].free /\ desc[j].free /\ desc[k].free /\ i # j /\ i # k /\ j # k
        /\ ~IsHead(i) /\ ~IsHead(j) /\ ~IsHead(k)
  BY <1>0, ThreeFree DEF Submit, FreeDescs
<1> DEFINE l == IF pc[p] = "write" THEN "written" ELSE "filled"
           R == [buf |-> b, write |-> pc[p] = "write", block |-> n]
<1>1. /\ desc' = [desc EXCEPT ![i] = [free |-> FALSE, next |-> j],
                              ![j] = [free |-> FALSE, next |-> k],
                              ![k] = [free |-> FALSE, next |-> None]]
      /\ req' = [req EXCEPT ![i] = R]
      /\ avail' = [ring |-> [avail.ring EXCEPT ![Slot(avail.idx)] = i],
                   idx |-> Next16(avail.idx)]
      /\ buf' = [buf EXCEPT ![b].disk = TRUE]
      /\ pc' = [pc EXCEPT ![p] = l]
  BY <1>b, <1>i DEF Submit, Slot, Next16, Goto
<1>2. lock[b] = p /\ UNCHANGED <<disk, seen, work, used>>
  BY <1>0, <1>b DEF LockHeld, Holds, device
<1>3. /\ desc' \in [Descs -> [free : BOOLEAN, next : Descs \cup {None}]]
      /\ desc'[i] = [free |-> FALSE, next |-> j]
      /\ desc'[j] = [free |-> FALSE, next |-> k]
      /\ desc'[k] = [free |-> FALSE, next |-> None]
      /\ \A d \in Descs \ {i, j, k} : desc'[d] = desc[d]
  BY <1>0, <1>i, <1>1 DEF TypeOK
<1>4. /\ req' \in [Descs -> {NoRequest} \cup [buf : Bufs, write : BOOLEAN, block : Blocks]]
      /\ req'[i] = R /\ R.buf = b /\ R.write = (pc[p] = "write") /\ R.block = n
      /\ \A d \in Descs : d # i => req'[d] = req[d]
  <2>1. R \in [buf : Bufs, write : BOOLEAN, block : Blocks]
    OBVIOUS
  <2> QED
    BY <1>0, <1>1, <2>1 DEF TypeOK
<1>5. Moves(p, l) /\ l \in Waits /\ (l = "written" <=> pc[p] = "write")
      /\ pc' \in [Procs -> {"idle", "lock", "unref"} \cup Holds]
  BY <1>0, <1>1 DEF TypeOK, Moves, Waits, Holds
<1> HIDE DEF l, R
<1>6. /\ buf' \in [Bufs -> BufType]
      /\ \A c \in Bufs : c # b => buf'[c] = buf[c]
      /\ buf'[b].disk = TRUE /\ buf'[b].refcnt = buf[b].refcnt /\ buf'[b].data = buf[b].data
      /\ buf'[b].block = buf[b].block /\ buf'[b].valid = buf[b].valid
  <2> DEFINE e == [buf[b] EXCEPT !.disk = TRUE]
  <2>1. buf \in [Bufs -> BufType] /\ buf[b] \in BufType
    BY <1>0 DEF TypeOK
  <2>2. /\ e \in BufType /\ e.disk = TRUE /\ e.block = buf[b].block /\ e.data = buf[b].data
        /\ e.valid = buf[b].valid /\ e.refcnt = buf[b].refcnt
    BY <2>1 DEF BufType
  <2>3. buf' = [buf EXCEPT ![b] = e]
    BY <1>1
  <2> HIDE DEF e
  <2> QED
    BY <2>1, <2>2, <2>3, PutBuf
<1>7. SameBlock /\ SameValid /\ SameData /\ SameCount
  BY <1>6 DEF SameBlock, SameValid, SameData, SameCount
<1>8. LruFull' /\ Counted' /\ Coherent'
  BY <1>0, <1>2, <1>7, Kept
\* The buffer was in no request.
<1>9. \A d \in Descs : IsHead(d) => req[d].buf # b /\ req[d].buf \in Bufs
  BY <1>0, <1>2, RequestHeld, Typed DEF Serves, Waits
<1>10. /\ \A d \in Descs : IsHead(d)' <=> IsHead(d) \/ d = i
       /\ \A d \in Descs : IsHead(d) => req'[d] = req[d] /\ d # i
  BY <1>i, <1>4, Constants DEF IsHead
<1>11. ~buf[b].disk
  BY <1>0, <1>9, Constants DEF Stages, IsHead
\* The ring has room: two free descriptors are not in it.
<1>12. /\ avail' \in RingType /\ RingOK(avail', seen)
       /\ \A d \in Descs : In(avail', d) <=> In(avail, d) \/ d = i
  <2>1. avail \in RingType /\ seen \in 0 .. UINT16 - 1 /\ RingOK(avail, seen)
    BY <1>0 DEF TypeOK, RingType, Stages
  <2>2. ~In(avail, i) /\ ~In(avail, j) /\ ~In(avail, k)
    BY <1>0, <1>i DEF Stages
  <2>3. Succ(Slot(avail.idx)) # Slot(seen)
    BY <1>i, <2>1, <2>2, RingHasRoom
  <2> QED
    BY <1>1, <2>1, <2>2, <2>3, RingPut
<1>13. TypeOK'
  BY <1>0, <1>2, <1>3, <1>4, <1>5, <1>6, <1>12 DEF TypeOK, RingType
<1>14. HasBuffer'
  BY <1>0, <1>5, <1>7, Typed DEF HasBuffer, Moves, SameBlock, Waits
<1>15. LockHeld'
  BY <1>0, <1>5, LockKept DEF Moves, Waits, Holds
<1>16. ReadOnce'
  <2>1. \A q \in Procs : pc[q] # "idle" => at[q] \in Bufs
    BY <1>0, HeldAlone
  <2>2. \A q \in Procs : q # p => pc'[q] = pc[q]
    BY <1>5 DEF Moves
  <2>3. pc'[p] \in Waits /\ (pc'[p] = "written" <=> pc[p] = "write")
    BY <1>5 DEF Moves
  <2>4. \A c \in Bufs : buf'[c].valid => buf'[c].block # None
    BY <1>0, <1>7 DEF ReadOnce, SameBlock, SameValid
  <2>5. \A q \in Procs : /\ pc'[q] \in {"read", "filled"} => ~buf'[at[q]].valid
                         /\ pc'[q] \in {"have", "write", "written"} => buf'[at[q]].valid
    BY <1>0, <1>7, <2>1, <2>2, <2>3 DEF ReadOnce, SameValid, Waits
  <2> QED
    BY <2>4, <2>5 DEF ReadOnce
<1>17. Requests'
  <2>1. \A d \in Descs, q \in Procs : IsHead(d) /\ Serves(d, q) => Serves(d, q)'
    BY <1>0, <1>5, <1>7, <1>9, <1>10, Typed DEF Serves, Moves, SameBlock, Waits
  <2>2. Serves(i, p)'
    <3>1. pc'[p] = l /\ at'[p] = b /\ (l = "written") = (pc[p] = "write")
      BY <1>b, <1>5 DEF Moves
    <3>2. req'[i].write = (pc'[p] = "written")
      BY <1>4, <3>1
    <3> QED
      BY <1>b, <1>4, <1>5, <1>6, <3>1, <3>2 DEF Serves
  <2>3. \A d \in Descs : IsHead(d)' => \E q \in Procs : Serves(d, q)'
    BY <1>0, <1>10, <2>1, <2>2 DEF Requests
  <2>4. \A q \in Procs : pc'[q] \in Waits => \E d \in Descs : req'[d].buf = at'[q]
    <3> SUFFICES ASSUME NEW q \in Procs, pc'[q] \in Waits
                 PROVE  \E d \in Descs : req'[d].buf = at'[q]
      OBVIOUS
    <3>1. CASE q = p
      BY <1>b, <1>4, <3>1
    <3>2. CASE q # p
      <4>1. pc[q] \in Waits /\ at[q] \in Bufs
        BY <1>0, <1>5, <3>2, HeldAlone DEF Moves, Waits
      <4>2. PICK d \in Descs : req[d].buf = at[q]
        BY <1>0, <4>1 DEF Requests
      <4>3. IsHead(d)
        BY <4>1, <4>2, Constants DEF IsHead
      <4> QED
        BY <1>10, <4>2, <4>3
    <3> QED
      BY <3>1, <3>2
  <2>5. \A d, f \in Descs : IsHead(d)' /\ req'[d].buf = req'[f].buf => d = f
    <3> SUFFICES ASSUME NEW d \in Descs, NEW f \in Descs, IsHead(d)',
                        req'[d].buf = req'[f].buf
                 PROVE  d = f
      OBVIOUS
    <3>1. IsHead(f)'
      BY DEF IsHead
    <3> QED
      BY <1>0, <1>4, <1>9, <1>10, <3>1 DEF Requests
  <2> QED
    BY <2>3, <2>4, <2>5 DEF Requests
<1>18. Chains'
  <2>1. ChainOf(i)' = {i, j, k} /\ desc'[i].next = j /\ desc'[j].next = k
    BY <1>3 DEF ChainOf
  <2>2. ASSUME NEW d \in Descs, IsHead(d)
        PROVE  /\ ChainOf(d)' = ChainOf(d) /\ ChainOf(d) \cap {i, j, k} = {}
               /\ desc'[d].next = desc[d].next
               /\ desc'[desc[d].next].next = desc[desc[d].next].next
    <3>1. PICK j2 \in Descs, k2 \in Descs :
            /\ j2 = desc[d].next /\ k2 = desc[j2].next
            /\ ChainOf(d) = {d, j2, k2}
            /\ ~desc[d].free /\ ~desc[j2].free /\ ~desc[k2].free
      BY <1>0, <2>2, ChainHas
    <3>2. d \notin {i, j, k} /\ j2 \notin {i, j, k} /\ k2 \notin {i, j, k}
      BY <1>i, <3>1
    <3>3. desc'[d] = desc[d] /\ desc'[j2] = desc[j2]
      BY <1>3, <3>2
    <3> QED
      BY <3>1, <3>2, <3>3 DEF ChainOf
  <2>3. \A d \in Descs : IsHead(d)' =>
          LET e == desc'[d].next IN
          LET f == desc'[e].next IN
          e \in Descs /\ f \in Descs /\ d # e /\ d # f /\ e # f
    BY <1>0, <1>i, <1>10, <2>1, <2>2 DEF Chains
  <2>4. \A d, e \in Descs : IsHead(d)' /\ IsHead(e)' /\ d # e =>
          ChainOf(d)' \cap ChainOf(e)' = {}
    BY <1>0, <1>10, <2>1, <2>2 DEF Chains
  <2>5. \A d \in Descs : ~desc'[d].free <=> \E e \in Descs : IsHead(e)' /\ d \in ChainOf(e)'
    <3> SUFFICES ASSUME NEW d \in Descs
                 PROVE  ~desc'[d].free <=> \E e \in Descs : IsHead(e)' /\ d \in ChainOf(e)'
      OBVIOUS
    <3>1. CASE d \in {i, j, k}
      BY <1>3, <1>10, <2>1, <3>1
    <3>2. CASE d \notin {i, j, k}
      <4>1. desc'[d].free <=> desc[d].free
        BY <1>3, <3>2
      <4>2. ~desc[d].free <=> \E e \in Descs : IsHead(e) /\ d \in ChainOf(e)
        BY <1>0 DEF Chains
      <4> QED
        BY <1>10, <2>1, <2>2, <3>2, <4>1, <4>2
    <3> QED
      BY <3>1, <3>2
  <2> QED
    BY <2>3, <2>4, <2>5 DEF Chains
<1>19. Stages'
  <2>1. RingOK(avail', seen') /\ RingOK(used', used_idx')
    BY <1>0, <1>2, <1>12 DEF Stages
  <2>2. ~In(avail, i) /\ i \notin work /\ ~In(used, i)
    BY <1>0, <1>i DEF Stages
  <2>3. used' = used /\ work' = work
    BY <1>2
  <2>4. ASSUME NEW d \in Descs
        PROVE  /\ In(avail', d) \/ d \in work' \/ In(used', d) => IsHead(d)'
               /\ ~(In(avail', d) /\ d \in work') /\ ~(In(avail', d) /\ In(used', d))
               /\ ~(d \in work' /\ In(used', d))
               /\ IsHead(d)' =>
                    (buf'[req'[d].buf].disk <=> In(avail', d) \/ d \in work' \/ In(used', d))
    <3>1. CASE d = i
      BY <1>4, <1>6, <1>10, <1>12, <2>2, <2>3, <3>1
    <3>2. CASE d # i
      <4>1. IsHead(d)' <=> IsHead(d)
        BY <1>10, <3>2
      <4>2. IsHead(d) => buf'[req'[d].buf] = buf[req[d].buf]
        BY <1>6, <1>9, <1>10
      <4> QED
        BY <1>0, <1>12, <2>3, <3>2, <4>1, <4>2 DEF Stages
    <3> QED
      BY <3>1, <3>2
  <2>5. \A c \in Bufs : buf'[c].disk => \E d \in Descs : req'[d].buf = c
    <3> SUFFICES ASSUME NEW c \in Bufs, buf'[c].disk PROVE \E d \in Descs : req'[d].buf = c
      OBVIOUS
    <3>1. CASE c = b
      BY <1>4, <3>1
    <3>2. CASE c # b
      <4>1. PICK d \in Descs : req[d].buf = c
        BY <1>0, <1>6, <3>2 DEF Stages
      <4>2. IsHead(d)
        BY <4>1, Constants DEF IsHead
      <4> QED
        BY <1>10, <4>1, <4>2
    <3> QED
      BY <3>1, <3>2
  <2> QED
    BY <2>1, <2>4, <2>5 DEF Stages
<1>20. Transferred'
  BY <1>0, <1>2, <1>7, <1>9, <1>10, <1>12 DEF Transferred, SameData
<1>21. Clean'
  <2>1. \A c \in Bufs : Saved(c)' <=> Saved(c)
    BY <1>2, <1>7 DEF Saved, SameData, SameBlock
  <2>2. ASSUME NEW c \in Bufs, buf[c].valid, lock[c] # None,
               pc[lock[c]] \in {"have", "write", "written"}
        PROVE  pc'[lock[c]] \in {"have", "write", "written"}
    BY <1>0, <1>5, <2>2, HeldAlone DEF Moves, Waits
  <2> QED
    BY <1>0, <1>7, <2>1, <2>2 DEF Clean, SameValid
<1> QED
  BY <1>8, <1>13, <1>14, <1>15, <1>16, <1>17, <1>18, <1>19, <1>20, <1>21 DEF IInv

\* The transfer is over: the chain is freed, and what was read is valid.
LEMMA DiskDoneStep ==
  ASSUME IInv, NEW p \in Procs, DiskDone(p)
  PROVE  IInv'
<1>0. /\ TypeOK /\ LruFull /\ Counted /\ HasBuffer /\ LockHeld /\ ReadOnce
      /\ Requests /\ Chains /\ Stages /\ Transferred /\ Clean /\ Coherent
  BY DEF IInv
<1>w. pc[p] \in Waits
  BY DEF DiskDone, At, Waits
<1>b. PICK b \in Bufs, n \in Blocks : b = at[p] /\ n = buf[b].block
  BY <1>0, <1>w, HeldAlone DEF Waits
<1>1. /\ UNCHANGED <<lru, lock, at, avail, used_idx, intr, device, irq, latest, pinned>>
      /\ UNCHANGED <<disk, seen, work, used>>
      /\ ~buf[b].disk /\ lock[b] = p
      /\ buf' = [buf EXCEPT ![b].valid = buf[b].valid \/ pc[p] = "filled"]
      /\ pc' = [pc EXCEPT ![p] = "have"]
  BY <1>0, <1>w, <1>b DEF DiskDone, LockHeld, Holds, Waits, Goto, device
<1>h. PICK h \in Descs : h = Head0(p) /\ req[h].buf = b
  <2>1. \E d \in Descs : req[d].buf = at[p]
    BY <1>0, <1>w DEF Requests
  <2> QED
    BY <1>b, <2>1 DEF Head0
<1>2. /\ IsHead(h) /\ \A d \in Descs : IsHead(d) /\ d # h => req[d].buf # b
      /\ \A d \in Descs : IsHead(d) => req[d].buf \in Bufs
  BY <1>0, <1>h, Constants, Typed DEF IsHead, Requests
<1>3. Serves(h, p)
  <2>1. PICK q \in Procs : Serves(h, q) /\ at[q] = req[h].buf /\ lock[req[h].buf] = q
    BY <1>0, <1>2, RequestHeld
  <2> QED
    BY <1>1, <1>h, <2>1
<1>4. PICK j \in Descs, k \in Descs :
        /\ ChainOf(h) = {h, j, k} /\ j = desc[h].next /\ k = desc[j].next
  BY <1>0, <1>2, ChainHas
<1>5. /\ desc' = [d \in Descs |-> IF d \in ChainOf(h) THEN FreeDesc ELSE desc[d]]
      /\ req' = [req EXCEPT ![h] = NoRequest]
  BY <1>h DEF DiskDone, Chain
<1>6. /\ desc' \in [Descs -> [free : BOOLEAN, next : Descs \cup {None}]]
      /\ \A d \in ChainOf(h) : d \in Descs => desc'[d].free
      /\ \A d \in Descs : d \notin ChainOf(h) => desc'[d] = desc[d]
  <2>1. FreeDesc \in [free : BOOLEAN, next : Descs \cup {None}] /\ FreeDesc.free
    BY DEF FreeDesc
  <2> QED
    BY <1>0, <1>5, <2>1 DEF TypeOK
<1>7. /\ req' \in [Descs -> {NoRequest} \cup [buf : Bufs, write : BOOLEAN, block : Blocks]]
      /\ req'[h].buf = None /\ \A d \in Descs : d # h => req'[d] = req[d]
  BY <1>0, <1>5 DEF TypeOK, NoRequest
<1>8. /\ \A d \in Descs : IsHead(d)' <=> IsHead(d) /\ d # h
      /\ \A d \in Descs : IsHead(d)' => req'[d] = req[d] /\ req[d].buf # b
  BY <1>2, <1>7 DEF IsHead
<1>9. Moves(p, "have") /\ pc' \in [Procs -> {"idle", "lock", "unref"} \cup Holds]
  BY <1>0, <1>1 DEF TypeOK, Moves, Holds
<1>10. buf[b].valid \/ pc[p] = "filled"
  BY <1>0, <1>w, <1>b DEF ReadOnce, Waits
<1>11. /\ buf' \in [Bufs -> BufType]
       /\ \A c \in Bufs : c # b => buf'[c] = buf[c]
       /\ buf'[b].disk = buf[b].disk /\ buf'[b].refcnt = buf[b].refcnt
       /\ buf'[b].data = buf[b].data /\ buf'[b].block = buf[b].block /\ buf'[b].valid = TRUE
  <2> DEFINE e == [buf[b] EXCEPT !.valid = TRUE]
  <2>1. buf \in [Bufs -> BufType] /\ buf[b] \in BufType
    BY <1>0 DEF TypeOK
  <2>2. /\ e \in BufType /\ e.disk = buf[b].disk /\ e.block = buf[b].block
        /\ e.data = buf[b].data /\ e.valid = TRUE /\ e.refcnt = buf[b].refcnt
    BY <2>1 DEF BufType
  <2>3. (buf[b].valid \/ pc[p] = "filled") = TRUE
    BY <1>10
  <2>4. buf' = [buf EXCEPT ![b] = e]
    BY <1>1, <2>3
  <2> HIDE DEF e
  <2> QED
    BY <2>1, <2>2, <2>4, PutBuf
<1>12. SameBlock /\ SameData /\ SameCount /\ SameDisk
  BY <1>11 DEF SameBlock, SameData, SameCount, SameDisk
<1>13. LruFull' /\ Counted'
  BY <1>0, <1>1, <1>12, Kept
<1>14. TypeOK'
  BY <1>0, <1>1, <1>6, <1>7, <1>9, <1>11 DEF TypeOK
<1>15. HasBuffer'
  BY <1>0, <1>1, <1>9, <1>12, <1>w, Typed DEF HasBuffer, Moves, SameBlock, Waits
<1>16. LockHeld'
  BY <1>0, <1>1, <1>9, <1>w, LockKept DEF Moves, Waits, Holds
<1>17. ReadOnce'
  <2>1. \A q \in Procs : pc[q] \in Holds /\ q # p => at[q] \in Bufs /\ at[q] # b
    BY <1>0, <1>b, <1>w, HeldAlone DEF Holds, Waits
  <2>2. \A q \in Procs : /\ pc'[q] \in {"read", "filled"} => ~buf'[at'[q]].valid
                         /\ pc'[q] \in {"have", "write", "written"} => buf'[at'[q]].valid
    BY <1>0, <1>1, <1>b, <1>9, <1>11, <2>1 DEF ReadOnce, Moves, Holds
  <2>3. \A c \in Bufs : buf'[c].valid => buf'[c].block # None
    BY <1>0, <1>b, <1>11, Constants DEF ReadOnce
  <2> QED
    BY <2>2, <2>3, ZenonT(40) DEF ReadOnce
<1>18. Requests'
  <2>1. \A d \in Descs : IsHead(d)' => \E q \in Procs : Serves(d, q)'
    <3> SUFFICES ASSUME NEW d \in Descs, IsHead(d)' PROVE \E q \in Procs : Serves(d, q)'
      OBVIOUS
    <3>1. PICK q \in Procs : Serves(d, q)
      BY <1>0, <1>8 DEF Requests
    <3>2. req'[d] = req[d] /\ req[d].buf # b /\ req[d].buf \in Bufs
      BY <1>2, <1>8
    <3>3. q # p
      BY <1>b, <3>1, <3>2 DEF Serves
    <3> QED
      BY <1>1, <1>9, <1>12, <3>1, <3>2, <3>3 DEF Serves, Moves, SameBlock
  <2>2. \A q \in Procs : pc'[q] \in Waits => \E d \in Descs : req'[d].buf = at'[q]
    <3> SUFFICES ASSUME NEW q \in Procs, pc'[q] \in Waits
                 PROVE  \E d \in Descs : req'[d].buf = at'[q]
      OBVIOUS
    <3>1. q # p /\ pc[q] \in Waits
      BY <1>9 DEF Moves, Waits
    <3>2. at[q] # b
      BY <1>0, <1>b, <1>w, <3>1, HeldAlone DEF Waits, Holds
    <3>3. PICK d \in Descs : req[d].buf = at[q]
      BY <1>0, <3>1 DEF Requests
    <3> QED
      BY <1>1, <1>h, <1>7, <3>2, <3>3
  <2>3. \A d, e \in Descs : IsHead(d)' /\ req'[d].buf = req'[e].buf => d = e
    <3> SUFFICES ASSUME NEW d \in Descs, NEW e \in Descs, IsHead(d)',
                        req'[d].buf = req'[e].buf
                 PROVE  d = e
      OBVIOUS
    <3>1. IsHead(e)'
      BY DEF IsHead
    <3> QED
      BY <1>0, <1>8, <3>1 DEF Requests
  <2> QED
    BY <2>1, <2>2, <2>3 DEF Requests
<1>19. Chains'
  <2>1. ASSUME NEW d \in Descs, IsHead(d)'
        PROVE  /\ ChainOf(d)' = ChainOf(d) /\ ChainOf(d) \cap ChainOf(h) = {}
               /\ desc'[d].next = desc[d].next
               /\ desc'[desc[d].next].next = desc[desc[d].next].next
    <3>1. IsHead(d) /\ d # h
      BY <1>8, <2>1
    <3>2. ChainOf(d) \cap ChainOf(h) = {}
      BY <1>0, <1>2, <3>1 DEF Chains
    <3>3. PICK j2 \in Descs, k2 \in Descs :
            j2 = desc[d].next /\ k2 = desc[j2].next /\ ChainOf(d) = {d, j2, k2}
      BY <1>0, <3>1, ChainHas
    <3>4. desc'[d] = desc[d] /\ desc'[j2] = desc[j2]
      BY <1>6, <3>2, <3>3
    <3> QED
      BY <3>2, <3>3, <3>4 DEF ChainOf
  <2>2. \A d \in Descs : IsHead(d)' =>
          LET e == desc'[d].next IN
          LET f == desc'[e].next IN
          e \in Descs /\ f \in Descs /\ d # e /\ d # f /\ e # f
    BY <1>0, <1>8, <2>1 DEF Chains
  <2>3. \A d, e \in Descs : IsHead(d)' /\ IsHead(e)' /\ d # e =>
          ChainOf(d)' \cap ChainOf(e)' = {}
    BY <1>0, <1>8, <2>1 DEF Chains
  <2>4. \A d \in Descs : ~desc'[d].free <=> \E e \in Descs : IsHead(e)' /\ d \in ChainOf(e)'
    <3> SUFFICES ASSUME NEW d \in Descs
                 PROVE  ~desc'[d].free <=> \E e \in Descs : IsHead(e)' /\ d \in ChainOf(e)'
      OBVIOUS
    <3>1. CASE d \in ChainOf(h)
      BY <1>6, <2>1, <3>1
    <3>2. CASE d \notin ChainOf(h)
      <4>1. desc'[d].free <=> desc[d].free
        BY <1>6, <3>2
      <4>2. ~desc[d].free <=> \E e \in Descs : IsHead(e) /\ d \in ChainOf(e)
        BY <1>0 DEF Chains
      <4> QED
        BY <1>8, <2>1, <3>2, <4>1, <4>2
    <3> QED
      BY <3>1, <3>2
  <2> QED
    BY <2>2, <2>3, <2>4 DEF Chains
<1>20. ~In(avail, h) /\ h \notin work /\ ~In(used, h)
  BY <1>0, <1>1, <1>h, <1>2 DEF Stages
<1>21. Stages'
  <2>1. RingOK(avail', seen') /\ RingOK(used', used_idx')
    BY <1>0, <1>1 DEF Stages
  <2>2. ASSUME NEW d \in Descs
        PROVE  /\ In(avail', d) \/ d \in work' \/ In(used', d) => IsHead(d)'
               /\ ~(In(avail', d) /\ d \in work') /\ ~(In(avail', d) /\ In(used', d))
               /\ ~(d \in work' /\ In(used', d))
               /\ IsHead(d)' =>
                    (buf'[req'[d].buf].disk <=> In(avail', d) \/ d \in work' \/ In(used', d))
    <3>1. avail' = avail /\ work' = work /\ used' = used
      BY <1>1
    <3>2. IsHead(d)' => IsHead(d) /\ buf'[req'[d].buf].disk = buf[req[d].buf].disk
      BY <1>2, <1>8, <1>12 DEF SameDisk
    <3> QED
      BY <1>0, <1>8, <1>20, <3>1, <3>2 DEF Stages
  <2>3. \A c \in Bufs : buf'[c].disk => \E d \in Descs : req'[d].buf = c
    <3> SUFFICES ASSUME NEW c \in Bufs, buf'[c].disk PROVE \E d \in Descs : req'[d].buf = c
      OBVIOUS
    <3>1. c # b /\ buf[c].disk
      BY <1>1, <1>11
    <3>2. PICK d \in Descs : req[d].buf = c
      BY <1>0, <3>1 DEF Stages
    <3> QED
      BY <1>h, <1>7, <3>1, <3>2
  <2> QED
    BY <2>1, <2>2, <2>3 DEF Stages
<1>22. Transferred'
  BY <1>0, <1>1, <1>2, <1>8, <1>12 DEF Transferred, SameData
<1>23. Clean'
  <2>1. \A c \in Bufs : Saved(c)' <=> Saved(c)
    BY <1>1, <1>12 DEF Saved, SameData, SameBlock
  <2>2. ASSUME NEW c \in Bufs, c # b, lock[c] # None
        PROVE  pc'[lock[c]] = pc[lock[c]]
    BY <1>0, <1>b, <1>9, <2>2, HeldAlone DEF Moves, LockHeld
  <2>3. lock'[b] # None /\ pc'[lock'[b]] = "have"
    BY <1>1, <1>9, Constants DEF Moves
  <2> QED
    BY <1>0, <1>1, <1>11, <2>1, <2>2, <2>3 DEF Clean
<1>24. Coherent'
  <2>1. CASE buf[b].valid
    <3>1. SameValid
      BY <1>11, <2>1 DEF SameValid
    <3> QED
      BY <1>0, <1>1, <1>12, <3>1, Kept
  <2>2. CASE ~buf[b].valid
    <3>1. OneBuffer /\ OneBuffer'
      BY <1>0, <1>12 DEF Coherent, OneBuffer, SameBlock
    <3>2. \A c \in Bufs : c # b => buf[c].block # n
      BY <1>b, <3>1, Constants DEF OneBuffer
    <3>3. disk[n] = latest[n]
      BY <1>0, <2>2, <3>2, CoherentMeans, Constants
    <3>4. disk[n] = buf[b].data
      BY <1>0, <1>b, <1>h, <1>2, <1>3, <1>20 DEF Transferred, Serves
    <3>5. \A m \in Blocks : \A c \in Bufs :
            buf'[c].block = m /\ buf'[c].valid => buf'[c].data = latest'[m]
      <4> SUFFICES ASSUME NEW m \in Blocks, NEW c \in Bufs, buf'[c].block = m, buf'[c].valid
                   PROVE  buf'[c].data = latest'[m]
        OBVIOUS
      <4>1. latest' = latest
        BY <1>1
      <4>2. CASE c = b
        BY <1>b, <1>11, <3>3, <3>4, <4>1, <4>2
      <4>3. CASE c # b
        BY <1>0, <1>11, <4>1, <4>3, CoherentMeans, Constants
      <4> QED
        BY <4>2, <4>3
    <3>6. \A m \in Blocks :
            (\A c \in Bufs : buf'[c].block = m => ~buf'[c].valid) => disk'[m] = latest'[m]
      BY <1>0, <1>1, <1>11, <2>2, CoherentMeans, Constants
    <3> QED
      BY <3>1, <3>5, <3>6, Constants DEF Coherent, OneBuffer, Cached
  <2> QED
    BY <2>1, <2>2
<1> QED
  BY <1>13, <1>14, <1>15, <1>16, <1>17, <1>18, <1>19, <1>21, <1>22, <1>23, <1>24 DEF IInv

------------------------------------------------------------------------------
(* The device and the interrupt handler *)

\* A request goes from the ring into the hands of the device.
LEMMA FetchStep ==
  ASSUME IInv, Fetch
  PROVE  IInv'
<1>0. /\ TypeOK /\ LruFull /\ Counted /\ HasBuffer /\ LockHeld /\ ReadOnce
      /\ Requests /\ Chains /\ Stages /\ Transferred /\ Clean /\ Coherent
  BY DEF IInv
<1>1. UNCHANGED <<buf, lru, lock, pc, at, desc, req, used_idx, intr, disk, used, irq,
                  latest, pinned>>
  BY DEF Fetch, cache
<1>2. avail \in RingType /\ seen \in 0 .. UINT16 - 1 /\ RingOK(avail, seen)
      /\ seen # avail.idx
  BY <1>0 DEF TypeOK, RingType, Stages, Fetch
<1> DEFINE x == avail.ring[Slot(seen)]
           A == [ring |-> [avail.ring EXCEPT ![Slot(seen)] = None], idx |-> avail.idx]
<1>3. avail' = A /\ seen' = Next16(seen) /\ work' = work \cup {x}
  BY <1>2 DEF Fetch, RingType, Slot, Next16
<1>4. /\ x \in Descs /\ In(avail, x) /\ Next16(seen) \in 0 .. UINT16 - 1
      /\ A \in RingType /\ RingOK(A, Next16(seen))
      /\ \A d \in Descs : In(A, d) <=> In(avail, d) /\ d # x
  BY <1>2, RingTake
<1>x. PICK h \in Descs : h = x
  BY <1>4
<1>5. /\ In(avail, h) /\ work' = work \cup {h} /\ avail' \in RingType
      /\ seen' \in 0 .. UINT16 - 1 /\ RingOK(avail', seen')
      /\ \A d \in Descs : In(avail', d) <=> In(avail, d) /\ d # h
  BY <1>3, <1>4, <1>x
<1> HIDE DEF x, A
<1>6. SameBlock /\ SameValid /\ SameCount /\ SameData /\ SameDisk
  BY <1>1 DEF SameBlock, SameValid, SameCount, SameData, SameDisk
<1>7. /\ LruFull' /\ Counted' /\ HasBuffer' /\ LockHeld' /\ ReadOnce' /\ Requests' /\ Chains'
      /\ Clean' /\ Coherent'
  BY <1>0, <1>1, <1>6, Kept
<1>8. TypeOK'
  BY <1>0, <1>1, <1>5 DEF TypeOK, RingType
<1>9. \A d \in Descs : IsHead(d)' <=> IsHead(d)
  BY <1>1 DEF IsHead
<1>10. Stages'
  <2>1. RingOK(avail', seen') /\ RingOK(used', used_idx')
    BY <1>0, <1>1, <1>5 DEF Stages
  <2>2. ASSUME NEW d \in Descs
        PROVE  /\ In(avail', d) \/ d \in work' \/ In(used', d) => IsHead(d)'
               /\ ~(In(avail', d) /\ d \in work') /\ ~(In(avail', d) /\ In(used', d))
               /\ ~(d \in work' /\ In(used', d))
               /\ IsHead(d)' =>
                    (buf'[req'[d].buf].disk <=> In(avail', d) \/ d \in work' \/ In(used', d))
    <3>1. buf' = buf /\ req' = req /\ used' = used
      BY <1>1
    <3> QED
      BY <1>0, <1>5, <1>9, <3>1 DEF Stages
  <2>3. \A c \in Bufs : buf'[c].disk => \E d \in Descs : req'[d].buf = c
    BY <1>0, <1>1 DEF Stages
  <2> QED
    BY <2>1, <2>2, <2>3 DEF Stages
<1>11. Transferred'
  BY <1>0, <1>1, <1>5, <1>9 DEF Transferred
<1> QED
  BY <1>7, <1>8, <1>10, <1>11 DEF IInv

\* The device moves the data of a request it has in hand.
LEMMA CompleteStep ==
  ASSUME IInv, Complete
  PROVE  IInv'
<1>0. /\ TypeOK /\ LruFull /\ Counted /\ HasBuffer /\ LockHeld /\ ReadOnce
      /\ Requests /\ Chains /\ Stages /\ Transferred /\ Clean /\ Coherent
  BY DEF IInv
<1>1. PICK h \in work :
        /\ IF req[h].write
           THEN disk' = [disk EXCEPT ![req[h].block] = buf[req[h].buf].data] /\ UNCHANGED buf
           ELSE buf' = [buf EXCEPT ![req[h].buf].data = disk[req[h].block]] /\ UNCHANGED disk
        /\ work' = work \ {h}
        /\ used' = [ring |-> [used.ring EXCEPT ![Slot(used.idx)] = h],
                    idx |-> Next16(used.idx)]
  BY DEF Complete, Slot, Next16
<1>2. /\ UNCHANGED <<lru, lock, pc, at, desc, req, avail, used_idx, intr, seen, latest, pinned>>
      /\ irq' = TRUE
  BY DEF Complete, ring
<1>3. h \in Descs /\ IsHead(h) /\ ~In(avail, h) /\ ~In(used, h)
  BY <1>0 DEF TypeOK, Stages
<1>b. PICK b \in Bufs, n \in Blocks, q \in Procs :
        /\ b = req[h].buf /\ n = req[h].block /\ n = buf[b].block
        /\ at[q] = b /\ lock[b] = q /\ pc[q] \in Waits
        /\ req[h].write = (pc[q] = "written")
  BY <1>0, <1>3, RequestHeld, Typed DEF Serves
<1>4. /\ \A d \in Descs : IsHead(d) /\ d # h =>
           req[d].buf # b /\ req[d].buf \in Bufs /\ req[d].block # n
      /\ \A d \in Descs : IsHead(d)' <=> IsHead(d)
      /\ OneBuffer /\ \A c \in Bufs : c # b => buf[c].block # n
  <2>1. OneBuffer /\ \A c \in Bufs : c # b => buf[c].block # n
    BY <1>0, <1>b, Constants DEF Coherent, OneBuffer
  <2>2. ASSUME NEW d \in Descs, IsHead(d), d # h
        PROVE  req[d].buf # b /\ req[d].buf \in Bufs /\ req[d].block # n
    <3>1. req[d].buf # b /\ req[d].buf \in Bufs
      BY <1>0, <1>3, <1>b, <2>2, Typed DEF Requests
    <3>2. PICK r \in Procs : Serves(d, r)
      BY <1>0, <2>2 DEF Requests
    <3> QED
      BY <2>1, <3>1, <3>2 DEF Serves
  <2>3. \A d \in Descs : IsHead(d)' <=> IsHead(d)
    BY <1>2 DEF IsHead
  <2> QED
    BY <2>1, <2>2, <2>3
\* The ring has room: the descriptor that follows h is in no request.
<1>5. /\ used' \in RingType /\ RingOK(used', used_idx)
      /\ \A d \in Descs : In(used', d) <=> In(used, d) \/ d = h
  <2>1. used \in RingType /\ used_idx \in 0 .. UINT16 - 1 /\ RingOK(used, used_idx)
    BY <1>0 DEF TypeOK, RingType, Stages
  <2>2. PICK j \in Descs : j # h /\ j \in ChainOf(h)
    BY <1>0, <1>3, ChainHas
  <2>3. ~IsHead(j)
    <3>1. j \in ChainOf(j)
      BY DEF ChainOf
    <3> QED
      BY <1>0, <1>3, <2>2, <3>1 DEF Chains
  <2>4. ~In(used, j)
    BY <1>0, <2>3 DEF Stages
  <2>5. Succ(Slot(used.idx)) # Slot(used_idx)
    BY <1>3, <2>1, <2>2, <2>4, RingHasRoom
  <2> QED
    BY <1>1, <1>3, <2>1, <2>5, RingPut
\* The data of the request's buffer is moved, and no other.
<1>6. /\ buf' \in [Bufs -> BufType] /\ disk' \in [Blocks -> Data]
      /\ SameBlock /\ SameValid /\ SameCount /\ SameDisk
      /\ \A c \in Bufs : c # b => buf'[c] = buf[c]
      /\ \A m \in Blocks : m # n => disk'[m] = disk[m]
      /\ disk'[n] = buf'[b].data
      /\ IF pc[q] = "written" THEN buf' = buf ELSE disk' = disk /\ ~buf[b].valid
  <2>1. CASE pc[q] = "written"
    <3>1. disk' = [disk EXCEPT ![n] = buf[b].data] /\ buf' = buf
      BY <1>1, <1>b, <2>1
    <3>2. SameBlock /\ SameValid /\ SameCount /\ SameDisk
      BY <3>1 DEF SameBlock, SameValid, SameCount, SameDisk
    <3>3. disk \in [Blocks -> Data] /\ buf[b].data \in Data /\ buf \in [Bufs -> BufType]
      BY <1>0, Typed DEF TypeOK
    <3> QED
      BY <2>1, <3>1, <3>2, <3>3
  <2>2. CASE pc[q] # "written"
    <3> DEFINE e == [buf[b] EXCEPT !.data = disk[n]]
    <3>1. buf' = [buf EXCEPT ![b] = e] /\ disk' = disk
      BY <1>1, <1>b, <2>2
    <3>2. buf \in [Bufs -> BufType] /\ buf[b] \in BufType /\ disk \in [Blocks -> Data]
      BY <1>0 DEF TypeOK
    <3>3. /\ e \in BufType /\ e.data = disk[n] /\ e.block = buf[b].block
          /\ e.refcnt = buf[b].refcnt /\ e.valid = buf[b].valid /\ e.disk = buf[b].disk
      BY <3>2 DEF BufType
    <3> HIDE DEF e
    <3>4. /\ buf' \in [Bufs -> BufType] /\ buf'[b] = e
          /\ \A c \in Bufs : c # b => buf'[c] = buf[c]
      BY <3>1, <3>2, <3>3, PutBuf
    <3>5. SameBlock /\ SameValid /\ SameCount /\ SameDisk
      BY <3>3, <3>4 DEF SameBlock, SameValid, SameCount, SameDisk
    <3>6. ~buf[b].valid
      BY <1>0, <1>b, <2>2 DEF ReadOnce, Waits
    <3> QED
      BY <2>2, <3>1, <3>2, <3>3, <3>4, <3>5, <3>6
  <2> QED
    BY <2>1, <2>2
<1>7. LruFull' /\ Counted' /\ HasBuffer' /\ LockHeld' /\ ReadOnce' /\ Requests' /\ Chains'
  BY <1>0, <1>2, <1>6, Kept
<1>8. TypeOK'
  BY <1>0, <1>1, <1>2, <1>5, <1>6 DEF TypeOK, RingType
<1>9. Stages'
  <2>1. RingOK(avail', seen') /\ RingOK(used', used_idx')
    BY <1>0, <1>2, <1>5 DEF Stages
  <2>2. ASSUME NEW d \in Descs
        PROVE  /\ In(avail', d) \/ d \in work' \/ In(used', d) => IsHead(d)'
               /\ ~(In(avail', d) /\ d \in work') /\ ~(In(avail', d) /\ In(used', d))
               /\ ~(d \in work' /\ In(used', d))
               /\ IsHead(d)' =>
                    (buf'[req'[d].buf].disk <=> In(avail', d) \/ d \in work' \/ In(used', d))
    <3>1. req' = req /\ avail' = avail /\ work' = work \ {h}
      BY <1>1, <1>2
    <3>2. IsHead(d) => buf'[req[d].buf].disk = buf[req[d].buf].disk
      BY <1>0, <1>6, Typed DEF SameDisk
    <3> QED
      BY <1>0, <1>3, <1>4, <1>5, <3>1, <3>2 DEF Stages
  <2>3. \A c \in Bufs : buf'[c].disk => \E d \in Descs : req'[d].buf = c
    BY <1>0, <1>2, <1>6 DEF Stages, SameDisk
  <2> QED
    BY <2>1, <2>2, <2>3 DEF Stages
<1>10. Transferred'
  <2> SUFFICES ASSUME NEW d \in Descs, IsHead(d), ~In(avail, d), d \notin work \ {h}
               PROVE  disk'[req[d].block] = buf'[req[d].buf].data
    BY <1>1, <1>2, <1>4 DEF Transferred
  <2>1. CASE d = h
    BY <1>b, <1>6, <2>1
  <2>2. CASE d # h
    <3>1. disk[req[d].block] = buf[req[d].buf].data
      BY <1>0, <2>2 DEF Transferred
    <3>2. req[d].block \in Blocks
      BY <1>0, Typed
    <3> QED
      BY <1>4, <1>6, <2>2, <3>1, <3>2
  <2> QED
    BY <2>1, <2>2
<1>11. Clean'
  <2> SUFFICES ASSUME NEW c \in Bufs, buf'[c].valid
               PROVE  Saved(c)' \/ (lock[c] # None /\ pc[lock[c]] \in {"have", "write", "written"})
    BY <1>2 DEF Clean
  <2>1. buf[c].valid /\ buf'[c].block = buf[c].block
    BY <1>6 DEF SameValid, SameBlock
  <2>2. CASE c = b
    BY <1>b, <1>6, <2>2 DEF Saved, SameBlock
  <2>3. CASE c # b
    <3>1. buf[c].block \in Blocks
      BY <1>0, <2>1, Typed DEF ReadOnce
    <3>2. Saved(c)' <=> Saved(c)
      BY <1>2, <1>4, <1>6, <2>3, <3>1 DEF Saved
    <3> QED
      BY <1>0, <2>1, <3>2 DEF Clean
  <2> QED
    BY <2>2, <2>3
<1>12. Coherent'
  <2>1. OneBuffer'
    BY <1>4, <1>6 DEF OneBuffer, SameBlock
  <2>2. \A m \in Blocks : \A c \in Bufs :
          buf'[c].block = m /\ buf'[c].valid => buf'[c].data = latest'[m]
    <3> SUFFICES ASSUME NEW m \in Blocks, NEW c \in Bufs, buf'[c].block = m, buf'[c].valid
                 PROVE  buf'[c].data = latest'[m]
      OBVIOUS
    <3>1. buf[c].block = m /\ buf[c].valid /\ latest' = latest
      BY <1>2, <1>6 DEF SameBlock, SameValid
    <3>2. buf[c].data = latest[m]
      BY <1>0, <3>1, CoherentMeans, Constants
    <3>3. buf'[c] = buf[c]
      BY <1>6, <3>1
    <3> QED
      BY <3>1, <3>2, <3>3
  <2>3. ASSUME NEW m \in Blocks, \A c \in Bufs : buf'[c].block = m => ~buf'[c].valid
        PROVE  disk'[m] = latest'[m]
    <3>1. \A c \in Bufs : buf[c].block = m => ~buf[c].valid
      BY <1>6, <2>3 DEF SameBlock, SameValid
    <3>2. disk[m] = latest[m] /\ latest' = latest
      BY <1>0, <1>2, <3>1, CoherentMeans, Constants
    <3>3. disk'[m] = disk[m]
      <4>1. CASE pc[q] = "written"
        <5>1. buf[b].valid
          BY <1>0, <1>b, <4>1 DEF ReadOnce
        <5>2. m # n
          BY <1>b, <3>1, <5>1
        <5> QED
          BY <1>6, <5>2
      <4>2. CASE pc[q] # "written"
        BY <1>6, <4>2
      <4> QED
        BY <4>1, <4>2
    <3> QED
      BY <3>2, <3>3
  <2> QED
    BY <2>1, <2>2, <2>3, Constants DEF Coherent, OneBuffer, Cached
<1> QED
  BY <1>7, <1>8, <1>9, <1>10, <1>11, <1>12 DEF IInv

\* The interrupt handler takes an entry: the disk no longer has the buffer.
LEMMA IntrEntryStep ==
  ASSUME IInv, IntrEntry
  PROVE  IInv'
<1>0. /\ TypeOK /\ LruFull /\ Counted /\ HasBuffer /\ LockHeld /\ ReadOnce
      /\ Requests /\ Chains /\ Stages /\ Transferred /\ Clean /\ Coherent
  BY DEF IInv
<1>1. UNCHANGED <<lru, lock, pc, at, desc, req, avail, intr, disk, seen, work, irq,
                  latest, pinned>>
  BY DEF IntrEntry
<1>2. used \in RingType /\ used_idx \in 0 .. UINT16 - 1 /\ RingOK(used, used_idx)
      /\ used_idx # used.idx
  BY <1>0 DEF TypeOK, RingType, Stages, IntrEntry
<1> DEFINE x == used.ring[Slot(used_idx)]
           A == [ring |-> [used.ring EXCEPT ![Slot(used_idx)] = None], idx |-> used.idx]
<1>3. /\ used' = A /\ used_idx' = Next16(used_idx)
      /\ buf' = [buf EXCEPT ![req[x].buf].disk = FALSE]
  BY <1>2 DEF IntrEntry, RingType, Slot, Next16
<1>4. /\ x \in Descs /\ In(used, x) /\ Next16(used_idx) \in 0 .. UINT16 - 1
      /\ A \in RingType /\ RingOK(A, Next16(used_idx))
      /\ \A d \in Descs : In(A, d) <=> In(used, d) /\ d # x
  BY <1>2, RingTake
<1>h. PICK h \in Descs : h = x
  BY <1>4
<1>5. /\ In(used, h) /\ used' \in RingType /\ buf' = [buf EXCEPT ![req[h].buf].disk = FALSE]
      /\ used_idx' \in 0 .. UINT16 - 1 /\ RingOK(used', used_idx')
      /\ \A d \in Descs : In(used', d) <=> In(used, d) /\ d # h
  BY <1>3, <1>4, <1>h
<1> HIDE DEF x, A
<1>6. IsHead(h) /\ ~In(avail, h) /\ h \notin work
  BY <1>0, <1>5 DEF Stages
<1>b. PICK b \in Bufs : b = req[h].buf
  BY <1>0, <1>6, Typed
<1>7. /\ buf' \in [Bufs -> BufType]
      /\ \A c \in Bufs : c # b => buf'[c] = buf[c]
      /\ buf'[b].disk = FALSE /\ buf'[b].refcnt = buf[b].refcnt /\ buf'[b].data = buf[b].data
      /\ buf'[b].block = buf[b].block /\ buf'[b].valid = buf[b].valid
  <2> DEFINE e == [buf[b] EXCEPT !.disk = FALSE]
  <2>1. buf \in [Bufs -> BufType] /\ buf[b] \in BufType
    BY <1>0 DEF TypeOK
  <2>2. /\ e \in BufType /\ e.disk = FALSE /\ e.block = buf[b].block /\ e.data = buf[b].data
        /\ e.valid = buf[b].valid /\ e.refcnt = buf[b].refcnt
    BY <2>1 DEF BufType
  <2>3. buf' = [buf EXCEPT ![b] = e]
    BY <1>5, <1>b
  <2> HIDE DEF e
  <2> QED
    BY <2>1, <2>2, <2>3, PutBuf
<1>8. SameBlock /\ SameValid /\ SameCount /\ SameData
  BY <1>7 DEF SameBlock, SameValid, SameCount, SameData
<1>9. /\ LruFull' /\ Counted' /\ HasBuffer' /\ LockHeld' /\ ReadOnce' /\ Requests' /\ Chains'
      /\ Transferred' /\ Clean' /\ Coherent'
  BY <1>0, <1>1, <1>8, Kept
<1>10. TypeOK'
  BY <1>0, <1>1, <1>5, <1>7 DEF TypeOK, RingType
<1>11. /\ \A d \in Descs : IsHead(d)' <=> IsHead(d)
       /\ \A d \in Descs : IsHead(d) /\ d # h => req[d].buf # b /\ req[d].buf \in Bufs
  BY <1>0, <1>1, <1>6, <1>b, Typed DEF IsHead, Requests
<1>12. Stages'
  <2>1. RingOK(avail', seen') /\ RingOK(used', used_idx')
    BY <1>0, <1>1, <1>5 DEF Stages
  <2>2. ASSUME NEW d \in Descs
        PROVE  /\ In(avail', d) \/ d \in work' \/ In(used', d) => IsHead(d)'
               /\ ~(In(avail', d) /\ d \in work') /\ ~(In(avail', d) /\ In(used', d))
               /\ ~(d \in work' /\ In(used', d))
               /\ IsHead(d)' =>
                    (buf'[req'[d].buf].disk <=> In(avail', d) \/ d \in work' \/ In(used', d))
    <3>1. req' = req /\ avail' = avail /\ work' = work
      BY <1>1
    <3>2. CASE d = h
      BY <1>b, <1>5, <1>6, <1>7, <1>11, <3>1, <3>2
    <3>3. CASE d # h
      <4>1. IsHead(d) => buf'[req[d].buf] = buf[req[d].buf]
        BY <1>7, <1>11, <3>3
      <4> QED
        BY <1>0, <1>5, <1>11, <3>1, <3>3, <4>1 DEF Stages
    <3> QED
      BY <3>2, <3>3
  <2>3. \A c \in Bufs : buf'[c].disk => \E d \in Descs : req'[d].buf = c
    BY <1>0, <1>1, <1>7 DEF Stages
  <2> QED
    BY <2>1, <2>2, <2>3 DEF Stages
<1> QED
  BY <1>9, <1>10, <1>12 DEF IInv

------------------------------------------------------------------------------
(* The theorems *)

\* Every step keeps the invariant.
LEMMA StepKeeps == IInv /\ [Next]_vars => IInv'
<1> SUFFICES ASSUME IInv, [Next]_vars PROVE IInv'
  OBVIOUS
<1>0. irq \in BOOLEAN /\ intr \in BOOLEAN
  BY DEF IInv, TypeOK
<1>1. CASE Fetch
  BY <1>1, FetchStep
<1>2. CASE Complete
  BY <1>2, CompleteStep
<1>3. CASE IntrAck
  BY <1>3, QuietStep DEF IntrAck, device
<1>4. CASE IntrEntry
  BY <1>4, IntrEntryStep
<1>5. CASE IntrEnd
  BY <1>0, <1>5, QuietStep DEF IntrEnd, device
<1>6. ASSUME NEW p \in Procs, Transfer(p) PROVE IInv'
  <2>1. CASE AcquireSleep(p)
    BY <2>1, AcquireSleepStep
  <2>2. CASE DiskRw(p)
    <3>1. pc[p] \in {"read", "write"}
          /\ UNCHANGED <<lru, lock, at, used_idx, intr, device, irq, latest, pinned>>
      BY <2>2 DEF DiskRw, At
    <3>2. CASE NoDescriptors(p)
      BY <1>0, <3>1, <3>2, QuietStep DEF NoDescriptors, cache, device
    <3>3. CASE Submit(p)
      BY <3>1, <3>3, SubmitStep
    <3> QED
      BY <2>2, <3>2, <3>3 DEF DiskRw
  <2>3. CASE DiskDone(p)
    BY <2>3, DiskDoneStep
  <2>4. CASE Unref(p)
    BY <2>4, UnrefStep
  <2> QED
    BY <1>6, <2>1, <2>2, <2>3, <2>4 DEF Transfer
<1>7. ASSUME NEW p \in Procs, Use(p) PROVE IInv'
  <2>1. CASE \E n \in Blocks : Bget(p, n)
    BY <2>1, BgetStep
  <2>2. CASE Change(p)
    BY <2>2, ChangeStep
  <2>3. CASE Bpin(p) \/ Bunpin(p)
    BY <2>3, PinStep
  <2>4. CASE Bwrite(p)
    BY <2>4, BwriteStep
  <2>5. CASE Brelse(p)
    BY <2>5, BrelseStep
  <2> QED
    BY <1>7, <2>1, <2>2, <2>3, <2>4, <2>5 DEF Use
<1>8. CASE UNCHANGED vars
  BY <1>0, <1>8, QuietStep DEF vars, cache, ring, device
<1> QED
  BY <1>1, <1>2, <1>3, <1>4, <1>5, <1>6, <1>7, <1>8 DEF Next, Interrupt

\* The cache, the locks, the requests, the chains and the rings fit together in every
\* state the system reaches: what bget, brelse, virtio_disk_rw and virtio_disk_intr each
\* rely on the others for.
THEOREM Invariance == Spec => []IInv
<1>1. Init => IInv
  BY Initially
<1>2. IInv /\ [Next]_vars => IInv'
  BY StepKeeps
<1> QED
  BY <1>1, <1>2, PTL DEF Spec

\* Every variable but chan has its type: a count is never below zero, an index of a ring
\* fits, a holder of a buffer has one (brelse, virtio_disk_rw, virtio_disk_intr).
THEOREM TypeCorrect == Spec => []TypeOK
<1>1. IInv => TypeOK
  BY DEF IInv
<1> QED
  BY <1>1, Invariance, PTL

\* Whoever gets a block gets what was last put into it, from the cache or from the disk
\* (bget, bread, brelse; virtio_disk_rw).
THEOREM BlocksCoherent == Spec => []Coherent
<1>1. IInv => Coherent
  BY DEF IInv
<1> QED
  BY <1>1, Invariance, PTL

\* A descriptor is free or in the chain of exactly one process that waits for its
\* transfer: free_desc never panics and no descriptor is lost (alloc3_desc, free_chain).
THEOREM DescriptorsKept == Spec => []DescriptorsExact
<1>1. IInv => DescriptorsExact
  <2> SUFFICES ASSUME IInv PROVE DescriptorsExact
    OBVIOUS
  <2>0. TypeOK /\ HasBuffer /\ LockHeld /\ Requests /\ Chains
    BY DEF IInv
  <2> DEFINE Waiting == { p \in Procs : pc[p] \in {"filled", "written"} }
  <2>1. \A p \in Waiting : Head0(p) \in Descs /\ req[Head0(p)].buf = at[p] /\ IsHead(Head0(p))
    <3> SUFFICES ASSUME NEW p \in Waiting
                 PROVE  Head0(p) \in Descs /\ req[Head0(p)].buf = at[p] /\ IsHead(Head0(p))
      OBVIOUS
    <3>1. p \in Procs /\ pc[p] \in Waits /\ at[p] \in Bufs
      BY <2>0, HeldAlone DEF Waits
    <3>2. \E d \in Descs : req[d].buf = at[p]
      BY <2>0, <3>1 DEF Requests
    <3>3. Head0(p) \in Descs /\ req[Head0(p)].buf = at[p]
      BY <3>2 DEF Head0
    <3> QED
      BY <3>1, <3>3, Constants DEF IsHead
  <2>2. \A d \in Descs : IsHead(d) => \E p \in Waiting : d = Head0(p)
    <3> SUFFICES ASSUME NEW d \in Descs, IsHead(d) PROVE \E p \in Waiting : d = Head0(p)
      OBVIOUS
    <3>1. PICK p \in Procs : Serves(d, p)
      BY <2>0 DEF Requests
    <3>2. p \in Waiting /\ at[p] = req[d].buf
      BY <3>1 DEF Serves, Waits
    <3>3. d = Head0(p)
      BY <2>0, <2>1, <3>2 DEF Requests
    <3> QED
      BY <3>2, <3>3
  <2>3. \A p, q \in Waiting : p # q => Head0(p) # Head0(q)
    BY <2>0, <2>1, HeldAlone DEF Holds
  <2>4. \A p, q \in Waiting : p # q => ChainOf(Head0(p)) \cap ChainOf(Head0(q)) = {}
    BY <2>0, <2>1, <2>3 DEF Chains
  <2>5. \A d \in Descs : ~desc[d].free <=> \E p \in Waiting : d \in ChainOf(Head0(p))
    BY <2>0, <2>1, <2>2 DEF Chains
  <2>6. FreeDescs = Descs \ UNION { ChainOf(Head0(p)) : p \in Waiting }
    BY <2>5 DEF FreeDescs
  <2> QED
    BY <2>4, <2>6 DEF DescriptorsExact
<1> QED
  BY <1>1, Invariance, PTL

================================================================================
