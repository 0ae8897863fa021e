------------------------------ MODULE FilesProofs ------------------------------
(***************************************************************************)
(* Theorems about open files and pipes, for any numbers of processes,      *)
(* files, descriptors and pages and pipes of any size.                     *)
(***************************************************************************)
EXTENDS Files, ListLemmas, FiniteSetTheorems

Labels == {"none", "user", "close", "close_last", "pipe_file", "pipe_page",
           "read", "write", "fork", "new", "gone"}

FileType == {FreeFile, InodeFile} \cup { PipeFile(g, e) : g \in Pages, e \in Ends }

PipeType == [ends : SUBSET Ends, data : [Cells -> Bytes \cup {Junk}],
             nread : 0 .. UINT - 1, nwrite : 0 .. UINT - 1, untold : BOOLEAN]

IoType == [pipe : Pages \cup {NoPage}, left : Seq(Bytes), n : Nat, done : Nat]

Chans == {"nread", "nwrite"} \X Pages

\* What a call returns plays no part here: out has no type.
TypeOK ==
  /\ ofile \in [Procs -> [FDs -> Fs \cup {NoFile}]]
  /\ ref \in [Fs -> Nat] /\ file \in [Fs -> FileType] /\ iref \in Nat
  /\ pipe \in [Pages -> PipeType]
  /\ pc \in [Procs -> Labels]
  /\ io \in [Procs -> IoType]
  /\ todo \in [Procs -> Seq(Fs)] /\ last \in [Procs -> FileType]
  /\ child \in [Procs -> Procs]
  /\ exiting \subseteq Procs /\ killed \subseteq Procs /\ failed \subseteq Procs
  /\ chan \in [Procs -> {NoChan} \cup Chans]

\* The files a process has to close, or has allocated for a pipe.
Half == {"pipe_file", "pipe_page"}
TodoRight(p) ==
  /\ todo[p] # <<>> => pc[p] \in {"close", "close_last"} \cup Half
  /\ pc[p] = "close" => todo[p] # <<>>
  /\ pc[p] = "pipe_file" => Len(todo[p]) = 1
  /\ pc[p] = "pipe_page" => Len(todo[p]) = 2 /\ todo[p][1] # todo[p][2]

\* A file that is half made has this one reference, and is nothing yet.
HalfMade(p) ==
  pc[p] \in Half =>
    \A i \in DOMAIN todo[p] : ref[todo[p][i]] = 1 /\ file[todo[p][i]] = FreeFile

LastRight(p) == last[p] # FreeFile <=> pc[p] = "close_last"

\* A process that reads or writes has the end of the pipe open all the time.
CallRight(p) ==
  /\ pc[p] \notin Ends => io[p] = NoCall
  /\ pc[p] \in Ends =>
       /\ io[p].pipe \in Pages
       /\ \E d \in FDs : /\ ofile[p][d] # NoFile
                         /\ file[ofile[p][d]] = PipeFile(io[p].pipe, pc[p])

\* A slot that is not in use has no descriptors, nor has a process that exits.
EmptyHanded(p) ==
  /\ pc[p] \in {"none", "gone"} \/ p \in exiting => ofile[p] = NoFiles
  /\ p \in exiting => pc[p] \in {"close", "close_last", "gone"}

\* What holds of each process by itself.
Fine(p) == TodoRight(p) /\ HalfMade(p) /\ LastRight(p) /\ CallRight(p) /\ EmptyHanded(p)

\* fork fills the table of a child that is nobody else's and does not run.
Forks ==
  /\ \A p \in Procs : pc[p] = "fork" =>
       /\ pc[child[p]] = "new"
       /\ \A d \in FDs : ofile[child[p]][d] \in {ofile[p][d], NoFile}
  /\ \A p, q \in Procs : pc[p] = "fork" /\ pc[q] = "fork" /\ child[p] = child[q] => p = q

\* A slot of the table without references is free.
FreeClean == \A f \in Fs : ref[f] = 0 => file[f] = FreeFile

Ring == \A g \in Pages : Fill(pipe[g]) <= PIPESIZE

\* SleepersHaveReason, and a reader sleeps only while there are writers to wait for.
Sleeps ==
  \A p \in Procs :
    chan[p] # NoChan =>
      LET pi == pipe[chan[p][2]] IN
      /\ chan[p][1] = "nwrite" => Full(pi) /\ "read" \in pi.ends
      /\ chan[p][1] = "nread" => "write" \in pi.ends /\ (Empty(pi) \/ pi.untold)

IInv ==
  /\ TypeOK /\ (\A p \in Procs : Fine(p)) /\ Forks /\ FreeClean
  /\ RefsExact /\ EndsExact /\ Ring /\ Sleeps

------------------------------------------------------------------------------
(* Numbers *)

LEMMA Constants ==
  /\ PIPESIZE \in Nat \ {0} /\ UINT \in Nat /\ UINT > PIPESIZE /\ UINT % PIPESIZE = 0
  /\ NFILE \in Nat \ {0} /\ NOFILE \in Nat \ {0} /\ NoProc \notin Procs
  /\ IsFiniteSet(Procs) /\ IsFiniteSet(Fs) /\ IsFiniteSet(FDs)
  /\ Fs \subseteq Nat /\ FDs \subseteq Nat /\ NoFile \notin Fs /\ NoFile = 0
<1>1. IsFiniteSet(Fs)
  <2>1. NFILE \in Int /\ 1 \in Int
    BY FilesAssumption DEF FilesAssumption
  <2> QED
    BY <2>1, FS_Interval, Zenon DEF Fs
<1>2. IsFiniteSet(FDs)
  <2>1. NOFILE - 1 \in Int /\ 0 \in Int
    BY FilesAssumption DEF FilesAssumption
  <2> QED
    BY <2>1, FS_Interval, Zenon DEF FDs
<1> QED
  BY <1>1, <1>2, FilesAssumption DEF FilesAssumption, Fs, FDs, NoFile

\* A remainder is the only one.
LEMMA RemainderIs ==
  ASSUME NEW n \in Nat \ {0}, NEW q \in Int, NEW r \in 0 .. n - 1, NEW x \in Int, x = n * q + r
  PROVE  x % n = r
<1> DEFINE q1 == x \div n
           r1 == x % n
<1>1. x = n * q1 + r1 /\ q1 \in Int /\ r1 \in 0 .. n - 1
  OBVIOUS
<1> HIDE DEF q1, r1
<1>2. CASE q1 < q
  <2>1. q - q1 >= 1 /\ q - q1 \in Nat
    BY <1>1, <1>2
  <2>2. n * (q - q1) >= n
    BY <2>1
  <2>3. n * q1 + n <= n * q
    BY <1>1, <2>2
  <2> QED
    BY <1>1, <2>3
<1>3. CASE q < q1
  <2>1. q1 - q >= 1 /\ q1 - q \in Nat
    BY <1>1, <1>3
  <2>2. n * (q1 - q) >= n
    BY <2>1
  <2>3. n * q + n <= n * q1
    BY <1>1, <2>2
  <2> QED
    BY <1>1, <2>3
<1>4. CASE q1 = q
  <2>1. n * q + r1 = n * q + r /\ n * q \in Int
    BY <1>1, <1>4
  <2> QED
    BY <1>1, <2>1
<1>5. r1 = r
  BY <1>1, <1>2, <1>3, <1>4
<1> QED
  BY <1>5 DEF r1

\* How a counter wraps.
LEMMA WrapIs ==
  ASSUME NEW x \in Nat, x < 2 * UINT
  PROVE  x % UINT = IF x < UINT THEN x ELSE x - UINT
<1>0. UINT \in Nat \ {0}
  BY Constants
<1>1. CASE x < UINT
  <2>1. x = UINT * 0 + x /\ x \in 0 .. UINT - 1 /\ 0 \in Int /\ x \in Int
    BY <1>0, <1>1
  <2>2. x % UINT = x
    BY <1>0, <2>1, RemainderIs
  <2> QED
    BY <1>1, <2>2
<1>2. CASE x >= UINT
  <2>1. x = UINT * 1 + (x - UINT) /\ x - UINT \in 0 .. UINT - 1 /\ 1 \in Int /\ x \in Int
    BY <1>0, <1>2
  <2>2. x % UINT = x - UINT
    BY <1>0, <2>1, RemainderIs
  <2> QED
    BY <1>0, <1>2, <2>2
<1> QED
  BY <1>0, <1>1, <1>2

Rings == UINT \div PIPESIZE

LEMMA WholeRings == Rings \in Int /\ UINT = PIPESIZE * Rings
<1>1. PIPESIZE \in Nat \ {0} /\ UINT \in Nat /\ UINT % PIPESIZE = 0
  BY Constants
<1>2. UINT = PIPESIZE * (UINT \div PIPESIZE) + (UINT % PIPESIZE) /\ UINT \div PIPESIZE \in Int
  BY <1>1
<1> QED
  BY <1>1, <1>2 DEF Rings

\* The cell of a number d past a counter x, whatever the rings between.
LEMMA PastIs ==
  ASSUME NEW x \in 0 .. UINT - 1, NEW d \in 0 .. PIPESIZE - 1, NEW z \in Int,
         NEW y \in Int, y = x + d + PIPESIZE * z
  PROVE  y % PIPESIZE \in Cells /\ Past(y % PIPESIZE, x) = d
<1>0. PIPESIZE \in Nat \ {0} /\ UINT \in Nat
  BY Constants
<1> DEFINE q == y \div PIPESIZE
           c == y % PIPESIZE
<1>1. y = PIPESIZE * q + c /\ q \in Int /\ c \in 0 .. PIPESIZE - 1
  BY <1>0
<1> HIDE DEF q, c
<1>2. c + UINT - x = PIPESIZE * (z - q + Rings) + d
  <2>1. c - x = d + PIPESIZE * z - PIPESIZE * q
    BY <1>0, <1>1
  <2>2. PIPESIZE * (z - q + Rings) = PIPESIZE * z - PIPESIZE * q + PIPESIZE * Rings
    BY <1>0, <1>1, WholeRings
  <2> QED
    BY <1>0, <1>1, <2>1, <2>2, WholeRings
<1>3. z - q + Rings \in Int /\ c + UINT - x \in Int
  BY <1>0, <1>1, WholeRings
<1>4. (c + UINT - x) % PIPESIZE = d
  <2> DEFINE n == c + UINT - x
             k == z - q + Rings
  <2>1. n \in Int /\ k \in Int /\ n = PIPESIZE * k + d
    BY <1>2, <1>3
  <2> HIDE DEF n, k
  <2>2. n % PIPESIZE = d
    BY <1>0, <2>1, RemainderIs
  <2> QED
    BY <2>2 DEF n
<1> QED
  BY <1>1, <1>4 DEF c, Past, Cells

\* The cells that a counter has past it do not depend on how often it wrapped.
LEMMA WrapCell ==
  ASSUME NEW x \in Nat, x < 2 * UINT, NEW i \in Int
  PROVE  ((x % UINT) + i) % PIPESIZE = (x + i) % PIPESIZE
<1>0. PIPESIZE \in Nat \ {0} /\ UINT \in Nat
  BY Constants
<1>1. CASE x < UINT
  BY <1>1, WrapIs
<1>2. CASE x >= UINT
  <2>1. x % UINT = x - UINT
    BY <1>0, <1>2, WrapIs
  <2> DEFINE y == x - UINT + i
             q == y \div PIPESIZE
             c == y % PIPESIZE
  <2>2. y = PIPESIZE * q + c /\ q \in Int /\ c \in 0 .. PIPESIZE - 1
    BY <1>0
  <2> HIDE DEF q, c
  <2>3. x + i = PIPESIZE * (q + Rings) + c
    <3>1. PIPESIZE * (q + Rings) = PIPESIZE * q + PIPESIZE * Rings
      BY <1>0, <2>2, WholeRings
    <3> QED
      BY <1>0, <2>2, <3>1, WholeRings
  <2>4. q + Rings \in Int /\ x + i \in Int
    BY <2>2, WholeRings
  <2>5. (x + i) % PIPESIZE = c
    <3> DEFINE n == x + i
               k == q + Rings
    <3>1. n \in Int /\ k \in Int /\ n = PIPESIZE * k + c
      BY <2>3, <2>4
    <3> HIDE DEF n, k
    <3>2. n % PIPESIZE = c
      BY <1>0, <2>2, <3>1, RemainderIs
    <3> QED
      BY <3>2 DEF n
  <2> QED
    BY <2>1, <2>5 DEF c
<1> QED
  BY <1>0, <1>1, <1>2

------------------------------------------------------------------------------
(* The ring of a pipe *)

\* What a cell can hold.
Data == Bytes \cup {Junk}

LEMMA Cell ==
  ASSUME NEW x \in Int
  PROVE  x % PIPESIZE \in Cells
<1>1. PIPESIZE \in Nat \ {0}
  BY Constants
<1> QED
  BY <1>1 DEF Cells

LEMMA FillIs ==
  ASSUME NEW r \in 0 .. UINT - 1, NEW w \in 0 .. UINT - 1
  PROVE  (w + UINT - r) % UINT = IF w >= r THEN w - r ELSE w + UINT - r
<1>1. UINT \in Nat
  BY Constants
<1> DEFINE x == w + UINT - r
<1>2. x \in Nat /\ x < 2 * UINT
  BY <1>1
<1>3. x % UINT = IF x < UINT THEN x ELSE x - UINT
  <2> HIDE DEF x
  <2> QED
    BY <1>2, WrapIs
<1> QED
  BY <1>1, <1>3

LEMMA ContentIs ==
  ASSUME NEW pi \in PipeType
  PROVE  /\ Fill(pi) \in 0 .. UINT - 1
         /\ Fill(pi) = IF pi.nwrite >= pi.nread THEN pi.nwrite - pi.nread
                       ELSE pi.nwrite + UINT - pi.nread
         /\ Content(pi) \in Seq(Data) /\ Len(Content(pi)) = Fill(pi)
         /\ \A i \in 1 .. Fill(pi) : Content(pi)[i] = pi.data[(pi.nread + i - 1) % PIPESIZE]
<1>0. UINT \in Nat
  BY Constants
<1>1. /\ pi.nread \in 0 .. UINT - 1 /\ pi.nwrite \in 0 .. UINT - 1
      /\ pi.data \in [Cells -> Data]
  BY DEF PipeType, Data
<1> DEFINE n == Fill(pi)
<1>2. n = IF pi.nwrite >= pi.nread THEN pi.nwrite - pi.nread
          ELSE pi.nwrite + UINT - pi.nread
  BY <1>1, FillIs DEF Fill
<1>3. n \in 0 .. UINT - 1
  BY <1>0, <1>1, <1>2
<1> HIDE DEF n
<1> DEFINE s == [i \in 1 .. n |-> pi.data[(pi.nread + i - 1) % PIPESIZE]]
<1>4. \A i \in 1 .. n : pi.data[(pi.nread + i - 1) % PIPESIZE] \in Data
  <2> SUFFICES ASSUME NEW i \in 1 .. n PROVE pi.data[(pi.nread + i - 1) % PIPESIZE] \in Data
    OBVIOUS
  <2>1. pi.nread + i - 1 \in Int
    BY <1>0, <1>1, <1>3
  <2>2. (pi.nread + i - 1) % PIPESIZE \in Cells
    BY <2>1, Cell
  <2> QED
    BY <1>1, <2>2
<1>5. n \in Nat
  BY <1>0, <1>3
<1>6. s \in Seq(Data) /\ Len(s) = n
  BY <1>4, <1>5
<1>7. Content(pi) = s
  BY DEF Content, n
<1> QED
  BY <1>2, <1>3, <1>6, <1>7 DEF n

LEMMA FullIs ==
  ASSUME NEW pi \in PipeType, Fill(pi) <= PIPESIZE
  PROVE  (Full(pi) <=> Fill(pi) = PIPESIZE) /\ (Empty(pi) <=> Fill(pi) = 0)
<1>0. PIPESIZE \in Nat \ {0} /\ UINT \in Nat /\ UINT > PIPESIZE
  BY Constants
<1>1. pi.nread \in 0 .. UINT - 1 /\ pi.nwrite \in 0 .. UINT - 1
  BY DEF PipeType
<1>2. Fill(pi) = IF pi.nwrite >= pi.nread THEN pi.nwrite - pi.nread
                 ELSE pi.nwrite + UINT - pi.nread
  BY ContentIs
<1> DEFINE x == pi.nread + PIPESIZE
<1>3. x \in Nat /\ x < 2 * UINT
  BY <1>0, <1>1
<1>4. x % UINT = IF x < UINT THEN x ELSE x - UINT
  <2> HIDE DEF x
  <2> QED
    BY <1>3, WrapIs
<1>5. Full(pi) <=> pi.nwrite = IF x < UINT THEN x ELSE x - UINT
  BY <1>4 DEF Full
<1>6. Full(pi) <=> Fill(pi) = PIPESIZE
  BY <1>0, <1>1, <1>2, <1>5
<1>7. Empty(pi) <=> Fill(pi) = 0
  BY <1>0, <1>1, <1>2 DEF Empty
<1> QED
  BY <1>6, <1>7

\* The bytes that are put into a pipe come after those that are there.
LEMMA PutIs ==
  ASSUME NEW pi \in PipeType, NEW w \in Seq(Bytes), Fill(pi) + Len(w) <= PIPESIZE,
         NEW u \in BOOLEAN, NEW pj, pj = [PutBytes(pi, w) EXCEPT !.untold = u]
  PROVE  /\ pj \in PipeType /\ pj.ends = pi.ends /\ pj.untold = u
         /\ pj.nread = pi.nread
         /\ Fill(pj) = Fill(pi) + Len(w) /\ Content(pj) = Content(pi) \o w
<1>0. PIPESIZE \in Nat \ {0} /\ UINT \in Nat /\ UINT > PIPESIZE /\ Len(w) \in Nat
      /\ \A i \in 1 .. Len(w) : w[i] \in Bytes
  BY Constants, LenProperties, ElementOfSeq
<1> DEFINE r == pi.nread
           n == pi.nwrite
           l == Len(w)
           f == Fill(pi)
           past(i) == Past(i, n)
           data == [i \in Cells |-> IF past(i) < l THEN w[past(i) + 1] ELSE pi.data[i]]
           n2 == (n + l) % UINT
<1>1. /\ r \in 0 .. UINT - 1 /\ n \in 0 .. UINT - 1 /\ pi.data \in [Cells -> Data]
      /\ pi.ends \in SUBSET Ends
      /\ pi = [ends |-> pi.ends, data |-> pi.data, nread |-> r, nwrite |-> n,
               untold |-> pi.untold]
  BY DEF PipeType, Data
<1>2. /\ f \in Nat /\ f <= PIPESIZE
      /\ f = IF n >= r THEN n - r ELSE n + UINT - r
      /\ Content(pi) \in Seq(Data) /\ Len(Content(pi)) = f
      /\ \A i \in 1 .. f : Content(pi)[i] = pi.data[(r + i - 1) % PIPESIZE]
      /\ l \in Nat /\ f + l <= PIPESIZE /\ Len(w) = l
  BY <1>0, ContentIs
<1> HIDE DEF f, l
<1>3. pj = [ends |-> pi.ends, data |-> data, nread |-> r, nwrite |-> n2, untold |-> u]
  <2>1. PutBytes(pi, w) = [pi EXCEPT !.data = data, !.nwrite = n2]
    BY DEF PutBytes, l
  <2> HIDE DEF data, n2, r, n
  <2>2. pj = [[pi EXCEPT !.data = data, !.nwrite = n2] EXCEPT !.untold = u]
    BY <2>1
  <2> DEFINE a == pi.ends
             b == pi.data
             c == pi.untold
  <2>3. pi = [ends |-> a, data |-> b, nread |-> r, nwrite |-> n, untold |-> c]
    BY <1>1
  <2> HIDE DEF a, b, c
  <2>4. pj = [ends |-> a, data |-> data, nread |-> r, nwrite |-> n2, untold |-> u]
    BY <2>2, <2>3
  <2> QED
    BY <2>4 DEF a
<1> HIDE DEF r, n
<1>N. /\ PIPESIZE \in Nat \ {0} /\ UINT \in Nat /\ UINT > PIPESIZE
      /\ r \in 0 .. UINT - 1 /\ n \in 0 .. UINT - 1 /\ f \in Nat /\ l \in Nat
      /\ f + l <= PIPESIZE /\ f = IF n >= r THEN n - r ELSE n + UINT - r
  BY <1>0, <1>1, <1>2
<1>4. n2 = IF n + l < UINT THEN n + l ELSE n + l - UINT
  <2> DEFINE x == n + l
  <2>1. x \in Nat /\ x < 2 * UINT
    BY ONLY <1>N
  <2>2. x % UINT = IF x < UINT THEN x ELSE x - UINT
    <3> HIDE DEF x
    <3> QED
      BY <2>1, WrapIs
  <2> QED
    BY ONLY <1>N, <2>2
<1>5. n2 \in 0 .. UINT - 1
  <2> HIDE DEF n2
  <2> QED
    BY ONLY <1>N, <1>4
<1>6. \A i \in Cells : past(i) \in 0 .. PIPESIZE - 1
  <2> SUFFICES ASSUME NEW i \in Cells PROVE past(i) \in 0 .. PIPESIZE - 1
    OBVIOUS
  <2>1. i + UINT - n \in Int
    BY <1>0, <1>1 DEF Cells
  <2> QED
    BY <2>1, Cell DEF Past, Cells
<1>7. data \in [Cells -> Data]
  <2> SUFFICES ASSUME NEW i \in Cells PROVE data[i] \in Data
    OBVIOUS
  <2>1. past(i) \in 0 .. PIPESIZE - 1
    BY <1>6
  <2>2. CASE past(i) < l
    <3>1. past(i) + 1 \in 1 .. l
      BY <1>0, <1>2, <2>1, <2>2
    <3>2. w[past(i) + 1] \in Data
      BY <1>0, <1>2, <3>1 DEF Data
    <3> QED
      BY <2>2, <3>2
  <2>3. CASE ~(past(i) < l)
    BY <1>1, <2>3
  <2> QED
    BY <2>2, <2>3
<1>8. pj \in PipeType
  <2> HIDE DEF data, n2
  <2>1. data \in [Cells -> Bytes \cup {Junk}]
    BY <1>7 DEF Data
  <2> QED
    <3> DEFINE a == pi.ends
    <3>1. pj = [ends |-> a, data |-> data, nread |-> r, nwrite |-> n2, untold |-> u]
          /\ a \in SUBSET Ends
      BY <1>1, <1>3
    <3> HIDE DEF a
    <3> QED
      BY ONLY <1>N, <1>5, <2>1, <3>1, u \in BOOLEAN DEF PipeType
<1> HIDE DEF data, n2
<1>9. /\ Fill(pj) = IF n2 >= r THEN n2 - r ELSE n2 + UINT - r
      /\ Content(pj) \in Seq(Data) /\ Len(Content(pj)) = Fill(pj)
      /\ \A i \in 1 .. Fill(pj) : Content(pj)[i] = data[(r + i - 1) % PIPESIZE]
  <2>1. pj.nwrite = n2 /\ pj.nread = r /\ pj.data = data
    BY <1>3
  <2> QED
    BY <1>8, <2>1, ContentIs
<1>10. Fill(pj) = f + l
  <2>1. Fill(pj) = IF n2 >= r THEN n2 - r ELSE n2 + UINT - r
    BY <1>9
  <2> QED
    BY ONLY <1>N, <1>4, <1>5, <2>1
<1>11. w \in Seq(Data)
  BY SeqMonotonic DEF Data
<1>12. /\ Content(pi) \o w \in Seq(Data) /\ Len(Content(pi) \o w) = f + l
       /\ \A i \in 1 .. f + l : (Content(pi) \o w)[i] = IF i <= f THEN Content(pi)[i]
                                                        ELSE w[i - f]
  <2>1. Len(Content(pi)) = f /\ Len(w) = l /\ Content(pi) \in Seq(Data)
    BY <1>2
  <2> QED
    BY <1>11, <2>1, ConcatProperties
<1>13. ASSUME NEW i \in 1 .. f + l PROVE Content(pj)[i] = (Content(pi) \o w)[i]
  <2> DEFINE y == r + i - 1
             c == y % PIPESIZE
  <2>0. i \in 1 .. Fill(pj) /\ i \in 1 .. f + l
    BY <1>10
  <2>1. y \in Int /\ Content(pj)[i] = data[c]
    <3>1. y \in Int
      BY ONLY <1>N, <2>0
    <3> QED
      BY <1>9, <2>0, <3>1
  <2>2. CASE i <= f
    <3> DEFINE d == PIPESIZE + i - 1 - f
    <3>1. d \in 0 .. PIPESIZE - 1 /\ d >= l
      BY <1>0, <1>2, <2>2
    <3>2. \E z \in Int : y = n + d + PIPESIZE * z
      <4>1. CASE n >= r
        <5>1. y = n + d + PIPESIZE * (-1)
          BY ONLY <1>N, <2>0, <4>1
        <5> QED
          BY <5>1
      <4>2. CASE n < r
        <5>1. y = n + d + UINT - PIPESIZE
          BY ONLY <1>N, <2>0, <4>2
        <5>2. PIPESIZE * (Rings - 1) = UINT - PIPESIZE /\ Rings - 1 \in Int
          BY <1>0, WholeRings
        <5>3. y = n + d + PIPESIZE * (Rings - 1)
          BY <1>0, <1>1, <3>1, <5>1, <5>2
        <5> QED
          BY <5>2, <5>3
      <4> QED
        BY <1>1, <4>1, <4>2
    <3> HIDE DEF d, y
    <3>3. c \in Cells /\ past(c) = d
      BY <1>1, <2>1, <3>1, <3>2, PastIs
    <3>4. data[c] = pi.data[c]
      <4>1. ~(past(c) < l)
        BY <1>0, <1>2, <3>1, <3>3
      <4> QED
        BY <3>3, <4>1 DEF data
    <3>5. i \in 1 .. f /\ Content(pi)[i] = pi.data[c]
      BY <1>0, <1>2, <2>2 DEF y
    <3> QED
      BY <1>12, <2>1, <2>2, <3>4, <3>5
  <2>3. CASE i > f
    <3> DEFINE d == i - 1 - f
    <3>1. d \in 0 .. PIPESIZE - 1 /\ d < l /\ d + 1 = i - f
      BY <1>0, <1>2, <2>3
    <3>2. \E z \in Int : y = n + d + PIPESIZE * z
      <4>1. CASE n >= r
        <5>1. y = n + d + PIPESIZE * 0
          BY ONLY <1>N, <2>0, <4>1
        <5> QED
          BY <5>1
      <4>2. CASE n < r
        <5>1. y = n + d + UINT
          BY ONLY <1>N, <2>0, <4>2
        <5>2. y = n + d + PIPESIZE * Rings
          BY <5>1, WholeRings
        <5> QED
          BY <5>2, WholeRings
      <4> QED
        BY <1>1, <4>1, <4>2
    <3> HIDE DEF d, y
    <3>3. c \in Cells /\ past(c) = d
      BY <1>1, <2>1, <3>1, <3>2, PastIs
    <3>4. data[c] = w[i - f]
      BY <3>1, <3>3 DEF data
    <3> QED
      BY <1>0, <1>2, <1>12, <2>1, <2>3, <3>4
  <2> QED
    BY <1>0, <1>2, <2>2, <2>3
<1>14. Content(pj) = Content(pi) \o w
  BY <1>9, <1>10, <1>12, <1>13, SeqEqual
<1> QED
  <2>1. pj.ends = pi.ends /\ pj.untold = u /\ pj.nread = pi.nread
    BY <1>3 DEF r
  <2> QED
    BY <1>2, <1>8, <1>10, <1>14, <2>1 DEF f

\* The bytes that are taken out of a pipe are its first.
LEMMA TakeIs ==
  ASSUME NEW pi \in PipeType, Fill(pi) <= PIPESIZE, NEW k \in 0 .. Fill(pi),
         NEW pj, pj = Take(pi, k)
  PROVE  /\ pj \in PipeType /\ pj.ends = pi.ends
         /\ pj.untold = (pi.untold /\ k < Fill(pi))
         /\ Fill(pj) = Fill(pi) - k
         /\ Content(pj) = SubSeq(Content(pi), k + 1, Len(Content(pi)))
<1>0. PIPESIZE \in Nat \ {0} /\ UINT \in Nat /\ UINT > PIPESIZE
  BY Constants
<1> DEFINE r == pi.nread
           n == pi.nwrite
           f == Fill(pi)
           past(i) == Past(i, r)
           data == [i \in Cells |-> IF past(i) < k THEN Junk ELSE pi.data[i]]
           r2 == (r + k) % UINT
<1>1. /\ r \in 0 .. UINT - 1 /\ n \in 0 .. UINT - 1 /\ pi.data \in [Cells -> Data]
      /\ pi.ends \in SUBSET Ends /\ pi.untold \in BOOLEAN
      /\ pi = [ends |-> pi.ends, data |-> pi.data, nread |-> r, nwrite |-> n,
               untold |-> pi.untold]
  BY DEF PipeType, Data
<1>2. /\ f \in Nat /\ f <= PIPESIZE /\ k \in Nat /\ k <= f
      /\ f = IF n >= r THEN n - r ELSE n + UINT - r
      /\ Content(pi) \in Seq(Data) /\ Len(Content(pi)) = f
      /\ \A i \in 1 .. f : Content(pi)[i] = pi.data[(r + i - 1) % PIPESIZE]
  BY <1>0, ContentIs
<1> HIDE DEF f
<1> DEFINE u == pi.untold /\ k < f
<1>3. pj = [ends |-> pi.ends, data |-> data, nread |-> r2, nwrite |-> n, untold |-> u]
  <2> HIDE DEF r, n
  <2>1. Take(pi, k) = [pi EXCEPT !.nread = r2, !.data = data, !.untold = u]
    BY <1>1 DEF Take, f, r
  <2> HIDE DEF data, r2, u, r, n
  <2> DEFINE a == pi.ends
             b == pi.data
             c == pi.untold
  <2>2. pi = [ends |-> a, data |-> b, nread |-> r, nwrite |-> n, untold |-> c]
    BY <1>1
  <2> HIDE DEF a, b, c
  <2>3. pj = [ends |-> a, data |-> data, nread |-> r2, nwrite |-> n, untold |-> u]
    BY <2>1, <2>2
  <2> QED
    BY <2>3 DEF a
<1> HIDE DEF r, n
<1>N. /\ PIPESIZE \in Nat \ {0} /\ UINT \in Nat /\ UINT > PIPESIZE
      /\ r \in 0 .. UINT - 1 /\ n \in 0 .. UINT - 1 /\ f \in Nat /\ k \in Nat /\ k <= f
      /\ f <= PIPESIZE /\ f = IF n >= r THEN n - r ELSE n + UINT - r
  BY <1>0, <1>1, <1>2
<1>4. r + k \in Nat /\ r + k < 2 * UINT
  BY <1>0, <1>1, <1>2
<1>5. r2 = IF r + k < UINT THEN r + k ELSE r + k - UINT
  <2> DEFINE x == r + k
  <2>1. x % UINT = IF x < UINT THEN x ELSE x - UINT
    <3>1. x \in Nat /\ x < 2 * UINT
      BY <1>4
    <3> HIDE DEF x
    <3> QED
      BY <3>1, WrapIs
  <2> QED
    BY ONLY <1>N, <2>1
<1>6. r2 \in 0 .. UINT - 1
  <2> HIDE DEF r2
  <2> QED
    BY ONLY <1>N, <1>5
<1>7. data \in [Cells -> Data] /\ u \in BOOLEAN
  BY <1>1 DEF Data
<1>8. pj \in PipeType
  <2> HIDE DEF data, r2, u
  <2>1. data \in [Cells -> Bytes \cup {Junk}]
    BY <1>7 DEF Data
  <2> QED
    BY <1>1, <1>3, <1>6, <1>7, <2>1 DEF PipeType
<1> HIDE DEF data, r2, u
<1>9. /\ Fill(pj) = IF n >= r2 THEN n - r2 ELSE n + UINT - r2
      /\ Content(pj) \in Seq(Data) /\ Len(Content(pj)) = Fill(pj)
      /\ \A i \in 1 .. Fill(pj) : Content(pj)[i] = data[(r2 + i - 1) % PIPESIZE]
  <2>1. pj.nwrite = n /\ pj.nread = r2 /\ pj.data = data
    BY <1>3
  <2> QED
    BY <1>8, <2>1, ContentIs
<1>10. Fill(pj) = f - k
  <2>1. Fill(pj) = IF n >= r2 THEN n - r2 ELSE n + UINT - r2
    BY <1>9
  <2> QED
    BY ONLY <1>N, <1>5, <1>6, <2>1
<1> DEFINE s == SubSeq(Content(pi), k + 1, f)
<1>11. s \in Seq(Data) /\ Len(s) = f - k /\ \A i \in 1 .. f - k : s[i] = Content(pi)[k + i]
  <2>1. \A i \in k + 1 .. f : Content(pi)[i] \in Data
    BY <1>2, ElementOfSeq
  <2>2. k + 1 \in Int /\ f \in Int
    BY <1>2
  <2>3. /\ s \in Seq(Data) /\ Len(s) = IF k + 1 <= f THEN f - (k + 1) + 1 ELSE 0
        /\ \A i \in 1 .. f - (k + 1) + 1 : s[i] = Content(pi)[(k + 1) + i - 1]
    BY <2>1, <2>2, SubSeqProperties
  <2> QED
    BY <1>2, <2>3
<1> HIDE DEF s
<1>12. ASSUME NEW i \in 1 .. f - k PROVE Content(pj)[i] = s[i]
  <2> DEFINE y == r + k + i - 1
             c == y % PIPESIZE
             d == k + i - 1
  <2>1. y \in Int /\ Content(pj)[i] = data[(r2 + i - 1) % PIPESIZE]
    BY <1>1, <1>2, <1>9, <1>10
  <2>2. (r2 + i - 1) % PIPESIZE = c
    <3>1. i - 1 \in Int /\ r2 \in Int
      BY <1>2, <1>6
    <3>2. (r2 + (i - 1)) % PIPESIZE = (r + k + (i - 1)) % PIPESIZE
      BY <1>4, <3>1, WrapCell DEF r2
    <3>3. r2 + (i - 1) = r2 + i - 1 /\ r + k + (i - 1) = y
      BY <1>1, <1>2, <3>1
    <3> QED
      BY <3>2, <3>3
  <2>3. d \in 0 .. PIPESIZE - 1 /\ ~(d < k) /\ 0 \in Int /\ y = r + d + PIPESIZE * 0
    <3>1. i \in 1 .. f - k
      OBVIOUS
    <3> QED
      BY ONLY <1>N, <3>1
  <2> HIDE DEF d
  <2>4. c \in Cells /\ past(c) = d
    <3> HIDE DEF y
    <3> QED
      BY <1>1, <2>1, <2>3, PastIs
  <2>5. data[c] = pi.data[c]
    BY <2>3, <2>4 DEF data
  <2>6. k + i \in 1 .. f /\ Content(pi)[k + i] = pi.data[(r + (k + i) - 1) % PIPESIZE]
    BY <1>2
  <2>7. r + (k + i) - 1 = y
    BY <1>1, <1>2
  <2> QED
    BY <1>11, <2>1, <2>2, <2>5, <2>6, <2>7
<1>13. Content(pj) = s
  BY <1>9, <1>10, <1>11, <1>12, SeqEqual
<1> QED
  <2>1. pj.ends = pi.ends /\ pj.untold = u
    BY <1>3
  <2> QED
    BY <1>2, <1>8, <1>10, <1>13, <2>1 DEF u, s, f

\* What is read is what is first in the pipe.
LEMMA DeliveredIs ==
  ASSUME NEW pi \in PipeType, NEW k \in 0 .. Fill(pi)
  PROVE  Delivered(pi, k) = SubSeq(Content(pi), 1, k)
<1> DEFINE s == SubSeq(Content(pi), 1, k)
           t == Delivered(pi, k)
           f == Fill(pi)
<1>0. /\ f \in Nat /\ k \in Nat /\ k <= f
      /\ Content(pi) \in Seq(Data) /\ Len(Content(pi)) = f
      /\ \A i \in 1 .. f : Content(pi)[i] = pi.data[(pi.nread + i - 1) % PIPESIZE]
  BY Constants, ContentIs
<1>1. s \in Seq(Data) /\ Len(s) = k /\ \A i \in 1 .. k : s[i] = Content(pi)[i]
  <2>1. \A i \in 1 .. k : Content(pi)[i] \in Data
    BY <1>0, ElementOfSeq
  <2>2. 1 \in Int /\ k \in Int
    BY <1>0
  <2>3. /\ s \in Seq(Data) /\ Len(s) = IF 1 <= k THEN k - 1 + 1 ELSE 0
        /\ \A i \in 1 .. k - 1 + 1 : s[i] = Content(pi)[1 + i - 1]
    BY <2>1, <2>2, SubSeqProperties
  <2> QED
    BY <1>0, <2>3
<1>2. \A i \in 1 .. k : pi.data[(pi.nread + i - 1) % PIPESIZE] \in Data
  <2> SUFFICES ASSUME NEW i \in 1 .. k PROVE pi.data[(pi.nread + i - 1) % PIPESIZE] \in Data
    OBVIOUS
  <2>1. i \in 1 .. f
    BY <1>0
  <2>2. Content(pi)[i] \in Data
    BY <1>0, <2>1, ElementOfSeq
  <2>3. Content(pi)[i] = pi.data[(pi.nread + i - 1) % PIPESIZE]
    BY <2>1, ContentIs
  <2> QED
    BY ONLY <2>2, <2>3
<1>3. t \in Seq(Data) /\ Len(t) = k
        /\ \A i \in 1 .. k : t[i] = pi.data[(pi.nread + i - 1) % PIPESIZE]
  BY <1>0, <1>2 DEF Delivered
<1> HIDE DEF s, t
<1>4. s = t
  BY <1>0, <1>1, <1>3, SeqEqual
<1> QED
  BY <1>4 DEF s, t

\* The first k bytes of a list.
LEMMA FirstBytes ==
  ASSUME NEW w \in Seq(Bytes), NEW k \in 0 .. Len(w)
  PROVE  /\ SubSeq(w, 1, k) \in Seq(Bytes) /\ Len(SubSeq(w, 1, k)) = k
         /\ SubSeq(w, k + 1, Len(w)) \in Seq(Bytes)
         /\ Len(SubSeq(w, k + 1, Len(w))) = Len(w) - k
<1>0. Len(w) \in Nat /\ k \in Nat /\ k <= Len(w)
  BY LenProperties
<1>1. \A i \in 1 .. Len(w) : w[i] \in Bytes
  BY ElementOfSeq
<1>2. 1 \in Int /\ k \in Int /\ k + 1 \in Int /\ Len(w) \in Int
  BY <1>0
<1>3. SubSeq(w, 1, k) \in Seq(Bytes) /\ Len(SubSeq(w, 1, k)) = IF 1 <= k THEN k - 1 + 1 ELSE 0
  <2>1. \A i \in 1 .. k : w[i] \in Bytes
    BY <1>0, <1>1
  <2> QED
    BY <1>2, <2>1, SubSeqProperties
<1>4. /\ SubSeq(w, k + 1, Len(w)) \in Seq(Bytes)
      /\ Len(SubSeq(w, k + 1, Len(w))) = IF k + 1 <= Len(w) THEN Len(w) - (k + 1) + 1 ELSE 0
  <2>1. \A i \in k + 1 .. Len(w) : w[i] \in Bytes
    BY <1>0, <1>1
  <2> QED
    BY <1>2, <2>1, SubSeqProperties
<1> QED
  BY <1>0, <1>3, <1>4

\* The bytes of a section fit.
LEMMA FitsIs ==
  ASSUME NEW pi \in PipeType, Fill(pi) <= PIPESIZE, NEW w \in Seq(Bytes),
         NEW k \in Fits(pi, w)
  PROVE  k \in 0 .. Len(w) /\ Fill(pi) + k <= PIPESIZE
<1>0. /\ PIPESIZE \in Nat \ {0} /\ Len(w) \in Nat /\ k \in 0 .. Len(w) /\ Fill(pi) \in Nat
      /\ \A j \in 0 .. k - 1 : ~Full(PutBytes(pi, SubSeq(w, 1, j)))
  BY Constants, LenProperties, ContentIs DEF Fits
<1>1. SUFFICES ASSUME Fill(pi) + k > PIPESIZE PROVE FALSE
  BY <1>0
<1> DEFINE j == PIPESIZE - Fill(pi)
           v == SubSeq(w, 1, j)
           pj == [PutBytes(pi, v) EXCEPT !.untold = TRUE]
<1>2. j \in 0 .. k - 1 /\ j \in 0 .. Len(w)
  BY <1>0, <1>1
<1>3. v \in Seq(Bytes) /\ Len(v) = j
  <2> HIDE DEF j
  <2> QED
    BY <1>2, FirstBytes
<1>4. Fill(pi) + Len(v) <= PIPESIZE /\ Fill(pi) + Len(v) = PIPESIZE
  BY <1>0, <1>3
<1>5. pj \in PipeType /\ Fill(pj) = PIPESIZE
  <2>1. TRUE \in BOOLEAN /\ Fill(pi) + Len(v) <= PIPESIZE
    BY <1>4
  <2> HIDE DEF v
  <2>2. \A q : q = [PutBytes(pi, v) EXCEPT !.untold = TRUE] =>
                q \in PipeType /\ Fill(q) = Fill(pi) + Len(v)
    BY <1>3, <2>1, PutIs, ZenonT(40)
  <2> QED
    BY <1>4, <2>2
<1>6. Full(pj)
  <2> HIDE DEF pj
  <2> QED
    BY <1>0, <1>5, FullIs
<1>7. Full(PutBytes(pi, v))
  <2>1. pj.nread = PutBytes(pi, v).nread /\ pj.nwrite = PutBytes(pi, v).nwrite
    BY DEF PutBytes, PipeType
  <2> QED
    BY <1>6, <2>1 DEF Full
<1> QED
  BY <1>0, <1>2, <1>7

\* A page without a pipe has nothing in it.
LEMMA FreePageIs ==
  /\ FreePage \in PipeType /\ FreePage.ends = {} /\ FreePage.nread = 0 /\ FreePage.nwrite = 0
  /\ Fill(FreePage) = 0 /\ Content(FreePage) = <<>>
<1> DEFINE data == [i \in Cells |-> Junk]
           pi == FreePage
<1>0. UINT \in Nat /\ UINT > 0
  BY Constants
<1>1. FreePage = [ends |-> {}, data |-> data, nread |-> 0, nwrite |-> 0, untold |-> FALSE]
  BY DEF FreePage, Cells
<1>2. data \in [Cells -> Bytes \cup {Junk}]
  OBVIOUS
<1> HIDE DEF data
<1>3. FALSE \in BOOLEAN /\ 0 \in 0 .. UINT - 1 /\ {} \in SUBSET Ends
  BY <1>0
<1>4. pi \in PipeType /\ pi.nread = 0 /\ pi.nwrite = 0 /\ pi.ends = {}
  BY <1>1, <1>2, <1>3 DEF PipeType
<1> HIDE DEF pi
<1>5. Fill(pi) = 0 /\ Content(pi) \in Seq(Data) /\ Len(Content(pi)) = 0
  BY <1>0, <1>4, ContentIs
<1>6. Content(pi) = <<>>
  BY <1>5, EmptySeq
<1> QED
  BY <1>4, <1>5, <1>6 DEF pi

\* The page of a new pipe.
LEMMA NewPage ==
  ASSUME NEW e \in SUBSET Ends
  PROVE  LET pi == [FreePage EXCEPT !.ends = e] IN
         pi \in PipeType /\ pi.ends = e /\ Fill(pi) = 0 /\ Content(pi) = <<>>
<1> DEFINE pi == [FreePage EXCEPT !.ends = e]
<1>0. UINT \in Nat /\ UINT > 0
  BY Constants
<1>1. FreePage \in PipeType /\ FreePage.nread = 0 /\ FreePage.nwrite = 0
  BY FreePageIs
<1>2. pi \in PipeType /\ pi.nread = 0 /\ pi.nwrite = 0 /\ pi.ends = e
  BY <1>1 DEF PipeType
<1> HIDE DEF pi
<1>3. Fill(pi) = 0 /\ Content(pi) \in Seq(Data) /\ Len(Content(pi)) = 0
  BY <1>0, <1>2, ContentIs
<1>4. Content(pi) = <<>>
  BY <1>3, EmptySeq
<1> QED
  BY <1>2, <1>3, <1>4 DEF pi

------------------------------------------------------------------------------
(* Counting *)

One(b) == IF b THEN 1 ELSE 0

\* Two functions on a set are the same but at one place.
SameBut(S, a, g, h) == \A x \in S \ {a} : h[x] = g[x]

Count(S, g, v) == Cardinality({ x \in S : g[x] = v })

\* A count of the places where a function has a value, when one place changes.
LEMMA CountUpdate ==
  ASSUME NEW S, IsFiniteSet(S), NEW g, NEW h, NEW a \in S, SameBut(S, a, g, h), NEW v
  PROVE  /\ Count(S, g, v) \in Nat /\ Count(S, h, v) \in Nat
         /\ Count(S, h, v) = Count(S, g, v) - One(g[a] = v) + One(h[a] = v)
<1> DEFINE A == { x \in S : g[x] = v }
           B == { x \in S : h[x] = v }
<1>1. A \in SUBSET S /\ B \in SUBSET S /\ A \ {a} = B \ {a}
      /\ (a \in A <=> g[a] = v) /\ (a \in B <=> h[a] = v)
  BY DEF SameBut
<1> HIDE DEF A, B
<1>2. IsFiniteSet(A) /\ IsFiniteSet(B)
  BY <1>1, FS_Subset
<1>3. Cardinality(A) \in Nat /\ Cardinality(B) \in Nat
  BY <1>2, FS_CardinalityType
<1>4. Cardinality(A \ {a}) = IF a \in A THEN Cardinality(A) - 1 ELSE Cardinality(A)
  BY <1>2, FS_RemoveElement
<1>5. Cardinality(B \ {a}) = IF a \in B THEN Cardinality(B) - 1 ELSE Cardinality(B)
  BY <1>2, FS_RemoveElement
<1>6. Cardinality(B) = Cardinality(A) - One(g[a] = v) + One(h[a] = v)
  <2>1. One(g[a] = v) = (IF a \in A THEN 1 ELSE 0) /\ One(h[a] = v) = (IF a \in B THEN 1 ELSE 0)
    BY <1>1 DEF One
  <2>2. Cardinality(A \ {a}) = Cardinality(B \ {a})
    BY <1>1
  <2> QED
    BY ONLY <1>3, <1>4, <1>5, <2>1, <2>2
<1> QED
  BY <1>3, <1>6 DEF A, B, Count

\* Sets of pairs, a row for each process.
Rows(R) == UNION { {q} \X R[q] : q \in Procs }

LEMMA RowsFinite ==
  ASSUME NEW R, NEW P \in SUBSET Procs, \A q \in P : IsFiniteSet(R[q])
  PROVE  IsFiniteSet(UNION { {q} \X R[q] : q \in P })
<1>1. IsFiniteSet(P)
  BY Constants, FS_Subset
<1> DEFINE T == { {q} \X R[q] : q \in P }
           f == [q \in P |-> {q} \X R[q]]
<1>2. f \in Surjection(P, T)
  BY DEF Surjection
<1>3. \A X \in T : IsFiniteSet(X)
  <2> SUFFICES ASSUME NEW q \in P PROVE IsFiniteSet({q} \X R[q])
    OBVIOUS
  <2>1. IsFiniteSet({q}) /\ IsFiniteSet(R[q])
    BY FS_Singleton
  <2> QED
    BY <2>1, FS_Product
<1> HIDE DEF T, f
<1>4. IsFiniteSet(T)
  BY <1>1, <1>2, FS_Surjection
<1>5. IsFiniteSet(UNION T)
  BY <1>3, <1>4, FS_UNION
<1> QED
  BY <1>5 DEF T

LEMMA RowsSplit ==
  ASSUME NEW R, \A q \in Procs : IsFiniteSet(R[q]), NEW p \in Procs
  PROVE  LET Rest == UNION { {q} \X R[q] : q \in Procs \ {p} } IN
         /\ Cardinality(Rows(R)) \in Nat /\ Cardinality(Rest) \in Nat
         /\ Cardinality(R[p]) \in Nat
         /\ Cardinality(Rows(R)) = Cardinality(Rest) + Cardinality(R[p])
<1> DEFINE Rest == UNION { {q} \X R[q] : q \in Procs \ {p} }
           Row == {p} \X R[p]
<1>1. Rows(R) = Rest \cup Row
  BY DEF Rows
<1>2. Rest \cap Row = {}
  OBVIOUS
<1>3. IsFiniteSet(Rest)
  <2>1. Procs \ {p} \in SUBSET Procs /\ \A q \in Procs \ {p} : IsFiniteSet(R[q])
    OBVIOUS
  <2> QED
    BY <2>1, RowsFinite
<1>4. IsFiniteSet(Row) /\ Cardinality(Row) = Cardinality(R[p]) /\ Cardinality(R[p]) \in Nat
  <2>1. IsFiniteSet({p}) /\ Cardinality({p}) = 1 /\ IsFiniteSet(R[p])
    BY FS_Singleton
  <2>2. IsFiniteSet(Row) /\ Cardinality(Row) = Cardinality({p}) * Cardinality(R[p])
    BY <2>1, FS_Product
  <2>3. Cardinality(R[p]) \in Nat
    BY <2>1, FS_CardinalityType
  <2> HIDE DEF Row
  <2> QED
    BY <2>1, <2>2, <2>3
<1> HIDE DEF Rest, Row
<1>5. Cardinality(Rest \cup Row)
        = Cardinality(Rest) + Cardinality(Row) - Cardinality(Rest \cap Row)
  BY <1>3, <1>4, FS_Union
<1>6. Cardinality(Rest \cap Row) = 0
  BY <1>2, FS_EmptySet
<1>7. Cardinality(Rest) \in Nat
  BY <1>3, FS_CardinalityType
<1>8. Cardinality(Rows(R)) = Cardinality(Rest) + Cardinality(R[p])
  BY <1>1, <1>4, <1>5, <1>6, <1>7
<1>9. Cardinality(Rows(R)) \in Nat
  BY <1>4, <1>7, <1>8
<1> QED
  BY <1>4, <1>7, <1>8, <1>9 DEF Rest

\* One row changes.
LEMMA RowsUpdate ==
  ASSUME NEW R, NEW T, \A q \in Procs : IsFiniteSet(R[q]) /\ IsFiniteSet(T[q]),
         NEW p \in Procs, SameBut(Procs, p, R, T)
  PROVE  /\ Cardinality(Rows(R)) \in Nat /\ Cardinality(Rows(T)) \in Nat
         /\ Cardinality(R[p]) \in Nat /\ Cardinality(T[p]) \in Nat
         /\ Cardinality(Rows(T)) = Cardinality(Rows(R)) - Cardinality(R[p]) + Cardinality(T[p])
<1> DEFINE A == UNION { {q} \X R[q] : q \in Procs \ {p} }
           B == UNION { {q} \X T[q] : q \in Procs \ {p} }
<1>1. A = B
  BY DEF SameBut
<1>2. /\ Cardinality(Rows(R)) \in Nat /\ Cardinality(A) \in Nat /\ Cardinality(R[p]) \in Nat
      /\ Cardinality(Rows(R)) = Cardinality(A) + Cardinality(R[p])
  BY RowsSplit
<1>3. /\ Cardinality(Rows(T)) \in Nat /\ Cardinality(B) \in Nat /\ Cardinality(T[p]) \in Nat
      /\ Cardinality(Rows(T)) = Cardinality(B) + Cardinality(T[p])
  BY RowsSplit
<1> HIDE DEF A, B
<1> QED
  BY <1>1, <1>2, <1>3

\* The descriptors of one table, and the places of one list, that have a file.
Held(t, f) == Count(FDs, t, f)
Due(s, f) == Count(DOMAIN s, s, f)

LEMMA HeldIs ==
  ASSUME NEW t, NEW f
  PROVE  /\ IsFiniteSet({ d \in FDs : t[d] = f }) /\ Held(t, f) \in Nat
         /\ (\E d \in FDs : t[d] = f) => Held(t, f) > 0
         /\ (\A d \in FDs : t[d] # f) => Held(t, f) = 0
<1> DEFINE S == { d \in FDs : t[d] = f }
<1>1. S \in SUBSET FDs /\ ((\E d \in FDs : t[d] = f) => S # {})
      /\ ((\A d \in FDs : t[d] # f) => S = {})
  OBVIOUS
<1> HIDE DEF S
<1>2. IsFiniteSet(S)
  BY <1>1, Constants, FS_Subset
<1>3. Cardinality(S) \in Nat /\ (Cardinality(S) = 0 <=> S = {})
  BY <1>2, FS_CardinalityType, FS_EmptySet
<1>4. Held(t, f) = Cardinality(S)
  BY DEF Held, Count, S
<1> QED
  BY <1>1, <1>2, <1>3, <1>4 DEF S

LEMMA HeldUpdate ==
  ASSUME NEW t, NEW u, NEW a \in FDs, SameBut(FDs, a, t, u), NEW f
  PROVE  Held(u, f) = Held(t, f) - One(t[a] = f) + One(u[a] = f)
<1>1. IsFiniteSet(FDs)
  BY Constants
<1> QED
  BY <1>1, CountUpdate DEF Held

LEMMA DueIs ==
  ASSUME NEW s \in Seq(Fs), NEW f
  PROVE  /\ IsFiniteSet({ i \in DOMAIN s : s[i] = f }) /\ Due(s, f) \in Nat
         /\ (\E i \in DOMAIN s : s[i] = f) => Due(s, f) > 0
         /\ \A i, j \in DOMAIN s : i # j /\ s[i] = f /\ s[j] = f => Due(s, f) > 1
<1> DEFINE S == { i \in DOMAIN s : s[i] = f }
<1>1. DOMAIN s = 1 .. Len(s) /\ Len(s) \in Nat
  BY LenProperties
<1>2. IsFiniteSet(DOMAIN s)
  <2>1. 1 \in Int /\ Len(s) \in Int
    BY <1>1
  <2> QED
    BY <1>1, <2>1, FS_Interval, Zenon
<1>3. S \in SUBSET DOMAIN s
  OBVIOUS
<1>4. /\ (\E i \in DOMAIN s : s[i] = f) => \E i : i \in S
      /\ \A i, j \in DOMAIN s : i # j /\ s[i] = f /\ s[j] = f => i \in S /\ j \in S /\ i # j
  OBVIOUS
<1>5. Due(s, f) = Cardinality(S)
  BY DEF Due, Count
<1> HIDE DEF S
<1>6. IsFiniteSet(S) /\ Cardinality(S) \in Nat /\ (Cardinality(S) = 0 <=> S = {})
  BY <1>2, <1>3, FS_Subset, FS_CardinalityType, FS_EmptySet
<1>7. \A i, j : i \in S /\ j \in S /\ i # j => Cardinality(S) > 1
  <2> SUFFICES ASSUME NEW i \in S, NEW j \in S, i # j PROVE Cardinality(S) > 1
    OBVIOUS
  <2>1. IsFiniteSet(S \ {i}) /\ Cardinality(S \ {i}) = Cardinality(S) - 1
    BY <1>6, FS_RemoveElement
  <2>2. S \ {i} # {}
    OBVIOUS
  <2>3. Cardinality(S \ {i}) # 0
    BY <2>1, <2>2, FS_EmptySet
  <2> QED
    BY <1>6, <2>1, <2>3
<1>8. (\E i \in DOMAIN s : s[i] = f) => Cardinality(S) > 0
  BY <1>4, <1>6
<1>9. \A i, j \in DOMAIN s : i # j /\ s[i] = f /\ s[j] = f => Cardinality(S) > 1
  BY <1>4, <1>7
<1> QED
  BY <1>5, <1>6, <1>8, <1>9 DEF S

LEMMA DueNone ==
  ASSUME NEW f
  PROVE  Due(<<>>, f) = 0
<1>1. { i \in DOMAIN <<>> : <<>>[i] = f } = {}
  OBVIOUS
<1> QED
  BY <1>1, FS_EmptySet DEF Due, Count

\* A file at the end of a list.
LEMMA DueAppend ==
  ASSUME NEW s \in Seq(Fs), NEW x \in Fs, NEW f
  PROVE  Due(Append(s, x), f) = Due(s, f) + One(x = f)
<1> DEFINE t == Append(s, x)
           n == Len(s)
           S == { i \in DOMAIN s : s[i] = f }
           T == { i \in DOMAIN t : t[i] = f }
<1>1. n \in Nat /\ DOMAIN s = 1 .. n
  BY LenProperties
<1>2. /\ t \in Seq(Fs) /\ DOMAIN t = 1 .. (n + 1) /\ t[n + 1] = x
      /\ \A i \in 1 .. n : t[i] = s[i]
  BY <1>1, AppendProperties, LenProperties
<1>3. S = T \ {n + 1} /\ (n + 1 \in T <=> x = f)
  <2> HIDE DEF t, n
  <2> QED
    BY <1>1, <1>2
<1>4. IsFiniteSet(T) /\ Due(t, f) = Cardinality(T) /\ Cardinality(T) \in Nat
  <2>1. t \in Seq(Fs)
    BY <1>2
  <2> HIDE DEF t
  <2> QED
    BY <2>1, DueIs DEF Due, Count
<1>5. Due(s, f) = Cardinality(S)
  BY DEF Due, Count
<1> HIDE DEF S, T, t
<1>6. Cardinality(T \ {n + 1}) = IF n + 1 \in T THEN Cardinality(T) - 1 ELSE Cardinality(T)
  BY <1>4, FS_RemoveElement
<1>7. Due(t, f) = Due(s, f) + One(x = f)
  BY <1>3, <1>4, <1>5, <1>6 DEF One
<1> QED
  BY <1>7 DEF t

LEMMA DueSingle ==
  ASSUME NEW x \in Fs, NEW f
  PROVE  Due(<<x>>, f) = One(x = f)
<1>1. <<>> \in Seq(Fs) /\ Append(<<>>, x) = <<x>>
  BY EmptySeq
<1>2. Due(Append(<<>>, x), f) = Due(<<>>, f) + One(x = f)
  <2> DEFINE e == <<>>
  <2>1. e \in Seq(Fs)
    BY <1>1
  <2> HIDE DEF e
  <2>2. Due(Append(e, x), f) = Due(e, f) + One(x = f)
    BY <2>1, DueAppend
  <2> QED
    BY <2>2 DEF e
<1> QED
  BY <1>1, <1>2, DueNone DEF One

\* A list without its first file.
LEMMA DueTail ==
  ASSUME NEW s \in Seq(Fs), s # <<>>, NEW f
  PROVE  Due(Tail(s), f) = Due(s, f) - One(Head(s) = f)
<1> DEFINE t == Tail(s)
           n == Len(s)
           S == { i \in DOMAIN s : s[i] = f }
           T == { i \in DOMAIN t : t[i] = f }
           m == [i \in S \ {1} |-> i - 1]
<1>1. n \in Nat \ {0} /\ DOMAIN s = 1 .. n /\ Head(s) = s[1]
  BY LenProperties, EmptySeq
<1>2. t \in Seq(Fs) /\ DOMAIN t = 1 .. (n - 1) /\ \A i \in 1 .. (n - 1) : t[i] = s[i + 1]
  BY <1>1, HeadTailProperties, LenProperties
<1>3. IsFiniteSet(S) /\ Due(s, f) = Cardinality(S) /\ Cardinality(S) \in Nat
  BY DueIs DEF Due, Count
<1>4. Due(t, f) = Cardinality(T)
  BY DEF Due, Count
<1>5. S \subseteq 1 .. n /\ (1 \in S <=> Head(s) = f)
  <2> HIDE DEF n
  <2> QED
    BY <1>1
<1>6. \A i \in S \ {1} : i - 1 \in T
  <2> SUFFICES ASSUME NEW i \in S, i # 1 PROVE i - 1 \in T
    OBVIOUS
  <2>1. i \in 1 .. n /\ s[i] = f
    BY <1>5
  <2> HIDE DEF t, n, S
  <2>2. i - 1 \in 1 .. (n - 1) /\ (i - 1) + 1 = i
    BY <1>1, <2>1
  <2> QED
    BY <1>2, <2>1, <2>2
<1>7. \A j \in T : j + 1 \in S \ {1} /\ (j + 1) - 1 = j
  <2> SUFFICES ASSUME NEW j \in T PROVE j + 1 \in S \ {1} /\ (j + 1) - 1 = j
    OBVIOUS
  <2>1. j \in 1 .. (n - 1) /\ t[j] = f
    BY <1>2
  <2> HIDE DEF t, n, T
  <2>2. j + 1 \in 1 .. n /\ j + 1 # 1 /\ (j + 1) - 1 = j
    BY <1>1, <2>1
  <2> QED
    BY <1>1, <1>2, <2>1, <2>2
<1> HIDE DEF S, T, t
<1>8. m \in [S \ {1} -> T]
  BY <1>6
<1>9. \A i, j \in S \ {1} : m[i] = m[j] => i = j
  BY <1>1, <1>5
<1>10. \A j \in T : \E i \in S \ {1} : m[i] = j
  BY <1>7
<1> HIDE DEF m
<1>11. m \in Bijection(S \ {1}, T)
  BY <1>8, <1>9, <1>10 DEF Bijection, Injection, Surjection, IsInjective
<1>12. IsFiniteSet(S \ {1})
       /\ Cardinality(S \ {1}) = IF 1 \in S THEN Cardinality(S) - 1 ELSE Cardinality(S)
  BY <1>3, FS_RemoveElement
<1>13. Cardinality(T) = Cardinality(S \ {1})
  BY <1>11, <1>12, FS_Bijection DEF ExistsBijection
<1>14. Due(t, f) = Due(s, f) - One(Head(s) = f)
  BY <1>3, <1>4, <1>5, <1>12, <1>13 DEF One
<1> QED
  BY <1>14 DEF t

------------------------------------------------------------------------------
(* References *)

DescOf(of, f) == Cardinality({ x \in Procs \X FDs : of[x[1]][x[2]] = f })
DueOf(td, f) ==
  Cardinality(UNION { {p} \X { i \in DOMAIN td[p] : td[p][i] = f } : p \in Procs })

\* The table of one process changes.
LEMMA DescUpdate ==
  ASSUME NEW of, NEW of2, NEW p \in Procs, SameBut(Procs, p, of, of2), NEW f
  PROVE  /\ DescOf(of, f) \in Nat /\ DescOf(of2, f) \in Nat
         /\ DescOf(of, f) >= Held(of[p], f)
         /\ DescOf(of2, f) = DescOf(of, f) - Held(of[p], f) + Held(of2[p], f)
<1> DEFINE R == [q \in Procs |-> { d \in FDs : of[q][d] = f }]
           T == [q \in Procs |-> { d \in FDs : of2[q][d] = f }]
<1>1. \A q \in Procs : IsFiniteSet(R[q]) /\ IsFiniteSet(T[q])
  BY HeldIs
<1>2. SameBut(Procs, p, R, T)
  BY DEF SameBut
<1>3. Rows(R) = { x \in Procs \X FDs : of[x[1]][x[2]] = f }
  BY DEF Rows
<1>4. Rows(T) = { x \in Procs \X FDs : of2[x[1]][x[2]] = f }
  BY DEF Rows
<1>5. DescOf(of, f) = Cardinality(Rows(R)) /\ DescOf(of2, f) = Cardinality(Rows(T))
  BY <1>3, <1>4 DEF DescOf
<1>6. Held(of[p], f) = Cardinality(R[p]) /\ Held(of2[p], f) = Cardinality(T[p])
  BY DEF Held, Count
<1> HIDE DEF R, T
<1>7. /\ Cardinality(Rows(R)) \in Nat /\ Cardinality(Rows(T)) \in Nat
      /\ Cardinality(R[p]) \in Nat /\ Cardinality(T[p]) \in Nat
      /\ Cardinality(Rows(T)) = Cardinality(Rows(R)) - Cardinality(R[p]) + Cardinality(T[p])
  BY <1>1, <1>2, RowsUpdate
<1>8. Cardinality(Rows(R)) >= Cardinality(R[p])
  <2> DEFINE A == UNION { {q} \X R[q] : q \in Procs \ {p} }
  <2>1. Cardinality(A) \in Nat /\ Cardinality(Rows(R)) = Cardinality(A) + Cardinality(R[p])
    BY <1>1, RowsSplit
  <2> HIDE DEF A
  <2> QED
    BY <1>7, <2>1
<1> QED
  BY <1>5, <1>6, <1>7, <1>8

\* The list of one process changes.
LEMMA DueUpdate ==
  ASSUME NEW td \in [Procs -> Seq(Fs)], NEW td2 \in [Procs -> Seq(Fs)],
         NEW p \in Procs, SameBut(Procs, p, td, td2), NEW f
  PROVE  /\ DueOf(td, f) \in Nat /\ DueOf(td2, f) \in Nat
         /\ DueOf(td, f) >= Due(td[p], f)
         /\ DueOf(td2, f) = DueOf(td, f) - Due(td[p], f) + Due(td2[p], f)
<1> DEFINE R == [q \in Procs |-> { i \in DOMAIN td[q] : td[q][i] = f }]
           T == [q \in Procs |-> { i \in DOMAIN td2[q] : td2[q][i] = f }]
<1>1. \A q \in Procs : IsFiniteSet(R[q]) /\ IsFiniteSet(T[q])
  <2> SUFFICES ASSUME NEW q \in Procs PROVE IsFiniteSet(R[q]) /\ IsFiniteSet(T[q])
    OBVIOUS
  <2>1. td[q] \in Seq(Fs) /\ td2[q] \in Seq(Fs)
    OBVIOUS
  <2> QED
    BY <2>1, DueIs
<1>2. SameBut(Procs, p, R, T)
  BY DEF SameBut
<1>3. Rows(R) = UNION { {q} \X { i \in DOMAIN td[q] : td[q][i] = f } : q \in Procs }
  BY DEF Rows
<1>4. Rows(T) = UNION { {q} \X { i \in DOMAIN td2[q] : td2[q][i] = f } : q \in Procs }
  BY DEF Rows
<1>5. DueOf(td, f) = Cardinality(Rows(R)) /\ DueOf(td2, f) = Cardinality(Rows(T))
  BY <1>3, <1>4 DEF DueOf
<1>6. Due(td[p], f) = Cardinality(R[p]) /\ Due(td2[p], f) = Cardinality(T[p])
  BY DEF Due, Count
<1> HIDE DEF R, T
<1>7. /\ Cardinality(Rows(R)) \in Nat /\ Cardinality(Rows(T)) \in Nat
      /\ Cardinality(R[p]) \in Nat /\ Cardinality(T[p]) \in Nat
      /\ Cardinality(Rows(T)) = Cardinality(Rows(R)) - Cardinality(R[p]) + Cardinality(T[p])
  BY <1>1, <1>2, RowsUpdate
<1>8. Cardinality(Rows(R)) >= Cardinality(R[p])
  <2> DEFINE A == UNION { {q} \X R[q] : q \in Procs \ {p} }
  <2>1. Cardinality(A) \in Nat /\ Cardinality(Rows(R)) = Cardinality(A) + Cardinality(R[p])
    BY <1>1, RowsSplit
  <2> HIDE DEF A
  <2> QED
    BY <1>7, <2>1
<1> QED
  BY <1>5, <1>6, <1>7, <1>8

\* Two places in the lists that have a file.
LEMMA DueTwice ==
  ASSUME NEW td \in [Procs -> Seq(Fs)], NEW f, NEW p \in Procs, NEW q \in Procs, p # q,
         Due(td[p], f) > 0, Due(td[q], f) > 0
  PROVE  DueOf(td, f) > 1
<1> DEFINE td2 == [td EXCEPT ![p] = <<>>]
<1>1. td2 \in [Procs -> Seq(Fs)] /\ td2[p] = <<>> /\ td2[q] = td[q] /\ SameBut(Procs, p, td, td2)
  BY EmptySeq DEF SameBut
<1>2. td2[p] \in Seq(Fs) /\ td[p] \in Seq(Fs)
  BY <1>1
<1> HIDE DEF td2
<1>3. /\ DueOf(td, f) \in Nat /\ DueOf(td2, f) \in Nat
      /\ DueOf(td2, f) = DueOf(td, f) - Due(td[p], f) + Due(td2[p], f)
  BY <1>1, DueUpdate, ZenonT(40)
<1>4. SameBut(Procs, q, td2, td2)
  BY DEF SameBut
<1>5. DueOf(td2, f) >= Due(td2[q], f)
  BY <1>1, <1>4, DueUpdate
<1>6. Due(td2[p], f) = 0 /\ Due(td[p], f) \in Nat /\ Due(td[q], f) \in Nat
  BY <1>1, <1>2, DueNone, DueIs
<1> QED
  BY <1>1, <1>3, <1>5, <1>6

RefsRight == \A f \in Fs : ref[f] = Descriptors(f) + InFlight(f)

\* Who has a file: its count tells.
LEMMA CountTells ==
  ASSUME TypeOK, RefsRight, NEW p \in Procs
  PROVE  /\ \A d \in FDs : ofile[p][d] \in Fs => ref[ofile[p][d]] > 0
         /\ \A i \in DOMAIN todo[p] : todo[p][i] \in Fs /\ ref[todo[p][i]] > 0
         /\ \A i, j \in DOMAIN todo[p] : i # j /\ todo[p][i] = todo[p][j] => ref[todo[p][i]] > 1
         /\ \A q \in Procs, i \in DOMAIN todo[p], d \in FDs :
              todo[p][i] = ofile[q][d] => ref[todo[p][i]] > 1
         /\ \A q \in Procs, i \in DOMAIN todo[p] : q # p =>
              \A j \in DOMAIN todo[q] : todo[p][i] = todo[q][j] => ref[todo[p][i]] > 1
<1>0. /\ todo \in [Procs -> Seq(Fs)] /\ \A q \in Procs : todo[q] \in Seq(Fs)
      /\ \A q \in Procs : SameBut(Procs, q, ofile, ofile) /\ SameBut(Procs, q, todo, todo)
  BY DEF TypeOK, SameBut
<1>1. \A f \in Fs : ref[f] = DescOf(ofile, f) + DueOf(todo, f)
  BY DEF RefsRight, Descriptors, InFlight, DescOf, DueOf
<1>2. \A f, q : q \in Procs =>
         /\ DescOf(ofile, f) \in Nat /\ DueOf(todo, f) \in Nat
         /\ DescOf(ofile, f) >= Held(ofile[q], f) /\ DueOf(todo, f) >= Due(todo[q], f)
  BY <1>0, DescUpdate, DueUpdate
<1>3. \A q \in Procs, d \in FDs : Held(ofile[q], ofile[q][d]) > 0
  BY HeldIs
<1>4. \A q \in Procs : \A i \in DOMAIN todo[q] : Due(todo[q], todo[q][i]) > 0
  BY <1>0, DueIs
<1>5. \A q \in Procs : \A i \in DOMAIN todo[q] : todo[q][i] \in Fs
  BY <1>0, LenProperties
<1>6. \A f, q : q \in Procs => Held(ofile[q], f) \in Nat /\ Due(todo[q], f) \in Nat
  BY <1>0, HeldIs, DueIs
<1>7. ASSUME NEW d \in FDs, ofile[p][d] \in Fs PROVE ref[ofile[p][d]] > 0
  <2> DEFINE f == ofile[p][d]
  <2>1. Held(ofile[p], f) > 0
    BY <1>3
  <2>2. f \in Fs
    BY <1>7
  <2> HIDE DEF f
  <2>3. ref[f] > 0
    <3>1. ref[f] = DescOf(ofile, f) + DueOf(todo, f)
      BY <1>1, <2>2
    <3>2. /\ DescOf(ofile, f) \in Nat /\ DueOf(todo, f) \in Nat
          /\ DescOf(ofile, f) >= Held(ofile[p], f) /\ DueOf(todo, f) >= Due(todo[p], f)
          /\ Held(ofile[p], f) \in Nat /\ Due(todo[p], f) \in Nat
      BY <1>2, <1>6
    <3> QED
      BY ONLY <3>1, <3>2, <2>1
  <2> QED
    BY <2>3 DEF f
<1>8. ASSUME NEW i \in DOMAIN todo[p] PROVE todo[p][i] \in Fs /\ ref[todo[p][i]] > 0
  <2> DEFINE f == todo[p][i]
  <2>1. Due(todo[p], f) > 0 /\ f \in Fs
    BY <1>4, <1>5
  <2> HIDE DEF f
  <2>2. ref[f] > 0
    <3>1. ref[f] = DescOf(ofile, f) + DueOf(todo, f)
      BY <1>1, <2>1
    <3>2. /\ DescOf(ofile, f) \in Nat /\ DueOf(todo, f) \in Nat
          /\ DescOf(ofile, f) >= Held(ofile[p], f) /\ DueOf(todo, f) >= Due(todo[p], f)
          /\ Held(ofile[p], f) \in Nat /\ Due(todo[p], f) \in Nat
      BY <1>2, <1>6
    <3> QED
      BY ONLY <3>1, <3>2, <2>1
  <2> QED
    BY <2>1, <2>2 DEF f
<1>9. ASSUME NEW i \in DOMAIN todo[p], NEW j \in DOMAIN todo[p], i # j, todo[p][i] = todo[p][j]
      PROVE  ref[todo[p][i]] > 1
  <2> DEFINE f == todo[p][i]
  <2>1. Due(todo[p], f) > 1 /\ f \in Fs
    BY <1>0, <1>5, <1>9, DueIs
  <2> HIDE DEF f
  <2>2. ref[f] > 1
    <3>1. ref[f] = DescOf(ofile, f) + DueOf(todo, f)
      BY <1>1, <2>1
    <3>2. /\ DescOf(ofile, f) \in Nat /\ DueOf(todo, f) \in Nat
          /\ DescOf(ofile, f) >= Held(ofile[p], f) /\ DueOf(todo, f) >= Due(todo[p], f)
          /\ Held(ofile[p], f) \in Nat /\ Due(todo[p], f) \in Nat
      BY <1>2, <1>6
    <3> QED
      BY ONLY <3>1, <3>2, <2>1
  <2> QED
    BY <2>2 DEF f
<1>10. ASSUME NEW q \in Procs, NEW i \in DOMAIN todo[p], NEW d \in FDs, todo[p][i] = ofile[q][d]
       PROVE  ref[todo[p][i]] > 1
  <2> DEFINE f == todo[p][i]
  <2>1. Due(todo[p], f) > 0 /\ f \in Fs
    BY <1>4, <1>5
  <2>2. Held(ofile[q], f) > 0
    BY <1>3, <1>10
  <2> HIDE DEF f
  <2>3. ref[f] > 1
    <3>1. ref[f] = DescOf(ofile, f) + DueOf(todo, f)
      BY <1>1, <2>1
    <3>2. /\ DescOf(ofile, f) \in Nat /\ DueOf(todo, f) \in Nat
          /\ DescOf(ofile, f) >= Held(ofile[q], f) /\ DueOf(todo, f) >= Due(todo[p], f)
          /\ Held(ofile[q], f) \in Nat /\ Due(todo[p], f) \in Nat
      BY <1>2, <1>6
    <3> QED
      BY ONLY <3>1, <3>2, <2>1, <2>2
  <2> QED
    BY <2>3 DEF f
<1>11. ASSUME NEW q \in Procs, NEW i \in DOMAIN todo[p], q # p, NEW j \in DOMAIN todo[q],
              todo[p][i] = todo[q][j]
       PROVE  ref[todo[p][i]] > 1
  <2> DEFINE f == todo[p][i]
  <2>1. Due(todo[p], f) > 0 /\ f \in Fs
    BY <1>4, <1>5
  <2>2. Due(todo[q], f) > 0
    BY <1>4, <1>11
  <2> HIDE DEF f
  <2>3. DueOf(todo, f) > 1
    BY <1>0, <1>11, <2>1, <2>2, DueTwice
  <2>4. ref[f] > 1
    BY <1>1, <1>2, <1>6, <2>1, <2>3
  <2> QED
    BY <2>4 DEF f
<1> QED
  BY <1>7, <1>8, <1>9, <1>10, <1>11

\* What a step changes in the table and in the list of one process, ref follows.
Follows(p, q) ==
  \A f \in Fs :
    ref'[f] = ref[f] - Held(ofile[q], f) + Held(ofile'[q], f)
                     - Due(todo[p], f) + Due(todo'[p], f)

LEMMA RefsFollow ==
  ASSUME TypeOK, TypeOK', RefsRight, NEW p \in Procs, NEW q \in Procs, Follows(p, q),
         SameBut(Procs, q, ofile, ofile'), SameBut(Procs, p, todo, todo')
  PROVE  RefsRight'
<1>0. todo \in [Procs -> Seq(Fs)] /\ todo' \in [Procs -> Seq(Fs)]
  BY DEF TypeOK
<1>1. ASSUME NEW f \in Fs PROVE ref'[f] = DescOf(ofile', f) + DueOf(todo', f)
  <2>1. ref[f] = DescOf(ofile, f) + DueOf(todo, f)
    BY DEF RefsRight, Descriptors, InFlight, DescOf, DueOf
  <2>2. /\ DescOf(ofile, f) \in Nat /\ DescOf(ofile', f) \in Nat
        /\ DescOf(ofile', f) = DescOf(ofile, f) - Held(ofile[q], f) + Held(ofile'[q], f)
    BY DescUpdate
  <2>3. /\ DueOf(todo, f) \in Nat /\ DueOf(todo', f) \in Nat
        /\ DueOf(todo', f) = DueOf(todo, f) - Due(todo[p], f) + Due(todo'[p], f)
    BY <1>0, DueUpdate, ZenonT(40)
  <2>4. /\ Held(ofile[q], f) \in Nat /\ Held(ofile'[q], f) \in Nat
        /\ Due(todo[p], f) \in Nat /\ Due(todo'[p], f) \in Nat
    <3>1. todo[p] \in Seq(Fs) /\ todo'[p] \in Seq(Fs)
      BY <1>0
    <3> QED
      BY <3>1, HeldIs, DueIs
  <2>5. ref'[f] = ref[f] - Held(ofile[q], f) + Held(ofile'[q], f)
                         - Due(todo[p], f) + Due(todo'[p], f)
    BY DEF Follows
  <2> QED
    BY ONLY <2>1, <2>2, <2>3, <2>4, <2>5
<1> QED
  BY <1>1 DEF RefsRight, Descriptors, InFlight, DescOf, DueOf

------------------------------------------------------------------------------
(* Kinds of files, and ends of pipes *)

LEMMA Kinds ==
  /\ FreeFile \in FileType /\ InodeFile \in FileType /\ FreeFile # InodeFile
  /\ FreeFile.type = "FD_NONE" /\ InodeFile.type = "FD_INODE"
  /\ \A g, e : /\ PipeFile(g, e) # FreeFile /\ PipeFile(g, e) # InodeFile
               /\ PipeFile(g, e).type = "FD_PIPE"
               /\ PipeFile(g, e).pipe = g /\ PipeFile(g, e).mode = {e}
  /\ \A g \in Pages, e \in Ends : PipeFile(g, e) \in FileType
  /\ \A x \in FileType : \/ x = FreeFile \/ x = InodeFile
                         \/ \E g \in Pages, e \in Ends : x = PipeFile(g, e)
<1>1. FreeFile.type = "FD_NONE" /\ InodeFile.type = "FD_INODE"
  BY DEF FreeFile, InodeFile
<1>2. ASSUME NEW g, NEW e
      PROVE  /\ PipeFile(g, e).type = "FD_PIPE"
             /\ PipeFile(g, e).pipe = g /\ PipeFile(g, e).mode = {e}
  BY DEF PipeFile
<1>3. FreeFile # InodeFile /\ \A g, e : PipeFile(g, e) # FreeFile /\ PipeFile(g, e) # InodeFile
  BY <1>1, <1>2
<1>4. /\ FreeFile \in FileType /\ InodeFile \in FileType
      /\ \A g \in Pages, e \in Ends : PipeFile(g, e) \in FileType
  BY DEF FileType
<1>5. \A x \in FileType : \/ x = FreeFile \/ x = InodeFile
                         \/ \E g \in Pages, e \in Ends : x = PipeFile(g, e)
  BY DEF FileType
<1> QED
  BY <1>1, <1>2, <1>3, <1>4, <1>5

LEMMA SamePipeFile ==
  ASSUME NEW g, NEW e, NEW h, NEW d, PipeFile(g, e) = PipeFile(h, d)
  PROVE  g = h /\ e = d
<1>1. PipeFile(g, e).pipe = g /\ PipeFile(g, e).mode = {e}
  BY Kinds
<1>2. PipeFile(h, d).pipe = h /\ PipeFile(h, d).mode = {d}
  BY Kinds
<1>3. g = h /\ {e} = {d}
  BY <1>1, <1>2
<1> QED
  BY <1>3

\* How many files of the table, and files on their way out of it, are of a kind.
Uses(fs, l, v) == Count(Fs, fs, v) + Count(Procs, l, v)

LEMMA UsesUpdate ==
  ASSUME NEW fs, NEW fs2, NEW f \in Fs, SameBut(Fs, f, fs, fs2),
         NEW l, NEW l2, NEW p \in Procs, SameBut(Procs, p, l, l2), NEW v
  PROVE  /\ Uses(fs, l, v) \in Nat /\ Uses(fs2, l2, v) \in Nat
         /\ Uses(fs2, l2, v) = Uses(fs, l, v) - One(fs[f] = v) + One(fs2[f] = v)
                                               - One(l[p] = v) + One(l2[p] = v)
<1>1. IsFiniteSet(Fs) /\ IsFiniteSet(Procs)
  BY Constants
<1>2. /\ Count(Fs, fs, v) \in Nat /\ Count(Fs, fs2, v) \in Nat
      /\ Count(Fs, fs2, v) = Count(Fs, fs, v) - One(fs[f] = v) + One(fs2[f] = v)
  BY <1>1, CountUpdate
<1>3. /\ Count(Procs, l, v) \in Nat /\ Count(Procs, l2, v) \in Nat
      /\ Count(Procs, l2, v) = Count(Procs, l, v) - One(l[p] = v) + One(l2[p] = v)
  BY <1>1, CountUpdate
<1>4. /\ One(fs[f] = v) \in Int /\ One(fs2[f] = v) \in Int
      /\ One(l[p] = v) \in Int /\ One(l2[p] = v) \in Int
  BY DEF One
<1> QED
  BY ONLY <1>2, <1>3, <1>4 DEF Uses

IrefRight == iref = Uses(file, last, InodeFile)
EndsRight ==
  \A g \in Pages, e \in Ends : Uses(file, last, PipeFile(g, e)) = One(e \in pipe[g].ends)

LEMMA CountsAre ==
  ASSUME TypeOK
  PROVE  (RefsExact <=> RefsRight /\ IrefRight) /\ (EndsExact <=> EndsRight)
<1>1. \A x \in FileType : x.type = "FD_INODE" <=> x = InodeFile
  BY Kinds
<1>2. { f \in Fs : file[f].type = "FD_INODE" } = { f \in Fs : file[f] = InodeFile }
  BY <1>1 DEF TypeOK
<1>3. { p \in Procs : last[p].type = "FD_INODE" } = { p \in Procs : last[p] = InodeFile }
  BY <1>1 DEF TypeOK
<1>4. Cardinality({ f \in Fs : file[f].type = "FD_INODE" })
        + Cardinality({ p \in Procs : last[p].type = "FD_INODE" }) = Uses(file, last, InodeFile)
  BY <1>2, <1>3 DEF Uses, Count
<1>5. RefsExact <=> RefsRight /\ IrefRight
  BY <1>4 DEF RefsExact, RefsRight, IrefRight
<1>6. EndsExact <=> EndsRight
  BY DEF EndsExact, EndsRight, Uses, Count, One
<1> QED
  BY <1>5, <1>6

\* A file is open for an end only if the end is open, and only one is.
LEMMA EndsTell ==
  ASSUME TypeOK, EndsRight, NEW g \in Pages, NEW e \in Ends
  PROVE  /\ \A f \in Fs : file[f] = PipeFile(g, e) => e \in pipe[g].ends
         /\ \A p \in Procs : last[p] = PipeFile(g, e) => e \in pipe[g].ends
<1> DEFINE v == PipeFile(g, e)
           F == { f \in Fs : file[f] = v }
           P == { p \in Procs : last[p] = v }
<1>1. Uses(file, last, v) = Cardinality(F) + Cardinality(P)
  BY DEF Uses, Count
<1>2. Uses(file, last, v) = One(e \in pipe[g].ends)
  BY DEF EndsRight
<1>3. F \in SUBSET Fs /\ P \in SUBSET Procs
  OBVIOUS
<1>4. (\A f \in Fs : file[f] = v => F # {}) /\ (\A p \in Procs : last[p] = v => P # {})
  OBVIOUS
<1> HIDE DEF F, P
<1>5. IsFiniteSet(F) /\ IsFiniteSet(P)
  BY <1>3, Constants, FS_Subset
<1>6. /\ Cardinality(F) \in Nat /\ Cardinality(P) \in Nat
      /\ (Cardinality(F) = 0 <=> F = {}) /\ (Cardinality(P) = 0 <=> P = {})
  BY <1>5, FS_CardinalityType, FS_EmptySet
<1>7. F # {} \/ P # {} => e \in pipe[g].ends
  BY <1>1, <1>2, <1>6 DEF One
<1> QED
  BY <1>4, <1>7

------------------------------------------------------------------------------
(* What a step leaves as it was *)

Inv ==
  /\ TypeOK /\ (\A p \in Procs : Fine(p)) /\ Forks /\ FreeClean
  /\ RefsRight /\ IrefRight /\ EndsRight /\ Ring /\ Sleeps

LEMMA InvIs == (IInv <=> Inv) /\ (IInv' <=> Inv')
<1>1. IInv <=> Inv
  BY CountsAre DEF IInv, Inv
<1>2. TypeOK' => (RefsExact' <=> RefsRight' /\ IrefRight') /\ (EndsExact' <=> EndsRight')
  BY CountsAre, PTL
<1>3. IInv' <=> Inv'
  BY <1>2 DEF IInv, Inv
<1> QED
  BY <1>1, <1>3

\* The step is of p: what belongs to the others stays.
StepOf(p) ==
  /\ SameBut(Procs, p, ofile, ofile') /\ SameBut(Procs, p, todo, todo')
  /\ SameBut(Procs, p, last, last') /\ SameBut(Procs, p, io, io')
  /\ SameBut(Procs, p, pc, pc') /\ SameBut(Procs, p, child, child')
  /\ \A q \in Procs \ {p} : q \in exiting' <=> q \in exiting

\* A process that the step is not of, and whose files it does not touch.
LEMMA OtherFine ==
  ASSUME Inv, NEW p \in Procs, StepOf(p), NEW q \in Procs, q # p,
         \A d \in FDs : ofile[q][d] \in Fs => file'[ofile[q][d]] = file[ofile[q][d]],
         pc[q] \in Half => \A i \in DOMAIN todo[q] : /\ ref'[todo[q][i]] = ref[todo[q][i]]
                                                     /\ file'[todo[q][i]] = file[todo[q][i]]
  PROVE  Fine(q)'
<1>0. Fine(q) /\ ofile[q] \in [FDs -> Fs \cup {NoFile}]
  BY DEF Inv, TypeOK
<1>1. /\ ofile'[q] = ofile[q] /\ todo'[q] = todo[q] /\ last'[q] = last[q] /\ io'[q] = io[q]
      /\ pc'[q] = pc[q] /\ (q \in exiting' <=> q \in exiting)
  BY DEF StepOf, SameBut
<1>2. TodoRight(q)'
  BY <1>0, <1>1 DEF Fine, TodoRight
<1>3. HalfMade(q)'
  BY <1>0, <1>1 DEF Fine, HalfMade
<1>4. LastRight(q)'
  BY <1>0, <1>1 DEF Fine, LastRight
<1>5. CallRight(q)'
  <2>1. pc[q] \notin Ends => io'[q] = NoCall
    BY <1>0, <1>1 DEF Fine, CallRight
  <2>2. ASSUME pc[q] \in Ends
        PROVE  /\ io'[q].pipe \in Pages
               /\ \E d \in FDs : /\ ofile'[q][d] # NoFile
                                 /\ file'[ofile'[q][d]] = PipeFile(io'[q].pipe, pc'[q])
    <3>1. io[q].pipe \in Pages
      BY <1>0, <2>2 DEF Fine, CallRight
    <3>2. PICK d \in FDs : /\ ofile[q][d] # NoFile
                           /\ file[ofile[q][d]] = PipeFile(io[q].pipe, pc[q])
      BY <1>0, <2>2 DEF Fine, CallRight
    <3>3. file'[ofile[q][d]] = file[ofile[q][d]]
      BY <1>0, <3>2
    <3> QED
      BY <1>1, <3>1, <3>2, <3>3
  <2> QED
    BY <1>1, <2>1, <2>2 DEF CallRight
<1>6. EmptyHanded(q)'
  BY <1>0, <1>1 DEF Fine, EmptyHanded
<1> QED
  BY <1>2, <1>3, <1>4, <1>5, <1>6 DEF Fine

\* The files that a step of p has to do with are not those that others rely on.
LEMMA NotTheirs ==
  ASSUME Inv, NEW p \in Procs, NEW q \in Procs, q # p
  PROVE  /\ \A f \in Fs : ref[f] = 0 =>
              (\A d \in FDs : ofile[q][d] # f) /\ (\A i \in DOMAIN todo[q] : todo[q][i] # f)
         /\ \A j \in DOMAIN todo[p] : ref[todo[p][j]] = 1 =>
              /\ \A d \in FDs : ofile[q][d] # todo[p][j]
              /\ \A i \in DOMAIN todo[q] : todo[q][i] # todo[p][j]
         /\ pc[q] \in Half => \A i \in DOMAIN todo[q] :
              /\ \A d \in FDs : todo[q][i] # ofile[p][d]
              /\ \A j \in DOMAIN todo[p] : todo[q][i] # todo[p][j]
<1>0. TypeOK /\ RefsRight /\ Fine(q)
  BY DEF Inv
<1>1. ASSUME NEW f \in Fs, ref[f] = 0
      PROVE  (\A d \in FDs : ofile[q][d] # f) /\ (\A i \in DOMAIN todo[q] : todo[q][i] # f)
  BY <1>0, <1>1, CountTells
<1>2. ASSUME NEW j \in DOMAIN todo[p], ref[todo[p][j]] = 1
      PROVE  /\ \A d \in FDs : ofile[q][d] # todo[p][j]
             /\ \A i \in DOMAIN todo[q] : todo[q][i] # todo[p][j]
  BY <1>0, <1>2, CountTells
<1>3. ASSUME pc[q] \in Half, NEW i \in DOMAIN todo[q]
      PROVE  /\ \A d \in FDs : todo[q][i] # ofile[p][d]
             /\ \A j \in DOMAIN todo[p] : todo[q][i] # todo[p][j]
  <2>1. ref[todo[q][i]] = 1
    BY <1>0, <1>3 DEF Fine, HalfMade
  <2> QED
    BY <1>0, <2>1, CountTells
<1> QED
  BY <1>1, <1>2, <1>3

\* Where nobody forks, forks are as they were.
LEMMA ForksKept ==
  ASSUME Inv, NEW p \in Procs, StepOf(p), pc[p] \notin {"fork", "new"}, pc'[p] # "fork"
  PROVE  Forks'
<1>0. Forks /\ child \in [Procs -> Procs]
  BY DEF Inv, TypeOK
<1>1. \A q \in Procs \ {p} : pc'[q] = pc[q] /\ child'[q] = child[q] /\ ofile'[q] = ofile[q]
  BY DEF StepOf, SameBut
<1>2. ASSUME NEW q \in Procs, pc'[q] = "fork"
      PROVE  /\ q # p /\ pc[q] = "fork" /\ child'[q] = child[q]
             /\ pc'[child'[q]] = "new"
             /\ \A d \in FDs : ofile'[child'[q]][d] \in {ofile'[q][d], NoFile}
  <2>1. q # p /\ pc[q] = "fork" /\ child'[q] = child[q] /\ child[q] \in Procs
    BY <1>0, <1>1, <1>2
  <2>2. /\ pc[child[q]] = "new"
        /\ \A d \in FDs : ofile[child[q]][d] \in {ofile[q][d], NoFile}
    BY <1>0, <2>1 DEF Forks
  <2>3. child[q] # p
    BY <2>2
  <2>4. ofile'[child[q]] = ofile[child[q]] /\ ofile'[q] = ofile[q]
        /\ pc'[child[q]] = pc[child[q]]
    BY <1>1, <2>1, <2>3
  <2> QED
    BY <2>1, <2>2, <2>4
<1>3. ASSUME NEW q \in Procs, NEW r \in Procs, pc'[q] = "fork", pc'[r] = "fork",
             child'[q] = child'[r]
      PROVE  q = r
  BY <1>0, <1>2, <1>3 DEF Forks
<1> QED
  BY <1>2, <1>3 DEF Forks

\* Nothing happens to the pipes, and nobody falls asleep.
LEMMA PipesKept ==
  ASSUME Inv, UNCHANGED pipe, \A q \in Procs : chan'[q] \in {chan[q], NoChan}
  PROVE  Ring' /\ Sleeps'
<1>0. Ring /\ Sleeps
  BY DEF Inv
<1>1. Ring'
  BY <1>0 DEF Ring
<1>2. ASSUME NEW q \in Procs, chan'[q] # NoChan
      PROVE  /\ chan'[q][1] = "nwrite" => Full(pipe'[chan'[q][2]])
                                         /\ "read" \in pipe'[chan'[q][2]].ends
             /\ chan'[q][1] = "nread" => /\ "write" \in pipe'[chan'[q][2]].ends
                                         /\ Empty(pipe'[chan'[q][2]])
                                            \/ pipe'[chan'[q][2]].untold
  <2>1. chan'[q] = chan[q]
    BY <1>2
  <2> QED
    BY <1>0, <1>2, <2>1 DEF Sleeps
<1> QED
  BY <1>1, <1>2 DEF Sleeps

\* The tables, and with them the counts, are as they were.
LEMMA CountsKept ==
  ASSUME Inv, UNCHANGED <<ofile, ref, file, iref, todo, last>>,
         \A g \in Pages : pipe'[g].ends = pipe[g].ends
  PROVE  FreeClean' /\ RefsRight' /\ IrefRight' /\ EndsRight'
<1>1. FreeClean /\ RefsRight /\ IrefRight /\ EndsRight
  BY DEF Inv
<1>2. FreeClean'
  BY <1>1 DEF FreeClean
<1>3. RefsRight'
  BY <1>1 DEF RefsRight, Descriptors, InFlight
<1>4. IrefRight'
  BY <1>1 DEF IrefRight
<1>5. EndsRight'
  BY <1>1 DEF EndsRight
<1> QED
  BY <1>2, <1>3, <1>4, <1>5

------------------------------------------------------------------------------
\* The files of the table that a step of p changes: free ones, those that p alone has,
\* and the counts of those that it shares.
OwnOnly(p) ==
  \A f \in Fs :
    \/ file'[f] = file[f] /\ ref'[f] = ref[f]
    \/ ref[f] = 0
    \/ \E i \in DOMAIN todo[p] : f = todo[p][i] /\ ref[f] = 1
    \/ /\ file'[f] = file[f]
       /\ (\E d \in FDs : f = ofile[p][d]) \/ (\E i \in DOMAIN todo[p] : f = todo[p][i])

LEMMA OthersFine ==
  ASSUME Inv, NEW p \in Procs, StepOf(p), OwnOnly(p)
  PROVE  \A q \in Procs \ {p} : Fine(q)'
<1> SUFFICES ASSUME NEW q \in Procs, q # p PROVE Fine(q)'
  OBVIOUS
<1>0. todo[q] \in Seq(Fs)
  BY DEF Inv, TypeOK
<1>1. /\ \A f \in Fs : ref[f] = 0 =>
           (\A d \in FDs : ofile[q][d] # f) /\ (\A i \in DOMAIN todo[q] : todo[q][i] # f)
      /\ \A j \in DOMAIN todo[p] : ref[todo[p][j]] = 1 =>
           /\ \A d \in FDs : ofile[q][d] # todo[p][j]
           /\ \A i \in DOMAIN todo[q] : todo[q][i] # todo[p][j]
      /\ pc[q] \in Half => \A i \in DOMAIN todo[q] :
           /\ \A d \in FDs : todo[q][i] # ofile[p][d]
           /\ \A j \in DOMAIN todo[p] : todo[q][i] # todo[p][j]
  BY NotTheirs
<1>2. ASSUME NEW d \in FDs, ofile[q][d] \in Fs PROVE file'[ofile[q][d]] = file[ofile[q][d]]
  BY <1>1, <1>2 DEF OwnOnly
<1>3. ASSUME pc[q] \in Half, NEW i \in DOMAIN todo[q]
      PROVE  ref'[todo[q][i]] = ref[todo[q][i]] /\ file'[todo[q][i]] = file[todo[q][i]]
  <2>1. todo[q][i] \in Fs
    BY <1>0, LenProperties
  <2> QED
    BY <1>1, <1>3, <2>1 DEF OwnOnly
<1> QED
  BY <1>2, <1>3, OtherFine

\* What there is to show of a step of one process that does not fork.
LEMMA Together ==
  ASSUME Inv, NEW p \in Procs, StepOf(p), OwnOnly(p),
         pc[p] \notin {"fork", "new"}, pc'[p] # "fork", TypeOK', Fine(p)',
         FreeClean', RefsRight', IrefRight', EndsRight', Ring', Sleeps'
  PROVE  Inv'
<1>1. \A q \in Procs : Fine(q)'
  BY OthersFine
<1>2. Forks'
  BY ForksKept
<1> QED
  BY <1>1, <1>2 DEF Inv

\* A step that leaves the tables as they were.
Untouched ==
  /\ UNCHANGED <<ofile, ref, file, iref, todo, last>>
  /\ \A g \in Pages : pipe'[g].ends = pipe[g].ends

LEMMA TogetherUntouched ==
  ASSUME Inv, NEW p \in Procs, StepOf(p), Untouched,
         pc[p] \notin {"fork", "new"}, pc'[p] # "fork", TypeOK', Fine(p)', Ring', Sleeps'
  PROVE  Inv'
<1>1. OwnOnly(p)
  BY DEF Untouched, OwnOnly
<1>2. FreeClean' /\ RefsRight' /\ IrefRight' /\ EndsRight'
  BY CountsKept DEF Untouched
<1> QED
  BY <1>1, <1>2, Together

------------------------------------------------------------------------------
(* Steps that leave files and pipes alone *)

\* The first byte of a call is refused, or the call itself.
LEMMA RefuseKeeps ==
  ASSUME Inv, NEW p \in Procs, Syscall(p), Goto(p, "user"),
         UNCHANGED <<tables, calls, pipe, chan, killed>>
  PROVE  Inv'
<1>0. TypeOK /\ Fine(p) /\ pc[p] = "user"
  BY DEF Inv, Syscall, At
<1>1. TypeOK' /\ pc'[p] = "user"
  BY <1>0 DEF TypeOK, Goto, tables, calls, Labels
<1>2. StepOf(p) /\ Untouched
  BY <1>0 DEF StepOf, SameBut, Untouched, TypeOK, Goto, tables, calls
<1>3. Fine(p)'
  BY <1>0, <1>1 DEF Fine, TodoRight, HalfMade, LastRight, CallRight, EmptyHanded,
                    Half, Ends, tables, calls
<1>4. Ring' /\ Sleeps'
  BY PipesKept DEF tables, calls
<1> QED
  BY <1>0, <1>1, <1>2, <1>3, <1>4, TogetherUntouched

\* A read or a write begins.
LEMMA CallKeeps ==
  ASSUME Inv, NEW p \in Procs, NEW d \in FDs, NEW e \in Ends, NEW arg \in IoType,
         Call(p, d, e, arg)
  PROVE  Inv'
<1> DEFINE f == file[ofile[p][d]]
           c == [arg EXCEPT !.pipe = f.pipe]
<1>0. TypeOK /\ Fine(p) /\ pc[p] = "user" /\ ofile[p][d] \in Fs
  BY DEF Inv, Call, Syscall, At, Open, TypeOK
<1>1. f.type = "FD_PIPE" /\ e \in f.mode /\ f \in FileType
  BY <1>0 DEF Call, TypeOK
<1>2. f.pipe \in Pages /\ f = PipeFile(f.pipe, e)
  <2>1. PICK g \in Pages, x \in Ends : f = PipeFile(g, x)
    BY <1>1, Kinds
  <2>2. f.pipe = g /\ f.mode = {x}
    BY <2>1, Kinds
  <2> QED
    BY <1>1, <2>1, <2>2
<1>3. io' = [io EXCEPT ![p] = c] /\ pc' = [pc EXCEPT ![p] = e] /\ e \in Labels
      /\ UNCHANGED <<tables, pipe, todo, last, child, exiting, failed, chan, killed>>
  BY DEF Call, Goto, Ends, Labels
<1>4. c \in IoType /\ c.pipe = f.pipe
  BY <1>2 DEF IoType
<1> HIDE DEF c, f
<1>5. io' \in [Procs -> IoType] /\ pc' \in [Procs -> Labels] /\ io'[p] = c /\ pc'[p] = e
  BY <1>0, <1>3, <1>4 DEF TypeOK
<1>6. TypeOK'
  BY <1>0, <1>3, <1>5 DEF TypeOK, tables
<1>7. StepOf(p) /\ Untouched
  BY <1>0, <1>3 DEF StepOf, SameBut, Untouched, TypeOK, tables
<1>8. Fine(p)'
  <2>1. TodoRight(p)' /\ HalfMade(p)' /\ LastRight(p)' /\ EmptyHanded(p)'
    BY <1>0, <1>3, <1>5 DEF Fine, TodoRight, HalfMade, LastRight, EmptyHanded, Half, Ends, tables
  <2>2. ofile'[p][d] # NoFile /\ file'[ofile'[p][d]] = PipeFile(io'[p].pipe, pc'[p])
    <3>1. NoFile \notin Fs
      BY Constants
    <3> QED
      BY <1>0, <1>2, <1>3, <1>4, <1>5, <3>1 DEF f, tables
  <2>3. CallRight(p)'
    BY <1>2, <1>4, <1>5, <2>2 DEF CallRight, Ends
  <2> QED
    BY <2>1, <2>3 DEF Fine
<1>9. Ring' /\ Sleeps'
  BY <1>3, PipesKept
<1> QED
  BY <1>0, <1>5, <1>6, <1>7, <1>8, <1>9, TogetherUntouched DEF Ends

LEMMA NoCallIs == NoCall \in IoType
<1>1. <<>> \in Seq(Bytes)
  BY EmptySeq
<1> QED
  BY <1>1 DEF NoCall, IoType

\* A call that is over leaves nothing of itself behind.
LEMMA CallOver ==
  ASSUME Inv, NEW p \in Procs, pc[p] \in Ends, Goto(p, "user"),
         io' = [io EXCEPT ![p] = NoCall], UNCHANGED <<tables, todo, last, child, exiting>>
  PROVE  /\ pc' \in [Procs -> Labels] /\ io' \in [Procs -> IoType]
         /\ pc'[p] = "user" /\ io'[p] = NoCall
         /\ StepOf(p) /\ Fine(p)'
<1>0. TypeOK /\ Fine(p)
  BY DEF Inv
<1>1. /\ pc' \in [Procs -> Labels] /\ io' \in [Procs -> IoType]
      /\ pc'[p] = "user" /\ io'[p] = NoCall
  BY <1>0, NoCallIs DEF TypeOK, Goto, Labels
<1>2. StepOf(p)
  BY <1>0 DEF StepOf, SameBut, TypeOK, Goto, tables
<1>3. Fine(p)'
  BY <1>0, <1>1 DEF Fine, TodoRight, HalfMade, LastRight, CallRight, EmptyHanded,
                    Half, Ends, tables
<1> QED
  BY <1>1, <1>2, <1>3

\* A read or a write fails before it has moved anything.
LEMMA FailKeeps ==
  ASSUME Inv, NEW p \in Procs, pc[p] \in Ends, Goto(p, "user"),
         io' = [io EXCEPT ![p] = NoCall],
         UNCHANGED <<tables, pipe, todo, last, child, exiting, failed, chan, killed>>
  PROVE  Inv'
<1>0. TypeOK
  BY DEF Inv
<1>1. /\ pc' \in [Procs -> Labels] /\ io' \in [Procs -> IoType]
      /\ pc'[p] = "user" /\ StepOf(p) /\ Fine(p)'
  BY CallOver
<1>2. TypeOK'
  BY <1>0, <1>1 DEF TypeOK, tables
<1>3. Untouched
  BY DEF Untouched, tables
<1>4. Ring' /\ Sleeps'
  BY PipesKept
<1> QED
  BY <1>1, <1>2, <1>3, <1>4, TogetherUntouched DEF Ends

\* No file or no page for a pipe: what there is of it is to be closed.
LEMMA GiveUpKeeps ==
  ASSUME Inv, NEW p \in Procs, pc[p] \in Half, GiveUp(p),
         UNCHANGED <<tables, io, todo, last, child, exiting, pipe, chan, killed>>
  PROVE  Inv'
<1>0. TypeOK /\ Fine(p)
  BY DEF Inv
<1>1. /\ pc' = [pc EXCEPT ![p] = "close"] /\ failed' = failed \cup {p}
  BY DEF GiveUp, Goto
<1>2. pc'[p] = "close" /\ todo[p] \in Seq(Fs) /\ Len(todo[p]) # 0
  BY <1>0, <1>1 DEF TypeOK, Fine, TodoRight, Half
<1>3. todo[p] # <<>>
  BY <1>2, EmptySeq
<1>4. TypeOK'
  BY <1>0, <1>1 DEF TypeOK, tables, Labels
<1>5. StepOf(p) /\ Untouched
  BY <1>0, <1>1 DEF StepOf, SameBut, Untouched, TypeOK, tables
<1>6. Fine(p)'
  BY <1>0, <1>1, <1>2, <1>3 DEF Fine, TodoRight, HalfMade, LastRight, CallRight, EmptyHanded,
                                Half, Ends, tables
<1>7. Ring' /\ Sleeps'
  BY <1>1, PipesKept
<1> QED
  BY <1>0, <1>2, <1>4, <1>5, <1>6, <1>7, TogetherUntouched DEF Half

LEMMA PipeNoPageKeeps ==
  ASSUME Inv, NEW p \in Procs, PipeNoPage(p)
  PROVE  Inv'
BY GiveUpKeeps DEF PipeNoPage, At, Half

\* Nothing to read yet.
LEMMA ReadSleepsKeeps ==
  ASSUME Inv, NEW p \in Procs, ReadSleeps(p)
  PROVE  Inv'
<1> DEFINE g == io[p].pipe
<1>0. TypeOK /\ Fine(p) /\ pc[p] = "read" /\ Sleeps /\ Ring
  BY DEF Inv, ReadSleeps, At
<1>1. /\ MustWait(pipe[g]) /\ chan' = [chan EXCEPT ![p] = <<"nread", g>>]
      /\ killed' \in {killed, killed \cup {p}}
      /\ UNCHANGED <<tables, calls, pipe, pc>>
  BY DEF ReadSleeps, KilledNow
<1>2. g \in Pages
  BY <1>0 DEF Fine, CallRight, Ends
<1> HIDE DEF g
<1>3. chan' \in [Procs -> {NoChan} \cup Chans]
  <2>1. <<"nread", g>> \in Chans
    BY <1>2 DEF Chans
  <2> QED
    BY <1>0, <1>1, <2>1 DEF TypeOK
<1>4. TypeOK'
  BY <1>0, <1>1, <1>3 DEF TypeOK, tables, calls
<1>5. StepOf(p) /\ Untouched /\ Fine(p)'
  BY <1>0, <1>1 DEF StepOf, SameBut, Untouched, tables, calls, Fine, TodoRight, HalfMade,
                    LastRight, CallRight, EmptyHanded
<1>6. Ring'
  BY <1>0, <1>1 DEF Ring
<1>7. Sleeps'
  <2> SUFFICES ASSUME NEW q \in Procs, chan'[q] # NoChan
               PROVE  /\ chan'[q][1] = "nwrite" => Full(pipe[chan'[q][2]])
                                                   /\ "read" \in pipe[chan'[q][2]].ends
                      /\ chan'[q][1] = "nread" => /\ "write" \in pipe[chan'[q][2]].ends
                                                  /\ Empty(pipe[chan'[q][2]])
                                                     \/ pipe[chan'[q][2]].untold
    BY <1>1 DEF Sleeps
  <2>1. CASE q = p
    <3>1. chan'[p] = <<"nread", g>>
      BY <1>0, <1>1 DEF TypeOK
    <3> QED
      BY <1>1, <2>1, <3>1 DEF MustWait
  <2>2. CASE q # p
    <3>1. chan'[q] = chan[q]
      BY <1>0, <1>1, <2>2 DEF TypeOK
    <3> QED
      BY <1>0, <3>1 DEF Sleeps
  <2> QED
    BY <2>1, <2>2
<1> QED
  BY <1>0, <1>1, <1>4, <1>5, <1>6, <1>7, TogetherUntouched

\* A sleeping process is killed.
LEMMA KillKeeps ==
  ASSUME Inv, NEW p \in Procs, Kill(p)
  PROVE  Inv'
<1>0. TypeOK /\ (\A q \in Procs : Fine(q)) /\ Forks
  BY DEF Inv
<1>1. /\ killed' = killed \cup {p} /\ chan' = [chan EXCEPT ![p] = NoChan]
      /\ UNCHANGED <<tables, calls, pipe, pc>>
  BY DEF Kill, KilledNow
<1>2. TypeOK'
  BY <1>0, <1>1 DEF TypeOK, tables, calls
<1>3. (\A q \in Procs : Fine(q)') /\ Forks'
  BY <1>0, <1>1 DEF Fine, TodoRight, HalfMade, LastRight, CallRight, EmptyHanded, Forks,
                    tables, calls
<1>4. Ring' /\ Sleeps'
  BY <1>0, <1>1, PipesKept DEF TypeOK
<1>5. FreeClean' /\ RefsRight' /\ IrefRight' /\ EndsRight'
  BY <1>1, CountsKept DEF tables, calls
<1> QED
  BY <1>2, <1>3, <1>4, <1>5 DEF Inv

\* The parent has collected a zombie.
LEMMA ReapKeeps ==
  ASSUME Inv, NEW p \in Procs, Reap(p)
  PROVE  Inv'
<1>0. TypeOK /\ Fine(p) /\ pc[p] = "gone"
  BY DEF Inv, Reap
<1>1. /\ pc' = [pc EXCEPT ![p] = "none"] /\ exiting' = exiting \ {p} /\ killed' = killed \ {p}
      /\ UNCHANGED <<tables, pipe, io, todo, last, child, failed, chan>>
  BY DEF Reap, Goto
<1>2. TypeOK' /\ pc'[p] = "none"
  BY <1>0, <1>1 DEF TypeOK, tables, Labels
<1>3. StepOf(p) /\ Untouched
  BY <1>0, <1>1 DEF StepOf, SameBut, Untouched, TypeOK, tables
<1>4. Fine(p)'
  BY <1>0, <1>1, <1>2 DEF Fine, TodoRight, HalfMade, LastRight, CallRight, EmptyHanded,
                          Half, Ends, tables
<1>5. Ring' /\ Sleeps'
  BY <1>1, PipesKept
<1> QED
  BY <1>0, <1>2, <1>3, <1>4, <1>5, TogetherUntouched

------------------------------------------------------------------------------
(* Steps that move bytes *)

\* Who sleeps on a pipe has a reason.
Justified(pi, c) ==
  /\ c[1] = "nwrite" => Full(pi) /\ "read" \in pi.ends
  /\ c[1] = "nread" => "write" \in pi.ends /\ (Empty(pi) \/ pi.untold)

LEMMA SleepsAt ==
  ASSUME Inv, NEW g \in Pages, SameBut(Pages, g, pipe, pipe'),
         chan' \in [Procs -> {NoChan} \cup Chans],
         \A q \in Procs : chan'[q] # NoChan =>
           IF chan'[q][2] = g THEN Justified(pipe'[g], chan'[q])
                              ELSE chan'[q] = chan[q]
  PROVE  Sleeps'
<1>0. Sleeps
  BY DEF Inv
<1> SUFFICES ASSUME NEW q \in Procs, chan'[q] # NoChan
             PROVE  /\ chan'[q][1] = "nwrite" => Full(pipe'[chan'[q][2]])
                                                 /\ "read" \in pipe'[chan'[q][2]].ends
                    /\ chan'[q][1] = "nread" => /\ "write" \in pipe'[chan'[q][2]].ends
                                                /\ Empty(pipe'[chan'[q][2]])
                                                   \/ pipe'[chan'[q][2]].untold
  BY DEF Sleeps
<1>1. CASE chan'[q][2] = g
  BY <1>1 DEF Justified
<1>2. CASE chan'[q][2] # g
  <2>1. chan'[q] = chan[q] /\ chan'[q][2] \in Pages
    BY <1>2 DEF Chans
  <2>2. pipe'[chan'[q][2]] = pipe[chan'[q][2]]
    BY <1>2, <2>1 DEF SameBut
  <2> QED
    BY <1>0, <2>1, <2>2 DEF Sleeps
<1> QED
  BY <1>1, <1>2

\* One pipe changes and stays a ring.
LEMMA PipeChanges ==
  ASSUME Inv, NEW g \in Pages, NEW pj \in PipeType, pipe' = [pipe EXCEPT ![g] = pj],
         Fill(pj) <= PIPESIZE
  PROVE  /\ pipe' \in [Pages -> PipeType] /\ pipe'[g] = pj /\ SameBut(Pages, g, pipe, pipe')
         /\ Ring'
         /\ pj.ends = pipe[g].ends => \A h \in Pages : pipe'[h].ends = pipe[h].ends
<1>0. pipe \in [Pages -> PipeType] /\ Ring
  BY DEF Inv, TypeOK
<1>1. pipe' \in [Pages -> PipeType] /\ pipe'[g] = pj
  BY <1>0
<1>2. \A h \in Pages \ {g} : pipe'[h] = pipe[h]
  BY <1>0
<1>3. \A h \in Pages : Fill(pipe'[h]) <= PIPESIZE
  BY <1>0, <1>1, <1>2 DEF Ring
<1>4. pj.ends = pipe[g].ends => \A h \in Pages : pipe'[h].ends = pipe[h].ends
  BY <1>1, <1>2
<1> QED
  BY <1>1, <1>2, <1>3, <1>4 DEF Ring, SameBut

\* The bytes of a pipe, and after them the first k of a write.
Joined(s, w, k) == s \o SubSeq(w, 1, k)

\* k bytes of a write go in: they fit.
LEMMA PutKeeps ==
  ASSUME Inv, NEW p \in Procs, NEW k \in 0 .. Len(io[p].left), NEW told \in BOOLEAN,
         Put(p, k, told), NEW g, g = io[p].pipe
  PROVE  /\ g \in Pages /\ pc[p] = "write" /\ io[p].left \in Seq(Bytes)
         /\ pipe[g] \in PipeType /\ Fill(pipe[g]) <= PIPESIZE
         /\ pipe' \in [Pages -> PipeType] /\ SameBut(Pages, g, pipe, pipe')
         /\ pipe'[g].untold = (~told) /\ Ring'
         /\ Fill(pipe'[g]) = Fill(pipe[g]) + k /\ Fill(pipe'[g]) <= PIPESIZE
         /\ Content(pipe'[g]) = Joined(Content(pipe[g]), io[p].left, k)
         /\ \A h \in Pages : pipe'[h].ends = pipe[h].ends
         /\ io[p].left # <<>> => "read" \in pipe[g].ends /\ p \notin killed
<1>0. TypeOK /\ Fine(p) /\ pc[p] = "write" /\ Ring
  BY DEF Inv, Put, At
<1>1. g \in Pages
  BY <1>0 DEF Fine, CallRight, Ends
<1>2. pipe[g] \in PipeType /\ Fill(pipe[g]) <= PIPESIZE /\ io[p].left \in Seq(Bytes)
  BY <1>0, <1>1 DEF TypeOK, Ring, IoType
<1>3. /\ k \in Fits(pipe[g], io[p].left)
      /\ io[p].left # <<>> => "read" \in pipe[g].ends /\ p \notin killed
      /\ pipe' = [pipe EXCEPT ![g] =
                   [PutBytes(@, SubSeq(io[p].left, 1, k)) EXCEPT !.untold = (~told)]]
  BY DEF Put
<1>u. PICK u \in BOOLEAN : u = (~told)
  OBVIOUS
<1> DEFINE pi == pipe[g]
           w == SubSeq(io[p].left, 1, k)
           pj == [PutBytes(pi, w) EXCEPT !.untold = u]
<1>4. w \in Seq(Bytes) /\ Len(w) = k
  BY <1>2, FirstBytes
<1>5. Fill(pipe[g]) + k <= PIPESIZE
  BY <1>2, <1>3, FitsIs
<1>6. pipe' = [pipe EXCEPT ![g] = pj]
  BY <1>3, <1>u
<1>7. /\ pi \in PipeType /\ Fill(pi) <= PIPESIZE /\ Fill(pi) + Len(w) <= PIPESIZE
      /\ pi = pipe[g]
  BY <1>2, <1>4, <1>5
<1> HIDE DEF w, pi
<1>8. /\ pj \in PipeType /\ pj.ends = pi.ends /\ pj.untold = u
      /\ Fill(pj) = Fill(pi) + Len(w) /\ Content(pj) = Content(pi) \o w
  <2>1. pj = [PutBytes(pi, w) EXCEPT !.untold = u]
    OBVIOUS
  <2> HIDE DEF pj
  <2>2. pj \in PipeType
    BY <1>4, <1>7, <2>1, PutIs
  <2>3. pj.ends = pi.ends
    BY <1>7, <2>1 DEF PutBytes, PipeType
  <2>6. pj.untold = u
    BY <1>4, <1>7, <2>1, PutIs
  <2>4. Fill(pj) = Fill(pi) + Len(w)
    BY <1>4, <1>7, <2>1, PutIs
  <2>5. Content(pj) = Content(pi) \o w
    BY <1>4, <1>7, <2>1, PutIs
  <2> QED
    BY <2>2, <2>3, <2>4, <2>5, <2>6
<1> HIDE DEF pj
<1>9. /\ pipe' \in [Pages -> PipeType] /\ pipe'[g] = pj /\ SameBut(Pages, g, pipe, pipe')
      /\ Ring' /\ \A h \in Pages : pipe'[h].ends = pipe[h].ends
  <2>1. Fill(pj) <= PIPESIZE
    BY <1>4, <1>5, <1>7, <1>8
  <2> QED
    BY <1>1, <1>6, <1>7, <1>8, <2>1, PipeChanges
<1>10. Content(pipe'[g]) = Joined(Content(pipe[g]), io[p].left, k)
  BY <1>7, <1>8, <1>9 DEF w, Joined
<1> QED
  BY <1>0, <1>1, <1>2, <1>3, <1>4, <1>5, <1>7, <1>8, <1>9, <1>10, <1>u

\* Who sleeps on the pipe, once bytes are in it: a writer because it was full before,
\* a reader when nobody tells it.
LEMMA PutJustified ==
  ASSUME Inv, NEW p \in Procs, NEW k \in 0 .. Len(io[p].left), NEW told \in BOOLEAN,
         Put(p, k, told), NEW g, g = io[p].pipe,
         NEW q \in Procs, chan[q] # NoChan, chan[q][2] = g,
         chan[q][1] = "nread" => ~told, ~told => k > 0
  PROVE  Justified(pipe'[g], chan[q])
<1>1. /\ g \in Pages /\ pipe[g] \in PipeType /\ Fill(pipe[g]) <= PIPESIZE
      /\ pipe' \in [Pages -> PipeType] /\ pipe'[g].untold = (~told)
      /\ Fill(pipe'[g]) = Fill(pipe[g]) + k /\ Fill(pipe'[g]) <= PIPESIZE
      /\ pipe'[g].ends = pipe[g].ends
  BY PutKeeps
<1>2. Justified(pipe[g], chan[q])
  BY DEF Inv, Sleeps, Justified
<1>3. Fill(pipe[g]) \in Nat /\ PIPESIZE \in Nat /\ pipe'[g] \in PipeType
  BY <1>1, ContentIs, Constants
<1>4. ASSUME chan[q][1] = "nwrite" PROVE Full(pipe'[g]) /\ "read" \in pipe'[g].ends
  <2>1. Full(pipe[g]) /\ "read" \in pipe[g].ends
    BY <1>2, <1>4 DEF Justified
  <2>2. Fill(pipe[g]) = PIPESIZE
    BY <1>1, <2>1, FullIs
  <2>3. Fill(pipe'[g]) = PIPESIZE
    BY <1>1, <1>3, <2>2
  <2>4. Full(pipe'[g])
    BY <1>1, <1>3, <2>3, FullIs
  <2> QED
    BY <1>1, <2>1, <2>4
<1>5. ASSUME chan[q][1] = "nread" PROVE "write" \in pipe'[g].ends /\ pipe'[g].untold
  BY <1>1, <1>2, <1>5 DEF Justified
<1> QED
  BY <1>4, <1>5 DEF Justified

\* A section of pipewrite keeps the pipe as it should be, and the call too.
LEMMA PutTables ==
  ASSUME Inv, NEW p \in Procs, NEW k \in 0 .. Len(io[p].left), NEW told \in BOOLEAN,
         Put(p, k, told)
  PROVE  Untouched /\ UNCHANGED <<tables, todo, last, child, exiting, failed>>
<1>1. UNCHANGED <<tables, todo, last, child, exiting, failed>>
  BY DEF Put
<1>2. \A h \in Pages : pipe'[h].ends = pipe[h].ends
  BY PutKeeps
<1> QED
  BY <1>1, <1>2 DEF Untouched, tables

LEMMA WriteReturnsKeeps ==
  ASSUME Inv, NEW p \in Procs, WriteReturns(p)
  PROVE  Inv'
<1>0. TypeOK
  BY DEF Inv
<1>1. PICK k \in 0 .. Len(io[p].left) :
        /\ Put(p, k, TRUE) /\ Wakeup(<<"nread", io[p].pipe>>)
        /\ Goto(p, "user") /\ io' = [io EXCEPT ![p] = NoCall] /\ UNCHANGED killed
  BY DEF WriteReturns, IOReturn, Return
<1> DEFINE g == io[p].pipe
<1>2. /\ g \in Pages /\ pc[p] = "write" /\ pipe' \in [Pages -> PipeType] /\ Ring'
      /\ SameBut(Pages, g, pipe, pipe')
  BY <1>1, PutKeeps
<1>3. Untouched /\ UNCHANGED <<tables, todo, last, child, exiting, failed>>
  BY <1>1, PutTables
<1>4. /\ pc' \in [Procs -> Labels] /\ io' \in [Procs -> IoType]
      /\ pc'[p] = "user" /\ StepOf(p) /\ Fine(p)'
  BY <1>1, <1>2, <1>3, CallOver DEF Ends
<1>5. /\ chan' \in [Procs -> {NoChan} \cup Chans]
      /\ \A q \in Procs : chan'[q] # NoChan => chan'[q] = chan[q] /\ chan[q] # <<"nread", g>>
  BY <1>0, <1>1 DEF TypeOK, Wakeup
<1>6. TypeOK'
  BY <1>0, <1>1, <1>2, <1>3, <1>4, <1>5 DEF TypeOK, tables
<1> HIDE DEF g
<1>7. ASSUME NEW q \in Procs, chan'[q] # NoChan, chan'[q][2] = g
      PROVE  Justified(pipe'[g], chan'[q])
  <2>1. chan'[q] = chan[q] /\ chan[q] # <<"nread", g>> /\ chan[q] \in Chans
    BY <1>0, <1>5, <1>7 DEF TypeOK
  <2>2. chan[q][1] # "nread"
    BY <1>7, <2>1 DEF Chans
  <2> QED
    BY <1>1, <1>7, <2>1, <2>2, PutJustified DEF g
<1>8. Sleeps'
  BY <1>2, <1>5, <1>7, SleepsAt
<1> QED
  BY <1>2, <1>3, <1>4, <1>6, <1>8, TogetherUntouched


LEMMA WriteSleepsKeeps ==
  ASSUME Inv, NEW p \in Procs, WriteSleeps(p)
  PROVE  Inv'
<1>0. TypeOK /\ Fine(p)
  BY DEF Inv
<1>1. PICK k \in 0 .. Len(io[p].left) - 1 :
        /\ Put(p, k, TRUE) /\ Full(pipe'[io[p].pipe])
        /\ chan' = [q \in Procs |->
                      IF q = p THEN <<"nwrite", io[p].pipe>>
                      ELSE IF chan[q] = <<"nread", io[p].pipe>> THEN NoChan ELSE chan[q]]
        /\ io' = [io EXCEPT ![p].left = SubSeq(@, k + 1, Len(@)), ![p].done = @ + k]
        /\ killed' \in {killed, killed \cup {p}} /\ UNCHANGED pc
  BY DEF WriteSleeps, KilledNow
<1> DEFINE g == io[p].pipe
<1>2. io[p] \in IoType /\ io[p].left \in Seq(Bytes) /\ Len(io[p].left) \in Nat
  BY <1>0 DEF TypeOK, IoType
<1>3. k \in 0 .. Len(io[p].left) /\ io[p].left # <<>>
  BY <1>2
<1>4. /\ g \in Pages /\ pc[p] = "write" /\ pipe' \in [Pages -> PipeType] /\ Ring'
      /\ SameBut(Pages, g, pipe, pipe') /\ pipe'[g].ends = pipe[g].ends
      /\ "read" \in pipe[g].ends
  BY <1>1, <1>3, PutKeeps
<1>5. Untouched /\ UNCHANGED <<tables, todo, last, child, exiting, failed>>
  BY <1>1, <1>3, PutTables
<1>6. io' \in [Procs -> IoType] /\ io'[p].pipe = g /\ SameBut(Procs, p, io, io')
  <2> DEFINE rest == SubSeq(io[p].left, k + 1, Len(io[p].left))
             moved == io[p].done + k
             c == [io[p] EXCEPT !.left = rest, !.done = moved]
  <2>1. rest \in Seq(Bytes) /\ moved \in Nat
    BY <1>2, <1>3, FirstBytes DEF IoType
  <2>2. io' = [io EXCEPT ![p] = c]
    BY <1>0, <1>1 DEF TypeOK
  <2> HIDE DEF rest, moved
  <2>3. c \in IoType /\ c.pipe = g
    BY <1>2, <2>1 DEF IoType
  <2> HIDE DEF c
  <2> QED
    BY <1>0, <2>2, <2>3 DEF TypeOK, SameBut
<1>7. /\ chan' \in [Procs -> {NoChan} \cup Chans] /\ chan'[p] = <<"nwrite", g>>
      /\ \A q \in Procs \ {p} :
           chan'[q] # NoChan => chan'[q] = chan[q] /\ chan[q] # <<"nread", g>>
  <2>1. <<"nwrite", g>> \in Chans
    BY <1>4 DEF Chans
  <2> QED
    BY <1>0, <1>1, <2>1 DEF TypeOK
<1>8. TypeOK'
  BY <1>0, <1>1, <1>4, <1>5, <1>6, <1>7 DEF TypeOK, tables
<1>9. StepOf(p)
  BY <1>1, <1>5, <1>6 DEF StepOf, SameBut, tables
<1>10. Fine(p)'
  <2>1. TodoRight(p)' /\ HalfMade(p)' /\ LastRight(p)' /\ EmptyHanded(p)'
    BY <1>0, <1>1, <1>5 DEF Fine, TodoRight, HalfMade, LastRight, EmptyHanded, tables
  <2>2. CallRight(p)'
    BY <1>0, <1>1, <1>4, <1>5, <1>6 DEF Fine, CallRight, tables, Ends
  <2> QED
    BY <2>1, <2>2 DEF Fine
<1>11. ASSUME NEW q \in Procs, chan'[q] # NoChan,
              IF chan'[q][2] = g THEN ~Justified(pipe'[g], chan'[q]) ELSE chan'[q] # chan[q]
       PROVE  FALSE
  <2>1. CASE q = p
    BY <1>1, <1>4, <1>7, <1>11, <2>1 DEF Justified
  <2>2. CASE q # p
    <3>1. chan'[q] = chan[q] /\ chan[q] # <<"nread", g>> /\ chan[q] \in Chans
      BY <1>0, <1>7, <1>11, <2>2 DEF TypeOK
    <3>2. chan[q][2] = g
      BY <1>11, <3>1
    <3>3. chan[q][1] # "nread"
      BY <3>1, <3>2 DEF Chans
    <3>4. Justified(pipe'[g], chan[q])
      BY <1>1, <1>3, <1>11, <3>1, <3>2, <3>3, PutJustified
    <3> QED
      BY <1>11, <3>1, <3>2, <3>4
  <2> QED
    BY <2>1, <2>2
<1> HIDE DEF g
<1>12. Sleeps'
  BY <1>4, <1>7, <1>11, SleepsAt
<1> QED
  BY <1>1, <1>4, <1>5, <1>8, <1>9, <1>10, <1>12, TogetherUntouched

LEMMA WriteCutKeeps ==
  ASSUME Inv, NEW p \in Procs, WriteCut(p)
  PROVE  Inv'
<1>0. TypeOK
  BY DEF Inv
<1>1. PICK k \in 1 .. Len(io[p].left) - 1 :
        /\ Put(p, k, FALSE) /\ killed' = killed \cup {p} /\ UNCHANGED chan
        /\ Goto(p, "user") /\ io' = [io EXCEPT ![p] = NoCall]
  BY DEF WriteCut, KilledNow, IOReturn, Return
<1> DEFINE g == io[p].pipe
<1>2. Len(io[p].left) \in Nat
  BY <1>0 DEF TypeOK, IoType
<1>3. k \in 0 .. Len(io[p].left) /\ k > 0
  BY <1>2
<1>4. /\ g \in Pages /\ pc[p] = "write" /\ pipe' \in [Pages -> PipeType] /\ Ring'
      /\ SameBut(Pages, g, pipe, pipe')
  BY <1>1, <1>3, PutKeeps
<1>5. Untouched /\ UNCHANGED <<tables, todo, last, child, exiting, failed>>
  BY <1>1, <1>3, PutTables
<1>6. /\ pc' \in [Procs -> Labels] /\ io' \in [Procs -> IoType]
      /\ pc'[p] = "user" /\ StepOf(p) /\ Fine(p)'
  BY <1>1, <1>4, <1>5, CallOver DEF Ends
<1>7. TypeOK'
  BY <1>0, <1>1, <1>4, <1>5, <1>6 DEF TypeOK, tables
<1>8. ASSUME NEW q \in Procs, chan[q] # NoChan, chan[q][2] = g
      PROVE  Justified(pipe'[g], chan[q])
  BY <1>1, <1>3, <1>8, PutJustified
<1> HIDE DEF g
<1>9. Sleeps'
  BY <1>0, <1>1, <1>4, <1>8, SleepsAt DEF TypeOK
<1> QED
  BY <1>4, <1>5, <1>6, <1>7, <1>9, TogetherUntouched

LEMMA ReadReturnsKeeps ==
  ASSUME Inv, NEW p \in Procs, ReadReturns(p)
  PROVE  Inv'
<1>0. TypeOK /\ Fine(p) /\ pc[p] = "read" /\ Ring /\ Sleeps
  BY DEF Inv, ReadReturns, At
<1> DEFINE g == io[p].pipe
           pi == pipe[g]
           all == Min({io[p].n, Fill(pi)})
<1>1. /\ g \in Pages /\ pi \in PipeType /\ Fill(pi) <= PIPESIZE /\ Fill(pi) \in Nat
      /\ io[p].n \in Nat
  <2>1. g \in Pages
    BY <1>0 DEF Fine, CallRight, Ends
  <2>2. pi \in PipeType /\ Fill(pi) <= PIPESIZE /\ io[p].n \in Nat
    BY <1>0, <2>1 DEF TypeOK, Ring, IoType
  <2> QED
    BY <2>1, <2>2, ContentIs
<1>2. PICK k \in 0 .. all : pipe' = [pipe EXCEPT ![g] = Take(@, IF k < all THEN k + 1 ELSE k)]
  BY DEF ReadReturns
<1>3. /\ Goto(p, "user") /\ io' = [io EXCEPT ![p] = NoCall] /\ Wakeup(<<"nwrite", g>>)
      /\ UNCHANGED <<tables, todo, last, child, exiting, failed, killed>>
  BY DEF ReadReturns
<1> HIDE DEF all
<1>4. all \in 0 .. Fill(pi)
  BY <1>1, MinOfTwo DEF all
<1> DEFINE n == IF k < all THEN k + 1 ELSE k
           pj == Take(pi, n)
<1>5. n \in 0 .. Fill(pi) /\ pipe' = [pipe EXCEPT ![g] = pj]
  BY <1>1, <1>2, <1>4
<1> HIDE DEF n, pi
<1>6. /\ pj \in PipeType /\ pj.ends = pi.ends /\ pj.untold = (pi.untold /\ n < Fill(pi))
      /\ Fill(pj) = Fill(pi) - n
  BY <1>1, <1>5, TakeIs
<1>7. pi = pipe[g]
  BY DEF pi
<1> HIDE DEF pj, g
<1>8. Fill(pj) <= PIPESIZE /\ Fill(pj) \in Nat
  BY <1>1, <1>5, <1>6, Constants
<1>9. /\ pipe' \in [Pages -> PipeType] /\ pipe'[g] = pj /\ SameBut(Pages, g, pipe, pipe')
      /\ Ring' /\ \A h \in Pages : pipe'[h].ends = pipe[h].ends
  BY <1>1, <1>5, <1>6, <1>7, <1>8, PipeChanges
<1>10. Untouched
  BY <1>3, <1>9 DEF Untouched, tables
<1>11. /\ pc' \in [Procs -> Labels] /\ io' \in [Procs -> IoType]
       /\ pc'[p] = "user" /\ StepOf(p) /\ Fine(p)'
  BY <1>0, <1>3, CallOver DEF Ends
<1>12. /\ chan' \in [Procs -> {NoChan} \cup Chans]
       /\ \A q \in Procs : chan'[q] # NoChan => chan'[q] = chan[q] /\ chan[q] # <<"nwrite", g>>
  BY <1>0, <1>3 DEF TypeOK, Wakeup
<1>13. TypeOK'
  BY <1>0, <1>3, <1>9, <1>11, <1>12 DEF TypeOK, tables
<1>14. ASSUME NEW q \in Procs, chan'[q] # NoChan, chan'[q][2] = g
       PROVE  Justified(pipe'[g], chan'[q])
  <2>1. chan'[q] = chan[q] /\ chan[q] # <<"nwrite", g>> /\ chan[q] \in Chans
    BY <1>0, <1>12, <1>14 DEF TypeOK
  <2>2. chan[q][1] = "nread"
    BY <1>14, <2>1 DEF Chans
  <2>3. "write" \in pi.ends /\ (Empty(pi) \/ pi.untold)
    BY <1>0, <1>7, <1>14, <2>1, <2>2 DEF Sleeps
  <2>4. Empty(pj) \/ pj.untold
    <3>1. Empty(pi) => Fill(pi) = 0
      BY <1>1, FullIs
    <3>2. Fill(pj) = 0 => Empty(pj)
      BY <1>6, <1>8, FullIs
    <3>3. CASE n = Fill(pi)
      <4>1. Fill(pj) = 0
        BY <1>1, <1>6, <3>3
      <4> QED
        BY <3>2, <4>1
    <3>4. CASE n # Fill(pi)
      <4>1. n < Fill(pi) /\ ~Empty(pi)
        BY <1>1, <1>5, <3>1, <3>4
      <4> QED
        BY <1>6, <2>3, <4>1
    <3> QED
      BY <3>3, <3>4
  <2> QED
    BY <1>6, <1>9, <2>1, <2>2, <2>3, <2>4 DEF Justified
<1>15. Sleeps'
  BY <1>1, <1>9, <1>12, <1>14, SleepsAt
<1> QED
  BY <1>0, <1>9, <1>10, <1>11, <1>13, <1>15, TogetherUntouched

------------------------------------------------------------------------------
(* Steps on descriptors and files *)

\* The steps that take a free file or a free descriptor take one that there is.
LEMMA FirstFree ==
  /\ FreeFiles # {} => Min(FreeFiles) \in Fs /\ ref[Min(FreeFiles)] = 0
  /\ \A p : FreeFds(p) # {} => Min(FreeFds(p)) \in FDs /\ ofile[p][Min(FreeFds(p))] = NoFile
<1>1. FreeFiles \subseteq Nat /\ \A p : FreeFds(p) \subseteq Nat
  BY Constants DEF FreeFiles, FreeFds
<1>2. ASSUME FreeFiles # {} PROVE Min(FreeFiles) \in FreeFiles
  BY <1>1, <1>2, MinIn
<1>3. ASSUME NEW p, FreeFds(p) # {} PROVE Min(FreeFds(p)) \in FreeFds(p)
  BY <1>1, <1>3, MinIn
<1>4. (\A f \in FreeFiles : f \in Fs /\ ref[f] = 0)
      /\ \A p : \A d \in FreeFds(p) : d \in FDs /\ ofile[p][d] = NoFile
  BY DEF FreeFiles, FreeFds
<1> QED
  BY <1>2, <1>3, <1>4

\* What there is to show of a step that leaves the kinds of the files as they are.
LEMMA TogetherKinds ==
  ASSUME Inv, NEW p \in Procs, StepOf(p), OwnOnly(p),
         pc[p] \notin {"fork", "new"}, pc'[p] # "fork", TypeOK', Fine(p)',
         UNCHANGED <<file, iref, last, pipe>>, RefsRight',
         \A f \in Fs : ref'[f] = 0 => ref[f] = 0 \/ file[f] = FreeFile,
         \A q \in Procs : chan'[q] \in {chan[q], NoChan}
  PROVE  Inv'
<1>1. FreeClean /\ IrefRight /\ EndsRight
  BY DEF Inv
<1>2. FreeClean'
  BY <1>1 DEF FreeClean
<1>4. IrefRight' /\ EndsRight'
  BY <1>1 DEF IrefRight, EndsRight
<1>5. Ring' /\ Sleeps'
  BY PipesKept
<1> QED
  BY <1>2, <1>4, <1>5, Together

LEMMA DupKeeps ==
  ASSUME Inv, NEW p \in Procs, NEW d \in FDs, Dup(p, d)
  PROVE  Inv'
<1> DEFINE e == Min(FreeFds(p))
           x == ofile[p][d]
<1>0. TypeOK /\ Fine(p) /\ pc[p] = "user" /\ RefsRight
  BY DEF Inv, Dup, Syscall, At
<1>1. /\ e \in FDs /\ ofile[p][e] = NoFile
  BY FirstFree DEF Dup
<1>2. x \in Fs
  BY <1>0 DEF Dup, Open, TypeOK
<1>3. /\ ofile' = [ofile EXCEPT ![p][e] = x] /\ ref' = [ref EXCEPT ![x] = @ + 1]
      /\ pc' = [pc EXCEPT ![p] = "user"]
      /\ UNCHANGED <<file, iref, pipe, calls, chan, killed>>
  BY DEF Dup, Return, Goto
<1>4. d # e
  BY <1>1, <1>2, Constants
<1> HIDE DEF e
<1>5. /\ ofile' \in [Procs -> [FDs -> Fs \cup {NoFile}]]
      /\ SameBut(Procs, p, ofile, ofile') /\ SameBut(FDs, e, ofile[p], ofile'[p])
      /\ ofile'[p][e] = x
  BY <1>0, <1>1, <1>2, <1>3 DEF TypeOK, SameBut
<1>6. ref' \in [Fs -> Nat] /\ \A f \in Fs : ref'[f] = ref[f] + One(f = x)
  BY <1>0, <1>2, <1>3 DEF TypeOK, One
<1>7. TypeOK' /\ pc'[p] = "user"
  BY <1>0, <1>3, <1>5, <1>6 DEF TypeOK, calls, Labels
<1>8. StepOf(p)
  BY <1>0, <1>3, <1>5 DEF StepOf, SameBut, TypeOK, calls
<1>9. OwnOnly(p)
  BY <1>0, <1>3 DEF OwnOnly, TypeOK
<1>10. RefsRight'
  <2>1. SameBut(Procs, p, todo, todo')
    BY <1>3 DEF SameBut, calls
  <2>2. ASSUME NEW f \in Fs
        PROVE  ref'[f] = ref[f] - Held(ofile[p], f) + Held(ofile'[p], f)
                                - Due(todo[p], f) + Due(todo'[p], f)
    <3>1. Held(ofile'[p], f) = Held(ofile[p], f) - One(ofile[p][e] = f) + One(ofile'[p][e] = f)
      BY <1>1, <1>5, HeldUpdate
    <3>2. One(ofile[p][e] = f) = 0 /\ One(ofile'[p][e] = f) = One(f = x)
      BY <1>1, <1>5, Constants DEF One
    <3>3. todo' = todo
      BY <1>3 DEF calls
    <3>4. /\ Held(ofile[p], f) \in Nat /\ Due(todo[p], f) \in Nat /\ ref[f] \in Nat
          /\ One(f = x) \in Nat
      BY <1>0, HeldIs, DueIs DEF TypeOK, One
    <3>5. ref'[f] = ref[f] + One(f = x)
      BY <1>6
    <3>6. Due(todo'[p], f) = Due(todo[p], f)
      BY <3>3
    <3> QED
      BY ONLY <3>1, <3>2, <3>4, <3>5, <3>6
  <2>3. Follows(p, p)
    BY <2>2 DEF Follows
  <2> QED
    BY <1>0, <1>5, <1>7, <2>1, <2>3, RefsFollow
<1>11. Fine(p)'
  BY <1>0, <1>3, <1>7 DEF Fine, TodoRight, HalfMade, LastRight, CallRight, EmptyHanded,
                          Half, Ends, calls
<1>12. \A f \in Fs : ref'[f] = 0 => ref[f] = 0
  <2>1. \A f \in Fs : ref[f] \in Nat /\ One(f = x) \in Nat
    BY <1>0 DEF One, TypeOK
  <2> QED
    BY ONLY <1>6, <2>1
<1> QED
  BY <1>0, <1>3, <1>7, <1>8, <1>9, <1>10, <1>11, <1>12, TogetherKinds DEF calls

LEMMA CloseKeeps ==
  ASSUME Inv, NEW p \in Procs, NEW d \in FDs, Close(p, d)
  PROVE  Inv'
<1> DEFINE x == ofile[p][d]
<1>0. TypeOK /\ Fine(p) /\ pc[p] = "user" /\ RefsRight
  BY DEF Inv, Close, Syscall, At
<1>1. x \in Fs /\ todo[p] = <<>>
  BY <1>0 DEF Close, Open, TypeOK, Fine, TodoRight, Half
<1>2. /\ ofile' = [ofile EXCEPT ![p][d] = NoFile] /\ todo' = [todo EXCEPT ![p] = <<x>>]
      /\ pc' = [pc EXCEPT ![p] = "close"]
      /\ UNCHANGED <<ref, file, iref, pipe, io, last, child, exiting, failed, chan, killed>>
  BY DEF Close, Goto
<1> HIDE DEF x
<1>3. /\ ofile' \in [Procs -> [FDs -> Fs \cup {NoFile}]]
      /\ SameBut(Procs, p, ofile, ofile') /\ SameBut(FDs, d, ofile[p], ofile'[p])
      /\ ofile'[p][d] = NoFile
  BY <1>0, <1>2 DEF TypeOK, SameBut
<1>4. todo' \in [Procs -> Seq(Fs)] /\ todo'[p] = <<x>> /\ SameBut(Procs, p, todo, todo')
  <2>1. <<x>> \in Seq(Fs)
    BY <1>1
  <2> QED
    BY <1>0, <1>2, <2>1 DEF TypeOK, SameBut
<1>5. TypeOK' /\ pc'[p] = "close"
  BY <1>0, <1>2, <1>3, <1>4 DEF TypeOK, Labels
<1>6. StepOf(p)
  BY <1>0, <1>2, <1>3, <1>4 DEF StepOf, SameBut, TypeOK
<1>7. OwnOnly(p)
  BY <1>2 DEF OwnOnly
<1>8. RefsRight'
  <2>1. ASSUME NEW f \in Fs
        PROVE  ref'[f] = ref[f] - Held(ofile[p], f) + Held(ofile'[p], f)
                                - Due(todo[p], f) + Due(todo'[p], f)
    <3>1. Held(ofile'[p], f) = Held(ofile[p], f) - One(ofile[p][d] = f) + One(ofile'[p][d] = f)
      BY <1>3, HeldUpdate
    <3>2. One(ofile'[p][d] = f) = 0 /\ One(ofile[p][d] = f) = One(x = f)
      BY <1>3, Constants DEF One, x
    <3>3. Due(todo[p], f) = 0 /\ Due(todo'[p], f) = One(x = f)
      BY <1>1, <1>4, DueNone, DueSingle
    <3>4. Held(ofile[p], f) \in Nat /\ ref[f] \in Nat /\ One(x = f) \in Nat /\ ref'[f] = ref[f]
      BY <1>0, <1>2, HeldIs DEF TypeOK, One
    <3> QED
      BY ONLY <3>1, <3>2, <3>3, <3>4
  <2>2. Follows(p, p)
    BY <2>1 DEF Follows
  <2> QED
    BY <1>0, <1>3, <1>4, <1>5, <2>2, RefsFollow
<1>9. Fine(p)'
  <2>1. <<x>> # <<>>
    OBVIOUS
  <2>2. TodoRight(p)' /\ HalfMade(p)' /\ LastRight(p)' /\ CallRight(p)'
    BY <1>0, <1>2, <1>4, <1>5, <2>1 DEF Fine, TodoRight, HalfMade, LastRight, CallRight, Half, Ends
  <2>3. EmptyHanded(p)'
    BY <1>0, <1>2, <1>5 DEF Fine, EmptyHanded
  <2> QED
    BY <2>2, <2>3 DEF Fine
<1> QED
  BY <1>0, <1>2, <1>5, <1>6, <1>7, <1>8, <1>9, TogetherKinds

\* A file for the pipe.
LEMMA PipeKeeps ==
  ASSUME Inv, NEW p \in Procs, Pipe(p)
  PROVE  Inv'
<1> DEFINE x == Min(FreeFiles)
<1>0. TypeOK /\ Fine(p) /\ pc[p] = "user" /\ RefsRight /\ FreeClean
  BY DEF Inv, Pipe, Syscall, At
<1>1. x \in Fs /\ ref[x] = 0 /\ todo[p] = <<>>
  BY <1>0, FirstFree DEF Pipe, Fine, TodoRight, Half
<1>2. /\ ref' = [ref EXCEPT ![x] = 1] /\ todo' = [todo EXCEPT ![p] = <<x>>]
      /\ pc' = [pc EXCEPT ![p] = "pipe_file"]
      /\ UNCHANGED <<ofile, file, iref, pipe, io, last, child, exiting, failed, chan, killed>>
  BY DEF Pipe, Goto
<1> HIDE DEF x
<1>3. ref' \in [Fs -> Nat] /\ \A f \in Fs : ref'[f] = ref[f] + One(x = f)
  BY <1>0, <1>1, <1>2 DEF TypeOK, One
<1>4. todo' \in [Procs -> Seq(Fs)] /\ todo'[p] = <<x>> /\ SameBut(Procs, p, todo, todo')
  <2>1. <<x>> \in Seq(Fs)
    BY <1>1
  <2> QED
    BY <1>0, <1>2, <2>1 DEF TypeOK, SameBut
<1>5. TypeOK' /\ pc'[p] = "pipe_file"
  BY <1>0, <1>2, <1>3, <1>4 DEF TypeOK, Labels
<1>6. StepOf(p)
  BY <1>0, <1>2, <1>4 DEF StepOf, SameBut, TypeOK
<1>7. OwnOnly(p)
  BY <1>0, <1>1, <1>2 DEF OwnOnly, TypeOK
<1>8. RefsRight'
  <2>1. ASSUME NEW f \in Fs
        PROVE  ref'[f] = ref[f] - Held(ofile[p], f) + Held(ofile'[p], f)
                                - Due(todo[p], f) + Due(todo'[p], f)
    <3>1. Due(todo[p], f) = 0 /\ Due(todo'[p], f) = One(x = f)
      BY <1>1, <1>4, DueNone, DueSingle
    <3>2. /\ Held(ofile[p], f) \in Nat /\ ref[f] \in Nat /\ One(x = f) \in Nat
          /\ Held(ofile'[p], f) = Held(ofile[p], f)
      BY <1>0, <1>2, HeldIs DEF TypeOK, One
    <3>3. ref'[f] = ref[f] + One(x = f)
      BY <1>3
    <3> QED
      BY ONLY <3>1, <3>2, <3>3
  <2>2. Follows(p, p)
    BY <2>1 DEF Follows
  <2>3. SameBut(Procs, p, ofile, ofile')
    BY <1>2 DEF SameBut
  <2> QED
    BY <1>0, <1>4, <1>5, <2>2, <2>3, RefsFollow
<1>9. Fine(p)'
  <2>1. <<x>> # <<>> /\ Len(<<x>>) = 1 /\ DOMAIN <<x>> = {1} /\ <<x>>[1] = x
    OBVIOUS
  <2>2. TodoRight(p)' /\ LastRight(p)' /\ CallRight(p)'
    BY <1>0, <1>2, <1>4, <1>5, <2>1 DEF Fine, TodoRight, LastRight, CallRight, Half, Ends
  <2>3. ref'[x] = 1 /\ file'[x] = FreeFile
    BY <1>0, <1>1, <1>2 DEF TypeOK, FreeClean
  <2>4. HalfMade(p)'
    BY <1>4, <2>1, <2>3 DEF HalfMade
  <2>5. EmptyHanded(p)'
    BY <1>0, <1>2, <1>5 DEF Fine, EmptyHanded
  <2> QED
    BY <2>2, <2>4, <2>5 DEF Fine
<1>10. \A f \in Fs : ref'[f] = 0 => ref[f] = 0
  <2>1. \A f \in Fs : ref[f] \in Nat /\ One(x = f) \in Nat
    BY <1>0 DEF One, TypeOK
  <2> QED
    BY ONLY <1>3, <2>1
<1> QED
  BY <1>0, <1>2, <1>5, <1>6, <1>7, <1>8, <1>9, <1>10, TogetherKinds

\* A file for an inode, with no descriptor left: it is closed again.
LEMMA OpenNoDescriptorKeeps ==
  ASSUME Inv, NEW p \in Procs, Syscall(p), FreeFiles # {}, NEW x, x = Min(FreeFiles),
         ref' = [ref EXCEPT ![x] = 1], todo' = [todo EXCEPT ![p] = <<x>>], GiveUp(p),
         UNCHANGED <<ofile, file, iref, pipe, io, last, child, exiting, chan, killed>>
  PROVE  Inv'
<1>0. TypeOK /\ Fine(p) /\ pc[p] = "user" /\ RefsRight /\ FreeClean
  BY DEF Inv, Syscall, At
<1>1. x \in Fs /\ ref[x] = 0 /\ todo[p] = <<>>
  BY <1>0, FirstFree DEF Fine, TodoRight, Half
<1>2. pc' = [pc EXCEPT ![p] = "close"] /\ failed' = failed \cup {p}
  BY DEF GiveUp, Goto
<1>3. ref' \in [Fs -> Nat] /\ \A f \in Fs : ref'[f] = ref[f] + One(x = f)
  BY <1>0, <1>1 DEF TypeOK, One
<1>4. todo' \in [Procs -> Seq(Fs)] /\ todo'[p] = <<x>> /\ SameBut(Procs, p, todo, todo')
  <2>1. <<x>> \in Seq(Fs)
    BY <1>1
  <2> QED
    BY <1>0, <2>1 DEF TypeOK, SameBut
<1>5. TypeOK' /\ pc'[p] = "close"
  BY <1>0, <1>2, <1>3, <1>4 DEF TypeOK, Labels
<1>6. StepOf(p)
  BY <1>0, <1>2, <1>4 DEF StepOf, SameBut, TypeOK
<1>7. OwnOnly(p)
  BY <1>0, <1>1 DEF OwnOnly, TypeOK
<1>8. RefsRight'
  <2>1. ASSUME NEW f \in Fs
        PROVE  ref'[f] = ref[f] - Held(ofile[p], f) + Held(ofile'[p], f)
                                - Due(todo[p], f) + Due(todo'[p], f)
    <3>1. Due(todo[p], f) = 0 /\ Due(todo'[p], f) = One(x = f)
      BY <1>1, <1>4, DueNone, DueSingle
    <3>2. /\ Held(ofile[p], f) \in Nat /\ ref[f] \in Nat /\ One(x = f) \in Nat
          /\ Held(ofile'[p], f) = Held(ofile[p], f)
      BY <1>0, HeldIs DEF TypeOK, One
    <3>3. ref'[f] = ref[f] + One(x = f)
      BY <1>3
    <3> QED
      BY ONLY <3>1, <3>2, <3>3
  <2>2. Follows(p, p)
    BY <2>1 DEF Follows
  <2>3. SameBut(Procs, p, ofile, ofile')
    BY DEF SameBut
  <2> QED
    BY <1>0, <1>4, <1>5, <2>2, <2>3, RefsFollow
<1>9. Fine(p)'
  <2>1. <<x>> # <<>>
    OBVIOUS
  <2>2. TodoRight(p)' /\ HalfMade(p)' /\ LastRight(p)' /\ CallRight(p)'
    BY <1>0, <1>4, <1>5, <2>1 DEF Fine, TodoRight, HalfMade, LastRight, CallRight, Half, Ends
  <2>3. EmptyHanded(p)'
    BY <1>0, <1>5 DEF Fine, EmptyHanded
  <2> QED
    BY <2>2, <2>3 DEF Fine
<1>10. \A f \in Fs : ref'[f] = 0 => ref[f] = 0
  <2>1. \A f \in Fs : ref[f] \in Nat /\ One(x = f) \in Nat
    BY <1>0 DEF One, TypeOK
  <2> QED
    BY ONLY <1>3, <2>1
<1> QED
  BY <1>0, <1>5, <1>6, <1>7, <1>8, <1>9, <1>10, TogetherKinds

\* A file for an inode at a descriptor: the inode has one more reference, the pipes
\* have none.
LEMMA OpenDescriptorKeeps ==
  ASSUME Inv, NEW p \in Procs, Syscall(p), FreeFiles # {}, FreeFds(p) # {},
         NEW x, x = Min(FreeFiles), NEW e, e = Min(FreeFds(p)),
         ref' = [ref EXCEPT ![x] = 1], ofile' = [ofile EXCEPT ![p][e] = x],
         file' = [file EXCEPT ![x] = InodeFile], iref' = iref + 1, Goto(p, "user"),
         UNCHANGED <<pipe, calls, chan, killed>>
  PROVE  Inv'
<1>0. /\ TypeOK /\ Fine(p) /\ pc[p] = "user"
      /\ RefsRight /\ FreeClean /\ IrefRight /\ EndsRight
  BY DEF Inv, Syscall, At
<1>1. x \in Fs /\ ref[x] = 0 /\ file[x] = FreeFile /\ e \in FDs /\ ofile[p][e] = NoFile
  BY <1>0, FirstFree DEF FreeClean
<1>2. pc' = [pc EXCEPT ![p] = "user"]
  BY DEF Goto
<1>3. /\ ofile' \in [Procs -> [FDs -> Fs \cup {NoFile}]]
      /\ SameBut(Procs, p, ofile, ofile') /\ SameBut(FDs, e, ofile[p], ofile'[p])
      /\ ofile'[p][e] = x
  BY <1>0, <1>1 DEF TypeOK, SameBut
<1>4. ref' \in [Fs -> Nat] /\ \A f \in Fs : ref'[f] = ref[f] + One(f = x)
  BY <1>0, <1>1 DEF TypeOK, One
<1>5. /\ file' \in [Fs -> FileType] /\ file'[x] = InodeFile /\ SameBut(Fs, x, file, file')
  BY <1>0, <1>1, Kinds DEF TypeOK, SameBut
<1>6. TypeOK' /\ pc'[p] = "user"
  BY <1>0, <1>2, <1>3, <1>4, <1>5 DEF TypeOK, calls, Labels
<1>7. StepOf(p)
  BY <1>0, <1>2, <1>3 DEF StepOf, SameBut, TypeOK, calls
<1>8. OwnOnly(p)
  BY <1>0, <1>1 DEF OwnOnly, TypeOK
<1>9. RefsRight'
  <2>1. SameBut(Procs, p, todo, todo')
    BY DEF SameBut, calls
  <2>2. ASSUME NEW f \in Fs
        PROVE  ref'[f] = ref[f] - Held(ofile[p], f) + Held(ofile'[p], f)
                                - Due(todo[p], f) + Due(todo'[p], f)
    <3>1. Held(ofile'[p], f) = Held(ofile[p], f) - One(ofile[p][e] = f) + One(ofile'[p][e] = f)
      <4>1. e \in FDs /\ SameBut(FDs, e, ofile[p], ofile'[p])
        BY <1>1, <1>3
      <4> QED
        BY ONLY <4>1, HeldUpdate
    <3>2. One(ofile[p][e] = f) = 0 /\ One(ofile'[p][e] = f) = One(f = x)
      BY <1>1, <1>3, Constants DEF One
    <3>3. todo' = todo
      BY DEF calls
    <3>4. /\ Held(ofile[p], f) \in Nat /\ Due(todo[p], f) \in Nat /\ ref[f] \in Nat
          /\ One(f = x) \in Nat
      BY <1>0, HeldIs, DueIs DEF TypeOK, One
    <3>5. ref'[f] = ref[f] + One(f = x)
      BY <1>4
    <3>6. Due(todo'[p], f) = Due(todo[p], f)
      BY <3>3
    <3> QED
      BY ONLY <3>1, <3>2, <3>4, <3>5, <3>6
  <2>3. Follows(p, p)
    BY <2>2 DEF Follows
  <2> QED
    BY <1>0, <1>3, <1>6, <2>1, <2>3, RefsFollow
<1>10. Fine(p)'
  <2>1. TodoRight(p)' /\ HalfMade(p)' /\ LastRight(p)' /\ CallRight(p)'
    BY <1>0, <1>6 DEF Fine, TodoRight, HalfMade, LastRight, CallRight, Half, Ends, calls
  <2>2. EmptyHanded(p)'
    BY <1>0, <1>6 DEF Fine, EmptyHanded, calls
  <2> QED
    BY <2>1, <2>2 DEF Fine
<1>11. FreeClean'
  <2>1. \A f \in Fs : f # x => ref'[f] = ref[f] /\ file'[f] = file[f]
    BY <1>0 DEF TypeOK
  <2>2. ref'[x] = 1
    BY <1>0, <1>1 DEF TypeOK
  <2> QED
    BY <1>0, <2>1, <2>2 DEF FreeClean
<1>12. ASSUME NEW v, v # FreeFile
       PROVE  /\ Uses(file, last, v) \in Nat
              /\ Uses(file', last', v) = Uses(file, last, v) + One(InodeFile = v)
  <2>1. SameBut(Procs, p, last, last') /\ last'[p] = last[p]
    BY DEF SameBut, calls
  <2>2. /\ Uses(file, last, v) \in Nat
        /\ Uses(file', last', v) = Uses(file, last, v) - One(file[x] = v) + One(file'[x] = v)
                                                       - One(last[p] = v) + One(last'[p] = v)
    <3>1. x \in Fs /\ SameBut(Fs, x, file, file') /\ p \in Procs /\ SameBut(Procs, p, last, last')
      BY <1>1, <1>5, <2>1
    <3> QED
      BY ONLY <3>1, UsesUpdate
  <2>3. One(file[x] = v) = 0 /\ One(file'[x] = v) = One(InodeFile = v)
    BY <1>1, <1>5, <1>12 DEF One
  <2>4. One(last[p] = v) = One(last'[p] = v) /\ One(last[p] = v) \in Nat
        /\ One(InodeFile = v) \in Nat
    BY <2>1 DEF One
  <2> QED
    BY ONLY <2>2, <2>3, <2>4
<1>13. IrefRight'
  <2> DEFINE v == InodeFile
  <2>1. v # FreeFile /\ One(InodeFile = v) = 1
    BY Kinds DEF One
  <2>2. Uses(file', last', v) = Uses(file, last, v) + One(InodeFile = v)
    BY <1>12, <2>1
  <2> HIDE DEF v
  <2>3. iref' = Uses(file', last', v)
    BY <1>0, <2>1, <2>2 DEF IrefRight, v
  <2> QED
    BY <2>3 DEF IrefRight, v
<1>14. EndsRight'
  <2> SUFFICES ASSUME NEW g \in Pages, NEW end \in Ends
               PROVE  Uses(file', last', PipeFile(g, end)) = One(end \in pipe'[g].ends)
    BY DEF EndsRight, One
  <2>1. PipeFile(g, end) # FreeFile /\ One(InodeFile = PipeFile(g, end)) = 0
    BY Kinds DEF One
  <2>2. Uses(file, last, PipeFile(g, end)) = One(end \in pipe[g].ends)
    BY <1>0 DEF EndsRight
  <2>3. Uses(file', last', PipeFile(g, end))
          = Uses(file, last, PipeFile(g, end)) + One(InodeFile = PipeFile(g, end))
    BY <1>12, <2>1
  <2>4. pipe' = pipe /\ One(end \in pipe[g].ends) \in Nat
    BY DEF One
  <2> QED
    BY ONLY <2>1, <2>2, <2>3, <2>4
<1>15. Ring' /\ Sleeps'
  BY PipesKept
<1> QED
  BY <1>0, <1>6, <1>7, <1>8, <1>9, <1>10, <1>11, <1>13, <1>14, <1>15, Together

LEMMA OpenInodeKeeps ==
  ASSUME Inv, NEW p \in Procs, OpenInode(p)
  PROVE  Inv'
<1>1. CASE FreeFds(p) = {}
  BY <1>1, OpenNoDescriptorKeeps DEF OpenInode
<1>2. CASE FreeFds(p) # {}
  BY <1>2, OpenDescriptorKeeps DEF OpenInode, Return, calls
<1> QED
  BY <1>1, <1>2

\* A list and one file more.
LEMMA OneMore ==
  ASSUME NEW t \in Seq(Fs), NEW x \in Fs
  PROVE  LET s == Append(t, x)
             n == Len(t)
         IN /\ n \in Nat /\ DOMAIN t = 1 .. n /\ s # <<>> /\ Len(s) = n + 1
            /\ DOMAIN s = 1 .. (n + 1) /\ s[n + 1] = x
            /\ \A i \in 1 .. n : s[i] = t[i] /\ t[i] \in Fs
<1>1. Len(t) \in Nat /\ DOMAIN t = 1 .. Len(t) /\ \A i \in 1 .. Len(t) : t[i] \in Fs
  BY LenProperties
<1> QED
  BY <1>1, AppendProperties, LenProperties

LEMMA PipeFile1Keeps ==
  ASSUME Inv, NEW p \in Procs, PipeFile1(p)
  PROVE  Inv'
<1> DEFINE x == Min(FreeFiles)
<1>0. TypeOK /\ Fine(p) /\ pc[p] = "pipe_file" /\ RefsRight /\ FreeClean
  BY DEF Inv, PipeFile1, At
<1>1. CASE FreeFiles = {}
  <2>1. GiveUp(p) /\ UNCHANGED <<tables, io, todo, last, child, exiting, pipe, chan, killed>>
    BY <1>1 DEF PipeFile1, tables
  <2> QED
    BY <1>0, <2>1, GiveUpKeeps DEF Half
<1>2. CASE FreeFiles # {}
  <2>1. x \in Fs /\ ref[x] = 0 /\ Len(todo[p]) = 1 /\ todo[p] \in Seq(Fs)
    BY <1>0, <1>2, FirstFree DEF Fine, TodoRight, TypeOK
  <2>2. /\ ref' = [ref EXCEPT ![x] = 1] /\ todo' = [todo EXCEPT ![p] = Append(@, x)]
        /\ pc' = [pc EXCEPT ![p] = "pipe_page"]
        /\ UNCHANGED <<ofile, file, iref, pipe, io, last, child, exiting, failed, chan, killed>>
    BY <1>2 DEF PipeFile1, Goto
  <2> HIDE DEF x
  <2>3. ref' \in [Fs -> Nat] /\ \A f \in Fs : ref'[f] = ref[f] + One(x = f)
    BY <1>0, <2>1, <2>2 DEF TypeOK, One
  <2>4. /\ todo' \in [Procs -> Seq(Fs)] /\ todo'[p] = Append(todo[p], x)
        /\ SameBut(Procs, p, todo, todo')
    <3>1. Append(todo[p], x) \in Seq(Fs)
      BY <2>1
    <3> QED
      BY <1>0, <2>2, <3>1 DEF TypeOK, SameBut
  <2>5. TypeOK' /\ pc'[p] = "pipe_page"
    BY <1>0, <2>2, <2>3, <2>4 DEF TypeOK, Labels
  <2>6. StepOf(p)
    BY <1>0, <2>2, <2>4 DEF StepOf, SameBut, TypeOK
  <2>7. OwnOnly(p)
    BY <1>0, <2>1, <2>2 DEF OwnOnly, TypeOK
  <2>8. RefsRight'
    <3>1. ASSUME NEW f \in Fs
          PROVE  ref'[f] = ref[f] - Held(ofile[p], f) + Held(ofile'[p], f)
                                  - Due(todo[p], f) + Due(todo'[p], f)
      <4>1. Due(todo'[p], f) = Due(todo[p], f) + One(x = f)
        BY <2>1, <2>4, DueAppend
      <4>2. /\ Held(ofile[p], f) \in Nat /\ ref[f] \in Nat /\ One(x = f) \in Nat
            /\ Held(ofile'[p], f) = Held(ofile[p], f) /\ Due(todo[p], f) \in Nat
        BY <1>0, <2>1, <2>2, HeldIs, DueIs DEF TypeOK, One
      <4>3. ref'[f] = ref[f] + One(x = f)
        BY <2>3
      <4> QED
        BY ONLY <4>1, <4>2, <4>3
    <3>2. Follows(p, p)
      BY <3>1 DEF Follows
    <3>3. SameBut(Procs, p, ofile, ofile')
      BY <2>2 DEF SameBut
    <3> QED
      BY <1>0, <2>4, <2>5, <3>2, <3>3, RefsFollow
  <2>9. Fine(p)'
    <3> DEFINE t == todo[p]
               y == t[1]
               s == Append(t, x)
    <3>1. /\ s # <<>> /\ Len(s) = 2 /\ DOMAIN s = {1, 2} /\ s[1] = y /\ s[2] = x
          /\ y \in Fs /\ DOMAIN todo[p] = {1}
      <4> DEFINE n == Len(t)
      <4>1. t \in Seq(Fs) /\ n = 1 /\ x \in Fs /\ t = todo[p]
        BY <2>1
      <4> HIDE DEF t
      <4>2. /\ DOMAIN t = 1 .. n /\ s # <<>> /\ Len(s) = n + 1
            /\ DOMAIN s = 1 .. (n + 1) /\ s[n + 1] = x
            /\ \A i \in 1 .. n : s[i] = t[i] /\ t[i] \in Fs
        <5>1. t \in Seq(Fs) /\ x \in Fs
          BY <4>1
        <5> QED
          BY ONLY <5>1, OneMore
      <4>3. 1 .. 1 = {1} /\ 1 .. 2 = {1, 2}
        OBVIOUS
      <4> HIDE DEF n, s
      <4> QED
        BY <4>1, <4>2, <4>3
    <3>2. ref[y] = 1 /\ file[y] = FreeFile
      BY <1>0, <3>1 DEF Fine, HalfMade, Half
    <3> HIDE DEF t, y, s
    <3>3. s = todo'[p]
      BY <2>4 DEF s, t
    <3>4. x # y
      BY <2>1, <3>2
    <3>5. ref'[x] = 1 /\ file'[x] = FreeFile /\ ref'[y] = 1 /\ file'[y] = FreeFile
      BY <1>0, <2>1, <2>2, <3>1, <3>2, <3>4 DEF TypeOK, FreeClean
    <3>6. TodoRight(p)' /\ LastRight(p)' /\ CallRight(p)'
      BY <1>0, <2>2, <2>5, <3>1, <3>3, <3>4
      DEF Fine, TodoRight, LastRight, CallRight, Half, Ends
    <3>7. HalfMade(p)'
      BY <3>1, <3>3, <3>5 DEF HalfMade
    <3>8. EmptyHanded(p)'
      BY <1>0, <2>2, <2>5 DEF Fine, EmptyHanded
    <3> QED
      BY <3>6, <3>7, <3>8 DEF Fine
  <2>10. \A f \in Fs : ref'[f] = 0 => ref[f] = 0
    <3>1. \A f \in Fs : ref[f] \in Nat /\ One(x = f) \in Nat
      BY <1>0 DEF One, TypeOK
    <3> QED
      BY ONLY <2>3, <3>1
  <2> QED
    BY <1>0, <2>2, <2>5, <2>6, <2>7, <2>8, <2>9, <2>10, TogetherKinds
<1> QED
  BY <1>1, <1>2

\* The two files of a new pipe, and no others, change.
NewFiles(g, a, b) ==
  /\ file'[a] = PipeFile(g, "read") /\ file'[b] = PipeFile(g, "write")
  /\ \A f \in Fs \ {a, b} : file'[f] = file[f]

\* A new pipe gives a use to each of its ends.
LEMMA NewUses ==
  ASSUME NEW g, NEW a \in Fs, NEW b \in Fs, a # b, file[a] = FreeFile, file[b] = FreeFile,
         UNCHANGED last, NewFiles(g, a, b), NEW v, v # FreeFile
  PROVE  /\ Uses(file, last, v) \in Nat
         /\ Uses(file', last', v) = Uses(file, last, v) + One(PipeFile(g, "read") = v)
                                                      + One(PipeFile(g, "write") = v)
<1> DEFINE r == PipeFile(g, "read")
           w == PipeFile(g, "write")
           m == [f \in Fs |-> IF f = a THEN r ELSE file[f]]
<1>1. /\ SameBut(Fs, a, file, m) /\ SameBut(Fs, b, m, file')
      /\ m[a] = r /\ m[b] = FreeFile /\ file'[b] = w
  BY DEF SameBut, NewFiles
<1>2. IsFiniteSet(Fs) /\ IsFiniteSet(Procs)
  BY Constants
<1> HIDE DEF m, r, w
<1>3. /\ Count(Fs, file, v) \in Nat /\ Count(Fs, m, v) \in Nat
      /\ Count(Fs, m, v) = Count(Fs, file, v) - One(file[a] = v) + One(m[a] = v)
  BY <1>1, <1>2, CountUpdate
<1>4. Count(Fs, file', v) = Count(Fs, m, v) - One(m[b] = v) + One(file'[b] = v)
  BY <1>1, <1>2, CountUpdate
<1>5. /\ One(file[a] = v) = 0 /\ One(m[b] = v) = 0 /\ One(m[a] = v) = One(r = v)
      /\ One(file'[b] = v) = One(w = v) /\ One(r = v) \in Nat /\ One(w = v) \in Nat
  BY <1>1 DEF One
<1>6. Count(Procs, last, v) \in Nat
  <2>1. { p \in Procs : last[p] = v } \in SUBSET Procs
    OBVIOUS
  <2>2. IsFiniteSet({ p \in Procs : last[p] = v })
    BY <1>2, <2>1, FS_Subset
  <2> QED
    BY <2>2, FS_CardinalityType DEF Count
<1>7. /\ Uses(file, last, v) = Count(Fs, file, v) + Count(Procs, last, v)
      /\ Uses(file', last', v) = Count(Fs, file', v) + Count(Procs, last, v)
  BY DEF Uses
<1>8. /\ Uses(file, last, v) \in Nat
      /\ Uses(file', last', v) = Uses(file, last, v) + One(r = v) + One(w = v)
  BY ONLY <1>3, <1>4, <1>5, <1>6, <1>7
<1> QED
  BY <1>8 DEF r, w

\* What a new pipe does to files and pages.
LEMMA NewPipeKeeps ==
  ASSUME Inv, NEW p \in Procs, pc[p] = "pipe_page", NEW g \in Pages, NewPipe(g, todo[p]),
         UNCHANGED <<iref, ref, last, chan>>
  PROVE  /\ file' \in [Fs -> FileType] /\ pipe' \in [Pages -> PipeType]
         /\ OwnOnly(p) /\ FreeClean' /\ IrefRight' /\ EndsRight' /\ Ring' /\ Sleeps'
<1> DEFINE a == todo[p][1]
           b == todo[p][2]
           pj == [FreePage EXCEPT !.ends = Ends]
<1>0. TypeOK /\ Fine(p) /\ FreeClean /\ IrefRight /\ EndsRight /\ Sleeps
  BY DEF Inv
<1>1. todo[p] \in Seq(Fs) /\ DOMAIN todo[p] = {1, 2} /\ a \in Fs /\ b \in Fs /\ a # b
  <2>1. todo[p] \in Seq(Fs) /\ Len(todo[p]) = 2 /\ a # b
    BY <1>0 DEF TypeOK, Fine, TodoRight
  <2> QED
    BY <2>1
<1>2. ref[a] = 1 /\ ref[b] = 1 /\ file[a] = FreeFile /\ file[b] = FreeFile
  BY <1>0, <1>1 DEF Fine, HalfMade, Half
<1>3. /\ pipe[g].ends = {} /\ pipe' = [pipe EXCEPT ![g] = pj]
      /\ file' = [file EXCEPT ![a] = PipeFile(g, "read"), ![b] = PipeFile(g, "write")]
  BY DEF NewPipe
<1>4. pj \in PipeType /\ pj.ends = Ends /\ Fill(pj) = 0
  BY NewPage
<1> HIDE DEF a, b, pj
<1>5. /\ pipe' \in [Pages -> PipeType] /\ pipe'[g] = pj /\ SameBut(Pages, g, pipe, pipe')
      /\ Ring'
  <2>1. Fill(pj) <= PIPESIZE
    BY <1>4, Constants
  <2> QED
    BY <1>3, <1>4, <2>1, PipeChanges
<1>6. file' \in [Fs -> FileType]
  <2>1. PipeFile(g, "read") \in FileType /\ PipeFile(g, "write") \in FileType
    BY Kinds DEF Ends
  <2> QED
    BY <1>0, <1>3, <2>1 DEF TypeOK
<1>7. \A f \in Fs \ {a, b} : file'[f] = file[f]
  BY <1>0, <1>1, <1>3 DEF TypeOK
<1>8. OwnOnly(p) /\ NewFiles(g, a, b)
  <2>1. OwnOnly(p)
    BY <1>1, <1>2, <1>7 DEF OwnOnly, a, b
  <2>2. NewFiles(g, a, b)
    BY <1>0, <1>1, <1>3, <1>7 DEF NewFiles, TypeOK
  <2> QED
    BY <2>1, <2>2
<1>9. FreeClean'
  BY <1>0, <1>2, <1>7 DEF FreeClean
<1>10. ASSUME NEW v, v # FreeFile
       PROVE  /\ Uses(file, last, v) \in Nat
              /\ Uses(file', last', v) = Uses(file, last, v) + One(PipeFile(g, "read") = v)
                                                      + One(PipeFile(g, "write") = v)
  <2>1. UNCHANGED last
    OBVIOUS
  <2>2. NewFiles(g, a, b) /\ a \in Fs /\ b \in Fs /\ a # b
        /\ file[a] = FreeFile /\ file[b] = FreeFile /\ v # FreeFile
    BY <1>1, <1>2, <1>8, <1>10
  <2>3. Uses(file, last, v) \in Nat
    BY ONLY <2>1, <2>2, NewUses
  <2>4. Uses(file', last', v) = Uses(file, last, v) + One(PipeFile(g, "read") = v)
                                                    + One(PipeFile(g, "write") = v)
    BY ONLY <2>1, <2>2, NewUses
  <2> QED
    BY <2>3, <2>4
<1>11. IrefRight'
  <2> DEFINE v == InodeFile
  <2>1. v # FreeFile /\ PipeFile(g, "read") # v /\ PipeFile(g, "write") # v
    BY Kinds
  <2> HIDE DEF v
  <2>2. Uses(file', last', v) = Uses(file, last, v)
    BY <1>10, <2>1 DEF One
  <2>3. iref' = Uses(file', last', v)
    BY <1>0, <2>2 DEF IrefRight, v
  <2> QED
    BY <2>3 DEF IrefRight, v
<1>12. EndsRight'
  <2> SUFFICES ASSUME NEW h \in Pages, NEW e \in Ends
               PROVE  Uses(file', last', PipeFile(h, e)) = One(e \in pipe'[h].ends)
    BY DEF EndsRight, One
  <2>1. PipeFile(h, e) # FreeFile /\ Uses(file, last, PipeFile(h, e)) = One(e \in pipe[h].ends)
    BY <1>0, Kinds DEF EndsRight
  <2>2. Uses(file', last', PipeFile(h, e)) =
          Uses(file, last, PipeFile(h, e)) + One(PipeFile(g, "read") = PipeFile(h, e))
                                           + One(PipeFile(g, "write") = PipeFile(h, e))
    BY <1>10, <2>1
  <2>3. CASE h = g
    <3>1. One(e \in pipe[h].ends) = 0 /\ One(e \in pipe'[h].ends) = 1
      BY <1>3, <1>4, <1>5, <2>3 DEF One
    <3>2. CASE e = "read"
      <4>1. PipeFile(g, "write") # PipeFile(h, e)
        BY <3>2, SamePipeFile
      <4>2. /\ One(PipeFile(g, "read") = PipeFile(h, e)) = 1
            /\ One(PipeFile(g, "write") = PipeFile(h, e)) = 0
        BY <2>3, <3>2, <4>1 DEF One
      <4> QED
        BY <2>1, <2>2, <3>1, <4>2
    <3>3. CASE e = "write"
      <4>1. PipeFile(g, "read") # PipeFile(h, e)
        BY <3>3, SamePipeFile
      <4>2. /\ One(PipeFile(g, "read") = PipeFile(h, e)) = 0
            /\ One(PipeFile(g, "write") = PipeFile(h, e)) = 1
        BY <2>3, <3>3, <4>1 DEF One
      <4> QED
        BY <2>1, <2>2, <3>1, <4>2
    <3> QED
      BY <3>2, <3>3 DEF Ends
  <2>4. CASE h # g
    <3>1. PipeFile(g, "read") # PipeFile(h, e) /\ PipeFile(g, "write") # PipeFile(h, e)
      BY <2>4, SamePipeFile
    <3>2. /\ One(PipeFile(g, "read") = PipeFile(h, e)) = 0
          /\ One(PipeFile(g, "write") = PipeFile(h, e)) = 0
      BY <3>1 DEF One
    <3>3. pipe'[h] = pipe[h]
      BY <1>5, <2>4 DEF SameBut
    <3>4. One(e \in pipe[h].ends) \in Nat
      BY DEF One
    <3> QED
      BY <2>1, <2>2, <3>2, <3>3, <3>4
  <2> QED
    BY <2>3, <2>4
<1>13. Sleeps'
  <2>1. ASSUME NEW q \in Procs, chan[q] # NoChan, chan[q][2] = g PROVE FALSE
    <3>1. chan[q][1] \in {"nread", "nwrite"}
      BY <1>0, <2>1 DEF TypeOK, Chans
    <3> QED
      BY <1>0, <1>3, <2>1, <3>1 DEF Sleeps
  <2> QED
    BY <1>0, <1>5, <2>1, SleepsAt DEF TypeOK
<1> QED
  BY <1>5, <1>6, <1>8, <1>9, <1>11, <1>12, <1>13

LEMMA PipeNoDescriptorsKeeps ==
  ASSUME Inv, NEW p \in Procs, PipeNoDescriptors(p)
  PROVE  Inv'
<1>0. TypeOK /\ Fine(p) /\ pc[p] = "pipe_page" /\ RefsRight
  BY DEF Inv, PipeNoDescriptors, At
<1>1. /\ pc' = [pc EXCEPT ![p] = "close"] /\ failed' = failed \cup {p}
      /\ UNCHANGED <<ofile, ref, iref, io, todo, last, child, exiting, chan, killed>>
  BY DEF PipeNoDescriptors, GiveUp, Goto
<1>2. PICK g \in Pages : NewPipe(g, todo[p])
  BY DEF PipeNoDescriptors
<1>3. /\ file' \in [Fs -> FileType] /\ pipe' \in [Pages -> PipeType]
      /\ OwnOnly(p) /\ FreeClean' /\ IrefRight' /\ EndsRight' /\ Ring' /\ Sleeps'
  BY <1>0, <1>1, <1>2, NewPipeKeeps
<1>4. TypeOK' /\ pc'[p] = "close"
  BY <1>0, <1>1, <1>3 DEF TypeOK, Labels
<1>5. StepOf(p)
  BY <1>0, <1>1 DEF StepOf, SameBut, TypeOK
<1>6. RefsRight'
  BY <1>0, <1>1 DEF RefsRight, Descriptors, InFlight
<1>7. Fine(p)'
  <2>1. todo[p] \in Seq(Fs) /\ Len(todo[p]) = 2
    BY <1>0 DEF TypeOK, Fine, TodoRight
  <2>2. todo[p] # <<>>
    BY <2>1, EmptySeq
  <2> QED
    BY <1>0, <1>1, <1>4, <2>2 DEF Fine, TodoRight, HalfMade, LastRight, CallRight,
                                  EmptyHanded, Half, Ends
<1> QED
  BY <1>0, <1>3, <1>4, <1>5, <1>6, <1>7, Together

\* A list of two files.
LEMMA DueTwo ==
  ASSUME NEW s, DOMAIN s = {1, 2}, NEW f
  PROVE  Due(s, f) = One(s[1] = f) + One(s[2] = f)
<1> DEFINE A == { i \in {1, 2} : s[i] = f }
<1>1. Due(s, f) = Cardinality(A)
  BY DEF Due, Count
<1>2. CASE s[1] = f /\ s[2] = f
  <2>1. A = {1} \cup {2}
    BY <1>2
  <2>2. IsFiniteSet({1}) /\ Cardinality({1}) = 1
    BY FS_Singleton
  <2>3. Cardinality({1} \cup {2}) = 2
    BY <2>2, FS_AddElement
  <2> QED
    BY <1>1, <1>2, <2>1, <2>3 DEF One
<1>3. CASE s[1] = f /\ s[2] # f
  <2>1. A = {1}
    BY <1>3
  <2> QED
    BY <1>1, <1>3, <2>1, FS_Singleton DEF One
<1>4. CASE s[1] # f /\ s[2] = f
  <2>1. A = {2}
    BY <1>4
  <2>2. Cardinality({2}) = 1
    BY FS_Singleton
  <2> QED
    BY <1>1, <1>4, <2>1, <2>2 DEF One
<1>5. CASE s[1] # f /\ s[2] # f
  <2>1. A = {}
    BY <1>5
  <2> QED
    BY <1>1, <1>5, <2>1, FS_EmptySet DEF One
<1> QED
  BY <1>2, <1>3, <1>4, <1>5

SameButTwo(d, e, t, u) == \A i \in FDs \ {d, e} : u[i] = t[i]

\* Two free places of a table are filled.
LEMMA HeldTwo ==
  ASSUME NEW t, NEW u, NEW d \in FDs, NEW e \in FDs, d # e, t[d] = NoFile, t[e] = NoFile,
         SameButTwo(d, e, t, u), NEW f \in Fs
  PROVE  Held(u, f) = Held(t, f) + One(u[d] = f) + One(u[e] = f)
<1> DEFINE m == [i \in FDs |-> IF i = d THEN u[d] ELSE t[i]]
<1>1. SameBut(FDs, d, t, m) /\ SameBut(FDs, e, m, u) /\ m[d] = u[d] /\ m[e] = NoFile
  BY DEF SameBut, SameButTwo
<1> HIDE DEF m
<1>2. Held(m, f) = Held(t, f) - One(t[d] = f) + One(m[d] = f)
  BY <1>1, HeldUpdate
<1>3. Held(u, f) = Held(m, f) - One(m[e] = f) + One(u[e] = f)
  BY <1>1, HeldUpdate
<1>4. One(t[d] = f) = 0 /\ One(m[e] = f) = 0 /\ One(m[d] = f) = One(u[d] = f)
  BY <1>1, Constants DEF One
<1>5. /\ Held(t, f) \in Nat /\ Held(m, f) \in Nat /\ Held(u, f) \in Nat
      /\ One(u[d] = f) \in Nat /\ One(u[e] = f) \in Nat
  BY HeldIs DEF One
<1> QED
  BY ONLY <1>2, <1>3, <1>4, <1>5

LEMMA PipeDescriptorsKeeps ==
  ASSUME Inv, NEW p \in Procs, PipeDescriptors(p)
  PROVE  Inv'
<1> DEFINE d == Min(FreeFds(p))
           e == Min(FreeFds(p) \ {d})
           a == todo[p][1]
           b == todo[p][2]
<1>0. TypeOK /\ Fine(p) /\ pc[p] = "pipe_page" /\ RefsRight
  BY DEF Inv, PipeDescriptors, At
<1>1. /\ ofile' = [ofile EXCEPT ![p][d] = a, ![p][e] = b] /\ todo' = [todo EXCEPT ![p] = <<>>]
      /\ pc' = [pc EXCEPT ![p] = "user"]
      /\ UNCHANGED <<ref, iref, io, last, child, exiting, failed, chan, killed>>
  BY DEF PipeDescriptors, Return, Goto
<1>2. PICK g \in Pages : NewPipe(g, todo[p])
  BY DEF PipeDescriptors
<1>3. d \in FDs /\ e \in FDs /\ d # e /\ ofile[p][d] = NoFile /\ ofile[p][e] = NoFile
  <2> DEFINE S == FreeFds(p)
  <2>1. S \in SUBSET FDs /\ Cardinality(S) > 1 /\ \A i \in S : ofile[p][i] = NoFile
    BY DEF PipeDescriptors, FreeFds
  <2>2. IsFiniteSet(S) /\ S \in SUBSET Nat
    BY <2>1, Constants, FS_Subset
  <2> HIDE DEF S
  <2>3. S # {} /\ S \ {Min(S)} # {}
    <3>1. S # {}
      BY <2>1, FS_EmptySet
    <3>2. /\ IsFiniteSet(S \ {Min(S)})
          /\ Cardinality(S \ {Min(S)}) \in {Cardinality(S), Cardinality(S) - 1}
      BY <2>2, FS_RemoveElement
    <3>3. Cardinality(S) \in Nat
      BY <2>2, FS_CardinalityType
    <3>4. Cardinality(S \ {Min(S)}) # 0
      BY <2>1, <3>2, <3>3
    <3> QED
      BY <3>1, <3>4, FS_EmptySet
  <2>4. Min(S) \in S
    BY <2>2, <2>3, MinIn
  <2>5. Min(S \ {Min(S)}) \in S \ {Min(S)}
    <3>1. S \ {Min(S)} \in SUBSET Nat
      BY <2>2
    <3> QED
      BY <2>3, <3>1, MinIn
  <2>6. d = Min(S) /\ e = Min(S \ {Min(S)})
    BY DEF S
  <2> HIDE DEF d, e
  <2> QED
    BY <2>1, <2>4, <2>5, <2>6
<1> HIDE DEF d, e
<1>4. a \in Fs /\ b \in Fs /\ DOMAIN todo[p] = {1, 2} /\ a = todo[p][1] /\ b = todo[p][2]
  <2>1. todo[p] \in Seq(Fs) /\ Len(todo[p]) = 2
    BY <1>0 DEF TypeOK, Fine, TodoRight
  <2> QED
    BY <2>1
<1> HIDE DEF a, b
<1>5. /\ file' \in [Fs -> FileType] /\ pipe' \in [Pages -> PipeType]
      /\ OwnOnly(p) /\ FreeClean' /\ IrefRight' /\ EndsRight' /\ Ring' /\ Sleeps'
  <2>1. UNCHANGED <<iref, ref, last, chan>>
    BY <1>1
  <2> QED
    BY <1>0, <1>2, <2>1, NewPipeKeeps
<1>6. /\ ofile' \in [Procs -> [FDs -> Fs \cup {NoFile}]] /\ SameBut(Procs, p, ofile, ofile')
      /\ ofile'[p][d] = a /\ ofile'[p][e] = b
      /\ SameButTwo(d, e, ofile[p], ofile'[p])
  BY <1>0, <1>1, <1>3, <1>4 DEF TypeOK, SameBut, SameButTwo
<1>7. /\ todo' \in [Procs -> Seq(Fs)] /\ todo'[p] = <<>> /\ SameBut(Procs, p, todo, todo')
  <2>1. <<>> \in Seq(Fs)
    BY EmptySeq
  <2> QED
    BY <1>0, <1>1, <2>1 DEF TypeOK, SameBut
<1>8. TypeOK' /\ pc'[p] = "user"
  BY <1>0, <1>1, <1>5, <1>6, <1>7 DEF TypeOK, Labels
<1>9. StepOf(p)
  BY <1>0, <1>1, <1>6, <1>7 DEF StepOf, SameBut, TypeOK
<1>10. RefsRight'
  <2>1. ASSUME NEW f \in Fs
        PROVE  ref'[f] = ref[f] - Held(ofile[p], f) + Held(ofile'[p], f)
                                - Due(todo[p], f) + Due(todo'[p], f)
    <3>1. Held(ofile'[p], f) = Held(ofile[p], f) + One(a = f) + One(b = f)
      <4>1. Held(ofile'[p], f) = Held(ofile[p], f) + One(ofile'[p][d] = f)
                                                   + One(ofile'[p][e] = f)
        <5>1. /\ d \in FDs /\ e \in FDs /\ d # e /\ f \in Fs
              /\ ofile[p][d] = NoFile /\ ofile[p][e] = NoFile
              /\ SameButTwo(d, e, ofile[p], ofile'[p])
          BY <1>3, <1>6
        <5> QED
          BY ONLY <5>1, HeldTwo
      <4> QED
        BY <1>6, <4>1
    <3>2. Due(todo[p], f) = One(a = f) + One(b = f)
      BY <1>4, DueTwo
    <3>3. Due(todo'[p], f) = 0
      BY <1>7, DueNone
    <3>4. /\ Held(ofile[p], f) \in Nat /\ ref[f] \in Nat /\ ref'[f] = ref[f]
          /\ One(a = f) \in Nat /\ One(b = f) \in Nat
      BY <1>0, <1>1, HeldIs DEF TypeOK, One
    <3> QED
      BY ONLY <3>1, <3>2, <3>3, <3>4
  <2>2. Follows(p, p)
    BY <2>1 DEF Follows
  <2> QED
    BY <1>0, <1>6, <1>7, <1>8, <2>2, RefsFollow
<1>11. Fine(p)'
  BY <1>0, <1>1, <1>7, <1>8 DEF Fine, TodoRight, HalfMade, LastRight, CallRight,
                                EmptyHanded, Half, Ends
<1> QED
  BY <1>0, <1>5, <1>8, <1>9, <1>10, <1>11, Together

\* A process has closed a file, or has nothing more to do with it.
LEMMA AfterCloseKeeps ==
  ASSUME Inv, NEW p \in Procs, pc[p] \in {"close", "close_last"}, AfterClose(p, todo'[p]),
         last'[p] = FreeFile, UNCHANGED <<ofile, io, exiting>>
  PROVE  /\ pc' \in [Procs -> Labels] /\ SameBut(Procs, p, pc, pc') /\ pc'[p] # "fork"
         /\ failed' \subseteq Procs /\ Fine(p)'
<1>0. TypeOK /\ Fine(p)
  BY DEF Inv
<1>1. /\ pc' = [pc EXCEPT ![p] = IF todo'[p] # <<>> THEN "close"
                                 ELSE IF p \in exiting THEN "gone" ELSE "user"]
      /\ failed' \in {failed, failed \ {p}}
  BY DEF AfterClose
<1>2. /\ pc' \in [Procs -> Labels] /\ SameBut(Procs, p, pc, pc')
      /\ pc'[p] = IF todo'[p] # <<>> THEN "close" ELSE IF p \in exiting THEN "gone" ELSE "user"
  BY <1>0, <1>1 DEF TypeOK, SameBut, Labels
<1>3. TodoRight(p)' /\ HalfMade(p)' /\ LastRight(p)'
  BY <1>2 DEF TodoRight, HalfMade, LastRight, Half
<1>4. CallRight(p)' /\ EmptyHanded(p)'
  BY <1>0, <1>2 DEF Fine, CallRight, EmptyHanded, Ends
<1> QED
  BY <1>0, <1>1, <1>2, <1>3, <1>4 DEF Fine, TypeOK

LEMMA CloseFileKeeps ==
  ASSUME Inv, NEW p \in Procs, CloseFile(p)
  PROVE  Inv'
<1> DEFINE f == Head(todo[p])
           rest == Tail(todo[p])
<1>0. TypeOK /\ Fine(p) /\ pc[p] = "close" /\ RefsRight /\ FreeClean /\ IrefRight /\ EndsRight
  BY DEF Inv, CloseFile, At
<1>1. todo[p] \in Seq(Fs) /\ todo[p] # <<>>
  BY <1>0 DEF TypeOK, Fine, TodoRight
<1>2. f \in Fs /\ rest \in Seq(Fs) /\ 1 \in DOMAIN todo[p] /\ f = todo[p][1]
  BY <1>1, HeadTailProperties, LenProperties, EmptySeq
<1>3. /\ todo' = [todo EXCEPT ![p] = rest] /\ ref' = [ref EXCEPT ![f] = @ - 1]
      /\ file' = IF ref[f] > 1 THEN file ELSE [file EXCEPT ![f] = FreeFile]
      /\ IF ref[f] > 1 \/ file[f].type = "FD_NONE"
         THEN AfterClose(p, rest) /\ UNCHANGED last
         ELSE /\ pc' = [pc EXCEPT ![p] = "close_last"]
              /\ last' = [last EXCEPT ![p] = file[f]] /\ UNCHANGED failed
      /\ UNCHANGED <<ofile, iref, pipe, io, child, exiting, chan, killed>>
  BY DEF CloseFile, Goto
<1>4. Due(rest, f) = Due(todo[p], f) - One(f = f) /\ ref[f] > 0 /\ ref[f] \in Nat
  BY <1>0, <1>1, <1>2, DueTail, CountTells DEF TypeOK
<1>5. \A x : Due(rest, x) = Due(todo[p], x) - One(f = x)
  BY <1>1, DueTail
<1> HIDE DEF f, rest
<1>6. todo' \in [Procs -> Seq(Fs)] /\ todo'[p] = rest /\ SameBut(Procs, p, todo, todo')
  BY <1>0, <1>2, <1>3 DEF TypeOK, SameBut
<1>7. ref' \in [Fs -> Nat] /\ \A x \in Fs : ref'[x] = ref[x] - One(f = x)
  BY <1>0, <1>2, <1>3, <1>4 DEF TypeOK, One
<1>8. last[p] = FreeFile
  BY <1>0 DEF Fine, LastRight
<1>9. TypeOK' => RefsRight'
  <2> SUFFICES ASSUME TypeOK' PROVE RefsRight'
    OBVIOUS
  <2>1. ASSUME NEW x \in Fs
        PROVE  ref'[x] = ref[x] - Held(ofile[p], x) + Held(ofile'[p], x)
                                - Due(todo[p], x) + Due(todo'[p], x)
    <3>1. Due(todo'[p], x) = Due(todo[p], x) - One(f = x) /\ ref'[x] = ref[x] - One(f = x)
      BY <1>5, <1>6, <1>7
    <3>2. /\ Held(ofile[p], x) \in Nat /\ ref[x] \in Nat /\ One(f = x) \in Nat
          /\ Held(ofile'[p], x) = Held(ofile[p], x) /\ Due(todo[p], x) \in Nat
      BY <1>0, <1>1, <1>3, HeldIs, DueIs DEF TypeOK, One
    <3> QED
      BY ONLY <3>1, <3>2
  <2>2. Follows(p, p)
    BY <2>1 DEF Follows
  <2>3. SameBut(Procs, p, ofile, ofile')
    BY <1>3 DEF SameBut
  <2> QED
    BY <1>0, <1>6, <2>2, <2>3, RefsFollow
<1>10. \A x \in Fs \ {f} : ref'[x] = ref[x] /\ file'[x] = file[x]
  BY <1>0, <1>2, <1>3 DEF TypeOK
<1>11. OwnOnly(p)
  <2>1. ref[f] = 1 \/ file' = file
    BY <1>3, <1>4
  <2> QED
    BY <1>2, <1>10, <2>1 DEF OwnOnly
<1>12. CASE ref[f] > 1 \/ file[f].type = "FD_NONE"
  <2>1. AfterClose(p, todo'[p]) /\ last' = last
    BY <1>3, <1>6, <1>12
  <2>2. file' = file /\ (ref[f] > 1 \/ file[f] = FreeFile)
    <3>1. file[f] \in FileType /\ file \in [Fs -> FileType]
      BY <1>0, <1>2 DEF TypeOK
    <3>2. file[f].type = "FD_NONE" => file[f] = FreeFile
      BY <3>1, Kinds
    <3> QED
      BY <1>3, <1>12, <3>1, <3>2
  <2>3. /\ pc' \in [Procs -> Labels] /\ SameBut(Procs, p, pc, pc') /\ pc'[p] # "fork"
        /\ failed' \subseteq Procs /\ Fine(p)'
    <3>1. UNCHANGED <<ofile, io, exiting>>
      BY <1>3
    <3> QED
      BY <1>0, <1>8, <2>1, <3>1, AfterCloseKeeps
  <2>4. TypeOK'
    BY <1>0, <1>3, <1>6, <1>7, <2>1, <2>2, <2>3 DEF TypeOK
  <2>5. StepOf(p)
    BY <1>3, <1>6, <2>1, <2>3 DEF StepOf, SameBut
  <2>6. ASSUME NEW x \in Fs, ref'[x] = 0 PROVE ref[x] = 0 \/ file[x] = FreeFile
    <3>1. CASE x = f
      <4>1. ref'[f] = ref[f] - 1
        BY <1>2, <1>7 DEF One
      <4> QED
        BY <1>4, <2>2, <2>6, <3>1, <4>1
    <3>2. CASE x # f
      BY <1>10, <2>6, <3>2
    <3> QED
      BY <3>1, <3>2
  <2>7. UNCHANGED <<file, iref, last, pipe>> /\ UNCHANGED chan
    BY <1>3, <2>1, <2>2
  <2> QED
    BY <1>0, <1>9, <1>11, <2>3, <2>4, <2>5, <2>6, <2>7, TogetherKinds
<1>13. CASE ~(ref[f] > 1 \/ file[f].type = "FD_NONE")
  <2>1. /\ pc' = [pc EXCEPT ![p] = "close_last"] /\ last' = [last EXCEPT ![p] = file[f]]
        /\ file' = [file EXCEPT ![f] = FreeFile] /\ UNCHANGED failed
    BY <1>3, <1>13
  <2>2. file[f] \in FileType /\ file[f] # FreeFile
    BY <1>0, <1>2, <1>13, Kinds DEF TypeOK
  <2>3. last' \in [Procs -> FileType] /\ last'[p] = file[f] /\ SameBut(Procs, p, last, last')
    BY <1>0, <2>1, <2>2 DEF TypeOK, SameBut
  <2>4. file' \in [Fs -> FileType] /\ file'[f] = FreeFile /\ SameBut(Fs, f, file, file')
    BY <1>0, <1>2, <2>1, Kinds DEF TypeOK, SameBut
  <2>5. pc' \in [Procs -> Labels] /\ pc'[p] = "close_last" /\ SameBut(Procs, p, pc, pc')
    BY <1>0, <2>1 DEF TypeOK, SameBut, Labels
  <2>6. TypeOK'
    BY <1>0, <1>3, <1>6, <1>7, <2>1, <2>3, <2>4, <2>5 DEF TypeOK
  <2>7. StepOf(p)
    BY <1>3, <1>6, <2>3, <2>5 DEF StepOf, SameBut
  <2>8. ASSUME NEW v PROVE Uses(file', last', v) = Uses(file, last, v)
    <3>1. /\ Uses(file, last, v) \in Nat
          /\ Uses(file', last', v) = Uses(file, last, v) - One(file[f] = v) + One(file'[f] = v)
                                                         - One(last[p] = v) + One(last'[p] = v)
      BY <1>2, <2>3, <2>4, UsesUpdate
    <3>2. /\ One(file'[f] = v) = One(last[p] = v) /\ One(last'[p] = v) = One(file[f] = v)
          /\ One(file[f] = v) \in Nat /\ One(last[p] = v) \in Nat
      BY <1>8, <2>3, <2>4 DEF One
    <3> QED
      BY ONLY <3>1, <3>2
  <2>9. IrefRight' /\ EndsRight'
    <3>1. IrefRight'
      BY <1>0, <1>3, <2>8 DEF IrefRight
    <3>2. EndsRight'
      BY <1>0, <1>3, <2>8 DEF EndsRight
    <3> QED
      BY <3>1, <3>2
  <2>10. FreeClean'
    BY <1>0, <1>10, <2>4 DEF FreeClean
  <2>11. Fine(p)'
    BY <1>0, <1>3, <2>2, <2>3, <2>5 DEF Fine, TodoRight, HalfMade, LastRight, CallRight,
                                        EmptyHanded, Half, Ends
  <2>12. Ring' /\ Sleeps'
    BY <1>3, PipesKept
  <2> QED
    BY <1>0, <1>9, <1>11, <2>5, <2>6, <2>7, <2>9, <2>10, <2>11, <2>12, Together
<1> QED
  BY <1>12, <1>13

\* The uses of a file that leaves through pipeclose or iput.
LEMMA LastUse ==
  ASSUME Inv, NEW p \in Procs, last' = [last EXCEPT ![p] = FreeFile], UNCHANGED file,
         NEW v, v # FreeFile
  PROVE  /\ Uses(file, last, v) \in Nat /\ Uses(file', last', v) \in Nat
         /\ Uses(file', last', v) = Uses(file, last, v) - One(last[p] = v)
<1>a. TypeOK /\ 1 \in Fs
  BY Constants DEF Inv, Fs
<1>0. PICK f \in Fs : TypeOK
  BY <1>a
<1>1. SameBut(Procs, p, last, last') /\ last'[p] = FreeFile /\ SameBut(Fs, f, file, file')
  BY <1>0 DEF TypeOK, SameBut
<1>2. Uses(file', last', v) = Uses(file, last, v) - One(file[f] = v) + One(file'[f] = v)
                                                  - One(last[p] = v) + One(last'[p] = v)
  <2>1. f \in Fs /\ p \in Procs
    OBVIOUS
  <2> QED
    BY ONLY <1>1, <2>1, UsesUpdate
<1>4. Uses(file, last, v) \in Nat /\ Uses(file', last', v) \in Nat
  BY <1>0, <1>1, UsesUpdate
<1>3. /\ One(last'[p] = v) = 0 /\ One(file'[f] = v) = One(file[f] = v)
      /\ One(file[f] = v) \in Nat /\ One(last[p] = v) \in Nat
  BY <1>1 DEF One
<1> QED
  BY ONLY <1>2, <1>3, <1>4

\* What pipeclose does to the pages and to those who sleep.
LEMMA PipeCloseKeeps ==
  ASSUME Inv, NEW p \in Procs, NEW g \in Pages, NEW e \in Ends, last[p] = PipeFile(g, e),
         PipeClose(g, e), last' = [last EXCEPT ![p] = FreeFile], UNCHANGED file
  PROVE  /\ pipe' \in [Pages -> PipeType] /\ chan' \in [Procs -> {NoChan} \cup Chans]
         /\ EndsRight' /\ Ring' /\ Sleeps'
<1> DEFINE pi == pipe[g]
           pj == IF pi.ends = {e} THEN FreePage ELSE [pi EXCEPT !.ends = pi.ends \ {e}]
           other == IF e = "write" THEN "nread" ELSE "nwrite"
<1>0. TypeOK /\ EndsRight /\ Ring /\ Sleeps
  BY DEF Inv
<1>1. pi \in PipeType /\ Fill(pi) <= PIPESIZE
  BY <1>0 DEF TypeOK, Ring
<1>2. e \in pi.ends
  BY <1>0, EndsTell
<1>3. pipe' = [pipe EXCEPT ![g] = pj] /\ Wakeup(<<other, g>>)
  <2>1. pipe' = [pipe EXCEPT ![g] = pj]
    BY DEF PipeClose
  <2>2. Wakeup(<<other, g>>)
    BY DEF PipeClose
  <2> QED
    BY <2>1, <2>2
<1>4. pi.ends \in SUBSET Ends /\ pi = pipe[g]
  BY <1>1 DEF PipeType
<1>5. pj \in PipeType /\ Fill(pj) <= PIPESIZE /\ pj.ends = pi.ends \ {e}
  <2>1. CASE pi.ends = {e}
    <3>1. FreePage \in PipeType /\ FreePage.ends = {} /\ Fill(FreePage) = 0
      BY FreePageIs
    <3>2. pj = FreePage
      BY <2>1
    <3> HIDE DEF pj
    <3> QED
      BY <2>1, <3>1, <3>2, Constants
  <2>2. CASE pi.ends # {e}
    <3>1. pj = [pi EXCEPT !.ends = pi.ends \ {e}]
      BY <2>2
    <3> HIDE DEF pj, pi
    <3>2. pj \in PipeType /\ pj.ends = pi.ends \ {e}
      BY <1>1, <3>1 DEF PipeType
    <3>3. pj.nwrite = pi.nwrite /\ pj.nread = pi.nread
      BY <1>1, <3>1 DEF PipeType
    <3>4. Fill(pj) = Fill(pi)
      BY <3>3 DEF Fill
    <3> QED
      BY <1>1, <3>2, <3>4
  <2> QED
    BY <2>1, <2>2
<1>6. pi.ends # {e} => Full(pj) = Full(pi) /\ Empty(pj) = Empty(pi) /\ pj.untold = pi.untold
  <2> SUFFICES ASSUME pi.ends # {e}
               PROVE  Full(pj) = Full(pi) /\ Empty(pj) = Empty(pi) /\ pj.untold = pi.untold
    OBVIOUS
  <2>1. pj = [pi EXCEPT !.ends = pi.ends \ {e}]
    OBVIOUS
  <2> HIDE DEF pj, pi
  <2>2. pj.nwrite = pi.nwrite /\ pj.nread = pi.nread /\ pj.untold = pi.untold
    BY <1>1, <2>1 DEF PipeType
  <2> QED
    BY <2>2 DEF Full, Empty
<1> HIDE DEF pj, pi
<1>7. /\ pipe' \in [Pages -> PipeType] /\ pipe'[g] = pj /\ SameBut(Pages, g, pipe, pipe') /\ Ring'
  BY <1>3, <1>5, PipeChanges
<1>8. /\ chan' \in [Procs -> {NoChan} \cup Chans]
      /\ \A q \in Procs : chan'[q] # NoChan => chan'[q] = chan[q] /\ chan[q] # <<other, g>>
  BY <1>0, <1>3 DEF TypeOK, Wakeup
<1>9. ASSUME NEW q \in Procs, chan'[q] # NoChan, chan'[q][2] = g
      PROVE  Justified(pipe'[g], chan'[q])
  <2>1. chan'[q] = chan[q] /\ chan[q] # <<other, g>> /\ chan[q] \in Chans
    BY <1>0, <1>8, <1>9 DEF TypeOK
  <2>2. chan[q][1] # other /\ chan[q][1] \in {"nread", "nwrite"}
    BY <1>9, <2>1 DEF Chans
  <2>3. Justified(pi, chan[q])
    BY <1>0, <1>4, <1>9, <2>1 DEF Sleeps, Justified
  <2>4. CASE e = "write"
    <3>1. chan[q][1] = "nwrite" /\ "read" \in pi.ends /\ Full(pi)
      BY <2>2, <2>3, <2>4 DEF Justified
    <3>2. "read" \in pj.ends /\ Full(pj)
      BY <1>5, <1>6, <2>4, <3>1
    <3> QED
      BY <1>7, <2>1, <3>1, <3>2 DEF Justified
  <2>5. CASE e = "read"
    <3>1. chan[q][1] = "nread" /\ "write" \in pi.ends /\ (Empty(pi) \/ pi.untold)
      BY <2>2, <2>3, <2>5 DEF Justified
    <3>2. "write" \in pj.ends /\ (Empty(pj) \/ pj.untold)
      BY <1>5, <1>6, <2>5, <3>1
    <3> QED
      BY <1>7, <2>1, <3>1, <3>2 DEF Justified
  <2> QED
    BY <2>4, <2>5 DEF Ends
<1>10. Sleeps'
  BY <1>7, <1>8, <1>9, SleepsAt
<1>11. EndsRight'
  <2> SUFFICES ASSUME NEW h \in Pages, NEW d \in Ends
               PROVE  Uses(file', last', PipeFile(h, d)) = One(d \in pipe'[h].ends)
    BY DEF EndsRight, One
  <2>1. PipeFile(h, d) # FreeFile /\ Uses(file, last, PipeFile(h, d)) = One(d \in pipe[h].ends)
    BY <1>0, Kinds DEF EndsRight
  <2>2. Uses(file', last', PipeFile(h, d)) = Uses(file, last, PipeFile(h, d))
                                              - One(PipeFile(g, e) = PipeFile(h, d))
    <3>1. Uses(file', last', PipeFile(h, d)) = Uses(file, last, PipeFile(h, d))
                                                - One(last[p] = PipeFile(h, d))
      BY <2>1, LastUse
    <3> QED
      BY <3>1
  <2>3. CASE h = g /\ d = e
    <3>1. One(PipeFile(g, e) = PipeFile(h, d)) = 1 /\ One(d \in pipe[h].ends) = 1
          /\ One(d \in pipe'[h].ends) = 0
      BY <1>2, <1>4, <1>5, <1>7, <2>3 DEF One
    <3> QED
      BY <2>1, <2>2, <3>1
  <2>4. CASE ~(h = g /\ d = e)
    <3>1. PipeFile(g, e) # PipeFile(h, d)
      BY <2>4, SamePipeFile
    <3>2. d \in pipe'[h].ends <=> d \in pipe[h].ends
      <4>1. CASE h = g
        BY <1>4, <1>5, <1>7, <2>4, <4>1
      <4>2. CASE h # g
        BY <1>7, <4>2 DEF SameBut
      <4> QED
        BY <4>1, <4>2
    <3>3. /\ One(PipeFile(g, e) = PipeFile(h, d)) = 0
          /\ One(d \in pipe'[h].ends) = One(d \in pipe[h].ends)
          /\ One(d \in pipe[h].ends) \in Nat
      BY <3>1, <3>2 DEF One
    <3> QED
      BY <2>1, <2>2, <3>3
  <2> QED
    BY <2>3, <2>4
<1> QED
  BY <1>7, <1>8, <1>10, <1>11

LEMMA CloseLastKeeps ==
  ASSUME Inv, NEW p \in Procs, CloseLast(p)
  PROVE  Inv'
<1>0. /\ TypeOK /\ Fine(p) /\ pc[p] = "close_last" /\ RefsRight /\ FreeClean
      /\ IrefRight /\ EndsRight
  BY DEF Inv, CloseLast, At
<1>1. /\ last' = [last EXCEPT ![p] = FreeFile] /\ AfterClose(p, todo[p])
      /\ UNCHANGED <<ofile, ref, file, io, todo, child, exiting, killed>>
  BY DEF CloseLast
<1>2. last[p] \in FileType /\ last[p] # FreeFile
  BY <1>0 DEF TypeOK, Fine, LastRight
<1>3. last' \in [Procs -> FileType] /\ last'[p] = FreeFile /\ SameBut(Procs, p, last, last')
  BY <1>0, <1>1, Kinds DEF TypeOK, SameBut
<1>4. /\ pc' \in [Procs -> Labels] /\ SameBut(Procs, p, pc, pc') /\ pc'[p] # "fork"
      /\ failed' \subseteq Procs /\ Fine(p)'
  <2>1. AfterClose(p, todo'[p]) /\ UNCHANGED <<ofile, io, exiting>>
    BY <1>1
  <2> QED
    BY <1>0, <1>3, <2>1, AfterCloseKeeps
<1>5. StepOf(p) /\ OwnOnly(p)
  BY <1>1, <1>3, <1>4 DEF StepOf, OwnOnly, SameBut
<1>6. RefsRight' /\ FreeClean'
  BY <1>0, <1>1 DEF RefsRight, FreeClean, Descriptors, InFlight
<1>7. IrefRight' /\ EndsRight' /\ Ring' /\ Sleeps' /\ iref' \in Nat
      /\ pipe' \in [Pages -> PipeType] /\ chan' \in [Procs -> {NoChan} \cup Chans]
  <2>0. InodeFile # FreeFile
    BY Kinds
  <2>1. /\ Uses(file', last', InodeFile) \in Nat /\ Uses(file, last, InodeFile) \in Nat
        /\ Uses(file', last', InodeFile) = Uses(file, last, InodeFile) - One(last[p] = InodeFile)
    BY <1>1, <2>0, LastUse
  <2>2. CASE last[p] = InodeFile
    <3>1. iref' = iref - 1 /\ UNCHANGED <<pipe, chan>>
      BY <2>2, Kinds DEF CloseLast
    <3>2. IrefRight' /\ iref' \in Nat
      <4>1. One(last[p] = InodeFile) = 1
        BY <2>2 DEF One
      <4>2. iref' = Uses(file', last', InodeFile)
        BY <1>0, <2>1, <3>1, <4>1 DEF IrefRight
      <4> QED
        BY <2>1, <4>2 DEF IrefRight
    <3>3. EndsRight'
      <4> SUFFICES ASSUME NEW h \in Pages, NEW d \in Ends
                   PROVE  Uses(file', last', PipeFile(h, d)) = One(d \in pipe[h].ends)
        BY <3>1 DEF EndsRight
      <4>1. PipeFile(h, d) # FreeFile /\ last[p] # PipeFile(h, d)
        BY <2>2, Kinds
      <4>2. /\ Uses(file, last, PipeFile(h, d)) \in Nat
            /\ Uses(file', last', PipeFile(h, d)) = Uses(file, last, PipeFile(h, d))
                                                    - One(last[p] = PipeFile(h, d))
        BY <1>1, <4>1, LastUse
      <4>3. One(last[p] = PipeFile(h, d)) = 0
        BY <4>1 DEF One
      <4> QED
        BY <1>0, <4>2, <4>3 DEF EndsRight
    <3>4. Ring' /\ Sleeps'
      BY <3>1, PipesKept
    <3> QED
      BY <1>0, <3>1, <3>2, <3>3, <3>4 DEF TypeOK
  <2>3. CASE \E g \in Pages, e \in Ends : last[p] = PipeFile(g, e)
    <3>1. PICK g \in Pages, e \in Ends : last[p] = PipeFile(g, e)
      BY <2>3
    <3>2. last[p].type = "FD_PIPE" /\ last[p].pipe = g /\ last[p].mode = {e}
          /\ last[p] # InodeFile
      BY <3>1, Kinds
    <3>3. PipeClose(g, e) /\ UNCHANGED iref
      <4>1. (CHOOSE x \in {e} : TRUE) = e
        OBVIOUS
      <4> QED
        BY <3>2, <4>1 DEF CloseLast
    <3>4. /\ pipe' \in [Pages -> PipeType] /\ chan' \in [Procs -> {NoChan} \cup Chans]
          /\ EndsRight' /\ Ring' /\ Sleeps'
      BY <1>1, <3>1, <3>3, PipeCloseKeeps
    <3>5. IrefRight'
      <4>1. One(last[p] = InodeFile) = 0
        BY <3>2 DEF One
      <4> QED
        BY <1>0, <2>1, <3>3, <4>1 DEF IrefRight
    <3> QED
      BY <1>0, <3>3, <3>4, <3>5 DEF TypeOK
  <2> QED
    BY <1>2, <2>2, <2>3, Kinds
<1>8. TypeOK'
  BY <1>0, <1>1, <1>3, <1>4, <1>7 DEF TypeOK
<1> QED
  BY <1>0, <1>4, <1>5, <1>6, <1>7, <1>8, Together

(* exit *)

\* The ranks of n descriptors are the numbers below n, each once.
LEMMA RankIs ==
  ASSUME NEW S \in SUBSET FDs
  PROVE  /\ IsFiniteSet(S) /\ Cardinality(S) \in Nat
         /\ \A d \in S : Rank(S, d) \in 0 .. Cardinality(S) - 1
         /\ \A d, e \in S : Rank(S, d) = Rank(S, e) => d = e
<1>1. IsFiniteSet(S) /\ Cardinality(S) \in Nat /\ \A d \in S : d \in Int
  <2>1. \A d \in S : d \in Int
    BY Constants
  <2>2. IsFiniteSet(S)
    <3>1. IsFiniteSet(FDs)
      BY Constants
    <3> QED
      BY <3>1, FS_Subset
  <2> QED
    BY <2>1, <2>2, FS_CardinalityType
<1>2. ASSUME NEW d \in S
      PROVE  /\ Rank(S, d) \in 0 .. Cardinality(S) - 1
             /\ \A e \in S : d < e => Rank(S, d) < Rank(S, e)
  <2> DEFINE A == { x \in S : x < d }
  <2>1. A \in SUBSET S /\ d \notin A
    BY <1>1
  <2>2. IsFiniteSet(A) /\ Cardinality(A) \in Nat /\ Rank(S, d) = Cardinality(A)
    BY <1>1, <2>1, FS_Subset, FS_CardinalityType DEF Rank
  <2>3. Cardinality(A) < Cardinality(S)
    <3>1. A # S
      BY <2>1
    <3> HIDE DEF A
    <3>2. Cardinality(A) <= Cardinality(S) /\ Cardinality(S) # Cardinality(A)
      BY <1>1, <2>1, <3>1, FS_Subset
    <3> QED
      BY ONLY <1>1, <2>2, <3>2
  <2>4. ASSUME NEW e \in S, d < e PROVE Rank(S, d) < Rank(S, e)
    <3> DEFINE B == { x \in S : x < e }
    <3>1. B \in SUBSET S /\ d \in B /\ A \in SUBSET B
      <4>1. \A x \in S : x \in Int
        BY <1>1
      <4>2. \A x \in S : x < d => x < e
        BY <2>4, <4>1
      <4> QED
        BY <2>4, <4>2
    <3>2. IsFiniteSet(B) /\ Cardinality(B) \in Nat /\ Rank(S, e) = Cardinality(B)
      BY <1>1, <3>1, FS_Subset, FS_CardinalityType DEF Rank
    <3>3. A # B
      BY <2>1, <3>1
    <3> HIDE DEF A, B
    <3>4. Cardinality(A) <= Cardinality(B) /\ Cardinality(B) # Cardinality(A)
      BY <3>1, <3>2, <3>3, FS_Subset
    <3> QED
      BY ONLY <2>2, <3>2, <3>4
  <2> HIDE DEF A
  <2> QED
    BY <1>1, <2>2, <2>3, <2>4
<1>3. ASSUME NEW d \in S, NEW e \in S, Rank(S, d) = Rank(S, e) PROVE d = e
  <2>1. ~(d < e) /\ ~(e < d)
    BY <1>1, <1>2, <1>3
  <2> QED
    BY <1>1, <2>1
<1> QED
  BY <1>1, <1>2, <1>3

LEMMA RankOnto ==
  ASSUME NEW S \in SUBSET FDs, NEW i \in 1 .. Cardinality(S)
  PROVE  \E d \in S : Rank(S, d) = i - 1
<1> DEFINE n == Cardinality(S)
           r == [d \in S |-> Rank(S, d) + 1]
<1>1. /\ IsFiniteSet(S) /\ n \in Nat /\ \A d \in S : Rank(S, d) \in 0 .. n - 1
      /\ \A d, e \in S : Rank(S, d) = Rank(S, e) => d = e
  BY RankIs
<1> HIDE DEF n
<1>2. r \in [S -> 1 .. n]
  BY <1>1
<1>3. \A d, e \in S : r[d] = r[e] => d = e
  BY <1>1
<1>4. r \in Injection(S, 1 .. n)
  <2>1. DOMAIN r = S
    OBVIOUS
  <2> HIDE DEF r
  <2> QED
    BY <1>2, <1>3, <2>1 DEF Injection, IsInjective
<1>5. IsFiniteSet(1 .. n) /\ Cardinality(1 .. n) = n
  <2> PICK one \in Int : one = 1
    OBVIOUS
  <2>1. IsFiniteSet(one .. n) /\ Cardinality(one .. n) = IF one > n THEN 0 ELSE n - one + 1
    BY <1>1, FS_Interval
  <2> QED
    BY <1>1, <2>1
<1>6. r \in Surjection(S, 1 .. n)
  <2>1. Cardinality(S) = Cardinality(1 .. n)
    BY <1>5 DEF n
  <2> HIDE DEF r
  <2> QED
    BY <1>4, <1>5, <2>1, FS_Injection
<1>7. PICK d \in S : r[d] = i
  <2> HIDE DEF r
  <2> QED
    BY <1>6 DEF Surjection, n
<1> QED
  BY <1>1, <1>7

\* What exit closes: a file once for every descriptor of the process.
LEMMA OpenFilesIs ==
  ASSUME TypeOK, NEW p \in Procs
  PROVE  /\ OpenFiles(p) \in Seq(Fs)
         /\ \A f \in Fs : Due(OpenFiles(p), f) = Held(ofile[p], f)
<1> DEFINE S == FDs \ FreeFds(p)
           n == Cardinality(S)
           m(i) == CHOOSE d \in S : Rank(S, d) = i - 1
           s == [i \in 1 .. n |-> ofile[p][m(i)]]
<1>1. /\ IsFiniteSet(S) /\ n \in Nat /\ \A d \in S : Rank(S, d) \in 0 .. n - 1
      /\ \A d, e \in S : Rank(S, d) = Rank(S, e) => d = e
  <2>1. S \in SUBSET FDs
    OBVIOUS
  <2> HIDE DEF S
  <2> QED
    BY <2>1, RankIs
<1>2. \A i \in 1 .. n : m(i) \in S /\ Rank(S, m(i)) = i - 1
  <2>1. S \in SUBSET FDs
    OBVIOUS
  <2> HIDE DEF S
  <2>2. \A i \in 1 .. n : \E d \in S : Rank(S, d) = i - 1
    BY <2>1, RankOnto
  <2> QED
    BY <2>2
<1>3. /\ \A d \in S : d \in FDs /\ ofile[p][d] \in Fs
      /\ \A d \in FDs : ofile[p][d] \in Fs => d \in S
  BY Constants DEF TypeOK, FreeFds
<1>4. OpenFiles(p) = s
  BY DEF OpenFiles
<1> HIDE DEF S, m, n
<1>5. \A i \in 1 .. n : s[i] \in Fs
  BY <1>2, <1>3
<1>6. s \in Seq(Fs) /\ DOMAIN s = 1 .. n
  BY <1>1, <1>5
<1>7. ASSUME NEW f \in Fs PROVE Due(s, f) = Held(ofile[p], f)
  <2> DEFINE W == { i \in DOMAIN s : s[i] = f }
             H == { d \in FDs : ofile[p][d] = f }
             b == [i \in W |-> m(i)]
  <2>1. \A i \in W : i \in 1 .. n /\ m(i) \in H /\ m(i) \in S /\ Rank(S, m(i)) = i - 1
    BY <1>2, <1>3, <1>6
  <2>2. \A i, j \in W : m(i) = m(j) => i = j
    BY <2>1
  <2>3. \A d \in H : \E i \in W : m(i) = d
    <3> SUFFICES ASSUME NEW d \in H PROVE \E i \in W : m(i) = d
      OBVIOUS
    <3>1. d \in S /\ ofile[p][d] = f
      BY <1>3
    <3> DEFINE i == Rank(S, d) + 1
    <3>2. i \in 1 .. n /\ i - 1 = Rank(S, d)
      BY <1>1, <3>1
    <3> HIDE DEF i
    <3>3. m(i) \in S /\ Rank(S, m(i)) = Rank(S, d)
      BY <1>2, <3>2
    <3>4. m(i) = d
      BY <1>1, <3>1, <3>3
    <3>5. i \in DOMAIN s /\ s[i] = f
      BY <1>6, <3>1, <3>2, <3>4
    <3> QED
      BY <3>4, <3>5
  <2>4. IsFiniteSet(W) /\ Due(s, f) = Cardinality(W) /\ Held(ofile[p], f) = Cardinality(H)
    <3> HIDE DEF s
    <3> QED
      BY <1>6, DueIs DEF Due, Held, Count
  <2> HIDE DEF W, H
  <2>5. b \in [W -> H] /\ DOMAIN b = W /\ \A i \in W : b[i] = m(i)
    BY <2>1
  <2> HIDE DEF b
  <2>6. b \in Injection(W, H)
    BY <2>2, <2>5 DEF Injection, IsInjective
  <2>7. b \in Surjection(W, H)
    BY <2>3, <2>5 DEF Surjection
  <2>8. ExistsBijection(W, H)
    BY <2>6, <2>7 DEF ExistsBijection, Bijection
  <2>9. Cardinality(H) = Cardinality(W)
    BY <2>4, <2>8, FS_Bijection
  <2> QED
    BY <2>4, <2>9
<1> HIDE DEF s
<1> QED
  BY <1>4, <1>6, <1>7

LEMMA ExitKeeps ==
  ASSUME Inv, NEW p \in Procs, Exit(p)
  PROVE  Inv'
<1> DEFINE l == IF OpenFiles(p) = <<>> THEN "gone" ELSE "close"
           s == OpenFiles(p)
<1>0. TypeOK /\ Fine(p) /\ pc[p] = "user" /\ RefsRight
  BY DEF Inv, Exit, At
<1>1. s \in Seq(Fs) /\ todo[p] = <<>> /\ \A f \in Fs : Due(s, f) = Held(ofile[p], f)
  BY <1>0, OpenFilesIs DEF Fine, TodoRight, Half
<1>2. /\ exiting' = exiting \cup {p} /\ todo' = [todo EXCEPT ![p] = s]
      /\ ofile' = [ofile EXCEPT ![p] = NoFiles] /\ pc' = [pc EXCEPT ![p] = l]
      /\ UNCHANGED <<ref, file, iref, pipe, io, last, child, failed, chan, killed>>
  BY DEF Exit
<1>3. l \in {"gone", "close"} /\ l \in Labels /\ (l = "close" <=> s # <<>>)
  BY DEF Labels
<1> HIDE DEF l, s
<1>4. /\ ofile' \in [Procs -> [FDs -> Fs \cup {NoFile}]] /\ ofile'[p] = NoFiles
      /\ SameBut(Procs, p, ofile, ofile') /\ \A d \in FDs : ofile'[p][d] = NoFile
  BY <1>0, <1>2 DEF TypeOK, SameBut, NoFiles
<1>5. todo' \in [Procs -> Seq(Fs)] /\ todo'[p] = s /\ SameBut(Procs, p, todo, todo')
  BY <1>0, <1>1, <1>2 DEF TypeOK, SameBut
<1>6. pc' \in [Procs -> Labels] /\ pc'[p] = l
  BY <1>0, <1>2, <1>3 DEF TypeOK
<1>7. TypeOK'
  BY <1>0, <1>2, <1>4, <1>5, <1>6 DEF TypeOK
<1>8. StepOf(p)
  BY <1>0, <1>2, <1>4, <1>5 DEF StepOf, SameBut, TypeOK
<1>9. OwnOnly(p)
  BY <1>2 DEF OwnOnly
<1>10. RefsRight'
  <2>1. ASSUME NEW f \in Fs
        PROVE  ref'[f] = ref[f] - Held(ofile[p], f) + Held(ofile'[p], f)
                                - Due(todo[p], f) + Due(todo'[p], f)
    <3>1. Held(ofile'[p], f) = 0
      <4>1. \A d \in FDs : ofile'[p][d] # f
        BY <1>4, Constants
      <4> QED
        BY <4>1, HeldIs
    <3>2. Due(todo[p], f) = 0 /\ Due(todo'[p], f) = Held(ofile[p], f)
      BY <1>1, <1>5, DueNone
    <3>3. Held(ofile[p], f) \in Nat /\ ref[f] \in Nat /\ ref'[f] = ref[f]
      BY <1>0, <1>2, HeldIs DEF TypeOK
    <3> QED
      BY ONLY <3>1, <3>2, <3>3
  <2>2. Follows(p, p)
    BY <2>1 DEF Follows
  <2> QED
    BY <1>0, <1>4, <1>5, <1>7, <2>2, RefsFollow
<1>11. Fine(p)'
  <2>1. TodoRight(p)' /\ HalfMade(p)' /\ LastRight(p)' /\ CallRight(p)'
    BY <1>0, <1>2, <1>3, <1>5, <1>6
       DEF Fine, TodoRight, HalfMade, LastRight, CallRight, Half, Ends
  <2>2. EmptyHanded(p)'
    BY <1>2, <1>3, <1>4, <1>6 DEF EmptyHanded
  <2> QED
    BY <2>1, <2>2 DEF Fine
<1>12. pc'[p] # "fork"
  BY <1>3, <1>6
<1> QED
  BY <1>0, <1>2, <1>7, <1>8, <1>9, <1>10, <1>11, <1>12, TogetherKinds

------------------------------------------------------------------------------
(* fork: its steps are of two processes *)

\* A child that is being made has nothing to do.
LEMMA NewChild ==
  ASSUME Inv, NEW p \in Procs, pc[p] = "fork"
  PROVE  /\ child[p] \in Procs /\ child[p] # p
         /\ pc[child[p]] = "new" /\ child[p] \notin exiting
         /\ \A q \in Procs : pc[q] = "fork" /\ q # p =>
              child[q] # child[p] /\ pc[child[q]] = "new"
<1>1. child[p] \in Procs /\ Forks /\ \A q \in Procs : Fine(q)
  BY DEF Inv, TypeOK
<1>2. pc[child[p]] = "new"
  BY <1>1 DEF Forks
<1>3. child[p] \notin exiting
  BY <1>1, <1>2 DEF Fine, EmptyHanded
<1> QED
  BY <1>1, <1>2, <1>3 DEF Forks

LEMMA ForkKeeps ==
  ASSUME Inv, NEW p \in Procs, NEW q \in Procs, Fork(p, q)
  PROVE  Inv'
<1>0. TypeOK /\ (\A r \in Procs : Fine(r)) /\ Forks /\ pc[p] = "user" /\ pc[q] = "none"
  BY DEF Inv, Fork, Syscall, At
<1>1. /\ pc' = [pc EXCEPT ![p] = "fork", ![q] = "new"] /\ child' = [child EXCEPT ![p] = q]
      /\ UNCHANGED <<ofile, ref, file, iref, pipe, io, todo, last, exiting, failed, chan, killed>>
  BY DEF Fork, tables
<1>2. p # q
  BY <1>0
<1>3. /\ pc' \in [Procs -> Labels] /\ pc'[p] = "fork" /\ pc'[q] = "new"
      /\ \A r \in Procs \ {p, q} : pc'[r] = pc[r]
  BY <1>0, <1>1, <1>2 DEF TypeOK, Labels
<1>4. /\ child' \in [Procs -> Procs] /\ child'[p] = q
      /\ \A r \in Procs \ {p} : child'[r] = child[r]
  BY <1>0, <1>1 DEF TypeOK
<1>5. TypeOK'
  BY <1>0, <1>1, <1>3, <1>4 DEF TypeOK
<1>6. ASSUME NEW r \in Procs PROVE Fine(r)'
  <2>0. Fine(r)
    BY <1>0
  <2>1. CASE r = p
    BY <1>0, <1>1, <1>3, <2>0, <2>1
       DEF Fine, TodoRight, HalfMade, LastRight, CallRight, EmptyHanded, Half, Ends
  <2>2. CASE r = q
    BY <1>0, <1>1, <1>3, <2>0, <2>2
       DEF Fine, TodoRight, HalfMade, LastRight, CallRight, EmptyHanded, Half, Ends
  <2>3. CASE r # p /\ r # q
    <3>1. pc'[r] = pc[r]
      BY <1>3, <2>3
    <3> QED
      BY <1>1, <2>0, <3>1
         DEF Fine, TodoRight, HalfMade, LastRight, CallRight, EmptyHanded
  <2> QED
    BY <2>1, <2>2, <2>3
<1>7. Forks'
  <2>1. ofile[q] = NoFiles
    BY <1>0 DEF Fine, EmptyHanded
  <2>2. ASSUME NEW r \in Procs, pc'[r] = "fork", r # p
        PROVE  /\ pc[r] = "fork" /\ child'[r] = child[r] /\ child[r] \in Procs
               /\ child[r] # p /\ child[r] # q
               /\ pc'[child[r]] = "new"
               /\ \A d \in FDs : ofile[child[r]][d] \in {ofile[r][d], NoFile}
    <3>1. pc[r] = "fork" /\ child'[r] = child[r] /\ child[r] \in Procs
      BY <1>0, <1>3, <1>4, <2>2 DEF TypeOK
    <3>2. /\ pc[child[r]] = "new"
          /\ \A d \in FDs : ofile[child[r]][d] \in {ofile[r][d], NoFile}
      BY <1>0, <3>1 DEF Forks
    <3>3. child[r] # p /\ child[r] # q
      BY <1>0, <3>2
    <3> QED
      BY <1>3, <3>1, <3>2, <3>3
  <2>3. ASSUME NEW r \in Procs, pc'[r] = "fork"
        PROVE  /\ pc'[child'[r]] = "new"
               /\ \A d \in FDs : ofile'[child'[r]][d] \in {ofile'[r][d], NoFile}
    <3>1. CASE r = p
      BY <1>1, <1>3, <1>4, <2>1, <3>1 DEF NoFiles
    <3>2. CASE r # p
      BY <1>1, <2>2, <2>3, <3>2
    <3> QED
      BY <3>1, <3>2
  <2>4. ASSUME NEW r \in Procs, NEW u \in Procs, pc'[r] = "fork", pc'[u] = "fork",
               child'[r] = child'[u]
        PROVE  r = u
    <3>1. CASE r = p \/ u = p
      BY <1>4, <2>2, <2>4, <3>1
    <3>2. CASE r # p /\ u # p
      <4>1. /\ pc[r] = "fork" /\ child'[r] = child[r]
            /\ pc[u] = "fork" /\ child'[u] = child[u]
        BY <2>2, <2>4, <3>2
      <4> QED
        BY <1>0, <2>4, <4>1 DEF Forks
    <3> QED
      BY <3>1, <3>2
  <2> QED
    BY <2>3, <2>4 DEF Forks
<1>8. Ring' /\ Sleeps'
  BY <1>1, PipesKept
<1>9. FreeClean' /\ RefsRight' /\ IrefRight' /\ EndsRight'
  BY <1>1, CountsKept
<1> QED
  BY <1>5, <1>6, <1>7, <1>8, <1>9 DEF Inv

\* A descriptor of the child.
LEMMA ForkDupKeeps ==
  ASSUME Inv, NEW p \in Procs, ForkDup(p)
  PROVE  Inv'
<1> DEFINE c == child[p]
           d == Min(FreeFds(c) \ FreeFds(p))
           x == ofile[p][d]
<1>0. /\ TypeOK /\ (\A r \in Procs : Fine(r)) /\ Forks /\ pc[p] = "fork"
      /\ FreeClean /\ RefsRight /\ IrefRight /\ EndsRight
  BY DEF Inv, ForkDup, At
<1>1. /\ c \in Procs /\ c # p /\ pc[c] = "new" /\ c \notin exiting
      /\ \A q \in Procs : pc[q] = "fork" /\ q # p => child[q] # c /\ pc[child[q]] = "new"
  BY <1>0, NewChild
<1>2. \A i \in FDs : ofile[c][i] \in {ofile[p][i], NoFile}
  BY <1>0 DEF Forks
<1>3. d \in FDs /\ ofile[c][d] = NoFile /\ x # NoFile
  <2> DEFINE S == FreeFds(c) \ FreeFds(p)
  <2>1. FreeFds(p) \subseteq FreeFds(c)
    BY <1>2 DEF FreeFds
  <2>2. S # {}
    BY <2>1 DEF ForkDup
  <2>3. S \in SUBSET Nat
    BY Constants DEF FreeFds
  <2>4. \A i \in S : i \in FDs /\ ofile[c][i] = NoFile /\ ofile[p][i] # NoFile
    BY DEF FreeFds
  <2> HIDE DEF S
  <2>5. Min(S) \in S
    BY <2>2, <2>3, MinIn
  <2> QED
    BY <2>4, <2>5 DEF S
<1>4. x \in Fs
  BY <1>0, <1>3 DEF TypeOK
<1>5. /\ ofile' = [ofile EXCEPT ![c][d] = x] /\ ref' = [ref EXCEPT ![x] = @ + 1]
      /\ UNCHANGED <<file, iref, pipe, io, todo, last, child, exiting, failed, pc, chan, killed>>
  BY DEF ForkDup, calls
<1>6. x = ofile[p][d] /\ c = child[p]
  OBVIOUS
<1> HIDE DEF c, d, x
<1>7. /\ ofile' \in [Procs -> [FDs -> Fs \cup {NoFile}]]
      /\ SameBut(Procs, c, ofile, ofile') /\ SameBut(FDs, d, ofile[c], ofile'[c])
      /\ ofile'[c][d] = x
  BY <1>0, <1>1, <1>3, <1>4, <1>5 DEF TypeOK, SameBut
<1>8. ref' \in [Fs -> Nat] /\ \A f \in Fs : ref'[f] = ref[f] + One(f = x)
  BY <1>0, <1>4, <1>5 DEF TypeOK, One
<1>9. TypeOK'
  BY <1>0, <1>5, <1>7, <1>8 DEF TypeOK
<1>10. RefsRight'
  <2>1. SameBut(Procs, p, todo, todo')
    BY <1>5 DEF SameBut
  <2>2. ASSUME NEW f \in Fs
        PROVE  ref'[f] = ref[f] - Held(ofile[c], f) + Held(ofile'[c], f)
                                - Due(todo[p], f) + Due(todo'[p], f)
    <3>1. Held(ofile'[c], f) = Held(ofile[c], f) - One(ofile[c][d] = f) + One(ofile'[c][d] = f)
      BY <1>3, <1>7, HeldUpdate
    <3>2. One(ofile[c][d] = f) = 0 /\ One(ofile'[c][d] = f) = One(f = x)
      BY <1>3, <1>7, Constants DEF One
    <3>3. Due(todo'[p], f) = Due(todo[p], f)
      BY <1>5
    <3>4. /\ Held(ofile[c], f) \in Nat /\ Due(todo[p], f) \in Nat /\ ref[f] \in Nat
          /\ One(f = x) \in Nat
      BY <1>0, HeldIs, DueIs DEF TypeOK, One
    <3>5. ref'[f] = ref[f] + One(f = x)
      BY <1>8
    <3> QED
      BY ONLY <3>1, <3>2, <3>3, <3>4, <3>5
  <2>3. Follows(p, c)
    BY <2>2 DEF Follows
  <2> QED
    BY <1>0, <1>1, <1>7, <1>9, <2>1, <2>3, RefsFollow
<1>11. ASSUME NEW r \in Procs PROVE Fine(r)'
  <2>0. Fine(r)
    BY <1>0
  <2>1. TodoRight(r)' /\ LastRight(r)'
    BY <1>5, <2>0 DEF Fine, TodoRight, LastRight
  <2>2. HalfMade(r)'
    <3> SUFFICES ASSUME pc[r] \in Half, NEW i \in DOMAIN todo[r]
                 PROVE  ref'[todo[r][i]] = 1 /\ file'[todo[r][i]] = FreeFile
      BY <1>5 DEF HalfMade
    <3>1. ref[todo[r][i]] = 1 /\ file[todo[r][i]] = FreeFile
      BY <2>0 DEF Fine, HalfMade
    <3>2. todo[r][i] \in Fs /\ (todo[r][i] = ofile[p][d] => ref[todo[r][i]] > 1)
      BY <1>0, <1>3, CountTells
    <3>3. todo[r][i] # x
      BY <1>6, <3>1, <3>2
    <3> QED
      BY <1>0, <1>5, <3>1, <3>2, <3>3 DEF TypeOK
  <2>3. CallRight(r)' /\ EmptyHanded(r)'
    <3>1. CASE r = c
      BY <1>1, <1>5, <2>0, <3>1 DEF Fine, CallRight, EmptyHanded, Ends
    <3>2. CASE r # c
      <4>1. ofile'[r] = ofile[r]
        BY <1>7, <3>2 DEF SameBut
      <4> QED
        BY <1>5, <2>0, <4>1 DEF Fine, CallRight, EmptyHanded
    <3> QED
      BY <3>1, <3>2
  <2> QED
    BY <2>1, <2>2, <2>3 DEF Fine
<1>12. Forks'
  <2>1. ASSUME NEW r \in Procs, pc[r] = "fork"
        PROVE  /\ pc[child[r]] = "new"
               /\ \A i \in FDs : ofile'[child[r]][i] \in {ofile'[r][i], NoFile}
    <3>1. r # c /\ ofile'[r] = ofile[r] /\ child[r] \in Procs
      BY <1>0, <1>1, <1>7, <2>1 DEF SameBut, TypeOK
    <3>2. /\ pc[child[r]] = "new"
          /\ \A i \in FDs : ofile[child[r]][i] \in {ofile[r][i], NoFile}
      BY <1>0, <2>1 DEF Forks
    <3>3. CASE r = p
      BY <1>2, <1>6, <1>7, <3>1, <3>2, <3>3 DEF SameBut
    <3>4. CASE r # p
      BY <1>1, <1>7, <2>1, <3>1, <3>2, <3>4 DEF SameBut
    <3> QED
      BY <3>3, <3>4
  <2> QED
    BY <1>0, <1>5, <2>1 DEF Forks
<1>13. Ring' /\ Sleeps'
  BY <1>5, PipesKept
<1>14. IrefRight' /\ EndsRight'
  BY <1>0, <1>5 DEF IrefRight, EndsRight
<1>15. FreeClean'
  <2>1. \A f \in Fs : ref'[f] = 0 => ref[f] = 0
    <3>1. \A f \in Fs : ref[f] \in Nat /\ One(f = x) \in Nat
      BY <1>0 DEF One, TypeOK
    <3> QED
      BY ONLY <1>8, <3>1
  <2> QED
    BY <1>0, <1>5, <2>1 DEF FreeClean
<1> QED
  BY <1>9, <1>10, <1>11, <1>12, <1>13, <1>14, <1>15 DEF Inv

\* The child has its descriptors: both run.
LEMMA ForkRunKeeps ==
  ASSUME Inv, NEW p \in Procs, ForkRun(p)
  PROVE  Inv'
<1> DEFINE c == child[p]
<1>0. TypeOK /\ (\A r \in Procs : Fine(r)) /\ Forks /\ pc[p] = "fork"
  BY DEF Inv, ForkRun, At
<1>1. /\ c \in Procs /\ c # p /\ pc[c] = "new" /\ c \notin exiting
      /\ \A q \in Procs : pc[q] = "fork" /\ q # p => child[q] # c /\ pc[child[q]] = "new"
  BY <1>0, NewChild
<1>2. /\ pc' = [pc EXCEPT ![p] = "user", ![c] = "user"] /\ child' = [child EXCEPT ![p] = p]
      /\ UNCHANGED <<ofile, ref, file, iref, pipe, io, todo, last, exiting, failed, chan, killed>>
  BY DEF ForkRun, tables
<1> HIDE DEF c
<1>3. /\ pc' \in [Procs -> Labels] /\ pc'[p] = "user" /\ pc'[c] = "user"
      /\ \A r \in Procs \ {p, c} : pc'[r] = pc[r]
  BY <1>0, <1>1, <1>2 DEF TypeOK, Labels
<1>4. /\ child' \in [Procs -> Procs] /\ \A r \in Procs \ {p} : child'[r] = child[r]
  BY <1>0, <1>2 DEF TypeOK
<1>5. TypeOK'
  BY <1>0, <1>2, <1>3, <1>4 DEF TypeOK
<1>6. ASSUME NEW r \in Procs PROVE Fine(r)'
  <2>0. Fine(r)
    BY <1>0
  <2>1. CASE r = p
    BY <1>0, <1>2, <1>3, <2>0, <2>1
       DEF Fine, TodoRight, HalfMade, LastRight, CallRight, EmptyHanded, Half, Ends
  <2>2. CASE r = c
    BY <1>1, <1>2, <1>3, <2>0, <2>2
       DEF Fine, TodoRight, HalfMade, LastRight, CallRight, EmptyHanded, Half, Ends
  <2>3. CASE r # p /\ r # c
    <3>1. pc'[r] = pc[r]
      BY <1>3, <2>3
    <3> QED
      BY <1>2, <2>0, <3>1
         DEF Fine, TodoRight, HalfMade, LastRight, CallRight, EmptyHanded
  <2> QED
    BY <2>1, <2>2, <2>3
<1>7. Forks'
  <2>1. ASSUME NEW r \in Procs, pc'[r] = "fork"
        PROVE  /\ pc[r] = "fork" /\ child'[r] = child[r] /\ pc'[child[r]] = "new"
               /\ \A d \in FDs : ofile[child[r]][d] \in {ofile[r][d], NoFile}
    <3>1. r # p /\ r # c
      BY <1>3, <2>1
    <3>2. pc[r] = "fork" /\ child'[r] = child[r] /\ child[r] \in Procs
      BY <1>0, <1>3, <1>4, <2>1, <3>1 DEF TypeOK
    <3>3. child[r] # c /\ pc[child[r]] = "new" /\ child[r] # p
      BY <1>0, <1>1, <3>1, <3>2
    <3>4. \A d \in FDs : ofile[child[r]][d] \in {ofile[r][d], NoFile}
      BY <1>0, <3>2 DEF Forks
    <3> QED
      BY <1>3, <3>2, <3>3, <3>4
  <2>2. ASSUME NEW r \in Procs, NEW u \in Procs, pc'[r] = "fork", pc'[u] = "fork",
               child'[r] = child'[u]
        PROVE  r = u
    BY <1>0, <2>1, <2>2 DEF Forks
  <2> QED
    BY <1>2, <2>1, <2>2 DEF Forks
<1>8. Ring' /\ Sleeps'
  BY <1>2, PipesKept
<1>9. FreeClean' /\ RefsRight' /\ IrefRight' /\ EndsRight'
  BY <1>2, CountsKept
<1> QED
  BY <1>5, <1>6, <1>7, <1>8, <1>9 DEF Inv

------------------------------------------------------------------------------
(* The invariant *)

\* At the start every table is empty.
LEMMA InitInv ==
  ASSUME Init
  PROVE  Inv
<1>1. PICK first \in Procs : pc = [p \in Procs |-> IF p = first THEN "user" ELSE "none"]
  BY DEF Init
<1>2. /\ ofile = [p \in Procs |-> NoFiles] /\ ref = [f \in Fs |-> 0]
      /\ file = [f \in Fs |-> FreeFile] /\ iref = 0 /\ pipe = [g \in Pages |-> FreePage]
      /\ io = [p \in Procs |-> NoCall] /\ todo = [p \in Procs |-> <<>>]
      /\ last = [p \in Procs |-> FreeFile] /\ child = [p \in Procs |-> p]
      /\ exiting = {} /\ chan = [p \in Procs |-> NoChan] /\ killed = {} /\ failed = {}
  BY DEF Init
<1>3. TypeOK
  <2>1. NoFiles \in [FDs -> Fs \cup {NoFile}]
    BY DEF NoFiles
  <2>2. FreeFile \in FileType /\ FreePage \in PipeType /\ NoCall \in IoType
    BY Kinds, FreePageIs, NoCallIs
  <2>3. <<>> \in Seq(Fs)
    BY EmptySeq
  <2>4. pc \in [Procs -> Labels]
    BY <1>1 DEF Labels
  <2> QED
    BY <1>2, <2>1, <2>2, <2>3, <2>4 DEF TypeOK
<1>4. ASSUME NEW p \in Procs PROVE Fine(p)
  <2>1. pc[p] \in {"user", "none"}
    BY <1>1
  <2>2. ofile[p] = NoFiles /\ todo[p] = <<>> /\ last[p] = FreeFile /\ io[p] = NoCall
    BY <1>2
  <2> QED
    BY <1>2, <2>1, <2>2
       DEF Fine, TodoRight, HalfMade, LastRight, CallRight, EmptyHanded, Half, Ends
<1>5. Forks
  BY <1>1 DEF Forks
<1>6. FreeClean
  BY <1>2 DEF FreeClean
<1>7. RefsRight
  <2>1. ASSUME NEW f \in Fs PROVE ref[f] = Descriptors(f) + InFlight(f)
    <3>1. { x \in Procs \X FDs : ofile[x[1]][x[2]] = f } = {}
      BY <1>2, Constants DEF NoFiles
    <3>2. \A p \in Procs : { i \in DOMAIN todo[p] : todo[p][i] = f } = {}
      BY <1>2
    <3>3. UNION { {p} \X { i \in DOMAIN todo[p] : todo[p][i] = f } : p \in Procs } = {}
      BY <3>2
    <3>4. Descriptors(f) = 0 /\ InFlight(f) = 0
      BY <3>1, <3>3, FS_EmptySet DEF Descriptors, InFlight
    <3> QED
      BY <1>2, <3>4
  <2> QED
    BY <2>1 DEF RefsRight
<1>8. ASSUME NEW v, v # FreeFile PROVE Uses(file, last, v) = 0
  <2>1. { f \in Fs : file[f] = v } = {} /\ { p \in Procs : last[p] = v } = {}
    BY <1>2, <1>8
  <2>2. Count(Fs, file, v) = 0 /\ Count(Procs, last, v) = 0
    BY <2>1, FS_EmptySet DEF Count
  <2> QED
    BY <2>2 DEF Uses
<1>9. IrefRight /\ EndsRight
  <2>1. IrefRight
    BY <1>2, <1>8, Kinds DEF IrefRight
  <2>2. ASSUME NEW g \in Pages, NEW e \in Ends
        PROVE  Uses(file, last, PipeFile(g, e)) = One(e \in pipe[g].ends)
    <3>1. Uses(file, last, PipeFile(g, e)) = 0
      BY <1>8, Kinds
    <3>2. One(e \in pipe[g].ends) = 0
      BY <1>2, FreePageIs DEF One
    <3> QED
      BY <3>1, <3>2
  <2> QED
    BY <2>1, <2>2 DEF EndsRight
<1>10. Ring
  BY <1>2, FreePageIs, Constants DEF Ring
<1>11. Sleeps
  BY <1>2 DEF Sleeps
<1> QED
  BY <1>3, <1>4, <1>5, <1>6, <1>7, <1>9, <1>10, <1>11 DEF Inv

LEMMA StutterKeeps ==
  ASSUME Inv, UNCHANGED vars
  PROVE  Inv'
<1>1. /\ UNCHANGED <<ofile, ref, file, iref, pipe, io, todo, last, child, exiting, chan>>
      /\ UNCHANGED <<pc, killed, failed>>
  BY DEF vars
<1>2. TypeOK' /\ (\A p \in Procs : Fine(p)') /\ Forks'
  BY <1>1 DEF Inv, TypeOK, Fine, TodoRight, HalfMade, LastRight, CallRight, EmptyHanded, Forks
<1>3. FreeClean' /\ RefsRight' /\ IrefRight' /\ EndsRight'
  BY <1>1, CountsKept
<1>4. Ring' /\ Sleeps'
  BY <1>1, PipesKept
<1> QED
  BY <1>2, <1>3, <1>4 DEF Inv

\* The arguments of write and read.
LEMMA Arguments ==
  /\ \A w \in Texts : [NoCall EXCEPT !.left = w] \in IoType
  /\ \A n \in Sizes : [NoCall EXCEPT !.n = n] \in IoType
<1>1. \A w \in Texts : w \in Seq(Bytes)
  BY CallsAssumption DEF CallsAssumption
<1>2. \A n \in Sizes : n \in Nat
  BY CallsAssumption DEF CallsAssumption
<1>3. NoCall \in IoType
  BY NoCallIs
<1> HIDE DEF NoCall
<1> QED
  BY <1>1, <1>2, <1>3 DEF IoType

LEMMA AnyCallKeeps ==
  ASSUME Inv, NEW p \in Procs, AnyCall(p)
  PROVE  Inv'
<1>1. CASE Refuse(p)
  BY <1>1, RefuseKeeps DEF Refuse, Return
<1>2. CASE Pipe(p)
  BY <1>2, PipeKeeps
<1>3. CASE Exit(p)
  BY <1>3, ExitKeeps
<1>4. CASE Reap(p)
  BY <1>4, ReapKeeps
<1>5. CASE Kill(p)
  BY <1>5, KillKeeps
<1>6. ASSUME NEW d \in FDs, Dup(p, d) PROVE Inv'
  BY <1>6, DupKeeps
<1>7. ASSUME NEW d \in FDs, Close(p, d) PROVE Inv'
  BY <1>7, CloseKeeps
<1>8. ASSUME NEW d \in FDs, NEW w \in Texts, Write(p, d, w) PROVE Inv'
  <2>1. [NoCall EXCEPT !.left = w] \in IoType /\ "write" \in Ends
    BY Arguments DEF Ends
  <2>2. Call(p, d, "write", [NoCall EXCEPT !.left = w])
    BY <1>8 DEF Write
  <2> QED
    BY <2>1, <2>2, CallKeeps
<1>9. ASSUME NEW d \in FDs, NEW n \in Sizes, Read(p, d, n) PROVE Inv'
  <2>1. [NoCall EXCEPT !.n = n] \in IoType /\ "read" \in Ends
    BY Arguments DEF Ends
  <2>2. Call(p, d, "read", [NoCall EXCEPT !.n = n])
    BY <1>9 DEF Read
  <2> QED
    BY <2>1, <2>2, CallKeeps
<1>10. ASSUME NEW q \in Procs, Fork(p, q) PROVE Inv'
  BY <1>10, ForkKeeps
<1>11. CASE OpenInode(p)
  BY <1>11, OpenInodeKeeps
<1>12. ASSUME NEW d \in FDs, InodeIO(p, d, 0) PROVE Inv'
  BY <1>12, RefuseKeeps DEF InodeIO, Return
<1> QED
  BY <1>1, <1>2, <1>3, <1>4, <1>5, <1>6, <1>7, <1>8, <1>9, <1>10, <1>11, <1>12 DEF AnyCall

LEMMA InCallKeeps ==
  ASSUME Inv, NEW p \in Procs, InCall(p)
  PROVE  Inv'
<1>1. CASE CloseFile(p) \/ CloseLast(p)
  BY <1>1, CloseFileKeeps, CloseLastKeeps
<1>2. CASE PipeFile1(p) \/ PipeNoPage(p) \/ PipeDescriptors(p) \/ PipeNoDescriptors(p)
  BY <1>2, PipeFile1Keeps, PipeNoPageKeeps, PipeDescriptorsKeeps, PipeNoDescriptorsKeeps
<1>3. CASE WriteFails(p)
  BY <1>3, FailKeeps DEF WriteFails, IOReturn, Return, At, Ends
<1>4. CASE WriteReturns(p) \/ WriteSleeps(p) \/ WriteCut(p)
  BY <1>4, WriteReturnsKeeps, WriteSleepsKeeps, WriteCutKeeps
<1>5. CASE ReadFails(p)
  BY <1>5, FailKeeps DEF ReadFails, IOReturn, Return, At, Ends
<1>6. CASE ReadSleeps(p) \/ ReadReturns(p)
  BY <1>6, ReadSleepsKeeps, ReadReturnsKeeps
<1>7. CASE ForkDup(p) \/ ForkRun(p)
  BY <1>7, ForkDupKeeps, ForkRunKeeps
<1> QED
  BY <1>1, <1>2, <1>3, <1>4, <1>5, <1>6, <1>7 DEF InCall

\* The invariant: types, what each label of a process tells of its locals and files,
\* half-made children and files, the exact counts, the ring, and the reasons of sleepers.
THEOREM Invariance == Spec => []IInv
<1>1. Init => IInv
  BY InitInv, InvIs
<1>2. IInv /\ [Next]_vars => IInv'
  <2> SUFFICES ASSUME Inv, [Next]_vars PROVE Inv'
    BY InvIs
  <2>1. CASE UNCHANGED vars
    BY <2>1, StutterKeeps
  <2>2. ASSUME NEW p \in Procs, AnyCall(p) PROVE Inv'
    BY <2>2, AnyCallKeeps
  <2>3. ASSUME NEW p \in Procs, InCall(p) PROVE Inv'
    BY <2>3, InCallKeeps
  <2> QED
    BY <2>1, <2>2, <2>3 DEF Next
<1> QED
  BY <1>1, <1>2, PTL DEF Spec

\* Every variable keeps its type.
THEOREM TypeCorrect == Spec => []TypeOK
BY Invariance, PTL DEF IInv

\* Every reference, on a file, an end of a pipe or an inode, is given back exactly once,
\* whatever the interleaving of the calls that open, share, close and duplicate files
\* (filealloc, filedup, fileclose, sys_open, pipealloc, pipeclose, fork, exit).
THEOREM CountsRight == Spec => []CountsExact
<1>1. IInv => CountsExact
  BY DEF IInv, CountsExact
<1> QED
  BY <1>1, Invariance, PTL

\* No wakeup is lost: nobody sleeps in piperead or pipewrite without a reason (piperead,
\* pipewrite, pipeclose, kill).
THEOREM SleepersJustified == Spec => []SleepersHaveReason
<1>1. IInv => SleepersHaveReason
  BY DEF IInv, Sleeps, SleepersHaveReason, MustWait
<1> QED
  BY <1>1, Invariance, PTL

------------------------------------------------------------------------------
(* Pipes implement streams of bytes *)

\* The call that returns in a step, if one does, is neither read nor write.
Quiet ==
  out'.got = <<>> /\ \A q \in Procs : out'.proc = q => pc[q] \notin Ends

LEMMA QuietIs ==
  ASSUME Inv
  PROVE  /\ \A q \in Procs : pc[q] \notin Ends => Calling[q] = Stream!Idle
         /\ Quiet => Stream!NoResult
<1>1. ASSUME NEW q \in Procs, pc[q] \notin Ends PROVE Calling[q] = Stream!Idle
  <2>1. io[q] = NoCall
    BY <1>1 DEF Inv, Fine, CallRight
  <2> QED
    BY <1>1, <2>1 DEF Calling, Stream!Idle, NoCall
<1>2. ASSUME Quiet PROVE Stream!NoResult
  BY <1>1, <1>2 DEF Quiet, Stream!NoResult
<1> QED
  BY <1>1, <1>2

LEMMA QuietSteps ==
  ASSUME NEW p \in Procs, pc[p] \notin Ends
  PROVE  /\ Within => Quiet
         /\ \A r : Returns(p, r, <<>>) => Quiet
<1>1. Within => Quiet
  BY Constants DEF Within, Quiet, NoReturn
<1>2. ASSUME NEW r, Returns(p, r, <<>>) PROVE Quiet
  BY <1>2 DEF Returns, Quiet
<1> QED
  BY <1>1, <1>2

\* The calls that go on.
LEMMA CallsGoOn ==
  ASSUME UNCHANGED io,
         \A q \in Procs : pc'[q] = pc[q] \/ (pc[q] \notin Ends /\ pc'[q] \notin Ends)
  PROVE  UNCHANGED Calling
<1>1. ASSUME NEW q \in Procs
      PROVE  (IF pc'[q] \in Ends THEN pc'[q] ELSE "none")
               = (IF pc[q] \in Ends THEN pc[q] ELSE "none")
  OBVIOUS
<1> QED
  BY <1>1 DEF Calling

\* A step that touches no pipe and neither begins nor ends a read or write.
LEMMA OtherStep ==
  ASSUME Inv, UNCHANGED <<pipe, io>>, Quiet,
         \A q \in Procs : pc'[q] = pc[q] \/ (pc[q] \notin Ends /\ pc'[q] \notin Ends)
  PROVE  Stream!Other
<1>1. UNCHANGED Calling
  BY CallsGoOn
<1>2. UNCHANGED <<Contents, OpenEnds>>
  BY DEF Contents, OpenEnds
<1>3. Stream!NoResult
  BY QuietIs
<1> QED
  BY <1>1, <1>2, <1>3 DEF Stream!Other

\* What a step on one page, and one on a call, are to the stream.
LEMMA OnePage ==
  ASSUME NEW g \in Pages, SameBut(Pages, g, pipe, pipe')
  PROVE  /\ Contents' = [Contents EXCEPT ![g] = Content(pipe'[g])]
         /\ OpenEnds' = [OpenEnds EXCEPT ![g] = pipe'[g].ends]
         /\ Contents[g] = Content(pipe[g]) /\ OpenEnds[g] = pipe[g].ends
BY DEF Contents, OpenEnds, SameBut

LEMMA SameEnds ==
  ASSUME \A g \in Pages : pipe'[g].ends = pipe[g].ends
  PROVE  UNCHANGED OpenEnds
BY DEF OpenEnds

LEMMA OneCall ==
  ASSUME NEW p \in Procs, SameBut(Procs, p, io, io'), SameBut(Procs, p, pc, pc')
  PROVE  /\ Calling' = [Calling EXCEPT ![p] =
              [op |-> IF pc'[p] \in Ends THEN pc'[p] ELSE "none", on |-> io'[p].pipe,
               left |-> io'[p].left, moved |-> io'[p].done, asked |-> io'[p].n]]
         /\ Calling[p] =
              [op |-> IF pc[p] \in Ends THEN pc[p] ELSE "none", on |-> io[p].pipe,
               left |-> io[p].left, moved |-> io[p].done, asked |-> io[p].n]
BY DEF Calling, SameBut

\* A read or write is over.
LEMMA OverStep ==
  ASSUME Inv, NEW p \in Procs, Goto(p, "user"), io' = [io EXCEPT ![p] = NoCall],
         NEW r, NEW bytes, Returns(p, r, bytes)
  PROVE  Stream!Over(p, r, bytes)
<1>0. pc \in [Procs -> Labels] /\ io \in [Procs -> IoType]
  BY DEF Inv, TypeOK
<1>1. SameBut(Procs, p, io, io') /\ SameBut(Procs, p, pc, pc') /\ pc'[p] = "user"
      /\ io'[p] = NoCall
  BY <1>0 DEF SameBut, Goto
<1>2. Calling' = [Calling EXCEPT ![p] =
              [op |-> IF pc'[p] \in Ends THEN pc'[p] ELSE "none", on |-> io'[p].pipe,
               left |-> io'[p].left, moved |-> io'[p].done, asked |-> io'[p].n]]
  BY <1>1, OneCall
<1>3. [op |-> IF pc'[p] \in Ends THEN pc'[p] ELSE "none", on |-> io'[p].pipe,
       left |-> io'[p].left, moved |-> io'[p].done, asked |-> io'[p].n] = Stream!Idle
  BY <1>1 DEF Stream!Idle, NoCall, Ends
<1>4. Calling' = [Calling EXCEPT ![p] = Stream!Idle]
  BY <1>2, <1>3
<1> QED
  BY <1>4 DEF Stream!Over, Stream!Returns, Returns

\* What a process in a read or write is to the stream.
LEMMA InStream ==
  ASSUME Inv, NEW p \in Procs, pc[p] \in Ends
  PROVE  LET c == Calling[p] IN
         /\ c.op = pc[p] /\ c.on = io[p].pipe /\ c.left = io[p].left /\ c.moved = io[p].done
         /\ c.asked = io[p].n /\ c.on \in Pages /\ c.op \in OpenEnds[c.on]
         /\ pipe[io[p].pipe] \in PipeType /\ Fill(pipe[io[p].pipe]) <= PIPESIZE
         /\ io[p].left \in Seq(Bytes) /\ io[p].done \in Nat /\ io[p].n \in Nat
         /\ Contents[io[p].pipe] = Content(pipe[io[p].pipe])
         /\ OpenEnds[io[p].pipe] = pipe[io[p].pipe].ends
<1>0. TypeOK /\ Fine(p) /\ EndsRight /\ Ring
  BY DEF Inv
<1>1. Calling[p] =
        [op |-> pc[p], on |-> io[p].pipe,
         left |-> io[p].left, moved |-> io[p].done, asked |-> io[p].n]
  BY DEF Calling
<1>2. PICK d \in FDs : /\ ofile[p][d] # NoFile
                       /\ file[ofile[p][d]] = PipeFile(io[p].pipe, pc[p])
  BY <1>0 DEF Fine, CallRight
<1>3. io[p].pipe \in Pages /\ ofile[p][d] \in Fs
  BY <1>0, <1>2 DEF Fine, CallRight, TypeOK
<1>4. pc[p] \in pipe[io[p].pipe].ends
  BY <1>0, <1>2, <1>3, EndsTell
<1>5. pipe[io[p].pipe] \in PipeType /\ Fill(pipe[io[p].pipe]) <= PIPESIZE
  BY <1>0, <1>3 DEF TypeOK, Ring
<1>6. io[p].left \in Seq(Bytes) /\ io[p].done \in Nat /\ io[p].n \in Nat
  BY <1>0 DEF TypeOK, IoType
<1>7. /\ Contents[io[p].pipe] = Content(pipe[io[p].pipe])
      /\ OpenEnds[io[p].pipe] = pipe[io[p].pipe].ends
  BY <1>3 DEF Contents, OpenEnds
<1>8. /\ Calling[p].op = pc[p] /\ Calling[p].on = io[p].pipe
      /\ Calling[p].left = io[p].left /\ Calling[p].moved = io[p].done
      /\ Calling[p].asked = io[p].n
  BY <1>1
<1>9. Calling[p].on \in Pages /\ Calling[p].op \in OpenEnds[Calling[p].on]
  <2>1. pc[p] \in OpenEnds[io[p].pipe]
    BY <1>4, <1>7
  <2> QED
    BY <1>3, <1>8, <2>1
<1> QED
  BY <1>5, <1>6, <1>7, <1>8, <1>9

------------------------------------------------------------------------------
\* What there is to show of a section of pipewrite that puts k bytes in.
LEMMA WriteIs ==
  ASSUME Inv, NEW p \in Procs, pc[p] = "write", NEW k \in 0 .. Len(io[p].left),
         NEW g, g = io[p].pipe,
         Fill(pipe[g]) + k <= PIPESIZE, k > 0 => "read" \in pipe[g].ends,
         Contents' = [Contents EXCEPT ![g] = Content(pipe[g]) \o SubSeq(io[p].left, 1, k)],
         UNCHANGED OpenEnds,
         \/ /\ k < Len(io[p].left) /\ Fill(pipe[g]) + k = PIPESIZE
            /\ Calling' = [Calling EXCEPT ![p].left = SubSeq(@, k + 1, Len(@)),
                                          ![p].moved = @ + k]
            /\ Stream!NoResult
         \/ Stream!Over(p, io[p].done + k, <<>>)
         \/ Stream!Over(p, -1, <<>>) /\ ("read" \notin pipe[g].ends \/ p \in killed')
  PROVE  Stream!WriteStep(p)
<1> DEFINE c == Calling[p]
<1>0. pc[p] \in Ends
  BY DEF Ends
<1>1. /\ c.op = "write" /\ c.on = g /\ c.left = io[p].left /\ c.moved = io[p].done
      /\ c.op \in OpenEnds[g] /\ pipe[g] \in PipeType
      /\ Contents[g] = Content(pipe[g]) /\ OpenEnds[g] = pipe[g].ends
  BY <1>0, InStream
<1>2. Len(Contents[g]) = Fill(pipe[g])
  BY <1>1, ContentIs
<1> HIDE DEF c
<1>3. /\ k \in 0 .. Len(c.left) /\ Len(Contents[c.on]) + k <= PIPESIZE
      /\ k > 0 => "read" \in OpenEnds[c.on]
      /\ Contents' = [Contents EXCEPT ![c.on] = @ \o SubSeq(c.left, 1, k)]
  BY <1>1, <1>2
<1>4. \/ /\ k < Len(c.left) /\ Len(Contents[c.on]) + k = PIPESIZE
         /\ Calling' = [Calling EXCEPT ![p].left = SubSeq(@, k + 1, Len(@)),
                                       ![p].moved = @ + k]
         /\ Stream!NoResult
      \/ Stream!Over(p, c.moved + k, <<>>)
      \/ Stream!Over(p, -1, <<>>) /\ ("read" \notin OpenEnds[c.on] \/ p \in killed')
  BY <1>1, <1>2
<1> QED
  BY <1>1, <1>3, <1>4 DEF Stream!WriteStep, c

LEMMA WriteFailsIs ==
  ASSUME Inv, NEW p \in Procs, WriteFails(p)
  PROVE  Stream!WriteStep(p)
<1> DEFINE g == io[p].pipe
           w == io[p].left
           none == SubSeq(w, 1, 0)
<1>0. pc[p] = "write" /\ pc[p] \in Ends /\ UNCHANGED pipe
  BY DEF WriteFails, At, Ends
<1>1. /\ pipe[g] \in PipeType /\ Fill(pipe[g]) <= PIPESIZE /\ w \in Seq(Bytes)
      /\ Contents[g] = Content(pipe[g])
  BY <1>0, InStream
<1>2. 0 \in 0 .. Len(w) /\ none = <<>>
  <2>1. Len(w) \in Nat
    BY <1>1, LenProperties
  <2> PICK k \in 0 .. Len(w) : k = 0
    BY <2>1
  <2>2. SubSeq(w, 1, k) \in Seq(Bytes) /\ Len(SubSeq(w, 1, k)) = k
    BY <1>1, FirstBytes
  <2> QED
    BY <2>1, <2>2, EmptySeq
<1>3. Content(pipe[g]) \in Seq(Data) /\ Fill(pipe[g]) \in Nat
  BY <1>1, ContentIs
<1>4. Content(pipe[g]) \o none = Content(pipe[g])
  BY <1>2, <1>3
<1>5. UNCHANGED <<Contents, OpenEnds>>
  BY <1>0 DEF Contents, OpenEnds
<1>6. Contents' = [Contents EXCEPT ![g] = Content(pipe[g]) \o none]
  <2>1. Contents = [Contents EXCEPT ![g] = Contents[g]]
    BY DEF Contents
  <2> QED
    BY <1>1, <1>4, <1>5, <2>1
<1>7. Stream!Over(p, -1, <<>>) /\ ("read" \notin pipe[g].ends \/ p \in killed')
  <2>1. Goto(p, "user") /\ io' = [io EXCEPT ![p] = NoCall] /\ Returns(p, -1, <<>>)
    BY DEF WriteFails, IOReturn, Return
  <2>2. "read" \notin pipe[g].ends \/ p \in killed'
    BY DEF WriteFails
  <2> QED
    BY <2>1, <2>2, OverStep
<1>8. Fill(pipe[g]) + 0 <= PIPESIZE
  BY <1>1, <1>3
<1> DEFINE k == 0
<1> HIDE DEF g, k
<1>9. /\ k \in 0 .. Len(w) /\ g = io[p].pipe /\ Fill(pipe[g]) + k <= PIPESIZE
      /\ k > 0 => "read" \in pipe[g].ends
      /\ Contents' = [Contents EXCEPT ![g] = Content(pipe[g]) \o SubSeq(w, 1, k)]
  BY <1>2, <1>6, <1>8 DEF g, k
<1> QED
  BY <1>0, <1>5, <1>7, <1>9, WriteIs

\* The bytes that a section puts in.
LEMMA PutIsWrite ==
  ASSUME Inv, NEW p \in Procs, NEW k \in 0 .. Len(io[p].left), NEW told \in BOOLEAN,
         Put(p, k, told), NEW g, g = io[p].pipe
  PROVE  /\ pc[p] = "write" /\ Fill(pipe[g]) + k <= PIPESIZE
         /\ Fill(pipe'[g]) = Fill(pipe[g]) + k /\ pipe'[g] \in PipeType
         /\ k > 0 => "read" \in pipe[g].ends
         /\ Contents' = [Contents EXCEPT ![g] = Content(pipe[g]) \o SubSeq(io[p].left, 1, k)]
         /\ UNCHANGED OpenEnds
<1>1. /\ g \in Pages /\ pc[p] = "write" /\ io[p].left \in Seq(Bytes)
      /\ pipe' \in [Pages -> PipeType] /\ SameBut(Pages, g, pipe, pipe')
      /\ Fill(pipe'[g]) = Fill(pipe[g]) + k /\ Fill(pipe'[g]) <= PIPESIZE
      /\ Content(pipe'[g]) = Content(pipe[g]) \o SubSeq(io[p].left, 1, k)
      /\ \A h \in Pages : pipe'[h].ends = pipe[h].ends
      /\ io[p].left # <<>> => "read" \in pipe[g].ends
  <2>1. /\ g \in Pages /\ pc[p] = "write" /\ io[p].left \in Seq(Bytes)
        /\ pipe' \in [Pages -> PipeType] /\ SameBut(Pages, g, pipe, pipe')
    BY PutKeeps
  <2>2. Fill(pipe'[g]) = Fill(pipe[g]) + k /\ Fill(pipe'[g]) <= PIPESIZE
    BY PutKeeps
  <2>3. Content(pipe'[g]) = Content(pipe[g]) \o SubSeq(io[p].left, 1, k)
    <3>1. Content(pipe'[g]) = Joined(Content(pipe[g]), io[p].left, k)
      BY PutKeeps
    <3> QED
      BY <3>1 DEF Joined
  <2>4. \A h \in Pages : pipe'[h].ends = pipe[h].ends
    BY PutKeeps
  <2>5. io[p].left # <<>> => "read" \in pipe[g].ends
    BY DEF Put
  <2> QED
    BY <2>1, <2>2, <2>3, <2>4, <2>5
<1>2. Contents' = [Contents EXCEPT ![g] = Content(pipe'[g])]
  BY <1>1, OnePage
<1>3. UNCHANGED OpenEnds
  BY <1>1, SameEnds
<1>4. k > 0 => io[p].left # <<>>
  <2>1. io[p].left = <<>> => Len(io[p].left) = 0
    BY EmptySeq
  <2> QED
    BY <2>1
<1> QED
  BY <1>1, <1>2, <1>3, <1>4

LEMMA WriteReturnsIs ==
  ASSUME Inv, NEW p \in Procs, WriteReturns(p)
  PROVE  Stream!WriteStep(p)
<1>1. PICK k \in 0 .. Len(io[p].left) : Put(p, k, TRUE) /\ IOReturn(p, io[p].done + k)
  BY DEF WriteReturns
<1>2. Stream!Over(p, io[p].done + k, <<>>)
  BY <1>1, OverStep DEF IOReturn, Return
<1>3. PICK g : g = io[p].pipe
  OBVIOUS
<1>4. PICK told \in BOOLEAN : told = TRUE
  OBVIOUS
<1>5. Put(p, k, told)
  BY <1>1, <1>4
<1>6. /\ pc[p] = "write" /\ Fill(pipe[g]) + k <= PIPESIZE
      /\ k > 0 => "read" \in pipe[g].ends
      /\ Contents' = [Contents EXCEPT ![g] = Content(pipe[g]) \o SubSeq(io[p].left, 1, k)]
      /\ UNCHANGED OpenEnds
  BY <1>3, <1>5, PutIsWrite
<1> QED
  BY <1>2, <1>3, <1>6, WriteIs

LEMMA WriteCutIs ==
  ASSUME Inv, NEW p \in Procs, WriteCut(p)
  PROVE  Stream!WriteStep(p)
<1>0. Len(io[p].left) \in Nat
  BY LenProperties DEF Inv, TypeOK, IoType
<1>1. PICK k \in 1 .. Len(io[p].left) - 1 :
        Put(p, k, FALSE) /\ KilledNow(p) /\ IOReturn(p, -1)
  BY DEF WriteCut
<1>2. Stream!Over(p, -1, <<>>)
  BY <1>1, OverStep DEF IOReturn, Return
<1>3. PICK g : g = io[p].pipe
  OBVIOUS
<1>4. PICK told \in BOOLEAN : told = FALSE
  OBVIOUS
<1>5. Put(p, k, told) /\ k \in 0 .. Len(io[p].left) /\ p \in killed'
  <2>1. Put(p, k, told)
    BY <1>1, <1>4
  <2>2. k \in 0 .. Len(io[p].left)
    BY <1>0
  <2>3. p \in killed'
    BY <1>1 DEF KilledNow
  <2> QED
    BY <2>1, <2>2, <2>3
<1>6. /\ pc[p] = "write" /\ Fill(pipe[g]) + k <= PIPESIZE
      /\ k > 0 => "read" \in pipe[g].ends
      /\ Contents' = [Contents EXCEPT ![g] = Content(pipe[g]) \o SubSeq(io[p].left, 1, k)]
      /\ UNCHANGED OpenEnds
  BY <1>3, <1>5, PutIsWrite
<1> QED
  BY <1>2, <1>3, <1>5, <1>6, WriteIs

LEMMA WriteSleepsIs ==
  ASSUME Inv, NEW p \in Procs, WriteSleeps(p)
  PROVE  Stream!WriteStep(p)
<1>0. TypeOK /\ Len(io[p].left) \in Nat
  BY LenProperties DEF Inv, TypeOK, IoType
<1>1. PICK k \in 0 .. Len(io[p].left) - 1 :
        /\ Put(p, k, TRUE) /\ Full(pipe'[io[p].pipe]) /\ Within /\ UNCHANGED pc
        /\ io' = [io EXCEPT ![p].left = SubSeq(@, k + 1, Len(@)), ![p].done = @ + k]
  BY DEF WriteSleeps
<1>2. PICK g : g = io[p].pipe
  OBVIOUS
<1>3. PICK told \in BOOLEAN : told = TRUE
  OBVIOUS
<1>4. Put(p, k, told) /\ k \in 0 .. Len(io[p].left) /\ k < Len(io[p].left)
  <2>1. Put(p, k, told)
    BY <1>1, <1>3
  <2>2. k \in 0 .. Len(io[p].left) /\ k < Len(io[p].left)
    BY <1>0
  <2> QED
    BY <2>1, <2>2
<1>5. /\ pc[p] = "write" /\ Fill(pipe[g]) + k <= PIPESIZE
      /\ Fill(pipe'[g]) = Fill(pipe[g]) + k /\ pipe'[g] \in PipeType
      /\ k > 0 => "read" \in pipe[g].ends
      /\ Contents' = [Contents EXCEPT ![g] = Content(pipe[g]) \o SubSeq(io[p].left, 1, k)]
      /\ UNCHANGED OpenEnds
  <2>1. pc[p] = "write" /\ Fill(pipe[g]) + k <= PIPESIZE
    BY <1>2, <1>4, PutIsWrite
  <2>2. Fill(pipe'[g]) = Fill(pipe[g]) + k /\ pipe'[g] \in PipeType
    BY <1>2, <1>4, PutIsWrite
  <2>3. k > 0 => "read" \in pipe[g].ends
    BY <1>2, <1>4, PutIsWrite
  <2>4. Contents' = [Contents EXCEPT ![g] = Content(pipe[g]) \o SubSeq(io[p].left, 1, k)]
    BY <1>2, <1>4, PutIsWrite
  <2>5. UNCHANGED OpenEnds
    BY <1>2, <1>4, PutIsWrite
  <2> QED
    BY <2>1, <2>2, <2>3, <2>4, <2>5
<1>6. Fill(pipe[g]) + k = PIPESIZE
  <2>1. Fill(pipe'[g]) <= PIPESIZE
    BY <1>5
  <2>2. Fill(pipe'[g]) = PIPESIZE
    BY <1>1, <1>2, <1>5, <2>1, FullIs
  <2> QED
    BY <1>5, <2>2
<1>7. Calling' = [Calling EXCEPT ![p].left = SubSeq(@, k + 1, Len(@)), ![p].moved = @ + k]
  <2> DEFINE rest == SubSeq(io[p].left, k + 1, Len(io[p].left))
             done == io[p].done + k
  <2>1. io' = [io EXCEPT ![p] = [io[p] EXCEPT !.left = rest, !.done = done]]
    BY <1>0, <1>1 DEF TypeOK
  <2>2. /\ Calling[p].left = io[p].left /\ Calling[p].moved = io[p].done
        /\ Calling[p] = [op |-> pc[p], on |-> io[p].pipe, left |-> io[p].left,
                         moved |-> io[p].done, asked |-> io[p].n]
    BY <1>5 DEF Calling, Ends
  <2> HIDE DEF rest, done
  <2>3. /\ SameBut(Procs, p, io, io') /\ SameBut(Procs, p, pc, pc')
        /\ io'[p].pipe = io[p].pipe /\ io'[p].n = io[p].n
        /\ io'[p].left = rest /\ io'[p].done = done /\ pc'[p] = pc[p]
    <3> DEFINE c == io[p]
               d == [c EXCEPT !.left = rest, !.done = done]
    <3>1. c \in IoType
      BY <1>0 DEF TypeOK
    <3>2. io' = [io EXCEPT ![p] = d]
      BY <2>1
    <3> HIDE DEF c
    <3>3. d.pipe = c.pipe /\ d.n = c.n /\ d.left = rest /\ d.done = done
      BY <3>1 DEF IoType
    <3> HIDE DEF d
    <3>4. io'[p] = d /\ SameBut(Procs, p, io, io')
      BY <1>0, <3>2 DEF TypeOK, SameBut
    <3>5. SameBut(Procs, p, pc, pc') /\ pc'[p] = pc[p]
      BY <1>1 DEF SameBut
    <3> QED
      BY <3>3, <3>4, <3>5 DEF c
  <2>4. Calling' = [Calling EXCEPT ![p] =
              [op |-> IF pc'[p] \in Ends THEN pc'[p] ELSE "none", on |-> io'[p].pipe,
               left |-> io'[p].left, moved |-> io'[p].done, asked |-> io'[p].n]]
    BY <2>3, OneCall
  <2>5. Calling' = [Calling EXCEPT ![p] = [op |-> pc[p], on |-> io[p].pipe, left |-> rest,
                                           moved |-> done, asked |-> io[p].n]]
    BY <1>5, <2>3, <2>4 DEF Ends
  <2>6. [op |-> pc[p], on |-> io[p].pipe, left |-> rest, moved |-> done, asked |-> io[p].n]
          = [Calling[p] EXCEPT !.left = rest, !.moved = done]
    <3> DEFINE l == pc[p]
               g2 == io[p].pipe
               w == io[p].left
               m == io[p].done
               n == io[p].n
    <3>1. Calling[p] = [op |-> l, on |-> g2, left |-> w, moved |-> m, asked |-> n]
      BY <2>2
    <3> HIDE DEF l, g2, w, m, n
    <3> DEFINE c == Calling[p]
               d == [c EXCEPT !.left = rest, !.moved = done]
    <3>a. c \in [op : {l}, on : {g2}, left : {w}, moved : {m}, asked : {n}]
      BY <3>1
    <3> HIDE DEF c
    <3>b. d \in [op : {l}, on : {g2}, left : {rest}, moved : {done}, asked : {n}]
      BY <3>a
    <3> HIDE DEF d
    <3>c. d = [op |-> l, on |-> g2, left |-> rest, moved |-> done, asked |-> n]
      BY <3>b
    <3>2. [op |-> l, on |-> g2, left |-> rest, moved |-> done, asked |-> n]
            = [Calling[p] EXCEPT !.left = rest, !.moved = done]
      BY <3>c DEF d, c
    <3> QED
      BY <3>2 DEF l, g2, n
  <2>7. Calling' = [Calling EXCEPT ![p] = [Calling[p] EXCEPT !.left = rest, !.moved = done]]
    BY <2>5, <2>6
  <2>8. Calling' = [Calling EXCEPT ![p].left = rest, ![p].moved = done]
    BY <2>7 DEF Calling
  <2> QED
    BY <2>2, <2>8 DEF rest, done
<1>8. Stream!NoResult
  <2>1. Quiet
    BY <1>1, Constants DEF Within, Quiet, NoReturn
  <2> QED
    BY <2>1, QuietIs
<1> QED
  BY <1>2, <1>4, <1>5, <1>6, <1>7, <1>8, WriteIs

------------------------------------------------------------------------------
\* What a read does to the stream.
LEMMA ReadFailsIs ==
  ASSUME Inv, NEW p \in Procs, ReadFails(p)
  PROVE  Stream!ReadStep(p)
<1> DEFINE g == io[p].pipe
           c == Calling[p]
<1>0. /\ pc[p] = "read" /\ pc[p] \in Ends /\ UNCHANGED <<pipe, killed>> /\ p \in killed
      /\ Empty(pipe[g]) /\ "write" \in pipe[g].ends
  BY DEF ReadFails, At, Ends, MustWait
<1>1. /\ c.op = "read" /\ c.on = g /\ c.op \in OpenEnds[g]
      /\ pipe[g] \in PipeType /\ Fill(pipe[g]) <= PIPESIZE
      /\ Contents[g] = Content(pipe[g]) /\ OpenEnds[g] = pipe[g].ends
  BY <1>0, InStream
<1>2. Content(pipe[g]) = <<>>
  <2>1. Fill(pipe[g]) = 0
    BY <1>0, <1>1, FullIs
  <2>2. Content(pipe[g]) \in Seq(Data) /\ Len(Content(pipe[g])) = 0
    BY <1>1, <2>1, ContentIs
  <2> QED
    BY <2>2, EmptySeq
<1>3. UNCHANGED <<Contents, OpenEnds>>
  BY <1>0 DEF Contents, OpenEnds
<1>4. Stream!Over(p, -1, <<>>)
  <2>1. Goto(p, "user") /\ io' = [io EXCEPT ![p] = NoCall] /\ Returns(p, -1, <<>>)
    BY DEF ReadFails, IOReturn, Return
  <2> QED
    BY <2>1, OverStep
<1> HIDE DEF g, c
<1>5. Contents[c.on] = <<>> /\ "write" \in OpenEnds[c.on] /\ p \in killed'
  BY <1>0, <1>1, <1>2
<1> QED
  BY <1>1, <1>3, <1>4, <1>5 DEF Stream!ReadStep, c

LEMMA ReadReturnsIs ==
  ASSUME Inv, NEW p \in Procs, ReadReturns(p)
  PROVE  Stream!ReadStep(p)
<1> DEFINE g == io[p].pipe
           c == Calling[p]
           pi == pipe[g]
           all == Min({io[p].n, Fill(pi)})
           s == Contents[c.on]
<1>0. pc[p] = "read" /\ pc[p] \in Ends
  BY DEF ReadReturns, At, Ends
<1>1. /\ c.op = "read" /\ c.on = g /\ c.op \in OpenEnds[g] /\ c.asked = io[p].n /\ g \in Pages
      /\ pi \in PipeType /\ Fill(pi) <= PIPESIZE /\ io[p].n \in Nat
      /\ Contents[g] = Content(pi) /\ OpenEnds[g] = pi.ends
  BY <1>0, InStream
<1>2. PICK r \in 0 .. all :
        /\ pipe' = [pipe EXCEPT ![g] = Take(@, IF r < all THEN r + 1 ELSE r)]
        /\ Returns(p, r, Delivered(pi, r))
  BY DEF ReadReturns
<1>3. Goto(p, "user") /\ io' = [io EXCEPT ![p] = NoCall] /\ ~MustWait(pi)
  BY DEF ReadReturns
<1> HIDE DEF all
<1>4. /\ Fill(pi) \in Nat /\ all \in 0 .. Fill(pi) /\ all <= io[p].n
      /\ (all = 0 => io[p].n = 0 \/ Fill(pi) = 0)
  <2>1. Fill(pi) \in Nat
    BY <1>1, ContentIs
  <2> QED
    BY <1>1, <2>1, MinOfTwo DEF all
<1> DEFINE k == IF r < all THEN r + 1 ELSE r
           pj == Take(pi, k)
<1>5. /\ k \in 0 .. Fill(pi) /\ r \in 0 .. Fill(pi) /\ r \in {k - 1, k} /\ k <= io[p].n
      /\ (k = 0 => all = 0) /\ pipe' = [pipe EXCEPT ![g] = pj]
  BY <1>1, <1>2, <1>4
<1> HIDE DEF k
<1>6. pi = pipe[g]
  OBVIOUS
<1> HIDE DEF pi
<1>7. /\ pj.ends = pi.ends /\ Content(pj) = SubSeq(Content(pi), k + 1, Len(Content(pi)))
  <2>1. pj = Take(pi, k)
    OBVIOUS
  <2> HIDE DEF pj
  <2>2. pj.ends = pi.ends
    BY <1>1, <1>5, <2>1, TakeIs
  <2>3. Content(pj) = SubSeq(Content(pi), k + 1, Len(Content(pi)))
    BY <1>1, <1>5, <2>1, TakeIs
  <2> QED
    BY <2>2, <2>3
<1> HIDE DEF pj, g, c
<1>8. /\ pipe'[g] = pj /\ SameBut(Pages, g, pipe, pipe')
      /\ \A h \in Pages : pipe'[h].ends = pipe[h].ends
  <2>1. pipe \in [Pages -> PipeType]
    BY DEF Inv, TypeOK
  <2> QED
    BY <1>1, <1>5, <1>6, <1>7, <2>1 DEF SameBut
<1>9. UNCHANGED OpenEnds
  BY <1>8, SameEnds
<1>10. Contents' = [Contents EXCEPT ![c.on] = SubSeq(@, k + 1, Len(@))]
  <2>1. Contents' = [Contents EXCEPT ![g] = Content(pipe'[g])]
    BY <1>1, <1>8, OnePage
  <2>2. Contents' = [Contents EXCEPT ![g] = SubSeq(Content(pi), k + 1, Len(Content(pi)))]
    BY <1>7, <1>8, <2>1
  <2>3. Contents' = [Contents EXCEPT ![c.on] = SubSeq(s, k + 1, Len(s))]
    BY <1>1, <2>2
  <2> QED
    BY <2>3
<1>11. Len(s) = Fill(pi) /\ s = Content(pi)
  BY <1>1, ContentIs
<1>12. Stream!Over(p, r, SubSeq(s, 1, r))
  <2>1. Delivered(pi, r) = SubSeq(Content(pi), 1, r)
    BY <1>1, <1>5, DeliveredIs
  <2>2. Stream!Over(p, r, Delivered(pi, r))
    BY <1>2, <1>3, OverStep
  <2> QED
    BY <1>11, <2>1, <2>2
<1>13. k = 0 => c.asked = 0 \/ (s = <<>> /\ "write" \notin OpenEnds[c.on])
  <2> SUFFICES ASSUME k = 0, io[p].n # 0
               PROVE  s = <<>> /\ "write" \notin OpenEnds[c.on]
    BY <1>1
  <2>1. Fill(pi) = 0
    BY <1>4, <1>5
  <2>2. Empty(pi)
    BY <1>1, <2>1, FullIs
  <2>3. "write" \notin pi.ends
    BY <1>3, <2>2 DEF MustWait
  <2>4. Content(pi) \in Seq(Data) /\ Len(Content(pi)) = 0
    BY <1>1, <2>1, ContentIs
  <2>5. Content(pi) = <<>>
    BY <2>4, EmptySeq
  <2> QED
    BY <1>1, <1>11, <2>3, <2>5
<1>14. k \in 0 .. Len(s) /\ r \in 0 .. Len(s) /\ k <= c.asked /\ r \in {k - 1, k}
  BY <1>1, <1>5, <1>11
<1>15. c.op = "read" /\ c.op \in OpenEnds[c.on]
  BY <1>1
<1> QED
  BY <1>9, <1>10, <1>12, <1>13, <1>14, <1>15 DEF Stream!ReadStep, c

\* A pipe is made of a free page.
LEMMA NewPipeIs ==
  ASSUME Inv, NEW p \in Procs, pc[p] = "pipe_page", NEW g \in Pages, NewPipe(g, todo[p]),
         Goto(p, "user") \/ Goto(p, "close"), UNCHANGED io,
         Within \/ \E r : Returns(p, r, <<>>)
  PROVE  Stream!Make(g)
<1> DEFINE pj == [FreePage EXCEPT !.ends = Ends]
<1>0. pipe \in [Pages -> PipeType] /\ pc \in [Procs -> Labels]
  BY DEF Inv, TypeOK
<1>1. pipe[g].ends = {} /\ pipe' = [pipe EXCEPT ![g] = pj]
  BY DEF NewPipe
<1>2. pj.ends = Ends /\ Content(pj) = <<>>
  <2>1. Ends \in SUBSET Ends
    OBVIOUS
  <2> QED
    BY <2>1, NewPage
<1> HIDE DEF pj
<1>3. pipe'[g] = pj /\ SameBut(Pages, g, pipe, pipe')
  BY <1>0, <1>1 DEF SameBut
<1>4. /\ Contents' = [Contents EXCEPT ![g] = <<>>] /\ OpenEnds' = [OpenEnds EXCEPT ![g] = Ends]
      /\ OpenEnds[g] = {}
  <2>1. /\ Contents' = [Contents EXCEPT ![g] = Content(pipe'[g])]
        /\ OpenEnds' = [OpenEnds EXCEPT ![g] = pipe'[g].ends]
        /\ OpenEnds[g] = pipe[g].ends
    BY <1>3, OnePage
  <2> QED
    BY <1>1, <1>2, <1>3, <2>1
<1>5. UNCHANGED Calling
  <2>1. \A q \in Procs : pc'[q] = pc[q] \/ (pc[q] \notin Ends /\ pc'[q] \notin Ends)
    BY <1>0 DEF Goto, Ends
  <2> QED
    BY <2>1, CallsGoOn
<1>6. Stream!NoResult
  <2>1. pc[p] \notin Ends
    BY DEF Ends
  <2>2. Quiet
    BY <2>1, QuietSteps
  <2> QED
    BY <2>2, QuietIs
<1> QED
  BY <1>4, <1>5, <1>6 DEF Stream!Make, Ends

\* A read or write begins.
LEMMA CallIs ==
  ASSUME Inv, NEW p \in Procs, NEW d \in FDs, NEW e \in Ends, NEW arg \in IoType,
         arg.done = 0, Call(p, d, e, arg)
  PROVE  Stream!Call(p)
<1> DEFINE f == file[ofile[p][d]]
           a == [arg EXCEPT !.pipe = f.pipe]
<1>0. TypeOK /\ EndsRight /\ pc[p] = "user" /\ ofile[p][d] \in Fs
  BY DEF Inv, Call, Syscall, At, Open, TypeOK
<1>1. f.type = "FD_PIPE" /\ e \in f.mode /\ f \in FileType
  BY <1>0 DEF Call, TypeOK
<1>2. f.pipe \in Pages /\ f = PipeFile(f.pipe, e)
  <2>1. PICK g \in Pages, x \in Ends : f = PipeFile(g, x)
    BY <1>1, Kinds
  <2>2. f.pipe = g /\ f.mode = {x}
    BY <2>1, Kinds
  <2> QED
    BY <1>1, <2>1, <2>2
<1>3. e \in pipe[f.pipe].ends
  BY <1>0, <1>2, EndsTell
<1>4. io' = [io EXCEPT ![p] = a] /\ Goto(p, e) /\ Within /\ UNCHANGED pipe
  BY DEF Call
<1>5. a \in IoType /\ a.pipe = f.pipe /\ a.done = 0
  BY <1>2 DEF IoType
<1> HIDE DEF a, f
<1>6. /\ SameBut(Procs, p, io, io') /\ SameBut(Procs, p, pc, pc')
      /\ io'[p] = a /\ pc'[p] = e
  BY <1>0, <1>4 DEF TypeOK, SameBut, Goto
<1> DEFINE c == [op |-> e, on |-> a.pipe, left |-> a.left, moved |-> a.done, asked |-> a.n]
<1>7. Calling' = [Calling EXCEPT ![p] = c]
  <2>1. Calling' = [Calling EXCEPT ![p] =
              [op |-> IF pc'[p] \in Ends THEN pc'[p] ELSE "none", on |-> io'[p].pipe,
               left |-> io'[p].left, moved |-> io'[p].done, asked |-> io'[p].n]]
    BY <1>6, OneCall
  <2> QED
    BY <1>6, <2>1
<1>8. c.on \in Pages /\ c.moved = 0 /\ c.op \in Ends \cap OpenEnds[c.on]
  <2>1. OpenEnds[f.pipe] = pipe[f.pipe].ends
    BY <1>2 DEF OpenEnds
  <2> QED
    BY <1>2, <1>3, <1>5, <2>1
<1> HIDE DEF c
<1>9. Calling'[p] = c
  BY <1>7 DEF Calling
<1>10. UNCHANGED <<Contents, OpenEnds>>
  BY <1>4 DEF Contents, OpenEnds
<1>11. Calling[p] = Stream!Idle /\ Stream!NoResult
  <2>1. pc[p] \notin Ends
    BY <1>0 DEF Ends
  <2>2. Quiet
    BY <1>4, <2>1, QuietSteps
  <2> QED
    BY <2>1, <2>2, QuietIs
<1> QED
  BY <1>7, <1>8, <1>9, <1>10, <1>11 DEF Stream!Call, Ends

------------------------------------------------------------------------------
\* The last use of an end closes it.
LEMMA CloseLastIs ==
  ASSUME Inv, NEW p \in Procs, CloseLast(p)
  PROVE  Stream!Other \/ \E g \in Pages : Stream!CloseEnd(g)
<1>0. /\ TypeOK /\ EndsRight /\ pc[p] = "close_last" /\ pc[p] \notin Ends
      /\ last[p] \in FileType /\ last[p] # FreeFile
  BY DEF Inv, CloseLast, At, Ends, TypeOK, Fine, LastRight
<1>1. AfterClose(p, todo[p]) /\ UNCHANGED io
  BY DEF CloseLast
<1>2. \A q \in Procs : pc'[q] = pc[q] \/ (pc[q] \notin Ends /\ pc'[q] \notin Ends)
  <2>1. /\ pc \in [Procs -> Labels]
        /\ pc' = [pc EXCEPT ![p] = IF todo[p] # <<>> THEN "close"
                                   ELSE IF p \in exiting THEN "gone" ELSE "user"]
    BY <1>0, <1>1 DEF AfterClose, TypeOK
  <2> QED
    BY <1>0, <2>1 DEF Ends
<1>3. Quiet
  <2>1. Within \/ \E r : Returns(p, r, <<>>)
    BY <1>1 DEF AfterClose
  <2> QED
    BY <1>0, <2>1, QuietSteps
<1>4. CASE last[p] = InodeFile
  <2>1. UNCHANGED pipe
    BY <1>4, Kinds DEF CloseLast
  <2> QED
    BY <1>1, <1>2, <1>3, <2>1, OtherStep
<1>5. CASE \E g \in Pages, e \in Ends : last[p] = PipeFile(g, e)
  <2>1. PICK g \in Pages, e \in Ends : last[p] = PipeFile(g, e)
    BY <1>5
  <2> DEFINE pi == pipe[g]
             pj == IF pi.ends = {e} THEN FreePage ELSE [pi EXCEPT !.ends = pi.ends \ {e}]
  <2>2. pi \in PipeType /\ e \in pi.ends
    BY <1>0, <2>1, EndsTell DEF TypeOK
  <2>3. pipe' = [pipe EXCEPT ![g] = pj]
    <3>1. last[p].type = "FD_PIPE" /\ last[p].pipe = g /\ last[p].mode = {e}
      BY <2>1, Kinds
    <3>2. (CHOOSE x \in {e} : TRUE) = e
      OBVIOUS
    <3>3. PipeClose(g, e)
      BY <3>1, <3>2 DEF CloseLast
    <3> QED
      BY <3>3 DEF PipeClose
  <2>4. /\ pj.ends = pi.ends \ {e}
        /\ Content(pj) = IF pi.ends = {e} THEN <<>> ELSE Content(pi)
    <3>1. CASE pi.ends = {e}
      <4>1. FreePage.ends = {} /\ Content(FreePage) = <<>>
        BY FreePageIs
      <4>2. pj = FreePage
        BY <3>1
      <4> HIDE DEF pj
      <4> QED
        BY <3>1, <4>1, <4>2
    <3>2. CASE pi.ends # {e}
      <4>1. pj = [pi EXCEPT !.ends = pi.ends \ {e}]
        BY <3>2
      <4> HIDE DEF pj, pi
      <4>2. /\ pj.ends = pi.ends \ {e} /\ pj.data = pi.data
            /\ pj.nread = pi.nread /\ pj.nwrite = pi.nwrite
        BY <2>2, <4>1 DEF PipeType
      <4>3. Fill(pj) = Fill(pi)
        BY <4>2 DEF Fill
      <4>4. Content(pj) = Content(pi)
        BY <4>2, <4>3 DEF Content
      <4> QED
        BY <3>2, <4>2, <4>4
    <3> QED
      BY <3>1, <3>2
  <2>5. pi = pipe[g]
    OBVIOUS
  <2> HIDE DEF pi, pj
  <2>6. pipe'[g] = pj /\ SameBut(Pages, g, pipe, pipe')
    BY <1>0, <2>3 DEF TypeOK, SameBut
  <2>7. /\ OpenEnds[g] = pi.ends /\ Contents[g] = Content(pi)
        /\ OpenEnds' = [OpenEnds EXCEPT ![g] = pj.ends]
        /\ Contents' = [Contents EXCEPT ![g] = Content(pj)]
    BY <2>5, <2>6, OnePage
  <2>8. /\ e \in OpenEnds[g] /\ OpenEnds' = [OpenEnds EXCEPT ![g] = @ \ {e}]
        /\ Contents' = [Contents EXCEPT ![g] = IF OpenEnds[g] = {e} THEN <<>> ELSE @]
    BY <2>2, <2>4, <2>7
  <2>9. UNCHANGED Calling /\ Stream!NoResult
    BY <1>1, <1>2, <1>3, CallsGoOn, QuietIs
  <2> QED
    BY <2>8, <2>9 DEF Stream!CloseEnd
<1> QED
  BY <1>0, <1>4, <1>5, Kinds

\* The steps that are nothing to the stream.
LEMMA LocalIs ==
  ASSUME Inv, NEW p \in Procs, UNCHANGED <<pipe, io>>, pc[p] \notin Ends,
         Within \/ \E r : Returns(p, r, <<>>),
         \A q \in Procs : pc'[q] = pc[q] \/ (pc[q] \notin Ends /\ pc'[q] \notin Ends)
  PROVE  Stream!Other
<1>1. Quiet
  BY QuietSteps
<1> QED
  BY <1>1, OtherStep

\* Where the label of one process changes.
LEMMA OneLabel ==
  ASSUME Inv, NEW p \in Procs, NEW l, l \notin Ends, pc[p] \notin Ends,
         pc' = [pc EXCEPT ![p] = l]
  PROVE  \A q \in Procs : pc'[q] = pc[q] \/ (pc[q] \notin Ends /\ pc'[q] \notin Ends)
BY DEF Inv, TypeOK

\* What processes call, and how calls go on, is a step of the stream.
LEMMA AnyCallIs ==
  ASSUME Inv, NEW p \in Procs, AnyCall(p)
  PROVE  Stream!Next
<1>0. pc \in [Procs -> Labels] /\ ("user" \notin Ends) /\ ("close" \notin Ends)
      /\ ("gone" \notin Ends) /\ ("none" \notin Ends) /\ ("fork" \notin Ends)
      /\ ("pipe_file" \notin Ends) /\ ("new" \notin Ends)
  BY DEF Inv, TypeOK, Ends
<1>1. CASE Refuse(p)
  <2>1. /\ UNCHANGED <<pipe, io>> /\ pc[p] = "user" /\ pc' = [pc EXCEPT ![p] = "user"]
        /\ Returns(p, -1, <<>>)
    BY <1>1 DEF Refuse, Syscall, At, Return, Goto, calls
  <2>2. Stream!Other
    BY <1>0, <2>1, OneLabel, LocalIs
  <2> QED
    BY <2>2 DEF Stream!Next
<1>2. CASE Pipe(p)
  <2>1. /\ UNCHANGED <<pipe, io>> /\ pc[p] = "user" /\ pc' = [pc EXCEPT ![p] = "pipe_file"]
        /\ Within
    BY <1>2 DEF Pipe, Syscall, At, Goto
  <2>2. Stream!Other
    BY <1>0, <2>1, OneLabel, LocalIs
  <2> QED
    BY <2>2 DEF Stream!Next
<1>3. CASE Exit(p)
  <2>1. /\ UNCHANGED <<pipe, io>> /\ pc[p] = "user" /\ Within
        /\ pc' = [pc EXCEPT ![p] = IF OpenFiles(p) = <<>> THEN "gone" ELSE "close"]
    BY <1>3 DEF Exit, At
  <2>2. (IF OpenFiles(p) = <<>> THEN "gone" ELSE "close") \notin Ends
    BY <1>0
  <2>3. Stream!Other
    BY <1>0, <2>1, <2>2, OneLabel, LocalIs
  <2> QED
    BY <2>3 DEF Stream!Next
<1>4. CASE Reap(p)
  <2>1. /\ UNCHANGED <<pipe, io>> /\ pc[p] = "gone" /\ pc' = [pc EXCEPT ![p] = "none"]
        /\ Within
    BY <1>4 DEF Reap, Goto
  <2>2. Stream!Other
    BY <1>0, <2>1, OneLabel, LocalIs
  <2> QED
    BY <2>2 DEF Stream!Next
<1>5. CASE Kill(p)
  <2>1. UNCHANGED <<pipe, io, pc>> /\ Within
    BY <1>5 DEF Kill, calls
  <2>2. Quiet
    BY <2>1, Constants DEF Within, Quiet, NoReturn
  <2>3. Stream!Other
    BY <2>1, <2>2, OtherStep
  <2> QED
    BY <2>3 DEF Stream!Next
<1>6. ASSUME NEW d \in FDs, Dup(p, d) PROVE Stream!Next
  <2>1. /\ UNCHANGED <<pipe, io>> /\ pc[p] = "user" /\ pc' = [pc EXCEPT ![p] = "user"]
        /\ \E r : Returns(p, r, <<>>)
    BY <1>6 DEF Dup, Syscall, At, Return, Goto, calls
  <2>2. Stream!Other
    BY <1>0, <2>1, OneLabel, LocalIs
  <2> QED
    BY <2>2 DEF Stream!Next
<1>7. ASSUME NEW d \in FDs, Close(p, d) PROVE Stream!Next
  <2>1. /\ UNCHANGED <<pipe, io>> /\ pc[p] = "user" /\ pc' = [pc EXCEPT ![p] = "close"]
        /\ Within
    BY <1>7 DEF Close, Syscall, At, Goto
  <2>2. Stream!Other
    BY <1>0, <2>1, OneLabel, LocalIs
  <2> QED
    BY <2>2 DEF Stream!Next
<1>8. ASSUME NEW d \in FDs, NEW w \in Texts, Write(p, d, w) PROVE Stream!Next
  <2> DEFINE a == [NoCall EXCEPT !.left = w]
  <2>1. a \in IoType /\ "write" \in Ends /\ a.done = 0
    BY Arguments DEF Ends, NoCall
  <2>2. Call(p, d, "write", a)
    BY <1>8 DEF Write
  <2> HIDE DEF a
  <2>3. Stream!Call(p)
    BY <2>1, <2>2, CallIs
  <2> QED
    BY <2>3 DEF Stream!Next
<1>9. ASSUME NEW d \in FDs, NEW n \in Sizes, Read(p, d, n) PROVE Stream!Next
  <2> DEFINE a == [NoCall EXCEPT !.n = n]
  <2>1. a \in IoType /\ "read" \in Ends /\ a.done = 0
    BY Arguments DEF Ends, NoCall
  <2>2. Call(p, d, "read", a)
    BY <1>9 DEF Read
  <2> HIDE DEF a
  <2>3. Stream!Call(p)
    BY <2>1, <2>2, CallIs
  <2> QED
    BY <2>3 DEF Stream!Next
<1>10. ASSUME NEW q \in Procs, Fork(p, q) PROVE Stream!Next
  <2>1. /\ UNCHANGED <<pipe, io>> /\ pc[p] = "user" /\ pc[q] = "none" /\ Within
        /\ pc' = [pc EXCEPT ![p] = "fork", ![q] = "new"]
    BY <1>10 DEF Fork, Syscall, At
  <2>2. \A r \in Procs : pc'[r] = pc[r] \/ (pc[r] \notin Ends /\ pc'[r] \notin Ends)
    BY <1>0, <2>1
  <2>3. Stream!Other
    BY <1>0, <2>1, <2>2, LocalIs
  <2> QED
    BY <2>3 DEF Stream!Next
<1>11. CASE OpenInode(p)
  <2>1. CASE FreeFds(p) = {}
    <3>1. /\ UNCHANGED <<pipe, io>> /\ pc[p] = "user" /\ pc' = [pc EXCEPT ![p] = "close"]
          /\ Within
      BY <1>11, <2>1 DEF OpenInode, Syscall, At, GiveUp, Goto
    <3>2. Stream!Other
      BY <1>0, <3>1, OneLabel, LocalIs
    <3> QED
      BY <3>2 DEF Stream!Next
  <2>2. CASE FreeFds(p) # {}
    <3>1. /\ UNCHANGED <<pipe, io>> /\ pc[p] = "user" /\ pc' = [pc EXCEPT ![p] = "user"]
          /\ \E r : Returns(p, r, <<>>)
      BY <1>11, <2>2 DEF OpenInode, Syscall, At, Return, Goto
    <3>2. Stream!Other
      BY <1>0, <3>1, OneLabel, LocalIs
    <3> QED
      BY <3>2 DEF Stream!Next
  <2> QED
    BY <2>1, <2>2
<1>12. ASSUME NEW d \in FDs, InodeIO(p, d, 0) PROVE Stream!Next
  <2>1. /\ UNCHANGED <<pipe, io>> /\ pc[p] = "user" /\ pc' = [pc EXCEPT ![p] = "user"]
        /\ Returns(p, 0, <<>>)
    BY <1>12 DEF InodeIO, Syscall, At, Return, Goto, calls
  <2>2. Stream!Other
    BY <1>0, <2>1, OneLabel, LocalIs
  <2> QED
    BY <2>2 DEF Stream!Next
<1> QED
  BY <1>1, <1>2, <1>3, <1>4, <1>5, <1>6, <1>7, <1>8, <1>9, <1>10, <1>11, <1>12 DEF AnyCall

LEMMA InCallIs ==
  ASSUME Inv, NEW p \in Procs, InCall(p)
  PROVE  Stream!Next
<1>0. /\ pc \in [Procs -> Labels] /\ "user" \notin Ends /\ "close" \notin Ends
      /\ "pipe_page" \notin Ends /\ "pipe_file" \notin Ends /\ "fork" \notin Ends
      /\ "close_last" \notin Ends
  BY DEF Inv, TypeOK, Ends
<1>1. CASE CloseFile(p)
  <2>1. /\ UNCHANGED <<pipe, io>> /\ pc[p] = "close"
        /\ Within \/ \E r : Returns(p, r, <<>>)
        /\ \E l \in {"close", "gone", "user", "close_last"} : pc' = [pc EXCEPT ![p] = l]
    BY <1>1 DEF CloseFile, At, AfterClose, Goto
  <2>2. PICK l \in {"close", "gone", "user", "close_last"} : pc' = [pc EXCEPT ![p] = l]
    BY <2>1
  <2>3. l \notin Ends
    BY DEF Ends
  <2>4. Stream!Other
    BY <1>0, <2>1, <2>2, <2>3, OneLabel, LocalIs
  <2> QED
    BY <2>4 DEF Stream!Next
<1>2. CASE CloseLast(p)
  BY <1>2, CloseLastIs DEF Stream!Next
<1>3. CASE PipeFile1(p)
  <2>1. /\ UNCHANGED <<pipe, io>> /\ pc[p] = "pipe_file" /\ Within
        /\ \E l \in {"close", "pipe_page"} : pc' = [pc EXCEPT ![p] = l]
    BY <1>3 DEF PipeFile1, At, GiveUp, Goto
  <2>2. PICK l \in {"close", "pipe_page"} : pc' = [pc EXCEPT ![p] = l]
    BY <2>1
  <2>3. Stream!Other
    BY <1>0, <2>1, <2>2, OneLabel, LocalIs
  <2> QED
    BY <2>3 DEF Stream!Next
<1>4. CASE PipeNoPage(p)
  <2>1. /\ UNCHANGED <<pipe, io>> /\ pc[p] = "pipe_page" /\ Within
        /\ pc' = [pc EXCEPT ![p] = "close"]
    BY <1>4 DEF PipeNoPage, At, GiveUp, Goto
  <2>2. Stream!Other
    BY <1>0, <2>1, OneLabel, LocalIs
  <2> QED
    BY <2>2 DEF Stream!Next
<1>5. CASE PipeDescriptors(p) \/ PipeNoDescriptors(p)
  <2>1. /\ pc[p] = "pipe_page" /\ UNCHANGED io
        /\ Within \/ \E r : Returns(p, r, <<>>)
    BY <1>5 DEF PipeDescriptors, PipeNoDescriptors, At, Return, GiveUp
  <2>2. Goto(p, "user") \/ Goto(p, "close")
    BY <1>5 DEF PipeDescriptors, PipeNoDescriptors, Return, GiveUp
  <2>3. PICK g \in Pages : NewPipe(g, todo[p])
    BY <1>5 DEF PipeDescriptors, PipeNoDescriptors
  <2>4. Stream!Make(g)
    BY <2>1, <2>2, <2>3, NewPipeIs
  <2> QED
    BY <2>4 DEF Stream!Next
<1>6. CASE WriteFails(p) \/ WriteReturns(p) \/ WriteSleeps(p) \/ WriteCut(p)
  <2>1. Stream!WriteStep(p)
    BY <1>6, WriteFailsIs, WriteReturnsIs, WriteSleepsIs, WriteCutIs
  <2> QED
    BY <2>1 DEF Stream!Next
<1>7. CASE ReadFails(p) \/ ReadReturns(p)
  <2>1. Stream!ReadStep(p)
    BY <1>7, ReadFailsIs, ReadReturnsIs
  <2> QED
    BY <2>1 DEF Stream!Next
<1>8. CASE ReadSleeps(p) \/ ForkDup(p)
  <2>1. UNCHANGED <<pipe, io, pc>> /\ Within
    BY <1>8 DEF ReadSleeps, ForkDup, calls
  <2>2. Quiet
    BY <2>1, Constants DEF Within, Quiet, NoReturn
  <2>3. Stream!Other
    BY <2>1, <2>2, OtherStep
  <2> QED
    BY <2>3 DEF Stream!Next
<1>9. CASE ForkRun(p)
  <2>1. /\ UNCHANGED <<pipe, io>> /\ pc[p] = "fork" /\ Returns(p, 1, <<>>)
        /\ pc' = [pc EXCEPT ![p] = "user", ![child[p]] = "user"]
    BY <1>9 DEF ForkRun, At
  <2>2. child[p] \in Procs /\ pc[child[p]] = "new"
    BY <2>1, NewChild
  <2>3. \A q \in Procs : pc'[q] = pc[q] \/ (pc[q] \notin Ends /\ pc'[q] \notin Ends)
    BY <1>0, <2>1, <2>2 DEF Ends
  <2>4. Stream!Other
    BY <1>0, <2>1, <2>3, LocalIs
  <2> QED
    BY <2>4 DEF Stream!Next
<1> QED
  BY <1>1, <1>2, <1>3, <1>4, <1>5, <1>6, <1>7, <1>8, <1>9 DEF InCall

\* Pipes are streams of bytes: every step of the kernel is a step of the stream or none
\* (pipewrite, piperead, pipealloc, pipeclose).
THEOREM PipesAreStreams == Spec => IsStream
<1>1. Init => Stream!Init
  <2> SUFFICES ASSUME Init PROVE Stream!Init
    OBVIOUS
  <2>1. Inv
    BY InitInv
  <2>2. Contents = [g \in Pages |-> <<>>] /\ OpenEnds = [g \in Pages |-> {}]
    BY FreePageIs DEF Init, Contents, OpenEnds
  <2>3. \A p \in Procs : Calling[p] = Stream!Idle
    <3>1. \A p \in Procs : pc[p] \notin Ends
      BY DEF Init, Ends
    <3> QED
      BY <2>1, <3>1, QuietIs
  <2>4. Calling = [p \in Procs |-> Stream!Idle]
    BY <2>3 DEF Calling
  <2> QED
    BY <2>2, <2>4 DEF Init, Stream!Init
<1>2. IInv /\ [Next]_vars => [Stream!Next]_Stream!streamVars
  <2> SUFFICES ASSUME Inv, [Next]_vars PROVE [Stream!Next]_Stream!streamVars
    BY InvIs
  <2>1. CASE UNCHANGED vars
    BY <2>1 DEF vars, Stream!streamVars, Contents, OpenEnds, Calling
  <2>2. ASSUME NEW p \in Procs, AnyCall(p) PROVE Stream!Next
    BY <2>2, AnyCallIs
  <2>3. ASSUME NEW p \in Procs, InCall(p) PROVE Stream!Next
    BY <2>3, InCallIs
  <2> QED
    BY <2>1, <2>2, <2>3 DEF Next
<1> QED
  BY <1>1, <1>2, Invariance, PTL DEF Spec, IsStream, Stream!Spec

===============================================================================
