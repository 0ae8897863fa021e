------------------------------- MODULE Blocks -------------------------------
(***************************************************************************)
(* The blocks of xv6's inodes (kernel/fs.c): the bit map, the direct and   *)
(* indirect block numbers of an inode, reading, writing and truncating it, *)
(* directories, and the transactions of filewrite (kernel/file.c).         *)
(*                                                                         *)
(* An operation on a locked inode is a step, that of a transaction of      *)
(* filewrite too; the log beneath makes it atomic (Log).  A file is a      *)
(* sequence of units, BSIZE of them to a block.  A directory is one too,   *)
(* of entries that fill a unit, each 0 or a name.                          *)
(***************************************************************************)
EXTENDS Integers, FiniteSets, FiniteSetsExt, SequencesExt

CONSTANTS
  FileInums,   \* inodes of files
  DirInums,    \* inodes of directories
  Size,        \* sb.size: blocks 1 to Size are those of the bit map
  BSIZE, NDIRECT, NINDIRECT,
  Units,       \* what a unit of a file can hold, 0 not among it
  EntryNames,  \* what a unit of a directory can hold
  MaxWrite     \* filewrite: units of one transaction

ASSUME BlocksAssumption ==
  /\ Size \in Nat /\ BSIZE \in Nat \ {0} /\ NDIRECT \in Nat /\ NINDIRECT \in Nat
  /\ 0 \notin Units \cup EntryNames /\ MaxWrite \in Nat \ {0}

Inums == FileInums \cup DirInums
MAXFILE == NDIRECT + NINDIRECT

VARIABLES
  bitmap,  \* the blocks in use
  block,   \* what the blocks hold: units, or block numbers
  dinode,  \* addrs and size
  openf,   \* an open file's offset, how much its write has left, and of what
  bad,     \* the kernel has panicked
  content  \* history: what the inodes contain

blocksVars == <<bitmap, block, dinode, openf, bad, content>>

Zeroes == [i \in 0 .. BSIZE - 1 |-> 0]
NoBlocks == [i \in 0 .. NINDIRECT - 1 |-> 0]

BlocksInit ==
  /\ bitmap = {} /\ block = [b \in 1 .. Size |-> Zeroes]
  /\ dinode = [ip \in Inums |-> [addrs |-> [i \in 0 .. NDIRECT |-> 0], size |-> 0]]
  /\ openf = [ip \in FileInums |-> [off |-> 0, left |-> 0, data |-> 0]] /\ bad = FALSE
  /\ content = [ip \in Inums |-> <<>>]

\* The disk and an inode, as an operation on the inode changes them.
Disk(ip) == [bitmap |-> bitmap, block |-> block, i |-> dinode[ip], bad |-> bad]

SetDisk(ip, d) ==
  /\ bitmap' = d.bitmap /\ block' = d.block /\ bad' = d.bad
  /\ dinode' = [dinode EXCEPT ![ip] = d.i]

------------------------------------------------------------------------------
(* balloc, bfree and bmap *)

Unmarked(d) == (1 .. Size) \ d.bitmap

\* The first free block, zeroed for what it is for; 0 when there is none.
Take(d, b, zero) == [d |-> [d EXCEPT !.bitmap = @ \cup {b}, !.block[b] = zero], addr |-> b]
Balloc(d, zero) ==
  IF Unmarked(d) = {} THEN [d |-> d, addr |-> 0] ELSE Take(d, Min(Unmarked(d)), zero)

\* bfree panics on a free block.
Bfree(d, b) == [d EXCEPT !.bitmap = @ \ {b}, !.bad = @ \/ b \notin d.bitmap]

Indirect(d) == d.block[d.i.addrs[NDIRECT]]

\* ip->addrs[i], which gets a block when it has none.
AddrSet(a, i) == [a EXCEPT !.d.i.addrs[i] = a.addr]
Addr(d, i, zero) ==
  IF d.i.addrs[i] # 0 THEN [d |-> d, addr |-> d.i.addrs[i]] ELSE AddrSet(Balloc(d, zero), i)

\* The k-th entry of the indirect block a.addr, in the same way.
EntrySet(n, b, k) == [n EXCEPT !.d.block[b][k] = n.addr]
Entry(a, k) ==
  IF a.addr = 0 THEN a
  ELSE IF a.d.block[a.addr][k] # 0 THEN [a EXCEPT !.addr = a.d.block[a.addr][k]]
  ELSE EntrySet(Balloc(a.d, Zeroes), a.addr, k)

\* The block of the bn-th block of the inode, with new blocks where there is none; 0
\* when the disk is full, and then a new indirect block stays in the inode.
Bmap(d, bn) ==
  CASE bn < NDIRECT -> Addr(d, bn, Zeroes)
    [] bn \in NDIRECT .. MAXFILE - 1 -> Entry(Addr(d, NDIRECT, NoBlocks), bn - NDIRECT)
    [] OTHER -> [d |-> [d EXCEPT !.bad = TRUE], addr |-> 0]

\* Mutant: the blocks of the indirect block are freed, the block itself is not.
Itrunc_KeepsIndirect(d) ==
  LET direct == { d.i.addrs[i] : i \in 0 .. NDIRECT - 1 }
      rest == IF d.i.addrs[NDIRECT] = 0 THEN {} ELSE { Indirect(d)[k] : k \in DOMAIN Indirect(d) }
  IN [FoldSet(LAMBDA b, t : Bfree(t, b), d, (direct \cup rest) \ {0})
        EXCEPT !.i = [addrs |-> [i \in 0 .. NDIRECT |-> 0], size |-> 0]]

\* itrunc: the blocks of the inode, and its indirect block with those in it.
Itrunc(d) ==
  LET direct == { d.i.addrs[i] : i \in 0 .. NDIRECT }
      rest == IF d.i.addrs[NDIRECT] = 0 THEN {} ELSE { Indirect(d)[k] : k \in DOMAIN Indirect(d) }
  IN [FoldSet(LAMBDA b, t : Bfree(t, b), d, (direct \cup rest) \ {0})
        EXCEPT !.i = [addrs |-> [i \in 0 .. NDIRECT |-> 0], size |-> 0]]

------------------------------------------------------------------------------
(* readi and writei *)

\* The chunks of n units from off: those of one block together.
Chunks(off, n) ==
  [k \in 1 .. (IF n = 0 THEN 0 ELSE (off + n - 1) \div BSIZE - off \div BSIZE + 1) |->
     LET bn == off \div BSIZE + k - 1
     IN [bn |-> bn, from |-> Max({off, bn * BSIZE}), to |-> Min({off + n, (bn + 1) * BSIZE})]]

\* What readi gives of n units from off, short at the end of the file.
Readi(d, off, n) ==
  LET size == IF off > d.i.size THEN 0 ELSE Min({n, d.i.size - off})
      unit(b, u) == b.d.block[b.addr][u]
  IN [j \in 1 .. size |->
        unit(Bmap(d, (off + j - 1) \div BSIZE), (off + j - 1) % BSIZE)]

\* Mutant: the size does not grow with what is written.
Grown_Not(size, off) == size

Grown(size, off) == IF off > size THEN off ELSE size

\* writei of the units data from off: what was written before the disk was full, or
\* before an address was bad, stays.  Bound: an address is good or bad for the whole of
\* a chunk; copyin may copy the first page of one and fail at the second.
Writei(d, off, data, copies) ==
  LET put(r, c, b) ==
        IF b.addr = 0 \/ c.bn >= copies THEN [r EXCEPT !.d = b.d, !.stop = TRUE]
        ELSE [d |-> [b.d EXCEPT !.block[b.addr] =
                       [u \in DOMAIN @ |->
                          LET j == c.bn * BSIZE + u
                          IN IF j \in c.from .. c.to - 1 THEN data[j - off + 1] ELSE @[u]]],
              off |-> c.to, stop |-> FALSE]
      one(r, c) == IF r.stop THEN r ELSE put(r, c, Bmap(r.d, c.bn))
      written(w) == [d |-> [w.d EXCEPT !.i.size = Grown(@, w.off)], n |-> w.off - off]
  IN IF off > d.i.size \/ off + Len(data) > MAXFILE * BSIZE THEN [d |-> d, n |-> -1]
     ELSE written(FoldLeft(one, [d |-> d, off |-> off, stop |-> FALSE],
                           Chunks(off, Len(data))))

Overwrite(s, off, data) ==
  [i \in 1 .. Max({Len(s), off + Len(data)}) |->
     IF i - off \in DOMAIN data THEN data[i - off] ELSE s[i]]

\* A writei of data at off gave w.
Wrote(ip, w, off, data) ==
  /\ SetDisk(ip, w.d)
  /\ content' = [content EXCEPT ![ip] =
       IF w.n > 0 THEN Overwrite(@, off, SubSeq(data, 1, w.n)) ELSE @]

------------------------------------------------------------------------------
(* filewrite, fileread and open with O_TRUNC *)

WriteCall(f) ==
  /\ openf[f].left = 0
  /\ \E n \in 1 .. MAXFILE * BSIZE, d \in Units :
       openf' = [openf EXCEPT ![f].left = n, ![f].data = d]
  /\ UNCHANGED <<bitmap, block, dinode, bad, content>>

\* A transaction of filewrite; the write ends when it is short.
FileWrote(f, w, data) ==
  /\ Wrote(f, w, openf[f].off, data)
  /\ openf' = [openf EXCEPT ![f].off = IF w.n > 0 THEN @ + w.n ELSE @,
                            ![f].left = IF w.n = Len(data) THEN @ - w.n ELSE 0]

FileWrite(f) ==
  /\ openf[f].left > 0
  /\ \E copies \in 0 .. MAXFILE :
       LET data == [i \in 1 .. Min({openf[f].left, MaxWrite}) |-> openf[f].data]
       IN FileWrote(f, Writei(Disk(f), openf[f].off, data, copies), data)

\* A read moves the offset; a second open of the file has an offset of its own.
FileRead(f) ==
  /\ openf[f].left = 0
  /\ \E n \in 1 .. BSIZE :
       openf' = [openf EXCEPT ![f].off = @ + Len(Readi(Disk(f), openf[f].off, n))]
  /\ UNCHANGED <<bitmap, block, dinode, bad, content>>

Reopen(f) ==
  /\ openf[f].left = 0
  /\ openf' = [openf EXCEPT ![f].off = 0]
  /\ UNCHANGED <<bitmap, block, dinode, bad, content>>

\* Another process truncates the file; offsets stay.
OpenTrunc(f) ==
  /\ SetDisk(f, Itrunc(Disk(f)))
  /\ content' = [content EXCEPT ![f] = <<>>]
  /\ UNCHANGED openf

------------------------------------------------------------------------------
(* dirlookup, dirlink and the removal of an entry *)

DirEntries(dp) == Readi(Disk(dp), 0, dinode[dp].size)

Dirlookup(dp, name) == SelectInSeq(DirEntries(dp), LAMBDA e : e = name)

\* dirlink: the first empty entry, or one more at the end.
Dirlink(dp, name) ==
  LET empty == SelectInSeq(DirEntries(dp), LAMBDA e : e = 0)
      off == IF empty = 0 THEN dinode[dp].size ELSE empty - 1
  IN /\ Dirlookup(dp, name) = 0
     /\ Wrote(dp, Writei(Disk(dp), off, <<name>>, MAXFILE), off, <<name>>)
     /\ UNCHANGED openf

\* sys_unlink writes an empty entry over it.
Dirunlink(dp, name) ==
  LET off == Dirlookup(dp, name) - 1
  IN /\ off >= 0
     /\ Wrote(dp, Writei(Disk(dp), off, <<0>>, MAXFILE), off, <<0>>)
     /\ UNCHANGED openf

------------------------------------------------------------------------------

BlocksNext ==
  /\ ~bad
  /\ \/ \E f \in FileInums :
          WriteCall(f) \/ FileWrite(f) \/ FileRead(f) \/ Reopen(f) \/ OpenTrunc(f)
     \/ \E dp \in DirInums, name \in EntryNames : Dirlink(dp, name) \/ Dirunlink(dp, name)

BlocksSpec == BlocksInit /\ [][BlocksNext]_blocksVars

------------------------------------------------------------------------------
(* Properties *)

\* The blocks of an inode as the disk has them, 0 where there is none.
Table(ip) ==
  LET i == dinode[ip] IN
  [bn \in 0 .. MAXFILE - 1 |->
     IF bn < NDIRECT THEN i.addrs[bn]
     ELSE IF i.addrs[NDIRECT] = 0 THEN 0 ELSE block[i.addrs[NDIRECT]][bn - NDIRECT]]

BlocksOf(ip) == ({ Table(ip)[bn] : bn \in DOMAIN Table(ip) } \cup {dinode[ip].addrs[NDIRECT]}) \ {0}

Counted(ip) ==
  Cardinality({ bn \in DOMAIN Table(ip) : Table(ip)[bn] # 0 })
    + (IF dinode[ip].addrs[NDIRECT] = 0 THEN 0 ELSE 1)

\* The bit map marks exactly the blocks that inodes hold, each of them once, also after
\* a write that found the disk full: no block is lost, shared or freed twice, and no
\* inode is asked for a block it cannot have (balloc, bfree, bmap, itrunc).
BitmapExact ==
  /\ ~bad
  /\ bitmap = UNION { BlocksOf(ip) : ip \in Inums }
  /\ \A ip \in Inums : Cardinality(BlocksOf(ip)) = Counted(ip)
  /\ \A a, b \in Inums : a # b => BlocksOf(a) \cap BlocksOf(b) = {}

\* An inode reads as what was written to it, and as nothing else: no unit of a block
\* that another file had before, none lost at a block's border or when a write ends
\* early (readi, writei, filewrite, dirlink).
ReadsBack ==
  \A ip \in Inums :
    /\ dinode[ip].size = Len(content[ip])
    /\ \A i \in DOMAIN content[ip] :
         /\ Table(ip)[(i - 1) \div BSIZE] # 0
         /\ block[Table(ip)[(i - 1) \div BSIZE]][(i - 1) % BSIZE] = content[ip][i]

==============================================================================
