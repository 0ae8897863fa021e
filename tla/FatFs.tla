-------------------------------- MODULE FatFs --------------------------------
(***************************************************************************)
(* The FAT32 file system of so25lab3g16 (fat_fuse_ops.c, fat_file.c,       *)
(* fat_table.c, big_brother.c): the volume on disk, the tree of files in   *)
(* memory, the handlers of FUSE, and the log /bb/fs.log they write.        *)
(*                                                                         *)
(* FUSE runs with -s, so a handler is one step.  Sizes and offsets are in  *)
(* units of 32 bytes, the size of a directory entry.  The memory copy of   *)
(* the FAT is written with the disk's, so there is one.  Dates are left    *)
(* out, as is h_tree: the tree is a function of the path.                  *)
(***************************************************************************)
EXTENDS Integers, FiniteSets, SequencesExt

CONSTANTS
  NumClusters,  \* num_data_clusters
  PerCluster,   \* units, and directory entries, in a cluster
  FileNames,    \* bound: the names of the files of users, in the root or in
  DirNames,     \*   a directory, and of their directories, in the root
  WriteSizes,   \* bound: the sizes of the writes
  MaxSize,      \* bound: the size of a file of a user
  LogLine       \* bound: the size of a line of the log

Clusters == 2 .. NumClusters + 1
Cells == 0 .. PerCluster - 1

\* Values of a FAT entry that are not clusters.
FREE == 0
EOC == -1
BAD == -2

Root == <<>>
BB == <<"bb">>
Log == <<"bb", "fs.log">>

Dirs == { <<d>> : d \in DirNames }
Inside == { <<d, n>> : d \in DirNames, n \in FileNames }
Files == { <<n>> : n \in FileNames } \cup Inside
Paths == {Root, BB, Log} \cup Dirs \cup Files

DirOf(p) == Front(p)

\* What 32 bytes of the disk hold: a directory entry (Dentry), one that ignore_dentry skips
\* (deleted, "." and ".."), or the data of a file with that name.  Bound: the data
\* begin with a zero byte, as the end of a directory.
Zero == [kind |-> "zero"]
Ignored == [kind |-> "ignored"]
Data(n) == [kind |-> "data", name |-> n]

Absent == [there |-> FALSE]

ASSUME FatAssumption ==
  /\ NumClusters \in Nat /\ NumClusters >= 3 /\ PerCluster \in Nat /\ PerCluster >= 3
  /\ FileNames \cap DirNames = {} /\ LogLine \in Nat \ {0} /\ MaxSize \in Nat
  /\ WriteSizes \subseteq Nat \ {0}

VARIABLES
  fat,      \* the FAT
  disk,     \* the data clusters, cell by cell
  tree,     \* the files in memory
  mounted

fatVars == <<fat, disk, tree, mounted>>

NoTree == [p \in Paths |-> Absent]

\* An image from mkfs.vfat, whose cluster 2 is the root directory: empty, or with a
\* directory that another system made and a file of one cluster in it.
EmptyImage ==
  [fat |-> [c \in Clusters |-> IF c = 2 THEN EOC ELSE FREE],
   disk |-> [c \in Clusters |-> [i \in Cells |-> Zero]]]

FilledImage(d, n) ==
  LET dir == [kind |-> "dir", name |-> d, start |-> 3, size |-> 0]
      file == [kind |-> "file", name |-> n, start |-> 4, size |-> 1]
  IN  [fat |-> [c \in Clusters |-> IF c \in 2 .. 4 THEN EOC ELSE FREE],
       disk |-> [EmptyImage.disk EXCEPT ![2][0] = dir, ![3][0] = Ignored, ![3][1] = Ignored,
                                        ![3][2] = file, ![4][0] = Data(n)]]

Images == {EmptyImage} \cup { FilledImage(d, n) : d \in DirNames, n \in FileNames }

FatInit ==
  /\ \E image \in Images : fat = image.fat /\ disk = image.disk
  /\ tree = NoTree
  /\ mounted = FALSE

\* A volume in the middle of a handler.
Vol == [fat |-> fat, disk |-> disk, tree |-> tree]

Becomes(v) == fat' = v.fat /\ disk' = v.disk /\ tree' = v.tree

Min2(a, b) == IF a < b THEN a ELSE b

------------------------------------------------------------------------------
(* fat_table.c *)

\* fat_table_get_next_cluster: what is no cluster number, a bad sector too, ends
\* the chain.
NextCluster(ft, c) == IF ft[c] \in Clusters THEN ft[c] ELSE EOC

\* fat_table_seek_cluster over whole chains: the clusters from c on.
Chain(ft, c) ==
  LET At[n \in 0 .. NumClusters] ==
        IF n = 0 THEN <<c>>
        ELSE LET ch == At[n - 1]
                 next == NextCluster(ft, ch[Len(ch)])
             IN  IF next = EOC THEN ch ELSE Append(ch, next)
  IN  At[NumClusters]

FreeClusters(ft) == { c \in Clusters : ft[c] = FREE }

\* fat_table_get_next_free_cluster, when there is one.
NextFree(ft) == CHOOSE c \in FreeClusters(ft) : \A d \in FreeClusters(ft) : c <= d

\* next_or_new_cluster, k times, past the end of the chain that ends in c.
Extend(ft, c, k) ==
  LET E[i \in 0 .. k] ==
        IF i = 0 THEN [fat |-> ft, last |-> c]
        ELSE LET e == E[i - 1]
                 new == NextFree(e.fat)
             IN  [fat |-> [e.fat EXCEPT ![e.last] = new, ![new] = EOC], last |-> new]
  IN  E[k].fat

\* Mutant: the chain is freed from its second cluster on.
FreeChain_ButFirst(ft, c) ==
  [d \in Clusters |-> IF d \in Range(Tail(Chain(ft, c))) THEN FREE ELSE ft[d]]

\* fat_file_free_clusters
FreeChain(ft, c) ==
  [d \in Clusters |-> IF d \in Range(Chain(ft, c)) THEN FREE ELSE ft[d]]

------------------------------------------------------------------------------
(* Directories: fat_file.c *)

\* A file in memory: its directory entry, its place in the parent and, for a
\* directory, nentries and children_read.
File(kind, start, size, pos) ==
  [there |-> TRUE, dir |-> kind = "dir", start |-> start, size |-> size, pos |-> pos,
   nentries |-> 0, read |-> FALSE]

Dentry(p, f) ==
  [kind |-> IF f.dir THEN "dir" ELSE "file", name |-> Last(p),
   start |-> f.start, size |-> f.size]

\* write_dir_entry: nothing is written past the first cluster of the parent.
WriteCell(dk, parent, pos, cell) ==
  IF pos < PerCluster THEN [dk EXCEPT ![parent.start][pos] = cell] ELSE dk

\* write_dir_entry(parent, file) for the file at p in the tree.
WriteEntry(v, p) ==
  [v EXCEPT !.disk = WriteCell(@, v.tree[DirOf(p)], v.tree[p].pos, Dentry(p, v.tree[p]))]

\* parse_dir_entries_in_cluster: nentries ends as the index of the first entry that
\* is zero, and as the last index when there is none.
DirEnd(cells) ==
  LET ends == { i \in Cells : cells[i].kind \in {"zero", "data"} }
  IN  IF ends = {} THEN PerCluster - 1 ELSE CHOOSE i \in ends : \A j \in ends : i <= j

IsEntry(cell) == cell.kind \in {"file", "dir"}

\* The positions of the entries that fat_file_read_children returns.
Entries(cells) ==
  { i \in Cells : IsEntry(cells[i])
                  /\ \A j \in 0 .. i : cells[j].kind \notin {"zero", "data"} }

\* fat_fuse_load_directory_children: h_tree_insert leaves out a file whose path is
\* in the tree already.
LoadChildren(v, d) ==
  LET cells == v.disk[v.tree[d].start]
      Named(p) == { i \in Entries(cells) : Append(d, cells[i].name) = p }
      FirstAt(p) == CHOOSE i \in Named(p) : \A j \in Named(p) : i <= j
  IN  [v EXCEPT !.tree =
        [p \in Paths |->
           IF p = d THEN [@[d] EXCEPT !.nentries = DirEnd(cells), !.read = TRUE]
           ELSE IF @[p].there \/ Named(p) = {} THEN @[p]
           ELSE LET c == cells[FirstAt(p)] IN File(c.kind, c.start, c.size, FirstAt(p))]]

\* fat_file_dentry_add_child, after fat_tree_insert: nentries grows even when the
\* entry was not written.
AddChild(v, p, file) ==
  LET d == v.tree[DirOf(p)]
      f == [file EXCEPT !.pos = d.nentries]
  IN  [v EXCEPT !.tree = [@ EXCEPT ![p] = f, ![DirOf(p)].nentries = @ + 1],
                !.disk = WriteCell(@, d, f.pos, Dentry(p, f))]

------------------------------------------------------------------------------
(* fat_file_pwrite, fat_fuse_log_activity *)

CeilDiv(n, m) == (n + m - 1) \div m

\* Where unit u of the file whose chain is ch is.
CellOf(ch, u) == <<ch[u \div PerCluster + 1], u % PerCluster>>

Filled(dk, cells, n) ==
  [c \in Clusters |-> [j \in Cells |-> IF <<c, j>> \in cells THEN Data(n) ELSE dk[c][j]]]

\* Mutant: a write that starts at the start of a cluster goes to the one before it.
WriteData_Boundary(dk, ch, o, e, n) ==
  LET back == IF o > 0 /\ o % PerCluster = 0 THEN PerCluster ELSE 0
  IN  Filled(dk, { CellOf(ch, u - back) : u \in o .. e - 1 }, n)

\* The units of the file whose chain is ch, from o to e - 1, get data of name n.
WriteData(dk, ch, o, e, n) == Filled(dk, { CellOf(ch, u) : u \in o .. e - 1 }, n)

\* Mutant: the new size does not reach the directory.
PWrite_KeepsEntry(v, p, n, o) ==
  LET f == v.tree[p]
      ch == Chain(v.fat, f.start)
      wanted == CeilDiv(o + n, PerCluster) - Len(ch)
      new == IF wanted <= 0 THEN 0 ELSE Min2(wanted, Cardinality(FreeClusters(v.fat)))
      ft == Extend(v.fat, ch[Len(ch)], new)
      end == Min2(o + n, (Len(ch) + new) * PerCluster)
      size == IF end > f.size THEN end ELSE f.size
  IN  [fat |-> ft, disk |-> WriteData(v.disk, Chain(ft, f.start), o, end, Last(p)),
       tree |-> [v.tree EXCEPT ![p].size = size]]

\* n units at offset o, which is not past the end: as many new clusters as are
\* needed and are free.  With nothing written at the start of a new cluster the
\* call fails before it writes the entry.
PWrite(v, p, n, o) ==
  LET f == v.tree[p]
      ch == Chain(v.fat, f.start)
      wanted == CeilDiv(o + n, PerCluster) - Len(ch)
      new == IF wanted <= 0 THEN 0 ELSE Min2(wanted, Cardinality(FreeClusters(v.fat)))
      ft == Extend(v.fat, ch[Len(ch)], new)
      end == Min2(o + n, (Len(ch) + new) * PerCluster)
      size == IF end > f.size THEN end ELSE f.size
  IN  IF end = o THEN v
      ELSE WriteEntry([fat |-> ft,
                       disk |-> WriteData(v.disk, Chain(ft, f.start), o, end, Last(p)),
                       tree |-> [v.tree EXCEPT ![p].size = size]], p)

\* fat_fuse_log_activity: a line at the end of the log.
LogActivity(v) == PWrite(v, Log, LogLine, v.tree[Log].size)

------------------------------------------------------------------------------
(* fat_fuse_init, with vigilante *)

\* search_bb_orphan_dir_cluster: the bad sectors that hold a directory with fs.log.
OrphanDirs(v) ==
  { c \in Clusters : /\ NextCluster(v.fat, c) = BAD
                     /\ \E i \in Entries(v.disk[c]) : v.disk[c][i].name = "fs.log" }

\* A new directory /bb in the first free cluster, marked as a bad sector, with its
\* entry in the root.  A /bb that the root had stays in the tree.
NewBB(v) ==
  LET b == NextFree(v.fat)
      new == AddChild([v EXCEPT !.fat[b] = BAD], BB, File("dir", b, 0, 0))
  IN  IF v.tree[BB].there THEN [new EXCEPT !.tree[BB] = v.tree[BB]] ELSE new

\* Its fs.log: the entry goes to the new directory, the parent is the /bb of the tree.
NewLog(v, b) ==
  LET c == NextFree(v.fat)
      f == File("file", c, 0, 0)
  IN  [fat |-> [v.fat EXCEPT ![c] = EOC],
       disk |-> [v.disk EXCEPT ![b][0] = Dentry(Log, f)],
       tree |-> [v.tree EXCEPT ![Log] = f,
                               ![BB].nentries = IF v.tree[BB].start = b THEN 1 ELSE @]]

\* The root as it is loaded.
LoadedRoot ==
  LoadChildren([Vol EXCEPT !.tree = [NoTree EXCEPT ![Root] = File("dir", 2, 0, 0)]], Root)

\* vigilante never finds a log: NextCluster is never BAD.  So every mount makes one,
\* and its branch that loads the log that was found is never taken.
Mount ==
  /\ ~mounted /\ OrphanDirs(LoadedRoot) = {}
  /\ Cardinality(FreeClusters(fat)) >= 2
  /\ Becomes(NewLog(NewBB(LoadedRoot), NextFree(fat)))
  /\ mounted' = TRUE

\* With no free cluster fat_file_init looks past the FAT and the process dies.  With
\* one, that is after /bb was made.
MountCrash ==
  /\ ~mounted /\ OrphanDirs(LoadedRoot) = {}
  /\ Cardinality(FreeClusters(fat)) = 1
  /\ Becomes([NewBB(LoadedRoot) EXCEPT !.tree = NoTree])
  /\ UNCHANGED mounted

\* fusermount -u, or the end of the process between two requests.
Unmount ==
  /\ mounted /\ mounted' = FALSE
  /\ tree' = NoTree
  /\ UNCHANGED <<fat, disk>>

------------------------------------------------------------------------------
(* The handlers.  Before any of them the kernel has looked up every directory of *)
(* the path, which loads them.  Bound: users leave /bb alone but read the log.   *)

Users == Dirs \cup Files

IsFile(p) == tree[p].there /\ ~tree[p].dir
IsDir(p) == tree[p].there /\ tree[p].dir

Loaded(p) == mounted /\ IsDir(DirOf(p)) /\ tree[DirOf(p)].read

LoadedFiles == { p \in Users : Loaded(p) /\ IsFile(p) }

\* fat_fuse_load_path in getattr, and readdir.
Load(d) ==
  /\ mounted /\ IsDir(d) /\ ~tree[d].read
  /\ Becomes(LoadChildren(Vol, d))
  /\ UNCHANGED mounted

\* mknod and mkdir.  Bound: one entry more than the directory holds.
Mknod(p) ==
  /\ Loaded(p) /\ ~tree[p].there
  /\ tree[DirOf(p)].nentries <= PerCluster
  /\ FreeClusters(fat) # {}
  /\ LET c == NextFree(fat)
     IN  Becomes(AddChild([Vol EXCEPT !.fat[c] = EOC], p,
                          File(IF p \in Dirs THEN "dir" ELSE "file", c, 0, 0)))
  /\ UNCHANGED mounted

\* On a full volume fat_file_init looks past the FAT and the process dies.
CreateCrash(p) ==
  /\ Loaded(p) /\ ~tree[p].there
  /\ FreeClusters(fat) = {}
  /\ mounted' = FALSE
  /\ tree' = NoTree
  /\ UNCHANGED <<fat, disk>>

Write(p, n, o) ==
  /\ o <= tree[p].size /\ o + n <= MaxSize
  /\ Becomes(LogActivity(PWrite(Vol, p, n, o)))
  /\ UNCHANGED mounted

\* fat_file_pread writes the entry back, with the new date, unless it reads nothing.
Read(p) ==
  /\ Loaded(p) /\ IsFile(p)
  /\ Becomes(LogActivity(IF tree[p].size > 0 THEN WriteEntry(Vol, p) ELSE Vol))
  /\ UNCHANGED mounted

\* utime
Touch(p) ==
  /\ Loaded(p) /\ tree[p].there
  /\ Becomes(WriteEntry(Vol, p))
  /\ UNCHANGED mounted

ClustersFor(size) == IF size = 0 THEN 1 ELSE CeilDiv(size, PerCluster)

\* Mutant: the clusters are freed and the size is not set.
Truncate_KeepsSize(p, n) ==
  /\ n <= tree[p].size /\ ClustersFor(n) < ClustersFor(tree[p].size)
  /\ LET ch == Chain(fat, tree[p].start)
         last == n \div PerCluster + 1
     IN  fat' = [c \in Clusters |-> IF c = ch[last] THEN EOC
                                    ELSE IF \E i \in DOMAIN ch : i > last /\ ch[i] = c
                                    THEN FREE ELSE fat[c]]
  /\ UNCHANGED <<disk, tree, mounted>>

\* truncate: nothing is done when as many clusters are needed as before.  The cluster
\* of offset n becomes the last one.
Truncate(p, n) ==
  /\ n <= tree[p].size /\ ClustersFor(n) < ClustersFor(tree[p].size)
  /\ LET ch == Chain(fat, tree[p].start)
         last == n \div PerCluster + 1
         ft == [c \in Clusters |-> IF c = ch[last] THEN EOC
                                   ELSE IF \E i \in DOMAIN ch : i > last /\ ch[i] = c
                                   THEN FREE ELSE fat[c]]
     IN  Becomes(WriteEntry([fat |-> ft, disk |-> disk,
                             tree |-> [tree EXCEPT ![p].size = n]], p))
  /\ UNCHANGED mounted

\* Mutant: the entry stays on disk.
Removed_KeepsEntry(v, p) ==
  [fat |-> FreeChain(v.fat, v.tree[p].start),
   disk |-> v.disk,
   tree |-> [v.tree EXCEPT ![p] = Absent]]

\* The file at p is gone from the FAT, its directory and the tree.
Removed(v, p) ==
  [fat |-> FreeChain(v.fat, v.tree[p].start),
   disk |-> WriteCell(v.disk, v.tree[DirOf(p)], v.tree[p].pos, Ignored),
   tree |-> [v.tree EXCEPT ![p] = Absent]]

UnlinkFile(p) ==
  /\ Becomes(Removed(Vol, p))
  /\ UNCHANGED mounted

\* The files that rmdir finds in the directory on disk and in the tree.
Listed(d) ==
  { p \in Inside : /\ DirOf(p) = d /\ tree[p].there
                   /\ \E i \in Entries(disk[tree[d].start]) :
                        disk[tree[d].start][i].name = Last(p) }

\* rmdir removes what it lists, then the directory.  What stays in the tree below it
\* points to freed memory: the model ends the process there.
Rmdir(d) ==
  /\ Loaded(d) /\ IsDir(d)
  /\ LET gone == FoldSet(LAMBDA p, v : Removed(v, p), Vol, Listed(d))
         v == Removed(gone, d)
         left == \E p \in Inside : DirOf(p) = d /\ v.tree[p].there
     IN  /\ fat' = v.fat /\ disk' = v.disk
         /\ tree' = IF left THEN NoTree ELSE v.tree
         /\ mounted' = ~left

Request ==
  \/ \E p \in Users :
       Mknod(p) \/ CreateCrash(p) \/ Touch(p)
  \/ \E p \in LoadedFiles :
       \/ UnlinkFile(p) \/ Read(p)
       \/ \E n \in WriteSizes, o \in 0 .. MaxSize : Write(p, n, o)
       \/ \E n \in 0 .. MaxSize : Truncate(p, n)
  \/ Read(Log)
  \/ \E d \in Dirs : Rmdir(d) \/ Load(d)
  \/ Load(BB)

FatNext == Mount \/ MountCrash \/ Unmount \/ Request

FatSpec == FatInit /\ [][FatNext]_fatVars

------------------------------------------------------------------------------

Present == { p \in Paths : tree[p].there }

\* The chains of the files in memory are sound: no cluster is in two of them or free.
ChainsDisjoint ==
  LET held == [p \in Present |-> Range(Chain(fat, tree[p].start))] IN
  \A p \in Present : /\ held[p] \cap FreeClusters(fat) = {}
                     /\ \A q \in Present \ {p} : held[p] \cap held[q] = {}

\* A file is never longer than its chain.
SizeFits ==
  \A p \in Present :
    tree[p].size <= Len(Chain(fat, tree[p].start)) * PerCluster

\* Every unit of a file of a user and of the log, up to its size, holds data that were
\* written to it: no directory entry and no data of another file.
DataKept ==
  \A p \in Users \cup {Log} : tree[p].there =>
    LET ch == Chain(fat, tree[p].start) IN
    \A u \in 0 .. tree[p].size - 1 :
      disk[CellOf(ch, u)[1]][CellOf(ch, u)[2]] = Data(Last(p))

\* The directory with first cluster c has no room after its entries.
Full(c) == \A i \in Cells : disk[c][i].kind \notin {"zero", "data"}

\* Memory and image agree: while a directory has room, the entry of every file of a
\* user in it is on disk as it is in memory.
Mirrored ==
  \A p \in Users :
    tree[p].there =>
      LET d == tree[DirOf(p)].start IN
      Full(d) \/ (tree[p].pos \in Cells /\ disk[d][tree[p].pos] = Dentry(p, tree[p]))

\* The volume and the tree are right: no cluster is in two chains, files fit their chains
\* and hold their own data, and the image has what memory has.
FatRight == ChainsDisjoint /\ SizeFits /\ DataKept /\ Mirrored

\* The entries that a directory with first cluster c has on disk.
Listing(c) == { disk[c][i] : i \in Entries(disk[c]) }

\* The first clusters of the directories, in memory or in the root on disk.
DirClusters ==
  {2} \cup { tree[p].start : p \in { q \in Present : tree[q].dir } }
      \cup { e.start : e \in { x \in Listing(2) : x.kind = "dir" } }

\* Files, by their first clusters, with those listed in the directories among them.
WithListed(starts) ==
  starts \cup UNION { { e.start : e \in Listing(c) } : c \in starts \cap DirClusters }

\* The clusters of their chains.
ClustersOf(starts) ==
  LET Within[n \in 0 .. NumClusters] ==
        IF n = 0 THEN starts
        ELSE UNION { {c, NextCluster(fat, c)} \ {EOC} : c \in Within[n - 1] }
  IN  Within[NumClusters]

\* The clusters of the files in memory and of those that can be reached on disk from
\* the root, as the next mount will.
Held == ClustersOf(WithListed(DirClusters) \cup { tree[p].start : p \in Present })

\* The places of a file p in memory, and of the next file of a directory d.
PlaceOf(p) == <<tree[DirOf(p)].start, tree[p].pos>>

NextPlace(d) ==
  IF mounted THEN <<tree[d].start, tree[d].nentries>> ELSE <<2, DirEnd(disk[2])>>

StartsAt(place) ==
  { disk[place[1]][i].start : i \in { j \in Cells : j = place[2] /\ IsEntry(disk[place[1]][j]) } }

\* The files, by their first clusters, that have no place of their own in a full directory
\* or in /bb, where a log shares it with that of an earlier mount: those in memory with
\* none or with the entry of another in it, those on disk with such an entry or one that
\* the next file will overwrite, and what is in such directories.
Displaced ==
  LET unwritten == { p \in Present \ {Root} : /\ p = Log \/ Full(tree[DirOf(p)].start)
                                            /\ tree[p].start \notin StartsAt(PlaceOf(p)) }
      places == { PlaceOf(p) : p \in unwritten }
                  \cup { NextPlace(d) : d \in {Root} \cup { q \in Dirs : IsDir(q) } }
  IN  WithListed({ tree[p].start : p \in unwritten } \cup UNION { StartsAt(l) : l \in places })

\* The clusters that are free after a step of the file system.
FreeNow == FreeClusters(fat')

\* The files of a directory that was removed and had not been read into memory.
Unread ==
  UNION { { e.start : e \in Listing(tree[d].start) } :
            d \in { q \in Dirs : IsDir(q) /\ ~tree[q].read /\ tree[q].start \in FreeNow } }

\* No step strands a cluster, over requests, mounts, unmounts and ends of the process,
\* full volume or not: what was free or of a file that could be reached, in memory or
\* on disk, is free or of such a file after it.  Two kinds of file lose theirs in the
\* code: one that has no place of its own in its directory (fat_file.c:317 and 388), and
\* one in a directory that rmdir removes unread.
NothingStranded ==
  [][\A c \in (FreeClusters(fat) \cup Held) \ (FreeNow \cup Held') :
       c \in ClustersOf(Displaced \cup Unread)]_fatVars

\* A mount makes a log only on a volume that has none.
OneLog ==
  [][mounted' /\ ~mounted =>
       ~ \E c \in Clusters : fat[c] = BAD
           /\ \E i \in Entries(disk[c]) : disk[c][i].name = "fs.log"]_fatVars

==============================================================================
