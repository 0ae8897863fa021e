------------------------------ MODULE Components ------------------------------
(***************************************************************************)
(* Seven parts of the labs, each with a state of its own, checked side by  *)
(* side: a behaviour is one of the part that it begins with.               *)
(***************************************************************************)
EXTENDS MCInodes, Blocks, MCMemory, FatFs, MCHTree, ShParser, Umalloc

VARIABLE part

Parts == {"inodes", "blocks", "memory", "fat", "tree", "parser", "heap"}

ComponentsInit ==
  /\ part \in Parts
  /\ Init /\ BlocksInit /\ MemoryInit /\ FatInit /\ TreeInit /\ ParserInit /\ HeapInit
  /\ part # "fat" => fat = EmptyImage.fat

ComponentsNext ==
  /\ UNCHANGED part
  /\ \/ /\ part = "inodes" /\ Next
        /\ UNCHANGED <<blocksVars, memoryVars, fatVars, treeVars, text, heapVars>>
     \/ /\ part = "blocks" /\ BlocksNext
        /\ UNCHANGED <<vars, memoryVars, fatVars, treeVars, text, heapVars>>
     \/ /\ part = "memory" /\ MemoryNext
        /\ UNCHANGED <<vars, blocksVars, fatVars, treeVars, text, heapVars>>
     \/ /\ part = "fat" /\ FatNext
        /\ UNCHANGED <<vars, blocksVars, memoryVars, treeVars, text, heapVars>>
     \/ /\ part = "tree" /\ TreeNext
        /\ UNCHANGED <<vars, blocksVars, memoryVars, fatVars, text, heapVars>>
     \/ /\ part = "parser" /\ ParserNext
        /\ UNCHANGED <<vars, blocksVars, memoryVars, fatVars, treeVars, heapVars>>
     \/ /\ part = "heap" /\ HeapNext
        /\ UNCHANGED <<vars, blocksVars, memoryVars, fatVars, treeVars, text>>

ComponentsSpec ==
  ComponentsInit
    /\ [][ComponentsNext]_<<part, vars, blocksVars, memoryVars, fatVars, treeVars, text,
                           heapVars>>

-------------------------------------------------------------------------------
(* What each part promises, asked where that part runs. *)

\* Inodes: no reference or link is lost or invented on any path of a call, no inode is
\* used after it was freed, and no process waits for a lock that waits for it.
InodesRight ==
  part = "inodes" =>
    RefsExact /\ LinksExact /\ NoPanic /\ PutNeverBlocks /\ NoDeadlock

\* Blocks: each is marked and owned exactly once, also after a write that found the disk
\* full, and a file reads as what was written to it.
BlocksRight == part = "blocks" => BitmapExact /\ ReadsBack

\* Memory: each page has one owner, also after calls that failed for want of memory, and
\* a process finds there what it has put there, its parent had, or zeroes.
MemoryRight == part = "memory" => PagesExact /\ MemoryPrivate

\* Tree: the sizes in the nodes and the lists of children are right.
TreeRight == part = "tree" => SizeRight /\ ChildrenRight

\* Tree: every insert and delete is one of a set of files.
TreeIsSet == TheFiles!Init /\ [][part = "tree" => TheFiles!Next]_Nodes

\* Parser of the shell: each line is taken as it is meant, or refused.
ParserRight == part = "parser" => ParsesRight

\* malloc: the heap is partitioned into blocks, the free ones in a ring.
HeapRight == part = "heap" => HeapExact

==============================================================================
