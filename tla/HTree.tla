-------------------------------- MODULE HTree --------------------------------
(***************************************************************************)
(* The tree of the files in memory (hierarchy_tree.c, under fat_fs_tree.c):*)
(* a binary search tree by path whose nodes are also linked as a hierarchy,*)
(* a directory to its newest child and each child to the one before it.    *)
(*                                                                         *)
(* A node is named by its key, which stays with it: delete moves nodes,    *)
(* not data.  FUSE runs one request at a time, so a call is one step.      *)
(***************************************************************************)
EXTENDS Integers, FiniteSets, SequencesExt

CONSTANTS
  Keys,       \* the paths, as numbers in the order of strcmp
  ParentOf    \* the directory of each path, NULL for the root's

NULL == 0
FREED == -1  \* a pointer to memory that was freed

ASSUME HTreeAssumption ==
  /\ Keys \subseteq Nat \ {NULL} /\ IsFiniteSet(Keys)
  /\ ParentOf \in [Keys -> Keys \cup {NULL}]

VARIABLES
  root,         \* the node at the top of the search tree
  left, right,  \* its subtrees
  size,         \* size, in a node
  h_parent, h_next_sibling, h_children,
  up            \* FALSE once the process has died

treeVars == <<root, left, right, size, h_parent, h_next_sibling, h_children, up>>

NoLinks == [k \in Keys |-> NULL]

TreeInit ==
  /\ root = NULL
  /\ left = NoLinks /\ right = NoLinks
  /\ size = [k \in Keys |-> 0]
  /\ h_parent = NoLinks /\ h_next_sibling = NoLinks /\ h_children = NoLinks
  /\ up = TRUE

\* The nodes that h_tree_search(key) visits: key is found when it is the last one.
Path(key) ==
  LET At[n \in 0 .. Cardinality(Keys)] ==
        IF n = 0 THEN root
        ELSE LET m == At[n - 1]
             IN  IF m \in {key, NULL} THEN NULL ELSE IF m < key THEN right[m] ELSE left[m]
      len == Cardinality({ n \in 0 .. Cardinality(Keys) : At[n] # NULL })
  IN  [i \in 1 .. len |-> At[i - 1]]

InTree(key) == LET p == Path(key) IN p # <<>> /\ Last(p) = key

\* update_size of a node, and of every node of a path from the last to the first.
SizeOf(sz, n) == IF n = NULL THEN 0 ELSE sz[n]

UpdateSize(l, r, sz, n) == [sz EXCEPT ![n] = 1 + SizeOf(sz, l[n]) + SizeOf(sz, r[n])]

UpdateSizes(l, r, sz, path) ==
  FoldRight(LAMBDA n, s : UpdateSize(l, r, s, n), path, sz)

------------------------------------------------------------------------------

\* h_node_init: the new node is the first of the children of its parent.
Born(k) ==
  LET p == ParentOf[k] IN
  /\ h_parent' = [h_parent EXCEPT ![k] = p]
  /\ h_children' = [c \in Keys |-> IF c = k THEN NULL
                                   ELSE IF c = p THEN k ELSE h_children[c]]
  /\ h_next_sibling' = [h_next_sibling EXCEPT
                          ![k] = IF p = NULL THEN NULL ELSE h_children[p]]

\* Mutant: the sizes on the way down are not updated.
Insert_KeepsSizes(k) ==
  LET path == Path(k)
      at == IF path = <<>> THEN NULL ELSE Last(path)
      l == [n \in Keys |-> IF n = k THEN NULL ELSE IF n = at /\ k < at THEN k ELSE left[n]]
      r == [n \in Keys |-> IF n = k THEN NULL ELSE IF n = at /\ k > at THEN k ELSE right[n]]
  IN  /\ up /\ ~InTree(k)
      /\ ParentOf[k] = NULL \/ InTree(ParentOf[k])
      /\ left' = l /\ right' = r
      /\ root' = IF at = NULL THEN k ELSE root
      /\ size' = [size EXCEPT ![k] = 1]
      /\ Born(k)
      /\ UNCHANGED up

\* h_tree_insert of a path that is not in the tree and whose directory is.
Insert(k) ==
  LET path == Path(k)
      at == IF path = <<>> THEN NULL ELSE Last(path)
      l == [n \in Keys |-> IF n = k THEN NULL ELSE IF n = at /\ k < at THEN k ELSE left[n]]
      r == [n \in Keys |-> IF n = k THEN NULL ELSE IF n = at /\ k > at THEN k ELSE right[n]]
  IN  /\ up /\ ~InTree(k)
      /\ ParentOf[k] = NULL \/ InTree(ParentOf[k])
      /\ left' = l /\ right' = r
      /\ root' = IF at = NULL THEN k ELSE root
      /\ size' = UpdateSizes(l, r, [size EXCEPT ![k] = 1], path)
      /\ Born(k)
      /\ UNCHANGED up

\* Mutant: a child that is not the first one stays in the list.
RemoveChildFromH_First(k) ==
  /\ h_children' = [h_children EXCEPT ![h_parent[k]] = IF @ = k THEN h_next_sibling[k] ELSE @,
                                      ![k] = NULL]
  /\ h_next_sibling' = [h_next_sibling EXCEPT ![k] = NULL]

\* remove_child_from_h, of a node that is freed then: its parent or the child before it
\* in the list now points to the next one.
RemoveChildFromH(k) ==
  /\ h_children' = [h_children EXCEPT ![h_parent[k]] = IF @ = k THEN h_next_sibling[k] ELSE @,
                                      ![k] = NULL]
  /\ h_next_sibling' = [n \in Keys |-> IF n = k THEN NULL
                                       ELSE IF h_next_sibling[n] = k THEN h_next_sibling[k]
                                       ELSE h_next_sibling[n]]

\* Mutant: the right child that takes the place of the node loses the left subtree.
Successor_DropsLeft(k) ==
  IF left[k] = NULL THEN [top |-> right[k], left |-> left, moved |-> FALSE]
  ELSE IF right[k] = NULL THEN [top |-> left[k], left |-> left, moved |-> FALSE]
  ELSE [top |-> right[k], left |-> left, moved |-> TRUE]

\* delete_root without the case of a right child that has a left child: the node that
\* takes the place of k, and the left links then.
Successor(k) ==
  IF left[k] = NULL THEN [top |-> right[k], left |-> left, moved |-> FALSE]
  ELSE IF right[k] = NULL THEN [top |-> left[k], left |-> left, moved |-> FALSE]
  ELSE [top |-> right[k], left |-> [left EXCEPT ![right[k]] = left[k]], moved |-> TRUE]

\* In that case delete_root destroys the file, swaps nodes and calls itself on the
\* same node, whose file it destroys again.
DestroyedTwice(k) == left[k] # NULL /\ right[k] # NULL /\ left[right[k]] # NULL

\* remove_child_from_h starts from h_parent.
Dereferenced(k) == h_parent[k] # FREED

\* h_tree_delete; fat_fuse_unlink and fat_fuse_rmdir never delete the root of the
\* hierarchy.  rmdir unlinks only what it reads of the directory's cluster, so the node
\* may have children: they stay in the search tree, and their h_parent is freed memory.
Delete(k) ==
  LET s == Successor(k)
      above == Front(Path(k))
      at == IF above = <<>> THEN NULL ELSE Last(above)
      l == [n \in Keys |-> IF n = k THEN NULL ELSE IF n = at /\ k < at THEN s.top ELSE s.left[n]]
      r == [n \in Keys |-> IF n = k THEN NULL ELSE IF n = at /\ k > at THEN s.top ELSE right[n]]
  IN  /\ up /\ InTree(k) /\ h_parent[k] # NULL
      /\ Dereferenced(k) /\ ~DestroyedTwice(k)
      /\ root' = IF at = NULL THEN s.top ELSE root
      /\ left' = l /\ right' = r
      /\ size' = UpdateSizes(l, r, [size EXCEPT ![k] = 0],
                             IF s.moved THEN Append(above, s.top) ELSE above)
      /\ RemoveChildFromH(k)
      /\ h_parent' = [n \in Keys |-> IF n = k THEN NULL
                                     ELSE IF h_parent[n] = k THEN FREED ELSE h_parent[n]]
      /\ UNCHANGED up

\* The file of the node is destroyed a second time, through pointers read from freed
\* memory, or the parent of the node was freed: the model ends the process there.
DeleteAbort(k) ==
  /\ up /\ InTree(k) /\ h_parent[k] # NULL
  /\ ~Dereferenced(k) \/ DestroyedTwice(k)
  /\ up' = FALSE
  /\ UNCHANGED <<root, left, right, size, h_parent, h_next_sibling, h_children>>

TreeNext == \E k \in Keys : Insert(k) \/ Delete(k) \/ DeleteAbort(k)

TreeSpec == TreeInit /\ [][TreeNext]_treeVars

------------------------------------------------------------------------------

\* The nodes of the search tree below n, n too.
Subtree(n) ==
  LET B[i \in 0 .. Cardinality(Keys)] ==
        IF i = 0 THEN {n} \ {NULL}
        ELSE LET b == B[i - 1]
             IN  (b \cup { left[m] : m \in b } \cup { right[m] : m \in b }) \ {NULL}
  IN  B[Cardinality(Keys)]

Nodes == Subtree(root)

\* The files of a directory, as h_tree_flatten_h_children lists them.
Children(d) ==
  LET At[n \in 0 .. Cardinality(Keys)] ==
        IF n = 0 THEN h_children[d]
        ELSE LET m == At[n - 1] IN IF m = NULL THEN NULL ELSE h_next_sibling[m]
      len == Cardinality({ n \in 0 .. Cardinality(Keys) : At[n] # NULL })
  IN  [i \in 1 .. len |-> At[i - 1]]

TheFiles == INSTANCE FileSet WITH files <- Nodes

\* The size of every node is that of the subtree below it: the arrays that are made for
\* the nodes are long enough.
SizeRight == \A n \in Nodes : size[n] = Cardinality(Subtree(n))

\* The list of children of a directory holds each of its files in the tree once and
\* nothing else, no file that was deleted above all.  What a directory deleted under the
\* same path has left in the tree is not among them: readdir does not show it.
ChildrenRight ==
  \A d \in Nodes :
    /\ ToSet(Children(d)) = { n \in Nodes : h_parent[n] = d }
    /\ IsInjective(Children(d))

\* The tree is a set of files: an insert adds one and a delete takes that one away.
IsSetOfFiles == TheFiles!Spec

==============================================================================
