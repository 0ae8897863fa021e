-------------------------------- MODULE FileSet --------------------------------
(***************************************************************************)
(* What a fat_tree promises: a set of files.  A file is put into a         *)
(* directory of the set; a directory may be taken away before its files.   *)
(***************************************************************************)
CONSTANTS Keys, ParentOf

VARIABLE files

Init == files = {}

Insert(k) ==
  /\ k \notin files
  /\ ParentOf[k] \in files \/ ParentOf[k] \notin Keys
  /\ files' = files \cup {k}

Delete(k) ==
  /\ k \in files
  /\ files' = files \ {k}

Next == \E k \in Keys : Insert(k) \/ Delete(k)

Spec == Init /\ [][Next]_files

================================================================================
