------------------------------- MODULE MCHTree -------------------------------
EXTENDS HTree

\* "/", "/d", "/d/f", "/d/g" and three more files of the root.
MCKeys == 1 .. 7
MCParentOf == <<0, 1, 2, 2, 1, 1, 1>>

==============================================================================
