------------------------------ MODULE MCMemory ------------------------------
EXTENDS Memory

Segment(v, f, s) == [vaddr |-> v, filesz |-> f, memsz |-> s]
MCDeltas == {3, -1, -3}
MCPrograms == {<<Segment(0, 1, 1)>>, <<Segment(0, 1, 1), Segment(1, 1, 1)>>}
==============================================================================
