------------------------------ MODULE AtomicDisk ------------------------------
(***************************************************************************)
(* What the log of the file system promises.  Between begin_op and end_op  *)
(* an operation changes blocks of the current disk; at some instant when   *)
(* no operation is active all changes made so far become durable together; *)
(* a crash brings the disk back to what was durable, never to a part of an *)
(* operation.                                                              *)
(***************************************************************************)
CONSTANTS Procs, Blocks, Vals

VARIABLES
  current,    \* what operations read and write
  durable,    \* what a crash leaves
  active      \* the processes between begin_op and end_op

diskVars == <<current, durable, active>>

Init ==
  /\ durable \in [Blocks -> Vals]
  /\ current = durable
  /\ active = {}

Begin(p) ==
  /\ p \notin active
  /\ active' = active \cup {p}
  /\ UNCHANGED <<current, durable>>

Write(p, b, v) ==
  /\ p \in active
  /\ current' = [current EXCEPT ![b] = v]
  /\ UNCHANGED <<durable, active>>

End(p) ==
  /\ p \in active
  /\ active' = active \ {p}
  /\ UNCHANGED <<current, durable>>

Commit ==
  /\ active = {}
  /\ durable' = current
  /\ UNCHANGED <<current, active>>

Crash ==
  /\ current' = durable
  /\ active' = {}
  /\ durable' = durable

Next ==
  \/ \E p \in Procs :
       \/ Begin(p) \/ End(p)
       \/ \E b \in Blocks, v \in Vals : Write(p, b, v)
  \/ Commit \/ Crash

Spec == Init /\ [][Next]_diskVars

==============================================================================
