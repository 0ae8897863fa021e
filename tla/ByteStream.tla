----------------------------- MODULE ByteStream -----------------------------
(***************************************************************************)
(* What a pipe promises to the processes that use it: a stream of bytes    *)
(* that come out in the order they went in, writes and reads that return   *)
(* the number of bytes they moved, the end of the stream only when the     *)
(* writers are gone and every byte is read, and a failed write only when   *)
(* the readers are gone or the writer is being killed.  The pipe of a call *)
(* stays as long as the call.                                              *)
(***************************************************************************)
EXTENDS Integers, Sequences

CONSTANTS Procs, NoProc, Pages, NoPage, Capacity

VARIABLES
  stream,  \* the bytes in the pipe that a page holds
  ends,    \* which of its ends are open
  call,    \* the read or write a process is in, on what pipe: what it has left to
           \* write, how much it has moved so far, how much it asks for
  out,     \* the call that has just returned: whose, its result, the bytes it read
  killed   \* who is being killed

streamVars == <<stream, ends, call, out, killed>>

Idle == [op |-> "none", on |-> NoPage, left |-> <<>>, moved |-> 0, asked |-> 0]

Init ==
  /\ stream = [g \in Pages |-> <<>>] /\ ends = [g \in Pages |-> {}]
  /\ call = [p \in Procs |-> Idle] /\ killed = {}

Returns(p, r, bytes) == out' = [proc |-> p, ret |-> r, got |-> bytes]

\* The read or write of p is over and has this result.
Over(p, r, bytes) == call' = [call EXCEPT ![p] = Idle] /\ Returns(p, r, bytes)

\* No read or write returns.
NoResult == out'.got = <<>> /\ \A p \in Procs : out'.proc = p => call[p] = Idle

\* Pipes are made, and their ends closed, by other calls.
Make(g) ==
  /\ ends[g] = {} /\ ends' = [ends EXCEPT ![g] = {"read", "write"}]
  /\ stream' = [stream EXCEPT ![g] = <<>>]
  /\ UNCHANGED call /\ NoResult

CloseEnd(g) ==
  /\ \E e \in ends[g] :
       /\ ends' = [ends EXCEPT ![g] = @ \ {e}]
       /\ stream' = [stream EXCEPT ![g] = IF ends[g] = {e} THEN <<>> ELSE @]
  /\ UNCHANGED call /\ NoResult

\* A process calls read or write on a pipe whose end it has open.
Call(p) ==
  /\ call[p] = Idle
  /\ LET c == call'[p] IN
       /\ c.on \in Pages /\ c.op \in {"read", "write"} \cap ends[c.on] /\ c.moved = 0
       /\ call' = [call EXCEPT ![p] = c]
  /\ UNCHANGED <<stream, ends>> /\ NoResult

\* A write puts the first k bytes it has left in.  It waits in the end because the pipe
\* is full, or returns what it has put in, or fails.
WriteStep(p) ==
  LET c == call[p]
      g == c.on
  IN
  /\ c.op = "write" /\ c.op \in ends[g] /\ UNCHANGED ends
  /\ \E k \in 0 .. Len(c.left) :
       /\ Len(stream[g]) + k <= Capacity
       /\ k > 0 => "read" \in ends[g]
       /\ stream' = [stream EXCEPT ![g] = @ \o SubSeq(c.left, 1, k)]
       /\ \/ /\ k < Len(c.left) /\ Len(stream[g]) + k = Capacity
             /\ call' = [call EXCEPT ![p].left = SubSeq(@, k + 1, Len(@)), ![p].moved = @ + k]
             /\ NoResult
          \/ Over(p, c.moved + k, <<>>)
          \/ Over(p, -1, <<>>) /\ ("read" \notin ends[g] \/ p \in killed')

\* A read returns bytes from the front of the stream, nothing only at its end or when it
\* asks for nothing; when the reader's buffer is bad at a byte, that byte is lost and the
\* read stops before it.  It fails only when it would have to wait.
ReadStep(p) ==
  LET c == call[p]
      s == stream[c.on]
  IN
  /\ c.op = "read" /\ c.op \in ends[c.on] /\ UNCHANGED ends
  /\ \/ \E k \in 0 .. Len(s), r \in 0 .. Len(s) :
          /\ k <= c.asked /\ r \in {k - 1, k}
          /\ k = 0 => c.asked = 0 \/ (s = <<>> /\ "write" \notin ends[c.on])
          /\ stream' = [stream EXCEPT ![c.on] = SubSeq(@, k + 1, Len(@))]
          /\ Over(p, r, SubSeq(s, 1, r))
     \/ /\ s = <<>> /\ "write" \in ends[c.on] /\ p \in killed'
        /\ Over(p, -1, <<>>) /\ UNCHANGED stream

\* Everything else that processes do: no read or write begins or ends, no byte moves.
Other == UNCHANGED <<stream, ends, call>> /\ NoResult

Next ==
  \/ Other
  \/ \E g \in Pages : Make(g) \/ CloseEnd(g)
  \/ \E p \in Procs : Call(p) \/ WriteStep(p) \/ ReadStep(p)

Spec == Init /\ [][Next]_streamVars

=============================================================================
