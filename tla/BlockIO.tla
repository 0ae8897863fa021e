------------------------------- MODULE BlockIO -------------------------------
(***************************************************************************)
(* Disk blocks in xv6: the buffer cache (kernel/bio.c), its sleep locks    *)
(* (kernel/sleeplock.c) and the virtio disk driver below it                *)
(* (kernel/virtio_disk.c) with its descriptors, rings and interrupt.       *)
(*                                                                         *)
(* A step is a critical section of bcache.lock, of the spin lock of a sleep*)
(* lock or of vdisk_lock; only the interrupt handler's section is cut, as  *)
(* the device works on while it runs.  A process has one buffer at a time, *)
(* and writes what it changed to the disk or pins it, as the log does.     *)
(***************************************************************************)
EXTENDS Integers, FiniteSets, FiniteSetsExt, SequencesExt

CONSTANTS
  Procs,
  NBUF,     \* number of buffers
  Blocks,   \* the blocks of the disk
  Data,     \* what a block can hold
  Changing, \* bound: the blocks that get changed
  NUM,      \* number of descriptors, size of the rings
  UINT16    \* one more than the largest index of a ring, a multiple of NUM

Bufs == 1 .. NBUF
Descs == 0 .. NUM - 1
None == -1

ASSUME BlockIOAssumption ==
  /\ NBUF \in Nat \ {0} /\ NUM \in Nat /\ NUM > 2 /\ UINT16 \in Nat \ {0} /\ UINT16 % NUM = 0
  /\ IsFiniteSet(Procs) /\ None \notin Procs /\ None \notin Blocks /\ Data # {}

VARIABLES
  disk,    \* the blocks on the disk
  buf,     \* struct buf but its lock: block, valid, refcnt, data, disk
  lru,     \* bcache's list, most recently used first
  lock,    \* who holds the sleep lock of a buffer
  pc,      \* what a process is doing
  at,      \* the buffer it does it with
  chan,    \* what it sleeps on
  desc,    \* the descriptors: free, or what is next in their chain
  req,     \* ops[i] and info[i]: the request whose chain begins at i
  avail,   \* ring and index of the requests made
  seen,    \* how far the device has read them
  work,    \* requests the device has in hand
  used,    \* ring and index of the requests done
  used_idx,\* how far the driver has read them
  irq,     \* the device asks for an interrupt
  intr,    \* the interrupt handler holds vdisk_lock
  latest,  \* history: what was last put into a block
  pinned   \* history: the buffers that are pinned

cache == <<buf, lru, lock>>
ring == <<desc, req, avail, used_idx, intr>>
device == <<disk, seen, work, used>>
vars == <<cache, pc, at, chan, ring, device, irq, latest, pinned>>

NoRequest == [buf |-> None, write |-> FALSE, block |-> None]
FreeDesc == [free |-> TRUE, next |-> None]
NoRing == [ring |-> [i \in Descs |-> None], idx |-> 0]

Init ==
  /\ disk = [n \in Blocks |-> CHOOSE d \in Data : TRUE] /\ latest = disk
  /\ buf = [b \in Bufs |-> [block |-> None, valid |-> FALSE, refcnt |-> 0,
                           data |-> CHOOSE d \in Data : TRUE, disk |-> FALSE]]
  /\ lru = [i \in 1 .. NBUF |-> NBUF + 1 - i] /\ lock = [b \in Bufs |-> None]
  /\ pc = [p \in Procs |-> "idle"] /\ at = [p \in Procs |-> None]
  /\ chan = [p \in Procs |-> <<>>]
  /\ desc = [i \in Descs |-> FreeDesc] /\ req = [i \in Descs |-> NoRequest]
  /\ avail = NoRing /\ seen = 0 /\ work = {} /\ used = NoRing /\ used_idx = 0
  /\ irq = FALSE /\ intr = FALSE /\ pinned = {}

At(p, l) == pc[p] = l /\ chan[p] = <<>>
Goto(p, l) == pc' = [pc EXCEPT ![p] = l]

\* wakeup, and a sleep of p that follows it.
Woken(c) == [p \in Procs |-> IF chan[p] = c THEN <<>> ELSE chan[p]]
Sleep(p, c) == chan' = [chan EXCEPT ![p] = c]

------------------------------------------------------------------------------
(* bget and the sleep lock *)

Cached(n) == { b \in Bufs : buf[b].block = n }
Unused == { i \in 1 .. NBUF : buf[lru[i]].refcnt = 0 }

\* Mutant: a recycled buffer keeps its valid flag.
Recycled_Valid(b, n) == [b EXCEPT !.block = n, !.refcnt = 1]

Recycled(b, n) == [b EXCEPT !.block = n, !.valid = FALSE, !.refcnt = 1]

\* The block's buffer, or else the least recently used one that nobody uses.
Bget(p, n) ==
  /\ At(p, "idle")
  /\ \E b \in Bufs :
       /\ at' = [at EXCEPT ![p] = b]
       /\ \/ b \in Cached(n) /\ buf' = [buf EXCEPT ![b].refcnt = @ + 1]
          \/ /\ Cached(n) = {} /\ Unused # {} /\ b = lru[Max(Unused)]
             /\ buf' = [buf EXCEPT ![b] = Recycled(@, n)]
  /\ Goto(p, "lock")
  /\ UNCHANGED <<lru, lock, chan, ring, device, irq, latest, pinned>>

\* acquiresleep; then bread reads the block if the buffer has not got it.
AcquireSleep(p) ==
  /\ At(p, "lock")
  /\ IF lock[at[p]] = None
     THEN /\ lock' = [lock EXCEPT ![at[p]] = p]
          /\ Goto(p, IF buf[at[p]].valid THEN "have" ELSE "read")
          /\ UNCHANGED chan
     ELSE Sleep(p, <<"lock", at[p]>>) /\ UNCHANGED <<lock, pc>>
  /\ UNCHANGED <<buf, lru, at, ring, device, irq, latest, pinned>>

ReleaseSleep(p) ==
  /\ lock' = [lock EXCEPT ![at[p]] = None]
  /\ chan' = Woken(<<"lock", at[p]>>)

\* What was changed is on the disk, or pinned.
Saved(b) == b \in pinned \/ buf[b].data = disk[buf[b].block]

\* brelse: the lock first, then the count, under bcache.lock.
Brelse(p) ==
  /\ At(p, "have") /\ Saved(at[p])
  /\ ReleaseSleep(p)
  /\ Goto(p, "unref")
  /\ UNCHANGED <<buf, lru, at, ring, device, irq, latest, pinned>>

Unref(p) ==
  /\ At(p, "unref")
  /\ buf' = [buf EXCEPT ![at[p]].refcnt = @ - 1]
  /\ lru' = IF buf'[at[p]].refcnt > 0 THEN lru
            ELSE <<at[p]>> \o RemoveFirst(lru, at[p])
  /\ at' = [at EXCEPT ![p] = None] /\ Goto(p, "idle")
  /\ UNCHANGED <<lock, chan, ring, device, irq, latest, pinned>>

\* The holder of a buffer changes it, pins it or takes the pin away.
Change(p) ==
  /\ At(p, "have") /\ buf[at[p]].block \in Changing
  /\ \E d \in Data \ {buf[at[p]].data} :
       /\ buf' = [buf EXCEPT ![at[p]].data = d]
       /\ latest' = [latest EXCEPT ![buf[at[p]].block] = d]
  /\ UNCHANGED <<lru, lock, pc, at, chan, ring, device, irq, pinned>>

Bpin(p) ==
  /\ At(p, "have") /\ at[p] \notin pinned
  /\ buf' = [buf EXCEPT ![at[p]].refcnt = @ + 1] /\ pinned' = pinned \cup {at[p]}
  /\ UNCHANGED <<lru, lock, pc, at, chan, ring, device, irq, latest>>

Bunpin(p) ==
  /\ At(p, "have") /\ at[p] \in pinned /\ buf[at[p]].data = disk[buf[at[p]].block]
  /\ buf' = [buf EXCEPT ![at[p]].refcnt = @ - 1] /\ pinned' = pinned \ {at[p]}
  /\ UNCHANGED <<lru, lock, pc, at, chan, ring, device, irq, latest>>

Bwrite(p) ==
  /\ At(p, "have")
  /\ Goto(p, "write")
  /\ UNCHANGED <<cache, at, chan, ring, device, irq, latest, pinned>>

------------------------------------------------------------------------------
(* virtio_disk_rw *)

FreeDescs == { i \in Descs : desc[i].free }

\* alloc3_desc: the three lowest free descriptors.
Three ==
  LET a == Min(FreeDescs)
      b == Min(FreeDescs \ {a})
  IN <<a, b, Min(FreeDescs \ {a, b})>>

\* alloc3_desc fails: the descriptors it found are freed again, which wakes the
\* others that wait for some.
NoDescriptors(p) ==
  /\ Cardinality(FreeDescs) < 3
  /\ chan' = [q \in Procs |->
                IF q = p THEN <<"free">>
                ELSE IF FreeDescs # {} /\ chan[q] = <<"free">> THEN <<>> ELSE chan[q]]
  /\ UNCHANGED <<buf, pc, desc, req, avail>>

\* The request is described, put in the ring, and p sleeps until it is done.
Submit(p) ==
  /\ Cardinality(FreeDescs) >= 3
  /\ LET i == Three IN
     /\ desc' = [desc EXCEPT ![i[1]] = [free |-> FALSE, next |-> i[2]],
                             ![i[2]] = [free |-> FALSE, next |-> i[3]],
                             ![i[3]] = [free |-> FALSE, next |-> None]]
     /\ req' = [req EXCEPT ![i[1]] =
                  [buf |-> at[p], write |-> pc[p] = "write", block |-> buf[at[p]].block]]
     /\ avail' = [ring |-> [avail.ring EXCEPT ![avail.idx % NUM] = i[1]],
                  idx |-> (avail.idx + 1) % UINT16]
  /\ buf' = [buf EXCEPT ![at[p]].disk = TRUE]
  /\ Sleep(p, <<"buf", at[p]>>)
  /\ Goto(p, IF pc[p] = "write" THEN "written" ELSE "filled")

DiskRw(p) ==
  /\ At(p, "read") \/ At(p, "write")
  /\ ~intr
  /\ NoDescriptors(p) \/ Submit(p)
  /\ UNCHANGED <<lru, lock, at, used_idx, intr, device, irq, latest, pinned>>

\* The head of the chain of p's request, which p has in idx[0].
Head0(p) == CHOOSE i \in Descs : req[i].buf = at[p]

\* free_chain follows next; free_desc panics on a descriptor that is free.
ChainOf(i) == {i, desc[i].next, desc[desc[i].next].next}

\* Mutant: free_chain stops before the status descriptor.
Chain_Short(i) == {i, desc[i].next}

Chain(i) == ChainOf(i)

\* b->disk is 0: the descriptors are freed, and bread's buffer is valid.
DiskDone(p) ==
  /\ At(p, "filled") \/ At(p, "written")
  /\ ~intr /\ ~buf[at[p]].disk
  /\ desc' = [i \in Descs |-> IF i \in Chain(Head0(p)) THEN FreeDesc ELSE desc[i]]
  /\ req' = [req EXCEPT ![Head0(p)] = NoRequest]
  /\ chan' = Woken(<<"free">>)
  /\ buf' = [buf EXCEPT ![at[p]].valid = @ \/ pc[p] = "filled"]
  /\ Goto(p, "have")
  /\ UNCHANGED <<lru, lock, at, avail, used_idx, intr, device, irq, latest, pinned>>

------------------------------------------------------------------------------
(* the device *)

\* It reads the ring of requests in order,
Fetch ==
  /\ seen # avail.idx
  /\ work' = work \cup {avail.ring[seen % NUM]}
  /\ seen' = (seen + 1) % UINT16
  /\ avail' = [avail EXCEPT !.ring[seen % NUM] = None]
  /\ UNCHANGED <<cache, pc, at, chan, desc, req, used_idx, intr, disk, used, irq,
                 latest, pinned>>

\* and does them in any order: it moves the data, says so in the other ring and
\* asks for an interrupt.
Complete ==
  \E i \in work :
    LET r == req[i] IN
    /\ IF r.write
       THEN disk' = [disk EXCEPT ![r.block] = buf[r.buf].data] /\ UNCHANGED buf
       ELSE buf' = [buf EXCEPT ![r.buf].data = disk[r.block]] /\ UNCHANGED disk
    /\ work' = work \ {i}
    /\ used' = [ring |-> [used.ring EXCEPT ![used.idx % NUM] = i],
                idx |-> (used.idx + 1) % UINT16]
    /\ irq' = TRUE
    /\ UNCHANGED <<lru, lock, pc, at, chan, ring, seen, latest, pinned>>

(* virtio_disk_intr *)

\* The interrupt is acknowledged first.
IntrAck ==
  /\ irq /\ ~intr
  /\ irq' = FALSE /\ intr' = TRUE
  /\ UNCHANGED <<cache, pc, at, chan, desc, req, avail, used_idx, device, latest, pinned>>

IntrEntry ==
  /\ intr /\ used_idx # used.idx
  /\ LET b == req[used.ring[used_idx % NUM]].buf IN
       buf' = [buf EXCEPT ![b].disk = FALSE] /\ chan' = Woken(<<"buf", b>>)
  /\ used' = [used EXCEPT !.ring[used_idx % NUM] = None]
  /\ used_idx' = (used_idx + 1) % UINT16
  /\ UNCHANGED <<lru, lock, pc, at, desc, req, avail, intr, disk, seen, work, irq,
                 latest, pinned>>

\* Mutant: the handler may leave entries behind.
IntrEnd_Early ==
  /\ intr
  /\ intr' = FALSE
  /\ UNCHANGED <<cache, pc, at, chan, desc, req, avail, used_idx, device, irq, latest,
                 pinned>>

IntrEnd ==
  /\ intr /\ used_idx = used.idx
  /\ intr' = FALSE
  /\ UNCHANGED <<cache, pc, at, chan, desc, req, avail, used_idx, device, irq, latest,
                 pinned>>

------------------------------------------------------------------------------

Transfer(p) == AcquireSleep(p) \/ DiskRw(p) \/ DiskDone(p) \/ Unref(p)

Use(p) ==
  \/ \E n \in Blocks : Bget(p, n)
  \/ Change(p) \/ Bpin(p) \/ Bunpin(p) \/ Bwrite(p) \/ Brelse(p)

Interrupt == IntrAck \/ IntrEntry \/ IntrEnd

Next == Fetch \/ Complete \/ Interrupt \/ \E p \in Procs : Transfer(p) \/ Use(p)

Spec == Init /\ [][Next]_vars

\* Processes that hold a buffer go on, the device and the interrupt handler work.
FairSpec ==
  /\ Spec /\ WF_vars(Fetch) /\ WF_vars(Complete) /\ WF_vars(Interrupt)
  /\ \A p \in Procs : WF_vars(Transfer(p))

------------------------------------------------------------------------------
(* Properties *)

\* A block is in one buffer at most.
OneBuffer == \A a, b \in Bufs : a # b /\ buf[a].block # None => buf[a].block # buf[b].block

\* Whoever gets a block gets what was last put into it, from the one buffer it can be
\* in or from the disk, whatever was recycled, pinned and in transfer in between
\* (bget, bread, brelse; virtio_disk_rw).
Coherent ==
  /\ OneBuffer
  /\ \A n \in Blocks :
       IF \E b \in Bufs : buf[b].block = n /\ buf[b].valid
       THEN \A b \in Cached(n) : buf[b].data = latest[n]
       ELSE disk[n] = latest[n]

\* A descriptor is free or in the chain of exactly one process that waits for its
\* transfer, so free_desc never panics and none is lost (alloc3_desc, free_chain).
DescriptorsExact ==
  LET Waiting == { p \in Procs : pc[p] \in {"filled", "written"} } IN
  /\ FreeDescs = Descs \ UNION { ChainOf(Head0(p)) : p \in Waiting }
  /\ \A p, q \in Waiting : p # q => ChainOf(Head0(p)) \cap ChainOf(Head0(q)) = {}

\* A transfer ends, and who sleeps on a buffer, a lock or for descriptors is not left
\* asleep when it is there (sleep and wakeup in virtio_disk_rw, virtio_disk_intr,
\* acquiresleep, releasesleep).
TransfersEnd ==
  \A p \in Procs : pc[p] \in {"filled", "written"} ~> pc[p] = "have"

==============================================================================
