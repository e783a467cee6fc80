------------------------------- MODULE Virtio -------------------------------
(***************************************************************************)
(* kernel/virtio_disk.c, one disk: descriptors, the avail and used rings,  *)
(* virtio_disk_rw, virtio_disk_intr, and the device, which runs beside     *)
(* them without taking any lock and completes requests in any order.       *)
(*                                                                         *)
(* A process makes one request at a time, for a buffer it has locked, so   *)
(* buffer and block carry the name of the process.  A step is what happens *)
(* under vdisk_lock between two points at which the device can tell the    *)
(* difference; lock is the process or the handler that holds vdisk_lock.   *)
(***************************************************************************)
EXTENDS Naturals, FiniteSets

CONSTANTS
  Proc,     \* processes, and the buffers and blocks they use
  Val,      \* the contents of a block
  None,     \* no value, no buffer, nobody
  NUM,      \* descriptors, a power of two
  WRAP,     \* 2^16 in the code: avail[1] and used->id are uint16
  START,    \* requests that were completed before the behaviours begin
  REQUESTS  \* bound: requests that are made

Desc == 0..(NUM - 1)

ASSUME VirtioAssumption ==
  /\ None \notin Proc \cup Val \cup Desc /\ "intr" \notin Proc \cup {None}
  /\ NUM \in Nat /\ WRAP \in Nat /\ NUM >= 3
  /\ \E k \in 1..WRAP : WRAP = k * NUM
  /\ START \in 0..(WRAP - 1) /\ REQUESTS \in Nat

VARIABLES
  free, desc,               \* disk.free[], disk.desc[]
  avail, availIdx,          \* avail[2..], avail[1]
  used, usedId, usedIdx,    \* used->elems[], used->id, disk.used_idx
  info,                     \* disk.info[].b
  busy,                     \* b->disk
  lock, pc, idx,            \* vdisk_lock, and virtio_disk_rw's idx[0..2]
  seen, taken, pending,     \* device: how far in avail, requests, interrupt line
  made,                     \* requests made
  buf, block, last          \* b->data, the block on disk, and what was last written

ring == <<avail, availIdx, used, usedId, usedIdx>>
device == <<seen, taken, pending, block>>
vars == <<free, desc, ring, info, busy, lock, pc, idx, device, made, buf, last>>

\* A descriptor: what it points to, for which request, and the next one.
Blank == [what |-> None, of |-> None, next |-> None]

Init ==
  /\ free = [d \in Desc |-> TRUE]
  /\ desc = [d \in Desc |-> Blank]
  /\ avail = [d \in Desc |-> 0] /\ availIdx = START
  /\ used = [d \in Desc |-> 0] /\ usedId = START /\ usedIdx = START % NUM
  /\ info = [d \in Desc |-> None]
  /\ busy = [p \in Proc |-> FALSE]
  /\ lock = None
  /\ pc = [p \in Proc |-> "idle"]
  /\ idx = [p \in Proc |-> <<>>]
  /\ seen = START /\ taken = {} /\ pending = FALSE /\ made = 0
  /\ \E v \in Val : block = [p \in Proc |-> v]
  /\ buf = block /\ last = block

Goto(p, l) == pc' = [pc EXCEPT ![p] = l]

-----------------------------------------------------------------------------
(* alloc_desc, alloc3_desc, free_desc, free_chain *)

\* alloc_desc() takes the first free descriptor.
First(S) == CHOOSE d \in S : \A e \in S : d <= e

\* The three that alloc3_desc() takes when it succeeds.
Alloc3 ==
  LET S == {d \in Desc : free[d]}
      a == First(S)
      b == First(S \ {a})
  IN <<a, b, First(S \ {a, b})>>

NFree == Cardinality({d \in Desc : free[d]})

\* The descriptors that free_chain(i) visits.
Chain(i) == {i, desc[i].next, desc[desc[i].next].next}

\* Mutant: nobody is woken.
WakeDescNobody(f) == f

\* wakeup(&disk.free[0])
WakeDesc(f) == [p \in Proc |-> IF f[p] = "asleep_desc" THEN "alloc" ELSE f[p]]

-----------------------------------------------------------------------------
(* virtio_disk_rw *)

\* Called by bread() for a buffer without contents, or by bwrite().
CallRead(p) ==
  /\ pc[p] = "idle" /\ made < REQUESTS
  /\ made' = made + 1
  /\ buf' = [buf EXCEPT ![p] = None]
  /\ Goto(p, "alloc")
  /\ UNCHANGED <<free, desc, ring, info, busy, lock, idx, device, last>>

CallWrite(p, v) ==
  /\ pc[p] = "idle" /\ made < REQUESTS
  /\ made' = made + 1
  /\ buf' = [buf EXCEPT ![p] = v]
  /\ last' = [last EXCEPT ![p] = v]
  /\ Goto(p, "alloc")
  /\ UNCHANGED <<free, desc, ring, info, busy, lock, idx, device>>

\* alloc3_desc() fails; the ones it had taken are given back, with a wakeup if
\* there were any; sleep(&disk.free[0], &vdisk_lock).
AllocFails(p) ==
  /\ pc[p] = "alloc" /\ lock = None
  /\ NFree < 3
  /\ pc' = [IF NFree > 0 THEN WakeDesc(pc) ELSE pc EXCEPT ![p] = "asleep_desc"]
  /\ UNCHANGED <<free, desc, ring, info, busy, lock, idx, device, buf, last, made>>

\* Three descriptors are taken and formatted, and the entry in avail is written.
Format(p) ==
  LET i == Alloc3 IN
  /\ pc[p] = "alloc" /\ lock = None
  /\ NFree >= 3
  /\ lock' = p
  /\ idx' = [idx EXCEPT ![p] = i]
  /\ free' = [free EXCEPT ![i[1]] = FALSE, ![i[2]] = FALSE, ![i[3]] = FALSE]
  /\ desc' = [desc EXCEPT
       ![i[1]] = [what |-> IF buf[p] = None THEN "read" ELSE "write",
                  of |-> p, next |-> i[2]],
       ![i[2]] = [what |-> "data", of |-> p, next |-> i[3]],
       ![i[3]] = [what |-> "status", of |-> p, next |-> None]]
  /\ info' = [info EXCEPT ![i[1]] = p]
  /\ busy' = [busy EXCEPT ![p] = TRUE]
  /\ avail' = [avail EXCEPT ![availIdx % NUM] = i[1]]
  /\ Goto(p, "publish")
  /\ UNCHANGED <<availIdx, used, usedId, usedIdx, device, buf, last, made>>

\* avail[1] is incremented and the device notified; sleep(b, &vdisk_lock),
\* since no interrupt was handled under the lock and b->disk is still 1.
Publish(p) ==
  /\ pc[p] = "publish"
  /\ availIdx' = (availIdx + 1) % WRAP
  /\ lock' = None
  /\ Goto(p, "asleep_buf")
  /\ UNCHANGED <<free, desc, avail, used, usedId, usedIdx, info, busy, idx, device,
                 buf, last, made>>

\* Mutant: the loop is an if.
StillBusyNot(p) == FALSE

\* while(b->disk == 1)
StillBusy(p) == busy[p]

SleepAgain(p) ==
  /\ pc[p] = "woken" /\ lock = None
  /\ StillBusy(p)
  /\ Goto(p, "asleep_buf")
  /\ UNCHANGED <<free, desc, ring, info, busy, lock, idx, device, buf, last, made>>

\* info[].b = 0; free_chain(); release.
Return(p) ==
  LET h == idx[p][1] IN
  /\ pc[p] = "woken" /\ lock = None
  /\ ~StillBusy(p)
  /\ info' = [info EXCEPT ![h] = None]
  /\ free' = [d \in Desc |-> free[d] \/ d \in Chain(h)]
  /\ idx' = [idx EXCEPT ![p] = <<>>]
  /\ pc' = WakeDesc([pc EXCEPT ![p] = "idle"])
  /\ UNCHANGED <<desc, ring, busy, lock, device, buf, last, made>>

\* kill() makes a sleeping process runnable, wherever it sleeps.
Kill(p) ==
  /\ pc[p] \in {"asleep_desc", "asleep_buf"}
  /\ Goto(p, IF pc[p] = "asleep_desc" THEN "alloc" ELSE "woken")
  /\ UNCHANGED <<free, desc, ring, info, busy, lock, idx, device, buf, last, made>>

-----------------------------------------------------------------------------
(* virtio_disk_intr: one iteration of its loop is one step *)

IntrEnter ==
  /\ pending /\ lock = None
  /\ pending' = FALSE
  /\ lock' = "intr"
  /\ UNCHANGED <<free, desc, ring, info, busy, pc, idx, seen, taken, block, buf, last,
                 made>>

\* Mutant: the entry before used_idx.
UsedEntryBefore == used[(usedIdx + NUM - 1) % NUM]

UsedEntry == used[usedIdx]
NextUsed == (usedIdx + 1) % NUM
WakeBuf(f, b) == IF f[b] = "asleep_buf" THEN [f EXCEPT ![b] = "woken"] ELSE f

IntrEntry ==
  LET b == info[UsedEntry] IN
  /\ lock = "intr"
  /\ usedIdx % NUM # usedId % NUM
  /\ b # None
  /\ busy' = [busy EXCEPT ![b] = FALSE]
  /\ pc' = WakeBuf(pc, b)
  /\ usedIdx' = NextUsed
  /\ UNCHANGED <<free, desc, avail, availIdx, used, usedId, info, lock, idx, device,
                 buf, last, made>>

IntrExit ==
  /\ lock = "intr"
  /\ usedIdx % NUM = usedId % NUM
  /\ lock' = None
  /\ UNCHANGED <<free, desc, ring, info, busy, pc, idx, device, buf, last, made>>

-----------------------------------------------------------------------------
(* The device.  It reports no errors: virtio_disk_intr() would panic. *)

\* It takes the next entry of avail, if its index says that there is one.
DeviceTake ==
  /\ seen # availIdx
  /\ taken' = taken \cup {avail[seen % NUM]}
  /\ seen' = (seen + 1) % WRAP
  /\ UNCHANGED <<free, desc, ring, info, busy, lock, pc, idx, pending, block, buf, last,
                 made>>

\* It carries out a request as its descriptors say, in any order, writes the
\* status and an entry of used, and raises its interrupt.
DeviceComplete(h) ==
  LET d == desc[h]
      data == desc[d.next].of
  IN /\ h \in taken
     /\ taken' = taken \ {h}
     /\ IF d.what = "write"
        THEN block' = [block EXCEPT ![d.of] = buf[data]] /\ UNCHANGED buf
        ELSE buf' = [buf EXCEPT ![data] = block[d.of]] /\ UNCHANGED block
     /\ used' = [used EXCEPT ![usedId % NUM] = h]
     /\ usedId' = (usedId + 1) % WRAP
     /\ pending' = TRUE
     /\ UNCHANGED <<free, desc, avail, availIdx, usedIdx, info, busy, lock, pc, idx, seen,
                    last, made>>

-----------------------------------------------------------------------------
Step(p) == \/ AllocFails(p) \/ Format(p) \/ Publish(p) \/ SleepAgain(p) \/ Return(p)
Intr == IntrEnter \/ IntrEntry \/ IntrExit

Next == \/ \E p \in Proc : CallRead(p) \/ Step(p) \/ Kill(p)
        \/ \E p \in Proc, v \in Val : CallWrite(p, v)
        \/ Intr
        \/ DeviceTake
        \/ \E h \in Desc : DeviceComplete(h)

Spec == Init /\ [][Next]_vars

-----------------------------------------------------------------------------
\* A request that has returned was carried out, on its own buffer and block, and
\* nobody else's request touched them (virtio_disk.c:252-258): a bread() sees
\* what was last written and a bwrite() is on disk when it returns.
TransfersDone ==
  \A p \in Proc : pc[p] = "idle" => block[p] = last[p] /\ buf[p] = last[p]

\* The requests that the device has taken or can take.
Waiting == LET n == (availIdx + WRAP - seen) % WRAP
           IN taken \cup {avail[(seen + i) % NUM] : i \in 0..(n - 1)}

\* As long as the device may look at a request, its three descriptors are
\* allocated to it alone and say what the process asked for (virtio_disk.c:200-246).
\* So free_desc() never finds a descriptor that is free already (panic, line 147),
\* and virtio_disk_intr() never uses a buffer pointer that virtio_disk_rw() has
\* cleared (line 257).
ChainsIntact ==
  /\ \A h \in Waiting : /\ \A d \in Chain(h) : ~free[d]
                        /\ info[h] = desc[h].of /\ idx[desc[h].of][1] = h
                        /\ desc[desc[h].next].of = desc[h].of
  /\ \A h, k \in Waiting : h # k => Chain(h) \cap Chain(k) = {}
  /\ \A p \in Proc : (pc[p] = "woken" /\ ~busy[p]) => \A d \in Chain(idx[p][1]) : ~free[d]
  /\ (lock = "intr" /\ usedIdx % NUM # usedId % NUM) => info[UsedEntry] # None

\* No wakeup is lost: with vdisk_lock free, whoever sleeps for descriptors lacks
\* one (virtio_disk.c:150 and 197), whoever sleeps for the disk has a request that
\* is not done (lines 254 and 275), and a request that is done and not yet
\* reported has an interrupt coming (line 268).
NobodyForgotten ==
  lock = None =>
    /\ \A p \in Proc : /\ pc[p] = "asleep_desc" => NFree < 3
                       /\ pc[p] = "asleep_buf" => busy[p]
    /\ usedIdx # usedId % NUM => pending
=============================================================================
