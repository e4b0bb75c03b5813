----------------------------- MODULE VirtioDisk -----------------------------
(***************************************************************************)
(* The disk driver virtio_disk.c and the device it talks to.               *)
(*                                                                         *)
(* Buffer b caches block b, and its sleep lock lets one thread at a time   *)
(* call virtio_disk_rw() on it, so the thread is named by its buffer.  A   *)
(* step is a stretch under vdisk_lock that the device cannot see into; the *)
(* device runs at any time, completes requests in any order, and sees the  *)
(* rings through memory.  avail->idx and used->idx are words of WORD       *)
(* values, 2^16 in the code.                                               *)
(***************************************************************************)
EXTENDS Naturals, FiniteSets

CONSTANTS Bufs, None,
          NUM,        \* descriptors, and entries of each ring
          WORD        \* number of values of a uint16
ASSUME DiskAssumption ==
  NUM \in Nat /\ NUM >= 3 /\ WORD \in Nat /\ WORD >= NUM /\ WORD % NUM = 0 /\ None \notin Bufs

Descs == 0..NUM - 1

VARIABLES lock,                     \* vdisk_lock: a buffer's thread, the handler or None
          free, desc, info,         \* driver's books: free[], desc[], info[]
          avail, used, used_idx,    \* the rings, [ring, idx], and how far we looked
          bdisk,                    \* b->disk
          pc, write, head,          \* thread of b: where it is, its arguments, idx[0]
          synced,                   \* b->data and the block of the disk agree
          dev,                      \* external: how far the device has read avail, and
                                    \* the chains it works on
          irq,                      \* external: the interrupt line
          panic
driver == <<free, desc, info, avail, used_idx, bdisk>>
device == <<used, synced, dev>>
thread == <<pc, write, head>>
vars == <<lock, driver, device, thread, irq, panic>>

NoDesc == [addr |-> None, next |-> 0, more |-> FALSE, in |-> FALSE]
NoInfo == [b |-> None, status |-> 0]
Ring == [ring |-> [i \in Descs |-> 0], idx |-> 0]

(* virtio_disk_init(): the queue is empty, all descriptors are free *)
Init ==
  /\ lock = None /\ panic = FALSE /\ irq = FALSE
  /\ free = [i \in Descs |-> TRUE] /\ desc = [i \in Descs |-> NoDesc]
  /\ info = [i \in Descs |-> NoInfo]
  /\ avail = Ring /\ used = Ring /\ used_idx = 0
  /\ bdisk = [b \in Bufs |-> FALSE] /\ synced = [b \in Bufs |-> FALSE]
  /\ pc = [b \in Bufs |-> "idle"] /\ write = [b \in Bufs |-> FALSE]
  /\ head = [b \in Bufs |-> 0]
  /\ dev = [idx |-> 0, work |-> {}]

Goto(b, l) == pc' = [pc EXCEPT ![b] = l]

Inc(w) == (w + 1) % WORD

(* wakeup(&disk.free[0]) and wakeup(b), on the program counters *)
WakeFree(c) == [b \in Bufs |-> IF c[b] = "nodesc" THEN "start" ELSE c[b]]
WakeBuf(c, b) == IF b = None THEN c ELSE [c EXCEPT ![b] = IF @ = "wait" THEN "again" ELSE @]

-----------------------------------------------------------------------------
(* bread() of a recycled buffer, or bwrite() of data that was changed *)
Call(b, w) ==
  /\ pc[b] = "idle"
  /\ write' = [write EXCEPT ![b] = w]
  /\ synced' = [synced EXCEPT ![b] = FALSE]
  /\ Goto(b, "start")
  /\ UNCHANGED <<lock, driver, used, dev, head, irq, panic>>

Lowest(S) == CHOOSE i \in S : \A j \in S : i <= j
FreeDescs == {i \in Descs : free[i]}

(* alloc3_desc() fails: what it got it gives back, waking the others; sleep *)
NoDescriptors(b) ==
  /\ pc[b] = "start" /\ lock = None /\ Cardinality(FreeDescs) < 3
  /\ pc' = [IF FreeDescs = {} THEN pc ELSE WakeFree(pc) EXCEPT ![b] = "nodesc"]
  /\ UNCHANGED <<lock, driver, device, write, head, irq, panic>>

(* the three descriptors: the operation, the data, the status byte of info[st] *)
Formatted(b, i0, i1, i2, st, in) ==
  [desc EXCEPT ![i0] = [addr |-> "op", next |-> i1, more |-> TRUE, in |-> FALSE],
               ![i1] = [addr |-> b, next |-> i2, more |-> TRUE, in |-> in],
               ![i2] = [addr |-> st, next |-> 0, more |-> FALSE, in |-> TRUE]]

(* fault: the wrong direction *)
Format_Direction(b, i0, i1, i2) == Formatted(b, i0, i1, i2, i0, write[b])

Format(b, i0, i1, i2) == Formatted(b, i0, i1, i2, i0, ~write[b])

(* alloc3_desc() takes the lowest free ones; format them, b->disk = 1, and   *)
(* put the head into the ring at avail->idx *)
FormatChain(b) ==
  LET i0 == Lowest(FreeDescs)
      i1 == Lowest(FreeDescs \ {i0})
      i2 == Lowest(FreeDescs \ {i0, i1})
  IN /\ pc[b] = "start" /\ lock = None /\ Cardinality(FreeDescs) >= 3
     /\ lock' = b
     /\ free' = [free EXCEPT ![i0] = FALSE, ![i1] = FALSE, ![i2] = FALSE]
     /\ desc' = Format(b, i0, i1, i2)
     /\ info' = [info EXCEPT ![i0] = [b |-> b, status |-> 255]]
     /\ bdisk' = [bdisk EXCEPT ![b] = TRUE]
     /\ avail' = [avail EXCEPT !.ring[avail.idx % NUM] = i0]
     /\ head' = [head EXCEPT ![b] = i0]
     /\ Goto(b, "notify")
     /\ UNCHANGED <<used_idx, device, write, irq, panic>>

(* avail->idx += 1 and QUEUE_NOTIFY; sleep(b, &disk.vdisk_lock) *)
Notify(b) ==
  /\ pc[b] = "notify"
  /\ avail' = [avail EXCEPT !.idx = Inc(@)]
  /\ lock' = None
  /\ Goto(b, "wait")
  /\ UNCHANGED <<free, desc, info, used_idx, bdisk, device, write, head, irq, panic>>

(* woken, and b->disk is still 1: sleep again *)
NotYet(b) ==
  /\ pc[b] = "again" /\ lock = None /\ bdisk[b]
  /\ Goto(b, "wait")
  /\ UNCHANGED <<lock, driver, device, write, head, irq, panic>>

(* free_chain(): the descriptors reached through next *)
Chain(i) ==
  IF ~desc[i].more THEN {i}
  ELSE LET j == desc[i].next IN IF ~desc[j].more THEN {i, j} ELSE {i, j, desc[j].next}

FreeChain(b, chain) ==
  /\ panic' = \E i \in chain : free[i]
  /\ info' = [info EXCEPT ![head[b]].b = None]
  /\ free' = [i \in Descs |-> free[i] \/ i \in chain]
  /\ desc' = [i \in Descs |-> IF i \in chain THEN NoDesc ELSE desc[i]]
  /\ pc' = [WakeFree(pc) EXCEPT ![b] = "idle"]
  /\ write' = [write EXCEPT ![b] = FALSE] /\ head' = [head EXCEPT ![b] = 0]
  /\ UNCHANGED <<lock, avail, used_idx, bdisk, device, irq>>

(* fault: the chain is not followed to its end *)
Finish_TwoOfThree(b) ==
  /\ pc[b] = "again" /\ lock = None /\ ~bdisk[b]
  /\ FreeChain(b, {head[b], desc[head[b]].next})

(* b->disk is 0: free the chain, wake those who wait for descriptors, return *)
Finish(b) ==
  /\ pc[b] = "again" /\ lock = None /\ ~bdisk[b]
  /\ FreeChain(b, Chain(head[b]))

(* kill() makes a sleeper runnable; both loops test again *)
Kill(b) ==
  /\ pc[b] \in {"nodesc", "wait"}
  /\ Goto(b, IF pc[b] = "wait" THEN "again" ELSE "start")
  /\ UNCHANGED <<lock, driver, device, write, head, irq, panic>>

-----------------------------------------------------------------------------
(* virtio_disk_intr(): acquire the lock, acknowledge *)
IntrAck ==
  /\ irq /\ lock = None
  /\ irq' = FALSE /\ lock' = "intr"
  /\ UNCHANGED <<driver, device, thread, panic>>

(* one entry of the used ring *)
IntrEntry ==
  LET id == used.ring[used_idx % NUM] IN
  /\ lock = "intr" /\ used_idx # used.idx
  /\ panic' = (info[id].status # 0)
  /\ bdisk' = [b \in Bufs |-> bdisk[b] /\ b # info[id].b]
  /\ pc' = WakeBuf(pc, info[id].b)
  /\ used_idx' = Inc(used_idx)
  /\ UNCHANGED <<lock, free, desc, info, avail, device, write, head, irq>>

(* the loop ends; then release(&disk.vdisk_lock) *)
IntrLoopEnd ==
  /\ lock = "intr" /\ used_idx = used.idx
  /\ lock' = "intrend"
  /\ UNCHANGED <<driver, device, thread, irq, panic>>

(* fault: the interrupt is acknowledged at the end *)
IntrDone_AckLate ==
  /\ lock = "intrend"
  /\ lock' = None /\ irq' = FALSE
  /\ UNCHANGED <<driver, device, thread, panic>>

IntrDone ==
  /\ lock = "intrend"
  /\ lock' = None
  /\ UNCHANGED <<driver, device, thread, irq, panic>>

-----------------------------------------------------------------------------
(* external: the device takes the next chain of the avail ring *)
DevTake ==
  /\ dev.idx # avail.idx
  /\ dev' = [idx |-> Inc(dev.idx), work |-> dev.work \cup {avail.ring[dev.idx % NUM]}]
  /\ UNCHANGED <<lock, driver, used, synced, thread, irq, panic>>

(* external: it finishes any chain: transfer, status 0, used entry, interrupt *)
DevDone(i) ==
  LET d == desc[desc[i].next]
      s == desc[d.next].addr
  IN
  /\ i \in dev.work
  /\ dev' = [dev EXCEPT !.work = @ \ {i}]
  /\ synced' = [b \in Bufs |-> synced[b] \/ (b = d.addr /\ d.in = ~write[b])]
  /\ info' = [info EXCEPT ![s].status = 0]
  /\ used' = [ring |-> [used.ring EXCEPT ![used.idx % NUM] = i], idx |-> Inc(used.idx)]
  /\ irq' = TRUE
  /\ UNCHANGED <<lock, free, desc, avail, used_idx, bdisk, thread, panic>>

-----------------------------------------------------------------------------
Thread(b) == NoDescriptors(b) \/ FormatChain(b) \/ Notify(b) \/ NotYet(b) \/ Finish(b)
Interrupt == IntrAck \/ IntrEntry \/ IntrLoopEnd \/ IntrDone
Device == DevTake \/ \E i \in Descs : DevDone(i)

Next ==
  /\ ~panic
  /\ \/ Interrupt \/ Device
     \/ \E b \in Bufs : Thread(b) \/ Kill(b) \/ \E w \in BOOLEAN : Call(b, w)

Spec == Init /\ [][Next]_vars

-----------------------------------------------------------------------------

Active == {b \in Bufs : pc[b] \in {"notify", "wait", "again"}}

(* The descriptors in use are exactly those of the chains of the requests   *)
(* under way, three each and none in two chains: none leaks and none is     *)
(* handed out while the device may follow it. *)
DescriptorsAccounted ==
  /\ \A b, c \in Active : b # c => Chain(head[b]) \cap Chain(head[c]) = {}
  /\ \A b \in Active : Cardinality(Chain(head[b])) = 3 /\ info[head[b]].b = b
  /\ {i \in Descs : ~free[i]} = UNION {Chain(head[b]) : b \in Active}

(* When the interrupt handler has cleared b->disk the transfer of b has     *)
(* been made, in the right direction, though completions come out of order  *)
(* and one interrupt may stand for several. *)
DoneMeansTransferred ==
  \A b \in Active : ~bdisk[b] => synced[b]

Minus(u, v) == (u + WORD - v) % WORD

(* A completion the driver has not looked at is always announced: the       *)
(* interrupt is pending or the handler is still in its loop, even when the  *)
(* device completes another request while the handler runs. *)
CompletionsAnnounced == used_idx # used.idx => irq \/ lock = "intr"
=============================================================================
