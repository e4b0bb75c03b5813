---------------------------- MODULE MCVirtioDisk ----------------------------
EXTENDS VirtioDisk

(* Two states that differ only in ring entries that have been read are the   *)
(* same: an entry is written before it is read again.                        *)
Entries(ring, from, n) ==
  [i \in Descs |-> IF \E k \in 0..n - 1 : i = (from + k) % NUM THEN ring[i] ELSE 0]
Unread ==
  <<lock, free, desc, info, used_idx, bdisk, synced, dev, pc, write, head, irq, panic,
    avail.idx, Entries(avail.ring, dev.idx, Minus(avail.idx, dev.idx)
                                              + IF lock \in Bufs THEN 1 ELSE 0),
    used.idx, Entries(used.ring, used_idx, Minus(used.idx, used_idx))>>
=============================================================================
