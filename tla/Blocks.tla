------------------------------- MODULE Blocks -------------------------------
(***************************************************************************)
(* File content: balloc, bfree, bmap, itrunc, readi and writei of fs.c and *)
(* the loops of fileread() and filewrite() around them.  A step is one     *)
(* block: its allocation under the bitmap's buffer lock, or its copy.  The *)
(* inode's lock is held over readi() and writei().  A byte tells the       *)
(* process that wrote it and the file it was meant for.  A block has the   *)
(* content its buffer holds and the one the log has or will have, which a  *)
(* copy that fails half way makes differ.  uint arithmetic is modulo WORD. *)
(***************************************************************************)
EXTENDS Naturals, Sequences, FiniteSets, FiniteSetsExt

CONSTANTS Procs, Opens, Inums,
          InodeOf,                    \* inode of an open file
          NBlocks, BSIZE, NDIRECT, NINDIRECT, MAXOPBLOCKS, WORD,
          WriteSizes, ReadSizes,      \* arguments of write() and read(), per file
          MaxCalls                    \* bound: system calls in a behaviour
ASSUME BlocksAssumption ==
  /\ InodeOf \in [Opens -> Inums]
  /\ NBlocks \in Nat /\ BSIZE \in Nat \ {0} /\ NDIRECT \in Nat /\ NINDIRECT \in Nat
  /\ MAXOPBLOCKS >= 6 /\ WORD > (NDIRECT + NINDIRECT) * BSIZE

Zero == <<0, 0>>
None == 0                              \* no block
Data == 1..NBlocks
MAXFILE == NDIRECT + NINDIRECT
Free == "free"

VARIABLES bitmap,          \* blocks marked in use
          data, disk,      \* their bytes, in the cache and as logged
          entry,           \* their words, for an indirect block
          ip,              \* inodes: addrs, size, lock
          off,             \* offset of an open file
          pv,              \* per process: where it is in a call, and its locals
          panic,
          calls,           \* system calls so far
          text             \* history variable: the bytes each position of a file may hold
fs == <<bitmap, data, disk, entry, ip>>
vars == <<fs, off, pv, panic, calls, text>>

Idle == [pc |-> "idle", f |-> "none", op |-> "none", n |-> 0, done |-> 0, n1 |-> 0, tot |-> 0, o |-> 0,
         addr |-> None, fail |-> FALSE, got |-> <<>>, logged |-> {}]
Init ==
  /\ bitmap = {}
  /\ data = [b \in Data |-> [k \in 0..BSIZE - 1 |-> Zero]] /\ disk = data
  /\ entry = [b \in Data |-> [k \in 0..NINDIRECT - 1 |-> None]]
  /\ ip = [i \in Inums |-> [addrs |-> [k \in 0..NDIRECT |-> None], size |-> 0, lock |-> Free]]
  /\ off = [f \in Opens |-> 0]
  /\ pv = [p \in Procs |-> Idle]
  /\ panic = FALSE /\ calls = 0
  /\ text = [i \in Inums |-> <<>>]

Inode(p) == InodeOf[pv[p].f]
Offset(p) == off[pv[p].f]
Byte(p) == <<p, Inode(p)>>
At(p, l) == pv[p].pc = l
Least(a, b) == IF a < b THEN a ELSE b
Plus(a, b) == (a + b) % WORD
Bitmap == 0                            \* one bitmap block covers the disk
Log(p, bs) == pv[p].logged \cup bs

-----------------------------------------------------------------------------
(* balloc() finds the first free block, marks and clears it *)
Unused == Data \ bitmap
balloc(b) ==
  /\ b = Min(Unused)
  /\ bitmap' = bitmap \cup {b}
  /\ data' = [data EXCEPT ![b] = [k \in 0..BSIZE - 1 |-> Zero]]
  /\ disk' = [disk EXCEPT ![b] = data'[b]]
Cleared(b) == [entry EXCEPT ![b] = [k \in 0..NINDIRECT - 1 |-> None]]

Bn(p) == pv[p].o \div BSIZE
Found(p, b) == pv' = [pv EXCEPT ![p].pc = IF b = None THEN "end" ELSE "copy", ![p].addr = b]

(* bmap(): a block whose slot is filled; a direct or indirect slot to fill; *)
(* an entry of the indirect block to fill; no space *)
Mapped(p) ==
  LET a == ip[Inode(p)].addrs IN
  CASE Bn(p) < NDIRECT -> a[Bn(p)]
    [] Bn(p) >= NDIRECT /\ Bn(p) < MAXFILE /\ a[NDIRECT] # None -> entry[a[NDIRECT]][Bn(p) - NDIRECT]
    [] OTHER -> None
BmapHit(p) ==
  /\ At(p, "bmap") /\ Mapped(p) # None
  /\ Found(p, Mapped(p))
  /\ UNCHANGED <<fs, off, panic, calls, text>>
BmapAddr(p) ==
  LET slot == Least(Bn(p), NDIRECT) IN
  /\ At(p, "bmap") /\ Bn(p) < MAXFILE /\ ip[Inode(p)].addrs[slot] = None
  /\ \E b \in Unused :
       /\ balloc(b)
       /\ entry' = Cleared(b)
       /\ ip' = [ip EXCEPT ![Inode(p)].addrs[slot] = b]
       /\ pv' = [pv EXCEPT ![p].pc = IF Bn(p) < NDIRECT THEN "copy" ELSE "bmap",
                           ![p].addr = b, ![p].logged = Log(p, {Bitmap, b})]
  /\ UNCHANGED <<off, panic, calls, text>>

BmapEntry(p) ==
  LET ind == ip[Inode(p)].addrs[NDIRECT] IN
  /\ At(p, "bmap") /\ Bn(p) >= NDIRECT /\ Bn(p) < MAXFILE /\ ind # None /\ Mapped(p) = None
  /\ \E b \in Unused :
       /\ balloc(b)
       /\ entry' = [Cleared(b) EXCEPT ![ind][Bn(p) - NDIRECT] = b]
       /\ pv' = [pv EXCEPT ![p].pc = "copy", ![p].addr = b, ![p].logged = Log(p, {Bitmap, b, ind})]
  /\ UNCHANGED <<ip, off, panic, calls, text>>
BmapFull(p) ==
  /\ At(p, "bmap") /\ Bn(p) < MAXFILE /\ Mapped(p) = None /\ Unused = {}
  /\ Found(p, None)
  /\ UNCHANGED <<fs, off, panic, calls, text>>
-----------------------------------------------------------------------------
(* fault: no slop for writes that are not aligned *)
Chunk_NoSlop == MAXOPBLOCKS * BSIZE

Lock(p) == [ip EXCEPT ![Inode(p)].lock = p]
Chunk == ((MAXOPBLOCKS - 1 - 1 - 2) \div 2) * BSIZE

Call(p, f, op, n) ==
  /\ At(p, "idle") /\ calls < MaxCalls /\ calls' = calls + 1
  /\ pv' = [pv EXCEPT ![p] = [Idle EXCEPT !.pc = "call", !.f = f, !.op = op, !.n = n]]
  /\ UNCHANGED <<fs, off, panic, text>>

(* fault: the length is clipped to the size, not to what is left *)
ReadBegin_Clip(p) ==
  LET size == ip[Inode(p)].size
      o == Offset(p)
      n == pv[p].n
      n1 == IF o > size \/ Plus(o, n) < o THEN 0 ELSE IF Plus(o, n) > size THEN size ELSE n
  IN
  /\ At(p, "call") /\ pv[p].op = "read" /\ ip[Inode(p)].lock = Free
  /\ ip' = Lock(p)
  /\ pv' = [pv EXCEPT ![p].pc = IF n1 = 0 THEN "end" ELSE "bmap", ![p].n1 = n1, ![p].o = o]
  /\ UNCHANGED <<bitmap, data, disk, entry, off, panic, calls, text>>

(* fileread(): ilock(), readi() up to its loop *)
ReadBegin(p) ==
  LET size == ip[Inode(p)].size
      o == Offset(p)
      n == pv[p].n
      n1 == IF o > size \/ Plus(o, n) < o THEN 0 ELSE IF Plus(o, n) > size THEN size - o ELSE n
  IN
  /\ At(p, "call") /\ pv[p].op = "read" /\ ip[Inode(p)].lock = Free
  /\ ip' = Lock(p)
  /\ pv' = [pv EXCEPT ![p].pc = IF n1 = 0 THEN "end" ELSE "bmap", ![p].n1 = n1, ![p].o = o]
  /\ UNCHANGED <<bitmap, data, disk, entry, off, panic, calls, text>>

(* filewrite(): a transaction per chunk: ilock(), writei() up to its loop *)
WriteBegin(p) ==
  LET size == ip[Inode(p)].size
      o == Offset(p)
      n1 == Least(pv[p].n - pv[p].done, Chunk)
      bad == o > size \/ Plus(o, n1) < o \/ Plus(o, n1) > MAXFILE * BSIZE
  IN
  /\ At(p, "call") /\ pv[p].op = "write" /\ pv[p].done < pv[p].n /\ ip[Inode(p)].lock = Free
  /\ ip' = Lock(p)
  /\ pv' = [pv EXCEPT ![p].pc = IF bad THEN "end" ELSE "bmap", ![p].fail = bad,
                      ![p].n1 = n1, ![p].tot = 0, ![p].o = o, ![p].logged = {}]
  /\ UNCHANGED <<bitmap, data, disk, entry, off, panic, calls, text>>

(* one turn of the loop: min(n - tot, BSIZE - off%BSIZE) bytes *)
Part(p) == Least(pv[p].n1 - pv[p].tot, BSIZE - (pv[p].o % BSIZE))
InPart(p, k) == k >= pv[p].o % BSIZE /\ k < (pv[p].o % BSIZE) + Part(p)
Advance(p, got, bs) ==
  LET tot == pv[p].tot + Part(p) IN
  pv' = [pv EXCEPT ![p].tot = tot, ![p].o = @ + Part(p), ![p].got = @ \o got, ![p].logged = Log(p, bs),
                   ![p].pc = IF tot < pv[p].n1 THEN "bmap" ELSE "end"]
CopyOut(p) ==
  LET d == data[pv[p].addr] IN
  /\ At(p, "copy") /\ pv[p].op = "read"
  /\ Advance(p, [k \in 1..Part(p) |-> d[(pv[p].o % BSIZE) + k - 1]], {})
  /\ UNCHANGED <<fs, off, panic, calls, text>>

(* fault: a part is put at the start of its block *)
CopyIn_Aligned(p) ==
  LET b == pv[p].addr IN
  /\ At(p, "copy") /\ pv[p].op = "write"
  /\ data' = [data EXCEPT ![b] = [k \in 0..BSIZE - 1 |-> IF k < Part(p) THEN Byte(p) ELSE @[k]]]
  /\ disk' = [disk EXCEPT ![b] = data'[b]]
  /\ Advance(p, <<>>, {b})
  /\ UNCHANGED <<bitmap, entry, ip, off, panic, calls, text>>

(* either_copyin() into the buffer, log_write() *)
Put(p, m) ==
  [data EXCEPT ![pv[p].addr] =
     [k \in 0..BSIZE - 1 |-> IF InPart(p, k) /\ k < (pv[p].o % BSIZE) + m THEN Byte(p) ELSE @[k]]]
CopyIn(p) ==
  LET b == pv[p].addr IN
  /\ At(p, "copy") /\ pv[p].op = "write"
  /\ data' = Put(p, Part(p)) /\ disk' = [disk EXCEPT ![b] = data'[b]]
  /\ Advance(p, <<>>, {b})
  /\ UNCHANGED <<bitmap, entry, ip, off, panic, calls, text>>

(* either_copyin() fails at a page boundary, after m bytes: they stay in    *)
(* the buffer and are not logged, unless the block is in the log already,   *)
(* for this transaction or for another one that is not installed *)
CopyInFails(p, m) ==
  LET b == pv[p].addr
      o == pv[p].o
      i == Inode(p)
  IN
  /\ At(p, "copy") /\ pv[p].op = "write" /\ m < Part(p)
  /\ data' = Put(p, m)
  /\ \/ disk' = [disk EXCEPT ![b] = data'[b]]
     \/ b \notin pv[p].logged /\ UNCHANGED disk
  /\ text' = [text EXCEPT ![i] = [k \in DOMAIN @ |->
                IF k > o /\ k <= o + m THEN @[k] \cup {Byte(p)} ELSE @[k]]]
  /\ pv' = [pv EXCEPT ![p].pc = "end"]
  /\ UNCHANGED <<bitmap, entry, ip, off, panic, calls>>
CopyOutFails(p) ==
  /\ At(p, "copy") /\ pv[p].op = "read"
  /\ pv' = [pv EXCEPT ![p].pc = "end", ![p].fail = TRUE]
  /\ UNCHANGED <<fs, off, panic, calls, text>>

(* bget() recycles the buffer of a block, which is then read again *)
Recycle(b) ==
  /\ data[b] # disk[b]
  /\ data' = [data EXCEPT ![b] = disk[b]]
  /\ UNCHANGED <<bitmap, disk, entry, ip, off, pv, panic, calls, text>>

(* the rest of readi() and fileread(); a result of -1 moves nothing *)
ReadEnd(p) ==
  /\ At(p, "end") /\ pv[p].op = "read"
  /\ off' = [off EXCEPT ![pv[p].f] = @ + IF pv[p].fail THEN 0 ELSE pv[p].tot]
  /\ ip' = [ip EXCEPT ![Inode(p)].lock = Free]
  /\ pv' = [pv EXCEPT ![p] = Idle]
  /\ UNCHANGED <<bitmap, data, disk, entry, panic, calls, text>>

(* what the file's text becomes when k bytes c are written at o *)
Spliced(s, o, k, c) ==
  [j \in 1..Max({Len(s), o + k}) |-> IF j > o /\ j <= o + k THEN {c} ELSE s[j]]

(* the rest of writei(), and of a turn of filewrite()'s loop *)
Shorter(p) == pv[p].fail \/ pv[p].tot # pv[p].n1

WriteEnd(p) ==
  LET i == Inode(p)
      tot == pv[p].tot
  IN
  /\ At(p, "end") /\ pv[p].op = "write"
  /\ IF pv[p].fail THEN ip' = [ip EXCEPT ![i].lock = Free] /\ UNCHANGED <<off, text>>
     ELSE /\ ip' = [ip EXCEPT ![i].size = Max({@, pv[p].o}), ![i].lock = Free]
          /\ off' = [off EXCEPT ![pv[p].f] = @ + tot]
          /\ text' = [text EXCEPT ![i] = Spliced(@, Offset(p), tot, Byte(p))]
  /\ pv' = [pv EXCEPT ![p] = IF Shorter(p) \/ pv[p].done + tot = pv[p].n THEN Idle
                             ELSE [Idle EXCEPT !.pc = "call", !.f = pv[p].f, !.op = "write", !.n = pv[p].n,
                                                !.done = pv[p].done + tot]]
  /\ UNCHANGED <<bitmap, data, disk, entry, panic, calls>>

-----------------------------------------------------------------------------


(* open() with O_TRUNC, or the last iput(): itrunc() block by block *)
TruncBegin(p) ==
  /\ At(p, "call") /\ pv[p].op = "trunc" /\ ip[Inode(p)].lock = Free
  /\ ip' = Lock(p)
  /\ pv' = [pv EXCEPT ![p].pc = "trunc"]
  /\ UNCHANGED <<bitmap, data, disk, entry, off, panic, calls, text>>
bfree(b) == bitmap' = bitmap \ {b} /\ panic' = (panic \/ b \notin bitmap)
(* the next slot of addrs[] that is set; o counts the indirect entries *)
TruncAddr(p) ==
  LET a == ip[Inode(p)].addrs
      k == Min({j \in DOMAIN a : a[j] # None})
  IN
  /\ At(p, "trunc") /\ \E j \in DOMAIN a : a[j] # None
  /\ k < NDIRECT \/ pv[p].o = NINDIRECT
  /\ bfree(a[k])
  /\ ip' = [ip EXCEPT ![Inode(p)].addrs[k] = None]
  /\ pv' = [pv EXCEPT ![p].logged = Log(p, {Bitmap})]
  /\ UNCHANGED <<data, disk, entry, off, calls, text>>
TruncEntry(p) ==
  LET a == ip[Inode(p)].addrs
      b == entry[a[NDIRECT]][pv[p].o]
  IN
  /\ At(p, "trunc") /\ a[NDIRECT] # None /\ \A j \in 0..NDIRECT - 1 : a[j] = None
  /\ pv[p].o < NINDIRECT
  /\ IF b = None THEN UNCHANGED <<bitmap, panic>> ELSE bfree(b)
  /\ pv' = [pv EXCEPT ![p].o = @ + 1, ![p].logged = IF b = None THEN @ ELSE Log(p, {Bitmap})]
  /\ UNCHANGED <<data, disk, entry, ip, off, calls, text>>

(* fault: itrunc() forgets the indirect block itself *)
TruncEnd_KeepIndirect(p) ==
  LET i == Inode(p) IN
  /\ At(p, "trunc") /\ \A j \in 0..NDIRECT - 1 : ip[i].addrs[j] = None
  /\ ip[i].addrs[NDIRECT] # None => pv[p].o = NINDIRECT
  /\ ip' = [ip EXCEPT ![i].addrs[NDIRECT] = None, ![i].size = 0, ![i].lock = Free]
  /\ text' = [text EXCEPT ![i] = <<>>]
  /\ pv' = [pv EXCEPT ![p] = Idle]
  /\ UNCHANGED <<bitmap, data, disk, entry, off, panic, calls>>

TruncEnd(p) ==
  LET i == Inode(p) IN
  /\ At(p, "trunc") /\ \A j \in DOMAIN ip[i].addrs : ip[i].addrs[j] = None
  /\ ip' = [ip EXCEPT ![i].size = 0, ![i].lock = Free]
  /\ text' = [text EXCEPT ![i] = <<>>]
  /\ pv' = [pv EXCEPT ![p] = Idle]
  /\ UNCHANGED <<bitmap, data, disk, entry, off, panic, calls>>

(* the file is closed and opened again, at offset 0 *)
Reopen(f) ==
  /\ \A p \in Procs : pv[p].f # f
  /\ off' = [off EXCEPT ![f] = 0]
  /\ UNCHANGED <<fs, pv, panic, calls, text>>

-----------------------------------------------------------------------------
Next == ~panic /\
  \/ \E f \in Opens : Reopen(f)
  \/ \E b \in Data : Recycle(b)
  \/ \E p \in Procs :
       \/ \E f \in Opens : \/ Call(p, f, "trunc", 0)
                           \/ \E n \in WriteSizes[f] : Call(p, f, "write", n)
                           \/ \E n \in ReadSizes[f] : Call(p, f, "read", n)
       \/ ReadBegin(p) \/ WriteBegin(p) \/ TruncBegin(p)
       \/ BmapHit(p) \/ BmapAddr(p) \/ BmapEntry(p) \/ BmapFull(p)
       \/ CopyOut(p) \/ CopyOutFails(p) \/ CopyIn(p)
       \/ \E m \in 0..BSIZE - 1 : CopyInFails(p, m)
       \/ ReadEnd(p) \/ WriteEnd(p)
       \/ TruncAddr(p) \/ TruncEntry(p) \/ TruncEnd(p)

Spec == Init /\ [][Next]_vars

-----------------------------------------------------------------------------
BlockOf(i, bn) ==
  LET a == ip[i].addrs IN
  IF bn < NDIRECT THEN a[bn] ELSE IF a[NDIRECT] = None THEN None ELSE entry[a[NDIRECT]][bn - NDIRECT]

(* When nobody has the inode locked, the file holds exactly the bytes that  *)
(* the writes put there: through direct and indirect blocks, across a full  *)
(* disk, truncation and the other file taking its blocks, in the cache and  *)
(* on the disk.  Where a copy failed half way since the last write, it is   *)
(* one of the bytes that were written, and never one of another file or of  *)
(* a block's earlier life. *)
ContentExact ==
  \A i \in Inums : ip[i].lock = Free =>
    /\ ip[i].size = Len(text[i])
    /\ \A k \in 1..Len(text[i]) :
         LET b == BlockOf(i, (k - 1) \div BSIZE) IN
         b # None /\ {data[b][(k - 1) % BSIZE], disk[b][(k - 1) % BSIZE]} \subseteq text[i][k]

(* read() returns all the bytes from the offset it started from that the    *)
(* file has, up to n, also when two processes share the offset and when     *)
(* another process truncates the file; a negative n is a large one, which   *)
(* wraps. *)
ReadsExact ==
  \A p \in Procs : At(p, "end") /\ pv[p].op = "read" =>
    LET s == text[Inode(p)]
        o == Offset(p)
        left == IF o < Len(s) THEN Len(s) - o ELSE 0
    IN /\ \A k \in 1..Len(pv[p].got) : k <= left /\ pv[p].got[k] \in s[o + k]
       /\ ~pv[p].fail /\ pv[p].n < WORD \div 2 => Len(pv[p].got) = Least(pv[p].n, left)

(* Who uses each block: slots of inodes and entries of indirect blocks, but *)
(* not the entries itrunc() has gone through. *)
Uses(b) ==
  {<<i, k>> \in Inums \X (0..NDIRECT) : ip[i].addrs[k] = b}
  \cup {<<i, NDIRECT + 1 + k>> : <<i, k>> \in {<<i, k>> \in Inums \X (0..NINDIRECT - 1) :
          /\ ip[i].addrs[NDIRECT] # None
          /\ entry[ip[i].addrs[NDIRECT]][k] = b
          /\ ~\E p \in Procs : At(p, "trunc") /\ Inode(p) = i /\ k < pv[p].o}}

(* A block is marked in use exactly when one file uses it, once: none is    *)
(* lost when the disk is full or a copy fails half way, none is shared. *)
BlocksAccounted ==
  \A b \in Data : Cardinality(Uses(b)) = IF b \in bitmap THEN 1 ELSE 0

(* One transaction of filewrite() logs no more blocks than begin_op()       *)
(* reserved for it, at any offset: with the inode, which iupdate() logs. *)
OpFitsLog == \A p \in Procs : Cardinality(pv[p].logged) + 1 <= MAXOPBLOCKS

=============================================================================
