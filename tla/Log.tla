--------------------------------- MODULE Log ---------------------------------
(***************************************************************************)
(* The write-ahead log of log.c, with crashes.                             *)
(*                                                                         *)
(* The disk has the home blocks, the log blocks and the log header; writing*)
(* one block is one step and a crash may come between any two.  The buffer *)
(* cache is what this module needs of bio.c: a cached block that nobody    *)
(* refers to may be evicted, and is read again from its home.              *)
(***************************************************************************)
EXTENDS Naturals, Sequences, FiniteSets

CONSTANTS Threads, Blocks, Vals, None,
          MAXOPBLOCKS,    \* blocks one operation may write
          LOGSIZE,        \* blocks[] of the log header
          LogBlocks       \* log.size: blocks of the log, its header included
ASSUME LogAssumption ==
  /\ MAXOPBLOCKS \in Nat \ {0} /\ LOGSIZE \in Nat /\ LogBlocks \in Nat \ {0}
  /\ None \notin Vals \cup Blocks /\ IsFiniteSet(Threads)

VARIABLES disk, logblk, hd,         \* on disk: home blocks, log blocks, header
          cache, pin,               \* b->data or None; references the log holds
          lh, outstanding, committing, tail,
          pc, blk, wrote,           \* per thread: where it is, the locked buffer, the
                                    \* blocks its operation has written
          sys,                      \* "up", or where recovery is
          panic
ondisk == <<disk, logblk, hd>>
bufs == <<cache, pin>>
log == <<lh, outstanding, committing, tail>>
thread == <<pc, blk, wrote>>
vars == <<ondisk, bufs, log, thread, sys, panic>>

(* an empty log, as mkfs writes it *)
Init ==
  /\ disk \in [Blocks -> Vals] /\ hd = <<>>
  /\ \E v \in Vals : logblk = [i \in 1..LOGSIZE |-> v]
  /\ cache = [b \in Blocks |-> None] /\ pin = [b \in Blocks |-> 0]
  /\ lh = <<>> /\ outstanding = 0 /\ committing = FALSE /\ tail = 1
  /\ pc = [t \in Threads |-> "idle"] /\ blk = [t \in Threads |-> None]
  /\ wrote = [t \in Threads |-> {}]
  /\ sys = "up" /\ panic = "no"

Goto(t, l) == pc' = [pc EXCEPT ![t] = l]
Logged(h) == {h[i] : i \in 1..Len(h)}

(* what bread() returns; bwrite() to the home block; the log's references;  *)
(* brelse() ends the thread's own, and unlocks *)
Cached(b) == IF cache[b] = None THEN disk[b] ELSE cache[b]
bwrite(b, v) == disk' = [disk EXCEPT ![b] = v]
bpin(b) == pin' = [pin EXCEPT ![b] = @ + 1]
bunpin(b) == pin' = [pin EXCEPT ![b] = @ - 1]
brelse(t) == blk' = [blk EXCEPT ![t] = None]

(* wakeup(&log) *)
Woken(c) == [t \in Threads |-> IF c[t] = "sleep" THEN "begin" ELSE c[t]]

-----------------------------------------------------------------------------
Call(t) ==
  /\ pc[t] = "idle" /\ Goto(t, "begin")
  /\ UNCHANGED <<ondisk, bufs, log, blk, wrote, sys, panic>>

(* room for MAXOPBLOCKS of every operation, this one included *)
HasRoom == Len(lh) + (outstanding + 1) * MAXOPBLOCKS <= LOGSIZE

BeginSleeps(t) ==
  /\ pc[t] = "begin" /\ (committing \/ ~HasRoom)
  /\ Goto(t, "sleep")
  /\ UNCHANGED <<ondisk, bufs, log, blk, wrote, sys, panic>>

begin_op(t) ==
  /\ pc[t] = "begin" /\ ~committing /\ HasRoom
  /\ outstanding' = outstanding + 1
  /\ Goto(t, "op")
  /\ UNCHANGED <<ondisk, bufs, lh, committing, tail, blk, wrote, sys, panic>>

(* bread() the block and modify b->data; the buffer stays locked *)
Modify(t, b, v) ==
  /\ pc[t] = "op" /\ \A u \in Threads : blk[u] # b
  /\ b \in wrote[t] \/ Cardinality(wrote[t]) < MAXOPBLOCKS
  /\ cache' = [cache EXCEPT ![b] = v]
  /\ blk' = [blk EXCEPT ![t] = b]
  /\ wrote' = [wrote EXCEPT ![t] = @ \cup {b}]
  /\ Goto(t, "held")
  /\ UNCHANGED <<ondisk, pin, log, sys, panic>>

(* fault: an absorbed block is pinned again *)
log_write_PinAlways(t) ==
  LET b == blk[t]
      full == Len(lh) >= LOGSIZE \/ Len(lh) >= LogBlocks - 1
  IN /\ pc[t] = "held"
     /\ panic' = IF full THEN "too big a transaction" ELSE "no"
     /\ lh' = IF b \in Logged(lh) \/ full THEN lh ELSE Append(lh, b)
     /\ bpin(b)
     /\ brelse(t)
     /\ Goto(t, "op")
     /\ UNCHANGED <<ondisk, cache, outstanding, committing, tail, wrote, sys>>

(* log_write(b), then brelse(b) *)
log_write(t) ==
  LET b == blk[t]
      full == Len(lh) >= LOGSIZE \/ Len(lh) >= LogBlocks - 1
      absorbed == b \in Logged(lh)
  IN /\ pc[t] = "held"
     /\ panic' = IF full THEN "too big a transaction"
                 ELSE IF outstanding < 1 THEN "log_write outside of trans" ELSE "no"
     /\ lh' = IF absorbed \/ full THEN lh ELSE Append(lh, b)
     /\ IF absorbed \/ full THEN UNCHANGED pin ELSE bpin(b)
     /\ brelse(t)
     /\ Goto(t, "op")
     /\ UNCHANGED <<ondisk, cache, outstanding, committing, tail, wrote, sys>>

(* the last operation commits, others wake those who wait for room *)
end_op(t) ==
  LET last == outstanding = 1 IN
  /\ pc[t] = "op"
  /\ outstanding' = outstanding - 1
  /\ panic' = IF committing THEN "log.committing" ELSE "no"
  /\ committing' = (committing \/ last)
  /\ pc' = IF last THEN [pc EXCEPT ![t] = "commit"] ELSE [Woken(pc) EXCEPT ![t] = "idle"]
  /\ wrote' = [wrote EXCEPT ![t] = {}]
  /\ UNCHANGED <<ondisk, bufs, lh, tail, blk, sys>>

-----------------------------------------------------------------------------
(* faults: the header is written before the log blocks; n > 1 for n > 0 *)
commit_HeadFirst(t) ==
  /\ pc[t] = "commit"
  /\ tail' = 1 /\ hd' = lh
  /\ Goto(t, IF lh = <<>> THEN "done" ELSE "write_log")
  /\ UNCHANGED <<disk, logblk, bufs, lh, outstanding, committing, blk, wrote, sys, panic>>
commit_OffByOne(t) ==
  /\ pc[t] = "commit"
  /\ tail' = 1
  /\ Goto(t, IF Len(lh) <= 1 THEN "done" ELSE "write_log")
  /\ UNCHANGED <<ondisk, bufs, lh, outstanding, committing, blk, wrote, sys, panic>>

commit(t) ==
  /\ pc[t] = "commit"
  /\ tail' = 1
  /\ Goto(t, IF lh = <<>> THEN "done" ELSE "write_log")
  /\ UNCHANGED <<ondisk, bufs, lh, outstanding, committing, blk, wrote, sys, panic>>

write_log(t) ==
  /\ pc[t] = "write_log" /\ tail <= Len(lh)
  /\ logblk' = [logblk EXCEPT ![tail] = Cached(lh[tail])]
  /\ tail' = tail + 1
  /\ UNCHANGED <<disk, hd, bufs, lh, outstanding, committing, thread, sys, panic>>

(* the commit point *)
write_head(t) ==
  /\ pc[t] = "write_log" /\ tail > Len(lh)
  /\ hd' = lh
  /\ tail' = 1
  /\ Goto(t, "install")
  /\ UNCHANGED <<disk, logblk, bufs, lh, outstanding, committing, blk, wrote, sys, panic>>

(* one round of install_trans() *)
InstallBlock(recovering) ==
  /\ tail <= Len(lh)
  /\ bwrite(lh[tail], logblk[tail])
  /\ cache' = [cache EXCEPT ![lh[tail]] = logblk[tail]]
  /\ IF recovering THEN UNCHANGED pin ELSE bunpin(lh[tail])
  /\ tail' = tail + 1
  /\ UNCHANGED <<logblk, hd, lh, outstanding, committing, thread, sys, panic>>

install_trans(t) == pc[t] = "install" /\ InstallBlock(FALSE)

(* log.lh.n = 0; write_head() *)
EraseLog(t) ==
  /\ pc[t] = "install" /\ tail > Len(lh)
  /\ lh' = <<>> /\ hd' = <<>>
  /\ tail' = 1
  /\ Goto(t, "done")
  /\ UNCHANGED <<disk, logblk, bufs, outstanding, committing, blk, wrote, sys, panic>>

(* fault: nobody is woken *)
CommitDone_NoWakeup(t) ==
  /\ pc[t] = "done"
  /\ committing' = FALSE /\ Goto(t, "idle")
  /\ UNCHANGED <<ondisk, bufs, lh, outstanding, tail, blk, wrote, sys, panic>>

CommitDone(t) ==
  /\ pc[t] = "done"
  /\ committing' = FALSE
  /\ pc' = [Woken(pc) EXCEPT ![t] = "idle"]
  /\ UNCHANGED <<ondisk, bufs, lh, outstanding, tail, blk, wrote, sys, panic>>

-----------------------------------------------------------------------------
(* memory is lost *)
Crash ==
  /\ cache' = [b \in Blocks |-> None] /\ pin' = [b \in Blocks |-> 0]
  /\ lh' = <<>> /\ outstanding' = 0 /\ committing' = FALSE /\ tail' = 1
  /\ pc' = [t \in Threads |-> "idle"] /\ blk' = [t \in Threads |-> None]
  /\ wrote' = [t \in Threads |-> {}]
  /\ sys' = "read" /\ panic' = "no"
  /\ UNCHANGED ondisk

read_head ==
  /\ sys = "read"
  /\ lh' = hd /\ sys' = "install"
  /\ UNCHANGED <<ondisk, bufs, outstanding, committing, tail, thread, panic>>

RecoverInstall == sys = "install" /\ InstallBlock(TRUE)

RecoverErase ==
  /\ sys = "install" /\ tail > Len(lh)
  /\ lh' = <<>> /\ hd' = <<>> /\ tail' = 1
  /\ sys' = "up"
  /\ UNCHANGED <<disk, logblk, bufs, outstanding, committing, thread, panic>>

-----------------------------------------------------------------------------
(* bget() recycles a buffer without references; bread() reads the home block *)
Evict(b) ==
  /\ cache[b] # None /\ pin[b] = 0 /\ \A t \in Threads : blk[t] # b
  /\ cache' = [cache EXCEPT ![b] = None]
  /\ UNCHANGED <<ondisk, pin, log, thread, sys, panic>>

ReadIn(b) ==
  /\ cache[b] = None
  /\ cache' = [cache EXCEPT ![b] = disk[b]]
  /\ UNCHANGED <<ondisk, pin, log, thread, sys, panic>>

-----------------------------------------------------------------------------
Op(t) == begin_op(t) \/ log_write(t) \/ end_op(t)
CommitStep(t) ==
  commit(t) \/ write_log(t) \/ write_head(t) \/ install_trans(t) \/ EraseLog(t) \/ CommitDone(t)
Recovery == read_head \/ RecoverInstall \/ RecoverErase

Running ==
  \/ \E t \in Threads : Call(t) \/ BeginSleeps(t) \/ Op(t) \/ CommitStep(t)
                          \/ \E b \in Blocks, v \in Vals : Modify(t, b, v)
  \/ \E b \in Blocks : Evict(b) \/ ReadIn(b)

Next ==
  \/ panic = "no" /\ sys = "up" /\ Running
  \/ Recovery
  \/ Crash

Spec == Init /\ [][Next]_vars

(* An operation ends, a commit goes on, and a thread that is not made to    *)
(* sleep again and again takes log.lock. *)
FairSpec ==
  Spec /\ \A t \in Threads : /\ SF_vars(begin_op(t)) /\ SF_vars(end_op(t))
                              /\ WF_vars(log_write(t)) /\ WF_vars(CommitStep(t))

-----------------------------------------------------------------------------
Positions == 1..Len(hd)

(* What recovery would make of the disk. *)
Recovered ==
  [b \in Blocks |-> IF b \in Logged(hd) THEN logblk[CHOOSE i \in Positions : hd[i] = b]
                                        ELSE disk[b]]
InOp == {t \in Threads : pc[t] \in {"op", "held"}}
View == IF sys = "up" THEN [b \in Blocks |-> Cached(b)] ELSE Recovered

TypeOK ==
  /\ disk \in [Blocks -> Vals] /\ logblk \in [1..LOGSIZE -> Vals]
  /\ cache \in [Blocks -> Vals \cup {None}] /\ pin \in [Blocks -> Nat]
  /\ lh \in Seq(Blocks) /\ hd \in Seq(Blocks) /\ Len(lh) <= LOGSIZE
  /\ outstanding \in 0..Cardinality(Threads) /\ committing \in BOOLEAN /\ tail \in 1..LOGSIZE + 1

(* The log implements an atomic disk: the writes of all the operations of a *)
(* transaction become durable at one instant, while no operation is half    *)
(* done, whatever the crashes, also during recovery; until then every       *)
(* reader sees them, though the cache evicts buffers. *)
Disk == INSTANCE AtomicDisk WITH durable <- Recovered, view <- View, inop <- InOp
RefinesAtomicDisk == Disk!Spec

(* When no operation is open and no commit is going on, everything written  *)
(* has reached the disk: a crash now loses nothing. *)
QuietIsDurable ==
  panic = "no" /\ sys = "up" /\ outstanding = 0 /\ ~committing => View = Recovered

(* end_op() and log_write() are never called in the wrong phase: no         *)
(* operation is open while a commit is going on, and the log pins exactly   *)
(* the blocks it has not installed. *)
NoMisuse ==
  /\ panic \notin {"log.committing", "log_write outside of trans"}
  /\ sys = "up" => outstanding = Cardinality(InOp)
  /\ sys = "up" => \A b \in Blocks :
       pin[b] = Cardinality({i \in 1..Len(lh) : lh[i] = b
                                /\ (i >= tail \/ \A t \in Threads : pc[t] # "install")})

(* A caller of begin_op() gets in, though commits and other operations keep *)
(* the log busy, unless the machine crashes. *)
BeginReturns == \A t \in Threads : pc[t] = "begin" ~> pc[t] = "op" \/ sys # "up"
=============================================================================
