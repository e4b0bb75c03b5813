------------------------------ MODULE Log_proofs ------------------------------
(***************************************************************************)
(* For any number of threads, blocks and log places, and whatever the      *)
(* crashes: Log implements AtomicDisk, and its safety properties hold.     *)
(* The inductive invariant says which thread is where in the commit        *)
(* (PhasesOK), what the two headers list (HeadersOK), and how home blocks, *)
(* log blocks and cached blocks agree while the system runs (RunningOK)    *)
(* and while it recovers (RecoveryOK).                                     *)
(***************************************************************************)
EXTENDS Log, Integers, FiniteSetTheorems, TLAPS

CommitPCs == {"commit", "write_log", "install", "done"}
PCs == {"idle", "begin", "sleep", "op", "held"} \cup CommitPCs
Places == {"up", "read", "install"}
Panics == {"no", "too big a transaction"}

TypesOK ==
  /\ disk \in [Blocks -> Vals] /\ logblk \in [1..LOGSIZE -> Vals]
  /\ cache \in [Blocks -> Vals \cup {None}] /\ pin \in [Blocks -> Nat]
  /\ lh \in Seq(Blocks) /\ hd \in Seq(Blocks)
  /\ outstanding \in Nat /\ committing \in BOOLEAN /\ tail \in Nat
  /\ pc \in [Threads -> PCs] /\ blk \in [Threads -> Blocks \cup {None}]
  /\ sys \in Places /\ panic \in Panics

(* One thread commits, and then no operation is open; the buffers that are  *)
(* locked belong to operations, one each. *)
PhasesOK ==
  /\ outstanding = Cardinality(InOp)
  /\ \A t \in Threads : pc[t] \in CommitPCs => committing
  /\ committing => InOp = {}
  /\ \A t, u \in Threads : pc[t] \in CommitPCs /\ pc[u] \in CommitPCs => t = u
  /\ sys # "up" => ~committing /\ \A t \in Threads : pc[t] = "idle"
  /\ \A t \in Threads : blk[t] # None <=> pc[t] = "held"
  /\ \A t, u \in Threads : blk[t] = blk[u] /\ blk[t] # None => t = u

Distinct(s) == \A i, j \in 1..Len(s) : s[i] = s[j] => i = j

(* No block is in a header twice, and the loops stay inside it. *)
HeadersOK ==
  /\ Distinct(lh) /\ Distinct(hd)
  /\ Len(lh) <= LOGSIZE /\ Len(hd) <= LOGSIZE
  /\ tail >= 1 /\ tail <= Len(lh) + 1

Installing == \E t \in Threads : pc[t] = "install"
WritingLog == \E t \in Threads : pc[t] = "write_log"

(* The places of lh that are not installed yet. *)
Uninstalled == {i \in 1..Len(lh) : Installing => i >= tail}
Dirty(b) == \E i \in Uninstalled : lh[i] = b
Locked(b) == \E t \in Threads : blk[t] = b

(* The header on disk is empty except while its blocks are installed, when  *)
(* the log blocks have what readers see.  A block that is not in the log    *)
(* and not being changed is cached as it is on disk; the others are pinned. *)
RunningOK ==
  /\ ~Installing => hd = <<>>
  /\ Installing => hd = lh /\ \A i \in 1..Len(lh) : logblk[i] = Cached(lh[i])
  /\ Installing => \A i \in 1..tail - 1 : disk[lh[i]] = logblk[i]
  /\ WritingLog => \A i \in 1..tail - 1 : logblk[i] = Cached(lh[i])
  /\ lh # <<>> => InOp # {} \/ committing
  /\ \A t \in Threads : pc[t] = "done" => lh = <<>>
  /\ \A b \in Blocks : pin[b] = IF Dirty(b) THEN 1 ELSE 0
  /\ \A b \in Blocks : Dirty(b) \/ Locked(b) => cache[b] # None
  /\ panic = "no" => \A b \in Blocks : Dirty(b) \/ Locked(b) \/ cache[b] \in {None, disk[b]}

(* Recovery has installed the blocks below tail, and caches only what is on *)
(* disk. *)
RecoveryOK ==
  /\ panic = "no"
  /\ lh = IF sys = "read" THEN <<>> ELSE hd
  /\ \A i \in 1..tail - 1 : disk[lh[i]] = logblk[i]
  /\ \A b \in Blocks : pin[b] = 0 /\ cache[b] \in {None, disk[b]}

LogInvariant ==
  /\ TypesOK /\ PhasesOK /\ HeadersOK
  /\ IF sys = "up" THEN RunningOK ELSE RecoveryOK
-----------------------------------------------------------------------------
(* The initial state: an empty log, nothing cached. *)
LEMMA LogInit == Init => LogInvariant
<1> SUFFICES ASSUME Init PROVE LogInvariant
  BY Zenon
<1> USE LogAssumption
<1>0. /\ logblk \in [1..LOGSIZE -> Vals] /\ committing \in BOOLEAN
      /\ pc \in [Threads -> PCs] /\ blk \in [Threads -> Blocks \cup {None}]
  BY Zenon DEF Init, PCs
<1>1. TypesOK
  BY <1>0 DEF Init, TypesOK, Places, Panics
<1>2. InOp = {}
  BY Zenon DEF Init, InOp
<1>3. PhasesOK
  BY Zenon, <1>2, FS_EmptySet DEF Init, PhasesOK, CommitPCs
<1>4. HeadersOK
  BY DEF Init, HeadersOK, Distinct
<1>5. RunningOK
  BY <1>2 DEF Init, RunningOK, Installing, WritingLog, Dirty, Locked, Uninstalled
<1> QED BY Zenon, <1>1, <1>3, <1>4, <1>5 DEF LogInvariant, Init

(* Opening and closing an operation change their number by one. *)
LEMMA OneMore == ASSUME NEW t \in Threads, t \notin InOp
                 PROVE Cardinality(InOp \cup {t}) = Cardinality(InOp) + 1
<1>1. IsFiniteSet(InOp)
  BY Zenon, LogAssumption, FS_Subset DEF InOp
<1> QED BY Zenon, <1>1, FS_AddElement

LEMMA OneLess == ASSUME NEW t \in InOp
                 PROVE /\ Cardinality(InOp \ {t}) = Cardinality(InOp) - 1
                       /\ Cardinality(InOp) \in Nat \ {0}
                       /\ Cardinality(InOp) = 1 => InOp = {t}
<1>1. IsFiniteSet(InOp) /\ IsFiniteSet(InOp \ {t})
  BY Zenon, LogAssumption, FS_Subset DEF InOp
<1>2. Cardinality(InOp \ {t}) = Cardinality(InOp) - 1
  BY Zenon, <1>1, FS_RemoveElement
<1>3. Cardinality(InOp) \in Nat /\ Cardinality(InOp \ {t}) \in Nat
  BY Zenon, <1>1, FS_CardinalityType
<1>4. Cardinality(InOp \ {t}) = 0 => InOp \ {t} = {}
  BY Zenon, <1>1, FS_EmptySet
<1> QED BY <1>2, <1>3, <1>4

-----------------------------------------------------------------------------
(* Steps of one thread that leave the blocks and the headers alone. *)
LEMMA RunningFrame ==
  ASSUME RunningOK, UNCHANGED <<disk, logblk, hd, cache, pin, lh, tail, blk, panic>>,
         Installing' <=> Installing, WritingLog' <=> WritingLog,
         lh # <<>> => InOp' # {} \/ committing',
         \A u \in Threads : pc'[u] = "done" => lh = <<>>
  PROVE  RunningOK'
<1>1. /\ Uninstalled' = Uninstalled
      /\ \A b : (Dirty(b)' <=> Dirty(b)) /\ (Locked(b)' <=> Locked(b)) /\ Cached(b)' = Cached(b)
  BY Zenon DEF Uninstalled, Dirty, Locked, Cached
<1> QED BY Zenon, <1>1 DEF RunningOK

LEMMA CallKeeps == ASSUME NEW t \in Threads, LogInvariant, sys = "up", Call(t) \/ BeginSleeps(t)
                   PROVE LogInvariant'
<1>0. PICK l \in {"begin", "sleep"} :
        /\ pc[t] \in {"idle", "begin"} /\ pc' = [pc EXCEPT ![t] = l]
        /\ UNCHANGED <<ondisk, bufs, log, blk, wrote, sys, panic>>
  BY Zenon DEF Call, BeginSleeps, Goto
<1>1. InOp' = InOp /\ (Installing' <=> Installing) /\ (WritingLog' <=> WritingLog)
  BY Zenon, <1>0 DEF InOp, Installing, WritingLog, LogInvariant, TypesOK
<1>2. TypesOK'
  BY Zenon, <1>0 DEF LogInvariant, TypesOK, PCs, ondisk, bufs, log
<1>3. PhasesOK'
  <2>1. \A u \in Threads : (pc'[u] \in CommitPCs) <=> (pc[u] \in CommitPCs)
    BY Zenon, <1>0 DEF LogInvariant, TypesOK, CommitPCs
  <2>2. \A u \in Threads : (pc'[u] = "held") <=> (pc[u] = "held")
    BY Zenon, <1>0 DEF LogInvariant, TypesOK
  <2>3. UNCHANGED <<outstanding, committing, blk, sys>>
    BY Zenon, <1>0 DEF log
  <2> QED BY Zenon, <1>1, <2>1, <2>2, <2>3 DEF LogInvariant, PhasesOK
<1>4. HeadersOK'
  BY Zenon, <1>0 DEF LogInvariant, HeadersOK, Distinct, ondisk, log
<1>5. \A u \in Threads : pc'[u] = "done" => pc[u] = "done"
  BY Zenon, <1>0 DEF LogInvariant, TypesOK
<1>6. RunningOK'
  BY Zenon, <1>0, <1>1, <1>5, RunningFrame DEF LogInvariant, RunningOK, ondisk, bufs, log
<1> QED BY Zenon, <1>2, <1>3, <1>4, <1>6, <1>0 DEF LogInvariant

LEMMA BeginKeeps == ASSUME NEW t \in Threads, LogInvariant, sys = "up", begin_op(t)
                    PROVE LogInvariant'
<1>1. InOp' = InOp \cup {t} /\ t \notin InOp
  BY Zenon DEF begin_op, InOp, LogInvariant, TypesOK, Goto
<1>2. (Installing' <=> Installing) /\ (WritingLog' <=> WritingLog)
  BY Zenon DEF begin_op, Installing, WritingLog, LogInvariant, TypesOK, Goto
<1>3. TypesOK'
  <2>1. outstanding' \in Nat
    BY DEF begin_op, LogInvariant, TypesOK
  <2>2. pc' \in [Threads -> PCs]
    BY Zenon DEF begin_op, LogInvariant, TypesOK, Goto, PCs
  <2> QED BY Zenon, <2>1, <2>2 DEF begin_op, LogInvariant, TypesOK, ondisk, bufs
<1>4. PhasesOK'
  BY Zenon, <1>1, OneMore DEF begin_op, LogInvariant, TypesOK, PhasesOK, Goto, CommitPCs
<1>5. HeadersOK'
  BY Zenon DEF begin_op, LogInvariant, HeadersOK, Distinct, ondisk
<1>6. \A u \in Threads : pc'[u] = "done" => pc[u] = "done"
  BY Zenon DEF begin_op, LogInvariant, TypesOK, Goto
<1>7. RunningOK'
  BY Zenon, <1>1, <1>2, <1>6, RunningFrame DEF begin_op, LogInvariant, RunningOK, ondisk, bufs
<1> QED BY Zenon, <1>3, <1>4, <1>5, <1>7 DEF LogInvariant, begin_op

(* A locked buffer is changed in the cache only. *)
LEMMA ModifyKeeps ==
  ASSUME NEW t \in Threads, NEW b \in Blocks, NEW v \in Vals, LogInvariant, sys = "up", Modify(t, b, v)
  PROVE  LogInvariant'
<1> USE LogAssumption
<1>1. InOp' = InOp /\ t \in InOp /\ ~committing
  BY Zenon DEF Modify, InOp, LogInvariant, PhasesOK, TypesOK, Goto
<1>2. ~Installing /\ ~WritingLog /\ ~Installing' /\ ~WritingLog'
  BY Zenon, <1>1 DEF Modify, Installing, WritingLog, LogInvariant, PhasesOK, CommitPCs, TypesOK, Goto
<1>3. TypesOK'
  BY Zenon DEF Modify, LogInvariant, TypesOK, Goto, PCs, ondisk, log
<1>4. PhasesOK'
  BY Zenon, <1>1 DEF Modify, LogInvariant, TypesOK, PhasesOK, Goto, CommitPCs, log
<1>5. HeadersOK'
  BY Zenon DEF Modify, LogInvariant, HeadersOK, Distinct, ondisk, log
<1>6. /\ \A c : Dirty(c)' = Dirty(c)
      /\ \A c \in Blocks : Locked(c)' = (Locked(c) \/ c = b)
  BY Zenon, <1>2 DEF Modify, Dirty, Uninstalled, Locked, LogInvariant, TypesOK, PhasesOK, log
<1>7. RunningOK'
  BY Zenon, <1>1, <1>2, <1>6 DEF Modify, LogInvariant, TypesOK, RunningOK, Goto, ondisk, log
<1> QED BY Zenon, <1>3, <1>4, <1>5, <1>7 DEF LogInvariant, Modify

(* log_write() finds its block in the log, or puts it at the end. *)
LEMMA AppendDistinct ==
  ASSUME NEW s \in Seq(Blocks), NEW b \in Blocks, Distinct(s), b \notin Logged(s)
  PROVE  /\ Append(s, b) \in Seq(Blocks) /\ Distinct(Append(s, b))
         /\ Len(Append(s, b)) = Len(s) + 1
         /\ Logged(Append(s, b)) = Logged(s) \cup {b}
<1>1. /\ Append(s, b) \in Seq(Blocks) /\ Len(Append(s, b)) = Len(s) + 1 /\ Len(s) \in Nat
      /\ \A i \in 1..Len(s) + 1 : Append(s, b)[i] = IF i <= Len(s) THEN s[i] ELSE b
  OBVIOUS
<1>2. Logged(Append(s, b)) = Logged(s) \cup {b}
  <2>1. \A x \in Logged(Append(s, b)) : x \in Logged(s) \cup {b}
    BY <1>1 DEF Logged
  <2>2. \A x \in Logged(s) : x \in Logged(Append(s, b))
    BY <1>1 DEF Logged
  <2>3. Len(s) + 1 \in 1..Len(Append(s, b)) /\ Append(s, b)[Len(s) + 1] = b
    BY <1>1
  <2>4. b \in Logged(Append(s, b))
    BY Zenon, <2>3 DEF Logged
  <2> QED BY Zenon, <2>1, <2>2, <2>4
<1>3. Distinct(Append(s, b))
  BY <1>1 DEF Distinct, Logged
<1> QED BY Zenon, <1>1, <1>2, <1>3

LEMMA WriteKeeps ==
  ASSUME NEW t \in Threads, LogInvariant, sys = "up", panic = "no", log_write(t)
  PROVE  LogInvariant'
<1> DEFINE b == blk[t]
           full == Len(lh) >= LOGSIZE \/ Len(lh) >= LogBlocks - 1
           absorbed == b \in Logged(lh)
<1> USE LogAssumption
<1>1. InOp' = InOp /\ t \in InOp /\ ~committing
  BY Zenon DEF log_write, InOp, LogInvariant, PhasesOK, TypesOK, Goto
<1>2. outstanding >= 1 /\ outstanding \in Nat
  <2>1. outstanding = Cardinality(InOp)
    BY Zenon DEF LogInvariant, PhasesOK
  <2>2. Cardinality(InOp) \in Nat \ {0}
    BY Zenon, <1>1, OneLess
  <2> QED BY <2>1, <2>2
<1>3. ~Installing /\ ~WritingLog /\ ~Installing' /\ ~WritingLog'
  BY Zenon, <1>1 DEF log_write, Installing, WritingLog, LogInvariant, PhasesOK, CommitPCs, TypesOK, Goto
<1>4. b \in Blocks /\ Locked(b) /\ cache[b] # None
  <2>1. b \in Blocks
    BY Zenon DEF log_write, LogInvariant, PhasesOK, TypesOK
  <2> QED BY Zenon, <2>1 DEF Locked, LogInvariant, RunningOK
<1>5. /\ blk' = [blk EXCEPT ![t] = None] /\ pc' = [pc EXCEPT ![t] = "op"] /\ pc[t] = "held"
      /\ UNCHANGED <<disk, logblk, hd, cache, outstanding, committing, tail, wrote, sys>>
  BY Zenon DEF log_write, brelse, Goto, ondisk
<1>6. /\ panic' \in Panics
      /\ panic' = "no" => ~full
  <2>1. CASE full
    BY Zenon, <2>1 DEF log_write, Panics
  <2>2. CASE ~full
    <3>1. ~(outstanding < 1)
      BY <1>2
    <3> QED BY Zenon, <2>2, <3>1 DEF log_write, Panics
  <2> QED BY Zenon, <2>1, <2>2
<1>7. /\ lh' \in Seq(Blocks) /\ Distinct(lh') /\ Len(lh') <= LOGSIZE /\ Len(lh') >= Len(lh)
      /\ pin' = IF absorbed \/ full THEN pin ELSE [pin EXCEPT ![b] = @ + 1]
      /\ Logged(lh') = IF absorbed \/ full THEN Logged(lh) ELSE Logged(lh) \cup {b}
  <2>1. lh \in Seq(Blocks) /\ Distinct(lh) /\ Len(lh) <= LOGSIZE /\ Len(lh) \in Nat
    BY DEF LogInvariant, TypesOK, HeadersOK
  <2>2. CASE absorbed \/ full
    <3>1. lh' = lh /\ pin' = pin
      BY Zenon, <2>2 DEF log_write
    <3> QED BY <2>1, <2>2, <3>1
  <2>3. CASE ~absorbed /\ ~full
    <3>1. lh' = Append(lh, b) /\ pin' = [pin EXCEPT ![b] = @ + 1]
      BY Zenon, <2>3 DEF log_write, bpin
    <3>2. Len(lh) + 1 <= LOGSIZE
      BY <2>1, <2>3
    <3>3. /\ lh' \in Seq(Blocks) /\ Distinct(lh') /\ Len(lh') = Len(lh) + 1
          /\ Logged(lh') = Logged(lh) \cup {b}
      BY Zenon, <1>4, <2>1, <2>3, <3>1, AppendDistinct
    <3> QED BY <2>1, <2>3, <3>1, <3>2, <3>3
  <2> QED BY Zenon, <2>2, <2>3
<1>8. TypesOK'
  <2>1. pin' \in [Blocks -> Nat]
    BY <1>4, <1>7 DEF LogInvariant, TypesOK
  <2>2. pc' \in [Threads -> PCs] /\ blk' \in [Threads -> Blocks \cup {None}]
    BY Zenon, <1>5 DEF LogInvariant, TypesOK, PCs
  <2> QED BY Zenon, <1>5, <1>6, <1>7, <2>1, <2>2 DEF LogInvariant, TypesOK
<1>9. PhasesOK'
  BY Zenon, <1>1, <1>5 DEF LogInvariant, TypesOK, PhasesOK, CommitPCs
<1>10. HeadersOK'
  BY <1>5, <1>7 DEF LogInvariant, TypesOK, HeadersOK, Distinct
<1>11. /\ \A c \in Blocks : Dirty(c) <=> c \in Logged(lh)
       /\ \A c \in Blocks : Dirty(c)' <=> c \in Logged(lh')
  BY Zenon, <1>3 DEF Dirty, Uninstalled, Logged
<1>12. \A c \in Blocks : Locked(c)' <=> (Locked(c) /\ c # b)
  BY Zenon, <1>4, <1>5 DEF Locked, LogInvariant, TypesOK, PhasesOK
<1>13. RunningOK'
  <2>1. \A c \in Blocks : pin'[c] = IF Dirty(c)' THEN 1 ELSE 0
    BY <1>4, <1>7, <1>11 DEF LogInvariant, RunningOK, TypesOK
  <2>2. \A c \in Blocks : (Dirty(c) \/ Locked(c))' => cache'[c] # None
    BY Zenon, <1>4, <1>5, <1>7, <1>11, <1>12 DEF LogInvariant, RunningOK
  <2>3. panic' = "no" => \A c \in Blocks : (Dirty(c) \/ Locked(c))' \/ cache'[c] \in {None, disk'[c]}
    BY Zenon, <1>4, <1>5, <1>6, <1>7, <1>11, <1>12 DEF LogInvariant, RunningOK
  <2>4. \A u \in Threads : pc'[u] = "done" => FALSE
    BY Zenon, <1>1, <1>5 DEF LogInvariant, TypesOK, PhasesOK, CommitPCs
  <2> QED BY Zenon, <1>1, <1>3, <1>5, <2>1, <2>2, <2>3, <2>4 DEF LogInvariant, RunningOK
<1> QED BY Zenon, <1>5, <1>8, <1>9, <1>10, <1>13 DEF LogInvariant

(* The last end_op() starts the commit. *)
LEMMA EndKeeps ==
  ASSUME NEW t \in Threads, LogInvariant, sys = "up", panic = "no", end_op(t)
  PROVE  LogInvariant'
<1> DEFINE last == outstanding = 1
<1>1. /\ InOp' = InOp \ {t} /\ t \in InOp /\ ~committing
      /\ \A u \in Threads : pc[u] \notin CommitPCs
  BY Zenon DEF end_op, InOp, LogInvariant, PhasesOK, TypesOK, Woken
<1>2. /\ outstanding' = Cardinality(InOp') /\ outstanding \in Nat \ {0}
      /\ last => InOp' = {}
      /\ ~last => InOp' # {}
  <2>1. InOp' = {} => Cardinality(InOp') = 0
    BY Zenon, FS_EmptySet
  <2> QED BY <1>1, <2>1, OneLess DEF end_op, LogInvariant, PhasesOK
<1>3. /\ ~last => \A u \in Threads : pc'[u] \notin CommitPCs
      /\ last => \A u \in Threads : pc'[u] \in CommitPCs <=> u = t
      /\ last => pc'[t] = "commit"
      /\ \A u \in Threads : pc'[u] = "held" <=> pc[u] = "held"
      /\ pc' \in [Threads -> PCs]
  BY Zenon, <1>1 DEF end_op, Woken, LogInvariant, TypesOK, CommitPCs, PCs
<1>4. ~Installing /\ ~WritingLog /\ ~Installing' /\ ~WritingLog'
  BY Zenon, <1>1, <1>3 DEF Installing, WritingLog, CommitPCs
<1>5. /\ committing' = last /\ panic' = "no"
      /\ UNCHANGED <<disk, logblk, hd, cache, pin, lh, tail, blk, sys>>
  BY Zenon, <1>1 DEF end_op, ondisk, bufs
<1>6. TypesOK'
  BY <1>2, <1>3, <1>5 DEF end_op, LogInvariant, TypesOK
<1>7. PhasesOK'
  BY Zenon, <1>1, <1>2, <1>3, <1>5 DEF LogInvariant, PhasesOK
<1>8. HeadersOK'
  BY Zenon, <1>5 DEF LogInvariant, HeadersOK, Distinct
<1>9. RunningOK'
  <2>1. \A u \in Threads : pc'[u] = "done" => FALSE
    BY Zenon, <1>3 DEF CommitPCs
  <2>2. InOp' # {} \/ committing'
    BY Zenon, <1>2, <1>5
  <2>3. UNCHANGED <<disk, logblk, hd, cache, pin, lh, tail, blk, panic>>
    BY Zenon, <1>5
  <2> QED BY Zenon, <1>4, <2>1, <2>2, <2>3, RunningFrame DEF LogInvariant
<1> QED BY Zenon, <1>5, <1>6, <1>7, <1>8, <1>9 DEF LogInvariant

-----------------------------------------------------------------------------
(* The commit: the log blocks, the header, the home blocks, the empty header. *)
LEMMA CommitKeeps == ASSUME NEW t \in Threads, LogInvariant, sys = "up", commit(t)
                     PROVE LogInvariant'
<1>1. PICK l \in {"done", "write_log"} :
        /\ l = "done" => lh = <<>>
        /\ pc' = [pc EXCEPT ![t] = l] /\ pc[t] = "commit" /\ tail' = 1
        /\ UNCHANGED <<disk, logblk, hd, cache, pin, lh, outstanding, committing, blk, wrote, sys, panic>>
  BY Zenon DEF commit, Goto, ondisk, bufs
<1>2. /\ committing /\ InOp' = InOp /\ ~Installing /\ ~Installing'
      /\ \A u \in Threads : (pc'[u] \in CommitPCs) <=> (pc[u] \in CommitPCs)
      /\ \A u \in Threads : (pc'[u] = "held") <=> (pc[u] = "held")
  BY Zenon, <1>1 DEF LogInvariant, TypesOK, PhasesOK, InOp, Installing, CommitPCs
<1>3. TypesOK'
  BY Zenon, <1>1 DEF LogInvariant, TypesOK, PCs, CommitPCs
<1>4. PhasesOK'
  BY Zenon, <1>1, <1>2 DEF LogInvariant, PhasesOK
<1>5. HeadersOK'
  BY <1>1 DEF LogInvariant, TypesOK, HeadersOK, Distinct
<1>6. RunningOK'
  <2>1. \A b : (Dirty(b)' <=> Dirty(b)) /\ (Locked(b)' <=> Locked(b))
    BY Zenon, <1>1, <1>2 DEF Uninstalled, Dirty, Locked
  <2>2. \A u \in Threads : pc'[u] = "done" => lh' = <<>>
    BY Zenon, <1>1 DEF LogInvariant, TypesOK, RunningOK
  <2>3. 1..tail' - 1 = {}
    BY <1>1
  <2> QED BY Zenon, <1>1, <1>2, <2>1, <2>2, <2>3 DEF LogInvariant, RunningOK
<1> QED BY Zenon, <1>1, <1>3, <1>4, <1>5, <1>6 DEF LogInvariant

LEMMA WriteLogKeeps == ASSUME NEW t \in Threads, LogInvariant, sys = "up", write_log(t)
                       PROVE LogInvariant'
<1>1. /\ pc[t] = "write_log" /\ tail <= Len(lh) /\ tail' = tail + 1
      /\ logblk' = [logblk EXCEPT ![tail] = Cached(lh[tail])]
      /\ UNCHANGED <<disk, hd, cache, pin, lh, outstanding, committing, pc, blk, wrote, sys, panic>>
  BY Zenon DEF write_log, thread, bufs
<1>2. ~Installing /\ ~Installing' /\ WritingLog /\ InOp' = InOp
  BY Zenon, <1>1 DEF LogInvariant, PhasesOK, Installing, WritingLog, CommitPCs, InOp
<1>3. /\ lh \in Seq(Blocks) /\ Len(lh) \in Nat /\ tail \in 1..Len(lh) /\ tail \in 1..LOGSIZE
      /\ LOGSIZE \in Nat
  BY <1>1, LogAssumption DEF LogInvariant, TypesOK, HeadersOK
<1>4. Cached(lh[tail]) \in Vals
  BY <1>3 DEF LogInvariant, TypesOK, Cached
<1>5. TypesOK'
  BY <1>1, <1>3, <1>4 DEF LogInvariant, TypesOK
<1>6. PhasesOK'
  BY Zenon, <1>1, <1>2 DEF LogInvariant, PhasesOK
<1>7. HeadersOK'
  BY <1>1, <1>3 DEF LogInvariant, HeadersOK, Distinct
<1>8. RunningOK'
  <2>1. \A b : (Dirty(b)' <=> Dirty(b)) /\ (Locked(b)' <=> Locked(b)) /\ Cached(b)' = Cached(b)
    BY Zenon, <1>1, <1>2 DEF Uninstalled, Dirty, Locked, Cached
  <2>2. \A i \in 1..tail' - 1 : logblk'[i] = Cached(lh[i])
    BY <1>1, <1>2, <1>3 DEF LogInvariant, TypesOK, RunningOK
  <2> QED BY Zenon, <1>1, <1>2, <2>1, <2>2 DEF LogInvariant, RunningOK
<1> QED BY Zenon, <1>1, <1>5, <1>6, <1>7, <1>8 DEF LogInvariant

LEMMA WriteHeadKeeps == ASSUME NEW t \in Threads, LogInvariant, sys = "up", write_head(t)
                        PROVE LogInvariant'
<1>1. /\ pc[t] = "write_log" /\ tail > Len(lh) /\ tail' = 1 /\ hd' = lh
      /\ pc' = [pc EXCEPT ![t] = "install"]
      /\ UNCHANGED <<disk, logblk, cache, pin, lh, outstanding, committing, blk, wrote, sys, panic>>
  BY Zenon DEF write_head, Goto, bufs
<1>2. /\ committing /\ InOp' = InOp /\ ~Installing /\ Installing' /\ WritingLog /\ ~WritingLog'
      /\ \A u \in Threads : (pc'[u] \in CommitPCs) <=> (pc[u] \in CommitPCs)
      /\ \A u \in Threads : (pc'[u] = "held") <=> (pc[u] = "held")
      /\ \A u \in Threads : pc'[u] # "done"
  BY Zenon, <1>1 DEF LogInvariant, TypesOK, PhasesOK, InOp, Installing, WritingLog, CommitPCs
<1>3. lh \in Seq(Blocks) /\ Len(lh) \in Nat /\ tail = Len(lh) + 1
  <2>1. lh \in Seq(Blocks) /\ tail \in Nat /\ tail <= Len(lh) + 1
    BY Zenon DEF LogInvariant, TypesOK, HeadersOK
  <2> QED BY <1>1, <2>1
<1>4. TypesOK'
  BY Zenon, <1>1 DEF LogInvariant, TypesOK, PCs, CommitPCs
<1>5. PhasesOK'
  BY <1>1, <1>2 DEF LogInvariant, PhasesOK
<1>6. HeadersOK'
  BY <1>1, <1>3 DEF LogInvariant, HeadersOK, Distinct
<1>7. RunningOK'
  <2>1. \A b : (Dirty(b)' <=> Dirty(b)) /\ (Locked(b)' <=> Locked(b)) /\ Cached(b)' = Cached(b)
    BY <1>1, <1>2, <1>3 DEF Uninstalled, Dirty, Locked, Cached
  <2>2. \A i \in 1..Len(lh) : logblk[i] = Cached(lh[i])
    BY <1>1, <1>2, <1>3 DEF LogInvariant, RunningOK
  <2>3. 1..tail' - 1 = {}
    BY <1>1
  <2> QED BY Zenon, <1>1, <1>2, <2>1, <2>2, <2>3 DEF LogInvariant, RunningOK
<1> QED BY Zenon, <1>1, <1>4, <1>5, <1>6, <1>7 DEF LogInvariant

(* One round of install_trans(), in a commit. *)
LEMMA InstallKeeps == ASSUME NEW t \in Threads, LogInvariant, sys = "up", install_trans(t)
                      PROVE LogInvariant'
<1> DEFINE b == lh[tail]
<1>1. /\ pc[t] = "install" /\ tail <= Len(lh) /\ tail' = tail + 1
      /\ disk' = [disk EXCEPT ![b] = logblk[tail]]
      /\ cache' = [cache EXCEPT ![b] = logblk[tail]]
      /\ pin' = [pin EXCEPT ![b] = @ - 1]
      /\ UNCHANGED <<logblk, hd, lh, outstanding, committing, pc, blk, wrote, sys, panic>>
  BY Zenon DEF install_trans, InstallBlock, bwrite, bunpin, thread
<1>2. Installing /\ Installing' /\ ~WritingLog' /\ InOp' = InOp /\ hd = lh /\ committing
  BY Zenon, <1>1 DEF LogInvariant, PhasesOK, RunningOK, Installing, WritingLog, CommitPCs, InOp
<1>3. /\ lh \in Seq(Blocks) /\ Len(lh) \in Nat /\ tail \in 1..Len(lh) /\ tail \in 1..LOGSIZE
      /\ LOGSIZE \in Nat /\ b \in Blocks /\ logblk[tail] \in Vals /\ None \notin Vals
  BY <1>1, LogAssumption DEF LogInvariant, TypesOK, HeadersOK
<1>4. Distinct(lh)
  BY Zenon DEF LogInvariant, HeadersOK
<1>5. Dirty(b) /\ \A c : Dirty(c)' <=> (Dirty(c) /\ c # b)
  BY <1>1, <1>2, <1>3, <1>4 DEF Dirty, Uninstalled, Distinct
<1>6. TypesOK'
  <2>1. pin[b] = 1
    BY Zenon, <1>3, <1>5 DEF LogInvariant, RunningOK
  <2> QED BY <1>1, <1>3, <2>1 DEF LogInvariant, TypesOK
<1>7. PhasesOK'
  BY Zenon, <1>1, <1>2 DEF LogInvariant, PhasesOK
<1>8. HeadersOK'
  BY <1>1, <1>3 DEF LogInvariant, HeadersOK, Distinct
<1>9. RunningOK'
  <2>1. \A c : Locked(c)' <=> Locked(c)
    BY Zenon, <1>1 DEF Locked
  <2>2. \A i \in 1..Len(lh) : Cached(lh[i])' = Cached(lh[i])
    BY <1>1, <1>2, <1>3 DEF LogInvariant, TypesOK, RunningOK, Cached
  <2>3. \A i \in 1..tail' - 1 : disk'[lh[i]] = logblk[i]
    BY <1>1, <1>2, <1>3, <1>4 DEF LogInvariant, TypesOK, RunningOK, Distinct
  <2>4. \A c \in Blocks : pin'[c] = IF Dirty(c)' THEN 1 ELSE 0
    BY <1>1, <1>3, <1>5 DEF LogInvariant, TypesOK, RunningOK
  <2>5. \A c \in Blocks : (Dirty(c) \/ Locked(c))' => cache'[c] # None
    BY Zenon, <1>1, <1>3, <1>5, <2>1 DEF LogInvariant, TypesOK, RunningOK
  <2>6. panic' = "no" => \A c \in Blocks : (Dirty(c) \/ Locked(c))' \/ cache'[c] \in {None, disk'[c]}
    BY Zenon, <1>1, <1>3, <1>5, <2>1 DEF LogInvariant, TypesOK, RunningOK
  <2> QED BY <1>1, <1>2, <2>2, <2>3, <2>4, <2>5, <2>6 DEF LogInvariant, RunningOK
<1> QED BY Zenon, <1>1, <1>6, <1>7, <1>8, <1>9 DEF LogInvariant

LEMMA EraseKeeps == ASSUME NEW t \in Threads, LogInvariant, sys = "up", EraseLog(t)
                    PROVE LogInvariant'
<1>1. /\ pc[t] = "install" /\ tail > Len(lh) /\ tail' = 1 /\ hd' = <<>> /\ lh' = <<>>
      /\ pc' = [pc EXCEPT ![t] = "done"]
      /\ UNCHANGED <<disk, logblk, cache, pin, outstanding, committing, blk, wrote, sys, panic>>
  BY Zenon DEF EraseLog, Goto, bufs
<1>2. /\ committing /\ InOp' = InOp /\ Installing /\ ~Installing' /\ ~WritingLog'
      /\ \A u \in Threads : (pc'[u] \in CommitPCs) <=> (pc[u] \in CommitPCs)
      /\ \A u \in Threads : (pc'[u] = "held") <=> (pc[u] = "held")
  BY Zenon, <1>1 DEF LogInvariant, TypesOK, PhasesOK, InOp, Installing, WritingLog, CommitPCs
<1>3. lh \in Seq(Blocks) /\ Len(lh) \in Nat /\ tail = Len(lh) + 1
  BY <1>1 DEF LogInvariant, TypesOK, HeadersOK
<1>4. TypesOK'
  BY <1>1 DEF LogInvariant, TypesOK, PCs, CommitPCs
<1>5. PhasesOK'
  BY <1>1, <1>2 DEF LogInvariant, PhasesOK
<1>6. HeadersOK'
  BY <1>1, LogAssumption DEF HeadersOK, Distinct
<1>7. RunningOK'
  <2>1. \A b : ~Dirty(b) /\ ~Dirty(b)' /\ (Locked(b)' <=> Locked(b))
    BY <1>1, <1>2, <1>3 DEF Uninstalled, Dirty, Locked
  <2> QED BY Zenon, <1>1, <1>2, <2>1 DEF LogInvariant, RunningOK
<1> QED BY Zenon, <1>1, <1>4, <1>5, <1>6, <1>7 DEF LogInvariant

LEMMA DoneKeeps == ASSUME NEW t \in Threads, LogInvariant, sys = "up", CommitDone(t)
                   PROVE LogInvariant'
<1>1. /\ pc[t] = "done" /\ committing' = FALSE /\ pc' = [Woken(pc) EXCEPT ![t] = "idle"]
      /\ UNCHANGED <<disk, logblk, hd, cache, pin, lh, outstanding, tail, blk, wrote, sys, panic>>
  BY Zenon DEF CommitDone, ondisk, bufs
<1>2. /\ InOp' = InOp /\ pc' \in [Threads -> PCs] /\ lh = <<>>
      /\ \A u \in Threads : pc'[u] \notin CommitPCs
      /\ \A u \in Threads : (pc'[u] = "held") <=> (pc[u] = "held")
  BY Zenon, <1>1 DEF LogInvariant, TypesOK, PhasesOK, RunningOK, InOp, Woken, CommitPCs, PCs
<1>3. ~Installing /\ ~Installing' /\ ~WritingLog /\ ~WritingLog'
  BY Zenon, <1>1, <1>2 DEF LogInvariant, PhasesOK, Installing, WritingLog, CommitPCs
<1>4. TypesOK'
  BY Zenon, <1>1, <1>2 DEF LogInvariant, TypesOK
<1>5. PhasesOK'
  BY Zenon, <1>1, <1>2 DEF LogInvariant, PhasesOK
<1>6. HeadersOK'
  BY Zenon, <1>1 DEF LogInvariant, HeadersOK, Distinct
<1>7. RunningOK'
  BY Zenon, <1>1, <1>2, <1>3, RunningFrame DEF LogInvariant
<1> QED BY Zenon, <1>1, <1>4, <1>5, <1>6, <1>7 DEF LogInvariant

-----------------------------------------------------------------------------
(* A crash at any point, and recovery. *)
LEMMA CrashKeeps == ASSUME LogInvariant, Crash
                    PROVE LogInvariant'
<1> USE LogAssumption
<1>1. InOp' = {}
  BY Zenon DEF Crash, InOp
<1>2. Cardinality({}) = 0
  BY Zenon, FS_EmptySet
<1>3. TypesOK'
  <2>1. /\ cache' \in [Blocks -> Vals \cup {None}] /\ pin' \in [Blocks -> Nat]
        /\ pc' \in [Threads -> PCs] /\ blk' \in [Threads -> Blocks \cup {None}]
    BY Zenon DEF Crash, PCs
  <2>2. committing' \in BOOLEAN /\ sys' \in Places /\ panic' \in Panics
    BY Zenon DEF Crash, Places, Panics
  <2>3. lh' \in Seq(Blocks) /\ outstanding' \in Nat /\ tail' \in Nat
    BY DEF Crash
  <2> QED BY Zenon, <2>1, <2>2, <2>3 DEF Crash, LogInvariant, TypesOK, ondisk
<1>4. PhasesOK'
  BY Zenon, <1>1, <1>2 DEF Crash, PhasesOK, CommitPCs
<1>5. HeadersOK'
  BY DEF Crash, LogInvariant, HeadersOK, Distinct, ondisk
<1>6. RecoveryOK'
  BY DEF Crash, RecoveryOK
<1> QED BY Zenon, <1>3, <1>4, <1>5, <1>6 DEF LogInvariant, Crash

LEMMA ReadHeadKeeps == ASSUME LogInvariant, read_head
                       PROVE LogInvariant'
<1>1. /\ sys = "read" /\ sys' = "install" /\ lh' = hd
      /\ UNCHANGED <<disk, logblk, hd, cache, pin, outstanding, committing, tail, pc, blk, wrote, panic>>
  BY Zenon DEF read_head, ondisk, bufs, thread
<1>2. InOp' = InOp
  BY Zenon, <1>1 DEF InOp
<1>3. lh = <<>> /\ hd \in Seq(Blocks) /\ tail = 1
  BY <1>1 DEF LogInvariant, RecoveryOK, HeadersOK, TypesOK
<1>4. TypesOK'
  BY Zenon, <1>1, <1>3 DEF LogInvariant, TypesOK, Places
<1>5. PhasesOK'
  BY Zenon, <1>1, <1>2 DEF LogInvariant, PhasesOK
<1>6. HeadersOK'
  BY <1>1, <1>3 DEF LogInvariant, HeadersOK, Distinct
<1>7. RecoveryOK'
  BY <1>1, <1>3 DEF LogInvariant, RecoveryOK
<1> QED BY Zenon, <1>1, <1>4, <1>5, <1>6, <1>7 DEF LogInvariant

LEMMA RecoverKeeps == ASSUME LogInvariant, RecoverInstall
                      PROVE LogInvariant'
<1> DEFINE b == lh[tail]
<1>1. /\ sys = "install" /\ tail <= Len(lh) /\ tail' = tail + 1
      /\ disk' = [disk EXCEPT ![b] = logblk[tail]]
      /\ cache' = [cache EXCEPT ![b] = logblk[tail]]
      /\ UNCHANGED <<logblk, hd, pin, lh, outstanding, committing, pc, blk, wrote, sys, panic>>
  BY Zenon DEF RecoverInstall, InstallBlock, bwrite, thread
<1>2. InOp' = InOp
  BY Zenon, <1>1 DEF InOp
<1>3. /\ lh \in Seq(Blocks) /\ Len(lh) \in Nat /\ tail \in 1..Len(lh) /\ tail \in 1..LOGSIZE
      /\ LOGSIZE \in Nat /\ b \in Blocks /\ logblk[tail] \in Vals
  BY <1>1, LogAssumption DEF LogInvariant, TypesOK, HeadersOK
<1>4. Distinct(lh) /\ RecoveryOK
  BY Zenon, <1>1 DEF LogInvariant, HeadersOK
<1>5. TypesOK'
  BY <1>1, <1>3 DEF LogInvariant, TypesOK
<1>6. PhasesOK'
  BY Zenon, <1>1, <1>2 DEF LogInvariant, PhasesOK
<1>7. HeadersOK'
  BY <1>1, <1>3 DEF LogInvariant, HeadersOK, Distinct
<1>8. RecoveryOK'
  <2>1. \A i \in 1..tail' - 1 : disk'[lh[i]] = logblk[i]
    BY <1>1, <1>3, <1>4 DEF LogInvariant, TypesOK, RecoveryOK, Distinct
  <2>2. \A c \in Blocks : cache'[c] \in {None, disk'[c]}
    BY Zenon, <1>1, <1>3, <1>4 DEF LogInvariant, TypesOK, RecoveryOK
  <2> QED BY ZenonT(30), <1>1, <1>4, <2>1, <2>2 DEF RecoveryOK
<1> QED BY Zenon, <1>1, <1>5, <1>6, <1>7, <1>8 DEF LogInvariant

LEMMA RecoveredKeeps == ASSUME LogInvariant, RecoverErase
                        PROVE LogInvariant'
<1>1. /\ sys = "install" /\ sys' = "up" /\ lh' = <<>> /\ hd' = <<>> /\ tail' = 1
      /\ UNCHANGED <<disk, logblk, cache, pin, outstanding, committing, pc, blk, wrote, panic>>
  BY Zenon DEF RecoverErase, bufs, thread
<1>2. /\ InOp' = InOp /\ ~Installing' /\ ~WritingLog'
      /\ \A t \in Threads : pc'[t] # "done"
  BY Zenon, <1>1 DEF LogInvariant, PhasesOK, InOp, Installing, WritingLog
<1>3. TypesOK'
  BY <1>1 DEF LogInvariant, TypesOK, Places
<1>4. PhasesOK'
  BY Zenon, <1>1, <1>2 DEF LogInvariant, PhasesOK
<1>5. HeadersOK'
  BY <1>1, LogAssumption DEF HeadersOK, Distinct
<1>6. RunningOK'
  <2>1. \A b \in Blocks : ~Dirty(b)' /\ ~Locked(b)'
    BY <1>1, LogAssumption DEF LogInvariant, PhasesOK, Dirty, Uninstalled, Locked
  <2> QED BY Zenon, <1>1, <1>2, <2>1 DEF LogInvariant, RecoveryOK, RunningOK
<1> QED BY Zenon, <1>1, <1>3, <1>4, <1>5, <1>6 DEF LogInvariant

-----------------------------------------------------------------------------
(* The buffer cache: an unpinned, unlocked buffer is what is on disk. *)
LEMMA CacheKeeps ==
  ASSUME NEW b \in Blocks, LogInvariant, sys = "up", panic = "no", Evict(b) \/ ReadIn(b)
  PROVE  LogInvariant' /\ \A c \in Blocks : Cached(c)' = Cached(c)
<1>1. /\ cache' = [cache EXCEPT ![b] = cache'[b]] /\ cache'[b] \in {None, disk[b]}
      /\ UNCHANGED <<disk, logblk, hd, pin, lh, outstanding, committing, tail, pc, blk, wrote, sys, panic>>
  <2>1. CASE Evict(b)
    BY Zenon, <2>1 DEF Evict, ondisk, log, thread, LogInvariant, TypesOK
  <2>2. CASE ReadIn(b)
    BY Zenon, <2>2 DEF ReadIn, ondisk, log, thread, LogInvariant, TypesOK
  <2> QED BY Zenon, <2>1, <2>2
<1>2. InOp' = InOp /\ (Installing' <=> Installing) /\ (WritingLog' <=> WritingLog)
  BY Zenon, <1>1 DEF InOp, Installing, WritingLog
<1>3. \A c : (Dirty(c)' <=> Dirty(c)) /\ (Locked(c)' <=> Locked(c))
  BY Zenon, <1>1, <1>2 DEF Dirty, Uninstalled, Locked
<1>4. \A c \in Blocks : Dirty(c) \/ Locked(c) => cache'[c] # None
  <2>1. Evict(b) => ~Dirty(b) /\ ~Locked(b)
    BY DEF Evict, Locked, LogInvariant, RunningOK
  <2>2. ReadIn(b) => cache'[b] # None
    BY LogAssumption DEF ReadIn, LogInvariant, TypesOK
  <2> QED BY Zenon, <1>1, <2>1, <2>2 DEF LogInvariant, RunningOK, TypesOK
<1>5. \A c \in Blocks : Cached(c)' = Cached(c)
  <2>1. cache[b] \in {None, disk[b]}
    BY DEF Evict, ReadIn, Locked, LogInvariant, RunningOK
  <2> QED BY Zenon, <1>1, <2>1 DEF Cached, LogInvariant, TypesOK
<1>6. TypesOK'
  <2>1. cache' \in [Blocks -> Vals \cup {None}]
    BY Zenon, <1>1 DEF LogInvariant, TypesOK
  <2> QED BY Zenon, <1>1, <2>1 DEF LogInvariant, TypesOK
<1>7. PhasesOK'
  BY Zenon, <1>1, <1>2 DEF LogInvariant, PhasesOK
<1>8. HeadersOK'
  BY Zenon, <1>1 DEF LogInvariant, HeadersOK, Distinct
<1>9. RunningOK'
  <2>1. \A i \in 1..Len(lh) : lh[i] \in Blocks
    BY DEF LogInvariant, TypesOK
  <2>2. \A i \in 1..Len(lh) : Cached(lh[i])' = Cached(lh[i])
    BY Zenon, <1>1, <1>5, <2>1 DEF Cached
  <2>3. \A i \in 1..tail - 1 : i \in 1..Len(lh)
    BY DEF LogInvariant, TypesOK, HeadersOK
  <2>4. \A c \in Blocks : Dirty(c)' \/ Locked(c)' \/ cache'[c] \in {None, disk'[c]}
    BY Zenon, <1>1, <1>3 DEF LogInvariant, RunningOK, TypesOK
  <2> QED BY <1>1, <1>2, <1>3, <1>4, <2>2, <2>3, <2>4 DEF LogInvariant, RunningOK
<1> QED BY Zenon, <1>1, <1>5, <1>6, <1>7, <1>8, <1>9 DEF LogInvariant

-----------------------------------------------------------------------------
(* Every step keeps the invariant. *)
LEMMA LogStep == LogInvariant /\ [Next]_vars => LogInvariant'
<1> SUFFICES ASSUME LogInvariant, [Next]_vars PROVE LogInvariant'
  BY Zenon
<1>1. CASE panic = "no" /\ sys = "up" /\ Running
  <2>1. ASSUME NEW t \in Threads, Call(t) \/ BeginSleeps(t) PROVE LogInvariant'
    BY Zenon, <1>1, <2>1, CallKeeps
  <2>2. ASSUME NEW t \in Threads, Op(t) PROVE LogInvariant'
    BY Zenon, <1>1, <2>2, BeginKeeps, WriteKeeps, EndKeeps DEF Op
  <2>3. ASSUME NEW t \in Threads, CommitStep(t) PROVE LogInvariant'
    BY Zenon, <1>1, <2>3, CommitKeeps, WriteLogKeeps, WriteHeadKeeps, InstallKeeps, EraseKeeps, DoneKeeps
       DEF CommitStep
  <2>4. ASSUME NEW t \in Threads, NEW b \in Blocks, NEW v \in Vals, Modify(t, b, v) PROVE LogInvariant'
    BY Zenon, <1>1, <2>4, ModifyKeeps
  <2>5. ASSUME NEW b \in Blocks, Evict(b) \/ ReadIn(b) PROVE LogInvariant'
    BY Zenon, <1>1, <2>5, CacheKeeps
  <2> QED BY Zenon, <1>1, <2>1, <2>2, <2>3, <2>4, <2>5 DEF Running
<1>2. CASE Recovery
  BY Zenon, <1>2, ReadHeadKeeps, RecoverKeeps, RecoveredKeeps DEF Recovery
<1>3. CASE Crash
  BY Zenon, <1>3, CrashKeeps
<1>4. CASE UNCHANGED vars
  <2>1. UNCHANGED <<disk, logblk, hd, cache, pin, lh, outstanding, committing, tail, pc, blk, sys, panic>>
    BY Zenon, <1>4 DEF vars, ondisk, bufs, log, thread
  <2>2. InOp' = InOp /\ (Installing' <=> Installing) /\ (WritingLog' <=> WritingLog)
    BY Zenon, <2>1 DEF InOp, Installing, WritingLog
  <2>3. TypesOK' /\ PhasesOK' /\ HeadersOK'
    BY Zenon, <2>1, <2>2 DEF LogInvariant, TypesOK, PhasesOK, HeadersOK, Distinct
  <2>4. RunningOK => RunningOK'
    <3> SUFFICES ASSUME RunningOK PROVE RunningOK'
      BY Zenon
    <3>1. lh # <<>> => InOp' # {} \/ committing'
      BY Zenon, <2>1, <2>2 DEF RunningOK
    <3>2. \A u \in Threads : pc'[u] = "done" => lh = <<>>
      BY Zenon, <2>1 DEF RunningOK
    <3> QED BY Zenon, <2>1, <2>2, <3>1, <3>2, RunningFrame
  <2>5. RecoveryOK => RecoveryOK'
    BY Zenon, <2>1 DEF RecoveryOK
  <2> QED BY Zenon, <2>1, <2>3, <2>4, <2>5 DEF LogInvariant
<1> QED BY Zenon, <1>1, <1>2, <1>3, <1>4 DEF Next

LEMMA LogInvariance == Spec => []LogInvariant
  BY LogInit, LogStep, PTL DEF Spec

-----------------------------------------------------------------------------
(* What recovery makes of a disk d with log blocks l and header h. *)
Rec(d, l, h) ==
  [b \in Blocks |-> IF b \in Logged(h) THEN l[CHOOSE i \in 1..Len(h) : h[i] = b] ELSE d[b]]

LEMMA RecoveredIs == Recovered = Rec(disk, logblk, hd) /\ Recovered' = Rec(disk', logblk', hd')
BY Zenon DEF Recovered, Rec, Positions

LEMMA RecEmpty == ASSUME NEW d, NEW l PROVE Rec(d, l, <<>>) = [b \in Blocks |-> d[b]]
BY DEF Rec, Logged

LEMMA RecLogged == ASSUME NEW d, NEW l, NEW h, Distinct(h), NEW i \in 1..Len(h), h[i] \in Blocks
                   PROVE Rec(d, l, h)[h[i]] = l[i]
<1>1. (CHOOSE j \in 1..Len(h) : h[j] = h[i]) = i
  BY Zenon DEF Distinct
<1>2. h[i] \in Logged(h)
  BY Zenon DEF Logged
<1> QED BY Zenon, <1>1, <1>2 DEF Rec

(* Two logs recover to the same blocks. *)
LEMMA RecSame ==
  ASSUME NEW d, NEW l, NEW h, NEW e, NEW k,
         \A b \in Blocks \ Logged(h) : d[b] = e[b], \A i \in 1..Len(h) : l[i] = k[i]
  PROVE  Rec(d, l, h) = Rec(e, k, h)
<1>1. ASSUME NEW b \in Logged(h)
      PROVE l[CHOOSE i \in 1..Len(h) : h[i] = b] = k[CHOOSE i \in 1..Len(h) : h[i] = b]
  <2>1. (CHOOSE i \in 1..Len(h) : h[i] = b) \in 1..Len(h)
    BY Zenon DEF Logged
  <2> QED BY Zenon, <2>1
<1> QED BY <1>1 DEF Rec

(* Nothing written is lost by a crash while the log is quiet, and the log   *)
(* is used in the right phases only: for any number of threads, blocks and  *)
(* log places. *)
THEOREM LogSafe == Spec => [](TypeOK /\ QuietIsDurable /\ NoMisuse)
<1> SUFFICES ASSUME LogInvariant PROVE TypeOK /\ QuietIsDurable /\ NoMisuse
  BY LogInvariance, PTL
<1>0. /\ IsFiniteSet(InOp) /\ InOp \subseteq Threads /\ IsFiniteSet(Threads)
      /\ LOGSIZE \in Nat /\ None \notin Vals
  BY Zenon, LogAssumption, FS_Subset DEF InOp
<1>1. TypeOK
  <2>1. outstanding = Cardinality(InOp) /\ Cardinality(InOp) <= Cardinality(Threads)
    BY Zenon, <1>0, FS_Subset DEF LogInvariant, PhasesOK
  <2>2. outstanding \in 0..Cardinality(Threads)
    BY <1>0, <2>1, FS_CardinalityType
  <2>3. tail \in 1..LOGSIZE + 1
    BY <1>0 DEF LogInvariant, TypesOK, HeadersOK
  <2> QED BY Zenon, <2>2, <2>3 DEF LogInvariant, TypesOK, HeadersOK, TypeOK
<1>2. QuietIsDurable
  <2> SUFFICES ASSUME panic = "no", sys = "up", outstanding = 0, ~committing PROVE View = Recovered
    BY Zenon DEF QuietIsDurable
  <2>1. InOp = {}
    BY Zenon, <1>0, FS_EmptySet DEF LogInvariant, PhasesOK
  <2>2. lh = <<>> /\ ~Installing
    BY Zenon, <2>1 DEF LogInvariant, PhasesOK, RunningOK, Installing, CommitPCs
  <2>3. \A b \in Blocks : ~Dirty(b) /\ ~Locked(b)
    BY <2>1, <2>2, LogAssumption DEF Dirty, Uninstalled, Locked, InOp, LogInvariant, PhasesOK
  <2>4. \A b \in Blocks : Cached(b) = disk[b]
    BY Zenon, <2>3 DEF LogInvariant, RunningOK, Cached
  <2>5. hd = <<>>
    BY Zenon, <2>2 DEF LogInvariant, RunningOK
  <2> QED BY <2>4, <2>5, RecoveredIs, RecEmpty DEF View
<1>3. NoMisuse
  <2>1. panic \in Panics
    BY Zenon DEF LogInvariant, TypesOK
  <2>2. outstanding = Cardinality(InOp)
    BY Zenon DEF LogInvariant, PhasesOK
  <2>3. ASSUME sys = "up", NEW b \in Blocks
        PROVE pin[b] = Cardinality({i \in 1..Len(lh) : lh[i] = b
                                     /\ (i >= tail \/ \A t \in Threads : pc[t] # "install")})
    <3> DEFINE S == {i \in 1..Len(lh) : lh[i] = b /\ (i >= tail \/ \A t \in Threads : pc[t] # "install")}
    <3>1. S = {i \in Uninstalled : lh[i] = b}
      BY Zenon DEF Uninstalled, Installing
    <3>2. CASE Dirty(b)
      <4>1. PICK i \in Uninstalled : lh[i] = b
        BY Zenon, <3>2 DEF Dirty
      <4>2. S = {i}
        BY Zenon, <3>1, <4>1 DEF LogInvariant, HeadersOK, Distinct, Uninstalled
      <4>3. Cardinality(S) = 1
        BY Zenon, <4>2, FS_Singleton
      <4> QED BY Zenon, <2>3, <3>2, <4>3 DEF LogInvariant, RunningOK
    <3>3. CASE ~Dirty(b)
      <4>1. S = {}
        BY Zenon, <3>1, <3>3 DEF Dirty
      <4>2. Cardinality(S) = 0
        BY Zenon, <4>1, FS_EmptySet
      <4> QED BY Zenon, <2>3, <3>3, <4>2 DEF LogInvariant, RunningOK
    <3> QED BY Zenon, <3>2, <3>3
  <2> QED BY Zenon, <2>1, <2>2, <2>3 DEF NoMisuse, Panics
<1> QED BY Zenon, <1>1, <1>2, <1>3

-----------------------------------------------------------------------------
(* What a step that reads or writes no block looks like to AtomicDisk. *)
LEMMA SameBlocks == ASSUME UNCHANGED <<disk, logblk, hd, cache, sys>>
                    PROVE UNCHANGED <<Recovered, View>>
<1>1. Recovered' = Recovered
  BY DEF Recovered, Positions, Logged
<1> QED BY Zenon, <1>1 DEF View, Cached

(* The steps of an operation. *)
LEMMA OperationRefines ==
  ASSUME NEW t \in Threads, LogInvariant, sys = "up",
         Call(t) \/ BeginSleeps(t) \/ Op(t) \/ \E b \in Blocks, v \in Vals : Modify(t, b, v)
  PROVE  [Disk!Next]_Disk!vars
<1>1. CASE Call(t) \/ BeginSleeps(t)
  <2>1. InOp' = InOp /\ UNCHANGED <<disk, logblk, hd, cache, sys>>
    BY Zenon, <1>1 DEF Call, BeginSleeps, Goto, InOp, LogInvariant, TypesOK, ondisk, bufs
  <2> QED BY Zenon, <2>1, SameBlocks DEF Disk!vars
<1>2. CASE begin_op(t)
  <2>1. /\ InOp' = InOp \cup {t} /\ t \notin InOp
        /\ UNCHANGED <<disk, logblk, hd, cache, sys>>
    BY Zenon, <1>2 DEF begin_op, Goto, InOp, LogInvariant, TypesOK, ondisk, bufs
  <2> QED BY Zenon, <2>1, SameBlocks DEF Disk!Next, Disk!Begin
<1>3. CASE log_write(t)
  <2>1. InOp' = InOp /\ UNCHANGED <<disk, logblk, hd, cache, sys>>
    BY Zenon, <1>3 DEF log_write, Goto, InOp, LogInvariant, TypesOK, ondisk
  <2> QED BY Zenon, <2>1, SameBlocks DEF Disk!vars
<1>4. CASE end_op(t)
  <2>1. /\ InOp' = InOp \ {t} /\ t \in InOp
        /\ UNCHANGED <<disk, logblk, hd, cache, sys>>
    BY Zenon, <1>4 DEF end_op, Woken, InOp, LogInvariant, TypesOK, ondisk, bufs
  <2> QED BY Zenon, <2>1, SameBlocks DEF Disk!Next, Disk!End
<1>5. ASSUME NEW b \in Blocks, NEW v \in Vals, Modify(t, b, v) PROVE Disk!Next
  <2>1. /\ InOp' = InOp /\ t \in InOp /\ cache' = [cache EXCEPT ![b] = v]
        /\ UNCHANGED <<disk, logblk, hd, sys>>
    BY <1>5 DEF Modify, Goto, InOp, LogInvariant, TypesOK, ondisk
  <2>2. Recovered' = Recovered
    BY <2>1 DEF Recovered, Positions, Logged
  <2>3. View' = [View EXCEPT ![b] = v]
    BY Zenon, <2>1, LogAssumption DEF View, Cached, LogInvariant, TypesOK
  <2>4. Disk!Write(t, b, v)
    BY Zenon, <2>1, <2>2, <2>3 DEF Disk!Write
  <2> QED BY Zenon, <2>4 DEF Disk!Next
<1> QED BY Zenon, <1>1, <1>2, <1>3, <1>4, <1>5 DEF Op

(* The steps of a commit: the header's write is the commit point. *)
LEMMA CommitRefines ==
  ASSUME NEW t \in Threads, LogInvariant, sys = "up", panic = "no", CommitStep(t)
  PROVE  [Disk!Next]_Disk!vars
<1>0. /\ Distinct(lh) /\ Distinct(hd) /\ lh \in Seq(Blocks) /\ hd \in Seq(Blocks)
      /\ Len(lh) \in Nat /\ tail \in Nat /\ tail >= 1 /\ tail <= Len(lh) + 1 /\ RunningOK
  BY DEF LogInvariant, HeadersOK, TypesOK
<1>1. InOp = {} /\ InOp' = InOp /\ sys' = sys
  BY Zenon DEF CommitStep, commit, write_log, write_head, install_trans, InstallBlock, EraseLog, CommitDone,
         Goto, Woken, thread, InOp, LogInvariant, TypesOK, PhasesOK, CommitPCs
<1>2. CASE commit(t) \/ CommitDone(t)
  <2>1. UNCHANGED <<disk, logblk, hd, cache, sys>>
    BY Zenon, <1>2 DEF commit, CommitDone, ondisk, bufs
  <2> QED BY Zenon, <1>1, <2>1, SameBlocks DEF Disk!vars
<1>3. CASE write_log(t)
  <2>1. hd = <<>> /\ hd' = <<>> /\ UNCHANGED <<disk, cache>>
    BY Zenon, <1>0, <1>3 DEF write_log, bufs, RunningOK, Installing, LogInvariant, PhasesOK, CommitPCs
  <2>2. Recovered' = Recovered
    BY Zenon, <2>1, RecoveredIs, RecEmpty
  <2>3. View' = View
    BY Zenon, <1>1, <2>1 DEF View, Cached
  <2> QED BY Zenon, <1>1, <2>2, <2>3 DEF Disk!vars
<1>4. CASE write_head(t)
  <2>1. /\ hd' = lh /\ UNCHANGED <<disk, logblk, cache>>
        /\ \A i \in 1..Len(lh) : logblk[i] = Cached(lh[i])
    <3>1. WritingLog /\ tail > Len(lh)
      BY Zenon, <1>4 DEF write_head, WritingLog
    <3> QED BY <1>0, <1>4, <3>1 DEF write_head, bufs, RunningOK
  <2>2. \A b \in Blocks : b \notin Logged(lh) => Cached(b) = disk[b]
    <3>1. \A b \in Blocks : ~Locked(b)
      BY Zenon, <1>1, LogAssumption DEF Locked, InOp, LogInvariant, PhasesOK
    <3>2. \A b \in Blocks : Dirty(b) => b \in Logged(lh)
      BY Zenon DEF Dirty, Uninstalled, Logged
    <3> QED BY Zenon, <1>0, <3>1, <3>2 DEF RunningOK, Cached
  <2>3. Recovered' = Rec(disk, logblk, lh)
    BY Zenon, <2>1, RecoveredIs
  <2>4. \A b \in Blocks : Recovered'[b] = Cached(b)
    <3>1. ASSUME NEW b \in Blocks, b \in Logged(lh) PROVE Recovered'[b] = Cached(b)
      <4>1. PICK i \in 1..Len(lh) : lh[i] = b
        BY Zenon, <3>1 DEF Logged
      <4> QED BY <1>0, <2>1, <2>3, <4>1, RecLogged
    <3>2. ASSUME NEW b \in Blocks, b \notin Logged(lh) PROVE Recovered'[b] = Cached(b)
      BY Zenon, <2>2, <2>3, <3>2 DEF Rec
    <3> QED BY Zenon, <3>1, <3>2
  <2>5. Recovered' = View
    BY Zenon, <2>3, <2>4 DEF View, Rec
  <2>6. View' = View
    BY Zenon, <1>1, <2>1 DEF View, Cached
  <2>7. Disk!Commit
    BY Zenon, <1>1, <2>5, <2>6 DEF Disk!Commit
  <2> QED BY Zenon, <2>7 DEF Disk!Next
<1>5. CASE install_trans(t)
  <2> DEFINE b == lh[tail]
  <2>1. /\ tail <= Len(lh) /\ hd = lh /\ logblk[tail] = Cached(b)
        /\ disk' = [disk EXCEPT ![b] = logblk[tail]]
        /\ cache' = [cache EXCEPT ![b] = logblk[tail]]
        /\ UNCHANGED <<logblk, hd>>
    BY <1>0, <1>5 DEF install_trans, InstallBlock, bwrite, RunningOK, Installing
  <2>2. b \in Blocks /\ b \in Logged(hd)
    BY <1>0, <2>1 DEF Logged
  <2>3. Recovered' = Recovered
    <3>1. \A c \in Blocks \ Logged(hd) : disk[c] = disk'[c]
      BY Zenon, <2>1, <2>2 DEF LogInvariant, TypesOK
    <3>2. Rec(disk, logblk, hd) = Rec(disk', logblk, hd)
      BY <3>1, RecSame
    <3> QED BY Zenon, <2>1, <3>2, RecoveredIs
  <2>4. View' = View
    BY Zenon, <1>1, <2>1, <2>2 DEF View, Cached, LogInvariant, TypesOK
  <2> QED BY Zenon, <1>1, <2>3, <2>4 DEF Disk!vars
<1>6. CASE EraseLog(t)
  <2>1. /\ hd = lh /\ hd' = <<>> /\ UNCHANGED <<disk, logblk, cache>>
        /\ \A i \in 1..Len(lh) : disk[lh[i]] = logblk[i]
    <3>1. Installing /\ tail > Len(lh)
      BY Zenon, <1>6 DEF EraseLog, Installing
    <3> QED BY <1>0, <1>6, <3>1 DEF EraseLog, bufs, RunningOK
  <2>2. Recovered' = [b \in Blocks |-> disk[b]]
    BY Zenon, <2>1, RecoveredIs, RecEmpty
  <2>3. \A b \in Blocks : Recovered[b] = disk[b]
    <3>1. ASSUME NEW b \in Blocks, b \in Logged(hd) PROVE Recovered[b] = disk[b]
      <4>1. PICK i \in 1..Len(hd) : hd[i] = b
        BY Zenon, <3>1 DEF Logged
      <4> QED BY <1>0, <2>1, <4>1, RecLogged, RecoveredIs
    <3>2. ASSUME NEW b \in Blocks, b \notin Logged(hd) PROVE Recovered[b] = disk[b]
      BY Zenon, <3>2 DEF Recovered
    <3> QED BY Zenon, <3>1, <3>2
  <2>4. Recovered' = Recovered
    BY Zenon, <2>2, <2>3 DEF Recovered
  <2>5. View' = View
    BY Zenon, <1>1, <2>1 DEF View, Cached
  <2> QED BY Zenon, <1>1, <2>4, <2>5 DEF Disk!vars
<1> QED BY Zenon, <1>2, <1>3, <1>4, <1>5, <1>6 DEF CommitStep

(* Recovery changes nothing that AtomicDisk shows. *)
LEMMA RecoveryRefines == ASSUME LogInvariant, Recovery
                         PROVE UNCHANGED Disk!vars
<1>0. /\ Distinct(lh) /\ Distinct(hd) /\ lh \in Seq(Blocks) /\ hd \in Seq(Blocks)
      /\ Len(lh) \in Nat /\ tail \in Nat /\ tail >= 1 /\ tail <= Len(lh) + 1 /\ RecoveryOK /\ sys # "up"
  <2>1. sys # "up"
    BY Zenon DEF Recovery, read_head, RecoverInstall, RecoverErase
  <2> QED BY <2>1 DEF LogInvariant, HeadersOK, TypesOK
<1>1. InOp' = InOp
  BY Zenon DEF Recovery, read_head, RecoverInstall, InstallBlock, RecoverErase, thread, InOp
<1>2. CASE read_head
  <2>1. sys' # "up" /\ UNCHANGED <<disk, logblk, hd>>
    BY Zenon, <1>2 DEF read_head, ondisk
  <2>2. Recovered' = Recovered
    BY Zenon, <2>1, RecoveredIs
  <2> QED BY Zenon, <1>0, <1>1, <2>1, <2>2 DEF View, Disk!vars
<1>3. CASE RecoverInstall
  <2> DEFINE b == lh[tail]
  <2>1. /\ sys = "install" /\ sys' = sys /\ tail <= Len(lh)
        /\ disk' = [disk EXCEPT ![b] = logblk[tail]] /\ UNCHANGED <<logblk, hd>>
    BY Zenon, <1>3 DEF RecoverInstall, InstallBlock, bwrite
  <2>2. b \in Logged(hd)
    BY <1>0, <2>1 DEF Logged, RecoveryOK
  <2>3. \A c \in Blocks \ Logged(hd) : disk[c] = disk'[c]
    BY Zenon, <2>1, <2>2 DEF LogInvariant, TypesOK
  <2>4. Rec(disk, logblk, hd) = Rec(disk', logblk, hd)
    BY <2>3, RecSame
  <2>5. Recovered' = Recovered
    BY Zenon, <2>1, <2>4, RecoveredIs
  <2> QED BY Zenon, <1>0, <1>1, <2>1, <2>5 DEF View, Disk!vars
<1>4. CASE RecoverErase
  <2>1. /\ hd = lh /\ hd' = <<>> /\ sys' = "up" /\ UNCHANGED <<disk, cache>>
        /\ \A i \in 1..Len(lh) : disk[lh[i]] = logblk[i]
    <3>1. sys = "install" /\ tail > Len(lh)
      BY Zenon, <1>4 DEF RecoverErase
    <3> QED BY <1>0, <1>4, <3>1 DEF RecoverErase, bufs, RecoveryOK
  <2>2. Recovered' = [b \in Blocks |-> disk[b]]
    BY Zenon, <2>1, RecoveredIs, RecEmpty
  <2>3. \A b \in Blocks : Recovered[b] = disk[b]
    <3>1. ASSUME NEW b \in Blocks, b \in Logged(hd) PROVE Recovered[b] = disk[b]
      <4>1. PICK i \in 1..Len(hd) : hd[i] = b
        BY Zenon, <3>1 DEF Logged
      <4> QED BY <1>0, <2>1, <4>1, RecLogged, RecoveredIs
    <3>2. ASSUME NEW b \in Blocks, b \notin Logged(hd) PROVE Recovered[b] = disk[b]
      BY Zenon, <3>2 DEF Recovered
    <3> QED BY Zenon, <3>1, <3>2
  <2>4. Recovered' = Recovered
    BY Zenon, <2>2, <2>3 DEF Recovered
  <2>5. View' = [b \in Blocks |-> disk[b]]
    BY Zenon, <1>0, <2>1 DEF View, Cached, RecoveryOK
  <2> QED BY Zenon, <1>0, <1>1, <2>2, <2>4, <2>5 DEF View, Disk!vars
<1> QED BY Zenon, <1>2, <1>3, <1>4 DEF Recovery

(* begin_op(), log_write(), end_op() and commit() keep to their phases, for *)
(* any number of threads: no operation is open during a commit, outstanding *)
(* counts the open ones, and a block is pinned as often as the log needs. *)
THEOREM LogPhases == Spec => []NoMisuse
BY LogSafe, PTL

(* The log implements an atomic disk, whatever the crashes, for any number  *)
(* of threads, blocks and log places. *)
THEOREM LogImplementsAtomicDisk == Spec => RefinesAtomicDisk
<1>1. Init => Disk!Init
  <2> SUFFICES ASSUME Init PROVE Disk!Init
    BY Zenon
  <2>1. hd = <<>> /\ sys = "up" /\ disk \in [Blocks -> Vals] /\ \A b \in Blocks : Cached(b) = disk[b]
    BY Zenon DEF Init, Cached
  <2>2. Recovered = [b \in Blocks |-> disk[b]]
    BY Zenon, <2>1, RecoveredIs, RecEmpty
  <2>3. View = [b \in Blocks |-> disk[b]]
    BY Zenon, <2>1 DEF View
  <2>4. InOp = {}
    BY Zenon DEF Init, InOp
  <2> QED BY Zenon, <2>1, <2>2, <2>3, <2>4 DEF Disk!Init
<1>2. LogInvariant /\ [Next]_vars => [Disk!Next]_Disk!vars
  <2> SUFFICES ASSUME LogInvariant, [Next]_vars PROVE [Disk!Next]_Disk!vars
    BY Zenon
  <2>1. CASE panic = "no" /\ sys = "up" /\ Running
    <3>1. ASSUME NEW b \in Blocks, Evict(b) \/ ReadIn(b) PROVE UNCHANGED Disk!vars
      <4>1. \A c \in Blocks : Cached(c)' = Cached(c)
        BY Zenon, <2>1, <3>1, CacheKeeps
      <4>2. UNCHANGED <<disk, logblk, hd, pc, sys>>
        BY Zenon, <3>1 DEF Evict, ReadIn, ondisk, thread
      <4>3. Recovered' = Recovered
        BY Zenon, <4>2, RecoveredIs
      <4>4. View' = View
        BY Zenon, <2>1, <4>1, <4>2 DEF View
      <4>5. InOp' = InOp
        BY Zenon, <4>2 DEF InOp
      <4> QED BY Zenon, <4>3, <4>4, <4>5 DEF Disk!vars
    <3> QED BY Zenon, <2>1, <3>1, OperationRefines, CommitRefines DEF Running
  <2>2. CASE Recovery
    BY Zenon, <2>2, RecoveryRefines
  <2>3. CASE Crash
    <3>1. InOp' = {} /\ sys' # "up" /\ UNCHANGED <<disk, logblk, hd>>
      BY Zenon, <2>3 DEF Crash, InOp, ondisk
    <3>2. Recovered' = Recovered
      BY Zenon, <3>1, RecoveredIs
    <3>3. Disk!Crash
      BY Zenon, <3>1, <3>2 DEF Disk!Crash, View
    <3> QED BY Zenon, <3>3 DEF Disk!Next
  <2>4. CASE UNCHANGED vars
    <3>1. UNCHANGED <<disk, logblk, hd, cache, sys, pc>>
      BY Zenon, <2>4 DEF vars, ondisk, bufs, thread
    <3> QED BY Zenon, <3>1, SameBlocks DEF Disk!vars, InOp
  <2> QED BY Zenon, <2>1, <2>2, <2>3, <2>4 DEF Next
<1> QED BY <1>1, <1>2, LogInvariance, PTL DEF Spec, RefinesAtomicDisk, Disk!Spec
=============================================================================
