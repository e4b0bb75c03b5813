----------------------------- MODULE CowVM_control ----------------------------
(***************************************************************************)
(* Layer 1 of the proofs about CowVM, for any number of processes, pages   *)
(* and addresses: the type invariant, where a thread can be and with which *)
(* locals, and who may touch whose page table.                             *)
(***************************************************************************)
EXTENDS CowVMInv, TLAPS

USE DEF Vas

\* What replacing one thread's record preserves.
LEMMA ThreadUpdate ==
  ASSUME TypeOK, ThreadsOK, NEW p \in Procs, NEW x \in Thread, ThreadOK(x), Becomes(p, x)
  PROVE  th' \in [Procs -> Thread] /\ ThreadsOK' /\ th'[p] = x
         /\ \A q \in Procs : q # p => th'[q] = th[q]
BY ZenonT(40) DEF TypeOK, ThreadsOK, Becomes

\* The records of a thread in user mode, of no thread, and of one about to exit are sound.
LEMMA IdleOK ==
  /\ Idle \in Thread /\ ThreadOK(Idle)
  /\ Dead \in Thread /\ ThreadOK(Dead)
  /\ [Idle EXCEPT !.pc = "exit"] \in Thread /\ ThreadOK([Idle EXCEPT !.pc = "exit"])
<1>0. Idle \in Thread
  BY SizeAssumption DEF Idle, Thread, PCs, Ops
<1>1. Dead \in Thread /\ [Idle EXCEPT !.pc = "exit"] \in Thread
  BY ZenonT(40), <1>0 DEF Dead, Thread, PCs
<1>2. ThreadOK(Idle)
  BY Zenon DEF Idle, ThreadOK, Mapping, Unmapping, InFault, CowPCs, UnmapOps
<1>3. ThreadOK(Dead)
  BY Zenon DEF Idle, Dead, ThreadOK, Mapping, Unmapping, InFault, CowPCs, UnmapOps
<1>4. ThreadOK([Idle EXCEPT !.pc = "exit"])
  BY Zenon DEF Idle, ThreadOK, Mapping, Unmapping, InFault, CowPCs, UnmapOps
<1> QED BY Zenon, <1>0, <1>1, <1>2, <1>3, <1>4

\* userinit() sets up a state in which layer 1 holds.
LEMMA InitThreads == Init => TypeOK /\ ThreadsOK /\ OwnersOK
<1> SUFFICES ASSUME NEW pg \in Pages, InitMem(pg), InitTables(pg), InitProcs
             PROVE  TypeOK /\ ThreadsOK /\ OwnersOK
  BY Zenon DEF Init
<1>0. sz = [p \in Procs |-> IF p = InitProc THEN 1 ELSE 0]
  BY ZenonT(40) DEF InitProcs
<1>1. /\ state = [p \in Procs |-> IF p = InitProc THEN "LIVE" ELSE "UNUSED"]
      /\ parent = [p \in Procs |-> None]
      /\ waitlock = None
      /\ th = [p \in Procs |-> IF p = InitProc THEN Idle ELSE Dead]
      /\ panicked = ""
  BY ZenonT(40) DEF InitProcs
<1>2. refcnt \in [Pages -> Int] /\ freelist \subseteq Pages /\ mem \in [Pages -> Values]
  BY DEF InitMem
<1>3. /\ ppn \in [Tables -> [Vas -> Pages \cup {None}]]
      /\ perm \in [Tables -> [Vas -> SUBSET Flags]]
  BY Zenon DEF InitTables, Flags
<1>4. cur \in [Procs -> {"A", "B"}]
  BY Zenon DEF InitTables
<1>5. sz \in [Procs -> 0 .. NVa]
  BY <1>0, SizeAssumption
<1>6. /\ state \in [Procs -> {"UNUSED", "USED", "LIVE", "ZOMBIE"}]
      /\ parent \in [Procs -> Procs \cup {None}]
      /\ waitlock \in Procs \cup {None}
      /\ panicked = ""
  BY ZenonT(40), <1>1
<1>7. th \in [Procs -> Thread] /\ ThreadsOK
  BY ZenonT(40), <1>1, IdleOK DEF ThreadsOK
<1>8. TypeOK
  BY ZenonT(40), <1>2, <1>3, <1>4, <1>5, <1>6, <1>7 DEF TypeOK
<1>9. \A p \in Procs : /\ th[p].op = "none"
                       /\ th[p].pc = IF p = InitProc THEN "user" ELSE "dead"
  BY ZenonT(40), <1>1 DEF Idle, Dead
<1>10. OwnersOK
  BY ZenonT(40), <1>1, <1>9 DEF OwnersOK, At
<1> QED BY Zenon, <1>7, <1>8, <1>10


Control == TypeOK /\ ThreadsOK /\ OwnersOK

MemType  == refcnt \in [Pages -> Int] /\ freelist \subseteq Pages /\ mem \in [Pages -> Values]
TabType  == /\ ppn \in [Tables -> [Vas -> Pages \cup {None}]]
            /\ perm \in [Tables -> [Vas -> SUBSET Flags]]
            /\ cur \in [Procs -> {"A", "B"}]
ProcType == /\ sz \in [Procs -> 0 .. NVa]
            /\ state \in [Procs -> {"UNUSED", "USED", "LIVE", "ZOMBIE"}]
            /\ parent \in [Procs -> Procs \cup {None}]
            /\ waitlock \in Procs \cup {None}

\* The parts of the type invariant, each by its own name.
LEMMA TypeParts ==
  ASSUME TypeOK, NEW p \in Procs
  PROVE  MemType /\ TabType /\ ProcType /\ th[p] \in Thread
BY ZenonT(40) DEF TypeOK, MemType, TabType, ProcType

\* mappages() and uvmunmap() keep page tables well typed.
LEMMA SetPteType ==
  ASSUME TabType, NEW t \in Tables, NEW va \in Vas, NEW pg \in Pages \cup {None},
         NEW fl \in SUBSET Flags, SetPte(t, va, pg, fl), cur' = cur
  PROVE  TabType'
BY Zenon DEF TabType, SetPte

\* What a PTE holds.
LEMMA PteType ==
  ASSUME TabType, NEW t \in Tables, NEW va \in Vas
  PROVE  ppn[t][va] \in Pages \cup {None} /\ perm[t][va] \in SUBSET Flags
BY ZenonT(40) DEF TabType

\* p->pagetable and the table exec() builds are tables.
LEMMA TablesOf == ASSUME TabType, NEW p \in Procs PROVE Tab(p) \in Tables /\ Alt(p) \in Tables
BY Zenon DEF TabType, Tab, Alt, Other, Tables

\* The table the uvmunmap() loop works on is a table.
LEMMA TargetType ==
  ASSUME TypeOK, ThreadsOK, NEW p \in Procs
  PROVE  Target(p) \in Tables
BY Zenon, TypeParts, TablesOf DEF ThreadsOK, ThreadOK, Target

\* p moves along, inside the operation it is in or into one that involves no other
\* process.
Moves(p) == \E x \in Thread :
  /\ ThreadOK(x) /\ Becomes(p, x) /\ x.pc # "dead"
  /\ x.op \in {"fork", "wait"} => x.op = th[p].op /\ x.np = th[p].np

\* What replacing the record of one thread preserves: all single-thread actions use this.
LEMMA ControlStep ==
  ASSUME Control, NEW p \in Procs, Moves(p), th[p].pc # "dead",
         MemType', TabType', ProcType', UNCHANGED <<state, waitlock, panicked>>
  PROVE  Control'
<1>0. PICK x \in Thread :
        /\ ThreadOK(x) /\ Becomes(p, x) /\ x.pc # "dead"
        /\ x.op \in {"fork", "wait"} => x.op = th[p].op /\ x.np = th[p].np
  BY Zenon DEF Moves
<1>1. /\ th' \in [Procs -> Thread] /\ ThreadsOK' /\ th'[p] = x
      /\ \A q \in Procs : q # p => th'[q] = th[q]
  BY Zenon, <1>0, ThreadUpdate DEF Control
<1>2. TypeOK'
  BY ZenonT(40), <1>1 DEF Control, TypeOK, MemType, TabType, ProcType
<1>3. \A q \in Procs : /\ th'[q].pc = "dead" <=> th[q].pc = "dead"
                       /\ th'[q].op \in {"fork", "wait"} =>
                            th'[q].op = th[q].op /\ th'[q].np = th[q].np
  BY Zenon, <1>0, <1>1
<1>4. OwnersOK'
  BY Z3T(40), <1>3 DEF Control, OwnersOK, At
<1> QED BY Zenon, <1>1, <1>2, <1>4 DEF Control

\* Returning to user mode, to the exit path, and into the uvmunmap() loop.
LEMMA MovesToUser == ASSUME NEW p \in Procs, ReturnToUser(p) PROVE Moves(p)
<1>1. Becomes(p, Idle) BY Zenon DEF ReturnToUser
<1>2. Idle.pc = "user" /\ Idle.op = "none" BY Zenon DEF Idle
<1> QED BY Zenon, <1>1, <1>2, IdleOK DEF Moves

\* uvmdealloc() may start its uvmunmap() loop, or skip it.
LEMMA MovesToUnmap ==
  ASSUME NEW p \in Procs, th[p] \in Thread, th[p].op \in UnmapOps,
         NEW lo \in 0 .. NVa, NEW hi \in 0 .. NVa, lo <= hi, GotoUnmap(p, lo, hi),
         th[p].op \in {"grow", "shrink"} => th[p].base <= lo,
         th[p].op = "exec" => hi <= ImageSize /\ th[p].base = 0,
         th[p].op = "wait" => th[p].np \in Procs
  PROVE  Moves(p)
<1> DEFINE x == [th[p] EXCEPT !.pc = "unmap", !.i = lo, !.lim = hi,
                              !.pa = None, !.new = None, !.ret = ""]
<1>1. Becomes(p, x)
  BY Zenon DEF GotoUnmap
<1>2. x \in Thread
  BY ZenonT(40) DEF Thread, PCs
<1>3. /\ x.pc = "unmap" /\ x.i = lo /\ x.lim = hi /\ x.op = th[p].op /\ x.np = th[p].np
      /\ x.base = th[p].base
  BY ZenonT(40) DEF Thread
<1>4. ThreadOK(x)
  BY Zenon, <1>3 DEF ThreadOK, Mapping, Unmapping, InFault, CowPCs, UnmapOps
<1> HIDE DEF x
<1> QED BY Zenon, <1>1, <1>2, <1>3, <1>4 DEF Moves

\* handle_cow_fault() returns to usertrap() or to copyout().
LEMMA MovesCowDone ==
  ASSUME NEW p \in Procs, th[p] \in Thread, ThreadOK(th[p]), InFault(th[p]), CowDone(p)
  PROVE  Moves(p)
<1>1. CASE th[p].op = "store"
  BY Zenon, <1>1, MovesToUser DEF CowDone, ReturnToUser
<1>2. CASE th[p].op # "store"
  <2> DEFINE x == [th[p] EXCEPT !.pc = "copyout", !.pa = None, !.new = None, !.ret = ""]
  <2>1. Becomes(p, x)
    BY Zenon, <1>2 DEF CowDone
  <2>2. x \in Thread
    BY ZenonT(40) DEF Thread, PCs
  <2>3. /\ x.pc = "copyout" /\ x.op = th[p].op /\ x.i = th[p].i /\ x.val = th[p].val
        /\ x.np = th[p].np
    BY ZenonT(40) DEF Thread
  <2>4. ThreadOK(x)
    BY Zenon, <1>2, <2>3 DEF ThreadOK, Mapping, Unmapping, InFault, CowPCs
  <2> HIDE DEF x
  <2> QED BY Zenon, <2>1, <2>2, <2>3, <2>4 DEF Moves
<1> QED BY Zenon, <1>1, <1>2

\* handle_cow_fault().
LEMMA CowControl ==
  ASSUME Control, NEW p \in Procs, CowRefcount(p) \/ CowOwn(p) \/ CowCopy(p)
  PROVE  Control'
<1>0. /\ th[p] \in Thread /\ ThreadOK(th[p]) /\ MemType /\ TabType /\ ProcType
      /\ Tab(p) \in Tables
  BY Zenon, TypeParts, TablesOf DEF Control, ThreadsOK
<1>1. CASE CowRefcount(p)
  <2> DEFINE x == [th[p] EXCEPT !.pc = IF refcnt[th[p].pa] = 1 THEN "cow_own" ELSE "cow_kalloc"]
  <2>1. Becomes(p, x) /\ th[p].pc = "cow_refcount"
    BY Zenon, <1>1 DEF CowRefcount, Goto, At
  <2>2. x \in Thread /\ x = [th[p] EXCEPT !.pc = x.pc] /\ x.pc \in {"cow_own", "cow_kalloc"}
    BY ZenonT(60), <1>0 DEF Thread, PCs
  <2>3. ThreadOK(x) /\ x.op = th[p].op /\ x.np = th[p].np
    BY ZenonT(40), <1>0, <2>1, <2>2 DEF Thread, ThreadOK, Mapping, Unmapping, InFault, CowPCs
  <2>4. MemType' /\ TabType' /\ ProcType' /\ UNCHANGED <<state, waitlock, panicked>>
    BY Zenon, <1>0, <1>1 DEF CowRefcount, memvars, tabvars, procvars, MemType, TabType, ProcType
  <2>5. Moves(p)
    <3> HIDE DEF x
    <3> QED BY Zenon, <2>1, <2>2, <2>3 DEF Moves
  <2> QED BY Zenon, <2>1, <2>4, <2>5, ControlStep
<1>2. CASE CowOwn(p)
  <2>1. th[p].pc = "cow_own" /\ InFault(th[p]) /\ CowDone(p)
    BY Zenon, <1>2 DEF CowOwn, At, InFault, CowPCs
  <2>2. th[p].i \in Vas
    BY Zenon, <1>0, <2>1 DEF ThreadOK
  <2>3. TabType'
    BY ZenonT(40), <1>0, <1>2, <2>2 DEF CowOwn, TabType, Flags, MadeWritable
  <2>4. MemType' /\ ProcType' /\ UNCHANGED <<state, waitlock, panicked>>
    BY Zenon, <1>0, <1>2 DEF CowOwn, memvars, procvars, MemType, ProcType
  <2> QED BY Zenon, <1>0, <2>1, <2>3, <2>4, MovesCowDone, ControlStep
<1>3. CASE CowCopy(p)
  <2> DEFINE x == [th[p] EXCEPT !.pc = "kfree", !.ret = "cow"]
  <2>1. Becomes(p, x) /\ th[p].pc = "cow_copy"
    BY Zenon, <1>3 DEF CowCopy, At
  <2>2. x \in Thread
    BY ZenonT(40), <1>0 DEF Thread, PCs
  <2>3. ThreadOK(x) /\ x.pc # "dead" /\ x.op = th[p].op /\ x.np = th[p].np
    BY ZenonT(40), <1>0, <2>1 DEF Thread, ThreadOK, Mapping, Unmapping, InFault, CowPCs
  <2>4. th[p].i \in Vas /\ th[p].new \in Pages /\ th[p].pa \in Pages
    BY Zenon, <1>0, <2>1 DEF ThreadOK, InFault, CowPCs
  <2>5. MadeWritable(perm[Tab(p)][th[p].i]) \in SUBSET Flags
    BY Zenon, <1>0, <2>4, PteType DEF MadeWritable, Flags
  <2>6. TabType'
    BY Zenon, <1>0, <1>3, <2>4, <2>5, SetPteType DEF CowCopy
  <2>7. MemType' /\ ProcType' /\ UNCHANGED <<state, waitlock, panicked>>
    BY Zenon, <1>0, <1>3, <2>4 DEF CowCopy, procvars, MemType, ProcType
  <2>8. Moves(p)
    <3> HIDE DEF x
    <3> QED BY Zenon, <2>1, <2>2, <2>3 DEF Moves
  <2> QED BY Zenon, <2>1, <2>6, <2>7, <2>8, ControlStep
<1> QED BY Zenon, <1>1, <1>2, <1>3

\* A failing handle_cow_fault() or copyout(); wait() lets go of wait_lock.
LEMMA CowFailControl ==
  ASSUME Control, NEW p \in Procs, CowFail(p), th[p].op \in {"store", "write", "wait"},
         UNCHANGED <<memvars, tabvars, sz, state, parent, panicked>>
  PROVE  Control'
<1> DEFINE x == IF th[p].op = "store" THEN [Idle EXCEPT !.pc = "exit"] ELSE Idle
<1>0. /\ th[p] \in Thread /\ ThreadOK(th[p]) /\ MemType /\ TabType /\ ProcType
  BY Zenon, TypeParts DEF Control, ThreadsOK
<1>1. x \in Thread /\ ThreadOK(x) /\ Becomes(p, x)
  BY Zenon, IdleOK DEF CowFail
<1>2. x.op = "none" /\ x.pc # "dead"
  BY Zenon DEF Idle
<1>3. /\ th' \in [Procs -> Thread] /\ ThreadsOK' /\ th'[p] = x
      /\ \A q \in Procs : q # p => th'[q] = th[q]
  <2> HIDE DEF x
  <2> QED BY Zenon, <1>1, ThreadUpdate DEF Control
<1>4. waitlock' \in Procs \cup {None}
  BY Zenon, <1>0 DEF CowFail, ProcType
<1>5. TypeOK'
  BY ZenonT(40), <1>3, <1>4 DEF Control, TypeOK, memvars, tabvars
<1>6. th[p].pc # "dead"
  BY Zenon, <1>0 DEF ThreadOK
<1>7. \A q \in Procs : q # p /\ th[q].op = "wait" => waitlock' = q
  BY Zenon DEF CowFail, Control, OwnersOK
<1>8. OwnersOK'
  <2> HIDE DEF x
  <2> QED BY Z3T(40), <1>2, <1>3, <1>6, <1>7 DEF Control, OwnersOK, At
<1> QED BY Zenon, <1>3, <1>5, <1>8 DEF Control

\* The kalloc() of handle_cow_fault().
LEMMA CowKallocControl == ASSUME Control, NEW p \in Procs, CowKalloc(p) PROVE Control'
<1>0. /\ th[p] \in Thread /\ ThreadOK(th[p]) /\ MemType /\ TabType /\ ProcType
  BY Zenon, TypeParts DEF Control, ThreadsOK
<1>1. /\ th[p].pc = "cow_kalloc"
      /\ th[p].op \in {"store", "write", "wait"}
  BY ZenonT(40), <1>0 DEF CowKalloc, At, ThreadOK, InFault, CowPCs
<1>2. CASE freelist = {} /\ CowFail(p) /\ UNCHANGED memvars
  BY Zenon, <1>1, <1>2, CowFailControl DEF CowKalloc
<1>3. ASSUME NEW pg \in freelist, Kalloc(pg), UNCHANGED waitlock,
             Becomes(p, [th[p] EXCEPT !.new = pg, !.pc = "cow_copy"])
      PROVE  Control'
  <2> DEFINE x == [th[p] EXCEPT !.new = pg, !.pc = "cow_copy"]
  <2>1. pg \in Pages
    BY Zenon, <1>0 DEF MemType
  <2>2. x \in Thread
    BY ZenonT(40), <1>0, <2>1 DEF Thread, PCs
  <2>3. ThreadOK(x) /\ x.pc # "dead" /\ x.op = th[p].op /\ x.np = th[p].np
    BY ZenonT(40), <1>0, <1>1, <2>1 DEF Thread, ThreadOK, Mapping, Unmapping, InFault, CowPCs
  <2>4. MemType'
    BY <1>0, <1>3, <2>1 DEF Kalloc, MemType
  <2>5. TabType' /\ ProcType' /\ UNCHANGED <<state, waitlock, panicked>>
    BY ZenonT(40), <1>0, <1>3 DEF CowKalloc, tabvars, TabType, ProcType
  <2>6. Moves(p)
    <3>1. Becomes(p, x) BY Zenon, <1>3
    <3> HIDE DEF x
    <3> QED BY Zenon, <2>2, <2>3, <3>1 DEF Moves
  <2> QED BY Zenon, <1>1, <2>4, <2>5, <2>6, ControlStep
<1> QED BY ZenonT(40), <1>2, <1>3 DEF CowKalloc

\* The steps of copyout() after its fault.
LEMMA CopyoutControl ==
  ASSUME Control, NEW p \in Procs, CopyoutStore(p) \/ CopyoutFail(p)
  PROVE  Control'
<1>0. /\ th[p] \in Thread /\ ThreadOK(th[p]) /\ MemType /\ TabType /\ ProcType
      /\ Tab(p) \in Tables
  BY Zenon, TypeParts, TablesOf DEF Control, ThreadsOK
<1>1. /\ th[p].pc = "copyout" /\ th[p].op \in {"write", "wait"} /\ th[p].i \in Vas
      /\ th[p].val \in Values
  BY Zenon, <1>0 DEF CopyoutStore, CopyoutFail, At, ThreadOK
<1>2. CASE CopyoutFail(p)
  BY Zenon, <1>1, <1>2, CowFailControl DEF CopyoutFail
<1>3. CASE CopyoutStore(p)
  <2>1. ppn[Tab(p)][th[p].i] \in Pages
    BY Zenon, <1>0, <1>1, <1>3, PteType DEF CopyoutStore, Writable
  <2>2. MemType'
    BY Zenon, <1>0, <1>1, <1>3, <2>1 DEF CopyoutStore, MemType
  <2>3. TabType' /\ ProcType' /\ UNCHANGED <<state, waitlock, panicked>>
    BY Zenon, <1>0, <1>3 DEF CopyoutStore, tabvars, procvars, TabType, ProcType
  <2>4. Moves(p)
    <3>1. CASE th[p].op # "wait"
      BY Zenon, <1>3, <3>1, MovesToUser DEF CopyoutStore
    <3>2. CASE th[p].op = "wait"
      <4>1. th[p].np \in Procs
        BY Zenon, <1>0, <3>2 DEF ThreadOK
      <4>2. sz[th[p].np] \in 0 .. NVa /\ 0 \in 0 .. NVa /\ 0 <= sz[th[p].np]
        BY Z3T(40), <1>0, <4>1, SizeAssumption DEF ProcType
      <4>3. GotoUnmap(p, 0, sz[th[p].np])
        BY Zenon, <1>3, <3>2 DEF CopyoutStore
      <4> QED BY Zenon, <1>0, <3>2, <4>1, <4>2, <4>3, MovesToUnmap DEF UnmapOps
    <3> QED BY Zenon, <3>1, <3>2
  <2> QED BY Zenon, <1>1, <2>2, <2>3, <2>4, ControlStep
<1> QED BY Zenon, <1>2, <1>3

\* kfree() and its return to the caller.
LEMMA KfreeReturnControl ==
  ASSUME Control, NEW p \in Procs, th[p].pc \in {"kfree", "kfree_push"}, KfreeReturn(p),
         MemType', UNCHANGED <<cur, procvars, panicked>>
  PROVE  Control'
<1>0. /\ th[p] \in Thread /\ ThreadOK(th[p]) /\ MemType /\ TabType /\ ProcType
      /\ Target(p) \in Tables
  BY Zenon, TypeParts, TargetType DEF Control, ThreadsOK
<1>1. ProcType' /\ UNCHANGED <<state, waitlock, panicked>>
  BY Zenon, <1>0 DEF ProcType, procvars
<1>2. th[p].ret \in {"cow", "undo", "unmap"}
  BY Zenon, <1>0 DEF ThreadOK
<1>3. CASE th[p].ret = "cow"
  <2>1. InFault(th[p]) /\ CowDone(p) /\ UNCHANGED <<ppn, perm>>
    BY Zenon, <1>3 DEF KfreeReturn, InFault
  <2>2. TabType'
    BY Zenon, <1>0, <2>1 DEF TabType
  <2> QED BY Zenon, <1>0, <1>1, <2>1, <2>2, MovesCowDone, ControlStep
<1>4. CASE th[p].ret = "undo"
  <2>1. GotoUnmap(p, th[p].base, th[p].i) /\ UNCHANGED <<ppn, perm>>
    BY Zenon, <1>4 DEF KfreeReturn
  <2>2. TabType'
    BY Zenon, <1>0, <2>1 DEF TabType
  <2>3. /\ th[p].op \in {"grow", "exec"} /\ th[p].base <= th[p].i /\ th[p].i < th[p].lim
        /\ th[p].op = "exec" => th[p].lim <= ImageSize /\ th[p].base = 0
    BY Zenon, <1>0, <1>4 DEF ThreadOK, Mapping
  <2>4. th[p].base \in 0 .. NVa /\ th[p].i \in 0 .. NVa /\ th[p].lim \in 0 .. NVa
    BY ZenonT(40), <1>0 DEF Thread
  <2>5. th[p].op = "exec" => th[p].i <= ImageSize /\ th[p].base = 0
    BY Z3T(40), <2>3, <2>4, SizeAssumption
  <2>6. Moves(p)
    BY Z3T(40), <1>0, <2>1, <2>3, <2>4, <2>5, MovesToUnmap DEF UnmapOps
  <2> QED BY Zenon, <1>0, <1>1, <2>2, <2>6, ControlStep
<1>5. CASE th[p].ret = "unmap"
  <2>1. GotoUnmap(p, th[p].i + 1, th[p].lim) /\ ClearPte(Target(p), th[p].i)
    BY Zenon, <1>5 DEF KfreeReturn
  <2>2. /\ th[p].op \in UnmapOps /\ th[p].i < th[p].lim
        /\ th[p].op \in {"grow", "shrink"} => th[p].base <= th[p].i
        /\ th[p].op = "exec" => th[p].lim <= ImageSize /\ th[p].base = 0
        /\ th[p].op = "wait" => th[p].np \in Procs
    BY Zenon, <1>0, <1>5 DEF ThreadOK, Unmapping
  <2>3. th[p].base \in 0 .. NVa /\ th[p].i \in 0 .. NVa /\ th[p].lim \in 0 .. NVa
    BY ZenonT(40), <1>0 DEF Thread
  <2>4. /\ th[p].i \in Vas /\ th[p].i + 1 \in 0 .. NVa /\ th[p].i + 1 <= th[p].lim
        /\ th[p].op \in {"grow", "shrink"} => th[p].base <= th[p].i + 1
    BY Z3T(40), <2>2, <2>3, SizeAssumption
  <2>5. TabType'
    <3>1. SetPte(Target(p), th[p].i, None, {})
      BY Zenon, <2>1 DEF ClearPte
    <3> QED BY Z3T(40), <1>0, <2>4, <3>1, SetPteType
  <2>6. Moves(p)
    BY Zenon, <1>0, <2>1, <2>2, <2>3, <2>4, MovesToUnmap
  <2> QED BY Zenon, <1>0, <1>1, <2>5, <2>6, ControlStep
<1> QED BY Zenon, <1>2, <1>3, <1>4, <1>5

\* The two critical sections of kfree().
LEMMA KfreeControl == ASSUME Control, NEW p \in Procs, Kfree(p) \/ KfreeEnd(p) PROVE Control'
<1>0. /\ th[p] \in Thread /\ ThreadOK(th[p]) /\ MemType /\ TabType /\ ProcType
  BY Zenon, TypeParts DEF Control, ThreadsOK
<1>1. th[p].pc \in {"kfree", "kfree_push"} /\ th[p].pa \in Pages
  BY ZenonT(40), <1>0 DEF Kfree, KfreeEnd, At, ThreadOK
<1>2. MemType'
  <2>1. CASE Kfree(p)
    BY Z3T(40), <1>0, <1>1, <2>1 DEF Kfree, KfreeDec, MemType
  <2>2. CASE KfreeEnd(p)
    BY Zenon, <1>0, <1>1, <2>2 DEF KfreeEnd, KfreePush, MemType
  <2> QED BY Zenon, <2>1, <2>2
<1>3. UNCHANGED <<cur, procvars, panicked>>
  BY Zenon DEF Kfree, KfreeEnd
<1>4. CASE KfreeReturn(p)
  BY Zenon, <1>1, <1>2, <1>3, <1>4, KfreeReturnControl
<1>5. CASE ~KfreeReturn(p)
  <2> DEFINE x == [th[p] EXCEPT !.pc = "kfree_push"]
  <2>1. th[p].pc = "kfree" /\ Becomes(p, x) /\ UNCHANGED <<ppn, perm>>
    BY Zenon, <1>5 DEF Kfree, KfreeEnd, At, Goto
  <2>2. x \in Thread
    BY ZenonT(40), <1>0 DEF Thread, PCs
  <2>3. ThreadOK(x) /\ x.pc # "dead" /\ x.op = th[p].op /\ x.np = th[p].np
    BY ZenonT(40), <1>0, <2>1 DEF Thread, ThreadOK, Mapping, Unmapping, InFault, CowPCs
  <2>4. TabType' /\ ProcType' /\ UNCHANGED <<state, waitlock, panicked>>
    BY Zenon, <1>0, <1>3, <2>1 DEF TabType, ProcType, procvars
  <2>5. Moves(p)
    <3> HIDE DEF x
    <3> QED BY Zenon, <2>1, <2>2, <2>3 DEF Moves
  <2> QED BY Zenon, <1>2, <2>1, <2>4, <2>5, ControlStep
<1> QED BY Zenon, <1>4, <1>5

\* A panic changes no state but the message.
LEMMA PanicControl ==
  ASSUME Control, NEW msg \in {"init exiting", "uvmunmap: not mapped",
                               "uvmcopy: page not present", "mappages: remap",
                               "freewalk: leaf"}, Panic(msg)
  PROVE  Control'
<1>1. TypeOK'
  BY ZenonT(40) DEF Control, TypeOK, Panic
<1>2. ThreadsOK' /\ OwnersOK'
  BY ZenonT(40) DEF Control, ThreadsOK, OwnersOK, Panic, At
<1> QED BY ZenonT(40), <1>1, <1>2 DEF Control

\* One iteration of uvmunmap().
LEMMA UnmapPageControl == ASSUME Control, NEW p \in Procs, UnmapPage(p) PROVE Control'
<1> DEFINE t == Target(p)  pg == ppn[t][th[p].i]
<1>0. /\ th[p] \in Thread /\ ThreadOK(th[p]) /\ MemType /\ TabType /\ ProcType /\ t \in Tables
  BY Zenon, TypeParts, TargetType DEF Control, ThreadsOK
<1>1. /\ th[p].pc = "unmap" /\ th[p].i < th[p].lim
      /\ th[p].i \in 0 .. NVa /\ th[p].lim \in 0 .. NVa /\ th[p].base \in 0 .. NVa
  BY ZenonT(40), <1>0 DEF UnmapPage, At, Thread
<1>2. /\ th[p].i \in Vas /\ th[p].i + 1 \in 0 .. NVa /\ th[p].i + 1 <= th[p].lim
  BY <1>1, SizeAssumption
<1>3. CASE Panic("uvmunmap: not mapped")
  BY ZenonT(40), <1>3, PanicControl
<1>4. CASE ~Panic("uvmunmap: not mapped")
  <2>1. /\ pg # None /\ KfreeDec(pg) /\ UNCHANGED <<cur, procvars, panicked>>
        /\ \/ ClearPte(t, th[p].i) /\ Becomes(p, [th[p] EXCEPT !.i = @ + 1])
           \/ /\ Becomes(p, [th[p] EXCEPT !.pc = "kfree_push", !.pa = pg, !.ret = "unmap"])
              /\ UNCHANGED <<ppn, perm>>
    BY ZenonT(40), <1>4 DEF UnmapPage
  <2>2. pg \in Pages
    BY Zenon, <1>0, <1>2, <2>1, PteType
  <2>3. MemType'
    <3> HIDE DEF pg
    <3> QED BY <1>0, <2>1, <2>2 DEF KfreeDec, MemType
  <2>4. ProcType' /\ UNCHANGED <<state, waitlock, panicked>>
    BY Zenon, <1>0, <2>1 DEF ProcType, procvars
  <2>5. CASE ClearPte(t, th[p].i) /\ Becomes(p, [th[p] EXCEPT !.i = @ + 1])
    <3> DEFINE x == [th[p] EXCEPT !.i = th[p].i + 1]
    <3>1. TabType'
      <4> HIDE DEF t
      <4> QED BY <1>0, <1>2, <2>1, <2>5, SetPteType DEF ClearPte
    <3>2. x \in Thread
      BY ZenonT(40), <1>0, <1>2 DEF Thread
    <3>3. /\ x.i = th[p].i + 1 /\ x.pc = "unmap" /\ x.op = th[p].op /\ x.np = th[p].np
          /\ x.lim = th[p].lim /\ x.base = th[p].base
      BY ZenonT(40), <1>0, <1>1 DEF Thread
    <3>4. ThreadOK(x)
      <4> HIDE DEF x
      <4> QED BY Z3T(40), <1>0, <1>1, <1>2, <3>3 DEF ThreadOK, Mapping, Unmapping, InFault, CowPCs, UnmapOps
    <3>5. Moves(p)
      <4>1. Becomes(p, x) BY Zenon, <2>5
      <4> HIDE DEF x
      <4> QED BY Zenon, <3>2, <3>3, <3>4, <4>1 DEF Moves
    <3> QED BY Zenon, <1>1, <2>3, <2>4, <3>1, <3>5, ControlStep
  <2>6. CASE /\ Becomes(p, [th[p] EXCEPT !.pc = "kfree_push", !.pa = pg, !.ret = "unmap"])
             /\ UNCHANGED <<ppn, perm>>
    <3> DEFINE x == [th[p] EXCEPT !.pc = "kfree_push", !.pa = pg, !.ret = "unmap"]
    <3>1. TabType'
      BY Zenon, <1>0, <2>1, <2>6 DEF TabType
    <3> HIDE DEF pg
    <3>2. x \in Thread
      BY ZenonT(40), <1>0, <2>2 DEF Thread, PCs
    <3>3. /\ x.i = th[p].i /\ x.pc = "kfree_push" /\ x.op = th[p].op /\ x.np = th[p].np
          /\ x.lim = th[p].lim /\ x.base = th[p].base /\ x.pa = pg /\ x.ret = "unmap"
      BY ZenonT(40), <1>0 DEF Thread
    <3>4. ThreadOK(x)
      <4> HIDE DEF x
      <4> QED BY Zenon, <1>0, <1>1, <2>2, <3>3 DEF ThreadOK, Mapping, Unmapping, InFault, CowPCs, UnmapOps
    <3>5. Moves(p)
      <4>1. Becomes(p, x) BY Zenon, <2>6
      <4> HIDE DEF x
      <4> QED BY Zenon, <3>2, <3>3, <3>4, <4>1 DEF Moves
    <3> QED BY Zenon, <1>1, <2>3, <2>4, <3>1, <3>5, ControlStep
  <2> QED BY Zenon, <2>1, <2>5, <2>6
<1> QED BY ZenonT(40), <1>3, <1>4

-----------------------------------------------------------------------------

\* The uvmalloc() loop and what follows it.
LEMMA AllocControl ==
  ASSUME Control, NEW p \in Procs, AllocPage(p) \/ MapPage(p) \/ MapFail(p)
  PROVE  Control'
<1>0. /\ th[p] \in Thread /\ ThreadOK(th[p]) /\ MemType /\ TabType /\ ProcType
      /\ Target(p) \in Tables
  BY Zenon, TypeParts, TargetType DEF Control, ThreadsOK
<1>1. /\ th[p].pc \in {"kalloc", "map"} /\ th[p].op \in {"grow", "exec"}
      /\ th[p].base <= th[p].i /\ th[p].i < th[p].lim
      /\ th[p].i \in 0 .. NVa /\ th[p].lim \in 0 .. NVa /\ th[p].base \in 0 .. NVa
      /\ th[p].op = "exec" => th[p].lim <= ImageSize /\ th[p].base = 0
  BY ZenonT(40), <1>0 DEF AllocPage, MapPage, MapFail, At, Thread, ThreadOK, Mapping
<1>2. /\ th[p].i \in Vas /\ th[p].i + 1 \in 0 .. NVa /\ th[p].i + 1 <= th[p].lim
      /\ th[p].base <= th[p].i + 1
      /\ th[p].op = "exec" => th[p].i <= ImageSize /\ th[p].i \in 0 .. ImageSize-1
  BY <1>1, SizeAssumption
<1>3. ASSUME NEW pg \in freelist, Kalloc(pg), UNCHANGED <<tabvars, procvars, panicked>>,
             th[p].pc = "kalloc", Becomes(p, [th[p] EXCEPT !.new = pg, !.pc = "map"])
      PROVE  Control'
  <2> DEFINE x == [th[p] EXCEPT !.new = pg, !.pc = "map"]
  <2>1. pg \in Pages
    BY Zenon, <1>0 DEF MemType
  <2>2. x \in Thread
    BY ZenonT(40), <1>0, <2>1 DEF Thread, PCs
  <2>3. /\ x.i = th[p].i /\ x.pc = "map" /\ x.op = th[p].op /\ x.np = th[p].np
        /\ x.lim = th[p].lim /\ x.base = th[p].base /\ x.new = pg
    BY ZenonT(40), <1>0 DEF Thread
  <2>4. ThreadOK(x)
    <3> HIDE DEF x
    <3> QED BY <1>1, <2>1, <2>3 DEF ThreadOK, Mapping, Unmapping, InFault, CowPCs
  <2>5. MemType'
    BY <1>0, <1>3, <2>1 DEF Kalloc, MemType
  <2>6. TabType' /\ ProcType' /\ UNCHANGED <<state, waitlock, panicked>>
    BY Zenon, <1>0, <1>3 DEF tabvars, procvars, TabType, ProcType
  <2>7. Moves(p)
    <3>1. Becomes(p, x) BY Zenon, <1>3
    <3> HIDE DEF x
    <3> QED BY Zenon, <1>1, <2>2, <2>3, <2>4, <3>1 DEF Moves
  <2> QED BY Zenon, <1>1, <2>5, <2>6, <2>7, ControlStep
<1>4. CASE AllocPage(p) /\ GotoUnmap(p, th[p].base, th[p].i) /\ UNCHANGED memvars
  <2>1. MemType' /\ TabType' /\ ProcType' /\ UNCHANGED <<state, waitlock, panicked>>
    BY ZenonT(40), <1>0, <1>4 DEF AllocPage, memvars, tabvars, procvars, MemType, TabType, ProcType
  <2>2. Moves(p)
    BY <1>0, <1>1, <1>2, <1>4, MovesToUnmap DEF UnmapOps
  <2> QED BY Zenon, <1>1, <2>1, <2>2, ControlStep
<1>7. CASE MapPage(p) /\ Panic("mappages: remap")
  BY ZenonT(40), <1>7, PanicControl
<1>5. CASE MapPage(p) /\ ~Panic("mappages: remap")
  <2>0. /\ SetPte(Target(p), th[p].i, th[p].new, MapPerm(p))
        /\ Becomes(p, [th[p] EXCEPT !.pc = "kalloc", !.i = th[p].i + 1, !.new = None])
        /\ UNCHANGED <<memvars, cur, procvars, panicked>>
    BY ZenonT(40), <1>5 DEF MapPage
  <2> DEFINE x == [th[p] EXCEPT !.pc = "kalloc", !.i = th[p].i + 1, !.new = None]
  <2>1. Becomes(p, x) /\ th[p].pc = "map"
    BY Zenon, <1>5, <2>0 DEF MapPage, At
  <2>2. x \in Thread
    BY ZenonT(40), <1>0, <1>2 DEF Thread, PCs
  <2>3. /\ x.i = th[p].i + 1 /\ x.pc = "kalloc" /\ x.op = th[p].op /\ x.np = th[p].np
        /\ x.lim = th[p].lim /\ x.base = th[p].base
    BY ZenonT(40), <1>0 DEF Thread
  <2>4. ThreadOK(x)
    <3> HIDE DEF x
    <3> QED BY Zenon, <1>1, <1>2, <2>3 DEF ThreadOK, Mapping, Unmapping, InFault, CowPCs
  <2>5. th[p].new \in Pages
    BY Zenon, <1>0, <2>1 DEF ThreadOK
  <2>6. MapPerm(p) \in SUBSET Flags
    BY Zenon, <1>2, ImageAssumption DEF MapPerm, Flags
  <2>7. TabType'
    BY Zenon, <1>0, <1>2, <2>0, <2>5, <2>6, SetPteType
  <2>8. MemType' /\ ProcType' /\ UNCHANGED <<state, waitlock, panicked>>
    BY Zenon, <1>0, <2>0 DEF memvars, procvars, MemType, ProcType
  <2>9. Moves(p)
    <3> HIDE DEF x
    <3> QED BY Zenon, <1>1, <2>1, <2>2, <2>3, <2>4 DEF Moves
  <2> QED BY Zenon, <1>1, <2>7, <2>8, <2>9, ControlStep
<1>6. CASE MapFail(p)
  <2> DEFINE x == [th[p] EXCEPT !.pc = "kfree", !.ret = "undo", !.pa = th[p].new, !.new = None]
  <2>1. Becomes(p, x) /\ th[p].pc = "map"
    BY Zenon, <1>6 DEF MapFail, At
  <2>5. th[p].new \in Pages
    BY Zenon, <1>0, <2>1 DEF ThreadOK
  <2>2. x \in Thread
    BY ZenonT(40), <1>0, <2>5 DEF Thread, PCs
  <2>3. /\ x.i = th[p].i /\ x.pc = "kfree" /\ x.op = th[p].op /\ x.np = th[p].np
        /\ x.lim = th[p].lim /\ x.base = th[p].base /\ x.pa = th[p].new /\ x.ret = "undo"
    BY ZenonT(40), <1>0 DEF Thread
  <2>4. ThreadOK(x)
    <3> HIDE DEF x
    <3> QED BY Z3T(40), <1>1, <2>3, <2>5 DEF ThreadOK, Mapping, Unmapping, InFault, CowPCs
  <2>6. MemType' /\ TabType' /\ ProcType' /\ UNCHANGED <<state, waitlock, panicked>>
    BY Zenon, <1>0, <1>6 DEF MapFail, memvars, tabvars, procvars, MemType, TabType, ProcType
  <2>7. Moves(p)
    <3> HIDE DEF x
    <3> QED BY Zenon, <1>1, <2>1, <2>2, <2>3, <2>4 DEF Moves
  <2> QED BY Zenon, <1>1, <2>6, <2>7, ControlStep
<1> QED BY ZenonT(40), <1>3, <1>4, <1>5, <1>6, <1>7 DEF AllocPage, At

\* The ends of sbrk() and exec().
LEMMA LoopEndControl ==
  ASSUME Control, NEW p \in Procs, Grown(p) \/ ExecBad(p) \/ ExecCommit(p)
  PROVE  Control'
<1>0. /\ th[p] \in Thread /\ ThreadOK(th[p]) /\ MemType /\ TabType /\ ProcType
      /\ Tab(p) \in Tables /\ Alt(p) \in Tables
  BY Zenon, TypeParts, TablesOf DEF Control, ThreadsOK
<1>1. /\ th[p].pc = "kalloc" /\ th[p].op \in {"grow", "exec"}
      /\ th[p].base <= th[p].i /\ th[p].i <= th[p].lim
      /\ th[p].i \in 0 .. NVa /\ th[p].lim \in 0 .. NVa /\ th[p].base \in 0 .. NVa
      /\ th[p].op = "exec" => th[p].lim <= ImageSize /\ th[p].base = 0
  BY ZenonT(40), <1>0 DEF Grown, ExecBad, ExecCommit, At, Thread, ThreadOK, Mapping
<1>2. CASE Grown(p)
  <2>1. ProcType' /\ UNCHANGED <<state, waitlock, panicked>>
    BY Zenon, <1>0, <1>1, <1>2 DEF Grown, ProcType
  <2>2. MemType' /\ TabType'
    BY Zenon, <1>0, <1>2 DEF Grown, memvars, tabvars, MemType, TabType
  <2>3. Moves(p)
    BY Zenon, <1>2, MovesToUser DEF Grown
  <2> QED BY Zenon, <1>1, <2>1, <2>2, <2>3, ControlStep
<1>3. CASE ExecBad(p)
  <2>1. MemType' /\ TabType' /\ ProcType' /\ UNCHANGED <<state, waitlock, panicked>>
    BY Zenon, <1>0, <1>3 DEF ExecBad, memvars, tabvars, procvars, MemType, TabType, ProcType
  <2>2. 0 \in 0 .. NVa /\ 0 <= th[p].i /\ th[p].op = "exec" /\ th[p].i <= ImageSize
    BY Z3T(40), <1>1, <1>3, SizeAssumption DEF ExecBad
  <2>3. Moves(p)
    BY Zenon, <1>0, <1>1, <1>3, <2>2, MovesToUnmap DEF ExecBad, UnmapOps
  <2> QED BY Zenon, <1>1, <2>1, <2>3, ControlStep
<1>4. CASE ExecCommit(p)
  <2> DEFINE x == [Idle EXCEPT !.pc = "unmap", !.op = "execold", !.lim = sz[p]]
             new == {ppn[Alt(p)][va] : va \in 0 .. ImageSize-1}
  <2>1. PICK image \in [new -> Values] :
          mem' = [pg \in Pages |-> IF pg \in new THEN image[pg] ELSE mem[pg]]
    BY ZenonT(40), <1>4 DEF ExecCommit
  <2>2. mem' \in [Pages -> Values]
    <3> HIDE DEF new
    <3> QED BY Zenon, <1>0, <2>1 DEF MemType
  <2>3. MemType'
    BY Zenon, <1>0, <1>4, <2>2 DEF ExecCommit, MemType
  <2>4. TabType'
    BY Zenon, <1>0, <1>4 DEF ExecCommit, TabType, Other
  <2>5. ProcType' /\ UNCHANGED <<state, waitlock, panicked>>
    BY Zenon, <1>0, <1>4, SizeAssumption DEF ExecCommit, ProcType
  <2>6. sz[p] \in 0 .. NVa /\ 0 <= sz[p]
    BY <1>0 DEF ProcType
  <2>7. x \in Thread
    BY ZenonT(60), <2>6, IdleOK DEF Thread, PCs, Ops
  <2>8. x.pc = "unmap" /\ x.op = "execold" /\ x.lim = sz[p] /\ x.i = 0
    BY Zenon DEF Idle
  <2>9. ThreadOK(x)
    <3> HIDE DEF x
    <3> QED BY Zenon, <2>6, <2>8 DEF ThreadOK, Mapping, Unmapping, InFault, CowPCs, UnmapOps
  <2>10. Moves(p)
    <3>1. Becomes(p, x) BY Zenon, <1>4 DEF ExecCommit
    <3> HIDE DEF x
    <3> QED BY Zenon, <2>7, <2>8, <2>9, <3>1 DEF Moves
  <2> QED BY Zenon, <1>1, <2>3, <2>4, <2>5, <2>10, ControlStep
<1> QED BY Zenon, <1>2, <1>3, <1>4

\* uvmcopy().
LEMMA DupControl ==
  ASSUME Control, NEW p \in Procs, DupPage(p) \/ DupIncref(p)
  PROVE  Control'
<1>0. /\ th[p] \in Thread /\ ThreadOK(th[p]) /\ MemType /\ TabType /\ ProcType
      /\ Tab(p) \in Tables
  BY Zenon, TypeParts, TablesOf DEF Control, ThreadsOK
<1>1. /\ th[p].pc \in {"dup", "incref"} /\ th[p].op = "fork" /\ th[p].np \in Procs
      /\ th[p].i < th[p].lim /\ th[p].i \in 0 .. NVa /\ th[p].lim \in 0 .. NVa
  BY ZenonT(40), <1>0 DEF DupPage, DupIncref, At, Thread, ThreadOK
<1>2. /\ th[p].i \in Vas /\ th[p].i + 1 \in 0 .. NVa /\ th[p].i + 1 <= th[p].lim
      /\ Tab(th[p].np) \in Tables
  BY <1>0, <1>1, SizeAssumption, TablesOf
<1>3. CASE DupPage(p)
  <2> DEFINE c == th[p].np  va == th[p].i  pg == ppn[Tab(p)][va]
             fl == SharedPerm(perm[Tab(p)][va])
             x == [th[p] EXCEPT !.pc = "incref", !.pa = pg]
  <2>1. CASE Panic("uvmcopy: page not present")
    BY ZenonT(40), <2>1, PanicControl
  <2>3. CASE Panic("mappages: remap")
    BY ZenonT(40), <2>3, PanicControl
  <2>2. CASE ~Panic("uvmcopy: page not present") /\ ~Panic("mappages: remap")
    <3>1. /\ pg # None
          /\ ppn' = [ppn EXCEPT ![Tab(c)][va] = pg]
          /\ perm' = [perm EXCEPT ![Tab(p)][va] = fl, ![Tab(c)][va] = fl]
          /\ Becomes(p, x)
          /\ UNCHANGED <<memvars, cur, procvars, panicked>>
      BY ZenonT(40), <1>3, <2>2 DEF DupPage
    <3>2. pg \in Pages /\ fl \in SUBSET Flags
      <4>1. pg \in Pages \cup {None} /\ perm[Tab(p)][va] \in SUBSET Flags
        BY ZenonT(60), <1>0, <1>2, PteType
      <4>2. fl \in SUBSET Flags
        BY Zenon, <4>1 DEF SharedPerm, Flags
      <4> QED BY Zenon, <3>1, <4>1, <4>2
    <3>3. x \in Thread
      BY ZenonT(40), <1>0, <3>2 DEF Thread, PCs
    <3>4. /\ x.i = th[p].i /\ x.pc = "incref" /\ x.op = th[p].op /\ x.np = th[p].np
          /\ x.lim = th[p].lim /\ x.pa = pg
      BY ZenonT(40), <1>0 DEF Thread
    <3>5. ThreadOK(x)
      <4> HIDE DEF x, pg
      <4> QED BY Z3T(40), <1>1, <3>2, <3>4 DEF ThreadOK, Mapping, Unmapping, InFault, CowPCs
    <3>6. TabType'
      <4> HIDE DEF pg, fl
      <4> QED BY ZenonT(40), <1>0, <1>1, <1>2, <3>1, <3>2 DEF TabType
    <3>7. MemType' /\ ProcType' /\ UNCHANGED <<state, waitlock, panicked>>
      BY Zenon, <1>0, <3>1 DEF memvars, procvars, MemType, ProcType
    <3>8. Moves(p)
      <4> HIDE DEF x
      <4> QED BY Zenon, <3>1, <3>3, <3>4, <3>5 DEF Moves
    <3> QED BY Zenon, <1>1, <3>6, <3>7, <3>8, ControlStep
  <2> QED BY ZenonT(40), <2>1, <2>2, <2>3
<1>4. CASE DupIncref(p)
  <2> DEFINE x == [th[p] EXCEPT !.pc = "dup", !.i = th[p].i + 1, !.pa = None]
  <2>1. Becomes(p, x) /\ th[p].pc = "incref" /\ th[p].pa \in Pages
    BY Zenon, <1>0, <1>4 DEF DupIncref, At, ThreadOK
  <2>2. x \in Thread
    BY ZenonT(40), <1>0, <1>2 DEF Thread, PCs
  <2>3. /\ x.i = th[p].i + 1 /\ x.pc = "dup" /\ x.op = th[p].op /\ x.np = th[p].np
        /\ x.lim = th[p].lim
    BY ZenonT(40), <1>0 DEF Thread
  <2>4. ThreadOK(x)
    <3> HIDE DEF x
    <3> QED BY Zenon, <1>1, <1>2, <2>3 DEF ThreadOK, Mapping, Unmapping, InFault, CowPCs
  <2>5. MemType'
    BY <1>0, <1>4, <2>1 DEF DupIncref, Incref, MemType
  <2>6. TabType' /\ ProcType' /\ UNCHANGED <<state, waitlock, panicked>>
    BY Zenon, <1>0, <1>4 DEF DupIncref, tabvars, procvars, TabType, ProcType
  <2>7. Moves(p)
    <3> HIDE DEF x
    <3> QED BY Zenon, <2>1, <2>2, <2>3, <2>4 DEF Moves
  <2> QED BY Zenon, <1>1, <2>5, <2>6, <2>7, ControlStep
<1> QED BY Zenon, <1>3, <1>4

\* Entering the kernel: a fault, or a system call that involves no other process.
LEMMA EntryControl ==
  ASSUME Control, NEW p \in Procs, InUser(p), NEW x \in Thread, ThreadOK(x), Becomes(p, x),
         x.pc # "dead", x.op \notin {"fork", "wait"},
         UNCHANGED <<memvars, tabvars, procvars, panicked>>
  PROVE  Control'
<1>1. MemType /\ TabType /\ ProcType
  BY Zenon, TypeParts DEF Control
<1>2. MemType' /\ TabType' /\ ProcType' /\ UNCHANGED <<state, waitlock, panicked>>
  BY Zenon, <1>1 DEF memvars, tabvars, procvars, MemType, TabType, ProcType
<1>3. th[p].pc # "dead"
  BY Zenon DEF InUser, At
<1>4. Moves(p)
  BY Zenon DEF Moves
<1> QED BY Zenon, <1>2, <1>3, <1>4, ControlStep

\* What CowEntry() and CopyoutEntry() start with.
LEMMA CowEntryOK ==
  ASSUME TabType, NEW p \in Procs, NEW va \in Vas, NEW op \in {"store", "write", "wait"},
         NEW np \in Procs \cup {None}, NEW v \in Values \cup {None},
         op # "store" => v \in Values, op = "wait" => np \in Procs
  PROVE  /\ CowEntry(p, va, op, np, v).op = op /\ CowEntry(p, va, op, np, v).np = np
         /\ CowEntry(p, va, op, np, v).pc = "cow_refcount"
         /\ CowEntry(p, va, op, np, v) \in Thread
         /\ ppn[Tab(p)][va] # None => ThreadOK(CowEntry(p, va, op, np, v))
<1> DEFINE x == CowEntry(p, va, op, np, v)
<1>1. ppn[Tab(p)][va] \in Pages \cup {None}
  BY Zenon, TablesOf, PteType
<1>2. x \in Thread
  <2> DEFINE y == [Idle EXCEPT !.pc = "cow_refcount", !.op = op, !.i = va]
  <2>0. op \in Ops /\ va \in 0 .. NVa /\ "cow_refcount" \in PCs
    BY SizeAssumption DEF Ops, PCs
  <2>1. y \in Thread
    BY ZenonT(40), <2>0, IdleOK DEF Thread
  <2>2. x = [y EXCEPT !.np = np, !.val = v, !.pa = ppn[Tab(p)][va]]
    BY Zenon DEF CowEntry, Idle
  <2> HIDE DEF x, y
  <2> QED BY ZenonT(40), <1>1, <2>1, <2>2 DEF Thread
<1>3. /\ x.pc = "cow_refcount" /\ x.op = op /\ x.i = va /\ x.np = np /\ x.val = v
      /\ x.pa = ppn[Tab(p)][va]
  BY Zenon DEF CowEntry, Idle
<1>4. ASSUME ppn[Tab(p)][va] # None PROVE ThreadOK(x)
  <2> HIDE DEF x
  <2> QED BY Zenon, <1>1, <1>3, <1>4 DEF ThreadOK, Mapping, Unmapping, InFault, CowPCs
<1> HIDE DEF x
<1> QED BY Zenon, <1>2, <1>3, <1>4 DEF x

\* copyout() of a page of the caller starts in range.
LEMMA CopyoutEntryOK ==
  ASSUME TabType, NEW p \in Procs, NEW va \in Vas, NEW op \in {"write", "wait"},
         NEW np \in Procs \cup {None}, NEW v \in Values, op = "wait" => np \in Procs,
         CopyoutEntry(p, va, op, np, v)
  PROVE  \E x \in Thread : /\ ThreadOK(x) /\ Becomes(p, x) /\ x.op = op /\ x.np = np
                           /\ x.pc # "dead" /\ ~Unmapping(x)
<1> DEFINE y == CowEntry(p, va, op, np, v)
           x == [y EXCEPT !.pc = "copyout", !.pa = None]
<1>1. /\ y \in Thread /\ y.op = op /\ y.np = np /\ y.pc = "cow_refcount"
      /\ ppn[Tab(p)][va] # None => ThreadOK(y)
  BY Z3T(40), CowEntryOK
<1>2. CASE IsCow(Tab(p), va)
  <2>1. Becomes(p, y) /\ ppn[Tab(p)][va] # None
    BY Zenon, <1>2 DEF CopyoutEntry, IsCow
  <2> HIDE DEF y
  <2> QED BY Zenon, <1>1, <2>1 DEF Unmapping
<1>3. CASE ~IsCow(Tab(p), va)
  <2>1. Becomes(p, x)
    BY Zenon, <1>3 DEF CopyoutEntry
  <2>2. y.i = va /\ y.val = v
    BY Zenon DEF CowEntry, Idle
  <2> HIDE DEF y
  <2>3. x \in Thread
    BY ZenonT(40), <1>1 DEF Thread, PCs
  <2>4. x.pc = "copyout" /\ x.op = op /\ x.np = np /\ x.i = va /\ x.val = v
    BY ZenonT(40), <1>1, <2>2 DEF Thread
  <2> HIDE DEF x
  <2>5. ThreadOK(x) /\ ~Unmapping(x)
    BY Zenon, <2>4 DEF ThreadOK, Mapping, Unmapping, InFault, CowPCs
  <2> QED BY Zenon, <2>1, <2>3, <2>4, <2>5
<1> QED BY Zenon, <1>2, <1>3

\* Stores, faults and system calls of a thread in user mode.
LEMMA UserControl ==
  ASSUME Control, NEW p \in Procs,
         \/ \E va \in Vas, v \in Values : Store(p, va, v) \/ Write(p, va, v)
         \/ \E va \in Vas : StoreFault(p, va)
         \/ \E n \in 0 .. NVa : Grow(p, n) \/ Shrink(p, n)
         \/ Exec(p)
  PROVE  Control'
<1>0. /\ MemType /\ TabType /\ ProcType /\ Tab(p) \in Tables
      /\ sz[p] \in 0 .. NVa /\ 0 \in 0 .. NVa
  BY TypeParts, TablesOf, SizeAssumption DEF Control, ProcType
<1>1. ASSUME NEW va \in Vas, NEW v \in Values, Store(p, va, v) PROVE Control'
  <2>1. ppn[Tab(p)][va] \in Pages
    <3>1. ppn[Tab(p)][va] # None
      BY Zenon, <1>1 DEF Store, Writable
    <3>2. ppn[Tab(p)][va] \in Pages \cup {None}
      BY ZenonT(60), <1>0, PteType
    <3> QED BY Zenon, <3>1, <3>2
  <2>2. mem' \in [Pages -> Values]
    <3>1. mem' = [mem EXCEPT ![ppn[Tab(p)][va]] = v] /\ mem \in [Pages -> Values]
      BY Zenon, <1>0, <1>1 DEF Store, MemType
    <3> QED BY Zenon, <2>1, <3>1
  <2>3. TypeOK'
    BY ZenonT(40), <1>1, <2>2 DEF Store, Control, TypeOK
  <2>4. ThreadsOK' /\ OwnersOK'
    BY Zenon, <1>1 DEF Store, Control, ThreadsOK, OwnersOK, At
  <2> QED BY Zenon, <2>3, <2>4 DEF Control
<1>2. ASSUME NEW va \in Vas, NEW v \in Values, Write(p, va, v) PROVE Control'
  <2>1. PICK x \in Thread : ThreadOK(x) /\ Becomes(p, x) /\ x.op = "write" /\ x.pc # "dead"
    BY Z3T(40), <1>0, <1>2, CopyoutEntryOK DEF Write
  <2> QED BY Zenon, <1>2, <2>1, EntryControl DEF Write
<1>3. ASSUME NEW va \in Vas, StoreFault(p, va) PROVE Control'
  <2>1. CASE IsCow(Tab(p), va) /\ "U" \in perm[Tab(p)][va]
    <3> DEFINE x == CowEntry(p, va, "store", None, None)
    <3>1. x \in Thread /\ ThreadOK(x) /\ x.op = "store" /\ x.pc = "cow_refcount"
      BY Z3T(40), <1>0, <2>1, CowEntryOK DEF IsCow
    <3>2. Becomes(p, x)
      BY Zenon, <1>3, <2>1 DEF StoreFault
    <3> HIDE DEF x
    <3> QED BY Zenon, <1>3, <3>1, <3>2, EntryControl DEF StoreFault
  <2>2. CASE ~(IsCow(Tab(p), va) /\ "U" \in perm[Tab(p)][va])
    <3> DEFINE x == [Idle EXCEPT !.pc = "exit"]
    <3>1. Becomes(p, x)
      BY Zenon, <1>3, <2>2 DEF StoreFault
    <3>2. x \in Thread /\ ThreadOK(x)
      BY Zenon, IdleOK
    <3>3. x.pc = "exit" /\ x.op = "none"
      BY Zenon DEF Idle
    <3> HIDE DEF x
    <3> QED BY Zenon, <1>3, <3>1, <3>2, <3>3, EntryControl DEF StoreFault
  <2> QED BY Zenon, <2>1, <2>2
<1>4. ASSUME NEW n \in 0 .. NVa, Grow(p, n) PROVE Control'
  <2> DEFINE x == [Idle EXCEPT !.pc = "kalloc", !.op = "grow", !.i = sz[p], !.lim = n, !.base = sz[p]]
  <2>1. Becomes(p, x) /\ n > sz[p]
    BY ZenonT(40), <1>4 DEF Grow
  <2>2. x \in Thread
    BY ZenonT(60), <1>0, IdleOK DEF Thread, PCs, Ops
  <2>3. x.pc = "kalloc" /\ x.op = "grow" /\ x.i = sz[p] /\ x.lim = n /\ x.base = sz[p]
    BY Zenon DEF Idle
  <2> HIDE DEF x
  <2>5. x.i < x.lim /\ x.base <= x.i /\ x.i <= x.lim
    BY <1>0, <2>1, <2>3 DEF ProcType
  <2>4. ThreadOK(x)
    BY Zenon, <2>3, <2>5 DEF ThreadOK, Mapping, Unmapping, InFault, CowPCs
  <2> QED BY ZenonT(40), <1>4, <2>1, <2>2, <2>3, <2>4, EntryControl DEF Grow
<1>5. ASSUME NEW n \in 0 .. NVa, Shrink(p, n) PROVE Control'
  <2> DEFINE x == [Idle EXCEPT !.pc = "unmap", !.op = "shrink", !.i = n, !.lim = sz[p], !.base = n]
  <2>1. Becomes(p, x) /\ n < sz[p]
    BY ZenonT(40), <1>5 DEF Shrink
  <2>2. x \in Thread
    BY ZenonT(60), <1>0, IdleOK DEF Thread, PCs, Ops
  <2>3. x.pc = "unmap" /\ x.op = "shrink" /\ x.i = n /\ x.lim = sz[p] /\ x.base = n
    BY Zenon DEF Idle
  <2> HIDE DEF x
  <2>5. x.i <= x.lim /\ x.base <= x.i
    BY <1>0, <2>1, <2>3 DEF ProcType
  <2>4. ThreadOK(x)
    BY Zenon, <2>3, <2>5 DEF ThreadOK, Mapping, Unmapping, InFault, CowPCs, UnmapOps
  <2> QED BY ZenonT(40), <1>5, <2>1, <2>2, <2>3, <2>4, EntryControl DEF Shrink
<1>6. CASE Exec(p)
  <2> DEFINE x == [Idle EXCEPT !.pc = "kalloc", !.op = "exec", !.lim = ImageSize]
  <2>1. Becomes(p, x)
    BY Zenon, <1>6 DEF Exec
  <2>2. x \in Thread
    BY ZenonT(60), <1>0, SizeAssumption, IdleOK DEF Thread, PCs, Ops
  <2>3. x.pc = "kalloc" /\ x.op = "exec" /\ x.i = 0 /\ x.lim = ImageSize /\ x.base = 0
    BY Zenon DEF Idle
  <2> HIDE DEF x
  <2>4. ThreadOK(x)
    BY Z3T(40), <2>3, SizeAssumption DEF ThreadOK, Mapping, Unmapping, InFault, CowPCs
  <2> QED BY Zenon, <1>6, <2>1, <2>2, <2>3, <2>4, EntryControl DEF Exec
<1> QED BY Zenon, <1>1, <1>2, <1>3, <1>4, <1>5, <1>6

\* fork(), wait() and freeproc() change another process's state as well.
LEMMA ForkControl == ASSUME Control, NEW p \in Procs, NEW c \in Procs, Fork(p, c) PROVE Control'
<1>0. /\ MemType /\ TabType /\ ProcType /\ sz[p] \in 0 .. NVa
      /\ th \in [Procs -> Thread] /\ ThreadsOK
  BY ZenonT(40), TypeParts DEF Control, ProcType, TypeOK
<1> DEFINE x == [Idle EXCEPT !.pc = "dup", !.op = "fork", !.np = c, !.lim = sz[p]]
<1>1. Becomes(p, x) /\ InUser(p) /\ state[c] = "UNUSED" /\ state' = [state EXCEPT ![c] = "USED"]
      /\ UNCHANGED <<refcnt, freelist, mem, ppn, perm, cur, sz, parent, waitlock, panicked>>
  BY Zenon DEF Fork, memvars, tabvars
<1>2. x \in Thread
  BY ZenonT(60), <1>0, IdleOK DEF Thread, PCs, Ops
<1>3. x.pc = "dup" /\ x.op = "fork" /\ x.i = 0 /\ x.lim = sz[p] /\ x.np = c
  BY Zenon DEF Idle
<1> HIDE DEF x
<1>4. ThreadOK(x)
  BY Z3T(40), <1>0, <1>3 DEF ThreadOK, Mapping, Unmapping, InFault, CowPCs
<1>5. th' \in [Procs -> Thread] /\ th'[p] = x /\ \A q \in Procs \ {p} : th'[q] = th[q]
  BY Zenon, <1>0, <1>1, <1>2 DEF Becomes
<1>6. TypeOK'
  BY ZenonT(40), <1>0, <1>1, <1>5 DEF TypeOK, Control
<1>7. ThreadsOK'
  BY Zenon, <1>0, <1>4, <1>5 DEF ThreadsOK
<1>8. OwnersOK'
  <2>1. OwnersOK /\ state \in [Procs -> {"UNUSED", "USED", "LIVE", "ZOMBIE"}] /\ th[p].pc = "user"
        /\ ThreadOK(th[p])
    BY ZenonT(40), <1>0, <1>1 DEF Control, InUser, At, TypeOK, ThreadsOK
  <2>2. th[p].op = "none" /\ c # p
    BY Zenon, <1>1, <2>1 DEF ThreadOK, OwnersOK, At
  <2> QED BY Z3T(40), <1>1, <1>3, <1>5, <2>1, <2>2 DEF OwnersOK, At
<1> QED BY Zenon, <1>6, <1>7, <1>8 DEF Control

\* The end of fork(): the child becomes runnable.
LEMMA ForkedControl == ASSUME Control, NEW p \in Procs, Forked(p) PROVE Control'
<1>0. /\ MemType /\ TabType /\ ProcType /\ sz[p] \in 0 .. NVa
      /\ th \in [Procs -> Thread] /\ ThreadsOK /\ OwnersOK
      /\ state \in [Procs -> {"UNUSED", "USED", "LIVE", "ZOMBIE"}]
  BY ZenonT(40), TypeParts DEF Control, ProcType, TypeOK
<1> DEFINE c == th[p].np
<1>1. th[p].op = "fork" /\ c \in Procs /\ state[c] = "USED"
  BY Zenon, <1>0 DEF Forked, At, ThreadsOK, ThreadOK, OwnersOK
<1> HIDE DEF c
<1>2. /\ state' = [state EXCEPT ![c] = "LIVE"] /\ sz' = [sz EXCEPT ![c] = sz[p]]
      /\ parent' = [parent EXCEPT ![c] = p] /\ th' = [th EXCEPT ![p] = Idle, ![c] = Idle]
      /\ UNCHANGED <<refcnt, freelist, mem, ppn, perm, cur, waitlock, panicked>>
  BY Zenon DEF Forked, memvars, tabvars, c
<1>3. /\ th' \in [Procs -> Thread] /\ th'[p] = Idle /\ th'[c] = Idle
      /\ \A q \in Procs \ {p, c} : th'[q] = th[q]
  BY Zenon, <1>0, <1>1, <1>2, IdleOK
<1>4. TypeOK'
  BY ZenonT(40), <1>0, <1>1, <1>2, <1>3 DEF TypeOK, Control, ProcType
<1>5. ThreadsOK'
  BY Zenon, <1>0, <1>3, IdleOK DEF ThreadsOK
<1>6. OwnersOK'
  <2>1. Idle.pc = "user" /\ Idle.op = "none"
    BY Zenon DEF Idle
  <2>2. th[p].pc = "dup" /\ state[p] = "LIVE"
    BY Zenon, <1>0 DEF OwnersOK, Forked, At
  <2>3. /\ state'[c] = "LIVE" /\ state'[p] = "LIVE"
        /\ \A q \in Procs \ {c} : state'[q] = state[q]
    BY Zenon, <1>0, <1>1, <1>2, <2>2
  <2>4. \A q \in Procs \ {p, c} : th[q].op = "fork" => th[q].np # c
    BY Zenon, <1>0, <1>1 DEF OwnersOK, c
  <2> QED BY Z3T(40), <1>0, <1>1, <1>2, <1>3, <2>1, <2>2, <2>3, <2>4 DEF OwnersOK, At, ThreadsOK, ThreadOK
<1> QED BY Zenon, <1>4, <1>5, <1>6 DEF Control

\* exit() makes the caller a zombie and passes its children to init.
LEMMA ExitControl == ASSUME Control, NEW p \in Procs, Exit(p) PROVE Control'
<1>0. /\ MemType /\ TabType /\ ProcType
      /\ th \in [Procs -> Thread] /\ ThreadsOK /\ OwnersOK
      /\ state \in [Procs -> {"UNUSED", "USED", "LIVE", "ZOMBIE"}]
  BY ZenonT(40), TypeParts DEF Control, TypeOK
<1>1. CASE Panic("init exiting")
  BY ZenonT(40), <1>1, PanicControl
<1>2. CASE p # InitProc /\ waitlock = None /\ Becomes(p, Dead)
  <2>1. CASE ~Panic("init exiting")
    <3>1. /\ state' = [state EXCEPT ![p] = "ZOMBIE"]
          /\ parent' = [q \in Procs |-> IF parent[q] = p THEN InitProc ELSE parent[q]]
          /\ UNCHANGED <<refcnt, freelist, mem, ppn, perm, cur, sz, waitlock, panicked>>
      BY ZenonT(40), <1>2, <2>1 DEF Exit, memvars, tabvars
    <3>2. th' \in [Procs -> Thread] /\ th'[p] = Dead /\ \A q \in Procs \ {p} : th'[q] = th[q]
      BY Zenon, <1>0, <1>2, IdleOK DEF Becomes
    <3>3. parent' \in [Procs -> Procs \cup {None}]
      BY Zenon, <1>0, <3>1, ProcsAssumption DEF ProcType
    <3>4. TypeOK'
      BY ZenonT(40), <1>0, <3>1, <3>2, <3>3 DEF TypeOK, Control
    <3>5. ThreadsOK'
      BY Zenon, <1>0, <3>2, IdleOK DEF ThreadsOK
    <3>6. Dead.pc = "dead" /\ Dead.op = "none"
      BY Zenon DEF Dead, Idle
    <3>7. state[p] = "LIVE"
      BY ZenonT(40), <1>0 DEF OwnersOK, Exit, InUser, At
    <3>8. OwnersOK'
      BY Z3T(40), <1>0, <3>1, <3>2, <3>6, <3>7 DEF OwnersOK, At
    <3> QED BY Zenon, <3>4, <3>5, <3>8 DEF Control
  <2> QED BY ZenonT(40), <2>1, <1>1
<1> QED BY ZenonT(40), <1>1, <1>2 DEF Exit

\* wait() finds a zombie child and keeps wait_lock while it frees it.
LEMMA WaitControl ==
  ASSUME Control, NEW p \in Procs, NEW c \in Procs,
         \/ Wait(p, c)
         \/ \E va \in Vas, v \in Values : WaitStatus(p, c, va, v)
  PROVE  Control'
<1>0. /\ MemType /\ TabType /\ ProcType /\ sz[c] \in 0 .. NVa
      /\ th \in [Procs -> Thread] /\ ThreadsOK /\ OwnersOK
  BY ZenonT(40), TypeParts DEF Control, ProcType, TypeOK
<1>1. /\ InUser(p) /\ waitlock = None /\ state[c] = "ZOMBIE" /\ waitlock' = p
      /\ UNCHANGED <<refcnt, freelist, mem, ppn, perm, cur, sz, state, parent, panicked>>
  BY Zenon DEF Wait, WaitStatus, FoundZombie, memvars, tabvars
<1>2. PICK x \in Thread : ThreadOK(x) /\ Becomes(p, x) /\ x.op = "wait" /\ x.np = c /\ x.pc # "dead"
  <2>1. CASE Wait(p, c)
    <3> DEFINE y == [Idle EXCEPT !.pc = "unmap", !.op = "wait", !.np = c, !.lim = sz[c]]
    <3>1. y \in Thread
      BY ZenonT(60), <1>0, IdleOK DEF Thread, PCs, Ops
    <3>2. y.pc = "unmap" /\ y.op = "wait" /\ y.i = 0 /\ y.lim = sz[c] /\ y.np = c
      BY Zenon DEF Idle
    <3>3. Becomes(p, y)
      BY Zenon, <2>1 DEF Wait
    <3> HIDE DEF y
    <3>4. ThreadOK(y)
      BY Z3T(40), <1>0, <3>2 DEF ThreadOK, Mapping, Unmapping, InFault, CowPCs, UnmapOps
    <3> QED BY Zenon, <3>1, <3>2, <3>3, <3>4
  <2>2. CASE \E va \in Vas, v \in Values : WaitStatus(p, c, va, v)
    BY Z3T(40), <1>0, <2>2, CopyoutEntryOK DEF WaitStatus
  <2> QED BY Zenon, <2>1, <2>2
<1>3. th' \in [Procs -> Thread] /\ th'[p] = x /\ \A q \in Procs \ {p} : th'[q] = th[q]
  BY Zenon, <1>0, <1>2 DEF Becomes
<1>4. TypeOK'
  BY ZenonT(40), <1>0, <1>1, <1>3 DEF TypeOK, Control
<1>5. ThreadsOK'
  BY Zenon, <1>0, <1>2, <1>3 DEF ThreadsOK
<1>6. OwnersOK'
  <2>1. th[p].pc = "user" /\ state[p] = "LIVE"
    BY Zenon, <1>0, <1>1 DEF InUser, At, OwnersOK
  <2>2. None \notin Procs
    BY Zenon, ProcsAssumption
  <2>3. \A q \in Procs : th[q].op # "wait"
    BY Zenon, <1>0, <1>1, <2>2 DEF OwnersOK
  <2>4. state' = state /\ waitlock' = p /\ \A q \in Procs : th'[q].op = "wait" => q = p
    BY Zenon, <1>1, <1>3, <2>3
  <2>5. \A q \in Procs : state'[q] = "LIVE" <=> th'[q].pc # "dead"
    BY Z3T(40), <1>0, <1>2, <1>3, <2>1, <2>4 DEF OwnersOK, At
  <2>6. \A q \in Procs : th'[q].op = "fork" => q # p /\ th'[q] = th[q]
    BY Zenon, <1>2, <1>3
  <2>7. \A q \in Procs : th'[q].op = "wait" => waitlock' = q /\ state'[th'[q].np] = "ZOMBIE"
    BY Zenon, <1>1, <1>2, <1>3, <2>4
  <2> QED BY Z3T(40), <1>0, <2>4, <2>5, <2>6, <2>7 DEF OwnersOK, At
<1> QED BY Zenon, <1>4, <1>5, <1>6 DEF Control

\* uvmcopy() fails: the embryo goes back to UNUSED, or freewalk() panics.
LEMMA DupFailControl == ASSUME Control, NEW p \in Procs, DupFail(p) PROVE Control'
<1>0. /\ MemType /\ TabType /\ ProcType
      /\ th \in [Procs -> Thread] /\ ThreadsOK /\ OwnersOK
      /\ state \in [Procs -> {"UNUSED", "USED", "LIVE", "ZOMBIE"}]
  BY ZenonT(40), TypeParts DEF Control, TypeOK
<1> DEFINE c == th[p].np
<1>1. th[p].op = "fork" /\ c \in Procs /\ state[c] = "USED" /\ th[p].pc = "dup"
  BY ZenonT(40), <1>0 DEF DupFail, At, ThreadsOK, ThreadOK, OwnersOK
<1> HIDE DEF c
<1>2. CASE Panic("freewalk: leaf")
  BY ZenonT(40), <1>2, PanicControl
<1>3. CASE ~Panic("freewalk: leaf")
  <2>1. /\ perm' = [perm EXCEPT ![Tab(p)][th[p].i] = SharedPerm(@)]
        /\ state' = [state EXCEPT ![c] = "UNUSED"] /\ Becomes(p, Idle)
        /\ UNCHANGED <<refcnt, freelist, mem, ppn, cur, sz, parent, waitlock, panicked>>
    BY ZenonT(40), <1>3 DEF DupFail, ReturnToUser, memvars, c
  <2>2. th' \in [Procs -> Thread] /\ th'[p] = Idle /\ \A q \in Procs \ {p} : th'[q] = th[q]
    BY Zenon, <1>0, <2>1, IdleOK DEF Becomes
  <2>3. \A fl \in SUBSET Flags : SharedPerm(fl) \in SUBSET Flags
    BY Zenon DEF SharedPerm, Flags
  <2>4. perm' \in [Tables -> [Vas -> SUBSET Flags]]
    <3> DEFINE fl == SharedPerm(perm[Tab(p)][th[p].i])
    <3>1. th[p].i \in Vas /\ Tab(p) \in Tables
      <4>1. th[p] \in Thread /\ th[p].i < th[p].lim /\ Tab(p) \in Tables
        BY ZenonT(40), <1>0, TablesOf DEF DupFail
      <4>2. th[p].i \in 0 .. NVa /\ th[p].lim \in 0 .. NVa
        BY ZenonT(40), <4>1 DEF Thread
      <4> QED BY Z3T(40), <4>1, <4>2, SizeAssumption
    <3>2. fl \in SUBSET Flags
      BY Zenon, <1>0, <2>3, <3>1, PteType
    <3>3. perm' = [perm EXCEPT ![Tab(p)][th[p].i] = fl]
      BY Zenon, <2>1
    <3> HIDE DEF fl
    <3> QED BY Zenon, <1>0, <3>1, <3>2, <3>3 DEF TabType
  <2>5. TypeOK'
    BY ZenonT(40), <1>0, <1>1, <2>1, <2>2, <2>4 DEF TypeOK, Control, ProcType
  <2>6. ThreadsOK'
    BY Zenon, <1>0, <2>2, IdleOK DEF ThreadsOK
  <2>7. OwnersOK'
    <3>1. Idle.pc = "user" /\ Idle.op = "none"
      BY Zenon DEF Idle
    <3>2. state[p] = "LIVE" /\ c # p
      BY Zenon, <1>0, <1>1 DEF OwnersOK, At
    <3>3. state'[c] = "UNUSED" /\ \A q \in Procs \ {c} : state'[q] = state[q]
      BY Zenon, <1>0, <1>1, <2>1
    <3>4. \A q \in Procs \ {p} : th[q].op = "fork" => th[q].np # c
      BY Zenon, <1>0, <1>1 DEF OwnersOK, c
    <3> QED BY Z3T(40), <1>0, <1>1, <2>1, <2>2, <3>1, <3>2, <3>3, <3>4 DEF OwnersOK, At
  <2> QED BY Zenon, <2>5, <2>6, <2>7 DEF Control
<1> QED BY ZenonT(40), <1>2, <1>3

\* The unmap loop is over; for wait(), freeproc() ends and both locks are released.
LEMMA UnmappedControl == ASSUME Control, NEW p \in Procs, Unmapped(p) PROVE Control'
<1>0. /\ MemType /\ TabType /\ ProcType /\ th[p] \in Thread /\ ThreadOK(th[p])
      /\ th \in [Procs -> Thread] /\ ThreadsOK /\ OwnersOK
      /\ state \in [Procs -> {"UNUSED", "USED", "LIVE", "ZOMBIE"}]
  BY ZenonT(40), TypeParts DEF Control, TypeOK, ThreadsOK
<1>1. th[p].pc = "unmap" /\ ReturnToUser(p)
      /\ UNCHANGED <<refcnt, freelist, mem, ppn, perm, cur, panicked>>
  BY Zenon DEF Unmapped, At, memvars, tabvars
<1>2. MemType' /\ TabType'
  BY Zenon, <1>0, <1>1 DEF MemType, TabType
<1>3. th' \in [Procs -> Thread] /\ th'[p] = Idle /\ \A q \in Procs \ {p} : th'[q] = th[q]
  BY Zenon, <1>0, <1>1, IdleOK DEF ReturnToUser, Becomes
<1>4. ThreadsOK'
  BY Zenon, <1>0, <1>3, IdleOK DEF ThreadsOK
<1>5. Idle.pc = "user" /\ Idle.op = "none" /\ state[p] = "LIVE"
  BY Zenon, <1>0, <1>1 DEF Idle, OwnersOK, At
<1>6. CASE th[p].op # "wait"
  <2>1. UNCHANGED <<state, parent, waitlock>> /\ sz' \in [Procs -> 0 .. NVa]
    <3>1. th[p].base \in 0 .. NVa
      BY ZenonT(40), <1>0 DEF Thread
    <3> QED BY Zenon, <1>0, <1>6, <3>1 DEF Unmapped, procvars, ProcType
  <2>2. TypeOK'
    BY ZenonT(40), <1>0, <1>1, <1>3, <2>1 DEF TypeOK, Control
  <2>3. OwnersOK'
    BY Z3T(40), <1>0, <1>1, <1>3, <1>5, <1>6, <2>1 DEF OwnersOK, At
  <2> QED BY Zenon, <1>4, <2>2, <2>3 DEF Control
<1>7. CASE th[p].op = "wait"
  <2> DEFINE c == th[p].np
  <2>1. c \in Procs /\ state[c] = "ZOMBIE" /\ waitlock = p
    BY Zenon, <1>0, <1>7 DEF OwnersOK, ThreadOK
  <2>2. /\ sz' = [sz EXCEPT ![c] = 0] /\ state' = [state EXCEPT ![c] = "UNUSED"]
        /\ parent' = [parent EXCEPT ![c] = None] /\ waitlock' = None
    BY Zenon, <1>7 DEF Unmapped
  <2> HIDE DEF c
  <2>3. sz' \in [Procs -> 0 .. NVa] /\ parent' \in [Procs -> Procs \cup {None}]
    <3>1. 0 \in 0 .. NVa
      BY Z3T(40), SizeAssumption
    <3> QED BY Zenon, <1>0, <2>1, <2>2, <3>1 DEF ProcType
  <2>4. TypeOK'
    BY ZenonT(40), <1>0, <1>1, <1>3, <2>1, <2>2, <2>3 DEF TypeOK, Control
  <2>5. state'[c] = "UNUSED" /\ \A q \in Procs \ {c} : state'[q] = state[q]
    BY Zenon, <1>0, <2>1, <2>2
  <2>6. \A q \in Procs \ {p} : th[q].op # "wait"
    BY Zenon, <1>0, <2>1 DEF OwnersOK
  <2>7. \A q \in Procs : th[q].op = "fork" => th[q].np # c
    BY Zenon, <1>0, <2>1 DEF OwnersOK
  <2>8. OwnersOK'
    <3>1. \A q \in Procs : th'[q].op # "wait"
      BY Zenon, <1>3, <1>5, <2>6
    <3>2. \A q \in Procs : th'[q].op = "fork" => th[q] = th'[q] /\ th[q].np \in Procs \ {c}
      BY ZenonT(60), <1>0, <1>3, <1>5, <2>7 DEF ThreadsOK, ThreadOK
    <3>3. \A q \in Procs : state'[q] = "LIVE" <=> th'[q].pc # "dead"
      BY Z3T(40), <1>0, <1>3, <1>5, <2>1, <2>5 DEF OwnersOK, At
    <3>4. \A q \in Procs : th'[q].op = "fork" => state'[th'[q].np] = "USED"
      BY Z3T(40), <1>0, <2>5, <3>2 DEF OwnersOK
    <3>5. \A q, r \in Procs : th'[q].op = "fork" /\ th'[r].op = "fork" /\ th'[q].np = th'[r].np => q = r
      BY Z3T(40), <1>0, <3>2 DEF OwnersOK
    <3> QED BY Zenon, <3>1, <3>3, <3>4, <3>5 DEF OwnersOK, At
  <2> QED BY Zenon, <1>4, <2>4, <2>8 DEF Control
<1> QED BY Zenon, <1>6, <1>7

\* Every step of every process, and the end of the model at a panic.
LEMMA ControlInductive == Control /\ [Next]_vars => Control'
<1> SUFFICES ASSUME Control, [Next]_vars PROVE Control'
  BY Zenon
<1>1. CASE UNCHANGED vars
  BY ZenonT(40), <1>1 DEF vars, memvars, tabvars, procvars, Control, TypeOK, ThreadsOK, OwnersOK, At
<1>2. ASSUME NEW p \in Procs, Step(p) PROVE Control'
  <2>1. CASE Syscall(p)
    BY Zenon, <2>1, UserControl, ForkControl, WaitControl DEF Syscall
  <2>2. CASE KernelStep(p)
    BY Zenon, <2>2, CowControl, CowKallocControl, CopyoutControl, KfreeControl, UnmapPageControl,
       UnmappedControl, AllocControl, LoopEndControl, DupControl, DupFailControl, ForkedControl
       DEF KernelStep
  <2> QED BY Zenon, <1>2, <2>1, <2>2, UserControl, ExitControl DEF Step
<1> QED BY ZenonT(40), <1>1, <1>2 DEF Next, Halted

\* Every reachable state of the copy-on-write kernel, whatever the number of
\* processes and pages, is well typed (TypeOK), every thread is at a point its
\* locals fit (ThreadsOK), and every page table has one user (OwnersOK).
THEOREM ControlInvariant == Spec => [](TypeOK /\ ThreadsOK /\ OwnersOK)
<1>1. Init => Control
  BY Zenon, InitThreads DEF Control
<1>2. Control => TypeOK /\ ThreadsOK /\ OwnersOK
  BY Zenon DEF Control
<1> QED BY <1>1, <1>2, ControlInductive, PTL DEF Spec

-----------------------------------------------------------------------------
(* Who works where: facts the other layers share.                           *)

\* No two threads work on the same slot.
LEMMA SlotsDisjoint ==
  ASSUME Control, NEW p \in Procs, NEW q \in Procs, p # q, ~At(p, "dead"), ~At(q, "dead")
  PROVE  Slots(p) \cap Slots(q) = {}
BY Z3T(40) DEF Control, OwnersOK, Slots

\* The slot fork() fills, or wait() frees, is another one, without a thread of its own.
LEMMA ChildIsOther ==
  ASSUME Control, NEW p \in Procs, th[p].op \in {"fork", "wait"}
  PROVE  th[p].np \in Procs /\ th[p].np # p /\ ~At(p, "dead") /\ At(th[p].np, "dead")
<1>1. ThreadOK(th[p])
  BY Zenon DEF Control, ThreadsOK
<1>2. th[p].np \in Procs /\ ~At(p, "dead")
  BY Zenon, <1>1 DEF ThreadOK, At
<1> QED BY Zenon, <1>2 DEF Control, OwnersOK

\* Writing one PTE.
LEMMA PteUpdate ==
  ASSUME TabType, NEW t \in Tables, NEW va \in Vas, NEW pg, NEW fl, SetPte(t, va, pg, fl)
  PROVE  /\ <<t, va>> \in Places
         /\ \A x \in Places : /\ PageAt(x)' = IF x = <<t, va>> THEN pg ELSE PageAt(x)
                              /\ PermAt(x)' = IF x = <<t, va>> THEN fl ELSE PermAt(x)
         /\ \A u \in Tables : u # t => ppn'[u] = ppn[u] /\ perm'[u] = perm[u]
<1>1. <<t, va>> \in Places
  BY Zenon DEF Places
<1>2. \A u \in Tables : u # t => ppn'[u] = ppn[u] /\ perm'[u] = perm[u]
  BY Zenon DEF SetPte, TabType
<1>3. \A w \in Vas : /\ ppn'[t][w] = IF w = va THEN pg ELSE ppn[t][w]
                     /\ perm'[t][w] = IF w = va THEN fl ELSE perm[t][w]
  BY Zenon DEF SetPte, TabType
<1>4. ASSUME NEW x \in Places
      PROVE  /\ PageAt(x)' = IF x = <<t, va>> THEN pg ELSE PageAt(x)
             /\ PermAt(x)' = IF x = <<t, va>> THEN fl ELSE PermAt(x)
  <2>1. x = <<x[1], x[2]>> /\ x[1] \in Tables /\ x[2] \in Vas
    BY DEF Places
  <2>2. CASE x[1] = t
    BY <1>3, <2>1, <2>2 DEF PageAt, PermAt
  <2>3. CASE x[1] # t
    BY <1>2, <2>1, <2>3 DEF PageAt, PermAt
  <2> QED BY Zenon, <2>2, <2>3
<1> QED BY Zenon, <1>1, <1>2, <1>4

\* A table of the thread's own slots.
LEMMA WithinTable ==
  ASSUME NEW p \in Procs, NEW t \in Tables, t[1] \in Slots(p), cur' = cur,
         \A u \in Tables : u # t => ppn'[u] = ppn[u] /\ perm'[u] = perm[u]
  PROVE  Within(p)
BY Zenon DEF Within

-----------------------------------------------------------------------------
(* Which pages the tables of a process map, in each of its loops.          *)

\* The pages of a process that is in none of the loops that change its size.
LEMMA PagesAtRest ==
  ASSUME NEW x, NEW n
  PROVE  /\ x.op \notin {"grow", "shrink"} => OwnPages(x, n) = 0 .. n-1
         /\ x.op \notin {"exec", "execold"} => AltPages(x) = {}
         /\ x.pc \notin {"dup", "incref"} /\ ~Unmapping(x) => ChildPages(x, n) = 0 .. n-1
BY Zenon DEF OwnPages, AltPages, ChildPages

\* In the uvmalloc() loop the pages below the counter are mapped, ...
LEMMA PagesMapping ==
  ASSUME NEW x, NEW n, Mapping(x)
  PROVE  /\ ~Unmapping(x)
         /\ x.op = "grow" => OwnPages(x, n) = 0 .. x.i-1
         /\ x.op = "exec" => AltPages(x) = 0 .. x.i-1
BY Zenon DEF OwnPages, AltPages, Mapping, Unmapping

\* ... and in the uvmunmap() loop those from the counter on.
LEMMA PagesUnmapping ==
  ASSUME NEW x, NEW n, Unmapping(x)
  PROVE  /\ ~Mapping(x)
         /\ x.op \in {"grow", "shrink"} => OwnPages(x, n) = (0 .. x.base-1) \cup Rest(x)
         /\ x.op \in {"exec", "execold"} => AltPages(x) = Rest(x)
         /\ ChildPages(x, n) = Rest(x)
BY Zenon DEF OwnPages, AltPages, ChildPages, Mapping, Unmapping

\* In uvmcopy() the child has the pages below the counter, and then the one at it.
LEMMA PagesCopying ==
  ASSUME NEW x, NEW n
  PROVE  /\ x.pc = "dup" => ChildPages(x, n) = 0 .. x.i-1
         /\ x.pc = "incref" => ChildPages(x, n) = 0 .. x.i
<1>1. CASE x.pc = "dup"
  BY Zenon, <1>1 DEF ChildPages, Unmapping
<1>2. CASE x.pc = "incref"
  BY Zenon, <1>2 DEF ChildPages, Unmapping
<1> QED BY Zenon, <1>1, <1>2

\* In user mode the size says which pages are mapped, and there is no second table.
LEMMA UserTable ==
  ASSUME Control, TablesOK, NEW p \in Procs, InUser(p) \/ At(p, "exit")
  PROVE  /\ ~At(p, "dead") /\ th[p].op = "none" /\ ~Unmapping(th[p]) /\ Slots(p) = {p}
         /\ Mapped(Tab(p)) = 0 .. sz[p]-1 /\ Mapped(Alt(p)) = {}
<1>1. ThreadOK(th[p]) /\ ~At(p, "dead")
  BY Zenon DEF Control, ThreadsOK, InUser, At
<1>2. th[p].op = "none" /\ ~Unmapping(th[p])
  BY Zenon, <1>1 DEF ThreadOK, InUser, At, Unmapping
<1>3. TableOK(p)
  BY Zenon, <1>1 DEF TablesOK
<1> QED BY Zenon, <1>1, <1>2, <1>3, PagesAtRest DEF TableOK, Slots

\* The slot of a zombie that nobody reaps, or of an unused one, is nobody's.
LEMMA ChildSlot ==
  ASSUME Control, TablesOK, NEW c \in Procs,
         state[c] = "UNUSED" \/ (state[c] = "ZOMBIE" /\ waitlock = None)
  PROVE  SlotOK(c)
<1>1. At(c, "dead")
  BY Zenon DEF Control, OwnersOK
<1>2. ASSUME NEW q \in Procs, th[q].op \in {"fork", "wait"}, th[q].np = c PROVE FALSE
  BY <1>2, ProcsAssumption DEF Control, OwnersOK
<1> QED BY Zenon, <1>1, <1>2 DEF Unclaimed, TablesOK

\* The loops belong to five operations, each of which has its table.
LEMMA LoopTable ==
  ASSUME Control, TablesOK, NEW p \in Procs, InLoop(th[p])
  PROVE  /\ ~At(p, "dead") /\ TableOK(p) /\ th[p].op \in UnmapOps
         /\ Mapping(th[p]) => th[p].op \in {"grow", "exec"}
         /\ Target(p) \in Tables /\ Target(p)[1] \in Slots(p)
         /\ Valid(ppn[Target(p)]) = LoopPages(th[p])
<1>1. ThreadOK(th[p]) /\ ~At(p, "dead") /\ Target(p) \in Tables
  BY Zenon, TargetType DEF Control, ThreadsOK, InLoop, Mapping, Unmapping, At
<1>2. TableOK(p) /\ th[p].op \in UnmapOps /\ (Mapping(th[p]) => th[p].op \in {"grow", "exec"})
  BY Zenon, <1>1 DEF TablesOK, ThreadOK, InLoop, UnmapOps
<1>3. Target(p)[1] \in Slots(p)
  BY Zenon DEF Target, Slots, Tab, Alt
<1>4. CASE th[p].op = "wait"
  <2>1. Target(p) = Tab(th[p].np) /\ Unmapping(th[p]) /\ ~Mapping(th[p])
    BY Zenon, <1>2, <1>4 DEF Target, InLoop
  <2> QED BY Zenon, <1>1, <1>2, <1>3, <1>4, <2>1, PagesUnmapping DEF TableOK, Mapped, LoopPages
<1>5. CASE th[p].op \in {"exec", "execold"}
  <2>1. Target(p) = Alt(p)
    BY Zenon, <1>5 DEF Target
  <2>2. AltPages(th[p]) = LoopPages(th[p])
    BY Zenon, <1>2, <1>5, PagesMapping, PagesUnmapping DEF LoopPages, InLoop
  <2> QED BY Zenon, <1>1, <1>2, <1>3, <2>1, <2>2 DEF TableOK, Mapped
<1>6. CASE th[p].op \in {"grow", "shrink"}
  <2>1. Target(p) = Tab(p)
    BY Zenon, <1>6 DEF Target
  <2>2. OwnPages(th[p], sz[p]) = LoopPages(th[p])
    BY Zenon, <1>2, <1>6, PagesMapping, PagesUnmapping DEF LoopPages, InLoop
  <2> QED BY Zenon, <1>1, <1>2, <1>3, <2>1, <2>2 DEF TableOK, Mapped
<1> QED BY Zenon, <1>2, <1>4, <1>5, <1>6 DEF UnmapOps

\* Counters are numbers, in the order the loops keep them in.
LEMMA LoopCounters ==
  ASSUME Control, NEW p \in Procs, InLoop(th[p])
  PROVE  /\ th[p].i \in Nat /\ th[p].lim \in Nat /\ th[p].base \in Nat
         /\ th[p].i <= th[p].lim /\ th[p].lim <= NVa /\ (th[p].op = "exec" => th[p].base = 0)
         /\ Mapping(th[p]) => th[p].base <= th[p].i
         /\ Unmapping(th[p]) /\ th[p].op \in {"grow", "shrink"} => th[p].base <= th[p].i
<1>1. ThreadOK(th[p]) /\ th[p] \in Thread
  BY Zenon, TypeParts DEF Control, ThreadsOK
<1>2. th[p].i \in 0 .. NVa /\ th[p].lim \in 0 .. NVa /\ th[p].base \in 0 .. NVa
  BY ZenonT(40), <1>1 DEF Thread
<1>3. /\ th[p].i <= th[p].lim /\ (th[p].op = "exec" => th[p].base = 0)
      /\ Mapping(th[p]) => th[p].base <= th[p].i
      /\ Unmapping(th[p]) /\ th[p].op \in {"grow", "shrink"} => th[p].base <= th[p].i
  BY Zenon, <1>1 DEF ThreadOK, InLoop
<1> QED BY <1>2, <1>3, SizeAssumption

\* In uvmcopy() the parent has all its pages, and the counter stays below its size.
LEMMA ForkTable ==
  ASSUME Control, TablesOK, NEW p \in Procs, th[p].op = "fork"
  PROVE  /\ ~At(p, "dead") /\ th[p].lim = sz[p] /\ th[p].i \in Nat /\ sz[p] \in 0 .. NVa
         /\ th[p].i <= sz[p] /\ Slots(p) = {p, th[p].np}
         /\ Mapped(Tab(p)) = 0 .. sz[p]-1 /\ Mapped(Alt(p)) = {} /\ Mapped(Alt(th[p].np)) = {}
         /\ th[p].pc = "dup" => Mapped(Tab(th[p].np)) = 0 .. th[p].i-1
         /\ th[p].pc = "incref" => Mapped(Tab(th[p].np)) = 0 .. th[p].i
<1>0. th[p] \in Thread /\ ThreadOK(th[p]) /\ ProcType /\ ~At(p, "dead")
  BY Zenon, TypeParts DEF Control, ThreadsOK, ThreadOK, At
<1>1. TableOK(p) /\ sz[p] \in 0 .. NVa
  BY Zenon, <1>0 DEF TablesOK, ProcType
<1>2. th[p].i \in 0 .. NVa
  BY ZenonT(40), <1>0 DEF Thread
<1>3. th[p].lim = sz[p] /\ th[p].i <= sz[p]
  BY Zenon, <1>0, <1>1 DEF TableOK, ThreadOK
<1>4. Slots(p) = {p, th[p].np}
  BY Zenon DEF Slots
<1>5. /\ Mapped(Tab(p)) = 0 .. sz[p]-1 /\ Mapped(Alt(p)) = {} /\ Mapped(Alt(th[p].np)) = {}
      /\ th[p].pc = "dup" => Mapped(Tab(th[p].np)) = 0 .. th[p].i-1
      /\ th[p].pc = "incref" => Mapped(Tab(th[p].np)) = 0 .. th[p].i
  BY Zenon, <1>1, PagesAtRest, PagesCopying DEF TableOK
<1> QED BY <1>0, <1>1, <1>2, <1>3, <1>4, <1>5, SizeAssumption

-----------------------------------------------------------------------------
(* The record of a thread after a step.                                    *)

\* Replacing one record.
LEMMA NewRecord ==
  ASSUME Control, NEW p \in Procs, NEW x, Becomes(p, x)
  PROVE  th'[p] = x /\ \A q \in Procs : q # p => th'[q] = th[q]
BY ZenonT(40) DEF Control, TypeOK, Becomes

\* Returning to user mode leaves no operation.
LEMMA UserRecord ==
  ASSUME Control, NEW p \in Procs, ReturnToUser(p)
  PROVE  /\ th'[p].pc = "user" /\ th'[p].op = "none"
         /\ \A q \in Procs : q # p => th'[q] = th[q]
<1>1. Idle.pc = "user" /\ Idle.op = "none"
  BY Zenon DEF Idle
<1>2. th'[p] = Idle /\ \A q \in Procs : q # p => th'[q] = th[q]
  BY ZenonT(40), NewRecord DEF ReturnToUser
<1> QED BY Zenon, <1>1, <1>2

\* Entering the uvmunmap() loop keeps the operation.
LEMMA UnmapRecord ==
  ASSUME Control, NEW p \in Procs, NEW lo, NEW hi, GotoUnmap(p, lo, hi)
  PROVE  /\ th'[p].pc = "unmap" /\ th'[p].i = lo /\ th'[p].lim = hi
         /\ th'[p].op = th[p].op /\ th'[p].base = th[p].base /\ th'[p].np = th[p].np
         /\ \A q \in Procs : q # p => th'[q] = th[q]
<1> DEFINE x == [th[p] EXCEPT !.pc = "unmap", !.i = lo, !.lim = hi, !.pa = None,
                              !.new = None, !.ret = ""]
<1>0. th[p] \in Thread
  BY Zenon, TypeParts DEF Control
<1>1. /\ x.pc = "unmap" /\ x.i = lo /\ x.lim = hi
      /\ x.op = th[p].op /\ x.base = th[p].base /\ x.np = th[p].np
  BY ZenonT(40), <1>0 DEF Thread
<1>2. Becomes(p, x)
  BY Zenon DEF GotoUnmap
<1> HIDE DEF x
<1> QED BY Zenon, <1>1, <1>2, NewRecord

\* So does handle_cow_fault() when it goes on with copyout().
LEMMA CowDoneRecord ==
  ASSUME Control, NEW p \in Procs, CowDone(p)
  PROVE  /\ \/ th'[p].pc = "user" /\ th'[p].op = "none"
            \/ th'[p].pc = "copyout" /\ th'[p].op = th[p].op /\ th'[p].np = th[p].np
         /\ \A q \in Procs : q # p => th'[q] = th[q]
<1> DEFINE x == [th[p] EXCEPT !.pc = "copyout", !.pa = None, !.new = None, !.ret = ""]
<1>0. th[p] \in Thread
  BY Zenon, TypeParts DEF Control
<1>1. x.pc = "copyout" /\ x.op = th[p].op /\ x.np = th[p].np
  BY ZenonT(40), <1>0 DEF Thread
<1>2. CASE th[p].op = "store"
  BY Zenon, <1>2, UserRecord DEF CowDone, ReturnToUser
<1>3. CASE th[p].op # "store"
  <2>1. Becomes(p, x)
    BY Zenon, <1>3 DEF CowDone
  <2> HIDE DEF x
  <2> QED BY Zenon, <1>1, <2>1, NewRecord
<1> QED BY Zenon, <1>2, <1>3

\* A failing one ends the operation.
LEMMA CowFailRecord ==
  ASSUME Control, NEW p \in Procs, CowFail(p)
  PROVE  /\ th'[p].pc \in {"user", "exit"} /\ th'[p].op = "none"
         /\ \A q \in Procs : q # p => th'[q] = th[q]
<1> DEFINE x == [Idle EXCEPT !.pc = "exit"]
<1>1. x.pc = "exit" /\ x.op = "none"
  BY Zenon DEF Idle
<1>2. CASE th[p].op = "store"
  <2>1. Becomes(p, x)
    BY Zenon, <1>2 DEF CowFail
  <2> HIDE DEF x
  <2> QED BY Zenon, <1>1, <2>1, NewRecord
<1>3. CASE th[p].op # "store"
  BY Zenon, <1>3, UserRecord DEF CowFail, ReturnToUser
<1> QED BY Zenon, <1>2, <1>3

\* Locals at the entry of handle_cow_fault() or copyout().
LEMMA EntryRecord ==
  ASSUME Control, NEW p \in Procs, NEW va, NEW op, NEW np, NEW v, CopyoutEntry(p, va, op, np, v)
  PROVE  /\ th'[p].op = op /\ th'[p].np = np /\ th'[p].pc \in {"cow_refcount", "copyout"}
         /\ \A q \in Procs : q # p => th'[q] = th[q]
<1> DEFINE x == CowEntry(p, va, op, np, v)
           y == [x EXCEPT !.pc = "copyout", !.pa = None]
<1>1. /\ x.op = op /\ x.np = np /\ x.pc = "cow_refcount"
      /\ y.op = op /\ y.np = np /\ y.pc = "copyout"
  BY Zenon DEF CowEntry, Idle
<1>2. Becomes(p, x) \/ Becomes(p, y)
  BY Zenon DEF CopyoutEntry
<1> HIDE DEF x, y
<1> QED BY Zenon, <1>1, <1>2, NewRecord
=============================================================================
