----------------------------- MODULE CowVM_tables -----------------------------
(***************************************************************************)
(* Layer 3 of the proofs about CowVM: sizes and loop counters say exactly  *)
(* which PTEs of every table are valid, at every point of every loop, so   *)
(* that uvmunmap(), uvmcopy() and mappages() never meet a PTE they do not  *)
(* expect.                                                                 *)
(***************************************************************************)
EXTENDS CowVM_control

-----------------------------------------------------------------------------
(* What the definitions say at each point of the code.                     *)

\* Writing one PTE makes its address valid or invalid and leaves the others.
LEMMA ValidUpdate ==
  ASSUME Control, NEW p \in Procs, NEW t \in Tables, t[1] \in Slots(p), NEW va \in Vas,
         NEW pg, NEW fl, SetPte(t, va, pg, fl), cur' = cur
  PROVE  /\ Within(p) /\ \A u \in Tables : u # t => ppn'[u] = ppn[u]
         /\ pg = None => Valid(ppn'[t]) = Valid(ppn[t]) \ {va}
         /\ pg # None => Valid(ppn'[t]) = Valid(ppn[t]) \cup {va}
<1>0. TabType
  BY Zenon, TypeParts DEF Control
<1>1. \A u \in Tables : u # t => ppn'[u] = ppn[u] /\ perm'[u] = perm[u]
  BY Zenon, <1>0, PteUpdate
<1>2. Within(p)
  BY Zenon, <1>1, WithinTable
<1>3. \A w \in Vas : ppn'[t][w] = IF w = va THEN pg ELSE ppn[t][w]
  BY Zenon, <1>0 DEF SetPte, TabType
<1> QED BY Zenon, <1>1, <1>2, <1>3 DEF Valid

\* A step of p that keeps to its slots keeps the tables of everybody else as they were.
LEMMA TablesStep ==
  ASSUME Control, TablesOK, NEW p \in Procs, ~At(p, "dead"), Within(p),
         \A q \in Procs : q \notin Slots(p) => th'[q] = th[q] /\ sz'[q] = sz[q],
         \A s \in Procs : s \notin Slots(p) \cup Slots(p)' => state'[s] = state[s],
         \A s \in Slots(p) : /\ ~At(s, "dead")' => TableOK(s)'
                             /\ Unclaimed(s)' => SlotOK(s)'
  PROVE  TablesOK'
<1> SUFFICES ASSUME NEW s \in Procs, s \notin Slots(p)
             PROVE  (~At(s, "dead")' => TableOK(s)') /\ (Unclaimed(s)' => SlotOK(s)')
  BY Zenon DEF TablesOK
<1>0. TabType /\ p \in Slots(p) /\ th'[s] = th[s] /\ sz'[s] = sz[s] /\ s # p
  BY Zenon, TypeParts DEF Control, Slots
<1>1. /\ Tab(s)' = Tab(s) /\ Alt(s)' = Alt(s)
      /\ Mapped(Tab(s))' = Mapped(Tab(s)) /\ Mapped(Alt(s))' = Mapped(Alt(s))
  <2>1. Tab(s) \in Tables /\ Alt(s) \in Tables /\ Tab(s)[1] = s /\ Alt(s)[1] = s
    BY Zenon, <1>0, TablesOf DEF Tab, Alt
  <2>2. ppn'[Tab(s)] = ppn[Tab(s)] /\ ppn'[Alt(s)] = ppn[Alt(s)]
    BY Zenon, <2>1 DEF Within
  <2>3. Tab(s)' = Tab(s) /\ Alt(s)' = Alt(s)
    BY Zenon DEF Within, Tab, Alt
  <2> QED BY Zenon, <2>2, <2>3 DEF Mapped
<1>2. ASSUME ~At(s, "dead")' PROVE TableOK(s)'
  <2>0. ~At(s, "dead") /\ TableOK(s)
    BY Zenon, <1>0, <1>2 DEF At, TablesOK
  <2>1. ASSUME th[s].op \in {"fork", "wait"}
        PROVE  /\ th[s].np \in Procs /\ sz'[th[s].np] = sz[th[s].np]
               /\ Mapped(Tab(th[s].np))' = Mapped(Tab(th[s].np))
               /\ Mapped(Alt(th[s].np))' = Mapped(Alt(th[s].np))
    <3> DEFINE c == th[s].np
    <3>1. c \in Procs /\ c \in Slots(s)
      BY Zenon, <2>1, ChildIsOther DEF Slots
    <3>2. c \notin Slots(p)
      BY Zenon, <1>0, <2>0, <3>1, SlotsDisjoint
    <3>3. Tab(c) \in Tables /\ Alt(c) \in Tables /\ Tab(c)[1] = c /\ Alt(c)[1] = c
      BY Zenon, <1>0, <3>1, TablesOf DEF Tab, Alt
    <3>4. ppn'[Tab(c)] = ppn[Tab(c)] /\ ppn'[Alt(c)] = ppn[Alt(c)] /\ cur'[c] = cur[c]
      BY Zenon, <3>1, <3>2, <3>3 DEF Within
    <3> QED BY Zenon, <1>0, <3>1, <3>2, <3>4 DEF Mapped, Tab, Alt
  <2> QED BY Zenon, <1>0, <1>1, <2>0, <2>1 DEF TableOK
<1>3. ASSUME Unclaimed(s)' PROVE SlotOK(s)'
  <2>1. s \notin Slots(p)'
    BY Zenon, <1>0, <1>3 DEF Unclaimed, Slots
  <2>2. Unclaimed(s)
    <3> SUFFICES ASSUME NEW q \in Procs, th[q].op \in {"fork", "wait"}, th[q].np = s PROVE FALSE
      BY Zenon, <1>0, <1>3 DEF Unclaimed, At
    <3>1. q \notin Slots(p)
      <4>1. ~At(q, "dead")
        BY Zenon, ChildIsOther
      <4>2. q # p
        BY Zenon DEF Slots
      <4> QED BY Zenon, <4>1, <4>2, ChildIsOther DEF Slots
    <3> QED BY Zenon, <1>3, <3>1 DEF Unclaimed
  <2> QED BY Zenon, <1>0, <1>1, <2>1, <2>2 DEF SlotOK, TablesOK
<1> QED BY Zenon, <1>2, <1>3

\* The same for a step that replaces the record of p only and keeps its child, if any.
LEMMA OwnTables ==
  ASSUME Control, TablesOK, NEW p \in Procs, ~At(p, "dead"), Within(p),
         \A q \in Procs : q # p => th'[q] = th[q],
         \A q \in Procs : q \notin Slots(p) => sz'[q] = sz[q],
         \A s \in Procs : s \notin Slots(p) \cup Slots(p)' => state'[s] = state[s],
         th'[p].pc # "dead", TableOK(p)',
         \A c \in Procs : th[p].op \in {"fork", "wait"} /\ th[p].np = c =>
           \/ th'[p].op \in {"fork", "wait"} /\ th'[p].np = c
           \/ SlotOK(c)'
  PROVE  TablesOK'
<1>1. ASSUME NEW s \in Slots(p), s # p
      PROVE  (~At(s, "dead")' => TableOK(s)') /\ (Unclaimed(s)' => SlotOK(s)')
  <2>1. th[p].op \in {"fork", "wait"} /\ s = th[p].np /\ s \in Procs
    BY <1>1, ChildIsOther DEF Slots
  <2>2. At(s, "dead")'
    BY Zenon, <2>1, ChildIsOther DEF At
  <2> QED BY Zenon, <2>1, <2>2 DEF Unclaimed
<1>2. \A q \in Procs : q \notin Slots(p) => q # p
  BY Zenon DEF Slots
<1>3. ~Unclaimed(p)'
  BY Zenon DEF Unclaimed, At
<1> QED BY Zenon, <1>1, <1>2, <1>3, TablesStep

\* Steps of a thread that is in no loop, and that leave the valid PTEs as they are.
Plain == {"none", "store", "write", "wait"}
LEMMA PlainTables ==
  ASSUME Control, Control', TablesOK, NEW p \in Procs, ~At(p, "dead"), Within(p),
         UNCHANGED <<cur, sz, state>>, \A q \in Procs : q # p => th'[q] = th[q],
         \A t \in Tables : Valid(ppn'[t]) = Valid(ppn[t]),
         th[p].op \in Plain, ~Unmapping(th[p]), th'[p].pc # "dead",
         \/ th'[p].op \in {"none", "store", "write"}
         \/ /\ th[p].op = "wait" /\ th'[p].op = "wait" /\ th'[p].np = th[p].np
            /\ ~Unmapping(th'[p]) \/ Rest(th'[p]) = 0 .. sz[th[p].np]-1
  PROVE  TablesOK'
<1>0. /\ TabType /\ ProcType /\ TableOK(p) /\ ThreadOK(th[p]) /\ ThreadOK(th'[p])
      /\ Tab(p) \in Tables /\ Alt(p) \in Tables
  BY Zenon, TypeParts, TablesOf DEF Control, TablesOK, ThreadsOK
<1>1. \A q \in Procs : /\ Mapped(Tab(q))' = Mapped(Tab(q)) /\ Mapped(Alt(q))' = Mapped(Alt(q))
  BY Zenon, <1>0, TablesOf DEF Mapped, Tab, Alt
<1>2. th[p].pc \notin {"dup", "incref"} /\ th'[p].pc \notin {"dup", "incref"}
  BY Zenon, <1>0 DEF ThreadOK, Plain
<1>3. Mapped(Tab(p)) = 0 .. sz[p]-1 /\ Mapped(Alt(p)) = {}
  BY Zenon, <1>0, PagesAtRest DEF TableOK, Plain
<1>4. th[p].op = "wait" => /\ th[p].np \in Procs /\ state[th[p].np] = "ZOMBIE"
                           /\ Mapped(Tab(th[p].np)) = 0 .. sz[th[p].np]-1
                           /\ Mapped(Alt(th[p].np)) = {}
  BY <1>0, <1>2, PagesAtRest, ChildIsOther DEF TableOK, Control, OwnersOK
<1>5. OwnPages(th'[p], sz'[p]) = 0 .. sz[p]-1 /\ AltPages(th'[p]) = {}
  BY Zenon, PagesAtRest
<1>6. th'[p].op = "wait" => ChildPages(th'[p], sz[th[p].np]) = 0 .. sz[th[p].np]-1
  BY Zenon, <1>2, PagesAtRest, PagesUnmapping
<1>7. TableOK(p)'
  BY Zenon, <1>0, <1>1, <1>3, <1>4, <1>5, <1>6 DEF TableOK
<1>8. \A c \in Procs : th[p].op = "wait" /\ th[p].np = c => SlotOK(c)'
  BY Zenon, <1>1, <1>4 DEF SlotOK
<1> QED BY Zenon, <1>7, <1>8, OwnTables DEF Plain

-----------------------------------------------------------------------------
(* Where a step leaves the thread.                                         *)

-----------------------------------------------------------------------------
(* handle_cow_fault() and copyout() change no PTE's validity.              *)

\* A step inside the fault handler or copyout(), or out of them.
LEMMA FaultTables ==
  ASSUME Control, Control', TablesOK, NEW p \in Procs,
         InFault(th[p]) \/ th[p].pc = "copyout",
         Within(p), UNCHANGED <<cur, sz, state>>, \A q \in Procs : q # p => th'[q] = th[q],
         \A t \in Tables : Valid(ppn'[t]) = Valid(ppn[t]),
         \/ th'[p].op = "none" /\ th'[p].pc # "dead"
         \/ /\ th'[p].op = th[p].op /\ th'[p].np = th[p].np
            /\ \/ InFault(th'[p]) \/ th'[p].pc = "copyout"
               \/ /\ th'[p].pc = "unmap" /\ th'[p].i = 0
                  /\ th'[p].lim = sz[th[p].np] /\ th[p].op = "wait"
  PROVE  TablesOK'
<1>1. ThreadOK(th[p])
  BY Zenon DEF Control, ThreadsOK
<1>2. th[p].op \in {"store", "write", "wait"} /\ ~Unmapping(th[p]) /\ ~At(p, "dead")
  BY Zenon, <1>1 DEF ThreadOK, InFault, CowPCs, Unmapping, At
<1>3. th'[p].pc # "dead"
  BY Zenon DEF InFault, CowPCs
<1>4. InFault(th'[p]) \/ th'[p].pc = "copyout" => ~Unmapping(th'[p])
  BY Zenon DEF InFault, CowPCs, Unmapping
<1> QED BY Zenon, <1>2, <1>3, <1>4, PlainTables DEF Plain, Rest

\* The steps of handle_cow_fault() itself.
LEMMA CowTables ==
  ASSUME Control, Control', LocalsOK, TablesOK, NEW p \in Procs,
         CowRefcount(p) \/ CowOwn(p) \/ CowKalloc(p) \/ CowCopy(p)
  PROVE  TablesOK'
<1>0. /\ th[p] \in Thread /\ TabType /\ MemType /\ Tab(p) \in Tables /\ ThreadOK(th[p])
      /\ LocalOK(p)
  BY Zenon, TypeParts, TablesOf DEF Control, ThreadsOK, LocalsOK
<1>1. CASE CowRefcount(p)
  <2> DEFINE l == IF refcnt[th[p].pa] = 1 THEN "cow_own" ELSE "cow_kalloc"
             x == [th[p] EXCEPT !.pc = l]
  <2>1. /\ Becomes(p, x) /\ th[p].pc = "cow_refcount"
        /\ UNCHANGED <<ppn, perm, cur, sz, state>>
    BY Zenon, <1>1 DEF CowRefcount, Goto, At, tabvars, procvars
  <2>2. x.pc = l /\ x.op = th[p].op /\ x.np = th[p].np
    BY ZenonT(40), <1>0 DEF Thread
  <2>3. InFault(th[p]) /\ InFault(x) /\ Within(p)
    BY Zenon, <2>1, <2>2 DEF InFault, CowPCs, Within
  <2> HIDE DEF x
  <2>4. th'[p] = x /\ \A q \in Procs : q # p => th'[q] = th[q]
    BY Zenon, <2>1, NewRecord
  <2> QED BY Zenon, <2>1, <2>2, <2>3, <2>4, FaultTables
<1>2. CASE CowOwn(p)
  <2>1. CowDone(p) /\ th[p].pc = "cow_own" /\ UNCHANGED <<ppn, cur, sz, state>>
    BY Zenon, <1>2 DEF CowOwn, At, procvars
  <2>2. InFault(th[p])
    BY Zenon, <2>1 DEF InFault, CowPCs
  <2>3. Within(p)
    <3>1. \A u \in Tables : u # Tab(p) => ppn'[u] = ppn[u] /\ perm'[u] = perm[u]
      BY Zenon, <1>0, <1>2 DEF CowOwn, TabType
    <3>2. Tab(p)[1] \in Slots(p) /\ cur' = cur
      BY Zenon, <2>1 DEF Tab, Slots
    <3> QED BY ZenonT(60), <1>0, <3>1, <3>2, WithinTable
  <2> QED BY Zenon, <2>1, <2>2, <2>3, CowDoneRecord, FaultTables
<1>3. CASE CowKalloc(p)
  <2>1. th[p].pc = "cow_kalloc" /\ UNCHANGED <<ppn, perm, cur, sz, state>>
    BY Zenon, <1>3 DEF CowKalloc, At, tabvars
  <2>2. InFault(th[p]) /\ Within(p)
    BY Zenon, <2>1 DEF InFault, CowPCs, Within
  <2>3. CASE CowFail(p)
    BY Zenon, <2>1, <2>2, <2>3, CowFailRecord, FaultTables
  <2>4. ASSUME NEW pg \in freelist, Becomes(p, [th[p] EXCEPT !.new = pg, !.pc = "cow_copy"])
        PROVE  TablesOK'
    <3> DEFINE x == [th[p] EXCEPT !.new = pg, !.pc = "cow_copy"]
    <3>1. x.pc = "cow_copy" /\ x.op = th[p].op /\ x.np = th[p].np
      BY ZenonT(40), <1>0 DEF Thread
    <3>2. InFault(x)
      BY Zenon, <3>1 DEF InFault, CowPCs
    <3> HIDE DEF x
    <3>3. th'[p] = x /\ \A q \in Procs : q # p => th'[q] = th[q]
      BY Zenon, <2>4, NewRecord DEF x
    <3> QED BY Zenon, <2>1, <2>2, <3>1, <3>2, <3>3, FaultTables
  <2> QED BY Zenon, <1>3, <2>3, <2>4 DEF CowKalloc
<1>4. CASE CowCopy(p)
  <2> DEFINE x == [th[p] EXCEPT !.pc = "kfree", !.ret = "cow"]
             fl == MadeWritable(perm[Tab(p)][th[p].i])
  <2>1. /\ Becomes(p, x) /\ th[p].pc = "cow_copy" /\ UNCHANGED <<cur, sz, state>>
        /\ SetPte(Tab(p), th[p].i, th[p].new, fl)
    BY Zenon, <1>4 DEF CowCopy, At, procvars
  <2>2. x.pc = "kfree" /\ x.ret = "cow" /\ x.op = th[p].op /\ x.np = th[p].np
    BY ZenonT(40), <1>0 DEF Thread
  <2>3. InFault(th[p]) /\ InFault(x)
    BY Zenon, <2>1, <2>2 DEF InFault, CowPCs
  <2> HIDE DEF x, fl
  <2>4. th'[p] = x /\ \A q \in Procs : q # p => th'[q] = th[q]
    BY Zenon, <2>1, NewRecord
  <2>5. th[p].i \in Vas /\ th[p].new \in Pages /\ th[p].pa \in Pages /\ ppn[Tab(p)][th[p].i] = th[p].pa
    BY Zenon, <1>0, <2>1 DEF ThreadOK, InFault, CowPCs, LocalOK
  <2>6. Tab(p)[1] \in Slots(p) /\ th[p].new # None /\ th[p].i \in Valid(ppn[Tab(p)])
    BY Zenon, <2>5, PagesAssumption DEF Tab, Slots, Valid
  <2>7. /\ Within(p) /\ \A u \in Tables : u # Tab(p) => ppn'[u] = ppn[u]
        /\ Valid(ppn'[Tab(p)]) = Valid(ppn[Tab(p)]) \cup {th[p].i}
    BY ZenonT(40), <1>0, <2>1, <2>5, <2>6, ValidUpdate
  <2>8. \A t \in Tables : Valid(ppn'[t]) = Valid(ppn[t])
    BY Zenon, <2>6, <2>7
  <2> QED BY Zenon, <2>1, <2>2, <2>3, <2>4, <2>7, <2>8, FaultTables
<1> QED BY Zenon, <1>1, <1>2, <1>3, <1>4

\* copyout(): after the last byte of the status, wait() frees the whole zombie.
LEMMA CopyoutTables ==
  ASSUME Control, Control', TablesOK, NEW p \in Procs, CopyoutStore(p) \/ CopyoutFail(p)
  PROVE  TablesOK'
<1>1. th[p].pc = "copyout" /\ UNCHANGED <<ppn, perm, cur, sz, state>>
  BY Zenon DEF CopyoutStore, CopyoutFail, At, tabvars, procvars
<1>2. Within(p)
  BY Zenon, <1>1 DEF Within
<1>3. CASE CopyoutFail(p)
  BY Zenon, <1>1, <1>2, <1>3, CowFailRecord, FaultTables DEF CopyoutFail
<1>4. CASE CopyoutStore(p) /\ th[p].op = "wait"
  <2>1. GotoUnmap(p, 0, sz[th[p].np])
    BY Zenon, <1>4 DEF CopyoutStore
  <2> QED BY <1>1, <1>2, <1>4, <2>1, UnmapRecord, FaultTables
<1>5. CASE CopyoutStore(p) /\ th[p].op # "wait"
  <2>1. ReturnToUser(p)
    BY Zenon, <1>5 DEF CopyoutStore
  <2> QED BY Zenon, <1>1, <1>2, <2>1, UserRecord, FaultTables
<1> QED BY Zenon, <1>3, <1>4, <1>5

-----------------------------------------------------------------------------
(* Entering the kernel.                                                    *)

\* A faulting store, and a system call that writes to user memory.
LEMMA FaultEntryTables ==
  ASSUME Control, Control', TablesOK, NEW p \in Procs, NEW va \in Vas,
         StoreFault(p, va) \/ \E v \in Values : Write(p, va, v)
  PROVE  TablesOK'
<1>1. InUser(p) /\ UNCHANGED <<ppn, perm, cur, sz, state>>
  BY Zenon DEF StoreFault, Write, tabvars, procvars
<1>2. Within(p) /\ \A t \in Tables : Valid(ppn'[t]) = Valid(ppn[t])
  BY Zenon, <1>1 DEF Within
<1>3. /\ th'[p].op \in {"none", "store", "write"} /\ th'[p].pc # "dead"
      /\ \A q \in Procs : q # p => th'[q] = th[q]
  <2>1. CASE StoreFault(p, va)
    <3> DEFINE x == CowEntry(p, va, "store", None, None)  y == [Idle EXCEPT !.pc = "exit"]
    <3>1. x.op = "store" /\ x.pc = "cow_refcount" /\ y.op = "none" /\ y.pc = "exit"
      BY Zenon DEF CowEntry, Idle
    <3>2. Becomes(p, x) \/ Becomes(p, y)
      BY Zenon, <2>1 DEF StoreFault
    <3> HIDE DEF x, y
    <3> QED BY Zenon, <3>1, <3>2, NewRecord
  <2>2. ASSUME NEW v \in Values, Write(p, va, v)
        PROVE  /\ th'[p].op = "write" /\ th'[p].pc # "dead"
               /\ \A q \in Procs : q # p => th'[q] = th[q]
    BY Zenon, <2>2, EntryRecord DEF Write
  <2> QED BY Zenon, <2>1, <2>2
<1> QED BY Zenon, <1>1, <1>2, <1>3, UserTable, PlainTables DEF Plain

\* sbrk() and exec() enter their loops with the table they find.
LEMMA LoopEntryTables ==
  ASSUME Control, TablesOK, NEW p \in Procs,
         (\E n \in 0 .. NVa : Grow(p, n) \/ Shrink(p, n)) \/ Exec(p)
  PROVE  TablesOK'
<1>0. ProcType /\ sz[p] \in 0 .. NVa
  BY Zenon, TypeParts DEF Control, ProcType
<1>1. InUser(p) /\ UNCHANGED <<ppn, perm, cur, sz, state>>
  BY Zenon DEF Grow, Shrink, Exec, tabvars, procvars
<1>2. /\ Within(p) /\ Tab(p)' = Tab(p) /\ Alt(p)' = Alt(p)
      /\ Mapped(Tab(p))' = Mapped(Tab(p)) /\ Mapped(Alt(p))' = Mapped(Alt(p))
  BY Zenon, <1>1 DEF Within, Mapped, Tab, Alt
<1>3. /\ ~At(p, "dead") /\ th[p].op = "none"
      /\ Mapped(Tab(p))' = 0 .. sz[p]-1 /\ Mapped(Alt(p))' = {}
  BY Zenon, <1>1, <1>2, UserTable
<1>4. ASSUME NEW x, Becomes(p, x), x.pc # "dead", x.op \in {"grow", "shrink", "exec"},
             OwnPages(x, sz[p]) = 0 .. sz[p]-1, AltPages(x) = {},
             x.op = "grow" => x.base = sz[p],
             x.op = "exec" => x.lim = ImageSize
      PROVE  TablesOK'
  <2>1. th'[p] = x /\ \A q \in Procs : q # p => th'[q] = th[q]
    BY Zenon, <1>4, NewRecord
  <2>2. TableOK(p)'
    BY Zenon, <1>1, <1>3, <1>4, <2>1 DEF TableOK
  <2> QED BY Zenon, <1>1, <1>2, <1>3, <1>4, <2>1, <2>2, OwnTables
<1>5. ASSUME NEW n \in 0 .. NVa, Grow(p, n) PROVE TablesOK'
  <2> DEFINE x == [Idle EXCEPT !.pc = "kalloc", !.op = "grow", !.i = sz[p], !.lim = n, !.base = sz[p]]
  <2>1. x.pc = "kalloc" /\ x.op = "grow" /\ x.i = sz[p] /\ x.base = sz[p] /\ Becomes(p, x)
    BY Zenon, <1>5 DEF Grow, Idle
  <2> HIDE DEF x
  <2>2. Mapping(x)
    BY Zenon, <2>1 DEF Mapping
  <2> QED BY Zenon, <1>4, <2>1, <2>2, PagesMapping, PagesAtRest
<1>6. ASSUME NEW n \in 0 .. NVa, Shrink(p, n) PROVE TablesOK'
  <2> DEFINE x == [Idle EXCEPT !.pc = "unmap", !.op = "shrink", !.i = n, !.lim = sz[p], !.base = n]
  <2>1. /\ x.pc = "unmap" /\ x.op = "shrink" /\ x.i = n /\ x.lim = sz[p] /\ x.base = n
        /\ Becomes(p, x) /\ n < sz[p]
    BY Zenon, <1>6 DEF Shrink, Idle
  <2> HIDE DEF x
  <2>2. Unmapping(x)
    BY Zenon, <2>1 DEF Unmapping
  <2>3. OwnPages(x, sz[p]) = (0 .. n-1) \cup (n .. sz[p]-1) /\ AltPages(x) = {}
    BY Zenon, <2>1, <2>2, PagesUnmapping, PagesAtRest DEF Rest
  <2>4. (0 .. n-1) \cup (n .. sz[p]-1) = 0 .. sz[p]-1
    BY <1>0, <2>1, SizeAssumption
  <2> QED BY Zenon, <1>4, <2>1, <2>3, <2>4
<1>7. CASE Exec(p)
  <2> DEFINE x == [Idle EXCEPT !.pc = "kalloc", !.op = "exec", !.lim = ImageSize]
  <2>1. x.pc = "kalloc" /\ x.op = "exec" /\ x.i = 0 /\ x.lim = ImageSize /\ Becomes(p, x)
    BY Zenon, <1>7 DEF Exec, Idle
  <2> HIDE DEF x
  <2>2. Mapping(x)
    BY Zenon, <2>1 DEF Mapping
  <2>3. AltPages(x) = 0 .. 0-1
    BY Zenon, <2>1, <2>2, PagesMapping
  <2> QED BY <1>4, <2>1, <2>3, PagesAtRest
<1> QED BY Zenon, <1>5, <1>6, <1>7

\* fork() starts with an empty table, wait() with all the pages of the zombie.
LEMMA ChildEntryTables ==
  ASSUME Control, Control', TablesOK, NEW p \in Procs, NEW c \in Procs,
         \/ Fork(p, c)
         \/ Wait(p, c)
         \/ \E va \in Vas, v \in Values : WaitStatus(p, c, va, v)
  PROVE  TablesOK'
<1>0. ProcType /\ sz[p] \in 0 .. NVa /\ InUser(p) /\ UNCHANGED <<ppn, perm, cur, sz>>
  BY Zenon, TypeParts DEF Control, ProcType, Fork, Wait, WaitStatus, FoundZombie, tabvars
<1>1. /\ Within(p)
      /\ \A q \in Procs : /\ Tab(q)' = Tab(q) /\ Alt(q)' = Alt(q)
                          /\ Mapped(Tab(q))' = Mapped(Tab(q)) /\ Mapped(Alt(q))' = Mapped(Alt(q))
  BY Zenon, <1>0 DEF Within, Mapped, Tab, Alt
<1>2. /\ ~At(p, "dead") /\ th[p].op = "none" /\ Slots(p) = {p}
      /\ Mapped(Tab(p))' = 0 .. sz[p]-1 /\ Mapped(Alt(p))' = {}
  BY Zenon, <1>0, <1>1, UserTable
<1>3. ASSUME th'[p].pc # "dead", th'[p].op \in {"fork", "wait"}, th'[p].np = c,
             \A q \in Procs : q # p => th'[q] = th[q],
             \A s \in Procs : s # c => state'[s] = state[s],
             Mapped(Tab(c)) = ChildPages(th'[p], sz[c]), Mapped(Alt(c)) = {},
             th'[p].op = "fork" => th'[p].lim = sz[p]
      PROVE  TablesOK'
  <2>1. OwnPages(th'[p], sz[p]) = 0 .. sz[p]-1 /\ AltPages(th'[p]) = {}
    BY Zenon, <1>3, PagesAtRest
  <2>2. TableOK(p)'
    BY Zenon, <1>0, <1>1, <1>2, <1>3, <2>1 DEF TableOK
  <2>3. c \in Slots(p)'
    BY Zenon, <1>3 DEF Slots
  <2> QED BY Zenon, <1>0, <1>1, <1>2, <1>3, <2>2, <2>3, OwnTables
<1>4. CASE Fork(p, c)
  <2> DEFINE x == [Idle EXCEPT !.pc = "dup", !.op = "fork", !.np = c, !.lim = sz[p]]
  <2>1. /\ x.pc = "dup" /\ x.op = "fork" /\ x.np = c /\ x.lim = sz[p] /\ x.i = 0
        /\ Becomes(p, x) /\ state[c] = "UNUSED" /\ state' = [state EXCEPT ![c] = "USED"]
    BY Zenon, <1>4 DEF Fork, Idle
  <2> HIDE DEF x
  <2>2. th'[p] = x /\ \A q \in Procs : q # p => th'[q] = th[q]
    BY Zenon, <2>1, NewRecord
  <2>3. \A s \in Procs : s # c => state'[s] = state[s]
    BY Zenon, <1>0, <2>1 DEF ProcType
  <2>4. Mapped(Tab(c)) = {} /\ Mapped(Alt(c)) = {}
    BY Zenon, <2>1, ChildSlot DEF SlotOK
  <2>5. ChildPages(x, sz[c]) = 0 .. 0-1
    BY Zenon, <2>1, PagesCopying
  <2> QED BY <1>3, <2>1, <2>2, <2>3, <2>4, <2>5
<1>5. CASE ~Fork(p, c)
  <2>1. state[c] = "ZOMBIE" /\ waitlock = None /\ UNCHANGED state
    BY Zenon, <1>5 DEF Wait, WaitStatus, FoundZombie
  <2>2. Mapped(Tab(c)) = 0 .. sz[c]-1 /\ Mapped(Alt(c)) = {}
    BY Zenon, <2>1, ChildSlot DEF SlotOK
  <2>3. CASE Wait(p, c)
    <3> DEFINE x == [Idle EXCEPT !.pc = "unmap", !.op = "wait", !.np = c, !.lim = sz[c]]
    <3>1. /\ x.pc = "unmap" /\ x.op = "wait" /\ x.np = c /\ x.lim = sz[c] /\ x.i = 0
          /\ Becomes(p, x)
      BY Zenon, <2>3 DEF Wait, Idle
    <3> HIDE DEF x
    <3>2. th'[p] = x /\ \A q \in Procs : q # p => th'[q] = th[q]
      BY Zenon, <3>1, NewRecord
    <3>3. ChildPages(x, sz[c]) = 0 .. sz[c]-1
      BY Zenon, <3>1, PagesUnmapping DEF Unmapping, Rest
    <3> QED BY Zenon, <1>3, <2>1, <2>2, <3>1, <3>2, <3>3
  <2>4. ASSUME NEW va \in Vas, NEW v \in Values, WaitStatus(p, c, va, v) PROVE TablesOK'
    <3>1. /\ th'[p].op = "wait" /\ th'[p].np = c /\ th'[p].pc \in {"cow_refcount", "copyout"}
          /\ \A q \in Procs : q # p => th'[q] = th[q]
      BY Zenon, <2>4, EntryRecord DEF WaitStatus
    <3>2. ChildPages(th'[p], sz[c]) = 0 .. sz[c]-1
      BY Zenon, <3>1, PagesAtRest DEF Unmapping
    <3> QED BY Zenon, <1>3, <2>1, <2>2, <3>1, <3>2
  <2> QED BY Zenon, <1>5, <2>3, <2>4
<1> QED BY Zenon, <1>4, <1>5

\* Nothing the invariant is about changes when memory is written, or in a panic.
LEMMA SameTablesOK ==
  ASSUME TablesOK, UNCHANGED <<ppn, perm, cur, sz, state, th>>
  PROVE  TablesOK'
<1>1. \A p \in Procs : /\ TableOK(p)' <=> TableOK(p)
                       /\ SlotOK(p)' <=> SlotOK(p)
                       /\ Unclaimed(p)' <=> Unclaimed(p)
                       /\ At(p, "dead")' <=> At(p, "dead")
  BY DEF TableOK, SlotOK, Unclaimed, Mapped, Tab, Alt, At
<1> QED BY Zenon, <1>1 DEF TablesOK

\* exit() leaves the whole table to the parent.
LEMMA ExitTables ==
  ASSUME Control, TablesOK, NEW p \in Procs, Exit(p)
  PROVE  TablesOK'
<1>1. CASE Panic("init exiting")
  BY Zenon, <1>1, SameTablesOK DEF Panic
<1>2. CASE ~Panic("init exiting")
  <2>0. /\ Becomes(p, Dead) /\ UNCHANGED <<ppn, perm, cur, sz>>
        /\ state' = [state EXCEPT ![p] = "ZOMBIE"] /\ (InUser(p) \/ At(p, "exit"))
    BY Zenon, <1>2 DEF Exit, tabvars
  <2>1. th'[p] = Dead /\ Dead.pc = "dead" /\ \A q \in Procs : q # p => th'[q] = th[q]
    BY Zenon, <2>0, NewRecord DEF Dead, Idle
  <2>2. /\ ~At(p, "dead") /\ Slots(p) = {p}
        /\ Mapped(Tab(p)) = 0 .. sz[p]-1 /\ Mapped(Alt(p)) = {}
    BY Zenon, <2>0, UserTable
  <2>3. /\ Within(p) /\ Mapped(Tab(p))' = Mapped(Tab(p)) /\ Mapped(Alt(p))' = Mapped(Alt(p))
    BY Zenon, <2>0 DEF Within, Mapped, Tab, Alt
  <2>4. state'[p] = "ZOMBIE" /\ \A s \in Procs : s # p => state'[s] = state[s]
    BY Zenon, <2>0, TypeParts DEF Control, ProcType
  <2>5. SlotOK(p)' /\ At(p, "dead")'
    BY Zenon, <2>0, <2>1, <2>2, <2>3, <2>4 DEF SlotOK, At
  <2> QED BY Zenon, <2>0, <2>1, <2>2, <2>3, <2>4, <2>5, TablesStep
<1> QED BY Zenon, <1>1, <1>2

-----------------------------------------------------------------------------
(* The loops of uvmalloc() and uvmunmap().                                 *)

\* A step that stays in a loop.
LEMMA LoopStep ==
  ASSUME Control, TablesOK, NEW p \in Procs, InLoop(th[p]), InLoop(th'[p]),
         Within(p), UNCHANGED <<cur, sz, state>>, \A q \in Procs : q # p => th'[q] = th[q],
         th'[p].op = th[p].op, th'[p].base = th[p].base, th'[p].np = th[p].np,
         Mapping(th'[p]) => Mapping(th[p]) /\ th'[p].lim = th[p].lim,
         \A u \in Tables : u # Target(p) => ppn'[u] = ppn[u],
         Valid(ppn'[Target(p)]) = LoopPages(th'[p])
  PROVE  TablesOK'
<1>0. /\ ~At(p, "dead") /\ TableOK(p) /\ th[p].op \in UnmapOps /\ TabType
      /\ Mapping(th[p]) => th[p].op \in {"grow", "exec"}
      /\ Tab(p) \in Tables /\ Alt(p) \in Tables /\ Tab(p) # Alt(p)
  BY Zenon, LoopTable, TypeParts, TablesOf DEF Control, TabType, Tab, Alt, Other
<1>1. th'[p].pc # "dead"
  BY Zenon DEF InLoop, Mapping, Unmapping
<1>2. Tab(p)' = Tab(p) /\ Alt(p)' = Alt(p)
  BY Zenon DEF Tab, Alt
<1>3. CASE th[p].op = "wait"
  <2> DEFINE c == th[p].np
  <2>0. c \in Procs /\ c # p /\ Target(p) = Tab(c) /\ Unmapping(th'[p]) /\ ~Mapping(th'[p])
    BY Zenon, <1>0, <1>3, ChildIsOther DEF Target, InLoop
  <2>1. /\ Tab(c)' = Tab(c) /\ Alt(c)' = Alt(c) /\ Tab(c) \in Tables /\ Alt(c) \in Tables
        /\ Tab(c) # Alt(c) /\ Tab(c) # Tab(p) /\ Tab(c) # Alt(p)
    BY Zenon, <1>0, <2>0, TablesOf DEF TabType, Tab, Alt, Other
  <2>2. ppn'[Tab(p)] = ppn[Tab(p)] /\ ppn'[Alt(p)] = ppn[Alt(p)] /\ ppn'[Alt(c)] = ppn[Alt(c)]
    BY Zenon, <1>0, <2>0, <2>1
  <2>3. Valid(ppn'[Tab(c)]) = ChildPages(th'[p], sz[c])
    BY Zenon, <1>3, <2>0, PagesUnmapping DEF LoopPages
  <2>4. /\ Valid(ppn[Tab(p)]) = 0 .. sz[p]-1 /\ Valid(ppn[Alt(p)]) = {} /\ Valid(ppn[Alt(c)]) = {}
    BY Zenon, <1>0, <1>3, PagesAtRest DEF TableOK, Mapped
  <2>5. TableOK(p)'
    BY Zenon, <1>2, <1>3, <2>1, <2>2, <2>3, <2>4, PagesAtRest DEF TableOK, Mapped
  <2> QED BY Zenon, <1>0, <1>1, <1>3, <2>5, OwnTables
<1>4. CASE th[p].op \in {"exec", "execold"}
  <2>1. Target(p) = Alt(p) /\ ppn'[Tab(p)] = ppn[Tab(p)]
    BY Zenon, <1>0, <1>4 DEF Target
  <2>2. AltPages(th'[p]) = LoopPages(th'[p])
    BY Zenon, <1>0, <1>4, PagesMapping, PagesUnmapping DEF LoopPages, InLoop
  <2>3. Valid(ppn[Tab(p)]) = 0 .. sz[p]-1 /\ OwnPages(th'[p], sz[p]) = 0 .. sz[p]-1
    BY Zenon, <1>0, <1>4, PagesAtRest DEF TableOK, Mapped
  <2>4. th'[p].op = "exec" /\ Mapping(th'[p]) => th'[p].lim = ImageSize
    BY Zenon, <1>0 DEF TableOK
  <2>5. TableOK(p)'
    BY Zenon, <1>2, <1>4, <2>1, <2>2, <2>3, <2>4 DEF TableOK, Mapped
  <2> QED BY Zenon, <1>0, <1>1, <1>4, <2>5, OwnTables
<1>5. CASE th[p].op \in {"grow", "shrink"}
  <2>1. Target(p) = Tab(p) /\ ppn'[Alt(p)] = ppn[Alt(p)]
    BY Zenon, <1>0, <1>5 DEF Target
  <2>2. OwnPages(th'[p], sz[p]) = LoopPages(th'[p])
    BY Zenon, <1>0, <1>5, PagesMapping, PagesUnmapping DEF LoopPages, InLoop
  <2>3. Valid(ppn[Alt(p)]) = {} /\ AltPages(th'[p]) = {} /\ (th[p].op = "grow" => th[p].base = sz[p])
    BY Zenon, <1>0, <1>5, PagesAtRest DEF TableOK, Mapped
  <2>4. TableOK(p)'
    BY Zenon, <1>2, <1>5, <2>1, <2>2, <2>3 DEF TableOK, Mapped
  <2> QED BY Zenon, <1>0, <1>1, <1>5, <2>4, OwnTables
<1> QED BY Zenon, <1>0, <1>3, <1>4, <1>5 DEF UnmapOps

\* Steps that change no table: kalloc(), giving up a page, and the start of the undo.
LEMMA LoopQuiet ==
  ASSUME Control, TablesOK, NEW p \in Procs, InLoop(th[p]), UNCHANGED <<ppn, perm, cur, sz, state>>,
         \A q \in Procs : q # p => th'[q] = th[q],
         th'[p].op = th[p].op, th'[p].base = th[p].base, th'[p].np = th[p].np,
         \/ /\ th'[p].i = th[p].i /\ th'[p].lim = th[p].lim
            /\ (Mapping(th[p]) /\ Mapping(th'[p])) \/ (Unmapping(th[p]) /\ Unmapping(th'[p]))
         \/ /\ Mapping(th[p]) /\ Unmapping(th'[p])
            /\ th'[p].i = th[p].base /\ th'[p].lim = th[p].i
  PROVE  TablesOK'
<1>1. Within(p) /\ InLoop(th'[p])
  BY Zenon DEF Within, InLoop
<1>2. /\ Target(p) \in Tables /\ Valid(ppn'[Target(p)]) = LoopPages(th[p])
      /\ Mapping(th[p]) => th[p].op \in {"grow", "exec"}
  BY Zenon, LoopTable
<1>3. Mapping(th'[p]) => Mapping(th[p]) /\ th'[p].lim = th[p].lim
  BY Zenon DEF Mapping, Unmapping
<1>4. LoopPages(th'[p]) = LoopPages(th[p])
  <2>1. CASE Mapping(th[p]) /\ Mapping(th'[p])
    BY Zenon, <2>1, PagesUnmapping DEF LoopPages
  <2>2. CASE Unmapping(th[p]) /\ Unmapping(th'[p])
    <3>1. ~Mapping(th[p]) /\ ~Mapping(th'[p])
      BY Zenon, <2>2 DEF Mapping, Unmapping
    <3> QED BY Zenon, <2>2, <3>1 DEF LoopPages, Rest
  <2>3. CASE Mapping(th[p]) /\ Unmapping(th'[p])
    <3>1. ~Mapping(th'[p]) /\ ~Unmapping(th[p])
      BY Zenon, <2>3 DEF Mapping, Unmapping
    <3>2. Rest(th'[p]) = th[p].base .. th[p].i-1
      BY Zenon, <2>3, <3>1 DEF Rest
    <3>3. /\ th[p].i \in Nat /\ th[p].base \in Nat /\ th[p].base <= th[p].i
          /\ th[p].op = "exec" => th[p].base = 0
      BY Zenon, <2>3, LoopCounters
    <3>4. (0 .. th[p].base-1) \cup (th[p].base .. th[p].i-1) = 0 .. th[p].i-1
      BY <3>3
    <3> QED BY Zenon, <1>2, <2>3, <3>1, <3>2, <3>3, <3>4 DEF LoopPages
  <2> QED BY Zenon, <2>1, <2>2, <2>3 DEF InLoop
<1> QED BY Zenon, <1>1, <1>2, <1>3, <1>4, LoopStep

\* What clearing a PTE does to the set of valid ones.
LEMMA ClearUpdate ==
  ASSUME Control, NEW p \in Procs, NEW t \in Tables, t[1] \in Slots(p), NEW va \in Vas,
         ClearPte(t, va), cur' = cur
  PROVE  /\ Within(p) /\ \A u \in Tables : u # t => ppn'[u] = ppn[u]
         /\ Valid(ppn'[t]) = Valid(ppn[t]) \ {va}
<1>1. SetPte(t, va, None, {})
  BY Zenon DEF ClearPte
<1> QED BY <1>1, ValidUpdate

\* uvmunmap() clears the PTE at the counter.
LEMMA LoopClear ==
  ASSUME Control, TablesOK, NEW p \in Procs, Unmapping(th[p]), Unmapping(th'[p]),
         th[p].i < th[p].lim, ClearPte(Target(p), th[p].i), UNCHANGED <<cur, sz, state>>,
         \A q \in Procs : q # p => th'[q] = th[q],
         th'[p].op = th[p].op, th'[p].base = th[p].base, th'[p].np = th[p].np,
         th'[p].i = th[p].i + 1, th'[p].lim = th[p].lim
  PROVE  TablesOK'
<1>1. InLoop(th[p]) /\ InLoop(th'[p]) /\ ~Mapping(th[p]) /\ ~Mapping(th'[p])
  BY Zenon DEF InLoop, Mapping, Unmapping
<1>2. /\ th[p].i \in Nat /\ th[p].lim \in Nat /\ th[p].base \in Nat /\ th[p].lim <= NVa
      /\ th[p].op \in {"grow", "shrink"} => th[p].base <= th[p].i
  BY Zenon, <1>1, LoopCounters
<1>3. th[p].i \in Vas
  BY <1>2, SizeAssumption DEF Vas
<1>4. /\ Target(p) \in Tables /\ Target(p)[1] \in Slots(p)
      /\ Valid(ppn[Target(p)]) = LoopPages(th[p])
  BY Zenon, <1>1, LoopTable
<1>5. /\ Within(p) /\ \A u \in Tables : u # Target(p) => ppn'[u] = ppn[u]
      /\ Valid(ppn'[Target(p)]) = Valid(ppn[Target(p)]) \ {th[p].i}
  <2>1. cur' = cur
    OBVIOUS
  <2>2. PICK t \in Tables : t = Target(p) /\ t[1] \in Slots(p)
    BY Zenon, <1>4
  <2>3. PICK v \in Vas : v = th[p].i
    BY Zenon, <1>3
  <2>4. ClearPte(t, v)
    BY Zenon, <2>2, <2>3 DEF ClearPte, SetPte
  <2>5. /\ Within(p) /\ \A u \in Tables : u # t => ppn'[u] = ppn[u]
        /\ Valid(ppn'[t]) = Valid(ppn[t]) \ {v}
    BY <2>1, <2>2, <2>4, ClearUpdate
  <2> QED BY Zenon, <2>2, <2>3, <2>5
<1>6. Rest(th'[p]) = Rest(th[p]) \ {th[p].i}
  BY <1>2 DEF Rest
<1>7. th[p].op \in {"grow", "shrink"} => th[p].i \notin 0 .. th[p].base-1
  BY <1>2
<1>8. LoopPages(th'[p]) = LoopPages(th[p]) \ {th[p].i}
  BY Zenon, <1>1, <1>6, <1>7 DEF LoopPages
<1> QED BY Zenon, <1>1, <1>4, <1>5, <1>8, LoopStep

\* uvmalloc() and its way back.
LEMMA AllocTables ==
  ASSUME Control, TablesOK, NEW p \in Procs,
         AllocPage(p) \/ MapPage(p) \/ MapFail(p) \/ ExecBad(p)
  PROVE  TablesOK'
<1>0. th[p] \in Thread /\ ThreadOK(th[p])
  BY Zenon, TypeParts DEF Control, ThreadsOK
<1>1. Mapping(th[p]) /\ InLoop(th[p])
  BY Zenon DEF AllocPage, MapPage, MapFail, ExecBad, At, Mapping, InLoop
<1>2. ASSUME NEW lo, GotoUnmap(p, lo, th[p].i), lo = th[p].base, UNCHANGED <<ppn, perm, cur, sz, state>>
      PROVE  TablesOK'
  <2>1. /\ th'[p].pc = "unmap" /\ th'[p].i = th[p].base /\ th'[p].lim = th[p].i
        /\ th'[p].op = th[p].op /\ th'[p].base = th[p].base /\ th'[p].np = th[p].np
        /\ \A q \in Procs : q # p => th'[q] = th[q]
    BY Zenon, <1>2, UnmapRecord
  <2>2. Unmapping(th'[p])
    BY Zenon, <2>1 DEF Unmapping
  <2> QED BY Zenon, <1>1, <1>2, <2>1, <2>2, LoopQuiet
<1>3. CASE AllocPage(p)
  <2>1. UNCHANGED <<ppn, perm, cur, sz, state>>
    BY Zenon, <1>3 DEF AllocPage, tabvars, procvars
  <2>2. ASSUME NEW pg \in freelist, Becomes(p, [th[p] EXCEPT !.new = pg, !.pc = "map"])
        PROVE  TablesOK'
    <3> DEFINE x == [th[p] EXCEPT !.new = pg, !.pc = "map"]
    <3>1. /\ x.pc = "map" /\ x.op = th[p].op /\ x.np = th[p].np
          /\ x.i = th[p].i /\ x.lim = th[p].lim /\ x.base = th[p].base
      BY ZenonT(40), <1>0 DEF Thread
    <3>2. Mapping(x)
      BY Zenon, <3>1 DEF Mapping
    <3> HIDE DEF x
    <3>3. th'[p] = x /\ \A q \in Procs : q # p => th'[q] = th[q]
      BY Zenon, <2>2, NewRecord DEF x
    <3> QED BY Zenon, <1>1, <2>1, <3>1, <3>2, <3>3, LoopQuiet
  <2>3. CASE GotoUnmap(p, th[p].base, th[p].i)
    BY Zenon, <1>2, <2>1, <2>3
  <2> QED BY Zenon, <1>3, <2>2, <2>3 DEF AllocPage
<1>4. CASE MapFail(p)
  <2> DEFINE x == [th[p] EXCEPT !.pc = "kfree", !.ret = "undo", !.pa = th[p].new, !.new = None]
  <2>1. Becomes(p, x) /\ UNCHANGED <<ppn, perm, cur, sz, state>>
    BY Zenon, <1>4 DEF MapFail, tabvars, procvars
  <2>2. /\ x.pc = "kfree" /\ x.ret = "undo" /\ x.op = th[p].op /\ x.np = th[p].np
        /\ x.i = th[p].i /\ x.lim = th[p].lim /\ x.base = th[p].base
    BY ZenonT(40), <1>0 DEF Thread
  <2>3. Mapping(x)
    BY Zenon, <2>2 DEF Mapping
  <2> HIDE DEF x
  <2>4. th'[p] = x /\ \A q \in Procs : q # p => th'[q] = th[q]
    BY Zenon, <2>1, NewRecord
  <2> QED BY Zenon, <1>1, <2>1, <2>2, <2>3, <2>4, LoopQuiet
<1>5. CASE ExecBad(p)
  <2>1. GotoUnmap(p, 0, th[p].i) /\ UNCHANGED <<ppn, perm, cur, sz, state>> /\ th[p].base = 0
    BY Zenon, <1>0, <1>5 DEF ExecBad, tabvars, procvars, ThreadOK
  <2> QED BY Zenon, <1>2, <2>1
<1>6. CASE MapPage(p)
  <2>1. CASE Panic("mappages: remap")
    BY Zenon, <2>1, SameTablesOK DEF Panic
  <2>2. CASE ~Panic("mappages: remap")
    <3> DEFINE x == [th[p] EXCEPT !.pc = "kalloc", !.i = @ + 1, !.new = None]
               fl == MapPerm(p)
    <3>1. /\ th[p].pc = "map" /\ SetPte(Target(p), th[p].i, th[p].new, fl)
          /\ Becomes(p, x) /\ UNCHANGED <<cur, sz, state>>
      BY Zenon, <1>6, <2>2 DEF MapPage, At, procvars
    <3>2. /\ x.pc = "kalloc" /\ x.op = th[p].op /\ x.np = th[p].np
          /\ x.i = th[p].i + 1 /\ x.lim = th[p].lim /\ x.base = th[p].base
      BY ZenonT(40), <1>0 DEF Thread
    <3>3. Mapping(x) /\ InLoop(x)
      BY Zenon, <3>2 DEF Mapping, InLoop
    <3> HIDE DEF x, fl
    <3>4. th'[p] = x /\ \A q \in Procs : q # p => th'[q] = th[q]
      BY Zenon, <3>1, NewRecord
    <3>5. th[p].new \in Pages /\ th[p].new # None /\ th[p].i < th[p].lim
      BY Zenon, <1>0, <1>1, <3>1, PagesAssumption DEF ThreadOK
    <3>6. th[p].i \in Nat /\ th[p].i \in Vas
      <4>1. th[p].i \in Nat /\ th[p].lim \in Nat /\ th[p].lim <= NVa
        BY Zenon, <1>1, LoopCounters
      <4> QED BY <3>5, <4>1, SizeAssumption DEF Vas
    <3>7. /\ Target(p) \in Tables /\ Target(p)[1] \in Slots(p)
          /\ Valid(ppn[Target(p)]) = LoopPages(th[p])
      BY Zenon, <1>1, LoopTable
    <3>8. /\ Within(p) /\ \A u \in Tables : u # Target(p) => ppn'[u] = ppn[u]
          /\ Valid(ppn'[Target(p)]) = Valid(ppn[Target(p)]) \cup {th[p].i}
      BY ZenonT(40), <3>1, <3>5, <3>6, <3>7, ValidUpdate
    <3>9. 0 .. (th[p].i + 1)-1 = (0 .. th[p].i-1) \cup {th[p].i}
      BY <3>6
    <3>10. LoopPages(x) = LoopPages(th[p]) \cup {th[p].i}
      BY Zenon, <1>1, <3>2, <3>3, <3>9 DEF LoopPages
    <3> QED BY Zenon, <1>1, <3>1, <3>2, <3>3, <3>4, <3>7, <3>8, <3>10, LoopStep
  <2> QED BY Zenon, <2>1, <2>2
<1> QED BY Zenon, <1>3, <1>4, <1>5, <1>6

\* kfree() returns to the fault handler, to the undo of uvmalloc(), or to uvmunmap(), which
\* clears the PTE.
LEMMA KfreeReturnTables ==
  ASSUME Control, Control', TablesOK, NEW p \in Procs, At(p, "kfree") \/ At(p, "kfree_push"),
         KfreeReturn(p), UNCHANGED <<cur, sz, state>>
  PROVE  TablesOK'
<1>0. ThreadOK(th[p])
  BY Zenon DEF Control, ThreadsOK
<1>1. CASE th[p].ret = "cow"
  <2>1. CowDone(p) /\ UNCHANGED <<ppn, perm>>
    BY Zenon, <1>1 DEF KfreeReturn
  <2>2. InFault(th[p]) /\ Within(p)
    BY Zenon, <1>1, <2>1 DEF InFault, Within, At
  <2> QED BY Zenon, <2>1, <2>2, CowDoneRecord, FaultTables
<1>2. CASE th[p].ret = "undo"
  <2>1. GotoUnmap(p, th[p].base, th[p].i) /\ UNCHANGED <<ppn, perm>>
    BY Zenon, <1>2 DEF KfreeReturn
  <2>2. Mapping(th[p]) /\ InLoop(th[p])
    BY Zenon, <1>2 DEF Mapping, InLoop, At
  <2>3. /\ th'[p].pc = "unmap" /\ th'[p].i = th[p].base /\ th'[p].lim = th[p].i
        /\ th'[p].op = th[p].op /\ th'[p].base = th[p].base /\ th'[p].np = th[p].np
        /\ \A q \in Procs : q # p => th'[q] = th[q]
    BY Zenon, <2>1, UnmapRecord
  <2>4. Unmapping(th'[p])
    BY Zenon, <2>3 DEF Unmapping
  <2> QED BY Zenon, <2>1, <2>2, <2>3, <2>4, LoopQuiet
<1>3. CASE th[p].ret = "unmap"
  <2>1. GotoUnmap(p, th[p].i + 1, th[p].lim) /\ ClearPte(Target(p), th[p].i)
    BY Zenon, <1>3 DEF KfreeReturn
  <2>2. Unmapping(th[p]) /\ th[p].i < th[p].lim
    BY Zenon, <1>0, <1>3 DEF ThreadOK, Unmapping, At
  <2>3. /\ th'[p].pc = "unmap" /\ th'[p].i = th[p].i + 1 /\ th'[p].lim = th[p].lim
        /\ th'[p].op = th[p].op /\ th'[p].base = th[p].base /\ th'[p].np = th[p].np
        /\ \A q \in Procs : q # p => th'[q] = th[q]
    BY Zenon, <2>1, UnmapRecord
  <2>4. Unmapping(th'[p])
    BY Zenon, <2>3 DEF Unmapping
  <2> QED BY Zenon, <2>1, <2>2, <2>3, <2>4, LoopClear
<1> QED BY Zenon, <1>0, <1>1, <1>2, <1>3 DEF ThreadOK, At

\* Both halves of kfree().
LEMMA KfreeTables ==
  ASSUME Control, Control', TablesOK, NEW p \in Procs, Kfree(p) \/ KfreeEnd(p)
  PROVE  TablesOK'
<1>0. th[p] \in Thread /\ ThreadOK(th[p])
  BY Zenon, TypeParts DEF Control, ThreadsOK
<1>1. UNCHANGED <<cur, sz, state>>
  BY Zenon DEF Kfree, KfreeEnd, procvars
<1>2. CASE KfreeReturn(p)
  BY Zenon, <1>1, <1>2, KfreeReturnTables DEF Kfree, KfreeEnd
<1>3. CASE ~KfreeReturn(p)
  <2> DEFINE x == [th[p] EXCEPT !.pc = "kfree_push"]
  <2>1. At(p, "kfree") /\ Becomes(p, x) /\ UNCHANGED <<ppn, perm>>
    BY Zenon, <1>3 DEF Kfree, KfreeEnd, Goto
  <2>2. /\ x.pc = "kfree_push" /\ x.ret = th[p].ret /\ x.op = th[p].op /\ x.np = th[p].np
        /\ x.i = th[p].i /\ x.lim = th[p].lim /\ x.base = th[p].base
    BY ZenonT(40), <1>0 DEF Thread
  <2> HIDE DEF x
  <2>3. th'[p] = x /\ \A q \in Procs : q # p => th'[q] = th[q]
    BY Zenon, <2>1, NewRecord
  <2>4. CASE th[p].ret = "cow"
    <3>1. InFault(th[p]) /\ InFault(x) /\ Within(p)
      BY Zenon, <1>1, <2>1, <2>2, <2>4 DEF InFault, Within, At
    <3> QED BY Zenon, <1>1, <2>1, <2>2, <2>3, <3>1, FaultTables
  <2>5. CASE th[p].ret = "undo"
    <3>1. Mapping(th[p]) /\ Mapping(x) /\ InLoop(th[p])
      BY Zenon, <2>1, <2>2, <2>5 DEF Mapping, InLoop, At
    <3> QED BY Zenon, <1>1, <2>1, <2>2, <2>3, <3>1, LoopQuiet
  <2> QED BY Zenon, <1>0, <2>1, <2>4, <2>5 DEF ThreadOK, At
<1> QED BY Zenon, <1>2, <1>3

\* One iteration of uvmunmap().
LEMMA UnmapTables ==
  ASSUME Control, TablesOK, NEW p \in Procs, UnmapPage(p)
  PROVE  TablesOK'
<1>0. th[p] \in Thread
  BY Zenon, TypeParts DEF Control
<1>1. Unmapping(th[p]) /\ InLoop(th[p]) /\ th[p].i < th[p].lim
  BY Zenon DEF UnmapPage, At, Unmapping, InLoop
<1>2. CASE Panic("uvmunmap: not mapped")
  BY Zenon, <1>2, SameTablesOK DEF Panic
<1>3. CASE ~Panic("uvmunmap: not mapped")
  <2> DEFINE pg == ppn[Target(p)][th[p].i]
             x == [th[p] EXCEPT !.i = @ + 1]
             y == [th[p] EXCEPT !.pc = "kfree_push", !.pa = pg, !.ret = "unmap"]
  <2>1. /\ UNCHANGED <<cur, sz, state>>
        /\ \/ ClearPte(Target(p), th[p].i) /\ Becomes(p, x)
           \/ UNCHANGED <<ppn, perm>> /\ Becomes(p, y)
    BY Zenon, <1>3 DEF UnmapPage, procvars
  <2>2. /\ x.pc = th[p].pc /\ x.op = th[p].op /\ x.np = th[p].np /\ x.ret = th[p].ret
        /\ x.i = th[p].i + 1 /\ x.lim = th[p].lim /\ x.base = th[p].base
    BY ZenonT(40), <1>0 DEF Thread
  <2>3. /\ y.pc = "kfree_push" /\ y.ret = "unmap" /\ y.op = th[p].op /\ y.np = th[p].np
        /\ y.i = th[p].i /\ y.lim = th[p].lim /\ y.base = th[p].base
    BY ZenonT(40), <1>0 DEF Thread
  <2>4. Unmapping(x) /\ Unmapping(y)
    BY Zenon, <1>1, <2>2, <2>3 DEF Unmapping
  <2> HIDE DEF x, y
  <2>5. CASE ClearPte(Target(p), th[p].i) /\ Becomes(p, x)
    <3>1. th'[p] = x /\ \A q \in Procs : q # p => th'[q] = th[q]
      BY Zenon, <2>5, NewRecord
    <3> QED BY Zenon, <1>1, <2>1, <2>2, <2>4, <2>5, <3>1, LoopClear
  <2>6. CASE UNCHANGED <<ppn, perm>> /\ Becomes(p, y)
    <3>1. th'[p] = y /\ \A q \in Procs : q # p => th'[q] = th[q]
      BY Zenon, <2>6, NewRecord
    <3> QED BY Zenon, <1>1, <2>1, <2>3, <2>4, <2>6, <3>1, LoopQuiet
  <2> QED BY Zenon, <2>1, <2>5, <2>6
<1> QED BY Zenon, <1>2, <1>3

\* The ends of the loops: the size follows what has been mapped or unmapped.
LEMMA LoopEndTables ==
  ASSUME Control, Control', TablesOK, NEW p \in Procs,
         Unmapped(p) \/ Grown(p)
  PROVE  TablesOK'
<1>0. /\ InLoop(th[p]) /\ UNCHANGED <<ppn, perm, cur>> /\ ReturnToUser(p)
      /\ th[p].i = th[p].lim /\ ProcType
  BY Zenon, TypeParts DEF Control, Unmapped, Grown, InLoop, Mapping, Unmapping, At, tabvars
<1>1. /\ th'[p].pc = "user" /\ th'[p].op = "none" /\ \A q \in Procs : q # p => th'[q] = th[q]
      /\ OwnPages(th'[p], sz'[p]) = 0 .. sz'[p]-1 /\ AltPages(th'[p]) = {}
  BY Zenon, <1>0, UserRecord, PagesAtRest
<1>2. /\ Within(p) /\ \A q \in Procs : Tab(q)' = Tab(q) /\ Alt(q)' = Alt(q)
      /\ \A t \in Tables : Valid(ppn'[t]) = Valid(ppn[t])
  BY Zenon, <1>0 DEF Within, Tab, Alt
<1>3. /\ ~At(p, "dead") /\ TableOK(p) /\ th[p].op \in UnmapOps
      /\ Mapping(th[p]) => th[p].op \in {"grow", "exec"}
      /\ Valid(ppn[Target(p)]) = LoopPages(th[p])
  BY Zenon, <1>0, LoopTable
<1>4. th[p].i \in Nat /\ th[p].lim \in Nat /\ th[p].base \in Nat
  BY Zenon, <1>0, LoopCounters
<1>5. ASSUME Mapped(Tab(p)) = 0 .. sz'[p]-1, Mapped(Alt(p)) = {} PROVE TableOK(p)'
  BY Zenon, <1>1, <1>2, <1>0, <1>5 DEF TableOK, Mapped
<1>6. CASE Grown(p)
  <2>1. Mapping(th[p]) /\ th[p].op = "grow" /\ UNCHANGED state /\ sz' = [sz EXCEPT ![p] = th[p].lim]
    BY Zenon, <1>6 DEF Grown, At, Mapping
  <2>2. sz'[p] = th[p].i /\ \A q \in Procs : q # p => sz'[q] = sz[q]
    BY Zenon, <1>0, <2>1 DEF ProcType
  <2>3. Mapped(Tab(p)) = 0 .. th[p].i-1 /\ Mapped(Alt(p)) = {}
    BY Zenon, <1>3, <2>1, PagesMapping, PagesAtRest DEF TableOK
  <2>4. p \in Slots(p)
    BY Zenon DEF Slots
  <2> QED BY Zenon, <1>1, <1>2, <1>3, <1>5, <2>1, <2>2, <2>3, <2>4, OwnTables
<1>7. CASE Unmapped(p)
  <2>0. Unmapping(th[p]) /\ Rest(th[p]) = {} /\ p \in Slots(p)
    BY <1>0, <1>4, <1>7 DEF Unmapped, Unmapping, At, Rest, Slots
  <2>1. CASE th[p].op \in {"grow", "exec", "execold"}
    <3>1. UNCHANGED <<sz, state>>
      BY Zenon, <1>7, <2>1 DEF Unmapped, procvars
    <3>2. Mapped(Tab(p)) = 0 .. sz[p]-1 /\ Mapped(Alt(p)) = {}
      <4>1. CASE th[p].op = "grow"
        <5>1. OwnPages(th[p], sz[p]) = (0 .. th[p].base-1) \cup {} /\ AltPages(th[p]) = {}
          BY Zenon, <2>0, <4>1, PagesUnmapping, PagesAtRest
        <5> QED BY Zenon, <1>3, <4>1, <5>1 DEF TableOK
      <4>2. CASE th[p].op # "grow"
        BY Zenon, <1>3, <2>0, <2>1, <4>2, PagesUnmapping, PagesAtRest DEF TableOK
      <4> QED BY Zenon, <4>1, <4>2
    <3> QED BY Zenon, <1>1, <1>2, <1>3, <1>5, <2>1, <3>1, <3>2, OwnTables
  <2>2. CASE th[p].op = "shrink"
    <3>1. sz' = [sz EXCEPT ![p] = th[p].base] /\ UNCHANGED state
      BY Zenon, <1>7, <2>2 DEF Unmapped
    <3>2. sz'[p] = th[p].base /\ \A q \in Procs : q # p => sz'[q] = sz[q]
      BY Zenon, <1>0, <3>1 DEF ProcType
    <3>3. Mapped(Tab(p)) = 0 .. th[p].base-1 /\ Mapped(Alt(p)) = {}
      <4>1. OwnPages(th[p], sz[p]) = (0 .. th[p].base-1) \cup {} /\ AltPages(th[p]) = {}
        BY Zenon, <2>0, <2>2, PagesUnmapping, PagesAtRest
      <4> QED BY Zenon, <1>3, <2>2, <4>1 DEF TableOK
    <3> QED BY Zenon, <1>1, <1>2, <1>3, <1>5, <2>0, <2>2, <3>1, <3>2, <3>3, OwnTables
  <2>3. CASE th[p].op = "wait"
    <3>0. PICK c \in Procs : c = th[p].np
      BY Zenon, <2>3, ChildIsOther
    <3>1. sz' = [sz EXCEPT ![c] = 0] /\ state' = [state EXCEPT ![c] = "UNUSED"]
      BY Zenon, <1>7, <2>3, <3>0 DEF Unmapped
    <3>2. c # p /\ Slots(p) = {p, c}
      BY Zenon, <2>3, <3>0, ChildIsOther DEF Slots
    <3>3. /\ sz'[p] = sz[p] /\ \A q \in Procs : q \notin Slots(p) => sz'[q] = sz[q] /\ state'[q] = state[q]
          /\ state'[c] = "UNUSED"
      BY Zenon, <1>0, <3>1, <3>2 DEF ProcType
    <3>4. Mapped(Tab(p)) = 0 .. sz[p]-1 /\ Mapped(Alt(p)) = {}
      BY Zenon, <1>3, <2>3, PagesAtRest DEF TableOK
    <3>5. Mapped(Tab(c)) = {} /\ Mapped(Alt(c)) = {}
      BY Zenon, <1>3, <2>0, <2>3, <3>0, PagesUnmapping DEF TableOK
    <3>6. SlotOK(c)'
      BY Zenon, <1>0, <1>2, <3>2, <3>3, <3>5 DEF SlotOK, Mapped
    <3>7. TableOK(p)'
      BY Zenon, <1>5, <3>3, <3>4
    <3> QED BY Zenon, <1>1, <1>2, <1>3, <3>0, <3>2, <3>3, <3>6, <3>7, OwnTables
  <2> QED BY Zenon, <1>3, <2>1, <2>2, <2>3 DEF UnmapOps
<1> QED BY Zenon, <1>6, <1>7

\* exec() commits to an image that is complete, and frees the whole of the old one.
LEMMA ExecCommitTables ==
  ASSUME Control, TablesOK, NEW p \in Procs, ExecCommit(p)
  PROVE  TablesOK'
<1> DEFINE x == [Idle EXCEPT !.pc = "unmap", !.op = "execold", !.lim = sz[p]]
<1>0. /\ th[p].op = "exec" /\ th[p].i = th[p].lim /\ Mapping(th[p]) /\ InLoop(th[p])
      /\ cur' = [cur EXCEPT ![p] = Other(@)] /\ sz' = [sz EXCEPT ![p] = ImageSize]
      /\ Becomes(p, x) /\ UNCHANGED <<ppn, perm, state>> /\ TabType /\ ProcType
  BY Zenon, TypeParts DEF Control, ExecCommit, At, Mapping, InLoop
<1>1. x.pc = "unmap" /\ x.op = "execold" /\ x.lim = sz[p] /\ x.i = 0
  BY Zenon DEF Idle
<1>2. Unmapping(x)
  BY Zenon, <1>1 DEF Unmapping
<1> HIDE DEF x
<1>3. th'[p] = x /\ \A q \in Procs : q # p => th'[q] = th[q]
  BY Zenon, <1>0, NewRecord
<1>4. /\ sz'[p] = ImageSize /\ cur'[p] = Other(cur[p]) /\ cur[p] \in {"A", "B"}
      /\ \A q \in Procs : q # p => sz'[q] = sz[q] /\ cur'[q] = cur[q]
  BY Zenon, <1>0 DEF TabType, ProcType
<1>5. Tab(p)' = Alt(p) /\ Alt(p)' = Tab(p) /\ Within(p) /\ p \in Slots(p)
  BY Zenon, <1>0, <1>4 DEF Tab, Alt, Other, Within, Slots
<1>6. TableOK(p) /\ ~At(p, "dead")
  BY Zenon, <1>0, LoopTable
<1>7. Mapped(Alt(p)) = 0 .. ImageSize-1 /\ Mapped(Tab(p)) = 0 .. sz[p]-1
  BY Zenon, <1>0, <1>6, PagesMapping, PagesAtRest DEF TableOK
<1>8. OwnPages(x, ImageSize) = 0 .. ImageSize-1 /\ AltPages(x) = 0 .. sz[p]-1
  BY Zenon, <1>1, <1>2, PagesUnmapping, PagesAtRest DEF Rest
<1>9. TableOK(p)'
  BY Zenon, <1>0, <1>1, <1>3, <1>4, <1>5, <1>7, <1>8 DEF TableOK, Mapped
<1> QED BY Zenon, <1>0, <1>1, <1>3, <1>4, <1>5, <1>6, <1>9, OwnTables

-----------------------------------------------------------------------------
(* fork() and uvmcopy().                                                   *)

\* One page of uvmcopy(): mapped, then counted.
LEMMA DupTables ==
  ASSUME Control, TablesOK, NEW p \in Procs, DupPage(p) \/ DupIncref(p)
  PROVE  TablesOK'
<1>0. th[p] \in Thread /\ TabType /\ th[p].op = "fork"
  BY Zenon, TypeParts DEF Control, ThreadsOK, ThreadOK, DupPage, DupIncref, At
<1>1. PICK c \in Procs : c = th[p].np /\ c # p
  BY Zenon, <1>0, ChildIsOther
<1>2. /\ ~At(p, "dead") /\ th[p].lim = sz[p] /\ th[p].i \in Nat /\ Slots(p) = {p, c}
      /\ sz[p] \in 0 .. NVa
      /\ Mapped(Tab(p)) = 0 .. sz[p]-1 /\ Mapped(Alt(p)) = {} /\ Mapped(Alt(c)) = {}
      /\ th[p].pc = "dup" => Mapped(Tab(c)) = 0 .. th[p].i-1
      /\ th[p].pc = "incref" => Mapped(Tab(c)) = 0 .. th[p].i
  BY Zenon, <1>0, <1>1, ForkTable
<1>3. ASSUME NEW x, Becomes(p, x), x.op = "fork", x.np = c, x.lim = th[p].lim, x.pc # "dead",
             UNCHANGED <<cur, sz, state>>, Within(p),
             \A u \in Tables : u # Tab(c) => ppn'[u] = ppn[u],
             Valid(ppn'[Tab(c)]) = ChildPages(x, sz[c])
      PROVE  TablesOK'
  <2>1. th'[p] = x /\ \A q \in Procs : q # p => th'[q] = th[q]
    BY Zenon, <1>3, NewRecord
  <2>2. \A q \in Procs : Tab(q)' = Tab(q) /\ Alt(q)' = Alt(q)
    BY Zenon, <1>3 DEF Tab, Alt
  <2>3. /\ Tab(p) \in Tables /\ Alt(p) \in Tables /\ Alt(c) \in Tables
        /\ Tab(p) # Tab(c) /\ Alt(p) # Tab(c) /\ Alt(c) # Tab(c)
    BY Zenon, <1>0, <1>1, TablesOf DEF TabType, Tab, Alt, Other
  <2>4. ppn'[Tab(p)] = ppn[Tab(p)] /\ ppn'[Alt(p)] = ppn[Alt(p)] /\ ppn'[Alt(c)] = ppn[Alt(c)]
    BY Zenon, <1>3, <2>3
  <2>5. OwnPages(x, sz[p]) = 0 .. sz[p]-1 /\ AltPages(x) = {}
    BY Zenon, <1>3, PagesAtRest
  <2>6. TableOK(p)'
    BY Zenon, <1>1, <1>2, <1>3, <2>1, <2>2, <2>4, <2>5 DEF TableOK, Mapped
  <2> QED BY Zenon, <1>1, <1>2, <1>3, <2>1, <2>6, OwnTables
<1>4. CASE DupIncref(p)
  <2> DEFINE x == [th[p] EXCEPT !.pc = "dup", !.i = @ + 1, !.pa = None]
  <2>1. th[p].pc = "incref" /\ Becomes(p, x) /\ UNCHANGED <<ppn, perm, cur, sz, state>>
    BY Zenon, <1>4 DEF DupIncref, At, tabvars, procvars
  <2>2. x.pc = "dup" /\ x.op = th[p].op /\ x.np = th[p].np /\ x.lim = th[p].lim /\ x.i = th[p].i + 1
    BY ZenonT(40), <1>0 DEF Thread
  <2> HIDE DEF x
  <2>3. Within(p)
    BY Zenon, <2>1 DEF Within
  <2>4. ChildPages(x, sz[c]) = 0 .. (th[p].i + 1)-1
    BY Zenon, <2>2, PagesCopying
  <2>5. 0 .. (th[p].i + 1)-1 = 0 .. th[p].i
    BY <1>2
  <2> QED BY Zenon, <1>0, <1>1, <1>2, <1>3, <2>1, <2>2, <2>3, <2>4, <2>5 DEF Mapped
<1>5. CASE DupPage(p)
  <2>1. CASE Panic("uvmcopy: page not present")
    BY Zenon, <2>1, SameTablesOK DEF Panic
  <2>2. CASE Panic("mappages: remap")
    BY Zenon, <2>2, SameTablesOK DEF Panic
  <2>3. CASE ~Panic("uvmcopy: page not present") /\ ~Panic("mappages: remap")
    <3> DEFINE va == th[p].i  pg == ppn[Tab(p)][va]  fl == SharedPerm(perm[Tab(p)][va])
               x == [th[p] EXCEPT !.pc = "incref", !.pa = pg]
    <3>1. /\ th[p].pc = "dup" /\ va < th[p].lim /\ pg # None
          /\ ppn' = [ppn EXCEPT ![Tab(c)][va] = pg]
          /\ perm' = [perm EXCEPT ![Tab(p)][va] = fl, ![Tab(c)][va] = fl]
          /\ Becomes(p, x) /\ UNCHANGED <<cur, sz, state>>
      BY Zenon, <1>1, <1>5, <2>3 DEF DupPage, At, procvars
    <3>2. x.pc = "incref" /\ x.op = th[p].op /\ x.np = th[p].np /\ x.lim = th[p].lim /\ x.i = th[p].i
      BY ZenonT(40), <1>0 DEF Thread
    <3>3. va \in Vas /\ va \in Nat
      BY <1>2, <3>1, SizeAssumption DEF Vas
    <3> HIDE DEF x, fl, pg, va
    <3>4. Tab(c) \in Tables /\ Tab(p) \in Tables /\ Tab(c)[1] = c /\ Tab(p)[1] = p
      BY Zenon, <1>0, TablesOf DEF Tab
    <3>5. /\ \A u \in Tables : u # Tab(c) => ppn'[u] = ppn[u]
          /\ \A w \in Vas : ppn'[Tab(c)][w] = IF w = va THEN pg ELSE ppn[Tab(c)][w]
      BY Zenon, <1>0, <3>1, <3>3, <3>4 DEF TabType
    <3>6. \A u \in Tables : u \notin {Tab(p), Tab(c)} => perm'[u] = perm[u]
      BY Zenon, <1>0, <3>1, <3>3, <3>4 DEF TabType
    <3>7. Within(p)
      BY Zenon, <1>2, <3>1, <3>4, <3>5, <3>6 DEF Within
    <3>8. Valid(ppn'[Tab(c)]) = Valid(ppn[Tab(c)]) \cup {va}
      BY Zenon, <3>1, <3>3, <3>5 DEF Valid
    <3>9. ChildPages(x, sz[c]) = 0 .. va
      BY Zenon, <3>2, PagesCopying DEF va
    <3>10. (0 .. va-1) \cup {va} = 0 .. va
      BY <3>3
    <3>11. Valid(ppn[Tab(c)]) = 0 .. va-1
      BY Zenon, <1>2, <3>1 DEF Mapped, va
    <3> QED BY Zenon, <1>0, <1>1, <1>3, <3>1, <3>2, <3>5, <3>7, <3>8, <3>9, <3>10, <3>11
  <2> QED BY Zenon, <2>1, <2>2, <2>3
<1> QED BY Zenon, <1>4, <1>5

\* A failed fork() that finds no leaf leaves an empty table behind.
LEMMA DupFailTables ==
  ASSUME Control, Control', TablesOK, NEW p \in Procs, DupFail(p)
  PROVE  TablesOK'
<1>0. th[p].op = "fork" /\ TabType /\ ProcType
  BY Zenon, TypeParts DEF Control, ThreadsOK, ThreadOK, DupFail, At
<1>1. PICK c \in Procs : c = th[p].np /\ c # p
  BY Zenon, <1>0, ChildIsOther
<1>2. /\ ~At(p, "dead") /\ Slots(p) = {p, c}
      /\ Mapped(Tab(p)) = 0 .. sz[p]-1 /\ Mapped(Alt(p)) = {} /\ Mapped(Alt(c)) = {}
  BY Zenon, <1>0, <1>1, ForkTable
<1>3. CASE Panic("freewalk: leaf")
  BY Zenon, <1>3, SameTablesOK DEF Panic
<1>4. CASE ~Panic("freewalk: leaf")
  <2>1. /\ \A x \in Vas : ppn[Tab(c)][x] = None
        /\ perm' = [perm EXCEPT ![Tab(p)][th[p].i] = SharedPerm(@)]
        /\ state' = [state EXCEPT ![c] = "UNUSED"]
        /\ ReturnToUser(p) /\ UNCHANGED <<ppn, cur, sz>>
    BY Zenon, <1>1, <1>4 DEF DupFail
  <2>2. /\ th'[p].pc = "user" /\ th'[p].op = "none" /\ \A q \in Procs : q # p => th'[q] = th[q]
        /\ OwnPages(th'[p], sz[p]) = 0 .. sz[p]-1 /\ AltPages(th'[p]) = {}
    BY Zenon, <2>1, UserRecord, PagesAtRest
  <2>3. \A q \in Procs : Tab(q)' = Tab(q) /\ Alt(q)' = Alt(q)
    BY Zenon, <2>1 DEF Tab, Alt
  <2>4. Within(p)
    <3>1. Tab(p) \in Tables /\ Tab(p)[1] = p
      BY Zenon, <1>0, TablesOf DEF Tab
    <3>2. \A u \in Tables : u # Tab(p) => perm'[u] = perm[u]
      BY Zenon, <1>0, <2>1, <3>1 DEF TabType
    <3> QED BY Zenon, <1>2, <2>1, <3>1, <3>2 DEF Within
  <2>5. state'[c] = "UNUSED" /\ \A s \in Procs : s # c => state'[s] = state[s]
    BY Zenon, <1>0, <2>1 DEF ProcType
  <2>6. Valid(ppn[Tab(c)]) = {}
    BY Zenon, <2>1 DEF Valid
  <2>7. SlotOK(c)'
    BY Zenon, <1>2, <2>1, <2>3, <2>5, <2>6 DEF SlotOK, Mapped
  <2>8. TableOK(p)'
    BY Zenon, <1>2, <2>1, <2>2, <2>3 DEF TableOK, Mapped
  <2> QED BY Zenon, <1>1, <1>2, <2>1, <2>2, <2>4, <2>5, <2>7, <2>8, OwnTables
<1> QED BY Zenon, <1>3, <1>4

\* The child starts with the size and the pages of its parent.
LEMMA ForkedTables ==
  ASSUME Control, TablesOK, NEW p \in Procs, Forked(p)
  PROVE  TablesOK'
<1>0. th[p].op = "fork" /\ th[p].pc = "dup" /\ TabType /\ ProcType /\ th[p].i = th[p].lim
  BY Zenon, TypeParts DEF Control, ThreadsOK, ThreadOK, Forked, At
<1>1. PICK c \in Procs : c = th[p].np /\ c # p
  BY Zenon, <1>0, ChildIsOther
<1>2. /\ ~At(p, "dead") /\ Slots(p) = {p, c} /\ th[p].i = sz[p]
      /\ Mapped(Tab(p)) = 0 .. sz[p]-1 /\ Mapped(Alt(p)) = {} /\ Mapped(Alt(c)) = {}
      /\ Mapped(Tab(c)) = 0 .. sz[p]-1
  BY <1>0, <1>1, ForkTable
<1>3. /\ sz' = [sz EXCEPT ![c] = sz[p]] /\ state' = [state EXCEPT ![c] = "LIVE"]
      /\ th' = [th EXCEPT ![p] = Idle, ![c] = Idle] /\ UNCHANGED <<ppn, perm, cur>>
  BY Zenon, <1>1 DEF Forked, tabvars
<1>4. th'[p] = Idle /\ th'[c] = Idle /\ \A q \in Procs : q \notin {p, c} => th'[q] = th[q]
  BY ZenonT(40), <1>1, <1>3 DEF Control, TypeOK
<1>5. /\ sz'[c] = sz[p] /\ sz'[p] = sz[p]
      /\ \A q \in Procs : q # c => sz'[q] = sz[q] /\ state'[q] = state[q]
  BY Zenon, <1>0, <1>1, <1>3 DEF ProcType
<1>6. /\ Within(p)
      /\ \A q \in Procs : /\ Tab(q)' = Tab(q) /\ Alt(q)' = Alt(q)
                          /\ Mapped(Tab(q))' = Mapped(Tab(q)) /\ Mapped(Alt(q))' = Mapped(Alt(q))
  BY Zenon, <1>3 DEF Within, Mapped, Tab, Alt
<1>7. Idle.op = "none" /\ Idle.pc = "user"
  BY Zenon DEF Idle
<1>8. OwnPages(Idle, sz[p]) = 0 .. sz[p]-1 /\ AltPages(Idle) = {}
  BY Zenon, <1>7, PagesAtRest
<1>9. TableOK(p)' /\ TableOK(c)'
  BY Zenon, <1>2, <1>4, <1>5, <1>6, <1>7, <1>8 DEF TableOK
<1>10. ~Unclaimed(p)' /\ ~Unclaimed(c)'
  BY Zenon, <1>4, <1>7 DEF Unclaimed, At
<1> QED BY Zenon, <1>2, <1>4, <1>5, <1>6, <1>9, <1>10, TablesStep

-----------------------------------------------------------------------------
(* The invariant and what it gives.                                        *)

\* userinit() maps page 0 of the first process, whose size is one page.
LEMMA InitTablesOK == Init => TablesOK
<1> SUFFICES ASSUME NEW pg \in Pages, InitTables(pg), InitProcs PROVE TablesOK
  BY Zenon DEF Init
<1>1. \A p \in Procs : /\ th[p].op = "none" /\ cur[p] = "A"
                       /\ th[p].pc = IF p = InitProc THEN "user" ELSE "dead"
                       /\ sz[p] = IF p = InitProc THEN 1 ELSE 0
                       /\ state[p] = IF p = InitProc THEN "LIVE" ELSE "UNUSED"
  BY Zenon DEF InitProcs, InitTables, Idle, Dead
<1>2. \A p \in Procs : Tab(p) = <<p, "A">> /\ Alt(p) = <<p, "B">>
  BY Zenon, <1>1 DEF Tab, Alt, Other
<1>3. \A p \in Procs : /\ Mapped(Tab(p)) = IF p = InitProc THEN {0} ELSE {}
                       /\ Mapped(Alt(p)) = {}
  BY <1>2, SizeAssumption, PagesAssumption DEF InitTables, Mapped, Valid, Vas, Tables
<1>4. TableOK(InitProc)
  <2>1. InitProc \in Procs /\ 0 .. 1-1 = {0}
    BY ProcsAssumption
  <2>2. OwnPages(th[InitProc], 1) = 0 .. 1-1 /\ AltPages(th[InitProc]) = {}
    BY Zenon, <1>1, <2>1, PagesAtRest
  <2> QED BY Zenon, <1>1, <1>3, <2>1, <2>2 DEF TableOK
<1>5. \A p \in Procs : p # InitProc => SlotOK(p)
  BY Zenon, <1>1, <1>3 DEF SlotOK
<1> QED BY Zenon, <1>1, <1>4, <1>5 DEF TablesOK, Unclaimed, At

\* Every step of every thread keeps TablesOK.
LEMMA TablesInductive == Control /\ Control' /\ LocalsOK /\ TablesOK /\ [Next]_vars => TablesOK'
<1> SUFFICES ASSUME Control, Control', LocalsOK, TablesOK, [Next]_vars PROVE TablesOK'
  BY Zenon
<1>1. CASE UNCHANGED vars
  BY Zenon, <1>1, SameTablesOK DEF vars
<1>2. CASE Halted
  BY Zenon, <1>2, SameTablesOK DEF Halted, vars
<1>3. ASSUME NEW p \in Procs, Step(p) PROVE TablesOK'
  <2>1. ASSUME NEW va \in Vas, NEW v \in Values, Store(p, va, v) PROVE TablesOK'
    BY Zenon, <2>1, SameTablesOK DEF Store
  <2>2. ASSUME NEW va \in Vas, StoreFault(p, va) PROVE TablesOK'
    BY Zenon, <2>2, FaultEntryTables
  <2>3. CASE Syscall(p)
    BY Zenon, <2>3, FaultEntryTables, LoopEntryTables, ChildEntryTables DEF Syscall
  <2>4. CASE Exit(p)
    BY Zenon, <2>4, ExitTables
  <2>5. CASE KernelStep(p)
    <3>1. CASE CowRefcount(p) \/ CowOwn(p) \/ CowKalloc(p) \/ CowCopy(p)
      BY Zenon, <3>1, CowTables
    <3>2. CASE CopyoutStore(p) \/ CopyoutFail(p)
      BY Zenon, <3>2, CopyoutTables
    <3>3. CASE Kfree(p) \/ KfreeEnd(p)
      BY Zenon, <3>3, KfreeTables
    <3>4. CASE UnmapPage(p) \/ Unmapped(p) \/ Grown(p) \/ ExecCommit(p)
      BY Zenon, <3>4, UnmapTables, LoopEndTables, ExecCommitTables
    <3>5. CASE AllocPage(p) \/ MapPage(p) \/ MapFail(p) \/ ExecBad(p)
      BY Zenon, <3>5, AllocTables
    <3>6. CASE DupPage(p) \/ DupFail(p) \/ DupIncref(p) \/ Forked(p)
      BY Zenon, <3>6, DupTables, DupFailTables, ForkedTables
    <3> QED BY Zenon, <2>5, <3>1, <3>2, <3>3, <3>4, <3>5, <3>6 DEF KernelStep
  <2> QED BY Zenon, <1>3, <2>1, <2>2, <2>3, <2>4, <2>5 DEF Step
<1> QED BY Zenon, <1>1, <1>2, <1>3 DEF Next

\* What the panics of the memory system would need.
PanicsOK == /\ panicked \in {"", "init exiting", "freewalk: leaf"}
            /\ TableStart \subseteq {0} => NoVmPanic

\* uvmunmap() meets no hole and mappages() no valid PTE, ...
LEMMA LoopPanics ==
  ASSUME Control, TablesOK, NEW p \in Procs, PanicsOK, UnmapPage(p) \/ MapPage(p)
  PROVE  PanicsOK'
<1>1. InLoop(th[p])
  BY Zenon DEF UnmapPage, MapPage, At, InLoop, Mapping, Unmapping
<1>2. /\ th[p].i \in Nat /\ th[p].lim \in Nat /\ th[p].lim <= NVa
  BY Zenon, <1>1, LoopCounters
<1>3. Valid(ppn[Target(p)]) = LoopPages(th[p])
  BY Zenon, <1>1, LoopTable
<1>4. CASE UnmapPage(p)
  <2>1. th[p].pc = "unmap" /\ th[p].i < th[p].lim
    BY Zenon, <1>4 DEF UnmapPage, At
  <2>2. th[p].i \in Rest(th[p]) /\ ~Mapping(th[p])
    BY <1>2, <2>1 DEF Rest, Mapping
  <2>3. th[p].i \in LoopPages(th[p])
    BY Zenon, <2>2 DEF LoopPages
  <2>4. ppn[Target(p)][th[p].i] # None
    BY Zenon, <1>3, <2>3 DEF Valid
  <2> QED BY Zenon, <1>4, <2>4 DEF UnmapPage, PanicsOK, NoVmPanic
<1>5. CASE MapPage(p)
  <2>1. th[p].pc = "map"
    BY Zenon, <1>5 DEF MapPage, At
  <2>2. LoopPages(th[p]) = 0 .. th[p].i-1
    BY Zenon, <2>1 DEF LoopPages, Mapping
  <2>3. th[p].i \notin LoopPages(th[p])
    BY <1>2, <2>2
  <2>4. th[p].i \in Vas
    <3>1. th[p].i < th[p].lim
      BY Zenon, <2>1 DEF Control, ThreadsOK, ThreadOK, Mapping
    <3> QED BY <1>2, <3>1, SizeAssumption DEF Vas
  <2>5. ppn[Target(p)][th[p].i] = None
    BY Zenon, <1>3, <2>3, <2>4 DEF Valid
  <2> QED BY Zenon, <1>5, <2>5 DEF MapPage, Remap, PanicsOK, NoVmPanic
<1> QED BY Zenon, <1>4, <1>5

\* ... uvmcopy() finds every page of the parent and none in the child, and a failed fork()
\* finds a leaf only if it failed behind the first page-table page.
LEMMA ForkPanics ==
  ASSUME Control, TablesOK, NEW p \in Procs, PanicsOK, DupPage(p) \/ DupFail(p)
  PROVE  PanicsOK'
<1>1. th[p].op = "fork" /\ th[p].pc = "dup" /\ th[p].i < th[p].lim
  BY Zenon DEF Control, ThreadsOK, ThreadOK, DupPage, DupFail, At
<1>2. /\ th[p].lim = sz[p] /\ th[p].i \in Nat /\ sz[p] \in 0 .. NVa
      /\ Valid(ppn[Tab(p)]) = 0 .. sz[p]-1 /\ Valid(ppn[Tab(th[p].np)]) = 0 .. th[p].i-1
  BY Zenon, <1>1, ForkTable DEF Mapped
<1>3. th[p].i \in Vas /\ th[p].i \in 0 .. sz[p]-1 /\ th[p].i \notin 0 .. th[p].i-1
  BY <1>1, <1>2, SizeAssumption DEF Vas
<1>4. ppn[Tab(p)][th[p].i] # None /\ ppn[Tab(th[p].np)][th[p].i] = None
  BY Zenon, <1>2, <1>3 DEF Valid
<1>5. CASE DupPage(p)
  BY Zenon, <1>4, <1>5 DEF DupPage, Remap, PanicsOK, NoVmPanic
<1>6. CASE DupFail(p)
  <2>1. panicked' \in {panicked, "freewalk: leaf"}
    BY Zenon, <1>6 DEF DupFail, Panic
  <2>2. ASSUME TableStart \subseteq {0} PROVE panicked' = panicked
    <3>1. th[p].i = 0
      BY Zenon, <1>6, <2>2 DEF DupFail
    <3>2. Valid(ppn[Tab(th[p].np)]) = {}
      BY <1>2, <3>1
    <3>3. ~\E x \in Vas : ppn[Tab(th[p].np)][x] # None
      BY Zenon, <3>2 DEF Valid
    <3> QED BY Zenon, <1>6, <3>3 DEF DupFail
  <2> QED BY Zenon, <2>1, <2>2 DEF PanicsOK, NoVmPanic
<1> QED BY Zenon, <1>5, <1>6

\* No other step panics, except exit() of the first process.
LEMMA PanicsInductive == Control /\ TablesOK /\ PanicsOK /\ [Next]_vars => PanicsOK'
<1> SUFFICES ASSUME Control, TablesOK, PanicsOK, [Next]_vars PROVE PanicsOK'
  BY Zenon
<1>0. ASSUME UNCHANGED panicked PROVE PanicsOK'
  BY Zenon, <1>0 DEF PanicsOK, NoVmPanic
<1>1. CASE UNCHANGED vars \/ Halted
  BY Zenon, <1>0, <1>1 DEF Halted, vars
<1>2. ASSUME NEW p \in Procs, Step(p) PROVE PanicsOK'
  <2>1. CASE Exit(p)
    BY Zenon, <1>0, <2>1 DEF Exit, Panic, PanicsOK, NoVmPanic
  <2>2. CASE \/ \E va \in Vas, v \in Values : Store(p, va, v)
             \/ \E va \in Vas : StoreFault(p, va)
             \/ Syscall(p)
    BY Zenon, <1>0, <2>2 DEF Store, StoreFault, Syscall, Write, Grow, Shrink, Exec, Fork, Wait, WaitStatus,
                      FoundZombie
  <2>3. CASE \/ CowRefcount(p) \/ CowOwn(p) \/ CowKalloc(p) \/ CowCopy(p)
             \/ CopyoutStore(p) \/ CopyoutFail(p) \/ Kfree(p) \/ KfreeEnd(p)
    BY Zenon, <1>0, <2>3 DEF CowRefcount, CowOwn, CowKalloc, CowCopy, CopyoutStore, CopyoutFail, Kfree,
                      KfreeEnd
  <2>4. CASE \/ Unmapped(p) \/ AllocPage(p) \/ MapFail(p) \/ Grown(p) \/ ExecBad(p)
             \/ ExecCommit(p) \/ DupIncref(p) \/ Forked(p)
    BY Zenon, <1>0, <2>4 DEF Unmapped, AllocPage, MapFail, Grown, ExecBad, ExecCommit, DupIncref, Forked
  <2>5. CASE UnmapPage(p) \/ MapPage(p)
    BY Zenon, <2>5, LoopPanics
  <2>6. CASE DupPage(p) \/ DupFail(p)
    BY Zenon, <2>6, ForkPanics
  <2> QED BY Zenon, <1>2, <2>1, <2>2, <2>3, <2>4, <2>5, <2>6 DEF Step, KernelStep
<1> QED BY Zenon, <1>1, <1>2 DEF Next
=============================================================================
