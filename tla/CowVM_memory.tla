----------------------------- MODULE CowVM_memory -----------------------------
(***************************************************************************)
(* Layer 4 of the proofs about CowVM: what user programs see.  A step of   *)
(* one process changes the memory of no other, the steps of the copy-on-   *)
(* write machinery change the memory of none, and fork() copies it at one  *)
(* instant: CowVM implements AddressSpaces.                                *)
(***************************************************************************)
EXTENDS CowVM_control

-----------------------------------------------------------------------------
(* What a step of p leaves alone.                                          *)

Frame(p) ==
  /\ ~At(p, "dead") /\ Within(p)
  /\ \A q \in Procs : q \notin Slots(p) =>
       th'[q] = th[q] /\ sz'[q] = sz[q] /\ (state'[q] = "LIVE" <=> state[q] = "LIVE")
  /\ \A q \in Slots(p) : q # p =>
       state[q] # "LIVE" /\ (state'[q] = "LIVE" => Forked(p)) /\ th'[q].op = "none"

\* A child that is being forked or reaped is not live and does nothing.
LEMMA ChildIdle ==
  ASSUME Control, NEW p \in Procs, NEW q \in Slots(p), q # p
  PROVE  q \in Procs /\ state[q] # "LIVE" /\ th[q].op = "none"
<1>1. th[p].op \in {"fork", "wait"} /\ q = th[p].np
  BY Zenon DEF Slots
<1>2. q \in Procs /\ At(q, "dead")
  BY Zenon, <1>1, ChildIsOther
<1>3. ThreadOK(th[q])
  BY Zenon, <1>2 DEF Control, ThreadsOK
<1> QED BY Zenon, <1>2, <1>3 DEF Control, OwnersOK, ThreadOK, At

\* Steps that touch neither a table nor a process table entry.
LEMMA QuietFrame ==
  ASSUME Control, NEW p \in Procs, ~At(p, "dead"), Within(p),
         \A q \in Procs : q # p => th'[q] = th[q],
         \A q \in Procs : q \notin Slots(p) => sz'[q] = sz[q],
         \A q \in Procs : q # p => (state'[q] = "LIVE" <=> state[q] = "LIVE")
  PROVE  Frame(p)
<1>1. \A q \in Procs : q \notin Slots(p) => q # p
  BY Zenon DEF Slots
<1>2. ASSUME NEW q \in Slots(p), q # p
      PROVE  state[q] # "LIVE" /\ (state'[q] = "LIVE" => Forked(p)) /\ th'[q].op = "none"
  BY Zenon, <1>2, ChildIdle
<1> QED BY Zenon, <1>1, <1>2 DEF Frame

\* A step that only replaces the record of its thread.
LEMMA MoveFrame ==
  ASSUME Control, NEW p \in Procs, ~At(p, "dead"), NEW x, Becomes(p, x),
         UNCHANGED <<ppn, perm, cur, sz, state>>
  PROVE  Frame(p)
<1>1. \A q \in Procs : q # p => th'[q] = th[q]
  BY Zenon, NewRecord
<1>2. Within(p)
  BY Zenon DEF Within
<1> QED BY Zenon, <1>1, <1>2, QuietFrame

\* System calls and faults as they enter the kernel.
LEMMA EntryFrame ==
  ASSUME Control, NEW p \in Procs,
         (\E va \in Vas : StoreFault(p, va)) \/ Syscall(p)
  PROVE  Frame(p)
<1>1. ~At(p, "dead")
  BY Zenon DEF StoreFault, Syscall, Write, Grow, Shrink, Exec, Fork, Wait, WaitStatus, FoundZombie,
               InUser, At
<1>2. ASSUME NEW c \in Procs, Fork(p, c) PROVE Frame(p)
  <2>1. /\ \E x : Becomes(p, x)
        /\ UNCHANGED <<ppn, perm, cur, sz>> /\ state[c] = "UNUSED"
        /\ state' = [state EXCEPT ![c] = "USED"]
    BY Zenon, <1>2 DEF Fork, tabvars
  <2>2. \A q \in Procs : state'[q] = "LIVE" <=> state[q] = "LIVE"
    BY Zenon, <2>1, TypeParts DEF Control, ProcType
  <2>3. Within(p)
    BY Zenon, <2>1 DEF Within
  <2>4. \A q \in Procs : q # p => th'[q] = th[q]
    BY Zenon, <2>1, NewRecord
  <2> QED BY Zenon, <1>1, <2>1, <2>2, <2>3, <2>4, QuietFrame
<1>3. CASE ~\E c \in Procs : Fork(p, c)
  <2>1. UNCHANGED <<ppn, perm, cur, sz, state>>
    BY Zenon, <1>3 DEF StoreFault, Syscall, Write, Grow, Shrink, Exec, Wait, WaitStatus, FoundZombie,
                tabvars, procvars
  <2>2. \E x : Becomes(p, x)
    BY Zenon, <1>3 DEF StoreFault, Syscall, Write, Grow, Shrink, Exec, Wait, WaitStatus, CopyoutEntry
  <2> QED BY Zenon, <1>1, <2>1, <2>2, MoveFrame
<1> QED BY Zenon, <1>2, <1>3

-----------------------------------------------------------------------------
(* The PTEs a step of p changes.                                           *)

PteStep(p) == \A x \in Places :
  \/ PageAt(x)' = PageAt(x) /\ ("COW" \in PermAt(x)' => "COW" \in PermAt(x) \/ th[p].op = "fork")
  \/ Unmapping(th[p]) /\ x = <<Target(p), th[p].i>> /\ PageAt(x)' = None
  \/ /\ \/ th[p].pc = "cow_copy" /\ x = <<Tab(p), th[p].i>>
        \/ th[p].pc = "map" /\ x = <<Target(p), th[p].i>>
     /\ PageAt(x)' = th[p].new /\ "COW" \notin PermAt(x)'
  \/ /\ th[p].op = "fork" /\ x[1] = Tab(th[p].np) /\ th[p].i \in Vas
     /\ PageAt(x)' = PageAt(<<Tab(p), th[p].i>>)

\* A step that changes no PTE.
LEMMA SamePtes ==
  ASSUME NEW p \in Procs, UNCHANGED <<ppn, perm>>
  PROVE  PteStep(p)
BY Zenon DEF PteStep, PageAt, PermAt

\* A step that writes one PTE of a table of its own.
LEMMA WriteFrame ==
  ASSUME Control, NEW p \in Procs, ~At(p, "dead"), NEW t \in Tables, t[1] \in Slots(p),
         NEW va \in Vas, NEW pg, NEW fl, SetPte(t, va, pg, fl),
         \A q \in Procs : q # p => th'[q] = th[q], UNCHANGED <<cur, sz, state>>
  PROVE  /\ Frame(p) /\ <<t, va>> \in Places
         /\ PageAt(<<t, va>>)' = pg /\ PermAt(<<t, va>>)' = fl
         /\ \A x \in Places : x # <<t, va>> => PageAt(x)' = PageAt(x) /\ PermAt(x)' = PermAt(x)
<1>1. /\ <<t, va>> \in Places
      /\ \A x \in Places : /\ PageAt(x)' = IF x = <<t, va>> THEN pg ELSE PageAt(x)
                           /\ PermAt(x)' = IF x = <<t, va>> THEN fl ELSE PermAt(x)
      /\ \A u \in Tables : u # t => ppn'[u] = ppn[u] /\ perm'[u] = perm[u]
  BY Zenon, PteUpdate, TypeParts DEF Control
<1>2. Within(p)
  BY ZenonT(60), <1>1, WithinTable
<1>3. Frame(p)
  BY Zenon, <1>2, QuietFrame
<1> QED BY Zenon, <1>1, <1>3

\* handle_cow_fault() and copyout().
LEMMA CowFrame ==
  ASSUME Control, NEW p \in Procs,
         \/ CowRefcount(p) \/ CowOwn(p) \/ CowKalloc(p) \/ CowCopy(p)
         \/ CopyoutStore(p) \/ CopyoutFail(p)
  PROVE  Frame(p) /\ PteStep(p)
<1>a. ~At(p, "dead")
  BY Zenon DEF CowRefcount, CowOwn, CowKalloc, CowCopy, CopyoutStore, CopyoutFail, At
<1>b. Tab(p) \in Tables /\ Tab(p)[1] = p /\ p \in Slots(p)
  BY Zenon, TypeParts, TablesOf DEF Control, Slots, Tab
<1>c. ThreadOK(th[p]) /\ th[p] \in Thread /\ TabType
  BY Zenon, TypeParts DEF Control, ThreadsOK
<1>1. /\ ~At(p, "dead") /\ Tab(p) \in Tables /\ Tab(p)[1] = p /\ p \in Slots(p)
      /\ ThreadOK(th[p]) /\ th[p] \in Thread /\ TabType
  BY Zenon, <1>a, <1>b, <1>c
<1>2. CASE CowRefcount(p) \/ CowKalloc(p) \/ CopyoutStore(p) \/ CopyoutFail(p)
  <2>1. UNCHANGED <<ppn, perm, cur, sz, state>>
    BY Zenon, <1>2 DEF CowRefcount, CowKalloc, CopyoutStore, CopyoutFail, tabvars, procvars
  <2>2. \E x : Becomes(p, x)
    BY Zenon, <1>2 DEF CowRefcount, CowKalloc, CopyoutStore, CopyoutFail, Goto, CowFail, GotoUnmap, ReturnToUser
  <2> QED BY Zenon, <1>1, <2>1, <2>2, MoveFrame, SamePtes
<1>3. CASE CowOwn(p)
  <2>1. /\ th[p].i \in Vas /\ UNCHANGED <<ppn, cur, sz, state>> /\ CowDone(p)
        /\ perm' = [perm EXCEPT ![Tab(p)][th[p].i] = MadeWritable(@)]
    BY Zenon, <1>1, <1>3 DEF CowOwn, At, ThreadOK, InFault, CowPCs, procvars
  <2>2. \A x \in Places : /\ PageAt(x)' = PageAt(x)
                          /\ "COW" \in PermAt(x)' => "COW" \in PermAt(x)
    BY Zenon, <1>1, <2>1 DEF PageAt, PermAt, TabType, MadeWritable, Places
  <2>3. \A u \in Tables : u # Tab(p) => ppn'[u] = ppn[u] /\ perm'[u] = perm[u]
    BY Zenon, <1>1, <2>1 DEF TabType
  <2>4. Within(p)
    BY ZenonT(60), <1>1, <2>1, <2>3, WithinTable
  <2>5. \A q \in Procs : q # p => th'[q] = th[q]
    BY Zenon, <2>1, CowDoneRecord
  <2>6. Frame(p)
    BY Zenon, <1>1, <2>1, <2>4, <2>5, QuietFrame
  <2> QED BY Zenon, <2>2, <2>6 DEF PteStep
<1>4. CASE CowCopy(p)
  <2> DEFINE fl == MadeWritable(perm[Tab(p)][th[p].i])
  <2>1. /\ th[p].i \in Vas /\ th[p].pc = "cow_copy" /\ SetPte(Tab(p), th[p].i, th[p].new, fl)
        /\ UNCHANGED <<cur, sz, state>>
    BY Zenon, <1>1, <1>4 DEF CowCopy, At, ThreadOK, InFault, CowPCs, procvars
  <2>2. "COW" \notin fl
    BY Zenon DEF MadeWritable
  <2>3. \A q \in Procs : q # p => th'[q] = th[q]
    BY Zenon, <1>4, NewRecord DEF CowCopy
  <2> HIDE DEF fl
  <2>4. PICK t \in Tables, va \in Vas : t = Tab(p) /\ va = th[p].i
    BY Zenon, <1>1, <2>1
  <2>5. SetPte(t, va, th[p].new, fl) /\ t[1] \in Slots(p)
    BY Zenon, <1>1, <2>1, <2>4
  <2>6. /\ Frame(p) /\ PageAt(<<t, va>>)' = th[p].new /\ PermAt(<<t, va>>)' = fl
        /\ \A x \in Places : x # <<t, va>> => PageAt(x)' = PageAt(x) /\ PermAt(x)' = PermAt(x)
    BY <1>1, <2>1, <2>3, <2>5, WriteFrame
  <2> QED BY Zenon, <2>1, <2>2, <2>4, <2>6 DEF PteStep
<1> QED BY Zenon, <1>2, <1>3, <1>4

\* uvmunmap() clears the PTE it has come to.
LEMMA ClearFrame ==
  ASSUME Control, TablesOK, NEW p \in Procs, Unmapping(th[p]), th[p].i < th[p].lim,
         ClearPte(Target(p), th[p].i), \A q \in Procs : q # p => th'[q] = th[q],
         UNCHANGED <<cur, sz, state>>
  PROVE  Frame(p) /\ PteStep(p)
<1>1. InLoop(th[p])
  BY Zenon DEF InLoop
<1>2. ~At(p, "dead") /\ Target(p) \in Tables /\ Target(p)[1] \in Slots(p) /\ th[p].i \in Vas
  BY <1>1, LoopTable, LoopCounters, SizeAssumption DEF Vas
<1>3. PICK t \in Tables, va \in Vas : t = Target(p) /\ va = th[p].i
  BY Zenon, <1>2
<1>4. SetPte(t, va, None, {}) /\ t[1] \in Slots(p)
  BY Zenon, <1>2, <1>3 DEF ClearPte
<1>5. /\ Frame(p) /\ PageAt(<<t, va>>)' = None
      /\ \A x \in Places : x # <<t, va>> => PageAt(x)' = PageAt(x) /\ PermAt(x)' = PermAt(x)
  BY Zenon, <1>2, <1>4, WriteFrame
<1> QED BY Zenon, <1>3, <1>5 DEF PteStep

\* kfree() on its way back to its caller.
LEMMA KfreeReturnFrame ==
  ASSUME Control, TablesOK, NEW p \in Procs, At(p, "kfree") \/ At(p, "kfree_push"),
         KfreeReturn(p), UNCHANGED <<cur, sz, state>>
  PROVE  Frame(p) /\ PteStep(p)
<1>1. ThreadOK(th[p]) /\ ~At(p, "dead")
  BY Zenon DEF Control, ThreadsOK, At
<1>2. th[p].ret \in {"cow", "undo", "unmap"} /\ (th[p].ret = "unmap" => Unmapping(th[p]) /\ th[p].i < th[p].lim)
  BY Zenon, <1>1 DEF ThreadOK, Unmapping, At
<1>3. CASE th[p].ret = "unmap"
  <2>1. GotoUnmap(p, th[p].i + 1, th[p].lim) /\ ClearPte(Target(p), th[p].i)
    BY Zenon, <1>3 DEF KfreeReturn
  <2>2. \A q \in Procs : q # p => th'[q] = th[q]
    BY Zenon, <2>1, UnmapRecord
  <2> QED BY Zenon, <1>2, <1>3, <2>1, <2>2, ClearFrame
<1>4. CASE th[p].ret # "unmap"
  <2>1. UNCHANGED <<ppn, perm>> /\ \E x : Becomes(p, x)
    BY Zenon, <1>2, <1>4 DEF KfreeReturn, CowDone, GotoUnmap
  <2> QED BY Zenon, <1>1, <2>1, MoveFrame, SamePtes
<1> QED BY Zenon, <1>3, <1>4

\* A panic changes nothing but the message.
LEMMA PanicFrame ==
  ASSUME Control, NEW p \in Procs, ~At(p, "dead"), UNCHANGED <<ppn, perm, cur, sz, state, th>>
  PROVE  Frame(p) /\ PteStep(p)
<1>1. Within(p)
  BY Zenon DEF Within
<1> QED BY Zenon, <1>1, QuietFrame, SamePtes

\* kfree() and uvmunmap().
LEMMA FreeFrame ==
  ASSUME Control, TablesOK, NEW p \in Procs, Kfree(p) \/ KfreeEnd(p) \/ UnmapPage(p)
  PROVE  Frame(p) /\ PteStep(p)
<1>1. ~At(p, "dead") /\ th[p] \in Thread
  BY Zenon, TypeParts DEF Control, Kfree, KfreeEnd, UnmapPage, At
<1>2. CASE Kfree(p) \/ KfreeEnd(p)
  <2>1. UNCHANGED <<cur, sz, state>>
    BY Zenon, <1>2 DEF Kfree, KfreeEnd, procvars
  <2>2. CASE KfreeReturn(p)
    BY Zenon, <1>2, <2>1, <2>2, KfreeReturnFrame DEF Kfree, KfreeEnd
  <2>3. CASE ~KfreeReturn(p)
    <3>1. UNCHANGED <<ppn, perm>> /\ \E x : Becomes(p, x)
      BY Zenon, <1>2, <2>3 DEF Kfree, KfreeEnd, Goto
    <3> QED BY Zenon, <1>1, <2>1, <3>1, MoveFrame, SamePtes
  <2> QED BY Zenon, <2>2, <2>3
<1>3. CASE UnmapPage(p)
  <2>1. CASE Panic("uvmunmap: not mapped")
    BY Zenon, <1>1, <2>1, PanicFrame DEF Panic
  <2>2. CASE ~Panic("uvmunmap: not mapped")
    <3>1. /\ UNCHANGED <<cur, sz, state>> /\ Unmapping(th[p]) /\ th[p].i < th[p].lim
          /\ \E x : Becomes(p, x)
          /\ ClearPte(Target(p), th[p].i) \/ UNCHANGED <<ppn, perm>>
      BY Zenon, <1>3, <2>2 DEF UnmapPage, procvars, Unmapping, At
    <3>2. \A q \in Procs : q # p => th'[q] = th[q]
      BY Zenon, <3>1, NewRecord
    <3>3. CASE ClearPte(Target(p), th[p].i)
      BY Zenon, <3>1, <3>2, <3>3, ClearFrame
    <3>4. CASE UNCHANGED <<ppn, perm>>
      BY Zenon, <1>1, <3>1, <3>4, MoveFrame, SamePtes
    <3> QED BY Zenon, <3>1, <3>3, <3>4
  <2> QED BY Zenon, <2>1, <2>2
<1> QED BY Zenon, <1>2, <1>3

\* uvmalloc(): the page it holds is mapped without PTE_COW.
LEMMA AllocFrame ==
  ASSUME Control, TablesOK, NEW p \in Procs, AllocPage(p) \/ MapPage(p) \/ MapFail(p) \/ ExecBad(p)
  PROVE  Frame(p) /\ PteStep(p)
<1>1. ~At(p, "dead") /\ ThreadOK(th[p])
  BY Zenon DEF Control, ThreadsOK, AllocPage, MapPage, MapFail, ExecBad, At
<1>2. CASE AllocPage(p) \/ MapFail(p) \/ ExecBad(p)
  <2>1. UNCHANGED <<ppn, perm, cur, sz, state>> /\ \E x : Becomes(p, x)
    BY Zenon, <1>2 DEF AllocPage, MapFail, ExecBad, tabvars, procvars, GotoUnmap
  <2> QED BY Zenon, <1>1, <2>1, MoveFrame, SamePtes
<1>3. CASE MapPage(p) /\ Panic("mappages: remap")
  BY Zenon, <1>1, <1>3, PanicFrame DEF Panic
<1>4. CASE MapPage(p) /\ ~Panic("mappages: remap")
  <2>1. /\ th[p].pc = "map" /\ SetPte(Target(p), th[p].i, th[p].new, MapPerm(p))
        /\ UNCHANGED <<cur, sz, state>> /\ \E x : Becomes(p, x)
    BY Zenon, <1>4 DEF MapPage, At, procvars
  <2>2. InLoop(th[p]) /\ Mapping(th[p]) /\ th[p].i < th[p].lim /\ (th[p].op = "exec" => th[p].lim <= ImageSize)
    BY Zenon, <1>1, <2>1 DEF InLoop, Mapping, ThreadOK
  <2>3. /\ Target(p) \in Tables /\ Target(p)[1] \in Slots(p) /\ th[p].i \in Vas
        /\ th[p].op = "exec" => th[p].i \in 0 .. ImageSize-1
    BY <2>2, LoopTable, LoopCounters, SizeAssumption DEF Vas
  <2>4. "COW" \notin MapPerm(p)
    BY Zenon, <2>3, ImageAssumption DEF MapPerm
  <2>5. \A q \in Procs : q # p => th'[q] = th[q]
    BY Zenon, <2>1, NewRecord
  <2>6. PICK t \in Tables, va \in Vas : t = Target(p) /\ va = th[p].i
    BY Zenon, <2>3
  <2>7. SetPte(t, va, th[p].new, MapPerm(p)) /\ t[1] \in Slots(p)
    BY Zenon, <2>1, <2>3, <2>6
  <2>8. /\ Frame(p) /\ PageAt(<<t, va>>)' = th[p].new /\ PermAt(<<t, va>>)' = MapPerm(p)
        /\ \A x \in Places : x # <<t, va>> => PageAt(x)' = PageAt(x) /\ PermAt(x)' = PermAt(x)
    BY <1>1, <2>1, <2>5, <2>7, WriteFrame
  <2> QED BY Zenon, <2>1, <2>4, <2>6, <2>8 DEF PteStep
<1> QED BY Zenon, <1>2, <1>3, <1>4

\* The end of a loop, exec()'s commit, exit() and a store.
LEMMA EndFrame ==
  ASSUME Control, TablesOK, NEW p \in Procs,
         \/ Unmapped(p) \/ Grown(p) \/ ExecCommit(p) \/ Exit(p)
         \/ \E va \in Vas, v \in Values : Store(p, va, v)
  PROVE  Frame(p) /\ PteStep(p)
<1>1. ~At(p, "dead") /\ p \in Slots(p) /\ UNCHANGED <<ppn, perm>>
  BY Zenon DEF Unmapped, Grown, ExecCommit, Exit, Panic, Store, InUser, At, Slots, tabvars
<1>2. TabType /\ ProcType
  BY Zenon, TypeParts DEF Control
<1>3. CASE \/ \E va \in Vas, v \in Values : Store(p, va, v)
           \/ Exit(p) /\ UNCHANGED <<cur, sz, state, th>>
  <2>1. UNCHANGED <<cur, sz, state, th>>
    BY Zenon, <1>3 DEF Store
  <2> QED BY Zenon, <1>1, <2>1, PanicFrame
<1>4. CASE \/ Unmapped(p) \/ Grown(p) \/ ExecCommit(p)
           \/ Exit(p) /\ ~UNCHANGED <<cur, sz, state, th>>
  <2>1. \E x : Becomes(p, x)
    <3>1. CASE Unmapped(p) \/ Grown(p)
      BY Zenon, <3>1 DEF Unmapped, Grown, ReturnToUser
    <3>2. CASE ExecCommit(p)
      BY Zenon, <3>2 DEF ExecCommit
    <3>3. CASE Exit(p) /\ ~UNCHANGED <<cur, sz, state, th>>
      BY Zenon, <3>3 DEF Exit, Panic
    <3> QED BY Zenon, <1>4, <3>1, <3>2, <3>3
  <2>2. \A q \in Procs : q # p => th'[q] = th[q]
    BY Zenon, <2>1, NewRecord
  <2>3. cur' = cur \/ cur' = [cur EXCEPT ![p] = Other(@)]
    BY Zenon, <1>4 DEF Unmapped, Grown, ExecCommit, Exit, Panic, tabvars
  <2>4. \A q \in Procs : q # p => cur'[q] = cur[q]
    BY Zenon, <1>2, <2>3 DEF TabType
  <2>5. Within(p)
    BY Zenon, <1>1, <2>4 DEF Within
  <2>6. CASE Unmapped(p) /\ th[p].op = "wait"
    <3>1. PICK c \in Procs : c = th[p].np /\ c # p
      BY Zenon, <2>6, ChildIsOther
    <3>2. c \in Slots(p) /\ state[c] # "LIVE"
      BY Zenon, <2>6, <3>1, ChildIdle DEF Slots
    <3>3. sz' = [sz EXCEPT ![c] = 0] /\ state' = [state EXCEPT ![c] = "UNUSED"]
      BY Zenon, <2>6, <3>1 DEF Unmapped
    <3>4. \A q \in Procs : (q # c => sz'[q] = sz[q]) /\ (state'[q] = "LIVE" <=> state[q] = "LIVE")
      BY Zenon, <1>2, <3>2, <3>3 DEF ProcType
    <3>5. \A q \in Procs : q \notin Slots(p) => sz'[q] = sz[q]
      BY Zenon, <3>2, <3>4
    <3> QED BY Zenon, <1>1, <2>2, <2>5, <3>4, <3>5, QuietFrame, SamePtes
  <2>7. CASE ~(Unmapped(p) /\ th[p].op = "wait")
    <3>1. /\ sz' = sz \/ \E n : sz' = [sz EXCEPT ![p] = n]
          /\ state' = state \/ \E s : state' = [state EXCEPT ![p] = s]
      BY Zenon, <1>4, <2>7 DEF Unmapped, Grown, ExecCommit, Exit, Panic, procvars
    <3>2. \A q \in Procs : q # p => sz'[q] = sz[q] /\ state'[q] = state[q]
      BY Zenon, <1>2, <3>1 DEF ProcType
    <3>3. \A q \in Procs : q \notin Slots(p) => sz'[q] = sz[q]
      BY Zenon, <1>1, <3>2
    <3> QED BY Zenon, <1>1, <2>2, <2>5, <3>2, <3>3, QuietFrame, SamePtes
  <2> QED BY Zenon, <2>6, <2>7
<1> QED BY Zenon, <1>3, <1>4

\* uvmcopy(): the child's PTE gets the parent's page.
LEMMA DupFrame ==
  ASSUME Control, TablesOK, NEW p \in Procs, DupPage(p) \/ DupIncref(p) \/ DupFail(p)
  PROVE  Frame(p) /\ PteStep(p)
<1>0. th[p] \in Thread /\ TabType /\ ProcType /\ th[p].op = "fork"
  BY Zenon, TypeParts DEF Control, ThreadsOK, ThreadOK, DupPage, DupIncref, DupFail, At
<1>1. PICK c \in Procs : c = th[p].np /\ c # p
  BY Zenon, <1>0, ChildIsOther
<1>2. /\ ~At(p, "dead") /\ Slots(p) = {p, c} /\ th[p].lim = sz[p] /\ th[p].i \in Nat
      /\ sz[p] \in 0 .. NVa
  BY Zenon, <1>0, <1>1, ForkTable
<1>3. Tab(c) \in Tables /\ Tab(p) \in Tables /\ Tab(c)[1] = c /\ Tab(p)[1] = p
  BY Zenon, <1>0, TablesOf DEF Tab
<1>4. CASE DupIncref(p)
  <2>1. UNCHANGED <<ppn, perm, cur, sz, state>> /\ \E x : Becomes(p, x)
    BY Zenon, <1>4 DEF DupIncref, tabvars, procvars
  <2> QED BY Zenon, <1>2, <2>1, MoveFrame, SamePtes
<1>5. CASE DupPage(p) \/ DupFail(p)
  <2>1. CASE UNCHANGED <<ppn, perm, cur, sz, state, th>>
    BY Zenon, <1>2, <2>1, PanicFrame
  <2>2. CASE ~UNCHANGED <<ppn, perm, cur, sz, state, th>>
    <3> DEFINE va == th[p].i
    <3>a. (\E x : Becomes(p, x)) /\ UNCHANGED <<cur, sz>>
      BY Zenon, <1>5, <2>2 DEF DupPage, DupFail, Panic, ReturnToUser, procvars
    <3>b. th[p].i < th[p].lim
      BY Zenon, <1>5 DEF DupPage, DupFail
    <3>1. va \in Vas /\ (\E x : Becomes(p, x)) /\ UNCHANGED <<cur, sz>>
      BY <1>2, <3>a, <3>b, SizeAssumption DEF Vas
    <3>2. \A q \in Procs : q # p => th'[q] = th[q]
      BY Zenon, <3>1, NewRecord
    <3>3. CASE DupPage(p)
      <4>1. /\ ppn' = [ppn EXCEPT ![Tab(c)][va] = ppn[Tab(p)][va]] /\ UNCHANGED state
            /\ perm' = [perm EXCEPT ![Tab(p)][va] = SharedPerm(perm[Tab(p)][va]),
                                    ![Tab(c)][va] = SharedPerm(perm[Tab(p)][va])]
        BY Zenon, <1>1, <2>2, <3>3 DEF DupPage, Panic, procvars
      <4>2. /\ \A u \in Tables : u # Tab(c) => ppn'[u] = ppn[u]
            /\ \A w \in Vas : ppn'[Tab(c)][w] = IF w = va THEN ppn[Tab(p)][va] ELSE ppn[Tab(c)][w]
            /\ \A u \in Tables : u \notin {Tab(p), Tab(c)} => perm'[u] = perm[u]
        BY Zenon, <1>0, <1>3, <3>1, <4>1 DEF TabType
      <4>3. Within(p)
        BY Zenon, <1>2, <1>3, <3>1, <4>2 DEF Within
      <4>4. Frame(p)
        BY Zenon, <1>2, <3>1, <3>2, <4>1, <4>3, QuietFrame
      <4>5. ASSUME NEW x \in Places
            PROVE  \/ PageAt(x)' = PageAt(x)
                   \/ x[1] = Tab(th[p].np) /\ PageAt(x)' = PageAt(<<Tab(p), va>>)
        BY ZenonT(30), <1>1, <4>2 DEF PageAt, Places
      <4> QED BY Zenon, <1>0, <3>1, <4>4, <4>5 DEF PteStep
    <3>4. CASE DupFail(p)
      <4>1. /\ UNCHANGED ppn /\ perm' = [perm EXCEPT ![Tab(p)][va] = SharedPerm(@)]
            /\ state' = [state EXCEPT ![c] = "UNUSED"]
        BY Zenon, <1>1, <2>2, <3>4 DEF DupFail, Panic
      <4>2. \A u \in Tables : u # Tab(p) => perm'[u] = perm[u]
        BY Zenon, <1>0, <1>3, <3>1, <4>1 DEF TabType
      <4>3. Within(p)
        BY Zenon, <1>2, <1>3, <3>1, <4>1, <4>2 DEF Within
      <4>4. state[c] # "LIVE"
        BY Zenon, <1>1, <1>2, ChildIdle
      <4>5. \A q \in Procs : state'[q] = "LIVE" <=> state[q] = "LIVE"
        BY Zenon, <1>0, <4>1, <4>4 DEF ProcType
      <4>6. Frame(p)
        BY Zenon, <1>2, <3>1, <3>2, <4>3, <4>5, QuietFrame
      <4> QED BY Zenon, <1>0, <4>1, <4>6 DEF PteStep, PageAt
    <3> QED BY Zenon, <1>5, <3>3, <3>4
  <2> QED BY Zenon, <2>1, <2>2
<1> QED BY Zenon, <1>4, <1>5

\* The child comes to life.
LEMMA ForkedFrame ==
  ASSUME Control, TablesOK, NEW p \in Procs, Forked(p)
  PROVE  Frame(p) /\ PteStep(p)
<1>0. th[p].op = "fork" /\ ProcType
  BY Zenon, TypeParts DEF Control, ThreadsOK, ThreadOK, Forked, At
<1>1. PICK c \in Procs : c = th[p].np /\ c # p
  BY Zenon, <1>0, ChildIsOther
<1>2. ~At(p, "dead") /\ Slots(p) = {p, c}
  BY Zenon, <1>0, <1>1, ForkTable
<1>3. /\ sz' = [sz EXCEPT ![c] = sz[p]] /\ state' = [state EXCEPT ![c] = "LIVE"]
      /\ th' = [th EXCEPT ![p] = Idle, ![c] = Idle] /\ UNCHANGED <<ppn, perm, cur>>
  BY Zenon, <1>1 DEF Forked, tabvars
<1>4. th'[c] = Idle /\ \A q \in Procs : q \notin {p, c} => th'[q] = th[q]
  BY ZenonT(40), <1>1, <1>3 DEF Control, TypeOK
<1>5. \A q \in Procs : q # c => sz'[q] = sz[q] /\ state'[q] = state[q]
  BY Zenon, <1>0, <1>1, <1>3 DEF ProcType
<1>6. Within(p) /\ Idle.op = "none" /\ state[c] # "LIVE"
  BY Zenon, <1>1, <1>2, <1>3, ChildIdle DEF Within, Idle
<1> QED BY Zenon, <1>1, <1>2, <1>3, <1>4, <1>5, <1>6, SamePtes DEF Frame

\* Every step keeps to its slots and changes PTEs in one of the ways above.
LEMMA StepFrame ==
  ASSUME Control, TablesOK, NEW p \in Procs, Step(p)
  PROVE  Frame(p) /\ PteStep(p)
<1>1. CASE (\E va \in Vas : StoreFault(p, va)) \/ Syscall(p)
  <2>1. UNCHANGED <<ppn, perm>>
    BY Zenon, <1>1 DEF StoreFault, Syscall, Write, Grow, Shrink, Exec, Fork, Wait, WaitStatus,
                       FoundZombie, tabvars
  <2> QED BY Zenon, <1>1, <2>1, EntryFrame, SamePtes
<1>2. CASE KernelStep(p)
  BY Zenon, <1>2, CowFrame, FreeFrame, AllocFrame, EndFrame, DupFrame, ForkedFrame DEF KernelStep
<1>3. CASE (\E va \in Vas, v \in Values : Store(p, va, v)) \/ Exit(p)
  BY Zenon, <1>3, EndFrame
<1> QED BY Zenon, <1>1, <1>2, <1>3 DEF Step

-----------------------------------------------------------------------------
(* An image that exec() builds is nobody else's.                           *)

\* No PTE maps a page that handle_cow_fault() or uvmalloc() has just been given.
LEMMA NewPage ==
  ASSUME Control, PagesOK, NEW p \in Procs, th[p].pc \in {"cow_copy", "map"}
  PROVE  th[p].new \in Pages /\ \A x \in Places : PageAt(x) # th[p].new
BY Zenon DEF Control, ThreadsOK, ThreadOK, PagesOK

\* A thread that changes some of its locals stays in its operation.
LEMMA SameOp ==
  ASSUME Control, NEW p \in Procs,
         \/ \E l : Becomes(p, [th[p] EXCEPT !.pc = l])
         \/ \E a, l : Becomes(p, [th[p] EXCEPT !.new = a, !.pc = l])
         \/ \E l, r : Becomes(p, [th[p] EXCEPT !.pc = l, !.ret = r])
         \/ \E n : Becomes(p, [th[p] EXCEPT !.i = n])
         \/ \E l, a, r : Becomes(p, [th[p] EXCEPT !.pc = l, !.pa = a, !.ret = r])
         \/ \E l, n, a : Becomes(p, [th[p] EXCEPT !.pc = l, !.i = n, !.new = a])
         \/ \E l, r, a, b : Becomes(p, [th[p] EXCEPT !.pc = l, !.ret = r, !.pa = a, !.new = b])
         \/ \E l, a : Becomes(p, [th[p] EXCEPT !.pc = l, !.pa = a])
         \/ \E l, n, a : Becomes(p, [th[p] EXCEPT !.pc = l, !.i = n, !.pa = a])
  PROVE  th'[p].op = th[p].op
<1>1. th[p] \in Thread
  BY Zenon, TypeParts DEF Control
<1>2. ASSUME NEW x, Becomes(p, x), x.op = th[p].op PROVE th'[p].op = th[p].op
  BY Zenon, <1>2, NewRecord
<1> QED BY ZenonT(40), <1>1, <1>2 DEF Thread

\* A kernel step stays in its operation, ends it, or passes exec()'s point of commit.
LEMMA KernelOp ==
  ASSUME Control, NEW p \in Procs, KernelStep(p)
  PROVE  IF ExecCommit(p) THEN th'[p].op = "execold" ELSE th'[p].op \in {th[p].op, "none"}
<1>0. CASE ExecCommit(p)
  <2> DEFINE x == [Idle EXCEPT !.pc = "unmap", !.op = "execold", !.lim = sz[p]]
  <2>1. x.op = "execold" /\ Becomes(p, x)
    BY Zenon, <1>0 DEF ExecCommit, Idle
  <2> HIDE DEF x
  <2> QED BY Zenon, <1>0, <2>1, NewRecord
<1> SUFFICES ASSUME ~ExecCommit(p) PROVE th'[p].op \in {th[p].op, "none"}
  BY Zenon, <1>0
<1>1. CASE \/ CowRefcount(p) \/ CowCopy(p) \/ MapFail(p) \/ DupIncref(p)
           \/ UnmapPage(p) \/ MapPage(p) \/ DupPage(p)
  <2>1. CASE UNCHANGED th
    BY Zenon, <2>1
  <2>2. CASE ~UNCHANGED th
    <3>1. \/ \E l : Becomes(p, [th[p] EXCEPT !.pc = l])
          \/ \E l, r : Becomes(p, [th[p] EXCEPT !.pc = l, !.ret = r])
          \/ \E n : Becomes(p, [th[p] EXCEPT !.i = n])
          \/ \E l, a, r : Becomes(p, [th[p] EXCEPT !.pc = l, !.pa = a, !.ret = r])
          \/ \E l, n, a : Becomes(p, [th[p] EXCEPT !.pc = l, !.i = n, !.new = a])
          \/ \E l, r, a, b : Becomes(p, [th[p] EXCEPT !.pc = l, !.ret = r, !.pa = a, !.new = b])
          \/ \E l, a : Becomes(p, [th[p] EXCEPT !.pc = l, !.pa = a])
          \/ \E l, n, a : Becomes(p, [th[p] EXCEPT !.pc = l, !.i = n, !.pa = a])
      BY ZenonT(40), <1>1, <2>2 DEF CowRefcount, CowCopy, MapFail, DupIncref, UnmapPage, MapPage,
                                   DupPage, Goto, Panic
    <3> QED BY Zenon, <3>1, SameOp
  <2> QED BY Zenon, <2>1, <2>2
<1>2. CASE CowOwn(p) \/ CowKalloc(p) \/ CopyoutStore(p) \/ CopyoutFail(p)
  <2>1. \/ CowDone(p) \/ CowFail(p) \/ ReturnToUser(p)
        \/ \E lo, hi : GotoUnmap(p, lo, hi)
        \/ \E a, l : Becomes(p, [th[p] EXCEPT !.new = a, !.pc = l])
    BY Zenon, <1>2 DEF CowOwn, CowKalloc, CopyoutStore, CopyoutFail
  <2> QED BY Zenon, <2>1, SameOp, CowDoneRecord, CowFailRecord, UserRecord, UnmapRecord
<1>3. CASE Kfree(p) \/ KfreeEnd(p) \/ AllocPage(p) \/ ExecBad(p)
  <2>0. (At(p, "kfree") \/ At(p, "kfree_push")) => th[p].ret \in {"cow", "undo", "unmap"}
    BY Zenon DEF Control, ThreadsOK, ThreadOK, At
  <2>1. \/ CowDone(p) \/ \E lo, hi : GotoUnmap(p, lo, hi)
        \/ \E l : Becomes(p, [th[p] EXCEPT !.pc = l])
        \/ \E a, l : Becomes(p, [th[p] EXCEPT !.new = a, !.pc = l])
    BY Zenon, <1>3, <2>0 DEF Kfree, KfreeEnd, KfreeReturn, AllocPage, ExecBad, Goto
  <2> QED BY Zenon, <2>1, SameOp, CowDoneRecord, UnmapRecord
<1>4. CASE Unmapped(p) \/ Grown(p)
  BY Zenon, <1>4, UserRecord DEF Unmapped, Grown
<1>5. CASE DupFail(p)
  BY Zenon, <1>5, UserRecord DEF DupFail, Panic
<1>6. CASE Forked(p)
  <2>1. th' = [th EXCEPT ![p] = Idle, ![th[p].np] = Idle]
    BY Zenon, <1>6 DEF Forked
  <2>2. th'[p] = Idle
    BY ZenonT(40), <2>1 DEF Control, TypeOK
  <2>3. Idle.op = "none"
    BY Zenon DEF Idle
  <2> QED BY Zenon, <2>2, <2>3
<1> QED BY Zenon, <1>1, <1>2, <1>3, <1>4, <1>5, <1>6 DEF KernelStep

\* The operation a step of p leaves it in: a kernel step is described above, a store and a
\* panic change nothing, and a system call or a fault enters its operation.
LEMMA StepOp ==
  ASSUME Control, NEW p \in Procs, Step(p)
  PROVE  \/ KernelStep(p)
         \/ UNCHANGED <<th, cur>>
         \/ Exec(p) /\ th'[p].op = "exec"
         \/ \E n \in 0 .. NVa : Shrink(p, n) /\ th'[p].op = "shrink"
         \/ \E c \in Procs : Fork(p, c) /\ th'[p].op = "fork" /\ th'[p].np = c
         \/ th'[p].op \in {"none", "store", "write", "wait", "grow"}
<1>1. CASE \E va \in Vas, v \in Values : Store(p, va, v)
  BY Zenon, <1>1 DEF Store
<1>2. CASE Exit(p)
  <2>1. CASE UNCHANGED <<th, cur>>
    BY Zenon, <2>1
  <2>2. CASE ~UNCHANGED <<th, cur>>
    <3>1. Becomes(p, Dead)
      BY Zenon, <1>2, <2>2 DEF Exit, Panic, tabvars
    <3>2. Dead.op = "none"
      BY Zenon DEF Dead, Idle
    <3> QED BY Zenon, <3>1, <3>2, NewRecord
  <2> QED BY Zenon, <2>1, <2>2
<1>3. CASE \E va \in Vas : StoreFault(p, va)
  <2>1. PICK va \in Vas : StoreFault(p, va)
    BY Zenon, <1>3
  <2> DEFINE x == CowEntry(p, va, "store", None, None)  y == [Idle EXCEPT !.pc = "exit"]
  <2>2. x.op = "store" /\ y.op = "none" /\ (Becomes(p, x) \/ Becomes(p, y))
    BY Zenon, <2>1 DEF StoreFault, CowEntry, Idle
  <2> HIDE DEF x, y
  <2> QED BY Zenon, <2>2, NewRecord
<1>4. CASE Syscall(p)
  <2>1. CASE \/ \E va \in Vas, v \in Values : Write(p, va, v)
             \/ \E c \in Procs, va \in Vas, v \in Values : WaitStatus(p, c, va, v)
    BY <2>1, EntryRecord DEF Write, WaitStatus
  <2>2. ASSUME NEW n \in 0 .. NVa, Grow(p, n) PROVE th'[p].op = "grow"
    <3> DEFINE x == [Idle EXCEPT !.pc = "kalloc", !.op = "grow", !.i = sz[p], !.lim = n, !.base = sz[p]]
    <3>1. x.op = "grow" /\ Becomes(p, x)
      BY Zenon, <2>2 DEF Grow, Idle
    <3> HIDE DEF x
    <3> QED BY Zenon, <3>1, NewRecord
  <2>3. ASSUME NEW n \in 0 .. NVa, Shrink(p, n) PROVE th'[p].op = "shrink"
    <3> DEFINE x == [Idle EXCEPT !.pc = "unmap", !.op = "shrink", !.i = n, !.lim = sz[p], !.base = n]
    <3>1. x.op = "shrink" /\ Becomes(p, x)
      BY Zenon, <2>3 DEF Shrink, Idle
    <3> HIDE DEF x
    <3> QED BY Zenon, <3>1, NewRecord
  <2>4. ASSUME NEW c \in Procs, Fork(p, c) PROVE th'[p].op = "fork" /\ th'[p].np = c
    <3> DEFINE x == [Idle EXCEPT !.pc = "dup", !.op = "fork", !.np = c, !.lim = sz[p]]
    <3>1. x.op = "fork" /\ x.np = c /\ Becomes(p, x)
      BY Zenon, <2>4 DEF Fork, Idle
    <3> HIDE DEF x
    <3> QED BY Zenon, <3>1, NewRecord
  <2>5. ASSUME NEW c \in Procs, Wait(p, c) PROVE th'[p].op = "wait"
    <3> DEFINE x == [Idle EXCEPT !.pc = "unmap", !.op = "wait", !.np = c, !.lim = sz[c]]
    <3>1. x.op = "wait" /\ Becomes(p, x)
      BY Zenon, <2>5 DEF Wait, Idle
    <3> HIDE DEF x
    <3> QED BY Zenon, <3>1, NewRecord
  <2>6. ASSUME Exec(p) PROVE th'[p].op = "exec"
    <3> DEFINE x == [Idle EXCEPT !.pc = "kalloc", !.op = "exec", !.lim = ImageSize]
    <3>1. x.op = "exec" /\ Becomes(p, x)
      BY Zenon, <2>6 DEF Exec, Idle
    <3> HIDE DEF x
    <3> QED BY Zenon, <3>1, NewRecord
  <2> QED BY Zenon, <1>4, <2>1, <2>2, <2>3, <2>4, <2>5, <2>6 DEF Syscall
<1> QED BY Zenon, <1>1, <1>2, <1>3, <1>4 DEF Step

\* Only exec()'s commit changes p->pagetable.
LEMMA KernelCur ==
  ASSUME NEW p \in Procs, KernelStep(p), ~ExecCommit(p)
  PROVE  UNCHANGED cur
BY Zenon DEF KernelStep, CowRefcount, CowOwn, CowKalloc, CowCopy, CopyoutStore, CopyoutFail, Kfree,
   KfreeEnd, UnmapPage, Unmapped, AllocPage, MapPage, MapFail, Grown, ExecBad, DupPage, DupFail,
   DupIncref, Forked, Panic, tabvars

\* Only fork() enters fork(), and in it the parent copies, or counts what it has copied.
LEMMA ForkOp ==
  ASSUME Control, NEW p \in Procs, Step(p), th'[p].op = "fork"
  PROVE  \/ \E c \in Procs : Fork(p, c) /\ th'[p].np = c
         \/ th[p].op = "fork" /\ (DupPage(p) \/ DupIncref(p) \/ UNCHANGED <<ppn, cur, th>>)
<1>1. CASE KernelStep(p)
  <2>1. th[p].op = "fork"
    BY Zenon, <1>1, KernelOp
  <2>2. th[p].pc \in {"dup", "incref"}
    BY Zenon, <2>1 DEF Control, ThreadsOK, ThreadOK
  <2>3. DupPage(p) \/ DupFail(p) \/ DupIncref(p) \/ Forked(p)
    BY Zenon, <1>1, <2>2 DEF KernelStep, CowRefcount, CowOwn, CowKalloc, CowCopy, CopyoutStore,
       CopyoutFail, Kfree, KfreeEnd, UnmapPage, Unmapped, AllocPage, MapPage, MapFail, Grown, ExecBad,
       ExecCommit, At
  <2>4. ~Forked(p)
    <3>1. ASSUME Forked(p) PROVE FALSE
      <4>1. th' = [th EXCEPT ![p] = Idle, ![th[p].np] = Idle]
        BY Zenon, <3>1 DEF Forked
      <4>2. th'[p] = Idle
        BY ZenonT(40), <4>1 DEF Control, TypeOK
      <4>3. Idle.op # "fork"
        BY Zenon DEF Idle
      <4> QED BY Zenon, <4>2, <4>3
    <3> QED BY Zenon, <3>1
  <2>5. DupFail(p) => UNCHANGED <<ppn, cur, th>>
    <3>1. ASSUME ReturnToUser(p) PROVE FALSE
      BY Zenon, <3>1, UserRecord
    <3> QED BY Zenon, <3>1 DEF DupFail, Panic
  <2> QED BY Zenon, <2>1, <2>3, <2>4, <2>5
<1>2. CASE UNCHANGED <<th, cur>> /\ ~KernelStep(p)
  <2>1. UNCHANGED ppn
    BY Zenon, <1>2 DEF Step, Store, StoreFault, Syscall, Write, Grow, Shrink, Exec, Fork, Wait,
       WaitStatus, FoundZombie, Exit, Panic, tabvars
  <2> QED BY Zenon, <1>2, <2>1
<1> QED BY Zenon, <1>1, <1>2, StepOp

\* Only exec() enters exec(), and it keeps to one table until it commits.
LEMMA ExecOp ==
  ASSUME Control, NEW p \in Procs, Step(p), th'[p].op = "exec"
  PROVE  Exec(p) \/ (th[p].op = "exec" /\ cur'[p] = cur[p])
<1>1. CASE KernelStep(p)
  <2>1. th[p].op = "exec" /\ ~ExecCommit(p)
    BY Zenon, <1>1, KernelOp
  <2>2. UNCHANGED cur
    BY Zenon, <1>1, <2>1, KernelCur
  <2> QED BY Zenon, <2>1, <2>2
<1>2. CASE UNCHANGED <<th, cur>>
  BY Zenon, <1>2
<1> QED BY Zenon, <1>1, <1>2, StepOp

\* The operation exec() that a process is in was called in this step, or is the same as
\* before and builds the same table.
LEMMA ImageOwner ==
  ASSUME Control, TablesOK, NEW p \in Procs, Step(p), NEW q \in Procs, th'[q].op = "exec"
  PROVE  \/ q = p /\ Exec(p)
         \/ /\ th[q].op = "exec" /\ Alt(q)' = Alt(q)
            /\ q # p => perm'[Alt(q)] = perm[Alt(q)]
<1>1. Frame(p)
  BY Zenon, StepFrame
<1>2. CASE q = p
  <2>1. Exec(q) \/ (th[q].op = "exec" /\ cur'[q] = cur[q])
    BY Zenon, <1>2, ExecOp
  <2> QED BY Zenon, <1>2, <2>1 DEF Alt
<1>3. CASE q # p /\ q \in Slots(p)
  BY Zenon, <1>1, <1>3 DEF Frame
<1>4. CASE q # p /\ q \notin Slots(p)
  <2>1. th'[q] = th[q] /\ cur'[q] = cur[q]
    BY Zenon, <1>1, <1>4 DEF Frame, Within
  <2>2. Alt(q) \in Tables /\ Alt(q)[1] = q
    BY Zenon, TypeParts, TablesOf DEF Control, Alt
  <2>3. perm'[Alt(q)] = perm[Alt(q)]
    BY Zenon, <1>1, <1>4, <2>2 DEF Frame, Within
  <2> QED BY Zenon, <2>1, <2>3 DEF Alt
<1> QED BY Zenon, <1>2, <1>3, <1>4

\* Where a thread maps the page it holds.
Spot(p) == IF th[p].pc = "cow_copy" THEN <<Tab(p), th[p].i>> ELSE <<Target(p), th[p].i>>

\* What a step of p maps somewhere was mapped there before, or is the page p holds, or is
\* a page of its own that it gives to a child.
LEMMA NewMapping ==
  ASSUME Control, NEW p \in Procs, PteStep(p), NEW y \in Places, PageAt(y)' # None
  PROVE  \/ PageAt(y)' = PageAt(y)
         \/ th[p].pc \in {"cow_copy", "map"} /\ y = Spot(p) /\ PageAt(y)' = th[p].new
         \/ /\ <<Tab(p), th[p].i>> \in Places /\ PageAt(y)' = PageAt(<<Tab(p), th[p].i>>)
            /\ th[p].op = "fork" /\ y[1] = Tab(th[p].np)
<1>1. th[p].i \in Vas => <<Tab(p), th[p].i>> \in Places
  BY Zenon, TypeParts, TablesOf DEF Control, Places
<1> QED BY Zenon, <1>1 DEF PteStep, Spot

\* The images that exec() builds stay private to it.
LEMMA ImagesStep ==
  ASSUME Control, PagesOK, TablesOK, ImagesOK, NEW p \in Procs, Step(p)
  PROVE  ImagesOK'
<1>0. PteStep(p)
  BY Zenon, StepFrame
<1> SUFFICES ASSUME NEW q \in Procs, th'[q].op = "exec", NEW va \in Mapped(Alt(q))'
             PROVE  /\ "COW" \notin perm'[Alt(q)'][va]
                    /\ \A t \in Tables, w \in Vas : ppn'[t][w] = ppn'[Alt(q)'][va] => t = Alt(q)' /\ w = va
  BY Zenon DEF ImagesOK
<1>1. CASE q = p /\ Exec(p)
  <2>1. Mapped(Alt(p)) = {} /\ Mapped(Alt(p))' = Mapped(Alt(p))
    BY Zenon, <1>1, UserTable DEF Exec, tabvars, Mapped, Alt
  <2> QED BY Zenon, <1>1, <2>1
<1>2. CASE th[q].op = "exec" /\ Alt(q)' = Alt(q) /\ (q # p => perm'[Alt(q)] = perm[Alt(q)])
  <2>1. PICK t \in Tables : t = Alt(q)
    BY Zenon, TypeParts, TablesOf DEF Control
  <2> DEFINE a == <<t, va>>
  <2>2. va \in Vas /\ a \in Places /\ PageAt(a)' # None
    BY Zenon, <1>2, <2>1 DEF Mapped, Valid, Places, PageAt
  <2>3. ASSUME PageAt(a) # None
        PROVE  "COW" \notin PermAt(a) /\ \A y \in Places : PageAt(y) = PageAt(a) => y = a
    <3>1. va \in Mapped(Alt(q))
      BY Zenon, <2>1, <2>2, <2>3 DEF Mapped, Valid, PageAt
    <3>2. /\ "COW" \notin perm[t][va]
          /\ \A u \in Tables, w \in Vas : ppn[u][w] = ppn[t][va] => u = t /\ w = va
      BY <1>2, <2>1, <3>1 DEF ImagesOK
    <3>3. ASSUME NEW y \in Places, PageAt(y) = PageAt(a) PROVE y = a
      <4>1. y = <<y[1], y[2]>> /\ y[1] \in Tables /\ y[2] \in Vas
        BY DEF Places
      <4>2. ppn[y[1]][y[2]] = ppn[t][va]
        BY Zenon, <3>3 DEF PageAt
      <4>3. y[1] = t /\ y[2] = va
        BY Zenon, <3>2, <4>1, <4>2
      <4> QED BY Zenon, <4>1, <4>3
    <3> QED BY Zenon, <3>2, <3>3 DEF PermAt
  <2>4. ~(th[p].op = "fork" /\ t = Tab(th[p].np))
    <3>1. ASSUME th[p].op = "fork", t = Tab(th[p].np) PROVE FALSE
      <4>1. th[p].np \in Slots(p) /\ th[p].np # p
        BY Zenon, <3>1, ChildIsOther DEF Slots
      <4>2. th[th[p].np].op = "none"
        BY Zenon, <4>1, ChildIdle
      <4>3. q = th[p].np
        BY <2>1, <3>1 DEF Tab, Alt
      <4> QED BY Zenon, <1>2, <4>2, <4>3
    <3> QED BY Zenon, <3>1
  <2>5. PageAt(a)' = PageAt(a) \/ (th[p].pc \in {"cow_copy", "map"} /\ a = Spot(p) /\ PageAt(a)' = th[p].new)
    BY Zenon, <1>0, <2>2, <2>4, NewMapping
  <2>6. "COW" \notin PermAt(a)'
    <3>1. CASE PageAt(a)' = PageAt(a) /\ ("COW" \in PermAt(a)' => "COW" \in PermAt(a) \/ th[p].op = "fork")
      <4>1. q # p => PermAt(a)' = PermAt(a)
        BY Zenon, <1>2, <2>1 DEF PermAt
      <4>2. q = p => th[p].op # "fork"
        BY Zenon, <1>2
      <4> QED BY Zenon, <2>2, <2>3, <3>1, <4>1, <4>2
    <3>2. CASE ~(PageAt(a)' = PageAt(a) /\ ("COW" \in PermAt(a)' => "COW" \in PermAt(a) \/ th[p].op = "fork"))
      BY Zenon, <1>0, <2>2, <2>4, <3>2 DEF PteStep
    <3> QED BY Zenon, <3>1, <3>2
  <2>7. ASSUME NEW y \in Places, PageAt(y)' = PageAt(a)' PROVE y = a
    <3>1. \/ PageAt(y)' = PageAt(y)
          \/ th[p].pc \in {"cow_copy", "map"} /\ y = Spot(p) /\ PageAt(y)' = th[p].new
          \/ /\ <<Tab(p), th[p].i>> \in Places /\ PageAt(y)' = PageAt(<<Tab(p), th[p].i>>)
             /\ th[p].op = "fork" /\ y[1] = Tab(th[p].np)
      BY Zenon, <1>0, <2>2, <2>7, NewMapping
    <3>2. th[p].pc \in {"cow_copy", "map"} => \A x \in Places : PageAt(x) # th[p].new
      BY Zenon, NewPage
    <3>3. CASE PageAt(a)' = PageAt(a)
      <4>1. \A z \in Places : PageAt(z) = PageAt(a)' => z = a
        BY Zenon, <2>2, <2>3, <3>3
      <4>2. ~(th[p].pc \in {"cow_copy", "map"} /\ PageAt(y)' = th[p].new)
        BY Zenon, <2>2, <2>7, <3>2, <3>3
      <4>3. <<Tab(p), th[p].i>> # a
        BY <1>2, <2>1 DEF Tab, Alt, Other
      <4> QED BY <2>7, <3>1, <4>1, <4>2, <4>3
    <3>4. CASE th[p].pc \in {"cow_copy", "map"} /\ a = Spot(p) /\ PageAt(a)' = th[p].new
      <4>1. \A z \in Places : PageAt(z) # PageAt(y)'
        BY Zenon, <2>7, <3>2, <3>4
      <4> QED BY <3>1, <3>4, <4>1
    <3> QED BY Zenon, <2>5, <3>3, <3>4
  <2>8. ASSUME NEW u \in Tables, NEW w \in Vas, ppn'[u][w] = ppn'[t][va] PROVE u = t /\ w = va
    <3>1. <<u, w>> \in Places /\ PageAt(<<u, w>>)' = PageAt(a)'
      BY Zenon, <2>8 DEF Places, PageAt
    <3>2. <<u, w>> = a
      BY Zenon, <2>7, <3>1
    <3> QED BY Zenon, <3>2
  <2> QED BY Zenon, <1>2, <2>1, <2>6, <2>8 DEF PermAt
<1> QED BY Zenon, <1>1, <1>2, ImageOwner

\* What fork() has copied into the child stays as it is in the parent.
LEMMA CopiesStep ==
  ASSUME Control, TablesOK, CopiesOK, NEW p \in Procs, Step(p)
  PROVE  CopiesOK'
<1>0. Frame(p)
  BY Zenon, StepFrame
<1> SUFFICES ASSUME NEW q \in Procs, th'[q].op = "fork", NEW va \in Mapped(Tab(th[q].np))'
             PROVE  ppn'[Tab(th[q].np)'][va] = ppn'[Tab(q)'][va]
  BY Zenon DEF CopiesOK
<1>1. CASE q # p
  <2>1. q \notin Slots(p)
    BY Zenon, <1>0, <1>1 DEF Frame
  <2>2. th'[q] = th[q] /\ cur'[q] = cur[q]
    BY Zenon, <1>0, <2>1 DEF Frame, Within
  <2>3. PICK c \in Procs : c = th[q].np /\ c \in Slots(q) /\ q \in Slots(q) /\ ~At(q, "dead")
    BY Zenon, <2>2, ChildIsOther DEF Slots
  <2>4. c \notin Slots(p)
    BY Zenon, <1>0, <1>1, <2>3, SlotsDisjoint DEF Frame
  <2>5. cur'[c] = cur[c]
    BY Zenon, <1>0, <2>4 DEF Frame, Within
  <2>6. Tab(q) \in Tables /\ Tab(c) \in Tables /\ Tab(q)[1] = q /\ Tab(c)[1] = c
    BY Zenon, TypeParts, TablesOf DEF Control, Tab
  <2>7. ppn'[Tab(q)] = ppn[Tab(q)] /\ ppn'[Tab(c)] = ppn[Tab(c)]
    BY Zenon, <1>0, <2>1, <2>4, <2>6 DEF Frame, Within
  <2>8. Tab(q)' = Tab(q) /\ Tab(c)' = Tab(c) /\ th'[q].np = c
    BY Zenon, <2>2, <2>3, <2>5 DEF Tab
  <2>9. va \in Mapped(Tab(c))
    BY Zenon, <2>3, <2>7, <2>8 DEF Mapped, Tab
  <2>10. th[q].op = "fork" /\ va \in Mapped(Tab(th[q].np))
    BY Zenon, <2>2, <2>3, <2>9
  <2>11. ppn[Tab(c)][va] = ppn[Tab(q)][va]
    BY Zenon, <2>3, <2>10 DEF CopiesOK
  <2>12. Tab(th[q].np)' = Tab(c)
    BY Zenon, <2>8 DEF Tab
  <2> QED BY Zenon, <2>7, <2>8, <2>11, <2>12
<1>2. CASE q = p
  <2>1. CASE \E c \in Procs : Fork(p, c) /\ th'[p].np = c
    <3>1. PICK c \in Procs : Fork(p, c) /\ th'[p].np = c
      BY Zenon, <2>1
    <3>2. UNCHANGED <<ppn, cur>> /\ state[c] = "UNUSED"
      BY Zenon, <3>1 DEF Fork, tabvars
    <3>3. Mapped(Tab(c)) = {}
      BY Zenon, <3>2, ChildSlot DEF SlotOK
    <3> QED BY Zenon, <1>2, <3>1, <3>2, <3>3 DEF Mapped, Tab
  <2>2. CASE th[p].op = "fork" /\ UNCHANGED <<ppn, cur, th>>
    BY Zenon, <1>2, <2>2 DEF CopiesOK, Mapped, Tab
  <2>3. CASE th[p].op = "fork" /\ (DupPage(p) \/ DupIncref(p)) /\ ~UNCHANGED <<ppn, cur, th>>
    <3>0. th[p] \in Thread /\ TabType
      BY Zenon, TypeParts DEF Control
    <3>1. PICK c \in Procs : c = th[p].np /\ c # p
      BY Zenon, <2>3, ChildIsOther
    <3>2. Tab(c) \in Tables /\ Tab(p) \in Tables /\ Tab(c) # Tab(p)
      BY <3>0, <3>1, TablesOf DEF Tab
    <3>3. UNCHANGED cur /\ \/ UNCHANGED ppn
                           \/ ppn' = [ppn EXCEPT ![Tab(c)][th[p].i] = ppn[Tab(p)][th[p].i]]
      BY Zenon, <2>3, <3>1 DEF DupPage, DupIncref, Panic, tabvars
    <3>4. th'[p].np = th[p].np
      <4>1. \/ \E l, a : Becomes(p, [th[p] EXCEPT !.pc = l, !.pa = a])
            \/ \E l, n, a : Becomes(p, [th[p] EXCEPT !.pc = l, !.i = n, !.pa = a])
        BY Zenon, <2>3 DEF DupPage, DupIncref, Panic
      <4>2. ASSUME NEW x, Becomes(p, x), x.np = th[p].np PROVE th'[p].np = th[p].np
        BY Zenon, <4>2, NewRecord
      <4> QED BY ZenonT(40), <3>0, <4>1, <4>2 DEF Thread
    <3>5. /\ Tab(p)' = Tab(p) /\ th'[p].np = c /\ <<c, cur'[c]>> = Tab(c)
          /\ \A w \in Mapped(Tab(c)) : ppn[Tab(c)][w] = ppn[Tab(p)][w]
      BY Zenon, <2>3, <3>1, <3>3, <3>4 DEF CopiesOK, Tab
    <3>6. va \in Vas /\ ppn'[Tab(c)][va] # None
      BY Zenon, <1>2, <3>5 DEF Mapped, Valid, Tab
    <3>7. ppn'[Tab(c)][va] = ppn'[Tab(p)][va]
      <4>1. CASE UNCHANGED ppn
        BY Zenon, <3>5, <3>6, <4>1 DEF Mapped, Valid
      <4>2. CASE ppn' = [ppn EXCEPT ![Tab(c)][th[p].i] = ppn[Tab(p)][th[p].i]]
        <5>1. ppn'[Tab(p)] = ppn[Tab(p)]
          BY Zenon, <3>0, <3>2, <4>2 DEF TabType
        <5>2. ppn'[Tab(c)][va] = IF va = th[p].i THEN ppn[Tab(p)][th[p].i] ELSE ppn[Tab(c)][va]
          BY Zenon, <3>0, <3>2, <3>6, <4>2 DEF TabType
        <5> QED BY Zenon, <3>5, <3>6, <5>1, <5>2 DEF Mapped, Valid
      <4> QED BY Zenon, <3>3, <4>1, <4>2
    <3> QED BY Zenon, <1>2, <3>5, <3>7 DEF Tab
  <2> QED BY Zenon, <1>2, <2>1, <2>2, <2>3, ForkOp
<1> QED BY Zenon, <1>1, <1>2

\* No image in the beginning.
LEMMA InitImages == Init => ImagesOK /\ CopiesOK
<1> SUFFICES ASSUME Init PROVE \A p \in Procs : th[p].op = "none"
  BY Zenon DEF ImagesOK, CopiesOK
<1>1. \A p \in Procs : th[p] = Idle \/ th[p] = Dead
  BY Zenon DEF Init, InitProcs
<1>2. Idle.op = "none" /\ Dead.op = "none"
  BY Zenon DEF Idle, Dead
<1> QED BY Zenon, <1>1, <1>2

-----------------------------------------------------------------------------
(* What a process sees: the pages below its size, all of them mapped.      *)

Seen(q) == 0 .. VisibleSize(q) - 1
Content(q, va) == IF ppn[Tab(q)][va] = None THEN None ELSE mem[ppn[Tab(q)][va]]

\* A process in sbrk() with a negative argument is in the uvmunmap() loop.
LEMMA Shrinking ==
  ASSUME Control, NEW p \in Procs, th[p].op = "shrink"
  PROVE  Unmapping(th[p]) /\ th[p].pc \in {"unmap", "kfree_push"}
<1>1. th[p] \in Thread /\ ThreadOK(th[p])
  BY Zenon, TypeParts DEF Control, ThreadsOK
<1>2. th[p].pc \in PCs
  BY ZenonT(40), <1>1 DEF Thread
<1> QED BY Zenon, <1>1, <1>2 DEF PCs, ThreadOK, InFault, CowPCs, Mapping, Unmapping

\* The visible size is the size, or what sbrk() is to leave of it.
LEMMA VisibleIs ==
  ASSUME Control, NEW p \in Procs
  PROVE  /\ th[p].op # "shrink" => VisibleSize(p) = sz[p]
         /\ th[p].op = "shrink" => VisibleSize(p) = th[p].base
         /\ VisibleSize(p) \in 0 .. NVa
<1>1. th[p] \in Thread /\ ProcType
  BY Zenon, TypeParts DEF Control
<1>2. th[p].base \in 0 .. NVa /\ sz[p] \in 0 .. NVa
  BY ZenonT(40), <1>1 DEF Thread, ProcType
<1> QED BY Zenon, <1>2 DEF VisibleSize

\* What a running process sees is mapped.
LEMMA SeenMapped ==
  ASSUME Control, TablesOK, NEW q \in Procs, state[q] = "LIVE"
  PROVE  /\ Seen(q) \subseteq Vas /\ VisibleSize(q) \in 0 .. NVa
         /\ \A va \in Seen(q) : /\ <<Tab(q), va>> \in Places /\ PageAt(<<Tab(q), va>>) \in Pages
                                /\ Content(q, va) = mem[PageAt(<<Tab(q), va>>)]
                                /\ Content(q, va) \in Values
<1>0. TabType /\ MemType /\ Tab(q) \in Tables /\ th[q] \in Thread /\ ThreadOK(th[q])
  BY Zenon, TypeParts, TablesOf DEF Control, ThreadsOK
<1>1. TableOK(q) /\ ~At(q, "dead")
  BY Zenon DEF TablesOK, Control, OwnersOK
<1>2. VisibleSize(q) \in 0 .. NVa
  BY Zenon, VisibleIs
<1>3. Seen(q) \subseteq Vas
  BY <1>2, SizeAssumption DEF Seen, Vas
<1>4. Seen(q) \subseteq Mapped(Tab(q))
  <2>0. Mapped(Tab(q)) = OwnPages(th[q], sz[q])
    BY Zenon, <1>1 DEF TableOK
  <2>1. CASE th[q].op = "grow" /\ Mapping(th[q])
    <3>1. Mapped(Tab(q)) = 0 .. th[q].i-1 /\ VisibleSize(q) = sz[q]
      BY Zenon, <2>0, <2>1, PagesMapping, VisibleIs
    <3>2. sz[q] = th[q].base /\ th[q].base <= th[q].i
      BY Zenon, <1>0, <1>1, <2>1 DEF TableOK, ThreadOK
    <3>3. th[q].i \in 0 .. NVa /\ th[q].base \in 0 .. NVa
      BY ZenonT(40), <1>0 DEF Thread
    <3> QED BY <3>1, <3>2, <3>3, SizeAssumption DEF Seen
  <2>2. CASE th[q].op \in {"grow", "shrink"} /\ Unmapping(th[q])
    <3>1. Mapped(Tab(q)) = (0 .. th[q].base-1) \cup Rest(th[q])
      BY Zenon, <2>0, <2>2, PagesUnmapping
    <3>2. VisibleSize(q) = th[q].base
      BY Zenon, <1>1, <2>2, VisibleIs DEF TableOK
    <3> QED BY Zenon, <3>1, <3>2 DEF Seen
  <2>3. CASE th[q].op \notin {"grow", "shrink"}
    BY Zenon, <2>0, <2>3, PagesAtRest, VisibleIs DEF Seen
  <2>4. CASE th[q].op = "grow" /\ ~Mapping(th[q]) /\ ~Unmapping(th[q])
    BY Zenon, <2>0, <2>4, VisibleIs DEF Seen, OwnPages
  <2> QED BY Zenon, <2>1, <2>2, <2>3, <2>4, Shrinking
<1>5. ASSUME NEW va \in Seen(q)
      PROVE  /\ <<Tab(q), va>> \in Places /\ PageAt(<<Tab(q), va>>) \in Pages
             /\ Content(q, va) = mem[PageAt(<<Tab(q), va>>)]
             /\ Content(q, va) \in Values
  <2>1. va \in Vas /\ ppn[Tab(q)][va] # None
    BY Zenon, <1>3, <1>4 DEF Mapped, Valid
  <2>2. ppn[Tab(q)][va] \in Pages
    BY Zenon, <1>0, <2>1 DEF TabType
  <2>3. mem[ppn[Tab(q)][va]] \in Values
    BY Zenon, <1>0, <2>2 DEF MemType
  <2> QED BY Zenon, <1>0, <2>1, <2>2, <2>3 DEF Places, PageAt, Content
<1> QED BY Zenon, <1>2, <1>3, <1>5

\* The loops of sbrk() work above what is seen.
LEMMA LoopUnseen ==
  ASSUME Control, TablesOK, NEW p \in Procs, InLoop(th[p]), Target(p) = Tab(p)
  PROVE  th[p].i \notin Seen(p)
<1>1. TableOK(p) /\ th[p].op \in UnmapOps /\ ThreadOK(th[p]) /\ th[p] \in Thread
  BY Zenon, LoopTable, TypeParts DEF Control, ThreadsOK
<1>2. th[p].op \in {"grow", "shrink"}
  <2>1. Tab(p) # Alt(p)
    BY DEF Tab, Alt, Other
  <2>2. th[p].op = "wait" => Tab(th[p].np) # Tab(p)
    BY Zenon, ChildIsOther DEF Tab
  <2> QED BY Zenon, <1>1, <2>1, <2>2 DEF Target, UnmapOps
<1>3. VisibleSize(p) = th[p].base
  BY Zenon, <1>1, <1>2, VisibleIs DEF TableOK
<1>4. th[p].base <= th[p].i
  BY Zenon, <1>1, <1>2 DEF ThreadOK, InLoop
<1>5. th[p].i \in 0 .. NVa /\ th[p].base \in 0 .. NVa
  BY ZenonT(40), <1>1 DEF Thread
<1> QED BY <1>3, <1>4, <1>5, SizeAssumption DEF Seen

-----------------------------------------------------------------------------
(* Which contents a step changes.                                          *)

\* A user's store, or a copyout() of the kernel.
Stores(p) == CopyoutStore(p) \/ \E va \in Vas, v \in Values : Store(p, va, v)

\* A store reaches the one PTE that maps its page.
LEMMA StoreContent ==
  ASSUME Control, PagesOK, NEW x \in Places, PageAt(x) # None, "W" \in PermAt(x), NEW v,
         mem' = [mem EXCEPT ![PageAt(x)] = v]
  PROVE  /\ mem'[PageAt(x)] = v
         /\ \A e \in Places : PageAt(e) \in Pages /\ e # x => mem'[PageAt(e)] = mem[PageAt(e)]
<1>0. MemType /\ TabType
  BY ZenonT(40) DEF Control, TypeOK, MemType, TabType
<1>1. x = <<x[1], x[2]>> /\ x[1] \in Tables /\ x[2] \in Vas
  BY DEF Places
<1>2. PageAt(x) \in Pages
  BY Zenon, <1>0, <1>1 DEF TabType, PageAt
<1>3. ASSUME NEW e \in Places, e # x, PageAt(e) = PageAt(x) PROVE FALSE
  <2>1. x \in Tables \X Vas /\ e \in Tables \X Vas /\ ppn[x[1]][x[2]] # None /\ "W" \in perm[x[1]][x[2]]
        /\ ppn[e[1]][e[2]] = ppn[x[1]][x[2]]
    BY Zenon, <1>3 DEF Places, PageAt, PermAt
  <2> QED BY Zenon, <1>3, <2>1 DEF PagesOK, WritableIsPrivate
<1> QED BY Zenon, <1>0, <1>2, <1>3 DEF MemType

\* The PTE of a store, and what it writes.
LEMMA StorePlace ==
  ASSUME Control, NEW p \in Procs, NEW va, NEW v,
         \/ va \in Vas /\ v \in Values /\ Store(p, va, v)
         \/ CopyoutStore(p) /\ va = th[p].i /\ v = th[p].val
  PROVE  /\ <<Tab(p), va>> \in Places /\ PageAt(<<Tab(p), va>>) # None /\ "W" \in PermAt(<<Tab(p), va>>)
         /\ mem' = [mem EXCEPT ![PageAt(<<Tab(p), va>>)] = v] /\ va \in Vas /\ v \in Values
<1>1. Tab(p) \in Tables /\ ThreadOK(th[p])
  BY Zenon, TypeParts, TablesOf DEF Control, ThreadsOK
<1>2. CopyoutStore(p) => th[p].i \in Vas /\ th[p].val \in Values
  BY Zenon, <1>1 DEF CopyoutStore, At, ThreadOK
<1>3. va \in Vas /\ Writable(Tab(p), va) /\ mem' = [mem EXCEPT ![ppn[Tab(p)][va]] = v]
  BY Zenon, <1>2 DEF Store, CopyoutStore
<1> QED BY Zenon, <1>1, <1>2, <1>3 DEF Places, PageAt, PermAt, Writable

\* The pages a step may change: the one written, the one handle_cow_fault() fills, the one
\* kfree() puts on its list, and those of a new image.
MemStep(p) == \A g \in Pages :
  \/ mem'[g] = mem[g]
  \/ Stores(p) /\ \E x \in Places : /\ x[1] = Tab(p) /\ PageAt(x) = g
                                    /\ \A e \in Places : PageAt(e) = g => e = x
  \/ CowCopy(p) /\ g = th[p].new
  \/ At(p, "kfree_push") /\ g = th[p].pa
  \/ ExecCommit(p) /\ \E va \in Mapped(Alt(p)) : g = ppn[Alt(p)][va]

\* No step changes any other page.
LEMMA MemFrame ==
  ASSUME Control, PagesOK, TablesOK, NEW p \in Procs, Step(p)
  PROVE  MemStep(p)
<1>0. MemType
  BY Zenon, TypeParts DEF Control
<1> SUFFICES ASSUME NEW g \in Pages, mem'[g] # mem[g]
             PROVE  \/ Stores(p) /\ \E x \in Places : /\ x[1] = Tab(p) /\ PageAt(x) = g
                                                      /\ \A e \in Places : PageAt(e) = g => e = x
                    \/ CowCopy(p) /\ g = th[p].new
                    \/ At(p, "kfree_push") /\ g = th[p].pa
                    \/ ExecCommit(p) /\ \E va \in Mapped(Alt(p)) : g = ppn[Alt(p)][va]
  BY Zenon DEF MemStep
<1>1. CASE Stores(p)
  <2>1. PICK va, v : \/ va \in Vas /\ v \in Values /\ Store(p, va, v)
                     \/ CopyoutStore(p) /\ va = th[p].i /\ v = th[p].val
    BY Zenon, <1>1 DEF Stores
  <2> DEFINE x == <<Tab(p), va>>
  <2>2. x \in Places /\ PageAt(x) # None /\ "W" \in PermAt(x) /\ mem' = [mem EXCEPT ![PageAt(x)] = v]
    BY Zenon, <2>1, StorePlace
  <2>3. \A e \in Places : PageAt(e) \in Pages /\ e # x => mem'[PageAt(e)] = mem[PageAt(e)]
    BY Zenon, <2>2, StoreContent
  <2>4. PageAt(x) = g
    BY Zenon, <1>0, <2>2 DEF MemType
  <2>5. x[1] = Tab(p)
    BY Zenon
  <2> QED BY Zenon, <1>1, <2>2, <2>3, <2>4, <2>5
<1>2. CASE CowCopy(p)
  <2>1. mem' = [mem EXCEPT ![th[p].new] = mem[th[p].pa]]
    BY Zenon, <1>2 DEF CowCopy
  <2> QED BY Zenon, <1>0, <1>2, <2>1 DEF MemType
<1>3. CASE KfreeEnd(p)
  <2>1. At(p, "kfree_push") /\ \E v : mem' = [mem EXCEPT ![th[p].pa] = v]
    BY Zenon, <1>3 DEF KfreeEnd, KfreePush
  <2> QED BY Zenon, <1>0, <2>1 DEF MemType
<1>4. CASE ExecCommit(p)
  <2>1. th[p].pc = "kalloc" /\ th[p].op = "exec" /\ th[p].i = th[p].lim
    BY Zenon, <1>4 DEF ExecCommit, At
  <2>2. InLoop(th[p]) /\ Mapping(th[p]) /\ Target(p) = Alt(p)
    BY Zenon, <2>1 DEF InLoop, Mapping, Target
  <2>3. Mapped(Alt(p)) = 0 .. ImageSize-1
    BY Zenon, <2>1, <2>2, LoopTable DEF TableOK, LoopPages, Mapped
  <2>4. g \in {ppn[Alt(p)][va] : va \in 0 .. ImageSize-1}
    BY Zenon, <1>4 DEF ExecCommit
  <2> QED BY Zenon, <1>4, <2>3, <2>4
<1>5. CASE ~Stores(p) /\ ~CowCopy(p) /\ ~KfreeEnd(p) /\ ~ExecCommit(p)
  <2>1. UNCHANGED mem
    <3>1. CASE KernelStep(p)
      BY Zenon, <1>5, <3>1 DEF KernelStep, Stores, CowRefcount, CowOwn, CowKalloc, CopyoutFail, Kfree, KfreeDec,
         UnmapPage, Unmapped, AllocPage, Kalloc, MapPage, MapFail, Grown, ExecBad, DupPage, DupFail,
         DupIncref, Incref, Forked, Panic, memvars
    <3>2. CASE ~KernelStep(p)
      BY Zenon, <1>5, <3>2 DEF Step, Stores, StoreFault, Syscall, Write, Grow, Shrink, Exec, Fork, Wait,
         WaitStatus, FoundZombie, Exit, Panic, memvars
    <3> QED BY Zenon, <3>1, <3>2
  <2> QED BY Zenon, <2>1
<1> QED BY Zenon, <1>1, <1>2, <1>3, <1>4, <1>5

\* A page that q maps keeps its contents, unless q itself writes it, exec() replaces the
\* image of q, or it is above what q sees.
LEMMA PageKept ==
  ASSUME Control, PagesOK, TablesOK, ImagesOK, NEW p \in Procs, Step(p),
         NEW q \in Procs, NEW va \in Vas, PageAt(<<Tab(q), va>>) \in Pages,
         q # p => q \notin Slots(p),
         q = p => ~Stores(p) /\ va \in Seen(p)
  PROVE  mem'[PageAt(<<Tab(q), va>>)] = mem[PageAt(<<Tab(q), va>>)]
<1>1. PICK e \in Places : e = <<Tab(q), va>>
  BY Zenon, TypeParts, TablesOf DEF Control, Places
<1>2. PICK g \in Pages : g = PageAt(e)
  BY Zenon, <1>1
<1> SUFFICES ASSUME mem'[g] # mem[g] PROVE FALSE
  BY Zenon, <1>1, <1>2
<1>3. MemStep(p) /\ ~At(p, "dead")
  BY Zenon, MemFrame, StepFrame DEF Frame
<1>4. e[1] = Tab(q) /\ e[2] = va /\ Tab(q)[1] = q
  BY Zenon, <1>1 DEF Tab
<1>5. CASE Stores(p) /\ \E x \in Places : /\ x[1] = Tab(p) /\ PageAt(x) = g
                                          /\ \A f \in Places : PageAt(f) = g => f = x
  <2>1. e[1] = Tab(p)
    BY Zenon, <1>2, <1>5
  <2>2. q = p
    BY <1>4, <2>1 DEF Tab
  <2> QED BY Zenon, <1>5, <2>2
<1>6. CASE CowCopy(p) /\ g = th[p].new
  BY Zenon, <1>2, <1>6, NewPage DEF CowCopy, At
<1>7. CASE At(p, "kfree_push") /\ g = th[p].pa
  <2>1. th[p].ret = "unmap" /\ e = <<Target(p), th[p].i>>
    BY Zenon, <1>2, <1>7 DEF PagesOK
  <2>2. InLoop(th[p])
    BY Zenon, <1>7, <2>1 DEF InLoop, Unmapping, At
  <2>3. Target(p)[1] \in Slots(p) /\ Tab(q) = Target(p) /\ va = th[p].i
    BY Zenon, <1>4, <2>1, <2>2, LoopTable
  <2>4. q = p
    BY Zenon, <1>4, <2>3
  <2> QED BY Zenon, <2>2, <2>3, <2>4, LoopUnseen
<1>8. CASE ExecCommit(p) /\ \E w \in Mapped(Alt(p)) : g = ppn[Alt(p)][w]
  <2>1. PICK w \in Mapped(Alt(p)) : ppn[Tab(q)][va] = ppn[Alt(p)][w]
    BY Zenon, <1>1, <1>2, <1>8 DEF PageAt
  <2>2. Tab(q) \in Tables /\ th[p].op = "exec"
    BY Zenon, <1>8, TypeParts, TablesOf DEF Control, ExecCommit
  <2>3. Tab(q) = Alt(p)
    BY <2>1, <2>2 DEF ImagesOK
  <2> QED BY <2>3 DEF Tab, Alt, Other
<1> QED BY Zenon, <1>3, <1>5, <1>6, <1>7, <1>8 DEF MemStep

-----------------------------------------------------------------------------
(* The memory of a process, before and after a step.                       *)

\* The layers together.
MemoryInv == Control /\ PagesOK /\ TablesOK /\ ImagesOK /\ CopiesOK

\* What Space is for one process.
LEMMA SpaceAt ==
  ASSUME NEW q \in Procs
  PROVE  /\ Space[q] = IF state[q] = "LIVE" THEN [va \in Seen(q) |-> Content(q, va)] ELSE None
         /\ Space'[q] = IF state'[q] = "LIVE" THEN [va \in Seen(q)' |-> Content(q, va)'] ELSE None
BY Zenon DEF Space, Contents, Seen, Content

\* A memory is the same when the size and every page of it are.
LEMMA SameSpace ==
  ASSUME NEW q \in Procs, state'[q] = "LIVE" <=> state[q] = "LIVE",
         state[q] = "LIVE" => /\ VisibleSize(q)' = VisibleSize(q)
                              /\ \A va \in Seen(q) : Content(q, va)' = Content(q, va)
  PROVE  Space'[q] = Space[q]
<1>1. CASE state[q] = "LIVE"
  <2>1. Seen(q)' = Seen(q)
    BY Zenon, <1>1 DEF Seen
  <2>2. [va \in Seen(q)' |-> Content(q, va)'] = [va \in Seen(q) |-> Content(q, va)]
    BY <1>1, <2>1
  <2> QED BY Zenon, <1>1, <2>2, SpaceAt
<1>2. CASE state[q] # "LIVE"
  BY Zenon, <1>2, SpaceAt
<1> QED BY Zenon, <1>1, <1>2

\* A step of p shows in the memory of no other process, except the child fork() makes.
LEMMA OthersSpace ==
  ASSUME MemoryInv, NEW p \in Procs, Step(p), NEW q \in Procs, q # p,
         ~(Forked(p) /\ q = th[p].np)
  PROVE  Space'[q] = Space[q]
<1>0. Control /\ PagesOK /\ TablesOK /\ ImagesOK
  BY Zenon DEF MemoryInv
<1>1. Frame(p)
  BY Zenon, <1>0, StepFrame
<1>2. CASE q \in Slots(p)
  <2>1. q = th[p].np
    BY Zenon, <1>2 DEF Slots
  <2>2. state[q] # "LIVE" /\ state'[q] # "LIVE"
    BY Zenon, <1>1, <1>2, <2>1 DEF Frame
  <2> QED BY Zenon, <2>2, SameSpace
<1>3. CASE q \notin Slots(p)
  <2>1. th'[q] = th[q] /\ sz'[q] = sz[q] /\ (state'[q] = "LIVE" <=> state[q] = "LIVE")
    BY Zenon, <1>1, <1>3 DEF Frame
  <2>2. cur'[q] = cur[q] /\ Tab(q) \in Tables /\ Tab(q)[1] = q
    BY Zenon, <1>0, <1>1, <1>3, TypeParts, TablesOf DEF Control, Frame, Within, Tab
  <2>3. Tab(q)' = Tab(q) /\ ppn'[Tab(q)] = ppn[Tab(q)]
    BY Zenon, <1>1, <1>3, <2>2 DEF Frame, Within, Tab
  <2>4. VisibleSize(q)' = VisibleSize(q)
    BY Zenon, <2>1 DEF VisibleSize
  <2>5. ASSUME state[q] = "LIVE", NEW va \in Seen(q) PROVE Content(q, va)' = Content(q, va)
    <3>1. va \in Vas /\ PageAt(<<Tab(q), va>>) \in Pages
      BY Zenon, <1>0, <2>5, SeenMapped
    <3>2. mem'[PageAt(<<Tab(q), va>>)] = mem[PageAt(<<Tab(q), va>>)]
      BY Zenon, <1>0, <1>3, <3>1, PageKept
    <3>3. mem'[ppn[Tab(q)][va]] = mem[ppn[Tab(q)][va]]
      BY Zenon, <3>2 DEF PageAt
    <3> QED BY Zenon, <2>3, <3>3 DEF Content
  <2> QED BY Zenon, <2>1, <2>4, <2>5, SameSpace
<1> QED BY Zenon, <1>2, <1>3

-----------------------------------------------------------------------------
(* The steps that a process itself does not see.                           *)

\* They leave p running on the page table it has.
LEMMA OwnFrame ==
  ASSUME Control, NEW p \in Procs, Step(p), ~Changes(p), ~At(p, "dead")
  PROVE  /\ state[p] = "LIVE" /\ state'[p] = "LIVE" /\ cur' = cur
         /\ sz'[p] = sz[p] \/ (Unmapped(p) /\ th[p].op = "shrink" /\ sz'[p] = th[p].base)
<1>1. ProcType /\ state[p] = "LIVE"
  BY Zenon, TypeParts DEF Control, OwnersOK
<1>2. ~Grown(p) /\ ~ExecCommit(p) /\ ~Exit(p) /\ ~CopyoutStore(p)
      /\ ~\E va \in Vas, v \in Values : Store(p, va, v)
  BY Zenon DEF Changes
<1>3. cur' = cur
  <2>1. CASE KernelStep(p)
    BY Zenon, <1>2, <2>1, KernelCur
  <2>2. CASE ~KernelStep(p)
    BY Zenon, <1>2, <2>2 DEF Step, StoreFault, Syscall, Write, Grow, Shrink, Exec, Fork, Wait, WaitStatus,
       FoundZombie, tabvars
  <2> QED BY Zenon, <2>1, <2>2
<1>4. CASE Unmapped(p)
  <2>1. CASE th[p].op = "wait"
    <3>1. PICK c \in Procs : c = th[p].np /\ c # p
      BY Zenon, <2>1, ChildIsOther
    <3>2. sz' = [sz EXCEPT ![c] = 0] /\ state' = [state EXCEPT ![c] = "UNUSED"]
      BY Zenon, <1>4, <2>1, <3>1 DEF Unmapped
    <3> QED BY Zenon, <1>1, <1>3, <3>1, <3>2 DEF ProcType
  <2>2. CASE th[p].op = "shrink"
    <3>1. sz' = [sz EXCEPT ![p] = th[p].base] /\ state' = state
      BY Zenon, <1>4, <2>2 DEF Unmapped
    <3> QED BY Zenon, <1>1, <1>3, <1>4, <2>2, <3>1 DEF ProcType
  <2>3. CASE th[p].op \notin {"wait", "shrink"}
    BY Zenon, <1>1, <1>3, <1>4, <2>3 DEF Unmapped, procvars
  <2> QED BY Zenon, <2>1, <2>2, <2>3
<1>5. CASE DupFail(p) \/ Forked(p) \/ \E c \in Procs : Fork(p, c)
  <2>1. PICK c \in Procs : /\ c # p
                           /\ sz' = sz \/ \E n : sz' = [sz EXCEPT ![c] = n]
                           /\ state' = state \/ \E s : state' = [state EXCEPT ![c] = s]
    <3>1. CASE DupFail(p) \/ Forked(p)
      <4>1. th[p].op = "fork"
        BY Zenon, <3>1 DEF Control, ThreadsOK, ThreadOK, DupFail, Forked, At
      <4>2. PICK c \in Procs : c = th[p].np /\ c # p
        BY Zenon, <4>1, ChildIsOther
      <4> QED BY Zenon, <3>1, <4>2 DEF DupFail, Forked, Panic
    <3>2. CASE \E c \in Procs : Fork(p, c)
      <4>1. PICK c \in Procs : Fork(p, c)
        BY Zenon, <3>2
      <4>2. c # p
        BY Zenon, <1>1, <4>1 DEF Fork
      <4> QED BY Zenon, <4>1, <4>2 DEF Fork
    <3> QED BY Zenon, <1>5, <3>1, <3>2
  <2>2. sz'[p] = sz[p] /\ state'[p] = state[p]
    BY Zenon, <1>1, <2>1 DEF ProcType
  <2> QED BY Zenon, <1>1, <1>3, <2>2
<1>6. CASE ~Unmapped(p) /\ ~DupFail(p) /\ ~Forked(p) /\ ~\E c \in Procs : Fork(p, c)
  <2>1. UNCHANGED <<sz, state>>
    <3>1. CASE KernelStep(p)
      BY Zenon, <1>2, <1>6, <3>1 DEF KernelStep, CowRefcount, CowOwn, CowKalloc, CowCopy, CopyoutFail, Kfree,
         KfreeEnd, UnmapPage, AllocPage, MapPage, MapFail, ExecBad, DupPage, DupIncref, Panic, procvars
    <3>2. CASE ~KernelStep(p)
      BY Zenon, <1>2, <1>6, <3>2 DEF Step, StoreFault, Syscall, Write, Grow, Shrink, Exec, Wait, WaitStatus,
         FoundZombie, procvars
    <3> QED BY Zenon, <3>1, <3>2
  <2> QED BY Zenon, <1>1, <1>3, <2>1
<1> QED BY Zenon, <1>4, <1>5, <1>6

\* While sbrk() frees pages its target size does not change.
LEMMA ShrinkSize ==
  ASSUME Control, NEW p \in Procs, Step(p), ~Changes(p), ~At(p, "dead"), th[p].op = "shrink"
  PROVE  VisibleSize(p)' = VisibleSize(p)
<1>0. th[p] \in Thread /\ ThreadOK(th[p]) /\ th[p].pc \in {"unmap", "kfree_push"}
  BY Zenon, TypeParts, Shrinking DEF Control, ThreadsOK
<1>1. KfreeEnd(p) \/ UnmapPage(p) \/ Unmapped(p)
  BY Zenon, <1>0 DEF Step, Store, StoreFault, Syscall, Write, Grow, Shrink, Exec, Fork, Wait, WaitStatus,
     FoundZombie, Exit, InUser, KernelStep, CowRefcount, CowOwn, CowKalloc, CowCopy, CopyoutStore, CopyoutFail,
     Kfree, AllocPage, MapPage, MapFail, Grown, ExecBad, ExecCommit, DupPage, DupFail, DupIncref, Forked, At
<1>2. CASE th'[p].op = "shrink" /\ th'[p].base = th[p].base
  BY Zenon, <1>2 DEF VisibleSize
<1>3. CASE KfreeEnd(p)
  <2>1. th[p].ret = "unmap"
    BY Zenon, <1>0, <1>3 DEF ThreadOK, KfreeEnd, At, InFault, Mapping
  <2>2. GotoUnmap(p, th[p].i + 1, th[p].lim)
    BY Zenon, <1>3, <2>1 DEF KfreeEnd, KfreeReturn
  <2> QED BY Zenon, <1>2, <2>2, UnmapRecord
<1>4. CASE UnmapPage(p)
  <2> DEFINE x == [th[p] EXCEPT !.i = @ + 1]
             y(a) == [th[p] EXCEPT !.pc = "kfree_push", !.pa = a, !.ret = "unmap"]
  <2>1. UNCHANGED th \/ Becomes(p, x) \/ \E a : Becomes(p, y(a))
    BY Zenon, <1>4 DEF UnmapPage, Panic
  <2>2. /\ x.op = th[p].op /\ x.base = th[p].base
        /\ \A a : y(a).op = th[p].op /\ y(a).base = th[p].base
    BY ZenonT(40), <1>0 DEF Thread
  <2> HIDE DEF x, y
  <2>3. th'[p].op = th[p].op /\ th'[p].base = th[p].base
    BY Zenon, <2>1, <2>2, NewRecord
  <2> QED BY Zenon, <1>2, <2>3
<1>5. CASE Unmapped(p)
  <2>1. th'[p].op = "none"
    BY Zenon, <1>5, UserRecord DEF Unmapped
  <2>2. sz' = [sz EXCEPT ![p] = th[p].base]
    BY Zenon, <1>5 DEF Unmapped
  <2>3. sz'[p] = th[p].base
    BY Zenon, <2>2, TypeParts DEF Control, ProcType
  <2> QED BY Zenon, <2>1, <2>3 DEF VisibleSize
<1> QED BY Zenon, <1>1, <1>3, <1>4, <1>5

\* The visible size does not change.
LEMMA OwnSize ==
  ASSUME Control, NEW p \in Procs, Step(p), ~Changes(p), ~At(p, "dead")
  PROVE  VisibleSize(p)' = VisibleSize(p)
<1>1. CASE th[p].op = "shrink"
  BY Zenon, <1>1, ShrinkSize
<1>2. CASE th[p].op # "shrink"
  <2>1. sz'[p] = sz[p]
    BY Zenon, <1>2, OwnFrame
  <2>2. ASSUME NEW n \in 0 .. NVa, Shrink(p, n) PROVE FALSE
    <3>1. sz[p] \in 0 .. NVa /\ n < sz[p]
      BY Zenon, <2>2, TypeParts DEF Control, ProcType, Shrink
    <3>2. n \in Vas
      BY <3>1, SizeAssumption DEF Vas
    <3> QED BY Zenon, <2>2, <3>2 DEF Changes
  <2>3. th'[p].op # "shrink"
    <3>1. CASE KernelStep(p)
      BY Zenon, <1>2, <3>1, KernelOp
    <3> QED BY Zenon, <1>2, <2>2, <3>1, StepOp
  <2> QED BY Zenon, <1>2, <2>1, <2>3 DEF VisibleSize
<1> QED BY Zenon, <1>1, <1>2

\* No fault, copy, free or failure shows in the memory of the process it happens in.
LEMMA OwnSpace ==
  ASSUME MemoryInv, NEW p \in Procs, Step(p), ~Changes(p)
  PROVE  Space'[p] = Space[p]
<1>0. Control /\ PagesOK /\ TablesOK /\ ImagesOK
  BY Zenon DEF MemoryInv
<1>1. PteStep(p) /\ ~At(p, "dead")
  BY Zenon, <1>0, StepFrame DEF Frame
<1>2. state[p] = "LIVE" /\ state'[p] = "LIVE" /\ cur' = cur /\ VisibleSize(p)' = VisibleSize(p)
  BY Zenon, <1>0, <1>1, OwnFrame, OwnSize
<1>3. ASSUME NEW va \in Seen(p) PROVE Content(p, va)' = Content(p, va)
  <2>1. PICK x \in Places : /\ x = <<Tab(p), va>> /\ PageAt(x) \in Pages
                            /\ Content(p, va) = mem[PageAt(x)] /\ va \in Vas
    BY Zenon, <1>0, <1>2, SeenMapped
  <2>2. x[1] = Tab(p) /\ x[2] = va /\ Tab(p)' = Tab(p)
    BY Zenon, <1>2, <2>1 DEF Tab
  <2>3. Content(p, va)' = IF PageAt(x)' = None THEN None ELSE mem'[PageAt(x)']
    BY Zenon, <2>2 DEF Content, PageAt
  <2>4. CASE PageAt(x)' = PageAt(x)
    <3>1. ~Stores(p)
      BY Zenon DEF Stores, Changes
    <3>2. mem'[PageAt(x)] = mem[PageAt(x)]
      BY Zenon, <1>0, <2>1, <3>1, PageKept
    <3>3. PageAt(x) # None
      BY Zenon, <2>1, PagesAssumption
    <3> QED BY Zenon, <2>1, <2>3, <2>4, <3>2, <3>3
  <2>5. CASE th[p].pc = "cow_copy" /\ x = <<Tab(p), th[p].i>> /\ PageAt(x)' = th[p].new
    <3>1. CowCopy(p)
      BY Zenon, <2>5 DEF Step, Store, StoreFault, Syscall, Write, Grow, Shrink, Exec, Fork, Wait, WaitStatus,
         FoundZombie, Exit, InUser, KernelStep, CowRefcount, CowOwn, CowKalloc, KfreeEnd, UnmapPage, Unmapped,
         CopyoutStore, CopyoutFail,
         Kfree, AllocPage, MapPage, MapFail, Grown, ExecBad, ExecCommit, DupPage, DupFail, DupIncref, Forked, At
    <3>2. mem' = [mem EXCEPT ![th[p].new] = mem[th[p].pa]] /\ th[p].new \in Pages
      BY Zenon, <1>0, <2>5, <3>1, NewPage DEF CowCopy
    <3>3. mem'[th[p].new] = mem[th[p].pa]
      BY Zenon, <1>0, <3>2, TypeParts DEF Control, MemType
    <3>4. ppn[Tab(p)][th[p].i] = th[p].pa
      BY Zenon, <1>0, <2>5 DEF PagesOK, LocalOK, CowPCs
    <3>5. PageAt(x) = th[p].pa
      BY Zenon, <2>5, <3>4 DEF PageAt
    <3>6. th[p].new # None
      BY Zenon, <3>2, PagesAssumption
    <3> QED BY Zenon, <2>1, <2>3, <2>5, <3>3, <3>5, <3>6
  <2>6. CASE InLoop(th[p]) /\ x = <<Target(p), th[p].i>>
    <3>1. Target(p) = Tab(p) /\ va = th[p].i
      BY <2>1, <2>6
    <3> QED BY Zenon, <1>0, <2>6, <3>1, LoopUnseen
  <2>7. CASE th[p].op = "fork" /\ x[1] = Tab(th[p].np)
    BY <1>0, <2>2, <2>7, ChildIsOther DEF Tab
  <2> QED BY Zenon, <1>1, <2>4, <2>5, <2>6, <2>7 DEF PteStep, InLoop, Mapping
<1> QED BY Zenon, <1>2, <1>3, SameSpace

-----------------------------------------------------------------------------
(* The steps that AddressSpaces speaks of.                                 *)

\* A live process has a memory of at most NVa pages of contents, any other has none.
SpacesOK == \A q \in Procs : IF state[q] = "LIVE" THEN Space[q] \in A!Memories /\ Space[q] # None
                             ELSE Space[q] = None

\* It is so: what a live process sees is mapped, and None is no memory.
LEMMA SpacesTyped ==
  ASSUME Control, TablesOK
  PROVE  SpacesOK
<1> SUFFICES ASSUME NEW q \in Procs, state[q] = "LIVE" PROVE Space[q] \in A!Memories /\ Space[q] # None
  BY Zenon, SpaceAt DEF SpacesOK
<1>1. VisibleSize(q) \in 0 .. NVa /\ \A va \in Seen(q) : Content(q, va) \in Values
  BY Zenon, SeenMapped
<1>2. Space[q] = [va \in Seen(q) |-> Content(q, va)]
  BY Zenon, SpaceAt
<1>3. Space[q] \in [0 .. VisibleSize(q)-1 -> Values]
  BY Zenon, <1>1, <1>2 DEF Seen
<1> QED BY Zenon, <1>1, <1>3, NoneAssumption DEF A!Memories, A!Image

\* All memories but that of p are the same.
LEMMA OnlySpace ==
  ASSUME NEW p \in Procs, \A q \in Procs : q # p => Space'[q] = Space[q]
  PROVE  Space' = [Space EXCEPT ![p] = Space'[p]]
<1>1. Space = [q \in Procs |-> Space[q]] /\ Space' = [q \in Procs |-> Space'[q]]
  BY Zenon DEF Space
<1> QED BY <1>1

\* A user in user mode, or in copyout(), sees every page that is mapped.
LEMMA AllSeen ==
  ASSUME Control, TablesOK, NEW p \in Procs, state[p] = "LIVE", th[p].pc \in {"user", "copyout"}
  PROVE  Mapped(Tab(p)) = Seen(p) /\ VisibleSize(p) = sz[p] /\ th[p].op \notin {"grow", "shrink"}
<1>1. TableOK(p) /\ ThreadOK(th[p])
  BY Zenon DEF TablesOK, Control, OwnersOK, ThreadsOK
<1>2. th[p].op \notin {"grow", "shrink"}
  BY Zenon, <1>1 DEF ThreadOK
<1> QED BY Zenon, <1>1, <1>2, VisibleIs, PagesAtRest DEF TableOK, Seen

\* A store, and a copyout(), write one page of the memory of their process.
LEMMA StoreIsWrite ==
  ASSUME MemoryInv, NEW p \in Procs, NEW va, NEW v,
         \/ va \in Vas /\ v \in Values /\ Store(p, va, v)
         \/ CopyoutStore(p) /\ va = th[p].i /\ v = th[p].val
  PROVE  A!Write(p, va, v) /\ va \in Vas /\ v \in Values
<1>0. Control /\ PagesOK /\ TablesOK
  BY Zenon DEF MemoryInv
<1> DEFINE x == <<Tab(p), va>>
<1>1. /\ x \in Places /\ PageAt(x) # None /\ "W" \in PermAt(x)
      /\ mem' = [mem EXCEPT ![PageAt(x)] = v] /\ va \in Vas /\ v \in Values
  BY Zenon, <1>0, StorePlace
<1>2. /\ mem'[PageAt(x)] = v
      /\ \A e \in Places : PageAt(e) \in Pages /\ e # x => mem'[PageAt(e)] = mem[PageAt(e)]
  BY Zenon, <1>0, <1>1, StoreContent
<1>3. /\ th[p].pc \in {"user", "copyout"} /\ ~Forked(p) /\ Step(p)
      /\ UNCHANGED <<ppn, cur, sz, state>>
  <2>1. CASE va \in Vas /\ v \in Values /\ Store(p, va, v)
    BY Zenon, <2>1 DEF Store, InUser, At, Forked, Step
  <2>2. CASE CopyoutStore(p)
    BY Zenon, <2>2 DEF CopyoutStore, At, Forked, Step, KernelStep, tabvars, procvars
  <2> QED BY Zenon, <2>1, <2>2
<1>4. state[p] = "LIVE" /\ ThreadOK(th[p])
  BY Zenon, <1>0, <1>3 DEF Control, OwnersOK, ThreadsOK, At
<1>5. Mapped(Tab(p)) = Seen(p) /\ VisibleSize(p) = sz[p]
  BY Zenon, <1>0, <1>3, <1>4, AllSeen
<1>6. va \in Seen(p)
  BY Zenon, <1>1, <1>5 DEF Mapped, Valid, PageAt
<1>7. th'[p].op # "shrink"
  <2>1. CASE Store(p, va, v)
    BY Zenon, <1>3, <1>4, <2>1 DEF Store, ThreadOK
  <2>2. CASE CopyoutStore(p)
    <3>1. KernelStep(p) /\ ~ExecCommit(p) /\ th[p].op # "shrink"
      BY Zenon, <1>4, <2>2 DEF KernelStep, CopyoutStore, ExecCommit, At, ThreadOK
    <3> QED BY Zenon, <1>0, <3>1, KernelOp
  <2> QED BY Zenon, <2>1, <2>2
<1>8. Seen(p)' = Seen(p) /\ Tab(p)' = Tab(p)
  BY Zenon, <1>3, <1>5, <1>7 DEF Seen, VisibleSize, Tab
<1>9. ASSUME NEW w \in Seen(p) PROVE Content(p, w)' = IF w = va THEN v ELSE Content(p, w)
  <2>1. PICK e \in Places : e = <<Tab(p), w>> /\ PageAt(e) \in Pages /\ Content(p, w) = mem[PageAt(e)]
    BY Zenon, <1>0, <1>4, SeenMapped
  <2>2. Content(p, w)' = mem'[PageAt(e)]
    <3>1. ppn[Tab(p)][w] = PageAt(e) /\ PageAt(e) # None
      BY Zenon, <2>1, PagesAssumption DEF PageAt
    <3> QED BY Zenon, <1>3, <1>8, <3>1 DEF Content
  <2>3. CASE w = va
    BY Zenon, <1>2, <2>1, <2>2, <2>3
  <2>4. CASE w # va
    <3>1. e # x
      BY <2>1, <2>4
    <3> QED BY Zenon, <1>2, <2>1, <2>2, <2>4, <3>1
  <2> QED BY Zenon, <2>3, <2>4
<1>10. Space[p] = [w \in Seen(p) |-> Content(p, w)] /\ Space'[p] = [w \in Seen(p) |-> Content(p, w)']
  BY Zenon, <1>3, <1>4, <1>8, SpaceAt
<1>11. Space'[p] = [Space[p] EXCEPT ![va] = v]
  BY <1>9, <1>10
<1>12. Space' = [Space EXCEPT ![p] = Space'[p]]
  BY Zenon, <1>3, OthersSpace, OnlySpace
<1>13. Space' = [Space EXCEPT ![p][va] = v]
  BY Zenon, <1>11, <1>12
<1>14. Space[p] # None /\ va \in DOMAIN Space[p]
  BY Zenon, <1>0, <1>4, <1>6, <1>10, SpacesTyped DEF SpacesOK
<1> QED BY Zenon, <1>1, <1>13, <1>14 DEF A!Write, A!Live

\* fork() gives the child the memory the parent has when the child starts to run.
LEMMA ForkedIsFork ==
  ASSUME MemoryInv, NEW p \in Procs, Forked(p)
  PROVE  A!Fork(p, th[p].np) /\ th[p].np \in Procs /\ ~Changes(p)
<1>0. Control /\ PagesOK /\ TablesOK /\ CopiesOK /\ ProcType
  BY Zenon, TypeParts DEF MemoryInv, Control
<1>1. th[p].op = "fork" /\ th[p].pc = "dup" /\ th[p].i = th[p].lim
  BY Zenon, <1>0 DEF Control, ThreadsOK, ThreadOK, Forked, At
<1>2. PICK c \in Procs : c = th[p].np /\ c # p /\ At(c, "dead")
  BY Zenon, <1>0, <1>1, ChildIsOther
<1>3. ~Changes(p) /\ Step(p)
  BY Zenon, <1>1 DEF Changes, Store, Shrink, CopyoutStore, Grown, ExecCommit, Exit, InUser, At, Step, KernelStep
<1>4. state[p] = "LIVE" /\ state[c] # "LIVE"
  BY Zenon, <1>0, <1>1, <1>2 DEF Control, OwnersOK, At
<1>5. /\ sz' = [sz EXCEPT ![c] = sz[p]] /\ state' = [state EXCEPT ![c] = "LIVE"]
      /\ th' = [th EXCEPT ![p] = Idle, ![c] = Idle] /\ UNCHANGED <<mem, ppn, perm, cur>>
  BY Zenon, <1>2 DEF Forked, tabvars, memvars
<1>6. sz'[c] = sz[p] /\ state'[c] = "LIVE" /\ th'[c] = Idle
  <2>1. th'[c] = Idle
    BY ZenonT(40), <1>0, <1>2, <1>5 DEF Control, TypeOK
  <2> QED BY Zenon, <1>0, <1>5, <2>1 DEF ProcType
<1>7. VisibleSize(c)' = sz[p] /\ VisibleSize(p) = sz[p]
  <2>1. Idle.op # "shrink"
    BY Zenon DEF Idle
  <2> QED BY Zenon, <1>1, <1>6, <2>1 DEF VisibleSize
<1>8. Seen(c)' = Seen(p) /\ Tab(c)' = Tab(c)
  BY Zenon, <1>5, <1>7 DEF Seen, Tab
<1>9. Mapped(Tab(c)) = Seen(p)
  <2>1. Mapped(Tab(th[p].np)) = 0 .. th[p].i-1 /\ th[p].lim = sz[p]
    BY Zenon, <1>0, <1>1, ForkTable
  <2>2. th[p].i = VisibleSize(p)
    BY Zenon, <1>1, <1>7, <2>1
  <2> QED BY Zenon, <1>2, <2>1, <2>2 DEF Seen
<1>10. ASSUME NEW w \in Seen(p) PROVE Content(c, w)' = Content(p, w)
  <2>1. ppn[Tab(c)][w] = ppn[Tab(p)][w]
    BY Zenon, <1>0, <1>1, <1>2, <1>9 DEF CopiesOK
  <2> QED BY Zenon, <1>5, <1>8, <2>1 DEF Content
<1>11. Space'[c] = [w \in Seen(p) |-> Content(c, w)'] /\ Space[p] = [w \in Seen(p) |-> Content(p, w)]
  BY Zenon, <1>4, <1>6, <1>8, SpaceAt
<1>12. Space'[c] = Space[p]
  BY <1>10, <1>11
<1>13. \A q \in Procs : q # c => Space'[q] = Space[q]
  BY Zenon, <1>2, <1>3, OthersSpace, OwnSpace
<1>14. Space' = [Space EXCEPT ![c] = Space[p]]
  BY Zenon, <1>12, <1>13, OnlySpace
<1>15. Space[p] # None /\ Space[c] = None
  BY Zenon, <1>0, <1>4, SpacesTyped DEF SpacesOK
<1> QED BY Zenon, <1>2, <1>3, <1>14, <1>15 DEF A!Fork, A!Live

\* Nothing that happens to no variable shows.
LEMMA QuietSpace == ASSUME UNCHANGED vars PROVE Space' = Space
<1>1. UNCHANGED <<mem, ppn, cur, sz, state, th>>
  BY Zenon DEF vars
<1> QED BY Zenon, <1>1 DEF Space, Contents, Tab, VisibleSize

\* Isolation, for one step.
LEMMA IsolationStep ==
  ASSUME MemoryInv, [Next]_vars
  PROVE  Isolated
<1>1. ASSUME NEW q \in Procs, Space'[q] # Space[q]
      PROVE  Changes(q) \/ \E p \in Procs : Forked(p) /\ q = th[p].np
  <2>1. CASE UNCHANGED vars
    BY Zenon, <1>1, <2>1, QuietSpace
  <2>2. ASSUME NEW p \in Procs, Step(p)
        PROVE  Changes(q) \/ \E r \in Procs : Forked(r) /\ q = th[r].np
    BY Zenon, <1>1, <2>2, OthersSpace, OwnSpace
  <2> QED BY Zenon, <2>1, <2>2 DEF Next, Halted
<1> QED BY Zenon, <1>1, StoreIsWrite, ForkedIsFork DEF Isolated

\* Every step is one of AddressSpaces, or shows to no process.
LEMMA MemoriesStep ==
  ASSUME MemoryInv, SpacesOK', NEW p \in Procs, Step(p)
  PROVE  A!Next \/ Space' = Space
<1>0. Control /\ PagesOK /\ TablesOK /\ SpacesOK
  BY Zenon, SpacesTyped DEF MemoryInv
<1>1. CASE \A q \in Procs : Space'[q] = Space[q]
  <2>1. Space = [q \in Procs |-> Space[q]] /\ Space' = [q \in Procs |-> Space'[q]]
    BY Zenon DEF Space
  <2> QED BY <1>1, <2>1
<1>2. CASE Forked(p)
  <2>1. PICK c \in Procs : c = th[p].np /\ A!Fork(p, c)
    BY Zenon, <1>2, ForkedIsFork
  <2>2. \A q \in Procs \ {c} : Space'[q] = Space[q]
    BY Zenon, <1>2, <2>1, ForkedIsFork, OthersSpace, OwnSpace
  <2>3. CASE Space'[c] # Space[c]
    BY Zenon, <2>1, <2>2, <2>3 DEF A!Next, A!Changes
  <2> QED BY Zenon, <1>1, <2>2, <2>3
<1>3. CASE ~Forked(p) /\ Space'[p] # Space[p]
  <2>1. A!Changes(p)
    BY Zenon, <1>3, OthersSpace DEF A!Changes
  <2>2. Space' = [Space EXCEPT ![p] = Space'[p]]
    BY Zenon, <1>3, OthersSpace, OnlySpace
  <2>3. Space[p] # None
    <3>1. ~At(p, "dead")
      BY Zenon, <1>0, StepFrame DEF Frame
    <3> QED BY Zenon, <1>0, <3>1 DEF Control, OwnersOK, SpacesOK
  <2>4. CASE Space'[p] = None
    <3>1. A!Exit(p)
      BY Zenon, <2>2, <2>3, <2>4 DEF A!Exit, A!Live
    <3> QED BY Zenon, <2>1, <3>1 DEF A!Next
  <2>5. CASE Space'[p] # None
    <3>1. Space'[p] \in A!Memories
      BY Zenon, <2>5 DEF SpacesOK
    <3>2. A!Exec(p, Space'[p])
      BY Zenon, <2>2, <2>3 DEF A!Exec, A!Live
    <3> QED BY Zenon, <2>1, <3>1, <3>2 DEF A!Next
  <2> QED BY Zenon, <2>4, <2>5
<1>4. CASE ~Forked(p) /\ Space'[p] = Space[p]
  BY Zenon, <1>1, <1>4, OthersSpace
<1> QED BY Zenon, <1>2, <1>3, <1>4

\* At first there is the first process, with one page.
LEMMA InitSpaces ==
  ASSUME Init, Control, TablesOK
  PROVE  A!Init
<1>1. \A q \in Procs : state[q] = "LIVE" <=> q = InitProc
  BY Zenon DEF Init, InitProcs
<1>2. sz[InitProc] = 1 /\ th[InitProc] = Idle
  BY Zenon, ProcsAssumption DEF Init, InitProcs
<1>3. VisibleSize(InitProc) = 1
  <2>1. Idle.op # "shrink"
    BY Zenon DEF Idle
  <2> QED BY Zenon, <1>2, <2>1 DEF VisibleSize
<1>4. Space[InitProc] = [va \in Seen(InitProc) |-> Content(InitProc, va)]
  BY Zenon, <1>1, ProcsAssumption, SpaceAt
<1>5. \A va \in Seen(InitProc) : Content(InitProc, va) \in Values
  BY Zenon, <1>1, ProcsAssumption, SeenMapped
<1>6. Space[InitProc] \in A!Image(1)
  BY Zenon, <1>3, <1>4, <1>5 DEF A!Image, Seen
<1>7. SpacesOK /\ Space = [q \in Procs |-> Space[q]]
  BY Zenon, SpacesTyped DEF Space
<1>8. \A q \in Procs : Space[q] \in A!Image(1) \cup {None} /\ (Space[q] # None <=> q = InitProc)
  BY Zenon, <1>1, <1>6, <1>7 DEF SpacesOK
<1> QED BY <1>7, <1>8 DEF A!Init, A!Live

\* The same for the next-state relation.
LEMMA MemoriesNext ==
  ASSUME MemoryInv, SpacesOK', [Next]_vars
  PROVE  [A!Next]_Space
BY Zenon, MemoriesStep, QuietSpace DEF Next, Halted

\* The last two layers are inductive, given the others.
LEMMA MemoryInductive ==
  ASSUME MemoryInv, [Next]_vars
  PROVE  ImagesOK' /\ CopiesOK'
<1>1. CASE UNCHANGED vars
  <2>1. UNCHANGED <<ppn, perm, cur, th>>
    BY Zenon, <1>1 DEF vars
  <2>2. \A t : Mapped(t)' = Mapped(t)
    BY Zenon, <2>1 DEF Mapped, Valid
  <2>3. \A q : Alt(q)' = Alt(q) /\ Tab(q)' = Tab(q)
    BY Zenon, <2>1 DEF Alt, Tab
  <2>4. ImagesOK /\ CopiesOK
    BY Zenon DEF MemoryInv
  <2>5. ImagesOK'
    <3> SUFFICES ASSUME NEW q \in Procs, th'[q].op = "exec", NEW va \in Mapped(Alt(q))'
                 PROVE  /\ "COW" \notin perm'[Alt(q)'][va]
                        /\ \A t \in Tables, w \in Vas :
                             ppn'[t][w] = ppn'[Alt(q)'][va] => t = Alt(q)' /\ w = va
      BY Zenon DEF ImagesOK
    <3>1. Alt(q)' = Alt(q) /\ va \in Mapped(Alt(q)) /\ th[q].op = "exec"
      BY Zenon, <2>1 DEF Alt, Mapped, Valid
    <3>2. /\ "COW" \notin perm[Alt(q)][va]
          /\ \A t \in Tables, w \in Vas : ppn[t][w] = ppn[Alt(q)][va] => t = Alt(q) /\ w = va
      BY Zenon, <2>4, <3>1 DEF ImagesOK
    <3> QED BY Zenon, <2>1, <3>1, <3>2
  <2>6. CopiesOK'
    BY Zenon, <2>1, <2>2, <2>3, <2>4 DEF CopiesOK
  <2> QED BY Zenon, <2>5, <2>6
<1>2. ASSUME NEW p \in Procs, Step(p) PROVE ImagesOK' /\ CopiesOK'
  BY Zenon, <1>2, ImagesStep, CopiesStep DEF MemoryInv
<1> QED BY Zenon, <1>1, <1>2 DEF Next, Halted
=============================================================================
