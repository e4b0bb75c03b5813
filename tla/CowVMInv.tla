------------------------------- MODULE CowVMInv -------------------------------
(***************************************************************************)
(* The inductive invariant behind CowVM's safety properties, in layers:    *)
(* where a thread can be and what its locals then hold (ThreadsOK), who    *)
(* may touch whose page table (OwnersOK), which addresses of every         *)
(* table are mapped at every point of every loop (TablesOK), that an       *)
(* image exec() builds is nobody else's (ImagesOK), and that a child gets  *)
(* its parent's pages (CopiesOK).                                          *)
(***************************************************************************)
EXTENDS CowVM

CowPCs    == {"cow_refcount", "cow_own", "cow_kalloc", "cow_copy"}
UnmapOps  == {"grow", "shrink", "exec", "execold", "wait"}

\* In the uvmalloc() loop, or freeing the page it failed to map.
Mapping(x) == \/ x.pc \in {"kalloc", "map"}
              \/ x.pc \in {"kfree", "kfree_push"} /\ x.ret = "undo"
\* In the uvmunmap() loop.
Unmapping(x) == x.pc = "unmap" \/ (x.pc = "kfree_push" /\ x.ret = "unmap")
\* In handle_cow_fault().
InFault(x) == x.pc \in CowPCs \/ (x.pc \in {"kfree", "kfree_push"} /\ x.ret = "cow")

ThreadOK(x) ==
  /\ x.pc \in {"user", "exit", "dead"} <=> x.op = "none"
  /\ x.pc \in {"dup", "incref"} <=> x.op = "fork"
  /\ x.pc = "kfree" => x.ret \in {"cow", "undo"}
  /\ x.pc = "kfree_push" => x.ret \in {"cow", "undo", "unmap"}
  /\ x.pc \in CowPCs \cup {"kfree", "kfree_push", "incref"} => x.pa \in Pages
  /\ x.pc \in {"cow_copy", "map"} => x.new \in Pages
  /\ InFault(x) => x.op \in {"store", "write", "wait"} /\ x.i \in Vas
  /\ x.pc = "copyout" => x.op \in {"write", "wait"} /\ x.i \in Vas
  /\ (InFault(x) \/ x.pc = "copyout") /\ x.op # "store" => x.val \in Values
  /\ Mapping(x) => x.op \in {"grow", "exec"} /\ x.base <= x.i /\ x.i <= x.lim
  /\ Mapping(x) /\ x.pc # "kalloc" => x.i < x.lim
  /\ Unmapping(x) => x.op \in UnmapOps /\ x.i <= x.lim
  /\ Unmapping(x) /\ x.op \in {"grow", "shrink"} => x.base <= x.i
  /\ x.pc = "kfree_push" /\ x.ret = "unmap" => x.i < x.lim
  /\ x.op = "exec" => x.lim <= ImageSize /\ x.base = 0
  /\ x.op = "fork" => x.i <= x.lim
  /\ x.pc = "incref" => x.i < x.lim
  /\ x.op \in {"wait", "fork"} => x.np \in Procs

\* Every thread is at a point of the code its locals fit.
ThreadsOK == \A p \in Procs : ThreadOK(th[p])

\* A table has one user: a live process's own thread, the parent that is forking an
\* embryo, or the parent that is reaping a zombie under wait_lock.
OwnersOK ==
  /\ \A p \in Procs : state[p] = "LIVE" <=> ~At(p, "dead")
  /\ \A p \in Procs : th[p].op = "fork" => state[th[p].np] = "USED"
  /\ \A p, q \in Procs : th[p].op = "fork" /\ th[q].op = "fork" /\ th[p].np = th[q].np => p = q
  /\ \A p \in Procs : th[p].op = "wait" => waitlock = p /\ state[th[p].np] = "ZOMBIE"

\* The addresses a table maps, and those an operation has still to unmap.
Valid(f) == {va \in Vas : f[va] # None}
Mapped(t) == Valid(ppn[t])
Rest(x) == x.i .. x.lim - 1

\* What p->pagetable maps for a process of n pages, the table beside it, and the one
\* of a child of n pages that is being filled by fork() or freed by wait().
OwnPages(x, n) == CASE x.op = "grow" /\ Mapping(x) -> 0 .. x.i-1
                    [] x.op \in {"grow", "shrink"} /\ Unmapping(x) -> (0 .. x.base-1) \cup Rest(x)
                    [] OTHER -> 0 .. n-1
AltPages(x) == CASE x.op = "exec" /\ Mapping(x) -> 0 .. x.i-1
                 [] x.op \in {"exec", "execold"} /\ Unmapping(x) -> Rest(x)
                 [] OTHER -> {}
ChildPages(x, n) == CASE x.pc = "dup" -> 0 .. x.i-1
                      [] x.pc = "incref" -> 0 .. x.i
                      [] Unmapping(x) -> Rest(x)
                      [] OTHER -> 0 .. n-1

\* In a loop of uvmalloc() or uvmunmap(), and what the table it works on then maps.
InLoop(x) == Mapping(x) \/ Unmapping(x)
LoopPages(x) == IF Mapping(x) THEN 0 .. x.i-1
                ELSE IF x.op \in {"grow", "shrink"} THEN (0 .. x.base-1) \cup Rest(x)
                ELSE Rest(x)

\* sz and the loop counters say exactly which PTEs of a running process are valid ...
TableOK(p) == LET x == th[p] IN
  /\ Mapped(Tab(p)) = OwnPages(x, sz[p]) /\ Mapped(Alt(p)) = AltPages(x)
  /\ x.op \in {"fork", "wait"} =>
       Mapped(Tab(x.np)) = ChildPages(x, sz[x.np]) /\ Mapped(Alt(x.np)) = {}
  /\ x.op = "fork" => x.lim = sz[p]
  /\ x.op = "grow" => x.base = sz[p]
  /\ x.op = "exec" /\ Mapping(x) => x.lim = ImageSize

\* ... and of one that no thread works on.
SlotOK(s) == Mapped(Tab(s)) = (IF state[s] = "ZOMBIE" THEN 0 .. sz[s]-1 ELSE {}) /\ Mapped(Alt(s)) = {}
Unclaimed(s) == At(s, "dead") /\ \A q \in Procs : th[q].op \in {"fork", "wait"} => th[q].np # s

TablesOK == \A p \in Procs : (~At(p, "dead") => TableOK(p)) /\ (Unclaimed(p) => SlotOK(p))

\* A page of the image exec() is building is not copy-on-write, and no other PTE maps it.
ImagesOK == \A p \in Procs : th[p].op = "exec" => \A va \in Mapped(Alt(p)) :
  /\ "COW" \notin perm[Alt(p)][va]
  /\ \A t \in Tables, w \in Vas : ppn[t][w] = ppn[Alt(p)][va] => t = Alt(p) /\ w = va

\* The pages that fork() has mapped in the child are the parent's.
CopiesOK == \A p \in Procs : th[p].op = "fork" => \A va \in Mapped(Tab(th[p].np)) :
  ppn[Tab(th[p].np)][va] = ppn[Tab(p)][va]

\* A place for a PTE, with the page and the permissions it holds.
Places == Tables \X Vas
PageAt(x) == ppn[x[1]][x[2]]
PermAt(x) == perm[x[1]][x[2]]

\* A running thread works on its own slot and, while it forks or reaps, on the child's.
Slots(p) == IF th[p].op \in {"fork", "wait"} THEN {p, th[p].np} ELSE {p}

\* The locals of a thread agree with the PTEs and the counters.
LocalOK(p) == LET x == th[p] IN
  /\ x.pc \in CowPCs => ppn[Tab(p)][x.i] = x.pa /\ {"U", "COW"} \subseteq perm[Tab(p)][x.i]
  /\ x.pc = "cow_own" => refcnt[x.pa] = 1
  /\ x.pc \in {"cow_copy", "map"} => refcnt[x.new] = 1
  /\ x.pc = "incref" => /\ ppn[Tab(p)][x.i] = x.pa /\ ppn[Tab(x.np)][x.i] = x.pa
                        /\ "W" \notin perm[Tab(p)][x.i] /\ "W" \notin perm[Tab(x.np)][x.i]
  /\ x.pc = "kfree_push" /\ x.ret = "unmap" => ppn[Target(p)][x.i] = x.pa

\* A step of p that keeps to its slots.
Within(p) ==
  /\ \A s \in Procs : s \notin Slots(p) => cur'[s] = cur[s]
  /\ \A t \in Tables : t[1] \notin Slots(p) => ppn'[t] = ppn[t] /\ perm'[t] = perm[t]

\* The locals agree with the PTEs and the counters, and no page is freed by two threads.
LocalsOK ==
  /\ \A p \in Procs : LocalOK(p)
  /\ \A p \in Procs : At(p, "kfree_push") => refcnt[th[p].pa] = 0 /\ th[p].pa \notin freelist
  /\ \A p, q \in Procs : At(p, "kfree_push") /\ At(q, "kfree_push") /\ th[p].pa = th[q].pa => p = q

\* What user memories need of the reference counts: a writable page has one PTE, a page
\* just taken from kalloc() none, and a page on its way to the free list at most the one
\* uvmunmap() is about to clear.
PagesOK ==
  /\ WritableIsPrivate /\ \A p \in Procs : LocalOK(p)
  /\ \A p \in Procs : th[p].pc \in {"cow_copy", "map"} => \A x \in Places : PageAt(x) # th[p].new
  /\ \A p \in Procs : At(p, "kfree_push") => \A x \in Places :
       PageAt(x) = th[p].pa => th[p].ret = "unmap" /\ x = <<Target(p), th[p].i>>
=============================================================================
