-------------------------------- MODULE CowVM --------------------------------
(***************************************************************************)
(* Copy-on-write user memory: kernel/kalloc.c, the user half of            *)
(* kernel/vm.c, and the paths of proc.c, exec.c and trap.c that allocate,  *)
(* share, copy and free user pages.                                        *)
(*                                                                         *)
(* Every process slot is a thread that is either in user mode or somewhere *)
(* inside one kernel operation.  One action is one critical section of     *)
(* kmem.lock, or one piece of unlocked work between two of them; the       *)
(* threads interleave freely.  Page-table pages and the trapframe are not  *)
(* user pages and are left to module PageTable; here mappages() may fail   *)
(* where walk() would need a new page-table page (TableStart).             *)
(***************************************************************************)
EXTENDS Integers, FiniteSets

CONSTANTS
  Procs,       \* slots of proc[]
  InitProc,    \* initproc
  Pages,       \* physical pages that can hold user memory
  NVa,         \* bound: user addresses are the pages 0 .. NVa-1
  Values,      \* what a page can contain
  ImageSize,   \* pages of the program exec() loads ...
  ImagePerm,   \* ... and the permission bits of each of them
  TableStart,  \* addresses whose first mapping needs a page-table page
  Calls,       \* the system calls user programs make
  None         \* no page, no process

Flags == {"W", "U", "COW"}      \* PTE_W, PTE_U, PTE_COW; R, X and V do not matter here
Vas   == 0 .. NVa-1

ASSUME ProcsAssumption  == InitProc \in Procs /\ IsFiniteSet(Procs) /\ None \notin Procs
ASSUME PagesAssumption  == IsFiniteSet(Pages) /\ None \notin Pages
ASSUME SizeAssumption   == NVa \in Nat /\ NVa > 0 /\ ImageSize \in 0 .. NVa
ASSUME ImageAssumption  == ImagePerm \in [0 .. ImageSize-1 -> SUBSET {"W", "U"}]
ASSUME TableAssumption  == TableStart \subseteq Vas
ASSUME ValuesAssumption == Values # {} /\ None \notin Values
\* None is no memory: no function from the first n pages to contents.
ASSUME NoneAssumption   == \A n \in 0 .. NVa : None \notin [0 .. n-1 -> Values]

VARIABLES
  refcnt,    \* kmem.refcnt
  freelist,  \* kmem.freelist, its order abstracted: kalloc() takes any element
  mem,       \* contents of physical pages
  ppn,       \* ppn[t][va]: page a valid leaf PTE maps, None when PTE_V is clear
  perm,      \* perm[t][va]: its flags
  cur,       \* which of the two tables of a slot is p->pagetable
  sz,        \* p->sz, in pages
  state,     \* p->state; RUNNABLE, RUNNING and SLEEPING are one ("LIVE")
  parent,    \* p->parent
  waitlock,  \* holder of wait_lock
  th,        \* th[p]: where thread p is in the kernel, and its locals
  panicked   \* the message of panic(), "" while the kernel runs

vars == <<refcnt, freelist, mem, ppn, perm, cur, sz, state, parent, waitlock, th, panicked>>

\* A slot has two page tables because exec() builds the new one beside the old.
Tables == Procs \X {"A", "B"}
Other(x) == IF x = "A" THEN "B" ELSE "A"
Tab(p) == <<p, cur[p]>>              \* p->pagetable
Alt(p) == <<p, Other(cur[p])>>       \* exec()'s pagetable, then its oldpagetable

PCs == {"user", "dead", "exit",
        "cow_refcount", "cow_own", "cow_kalloc", "cow_copy", "copyout",
        "kfree", "kfree_push", "kalloc", "map", "unmap",
        "dup", "incref"}
Ops == {"none", "store", "write", "wait", "fork", "grow", "shrink", "exec", "execold"}

\* Locals: i is the page being worked on, lim the end of the loop, base the size
\* to fall back to; pa and new are pages, np a child, val what copyout() writes.
Idle == [pc |-> "user", op |-> "none", ret |-> "", i |-> 0, lim |-> 0, base |-> 0,
         pa |-> None, new |-> None, np |-> None, val |-> None]
Dead == [Idle EXCEPT !.pc = "dead"]

Thread == [pc : PCs, op : Ops, ret : {"", "cow", "unmap", "undo"},
           i : 0 .. NVa, lim : 0 .. NVa, base : 0 .. NVa,
           pa : Pages \cup {None}, new : Pages \cup {None},
           np : Procs \cup {None}, val : Values \cup {None}]

TypeOK ==
  /\ refcnt \in [Pages -> Int]
  /\ freelist \subseteq Pages
  /\ mem \in [Pages -> Values]
  /\ ppn \in [Tables -> [Vas -> Pages \cup {None}]]
  /\ perm \in [Tables -> [Vas -> SUBSET Flags]]
  /\ cur \in [Procs -> {"A", "B"}]
  /\ sz \in [Procs -> 0 .. NVa]
  /\ state \in [Procs -> {"UNUSED", "USED", "LIVE", "ZOMBIE"}]
  /\ parent \in [Procs -> Procs \cup {None}]
  /\ waitlock \in Procs \cup {None}
  /\ th \in [Procs -> Thread]
  /\ panicked \in {"", "init exiting", "uvmunmap: not mapped",
                   "uvmcopy: page not present", "mappages: remap", "freewalk: leaf"}

memvars  == <<refcnt, freelist, mem>>
tabvars  == <<ppn, perm, cur>>
procvars == <<sz, state, parent, waitlock>>

-----------------------------------------------------------------------------
(* kalloc.c, as operators on the variables it changes.                     *)

\* kinit() frees every page once, so the counter of a page never allocated is -1;
\* then userinit() takes one page for the first process.
InitMem(pg) ==
  /\ refcnt = [x \in Pages |-> IF x = pg THEN 1 ELSE -1]
  /\ freelist = Pages \ {pg}
  /\ \E v \in Values : mem = [x \in Pages |-> v]
InitTables(pg) ==
  /\ ppn = [t \in Tables |-> [va \in Vas |->
              IF t = <<InitProc, "A">> /\ va = 0 THEN pg ELSE None]]
  /\ perm = [t \in Tables |-> [va \in Vas |->
              IF t = <<InitProc, "A">> /\ va = 0 THEN {"W", "U"} ELSE {}]]
  /\ cur = [p \in Procs |-> "A"]
InitProcs ==
  /\ sz = [p \in Procs |-> IF p = InitProc THEN 1 ELSE 0]
  /\ state = [p \in Procs |-> IF p = InitProc THEN "LIVE" ELSE "UNUSED"]
  /\ parent = [p \in Procs |-> None]
  /\ waitlock = None
  /\ th = [p \in Procs |-> IF p = InitProc THEN Idle ELSE Dead]
  /\ panicked = ""
Init == \E pg \in Pages : InitMem(pg) /\ InitTables(pg) /\ InitProcs

Kalloc(pg) ==
  /\ pg \in freelist
  /\ freelist' = freelist \ {pg}
  /\ refcnt' = [refcnt EXCEPT ![pg] = 1]
  /\ UNCHANGED mem

\* First critical section of kfree(): does the page stay allocated?
KfreeDec(pg) == refcnt' = [refcnt EXCEPT ![pg] = @ - 1] /\ UNCHANGED <<freelist, mem>>

StillInUse(pg) == refcnt[pg] - 1 > 0
\* Second one; r->next overwrites part of what the page contained.
KfreePush(pg) ==
  /\ freelist' = freelist \cup {pg}
  /\ \E v \in Values : mem' = [mem EXCEPT ![pg] = v]
  /\ UNCHANGED refcnt

\* Mutant: uvmcopy() forgets the reference it made.
Incref_Missing(pg) == UNCHANGED <<refcnt, freelist, mem>>

Incref(pg) == refcnt' = [refcnt EXCEPT ![pg] = @ + 1] /\ UNCHANGED <<freelist, mem>>

\* *pte = PA2PTE(pg) | fl, and *pte = 0.
SetPte(t, va, pg, fl) ==
  /\ ppn' = [ppn EXCEPT ![t][va] = pg]
  /\ perm' = [perm EXCEPT ![t][va] = fl]
ClearPte(t, va) == SetPte(t, va, None, {})
\* mappages() panics when it is to overwrite a valid PTE.
Remap(t, va) == ppn[t][va] # None

Panic(msg) ==
  /\ panicked' = msg
  /\ UNCHANGED <<refcnt, freelist, mem, ppn, perm, cur, sz, state, parent, waitlock, th>>

At(p, label) == th[p].pc = label
InUser(p) == state[p] = "LIVE" /\ At(p, "user")

\* The table an operation of p maps into or unmaps from.
Target(p) == CASE th[p].op = "wait" -> Tab(th[p].np)
               [] th[p].op \in {"exec", "execold"} -> Alt(p)
               [] OTHER -> Tab(p)

Becomes(p, x) == th' = [th EXCEPT ![p] = x]
Goto(p, label) == Becomes(p, [th[p] EXCEPT !.pc = label])
ReturnToUser(p) == Becomes(p, Idle)
\* Enter the uvmunmap() loop over pages lo .. hi-1 of Target(p).
GotoUnmap(p, lo, hi) ==
  Becomes(p, [th[p] EXCEPT !.pc = "unmap", !.i = lo, !.lim = hi,
                           !.pa = None, !.new = None, !.ret = ""])

-----------------------------------------------------------------------------
(* User stores, handle_cow_fault() and copyout().                          *)

Writable(t, va) == ppn[t][va] # None /\ {"W", "U"} \subseteq perm[t][va]
IsCow(t, va)    == ppn[t][va] # None /\ "COW" \in perm[t][va]
MadeWritable(fl) == (fl \cup {"W"}) \ {"COW"}

\* A store instruction that the hardware lets through.
Store(p, va, v) ==
  /\ InUser(p) /\ Writable(Tab(p), va)
  /\ mem' = [mem EXCEPT ![ppn[Tab(p)][va]] = v]
  /\ UNCHANGED <<refcnt, freelist, ppn, perm, cur, sz, state, parent, waitlock, th, panicked>>

\* Locals on entry to handle_cow_fault(va) on behalf of operation op.
CowEntry(p, va, op, np, v) ==
  [Idle EXCEPT !.pc = "cow_refcount", !.op = op, !.i = va, !.np = np, !.val = v,
               !.pa = ppn[Tab(p)][va]]

\* usertrap() with scause 15: not a copy-on-write page means the process is killed.
StoreFault(p, va) ==
  /\ InUser(p) /\ ~Writable(Tab(p), va)
  /\ Becomes(p, IF IsCow(Tab(p), va) /\ "U" \in perm[Tab(p)][va]
                  THEN CowEntry(p, va, "store", None, None)
                  ELSE [Idle EXCEPT !.pc = "exit"])
  /\ UNCHANGED <<memvars, tabvars, procvars, panicked>>

\* A failing handle_cow_fault() kills the process or fails the system call.
CowFail(p) ==
  /\ Becomes(p, IF th[p].op = "store" THEN [Idle EXCEPT !.pc = "exit"] ELSE Idle)
  /\ waitlock' = IF th[p].op = "wait" THEN None ELSE waitlock

\* A successful one re-executes the store or goes on with copyout().
CowDone(p) ==
  Becomes(p, IF th[p].op = "store" THEN Idle
             ELSE [th[p] EXCEPT !.pc = "copyout", !.pa = None, !.new = None, !.ret = ""])

\* Mutant: the sole-owner test accepts two owners.
CowRefcount_Two(p) ==
  /\ At(p, "cow_refcount")
  /\ Goto(p, IF refcnt[th[p].pa] \in {1, 2} THEN "cow_own" ELSE "cow_kalloc")
  /\ UNCHANGED <<memvars, tabvars, procvars, panicked>>

CowRefcount(p) ==
  /\ At(p, "cow_refcount")
  /\ Goto(p, IF refcnt[th[p].pa] = 1 THEN "cow_own" ELSE "cow_kalloc")
  /\ UNCHANGED <<memvars, tabvars, procvars, panicked>>

CowOwn(p) ==
  /\ At(p, "cow_own")
  /\ perm' = [perm EXCEPT ![Tab(p)][th[p].i] = MadeWritable(@)]
  /\ CowDone(p)
  /\ UNCHANGED <<memvars, ppn, cur, procvars, panicked>>

CowKalloc(p) ==
  /\ At(p, "cow_kalloc")
  /\ \/ \E pg \in freelist :
          /\ Kalloc(pg)
          /\ Becomes(p, [th[p] EXCEPT !.new = pg, !.pc = "cow_copy"])
          /\ UNCHANGED waitlock
     \/ freelist = {} /\ CowFail(p) /\ UNCHANGED memvars
  /\ UNCHANGED <<tabvars, sz, state, parent, panicked>>

\* Mutant: the new page is mapped without the old contents.
CowCopy_NoMemmove(p) ==
  LET t == Tab(p) IN
  /\ At(p, "cow_copy")
  /\ SetPte(t, th[p].i, th[p].new, MadeWritable(perm[t][th[p].i]))
  /\ Becomes(p, [th[p] EXCEPT !.pc = "kfree", !.ret = "cow"])
  /\ UNCHANGED <<memvars, cur, procvars, panicked>>

CowCopy(p) ==
  LET t == Tab(p) IN
  /\ At(p, "cow_copy")
  /\ mem' = [mem EXCEPT ![th[p].new] = mem[th[p].pa]]
  /\ SetPte(t, th[p].i, th[p].new, MadeWritable(perm[t][th[p].i]))
  /\ Becomes(p, [th[p] EXCEPT !.pc = "kfree", !.ret = "cow"])
  /\ UNCHANGED <<refcnt, freelist, cur, procvars, panicked>>

\* copyout() of a system call such as read(); wait() enters the same code below.
\* On a copy-on-write page without PTE_U (the stack guard of a forked process)
\* handle_cow_fault() returns -1 and the call fails having changed nothing.
CopyoutEntry(p, va, op, np, v) ==
  /\ IsCow(Tab(p), va) => "U" \in perm[Tab(p)][va]
  /\ Becomes(p, IF IsCow(Tab(p), va) THEN CowEntry(p, va, op, np, v)
                ELSE [CowEntry(p, va, op, np, v) EXCEPT !.pc = "copyout", !.pa = None])

Write(p, va, v) ==
  /\ InUser(p)
  /\ CopyoutEntry(p, va, "write", None, v)
  /\ UNCHANGED <<memvars, tabvars, procvars, panicked>>

CopyoutStore(p) ==
  LET t == Tab(p) IN
  /\ At(p, "copyout") /\ Writable(t, th[p].i)
  /\ mem' = [mem EXCEPT ![ppn[t][th[p].i]] = th[p].val]
  /\ IF th[p].op = "wait" THEN GotoUnmap(p, 0, sz[th[p].np]) ELSE ReturnToUser(p)
  /\ UNCHANGED <<refcnt, freelist, tabvars, procvars, panicked>>

CopyoutFail(p) ==
  /\ At(p, "copyout") /\ ~Writable(Tab(p), th[p].i)
  /\ CowFail(p)
  /\ UNCHANGED <<memvars, tabvars, sz, state, parent, panicked>>

-----------------------------------------------------------------------------
(* kfree() as called by decref() and uvmalloc(); uvmunmap(), uvmalloc().   *)

\* Where kfree() returns to.  uvmunmap() clears the PTE only then.
KfreeReturn(p) ==
  CASE th[p].ret = "cow"   -> CowDone(p) /\ UNCHANGED <<ppn, perm>>
    [] th[p].ret = "undo"  -> GotoUnmap(p, th[p].base, th[p].i) /\ UNCHANGED <<ppn, perm>>
    [] th[p].ret = "unmap" -> GotoUnmap(p, th[p].i + 1, th[p].lim) /\ ClearPte(Target(p), th[p].i)

Kfree(p) ==
  /\ At(p, "kfree")
  /\ KfreeDec(th[p].pa)
  /\ IF StillInUse(th[p].pa) THEN KfreeReturn(p)
     ELSE Goto(p, "kfree_push") /\ UNCHANGED <<ppn, perm>>
  /\ UNCHANGED <<cur, procvars, panicked>>

KfreeEnd(p) ==
  /\ At(p, "kfree_push")
  /\ KfreePush(th[p].pa)
  /\ KfreeReturn(p)
  /\ UNCHANGED <<cur, procvars, panicked>>

\* One iteration of uvmunmap(): check the PTE and run kfree()'s first half.
UnmapPage(p) ==
  LET t == Target(p)  pg == ppn[t][th[p].i] IN
  /\ At(p, "unmap") /\ th[p].i < th[p].lim
  /\ \/ pg = None /\ Panic("uvmunmap: not mapped")
     \/ /\ pg # None
        /\ KfreeDec(pg)
        /\ IF StillInUse(pg)
             THEN ClearPte(t, th[p].i) /\ Becomes(p, [th[p] EXCEPT !.i = @ + 1])
             ELSE /\ Becomes(p, [th[p] EXCEPT !.pc = "kfree_push", !.pa = pg, !.ret = "unmap"])
                  /\ UNCHANGED <<ppn, perm>>
        /\ UNCHANGED <<cur, procvars, panicked>>

\* What the caller of uvmunmap() does next.
Unmapped(p) ==
  /\ At(p, "unmap") /\ th[p].i = th[p].lim
  /\ \/ \* growproc() failed, exec() failed, or exec() has freed the old image
        /\ th[p].op \in {"grow", "exec", "execold"}
        /\ UNCHANGED procvars
     \/ \* growproc() with n < 0
        /\ th[p].op = "shrink"
        /\ sz' = [sz EXCEPT ![p] = th[p].base]
        /\ UNCHANGED <<state, parent, waitlock>>
     \/ \* end of freeproc() in wait()
        /\ th[p].op = "wait"
        /\ sz' = [sz EXCEPT ![th[p].np] = 0]
        /\ state' = [state EXCEPT ![th[p].np] = "UNUSED"]
        /\ parent' = [parent EXCEPT ![th[p].np] = None]
        /\ waitlock' = None
  /\ ReturnToUser(p)
  /\ UNCHANGED <<memvars, tabvars, panicked>>

\* Mutant: the undo covers the pages that were asked for, not the ones obtained.
AllocPage_UndoAll(p) ==
  /\ At(p, "kalloc") /\ th[p].i < th[p].lim
  /\ \/ \E pg \in freelist : Kalloc(pg) /\ Becomes(p, [th[p] EXCEPT !.new = pg, !.pc = "map"])
     \/ freelist = {} /\ GotoUnmap(p, th[p].base, th[p].lim) /\ UNCHANGED memvars
  /\ UNCHANGED <<tabvars, procvars, panicked>>

\* uvmalloc()'s kalloc(); when it fails, uvmdealloc() undoes the pages so far.
AllocPage(p) ==
  /\ At(p, "kalloc") /\ th[p].i < th[p].lim
  /\ \/ \E pg \in freelist :
          /\ Kalloc(pg)
          /\ Becomes(p, [th[p] EXCEPT !.new = pg, !.pc = "map"])
     \/ freelist = {} /\ GotoUnmap(p, th[p].base, th[p].i) /\ UNCHANGED memvars
  /\ UNCHANGED <<tabvars, procvars, panicked>>

\* growproc() maps read-write pages; exec() maps as the program and the stack ask.
MapPerm(p) == IF th[p].op = "exec" THEN ImagePerm[th[p].i] ELSE {"W", "U"}

MapPage(p) ==
  /\ At(p, "map")
  /\ IF Remap(Target(p), th[p].i) THEN Panic("mappages: remap")
     ELSE /\ SetPte(Target(p), th[p].i, th[p].new, MapPerm(p))
          /\ Becomes(p, [th[p] EXCEPT !.pc = "kalloc", !.i = @ + 1, !.new = None])
          /\ UNCHANGED <<memvars, cur, procvars, panicked>>

\* Mutant: the page that could not be mapped is forgotten.
MapFail_NoKfree(p) ==
  /\ At(p, "map") /\ th[p].i \in TableStart
  /\ GotoUnmap(p, th[p].base, th[p].i)
  /\ UNCHANGED <<memvars, tabvars, procvars, panicked>>

MapFail(p) ==
  /\ At(p, "map") /\ th[p].i \in TableStart
  /\ Becomes(p, [th[p] EXCEPT !.pc = "kfree", !.ret = "undo", !.pa = th[p].new, !.new = None])
  /\ UNCHANGED <<memvars, tabvars, procvars, panicked>>

-----------------------------------------------------------------------------
(* System calls: sbrk, exec, fork, exit, wait.                             *)

Grow(p, n) ==
  /\ InUser(p) /\ n > sz[p]
  /\ Becomes(p, [Idle EXCEPT !.pc = "kalloc", !.op = "grow",
                              !.i = sz[p], !.lim = n, !.base = sz[p]])
  /\ UNCHANGED <<memvars, tabvars, procvars, panicked>>

Grown(p) ==
  /\ At(p, "kalloc") /\ th[p].op = "grow" /\ th[p].i = th[p].lim
  /\ sz' = [sz EXCEPT ![p] = th[p].lim]
  /\ ReturnToUser(p)
  /\ UNCHANGED <<memvars, tabvars, state, parent, waitlock, panicked>>

Shrink(p, n) ==
  /\ InUser(p) /\ n < sz[p]
  /\ Becomes(p, [Idle EXCEPT !.pc = "unmap", !.op = "shrink",
                              !.i = n, !.lim = sz[p], !.base = n])
  /\ UNCHANGED <<memvars, tabvars, procvars, panicked>>

Exec(p) ==
  /\ InUser(p)
  /\ Becomes(p, [Idle EXCEPT !.pc = "kalloc", !.op = "exec", !.lim = ImageSize])
  /\ UNCHANGED <<memvars, tabvars, procvars, panicked>>

\* A bad header, a short read or too many arguments: goto bad.
ExecBad(p) ==
  /\ At(p, "kalloc") /\ th[p].op = "exec"
  /\ GotoUnmap(p, 0, th[p].i)
  /\ UNCHANGED <<memvars, tabvars, procvars, panicked>>

\* loadseg() and copyout() fill the new pages, which nobody else maps; then the
\* commit to the new image, and proc_freepagetable() starts on the old one.
ExecCommit(p) ==
  /\ At(p, "kalloc") /\ th[p].op = "exec" /\ th[p].i = th[p].lim
  /\ LET new == {ppn[Alt(p)][va] : va \in 0 .. ImageSize-1} IN
     \E image \in [new -> Values] :
       mem' = [pg \in Pages |-> IF pg \in new THEN image[pg] ELSE mem[pg]]
  /\ cur' = [cur EXCEPT ![p] = Other(@)]
  /\ sz' = [sz EXCEPT ![p] = ImageSize]
  /\ Becomes(p, [Idle EXCEPT !.pc = "unmap", !.op = "execold", !.lim = sz[p]])
  /\ UNCHANGED <<refcnt, freelist, ppn, perm, state, parent, waitlock, panicked>>

\* allocproc(); a failure there leaves nothing behind.
Fork(p, c) ==
  /\ InUser(p) /\ state[c] = "UNUSED"
  /\ state' = [state EXCEPT ![c] = "USED"]
  /\ Becomes(p, [Idle EXCEPT !.pc = "dup", !.op = "fork", !.np = c, !.lim = sz[p]])
  /\ UNCHANGED <<memvars, tabvars, sz, parent, waitlock, panicked>>

\* Mutant: PTE_COW is added but PTE_W stays.
SharedPerm_KeepW(fl) == IF "W" \in fl THEN fl \cup {"COW"} ELSE fl

\* What uvmcopy() turns a PTE's flags into, in the parent and in the child.
SharedPerm(fl) == IF "W" \in fl THEN (fl \ {"W"}) \cup {"COW"} ELSE fl

\* One iteration of uvmcopy() up to mappages(); incref() is a later step.
DupPage(p) ==
  LET c == th[p].np  va == th[p].i
      pg == ppn[Tab(p)][va]
      fl == SharedPerm(perm[Tab(p)][va])
  IN
  /\ At(p, "dup") /\ va < th[p].lim
  /\ IF pg = None THEN Panic("uvmcopy: page not present")
     ELSE IF Remap(Tab(c), va) THEN Panic("mappages: remap")
     ELSE /\ ppn' = [ppn EXCEPT ![Tab(c)][va] = pg]
          /\ perm' = [perm EXCEPT ![Tab(p)][va] = fl, ![Tab(c)][va] = fl]
          /\ Becomes(p, [th[p] EXCEPT !.pc = "incref", !.pa = pg])
          /\ UNCHANGED <<memvars, cur, procvars, panicked>>

\* mappages() fails: fork() calls freeproc(np) with np->sz = 0, so uvmfree() unmaps
\* nothing and freewalk() panics if uvmcopy() had already mapped a page.
DupFail(p) ==
  LET c == th[p].np  va == th[p].i IN
  /\ At(p, "dup") /\ va < th[p].lim /\ va \in TableStart /\ ppn[Tab(p)][va] # None
  /\ IF \E x \in Vas : ppn[Tab(c)][x] # None THEN Panic("freewalk: leaf")
     ELSE /\ perm' = [perm EXCEPT ![Tab(p)][va] = SharedPerm(@)]
          /\ state' = [state EXCEPT ![c] = "UNUSED"]
          /\ ReturnToUser(p)
          /\ UNCHANGED <<memvars, ppn, cur, sz, parent, waitlock, panicked>>

DupIncref(p) ==
  /\ At(p, "incref")
  /\ Incref(th[p].pa)
  /\ Becomes(p, [th[p] EXCEPT !.pc = "dup", !.i = @ + 1, !.pa = None])
  /\ UNCHANGED <<tabvars, procvars, panicked>>

\* np->sz, np->parent under wait_lock, and RUNNABLE: only now does the child run.
Forked(p) ==
  LET c == th[p].np IN
  /\ At(p, "dup") /\ th[p].i = th[p].lim /\ waitlock = None
  /\ sz' = [sz EXCEPT ![c] = sz[p]]
  /\ parent' = [parent EXCEPT ![c] = p]
  /\ state' = [state EXCEPT ![c] = "LIVE"]
  /\ th' = [th EXCEPT ![p] = Idle, ![c] = Idle]
  /\ UNCHANGED <<memvars, tabvars, waitlock, panicked>>

\* exit(), called by the program or because the process was killed.  The first
\* process never calls it (user/init.c loops); when it is killed the kernel panics.
Exit(p) ==
  /\ \/ InUser(p) /\ p # InitProc
     \/ At(p, "exit")
  /\ \/ p = InitProc /\ Panic("init exiting")
     \/ /\ p # InitProc /\ waitlock = None
        /\ state' = [state EXCEPT ![p] = "ZOMBIE"]
        /\ parent' = [q \in Procs |-> IF parent[q] = p THEN InitProc ELSE parent[q]]
        /\ Becomes(p, Dead)
        /\ UNCHANGED <<memvars, tabvars, sz, waitlock, panicked>>

\* wait() has found zombie child c.  Without an address for the exit status it
\* goes straight to freeproc(c); a failing copyout() leaves the child a zombie.
FoundZombie(p, c) ==
  /\ InUser(p) /\ waitlock = None /\ parent[c] = p /\ state[c] = "ZOMBIE"
  /\ waitlock' = p
  /\ UNCHANGED <<memvars, tabvars, sz, state, parent, panicked>>

Wait(p, c) ==
  /\ FoundZombie(p, c)
  /\ Becomes(p, [Idle EXCEPT !.pc = "unmap", !.op = "wait", !.np = c, !.lim = sz[c]])

WaitStatus(p, c, va, v) == FoundZombie(p, c) /\ CopyoutEntry(p, va, "wait", c, v)

-----------------------------------------------------------------------------
Syscall(p) ==
  \/ "write" \in Calls /\ \E va \in Vas, v \in Values : Write(p, va, v)
  \/ "sbrk" \in Calls /\ \E n \in 0 .. NVa : Grow(p, n) \/ Shrink(p, n)
  \/ "exec" \in Calls /\ Exec(p)
  \/ "fork" \in Calls /\ \E c \in Procs : Fork(p, c)
  \/ "wait" \in Calls /\ \E c \in Procs : Wait(p, c)
  \/ "status" \in Calls /\ \E c \in Procs, va \in Vas, v \in Values : WaitStatus(p, c, va, v)

\* The steps a thread inside the kernel takes by itself.
KernelStep(p) ==
  \/ CowRefcount(p) \/ CowOwn(p) \/ CowKalloc(p) \/ CowCopy(p)
  \/ CopyoutStore(p) \/ CopyoutFail(p)
  \/ Kfree(p) \/ KfreeEnd(p) \/ UnmapPage(p) \/ Unmapped(p)
  \/ AllocPage(p) \/ MapPage(p) \/ MapFail(p)
  \/ Grown(p) \/ ExecBad(p) \/ ExecCommit(p)
  \/ DupPage(p) \/ DupFail(p) \/ DupIncref(p) \/ Forked(p)

Step(p) ==
  \/ \E va \in Vas, v \in Values : Store(p, va, v)
  \/ \E va \in Vas : StoreFault(p, va)
  \/ Syscall(p)
  \/ KernelStep(p)
  \/ Exit(p)

\* panic() spins for ever; the model stops at the first one.
Halted == panicked # "" /\ UNCHANGED vars

Next == (panicked = "" /\ \E p \in Procs : Step(p)) \/ Halted

Spec == Init /\ [][Next]_vars

-----------------------------------------------------------------------------
(* Properties.                                                             *)

\* A PTE that refcnt does not count: uvmcopy() has mapped the page and not yet
\* called incref(), or uvmunmap() is inside kfree() and has not yet cleared it.
Uncounted(t, va) == \E p \in Procs :
  \/ At(p, "incref") /\ t = Tab(th[p].np) /\ va = th[p].i
  \/ At(p, "kfree_push") /\ th[p].ret = "unmap" /\ t = Target(p) /\ va = th[p].i

\* A thread that holds a reference itself: a page from kalloc() not yet mapped, or
\* a page it is about to give back.
InHand(p, pg) == \/ th[p].pc \in {"cow_copy", "map"} /\ th[p].new = pg
                 \/ At(p, "kfree") /\ th[p].pa = pg

PteRefs(pg)  == {x \in Tables \X Vas : ppn[x[1]][x[2]] = pg /\ ~Uncounted(x[1], x[2])}
HandRefs(pg) == {p \in Procs : InHand(p, pg)}
Freeing(pg)  == \E p \in Procs : At(p, "kfree_push") /\ th[p].pa = pg

\* The reference count of an allocated page is exactly the number of places that
\* refer to it, at every step of every interleaving of fork, faults, exec and exit
\* (kmem.refcnt; incref in uvmcopy, kfree in handle_cow_fault and uvmunmap).
RefcountExact == \A pg \in Pages \ freelist :
  refcnt[pg] = Cardinality(PteRefs(pg)) + Cardinality(HandRefs(pg))

\* No page on the free list is mapped, held, or being freed a second time
\* (kfree's two critical sections, kalloc, handle_cow_fault).
FreeIsUnreferenced == \A pg \in freelist :
  PteRefs(pg) = {} /\ HandRefs(pg) = {} /\ ~Freeing(pg)

\* No page is lost: one that is not free is referred to, or is on its way back to
\* the free list (error paths of uvmalloc, exec, handle_cow_fault, fork).
NoLeak == \A pg \in Pages :
  pg \in freelist \/ PteRefs(pg) # {} \/ HandRefs(pg) # {} \/ Freeing(pg)

\* A page that some PTE lets a user write is mapped by that PTE alone: uvmcopy takes
\* PTE_W from both sides, handle_cow_fault gives it back only to a sole owner.
WritableIsPrivate == \A x, y \in Tables \X Vas :
  /\ ppn[x[1]][x[2]] # None /\ "W" \in perm[x[1]][x[2]]
  /\ ppn[y[1]][y[2]] = ppn[x[1]][x[2]]
  => x = y

\* uvmunmap, uvmcopy and freewalk find the page tables as they expect them: the
\* only panic of the memory system is that of a first process that was killed.
NoVmPanic == panicked \in {"", "init exiting"}

\* When uvmcopy() fails it has freed what it had mapped in the child, so that
\* freewalk() on the child's table finds no leaf.
FailedForkLeavesNoLeaf == panicked # "freewalk: leaf"

(* The user's view, and the abstract specification.                        *)
VisibleSize(p) == IF th[p].op = "shrink" THEN th[p].base ELSE sz[p]
Contents(t, n) == [va \in 0 .. n-1 |-> IF ppn[t][va] = None THEN None ELSE mem[ppn[t][va]]]
Space == [p \in Procs |-> IF state[p] = "LIVE" THEN Contents(Tab(p), VisibleSize(p)) ELSE None]

A == INSTANCE AddressSpaces WITH space <- Space

\* Every behaviour of the copy-on-write kernel is one of private memories that
\* fork() copies at one instant.
PrivateMemories == A!Spec

\* The steps by which process p may change its own memory.
Changes(p) ==
  \/ \E va \in Vas, v \in Values : Store(p, va, v)
  \/ \E n \in Vas : Shrink(p, n)
  \/ CopyoutStore(p) \/ Grown(p) \/ ExecCommit(p) \/ Exit(p)

\* What a step may do, naming who does it: a process's memory changes only by its own
\* store, system call or exit, or by the fork() that creates it; a store or a
\* copyout() is a write of that page alone; fork() copies.
Isolated ==
  /\ \A q \in Procs : Space'[q] # Space[q] =>
       Changes(q) \/ \E p \in Procs : Forked(p) /\ q = th[p].np
  /\ \A p \in Procs :
       /\ \A va \in Vas, v \in Values : Store(p, va, v) => A!Write(p, va, v)
       /\ CopyoutStore(p) => A!Write(p, th[p].i, th[p].val)
       /\ Forked(p) => A!Fork(p, th[p].np)

\* PrivateMemories step by step: no fault, copy, free or failure ever shows to a user
\* program (handle_cow_fault, uvmcopy, kfree, the error paths of exec and sbrk).
Isolation == [][Isolated]_vars
=============================================================================
