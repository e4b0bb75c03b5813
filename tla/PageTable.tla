------------------------------ MODULE PageTable ------------------------------
(***************************************************************************)
(* The three-level page tables of vm.c, with tables of two entries: walk() *)
(* and what is built on it, for the tables of user processes.  A table is  *)
(* changed by its own process only, so a call is one step; the processes   *)
(* meet in the allocator, where the others may leave a call any number of  *)
(* pages.  Sharing of frames by fork() is in CowVM: here a frame has one   *)
(* user.                                                                   *)
(***************************************************************************)
EXTENDS Integers, FiniteSets, FiniteSetsExt, Sequences

CONSTANTS Procs,
          NPAGE,           \* physical pages that kinit() gives to kalloc()
          PGSIZE,
          Segs,            \* where the segments exec() loads end, in their order
          WORD,            \* sizes are modulo WORD
          MaxSize,         \* bound on what sbrk() is asked to grow to
          NoProc

Pages == 1..NPAGE
None == 0
Trampoline == -1           \* a page of the kernel's text
MaxVpn == 7
MAXVA == 8 * PGSIZE
TRAMPOLINE == 7
TRAPFRAME == 6
USERSTACK == 1

(* sizes stay below the trapframe, as 128 MB of memory are below MAXVA *)
ASSUME PageTableAssumption ==
  /\ PGSIZE > 1 /\ NPAGE > 0 /\ Segs \in Seq(Nat \ {0}) /\ MaxSize < TRAPFRAME * PGSIZE
  /\ WORD > 2 * MAXVA

VARIABLES m,        \* memory: page contents as PTEs, kmem.freelist, panic
          proc,     \* p->pagetable, p->trapframe, p->sz
          ret       \* the last call and what it returned
vars == <<m, proc, ret>>

Pte(pa, leaf, u) == [pa |-> pa, v |-> TRUE, leaf |-> leaf, u |-> u]
NoPte == [pa |-> None, v |-> FALSE, leaf |-> FALSE, u |-> FALSE]
Zero == [x \in 0..1 |-> NoPte]
Junk == [x \in 0..1 |-> Pte(None, TRUE, FALSE)]        \* memset(pa, 1, PGSIZE)

NoCall == [call |-> "none", p |-> NoProc, n |-> 0, val |-> 0]
Returns(call, p, n, val) == ret' = [call |-> call, p |-> p, n |-> n, val |-> val]
NoTable == [root |-> None, tf |-> None, sz |-> 0]
Init ==
  /\ m = [pte |-> [g \in Pages |-> Junk], free |-> Pages, left |-> 0, panic |-> FALSE]
  /\ proc = [p \in Procs |-> NoTable]
  /\ ret = NoCall

(* kalloc() fails when the others have left it nothing *)
Allocates(w) == w.left > 0
Allocated(w) == Min(w.free)
kalloc(w) == [w EXCEPT !.free = @ \ {Min(@)}, !.left = @ - 1]
kfree(w, g) == [w EXCEPT !.free = @ \cup {g}, !.pte[g] = Junk, !.panic = @ \/ g \notin Pages]
Panic(w, c) == [w EXCEPT !.panic = @ \/ c]
PX(level, a) == (a \div 2^level) % 2

-----------------------------------------------------------------------------
(* kalloc() and memset(0) *)
NewTable(w) == [kalloc(w) EXCEPT !.pte[Allocated(w)] = Zero]

(* memory, and the table of level 0 that has the PTE of page a, or None *)
RECURSIVE Walk(_, _, _, _, _)
Walk(w, t, a, alloc, level) ==
  LET e == w.pte[t][PX(level, a)] IN
  IF level = 0 THEN [m |-> w, t |-> t]
  ELSE IF e.v THEN IF e.pa \in Pages THEN Walk(w, e.pa, a, alloc, level - 1)
                                     ELSE [m |-> Panic(w, TRUE), t |-> None]
  ELSE IF ~alloc \/ ~Allocates(w) THEN [m |-> w, t |-> None]
  ELSE LET g == Allocated(w)
           n == [NewTable(w) EXCEPT !.pte[t][PX(level, a)] = Pte(g, FALSE, FALSE)]
       IN Walk(n, g, a, alloc, level - 1)
walk(w, t, a, alloc) == IF a > MaxVpn THEN [m |-> Panic(w, TRUE), t |-> None] ELSE Walk(w, t, a, alloc, 2)

(* the PTE of page a, NoPte when walk() finds none *)
PteOf(w, t, a) == LET r == walk(w, t, a, FALSE) IN IF r.t = None THEN NoPte ELSE w.pte[r.t][PX(0, a)]

(* the page of a, None if it is not mapped for the user; va is a page number *)
walkaddr(w, t, a) ==
  IF a > MaxVpn THEN None
  ELSE LET e == PteOf(w, t, a) IN IF e.v /\ e.u THEN e.pa ELSE None

(* one page, as every call for a user table has it; ok is the return value *)
mappages(w, t, a, pa, u) ==
  LET r == walk(w, t, a, TRUE) IN
  IF r.t = None THEN [m |-> r.m, ok |-> FALSE]
  ELSE [m |-> [Panic(r.m, r.m.pte[r.t][PX(0, a)].v) EXCEPT !.pte[r.t][PX(0, a)] = Pte(pa, TRUE, u)],
        ok |-> TRUE]

(* pages a, a+1, ..., a+n-1 *)
RECURSIVE uvmunmap(_, _, _, _, _)
uvmunmap(w, t, a, n, do_free) ==
  IF n = 0 THEN w
  ELSE LET r == walk(w, t, a, FALSE)
           e == PteOf(w, t, a)
           f == IF do_free THEN kfree(w, e.pa) ELSE w
       IN IF r.t = None \/ ~e.v \/ ~e.leaf \/ (do_free /\ e.pa \notin Pages) THEN Panic(w, TRUE)
          ELSE uvmunmap([f EXCEPT !.pte[r.t][PX(0, a)] = NoPte], t, a + 1, n - 1, do_free)

-----------------------------------------------------------------------------
PGROUNDUP(b) == ((b + PGSIZE - 1) \div PGSIZE) * PGSIZE

(* fault: the last page is left mapped *)
uvmdealloc_Short(w, t, oldsz, newsz) ==
  IF newsz >= oldsz THEN [m |-> w, sz |-> oldsz]
  ELSE LET hi == oldsz \div PGSIZE
           lo == PGROUNDUP(newsz) \div PGSIZE
       IN [m |-> IF lo < hi THEN uvmunmap(w, t, lo, hi - lo, TRUE) ELSE w, sz |-> newsz]

uvmdealloc(w, t, oldsz, newsz) ==
  IF newsz >= oldsz THEN [m |-> w, sz |-> oldsz]
  ELSE LET hi == PGROUNDUP(oldsz) \div PGSIZE
           lo == PGROUNDUP(newsz) \div PGSIZE
       IN [m |-> IF lo < hi THEN uvmunmap(w, t, lo, hi - lo, TRUE) ELSE w, sz |-> newsz]

(* pages from byte b on; lo is where the call began; sz is 0 on failure *)
RECURSIVE AllocFrom(_, _, _, _, _)
AllocFrom(w, t, lo, b, newsz) ==
  IF b >= newsz THEN [m |-> w, sz |-> newsz]
  ELSE IF ~Allocates(w) THEN [m |-> uvmdealloc(w, t, b, lo).m, sz |-> 0]
  ELSE LET g == Allocated(w)
           r == mappages([kalloc(w) EXCEPT !.pte[g] = Zero], t, b \div PGSIZE, g, TRUE)
       IN IF r.ok THEN AllocFrom(r.m, t, lo, b + PGSIZE, newsz)
          ELSE [m |-> uvmdealloc(kfree(r.m, g), t, b, lo).m, sz |-> 0]
uvmalloc(w, t, oldsz, newsz) ==
  IF newsz < oldsz THEN [m |-> w, sz |-> oldsz]
  ELSE AllocFrom(w, t, PGROUNDUP(oldsz), PGROUNDUP(oldsz), newsz)

(* page-table pages are freed from the leaves up; a leaf PTE is a panic *)
RECURSIVE freewalk(_, _)
freewalk(w, t) ==
  LET Down(u, x) == IF ~u.pte[t][x].v THEN u
                    ELSE IF u.pte[t][x].leaf THEN Panic(u, TRUE)
                    ELSE [freewalk(u, u.pte[t][x].pa) EXCEPT !.pte[t][x] = NoPte]
  IN kfree(Down(Down(w, 0), 1), t)
uvmfree(w, t, sz) == freewalk(IF sz > 0 THEN uvmunmap(w, t, 0, PGROUNDUP(sz) \div PGSIZE, TRUE) ELSE w, t)
uvmclear(w, t, a) == LET r == walk(w, t, a, FALSE) IN
  IF r.t = None THEN Panic(w, TRUE) ELSE [w EXCEPT !.pte[r.t][PX(0, a)].u = FALSE]

-----------------------------------------------------------------------------

(* uvmcreate(), the trampoline, the trapframe; the two are in one table, so *)
(* that the second mappages() finds it and does not fail *)
proc_pagetable(w, tf) ==
  LET t == Allocated(w)
      a == mappages(NewTable(w), t, TRAMPOLINE, Trampoline, FALSE)
      b == mappages(a.m, t, TRAPFRAME, tf, FALSE)
  IN IF ~Allocates(w) THEN [m |-> w, t |-> None]
     ELSE IF ~a.ok THEN [m |-> uvmfree(a.m, t, 0), t |-> None]
     ELSE IF ~b.ok THEN [m |-> uvmfree(uvmunmap(b.m, t, TRAMPOLINE, 1, FALSE), t, 0), t |-> None]
     ELSE [m |-> b.m, t |-> t]

proc_freepagetable(w, t, sz) ==
  uvmfree(uvmunmap(uvmunmap(w, t, TRAMPOLINE, 1, FALSE), t, TRAPFRAME, 1, FALSE), t, sz)

Done(w) == m' = [w EXCEPT !.left = 0]
With(k) == [m EXCEPT !.left = k]

(* the memory of allocproc(), and freeproc() when it fails *)
allocproc(p, k) ==
  LET w == With(k)
      tf == Allocated(w)
      r == proc_pagetable(kalloc(w), tf)
  IN /\ proc[p].root = None
     /\ IF ~Allocates(w) THEN UNCHANGED <<m, proc>> /\ Returns("alloc", p, 0, -1)
        ELSE IF r.t = None THEN Done(kfree(r.m, tf)) /\ UNCHANGED proc /\ Returns("alloc", p, 0, -1)
        ELSE Done(r.m) /\ proc' = [proc EXCEPT ![p] = [root |-> r.t, tf |-> tf, sz |-> 0]] /\ Returns("alloc", p, 0, 0)
freeproc(p) ==
  /\ proc[p].root # None
  /\ Done(proc_freepagetable(kfree(m, proc[p].tf), proc[p].root, proc[p].sz))
  /\ proc' = [proc EXCEPT ![p] = NoTable] /\ Returns("free", p, 0, 0)

(* sbrk(n): sys_sbrk() and growproc() *)
Asked(p, n) == proc[p].root # None /\ proc[p].sz + n <= MaxSize
Resized(p, n, r, failed) ==
  /\ Done(r.m)
  /\ proc' = IF failed THEN proc ELSE [proc EXCEPT ![p].sz = r.sz]
  /\ Returns("sbrk", p, n, IF failed THEN -1 ELSE proc[p].sz)

(* fault: a failure is not reported *)
growproc_Silent(p, n, k) ==
  LET sz == proc[p].sz
      newsz == (sz + n) % WORD
      r == IF n > 0 THEN uvmalloc(With(k), proc[p].root, sz, newsz)
           ELSE uvmdealloc(With(k), proc[p].root, sz, newsz)
  IN Asked(p, n) /\ Resized(p, n, IF n > 0 /\ r.sz = 0 THEN [r EXCEPT !.sz = sz] ELSE r, FALSE)

growproc(p, n, k) ==
  LET sz == proc[p].sz
      newsz == (sz + n) % WORD
      r == IF n > 0 THEN uvmalloc(With(k), proc[p].root, sz, newsz)
           ELSE uvmdealloc(With(k), proc[p].root, sz, newsz)
  IN Asked(p, n) /\ Resized(p, n, r, n > 0 /\ r.sz = 0)

(* exec()'s loop over the segments, from the i-th on: the file ends before  *)
(* the i-th header when stop is 2i - 1, in the i-th segment when it is 2i *)
RECURSIVE LoadFrom(_, _, _, _, _)
LoadFrom(w, t, sz, i, stop) ==
  LET r == uvmalloc(w, t, sz, Segs[i]) IN
  IF i > Len(Segs) THEN [m |-> w, sz |-> sz, ok |-> TRUE]
  ELSE IF stop = 2 * i - 1 THEN [m |-> w, sz |-> sz, ok |-> FALSE]
  ELSE IF r.sz = 0 THEN [m |-> r.m, sz |-> sz, ok |-> FALSE]
  ELSE IF stop = 2 * i THEN [m |-> r.m, sz |-> r.sz, ok |-> FALSE]
  ELSE LoadFrom(r.m, t, r.sz, i + 1, stop)

(* the guard page and the stack, from byte top on *)
Stack(w, t, top) ==
  LET r == uvmalloc(w, t, top, top + (USERSTACK + 1) * PGSIZE) IN
  IF r.sz = 0 THEN [m |-> r.m, sz |-> top, ok |-> FALSE]
  ELSE [m |-> uvmclear(r.m, t, top \div PGSIZE), sz |-> r.sz, ok |-> TRUE]

(* exec(): a second table, the segments, a guard page and a stack, and the  *)
(* old table freed at the end or the new one on the way out.  The arguments *)
(* do not fit when stop is NoRoom *)
NoRoom == 2 * Len(Segs) + 1
exec(p, k, stop) ==
  /\ proc[p].root # None
  /\ \E t \in {proc_pagetable(With(k), proc[p].tf)} :
       LET Bad(w, sz) == Done(proc_freepagetable(w, t.t, sz)) /\ UNCHANGED proc /\ Returns("exec", p, 0, -1) IN
       IF t.t = None THEN Done(t.m) /\ UNCHANGED proc /\ Returns("exec", p, 0, -1)
       ELSE \E img \in {LoadFrom(t.m, t.t, 0, 1, stop)} :
         IF ~img.ok THEN Bad(img.m, img.sz)
         ELSE \E stk \in {Stack(img.m, t.t, PGROUNDUP(img.sz))} :
           IF ~stk.ok \/ stop = NoRoom THEN Bad(stk.m, stk.sz)
           ELSE /\ Done(proc_freepagetable(stk.m, proc[p].root, proc[p].sz))
                /\ proc' = [proc EXCEPT ![p].root = t.t, ![p].sz = stk.sz]
                /\ Returns("exec", p, 0, 0)

Next ==
  /\ ~m.panic
  /\ \E p \in Procs :
       \/ freeproc(p)
       \/ \E k \in 0..Cardinality(m.free) : allocproc(p, k)
       \/ \E k \in 0..Cardinality(m.free), stop \in 0..NoRoom : exec(p, k, stop)
       \/ \E k \in 0..Cardinality(m.free), n \in {-3, -1, 1, 3} : growproc(p, n, k)
Spec == Init /\ [][Next]_vars

-----------------------------------------------------------------------------
(* copyin() as the physical addresses it copies from, Fail if it returns -1; *)
(* an address is a page and an offset *)
Fail == <<"fail">>
LeastOf(a, b) == IF a < b THEN a ELSE b

CopyLen(va, len) == LeastOf(PGSIZE - (va % PGSIZE), len)

RECURSIVE copyin(_, _, _)
copyin(t, va, len) ==
  LET pa == walkaddr(m, t, va \div PGSIZE)
      n == CopyLen(va, len)
      rest == copyin(t, (va \div PGSIZE + 1) * PGSIZE, len - n)
  IN IF len <= 0 THEN <<>>
     ELSE IF pa = None THEN Fail
     ELSE IF rest = Fail THEN Fail
     ELSE [i \in 1..n |-> <<pa, (va % PGSIZE) + i - 1>>] \o rest

(* copyinstr(), where memory is 0 at the addresses of nul: what is copied   *)
(* before the 0 *)
RECURSIVE copyinstr(_, _, _, _)

(* fault: max is counted anew on every page *)
copyinstr_Max(t, va, max, nul) ==
  LET pa == walkaddr(m, t, va \div PGSIZE)
      n == CopyLen(va, max)
      part == [i \in 1..n |-> <<pa, (va % PGSIZE) + i - 1>>]
      stop == {i \in 1..n : part[i] \in nul}
      rest == copyinstr(t, (va \div PGSIZE + 1) * PGSIZE, max, nul)
  IN IF max = 0 THEN Fail
     ELSE IF pa = None THEN Fail
     ELSE IF stop # {} THEN SubSeq(part, 1, Min(stop) - 1)
     ELSE IF rest = Fail THEN Fail ELSE part \o rest

copyinstr(t, va, max, nul) ==
  LET pa == walkaddr(m, t, va \div PGSIZE)
      n == CopyLen(va, max)
      part == [i \in 1..n |-> <<pa, (va % PGSIZE) + i - 1>>]
      stop == {i \in 1..n : part[i] \in nul}
      rest == copyinstr(t, (va \div PGSIZE + 1) * PGSIZE, max - n, nul)
  IN IF max = 0 THEN Fail
     ELSE IF pa = None THEN Fail
     ELSE IF stop # {} THEN SubSeq(part, 1, Min(stop) - 1)
     ELSE IF rest = Fail THEN Fail ELSE part \o rest

-----------------------------------------------------------------------------
Live == {p \in Procs : proc[p].root # None}
RECURSIVE TablesFrom(_, _)
TablesFrom(t, level) ==
  {t} \cup IF level = 0 THEN {}
           ELSE UNION {TablesFrom(m.pte[t][x].pa, level - 1) : x \in {y \in 0..1 : m.pte[t][y].v}}
Tables(p) == TablesFrom(proc[p].root, 2)
UserVpns(p) == 0..(PGROUNDUP(proc[p].sz) \div PGSIZE) - 1
Leaves(p) == {PteOf(m, proc[p].root, a).pa : a \in UserVpns(p)}

(* Every page is accounted for, also after a call that ran out of memory    *)
(* half way: it is free, or a trapframe, a table or a frame of one process. *)
(* No call finds a page mapped twice or not mapped, which would be a panic. *)
PagesExact ==
  /\ ~m.panic
  /\ m.free \cup UNION {{proc[p].tf} \cup Tables(p) \cup Leaves(p) : p \in Live} = Pages
  /\ Cardinality(m.free) + MapThenSumSet(LAMBDA p :
        1 + Cardinality(Tables(p)) + Cardinality(UserVpns(p)), Live) = NPAGE

(* what a copy of the bytes va..va+len-1 reads, byte by byte *)
Byte(p, va) == <<walkaddr(m, proc[p].root, va \div PGSIZE), va % PGSIZE>>
Readable(p, va, len) == \A b \in va..va+len-1 : Byte(p, b)[1] # None
Bytes(p, va, len) == [i \in 1..len |-> Byte(p, va + i - 1)]

(* copyin() copies exactly the bytes asked for, or fails because one of     *)
(* them is not mapped for the user, at any offset and across any pages;     *)
(* copyinstr() copies up to the first 0 among the next max bytes, and needs *)
(* no byte behind it to be mapped. *)
CopiesExact ==
  /\ \A p \in Live, va \in 0..MAXVA, len \in 0..3 * PGSIZE :
       copyin(proc[p].root, va, len) = IF Readable(p, va, len) THEN Bytes(p, va, len) ELSE Fail
  /\ \A p \in Live, va \in 0..MAXVA, max \in 0..2 * PGSIZE : \A z \in 0..max + 1 :
       LET found == z < max /\ Readable(p, va, z + 1)        \* z is where the 0 is
       IN copyinstr(proc[p].root, va, max, {Byte(p, va + z)}) = IF found THEN Bytes(p, va, z) ELSE Fail

(* The tables implement PageMap: no process sees a page move, appear in two *)
(* places or vanish, and what sbrk() and exec() return tells whether they   *)
(* changed the space and how, wherever in them memory runs out. *)
Map == INSTANCE PageMap WITH
  Frames <- Pages, ExecSize <- PGROUNDUP(Segs[Len(Segs)]) + (USERSTACK + 1) * PGSIZE,
  space <- [p \in Procs |-> IF p \notin Live THEN NoProc
              ELSE [sz |-> proc[p].sz, frame |-> [a \in UserVpns(p) |-> PteOf(m, proc[p].root, a).pa]]]
RefinesPageMap == Map!Spec
=============================================================================
