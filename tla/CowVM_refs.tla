------------------------------ MODULE CowVM_refs ------------------------------
(***************************************************************************)
(* Layer 2 of the proofs about CowVM: reference counts, seen from outside  *)
(* the threads.  A step matters to the counts only through the page every  *)
(* PTE maps (PageAt), the PTE a thread has left uncounted (Holes), the     *)
(* page it holds (Hands) and the page it is about to put on the free list  *)
(* (Pushes).  There is one lemma per way in which a step can change these, *)
(* and one per action that says which way it takes.                        *)
(***************************************************************************)
EXTENDS CowVM_control, Counting

Holes(p) == CASE At(p, "incref") -> {<<Tab(th[p].np), th[p].i>>}
              [] At(p, "kfree_push") /\ th[p].ret = "unmap" -> {<<Target(p), th[p].i>>}
              [] OTHER -> {}
Hands(p) == CASE th[p].pc \in {"cow_copy", "map"} -> {th[p].new}
              [] At(p, "kfree") -> {th[p].pa}
              [] OTHER -> {}
Pushes(p) == IF At(p, "kfree_push") THEN {th[p].pa} ELSE {}

Counted(pg) == {x \in Places : PageAt(x) = pg /\ \A q \in Procs : x \notin Holes(q)}
Holding(pg) == {q \in Procs : pg \in Hands(q)}
Status(pg) == IF pg \in freelist THEN "free"
              ELSE IF \E q \in Procs : pg \in Pushes(q) THEN "freeing" ELSE "used"

\* Every counter is right, and no page is pushed twice.  The laws of counting are a
\* theorem (CountingLawsHold in CowVM_safety), carried along for the proofs below.
CountsOK ==
  /\ CountingLaws
  /\ \A pg \in Pages : Balanced(Counted(pg), Holding(pg), refcnt[pg], Status(pg))
  /\ \A q \in Procs, pg \in Pages : pg \in Pushes(q) =>
       pg \notin freelist /\ \A r \in Procs : pg \in Pushes(r) => r = q

\* A step that leaves the other threads' part of the view alone.
Others(p) == \A q \in Procs : q # p =>
  Holes(q)' = Holes(q) /\ Hands(q)' = Hands(q) /\ Pushes(q)' = Pushes(q)

\* The laws of counting apply to every page.
LEMMA Laws == CountsOK => CountingLaws
BY Zenon DEF CountsOK

\* The count of a page is one the laws speak of.
LEMMA CountOf ==
  ASSUME CountsOK, MemType, NEW pg \in Pages
  PROVE  Count(Counted(pg), Holding(pg), refcnt[pg], Status(pg))
<1>1. IsFiniteSet(Places)
  BY Zenon, Laws, ProcsAssumption, SizeAssumption DEF CountingLaws, PlacesFinite, Places, Tables, Vas
<1>2. Counted(pg) \in SUBSET Places /\ Holding(pg) \in SUBSET Procs
  BY Zenon DEF Counted, Holding
<1>3. IsFiniteSet(Counted(pg)) /\ IsFiniteSet(Holding(pg))
  BY Zenon, <1>1, <1>2, Laws, ProcsAssumption DEF CountingLaws, SubsetFinite
<1> QED BY Zenon, <1>3 DEF Count, CountsOK, MemType

\* A thread's view changes in no way that matters.
LEMMA CountsStutter ==
  ASSUME CountsOK, NEW p \in Procs, Others(p), Holes(p)' = Holes(p), Hands(p)' = Hands(p),
         Pushes(p)' = Pushes(p), \A x \in Places : PageAt(x)' = PageAt(x),
         UNCHANGED <<refcnt, freelist>>
  PROVE  CountsOK'
<1>1. \A q \in Procs : Holes(q)' = Holes(q) /\ Hands(q)' = Hands(q) /\ Pushes(q)' = Pushes(q)
  BY Zenon DEF Others
<1>2. \A pg \in Pages : Counted(pg)' = Counted(pg) /\ Holding(pg)' = Holding(pg)
  BY Zenon, <1>1 DEF Counted, Holding
<1>3. \A pg \in Pages : Status(pg)' = Status(pg)
  BY Zenon, <1>1 DEF Status
<1> QED BY <1>1, <1>2, <1>3 DEF CountsOK

\* kalloc().
LEMMA CountsKalloc ==
  ASSUME CountsOK, MemType, NEW p \in Procs, Others(p), Holes(p)' = Holes(p), Hands(p) = {},
         Pushes(p)' = Pushes(p), \A x \in Places : PageAt(x)' = PageAt(x),
         NEW pg \in Pages, Kalloc(pg), Hands(p)' = {pg}
  PROVE  CountsOK'
<1>0. pg \in freelist /\ freelist' = freelist \ {pg} /\ refcnt' = [refcnt EXCEPT ![pg] = 1]
  BY Zenon DEF Kalloc
<1>1. \A q \in Procs : Holes(q)' = Holes(q) /\ Pushes(q)' = Pushes(q)
  BY Zenon DEF Others
<1>2. \A y \in Pages : Counted(y)' = Counted(y)
  BY Zenon, <1>1 DEF Counted
<1>3. Counted(pg) = {} /\ Holding(pg) = {}
  BY Zenon, <1>0 DEF CountsOK, Balanced, Status
<1>4. Holding(pg)' = {p}
  BY Zenon, <1>3 DEF Holding, Others
<1>5. \A y \in Pages : y # pg => Holding(y)' = Holding(y)
  BY Zenon DEF Holding, Others
<1>6. Status(pg)' = "used"
  BY <1>0, <1>1 DEF Status, CountsOK
<1>7. \A y \in Pages : y # pg => Status(y)' = Status(y) /\ refcnt'[y] = refcnt[y]
  BY Zenon, <1>0, <1>1 DEF Status, MemType
<1>8. refcnt'[pg] = 1
  BY Zenon, <1>0 DEF MemType
<1>9. \A y \in Pages : Balanced(Counted(y), Holding(y), refcnt[y], Status(y))'
  <2> SUFFICES ASSUME NEW y \in Pages
               PROVE  Balanced(Counted(y)', Holding(y)', refcnt'[y], Status(y)')
    BY Zenon DEF Balanced
  <2>1. CASE y = pg
    BY Zenon, <1>2, <1>3, <1>4, <1>6, <1>8, <2>1, Laws DEF CountingLaws, FirstHand
  <2>2. CASE y # pg
    BY <1>2, <1>5, <1>7, <2>2 DEF CountsOK
  <2> QED BY Zenon, <2>1, <2>2
<1> QED BY <1>0, <1>1, <1>9 DEF CountsOK

\* A PTE takes over the page a thread holds: mappages() in uvmalloc().
LEMMA CountsMap ==
  ASSUME CountsOK, MemType, NEW p \in Procs, Others(p), Holes(p)' = Holes(p),
         Pushes(p)' = Pushes(p), UNCHANGED <<refcnt, freelist>>,
         NEW new \in Pages, Hands(p) = {new}, Hands(p)' = {},
         NEW e \in Places, PageAt(e) \notin Pages, \A q \in Procs : e \notin Holes(q),
         \A x \in Places : PageAt(x)' = IF x = e THEN new ELSE PageAt(x)
  PROVE  CountsOK'
<1>1. \A q \in Procs : Holes(q)' = Holes(q) /\ Pushes(q)' = Pushes(q)
  BY Zenon DEF Others
<1>2. Counted(new)' = Counted(new) \cup {e} /\ e \notin Counted(new)
  BY Zenon, <1>1 DEF Counted
<1>3. Holding(new)' = Holding(new) \ {p} /\ p \in Holding(new)
  BY Zenon DEF Holding, Others
<1>4. \A y \in Pages : y # new => Counted(y)' = Counted(y)
  BY Zenon, <1>1 DEF Counted
<1>5. \A y \in Pages : y # new => Holding(y)' = Holding(y)
  BY DEF Holding, Others
<1>6. \A y \in Pages : Status(y)' = Status(y)
  BY Zenon, <1>1 DEF Status
<1>7. \A y \in Pages : Balanced(Counted(y), Holding(y), refcnt[y], Status(y))'
  <2> SUFFICES ASSUME NEW y \in Pages
               PROVE  Balanced(Counted(y)', Holding(y)', refcnt'[y], Status(y)')
    BY Zenon DEF Balanced
  <2>1. CASE y = new
    <3>1. Balanced(Counted(new), Holding(new), refcnt[new], Status(new)) /\ refcnt[new] \in Int
      BY Zenon DEF CountsOK, MemType
    <3>2. Status(new) = "used"
      BY <1>3, <3>1, CountOf, Laws DEF CountingLaws, HandMeansUsed
    <3> QED BY <1>2, <1>3, <1>6, <2>1, <3>1, <3>2, CountOf, Laws DEF CountingLaws, HandToPte
  <2>2. CASE y # new
    BY <1>4, <1>5, <1>6, <2>2 DEF CountsOK
  <2> QED BY Zenon, <2>1, <2>2
<1> QED BY <1>1, <1>7 DEF CountsOK

\* The same in handle_cow_fault(), where the PTE gives up the page it mapped.
LEMMA CountsCopy ==
  ASSUME CountsOK, MemType, NEW p \in Procs, Others(p), Holes(p)' = Holes(p),
         Pushes(p)' = Pushes(p), UNCHANGED <<refcnt, freelist>>,
         NEW new \in Pages, Hands(p) = {new}, NEW pa \in Pages, Hands(p)' = {pa}, pa # new,
         NEW e \in Places, PageAt(e) = pa, \A q \in Procs : e \notin Holes(q),
         \A x \in Places : PageAt(x)' = IF x = e THEN new ELSE PageAt(x)
  PROVE  CountsOK'
<1>1. \A q \in Procs : Holes(q)' = Holes(q) /\ Pushes(q)' = Pushes(q)
  BY Zenon DEF Others
<1>2. /\ Counted(new)' = Counted(new) \cup {e} /\ e \notin Counted(new)
      /\ Counted(pa)' = Counted(pa) \ {e} /\ e \in Counted(pa)
  BY Zenon, <1>1 DEF Counted
<1>3. /\ Holding(new)' = Holding(new) \ {p} /\ p \in Holding(new)
      /\ Holding(pa)' = Holding(pa) \cup {p} /\ p \notin Holding(pa)
  BY Zenon DEF Holding, Others
<1>4. \A y \in Pages : y \notin {new, pa} => Counted(y)' = Counted(y)
  BY <1>1 DEF Counted
<1>5. \A y \in Pages : y \notin {new, pa} => Holding(y)' = Holding(y)
  BY Zenon DEF Holding, Others
<1>6. \A y \in Pages : Status(y)' = Status(y)
  BY Zenon, <1>1 DEF Status
<1>7. \A y \in Pages : Balanced(Counted(y), Holding(y), refcnt[y], Status(y))'
  <2> SUFFICES ASSUME NEW y \in Pages
               PROVE  Balanced(Counted(y)', Holding(y)', refcnt'[y], Status(y)')
    BY Zenon DEF Balanced
  <2>0. Balanced(Counted(y), Holding(y), refcnt[y], Status(y)) /\ refcnt[y] \in Int
    BY Zenon DEF CountsOK, MemType
  <2>1. CASE y = new
    <3>1. Status(y) = "used"
      BY <1>3, <2>0, <2>1, CountOf, Laws DEF CountingLaws, HandMeansUsed
    <3> QED BY <1>2, <1>3, <1>6, <2>0, <2>1, <3>1, CountOf, Laws DEF CountingLaws, HandToPte
  <2>2. CASE y = pa
    <3>1. Status(y) = "used"
      BY <1>2, <2>0, <2>2, CountOf, Laws DEF CountingLaws, PteMeansUsed
    <3> QED BY <1>2, <1>3, <1>6, <2>0, <2>2, <3>1, CountOf, Laws DEF CountingLaws, PteToHand
  <2>3. CASE y \notin {new, pa}
    BY <1>4, <1>5, <1>6, <2>3 DEF CountsOK
  <2> QED BY Zenon, <2>1, <2>2, <2>3
<1> QED BY <1>1, <1>7 DEF CountsOK

\* incref(): the PTE that was left uncounted is counted.
LEMMA CountsIncref ==
  ASSUME CountsOK, MemType, NEW p \in Procs, Others(p), Hands(p)' = Hands(p),
         Pushes(p)' = Pushes(p), \A x \in Places : PageAt(x)' = PageAt(x),
         NEW pa \in Pages, Incref(pa), NEW e \in Places, Holes(p) = {e}, Holes(p)' = {},
         \A q \in Procs : q # p => e \notin Holes(q),
         PageAt(e) = pa, Counted(pa) # {}
  PROVE  CountsOK'
<1>0. freelist' = freelist /\ refcnt' = [refcnt EXCEPT ![pa] = refcnt[pa] + 1]
  BY Zenon DEF Incref
<1>1. \A q \in Procs : Hands(q)' = Hands(q) /\ Pushes(q)' = Pushes(q)
  BY Zenon DEF Others
<1>2. Counted(pa)' = Counted(pa) \cup {e} /\ e \notin Counted(pa)
  BY Zenon DEF Counted, Others
<1>3. \A y \in Pages : y # pa => Counted(y)' = Counted(y)
  BY DEF Counted, Others
<1>4. \A y \in Pages : Holding(y)' = Holding(y)
  BY Zenon, <1>1 DEF Holding
<1>5. \A y \in Pages : Status(y)' = Status(y)
  BY Zenon, <1>0, <1>1 DEF Status
<1>6. \A y \in Pages : refcnt'[y] = IF y = pa THEN refcnt[pa] + 1 ELSE refcnt[y]
  BY Zenon, <1>0 DEF MemType
<1>7. \A y \in Pages : Balanced(Counted(y), Holding(y), refcnt[y], Status(y))'
  <2> SUFFICES ASSUME NEW y \in Pages
               PROVE  Balanced(Counted(y)', Holding(y)', refcnt'[y], Status(y)')
    BY Zenon DEF Balanced
  <2>0. Balanced(Counted(y), Holding(y), refcnt[y], Status(y)) /\ refcnt[y] \in Int
    BY Zenon DEF CountsOK, MemType
  <2>1. CASE y = pa
    <3>1. Status(y) = "used"
      BY <2>0, <2>1, CountOf, Laws DEF CountingLaws, PteMeansUsed
    <3> QED BY <1>2, <1>4, <1>5, <1>6, <2>0, <2>1, <3>1, CountOf, Laws DEF CountingLaws, AddPte
  <2>2. CASE y # pa
    BY Zenon, <1>3, <1>4, <1>5, <1>6, <2>0, <2>2
  <2> QED BY Zenon, <2>1, <2>2
<1> QED BY <1>0, <1>1, <1>7 DEF CountsOK

\* The first half of kfree() by a thread that holds the page.
LEMMA CountsKfree ==
  ASSUME CountsOK, MemType, NEW p \in Procs, Others(p), Holes(p)' = Holes(p),
         \A x \in Places : PageAt(x)' = PageAt(x),
         NEW pa \in Pages, KfreeDec(pa), Hands(p) = {pa}, Hands(p)' = {}, Pushes(p) = {},
         Pushes(p)' = IF StillInUse(pa) THEN {} ELSE {pa}
  PROVE  CountsOK'
<1>0. freelist' = freelist /\ refcnt' = [refcnt EXCEPT ![pa] = refcnt[pa] - 1]
  BY Zenon DEF KfreeDec
<1>1. \A q \in Procs : Holes(q)' = Holes(q)
  BY Zenon DEF Others
<1>2. \A y \in Pages : Counted(y)' = Counted(y)
  BY Zenon, <1>1 DEF Counted
<1>3. Holding(pa)' = Holding(pa) \ {p} /\ p \in Holding(pa)
  BY Zenon DEF Holding, Others
<1>4. \A y \in Pages : y # pa => Holding(y)' = Holding(y)
  BY Zenon DEF Holding, Others
<1>5. Balanced(Counted(pa), Holding(pa), refcnt[pa], Status(pa)) /\ refcnt[pa] \in Int
  BY Zenon DEF CountsOK, MemType
<1>6. Status(pa) = "used" /\ refcnt[pa] >= 1
  BY <1>3, <1>5, CountOf, Laws DEF CountingLaws, HandMeansUsed
<1>7. pa \notin freelist /\ \A q \in Procs : pa \notin Pushes(q)
  BY Zenon, <1>6 DEF Status
<1>8. Status(pa)' = IF refcnt[pa] - 1 > 0 THEN "used" ELSE "freeing"
  BY Zenon, <1>0, <1>7 DEF Status, Others, StillInUse
<1>9. \A y \in Pages : y # pa => Status(y)' = Status(y)
  BY Zenon, <1>0 DEF Status, Others
<1>10. \A y \in Pages : refcnt'[y] = IF y = pa THEN refcnt[pa] - 1 ELSE refcnt[y]
  BY Zenon, <1>0 DEF MemType
<1>11. \A y \in Pages : Balanced(Counted(y), Holding(y), refcnt[y], Status(y))'
  <2> SUFFICES ASSUME NEW y \in Pages
               PROVE  Balanced(Counted(y)', Holding(y)', refcnt'[y], Status(y)')
    BY Zenon DEF Balanced
  <2>1. CASE y = pa
    <3>1. Balanced(Counted(pa), Holding(pa) \ {p}, refcnt[pa] - 1,
                   IF refcnt[pa] - 1 > 0 THEN "used" ELSE "freeing")
      BY ZenonT(40), <1>3, CountOf, Laws DEF CountingLaws, DropHand
    <3> QED BY ZenonT(40), <1>2, <1>3, <1>8, <1>10, <2>1, <3>1
  <2>2. CASE y # pa
    BY <1>2, <1>4, <1>9, <1>10, <2>2 DEF CountsOK
  <2> QED BY Zenon, <2>1, <2>2
<1>12. ASSUME NEW q \in Procs, NEW pg \in Pages, pg \in Pushes(q)'
       PROVE  pg \notin freelist' /\ \A r \in Procs : pg \in Pushes(r)' => r = q
  BY <1>0, <1>7, <1>12 DEF CountsOK, Others
<1> QED BY Zenon, <1>11, <1>12 DEF CountsOK

\* One iteration of uvmunmap(): the PTE is cleared, or left uncounted while the page
\* goes to the free list.
LEMMA CountsUnmap ==
  ASSUME CountsOK, MemType, NEW p \in Procs, Others(p), Hands(p)' = Hands(p),
         NEW pa \in Pages, KfreeDec(pa), Pushes(p) = {}, Holes(p) = {},
         NEW e \in Places, PageAt(e) = pa, \A q \in Procs : e \notin Holes(q),
         Pushes(p)' = IF StillInUse(pa) THEN {} ELSE {pa},
         Holes(p)'  = IF StillInUse(pa) THEN {} ELSE {e},
         \A x \in Places : PageAt(x)' = IF StillInUse(pa) /\ x = e THEN None ELSE PageAt(x)
  PROVE  CountsOK'
<1>0. freelist' = freelist /\ refcnt' = [refcnt EXCEPT ![pa] = refcnt[pa] - 1]
  BY Zenon DEF KfreeDec
<1>1. Counted(pa)' = Counted(pa) \ {e} /\ e \in Counted(pa)
  BY Zenon, PagesAssumption DEF Counted, Others
<1>2. \A y \in Pages : y # pa => Counted(y)' = Counted(y)
  BY Zenon, PagesAssumption DEF Counted, Others
<1>3. \A y \in Pages : Holding(y)' = Holding(y)
  BY Zenon DEF Holding, Others
<1>5. Balanced(Counted(pa), Holding(pa), refcnt[pa], Status(pa)) /\ refcnt[pa] \in Int
  BY Zenon DEF CountsOK, MemType
<1>6. Status(pa) = "used" /\ refcnt[pa] >= 1
  BY <1>1, <1>5, CountOf, Laws DEF CountingLaws, PteMeansUsed
<1>7. pa \notin freelist /\ \A q \in Procs : pa \notin Pushes(q)
  BY Zenon, <1>6 DEF Status
<1>8. Status(pa)' = IF refcnt[pa] - 1 > 0 THEN "used" ELSE "freeing"
  BY Zenon, <1>0, <1>7 DEF Status, Others, StillInUse
<1>9. \A y \in Pages : y # pa => Status(y)' = Status(y)
  BY Zenon, <1>0 DEF Status, Others
<1>10. \A y \in Pages : refcnt'[y] = IF y = pa THEN refcnt[pa] - 1 ELSE refcnt[y]
  BY Zenon, <1>0 DEF MemType
<1>11. \A y \in Pages : Balanced(Counted(y), Holding(y), refcnt[y], Status(y))'
  <2> SUFFICES ASSUME NEW y \in Pages
               PROVE  Balanced(Counted(y)', Holding(y)', refcnt'[y], Status(y)')
    BY Zenon DEF Balanced
  <2>1. CASE y = pa
    <3>1. Balanced(Counted(pa) \ {e}, Holding(pa), refcnt[pa] - 1,
                   IF refcnt[pa] - 1 > 0 THEN "used" ELSE "freeing")
      BY ZenonT(40), <1>1, CountOf, Laws DEF CountingLaws, DropPte
    <3> QED BY ZenonT(40), <1>1, <1>3, <1>8, <1>10, <2>1, <3>1
  <2>2. CASE y # pa
    BY Zenon, <1>2, <1>3, <1>9, <1>10, <2>2 DEF CountsOK
  <2> QED BY Zenon, <2>1, <2>2
<1>12. ASSUME NEW q \in Procs, NEW pg \in Pages, pg \in Pushes(q)'
       PROVE  pg \notin freelist' /\ \A r \in Procs : pg \in Pushes(r)' => r = q
  BY <1>0, <1>7, <1>12 DEF CountsOK, Others
<1> QED BY Zenon, <1>11, <1>12 DEF CountsOK

\* The second half of kfree(); uvmunmap() clears the PTE it had left.
LEMMA CountsPush ==
  ASSUME CountsOK, MemType, NEW p \in Procs, Others(p), Hands(p)' = Hands(p),
         NEW pa \in Pages, KfreePush(pa), Pushes(p) = {pa}, Pushes(p)' = {}, Holes(p)' = {},
         \A x \in Places : PageAt(x)' = IF x \in Holes(p) THEN None ELSE PageAt(x)
  PROVE  CountsOK'
<1>0. freelist' = freelist \cup {pa} /\ refcnt' = refcnt
  BY Zenon DEF KfreePush
<1>1. \A y \in Pages : Counted(y)' = Counted(y)
  <2> SUFFICES ASSUME NEW y \in Pages, NEW x \in Places
               PROVE  x \in Counted(y)' <=> x \in Counted(y)
    BY Zenon DEF Counted
  <2>1. y # None
    BY Zenon, PagesAssumption
  <2>2. CASE x \in Holes(p)
    BY Zenon, <2>1, <2>2 DEF Counted
  <2>3. CASE x \notin Holes(p)
    BY Zenon, <2>3 DEF Counted, Others
  <2> QED BY Zenon, <2>2, <2>3
<1>2. \A y \in Pages : Holding(y)' = Holding(y)
  BY Zenon DEF Holding, Others
<1>3. pa \notin freelist /\ \A q \in Procs : pa \in Pushes(q) => q = p
  BY Zenon DEF CountsOK
<1>4. Status(pa) = "freeing"
  BY Zenon, <1>3 DEF Status
<1>5. Counted(pa) = {} /\ Holding(pa) = {}
  BY Zenon, <1>4 DEF CountsOK, Balanced
<1>6. Status(pa)' = "free"
  BY Zenon, <1>0 DEF Status
<1>7. \A y \in Pages : y # pa => Status(y)' = Status(y)
  BY Zenon, <1>0 DEF Status, Others
<1>8. \A y \in Pages : Balanced(Counted(y), Holding(y), refcnt[y], Status(y))'
  <2> SUFFICES ASSUME NEW y \in Pages
               PROVE  Balanced(Counted(y)', Holding(y)', refcnt'[y], Status(y)')
    BY Zenon DEF Balanced
  <2>1. CASE y = pa
    BY Zenon, <1>1, <1>2, <1>5, <1>6, <2>1 DEF Balanced
  <2>2. CASE y # pa
    BY <1>0, <1>1, <1>2, <1>7, <2>2 DEF CountsOK
  <2> QED BY Zenon, <2>1, <2>2
<1>9. ASSUME NEW q \in Procs, NEW pg \in Pages, pg \in Pushes(q)'
      PROVE  pg \notin freelist' /\ \A r \in Procs : pg \in Pushes(r)' => r = q
  BY <1>0, <1>3, <1>9 DEF CountsOK, Others
<1> QED BY Zenon, <1>8, <1>9 DEF CountsOK

\* mappages() in uvmcopy(): a PTE more, not counted yet.
LEMMA CountsDup ==
  ASSUME CountsOK, NEW p \in Procs, Others(p), Hands(p)' = Hands(p),
         Pushes(p)' = Pushes(p), UNCHANGED <<refcnt, freelist>>,
         NEW e \in Places, PageAt(e) \notin Pages, Holes(p) = {}, Holes(p)' = {e},
         \A x \in Places : x # e => PageAt(x)' = PageAt(x)
  PROVE  CountsOK'
<1>1. \A q \in Procs : Hands(q)' = Hands(q) /\ Pushes(q)' = Pushes(q)
  BY Zenon DEF Others
<1>2. \A y \in Pages : Holding(y)' = Holding(y)
  BY Zenon, <1>1 DEF Holding
<1>3. \A y \in Pages : Status(y)' = Status(y)
  BY Zenon, <1>1 DEF Status
<1>4. \A y \in Pages : Counted(y)' = Counted(y)
  <2> SUFFICES ASSUME NEW y \in Pages, NEW x \in Places
               PROVE  x \in Counted(y)' <=> x \in Counted(y)
    BY Zenon DEF Counted
  <2>2. CASE x = e
    BY Zenon, <2>2 DEF Counted
  <2>3. CASE x # e
    BY Zenon, <2>3 DEF Counted, Others
  <2> QED BY Zenon, <2>2, <2>3
<1> QED BY <1>1, <1>2, <1>3, <1>4 DEF CountsOK

RefsOK == CountsOK /\ (\A p \in Procs : LocalOK(p)) /\ WritableIsPrivate

\* Where the view of a thread lies.
LEMMA ViewType ==
  ASSUME Control, NEW q \in Procs
  PROVE  /\ Holes(q) \in SUBSET Places /\ Hands(q) \in SUBSET Pages /\ Pushes(q) \in SUBSET Pages
         /\ \A x \in Holes(q) : x[1][1] \in Slots(q)
         /\ At(q, "dead") => Holes(q) = {} /\ Hands(q) = {} /\ Pushes(q) = {}
<1>0. th[q] \in Thread /\ ThreadOK(th[q]) /\ TabType /\ Target(q) \in Tables
  BY Zenon, TypeParts, TargetType DEF Control, ThreadsOK
<1>6. th[q].i \in 0 .. NVa /\ th[q].lim \in 0 .. NVa
  BY ZenonT(40), <1>0 DEF Thread
<1>1. Hands(q) \in SUBSET Pages /\ Pushes(q) \in SUBSET Pages
  BY Zenon, <1>0 DEF Hands, Pushes, ThreadOK, At
<1>2. At(q, "dead") => Holes(q) = {} /\ Hands(q) = {} /\ Pushes(q) = {}
  BY Zenon DEF Holes, Hands, Pushes, At
<1>3. CASE At(q, "incref")
  <2>1. th[q].op = "fork" /\ th[q].np \in Procs /\ th[q].i < th[q].lim
    BY Zenon, <1>0, <1>3 DEF ThreadOK, At
  <2>2. th[q].i \in Vas /\ Tab(th[q].np) \in Tables /\ Tab(th[q].np)[1] = th[q].np
    BY <1>0, <1>6, <2>1, TablesOf, SizeAssumption DEF Vas, Tab
  <2>3. Holes(q) = {<<Tab(th[q].np), th[q].i>>}
    BY Zenon, <1>3 DEF Holes, At
  <2> QED BY <1>1, <1>2, <2>1, <2>2, <2>3 DEF Places, Slots
<1>4. CASE At(q, "kfree_push") /\ th[q].ret = "unmap"
  <2>1. th[q].i < th[q].lim
    BY Zenon, <1>0, <1>4 DEF ThreadOK, At
  <2>2. th[q].i \in Vas
    BY <1>6, <2>1, SizeAssumption DEF Vas
  <2>3. Target(q)[1] \in Slots(q)
    BY Zenon DEF Target, Slots, Tab, Alt
  <2>4. Holes(q) = {<<Target(q), th[q].i>>}
    BY Zenon, <1>4 DEF Holes, At
  <2> QED BY <1>0, <1>1, <1>2, <2>2, <2>3, <2>4 DEF Places
<1>5. CASE ~At(q, "incref") /\ ~(At(q, "kfree_push") /\ th[q].ret = "unmap")
  <2>1. Holes(q) = {}
    BY Zenon, <1>5 DEF Holes
  <2> QED BY Zenon, <1>1, <1>2, <2>1
<1> QED BY Zenon, <1>3, <1>4, <1>5

\* A PTE in the slots of a thread that leaves none uncounted is counted.
LEMMA NotAHole ==
  ASSUME Control, NEW p \in Procs, ~At(p, "dead"), NEW e \in Places, e[1][1] \in Slots(p),
         e \notin Holes(p)
  PROVE  \A q \in Procs : e \notin Holes(q)
<1> SUFFICES ASSUME NEW q \in Procs, q # p, e \in Holes(q) PROVE FALSE
  BY Zenon
<1>1. e[1][1] \in Slots(q) /\ ~At(q, "dead")
  BY Zenon, ViewType
<1> QED BY Zenon, <1>1, SlotsDisjoint

\* A thread that keeps its record and its slots keeps its tables.
LEMMA SameTables ==
  ASSUME Control, NEW p \in Procs, NEW q \in Procs, p # q, ~At(p, "dead"), ~At(q, "dead"),
         Within(p), th'[q] = th[q]
  PROVE  /\ Tab(q)' = Tab(q) /\ Target(q)' = Target(q)
         /\ th[q].op = "fork" => Tab(th[q].np)' = Tab(th[q].np)
<1>1. Slots(p) \cap Slots(q) = {}
  BY Zenon, SlotsDisjoint
<1>2. q \notin Slots(p) /\ (th[q].op \in {"fork", "wait"} => th[q].np \notin Slots(p))
  BY Zenon, <1>1 DEF Slots
<1>3. cur'[q] = cur[q] /\ (th[q].op \in {"fork", "wait"} => cur'[th[q].np] = cur[th[q].np])
  BY Zenon, <1>2, ChildIsOther DEF Within
<1> QED BY Zenon, <1>3 DEF Tab, Alt, Target

\* What the others see of such a step: nothing.
LEMMA OthersSame ==
  ASSUME Control, NEW p \in Procs, ~At(p, "dead"), Within(p),
         \A q \in Procs : q # p => th'[q] = th[q]
  PROVE  Others(p)
<1> SUFFICES ASSUME NEW q \in Procs, q # p
             PROVE  Holes(q)' = Holes(q) /\ Hands(q)' = Hands(q) /\ Pushes(q)' = Pushes(q)
  BY Zenon DEF Others
<1>0. th'[q] = th[q]
  BY Zenon
<1>1. Hands(q)' = Hands(q) /\ Pushes(q)' = Pushes(q)
  BY Zenon, <1>0 DEF Hands, Pushes, At
<1>2. CASE At(q, "dead")
  BY Zenon, <1>0, <1>1, <1>2 DEF Holes, At
<1>3. CASE ~At(q, "dead")
  <2>1. /\ Tab(q)' = Tab(q) /\ Target(q)' = Target(q)
        /\ th[q].op = "fork" => Tab(th[q].np)' = Tab(th[q].np)
    BY Zenon, <1>0, <1>3, SameTables
  <2>2. At(q, "incref") => th[q].op = "fork"
    BY Zenon DEF Control, ThreadsOK, ThreadOK, At
  <2> QED BY Zenon, <1>0, <1>1, <2>1, <2>2 DEF Holes, At
<1> QED BY Zenon, <1>2, <1>3

\* A page a thread maps or holds is in use; when the count is one, nothing else refers
\* to it.
LEMMA CountedPage ==
  ASSUME CountsOK, MemType, NEW pg \in Pages, NEW e \in Counted(pg)
  PROVE  /\ pg \notin freelist /\ (\A q \in Procs : pg \notin Pushes(q)) /\ refcnt[pg] >= 1
         /\ refcnt[pg] = 1 => Counted(pg) = {e} /\ Holding(pg) = {}
<1>1. Balanced(Counted(pg), Holding(pg), refcnt[pg], Status(pg)) /\ refcnt[pg] \in Int
  BY Zenon DEF CountsOK, MemType
<1>2. /\ Status(pg) = "used" /\ refcnt[pg] >= 1
      /\ refcnt[pg] = 1 => Counted(pg) = {e} /\ Holding(pg) = {}
  BY Zenon, <1>1, CountOf, Laws DEF CountingLaws, PteMeansUsed
<1> QED BY Zenon, <1>2 DEF Status

\* The same for a page a thread holds.
LEMMA HeldPage ==
  ASSUME CountsOK, MemType, NEW pg \in Pages, NEW p \in Procs, pg \in Hands(p)
  PROVE  /\ pg \notin freelist /\ (\A q \in Procs : pg \notin Pushes(q)) /\ refcnt[pg] >= 1
         /\ refcnt[pg] = 1 => Holding(pg) = {p} /\ Counted(pg) = {}
<1>0. p \in Holding(pg)
  BY Zenon DEF Holding
<1>1. Balanced(Counted(pg), Holding(pg), refcnt[pg], Status(pg)) /\ refcnt[pg] \in Int
  BY Zenon DEF CountsOK, MemType
<1>2. /\ Status(pg) = "used" /\ refcnt[pg] >= 1
      /\ refcnt[pg] = 1 => Holding(pg) = {p} /\ Counted(pg) = {}
  BY Zenon, <1>0, <1>1, CountOf, Laws DEF CountingLaws, HandMeansUsed
<1> QED BY Zenon, <1>2 DEF Status

\* The PTE behind a copy-on-write fault is counted.
LEMMA FaultPte ==
  ASSUME Control, NEW p \in Procs, LocalOK(p), th[p].pc \in CowPCs
  PROVE  /\ <<Tab(p), th[p].i>> \in Counted(th[p].pa) /\ th[p].pa \in Pages
         /\ <<Tab(p), th[p].i>> \in Places
<1>0. ThreadOK(th[p]) /\ TabType /\ Tab(p) \in Tables
  BY Zenon, TypeParts, TablesOf DEF Control, ThreadsOK
<1>1. th[p].pa \in Pages /\ th[p].i \in Vas
  BY Zenon, <1>0 DEF ThreadOK, InFault
<1>2. <<Tab(p), th[p].i>> \in Places /\ PageAt(<<Tab(p), th[p].i>>) = th[p].pa
  BY Zenon, <1>0, <1>1 DEF Places, PageAt, LocalOK
<1>3. Holes(p) = {} /\ ~At(p, "dead") /\ Tab(p)[1] \in Slots(p)
  BY Zenon DEF Holes, At, CowPCs, Tab, Slots
<1>4. \A q \in Procs : <<Tab(p), th[p].i>> \notin Holes(q)
  BY Zenon, <1>2, <1>3, NotAHole
<1> QED BY Zenon, <1>1, <1>2, <1>4 DEF Counted

\* So is the parent's PTE while uvmcopy() is about to count the child's.
LEMMA ParentPte ==
  ASSUME Control, NEW p \in Procs, LocalOK(p), At(p, "incref")
  PROVE  /\ <<Tab(p), th[p].i>> \in Counted(th[p].pa) /\ th[p].pa \in Pages
         /\ <<Tab(th[p].np), th[p].i>> \in Places /\ PageAt(<<Tab(th[p].np), th[p].i>>) = th[p].pa
         /\ Holes(p) = {<<Tab(th[p].np), th[p].i>>}
<1>0. ThreadOK(th[p]) /\ TabType /\ Tab(p) \in Tables /\ th[p] \in Thread
  BY Zenon, TypeParts, TablesOf DEF Control, ThreadsOK
<1>6. th[p].i \in 0 .. NVa /\ th[p].lim \in 0 .. NVa
  BY ZenonT(40), <1>0 DEF Thread
<1>1. th[p].pa \in Pages /\ th[p].i < th[p].lim /\ th[p].op = "fork"
  BY Zenon, <1>0 DEF ThreadOK, At
<1>2. th[p].i \in Vas
  BY <1>1, <1>6, SizeAssumption DEF Vas
<1>3. th[p].np \in Procs /\ th[p].np # p /\ ~At(p, "dead")
  BY Zenon, <1>1, ChildIsOther
<1>4. Tab(th[p].np) \in Tables /\ Tab(p) # Tab(th[p].np) /\ Tab(p)[1] \in Slots(p)
  BY Zenon, <1>0, <1>3, TablesOf DEF Tab, Slots
<1>5. Holes(p) = {<<Tab(th[p].np), th[p].i>>}
  BY Zenon DEF Holes, At
<1>7. <<Tab(p), th[p].i>> \in Places /\ <<Tab(p), th[p].i>> \notin Holes(p)
  BY Zenon, <1>0, <1>2, <1>4, <1>5 DEF Places
<1>8. \A q \in Procs : <<Tab(p), th[p].i>> \notin Holes(q)
  BY Zenon, <1>3, <1>4, <1>7, NotAHole
<1>9. PageAt(<<Tab(p), th[p].i>>) = th[p].pa /\ PageAt(<<Tab(th[p].np), th[p].i>>) = th[p].pa
  BY Zenon DEF PageAt, LocalOK, At
<1> QED BY Zenon, <1>1, <1>2, <1>4, <1>5, <1>7, <1>8, <1>9 DEF Counted, Places

\* A PTE that is not counted belongs to a page on its way to the free list, or to one
\* that a forking parent maps and counts.
LEMMA Strays ==
  ASSUME Control, RefsOK, NEW x \in Places, NEW pg \in Pages, PageAt(x) = pg,
         x \notin Counted(pg)
  PROVE  \E q \in Procs : \/ pg \in Pushes(q)
                          \/ At(q, "incref") /\ <<Tab(q), th[q].i>> \in Counted(pg)
<1>1. PICK q \in Procs : x \in Holes(q)
  BY Zenon DEF Counted
<1>2. CASE At(q, "incref")
  <2>1. x = <<Tab(th[q].np), th[q].i>> /\ PageAt(x) = th[q].pa
    BY Zenon, <1>1, <1>2, ParentPte DEF RefsOK
  <2> QED BY Zenon, <1>2, <2>1, ParentPte DEF RefsOK
<1>3. CASE ~At(q, "incref")
  <2>1. At(q, "kfree_push") /\ th[q].ret = "unmap" /\ x = <<Target(q), th[q].i>>
    BY Zenon, <1>1, <1>3 DEF Holes
  <2>2. PageAt(x) = th[q].pa
    BY Zenon, <2>1 DEF RefsOK, LocalOK, PageAt, At
  <2> QED BY Zenon, <2>1, <2>2 DEF Pushes
<1> QED BY Zenon, <1>2, <1>3

\* The last PTE of a page, held by a process that is not forking, is its only PTE ...
LEMMA SolePte ==
  ASSUME Control, RefsOK, NEW pg \in Pages, NEW e \in Counted(pg), refcnt[pg] = 1,
         \A q \in Procs : At(q, "incref") => e[1] # Tab(q)
  PROVE  \A x \in Places : PageAt(x) = pg => x = e
<1>0. MemType
  BY Zenon, ProcsAssumption, TypeParts DEF Control
<1>1. Counted(pg) = {e} /\ \A q \in Procs : pg \notin Pushes(q)
  BY Zenon, <1>0, CountedPage DEF RefsOK
<1> SUFFICES ASSUME NEW x \in Places, PageAt(x) = pg, x # e PROVE FALSE
  BY Zenon
<1>2. PICK q \in Procs : At(q, "incref") /\ <<Tab(q), th[q].i>> \in Counted(pg)
  BY Zenon, <1>1, Strays
<1> QED BY <1>1, <1>2

\* ... and a page that kalloc() has returned has none.
LEMMA FreshPage ==
  ASSUME Control, RefsOK, NEW p \in Procs, th[p].pc \in {"cow_copy", "map"}
  PROVE  /\ th[p].new \in Pages /\ \A x \in Places : PageAt(x) # th[p].new
         /\ Hands(p) = {th[p].new} /\ refcnt[th[p].new] = 1
<1>0. MemType /\ ThreadOK(th[p])
  BY Zenon, TypeParts DEF Control, ThreadsOK
<1>1. th[p].new \in Pages /\ refcnt[th[p].new] = 1
  BY Zenon, <1>0 DEF ThreadOK, RefsOK, LocalOK
<1>2. Hands(p) = {th[p].new}
  BY Zenon DEF Hands, At
<1>3. Counted(th[p].new) = {} /\ \A q \in Procs : th[p].new \notin Pushes(q)
  BY Zenon, <1>0, <1>1, <1>2, HeldPage DEF RefsOK
<1> QED BY Zenon, <1>1, <1>2, <1>3, Strays

-----------------------------------------------------------------------------
(* What a step of one thread leaves alone, and the actions that neither    *)
(* take nor give a reference to a page.                                    *)

\* Points at which a thread refers to no page of its own accord, and those at which
\* it also has no local that must agree with a PTE.
Passive == PCs \ {"cow_copy", "map", "kfree", "kfree_push", "incref"}
Resting == {"user", "exit", "dead", "copyout", "kalloc", "unmap", "dup"}

\* A thread at a passive point has no part in the counts.
LEMMA PassiveView ==
  ASSUME NEW p \in Procs, th[p].pc \in Passive
  PROVE  Holes(p) = {} /\ Hands(p) = {} /\ Pushes(p) = {}
BY Zenon DEF Passive, Holes, Hands, Pushes, At

\* The pages whose counter a step of p may change.
Claims(p, pg) == \/ pg \in freelist
                 \/ pg \in Hands(p)
                 \/ \E x \in Counted(pg) : x[1][1] \in Slots(p)

\* What another thread relies on survives a step of p.
LEMMA OthersLocal ==
  ASSUME Control, RefsOK, NEW p \in Procs, ~At(p, "dead"), Within(p),
         NEW q \in Procs, q # p, th'[q] = th[q],
         \A pg \in Pages : refcnt'[pg] # refcnt[pg] => Claims(p, pg)
  PROVE  LocalOK(q)'
<1>0. LocalOK(q) /\ ThreadOK(th[q]) /\ TabType /\ MemType /\ CountsOK
  BY Zenon, TypeParts DEF RefsOK, Control, ThreadsOK
<1>1. CASE At(q, "dead")
  BY Zenon, <1>1 DEF LocalOK, At, CowPCs
<1>2. CASE ~At(q, "dead")
  <2>0. Slots(p) \cap Slots(q) = {}
    BY Zenon, <1>2, SlotsDisjoint
  <2>1. /\ Tab(q)' = Tab(q) /\ Target(q)' = Target(q)
        /\ th[q].op = "fork" => Tab(th[q].np)' = Tab(th[q].np)
    BY Zenon, <1>2, SameTables
  <2>2. /\ Tab(q) \in Tables /\ Target(q) \in Tables
        /\ Tab(q)[1] \in Slots(q) /\ Target(q)[1] \in Slots(q)
    BY Zenon, <1>0, TablesOf, TargetType DEF Control, Slots, Tab, Alt, Target
  <2>3. th[q].op = "fork" => Tab(th[q].np) \in Tables /\ Tab(th[q].np)[1] \in Slots(q)
    BY Zenon, <1>0, ChildIsOther, TablesOf DEF Slots, Tab
  <2>4. /\ ppn'[Tab(q)] = ppn[Tab(q)] /\ perm'[Tab(q)] = perm[Tab(q)]
        /\ ppn'[Target(q)] = ppn[Target(q)]
        /\ th[q].op = "fork" => /\ ppn'[Tab(th[q].np)] = ppn[Tab(th[q].np)]
                                /\ perm'[Tab(th[q].np)] = perm[Tab(th[q].np)]
    BY Zenon, <2>0, <2>2, <2>3 DEF Within
  <2>5. ASSUME th[q].pc = "cow_own" PROVE refcnt'[th[q].pa] = 1
    <3>1. <<Tab(q), th[q].i>> \in Counted(th[q].pa) /\ th[q].pa \in Pages /\ refcnt[th[q].pa] = 1
      BY Zenon, <1>0, <2>5, FaultPte DEF LocalOK, CowPCs
    <3>2. /\ th[q].pa \notin freelist /\ Holding(th[q].pa) = {}
          /\ Counted(th[q].pa) = {<<Tab(q), th[q].i>>}
      BY Zenon, <1>0, <3>1, CountedPage
    <3>3. ~Claims(p, th[q].pa)
      BY <2>0, <2>2, <3>2 DEF Claims, Holding
    <3> QED BY Zenon, <3>1, <3>3
  <2>6. ASSUME th[q].pc \in {"cow_copy", "map"} PROVE refcnt'[th[q].new] = 1
    <3>1. th[q].new \in Pages /\ th[q].new \in Hands(q) /\ refcnt[th[q].new] = 1
      BY Zenon, <2>6, FreshPage
    <3>2. /\ th[q].new \notin freelist /\ Holding(th[q].new) = {q} /\ Counted(th[q].new) = {}
      BY Zenon, <1>0, <3>1, HeldPage
    <3>3. ~Claims(p, th[q].new)
      BY Zenon, <3>2 DEF Claims, Holding
    <3> QED BY Zenon, <3>1, <3>3
  <2>7. At(q, "incref") => th[q].op = "fork"
    BY Zenon, <1>0 DEF ThreadOK, At
  <2> QED BY Zenon, <1>0, <2>1, <2>4, <2>5, <2>6, <2>7 DEF LocalOK, At
<1> QED BY Zenon, <1>1, <1>2

\* RefsOK is kept when the counts, the stepping thread, the others and privacy are.
LEMMA RefsStep ==
  ASSUME Control, RefsOK, NEW p \in Procs, ~At(p, "dead"), Within(p),
         \A q \in Procs : q # p => th'[q] = th[q],
         \A pg \in Pages : refcnt'[pg] # refcnt[pg] => Claims(p, pg),
         CountsOK', LocalOK(p)', WritableIsPrivate'
  PROVE  RefsOK'
<1>1. \A q \in Procs : LocalOK(q)'
  BY Zenon, OthersLocal
<1> QED BY Zenon, <1>1 DEF RefsOK

\* Writable pages stay private as long as no PTE gets a page or PTE_W.
LEMMA PrivateStep ==
  ASSUME WritableIsPrivate,
         \A x \in Places : /\ PageAt(x)' \in {PageAt(x), None}
                           /\ "W" \in PermAt(x)' => "W" \in PermAt(x)
  PROVE  WritableIsPrivate'
BY Zenon DEF WritableIsPrivate, Places, PageAt, PermAt

\* A step that changes no PTE's page, no counter and no hold on a page.
LEMMA QuietStep ==
  ASSUME Control, RefsOK, NEW p \in Procs, ~At(p, "dead"), Within(p),
         \A q \in Procs : q # p => th'[q] = th[q],
         th[p].pc \in Passive, th'[p].pc \in Passive,
         UNCHANGED <<ppn, refcnt, freelist>>, LocalOK(p)', WritableIsPrivate'
  PROVE  RefsOK'
<1>1. Others(p)
  BY Zenon, OthersSame
<1>2. Holes(p) = {} /\ Hands(p) = {} /\ Pushes(p) = {}
  BY Zenon, PassiveView
<1>3. Holes(p)' = {} /\ Hands(p)' = {} /\ Pushes(p)' = {}
  BY Zenon DEF Passive, Holes, Hands, Pushes, At
<1>4. \A x \in Places : PageAt(x)' = PageAt(x)
  BY Zenon DEF PageAt
<1>5. CountsOK'
  BY Zenon, <1>1, <1>2, <1>3, <1>4, CountsStutter DEF RefsOK
<1> QED BY Zenon, <1>5, RefsStep

\* The same with the page tables unchanged and no local to justify.
LEMMA RestStep ==
  ASSUME Control, RefsOK, NEW p \in Procs, ~At(p, "dead"), th[p].pc \in Passive,
         NEW x, Becomes(p, x), x.pc \in Resting, UNCHANGED <<tabvars, refcnt, freelist>>
  PROVE  RefsOK'
<1>1. th'[p] = x /\ \A q \in Procs : q # p => th'[q] = th[q]
  BY ZenonT(40) DEF Control, TypeOK, Becomes
<1>2. Within(p) /\ UNCHANGED <<ppn, perm, cur>>
  BY Zenon DEF Within, tabvars
<1>3. WritableIsPrivate'
  BY Zenon, <1>2, PrivateStep DEF RefsOK, PageAt, PermAt
<1>4. LocalOK(p)'
  BY Zenon, <1>1 DEF LocalOK, Resting, CowPCs
<1>5. th'[p].pc \in Passive
  BY Zenon, <1>1 DEF Resting, Passive, PCs
<1> QED BY Zenon, <1>1, <1>2, <1>3, <1>4, <1>5, QuietStep

-----------------------------------------------------------------------------
(* One lemma per group of actions.                                         *)

\* A store to memory, or a panic, changes nothing the counts depend on.
LEMMA SameRefs ==
  ASSUME RefsOK, UNCHANGED <<refcnt, freelist, ppn, perm, cur, th>>
  PROVE  RefsOK'
<1>1. /\ \A q \in Procs : Holes(q)' = Holes(q) /\ Hands(q)' = Hands(q) /\ Pushes(q)' = Pushes(q)
      /\ \A q \in Procs : LocalOK(q)' <=> LocalOK(q)
  BY DEF Holes, Hands, Pushes, LocalOK, At, Tab, Alt, Target
<1>2. \A x \in Places : PageAt(x)' = PageAt(x) /\ PermAt(x)' = PermAt(x)
  BY Zenon DEF PageAt, PermAt
<1>3. CountsOK'
  BY Zenon, <1>1, <1>2, ProcsAssumption, CountsStutter DEF RefsOK, Others
<1>4. WritableIsPrivate'
  BY Zenon, <1>2, PrivateStep DEF RefsOK
<1> QED BY Zenon, <1>1, <1>3, <1>4 DEF RefsOK

\* A thread in user mode is not dead and refers to nothing.
LEMMA UserIsPassive ==
  ASSUME NEW p \in Procs, InUser(p) PROVE ~At(p, "dead") /\ th[p].pc \in Passive
BY Zenon DEF InUser, At, Passive, PCs

\* Entering handle_cow_fault().
LEMMA FaultRefs ==
  ASSUME Control, RefsOK, NEW p \in Procs, InUser(p), NEW va \in Vas, NEW op, NEW np, NEW v,
         IsCow(Tab(p), va), "U" \in perm[Tab(p)][va], Becomes(p, CowEntry(p, va, op, np, v)),
         UNCHANGED <<tabvars, refcnt, freelist>>
  PROVE  RefsOK'
<1>1. /\ th'[p] = CowEntry(p, va, op, np, v)
      /\ \A q \in Procs : q # p => th'[q] = th[q]
  BY ZenonT(40) DEF Control, TypeOK, Becomes
<1>2. th'[p].pc = "cow_refcount" /\ th'[p].i = va /\ th'[p].pa = ppn[Tab(p)][va]
  BY Zenon, <1>1 DEF CowEntry, Idle
<1>3. Within(p) /\ UNCHANGED <<ppn, perm, cur>> /\ Tab(p)' = Tab(p)
  BY Zenon DEF Within, tabvars, Tab
<1>4. WritableIsPrivate'
  BY Zenon, <1>3, PrivateStep DEF RefsOK, PageAt, PermAt
<1>5. LocalOK(p)'
  BY Zenon, <1>2, <1>3 DEF LocalOK, CowPCs, IsCow
<1>6. th'[p].pc \in Passive
  BY Zenon, <1>2 DEF Passive, PCs
<1> QED BY Zenon, <1>1, <1>3, <1>4, <1>5, <1>6, UserIsPassive, QuietStep

\* copyout() reads a PTE and stores, or starts a copy-on-write fault.
LEMMA CopyoutRefs ==
  ASSUME Control, RefsOK, NEW p \in Procs, InUser(p), NEW va \in Vas, NEW op, NEW np, NEW v,
         CopyoutEntry(p, va, op, np, v), UNCHANGED <<tabvars, refcnt, freelist>>
  PROVE  RefsOK'
<1>1. CASE IsCow(Tab(p), va)
  BY Zenon, <1>1, FaultRefs DEF CopyoutEntry
<1>2. CASE ~IsCow(Tab(p), va)
  <2> DEFINE x == [CowEntry(p, va, op, np, v) EXCEPT !.pc = "copyout", !.pa = None]
  <2>1. Becomes(p, x) /\ x.pc = "copyout"
    BY Zenon, <1>2 DEF CopyoutEntry, CowEntry, Idle
  <2> HIDE DEF x
  <2> QED BY Zenon, <2>1, UserIsPassive, RestStep DEF Resting
<1> QED BY Zenon, <1>1, <1>2

\* System calls, stores and faults as they enter the kernel.
LEMMA UserRefs ==
  ASSUME Control, RefsOK, NEW p \in Procs,
         \/ \E va \in Vas, v \in Values : Store(p, va, v)
         \/ \E va \in Vas : StoreFault(p, va)
         \/ Syscall(p)
  PROVE  RefsOK'
<1>1. ASSUME NEW va \in Vas, NEW v \in Values, Store(p, va, v) PROVE RefsOK'
  BY Zenon, <1>1, SameRefs DEF Store
<1>2. ASSUME NEW va \in Vas, StoreFault(p, va) PROVE RefsOK'
  <2>0. InUser(p) /\ UNCHANGED <<tabvars, refcnt, freelist>>
    BY Zenon, <1>2 DEF StoreFault, memvars
  <2>1. CASE IsCow(Tab(p), va) /\ "U" \in perm[Tab(p)][va]
    BY Zenon, <1>2, <2>0, <2>1, FaultRefs DEF StoreFault
  <2>2. CASE ~(IsCow(Tab(p), va) /\ "U" \in perm[Tab(p)][va])
    <3> DEFINE x == [Idle EXCEPT !.pc = "exit"]
    <3>1. Becomes(p, x) /\ x.pc = "exit"
      BY Zenon, <1>2, <2>2 DEF StoreFault, Idle
    <3> HIDE DEF x
    <3> QED BY Zenon, <2>0, <3>1, UserIsPassive, RestStep DEF Resting
  <2> QED BY Zenon, <2>1, <2>2
<1>3. ASSUME NEW va \in Vas, NEW v \in Values, Write(p, va, v) PROVE RefsOK'
  BY Zenon, <1>3, CopyoutRefs DEF Write, memvars
<1>4. ASSUME NEW c \in Procs, NEW va \in Vas, NEW v \in Values, WaitStatus(p, c, va, v)
      PROVE  RefsOK'
  BY Zenon, <1>4, CopyoutRefs DEF WaitStatus, FoundZombie, memvars
<1>5. ASSUME NEW n \in 0 .. NVa, Grow(p, n) PROVE RefsOK'
  <2> DEFINE x == [Idle EXCEPT !.pc = "kalloc", !.op = "grow", !.i = sz[p], !.lim = n, !.base = sz[p]]
  <2>1. Becomes(p, x) /\ x.pc = "kalloc"
    BY Zenon, <1>5 DEF Grow, Idle
  <2> HIDE DEF x
  <2> QED BY Zenon, <1>5, <2>1, UserIsPassive, RestStep DEF Grow, memvars, Resting
<1>6. ASSUME NEW n \in 0 .. NVa, Shrink(p, n) PROVE RefsOK'
  <2> DEFINE x == [Idle EXCEPT !.pc = "unmap", !.op = "shrink", !.i = n, !.lim = sz[p], !.base = n]
  <2>1. Becomes(p, x) /\ x.pc = "unmap"
    BY Zenon, <1>6 DEF Shrink, Idle
  <2> HIDE DEF x
  <2> QED BY Zenon, <1>6, <2>1, UserIsPassive, RestStep DEF Shrink, memvars, Resting
<1>7. ASSUME Exec(p) PROVE RefsOK'
  <2> DEFINE x == [Idle EXCEPT !.pc = "kalloc", !.op = "exec", !.lim = ImageSize]
  <2>1. Becomes(p, x) /\ x.pc = "kalloc"
    BY Zenon, <1>7 DEF Exec, Idle
  <2> HIDE DEF x
  <2> QED BY Zenon, <1>7, <2>1, UserIsPassive, RestStep DEF Exec, memvars, Resting
<1>8. ASSUME NEW c \in Procs, Fork(p, c) PROVE RefsOK'
  <2> DEFINE x == [Idle EXCEPT !.pc = "dup", !.op = "fork", !.np = c, !.lim = sz[p]]
  <2>1. Becomes(p, x) /\ x.pc = "dup"
    BY Zenon, <1>8 DEF Fork, Idle
  <2> HIDE DEF x
  <2> QED BY Zenon, <1>8, <2>1, UserIsPassive, RestStep DEF Fork, memvars, Resting
<1>9. ASSUME NEW c \in Procs, Wait(p, c) PROVE RefsOK'
  <2> DEFINE x == [Idle EXCEPT !.pc = "unmap", !.op = "wait", !.np = c, !.lim = sz[c]]
  <2>1. Becomes(p, x) /\ x.pc = "unmap"
    BY Zenon, <1>9 DEF Wait, Idle
  <2> HIDE DEF x
  <2> QED BY Zenon, <1>9, <2>1, UserIsPassive, RestStep DEF Wait, FoundZombie, memvars, Resting
<1> QED BY Zenon, <1>1, <1>2, <1>3, <1>4, <1>5, <1>6, <1>7, <1>8, <1>9 DEF Syscall

\* The ways to a point of rest.
Rests(p) == \E x : Becomes(p, x) /\ x.pc \in Resting

\* Returning to user mode and entering the uvmunmap() loop are ways to come to rest.
LEMMA WaysToRest ==
  ASSUME Control, NEW p \in Procs
  PROVE  /\ ReturnToUser(p) => Rests(p)
         /\ CowFail(p) => Rests(p)
         /\ CowDone(p) => Rests(p)
         /\ \A lo, hi : GotoUnmap(p, lo, hi) => Rests(p)
<1>0. th[p] \in Thread
  BY Zenon, TypeParts DEF Control
<1>1. Idle.pc \in Resting /\ [Idle EXCEPT !.pc = "exit"].pc \in Resting
  BY Zenon DEF Idle, Resting
<1>2. ReturnToUser(p) => Rests(p)
  BY Zenon, <1>1 DEF ReturnToUser, Rests
<1>3. CowFail(p) => Rests(p)
  <2>1. CASE th[p].op = "store"
    BY Zenon, <1>1, <2>1 DEF CowFail, Rests
  <2>2. CASE th[p].op # "store"
    BY Zenon, <1>1, <2>2 DEF CowFail, Rests
  <2> QED BY Zenon, <2>1, <2>2
<1>4. CowDone(p) => Rests(p)
  <2> DEFINE x == [th[p] EXCEPT !.pc = "copyout", !.pa = None, !.new = None, !.ret = ""]
  <2>0. x.pc = "copyout"
    BY ZenonT(40), <1>0 DEF Thread
  <2>1. CASE th[p].op = "store"
    BY Zenon, <1>1, <2>1 DEF CowDone, Rests
  <2>2. CASE th[p].op # "store"
    <3>1. CowDone(p) => Becomes(p, x)
      BY Zenon, <2>2 DEF CowDone
    <3> HIDE DEF x
    <3> QED BY Zenon, <2>0, <3>1 DEF Rests, Resting
  <2> QED BY Zenon, <2>1, <2>2
<1>5. ASSUME NEW lo, NEW hi, GotoUnmap(p, lo, hi) PROVE Rests(p)
  <2> DEFINE x == [th[p] EXCEPT !.pc = "unmap", !.i = lo, !.lim = hi, !.pa = None,
                                !.new = None, !.ret = ""]
  <2>0. x.pc = "unmap"
    BY ZenonT(40), <1>0 DEF Thread
  <2>1. Becomes(p, x)
    BY Zenon, <1>5 DEF GotoUnmap
  <2> HIDE DEF x
  <2> QED BY Zenon, <2>0, <2>1 DEF Rests, Resting
<1> QED BY Zenon, <1>2, <1>3, <1>4, <1>5

\* The steps of a thread in the kernel that neither take nor give a reference and come
\* to rest.
LEMMA RestingRefs ==
  ASSUME Control, RefsOK, NEW p \in Procs,
         \/ CopyoutStore(p) \/ CopyoutFail(p) \/ Unmapped(p) \/ Grown(p) \/ ExecBad(p)
         \/ CowKalloc(p) /\ UNCHANGED memvars
         \/ AllocPage(p) /\ UNCHANGED memvars
         \/ Exit(p)
  PROVE  RefsOK'
<1>0. ASSUME ~At(p, "dead"), th[p].pc \in Passive, Rests(p), UNCHANGED <<tabvars, refcnt, freelist>>
      PROVE  RefsOK'
  BY Zenon, <1>0, RestStep DEF Rests
<1>1. CASE CopyoutStore(p)
  <2>1. Rests(p)
    <3>1. CASE th[p].op = "wait"
      BY Zenon, <1>1, <3>1, WaysToRest DEF CopyoutStore
    <3>2. CASE th[p].op # "wait"
      BY Zenon, <1>1, <3>2, WaysToRest DEF CopyoutStore
    <3> QED BY Zenon, <3>1, <3>2
  <2>2. ~At(p, "dead") /\ th[p].pc \in Passive /\ UNCHANGED <<tabvars, refcnt, freelist>>
    BY Zenon, <1>1 DEF CopyoutStore, At, Passive, PCs
  <2> QED BY Zenon, <1>0, <2>1, <2>2
<1>2. CASE CopyoutFail(p)
  <2>2. /\ ~At(p, "dead") /\ th[p].pc \in Passive /\ UNCHANGED <<tabvars, refcnt, freelist>>
        /\ CowFail(p)
    BY Zenon, <1>2 DEF CopyoutFail, At, Passive, PCs, memvars
  <2> QED BY Zenon, <1>0, <2>2, WaysToRest
<1>3. CASE Unmapped(p)
  <2>2. /\ ~At(p, "dead") /\ th[p].pc \in Passive /\ UNCHANGED <<tabvars, refcnt, freelist>>
        /\ ReturnToUser(p)
    BY Zenon, <1>3 DEF Unmapped, At, Passive, PCs, memvars
  <2> QED BY Zenon, <1>0, <2>2, WaysToRest
<1>4. CASE Grown(p)
  <2>2. /\ ~At(p, "dead") /\ th[p].pc \in Passive /\ UNCHANGED <<tabvars, refcnt, freelist>>
        /\ ReturnToUser(p)
    BY Zenon, <1>4 DEF Grown, At, Passive, PCs, memvars
  <2> QED BY Zenon, <1>0, <2>2, WaysToRest
<1>5. CASE ExecBad(p)
  <2>2. /\ ~At(p, "dead") /\ th[p].pc \in Passive /\ UNCHANGED <<tabvars, refcnt, freelist>>
        /\ GotoUnmap(p, 0, th[p].i)
    BY Zenon, <1>5 DEF ExecBad, At, Passive, PCs, memvars
  <2> QED BY Zenon, <1>0, <2>2, WaysToRest
<1>6. CASE CowKalloc(p) /\ UNCHANGED memvars
  <2>1. ~At(p, "dead") /\ th[p].pc \in Passive /\ UNCHANGED <<tabvars, refcnt, freelist>>
    BY Zenon, <1>6 DEF CowKalloc, At, Passive, PCs, memvars
  <2>2. CowFail(p)
    BY Zenon, <1>6 DEF CowKalloc, Kalloc, memvars
  <2> QED BY Zenon, <1>0, <2>1, <2>2, WaysToRest
<1>7. CASE AllocPage(p) /\ UNCHANGED memvars
  <2>1. ~At(p, "dead") /\ th[p].pc \in Passive /\ UNCHANGED <<tabvars, refcnt, freelist>>
    BY Zenon, <1>7 DEF AllocPage, At, Passive, PCs, memvars
  <2>2. GotoUnmap(p, th[p].base, th[p].i)
    BY Zenon, <1>7 DEF AllocPage, Kalloc, memvars
  <2> QED BY Zenon, <1>0, <2>1, <2>2, WaysToRest
<1>8. CASE Exit(p)
  <2>1. CASE Panic("init exiting")
    BY Zenon, <2>1, SameRefs DEF Panic
  <2>2. CASE ~Panic("init exiting")
    <3>1. Becomes(p, Dead) /\ UNCHANGED <<memvars, tabvars>> /\ (InUser(p) \/ At(p, "exit"))
      BY Zenon, <1>8, <2>2 DEF Exit
    <3>2. Dead.pc \in Resting
      BY Zenon DEF Dead, Idle, Resting
    <3>3. ~At(p, "dead") /\ th[p].pc \in Passive
      BY Zenon, <3>1, UserIsPassive DEF At, Passive, PCs
    <3> QED BY Zenon, <1>0, <3>1, <3>2, <3>3 DEF Rests, memvars
  <2> QED BY Zenon, <2>1, <2>2
<1> QED BY Zenon, <1>1, <1>2, <1>3, <1>4, <1>5, <1>6, <1>7, <1>8

\* A page without a PTE may be mapped writable.
LEMMA PrivateMap ==
  ASSUME WritableIsPrivate, NEW e \in Places, NEW new, \A x \in Places : PageAt(x) # new,
         \A x \in Places : /\ PageAt(x)' = IF x = e THEN new ELSE PageAt(x)
                           /\ x # e => PermAt(x)' = PermAt(x)
  PROVE  WritableIsPrivate'
<1> SUFFICES ASSUME NEW x \in Places, NEW y \in Places, PageAt(x)' # None,
                    "W" \in PermAt(x)', PageAt(y)' = PageAt(x)'
             PROVE  x = y
  BY Zenon DEF WritableIsPrivate, Places, PageAt, PermAt
<1>1. CASE x = e \/ y = e
  BY Zenon, <1>1
<1>2. CASE x # e /\ y # e
  BY Zenon, <1>2 DEF WritableIsPrivate, Places, PageAt, PermAt
<1> QED BY Zenon, <1>1, <1>2

\* A thread at rest has no locals to keep.
LEMMA RestLocal ==
  ASSUME Control, NEW p \in Procs, Rests(p)
  PROVE  /\ th'[p].pc \in Resting /\ th'[p].pc \in Passive /\ LocalOK(p)'
         /\ Holes(p)' = {} /\ Hands(p)' = {} /\ Pushes(p)' = {}
         /\ \A q \in Procs : q # p => th'[q] = th[q]
<1>0. PICK x : Becomes(p, x) /\ x.pc \in Resting
  BY Zenon DEF Rests
<1>1. th'[p] = x /\ \A q \in Procs : q # p => th'[q] = th[q]
  BY ZenonT(40), <1>0 DEF Control, TypeOK, Becomes
<1>2. th'[p].pc \in Resting
  BY Zenon, <1>0, <1>1
<1>3. th'[p].pc \in Passive /\ LocalOK(p)'
  BY Zenon, <1>2 DEF Resting, Passive, PCs, LocalOK, CowPCs
<1>4. Holes(p)' = {} /\ Hands(p)' = {} /\ Pushes(p)' = {}
  BY Zenon, <1>2 DEF Resting, Holes, Hands, Pushes, At
<1> QED BY Zenon, <1>1, <1>2, <1>3, <1>4

\* handle_cow_fault(): the count is read, and the sole owner takes the page.
LEMMA CowOwnRefs ==
  ASSUME Control, RefsOK, NEW p \in Procs, CowRefcount(p) \/ CowOwn(p)
  PROVE  RefsOK'
<1>0. /\ th[p] \in Thread /\ LocalOK(p) /\ MemType /\ TabType /\ Tab(p) \in Tables
      /\ WritableIsPrivate
  BY Zenon, TypeParts, TablesOf DEF Control, RefsOK
<1>1. CASE CowRefcount(p)
  <2> DEFINE l == IF refcnt[th[p].pa] = 1 THEN "cow_own" ELSE "cow_kalloc"
             x == [th[p] EXCEPT !.pc = l]
  <2>1. Becomes(p, x) /\ th[p].pc = "cow_refcount" /\ UNCHANGED <<memvars, tabvars>>
    BY Zenon, <1>1 DEF CowRefcount, Goto, At
  <2>2. x.pc = l /\ x.i = th[p].i /\ x.pa = th[p].pa
    BY ZenonT(40), <1>0 DEF Thread
  <2>3. th'[p] = x /\ \A q \in Procs : q # p => th'[q] = th[q]
    BY ZenonT(40), <2>1 DEF Control, TypeOK, Becomes
  <2> HIDE DEF x
  <2>4. Within(p) /\ UNCHANGED <<ppn, perm, cur, refcnt, freelist>> /\ Tab(p)' = Tab(p)
    BY Zenon, <2>1 DEF Within, tabvars, memvars, Tab
  <2>5. LocalOK(p)'
    BY Zenon, <1>0, <2>1, <2>2, <2>3, <2>4 DEF LocalOK, CowPCs
  <2>6. WritableIsPrivate'
    BY Zenon, <2>4, PrivateStep DEF RefsOK, PageAt, PermAt
  <2>7. th[p].pc \in Passive /\ th'[p].pc \in Passive /\ ~At(p, "dead")
    BY Zenon, <2>1, <2>2, <2>3 DEF Passive, PCs, At
  <2> QED BY Zenon, <2>3, <2>4, <2>5, <2>6, <2>7, QuietStep
<1>2. CASE CowOwn(p)
  <2> DEFINE e == <<Tab(p), th[p].i>>
  <2>1. /\ th[p].pc = "cow_own" /\ CowDone(p) /\ UNCHANGED <<refcnt, freelist, ppn, cur>>
        /\ SetPte(Tab(p), th[p].i, ppn[Tab(p)][th[p].i], MadeWritable(perm[Tab(p)][th[p].i]))
    <3>1. ppn = [ppn EXCEPT ![Tab(p)][th[p].i] = ppn[Tab(p)][th[p].i]]
      BY Zenon, <1>0 DEF TabType
    <3> QED BY Zenon, <1>2, <3>1 DEF CowOwn, At, memvars, SetPte
  <2>2. e \in Counted(th[p].pa) /\ th[p].pa \in Pages /\ e \in Places /\ th[p].i \in Vas
    BY Zenon, <1>0, <2>1, FaultPte DEF CowPCs, Places
  <2>3. /\ \A x \in Places : x # e => PermAt(x)' = PermAt(x)
        /\ \A u \in Tables : u # Tab(p) => ppn'[u] = ppn[u] /\ perm'[u] = perm[u]
    BY <1>0, <2>1, <2>2, PteUpdate
  <2>4. Within(p)
    <3>1. Tab(p)[1] \in Slots(p) /\ Tab(p) \in Tables /\ cur' = cur
      BY Zenon, <1>0, <2>1 DEF Tab, Slots
    <3> QED BY ZenonT(60), <2>3, <3>1, WithinTable
  <2>5. \A q \in Procs : At(q, "incref") => e[1] # Tab(q)
    BY Zenon, <2>1 DEF At, Tab
  <2>6. \A x \in Places : PageAt(x) = th[p].pa => x = e
    BY Zenon, <1>0, <2>1, <2>2, <2>5, SolePte DEF LocalOK
  <2>7. PageAt(e) = th[p].pa /\ \A x \in Places : PageAt(x)' = PageAt(x)
    BY Zenon, <2>1, <2>2 DEF Counted, PageAt
  <2>8. WritableIsPrivate'
    <3> SUFFICES ASSUME NEW x \in Places, NEW y \in Places, PageAt(x)' # None,
                        "W" \in PermAt(x)', PageAt(y)' = PageAt(x)'
                 PROVE  x = y
      BY Zenon DEF WritableIsPrivate, Places, PageAt, PermAt
    <3>1. CASE x = e
      BY Zenon, <2>6, <2>7, <3>1
    <3>2. CASE x # e
      BY Zenon, <1>0, <2>3, <2>7, <3>2 DEF WritableIsPrivate, Places, PageAt, PermAt
    <3> QED BY Zenon, <3>1, <3>2
  <2>9. Rests(p)
    BY Zenon, <2>1, WaysToRest
  <2>10. th[p].pc \in Passive /\ ~At(p, "dead")
    BY Zenon, <2>1 DEF Passive, PCs, At
  <2> QED BY Zenon, <2>1, <2>4, <2>8, <2>9, <2>10, RestLocal, QuietStep
<1> QED BY Zenon, <1>1, <1>2

\* kalloc() in handle_cow_fault() and in uvmalloc().
LEMMA KallocRefs ==
  ASSUME Control, RefsOK, NEW p \in Procs, CowKalloc(p) \/ AllocPage(p), ~UNCHANGED memvars
  PROVE  RefsOK'
<1>0. th[p] \in Thread /\ LocalOK(p) /\ MemType /\ CountsOK
  BY Zenon, TypeParts DEF Control, RefsOK
<1>1. PICK pg \in freelist :
        /\ Kalloc(pg) /\ UNCHANGED tabvars
        /\ \/ th[p].pc = "cow_kalloc" /\ Becomes(p, [th[p] EXCEPT !.new = pg, !.pc = "cow_copy"])
           \/ th[p].pc = "kalloc" /\ Becomes(p, [th[p] EXCEPT !.new = pg, !.pc = "map"])
  BY Zenon DEF CowKalloc, AllocPage, At
<1>2. /\ th'[p].new = pg
      /\ \/ /\ th[p].pc = "cow_kalloc" /\ th'[p].pc = "cow_copy"
            /\ th'[p].i = th[p].i /\ th'[p].pa = th[p].pa
         \/ th[p].pc = "kalloc" /\ th'[p].pc = "map"
      /\ \A q \in Procs : q # p => th'[q] = th[q]
  <2>0. th \in [Procs -> Thread]
    BY Zenon DEF Control, TypeOK
  <2>1. CASE th[p].pc = "cow_kalloc" /\ Becomes(p, [th[p] EXCEPT !.new = pg, !.pc = "cow_copy"])
    BY ZenonT(40), <1>0, <2>0, <2>1 DEF Becomes, Thread
  <2>2. CASE th[p].pc = "kalloc" /\ Becomes(p, [th[p] EXCEPT !.new = pg, !.pc = "map"])
    BY ZenonT(40), <1>0, <2>0, <2>2 DEF Becomes, Thread
  <2> QED BY Zenon, <1>1, <2>1, <2>2
<1>3. /\ pg \in Pages /\ refcnt'[pg] = 1
      /\ \A y \in Pages : refcnt'[y] # refcnt[y] => y \in freelist
  BY Zenon, <1>0, <1>1 DEF Kalloc, MemType
<1>4. Within(p) /\ UNCHANGED <<ppn, perm, cur>> /\ Tab(p)' = Tab(p) /\ ~At(p, "dead")
  BY Zenon, <1>1, <1>2 DEF Within, tabvars, Tab, At
<1>5. Others(p)
  BY Zenon, <1>2, <1>4, OthersSame
<1>6. /\ Holes(p) = {} /\ Hands(p) = {} /\ Pushes(p) = {}
      /\ Holes(p)' = {} /\ Hands(p)' = {pg} /\ Pushes(p)' = {}
  BY Zenon, <1>2 DEF Holes, Hands, Pushes, At
<1>7. \A x \in Places : PageAt(x)' = PageAt(x) /\ PermAt(x)' = PermAt(x)
  BY Zenon, <1>4 DEF PageAt, PermAt
<1>8. CountsOK'
  BY Zenon, <1>0, <1>1, <1>3, <1>5, <1>6, <1>7, CountsKalloc
<1>9. WritableIsPrivate'
  BY Zenon, <1>7, PrivateStep DEF RefsOK
<1>10. LocalOK(p)'
  BY Zenon, <1>0, <1>2, <1>3, <1>4 DEF LocalOK, CowPCs
<1> QED BY Zenon, <1>2, <1>3, <1>4, <1>8, <1>9, <1>10, RefsStep DEF Claims

\* A fault copies the page and exchanges it for the old one.
LEMMA CowCopyRefs ==
  ASSUME Control, RefsOK, NEW p \in Procs, CowCopy(p)
  PROVE  RefsOK'
<1> DEFINE e == <<Tab(p), th[p].i>>
<1>0. /\ th[p] \in Thread /\ LocalOK(p) /\ MemType /\ TabType /\ Tab(p) \in Tables
      /\ CountsOK /\ WritableIsPrivate
  BY Zenon, TypeParts, TablesOf DEF Control, RefsOK
<1>1. /\ th[p].pc = "cow_copy" /\ UNCHANGED <<refcnt, freelist, cur>>
      /\ SetPte(Tab(p), th[p].i, th[p].new, MadeWritable(perm[Tab(p)][th[p].i]))
      /\ Becomes(p, [th[p] EXCEPT !.pc = "kfree", !.ret = "cow"])
  BY Zenon DEF CowCopy, At
<1>2. /\ th'[p].pc = "kfree" /\ th'[p].pa = th[p].pa
      /\ \A q \in Procs : q # p => th'[q] = th[q]
  BY ZenonT(40), <1>0, <1>1 DEF Control, TypeOK, Becomes, Thread
<1>3. e \in Counted(th[p].pa) /\ th[p].pa \in Pages /\ e \in Places /\ th[p].i \in Vas
  BY Zenon, <1>0, <1>1, FaultPte DEF CowPCs, Places
<1>4. /\ \A x \in Places : /\ PageAt(x)' = IF x = e THEN th[p].new ELSE PageAt(x)
                           /\ x # e => PermAt(x)' = PermAt(x)
      /\ \A u \in Tables : u # Tab(p) => ppn'[u] = ppn[u] /\ perm'[u] = perm[u]
  BY <1>0, <1>1, <1>3, PteUpdate
<1>5. /\ th[p].new \in Pages /\ \A x \in Places : PageAt(x) # th[p].new
      /\ Hands(p) = {th[p].new}
  BY Zenon, <1>1, FreshPage
<1>6. Within(p) /\ ~At(p, "dead")
  BY Zenon, <1>0, <1>1, <1>4, WithinTable DEF Tab, Slots, At
<1>7. Others(p)
  BY Zenon, <1>2, <1>6, OthersSame
<1>8. /\ Holes(p) = {} /\ Pushes(p) = {}
      /\ Holes(p)' = {} /\ Hands(p)' = {th[p].pa} /\ Pushes(p)' = {}
  BY Zenon, <1>1, <1>2 DEF Holes, Hands, Pushes, At
<1>9. PageAt(e) = th[p].pa /\ \A q \in Procs : e \notin Holes(q)
  BY Zenon, <1>3 DEF Counted
<1>10. CountsOK'
  <2>1. th[p].pa # th[p].new
    BY Zenon, <1>3, <1>5, <1>9
  <2> HIDE DEF e
  <2> QED BY ZenonT(30), <1>0, <1>1, <1>3, <1>4, <1>5, <1>7, <1>8, <1>9, <2>1, CountsCopy
<1>11. WritableIsPrivate'
  <2> HIDE DEF e
  <2> QED BY Zenon, <1>0, <1>3, <1>4, <1>5, PrivateMap
<1>12. LocalOK(p)'
  BY Zenon, <1>2 DEF LocalOK, CowPCs
<1> QED BY Zenon, <1>1, <1>2, <1>6, <1>10, <1>11, <1>12, RefsStep

\* uvmalloc() maps the page it holds, or gives it back.
LEMMA MapRefs ==
  ASSUME Control, RefsOK, NEW p \in Procs, MapPage(p) \/ MapFail(p)
  PROVE  RefsOK'
<1> DEFINE e == <<Target(p), th[p].i>>
<1>0. /\ th[p] \in Thread /\ ThreadOK(th[p]) /\ MemType /\ TabType /\ Target(p) \in Tables
      /\ CountsOK /\ WritableIsPrivate
  BY Zenon, TypeParts, TargetType DEF Control, RefsOK, ThreadsOK
<1>1. th[p].pc = "map" /\ ~At(p, "dead") /\ Holes(p) = {} /\ Pushes(p) = {}
  BY Zenon DEF MapPage, MapFail, At, Holes, Pushes
<1>2. /\ th[p].new \in Pages /\ (\A x \in Places : PageAt(x) # th[p].new)
      /\ Hands(p) = {th[p].new}
  BY Zenon, <1>1, FreshPage
<1>3. CASE MapPage(p) /\ Remap(Target(p), th[p].i)
  BY Zenon, <1>3, SameRefs DEF MapPage, Panic
<1>4. CASE MapPage(p) /\ ~Remap(Target(p), th[p].i)
  <2>1. /\ SetPte(Target(p), th[p].i, th[p].new, MapPerm(p))
        /\ Becomes(p, [th[p] EXCEPT !.pc = "kalloc", !.i = th[p].i + 1, !.new = None])
        /\ UNCHANGED <<refcnt, freelist, cur>>
    BY Zenon, <1>4 DEF MapPage, memvars
  <2>2. /\ th'[p].pc = "kalloc"
        /\ \A q \in Procs : q # p => th'[q] = th[q]
    BY ZenonT(40), <1>0, <2>1 DEF Control, TypeOK, Becomes, Thread
  <2>3. th[p].i \in 0 .. NVa /\ th[p].lim \in 0 .. NVa
    BY ZenonT(40), <1>0 DEF Thread
  <2>4. th[p].i \in Vas
    BY <1>0, <1>1, <2>3, SizeAssumption DEF ThreadOK, Mapping, Vas
  <2>5. /\ e \in Places
        /\ \A x \in Places : /\ PageAt(x)' = IF x = e THEN th[p].new ELSE PageAt(x)
                             /\ x # e => PermAt(x)' = PermAt(x)
        /\ \A u \in Tables : u # Target(p) => ppn'[u] = ppn[u] /\ perm'[u] = perm[u]
    BY Zenon, <1>0, <2>1, <2>4, PteUpdate
  <2>6. Target(p)[1] \in Slots(p)
    BY Zenon DEF Target, Slots, Tab, Alt
  <2>7. Within(p)
    BY Zenon, <1>0, <2>1, <2>5, <2>6, WithinTable
  <2>8. Others(p)
    BY Zenon, <1>1, <2>2, <2>7, OthersSame
  <2>9. Holes(p)' = {} /\ Hands(p)' = {} /\ Pushes(p)' = {} /\ LocalOK(p)'
    BY Zenon, <2>2 DEF Holes, Hands, Pushes, At, LocalOK, CowPCs
  <2>10. PageAt(e) \notin Pages /\ \A q \in Procs : e \notin Holes(q)
    <3>1. PageAt(e) = None
      BY Zenon, <1>4 DEF PageAt, Remap
    <3>2. e[1][1] \in Slots(p) /\ e \notin Holes(p)
      BY Zenon, <1>1, <2>6
    <3> HIDE DEF e
    <3> QED BY Zenon, <1>1, <2>5, <3>1, <3>2, NotAHole, PagesAssumption
  <2> HIDE DEF e
  <2>11. CountsOK'
    BY Zenon, <1>0, <1>1, <1>2, <2>1, <2>5, <2>8, <2>9, <2>10, CountsMap
  <2>12. WritableIsPrivate'
    BY Zenon, <1>0, <1>2, <2>5, PrivateMap
  <2> QED BY Zenon, <1>1, <2>1, <2>2, <2>7, <2>9, <2>11, <2>12, RefsStep
<1>5. CASE MapFail(p)
  <2>1. /\ Becomes(p, [th[p] EXCEPT !.pc = "kfree", !.ret = "undo", !.pa = th[p].new, !.new = None])
        /\ UNCHANGED <<refcnt, freelist, ppn, perm, cur>>
    BY Zenon, <1>5 DEF MapFail, memvars, tabvars
  <2>2. /\ th'[p].pc = "kfree" /\ th'[p].pa = th[p].new
        /\ \A q \in Procs : q # p => th'[q] = th[q]
    BY ZenonT(40), <1>0, <2>1 DEF Control, TypeOK, Becomes, Thread
  <2>3. Within(p) /\ \A x \in Places : PageAt(x)' = PageAt(x) /\ PermAt(x)' = PermAt(x)
    BY Zenon, <2>1 DEF Within, PageAt, PermAt
  <2>4. Others(p)
    BY Zenon, <1>1, <2>2, <2>3, OthersSame
  <2>5. /\ Holes(p)' = {} /\ Hands(p)' = {th[p].new} /\ Pushes(p)' = {} /\ LocalOK(p)'
    BY Zenon, <2>2 DEF Holes, Hands, Pushes, At, LocalOK, CowPCs
  <2>6. CountsOK'
    BY Zenon, <1>0, <1>1, <1>2, <2>1, <2>3, <2>4, <2>5, CountsStutter
  <2>7. WritableIsPrivate'
    BY Zenon, <1>0, <2>3, PrivateStep
  <2> QED BY Zenon, <1>1, <2>1, <2>2, <2>3, <2>5, <2>6, <2>7, RefsStep
<1> QED BY Zenon, <1>3, <1>4, <1>5

\* What KfreeReturn() leaves: at rest, and for uvmunmap() with the PTE cleared.
LEMMA KfreeReturnView ==
  ASSUME Control, NEW p \in Procs, th[p].pc \in {"kfree", "kfree_push"}, KfreeReturn(p), cur' = cur
  PROVE  /\ Rests(p) /\ Within(p)
         /\ \A x \in Places : /\ PageAt(x)' = IF x \in Holes(p) THEN None ELSE PageAt(x)
                              /\ "W" \in PermAt(x)' => "W" \in PermAt(x)
<1>0. /\ th[p] \in Thread /\ ThreadOK(th[p]) /\ TabType /\ Target(p) \in Tables
  BY Zenon, TypeParts, TargetType DEF Control, ThreadsOK
<1>1. th[p].ret \in {"cow", "undo", "unmap"} /\ (th[p].ret = "unmap" => th[p].pc = "kfree_push")
  BY Zenon, <1>0 DEF ThreadOK
<1>2. CASE th[p].ret # "unmap"
  <2>1. UNCHANGED <<ppn, perm>> /\ Rests(p)
    BY Zenon, <1>1, <1>2, WaysToRest DEF KfreeReturn
  <2>2. Holes(p) = {}
    BY Zenon, <1>2 DEF Holes, At
  <2> QED BY Zenon, <2>1, <2>2 DEF Within, PageAt, PermAt
<1>3. CASE th[p].ret = "unmap"
  <2>1. /\ GotoUnmap(p, th[p].i + 1, th[p].lim) /\ SetPte(Target(p), th[p].i, None, {})
        /\ Holes(p) = {<<Target(p), th[p].i>>}
    BY Zenon, <1>1, <1>3 DEF KfreeReturn, ClearPte, Holes, At
  <2>2. th[p].i \in 0 .. NVa /\ th[p].lim \in 0 .. NVa
    BY ZenonT(40), <1>0 DEF Thread
  <2>3. th[p].i \in Vas
    BY <1>0, <1>1, <1>3, <2>2, SizeAssumption DEF ThreadOK, Vas
  <2>4. /\ \A x \in Places : /\ PageAt(x)' = IF x = <<Target(p), th[p].i>> THEN None ELSE PageAt(x)
                             /\ PermAt(x)' = IF x = <<Target(p), th[p].i>> THEN {} ELSE PermAt(x)
        /\ \A u \in Tables : u # Target(p) => ppn'[u] = ppn[u] /\ perm'[u] = perm[u]
    BY Zenon, <1>0, <2>1, <2>3, PteUpdate
  <2>5. Within(p)
    BY Zenon, <1>0, <2>4, WithinTable DEF Target, Slots, Tab, Alt
  <2> QED BY Zenon, <2>1, <2>4, <2>5, WaysToRest
<1> QED BY Zenon, <1>2, <1>3

\* kfree() of a page in hand: count down, and on to the free list if it was the last.
LEMMA KfreeRefs ==
  ASSUME Control, RefsOK, NEW p \in Procs, Kfree(p)
  PROVE  RefsOK'
<1>0. /\ th[p] \in Thread /\ ThreadOK(th[p]) /\ MemType /\ CountsOK /\ WritableIsPrivate
  BY Zenon, TypeParts DEF Control, RefsOK, ThreadsOK
<1>1. /\ th[p].pc = "kfree" /\ ~At(p, "dead") /\ KfreeDec(th[p].pa) /\ cur' = cur
      /\ Holes(p) = {} /\ Hands(p) = {th[p].pa} /\ Pushes(p) = {}
  BY Zenon DEF Kfree, At, Holes, Hands, Pushes
<1>2. th[p].pa \in Pages /\ th[p].ret \in {"cow", "undo"}
  BY Zenon, <1>0, <1>1 DEF ThreadOK
<1>3. /\ \A pg \in Pages : refcnt'[pg] # refcnt[pg] => Claims(p, pg)
  BY Zenon, <1>0, <1>1, <1>2 DEF KfreeDec, MemType, Claims
<1>4. /\ Within(p) /\ LocalOK(p)' /\ (\A q \in Procs : q # p => th'[q] = th[q])
      /\ Holes(p)' = {} /\ Hands(p)' = {}
      /\ Pushes(p)' = IF StillInUse(th[p].pa) THEN {} ELSE {th[p].pa}
      /\ \A x \in Places : /\ PageAt(x)' = PageAt(x)
                           /\ "W" \in PermAt(x)' => "W" \in PermAt(x)
  <2>1. CASE StillInUse(th[p].pa)
    <3>1. KfreeReturn(p)
      BY Zenon, <2>1 DEF Kfree
    <3> QED BY Zenon, <1>1, <2>1, <3>1, KfreeReturnView, RestLocal
  <2>2. CASE ~StillInUse(th[p].pa)
    <3>1. Becomes(p, [th[p] EXCEPT !.pc = "kfree_push"]) /\ UNCHANGED <<ppn, perm>>
      BY Zenon, <2>2 DEF Kfree, Goto
    <3>2. /\ th'[p].pc = "kfree_push" /\ th'[p].pa = th[p].pa /\ th'[p].ret = th[p].ret
          /\ \A q \in Procs : q # p => th'[q] = th[q]
      BY ZenonT(40), <1>0, <3>1 DEF Control, TypeOK, Becomes, Thread
    <3>3. Holes(p)' = {} /\ Hands(p)' = {} /\ Pushes(p)' = {th[p].pa} /\ LocalOK(p)'
      BY Zenon, <1>2, <3>2 DEF Holes, Hands, Pushes, At, LocalOK, CowPCs
    <3> QED BY Zenon, <1>1, <2>2, <3>1, <3>2, <3>3 DEF Within, PageAt, PermAt
  <2> QED BY Zenon, <2>1, <2>2
<1>5. Others(p)
  BY Zenon, <1>1, <1>4, OthersSame
<1>6. CountsOK'
  BY Zenon, <1>0, <1>1, <1>2, <1>4, <1>5, CountsKfree
<1>7. WritableIsPrivate'
  BY Zenon, <1>0, <1>4, PrivateStep
<1> QED BY Zenon, <1>1, <1>3, <1>4, <1>6, <1>7, RefsStep

\* The second critical section of kfree().
LEMMA KfreeEndRefs ==
  ASSUME Control, RefsOK, NEW p \in Procs, KfreeEnd(p)
  PROVE  RefsOK'
<1>0. /\ ThreadOK(th[p]) /\ MemType /\ CountsOK /\ WritableIsPrivate
  BY Zenon, TypeParts DEF Control, RefsOK, ThreadsOK
<1>1. /\ th[p].pc = "kfree_push" /\ ~At(p, "dead") /\ KfreePush(th[p].pa) /\ KfreeReturn(p)
      /\ cur' = cur /\ Hands(p) = {} /\ Pushes(p) = {th[p].pa}
  BY Zenon DEF KfreeEnd, At, Hands, Pushes
<1>2. th[p].pa \in Pages /\ refcnt' = refcnt
  BY Zenon, <1>0, <1>1 DEF ThreadOK, KfreePush
<1>3. /\ Rests(p) /\ Within(p)
      /\ \A x \in Places : /\ PageAt(x)' = IF x \in Holes(p) THEN None ELSE PageAt(x)
                           /\ "W" \in PermAt(x)' => "W" \in PermAt(x)
  BY Zenon, <1>1, KfreeReturnView
<1>4. /\ LocalOK(p)' /\ Holes(p)' = {} /\ Hands(p)' = {} /\ Pushes(p)' = {}
      /\ \A q \in Procs : q # p => th'[q] = th[q]
  BY Zenon, <1>3, RestLocal
<1>5. Others(p)
  BY Zenon, <1>1, <1>3, <1>4, OthersSame
<1>6. CountsOK'
  BY Zenon, <1>0, <1>1, <1>2, <1>3, <1>4, <1>5, CountsPush
<1>7. WritableIsPrivate'
  BY Zenon, <1>0, <1>3, PrivateStep
<1> QED BY Zenon, <1>1, <1>2, <1>3, <1>4, <1>6, <1>7, RefsStep

\* One iteration of uvmunmap().
LEMMA UnmapRefs ==
  ASSUME Control, RefsOK, NEW p \in Procs, UnmapPage(p)
  PROVE  RefsOK'
<1> DEFINE e == <<Target(p), th[p].i>>  pg == PageAt(e)
<1>0. /\ th[p] \in Thread /\ ThreadOK(th[p]) /\ MemType /\ TabType /\ Target(p) \in Tables
      /\ CountsOK /\ WritableIsPrivate
  BY Zenon, TypeParts, TargetType DEF Control, RefsOK, ThreadsOK
<1>1. /\ th[p].pc = "unmap" /\ th[p].i < th[p].lim /\ ~At(p, "dead")
      /\ Holes(p) = {} /\ Hands(p) = {} /\ Pushes(p) = {}
  BY Zenon DEF UnmapPage, At, Holes, Hands, Pushes
<1>2. CASE Panic("uvmunmap: not mapped")
  BY Zenon, <1>2, SameRefs DEF Panic
<1>3. CASE ~Panic("uvmunmap: not mapped")
  <2>1. th[p].i \in 0 .. NVa /\ th[p].lim \in 0 .. NVa
    BY ZenonT(40), <1>0 DEF Thread
  <2>2. th[p].i \in Vas
    BY <1>1, <2>1, SizeAssumption DEF Vas
  <2>3. e \in Places /\ e[1][1] \in Slots(p)
    BY Zenon, <1>0, <2>2 DEF Places, Target, Slots, Tab, Alt
  <2>4. /\ pg # None /\ KfreeDec(pg) /\ cur' = cur
        /\ StillInUse(pg) => /\ SetPte(Target(p), th[p].i, None, {})
                             /\ Becomes(p, [th[p] EXCEPT !.i = th[p].i + 1])
        /\ ~StillInUse(pg) =>
             /\ Becomes(p, [th[p] EXCEPT !.pc = "kfree_push", !.pa = pg, !.ret = "unmap"])
             /\ UNCHANGED <<ppn, perm>>
    BY Zenon, <1>3 DEF UnmapPage, PageAt, ClearPte
  <2>5. pg \in Pages
    BY Zenon, <1>0, <2>2, <2>4, PteType DEF PageAt
  <2>6. e \in Counted(pg) /\ \A q \in Procs : e \notin Holes(q)
    BY Zenon, <1>1, <2>3, NotAHole DEF Counted
  <2>7. \A y \in Pages : refcnt'[y] # refcnt[y] => Claims(p, y)
    BY Zenon, <1>0, <2>3, <2>4, <2>5, <2>6 DEF KfreeDec, MemType, Claims
  <2>8. /\ Within(p) /\ LocalOK(p)' /\ (\A q \in Procs : q # p => th'[q] = th[q])
        /\ Hands(p)' = {}
        /\ Holes(p)' = IF StillInUse(pg) THEN {} ELSE {e}
        /\ Pushes(p)' = IF StillInUse(pg) THEN {} ELSE {pg}
        /\ \A x \in Places : /\ PageAt(x)' = IF StillInUse(pg) /\ x = e THEN None ELSE PageAt(x)
                             /\ "W" \in PermAt(x)' => "W" \in PermAt(x)
    <3>1. CASE StillInUse(pg)
      <4>1. th'[p].pc = "unmap" /\ \A q \in Procs : q # p => th'[q] = th[q]
        <5>1. th \in [Procs -> Thread] /\ Becomes(p, [th[p] EXCEPT !.i = th[p].i + 1])
          BY Zenon, <2>4, <3>1 DEF Control, TypeOK
        <5> QED BY ZenonT(40), <1>0, <1>1, <5>1 DEF Becomes, Thread
      <4>2. /\ \A x \in Places : /\ PageAt(x)' = IF x = e THEN None ELSE PageAt(x)
                                 /\ PermAt(x)' = IF x = e THEN {} ELSE PermAt(x)
            /\ \A u \in Tables : u # Target(p) => ppn'[u] = ppn[u] /\ perm'[u] = perm[u]
        BY Zenon, <1>0, <2>2, <2>4, <3>1, PteUpdate
      <4>3. Within(p)
        BY Zenon, <1>0, <2>3, <2>4, <4>2, WithinTable
      <4>4. Holes(p)' = {} /\ Hands(p)' = {} /\ Pushes(p)' = {} /\ LocalOK(p)'
        BY Zenon, <4>1 DEF Holes, Hands, Pushes, At, LocalOK, CowPCs
      <4> HIDE DEF e, pg
      <4> QED BY Zenon, <3>1, <4>1, <4>2, <4>3, <4>4
    <3>2. CASE ~StillInUse(pg)
      <4>1. /\ th'[p].pc = "kfree_push" /\ th'[p].pa = pg /\ th'[p].ret = "unmap"
            /\ th'[p].i = th[p].i /\ th'[p].op = th[p].op /\ th'[p].np = th[p].np
            /\ \A q \in Procs : q # p => th'[q] = th[q]
        <5>1. /\ th \in [Procs -> Thread]
              /\ Becomes(p, [th[p] EXCEPT !.pc = "kfree_push", !.pa = pg, !.ret = "unmap"])
          BY Zenon, <2>4, <3>2 DEF Control, TypeOK
        <5> HIDE DEF pg
        <5> QED BY ZenonT(40), <1>0, <5>1 DEF Becomes, Thread
      <4>2. Target(p)' = Target(p) /\ UNCHANGED <<ppn, perm, cur>>
        BY Zenon, <2>4, <3>2, <4>1 DEF Target, Tab, Alt
      <4>3. Holes(p)' = {e} /\ Hands(p)' = {} /\ Pushes(p)' = {pg}
        BY Zenon, <4>1, <4>2 DEF Holes, Hands, Pushes, At
      <4>4. LocalOK(p)'
        BY Zenon, <4>1, <4>2 DEF LocalOK, CowPCs, PageAt
      <4>5. Within(p) /\ \A x \in Places : PageAt(x)' = PageAt(x) /\ PermAt(x)' = PermAt(x)
        BY Zenon, <4>2 DEF Within, PageAt, PermAt
      <4> HIDE DEF e, pg
      <4> QED BY Zenon, <3>2, <4>1, <4>3, <4>4, <4>5
    <3> QED BY Zenon, <3>1, <3>2
  <2>9. Others(p)
    BY Zenon, <1>1, <2>8, OthersSame
  <2> HIDE DEF e
  <2>10. CountsOK'
    BY Zenon, <1>0, <1>1, <2>3, <2>4, <2>5, <2>6, <2>8, <2>9, CountsUnmap
  <2>11. WritableIsPrivate'
    BY Zenon, <1>0, <2>8, PrivateStep
  <2> QED BY Zenon, <1>1, <2>7, <2>8, <2>10, <2>11, RefsStep
<1> QED BY Zenon, <1>2, <1>3

\* exec() commits: the other table becomes p->pagetable, no PTE changes.
LEMMA ExecCommitRefs ==
  ASSUME Control, RefsOK, NEW p \in Procs, ExecCommit(p)
  PROVE  RefsOK'
<1> DEFINE x == [Idle EXCEPT !.pc = "unmap", !.op = "execold", !.lim = sz[p]]
<1>0. /\ th[p].pc = "kalloc" /\ Becomes(p, x) /\ x.pc = "unmap"
      /\ UNCHANGED <<refcnt, freelist, ppn, perm>> /\ cur' = [cur EXCEPT ![p] = Other(cur[p])]
  BY Zenon DEF ExecCommit, At, Idle
<1> HIDE DEF x
<1>1. Rests(p)
  BY Zenon, <1>0 DEF Rests, Resting
<1>2. th[p].pc \in Passive /\ ~At(p, "dead") /\ TabType
  BY Zenon, <1>0, TypeParts DEF Passive, PCs, At, Control
<1>3. Within(p)
  BY Zenon, <1>0, <1>2 DEF Within, Slots, TabType
<1>4. WritableIsPrivate'
  BY Zenon, <1>0, PrivateStep DEF RefsOK, PageAt, PermAt
<1> QED BY Zenon, <1>0, <1>1, <1>2, <1>3, <1>4, RestLocal, QuietStep

\* uvmcopy() fails.
LEMMA DupFailRefs ==
  ASSUME Control, RefsOK, NEW p \in Procs, DupFail(p)
  PROVE  RefsOK'
<1>0. /\ TabType /\ Tab(p) \in Tables /\ th[p].pc = "dup" /\ ~At(p, "dead")
      /\ th[p].pc \in Passive /\ th[p].i \in Vas
  BY Zenon, TypeParts, TablesOf, TableAssumption DEF Control, DupFail, At, Passive, PCs
<1>1. CASE Panic("freewalk: leaf")
  BY Zenon, <1>1, SameRefs DEF Panic
<1>2. CASE ~Panic("freewalk: leaf")
  <2> DEFINE fl == SharedPerm(perm[Tab(p)][th[p].i])
  <2>1. /\ perm' = [perm EXCEPT ![Tab(p)][th[p].i] = fl]
        /\ ReturnToUser(p) /\ UNCHANGED <<refcnt, freelist, ppn, cur>>
    BY Zenon, <1>2 DEF DupFail, memvars
  <2>2. SetPte(Tab(p), th[p].i, ppn[Tab(p)][th[p].i], fl)
    <3>1. ppn = [ppn EXCEPT ![Tab(p)][th[p].i] = ppn[Tab(p)][th[p].i]]
      BY Zenon, <1>0 DEF TabType
    <3> QED BY Zenon, <2>1, <3>1 DEF SetPte
  <2> HIDE DEF fl
  <2>3. /\ \A x \in Places : PermAt(x)' = IF x = <<Tab(p), th[p].i>> THEN fl ELSE PermAt(x)
        /\ \A u \in Tables : u # Tab(p) => ppn'[u] = ppn[u] /\ perm'[u] = perm[u]
    BY ZenonT(40), <1>0, <2>2, PteUpdate
  <2>4. "W" \notin fl
    BY Zenon DEF SharedPerm, fl
  <2>5. WritableIsPrivate'
    BY Zenon, <2>1, <2>3, <2>4, PrivateStep DEF RefsOK, PageAt
  <2>6. Within(p)
    BY Zenon, <1>0, <2>1, <2>3, WithinTable DEF Tab, Slots
  <2> QED BY Zenon, <1>0, <2>1, <2>5, <2>6, WaysToRest, RestLocal, QuietStep
<1> QED BY Zenon, <1>1, <1>2 DEF DupFail

\* One iteration of uvmcopy(): the child's PTE is made, both lose PTE_W.
LEMMA DupRefs ==
  ASSUME Control, RefsOK, NEW p \in Procs, DupPage(p)
  PROVE  RefsOK'
<1> DEFINE c == th[p].np  va == th[p].i  e == <<Tab(p), va>>  f == <<Tab(c), va>>
           pg == PageAt(e)  fl == SharedPerm(PermAt(e))
<1>0. /\ th[p] \in Thread /\ ThreadOK(th[p]) /\ MemType /\ TabType /\ Tab(p) \in Tables
      /\ CountsOK /\ WritableIsPrivate
  BY Zenon, TypeParts, TablesOf DEF Control, RefsOK, ThreadsOK
<1>1. /\ th[p].pc = "dup" /\ th[p].op = "fork" /\ va < th[p].lim /\ ~At(p, "dead")
      /\ Holes(p) = {} /\ Hands(p) = {} /\ Pushes(p) = {}
  BY Zenon, <1>0 DEF DupPage, At, Holes, Hands, Pushes, ThreadOK
<1>2. CASE Panic("uvmcopy: page not present") \/ Panic("mappages: remap")
  BY Zenon, <1>2, SameRefs DEF Panic
<1>3. CASE ~(Panic("uvmcopy: page not present") \/ Panic("mappages: remap"))
  <2>1. th[p].i \in 0 .. NVa /\ th[p].lim \in 0 .. NVa
    BY ZenonT(40), <1>0 DEF Thread
  <2>2. va \in Vas /\ c \in Procs /\ c # p
    BY <1>1, <2>1, SizeAssumption, ChildIsOther DEF Vas
  <2>3. Tab(c) \in Tables /\ Tab(c) # Tab(p)
    BY Zenon, <1>0, <2>2, TablesOf DEF Tab
  <2>4. /\ pg # None /\ PageAt(f) = None /\ UNCHANGED <<refcnt, freelist, cur>>
        /\ ppn' = [ppn EXCEPT ![Tab(c)][va] = pg]
        /\ perm' = [perm EXCEPT ![Tab(p)][va] = fl, ![Tab(c)][va] = fl]
        /\ Becomes(p, [th[p] EXCEPT !.pc = "incref", !.pa = pg])
    BY Zenon, <1>3 DEF DupPage, PageAt, PermAt, Remap, memvars
  <2>5. /\ th'[p].pc = "incref" /\ th'[p].pa = pg
        /\ th'[p].i = th[p].i /\ th'[p].op = th[p].op /\ th'[p].np = th[p].np
        /\ \A q \in Procs : q # p => th'[q] = th[q]
    <3>1. /\ th \in [Procs -> Thread]
          /\ Becomes(p, [th[p] EXCEPT !.pc = "incref", !.pa = pg])
      BY Zenon, <2>4 DEF Control, TypeOK
    <3> HIDE DEF pg
    <3> QED BY ZenonT(40), <1>0, <3>1 DEF Becomes, Thread
  <2>6. "W" \notin fl
    BY Zenon DEF SharedPerm
  <2>7. /\ e \in Places /\ f \in Places /\ e # f
        /\ e[1] = Tab(p) /\ e[2] = va /\ f[1] = Tab(c) /\ f[2] = va
    BY Zenon, <1>0, <2>2, <2>3 DEF Places
  <2>8. /\ \A u \in Tables : u \notin {Tab(p), Tab(c)} => ppn'[u] = ppn[u] /\ perm'[u] = perm[u]
        /\ \A w \in Vas : /\ ppn'[Tab(c)][w] = IF w = va THEN pg ELSE ppn[Tab(c)][w]
                          /\ ppn'[Tab(p)][w] = ppn[Tab(p)][w]
                          /\ perm'[Tab(c)][w] = IF w = va THEN fl ELSE perm[Tab(c)][w]
                          /\ perm'[Tab(p)][w] = IF w = va THEN fl ELSE perm[Tab(p)][w]
    <3> HIDE DEF pg, fl, va, c
    <3> QED BY Zenon, <1>0, <2>2, <2>3, <2>4 DEF TabType
  <2>9. \A x \in Places : /\ PageAt(x)' = IF x = f THEN pg ELSE PageAt(x)
                          /\ PermAt(x)' = IF x \in {e, f} THEN fl ELSE PermAt(x)
    <3> SUFFICES ASSUME NEW x \in Places
                 PROVE  /\ PageAt(x)' = IF x = f THEN pg ELSE PageAt(x)
                        /\ PermAt(x)' = IF x \in {e, f} THEN fl ELSE PermAt(x)
      BY Zenon
    <3>1. x = <<x[1], x[2]>> /\ x[1] \in Tables /\ x[2] \in Vas
      BY DEF Places
    <3>2. /\ PageAt(x) = ppn[x[1]][x[2]] /\ PageAt(x)' = ppn'[x[1]][x[2]]
          /\ PermAt(x) = perm[x[1]][x[2]] /\ PermAt(x)' = perm'[x[1]][x[2]]
      BY Zenon DEF PageAt, PermAt
    <3> HIDE DEF pg, fl
    <3>3. CASE x[1] = Tab(p)
      BY <2>3, <2>8, <3>1, <3>2, <3>3
    <3>4. CASE x[1] = Tab(c)
      BY <2>3, <2>8, <3>1, <3>2, <3>4
    <3>5. CASE x[1] \notin {Tab(p), Tab(c)}
      BY <2>8, <3>1, <3>2, <3>5
    <3> QED BY Zenon, <3>3, <3>4, <3>5
  <2>10. Within(p)
    <3>1. Slots(p) = {p, c} /\ Tab(p)[1] = p /\ Tab(c)[1] = c
      BY Zenon, <1>1 DEF Slots, Tab
    <3>2. \A t \in Tables : t[1] \notin Slots(p) => t \notin {Tab(p), Tab(c)}
      BY Zenon, <3>1
    <3> QED BY Zenon, <2>4, <2>8, <3>2 DEF Within
  <2>11. Others(p)
    BY Zenon, <1>1, <2>5, <2>10, OthersSame
  <2>13. Holes(p)' = {f} /\ Hands(p)' = {} /\ Pushes(p)' = {}
    BY Zenon, <2>4, <2>5 DEF Holes, Hands, Pushes, At, Tab
  <2>14. LocalOK(p)'
    <3>1. ppn'[Tab(p)][va] = pg /\ ppn'[Tab(c)][va] = pg
      BY Zenon, <2>2, <2>8 DEF PageAt
    <3>2. "W" \notin perm'[Tab(p)][va] /\ "W" \notin perm'[Tab(c)][va]
      BY Zenon, <2>2, <2>6, <2>8
    <3> HIDE DEF pg, fl
    <3> QED BY Zenon, <2>4, <2>5, <3>1, <3>2 DEF LocalOK, CowPCs, Tab
  <2>15. PageAt(f) \notin Pages
    BY Zenon, <2>4, PagesAssumption
  <2> HIDE DEF e, f, fl, c, va
  <2>16. CountsOK'
    BY Zenon, <1>0, <1>1, <2>4, <2>7, <2>9, <2>11, <2>13, <2>15, CountsDup
  <2>17. WritableIsPrivate'
    <3> SUFFICES ASSUME NEW x \in Places, NEW y \in Places, PageAt(x)' # None,
                        "W" \in PermAt(x)', PageAt(y)' = PageAt(x)'
                 PROVE  x = y
      BY Zenon DEF WritableIsPrivate, Places, PageAt, PermAt
    <3>1. x \notin {e, f} /\ PageAt(x)' = PageAt(x) /\ PermAt(x)' = PermAt(x)
      BY Zenon, <2>6, <2>9
    <3>2. \A z \in Places : PageAt(z) = PageAt(x) => x = z
      BY Zenon, <1>0, <3>1 DEF WritableIsPrivate, Places, PageAt, PermAt
    <3>3. CASE y = f
      BY Zenon, <2>7, <2>9, <3>1, <3>2, <3>3
    <3>4. CASE y # f
      BY Zenon, <2>9, <3>1, <3>2, <3>4
    <3> QED BY Zenon, <3>3, <3>4
  <2> QED BY Zenon, <1>1, <2>4, <2>5, <2>10, <2>14, <2>16, <2>17, RefsStep
<1> QED BY Zenon, <1>2, <1>3

\* incref() in uvmcopy().
LEMMA IncrefRefs ==
  ASSUME Control, RefsOK, NEW p \in Procs, DupIncref(p)
  PROVE  RefsOK'
<1> DEFINE e == <<Tab(p), th[p].i>>  f == <<Tab(th[p].np), th[p].i>>
<1>0. /\ th[p] \in Thread /\ LocalOK(p) /\ MemType /\ CountsOK
  BY Zenon, TypeParts DEF Control, RefsOK
<1>1. /\ th[p].pc = "incref" /\ ~At(p, "dead") /\ Hands(p) = {} /\ Pushes(p) = {}
      /\ Incref(th[p].pa) /\ UNCHANGED <<ppn, perm, cur>>
      /\ Becomes(p, [th[p] EXCEPT !.pc = "dup", !.i = th[p].i + 1, !.pa = None])
  BY Zenon DEF DupIncref, At, Hands, Pushes, tabvars
<1>2. th'[p].pc = "dup" /\ \A q \in Procs : q # p => th'[q] = th[q]
  BY ZenonT(40), <1>0, <1>1 DEF Control, TypeOK, Becomes, Thread
<1>3. /\ e \in Counted(th[p].pa) /\ th[p].pa \in Pages
      /\ f \in Places /\ PageAt(f) = th[p].pa /\ Holes(p) = {f}
  BY Zenon, <1>0, <1>1, ParentPte DEF At
<1>4. Within(p) /\ \A x \in Places : PageAt(x)' = PageAt(x) /\ PermAt(x)' = PermAt(x)
  BY Zenon, <1>1 DEF Within, PageAt, PermAt
<1>5. Others(p)
  BY Zenon, <1>1, <1>2, <1>4, OthersSame
<1>6. Holes(p)' = {} /\ Hands(p)' = {} /\ Pushes(p)' = {} /\ LocalOK(p)'
  BY Zenon, <1>2 DEF Holes, Hands, Pushes, At, LocalOK, CowPCs
<1>7. \A q \in Procs : q # p => f \notin Holes(q)
  <2> SUFFICES ASSUME NEW q \in Procs, q # p, f \in Holes(q) PROVE FALSE
    BY Zenon
  <2>1. f[1][1] \in Slots(q) /\ ~At(q, "dead") /\ f[1][1] \in Slots(p)
    BY Zenon, <1>3, ViewType
  <2> QED BY Zenon, <1>1, <2>1, SlotsDisjoint
<1>8. \A y \in Pages : refcnt'[y] # refcnt[y] => Claims(p, y)
  <2>1. e[1][1] \in Slots(p)
    BY Zenon DEF Tab, Slots
  <2> QED BY Zenon, <1>0, <1>1, <1>3, <2>1 DEF Incref, MemType, Claims
<1> HIDE DEF e, f
<1>9. CountsOK'
  BY Zenon, <1>0, <1>1, <1>3, <1>4, <1>5, <1>6, <1>7, CountsIncref
<1>10. WritableIsPrivate'
  BY Zenon, <1>4, PrivateStep DEF RefsOK
<1> QED BY Zenon, <1>1, <1>2, <1>4, <1>6, <1>8, <1>9, <1>10, RefsStep

\* The end of fork(): the child starts to run.
LEMMA ForkedRefs ==
  ASSUME Control, RefsOK, NEW p \in Procs, Forked(p)
  PROVE  RefsOK'
<1> DEFINE c == th[p].np
<1>0. /\ th[p].pc = "dup" /\ ~At(p, "dead") /\ UNCHANGED <<refcnt, freelist, ppn, perm, cur>>
      /\ th' = [th EXCEPT ![p] = Idle, ![c] = Idle]
  BY Zenon DEF Forked, At, memvars, tabvars
<1>1. ThreadOK(th[p]) /\ th \in [Procs -> Thread]
  BY Zenon DEF Control, ThreadsOK, TypeOK
<1>2. c \in Procs /\ c # p /\ At(c, "dead")
  BY Zenon, <1>0, <1>1, ChildIsOther DEF ThreadOK
<1>3. /\ th'[p] = Idle /\ th'[c] = Idle
      /\ \A q \in Procs : q \notin {p, c} => th'[q] = th[q]
  BY ZenonT(40), <1>0, <1>1, <1>2
<1>4. Within(p) /\ \A x \in Places : PageAt(x)' = PageAt(x) /\ PermAt(x)' = PermAt(x)
  BY Zenon, <1>0 DEF Within, PageAt, PermAt
<1>5. Idle.pc = "user"
  BY Zenon DEF Idle
<1>6. \A r \in {p, c} : /\ Holes(r)' = {} /\ Hands(r)' = {} /\ Pushes(r)' = {} /\ LocalOK(r)'
                        /\ Holes(r) = {} /\ Hands(r) = {} /\ Pushes(r) = {}
  <2> SUFFICES ASSUME NEW r \in {p, c}
               PROVE  /\ Holes(r)' = {} /\ Hands(r)' = {} /\ Pushes(r)' = {} /\ LocalOK(r)'
                      /\ Holes(r) = {} /\ Hands(r) = {} /\ Pushes(r) = {}
    BY Zenon
  <2>1. th'[r].pc = "user" /\ th[r].pc \in {"dup", "dead"}
    BY Zenon, <1>0, <1>2, <1>3, <1>5 DEF At
  <2> QED BY Zenon, <2>1 DEF Holes, Hands, Pushes, LocalOK, At, CowPCs
<1> HIDE DEF c
<1>7. Others(p)
  <2> SUFFICES ASSUME NEW q \in Procs, q # p
               PROVE  Holes(q)' = Holes(q) /\ Hands(q)' = Hands(q) /\ Pushes(q)' = Pushes(q)
    BY Zenon DEF Others
  <2>1. CASE q = c
    BY Zenon, <1>6, <2>1
  <2>2. CASE q # c
    <3>1. th'[q] = th[q] /\ Tab(q)' = Tab(q) /\ Alt(q)' = Alt(q)
      BY Zenon, <1>0, <1>3, <2>2 DEF Tab, Alt
    <3> QED BY Zenon, <1>0, <3>1 DEF Holes, Hands, Pushes, At, Target, Tab
  <2> QED BY Zenon, <2>1, <2>2
<1>8. CountsOK'
  BY Zenon, <1>0, <1>4, <1>6, <1>7, CountsStutter DEF RefsOK
<1>9. \A q \in Procs : LocalOK(q)'
  <2> SUFFICES ASSUME NEW q \in Procs, q \notin {p, c} PROVE LocalOK(q)'
    BY Zenon, <1>6
  <2>1. th'[q] = th[q]
    BY Zenon, <1>3
  <2> QED BY Zenon, <1>0, <1>4, <2>1, OthersLocal
<1>10. WritableIsPrivate'
  BY Zenon, <1>4, PrivateStep DEF RefsOK
<1> QED BY Zenon, <1>8, <1>9, <1>10 DEF RefsOK

-----------------------------------------------------------------------------
(* The invariant and what it gives.                                        *)

\* userinit() maps the only page that is not on the free list.
LEMMA InitRefs == CountingLaws /\ Init => RefsOK
<1> SUFFICES ASSUME CountingLaws, NEW pg \in Pages, InitMem(pg), InitTables(pg), InitProcs PROVE RefsOK
  BY Zenon DEF Init
<1> DEFINE e == <<<<InitProc, "A">>, 0>>
<1>1. \A q \in Procs : th[q].pc \in {"user", "dead"}
  BY Zenon DEF InitProcs, Idle, Dead
<1>2. \A q \in Procs : Holes(q) = {} /\ Hands(q) = {} /\ Pushes(q) = {} /\ LocalOK(q)
  BY Zenon, <1>1 DEF Holes, Hands, Pushes, LocalOK, At, CowPCs
<1>3. e \in Places
  BY ProcsAssumption, SizeAssumption DEF Places, Tables, Vas
<1>4. \A x \in Places : PageAt(x) = IF x = e THEN pg ELSE None
  <2> SUFFICES ASSUME NEW x \in Places PROVE PageAt(x) = IF x = e THEN pg ELSE None
    BY Zenon
  <2>1. x = <<x[1], x[2]>> /\ x[1] \in Tables /\ x[2] \in Vas
    BY DEF Places
  <2> QED BY <2>1 DEF InitTables, PageAt
<1> HIDE DEF e
<1>5. /\ Counted(pg) = {e} /\ \A y \in Pages : y # pg => Counted(y) = {}
  BY Zenon, <1>2, <1>3, <1>4, PagesAssumption DEF Counted
<1>6. \A y \in Pages : Holding(y) = {} /\ Status(y) = IF y = pg THEN "used" ELSE "free"
  BY Zenon, <1>2 DEF Holding, Status, InitMem
<1>7. refcnt[pg] = 1
  BY Zenon DEF InitMem
<1>8. Balanced({e}, {}, 1, "used")
  BY Zenon DEF CountingLaws, FirstPte
<1>9. CountsOK
  <2>1. ASSUME NEW y \in Pages PROVE Balanced(Counted(y), Holding(y), refcnt[y], Status(y))
    <3>1. CASE y = pg
      BY Zenon, <1>5, <1>6, <1>7, <1>8, <3>1
    <3>2. CASE y # pg
      BY Zenon, <1>5, <1>6, <3>2 DEF Balanced
    <3> QED BY Zenon, <3>1, <3>2
  <2> QED BY Zenon, <1>2, <2>1 DEF CountsOK
<1>10. WritableIsPrivate
  <2> SUFFICES ASSUME NEW x \in Places, NEW y \in Places, PageAt(x) # None, PageAt(y) = PageAt(x)
               PROVE  x = y
    BY Zenon DEF WritableIsPrivate, Places, PageAt
  <2> QED BY Zenon, <1>4
<1> QED BY Zenon, <1>2, <1>9, <1>10 DEF RefsOK

\* Every step of every thread keeps RefsOK.
LEMMA RefsInductive == Control /\ RefsOK /\ [Next]_vars => RefsOK'
<1> SUFFICES ASSUME Control, RefsOK, [Next]_vars PROVE RefsOK'
  BY Zenon
<1>1. CASE UNCHANGED vars
  BY Zenon, <1>1, SameRefs DEF vars
<1>2. CASE Halted
  BY Zenon, <1>2, SameRefs DEF Halted, vars
<1>3. ASSUME NEW p \in Procs, Step(p) PROVE RefsOK'
  <2>1. CASE \/ \E va \in Vas, v \in Values : Store(p, va, v)
             \/ \E va \in Vas : StoreFault(p, va)
             \/ Syscall(p)
    BY Zenon, <2>1, UserRefs
  <2>2. CASE Exit(p)
    BY Zenon, <2>2, RestingRefs
  <2>3. CASE KernelStep(p)
    <3>1. CASE CowRefcount(p) \/ CowOwn(p)
      BY Zenon, <3>1, CowOwnRefs
    <3>2. CASE CowKalloc(p) \/ AllocPage(p)
      <4>1. CASE UNCHANGED memvars
        BY Zenon, <3>2, <4>1, RestingRefs
      <4>2. CASE ~UNCHANGED memvars
        BY Zenon, <3>2, <4>2, KallocRefs
      <4> QED BY Zenon, <4>1, <4>2
    <3>3. CASE CowCopy(p)
      BY Zenon, <3>3, CowCopyRefs
    <3>4. CASE CopyoutStore(p) \/ CopyoutFail(p) \/ Unmapped(p) \/ Grown(p) \/ ExecBad(p)
      BY Zenon, <3>4, RestingRefs
    <3>5. CASE Kfree(p) \/ KfreeEnd(p)
      BY Zenon, <3>5, KfreeRefs, KfreeEndRefs
    <3>6. CASE UnmapPage(p) \/ ExecCommit(p)
      BY Zenon, <3>6, UnmapRefs, ExecCommitRefs
    <3>7. CASE MapPage(p) \/ MapFail(p)
      BY Zenon, <3>7, MapRefs
    <3>8. CASE DupPage(p) \/ DupFail(p) \/ DupIncref(p) \/ Forked(p)
      BY Zenon, <3>8, DupRefs, DupFailRefs, IncrefRefs, ForkedRefs
    <3> QED BY Zenon, <2>3, <3>1, <3>2, <3>3, <3>4, <3>5, <3>6, <3>7, <3>8 DEF KernelStep
  <2> QED BY Zenon, <1>3, <2>1, <2>2, <2>3 DEF Step
<1> QED BY Zenon, <1>1, <1>2, <1>3 DEF Next

\* The sets of CowVM's properties are those of the proof.
LEMMA SameSets ==
  ASSUME NEW pg \in Pages
  PROVE  /\ PteRefs(pg) = Counted(pg) /\ HandRefs(pg) = Holding(pg)
         /\ Freeing(pg) <=> \E q \in Procs : pg \in Pushes(q)
<1>1. \A q \in Procs, t \in Tables, va \in Vas :
        <<t, va>> \in Holes(q) <=>
          \/ At(q, "incref") /\ t = Tab(th[q].np) /\ va = th[q].i
          \/ At(q, "kfree_push") /\ th[q].ret = "unmap" /\ t = Target(q) /\ va = th[q].i
  BY Zenon DEF Holes, At
<1>2. \A x \in Places : (\A q \in Procs : x \notin Holes(q)) <=> ~Uncounted(x[1], x[2])
  <2> SUFFICES ASSUME NEW x \in Places
               PROVE  (\A q \in Procs : x \notin Holes(q)) <=> ~Uncounted(x[1], x[2])
    BY Zenon
  <2>1. x = <<x[1], x[2]>> /\ x[1] \in Tables /\ x[2] \in Vas
    BY DEF Places
  <2> QED BY <1>1, <2>1 DEF Uncounted
<1>3. PteRefs(pg) = Counted(pg)
  BY Zenon, <1>2 DEF PteRefs, Counted, Places, PageAt
<1>4. \A q \in Procs : InHand(q, pg) <=> pg \in Hands(q)
  BY Zenon DEF InHand, Hands, At
<1>5. HandRefs(pg) = Holding(pg)
  BY Zenon, <1>4 DEF HandRefs, Holding
<1> QED BY Zenon, <1>3, <1>5 DEF Freeing, Pushes

\* The invariant gives the properties of CowVM.
LEMMA RefsImply ==
  ASSUME Control, RefsOK
  PROVE  RefcountExact /\ FreeIsUnreferenced /\ NoLeak /\ LocalsOK
<1>0. MemType /\ CountsOK /\ \A p \in Procs : LocalOK(p) /\ ThreadOK(th[p])
  BY Zenon, TypeParts, ProcsAssumption DEF Control, RefsOK, ThreadsOK
<1>1. ASSUME NEW pg \in Pages \ freelist
      PROVE  /\ refcnt[pg] = Cardinality(PteRefs(pg)) + Cardinality(HandRefs(pg))
             /\ PteRefs(pg) # {} \/ HandRefs(pg) # {} \/ Freeing(pg)
  <2>1. Balanced(Counted(pg), Holding(pg), refcnt[pg], Status(pg))
    BY Zenon, <1>0 DEF CountsOK
  <2>2. Cardinality({}) = 0
    BY Zenon, <1>0, Laws DEF CountingLaws, NothingCounts
  <2>3. CASE Status(pg) = "freeing"
    <3>1. Freeing(pg)
      BY Zenon, <2>3, SameSets DEF Status
    <3>2. Counted(pg) = {} /\ Holding(pg) = {} /\ refcnt[pg] = 0
      BY Zenon, <2>1, <2>3 DEF Balanced
    <3> QED BY <2>2, <3>1, <3>2, SameSets
  <2>4. CASE Status(pg) = "used"
    BY <2>1, <2>2, <2>4, SameSets DEF Balanced
  <2> QED BY Zenon, <2>3, <2>4 DEF Status
<1>2. ASSUME NEW pg \in freelist
      PROVE  PteRefs(pg) = {} /\ HandRefs(pg) = {} /\ ~Freeing(pg)
  <2>1. pg \in Pages /\ Status(pg) = "free"
    BY Zenon, <1>0 DEF MemType, Status
  <2>2. Counted(pg) = {} /\ Holding(pg) = {}
    BY Zenon, <1>0, <2>1 DEF CountsOK, Balanced
  <2>3. \A q \in Procs : pg \notin Pushes(q)
    BY Zenon, <1>0, <2>1 DEF CountsOK
  <2> QED BY Zenon, <2>1, <2>2, <2>3, SameSets
<1>3. ASSUME NEW p \in Procs, At(p, "kfree_push")
      PROVE  /\ th[p].pa \in Pages /\ refcnt[th[p].pa] = 0 /\ th[p].pa \notin freelist
             /\ \A q \in Procs : At(q, "kfree_push") /\ th[p].pa = th[q].pa => p = q
  <2>1. th[p].pa \in Pages /\ Pushes(p) = {th[p].pa}
    BY Zenon, <1>0, <1>3 DEF ThreadOK, Pushes, At
  <2>2. /\ th[p].pa \notin freelist /\ Status(th[p].pa) = "freeing"
        /\ \A q \in Procs : th[p].pa \in Pushes(q) => p = q
    BY Zenon, <1>0, <2>1 DEF CountsOK, Status
  <2>3. refcnt[th[p].pa] = 0
    BY Zenon, <1>0, <2>1, <2>2 DEF CountsOK, Balanced
  <2> QED BY Zenon, <2>1, <2>2, <2>3 DEF Pushes
<1>4. LocalsOK
  BY Zenon, <1>0, <1>3 DEF LocalsOK, LocalOK, At
<1> QED BY Zenon, <1>1, <1>2, <1>4 DEF RefcountExact, FreeIsUnreferenced, NoLeak

\* Only the PTE that uvmunmap() is about to clear still maps a page that kfree() pushes.
LEMMA PushedPage ==
  ASSUME Control, RefsOK, NEW p \in Procs, At(p, "kfree_push"), NEW x \in Places, PageAt(x) = th[p].pa
  PROVE  th[p].ret = "unmap" /\ x = <<Target(p), th[p].i>>
<1>1. PICK pg \in Pages : pg = th[p].pa
  BY Zenon DEF Control, ThreadsOK, ThreadOK, At
<1>2. pg \in Pushes(p)
  BY Zenon, <1>1 DEF Pushes
<1>3. Status(pg) = "freeing" /\ Balanced(Counted(pg), Holding(pg), refcnt[pg], Status(pg))
  BY Zenon, <1>2 DEF RefsOK, CountsOK, Status
<1>4. Counted(pg) = {}
  BY Zenon, <1>3 DEF Balanced
<1>5. PICK q \in Procs : x \in Holes(q)
  BY Zenon, <1>1, <1>4 DEF Counted
<1>6. CASE At(q, "incref")
  <2>1. PageAt(x) = th[q].pa /\ \E y : y \in Counted(th[q].pa)
    BY Zenon, <1>5, <1>6, ParentPte DEF RefsOK
  <2> QED BY Zenon, <1>1, <1>4, <2>1
<1>7. CASE ~At(q, "incref")
  <2>1. At(q, "kfree_push") /\ th[q].ret = "unmap" /\ x = <<Target(q), th[q].i>>
    BY Zenon, <1>5, <1>7 DEF Holes
  <2>2. PageAt(x) = th[q].pa
    BY Zenon, <2>1 DEF RefsOK, LocalOK, PageAt, At
  <2>3. pg \in Pushes(q)
    BY Zenon, <1>1, <2>1, <2>2 DEF Pushes
  <2>4. q = p
    BY Zenon, <1>2, <2>3 DEF RefsOK, CountsOK
  <2> QED BY Zenon, <2>1, <2>4
<1> QED BY Zenon, <1>6, <1>7

\* What the proofs about user memories use.
LEMMA RefsGivePages ==
  ASSUME Control, RefsOK
  PROVE  PagesOK
<1>1. WritableIsPrivate /\ \A p \in Procs : LocalOK(p)
  BY Zenon DEF RefsOK
<1> QED BY Zenon, <1>1, FreshPage, PushedPage DEF PagesOK
=============================================================================
