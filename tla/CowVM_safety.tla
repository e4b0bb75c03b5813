------------------------------ MODULE CowVM_safety ------------------------------
(***************************************************************************)
(* The theorems about CowVM.  The laws of counting are proved from the     *)
(* library's theorems about finite sets, and with them the layers give     *)
(* exact reference counts, a free list without referenced pages, no lost   *)
(* page, private writable pages, exact page tables, and user memories that *)
(* are as private as if fork() had copied them.                            *)
(***************************************************************************)
EXTENDS CowVM_refs, CowVM_tables, CowVM_memory, FiniteSetTheorems

\* Adding an element to a finite set and taking one away.
LEMMA CardAdd ==
  ASSUME NEW S, IsFiniteSet(S), NEW x, x \notin S
  PROVE  Cardinality(S \cup {x}) = Cardinality(S) + 1 /\ Cardinality(S) \in Nat
BY Zenon, FS_AddElement, FS_CardinalityType

\* Taking an element away.
LEMMA CardDrop ==
  ASSUME NEW S, IsFiniteSet(S), NEW x \in S
  PROVE  /\ IsFiniteSet(S \ {x}) /\ Cardinality(S \ {x}) = Cardinality(S) - 1
         /\ Cardinality(S) \in Nat /\ Cardinality(S \ {x}) \in Nat
<1>1. IsFiniteSet(S \ {x}) /\ Cardinality(S \ {x}) = Cardinality(S) - 1
  BY Zenon, FS_RemoveElement
<1> QED BY Zenon, <1>1, FS_CardinalityType

\* Only the empty set counts zero.
LEMMA CardZero ==
  ASSUME NEW S, IsFiniteSet(S)
  PROVE  Cardinality(S) \in Nat /\ (Cardinality(S) = 0 <=> S = {})
BY Zenon, FS_CardinalityType, FS_EmptySet

\* The first laws: which sets are finite.
LEMMA Finite == PlacesFinite /\ SubsetFinite /\ NothingCounts
<1>1. IsFiniteSet({"A", "B"})
  <2>1. IsFiniteSet(({} \cup {"A"}) \cup {"B"})
    BY Zenon, FS_EmptySet, FS_AddElement
  <2>2. ({} \cup {"A"}) \cup {"B"} = {"A", "B"}
    BY Zenon
  <2> QED BY Zenon, <2>1, <2>2
<1>2. ASSUME NEW S, IsFiniteSet(S), NEW n \in Nat
      PROVE  IsFiniteSet((S \X {"A", "B"}) \X (0 .. n-1))
  <2>1. IsFiniteSet(S \X {"A", "B"})
    BY Zenon, <1>1, <1>2, FS_Product
  <2>2. IsFiniteSet(0 .. n-1)
    BY <1>2, FS_Interval
  <2> QED BY Zenon, <2>1, <2>2, FS_Product
<1>3. PlacesFinite
  BY Zenon, <1>2 DEF PlacesFinite
<1>4. SubsetFinite
  BY Zenon, FS_Subset DEF SubsetFinite
<1> QED BY Zenon, <1>3, <1>4, FS_EmptySet DEF NothingCounts

\* A page with one reference has no other: when one of two sets that together have one
\* element is not empty, it is that element.
LEMMA OnlyOne ==
  ASSUME NEW S, IsFiniteSet(S), NEW T, IsFiniteSet(T), NEW x \in S,
         Cardinality(S) + Cardinality(T) = 1
  PROVE  S = {x} /\ T = {}
<1>1. Cardinality(S \ {x}) = 0 /\ Cardinality(T) = 0 /\ IsFiniteSet(S \ {x})
  BY CardDrop, CardZero
<1> QED BY Zenon, <1>1, CardZero

\* A page that is referred to is in use.
LEMMA MeansUsed == PteMeansUsed /\ HandMeansUsed
<1> SUFFICES ASSUME NEW P, NEW H, NEW r, NEW st, NEW x, Count(P, H, r, st), x \in P \cup H
             PROVE  /\ st = "used" /\ r >= 1
                    /\ r = 1 /\ x \in P => P = {x} /\ H = {}
                    /\ r = 1 /\ x \in H => H = {x} /\ P = {}
  BY DEF PteMeansUsed, HandMeansUsed
<1>1. IsFiniteSet(P) /\ IsFiniteSet(H) /\ r \in Int
  BY Zenon DEF Count
<1>2. st = "used" /\ r = Cardinality(P) + Cardinality(H) /\ r >= 1
  BY <1>1 DEF Count, Balanced
<1>3. Cardinality(P) \in Nat /\ Cardinality(H) \in Nat
  BY Zenon, <1>1, CardZero
<1>4. r = Cardinality(H) + Cardinality(P)
  BY <1>2, <1>3
<1> QED BY Zenon, <1>1, <1>2, <1>4, OnlyOne

\* kfree(): one reference less.
LEMMA Drop == DropPte /\ DropHand
<1> DEFINE s(r) == IF r - 1 > 0 THEN "used" ELSE "freeing"
<1> SUFFICES ASSUME NEW P, NEW H, NEW r, NEW st, NEW x, Count(P, H, r, st)
             PROVE  /\ x \in P => Balanced(P \ {x}, H, r - 1, s(r))
                    /\ x \in H => Balanced(P, H \ {x}, r - 1, s(r))
  BY Zenon DEF DropPte, DropHand
<1>1. IsFiniteSet(P) /\ IsFiniteSet(H) /\ r \in Int
  BY Zenon DEF Count
<1>2. Cardinality(P) \in Nat /\ Cardinality(H) \in Nat
  BY Zenon, <1>1, CardZero
<1>3. ASSUME x \in P \cup H PROVE r = Cardinality(P) + Cardinality(H) /\ r >= 1
  BY <1>1, <1>3 DEF Count, Balanced
<1>4. ASSUME x \in P PROVE Balanced(P \ {x}, H, r - 1, s(r))
  <2>1. Cardinality(P \ {x}) = Cardinality(P) - 1
    BY Zenon, <1>1, <1>4, CardDrop
  <2>2. CASE r > 1
    BY <1>1, <1>2, <1>3, <1>4, <2>1, <2>2 DEF Balanced
  <2>3. CASE r = 1
    <3>1. P = {x} /\ H = {}
      BY Zenon, <1>1, <1>3, <1>4, <2>3, OnlyOne
    <3> QED BY <2>3, <3>1 DEF Balanced
  <2> QED BY <1>1, <1>3, <1>4, <2>2, <2>3
<1>5. ASSUME x \in H PROVE Balanced(P, H \ {x}, r - 1, s(r))
  <2>1. Cardinality(H \ {x}) = Cardinality(H) - 1
    BY Zenon, <1>1, <1>5, CardDrop
  <2>2. CASE r > 1
    BY <1>1, <1>2, <1>3, <1>5, <2>1, <2>2 DEF Balanced
  <2>3. CASE r = 1
    <3>1. Cardinality(H) + Cardinality(P) = 1
      BY <1>2, <1>3, <1>5, <2>3
    <3>2. H = {x} /\ P = {}
      BY Zenon, <1>1, <1>5, <3>1, OnlyOne
    <3> QED BY <2>3, <3>2 DEF Balanced
  <2> QED BY <1>1, <1>3, <1>5, <2>2, <2>3
<1> QED BY Zenon, <1>4, <1>5

\* kalloc(), incref() and mappages(): a reference more, or one that moves.
LEMMA Move == AddPte /\ HandToPte /\ PteToHand /\ FirstHand /\ FirstPte
<1>1. AddPte
  BY CardAdd, CardZero DEF AddPte, Count, Balanced
<1>2. ASSUME NEW P, NEW H, NEW r, NEW st, Count(P, H, r, st), NEW x, NEW y
      PROVE  /\ x \in H /\ y \notin P => Balanced(P \cup {y}, H \ {x}, r, "used")
             /\ x \in P /\ y \notin H => Balanced(P \ {x}, H \cup {y}, r, "used")
  <2>1. IsFiniteSet(P) /\ IsFiniteSet(H) /\ r \in Int
    BY Zenon, <1>2 DEF Count
  <2>2. Cardinality(P) \in Nat /\ Cardinality(H) \in Nat
    BY Zenon, <2>1, CardZero
  <2>3. x \in P \cup H => r = Cardinality(P) + Cardinality(H) /\ r > 0
    BY Zenon, <1>2 DEF Count, Balanced
  <2>4. ASSUME x \in H, y \notin P PROVE Balanced(P \cup {y}, H \ {x}, r, "used")
    <3>1. /\ Cardinality(P \cup {y}) = Cardinality(P) + 1
          /\ Cardinality(H \ {x}) = Cardinality(H) - 1
      BY Zenon, <2>1, <2>4, CardAdd, CardDrop
    <3> QED BY <2>2, <2>3, <2>4, <3>1 DEF Balanced
  <2>5. ASSUME x \in P, y \notin H PROVE Balanced(P \ {x}, H \cup {y}, r, "used")
    <3>1. /\ Cardinality(H \cup {y}) = Cardinality(H) + 1
          /\ Cardinality(P \ {x}) = Cardinality(P) - 1
      BY Zenon, <2>1, <2>5, CardAdd, CardDrop
    <3> QED BY <2>2, <2>3, <2>5, <3>1 DEF Balanced
  <2> QED BY Zenon, <2>4, <2>5
<1>3. HandToPte /\ PteToHand
  BY Zenon, <1>2 DEF HandToPte, PteToHand
<1>4. ASSUME NEW x PROVE Balanced({}, {x}, 1, "used") /\ Balanced({x}, {}, 1, "used")
  <2>1. IsFiniteSet({}) /\ Cardinality({}) = 0 /\ {} \cup {x} = {x}
    BY Zenon, FS_EmptySet
  <2>2. Cardinality({} \cup {x}) = Cardinality({}) + 1
    BY Zenon, <2>1, CardAdd
  <2>3. Cardinality({x}) = 1
    BY <2>1, <2>2
  <2> QED BY <2>1, <2>3 DEF Balanced
<1>5. FirstHand /\ FirstPte
  BY Zenon, <1>4 DEF FirstHand, FirstPte
<1> QED BY Zenon, <1>1, <1>3, <1>5

\* What the proofs about the actions assume of counting.
LEMMA CountingLawsHold == CountingLaws
BY Zenon, Finite, MeansUsed, Drop, Move DEF CountingLaws

-----------------------------------------------------------------------------
(* The theorems.                                                           *)

\* In every reachable state of every instance, whatever the interleaving of faults,
\* fork, exec, sbrk, exit and wait: kmem.refcnt is exact, no page on the free list is
\* referenced or freed twice, no page is lost, and the locals of every thread still
\* describe the PTE and the counter they were read from.
THEOREM ReferenceCounts ==
  Spec => [](RefcountExact /\ FreeIsUnreferenced /\ NoLeak /\ LocalsOK)
<1>1. Spec => [](Control /\ RefsOK)
  <2>1. Init => Control /\ RefsOK
    BY Zenon, CountingLawsHold, InitThreads, InitRefs DEF Control
  <2>2. (Control /\ RefsOK) /\ [Next]_vars => (Control /\ RefsOK)'
    BY Zenon, ControlInductive, RefsInductive
  <2> QED BY <2>1, <2>2, PTL DEF Spec
<1>2. Control /\ RefsOK => RefcountExact /\ FreeIsUnreferenced /\ NoLeak /\ LocalsOK
  BY Zenon, RefsImply
<1> QED BY <1>1, <1>2, PTL

\* No page that kalloc() ever gave out is lost: it is on the free list, about to be put
\* there, mapped, or in the hands of a thread, through every failure of uvmalloc(),
\* uvmcopy() and exec().
THEOREM NoPageLost == Spec => []NoLeak
BY ReferenceCounts, PTL

\* A page that a user can write through some PTE is mapped by no other PTE of any
\* process: what uvmcopy() and handle_cow_fault() together have to guarantee.
THEOREM PrivatePages == Spec => []WritableIsPrivate
<1>1. Init => Control /\ RefsOK
  BY Zenon, CountingLawsHold, InitThreads, InitRefs DEF Control
<1>2. (Control /\ RefsOK) /\ [Next]_vars => (Control /\ RefsOK)'
  BY Zenon, ControlInductive, RefsInductive
<1>3. Control /\ RefsOK => WritableIsPrivate
  BY Zenon DEF RefsOK
<1> QED BY <1>1, <1>2, <1>3, PTL DEF Spec

\* In every reachable state of every instance, the size of a process and the counter of the
\* loop it is in say exactly which PTEs of its tables are valid.  So uvmunmap(), uvmcopy()
\* and mappages() never panic, and freewalk() can only after a fork() that failed behind the
\* first page-table page: with no such failure the memory system never panics.
THEOREM TablesExact ==
  Spec => [](/\ TablesOK
             /\ panicked \in {"", "init exiting", "freewalk: leaf"}
             /\ TableStart \subseteq {0} => NoVmPanic)
<1> DEFINE I == Control /\ RefsOK /\ TablesOK /\ PanicsOK
<1>1. Init => I
  BY Zenon, CountingLawsHold, InitThreads, InitRefs, InitTablesOK
     DEF Control, PanicsOK, NoVmPanic, Init, InitProcs
<1>2. I /\ [Next]_vars => I'
  BY Zenon, ControlInductive, RefsInductive, RefsImply, TablesInductive, PanicsInductive
<1>3. I => /\ TablesOK
           /\ panicked \in {"", "init exiting", "freewalk: leaf"}
           /\ TableStart \subseteq {0} => NoVmPanic
  BY Zenon DEF PanicsOK
<1> QED BY <1>1, <1>2, <1>3, PTL DEF Spec

\* The layers hold together in every reachable state.
LEMMA MemoryInvHolds == Spec => []MemoryInv
<1> DEFINE I == Control /\ RefsOK /\ TablesOK /\ ImagesOK /\ CopiesOK
<1>1. Init => I
  BY Zenon, CountingLawsHold, InitThreads, InitRefs, InitTablesOK, InitImages DEF Control
<1>2. I => MemoryInv
  BY Zenon, RefsGivePages DEF MemoryInv
<1>3. I /\ [Next]_vars => I'
  BY Zenon, <1>2, ControlInductive, RefsInductive, RefsImply, TablesInductive, MemoryInductive
<1> QED BY <1>1, <1>2, <1>3, PTL DEF Spec

\* The memory of a process changes only by its own store, system call or exit, or by the
\* fork() that creates it, however the steps of sharing, copying and freeing pages of all
\* processes interleave.
THEOREM ProcessesIsolated == Spec => Isolation
<1>1. MemoryInv /\ [Next]_vars => [Isolated]_vars
  BY Zenon, IsolationStep
<1> QED BY <1>1, MemoryInvHolds, PTL DEF Spec, Isolation

\* The copy-on-write kernel implements private memories that fork() copies at one instant.
THEOREM ImplementsMemories == Spec => PrivateMemories
<1>1. Init /\ MemoryInv => A!Init
  BY Zenon, InitSpaces DEF MemoryInv
<1>2. MemoryInv => SpacesOK
  BY Zenon, SpacesTyped DEF MemoryInv
<1>3. MemoryInv /\ SpacesOK' /\ [Next]_vars => [A!Next]_Space
  BY Zenon, MemoriesNext
<1> QED BY <1>1, <1>2, <1>3, MemoryInvHolds, PTL DEF Spec, PrivateMemories, A!Spec
=============================================================================
