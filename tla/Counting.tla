------------------------------- MODULE Counting -------------------------------
(***************************************************************************)
(* What a reference count has to satisfy, as a statement about sets: a     *)
(* page in use has as many references as its counter says, and at least    *)
(* one.  P is the set of PTEs that refer to the page, H the set of threads *)
(* that hold it, r the counter, st whether it is in use, on its way to the *)
(* free list, or on it.  The laws say what one reference more, less or     *)
(* moved does; they need no state.  CowVM_safety proves them from the      *)
(* library's theorems about finite sets (CountingLawsHold); the proofs     *)
(* about the actions carry them along as the hypothesis CountingLaws.      *)
(***************************************************************************)
EXTENDS Integers, FiniteSets

Balanced(P, H, r, st) ==
  \/ st = "free" /\ P = {} /\ H = {}
  \/ st = "freeing" /\ P = {} /\ H = {} /\ r = 0
  \/ st = "used" /\ r = Cardinality(P) + Cardinality(H) /\ r > 0

Count(P, H, r, st) ==
  IsFiniteSet(P) /\ IsFiniteSet(H) /\ r \in Int /\ Balanced(P, H, r, st)

\* Where the references are counted: finitely many places, and parts of a finite set.
PlacesFinite == \A S, n :
  IsFiniteSet(S) /\ n \in Nat => IsFiniteSet((S \X {"A", "B"}) \X (0 .. n-1))
SubsetFinite == \A S, T : IsFiniteSet(S) /\ T \in SUBSET S => IsFiniteSet(T)
NothingCounts == IsFiniteSet({}) /\ Cardinality({}) = 0

\* A page with a reference is in use; a count of one leaves room for no second one.
PteMeansUsed == \A P, H, r, st, x : Count(P, H, r, st) /\ x \in P =>
  st = "used" /\ r >= 1 /\ (r = 1 => P = {x} /\ H = {})
HandMeansUsed == \A P, H, r, st, x : Count(P, H, r, st) /\ x \in H =>
  st = "used" /\ r >= 1 /\ (r = 1 => H = {x} /\ P = {})

\* incref(): one PTE more.
AddPte == \A P, H, r, x : Count(P, H, r, "used") /\ x \notin P =>
  Balanced(P \cup {x}, H, r + 1, "used")

\* kfree() by uvmunmap(), and by a thread that holds the page: one reference less, and
\* the page goes if it was the last.
DropPte == \A P, H, r, st, x : Count(P, H, r, st) /\ x \in P =>
  Balanced(P \ {x}, H, r - 1, IF r - 1 > 0 THEN "used" ELSE "freeing")
DropHand == \A P, H, r, st, x : Count(P, H, r, st) /\ x \in H =>
  Balanced(P, H \ {x}, r - 1, IF r - 1 > 0 THEN "used" ELSE "freeing")

\* mappages() of a held page, and handle_cow_fault() taking the old page in hand.
HandToPte == \A P, H, r, st, x, y : Count(P, H, r, st) /\ x \in H /\ y \notin P =>
  Balanced(P \cup {y}, H \ {x}, r, "used")
PteToHand == \A P, H, r, st, x, y : Count(P, H, r, st) /\ x \in P /\ y \notin H =>
  Balanced(P \ {x}, H \cup {y}, r, "used")

\* kalloc(): the page gets its first reference.  The first process's page has one too.
FirstHand == \A x : Balanced({}, {x}, 1, "used")
FirstPte == \A x : Balanced({x}, {}, 1, "used")

CountingLaws ==
  /\ PlacesFinite /\ SubsetFinite /\ NothingCounts
  /\ PteMeansUsed /\ HandMeansUsed
  /\ AddPte /\ DropPte /\ DropHand
  /\ HandToPte /\ PteToHand
  /\ FirstHand /\ FirstPte
=============================================================================
