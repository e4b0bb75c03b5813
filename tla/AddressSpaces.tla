---------------------------- MODULE AddressSpaces ----------------------------
(***************************************************************************)
(* What the kernel's virtual memory promises to user programs: every live  *)
(* process owns a private memory, and nothing but the process's own        *)
(* operations changes it.  fork() hands the child a copy taken at one      *)
(* instant.  There are no physical pages, reference counts or              *)
(* copy-on-write here; module CowVM implements this specification.         *)
(***************************************************************************)
EXTENDS Naturals

CONSTANTS Procs, InitProc, NVa, Values, None

VARIABLE space   \* space[p]: the memory of live process p, page by page

\* The memories of n pages.
Image(n) == [0 .. n-1 -> Values]
Memories == UNION {Image(n) : n \in 0 .. NVa}

TypeOK == space \in [Procs -> Memories \cup {None}]

Live(p) == space[p] # None

Init == space \in [Procs -> Image(1) \cup {None}] /\ \A p \in Procs : Live(p) <=> p = InitProc

\* A store, or a kernel copy into user memory, changes one page of one process.
Write(p, va, v) ==
  /\ Live(p) /\ va \in DOMAIN space[p]
  /\ space' = [space EXCEPT ![p][va] = v]

\* The child starts with exactly the parent's memory.
Fork(p, c) ==
  /\ Live(p) /\ ~Live(c)
  /\ space' = [space EXCEPT ![c] = space[p]]

\* sbrk() keeps the pages common to both sizes; new ones hold anything.
Resize(p, m) ==
  /\ Live(p)
  /\ \A va \in DOMAIN space[p] \cap DOMAIN m : m[va] = space[p][va]
  /\ space' = [space EXCEPT ![p] = m]

\* exec() replaces the memory.
Exec(p, m) == Live(p) /\ space' = [space EXCEPT ![p] = m]

Exit(p) == Live(p) /\ space' = [space EXCEPT ![p] = None]

\* A step changes the memory of process p and of no other.
Changes(p) == space'[p] # space[p] /\ \A q \in Procs \ {p} : space'[q] = space[q]

Next == \E p \in Procs : Changes(p) /\
  \/ \E va \in 0 .. NVa-1, v \in Values : Write(p, va, v)
  \/ \E q \in Procs : Fork(q, p)
  \/ \E m \in Memories : Resize(p, m) \/ Exec(p, m)
  \/ Exit(p)

Spec == Init /\ [][Next]_space
=============================================================================
