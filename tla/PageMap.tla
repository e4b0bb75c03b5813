------------------------------- MODULE PageMap -------------------------------
(***************************************************************************)
(* What the page tables of user processes promise.  A process has a size   *)
(* in bytes and one frame for every page of it.  Growing moves no page,    *)
(* shrinking drops pages from the end, and no frame has two users.  sbrk() *)
(* returns the old size, and the size changes by n, or -1; shrinking by    *)
(* more than there is changes nothing.  exec() gives a new space or        *)
(* returns -1.  A call that returns -1 changes nothing.                    *)
(***************************************************************************)
EXTENDS Integers

CONSTANTS Procs, Frames, PGSIZE, NoProc,
          ExecSize         \* size of a process after exec()

VARIABLES space,      \* per process: NoProc, or its size and its frames
          ret         \* the last call, its process and argument, what it returned
Npages(sz) == (sz + PGSIZE - 1) \div PGSIZE
Empty == [sz |-> 0, frame |-> [i \in {} |-> 0]]
Init == space = [p \in Procs |-> NoProc] /\ ret.call = "none"

FramesOf(p) == IF space[p] = NoProc THEN {} ELSE {space[p].frame[i] : i \in DOMAIN space[p].frame}
Used == UNION {FramesOf(q) : q \in Procs}

(* f gives the pages I frames of their own *)
Fresh(f, I) == \A i \in I : f[i] \in Frames \ Used /\ \A j \in DOMAIN f : j # i => f[i] # f[j]

Returns(call, p, n, val) == ret' = [call |-> call, p |-> p, n |-> n, val |-> val]
Set(p, s) == space' = [space EXCEPT ![p] = s]
Create(p) == space[p] = NoProc /\ Set(p, Empty) /\ Returns("alloc", p, 0, 0)
Free(p) == space[p] # NoProc /\ Set(p, NoProc) /\ Returns("free", p, 0, 0)

(* p has size sz now, and keeps the frames of the pages in keep *)
Becomes(p, sz, keep) ==
  /\ space[p] # NoProc /\ space'[p] # NoProc
  /\ \A q \in Procs \ {p} : space'[q] = space[q]
  /\ space'[p].sz = sz /\ DOMAIN space'[p].frame = 0..Npages(sz)-1
  /\ \A i \in keep \cap DOMAIN space'[p].frame : space'[p].frame[i] = space[p].frame[i]
  /\ Fresh(space'[p].frame, DOMAIN space'[p].frame \ keep)

Resize(p, n) ==
  /\ space[p] # NoProc
  /\ Becomes(p, IF space[p].sz + n < 0 THEN space[p].sz ELSE space[p].sz + n, DOMAIN space[p].frame)
  /\ Returns("sbrk", p, n, space[p].sz)
Replace(p) == Becomes(p, ExecSize, {}) /\ Returns("exec", p, 0, 0)

Fail(p) ==
  /\ UNCHANGED space
  /\ \/ space[p] = NoProc /\ Returns("alloc", p, 0, -1)
     \/ space[p] # NoProc /\ Returns("exec", p, 0, -1)
     \/ space[p] # NoProc /\ ret'.n > 0 /\ Returns("sbrk", p, ret'.n, -1)

Next == \E p \in Procs : Create(p) \/ Free(p) \/ Resize(p, ret'.n) \/ Replace(p) \/ Fail(p)
Spec == Init /\ [][Next]_<<space, ret>>
=============================================================================
