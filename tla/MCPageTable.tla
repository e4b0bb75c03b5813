---------------------------- MODULE MCPageTable ----------------------------
EXTENDS PageTable
(* Which page is which does not matter to any step: states that differ in  *)
(* the numbers of pages only are one.  A table is seen as the PTEs that are *)
(* valid on each path from its root.  What the last call returned matters  *)
(* to no later step. *)
MCSegs == <<1, 3>>
RECURSIVE ShapeFrom(_, _)
ShapeFrom(t, level) ==
  [x \in 0..1 |-> LET e == m.pte[t][x] IN
     IF ~e.v THEN <<>> ELSE IF level = 0 THEN <<e.u>> ELSE <<ShapeFrom(e.pa, level - 1)>>]
Shape == <<[p \in Procs |-> IF p \in Live THEN <<proc[p].sz, ShapeFrom(proc[p].root, 2)>> ELSE <<>>],
           Cardinality(m.free), m.panic>>
=============================================================================
