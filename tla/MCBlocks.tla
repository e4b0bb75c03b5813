------------------------------ MODULE MCBlocks ------------------------------
(* Two processes share two open files.  The second file is small: it takes  *)
(* blocks from the first, and the blocks the first has freed.  The view     *)
(* leaves out the content of free blocks, which balloc() clears.            *)
EXTENDS Blocks, TLC
MCInode == [f \in Opens |-> IF f = "f" THEN 1 ELSE 2]
MCWrites == [f \in Opens |-> IF f = "f" THEN {7} ELSE {1}]
MCReads == [f \in Opens |-> IF f = "f" THEN {3, 15} ELSE {1}]
InUse == <<bitmap, [b \in bitmap |-> <<data[b], disk[b], entry[b]>>], ip, off, pv, panic, calls, text>>
Symmetry == Permutations(Procs)
=============================================================================
