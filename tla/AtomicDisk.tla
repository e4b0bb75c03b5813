----------------------------- MODULE AtomicDisk -----------------------------
(***************************************************************************)
(* What the log promises the file system: blocks whose writes become       *)
(* durable together, and only when no operation is half done.              *)
(***************************************************************************)
CONSTANTS Threads, Blocks, Vals

VARIABLES durable,    \* what a crash leaves
          view,       \* what the running system reads
          inop        \* threads between begin_op() and end_op()
vars == <<durable, view, inop>>

Init == durable \in [Blocks -> Vals] /\ view = durable /\ inop = {}

Begin(t) ==
  /\ t \notin inop
  /\ inop' = inop \cup {t} /\ UNCHANGED <<durable, view>>
Write(t, b, v) ==
  /\ t \in inop
  /\ view' = [view EXCEPT ![b] = v] /\ UNCHANGED <<durable, inop>>
End(t) ==
  /\ t \in inop
  /\ inop' = inop \ {t} /\ UNCHANGED <<durable, view>>

(* all the writes so far become durable at one instant *)
Commit ==
  /\ inop = {}
  /\ durable' = view /\ UNCHANGED <<view, inop>>

Crash == view' = durable /\ inop' = {} /\ UNCHANGED durable

Next ==
  \/ \E t \in Threads : Begin(t) \/ End(t) \/ \E b \in Blocks, v \in Vals : Write(t, b, v)
  \/ Commit \/ Crash

Spec == Init /\ [][Next]_vars
=============================================================================
