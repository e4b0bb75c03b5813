---------------------------- MODULE SleepMonitor ----------------------------
(***************************************************************************)
(* What sleep(), wakeup() and the sleep locks promise.  Each lock l has a  *)
(* monitor lock with one owner, a holder of the sleep lock, and a set of   *)
(* waiting processes.  Waiting and giving up the monitor is one step, and  *)
(* whoever frees the sleep lock empties the set before it leaves.          *)
(***************************************************************************)
EXTENDS Naturals

CONSTANTS Procs, Locks
VARIABLES owner, holder, waiting
vars == <<owner, holder, waiting>>

Init ==
  /\ owner = [l \in Locks |-> 0] /\ holder = [l \in Locks |-> 0]
  /\ waiting = [l \in Locks |-> {}]

Enter(p, l) ==
  /\ owner[l] = 0
  /\ owner' = [owner EXCEPT ![l] = p]
  /\ UNCHANGED <<holder, waiting>>

Take(p, l) ==
  /\ owner[l] = p /\ holder[l] = 0
  /\ owner' = [owner EXCEPT ![l] = 0] /\ holder' = [holder EXCEPT ![l] = p]
  /\ UNCHANGED waiting

Wait(p, l) ==
  /\ owner[l] = p /\ holder[l] # 0
  /\ owner' = [owner EXCEPT ![l] = 0] /\ waiting' = [waiting EXCEPT ![l] = @ \cup {p}]
  /\ UNCHANGED holder

Free(p, l) ==
  /\ owner[l] = 0 /\ holder[l] = p
  /\ owner' = [owner EXCEPT ![l] = p] /\ holder' = [holder EXCEPT ![l] = 0]
  /\ UNCHANGED waiting

(* by the process that frees the lock, or by a kill() *)
Wake(p, l) ==
  /\ p \in waiting[l]
  /\ waiting' = [waiting EXCEPT ![l] = @ \ {p}]
  /\ UNCHANGED <<owner, holder>>

Leave(p, l) ==
  /\ owner[l] = p /\ holder[l] = 0 /\ waiting[l] = {}
  /\ owner' = [owner EXCEPT ![l] = 0]
  /\ UNCHANGED <<holder, waiting>>

Next ==
  \E p \in Procs, l \in Locks :
     \/ Enter(p, l) \/ Take(p, l) \/ Wait(p, l)
     \/ Free(p, l) \/ Wake(p, l) \/ Leave(p, l)

Spec == Init /\ [][Next]_vars
=============================================================================
