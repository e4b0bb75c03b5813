------------------------------- MODULE Kernel -------------------------------
(***************************************************************************)
(* Booting composed with scheduling: main() ends in scheduler(), so a hart *)
(* takes part in Sched once it has booted.  Hart 0 schedules while the     *)
(* other harts still wait for started or switch on paging.                 *)
(***************************************************************************)
EXTENDS Sched

CONSTANT Hart0
ASSUME KernelAssumption == Hart0 \in CPUs

VARIABLES pc, tp, mode, timer, on, memory, pending, view      \* of Boot
bootVars == <<pc, tp, mode, timer, on, memory, pending, view>>
all == <<vars, bootVars>>
B == INSTANCE Boot WITH Harts <- CPUs

KernelInit == Init /\ B!Init

(* the hart is past main() *)
main(c) == B!Booted(c)

Booting(c) == B!Step(c) /\ UNCHANGED vars
Draining == B!Memory /\ UNCHANGED vars
(* a step of Sched leaves the harts alone that are not there yet *)
Scheduling(A) == A /\ (\A c \in CPUs : ~main(c) => cpu'[c] = cpu[c]) /\ UNCHANGED bootVars

KernelNext == (\E c \in CPUs : Booting(c)) \/ Draining \/ Scheduling(Next)

(* A hart executes its boot code and the stores of hart 0 reach memory; then *)
(* the fairness of Sched. *)
KernelFairness ==
  /\ \A c \in CPUs : WF_all(Booting(c)) /\ SF_all(Scheduling(SchedStep(c)))
  /\ WF_all(Draining)
  /\ \A p \in Procs : /\ SF_all(Scheduling(\E c \in CPUs : Thread(c, p)))
                      /\ SF_all(Scheduling(\E c \in CPUs : TrapStep(c, p)))
                      /\ SF_all(Scheduling(\E c \in CPUs : TimerTrap(c, p)))

KernelSpec == KernelInit /\ [][KernelNext]_all /\ KernelFairness

-----------------------------------------------------------------------------
(* A hart that has left the spin loop of main() sees everything hart 0 set  *)
(* up before it, and a hart that schedules has paging, traps and interrupts *)
(* on, in supervisor mode under its own number. *)
BootedFirst ==
  /\ B!NoEarlyUse
  /\ \A c \in CPUs : cpu[c].at # "scan" => main(c) /\ on[c] = B!PerHart /\ mode[c] = "S" /\ tp[c] = c

=============================================================================
