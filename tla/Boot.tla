--------------------------------- MODULE Boot ---------------------------------
(***************************************************************************)
(* Booting (start.c, main.c): every hart comes up in machine mode at once; *)
(* hart 0 initialises the kernel and the others wait for started.  RISC-V  *)
(* memory is weakly ordered: a hart's stores reach the others in any       *)
(* order, and loads may be served early, except across a fence             *)
(* (__sync_synchronize).                                                   *)
(***************************************************************************)
EXTENDS Naturals, Sequences

CONSTANTS Harts, Hart0

VARIABLES pc,            \* "start", "main", or the place in main()'s branch
          tp, mode, timer, on,         \* per hart: registers, what is switched on
          memory,        \* stores of hart 0 that have reached memory
          pending,       \* and those that have not
          view           \* per hart: stores its loads are sure to see
vars == <<pc, tp, mode, timer, on, memory, pending, view>>
regs == <<tp, mode, timer, on>>

(* the two branches of main(); consoleinit is printfinit() as well, the part *)
(* that printf() uses on every hart *)
Branch0 == <<"consoleinit", "kinit", "kvminit", "kvminithart", "procinit", "trapinit", "trapinithart", "plicinit",
             "plicinithart", "binit", "iinit", "fileinit", "virtio_disk_init", "userinit", "fence", "started">>
Branch == <<"spin", "fence", "kvminithart", "trapinithart", "plicinithart">>
PerHart == {"kvminithart", "trapinithart", "plicinithart"}
Shared == {Branch0[i] : i \in 1..14} \ PerHart       \* what the harts share

None == "none"
Set(f, h, v) == f' = [f EXCEPT ![h] = v]
Init ==
  /\ pc = [h \in Harts |-> 0] /\ tp = [h \in Harts |-> None]
  /\ mode = [h \in Harts |-> "M"] /\ timer = [h \in Harts |-> FALSE] /\ on = [h \in Harts |-> {}]
  /\ memory = {} /\ pending = {} /\ view = [h \in Harts |-> {}]

(* start(): traps delegated, timerinit(), tp = hartid, mret to main() *)
start(h) ==
  /\ pc[h] = 0 /\ Set(pc, h, 1)
  /\ Set(timer, h, TRUE) /\ Set(tp, h, h) /\ Set(mode, h, "S")
  /\ UNCHANGED <<on, memory, pending, view>>

Code(h) == IF tp[h] = Hart0 THEN Branch0 ELSE Branch
Calls(h, parts) == pc[h] \in 1..Len(Code(h)) /\ Code(h)[pc[h]] \in parts
At(h, l) == Calls(h, {l})
Step1(h) == Set(pc, h, pc[h] + 1)
Seen(h) == IF h = Hart0 THEN memory \cup pending ELSE view[h]

(* hart 0 initialises a part *)
InitPart(h) ==
  /\ Calls(h, Shared) /\ Step1(h) /\ pending' = pending \cup {Code(h)[pc[h]]}
  /\ UNCHANGED <<regs, memory, view>>

(* kvminithart(), trapinithart(), plicinithart() *)
InitHart(h) ==
  /\ Calls(h, PerHart) /\ Step1(h) /\ Set(on, h, on[h] \cup {Code(h)[pc[h]]})
  /\ UNCHANGED <<tp, mode, timer, memory, pending, view>>

(* fault: no fence *)
Fence_None(h) == At(h, "fence") /\ Step1(h) /\ UNCHANGED <<regs, memory, pending, view>>

(* earlier stores are in memory, later loads are served from it *)
Fence(h) ==
  /\ At(h, "fence") /\ (h = Hart0 => pending = {})
  /\ Step1(h) /\ Set(view, h, memory)
  /\ UNCHANGED <<regs, memory, pending>>

SetStarted(h) == At(h, "started") /\ Step1(h) /\ pending' = pending \cup {"started"} /\ UNCHANGED <<regs, memory, view>>

Spin(h) ==
  /\ At(h, "spin")
  /\ IF "started" \in memory THEN Step1(h) ELSE UNCHANGED pc
  /\ UNCHANGED <<regs, memory, pending, view>>

(* main() is over: scheduler() *)
Booted(h) == pc[h] > Len(Code(h))

(* a store reaches memory *)
Drain(x) == x \in pending /\ memory' = memory \cup {x} /\ pending' = pending \ {x} /\ UNCHANGED <<pc, regs, view>>

Step(h) == start(h) \/ InitPart(h) \/ InitHart(h) \/ Fence(h) \/ SetStarted(h) \/ Spin(h)
Memory == \E x \in pending : Drain(x)
Next == (\E h \in Harts : Step(h)) \/ Memory

-----------------------------------------------------------------------------
(* A hart that switches on paging or schedules sees what hart 0 set up, and *)
(* runs in supervisor mode under its own number. *)
NoEarlyUse ==
  \A h \in Harts : pc[h] > 2 /\ h # Hart0 => Shared \subseteq Seen(h) /\ mode[h] = "S" /\ tp[h] = h

=============================================================================
