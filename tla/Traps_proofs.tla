----------------------------- MODULE Traps_proofs -----------------------------
(***************************************************************************)
(* For any number of harts, processes and devices: a trap finds its own    *)
(* vector and page table, tp is the hart in the kernel, a process goes on  *)
(* with its registers on whatever hart it returns to user space, and       *)
(* kernel code that was interrupted goes on where it was.  The inductive   *)
(* invariant says, for each place of a hart, what its registers and its    *)
(* kernel stack hold (Control), where the registers of its process are     *)
(* (Context), and who serves which interrupt (Plic); and that a process is *)
(* on one hart, unused, or saved with what its stack must hold (Processes).*)
(***************************************************************************)
EXTENDS Traps, TLAPS

(* where the kernel may be interrupted *)
Interruptible == {"scheduler", "forkret", "fsinit", "usertrapret"}
(* the hart handles a trap from the kernel *)
InTrap(h) == \/ at[h] \in {"kernelvec", "kernelret", "sret"}
             \/ at[h] \in {"plic_claim", "serve", "yield"} /\ local[h] # NoTrap
(* where its kernel thread is, but for the trap *)
Place(h) == IF InTrap(h) THEN kctx[OnStack(h)] ELSE at[h]
(* what kerneltrap() will restore *)
Holds(stack, place) == stack.sepc = place /\ stack.spp = "S" /\ stack.spie = TRUE

Control(h) ==
  /\ (Place(h) = "scheduler") <=> (proc[h] = None)
  /\ at[h] = "yield" => proc[h] # None
  /\ InTrap(h) => kctx[OnStack(h)] \in Interruptible
  /\ InTrap(h) /\ at[h] # "kernelvec" => Holds(local[h], kctx[OnStack(h)])
  /\ ~InTrap(h) => local[h] = NoTrap
  /\ at[h] \in {"kernelvec", "sret"} => sepc[h] = kctx[OnStack(h)] /\ spp[h] = "S" /\ spie[h]
  /\ sie[h] => at[h] \in Interruptible \cup {"user"}
  /\ at[h] = "user" => sie[h]
  /\ satp[h] = IF at[h] \in {"user", "uservec"} THEN proc[h] ELSE "kernel"
  /\ stvec[h] = IF at[h] \in {"user", "uservec", "usertrap", "userret"} THEN "uservec"
                ELSE "kernelvec"
  /\ at[h] = "userret" => spie[h]
  /\ at[h] \in {"uservec", "usertrap"} => spp[h] = "U"

(* The trapframe has all of the process's registers. *)
InFrame(p) == tf[p].epc = ctx[p].pc /\ tf[p].a0 = ctx[p].a0 /\ tf[p].tp = ctx[p].tp

Context(h) ==
  /\ at[h] \notin {"user", "uservec"} => reg[h].tp = h
  /\ at[h] \in {"user", "uservec", "userret"} => tf[proc[h]].hart = h
  /\ at[h] = "user" => reg[h] = ctx[proc[h]]
  /\ at[h] = "uservec" => reg[h].a0 = ctx[proc[h]].a0 /\ reg[h].tp = ctx[proc[h]].tp
  /\ at[h] \in {"uservec", "usertrap"} =>
       ctx[proc[h]].pc = IF scause[h] = "ecall" THEN Behind(sepc[h]) ELSE sepc[h]
  /\ at[h] = "usertrap" => tf[proc[h]].a0 = ctx[proc[h]].a0 /\ tf[proc[h]].tp = ctx[proc[h]].tp
  /\ at[h] \notin {"user", "uservec", "usertrap"} /\ proc[h] # None => InFrame(proc[h])
  /\ at[h] = "userret" => sepc[h] = tf[proc[h]].epc

Plic ==
  /\ \A h \in Harts : at[h] = "serve" <=> irq[h] # None
  /\ \A h \in Harts : irq[h] # None => irq[h] \in Irqs /\ claimed[irq[h]] = h
  /\ \A i \in Irqs : claimed[i] # None =>
       claimed[i] \in Harts /\ irq[claimed[i]] = i /\ i \notin pending

(* A process that may be switched to: its registers are in its trapframe,   *)
(* and it goes on in kerneltrap() with what that saved, or with no trap. *)
StoredAs(t, p) ==
  /\ t.at \in {"forkret", "fsinit", "syscall", "usertrapret", "kernelret"}
  /\ InFrame(p)
  /\ t.at \in {"syscall", "kernelret"} => ~t.sie
  /\ t.at # "kernelret" => t.local = NoTrap
  /\ t.at = "kernelret" => Holds(t.local, kctx[p]) /\ kctx[p] \in Interruptible \ {"scheduler"}
Stored(p) == StoredAs(resume[p], p)

Processes ==
  /\ \A g, h \in Harts : proc[g] = proc[h] /\ proc[g] # None => g = h
  /\ \A p \in Procs : resume[p].at = "running" <=> \E h \in Harts : proc[h] = p
  /\ \A p \in Procs : resume[p].at \notin {"running", "unused"} => Stored(p)

Names ==
  {"0", "4", "none", "unused", "running", "user", "uservec", "usertrap", "syscall", "yield",
   "usertrapret", "userret", "scheduler", "forkret", "fsinit", "kernelvec", "kernelret", "sret",
   "plic_claim", "serve", "timer", "external", "ecall", "store", "U", "S"}
Tps == Harts \cup Words \cup {None}
Returns == {0, 1} \cup Procs
Regs == [pc : Names, a0 : Returns, tp : Tps]
Frames == [epc : Names, a0 : Returns, tp : Tps, hart : Tps]
Stacks == [tp : Tps, sepc : Names, spp : Names, spie : BOOLEAN]
Threads == [at : Names, local : Stacks, sie : BOOLEAN]
RegTypes == reg \in [Harts -> Regs] /\ ctx \in [Procs -> Regs] /\ tf \in [Procs -> Frames]
TrapTypes ==
  /\ at \in [Harts -> Names] /\ scause \in [Harts -> Names] /\ sepc \in [Harts -> Names]
  /\ sie \in [Harts -> BOOLEAN] /\ spie \in [Harts -> BOOLEAN] /\ spp \in [Harts -> Names]
  /\ stvec \in [Harts -> Names]
  /\ proc \in [Harts -> Procs \cup {None}] /\ satp \in [Harts -> Procs \cup {"kernel"}]
ClaimTypes ==
  /\ irq \in [Harts -> Irqs \cup {None}] /\ pending \subseteq Irqs
  /\ claimed \in [Irqs -> Harts \cup {None}]
StackTypes ==
  /\ local \in [Harts -> Stacks] /\ resume \in [Procs -> Threads]
  /\ kctx \in [Harts \cup Procs -> Names \cup {None}]
Types == RegTypes /\ TrapTypes /\ ClaimTypes /\ StackTypes

TrapsInvariant ==
  /\ Types /\ panic = FALSE /\ Plic /\ Processes
  /\ \A h \in Harts : Control(h) /\ Context(h)

-----------------------------------------------------------------------------
(* PROOFS.  A step of h leaves what every other hart knows as it is; q is a *)
(* process it makes, or its own. *)
OthersKept(h, q) ==
  /\ \A g \in Harts : g # h =>
       /\ at'[g] = at[g] /\ proc'[g] = proc[g] /\ reg'[g] = reg[g] /\ local'[g] = local[g]
       /\ sie'[g] = sie[g] /\ spie'[g] = spie[g] /\ spp'[g] = spp[g] /\ stvec'[g] = stvec[g]
       /\ sepc'[g] = sepc[g] /\ scause'[g] = scause[g] /\ satp'[g] = satp[g]
  /\ \A p \in Procs : p # proc[h] /\ p # q => tf'[p] = tf[p] /\ ctx'[p] = ctx[p]
  /\ \A t \in Harts \cup Procs : t # OnStack(h) => kctx'[t] = kctx[t]

(* What the invariant says of the other harts is kept by such a step. *)
LEMMA OtherHarts ==
  ASSUME TrapsInvariant, NEW h \in Harts, NEW q, OthersKept(h, q),
         q = proc[h] \/ \A f \in Harts : proc[f] # q,
         NEW g \in Harts, g # h
  PROVE  Control(g)' /\ Context(g)'
<1>1. Control(g) /\ Context(g) /\ proc[g] \in Procs \cup {None} /\ proc[h] \in Procs \cup {None}
  BY Zenon DEF TrapsInvariant, Types, TrapTypes
<1>2. proc[g] # None => proc[g] \in Procs /\ proc[g] # proc[h] /\ proc[g] # q
  BY Zenon, <1>1 DEF TrapsInvariant, Processes
<1>3. OnStack(g) \in Harts \cup Procs /\ OnStack(g) # OnStack(h) /\ OnStack(g)' = OnStack(g)
  BY Zenon, <1>1, <1>2, TrapsAssumption DEF OnStack, OthersKept
<1>4. kctx'[OnStack(g)'] = kctx[OnStack(g)]
  BY Zenon, <1>3 DEF OthersKept
<1>5. (InTrap(g)' <=> InTrap(g)) /\ Place(g)' = Place(g)
  BY Zenon, <1>4 DEF OthersKept, InTrap, Place, NoTrap
<1>6. Control(g)'
  BY ZenonT(30), <1>1, <1>4, <1>5 DEF OthersKept, Control, Holds, NoTrap
<1>7. proc[g] # None => tf'[proc'[g]] = tf[proc[g]] /\ ctx'[proc'[g]] = ctx[proc[g]]
  BY <1>2 DEF OthersKept
<1>8. at[g] \in {"user", "uservec", "usertrap", "userret"} => proc[g] # None
  BY Zenon, <1>1 DEF Control, Place, InTrap
<1>9. Context(g)'
  BY <1>1, <1>7, <1>8 DEF OthersKept, Context, InFrame
<1> QED
  BY Zenon, <1>6, <1>9

(* A process is stored as it was when its thread and registers are kept. *)
LEMMA StoredKept ==
  ASSUME NEW p, Stored(p), tf'[p] = tf[p], ctx'[p] = ctx[p], kctx'[p] = kctx[p], resume'[p] = resume[p]
  PROVE  Stored(p)'
BY Zenon DEF Stored, StoredAs, InFrame, Holds, NoTrap

(* A step of h that leaves the PLIC and the assignment of processes alone   *)
(* keeps the invariant when it keeps it for h. *)
LEMMA HartMoves ==
  ASSUME TrapsInvariant, NEW h \in Harts, OthersKept(h, proc[h]), Types', panic' = FALSE,
         UNCHANGED <<proc, resume, irq, pending, claimed>>,
         at[h] # "serve", at'[h] # "serve", Control(h)', Context(h)'
  PROVE  TrapsInvariant'
<1>1. \A g \in Harts : Control(g)' /\ Context(g)'
  BY Zenon, OtherHarts
<1>2. \A g \in Harts : (at'[g] = "serve") <=> (at[g] = "serve")
  BY Zenon DEF OthersKept
<1>3. Plic'
  BY Zenon, <1>2 DEF TrapsInvariant, Plic
<1>4. ASSUME NEW p \in Procs, resume[p].at \notin {"running", "unused"} PROVE Stored(p)'
  <2>1. Stored(p) /\ p # proc[h]
    BY Zenon, <1>4 DEF TrapsInvariant, Processes
  <2>2. p # OnStack(h)
    BY Zenon, <2>1, TrapsAssumption DEF OnStack
  <2>3. tf'[p] = tf[p] /\ ctx'[p] = ctx[p] /\ kctx'[p] = kctx[p] /\ resume' = resume
    BY Zenon, <2>1, <2>2 DEF OthersKept
  <2> QED
    BY Zenon, <2>1, <2>3, StoredKept
<1>5. Processes'
  BY Zenon, <1>4 DEF TrapsInvariant, Processes
<1> QED
  BY Zenon, <1>1, <1>3, <1>5 DEF TrapsInvariant

(* The places, causes, modes and pcs of the model. *)
LEMMA Literals ==
  /\ "0" \in Names /\ "4" \in Names /\ "none" \in Names /\ "unused" \in Names
  /\ "running" \in Names /\ "user" \in Names /\ "uservec" \in Names /\ "usertrap" \in Names
  /\ "syscall" \in Names /\ "yield" \in Names /\ "usertrapret" \in Names
  /\ "userret" \in Names /\ "scheduler" \in Names /\ "forkret" \in Names
  /\ "fsinit" \in Names /\ "kernelvec" \in Names /\ "kernelret" \in Names
  /\ "sret" \in Names /\ "plic_claim" \in Names /\ "serve" \in Names
  /\ "timer" \in Names /\ "external" \in Names /\ "ecall" \in Names /\ "store" \in Names
  /\ "U" \in Names /\ "S" \in Names
BY Zenon DEF Names

(* What the types say of the registers and the stack of a hart and of its   *)
(* process. *)
LEMMA HartFacts ==
  ASSUME TrapsInvariant, NEW h \in Harts
  PROVE  /\ reg[h] \in Regs /\ reg[h].pc \in Names /\ reg[h].tp \in Tps /\ reg[h].a0 \in Returns
         /\ local[h] \in Stacks /\ OnStack(h) \in Harts \cup Procs
         /\ local[h].sepc \in Names /\ local[h].spp \in Names /\ local[h].spie \in BOOLEAN
         /\ Behind(sepc[h]) \in Names /\ NoTrap \in Stacks
         /\ proc[h] # None => proc[h] \in Procs
         /\ at[h] \notin {"scheduler", "kernelvec", "kernelret", "sret", "plic_claim", "serve"} =>
              proc[h] \in Procs
<1>1. Types /\ Control(h)
  BY Zenon DEF TrapsInvariant
<1>2. reg[h] \in Regs /\ local[h] \in Stacks /\ proc[h] \in Procs \cup {None}
  BY Zenon, <1>1 DEF Types, RegTypes, TrapTypes, StackTypes
<1>3. reg[h].pc \in Names /\ reg[h].tp \in Tps /\ reg[h].a0 \in Returns
  BY Zenon, <1>2 DEF Regs
<1>4. local[h].sepc \in Names /\ local[h].spp \in Names /\ local[h].spie \in BOOLEAN
  BY Zenon, <1>2 DEF Stacks
<1>5. Behind(sepc[h]) \in Names /\ NoTrap \in Stacks
  BY Zenon, Literals DEF Behind, NoTrap, Stacks, Tps
<1>6. at[h] \notin {"scheduler", "kernelvec", "kernelret", "sret", "plic_claim", "serve"} =>
        proc[h] # None
  BY Zenon, <1>1 DEF Control, Place, InTrap
<1>7. OnStack(h) \in Harts \cup Procs
  BY Zenon, <1>2 DEF OnStack
<1> QED
  BY Zenon, <1>2, <1>3, <1>4, <1>5, <1>6, <1>7

(* A user program changes its registers and the context it expects. *)
LEMMA UserStepKeeps ==
  ASSUME TrapsInvariant, NEW h \in Harts, NEW t \in Words, UserStep(h, t)
  PROVE  TrapsInvariant'
<1>1. Types /\ Control(h) /\ Context(h) /\ panic = FALSE
  BY Zenon DEF TrapsInvariant
<1>2. Types'
  <2>1. RegTypes'
    <3>1. proc[h] \in Procs
      BY Zenon, HartFacts DEF UserStep
    <3>2. tf[proc[h]] \in Frames /\ ctx[proc[h]] \in Regs
      BY Zenon, <1>1, <3>1 DEF Types, RegTypes
    <3>3. /\ tf[proc[h]].hart \in Tps /\ tf[proc[h]].tp \in Tps /\ tf[proc[h]].a0 \in Returns
          /\ tf[proc[h]].epc \in Names /\ ctx[proc[h]].pc \in Names
      BY Zenon, <3>2 DEF Frames, Regs
    <3>4. reg'[h] = [pc |-> reg[h].pc, a0 |-> 1, tp |-> t]
      BY Zenon, <1>1, <3>1 DEF UserStep, Set, sregs, plic, Types, RegTypes
    <3>5. reg'[h] \in Regs
      BY <1>1, HartFacts, Literals, <3>2, <3>3, <3>4 DEF Regs, Returns, Tps, Types, TrapTypes
    <3>6. ctx'[proc[h]] = [pc |-> reg[h].pc, a0 |-> 1, tp |-> t]
      BY Zenon, <1>1, <3>1 DEF UserStep, Set, sregs, plic, Types, RegTypes
    <3>7. ctx'[proc[h]] \in Regs
      BY <1>1, HartFacts, Literals, <3>2, <3>3, <3>6 DEF Regs, Returns, Tps, Types, TrapTypes
    <3> QED
      BY Zenon, <1>1, <3>1, <3>5, <3>7 DEF UserStep, Set, sregs, plic, Types, RegTypes
  <2>2. TrapTypes'
    BY Zenon, <1>1, HartFacts, Literals DEF UserStep, Set, sregs, plic, Types, TrapTypes
  <2>3. ClaimTypes'
    BY Zenon, <1>1 DEF UserStep, Set, sregs, plic, Types, ClaimTypes
  <2>4. StackTypes'
    BY Zenon, <1>1, HartFacts, Literals DEF UserStep, Set, sregs, plic, Types, StackTypes
  <2> QED
    BY Zenon, <2>1, <2>2, <2>3, <2>4 DEF Types
<1>3. OthersKept(h, proc[h])
  BY <1>1, HartFacts DEF UserStep, Set, sregs, plic, Types, RegTypes, TrapTypes, StackTypes,
     OthersKept
<1>4. Control(h)'
  BY <1>1, HartFacts, TrapsAssumption DEF UserStep, Set, sregs, plic, Types, TrapTypes,
     StackTypes, Control, InTrap, Place, Holds, Interruptible, OnStack
<1>5. Context(h)'
  BY <1>1, HartFacts, TrapsAssumption DEF UserStep, Set, sregs, plic, Types, RegTypes, TrapTypes,
     Regs, Frames, Control, Context, InFrame, InTrap, Place
<1>6. /\ UNCHANGED <<proc, resume, irq, pending, claimed>>
      /\ at[h] # "serve" /\ at'[h] # "serve" /\ panic' = FALSE
  BY Zenon, <1>1 DEF UserStep, Set, sregs, plic, Types, TrapTypes, Control, Interruptible
<1> QED
  BY Zenon, <1>2, <1>3, <1>4, <1>5, <1>6, HartMoves

(* A trap from user space enters uservec. *)
LEMMA UserTrapKeeps ==
  ASSUME TrapsInvariant, NEW h \in Harts, NEW c \in {"timer", "external", "ecall", "store"}, UserTrap(h, c)
  PROVE  TrapsInvariant'
<1>1. Types /\ Control(h) /\ Context(h) /\ panic = FALSE
  BY Zenon DEF TrapsInvariant
<1>2. Types'
  <2>1. RegTypes'
    <3>1. proc[h] \in Procs
      BY Zenon, HartFacts DEF UserTrap
    <3>2. tf[proc[h]] \in Frames /\ ctx[proc[h]] \in Regs
      BY Zenon, <1>1, <3>1 DEF Types, RegTypes
    <3>3. /\ tf[proc[h]].hart \in Tps /\ tf[proc[h]].tp \in Tps /\ tf[proc[h]].a0 \in Returns
          /\ tf[proc[h]].epc \in Names /\ ctx[proc[h]].pc \in Names
      BY Zenon, <3>2 DEF Frames, Regs
    <3>4. ctx'[proc[h]] = [ctx[proc[h]] EXCEPT !.pc = IF c = "ecall" THEN Behind(@) ELSE @]
      BY Zenon, <1>1, <3>1 DEF UserTrap, Goto, Set, plic, Trap, Types, RegTypes
    <3>5. ctx'[proc[h]] \in Regs
      BY <1>1, HartFacts, Literals, <3>2, <3>3, <3>4 DEF Regs, Returns, Behind, Types, TrapTypes
    <3> QED
      BY Zenon, <1>1, <3>1, <3>5 DEF UserTrap, Goto, Set, plic, Trap, Types, RegTypes
  <2>2. TrapTypes'
    BY Zenon, <1>1, HartFacts, Literals DEF UserTrap, Goto, Set, plic, Trap, Types, TrapTypes
  <2>3. ClaimTypes'
    BY Zenon, <1>1 DEF UserTrap, Goto, Set, plic, Trap, Types, ClaimTypes
  <2>4. StackTypes'
    BY Zenon, <1>1, HartFacts, Literals DEF UserTrap, Goto, Set, plic, Trap, Types, StackTypes
  <2> QED
    BY Zenon, <2>1, <2>2, <2>3, <2>4 DEF Types
<1>3. OthersKept(h, proc[h])
  BY <1>1, HartFacts DEF UserTrap, Goto, Set, plic, Trap, Types, RegTypes, TrapTypes, StackTypes,
     OthersKept
<1>4. Control(h)'
  BY <1>1, HartFacts, TrapsAssumption DEF UserTrap, Goto, Set, plic, Trap, Types, TrapTypes,
     StackTypes, Control, InTrap, Place, Holds, Interruptible, OnStack, Causes
<1>5. Context(h)'
  BY <1>1, HartFacts, TrapsAssumption DEF UserTrap, Goto, Set, plic, Trap, Types, RegTypes,
     TrapTypes, Regs, Frames, Control, Context, InFrame, InTrap, Place, Causes
<1>6. /\ UNCHANGED <<proc, resume, irq, pending, claimed>>
      /\ at[h] # "serve" /\ at'[h] # "serve" /\ panic' = FALSE
  BY Zenon, <1>1 DEF UserTrap, Goto, Set, plic, Trap, Types, TrapTypes, Control, Interruptible
<1> QED
  BY Zenon, <1>2, <1>3, <1>4, <1>5, <1>6, HartMoves

(* A trap from the kernel enters kernelvec. *)
LEMMA KernelTrapKeeps ==
  ASSUME TrapsInvariant, NEW h \in Harts, NEW c \in {"timer", "external", "ecall", "store"}, KernelTrap(h, c)
  PROVE  TrapsInvariant'
<1>1. Types /\ Control(h) /\ Context(h) /\ panic = FALSE
  BY Zenon DEF TrapsInvariant
<1>7. at[h] \in Interruptible /\ at[h] \in Names /\ stvec[h] = "kernelvec" /\ stvec[h] \in Names
  BY Zenon, <1>1 DEF KernelTrap, Control, Interruptible, Types, TrapTypes
<1>2. Types'
  <2>1. RegTypes'
    BY Zenon, <1>1, HartFacts DEF KernelTrap, Goto, Set, plic, Trap, Types, RegTypes
  <2>2. TrapTypes'
    BY Zenon, <1>1, HartFacts, Literals DEF KernelTrap, Goto, Set, plic, Trap, Types, TrapTypes
  <2>3. ClaimTypes'
    BY Zenon, <1>1 DEF KernelTrap, Goto, Set, plic, Trap, Types, ClaimTypes
  <2>4. StackTypes'
    BY Zenon, <1>1, HartFacts, Literals, <1>7 DEF KernelTrap, Goto, Set, plic, Trap, Types,
       StackTypes
  <2> QED
    BY Zenon, <2>1, <2>2, <2>3, <2>4 DEF Types
<1>3. OthersKept(h, proc[h])
  BY <1>1, HartFacts DEF KernelTrap, Goto, Set, plic, Trap, Types, RegTypes, TrapTypes,
     StackTypes, OthersKept
<1>4. Control(h)'
  BY <1>1, HartFacts, TrapsAssumption DEF KernelTrap, Goto, Set, plic, Trap, Types, TrapTypes,
     StackTypes, Control, InTrap, Place, Holds, Interruptible, OnStack, Causes
<1>5. Context(h)'
  BY <1>1, <1>7, HartFacts, TrapsAssumption DEF KernelTrap, Goto, Set, plic, Trap, Types,
     RegTypes, TrapTypes, Regs, Frames, Control, Context, InFrame, Interruptible
<1>6. /\ UNCHANGED <<proc, resume, irq, pending, claimed>>
      /\ at[h] # "serve" /\ at'[h] # "serve" /\ panic' = FALSE
  BY Zenon, <1>1 DEF KernelTrap, Goto, Set, plic, Trap, Types, TrapTypes, Control, Interruptible
<1> QED
  BY Zenon, <1>2, <1>3, <1>4, <1>5, <1>6, HartMoves

(* uservec() saves the registers in the trapframe of the process of this hart. *)
LEMMA UservecKeeps ==
  ASSUME TrapsInvariant, NEW h \in Harts, uservec(h)
  PROVE  TrapsInvariant'
<1>1. Types /\ Control(h) /\ Context(h) /\ panic = FALSE
  BY Zenon DEF TrapsInvariant
<1>2. Types'
  <2>1. RegTypes'
    <3>1. proc[h] \in Procs
      BY Zenon, HartFacts DEF uservec
    <3>2. tf[proc[h]] \in Frames /\ ctx[proc[h]] \in Regs
      BY Zenon, <1>1, <3>1 DEF Types, RegTypes
    <3>3. /\ tf[proc[h]].hart \in Tps /\ tf[proc[h]].tp \in Tps /\ tf[proc[h]].a0 \in Returns
          /\ tf[proc[h]].epc \in Names /\ ctx[proc[h]].pc \in Names
      BY Zenon, <3>2 DEF Frames, Regs
    <3>4. tf'[proc[h]] = [tf[proc[h]] EXCEPT !.a0 = reg[h].a0, !.tp = reg[h].tp]
      BY Zenon, <1>1, <3>1 DEF uservec, Goto, Set, plic, ghosts, Types, RegTypes
    <3>5. tf'[proc[h]] \in Frames
      BY <1>1, HartFacts, Literals, <3>2, <3>3, <3>4 DEF Frames, Returns, Types, TrapTypes
    <3>6. reg'[h] = [pc |-> "0", a0 |-> 0, tp |-> tf[proc[h]].hart]
      BY Zenon, <1>1, <3>1 DEF uservec, Goto, Set, plic, ghosts, Types, RegTypes
    <3>7. reg'[h] \in Regs
      BY <1>1, HartFacts, Literals, <3>2, <3>3, <3>6 DEF Regs, Returns, Types, TrapTypes
    <3> QED
      BY Zenon, <1>1, <3>1, <3>5, <3>7 DEF uservec, Goto, Set, plic, ghosts, Types, RegTypes
  <2>2. TrapTypes'
    BY Zenon, <1>1, HartFacts, Literals DEF uservec, Goto, Set, plic, ghosts, Types, TrapTypes
  <2>3. ClaimTypes'
    BY Zenon, <1>1 DEF uservec, Goto, Set, plic, ghosts, Types, ClaimTypes
  <2>4. StackTypes'
    BY Zenon, <1>1, HartFacts, Literals DEF uservec, Goto, Set, plic, ghosts, Types, StackTypes
  <2> QED
    BY Zenon, <2>1, <2>2, <2>3, <2>4 DEF Types
<1>3. OthersKept(h, proc[h])
  BY <1>1, HartFacts DEF uservec, Goto, Set, plic, ghosts, Types, RegTypes, TrapTypes,
     StackTypes, OthersKept
<1>4. Control(h)'
  BY <1>1, HartFacts, TrapsAssumption DEF uservec, Goto, Set, plic, ghosts, Types, TrapTypes,
     StackTypes, Control, InTrap, Place, Holds, Interruptible, OnStack
<1>5. Context(h)'
  BY <1>1, HartFacts, TrapsAssumption DEF uservec, Goto, Set, plic, ghosts, Types, RegTypes,
     TrapTypes, Regs, Frames, Control, Context, InFrame, InTrap, Place
<1>6. /\ UNCHANGED <<proc, resume, irq, pending, claimed>>
      /\ at[h] # "serve" /\ at'[h] # "serve" /\ panic' = FALSE
  BY Zenon, <1>1 DEF uservec, Goto, Set, plic, ghosts, Types, TrapTypes, Control, Interruptible
<1> QED
  BY Zenon, <1>2, <1>3, <1>4, <1>5, <1>6, HartMoves

(* usertrap() saves sepc, behind an ecall. *)
LEMMA UsertrapKeeps ==
  ASSUME TrapsInvariant, NEW h \in Harts, usertrap(h)
  PROVE  TrapsInvariant'
<1>1. Types /\ Control(h) /\ Context(h) /\ panic = FALSE
  BY Zenon DEF TrapsInvariant
<1>7. AfterUsertrap(scause[h]) \in {"syscall", "plic_claim", "yield", "usertrapret"}
  BY DEF AfterUsertrap
<1>8. AfterUsertrap(scause[h]) \in Names
  BY Zenon, <1>7, Literals
<1>2. Types'
  <2>1. RegTypes'
    <3>1. proc[h] \in Procs
      BY Zenon, HartFacts DEF usertrap
    <3>2. tf[proc[h]] \in Frames /\ ctx[proc[h]] \in Regs
      BY Zenon, <1>1, <3>1 DEF Types, RegTypes
    <3>3. /\ tf[proc[h]].hart \in Tps /\ tf[proc[h]].tp \in Tps /\ tf[proc[h]].a0 \in Returns
          /\ tf[proc[h]].epc \in Names /\ ctx[proc[h]].pc \in Names
      BY Zenon, <3>2 DEF Frames, Regs
    <3>4. tf'[proc[h]] = [tf[proc[h]] EXCEPT !.epc = IF scause[h] = "ecall" THEN Behind(sepc[h]) ELSE sepc[h]]
      BY Zenon, <1>1, <3>1 DEF usertrap, Goto, Set, plic, ghosts, Types, RegTypes
    <3>5. tf'[proc[h]] \in Frames
      BY <1>1, HartFacts, Literals, <3>2, <3>3, <3>4 DEF Frames, Returns, Types, TrapTypes
    <3> QED
      BY Zenon, <1>1, <3>1, <3>5 DEF usertrap, Goto, Set, plic, ghosts, Types, RegTypes
  <2>2. TrapTypes'
    BY Zenon, <1>1, HartFacts, Literals, <1>8 DEF usertrap, Goto, Set, plic, ghosts, Types,
       TrapTypes
  <2>3. ClaimTypes'
    BY Zenon, <1>1 DEF usertrap, Goto, Set, plic, ghosts, Types, ClaimTypes
  <2>4. StackTypes'
    BY Zenon, <1>1, HartFacts, Literals DEF usertrap, Goto, Set, plic, ghosts, Types, StackTypes
  <2> QED
    BY Zenon, <2>1, <2>2, <2>3, <2>4 DEF Types
<1>3. OthersKept(h, proc[h])
  BY <1>1, HartFacts DEF usertrap, Goto, Set, plic, ghosts, Types, RegTypes, TrapTypes,
     StackTypes, OthersKept
<1>4. Control(h)'
  BY <1>1, HartFacts, TrapsAssumption DEF usertrap, Goto, Set, plic, ghosts, Types, TrapTypes,
     StackTypes, Control, InTrap, Place, Holds, Interruptible, OnStack, AfterUsertrap
<1>5. Context(h)'
  BY <1>1, HartFacts, TrapsAssumption DEF usertrap, Goto, Set, plic, ghosts, Types, RegTypes,
     TrapTypes, Regs, Frames, Control, Context, InFrame, InTrap, Place, AfterUsertrap
<1>6. /\ UNCHANGED <<proc, resume, irq, pending, claimed>>
      /\ at[h] # "serve" /\ at'[h] # "serve" /\ panic' = FALSE
  BY Zenon, <1>1 DEF AfterUsertrap, usertrap, Goto, Set, plic, ghosts, Types, TrapTypes, Control,
     Interruptible
<1> QED
  BY Zenon, <1>2, <1>3, <1>4, <1>5, <1>6, HartMoves

(* A system call returns in a0. *)
LEMMA SyscallKeeps ==
  ASSUME TrapsInvariant, NEW h \in Harts, syscall(h)
  PROVE  TrapsInvariant'
<1>1. Types /\ Control(h) /\ Context(h) /\ panic = FALSE
  BY Zenon DEF TrapsInvariant
<1>2. Types'
  <2>1. RegTypes'
    <3>1. proc[h] \in Procs
      BY Zenon, HartFacts DEF syscall
    <3>2. tf[proc[h]] \in Frames /\ ctx[proc[h]] \in Regs
      BY Zenon, <1>1, <3>1 DEF Types, RegTypes
    <3>3. /\ tf[proc[h]].hart \in Tps /\ tf[proc[h]].tp \in Tps /\ tf[proc[h]].a0 \in Returns
          /\ tf[proc[h]].epc \in Names /\ ctx[proc[h]].pc \in Names
      BY Zenon, <3>2 DEF Frames, Regs
    <3>4. tf'[proc[h]] = [tf[proc[h]] EXCEPT !.a0 = 0]
      BY Zenon, <1>1, <3>1 DEF syscall, Goto, sregs, plic, Types, RegTypes
    <3>5. tf'[proc[h]] \in Frames
      BY <1>1, HartFacts, Literals, <3>2, <3>3, <3>4 DEF Frames, Returns, Types, TrapTypes
    <3>6. ctx'[proc[h]] = [ctx[proc[h]] EXCEPT !.a0 = 0]
      BY Zenon, <1>1, <3>1 DEF syscall, Goto, sregs, plic, Types, RegTypes
    <3>7. ctx'[proc[h]] \in Regs
      BY <1>1, HartFacts, Literals, <3>2, <3>3, <3>6 DEF Regs, Returns, Types, TrapTypes
    <3> QED
      BY Zenon, <1>1, <3>1, <3>5, <3>7 DEF syscall, Goto, sregs, plic, Types, RegTypes
  <2>2. TrapTypes'
    BY Zenon, <1>1, HartFacts, Literals DEF syscall, Goto, sregs, plic, Types, TrapTypes
  <2>3. ClaimTypes'
    BY Zenon, <1>1 DEF syscall, Goto, sregs, plic, Types, ClaimTypes
  <2>4. StackTypes'
    BY Zenon, <1>1, HartFacts, Literals DEF syscall, Goto, sregs, plic, Types, StackTypes
  <2> QED
    BY Zenon, <2>1, <2>2, <2>3, <2>4 DEF Types
<1>3. OthersKept(h, proc[h])
  BY <1>1, HartFacts DEF syscall, Goto, sregs, plic, Types, RegTypes, TrapTypes, StackTypes,
     OthersKept
<1>4. Control(h)'
  BY <1>1, HartFacts, TrapsAssumption DEF syscall, Goto, sregs, plic, Types, TrapTypes,
     StackTypes, Control, InTrap, Place, Holds, Interruptible, OnStack
<1>5. Context(h)'
  BY <1>1, HartFacts, TrapsAssumption DEF syscall, Goto, sregs, plic, Types, RegTypes, TrapTypes,
     Regs, Frames, Control, Context, InFrame, InTrap, Place
<1>6. /\ UNCHANGED <<proc, resume, irq, pending, claimed>>
      /\ at[h] # "serve" /\ at'[h] # "serve" /\ panic' = FALSE
  BY Zenon, <1>1 DEF syscall, Goto, sregs, plic, Types, TrapTypes, Control, Interruptible
<1> QED
  BY Zenon, <1>2, <1>3, <1>4, <1>5, <1>6, HartMoves

(* The scheduler turns on interrupts. *)
LEMMA IntrOnKeeps ==
  ASSUME TrapsInvariant, NEW h \in Harts, intr_on(h)
  PROVE  TrapsInvariant'
<1>1. Types /\ Control(h) /\ Context(h) /\ panic = FALSE
  BY Zenon DEF TrapsInvariant
<1>2. Types'
  <2>1. RegTypes'
    BY Zenon, <1>1, HartFacts DEF intr_on, Set, plic, ghosts, Types, RegTypes
  <2>2. TrapTypes'
    BY Zenon, <1>1, HartFacts, Literals DEF intr_on, Set, plic, ghosts, Types, TrapTypes
  <2>3. ClaimTypes'
    BY Zenon, <1>1 DEF intr_on, Set, plic, ghosts, Types, ClaimTypes
  <2>4. StackTypes'
    BY Zenon, <1>1, HartFacts, Literals DEF intr_on, Set, plic, ghosts, Types, StackTypes
  <2> QED
    BY Zenon, <2>1, <2>2, <2>3, <2>4 DEF Types
<1>3. OthersKept(h, proc[h])
  BY <1>1, HartFacts DEF intr_on, Set, plic, ghosts, Types, RegTypes, TrapTypes, StackTypes,
     OthersKept
<1>4. Control(h)'
  BY <1>1, HartFacts, TrapsAssumption DEF intr_on, Set, plic, ghosts, Types, TrapTypes,
     StackTypes, Control, InTrap, Place, Holds, Interruptible, OnStack
<1>5. Context(h)'
  BY <1>1, HartFacts, TrapsAssumption DEF intr_on, Set, plic, ghosts, Types, RegTypes, TrapTypes,
     Regs, Frames, Control, Context, InFrame, InTrap, Place
<1>6. /\ UNCHANGED <<proc, resume, irq, pending, claimed>>
      /\ at[h] # "serve" /\ at'[h] # "serve" /\ panic' = FALSE
  BY Zenon, <1>1 DEF intr_on, Set, plic, ghosts, Types, TrapTypes, Control, Interruptible
<1> QED
  BY Zenon, <1>2, <1>3, <1>4, <1>5, <1>6, HartMoves

(* A new process may be interrupted in forkret(). *)
LEMMA ForkretKeeps ==
  ASSUME TrapsInvariant, NEW h \in Harts, forkret(h)
  PROVE  TrapsInvariant'
<1>1. Types /\ Control(h) /\ Context(h) /\ panic = FALSE
  BY Zenon DEF TrapsInvariant
<1>2. Types'
  <2>1. RegTypes'
    BY Zenon, <1>1, HartFacts DEF forkret, Goto, sregs, plic, ghosts, Types, RegTypes
  <2>2. TrapTypes'
    BY Zenon, <1>1, HartFacts, Literals DEF forkret, Goto, sregs, plic, ghosts, Types, TrapTypes
  <2>3. ClaimTypes'
    BY Zenon, <1>1 DEF forkret, Goto, sregs, plic, ghosts, Types, ClaimTypes
  <2>4. StackTypes'
    BY Zenon, <1>1, HartFacts, Literals DEF forkret, Goto, sregs, plic, ghosts, Types, StackTypes
  <2> QED
    BY Zenon, <2>1, <2>2, <2>3, <2>4 DEF Types
<1>3. OthersKept(h, proc[h])
  BY <1>1, HartFacts DEF forkret, Goto, sregs, plic, ghosts, Types, RegTypes, TrapTypes,
     StackTypes, OthersKept
<1>4. Control(h)'
  BY <1>1, HartFacts, TrapsAssumption DEF forkret, Goto, sregs, plic, ghosts, Types, TrapTypes,
     StackTypes, Control, InTrap, Place, Holds, Interruptible, OnStack
<1>5. Context(h)'
  BY <1>1, HartFacts, TrapsAssumption DEF forkret, Goto, sregs, plic, ghosts, Types, RegTypes,
     TrapTypes, Regs, Frames, Control, Context, InFrame, InTrap, Place
<1>6. /\ UNCHANGED <<proc, resume, irq, pending, claimed>>
      /\ at[h] # "serve" /\ at'[h] # "serve" /\ panic' = FALSE
  BY Zenon, <1>1 DEF forkret, Goto, sregs, plic, ghosts, Types, TrapTypes, Control, Interruptible
<1> QED
  BY Zenon, <1>2, <1>3, <1>4, <1>5, <1>6, HartMoves

(* The first process may be interrupted in fsinit(). *)
LEMMA FsinitKeeps ==
  ASSUME TrapsInvariant, NEW h \in Harts, FsinitDone(h)
  PROVE  TrapsInvariant'
<1>1. Types /\ Control(h) /\ Context(h) /\ panic = FALSE
  BY Zenon DEF TrapsInvariant
<1>2. Types'
  <2>1. RegTypes'
    BY Zenon, <1>1, HartFacts DEF FsinitDone, Goto, sregs, plic, ghosts, Types, RegTypes
  <2>2. TrapTypes'
    BY Zenon, <1>1, HartFacts, Literals DEF FsinitDone, Goto, sregs, plic, ghosts, Types,
       TrapTypes
  <2>3. ClaimTypes'
    BY Zenon, <1>1 DEF FsinitDone, Goto, sregs, plic, ghosts, Types, ClaimTypes
  <2>4. StackTypes'
    BY Zenon, <1>1, HartFacts, Literals DEF FsinitDone, Goto, sregs, plic, ghosts, Types,
       StackTypes
  <2> QED
    BY Zenon, <2>1, <2>2, <2>3, <2>4 DEF Types
<1>3. OthersKept(h, proc[h])
  BY <1>1, HartFacts DEF FsinitDone, Goto, sregs, plic, ghosts, Types, RegTypes, TrapTypes,
     StackTypes, OthersKept
<1>4. Control(h)'
  BY <1>1, HartFacts, TrapsAssumption DEF FsinitDone, Goto, sregs, plic, ghosts, Types,
     TrapTypes, StackTypes, Control, InTrap, Place, Holds, Interruptible, OnStack
<1>5. Context(h)'
  BY <1>1, HartFacts, TrapsAssumption DEF FsinitDone, Goto, sregs, plic, ghosts, Types, RegTypes,
     TrapTypes, Regs, Frames, Control, Context, InFrame, InTrap, Place
<1>6. /\ UNCHANGED <<proc, resume, irq, pending, claimed>>
      /\ at[h] # "serve" /\ at'[h] # "serve" /\ panic' = FALSE
  BY Zenon, <1>1 DEF FsinitDone, Goto, sregs, plic, ghosts, Types, TrapTypes, Control,
     Interruptible
<1> QED
  BY Zenon, <1>2, <1>3, <1>4, <1>5, <1>6, HartMoves

(* usertrapret() prepares the next trap. *)
LEMMA UsertrapretKeeps ==
  ASSUME TrapsInvariant, NEW h \in Harts, usertrapret(h)
  PROVE  TrapsInvariant'
<1>1. Types /\ Control(h) /\ Context(h) /\ panic = FALSE
  BY Zenon DEF TrapsInvariant
<1>7. proc[h] \in Procs /\ tf[proc[h]].epc \in Names
  BY Zenon, <1>1, HartFacts DEF usertrapret, Types, RegTypes, Frames
<1>2. Types'
  <2>1. RegTypes'
    <3>1. proc[h] \in Procs
      BY Zenon, HartFacts DEF usertrapret
    <3>2. tf[proc[h]] \in Frames /\ ctx[proc[h]] \in Regs
      BY Zenon, <1>1, <3>1 DEF Types, RegTypes
    <3>3. /\ tf[proc[h]].hart \in Tps /\ tf[proc[h]].tp \in Tps /\ tf[proc[h]].a0 \in Returns
          /\ tf[proc[h]].epc \in Names /\ ctx[proc[h]].pc \in Names
      BY Zenon, <3>2 DEF Frames, Regs
    <3>4. tf'[proc[h]] = [tf[proc[h]] EXCEPT !.hart = reg[h].tp]
      BY Zenon, <1>1, <3>1 DEF usertrapret, Goto, Set, plic, ghosts, Types, RegTypes
    <3>5. tf'[proc[h]] \in Frames
      BY <1>1, HartFacts, Literals, <3>2, <3>3, <3>4 DEF Frames, Returns, Types, TrapTypes
    <3> QED
      BY Zenon, <1>1, <3>1, <3>5 DEF usertrapret, Goto, Set, plic, ghosts, Types, RegTypes
  <2>2. TrapTypes'
    BY Zenon, <1>1, HartFacts, Literals, <1>7 DEF usertrapret, Goto, Set, plic, ghosts, Types,
       TrapTypes
  <2>3. ClaimTypes'
    BY Zenon, <1>1 DEF usertrapret, Goto, Set, plic, ghosts, Types, ClaimTypes
  <2>4. StackTypes'
    BY Zenon, <1>1, HartFacts, Literals DEF usertrapret, Goto, Set, plic, ghosts, Types,
       StackTypes
  <2> QED
    BY Zenon, <2>1, <2>2, <2>3, <2>4 DEF Types
<1>3. OthersKept(h, proc[h])
  BY <1>1, HartFacts DEF usertrapret, Goto, Set, plic, ghosts, Types, RegTypes, TrapTypes,
     StackTypes, OthersKept
<1>4. Control(h)'
  BY <1>1, HartFacts, TrapsAssumption DEF usertrapret, Goto, Set, plic, ghosts, Types, TrapTypes,
     StackTypes, Control, InTrap, Place, Holds, Interruptible, OnStack
<1>5. Context(h)'
  BY <1>1, HartFacts, TrapsAssumption DEF usertrapret, Goto, Set, plic, ghosts, Types, RegTypes,
     TrapTypes, Regs, Frames, Control, Context, InFrame, InTrap, Place
<1>6. /\ UNCHANGED <<proc, resume, irq, pending, claimed>>
      /\ at[h] # "serve" /\ at'[h] # "serve" /\ panic' = FALSE
  BY Zenon, <1>1 DEF usertrapret, Goto, Set, plic, ghosts, Types, TrapTypes, Control,
     Interruptible
<1> QED
  BY Zenon, <1>2, <1>3, <1>4, <1>5, <1>6, HartMoves

(* userret() loads the registers from the trapframe. *)
LEMMA UserretKeeps ==
  ASSUME TrapsInvariant, NEW h \in Harts, userret(h)
  PROVE  TrapsInvariant'
<1>1. Types /\ Control(h) /\ Context(h) /\ panic = FALSE
  BY Zenon DEF TrapsInvariant
<1>2. Types'
  <2>1. RegTypes'
    <3>1. proc[h] \in Procs
      BY Zenon, HartFacts DEF userret
    <3>2. tf[proc[h]] \in Frames /\ ctx[proc[h]] \in Regs
      BY Zenon, <1>1, <3>1 DEF Types, RegTypes
    <3>3. /\ tf[proc[h]].hart \in Tps /\ tf[proc[h]].tp \in Tps /\ tf[proc[h]].a0 \in Returns
          /\ tf[proc[h]].epc \in Names /\ ctx[proc[h]].pc \in Names
      BY Zenon, <3>2 DEF Frames, Regs
    <3>4. reg'[h] = [pc |-> sepc[h], a0 |-> tf[proc[h]].a0, tp |-> tf[proc[h]].tp]
      BY Zenon, <1>1, <3>1 DEF userret, Goto, Set, plic, ghosts, Types, RegTypes
    <3>5. reg'[h] \in Regs
      BY <1>1, HartFacts, Literals, <3>2, <3>3, <3>4 DEF Regs, Returns, Types, TrapTypes
    <3> QED
      BY Zenon, <1>1, <3>1, <3>5 DEF userret, Goto, Set, plic, ghosts, Types, RegTypes
  <2>2. TrapTypes'
    BY Zenon, <1>1, HartFacts, Literals DEF userret, Goto, Set, plic, ghosts, Types, TrapTypes
  <2>3. ClaimTypes'
    BY Zenon, <1>1 DEF userret, Goto, Set, plic, ghosts, Types, ClaimTypes
  <2>4. StackTypes'
    BY Zenon, <1>1, HartFacts, Literals DEF userret, Goto, Set, plic, ghosts, Types, StackTypes
  <2> QED
    BY Zenon, <2>1, <2>2, <2>3, <2>4 DEF Types
<1>3. OthersKept(h, proc[h])
  BY <1>1, HartFacts DEF userret, Goto, Set, plic, ghosts, Types, RegTypes, TrapTypes,
     StackTypes, OthersKept
<1>4. Control(h)'
  BY <1>1, HartFacts, TrapsAssumption DEF userret, Goto, Set, plic, ghosts, Types, TrapTypes,
     StackTypes, Control, InTrap, Place, Holds, Interruptible, OnStack
<1>5. Context(h)'
  BY <1>1, HartFacts, TrapsAssumption DEF userret, Goto, Set, plic, ghosts, Types, RegTypes,
     TrapTypes, Regs, Frames, Control, Context, InFrame, InTrap, Place
<1>6. /\ UNCHANGED <<proc, resume, irq, pending, claimed>>
      /\ at[h] # "serve" /\ at'[h] # "serve" /\ panic' = FALSE
  BY Zenon, <1>1 DEF userret, Goto, Set, plic, ghosts, Types, TrapTypes, Control, Interruptible
<1> QED
  BY Zenon, <1>2, <1>3, <1>4, <1>5, <1>6, HartMoves

(* kerneltrap() keeps the trap registers, and does not yield without a process. *)
LEMMA KerneltrapKeeps ==
  ASSUME TrapsInvariant, NEW h \in Harts, kerneltrap(h)
  PROVE  TrapsInvariant'
<1>1. Types /\ Control(h) /\ Context(h) /\ panic = FALSE
  BY Zenon DEF TrapsInvariant
<1>7. Saved(h) \in Stacks
  BY Zenon, <1>1, HartFacts DEF Saved, Stacks, Types, TrapTypes
<1>8. Saved(h).sepc = sepc[h] /\ Saved(h).spp = spp[h] /\ Saved(h).spie = spie[h]
  BY Zenon DEF Saved
<1>9. Saved(h) # NoTrap
  <2>1. sepc[h] \in Interruptible
    BY Zenon, <1>1 DEF kerneltrap, Control, InTrap
  <2>2. NoTrap.sepc = "none" /\ "none" \notin Interruptible
    BY DEF NoTrap, Interruptible
  <2> QED
    BY Zenon, <1>8, <2>1, <2>2
<1>10. /\ at'[h] \in {"plic_claim", "kernelret", "yield"} /\ (at'[h] = "yield" => proc[h] # None)
       /\ local'[h] = Saved(h) /\ UNCHANGED <<proc, sregs, kctx>>
  BY Zenon, <1>1 DEF kerneltrap, Goto, Set, ghosts, Types, TrapTypes, StackTypes
<1>11. InTrap(h) /\ InTrap(h)' /\ OnStack(h)' = OnStack(h)
  BY Zenon, <1>9, <1>10 DEF kerneltrap, InTrap, OnStack, NoTrap
<1>12. Place(h)' = Place(h)
  BY Zenon, <1>10, <1>11 DEF Place
<1>13. sepc[h] = kctx[OnStack(h)] /\ spp[h] = "S" /\ spie[h] = TRUE /\ ~sie[h]
  BY Zenon, <1>1 DEF kerneltrap, Control, Interruptible, Types, TrapTypes
<1>2. Types'
  <2>1. RegTypes'
    BY Zenon, <1>1, HartFacts DEF kerneltrap, Goto, Set, sregs, plic, ghosts, Types, RegTypes
  <2>2. TrapTypes'
    BY Zenon, <1>1, HartFacts, Literals DEF kerneltrap, Goto, Set, sregs, plic, ghosts, Types,
       TrapTypes
  <2>3. ClaimTypes'
    BY Zenon, <1>1 DEF kerneltrap, Goto, Set, sregs, plic, ghosts, Types, ClaimTypes
  <2>4. StackTypes'
    BY Zenon, <1>1, HartFacts, Literals, <1>7 DEF kerneltrap, Goto, Set, sregs, plic, ghosts,
       Types, StackTypes
  <2> QED
    BY Zenon, <2>1, <2>2, <2>3, <2>4 DEF Types
<1>3. OthersKept(h, proc[h])
  BY <1>1, HartFacts DEF kerneltrap, Goto, Set, sregs, plic, ghosts, Types, RegTypes, TrapTypes,
     StackTypes, OthersKept
<1>4. Control(h)'
  <2>1. Holds(local'[h], kctx'[OnStack(h)'])
    BY Zenon, <1>8, <1>10, <1>11, <1>13 DEF Holds
  <2>2. /\ satp'[h] = "kernel" /\ stvec'[h] = "kernelvec" /\ ~sie'[h]
        /\ (Place(h) = "scheduler") <=> (proc[h] = None)
        /\ kctx[OnStack(h)] \in Interruptible
    BY Zenon, <1>1, <1>10, <1>11, <1>13 DEF kerneltrap, sregs, Control
  <2> QED
    BY Zenon, <1>10, <1>11, <1>12, <2>1, <2>2 DEF Control
<1>5. Context(h)'
  BY <1>1, HartFacts, TrapsAssumption DEF kerneltrap, Goto, Set, sregs, plic, ghosts, Types,
     RegTypes, TrapTypes, Regs, Frames, Control, Context, InFrame, InTrap, Place
<1>6. /\ UNCHANGED <<proc, resume, irq, pending, claimed>>
      /\ at[h] # "serve" /\ at'[h] # "serve" /\ panic' = FALSE
  BY Zenon, <1>1 DEF kerneltrap, Goto, Set, sregs, plic, ghosts, Types, TrapTypes, Control,
     Interruptible
<1> QED
  BY Zenon, <1>2, <1>3, <1>4, <1>5, <1>6, HartMoves

(* kerneltrap() restores the trap registers. *)
LEMMA KernelRetKeeps ==
  ASSUME TrapsInvariant, NEW h \in Harts, KernelRet(h)
  PROVE  TrapsInvariant'
<1>1. Types /\ Control(h) /\ Context(h) /\ panic = FALSE
  BY Zenon DEF TrapsInvariant
<1>2. Types'
  <2>1. RegTypes'
    BY Zenon, <1>1, HartFacts DEF KernelRet, Goto, Set, plic, ghosts, Types, RegTypes
  <2>2. TrapTypes'
    BY Zenon, <1>1, HartFacts, Literals DEF KernelRet, Goto, Set, plic, ghosts, Types, TrapTypes
  <2>3. ClaimTypes'
    BY Zenon, <1>1 DEF KernelRet, Goto, Set, plic, ghosts, Types, ClaimTypes
  <2>4. StackTypes'
    BY Zenon, <1>1, HartFacts, Literals DEF KernelRet, Goto, Set, plic, ghosts, Types, StackTypes
  <2> QED
    BY Zenon, <2>1, <2>2, <2>3, <2>4 DEF Types
<1>3. OthersKept(h, proc[h])
  BY <1>1, HartFacts DEF KernelRet, Goto, Set, plic, ghosts, Types, RegTypes, TrapTypes,
     StackTypes, OthersKept
<1>4. Control(h)'
  BY <1>1, HartFacts, TrapsAssumption DEF KernelRet, Goto, Set, plic, ghosts, Types, TrapTypes,
     StackTypes, Control, InTrap, Place, Holds, Interruptible, OnStack
<1>5. Context(h)'
  BY <1>1, HartFacts, TrapsAssumption DEF KernelRet, Goto, Set, plic, ghosts, Types, RegTypes,
     TrapTypes, Regs, Frames, Control, Context, InFrame, InTrap, Place
<1>6. /\ UNCHANGED <<proc, resume, irq, pending, claimed>>
      /\ at[h] # "serve" /\ at'[h] # "serve" /\ panic' = FALSE
  BY Zenon, <1>1 DEF KernelRet, Goto, Set, plic, ghosts, Types, TrapTypes, Control, Interruptible
<1> QED
  BY Zenon, <1>2, <1>3, <1>4, <1>5, <1>6, HartMoves

(* The interrupted thread goes on. *)
LEMMA SretKeeps ==
  ASSUME TrapsInvariant, NEW h \in Harts, sret(h)
  PROVE  TrapsInvariant'
<1>1. Types /\ Control(h) /\ Context(h) /\ panic = FALSE
  BY Zenon DEF TrapsInvariant
<1>7. sepc[h] \in Interruptible /\ spp[h] = "S" /\ spie[h]
  BY Zenon, <1>1 DEF sret, Control, InTrap
<1>8. at'[h] = sepc[h]
  BY <1>1, <1>7 DEF sret, Goto, Types, TrapTypes
<1>2. Types'
  <2>1. RegTypes'
    BY Zenon, <1>1, HartFacts DEF sret, Goto, Set, plic, Types, RegTypes
  <2>2. TrapTypes'
    BY Zenon, <1>1, HartFacts, Literals DEF sret, Goto, Set, plic, Types, TrapTypes
  <2>3. ClaimTypes'
    BY Zenon, <1>1 DEF sret, Goto, Set, plic, Types, ClaimTypes
  <2>4. StackTypes'
    BY Zenon, <1>1, HartFacts, Literals DEF sret, Goto, Set, plic, Types, StackTypes
  <2> QED
    BY Zenon, <2>1, <2>2, <2>3, <2>4 DEF Types
<1>3. OthersKept(h, proc[h])
  BY <1>1, HartFacts DEF sret, Goto, Set, plic, Types, RegTypes, TrapTypes, StackTypes,
     OthersKept
<1>4. Control(h)'
  BY <1>1, HartFacts, TrapsAssumption DEF sret, Goto, Set, plic, Types, TrapTypes, StackTypes,
     Control, InTrap, Place, Holds, Interruptible, OnStack
<1>5. Context(h)'
  BY <1>1, <1>7, <1>8, HartFacts, TrapsAssumption DEF sret, Goto, Set, plic, Types, RegTypes,
     TrapTypes, Regs, Frames, Control, Context, InFrame, Interruptible
<1>6. /\ UNCHANGED <<proc, resume, irq, pending, claimed>>
      /\ at[h] # "serve" /\ at'[h] # "serve" /\ panic' = FALSE
  BY <1>1, <1>7, <1>8 DEF sret, Goto, Set, plic, Types, TrapTypes, Control, Interruptible
<1> QED
  BY Zenon, <1>2, <1>3, <1>4, <1>5, <1>6, HartMoves

(* Another hart has claimed the interrupt. *)
LEMMA ClaimNoneKeeps ==
  ASSUME TrapsInvariant, NEW h \in Harts, ClaimNone(h)
  PROVE  TrapsInvariant'
<1>1. Types /\ Control(h) /\ Context(h) /\ panic = FALSE
  BY Zenon DEF TrapsInvariant
<1>2. Types'
  <2>1. RegTypes'
    BY Zenon, <1>1, HartFacts DEF ClaimNone, Goto, sregs, plic, ghosts, AfterDevintr, Types,
       RegTypes
  <2>2. TrapTypes'
    BY Zenon, <1>1, HartFacts, Literals DEF ClaimNone, Goto, sregs, plic, ghosts, AfterDevintr,
       Types, TrapTypes
  <2>3. ClaimTypes'
    BY Zenon, <1>1 DEF ClaimNone, Goto, sregs, plic, ghosts, AfterDevintr, Types, ClaimTypes
  <2>4. StackTypes'
    BY Zenon, <1>1, HartFacts, Literals DEF ClaimNone, Goto, sregs, plic, ghosts, AfterDevintr,
       Types, StackTypes
  <2> QED
    BY Zenon, <2>1, <2>2, <2>3, <2>4 DEF Types
<1>3. OthersKept(h, proc[h])
  BY <1>1, HartFacts DEF ClaimNone, Goto, sregs, plic, ghosts, AfterDevintr, Types, RegTypes,
     TrapTypes, StackTypes, OthersKept
<1>4. Control(h)'
  BY <1>1, HartFacts, TrapsAssumption DEF ClaimNone, Goto, sregs, plic, ghosts, AfterDevintr,
     Types, TrapTypes, StackTypes, Control, InTrap, Place, Holds, Interruptible, OnStack
<1>5. Context(h)'
  BY <1>1, HartFacts, TrapsAssumption DEF ClaimNone, Goto, sregs, plic, ghosts, AfterDevintr,
     Types, RegTypes, TrapTypes, Regs, Frames, Control, Context, InFrame, InTrap, Place
<1>6. /\ UNCHANGED <<proc, resume, irq, pending, claimed>>
      /\ at[h] # "serve" /\ at'[h] # "serve" /\ panic' = FALSE
  BY Zenon, <1>1 DEF ClaimNone, Goto, sregs, plic, ghosts, AfterDevintr, Types, TrapTypes,
     Control, Interruptible
<1> QED
  BY Zenon, <1>2, <1>3, <1>4, <1>5, <1>6, HartMoves

-----------------------------------------------------------------------------
(* A thread that leaves its hart is stored, or its process is unused. *)
LEMMA LeaveKeeps ==
  ASSUME TrapsInvariant, NEW h \in Harts, NEW t \in Threads, Leave(h, t),
         at[h] \in {"yield", "syscall", "fsinit"}, t.at # "running",
         t.at = "unused" \/ StoredAs(t, proc[h])
  PROVE  TrapsInvariant'
<1>1. Types /\ Control(h) /\ Context(h) /\ panic = FALSE
  BY Zenon DEF TrapsInvariant
<1>2. proc[h] \in Procs /\ stvec[h] = "kernelvec" /\ satp[h] = "kernel" /\ reg[h].tp = h
  BY Zenon, <1>1, HartFacts DEF Control, Context
<1>3. Types'
  <2>1. RegTypes'
    BY Zenon, <1>1 DEF Leave, ghosts, Types, RegTypes
  <2>2. TrapTypes'
    BY Zenon, <1>1, Literals DEF Leave, Goto, Set, sregs, Types, TrapTypes
  <2>3. ClaimTypes'
    BY Zenon, <1>1 DEF Leave, plic, Types, ClaimTypes
  <2>4. StackTypes'
    BY Zenon, <1>1, <1>2, HartFacts DEF Leave, Set, ghosts, Types, StackTypes
  <2> QED
    BY Zenon, <2>1, <2>2, <2>3, <2>4 DEF Types
<1>4. OthersKept(h, proc[h])
  BY <1>1 DEF Leave, Goto, Set, sregs, ghosts, Types, TrapTypes, StackTypes, OthersKept
<1>5. at'[h] = "scheduler" /\ proc'[h] = None /\ local'[h] = NoTrap /\ UNCHANGED <<sregs, reg>>
  BY Zenon, <1>1 DEF Leave, Goto, Set, Types, TrapTypes, StackTypes
<1>6. Control(h)'
  BY <1>2, <1>5 DEF sregs, Control, InTrap, Place, Interruptible, NoTrap
<1>7. Context(h)'
  BY Zenon, <1>2, <1>5 DEF Context
<1>8. Plic'
  BY <1>1 DEF Leave, Goto, plic, Types, TrapTypes, TrapsInvariant, Plic
<1>9. Processes'
  <2>1. \A p \in Procs : resume'[p] = IF p = proc[h] THEN t ELSE resume[p]
    BY Zenon, <1>1 DEF Leave, Set, Types, StackTypes
  <2>2. \A g \in Harts : proc'[g] = IF g = h THEN None ELSE proc[g]
    BY Zenon, <1>1 DEF Leave, Set, Types, TrapTypes
  <2>3. UNCHANGED <<tf, ctx, kctx>>
    BY Zenon DEF Leave, ghosts
  <2>4. ASSUME NEW p \in Procs, resume'[p].at \notin {"running", "unused"} PROVE Stored(p)'
    <3>1. CASE p = proc[h]
      <4>1. StoredAs(t, p) /\ resume'[p] = t
        BY <2>1, <2>4, <3>1
      <4> QED
        BY Zenon, <4>1, <2>3 DEF Stored, StoredAs, InFrame, Holds, NoTrap
    <3>2. CASE p # proc[h]
      <4>1. resume'[p] = resume[p]
        BY <2>1, <3>2
      <4>2. Stored(p)
        BY Zenon, <2>4, <4>1 DEF TrapsInvariant, Processes
      <4> QED
        BY Zenon, <2>3, <4>1, <4>2, StoredKept
    <3> QED
      BY Zenon, <3>1, <3>2
  <2>5. \A p \in Procs : resume'[p].at = "running" <=> \E g \in Harts : proc'[g] = p
    BY <1>2, <2>1, <2>2, TrapsAssumption DEF TrapsInvariant, Processes
  <2>6. \A f, g \in Harts : proc'[f] = proc'[g] /\ proc'[f] # None => f = g
    BY <2>2 DEF TrapsInvariant, Processes
  <2> QED
    BY Zenon, <2>4, <2>5, <2>6 DEF Processes
<1>10. \A g \in Harts : Control(g)' /\ Context(g)'
  BY Zenon, <1>4, <1>6, <1>7, OtherHarts
<1> QED
  BY Zenon, <1>1, <1>3, <1>8, <1>9, <1>10 DEF TrapsInvariant, Leave

(* yield() and sleep() leave the process stored, also inside kerneltrap(). *)
LEMMA GiveUpKeeps ==
  ASSUME TrapsInvariant, NEW h \in Harts, GiveUp(h)
  PROVE  TrapsInvariant'
<1> DEFINE l == IF at[h] # "yield" THEN at[h]
                ELSE IF local[h] = NoTrap THEN "usertrapret" ELSE "kernelret"
           t == Thread(l, local[h], sie[h])
<1>1. Types /\ Control(h) /\ Context(h)
  BY Zenon DEF TrapsInvariant
<1>2. at[h] \in {"yield", "syscall", "fsinit"} /\ Leave(h, t)
  BY Zenon DEF GiveUp
<1>3. proc[h] \in Procs /\ InFrame(proc[h])
  BY Zenon, <1>1, <1>2, HartFacts, TrapsAssumption DEF Context
<1>4. OnStack(h) = proc[h]
  BY Zenon, <1>3, TrapsAssumption DEF OnStack
<1>5. /\ l \in {"usertrapret", "syscall", "fsinit", "kernelret"}
      /\ (l = "kernelret") <=> InTrap(h)
      /\ (l = "syscall") <=> (at[h] = "syscall")
  <2>1. CASE at[h] = "yield" /\ local[h] = NoTrap
    <3>1. l = "usertrapret"
      BY <2>1
    <3> QED
      BY <2>1, <3>1 DEF InTrap
  <2>2. CASE at[h] = "yield" /\ local[h] # NoTrap
    <3>1. l = "kernelret"
      BY <2>2
    <3> QED
      BY <2>2, <3>1 DEF InTrap
  <2>3. CASE at[h] # "yield"
    <3>1. l = at[h]
      BY <2>3
    <3> QED
      BY <1>2, <2>3, <3>1 DEF InTrap
  <2> QED
    BY Zenon, <2>1, <2>2, <2>3
<1>6. l \in Names
  BY Zenon, <1>5, Literals
<1>7. t \in Threads
  BY Zenon, <1>1, <1>6, HartFacts DEF Thread, Threads, Types, TrapTypes
<1>8. l # "kernelret" => local[h] = NoTrap
  BY Zenon, <1>1, <1>5 DEF Control
<1>9. l = "kernelret" => Holds(local[h], kctx[proc[h]]) /\ kctx[proc[h]] \in Interruptible \ {"scheduler"}
  <2> SUFFICES ASSUME InTrap(h)
               PROVE  Holds(local[h], kctx[proc[h]]) /\ kctx[proc[h]] \in Interruptible \ {"scheduler"}
    BY Zenon, <1>5
  <2>1. Holds(local[h], kctx[proc[h]]) /\ kctx[proc[h]] \in Interruptible
    BY Zenon, <1>1, <1>2, <1>4 DEF Control
  <2>2. kctx[proc[h]] # "scheduler"
    BY Zenon, <1>1, <1>3, <1>4, TrapsAssumption DEF Control, Place
  <2> QED
    BY Zenon, <2>1, <2>2
<1>10. l \in {"syscall", "kernelret"} => ~sie[h]
  BY Zenon, <1>1, <1>2, <1>5 DEF Control, Interruptible, InTrap
<1>11. t.at = l /\ t.local = local[h] /\ t.sie = sie[h]
  BY Zenon DEF Thread
<1> HIDE DEF l, t
<1>12. StoredAs(t, proc[h]) /\ t.at # "running"
  BY Zenon, <1>3, <1>5, <1>8, <1>9, <1>10, <1>11 DEF StoredAs
<1> QED
  BY Zenon, <1>2, <1>7, <1>12, LeaveKeeps

(* A process that exits is unused. *)
LEMMA ExitKeeps ==
  ASSUME TrapsInvariant, NEW h \in Harts, exit(h)
  PROVE  TrapsInvariant'
<1>1. Unused \in Threads /\ Unused.at = "unused"
  BY Zenon, HartFacts, Literals DEF Unused, Thread, Threads
<1> QED
  BY Zenon, <1>1, LeaveKeeps DEF exit

(* The scheduler takes a process that no hart has. *)
LEMMA SwitchKeeps ==
  ASSUME TrapsInvariant, NEW h \in Harts, NEW p \in Procs, Switch(h, p)
  PROVE  TrapsInvariant'
<1>1. Types /\ Control(h) /\ Context(h) /\ panic = FALSE
  BY Zenon DEF TrapsInvariant
<1>2. /\ at[h] = "scheduler" /\ proc[h] = None /\ StoredAs(resume[p], p)
      /\ \A g \in Harts : proc[g] # p
  <2>1. at[h] = "scheduler" /\ resume[p].at \notin {"running", "unused"}
    BY Zenon DEF Switch
  <2>2. proc[h] = None
    BY Zenon, <1>1, <2>1 DEF Control, Place, InTrap
  <2>3. Stored(p) /\ \A g \in Harts : proc[g] # p
    BY <2>1 DEF TrapsInvariant, Processes
  <2> QED
    BY Zenon, <2>1, <2>2, <2>3 DEF Stored
<1>3. /\ resume[p].at \in Names /\ resume[p].local \in Stacks /\ resume[p].sie \in BOOLEAN
      /\ Running \in Threads /\ Running.at = "running"
  BY Zenon, <1>1, HartFacts, Literals DEF Types, StackTypes, Threads, Running, Thread
<1>4. Types'
  <2>1. RegTypes'
    BY Zenon, <1>1 DEF Switch, ghosts, Types, RegTypes
  <2>2. TrapTypes'
    BY Zenon, <1>1, <1>3 DEF Switch, Goto, Set, Types, TrapTypes
  <2>3. ClaimTypes'
    BY Zenon, <1>1 DEF Switch, plic, Types, ClaimTypes
  <2>4. StackTypes'
    BY Zenon, <1>1, <1>3 DEF Switch, Set, ghosts, Types, StackTypes
  <2> QED
    BY Zenon, <2>1, <2>2, <2>3, <2>4 DEF Types
<1>5. OthersKept(h, proc[h])
  BY <1>1 DEF Switch, Goto, Set, ghosts, Types, TrapTypes, StackTypes, OthersKept
<1>6. /\ at'[h] = resume[p].at /\ proc'[h] = p /\ local'[h] = resume[p].local
      /\ sie'[h] = IF resume[p].at = "forkret" THEN sie[h] ELSE resume[p].sie
      /\ UNCHANGED <<spie, spp, stvec, sepc, satp, tf, ctx, kctx, reg, irq, claimed, pending>>
  BY Zenon, <1>1 DEF Switch, Goto, Set, plic, ghosts, Types, TrapTypes, StackTypes
<1>7. OnStack(h)' = p
  BY Zenon, <1>6, TrapsAssumption DEF OnStack
<1>8. /\ stvec[h] = "kernelvec" /\ satp[h] = "kernel" /\ reg[h].tp = h
  BY Zenon, <1>1, <1>2 DEF Control, Context
<1>9. Control(h)'
  BY <1>2, <1>3, <1>6, <1>7, <1>8, TrapsAssumption DEF StoredAs, Control, InTrap, Place, Holds,
     Interruptible
<1>10. Context(h)'
  BY Zenon, <1>2, <1>6, <1>8 DEF StoredAs, Context, InFrame
<1>11. Plic'
  <2>1. \A g \in Harts : at'[g] = "serve" <=> at[g] = "serve"
    BY Zenon, <1>2, <1>5, <1>6 DEF OthersKept, StoredAs
  <2> QED
    BY Zenon, <1>6, <2>1 DEF TrapsInvariant, Plic
<1>12. Processes'
  <2>1. \A q \in Procs : resume'[q] = IF q = p THEN Running ELSE resume[q]
    BY Zenon, <1>1 DEF Switch, Set, Types, StackTypes
  <2>2. \A g \in Harts : proc'[g] = IF g = h THEN p ELSE proc[g]
    BY Zenon, <1>1 DEF Switch, Set, Types, TrapTypes
  <2>3. ASSUME NEW q \in Procs, resume'[q].at \notin {"running", "unused"} PROVE Stored(q)'
    <3>1. resume'[q] = resume[q]
      BY <1>3, <2>1, <2>3
    <3>2. Stored(q)
      BY Zenon, <2>3, <3>1 DEF TrapsInvariant, Processes
    <3> QED
      BY Zenon, <1>6, <3>1, <3>2, StoredKept
  <2>4. \A q \in Procs : resume'[q].at = "running" <=> \E g \in Harts : proc'[g] = q
    BY <1>2, <1>3, <2>1, <2>2, TrapsAssumption DEF TrapsInvariant, Processes
  <2>5. \A f, g \in Harts : proc'[f] = proc'[g] /\ proc'[f] # None => f = g
    BY <1>2, <2>2 DEF TrapsInvariant, Processes
  <2> QED
    BY Zenon, <2>3, <2>4, <2>5 DEF Processes
<1>13. \A g \in Harts : Control(g)' /\ Context(g)'
  BY Zenon, <1>5, <1>9, <1>10, OtherHarts
<1> QED
  BY Zenon, <1>1, <1>4, <1>11, <1>12, <1>13 DEF TrapsInvariant, Switch

(* fork() stores a child with its parent's registers. *)
LEMMA ForkKeeps ==
  ASSUME TrapsInvariant, NEW h \in Harts, NEW np \in Procs, fork(h, np)
  PROVE  TrapsInvariant'
<1> DEFINE p == proc[h]
<1>1. Types /\ Control(h) /\ Context(h) /\ panic = FALSE
  BY Zenon DEF TrapsInvariant
<1>2. at[h] = "syscall" /\ p \in Procs /\ resume[np].at = "unused"
  BY Zenon, HartFacts DEF fork
<1>3. \A g \in Harts : proc[g] # np
  BY Zenon, <1>2 DEF TrapsInvariant, Processes
<1>4. p # np /\ InFrame(p)
  BY Zenon, <1>1, <1>2, <1>3, TrapsAssumption DEF Context
<1>5. tf[p] \in Frames /\ ctx[p] \in Regs
  BY Zenon, <1>1, <1>2 DEF Types, RegTypes
<1>6. /\ tf' = [tf EXCEPT ![np] = [tf[p] EXCEPT !.a0 = 0], ![p] = [tf[p] EXCEPT !.a0 = np]]
      /\ ctx' = [ctx EXCEPT ![np] = [ctx[p] EXCEPT !.a0 = 0], ![p] = [ctx[p] EXCEPT !.a0 = np]]
  BY <1>1, <1>2, <1>4 DEF fork, Types, RegTypes
<1>7. /\ [tf[p] EXCEPT !.a0 = 0] \in Frames /\ [tf[p] EXCEPT !.a0 = np] \in Frames
      /\ [ctx[p] EXCEPT !.a0 = 0] \in Regs /\ [ctx[p] EXCEPT !.a0 = np] \in Regs
  BY <1>5 DEF Frames, Regs, Returns
<1>8. NewThread \in Threads /\ NewThread.at = "forkret" /\ NewThread.local = NoTrap /\ ~NewThread.sie
  BY Zenon, HartFacts, Literals DEF NewThread, Thread, Threads
<1>9. Types'
  <2>1. tf' \in [Procs -> Frames]
    BY <1>1, <1>2, <1>6, <1>7 DEF Types, RegTypes
  <2>5. ctx' \in [Procs -> Regs]
    BY <1>1, <1>2, <1>6, <1>7 DEF Types, RegTypes
  <2>6. RegTypes'
    BY Zenon, <1>1, <2>1, <2>5 DEF fork, Types, RegTypes
  <2>2. TrapTypes'
    BY Zenon, <1>1, Literals DEF fork, Goto, sregs, Types, TrapTypes
  <2>3. ClaimTypes'
    BY Zenon, <1>1 DEF fork, plic, Types, ClaimTypes
  <2>4. StackTypes'
    BY Zenon, <1>1, <1>8 DEF fork, Set, Types, StackTypes
  <2> QED
    BY Zenon, <2>2, <2>3, <2>4, <2>6 DEF Types
<1>10. OthersKept(h, np)
  BY <1>1, <1>6 DEF fork, Goto, sregs, Types, RegTypes, TrapTypes, OthersKept
<1>11. /\ at'[h] = "usertrapret"
       /\ UNCHANGED <<proc, reg, local, sie, spie, spp, stvec, sepc, satp, kctx, irq, pending, claimed>>
  BY Zenon, <1>1 DEF fork, Goto, sregs, plic, Types, TrapTypes
<1>12. Control(h)'
  BY <1>1, <1>2, <1>11 DEF Control, InTrap, Place, Interruptible, OnStack, NoTrap
<1>13. /\ tf'[p] = [tf[p] EXCEPT !.a0 = np] /\ ctx'[p] = [ctx[p] EXCEPT !.a0 = np]
       /\ tf'[np] = [tf[p] EXCEPT !.a0 = 0] /\ ctx'[np] = [ctx[p] EXCEPT !.a0 = 0]
  BY <1>1, <1>2, <1>4, <1>6 DEF Types, RegTypes
<1>14. InFrame(p)' /\ InFrame(np)'
  BY <1>4, <1>5, <1>11, <1>13 DEF InFrame, Frames, Regs
<1>15. Context(h)'
  BY Zenon, <1>1, <1>2, <1>11, <1>14 DEF Context
<1>16. Plic'
  BY <1>1, <1>2, <1>11 DEF fork, Goto, Types, TrapTypes, TrapsInvariant, Plic
<1>17. Processes'
  <2>1. \A q \in Procs : resume'[q] = IF q = np THEN NewThread ELSE resume[q]
    BY Zenon, <1>1 DEF fork, Set, Types, StackTypes
  <2>2. \A q \in Procs : resume'[q].at = "running" <=> \E g \in Harts : proc'[g] = q
    BY <1>2, <1>3, <1>8, <1>11, <2>1 DEF TrapsInvariant, Processes
  <2>3. ASSUME NEW q \in Procs, resume'[q].at \notin {"running", "unused"} PROVE Stored(q)'
    <3>1. CASE q = np
      BY Zenon, <1>8, <1>14, <2>1, <3>1 DEF Stored, StoredAs
    <3>2. CASE q # np
      <4>1. Stored(q) /\ q # p
        BY <1>2, <2>1, <2>3, <3>2 DEF TrapsInvariant, Processes
      <4>2. tf'[q] = tf[q] /\ ctx'[q] = ctx[q] /\ kctx'[q] = kctx[q] /\ resume'[q] = resume[q]
        BY Zenon, <1>10, <1>11, <2>1, <3>2, <4>1 DEF OthersKept
      <4> QED
        BY Zenon, <4>1, <4>2, StoredKept
    <3> QED
      BY Zenon, <3>1, <3>2
  <2> QED
    BY Zenon, <1>11, <2>2, <2>3 DEF TrapsInvariant, Processes
<1>18. \A g \in Harts : Control(g)' /\ Context(g)'
  BY Zenon, <1>3, <1>10, <1>12, <1>15, OtherHarts
<1> QED
  BY Zenon, <1>1, <1>9, <1>16, <1>17, <1>18 DEF TrapsInvariant, fork

-----------------------------------------------------------------------------
(* What a step that only moves a hart and changes the PLIC leaves alone. *)
Serving(h) ==
  /\ UNCHANGED <<proc, reg, sregs, local, tf, resume, first, ghosts, panic>>
  /\ at' = [at EXCEPT ![h] = at'[h]] /\ at'[h] \in Names

(* Such a step keeps the invariant when it keeps what that says of h and of *)
(* the PLIC. *)
LEMMA ServingKeeps ==
  ASSUME TrapsInvariant, NEW h \in Harts, Serving(h), ClaimTypes', Plic', Control(h)', Context(h)'
  PROVE  TrapsInvariant'
<1>1. Types
  BY Zenon DEF TrapsInvariant
<1>2. Types'
  <2>1. RegTypes' /\ StackTypes'
    BY Zenon, <1>1 DEF Serving, ghosts, Types, RegTypes, StackTypes
  <2>2. TrapTypes'
    BY Zenon, <1>1 DEF Serving, sregs, Types, TrapTypes
  <2> QED
    BY Zenon, <2>1, <2>2 DEF Types
<1>3. OthersKept(h, proc[h])
  BY Zenon, <1>1 DEF Serving, sregs, ghosts, Types, TrapTypes, OthersKept
<1>4. Processes'
  <2>1. UNCHANGED <<tf, ctx, kctx, resume, proc>>
    BY Zenon DEF Serving, ghosts
  <2>2. \A p \in Procs : Stored(p) => Stored(p)'
    BY Zenon, <2>1, StoredKept
  <2> QED
    BY Zenon, <2>1, <2>2 DEF TrapsInvariant, Processes
<1>5. \A g \in Harts : Control(g)' /\ Context(g)'
  BY Zenon, <1>3, OtherHarts
<1> QED
  BY Zenon, <1>2, <1>4, <1>5 DEF TrapsInvariant, Serving

(* The PLIC gives a pending interrupt to one hart. *)
LEMMA ClaimKeeps ==
  ASSUME TrapsInvariant, NEW h \in Harts, NEW i \in Irqs, plic_claim(h, i)
  PROVE  TrapsInvariant'
<1>1. Types /\ Control(h) /\ Context(h)
  BY Zenon DEF TrapsInvariant
<1>2. at'[h] = "serve" /\ at' = [at EXCEPT ![h] = at'[h]]
  BY Zenon, <1>1 DEF plic_claim, Goto, Types, TrapTypes
<1>3. Serving(h)
  BY Zenon, <1>2, Literals DEF plic_claim, Serving
<1>4. Control(h)'
  BY <1>1, <1>2 DEF plic_claim, sregs, ghosts, Control, InTrap, Place, OnStack, Holds, NoTrap,
     Interruptible
<1>7. Context(h)'
  BY Zenon, <1>1, <1>2 DEF plic_claim, sregs, ghosts, Context, InFrame
<1>5. ClaimTypes'
  BY Zenon, <1>1 DEF plic_claim, Set, Types, ClaimTypes
<1>6. Plic'
  <2>1. claimed[i] = None /\ irq[h] = None /\ \A g \in Harts : irq[g] # i
    BY TrapsAssumption DEF plic_claim, TrapsInvariant, Plic
  <2>2. /\ \A g \in Harts : irq'[g] = IF g = h THEN i ELSE irq[g]
        /\ \A g \in Harts : at'[g] = IF g = h THEN "serve" ELSE at[g]
        /\ \A j \in Irqs : claimed'[j] = IF j = i THEN h ELSE claimed[j]
        /\ pending' = pending \ {i}
    BY Zenon, <1>1 DEF plic_claim, Goto, Set, Types, TrapTypes, ClaimTypes
  <2> QED
    BY <2>1, <2>2, TrapsAssumption DEF TrapsInvariant, Plic
<1> QED
  BY Zenon, <1>3, <1>4, <1>5, <1>6, <1>7, ServingKeeps

(* The hart that completes an interrupt is the one that claimed it. *)
LEMMA CompleteKeeps ==
  ASSUME TrapsInvariant, NEW h \in Harts, plic_complete(h)
  PROVE  TrapsInvariant'
<1>1. Types /\ Control(h) /\ Context(h)
  BY Zenon DEF TrapsInvariant
<1>2. irq[h] \in Irqs /\ claimed[irq[h]] = h
  BY Zenon DEF plic_complete, TrapsInvariant, Plic
<1>3. at'[h] = AfterDevintr(h) /\ at' = [at EXCEPT ![h] = at'[h]]
  BY Zenon, <1>1 DEF plic_complete, Goto, Types, TrapTypes
<1>4. Serving(h)
  BY Zenon, <1>3, Literals DEF plic_complete, AfterDevintr, Serving
<1>5. Control(h)' /\ Context(h)'
  BY <1>1, <1>3 DEF plic_complete, AfterDevintr, sregs, ghosts, Control, Context, InTrap, Place,
     OnStack, Holds, NoTrap, InFrame, Interruptible
<1>6. ClaimTypes'
  BY Zenon, <1>1 DEF plic_complete, Set, Types, ClaimTypes
<1>7. Plic'
  <2>1. \A g \in Harts : g # h => irq[g] # irq[h]
    BY Zenon, <1>2, TrapsAssumption DEF TrapsInvariant, Plic
  <2>2. /\ \A g \in Harts : irq'[g] = IF g = h THEN None ELSE irq[g]
        /\ \A j \in Irqs : claimed'[j] = IF j = irq[h] THEN None ELSE claimed[j]
        /\ at'[h] # "serve" /\ \A g \in Harts : g # h => at'[g] = at[g]
        /\ pending' = pending
    BY Zenon, <1>1 DEF plic_complete, AfterDevintr, Goto, Set, Types, TrapTypes, ClaimTypes
  <2> QED
    <3>1. \A g \in Harts : at'[g] = "serve" <=> irq'[g] # None
      BY <2>2 DEF TrapsInvariant, Plic
    <3>2. ASSUME NEW g \in Harts, irq'[g] # None PROVE irq'[g] \in Irqs /\ claimed'[irq'[g]] = g
      <4>1. g # h /\ irq'[g] = irq[g] /\ irq[g] # irq[h]
        BY <2>1, <2>2, <3>2
      <4>2. irq[g] \in Irqs /\ claimed[irq[g]] = g
        BY Zenon, <3>2, <4>1 DEF TrapsInvariant, Plic
      <4> QED
        BY <2>2, <4>1, <4>2
    <3>3. ASSUME NEW j \in Irqs, claimed'[j] # None
          PROVE  claimed'[j] \in Harts /\ irq'[claimed'[j]] = j /\ j \notin pending'
      <4>1. j # irq[h] /\ claimed'[j] = claimed[j]
        BY <2>2, <3>3
      <4>2. claimed[j] \in Harts /\ irq[claimed[j]] = j /\ j \notin pending
        BY Zenon, <3>3, <4>1 DEF TrapsInvariant, Plic
      <4> QED
        BY <2>2, <4>1, <4>2
    <3> QED
      BY Zenon, <3>1, <3>2, <3>3 DEF Plic
<1> QED
  BY Zenon, <1>4, <1>5, <1>6, <1>7, ServingKeeps

(* A device interrupts only when its last interrupt is completed. *)
LEMMA RaiseKeeps ==
  ASSUME TrapsInvariant, NEW i \in Irqs, Raise(i)
  PROVE  TrapsInvariant'
<1>1. Types'
  BY Zenon DEF Raise, sregs, ghosts, TrapsInvariant, Types, RegTypes, TrapTypes, ClaimTypes,
     StackTypes
<1>2. Plic'
  BY Zenon DEF Raise, TrapsInvariant, Plic
<1>3. Processes'
  <2>1. UNCHANGED <<tf, ctx, kctx, resume, proc>>
    BY Zenon DEF Raise, ghosts
  <2>2. \A p \in Procs : Stored(p) => Stored(p)'
    BY Zenon, <2>1, StoredKept
  <2> QED
    BY Zenon, <2>1, <2>2 DEF TrapsInvariant, Processes
<1>4. ASSUME NEW h \in Harts PROVE Control(h)' /\ Context(h)'
  <2>1. Control(h) /\ Context(h)
    BY Zenon DEF TrapsInvariant
  <2>2. OnStack(h)' = OnStack(h) /\ (InTrap(h)' <=> InTrap(h)) /\ Place(h)' = Place(h)
    BY Zenon DEF Raise, ghosts, InTrap, Place, OnStack, NoTrap
  <2>3. Control(h)'
    BY ZenonT(30), <2>1, <2>2 DEF Raise, sregs, ghosts, Control, Holds, NoTrap
  <2>4. Context(h)'
    BY Zenon, <2>1 DEF Raise, sregs, ghosts, Context, InFrame
  <2> QED
    BY Zenon, <2>3, <2>4
<1> QED
  BY Zenon, <1>1, <1>2, <1>3, <1>4 DEF Raise, TrapsInvariant

-----------------------------------------------------------------------------
(* Every hart starts in the scheduler and the first process is stored. *)
LEMMA TrapsInit == Init => TrapsInvariant
<1> SUFFICES ASSUME Init PROVE TrapsInvariant
  BY Zenon
<1>1. RegTypes
  BY Literals DEF Init, User, Trapframe, RegTypes, Regs, Frames, Returns, Tps
<1>2. TrapTypes
  BY Zenon, Literals DEF Init, TrapTypes
<1>3. ClaimTypes
  BY Zenon DEF Init, ClaimTypes
<1>4. StackTypes
  <2>1. NoTrap \in Stacks
    BY Zenon, Literals DEF NoTrap, Stacks, Tps
  <2>2. NewThread \in Threads /\ Unused \in Threads
    BY Zenon, <2>1, Literals DEF NewThread, Unused, Thread, Threads
  <2> QED
    BY Zenon, <2>1, <2>2 DEF Init, StackTypes
<1>5. Plic
  BY Zenon DEF Init, Plic
<1>6. Processes
  <2>1. \A p \in Procs : InFrame(p)
    BY Zenon DEF Init, User, Trapframe, InFrame
  <2>2. \A p \in Procs : resume[p] = IF p = initproc THEN NewThread ELSE Unused
    BY Zenon DEF Init
  <2>3. \A h \in Harts : proc[h] = None
    BY Zenon DEF Init
  <2>4. /\ NewThread.at = "forkret" /\ NewThread.local = NoTrap /\ ~NewThread.sie
        /\ Unused.at = "unused"
    BY Zenon DEF NewThread, Unused, Thread
  <2>5. ASSUME NEW p \in Procs
        PROVE  /\ resume[p].at # "running" /\ \A h \in Harts : proc[h] # p
               /\ resume[p].at \notin {"running", "unused"} => Stored(p)
    BY Zenon, <2>1, <2>2, <2>3, <2>4, TrapsAssumption DEF Stored, StoredAs
  <2> QED
    BY Zenon, <2>3, <2>5 DEF Processes
<1>7. \A h \in Harts : Control(h) /\ Context(h)
  BY Zenon DEF Init, Control, Context, InTrap, Place, Interruptible
<1> QED
  BY Zenon, <1>1, <1>2, <1>3, <1>4, <1>5, <1>6, <1>7 DEF Init, TrapsInvariant, Types

(* A stuttering step keeps the invariant. *)
LEMMA TrapsStutter == TrapsInvariant /\ UNCHANGED vars => TrapsInvariant'
<1> SUFFICES ASSUME TrapsInvariant, UNCHANGED vars PROVE TrapsInvariant'
  BY Zenon
<1>1. Types'
  BY Zenon DEF vars, sregs, plic, ghosts, TrapsInvariant, Types, RegTypes, TrapTypes, ClaimTypes,
     StackTypes
<1>2. Plic'
  BY Zenon DEF vars, plic, TrapsInvariant, Plic
<1>3. Processes'
  <2>1. UNCHANGED <<tf, ctx, kctx, resume, proc>>
    BY Zenon DEF vars, ghosts
  <2>2. \A p \in Procs : Stored(p) => Stored(p)'
    BY Zenon, <2>1, StoredKept
  <2> QED
    BY Zenon, <2>1, <2>2 DEF TrapsInvariant, Processes
<1>4. ASSUME NEW h \in Harts PROVE Control(h)' /\ Context(h)'
  <2>1. Control(h) /\ Context(h)
    BY Zenon DEF TrapsInvariant
  <2>2. OnStack(h)' = OnStack(h) /\ (InTrap(h)' <=> InTrap(h)) /\ Place(h)' = Place(h)
    BY Zenon DEF vars, ghosts, InTrap, Place, OnStack, NoTrap
  <2>3. Control(h)'
    BY ZenonT(30), <2>1, <2>2 DEF vars, sregs, ghosts, Control, Holds, NoTrap
  <2>4. Context(h)'
    BY Zenon, <2>1 DEF vars, sregs, ghosts, Context, InFrame
  <2> QED
    BY Zenon, <2>3, <2>4
<1> QED
  BY Zenon, <1>1, <1>2, <1>3, <1>4 DEF vars, TrapsInvariant

(* Every step keeps the invariant. *)
LEMMA TrapsStep == TrapsInvariant /\ [Next]_vars => TrapsInvariant'
<1> SUFFICES ASSUME TrapsInvariant, [Next]_vars PROVE TrapsInvariant'
  BY Zenon
<1>1. ASSUME NEW h \in Harts, Kernel(h) PROVE TrapsInvariant'
  BY Zenon, <1>1, UservecKeeps, UsertrapKeeps, SyscallKeeps, GiveUpKeeps, ExitKeeps, IntrOnKeeps,
     ForkretKeeps, FsinitKeeps, UsertrapretKeeps, UserretKeeps, KerneltrapKeeps, KernelRetKeeps,
     SretKeeps, ClaimNoneKeeps, CompleteKeeps, ClaimKeeps DEF Kernel
<1>2. CASE Next
  BY Zenon, <1>1, <1>2, SwitchKeeps, ForkKeeps, UserStepKeeps, UserTrapKeeps, KernelTrapKeeps,
     RaiseKeeps DEF Next
<1> QED
  BY Zenon, <1>2, TrapsStutter

(* A trap always finds its own entry and page table, tp is the hart in the  *)
(* kernel, user programs and interrupted kernel code go on as they were on  *)
(* whatever hart they return, and an interrupt has one hart; for any number *)
(* of them. *)
THEOREM TrapsSafe ==
  Spec => [](VectorMatchesMode /\ TpIsHart /\ ContextKept /\ InterruptsExclusive)
<1>1. TrapsInvariant => VectorMatchesMode
  <2> SUFFICES ASSUME TrapsInvariant, NEW h \in Harts
               PROVE  /\ at[h] \in {"user", "uservec"} => satp[h] = proc[h] /\ proc[h] \in Procs
                      /\ at[h] = "user" => stvec[h] = "uservec" /\ sie[h]
                      /\ InKernel(h) => satp[h] = "kernel" /\ (sie[h] => stvec[h] = "kernelvec")
    BY Zenon DEF VectorMatchesMode
  <2>1. Control(h) /\ (at[h] \in {"user", "uservec"} => proc[h] \in Procs)
    BY Zenon, HartFacts DEF TrapsInvariant
  <2> QED
    BY Zenon, <2>1 DEF Control, InKernel, Interruptible
<1>2. TrapsInvariant => TpIsHart
  BY Zenon DEF TrapsInvariant, Context, TpIsHart, InKernel
<1>3. TrapsInvariant => ContextKept
  BY Zenon DEF TrapsInvariant, Context, Control, ContextKept
<1>4. TrapsInvariant => InterruptsExclusive
  <2> SUFFICES ASSUME TrapsInvariant PROVE InterruptsExclusive
    BY Zenon
  <2>1. ASSUME NEW g \in Harts, NEW h \in Harts, g # h, irq[g] # None PROVE irq[g] # irq[h]
    <3>1. \A f \in Harts : irq[f] # None => claimed[irq[f]] = f
      BY Zenon DEF TrapsInvariant, Plic
    <3> QED
      BY Zenon, <2>1, <3>1
  <2>2. \A i \in Irqs : claimed[i] # None => irq[claimed[i]] = i /\ i \notin pending
    BY Zenon DEF TrapsInvariant, Plic
  <2>3. ~panic
    BY Zenon DEF TrapsInvariant
  <2> QED
    BY Zenon, <2>1, <2>2, <2>3 DEF InterruptsExclusive
<1> QED
  BY <1>1, <1>2, <1>3, <1>4, TrapsInit, TrapsStep, PTL DEF Spec

(* tp is the number of the hart wherever the kernel relies on it: whatever  *)
(* a user program left in tp, on whatever hart its process goes on, and     *)
(* when a thread interrupted in the kernel returns from kernelvec on        *)
(* another hart than the one that was interrupted. *)
THEOREM TpKept == Spec => []TpIsHart
BY TrapsSafe, PTL

(* An interrupt that one hart has claimed and not completed is with no      *)
(* other hart: devintr() completes what its own plic_claim() returned, and  *)
(* no trap from the wrong mode makes usertrap() or kerneltrap() panic. *)
THEOREM ClaimsExclusive == Spec => []InterruptsExclusive
BY TrapsSafe, PTL

==============================================================================
