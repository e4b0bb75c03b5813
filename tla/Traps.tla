-------------------------------- MODULE Traps --------------------------------
(***************************************************************************)
(* Traps: trampoline.S, usertrap(), usertrapret(), kernelvec.S,            *)
(* kerneltrap(), devintr() and the PLIC, with the parts of scheduler(),    *)
(* yield(), sleep() and forkret() that move a kernel thread between harts. *)
(*                                                                         *)
(* A hart has the supervisor registers that matter here and the user       *)
(* registers pc, a0 and tp; the others are saved and restored like tp.     *)
(* A trap from user space runs with interrupts off to its end.  Interrupts *)
(* are on in the scheduler, and in a new process from the release of its   *)
(* lock in forkret() to usertrapret(): its first thread is interrupted     *)
(* there, and gives up the CPU inside kerneltrap().                        *)
(***************************************************************************)
EXTENDS Naturals, FiniteSets

CONSTANTS Harts, Procs, Irqs, None,
          Words,                  \* what user programs put in tp
          initproc                \* the process userinit() makes
ASSUME TrapsAssumption ==
  /\ initproc \in Procs /\ Harts \cap Procs = {}
  /\ None \notin Harts \cup Procs \cup Irqs

VARIABLES at, proc,               \* where the hart is; c->proc
          reg,                    \* pc, a0, tp
          sie, spie, spp,         \* sstatus
          stvec, sepc, scause, satp,
          local,                  \* what kernelvec and kerneltrap() keep on the kernel stack
          irq,                    \* what plic_claim() returned
          tf, resume,             \* p->trapframe; p->context and its stack
          first,                  \* of forkret()
          pending, claimed,       \* external: the PLIC
          ctx,                    \* the registers p should see when it runs next
          kctx,                   \* where an interrupted kernel thread was, or None
          panic
sregs == <<sie, spie, spp, stvec, sepc, scause, satp>>
plic == <<irq, pending, claimed>>
ghosts == <<ctx, kctx>>
vars == <<at, proc, reg, sregs, local, plic, tf, resume, first, ghosts, panic>>

(* the next instruction; a program has two *)
Behind(pc) == IF pc = "0" THEN "4" ELSE "0"

User == [pc |-> "0", a0 |-> 1, tp |-> None]
Trapframe == [epc |-> "0", a0 |-> 1, tp |-> None, hart |-> None]

(* a kernel stack with no kernel trap on it *)
NoTrap == [tp |-> None, sepc |-> "none", spp |-> "S", spie |-> FALSE]

(* a kernel thread that is not on a hart: where it goes on, what its stack  *)
(* holds and the intena sched() kept *)
Thread(l, stack, intena) == [at |-> l, local |-> stack, sie |-> intena]
Running == Thread("running", NoTrap, FALSE)
Unused == Thread("unused", NoTrap, FALSE)
(* allocproc(): p->context.ra = forkret *)
NewThread == Thread("forkret", NoTrap, FALSE)

(* trapinithart() and userinit() have run, scheduler() has turned on        *)
(* interrupts *)
Init ==
  /\ at = [h \in Harts |-> "scheduler"] /\ proc = [h \in Harts |-> None]
  /\ reg = [h \in Harts |-> [pc |-> "0", a0 |-> 0, tp |-> h]]
  /\ sie = [h \in Harts |-> TRUE] /\ spie = [h \in Harts |-> FALSE]
  /\ spp = [h \in Harts |-> "S"] /\ stvec = [h \in Harts |-> "kernelvec"]
  /\ sepc = [h \in Harts |-> "none"] /\ scause = [h \in Harts |-> "none"]
  /\ satp = [h \in Harts |-> "kernel"] /\ local = [h \in Harts |-> NoTrap]
  /\ irq = [h \in Harts |-> None] /\ pending = {} /\ claimed = [i \in Irqs |-> None]
  /\ tf = [p \in Procs |-> Trapframe] /\ first = TRUE
  /\ resume = [p \in Procs |-> IF p = initproc THEN NewThread ELSE Unused]
  /\ ctx = [p \in Procs |-> User] /\ kctx = [t \in Harts \cup Procs |-> None]
  /\ panic = FALSE

Goto(h, l) == at' = [at EXCEPT ![h] = l]
Set(f, h, v) == [f EXCEPT ![h] = v]
(* whose kernel stack the hart is on *)
OnStack(h) == IF proc[h] = None THEN h ELSE proc[h]

-----------------------------------------------------------------------------
(* external: a user program computes, tp included *)
UserStep(h, t) ==
  /\ at[h] = "user"
  /\ reg' = Set(reg, h, [pc |-> reg[h].pc, a0 |-> 1, tp |-> t])
  /\ ctx' = Set(ctx, proc[h], [pc |-> reg[h].pc, a0 |-> 1, tp |-> t])
  /\ UNCHANGED <<at, proc, sregs, local, plic, tf, resume, first, kctx, panic>>

(* external: the hardware's part of a trap *)
Trap(h, mode, cause, pc) ==
  /\ sepc' = Set(sepc, h, pc)
  /\ scause' = Set(scause, h, cause) /\ spp' = Set(spp, h, mode)
  /\ spie' = Set(spie, h, sie[h]) /\ sie' = Set(sie, h, FALSE)
  /\ Goto(h, stvec[h])
  /\ UNCHANGED <<proc, reg, stvec, satp, local, plic, tf, resume, first, panic>>
Causes == {"timer"} \cup (IF pending # {} THEN {"external"} ELSE {})

UserTrap(h, cause) ==
  /\ at[h] = "user" /\ cause \in Causes \cup {"ecall", "store"}
  /\ Trap(h, "U", cause, reg[h].pc)
  /\ ctx' = [ctx EXCEPT ![proc[h]].pc = IF cause = "ecall" THEN Behind(@) ELSE @]
  /\ UNCHANGED kctx
KernelTrap(h, cause) ==
  /\ at[h] # "user" /\ sie[h] /\ cause \in Causes
  /\ Trap(h, "S", cause, at[h])
  /\ kctx' = Set(kctx, OnStack(h), at[h])
  /\ UNCHANGED ctx

-----------------------------------------------------------------------------
(* save the user registers, load the kernel's *)
uservec(h) ==
  LET p == proc[h] IN
  /\ at[h] = "uservec"
  /\ tf' = [tf EXCEPT ![p].a0 = reg[h].a0, ![p].tp = reg[h].tp]
  /\ reg' = Set(reg, h, [pc |-> "0", a0 |-> 0, tp |-> tf[p].hart])
  /\ satp' = Set(satp, h, "kernel")
  /\ Goto(h, "usertrap")
  /\ UNCHANGED <<proc, sie, spie, spp, stvec, sepc, scause, local, plic, resume, first, ghosts, panic>>

(* a COW fault is handled (module CowVM), a timer interrupt ends in yield() *)
AfterUsertrap(cause) ==
  CASE cause = "ecall" -> "syscall" [] cause = "external" -> "plic_claim"
    [] cause = "timer" -> "yield" [] OTHER -> "usertrapret"

usertrap(h) ==
  /\ at[h] = "usertrap"
  /\ panic' = (spp[h] # "U")
  /\ stvec' = Set(stvec, h, "kernelvec")
  /\ tf' = [tf EXCEPT ![proc[h]].epc = IF scause[h] = "ecall" THEN Behind(sepc[h]) ELSE sepc[h]]
  /\ sie' = Set(sie, h, FALSE)
  /\ Goto(h, AfterUsertrap(scause[h]))
  /\ UNCHANGED <<proc, reg, spie, spp, sepc, scause, satp, local, plic, resume, first, ghosts>>

(* the return value *)
syscall(h) ==
  /\ at[h] = "syscall"
  /\ tf' = [tf EXCEPT ![proc[h]].a0 = 0]
  /\ ctx' = [ctx EXCEPT ![proc[h]].a0 = 0]
  /\ Goto(h, "usertrapret")
  /\ UNCHANGED <<proc, reg, sregs, local, plic, resume, first, kctx, panic>>

(* the child has the parent's registers, the hart number of its last trap   *)
(* included, and returns 0 *)
fork(h, np) ==
  LET p == proc[h] IN
  /\ at[h] = "syscall" /\ resume[np].at = "unused"
  /\ tf' = [tf EXCEPT ![np] = [tf[p] EXCEPT !.a0 = 0], ![p].a0 = np]
  /\ ctx' = [ctx EXCEPT ![np] = [ctx[p] EXCEPT !.a0 = 0], ![p].a0 = np]
  /\ resume' = Set(resume, np, NewThread)
  /\ Goto(h, "usertrapret")
  /\ UNCHANGED <<proc, reg, sregs, local, plic, first, kctx, panic>>

-----------------------------------------------------------------------------
(* sched() and swtch(): the scheduler's release(&p->lock) restores the      *)
(* interrupts as the thread had them when it took its lock *)
Leave(h, thread) ==
  /\ resume' = Set(resume, proc[h], thread)
  /\ proc' = Set(proc, h, None) /\ local' = Set(local, h, NoTrap)
  /\ Goto(h, "scheduler")
  /\ UNCHANGED <<reg, sregs, plic, tf, first, ghosts, panic>>

(* yield(), or sleep() in a system call or in fsinit() *)
GiveUp(h) ==
  /\ at[h] \in {"yield", "syscall", "fsinit"}
  /\ Leave(h, Thread(IF at[h] # "yield" THEN at[h]
                     ELSE IF local[h] = NoTrap THEN "usertrapret" ELSE "kernelret",
                     local[h], sie[h]))
(* its parent collects it (module Sched); the kernel panics when init exits *)
exit(h) ==
  /\ at[h] = "syscall" /\ proc[h] # initproc
  /\ Leave(h, Unused)

(* acquire(&p->lock), swtch(), and the thread's release: a thread that      *)
(* called sched() has its own intena back; a new one, in forkret(), goes on *)
(* with the interrupts as the scheduler had them *)
Switch(h, p) ==
  /\ at[h] = "scheduler" /\ resume[p].at \notin {"running", "unused"}
  /\ proc' = Set(proc, h, p) /\ resume' = Set(resume, p, Running)
  /\ local' = Set(local, h, resume[p].local)
  /\ sie' = Set(sie, h, IF resume[p].at = "forkret" THEN sie[h] ELSE resume[p].sie)
  /\ Goto(h, resume[p].at)
  /\ UNCHANGED <<reg, spie, spp, stvec, sepc, scause, satp, plic, tf, first, ghosts, panic>>

(* fault: the interrupts stay as the last process had them *)
intr_on_Missing(h) ==
  /\ at[h] = "scheduler" /\ ~sie[h]
  /\ UNCHANGED vars

(* the scheduler's loop begins again *)
intr_on(h) ==
  /\ at[h] = "scheduler" /\ ~sie[h]
  /\ sie' = Set(sie, h, TRUE)
  /\ UNCHANGED <<at, proc, reg, spie, spp, stvec, sepc, scause, satp, local, plic, tf, resume,
                 first, ghosts, panic>>

forkret(h) ==
  /\ at[h] = "forkret"
  /\ Goto(h, IF first THEN "fsinit" ELSE "usertrapret")
  /\ UNCHANGED <<proc, reg, sregs, local, plic, tf, resume, first, ghosts, panic>>

(* fsinit() is done *)
FsinitDone(h) ==
  /\ at[h] = "fsinit"
  /\ first' = FALSE
  /\ Goto(h, "usertrapret")
  /\ UNCHANGED <<proc, reg, sregs, local, plic, tf, resume, ghosts, panic>>

usertrapret(h) ==
  LET p == proc[h] IN
  /\ at[h] = "usertrapret"
  /\ stvec' = Set(stvec, h, "uservec")
  /\ tf' = [tf EXCEPT ![p].hart = reg[h].tp]
  /\ sie' = Set(sie, h, FALSE) /\ spie' = Set(spie, h, TRUE) /\ spp' = Set(spp, h, "U")
  /\ sepc' = Set(sepc, h, tf[p].epc)
  /\ Goto(h, "userret")
  /\ UNCHANGED <<proc, reg, scause, satp, local, plic, resume, first, ghosts, panic>>

(* the user page table, the user registers, sret *)
userret(h) ==
  LET p == proc[h] IN
  /\ at[h] = "userret"
  /\ satp' = Set(satp, h, p)
  /\ reg' = Set(reg, h, [pc |-> sepc[h], a0 |-> tf[p].a0, tp |-> tf[p].tp])
  /\ sie' = Set(sie, h, spie[h])
  /\ Goto(h, "user")
  /\ UNCHANGED <<proc, spie, spp, stvec, sepc, scause, local, plic, tf, resume, first, ghosts, panic>>

-----------------------------------------------------------------------------
(* kernelvec's part of the stack, and kerneltrap()'s copies of the trap     *)
(* registers *)
Saved(h) == [tp |-> reg[h].tp, sepc |-> sepc[h], spp |-> spp[h], spie |-> spie[h]]

(* kernelvec and kerneltrap(), which yields only under a process *)
kerneltrap(h) ==
  /\ at[h] = "kernelvec"
  /\ local' = Set(local, h, Saved(h))
  /\ panic' = (spp[h] # "S" \/ sie[h])
  /\ Goto(h, IF scause[h] = "external" THEN "plic_claim"
             ELSE IF proc[h] = None THEN "kernelret" ELSE "yield")
  /\ UNCHANGED <<proc, reg, sregs, plic, tf, resume, first, ghosts>>

(* fault: the trap registers are left as the last trap of the hart set them *)
KernelRet_KeepSregs(h) ==
  /\ at[h] = "kernelret"
  /\ Goto(h, "sret")
  /\ UNCHANGED <<proc, reg, sregs, local, plic, tf, resume, first, ghosts, panic>>

(* the end of kerneltrap(): w_sepc(), w_sstatus() *)
KernelRet(h) ==
  /\ at[h] = "kernelret"
  /\ sepc' = Set(sepc, h, local[h].sepc)
  /\ spp' = Set(spp, h, local[h].spp) /\ spie' = Set(spie, h, local[h].spie)
  /\ sie' = Set(sie, h, FALSE)
  /\ Goto(h, "sret")
  /\ UNCHANGED <<proc, reg, stvec, scause, satp, local, plic, tf, resume, first, ghosts, panic>>

(* fault: tp is restored too *)
sret_Tp(h) ==
  /\ at[h] = "sret"
  /\ reg' = [reg EXCEPT ![h].tp = local[h].tp]
  /\ sie' = Set(sie, h, spie[h])
  /\ local' = Set(local, h, NoTrap)
  /\ Goto(h, IF spp[h] = "U" THEN "user" ELSE sepc[h])
  /\ kctx' = Set(kctx, OnStack(h), None)
  /\ UNCHANGED <<proc, spie, spp, stvec, sepc, scause, satp, plic, tf, resume, first, ctx, panic>>

(* the end of kernelvec: the saved registers except tp *)
sret(h) ==
  /\ at[h] = "sret"
  /\ sie' = Set(sie, h, spie[h])
  /\ local' = Set(local, h, NoTrap)
  /\ Goto(h, IF spp[h] = "U" THEN "user" ELSE sepc[h])
  /\ kctx' = Set(kctx, OnStack(h), None)
  /\ UNCHANGED <<proc, reg, spie, spp, stvec, sepc, scause, satp, plic, tf, resume, first, ctx, panic>>

(* back from devintr() *)
AfterDevintr(h) == IF local[h] = NoTrap THEN "usertrapret" ELSE "kernelret"

(* fault: the interrupt is completed before it is served *)
plic_claim_Completed(h, i) ==
  /\ at[h] = "plic_claim" /\ i \in pending
  /\ irq' = Set(irq, h, i) /\ pending' = pending \ {i}
  /\ Goto(h, "serve")
  /\ UNCHANGED <<proc, reg, sregs, local, claimed, tf, resume, first, ghosts, panic>>

(* nothing to claim: another hart was faster *)
ClaimNone(h) ==
  /\ at[h] = "plic_claim" /\ pending = {}
  /\ Goto(h, AfterDevintr(h))
  /\ UNCHANGED <<proc, reg, sregs, local, plic, tf, resume, first, ghosts, panic>>
plic_claim(h, i) ==
  /\ at[h] = "plic_claim" /\ i \in pending
  /\ irq' = Set(irq, h, i) /\ pending' = pending \ {i} /\ claimed' = Set(claimed, i, h)
  /\ Goto(h, "serve")
  /\ UNCHANGED <<proc, reg, sregs, local, tf, resume, first, ghosts, panic>>

(* uartintr() or virtio_disk_intr() has run: plic_complete() *)
plic_complete(h) ==
  /\ at[h] = "serve"
  /\ claimed' = Set(claimed, irq[h], None) /\ irq' = Set(irq, h, None)
  /\ Goto(h, AfterDevintr(h))
  /\ UNCHANGED <<proc, reg, sregs, local, pending, tf, resume, first, ghosts, panic>>

(* external: a device interrupts, at most once until it is completed *)
Raise(i) ==
  /\ i \notin pending /\ claimed[i] = None
  /\ pending' = pending \cup {i}
  /\ UNCHANGED <<at, proc, reg, sregs, local, irq, claimed, tf, resume, first, ghosts, panic>>

-----------------------------------------------------------------------------
Kernel(h) ==
  \/ uservec(h) \/ usertrap(h) \/ syscall(h) \/ GiveUp(h) \/ exit(h) \/ intr_on(h)
  \/ forkret(h) \/ FsinitDone(h) \/ usertrapret(h) \/ userret(h)
  \/ kerneltrap(h) \/ KernelRet(h) \/ sret(h) \/ ClaimNone(h) \/ plic_complete(h)
  \/ \E i \in Irqs : plic_claim(h, i)
Interrupted(h) == UserTrap(h, "external") \/ KernelTrap(h, "external")

Next ==
  /\ ~panic
  /\ \/ \E h \in Harts :
          \/ Kernel(h)
          \/ \E p \in Procs : Switch(h, p) \/ fork(h, p)
          \/ \E t \in Words : UserStep(h, t)
          \/ \E c \in {"timer", "external", "ecall", "store"} : UserTrap(h, c) \/ KernelTrap(h, c)
     \/ \E i \in Irqs : Raise(i)

Spec == Init /\ [][Next]_vars

(* The kernel goes on, and a hart whose interrupts are on again and again   *)
(* takes an external interrupt that is pending.  A scan of the process      *)
(* table is finite: a scheduler that finds interrupts off again and again   *)
(* turns them on. *)
FairSpec ==
  Spec /\ \A h \in Harts : WF_vars(Kernel(h)) /\ SF_vars(Interrupted(h)) /\ SF_vars(intr_on(h))

(* what a later step can still read of the registers and of a trapframe: a  *)
(* bisimulation, for the model checker *)
View ==
  LET Live(f, labels) == [h \in Harts |-> IF at[h] \in labels THEN f[h] ELSE None]
      trap == {"uservec", "usertrap", "kernelvec"}
      On(p, labels) == \E h \in Harts : proc[h] = p /\ at[h] \in labels
  IN <<at, proc, reg, sie, stvec, satp, Live(scause, trap),
       Live([h \in Harts |-> <<sepc[h], spp[h], spie[h]>>], trap \cup {"userret", "sret"}),
       local, plic,
       [p \in Procs |-> IF On(p, {"userret", "user", "uservec"}) THEN tf[p].hart ELSE None],
       [p \in Procs |-> IF resume[p].at = "unused" \/ On(p, {"user", "uservec"}) THEN None
                        ELSE <<tf[p].epc, tf[p].a0, tf[p].tp>>],
       [p \in Procs |-> IF resume[p].at = "unused" THEN None ELSE ctx[p]],
       resume, first, kctx, panic>>

-----------------------------------------------------------------------------
InKernel(h) == at[h] \notin {"user", "uservec"}

(* A trap always finds its own entry: in user space stvec points to uservec *)
(* with the process's page table, and wherever the kernel can be            *)
(* interrupted it points to kernelvec with the kernel's. *)
VectorMatchesMode ==
  \A h \in Harts :
    /\ at[h] \in {"user", "uservec"} => satp[h] = proc[h] /\ proc[h] \in Procs
    /\ at[h] = "user" => stvec[h] = "uservec" /\ sie[h]
    /\ InKernel(h) => satp[h] = "kernel" /\ (sie[h] => stvec[h] = "kernelvec")

(* In the kernel tp is the number of this hart: whatever the user program   *)
(* put there, wherever the process ran before, and though a thread that was *)
(* interrupted in the kernel may return from kernelvec on another hart. *)
TpIsHart == \A h \in Harts : InKernel(h) => reg[h].tp = h

(* A user program goes on with the registers it had, on any hart; after a   *)
(* system call behind the ecall with the return value in a0, and a child    *)
(* with its parent's and 0.  Kernel code that was interrupted goes on where *)
(* it was, in supervisor mode with interrupts on, though other threads      *)
(* trapped on the hart while it had given up the CPU. *)
ContextKept ==
  \A h \in Harts :
    /\ at[h] = "user" => reg[h] = ctx[proc[h]]
    /\ at[h] = "sret" => sepc[h] = kctx[OnStack(h)] /\ spp[h] = "S" /\ spie[h]

(* A device's interrupt is served by one hart at a time, and nothing panics *)
(* for a trap from the wrong mode. *)
InterruptsExclusive ==
  /\ ~panic
  /\ \A g, h \in Harts : g # h /\ irq[g] # None => irq[g] # irq[h]
  /\ \A i \in Irqs : claimed[i] # None => irq[claimed[i]] = i /\ i \notin pending

(* An interrupt is served in the end, though system calls run with          *)
(* interrupts off, leave them off in the scheduler, and other harts may     *)
(* claim it first. *)
IrqServed == \A i \in Irqs : i \in pending ~> i \notin pending
=============================================================================
