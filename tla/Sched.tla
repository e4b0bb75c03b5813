------------------------------- MODULE Sched -------------------------------
(***************************************************************************)
(* Harts, the per-hart scheduler, sched/yield/sleep/wakeup/kill of proc.c, *)
(* and the sleep locks of sleeplock.c that run on top of them.             *)
(*                                                                         *)
(* A step is what a hart does between two operations other harts can see:  *)
(* an acquire, a release, a swtch, or a critical section that takes one    *)
(* lock and gives it back.  A spin lock records the hart that holds it.    *)
(* noff, intena and the hart's interrupt enable bit are kept because       *)
(* sched() hands them from one kernel thread to another.                   *)
(***************************************************************************)
EXTENDS Naturals, FiniteSets

CONSTANTS NPROC,     \* number of entries of the process table
          CPUs,      \* harts
          Locks,     \* sleep locks
          Victims    \* the processes somebody may kill
ASSUME TableAssumption == NPROC \in Nat \ {0} /\ 0 \notin CPUs /\ Victims \subseteq 1..NPROC

Procs == 1..NPROC

VARIABLES cpu,       \* struct cpu of each hart, and where its scheduler is
          state, chan, killed, plock,     \* struct proc, and the holder of p->lock
          lk, locked, lpid,               \* struct sleeplock, and the holder of lk->lk
          th,        \* kernel thread of each process: where it is, its locals
          panic      \* a panic() was reached
vars == <<cpu, state, chan, killed, plock, lk, locked, lpid, th, panic>>

procVars == <<state, chan, killed>>
lockVars == <<lk, locked, lpid>>

-----------------------------------------------------------------------------
(* push_off and pop_off, on the record of the hart *)
PushOff(r) == [r EXCEPT !.intena = IF r.noff = 0 THEN r.intr ELSE @,
                        !.intr = FALSE, !.noff = @ + 1]
PopOff(r)  == [r EXCEPT !.noff = @ - 1, !.intr = r.noff = 1 /\ r.intena]

(* the thread of p runs on hart c, outside a timer interrupt *)
Runs(c, p) == cpu[c].at = "run" /\ cpu[c].proc = p
At(c, p, l) == Runs(c, p) /\ ~panic /\ th[p].trap = "no" /\ th[p].pc = l
Goto(p, l) == th' = [th EXCEPT ![p].pc = l]

(* swtch to the scheduler of the hart; the thread keeps intena in its frame *)
sched(c, p, thread) ==
  /\ panic' = (plock'[p] # c \/ cpu'[c].noff # 1 \/ state'[p] = "RUNNING" \/ cpu'[c].intr)
  /\ th' = [th EXCEPT ![p] = [thread EXCEPT !.intena = cpu'[c].intena]]

Init ==
  /\ cpu = [c \in CPUs |-> [at |-> "scan", i |-> 1, proc |-> 0,
                            intr |-> TRUE, noff |-> 0, intena |-> TRUE]]
  /\ state = [p \in Procs |-> "RUNNABLE"] /\ chan = [p \in Procs |-> 0]
  /\ killed = [p \in Procs |-> FALSE] /\ plock = [p \in Procs |-> 0]
  /\ lk = [l \in Locks |-> 0] /\ locked = [l \in Locks |-> FALSE]
  /\ lpid = [l \in Locks |-> 0]
  /\ th = [p \in Procs |-> [pc |-> "forkret", trap |-> "no", i |-> 1, arg |-> 0,
                            intena |-> FALSE]]
  /\ panic = FALSE

-----------------------------------------------------------------------------
(* scheduler(): one iteration of the scan over the table *)
SchedScan(c) ==
  /\ cpu[c].at = "scan" /\ cpu[c].i \in Procs /\ plock[cpu[c].i] = 0 /\ ~panic
  /\ LET p == cpu[c].i IN
     IF state[p] = "RUNNABLE"
     THEN /\ plock' = [plock EXCEPT ![p] = c]
          /\ state' = [state EXCEPT ![p] = "RUNNING"]
          /\ cpu' = [cpu EXCEPT ![c] = [PushOff(@) EXCEPT !.proc = p, !.at = "run"]]
     ELSE cpu' = [cpu EXCEPT ![c].i = p + 1] /\ UNCHANGED <<plock, state>>
  /\ UNCHANGED <<chan, killed, lockVars, th, panic>>

(* fault: the scan starts over *)
SchedBackAt(c, i) ==
  /\ cpu[c].at = "back" /\ ~panic
  /\ plock' = [plock EXCEPT ![cpu[c].proc] = 0]
  /\ cpu' = [cpu EXCEPT ![c] = [PopOff(@) EXCEPT !.proc = 0, !.at = "scan", !.i = i]]
  /\ UNCHANGED <<procVars, lockVars, th, panic>>
SchedBack_Restart(c) == SchedBackAt(c, 1)

(* back from swtch: c->proc = 0, release the lock the thread left held *)
SchedBack(c) ==
  /\ cpu[c].at = "back" /\ ~panic
  /\ plock' = [plock EXCEPT ![cpu[c].proc] = 0]
  /\ cpu' = [cpu EXCEPT ![c] = [PopOff(@) EXCEPT !.proc = 0, !.at = "scan",
                                                 !.i = cpu[c].proc + 1]]
  /\ UNCHANGED <<procVars, lockVars, th, panic>>

(* end of the scan: intr_on(), wfi if nothing ran, and around again *)
SchedLoop(c) ==
  /\ cpu[c].at = "scan" /\ cpu[c].i = NPROC + 1 /\ ~panic
  /\ cpu' = [cpu EXCEPT ![c].i = 1, ![c].intr = TRUE]
  /\ UNCHANGED <<procVars, plock, lockVars, th, panic>>

(* a new thread starts in forkret(): release p->lock *)
forkret(c, p) ==
  /\ At(c, p, "forkret")
  /\ plock' = [plock EXCEPT ![p] = 0]
  /\ cpu' = [cpu EXCEPT ![c] = PopOff(@)]
  /\ Goto(p, "return")
  /\ UNCHANGED <<procVars, lockVars, panic>>

(* intr_off(), and sret to user space with interrupts on *)
usertrapret(c, p) ==
  /\ At(c, p, "return")
  /\ cpu' = [cpu EXCEPT ![c].intr = TRUE]
  /\ Goto(p, "user")
  /\ UNCHANGED <<procVars, plock, lockVars, panic>>

(* if(killed(p)) exit(-1) at the end of usertrap() *)
CheckKilled(c, p) ==
  /\ At(c, p, "check") /\ plock[p] = 0
  /\ Goto(p, IF killed[p] THEN "exit" ELSE "return")
  /\ UNCHANGED <<cpu, procVars, plock, lockVars, panic>>

(* the end of exit(): acquire p->lock, become a ZOMBIE, sched() *)
exit(c, p) ==
  /\ At(c, p, "exit") /\ plock[p] = 0
  /\ plock' = [plock EXCEPT ![p] = c]
  /\ state' = [state EXCEPT ![p] = "ZOMBIE"]
  /\ cpu' = [cpu EXCEPT ![c] = [PushOff(@) EXCEPT !.at = "back"]]
  /\ sched(c, p, th[p])
  /\ UNCHANGED <<chan, killed, lockVars>>

(* a system call: the trap turned interrupts off, usertrap() leaves them off *)
Syscall(c, p, l, arg) ==
  /\ At(c, p, "user") /\ plock[p] = 0
  /\ cpu' = [cpu EXCEPT ![c].intr = FALSE]
  /\ th' = [th EXCEPT ![p].pc = IF killed[p] THEN "exit" ELSE l,
                      ![p].arg = IF killed[p] THEN 0 ELSE arg]
  /\ UNCHANGED <<procVars, plock, lockVars, panic>>

-----------------------------------------------------------------------------
(* a timer interrupt, in user mode or in the kernel: usertrap() and           *)
(* kerneltrap() run with interrupts off and call yield(); usertrap() first *)
(* looks at p->killed *)
TimerTrap(c, p) ==
  /\ Runs(c, p) /\ th[p].trap = "no" /\ cpu[c].intr /\ ~panic
  /\ cpu' = [cpu EXCEPT ![c].intr = FALSE]
  /\ IF th[p].pc = "user" /\ killed[p] THEN Goto(p, "exit")
     ELSE th' = [th EXCEPT ![p].trap = "yield"]
  /\ UNCHANGED <<procVars, plock, lockVars, panic>>

(* fault: yield() leaves the process RUNNING *)
yield_StillRunning(c, p) ==
  /\ Runs(c, p) /\ th[p].trap = "yield" /\ plock[p] = 0 /\ ~panic
  /\ plock' = [plock EXCEPT ![p] = c]
  /\ cpu' = [cpu EXCEPT ![c] = [PushOff(@) EXCEPT !.at = "back"]]
  /\ UNCHANGED state
  /\ sched(c, p, [th[p] EXCEPT !.trap = "resched"])
  /\ UNCHANGED <<chan, killed, lockVars>>

yield(c, p) ==
  /\ Runs(c, p) /\ th[p].trap = "yield" /\ plock[p] = 0 /\ ~panic
  /\ plock' = [plock EXCEPT ![p] = c]
  /\ state' = [state EXCEPT ![p] = "RUNNABLE"]
  /\ cpu' = [cpu EXCEPT ![c] = [PushOff(@) EXCEPT !.at = "back"]]
  /\ sched(c, p, [th[p] EXCEPT !.trap = "resched"])
  /\ UNCHANGED <<chan, killed, lockVars>>

(* sched() returns in yield(): restore intena, release p->lock *)
YieldReturn(c, p) ==
  /\ Runs(c, p) /\ th[p].trap = "resched" /\ ~panic
  /\ plock' = [plock EXCEPT ![p] = 0]
  /\ cpu' = [cpu EXCEPT ![c] = PopOff([@ EXCEPT !.intena = th[p].intena])]
  /\ th' = [th EXCEPT ![p].trap = "ret"]
  /\ UNCHANGED <<procVars, lockVars, panic>>

(* the trap returns: sret restores the enable bit, which was on *)
TrapReturn(c, p) ==
  /\ Runs(c, p) /\ th[p].trap = "ret" /\ ~panic
  /\ cpu' = [cpu EXCEPT ![c].intr = TRUE]
  /\ th' = [th EXCEPT ![p].trap = "no"]
  /\ UNCHANGED <<procVars, plock, lockVars, panic>>

-----------------------------------------------------------------------------

(* acquire(&lk->lk) in acquiresleep(), and the one at the end of sleep() *)
AcquireLk(c, p) ==
  /\ At(c, p, "acquire") /\ lk[th[p].arg] = 0
  /\ lk' = [lk EXCEPT ![th[p].arg] = c]
  /\ cpu' = [cpu EXCEPT ![c] = PushOff(@)]
  /\ Goto(p, "test")
  /\ UNCHANGED <<procVars, plock, locked, lpid, panic>>

(* while(lk->locked): take the lock, or go to sleep *)
TestLocked(c, p) ==
  /\ At(c, p, "test")
  /\ LET l == th[p].arg IN
     IF locked[l]
     THEN Goto(p, "sleep") /\ UNCHANGED <<cpu, lockVars>>
     ELSE /\ locked' = [locked EXCEPT ![l] = TRUE] /\ lpid' = [lpid EXCEPT ![l] = p]
          /\ lk' = [lk EXCEPT ![l] = 0] /\ cpu' = [cpu EXCEPT ![c] = PopOff(@)]
          /\ Goto(p, "held")
  /\ UNCHANGED <<procVars, plock, panic>>

(* sleep(): acquire(&p->lock) *)
SleepAcquire(c, p) ==
  /\ At(c, p, "sleep") /\ plock[p] = 0
  /\ plock' = [plock EXCEPT ![p] = c]
  /\ cpu' = [cpu EXCEPT ![c] = PushOff(@)]
  /\ Goto(p, "release")
  /\ UNCHANGED <<procVars, lockVars, panic>>

(* sleep(): release(lk) *)
SleepRelease(c, p) ==
  /\ At(c, p, "release")
  /\ lk' = [lk EXCEPT ![th[p].arg] = 0]
  /\ cpu' = [cpu EXCEPT ![c] = PopOff(@)]
  /\ Goto(p, "sched")
  /\ UNCHANGED <<procVars, plock, locked, lpid, panic>>

(* sleep(): p->chan = chan, p->state = SLEEPING, sched() *)
SleepSched(c, p) ==
  /\ At(c, p, "sched")
  /\ chan' = [chan EXCEPT ![p] = th[p].arg]
  /\ state' = [state EXCEPT ![p] = "SLEEPING"]
  /\ cpu' = [cpu EXCEPT ![c].at = "back"]
  /\ UNCHANGED plock
  /\ sched(c, p, [th[p] EXCEPT !.pc = "slept"])
  /\ UNCHANGED <<killed, lockVars>>

(* sched() returns in sleep(): p->chan = 0, release(&p->lock) *)
SleepReturn(c, p) ==
  /\ At(c, p, "slept")
  /\ chan' = [chan EXCEPT ![p] = 0]
  /\ plock' = [plock EXCEPT ![p] = 0]
  /\ cpu' = [cpu EXCEPT ![c] = PopOff([@ EXCEPT !.intena = th[p].intena])]
  /\ Goto(p, "acquire")
  /\ UNCHANGED <<state, killed, lockVars, panic>>

(* releasesleep(): acquire(&lk->lk), lk->locked = 0, lk->pid = 0 *)
releasesleep(c, p) ==
  /\ At(c, p, "held") /\ lk[th[p].arg] = 0
  /\ lk' = [lk EXCEPT ![th[p].arg] = c]
  /\ cpu' = [cpu EXCEPT ![c] = PushOff(@)]
  /\ locked' = [locked EXCEPT ![th[p].arg] = FALSE]
  /\ lpid' = [lpid EXCEPT ![th[p].arg] = 0]
  /\ th' = [th EXCEPT ![p].pc = "wakeup", ![p].i = 1]
  /\ UNCHANGED <<procVars, plock, panic>>

(* fault: an entry whose p->lock is taken is passed over *)
wakeup_TryLock(c, p) ==
  /\ At(c, p, "wakeup") /\ th[p].i \in Procs
  /\ LET q == th[p].i IN
     state' = [state EXCEPT ![q] = IF /\ q # p /\ plock[q] = 0
                                      /\ @ = "SLEEPING" /\ chan[q] = th[p].arg
                                   THEN "RUNNABLE" ELSE @]
  /\ th' = [th EXCEPT ![p].i = @ + 1]
  /\ UNCHANGED <<cpu, chan, killed, plock, lockVars, panic>>

(* fault: the scan over the table stops one entry early *)
wakeup_Short(c, p) ==
  /\ At(c, p, "wakeup") /\ th[p].i \in Procs
  /\ th' = [th EXCEPT ![p].i = @ + 1]
  /\ LET q == th[p].i IN
     /\ q # p => plock[q] = 0
     /\ state' = [state EXCEPT ![q] = IF /\ q \notin {p, NPROC}
                                         /\ @ = "SLEEPING" /\ chan[q] = th[p].arg
                                      THEN "RUNNABLE" ELSE @]
  /\ UNCHANGED <<cpu, chan, killed, plock, lockVars, panic>>

(* wakeup(chan): one entry of the table, under its p->lock *)
wakeup(c, p) ==
  /\ At(c, p, "wakeup") /\ th[p].i \in Procs
  /\ LET q == th[p].i IN
     /\ q # p => plock[q] = 0
     /\ state' = [state EXCEPT ![q] = IF q # p /\ @ = "SLEEPING" /\ chan[q] = th[p].arg
                                      THEN "RUNNABLE" ELSE @]
  /\ th' = [th EXCEPT ![p].i = @ + 1]
  /\ UNCHANGED <<cpu, chan, killed, plock, lockVars, panic>>

(* the loop is over: release(&lk->lk) *)
WakeupDone(c, p) ==
  /\ At(c, p, "wakeup") /\ th[p].i = NPROC + 1
  /\ lk' = [lk EXCEPT ![th[p].arg] = 0]
  /\ cpu' = [cpu EXCEPT ![c] = PopOff(@)]
  /\ th' = [th EXCEPT ![p].pc = "check", ![p].arg = 0, ![p].i = 1]
  /\ UNCHANGED <<procVars, plock, locked, lpid, panic>>

(* kill(pid): scan for the entry that has the pid; a sleeper is made runnable *)
kill(c, p) ==
  /\ At(c, p, "kill") /\ plock[th[p].i] = 0
  /\ IF th[p].i = th[p].arg
     THEN /\ killed' = [killed EXCEPT ![th[p].i] = TRUE]
          /\ state' = [state EXCEPT ![th[p].i] = IF @ = "SLEEPING" THEN "RUNNABLE" ELSE @]
          /\ th' = [th EXCEPT ![p].pc = "check", ![p].arg = 0, ![p].i = 1]
     ELSE th' = [th EXCEPT ![p].i = @ + 1] /\ UNCHANGED <<killed, state>>
  /\ UNCHANGED <<cpu, chan, plock, lockVars, panic>>

-----------------------------------------------------------------------------
SchedStep(c) == SchedScan(c) \/ SchedBack(c) \/ SchedLoop(c)

(* the rest of a timer interrupt, once it has been taken *)
TrapStep(c, p) == yield(c, p) \/ YieldReturn(c, p) \/ TrapReturn(c, p)

(* what a thread does in the kernel without being asked again *)
Thread(c, p) ==
  \/ forkret(c, p) \/ usertrapret(c, p) \/ CheckKilled(c, p) \/ exit(c, p)
  \/ AcquireLk(c, p) \/ TestLocked(c, p)
  \/ SleepAcquire(c, p) \/ SleepRelease(c, p) \/ SleepSched(c, p) \/ SleepReturn(c, p)
  \/ releasesleep(c, p) \/ wakeup(c, p) \/ WakeupDone(c, p) \/ kill(c, p)

Next ==
  \E c \in CPUs :
     \/ SchedStep(c)
     \/ \E p \in Procs :
          \/ Thread(c, p) \/ TrapStep(c, p) \/ TimerTrap(c, p)
          \/ \E l \in Locks : Syscall(c, p, "acquire", l)
          \/ \E q \in Victims : Syscall(c, p, "kill", q)

(* Every hart keeps executing and a thread that runs makes headway between  *)
(* timer interrupts; a spin lock that is free again and again is won some   *)
(* day; the holder of a sleep lock releases it; timer interrupts keep       *)
(* coming. *)
Fairness ==
  /\ \A c \in CPUs : SF_vars(SchedStep(c))
  /\ \A p \in Procs : SF_vars(\E c \in CPUs : Thread(c, p))
  /\ \A p \in Procs : SF_vars(\E c \in CPUs : TrapStep(c, p))
  /\ \A p \in Procs : SF_vars(\E c \in CPUs : TimerTrap(c, p))

Spec == Init /\ [][Next]_vars
FairSpec == Spec /\ Fairness

-----------------------------------------------------------------------------

(* None of the panics of sched() is reached. *)
NoPanic == ~panic

(* With p->lock free, a process is RUNNING exactly when one hart has it as  *)
(* its c->proc, and no two harts ever run the same kernel stack.            *)
OneHartPerProcess ==
  /\ \A c, d \in CPUs : c # d /\ cpu[c].proc # 0 => cpu[c].proc # cpu[d].proc
  /\ \A p \in Procs : plock[p] = 0 =>
       (state[p] = "RUNNING" <=> \E c \in CPUs : Runs(c, p))

(* intena belongs to the thread: a thread inside a system call or a trap    *)
(* that holds no spin lock has interrupts off, as the trap left them, even  *)
(* when it went to sleep on one hart and came back on another; user code    *)
(* has them on.                                                             *)
InterruptsFollowThread ==
  \A c \in CPUs, p \in Procs :
    Runs(c, p) /\ cpu[c].noff = 0 =>
      /\ cpu[c].intr => th[p].trap = "no" /\ th[p].pc \in {"user", "return"}
      /\ th[p].trap = "no" /\ th[p].pc = "user" => cpu[c].intr

(* Every sleeper leaves sleep(): no wakeup is lost between the test of      *)
(* lk->locked and SLEEPING. *)
SleeperWakes ==
  \A p \in Procs : state[p] = "SLEEPING" ~> state[p] # "SLEEPING"

(* A runnable process is run by some hart. *)
RunnableRuns ==
  \A p \in Procs : state[p] = "RUNNABLE" ~> state[p] = "RUNNING"

-----------------------------------------------------------------------------
(* The monitor the callers of sleep() and wakeup() rely on: a thread that   *)
(* sleeps or is about to (it has released lk, and holds its p->lock) waits. *)
Monitor == INSTANCE SleepMonitor WITH
  owner <- [l \in Locks |-> IF lk[l] = 0 THEN 0 ELSE cpu[lk[l]].proc],
  holder <- lpid,
  waiting <- [l \in Locks |-> {p \in Procs : \/ state[p] = "SLEEPING" /\ chan[p] = l
                                             \/ th[p].pc = "sched" /\ th[p].arg = l}]

(* sleep() is atomic for its callers: releasing lk and joining the waiters  *)
(* is one step, a sleep lock has one holder, and the thread that frees it   *)
(* leaves only when every waiter has been woken. *)
RefinesMonitor == Monitor!Spec
=============================================================================
