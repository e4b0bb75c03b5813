---------------------------- MODULE Sched_proofs ----------------------------
(***************************************************************************)
(* For any number of processes, harts and sleep locks: Sched implements    *)
(* SleepMonitor, and its safety properties hold.  The inductive invariant  *)
(* says, for each place in the code, which locks the thread has, what noff *)
(* and the interrupt flags of its hart are, and what it knows of the sleep *)
(* lock it is about.                                                       *)
(***************************************************************************)
EXTENDS Sched, Integers, TLAPS

PCs == {"forkret", "return", "user", "check", "exit", "acquire", "test", "sleep", "release",
        "sched", "slept", "held", "wakeup", "kill"}
\* Where interrupts can be on; where lk is held; what else is about a sleep lock.
Open == {"return", "user"}
InMonitor == {"test", "sleep", "release", "wakeup"}
OnLock == InMonitor \cup {"acquire", "sched", "slept", "held"}

Cpu == [at : {"scan", "run", "back"}, i : 1..NPROC + 1, proc : 0..NPROC,
        intr : BOOLEAN, noff : Int, intena : BOOLEAN]
Th == [pc : PCs, trap : {"no", "yield", "resched", "ret"}, i : 1..NPROC + 1,
       arg : Locks \cup 0..NPROC, intena : BOOLEAN]
Types ==
  /\ cpu \in [CPUs -> Cpu] /\ th \in [Procs -> Th]
  /\ state \in [Procs -> {"RUNNABLE", "RUNNING", "SLEEPING", "ZOMBIE"}]
  /\ chan \in [Procs -> Locks \cup {0}] /\ killed \in [Procs -> BOOLEAN]
  /\ plock \in [Procs -> CPUs \cup {0}] /\ lk \in [Locks -> CPUs \cup {0}]
  /\ locked \in [Locks -> BOOLEAN] /\ lpid \in [Locks -> 0..NPROC]
  /\ panic = FALSE

WaitsOn(q, l) == (state[q] = "SLEEPING" /\ chan[q] = l) \/ (th[q].pc = "sched" /\ th[q].arg = l)

\* The thread has its own p->lock, taken by itself or by the scheduler for it.
Locked(x) == x.trap = "resched" \/ (x.trap = "no" /\ x.pc \in {"forkret", "release", "sched", "slept"})
\* The spin locks of a running thread.
Depth(x) == (IF Locked(x) THEN 1 ELSE 0) + (IF x.pc \in InMonitor THEN 1 ELSE 0)
\* Where a thread that does not run continues.
Parked(p) == \/ state[p] = "ZOMBIE" /\ th[p].pc = "exit" /\ th[p].trap = "no"
             \/ th[p].trap = "resched" /\ state[p] = "RUNNABLE"
             \/ th[p].trap = "no" /\ th[p].pc = "forkret" /\ state[p] = "RUNNABLE"
             \/ th[p].trap = "no" /\ th[p].pc = "slept" /\ state[p] \in {"RUNNABLE", "SLEEPING"}

\* A thread's place and its locals.
PlaceOK(p) ==
  /\ th[p].trap # "no" => th[p].pc \in Open
  /\ Locked(th[p]) /\ th[p].pc \in Open \cup {"slept"} => ~th[p].intena
  /\ th[p].pc \in OnLock => th[p].arg \in Locks
  /\ th[p].pc = "kill" => th[p].arg \in Procs /\ th[p].i <= th[p].arg
  /\ th[p].pc \notin {"kill", "wakeup"} => th[p].i = 1

\* A thread and the process table.
ProcOK(p) ==
  /\ state[p] = "SLEEPING" => th[p].pc = "slept" /\ th[p].trap = "no" /\ chan[p] = th[p].arg
  /\ (\A c \in CPUs : cpu[c].proc # p) => plock[p] = 0 /\ Parked(p)
  /\ \A c \in CPUs : plock[p] = c => cpu[c].proc = p

\* A thread and the sleep lock it is about.
LockOK(p) ==
  /\ th[p].pc \in InMonitor => lk[th[p].arg] \in CPUs /\ cpu[lk[th[p].arg]].proc = p
  /\ th[p].pc \in {"sleep", "release"} => locked[th[p].arg]
  /\ th[p].pc = "held" => lpid[th[p].arg] = p
  /\ th[p].pc = "wakeup" => /\ ~locked[th[p].arg]
                            /\ \A q \in Procs : q < th[p].i => ~WaitsOn(q, th[p].arg)

\* A hart and the thread on it.
HartOK(c) ==
  LET p == cpu[c].proc
      x == th[p]
  IN
  /\ cpu[c].at = "scan" => p = 0 /\ cpu[c].noff = 0
  /\ cpu[c].at # "scan" => p \in Procs
  /\ cpu[c].at = "back" => cpu[c].noff = 1 /\ ~cpu[c].intr /\ plock[p] = c /\ Parked(p)
  /\ cpu[c].at = "run" =>
       /\ state[p] = "RUNNING" /\ cpu[c].noff = Depth(x)
       /\ plock[p] = (IF Locked(x) THEN c ELSE 0)
       /\ cpu[c].intr => x.trap = "no" /\ x.pc \in Open
       /\ x.trap = "no" /\ x.pc = "user" => cpu[c].intr
       /\ x.pc \in InMonitor \cup {"sched"} => ~cpu[c].intena

\* The monitor locks and the words they protect.
WordsOK ==
  /\ \A l \in Locks : locked[l] <=> lpid[l] # 0
  /\ \A l \in Locks, c \in CPUs : lk[l] = c =>
       /\ cpu[c].at = "run"
       /\ th[cpu[c].proc].pc \in InMonitor /\ th[cpu[c].proc].arg = l
  /\ \A c, d \in CPUs : cpu[c].proc = cpu[d].proc /\ cpu[c].proc # 0 => c = d

SchedInv ==
  /\ Types
  /\ \A p \in Procs : PlaceOK(p) /\ ProcOK(p) /\ LockOK(p)
  /\ \A c \in CPUs : HartOK(c)
  /\ WordsOK

-----------------------------------------------------------------------------
\* acquire() and release() of a spin lock, as the hart's record sees them.
LEMMA PushOffOK ==
  ASSUME NEW r \in Cpu
  PROVE  /\ PushOff(r) \in Cpu /\ ~PushOff(r).intr /\ PushOff(r).noff = r.noff + 1
         /\ PushOff(r).at = r.at /\ PushOff(r).proc = r.proc /\ PushOff(r).i = r.i
         /\ PushOff(r).intena = IF r.noff = 0 THEN r.intr ELSE r.intena
<1> DEFINE b == IF r.noff = 0 THEN r.intr ELSE r.intena
<1>1. b \in BOOLEAN /\ r.noff + 1 \in Int
  BY DEF Cpu
<1>2. PushOff(r) = [r EXCEPT !.intena = b, !.intr = FALSE, !.noff = r.noff + 1]
  BY Zenon DEF PushOff, Cpu
<1> HIDE DEF b
<1>3. PushOff(r) \in Cpu /\ ~PushOff(r).intr /\ PushOff(r).noff = r.noff + 1 /\ PushOff(r).intena = b
      /\ PushOff(r).at = r.at /\ PushOff(r).proc = r.proc /\ PushOff(r).i = r.i
  BY Zenon, <1>1, <1>2 DEF Cpu
<1> QED BY Zenon, <1>3 DEF b

LEMMA PopOffOK ==
  ASSUME NEW r \in Cpu
  PROVE  /\ PopOff(r) \in Cpu /\ PopOff(r).noff = r.noff - 1
         /\ PopOff(r).intr = (r.noff = 1 /\ r.intena)
         /\ PopOff(r).at = r.at /\ PopOff(r).proc = r.proc /\ PopOff(r).i = r.i
         /\ PopOff(r).intena = r.intena
<1> DEFINE b == (r.noff = 1 /\ r.intena)
<1>1. b \in BOOLEAN /\ r.noff - 1 \in Int
  BY DEF Cpu
<1>2. PopOff(r) = [r EXCEPT !.noff = r.noff - 1, !.intr = b]
  BY Zenon DEF PopOff, Cpu
<1> HIDE DEF b
<1>3. PopOff(r) \in Cpu /\ PopOff(r).intr = b /\ PopOff(r).noff = r.noff - 1 /\ PopOff(r).intena = r.intena
      /\ PopOff(r).at = r.at /\ PopOff(r).proc = r.proc /\ PopOff(r).i = r.i
  BY Zenon, <1>1, <1>2 DEF Cpu
<1> QED BY Zenon, <1>3 DEF b

LEMMA IntrOK ==
  ASSUME NEW r \in Cpu, NEW b \in BOOLEAN
  PROVE  LET s == [r EXCEPT !.intr = b]
         IN  s \in Cpu /\ s.intr = b /\ s.noff = r.noff /\ s.at = r.at /\ s.proc = r.proc
BY Zenon DEF Cpu

\* The scheduler's record of the hart: with p->lock taken and p switched to, and with
\* p->lock given back and the scan resumed.
LEMMA SwitchToOK ==
  ASSUME NEW r \in Cpu, NEW q \in 0..NPROC, r.noff = 0
  PROVE  LET s == [PushOff(r) EXCEPT !.proc = q, !.at = "run"]
         IN  s \in Cpu /\ s.at = "run" /\ s.proc = q /\ s.noff = 1 /\ ~s.intr
<1>1. ASSUME NEW t \in Cpu
      PROVE  LET s == [t EXCEPT !.proc = q, !.at = "run"]
             IN  s \in Cpu /\ s.at = "run" /\ s.proc = q /\ s.noff = t.noff /\ s.intr = t.intr
  BY Zenon DEF Cpu
<1>2. PushOff(r) \in Cpu /\ PushOff(r).noff = 1 /\ ~PushOff(r).intr
  BY PushOffOK
<1> QED BY Zenon, <1>1, <1>2, Zenon

LEMMA SwitchBackOK ==
  ASSUME NEW r \in Cpu, NEW i \in 1..NPROC + 1, r.noff = 1
  PROVE  LET s == [PopOff(r) EXCEPT !.proc = 0, !.at = "scan", !.i = i]
         IN  s \in Cpu /\ s.at = "scan" /\ s.proc = 0 /\ s.noff = 0
<1>0. 0 \in 0..NPROC
  BY TableAssumption
<1>1. ASSUME NEW t \in Cpu
      PROVE  LET s == [t EXCEPT !.proc = 0, !.at = "scan", !.i = i]
             IN  s \in Cpu /\ s.at = "scan" /\ s.proc = 0 /\ s.noff = t.noff
  BY Zenon, <1>0 DEF Cpu
<1>2. PopOff(r) \in Cpu /\ PopOff(r).noff = 0
  BY PopOffOK
<1> QED BY Zenon, <1>1, <1>2, Zenon

\* What a step of the thread of p on hart c leaves alone.
Frame(c, p) ==
  /\ \A d \in CPUs : d # c => cpu'[d] = cpu[d]
  /\ cpu'[c].proc = p
  /\ \A q \in Procs : q # p => /\ th'[q] = th[q] /\ plock'[q] = plock[q]
                               /\ state'[q] = state[q] /\ chan'[q] = chan[q]

\* A hart that keeps its record, and whose thread keeps its own.
LEMMA HartSame ==
  ASSUME NEW d \in CPUs, HartOK(d), cpu'[d] = cpu[d],
         \A q \in Procs : q = cpu[d].proc => th'[q] = th[q] /\ plock'[q] = plock[q] /\ state'[q] = state[q]
  PROVE  HartOK(d)'
<1>1. CASE cpu[d].at = "scan"
  BY Zenon, <1>1 DEF HartOK
<1>2. CASE cpu[d].at # "scan"
  <2>1. PICK q \in Procs : q = cpu[d].proc
    BY Zenon, <1>2 DEF HartOK
  <2>2. th'[q] = th[q] /\ plock'[q] = plock[q] /\ state'[q] = state[q]
    BY Zenon, <2>1
  <2> QED BY <1>2, <2>1, <2>2 DEF HartOK, Parked
<1> QED BY Zenon, <1>1, <1>2

\* The other harts and the other threads do not notice such a step.
LEMMA LocalStep ==
  ASSUME NEW c \in CPUs, NEW p \in Procs, SchedInv, cpu[c].proc = p, Frame(c, p),
         Types', HartOK(c)', PlaceOK(p)', plock'[p] \in {0, c},
         state'[p] = "SLEEPING" => th'[p].pc = "slept" /\ th'[p].trap = "no" /\ chan'[p] = th'[p].arg,
         \A q \in Procs : LockOK(q)', WordsOK'
  PROVE  SchedInv'
<1> USE TableAssumption DEF Procs
<1>0. /\ Types /\ WordsOK /\ (\A d \in CPUs : HartOK(d))
      /\ \A q \in Procs : PlaceOK(q) /\ ProcOK(q) /\ LockOK(q)
  BY Zenon DEF SchedInv
<1>1. \A d \in CPUs : d # c => cpu[d].proc # p
  BY <1>0 DEF WordsOK
<1>2. ASSUME NEW d \in CPUs, d # c PROVE HartOK(d)'
  <2>1. cpu'[d] = cpu[d] /\ HartOK(d) /\ cpu[d].proc # p
    BY Zenon, <1>0, <1>1, <1>2 DEF Frame
  <2>2. \A q \in Procs : q = cpu[d].proc => th'[q] = th[q] /\ plock'[q] = plock[q] /\ state'[q] = state[q]
    BY Zenon, <2>1 DEF Frame
  <2> QED BY Zenon, <2>1, <2>2, HartSame
<1>3. ASSUME NEW q \in Procs, q # p PROVE PlaceOK(q)' /\ ProcOK(q)'
  <2>1. th'[q] = th[q] /\ plock'[q] = plock[q] /\ state'[q] = state[q] /\ chan'[q] = chan[q]
    BY Zenon, <1>3 DEF Frame
  <2>2. \A d \in CPUs : cpu'[d].proc = cpu[d].proc
    BY Zenon DEF Frame
  <2> QED BY <1>0, <2>1, <2>2 DEF PlaceOK, ProcOK, Parked
<1>4. ProcOK(p)'
  BY <1>0 DEF ProcOK, Frame, Types
<1> QED BY Zenon, <1>0, <1>2, <1>3, <1>4 DEF SchedInv

\* Such a step that leaves the sleep locks alone, does not begin to wait and does not
\* leave the monitor.
LEMMA OutsideMonitor ==
  ASSUME NEW c \in CPUs, NEW p \in Procs, SchedInv, cpu[c].proc = p, Frame(c, p),
         Types', UNCHANGED <<lk, locked, lpid>>, LockOK(p)',
         th[p].pc \in InMonitor =>
           cpu'[c].at = "run" /\ th'[p].pc \in InMonitor /\ th'[p].arg = th[p].arg,
         \A l \in Locks : WaitsOn(p, l)' => WaitsOn(p, l)
  PROVE  (\A q \in Procs : LockOK(q)') /\ WordsOK'
<1> USE TableAssumption DEF Procs
<1>0. /\ Types /\ WordsOK /\ (\A d \in CPUs : HartOK(d))
      /\ \A q \in Procs : PlaceOK(q) /\ ProcOK(q) /\ LockOK(q)
  BY Zenon DEF SchedInv
<1>1. \A d \in CPUs : cpu'[d].proc = cpu[d].proc
  BY Zenon DEF Frame
<1>2. ASSUME NEW q \in Procs, q # p PROVE LockOK(q)'
  <2>1. th'[q] = th[q]
    BY Zenon, <1>2 DEF Frame
  <2>2. \A r \in Procs, l \in Locks : WaitsOn(r, l)' => WaitsOn(r, l)
    BY DEF Frame, WaitsOn
  <2>3. th[q].pc = "wakeup" => th[q].arg \in Locks
    BY Zenon, <1>0 DEF PlaceOK, OnLock, InMonitor
  <2>4. th[q].pc \in InMonitor => lk'[th[q].arg] \in CPUs /\ cpu'[lk'[th[q].arg]].proc = q
    BY <1>0, <1>1 DEF LockOK
  <2> QED BY <1>0, <2>1, <2>2, <2>3, <2>4 DEF LockOK
<1>3. WordsOK'
  <2>1. ASSUME NEW l \in Locks, NEW d \in CPUs, lk[l] = d
        PROVE  cpu'[d].at = "run" /\ th'[cpu'[d].proc].pc \in InMonitor /\ th'[cpu'[d].proc].arg = l
    <3>1. cpu[d].at = "run" /\ th[cpu[d].proc].pc \in InMonitor /\ th[cpu[d].proc].arg = l
      BY Zenon, <1>0, <2>1 DEF WordsOK
    <3>2. CASE d = c
      BY Zenon, <3>1, <3>2, <1>1
    <3>3. CASE d # c
      <4>1. cpu[d].proc \in Procs /\ cpu[d].proc # p
        BY <1>0, <3>1, <3>3 DEF HartOK, WordsOK
      <4> QED BY <3>1, <3>3, <4>1 DEF Frame
    <3> QED BY Zenon, <3>2, <3>3
  <2> QED BY <1>0, <1>1, <2>1 DEF WordsOK
<1> QED BY Zenon, <1>2, <1>3

\* What the invariant says of a thread that runs.
LEMMA Running ==
  ASSUME NEW c \in CPUs, NEW p \in Procs, SchedInv, Runs(c, p)
  PROVE  /\ Types /\ cpu[c] \in Cpu /\ th[p] \in Th /\ cpu[c].at = "run" /\ cpu[c].proc = p
         /\ HartOK(c) /\ PlaceOK(p) /\ ProcOK(p) /\ LockOK(p) /\ WordsOK
         /\ state[p] = "RUNNING" /\ cpu[c].noff = Depth(th[p])
         /\ plock[p] = (IF Locked(th[p]) THEN c ELSE 0)
         /\ cpu[c].intr => th[p].trap = "no" /\ th[p].pc \in Open
BY Zenon DEF SchedInv, Types, Runs, HartOK

\* forkret() gives back the p->lock that scheduler() took.
LEMMA forkretStep ==
  ASSUME NEW c \in CPUs, NEW p \in Procs, SchedInv, forkret(c, p)
  PROVE  SchedInv'
<1> DEFINE r == PopOff(cpu[c])
           x == [th[p] EXCEPT !.pc = "return"]
<1> USE TableAssumption DEF Procs
<1>1. /\ Runs(c, p) /\ th[p].pc = "forkret" /\ th[p].trap = "no"
      /\ Types /\ cpu[c] \in Cpu /\ th[p] \in Th /\ HartOK(c) /\ PlaceOK(p) /\ ProcOK(p) /\ LockOK(p)
  BY Running DEF forkret, At, PlaceOK
<1>2. /\ cpu[c].noff = 1 /\ plock[p] = (IF Locked(th[p]) THEN c ELSE 0)
      /\ state[p] = "RUNNING" /\ cpu[c].at = "run" /\ cpu[c].proc = p /\ th[p].i = 1
      /\ cpu[c].intr => th[p].trap = "no" /\ th[p].pc \in Open
  <2>1. Depth(th[p]) = 1
    BY <1>1 DEF Depth, Locked, InMonitor, Open
  <2>2. th[p].i = 1
    BY Zenon, <1>1 DEF PlaceOK
  <2>3. /\ cpu[c].noff = Depth(th[p]) /\ plock[p] = (IF Locked(th[p]) THEN c ELSE 0)
        /\ state[p] = "RUNNING" /\ cpu[c].at = "run" /\ cpu[c].proc = p
        /\ cpu[c].intr => th[p].trap = "no" /\ th[p].pc \in Open
    BY Zenon, <1>1, Running
  <2> QED BY Zenon, <2>1, <2>2, <2>3
<1>3. r \in Cpu /\ r.noff = 0 /\ r.at = "run" /\ r.proc = p
  BY <1>1, <1>2, PopOffOK DEF Cpu, Depth, Locked, PCs, Open, InMonitor, OnLock, HartOK, PlaceOK
<1>4. x \in Th /\ x.pc = "return" /\ x.trap = "no" /\ x.i = 1
  BY Zenon, <1>1, <1>2, <1>3 DEF Th, Cpu, PCs, Open, InMonitor, OnLock
<1>6. /\ cpu' = [cpu EXCEPT ![c] = r] /\ th' = [th EXCEPT ![p] = x]
      /\ plock' = [plock EXCEPT ![p] = 0] /\ state' = state /\ chan' = chan
      /\ UNCHANGED <<killed, lk, locked, lpid>>
  BY Zenon, <1>1 DEF forkret, At, Runs, Goto, procVars, lockVars, Types, Th, Cpu
<1>7. panic' = FALSE
  BY Zenon, <1>1 DEF forkret, Types
<1> HIDE DEF r, x
<1>8. Types'
  BY Zenon, <1>1, <1>3, <1>4, <1>6, <1>7 DEF Types, PlaceOK, PCs, Open, InMonitor, OnLock
<1>9. cpu'[c] = r /\ th'[p] = x /\ Frame(c, p)
  BY Zenon, <1>1, <1>3, <1>6 DEF Types, Frame
<1>10. /\ HartOK(c)' /\ PlaceOK(p)' /\ plock'[p] \in {0, c}
       /\ state'[p] = "SLEEPING" => th'[p].pc = "slept" /\ th'[p].trap = "no" /\ chan'[p] = th'[p].arg
  <2>1. Depth(x) = r.noff
    BY <1>1, <1>3, <1>4 DEF Depth, Locked, InMonitor, Open
  <2>2. HartOK(c)'
    BY Zenon, <1>1, <1>2, <1>3, <1>4, <1>6, <1>9, <2>1 DEF Types, HartOK, Locked, Open, InMonitor
  <2>3. PlaceOK(p)'
    BY Zenon, <1>1, <1>2, <1>4, <1>9 DEF PlaceOK, Locked, Open, OnLock, InMonitor
  <2> QED BY Zenon, <1>1, <1>2, <1>6, <2>2, <2>3 DEF Types
<1>11. /\ LockOK(p)' /\ \A k \in Locks : WaitsOn(p, k)' => WaitsOn(p, k)
       /\ th[p].pc \in InMonitor =>
            cpu'[c].at = "run" /\ th'[p].pc \in InMonitor /\ th'[p].arg = th[p].arg
  BY Zenon, <1>1, <1>2, <1>3, <1>4, <1>6, <1>9 DEF Types, LockOK, WaitsOn, PCs, Open, InMonitor, OnLock
<1> QED BY Zenon, <1>2, <1>6, <1>8, <1>9, <1>10, <1>11, LocalStep, OutsideMonitor

\* The return to user space turns interrupts on.
LEMMA usertrapretStep ==
  ASSUME NEW c \in CPUs, NEW p \in Procs, SchedInv, usertrapret(c, p)
  PROVE  SchedInv'
<1> DEFINE r == [cpu[c] EXCEPT !.intr = TRUE]
           x == [th[p] EXCEPT !.pc = "user"]
<1> USE TableAssumption DEF Procs
<1>1. /\ Runs(c, p) /\ th[p].pc = "return" /\ th[p].trap = "no"
      /\ Types /\ cpu[c] \in Cpu /\ th[p] \in Th /\ HartOK(c) /\ PlaceOK(p) /\ ProcOK(p) /\ LockOK(p)
  BY Running DEF usertrapret, At, PlaceOK
<1>2. /\ cpu[c].noff = 0 /\ plock[p] = (IF Locked(th[p]) THEN c ELSE 0)
      /\ state[p] = "RUNNING" /\ cpu[c].at = "run" /\ cpu[c].proc = p /\ th[p].i = 1
      /\ cpu[c].intr => th[p].trap = "no" /\ th[p].pc \in Open
  <2>1. Depth(th[p]) = 0
    BY <1>1 DEF Depth, Locked, InMonitor, Open
  <2>2. th[p].i = 1
    BY Zenon, <1>1 DEF PlaceOK
  <2>3. /\ cpu[c].noff = Depth(th[p]) /\ plock[p] = (IF Locked(th[p]) THEN c ELSE 0)
        /\ state[p] = "RUNNING" /\ cpu[c].at = "run" /\ cpu[c].proc = p
        /\ cpu[c].intr => th[p].trap = "no" /\ th[p].pc \in Open
    BY Zenon, <1>1, Running
  <2> QED BY Zenon, <2>1, <2>2, <2>3
<1>3. r \in Cpu /\ r.noff = 0 /\ r.at = "run" /\ r.proc = p /\ r.intr
  BY Zenon, <1>1, <1>2, IntrOK
<1>4. x \in Th /\ x.pc = "user" /\ x.trap = "no" /\ x.i = 1
  BY Zenon, <1>1, <1>2, <1>3 DEF Th, Cpu, PCs, Open, InMonitor, OnLock
<1>6. /\ cpu' = [cpu EXCEPT ![c] = r] /\ th' = [th EXCEPT ![p] = x]
      /\ plock' = plock /\ state' = state /\ chan' = chan
      /\ UNCHANGED <<killed, lk, locked, lpid>>
  BY Zenon, <1>1 DEF usertrapret, At, Runs, Goto, procVars, lockVars, Types, Th, Cpu
<1>7. panic' = FALSE
  BY Zenon, <1>1 DEF usertrapret, Types
<1> HIDE DEF r, x
<1>8. Types'
  BY Zenon, <1>1, <1>3, <1>4, <1>6, <1>7 DEF Types, PlaceOK, PCs, Open, InMonitor, OnLock
<1>9. cpu'[c] = r /\ th'[p] = x /\ Frame(c, p)
  BY Zenon, <1>1, <1>3, <1>6 DEF Types, Frame
<1>10. /\ HartOK(c)' /\ PlaceOK(p)' /\ plock'[p] \in {0, c}
       /\ state'[p] = "SLEEPING" => th'[p].pc = "slept" /\ th'[p].trap = "no" /\ chan'[p] = th'[p].arg
  <2>1. Depth(x) = r.noff
    BY <1>1, <1>3, <1>4 DEF Depth, Locked, InMonitor, Open
  <2>2. HartOK(c)'
    BY Zenon, <1>1, <1>2, <1>3, <1>4, <1>6, <1>9, <2>1 DEF Types, HartOK, Locked, Open, InMonitor
  <2>3. PlaceOK(p)'
    BY Zenon, <1>1, <1>2, <1>4, <1>9 DEF PlaceOK, Locked, Open, OnLock, InMonitor
  <2> QED BY Zenon, <1>1, <1>2, <1>6, <2>2, <2>3 DEF Types
<1>11. /\ LockOK(p)' /\ \A k \in Locks : WaitsOn(p, k)' => WaitsOn(p, k)
       /\ th[p].pc \in InMonitor =>
            cpu'[c].at = "run" /\ th'[p].pc \in InMonitor /\ th'[p].arg = th[p].arg
  BY Zenon, <1>1, <1>2, <1>3, <1>4, <1>6, <1>9 DEF Types, LockOK, WaitsOn, PCs, Open, InMonitor, OnLock
<1> QED BY Zenon, <1>2, <1>6, <1>8, <1>9, <1>10, <1>11, LocalStep, OutsideMonitor

\* A killed process leaves usertrap() by exit().
LEMMA CheckKilledStep ==
  ASSUME NEW c \in CPUs, NEW p \in Procs, SchedInv, CheckKilled(c, p)
  PROVE  SchedInv'
<1> DEFINE r == cpu[c]
           x == [th[p] EXCEPT !.pc = IF killed[p] THEN "exit" ELSE "return"]
<1> USE TableAssumption DEF Procs
<1>1. /\ Runs(c, p) /\ th[p].pc = "check" /\ th[p].trap = "no"
      /\ Types /\ cpu[c] \in Cpu /\ th[p] \in Th /\ HartOK(c) /\ PlaceOK(p) /\ ProcOK(p) /\ LockOK(p)
  BY Running DEF CheckKilled, At, PlaceOK
<1>2. /\ cpu[c].noff = 0 /\ plock[p] = (IF Locked(th[p]) THEN c ELSE 0)
      /\ state[p] = "RUNNING" /\ cpu[c].at = "run" /\ cpu[c].proc = p /\ th[p].i = 1
      /\ cpu[c].intr => th[p].trap = "no" /\ th[p].pc \in Open
  <2>1. Depth(th[p]) = 0
    BY <1>1 DEF Depth, Locked, InMonitor, Open
  <2>2. th[p].i = 1
    BY Zenon, <1>1 DEF PlaceOK
  <2>3. /\ cpu[c].noff = Depth(th[p]) /\ plock[p] = (IF Locked(th[p]) THEN c ELSE 0)
        /\ state[p] = "RUNNING" /\ cpu[c].at = "run" /\ cpu[c].proc = p
        /\ cpu[c].intr => th[p].trap = "no" /\ th[p].pc \in Open
    BY Zenon, <1>1, Running
  <2> QED BY Zenon, <2>1, <2>2, <2>3
<1>3. r \in Cpu /\ r.noff = 0 /\ r.at = "run" /\ r.proc = p /\ ~r.intr
  BY Zenon, <1>1, <1>2 DEF Cpu, Depth, Locked, PCs, Open, InMonitor, OnLock, HartOK, PlaceOK
<1>4. x \in Th /\ x.pc \in {"exit", "return"} /\ x.trap = "no" /\ x.i = 1
  BY Zenon, <1>1, <1>2, <1>3 DEF Th, Cpu, PCs, Open, InMonitor, OnLock
<1>6. /\ cpu' = [cpu EXCEPT ![c] = r] /\ th' = [th EXCEPT ![p] = x]
      /\ plock' = plock /\ state' = state /\ chan' = chan
      /\ UNCHANGED <<killed, lk, locked, lpid>>
  BY Zenon, <1>1 DEF CheckKilled, At, Runs, Goto, procVars, lockVars, Types, Th, Cpu
<1>7. panic' = FALSE
  BY Zenon, <1>1 DEF CheckKilled, Types
<1> HIDE DEF r, x
<1>8. Types'
  BY Zenon, <1>1, <1>3, <1>4, <1>6, <1>7 DEF Types, PlaceOK, PCs, Open, InMonitor, OnLock
<1>9. cpu'[c] = r /\ th'[p] = x /\ Frame(c, p)
  BY Zenon, <1>1, <1>3, <1>6 DEF Types, Frame
<1>10. /\ HartOK(c)' /\ PlaceOK(p)' /\ plock'[p] \in {0, c}
       /\ state'[p] = "SLEEPING" => th'[p].pc = "slept" /\ th'[p].trap = "no" /\ chan'[p] = th'[p].arg
  <2>1. Depth(x) = r.noff
    BY <1>1, <1>3, <1>4 DEF Depth, Locked, InMonitor, Open
  <2>2. HartOK(c)'
    BY Zenon, <1>1, <1>2, <1>3, <1>4, <1>6, <1>9, <2>1 DEF Types, HartOK, Locked, Open, InMonitor
  <2>3. PlaceOK(p)'
    BY Zenon, <1>1, <1>2, <1>4, <1>9 DEF PlaceOK, Locked, Open, OnLock, InMonitor
  <2> QED BY Zenon, <1>1, <1>2, <1>6, <2>2, <2>3 DEF Types
<1>11. /\ LockOK(p)' /\ \A k \in Locks : WaitsOn(p, k)' => WaitsOn(p, k)
       /\ th[p].pc \in InMonitor =>
            cpu'[c].at = "run" /\ th'[p].pc \in InMonitor /\ th'[p].arg = th[p].arg
  BY Zenon, <1>1, <1>2, <1>3, <1>4, <1>6, <1>9 DEF Types, LockOK, WaitsOn, PCs, Open, InMonitor, OnLock
<1> QED BY Zenon, <1>2, <1>6, <1>8, <1>9, <1>10, <1>11, LocalStep, OutsideMonitor

\* exit() ends in sched() with p->lock only.
LEMMA exitStep ==
  ASSUME NEW c \in CPUs, NEW p \in Procs, SchedInv, exit(c, p)
  PROVE  SchedInv'
<1> DEFINE r == [PushOff(cpu[c]) EXCEPT !.at = "back"]
           x == [th[p] EXCEPT !.intena = r.intena]
<1> USE TableAssumption DEF Procs
<1>1. /\ Runs(c, p) /\ th[p].pc = "exit" /\ th[p].trap = "no"
      /\ Types /\ cpu[c] \in Cpu /\ th[p] \in Th /\ HartOK(c) /\ PlaceOK(p) /\ ProcOK(p) /\ LockOK(p)
  BY Running DEF exit, At, PlaceOK
<1>2. /\ cpu[c].noff = 0 /\ plock[p] = (IF Locked(th[p]) THEN c ELSE 0)
      /\ state[p] = "RUNNING" /\ cpu[c].at = "run" /\ cpu[c].proc = p /\ th[p].i = 1
      /\ cpu[c].intr => th[p].trap = "no" /\ th[p].pc \in Open
  <2>1. Depth(th[p]) = 0
    BY <1>1 DEF Depth, Locked, InMonitor, Open
  <2>2. th[p].i = 1
    BY Zenon, <1>1 DEF PlaceOK
  <2>3. /\ cpu[c].noff = Depth(th[p]) /\ plock[p] = (IF Locked(th[p]) THEN c ELSE 0)
        /\ state[p] = "RUNNING" /\ cpu[c].at = "run" /\ cpu[c].proc = p
        /\ cpu[c].intr => th[p].trap = "no" /\ th[p].pc \in Open
    BY Zenon, <1>1, Running
  <2> QED BY Zenon, <2>1, <2>2, <2>3
<1>3. r \in Cpu /\ r.noff = 1 /\ r.at = "back" /\ r.proc = p /\ ~r.intr
  BY <1>1, <1>2, PushOffOK DEF Cpu, Depth, Locked, PCs, Open, InMonitor, OnLock, HartOK, PlaceOK
<1>4. x \in Th /\ x.pc = "exit" /\ x.trap = "no" /\ x.i = 1
  BY Zenon, <1>1, <1>2, <1>3 DEF Th, Cpu, PCs, Open, InMonitor, OnLock
<1>6. /\ cpu' = [cpu EXCEPT ![c] = r] /\ th' = [th EXCEPT ![p] = x]
      /\ plock' = [plock EXCEPT ![p] = c] /\ state' = [state EXCEPT ![p] = "ZOMBIE"] /\ chan' = chan
      /\ UNCHANGED <<killed, lk, locked, lpid>>
  BY Zenon, <1>1 DEF exit, At, Runs, Goto, procVars, lockVars, sched, Types, Th, Cpu
<1>7. panic' = FALSE
  <2>1. plock'[p] = c /\ cpu'[c].noff = 1 /\ state'[p] # "RUNNING" /\ ~cpu'[c].intr
    BY Zenon, <1>1, <1>2, <1>3, <1>6 DEF Types, Locked
  <2> QED BY Zenon, <2>1 DEF exit, sched
<1> HIDE DEF r, x
<1>8. Types'
  BY Zenon, <1>1, <1>3, <1>4, <1>6, <1>7 DEF Types, PlaceOK, PCs, Open, InMonitor, OnLock
<1>9. cpu'[c] = r /\ th'[p] = x /\ Frame(c, p)
  BY Zenon, <1>1, <1>3, <1>6 DEF Types, Frame
<1>10. /\ HartOK(c)' /\ PlaceOK(p)' /\ plock'[p] \in {0, c}
       /\ state'[p] = "SLEEPING" => th'[p].pc = "slept" /\ th'[p].trap = "no" /\ chan'[p] = th'[p].arg
  BY Zenon, <1>1, <1>2, <1>3, <1>4, <1>6, <1>9 DEF Types, HartOK, PlaceOK, Depth, Locked, Parked, PCs, Open, InMonitor, OnLock
<1>11. /\ LockOK(p)' /\ \A k \in Locks : WaitsOn(p, k)' => WaitsOn(p, k)
       /\ th[p].pc \in InMonitor =>
            cpu'[c].at = "run" /\ th'[p].pc \in InMonitor /\ th'[p].arg = th[p].arg
  BY Zenon, <1>1, <1>2, <1>3, <1>4, <1>6, <1>9 DEF Types, LockOK, WaitsOn, PCs, Open, InMonitor, OnLock
<1> QED BY Zenon, <1>2, <1>6, <1>8, <1>9, <1>10, <1>11, LocalStep, OutsideMonitor

\* A system call enters the kernel with interrupts off.
LEMMA SyscallStep ==
  ASSUME NEW c \in CPUs, NEW p \in Procs, NEW a, NEW l, (a = "acquire" /\ l \in Locks) \/ (a = "kill" /\ l \in Procs), SchedInv, Syscall(c, p, a, l)
  PROVE  SchedInv'
<1> DEFINE r == [cpu[c] EXCEPT !.intr = FALSE]
           x == [th[p] EXCEPT !.pc = IF killed[p] THEN "exit" ELSE a, !.arg = IF killed[p] THEN 0 ELSE l]
<1> USE TableAssumption DEF Procs
<1>1. /\ Runs(c, p) /\ th[p].pc = "user" /\ th[p].trap = "no"
      /\ Types /\ cpu[c] \in Cpu /\ th[p] \in Th /\ HartOK(c) /\ PlaceOK(p) /\ ProcOK(p) /\ LockOK(p)
  BY Running DEF Syscall, At, PlaceOK
<1>2. /\ cpu[c].noff = 0 /\ plock[p] = (IF Locked(th[p]) THEN c ELSE 0)
      /\ state[p] = "RUNNING" /\ cpu[c].at = "run" /\ cpu[c].proc = p /\ th[p].i = 1
      /\ cpu[c].intr => th[p].trap = "no" /\ th[p].pc \in Open
  <2>1. Depth(th[p]) = 0
    BY <1>1 DEF Depth, Locked, InMonitor, Open
  <2>2. th[p].i = 1
    BY Zenon, <1>1 DEF PlaceOK
  <2>3. /\ cpu[c].noff = Depth(th[p]) /\ plock[p] = (IF Locked(th[p]) THEN c ELSE 0)
        /\ state[p] = "RUNNING" /\ cpu[c].at = "run" /\ cpu[c].proc = p
        /\ cpu[c].intr => th[p].trap = "no" /\ th[p].pc \in Open
    BY ZenonT(30), <1>1, Running
  <2> QED BY Zenon, <2>1, <2>2, <2>3
<1>3. r \in Cpu /\ r.noff = 0 /\ r.at = "run" /\ r.proc = p /\ ~r.intr
  BY Zenon, <1>1, <1>2, IntrOK
<1>4. x \in Th /\ x.trap = "no" /\ x.i = 1 /\ (x.pc = "exit" \/ (x.pc = a /\ x.arg = l))
  <2>1. CASE killed[p]
    <3>1. x = [th[p] EXCEPT !.pc = "exit", !.arg = 0] /\ 0 \in 0..NPROC
      BY <2>1
    <3> QED BY Zenon, <1>1, <1>2, <3>1 DEF Th, PCs
  <2>2. CASE ~killed[p]
    <3>1. x = [th[p] EXCEPT !.pc = a, !.arg = l] /\ a \in PCs /\ l \in Locks \cup 0..NPROC
      BY <2>2 DEF PCs
    <3> QED BY Zenon, <1>1, <1>2, <3>1 DEF Th
  <2> QED BY Zenon, <2>1, <2>2
<1>6. /\ cpu' = [cpu EXCEPT ![c] = r] /\ th' = [th EXCEPT ![p] = x]
      /\ plock' = plock /\ state' = state /\ chan' = chan
      /\ UNCHANGED <<killed, lk, locked, lpid>>
  BY Zenon, <1>1 DEF Syscall, At, Runs, Goto, procVars, lockVars, Types, Th, Cpu
<1>7. panic' = FALSE
  BY Zenon, <1>1 DEF Syscall, Types
<1> HIDE DEF r, x
<1>8. Types'
  BY Zenon, <1>1, <1>3, <1>4, <1>6, <1>7 DEF Types, PlaceOK, PCs, Open, InMonitor, OnLock
<1>9. cpu'[c] = r /\ th'[p] = x /\ Frame(c, p)
  BY Zenon, <1>1, <1>3, <1>6 DEF Types, Frame
<1>10. /\ HartOK(c)' /\ PlaceOK(p)' /\ plock'[p] \in {0, c}
       /\ state'[p] = "SLEEPING" => th'[p].pc = "slept" /\ th'[p].trap = "no" /\ chan'[p] = th'[p].arg
  <2>1. Depth(x) = r.noff
    BY <1>1, <1>3, <1>4 DEF Depth, Locked, InMonitor, Open
  <2>2. HartOK(c)'
    BY Zenon, <1>1, <1>2, <1>3, <1>4, <1>6, <1>9, <2>1 DEF Types, HartOK, Locked, Open, InMonitor
  <2>3. PlaceOK(p)'
    BY <1>1, <1>2, <1>4, <1>9 DEF PlaceOK, Locked, Open, OnLock, InMonitor
  <2> QED BY Zenon, <1>1, <1>2, <1>6, <2>2, <2>3 DEF Types
<1>11. /\ LockOK(p)' /\ \A k \in Locks : WaitsOn(p, k)' => WaitsOn(p, k)
       /\ th[p].pc \in InMonitor =>
            cpu'[c].at = "run" /\ th'[p].pc \in InMonitor /\ th'[p].arg = th[p].arg
  BY Zenon, <1>1, <1>2, <1>3, <1>4, <1>6, <1>9 DEF Types, LockOK, WaitsOn, PCs, Open, InMonitor, OnLock
<1> QED BY Zenon, <1>2, <1>6, <1>8, <1>9, <1>10, <1>11, LocalStep, OutsideMonitor

\* A timer interrupt is taken outside of all spin locks.
LEMMA TimerTrapStep ==
  ASSUME NEW c \in CPUs, NEW p \in Procs, SchedInv, TimerTrap(c, p)
  PROVE  SchedInv'
<1> DEFINE r == [cpu[c] EXCEPT !.intr = FALSE]
           x == IF th[p].pc = "user" /\ killed[p] THEN [th[p] EXCEPT !.pc = "exit"] ELSE [th[p] EXCEPT !.trap = "yield"]
<1> USE TableAssumption DEF Procs
<1>1. /\ Runs(c, p) /\ th[p].pc \in Open /\ th[p].trap = "no"
      /\ Types /\ cpu[c] \in Cpu /\ th[p] \in Th /\ HartOK(c) /\ PlaceOK(p) /\ ProcOK(p) /\ LockOK(p)
  BY Zenon, Running DEF TimerTrap, At, PlaceOK
<1>2. /\ cpu[c].noff = 0 /\ plock[p] = (IF Locked(th[p]) THEN c ELSE 0)
      /\ state[p] = "RUNNING" /\ cpu[c].at = "run" /\ cpu[c].proc = p /\ th[p].i = 1
      /\ cpu[c].intr => th[p].trap = "no" /\ th[p].pc \in Open
  <2>1. Depth(th[p]) = 0
    BY <1>1 DEF Depth, Locked, InMonitor, Open
  <2> QED BY <1>1, <2>1, Running DEF PlaceOK, Open
<1>3. r \in Cpu /\ r.noff = 0 /\ r.at = "run" /\ r.proc = p /\ ~r.intr
  BY Zenon, <1>1, <1>2, IntrOK
<1>4. x \in Th /\ x.i = 1 /\ ((x.pc = "exit" /\ x.trap = "no") \/ (x.pc \in Open /\ x.trap = "yield"))
  <2>1. CASE th[p].pc = "user" /\ killed[p]
    <3> DEFINE y == [th[p] EXCEPT !.pc = "exit"]
    <3>1. y \in Th /\ y.i = 1 /\ y.pc = "exit" /\ y.trap = "no"
      BY Zenon, <1>1, <1>2 DEF Th, PCs
    <3>2. x = y
      BY Zenon, <2>1
    <3> HIDE DEF x, y
    <3> QED BY Zenon, <3>1, <3>2
  <2>2. CASE ~(th[p].pc = "user" /\ killed[p])
    BY Zenon, <1>1, <1>2, <2>2 DEF Th, PCs
  <2> QED BY Zenon, <2>1, <2>2
<1>6. /\ cpu' = [cpu EXCEPT ![c] = r] /\ th' = [th EXCEPT ![p] = x]
      /\ plock' = plock /\ state' = state /\ chan' = chan
      /\ UNCHANGED <<killed, lk, locked, lpid>>
  BY Zenon, <1>1 DEF TimerTrap, At, Runs, Goto, procVars, lockVars, Types, Th, Cpu
<1>7. panic' = FALSE
  BY Zenon, <1>1 DEF TimerTrap, Types
<1> HIDE DEF r, x
<1>8. Types'
  BY Zenon, <1>1, <1>3, <1>4, <1>6, <1>7 DEF Types, PlaceOK, PCs, Open, InMonitor, OnLock
<1>9. cpu'[c] = r /\ th'[p] = x /\ Frame(c, p)
  BY Zenon, <1>1, <1>3, <1>6 DEF Types, Frame
<1>10. /\ HartOK(c)' /\ PlaceOK(p)' /\ plock'[p] \in {0, c}
       /\ state'[p] = "SLEEPING" => th'[p].pc = "slept" /\ th'[p].trap = "no" /\ chan'[p] = th'[p].arg
  <2>1. Depth(x) = r.noff
    BY <1>1, <1>3, <1>4 DEF Depth, Locked, InMonitor, Open
  <2>2. HartOK(c)'
    BY Zenon, <1>1, <1>2, <1>3, <1>4, <1>6, <1>9, <2>1 DEF Types, HartOK, Locked, Open, InMonitor
  <2>3. PlaceOK(p)'
    BY Zenon, <1>1, <1>2, <1>4, <1>9 DEF PlaceOK, Locked, Open, OnLock, InMonitor
  <2> QED BY Zenon, <1>1, <1>2, <1>6, <2>2, <2>3 DEF Types
<1>11. /\ LockOK(p)' /\ \A k \in Locks : WaitsOn(p, k)' => WaitsOn(p, k)
       /\ th[p].pc \in InMonitor =>
            cpu'[c].at = "run" /\ th'[p].pc \in InMonitor /\ th'[p].arg = th[p].arg
  BY Zenon, <1>1, <1>2, <1>3, <1>4, <1>6, <1>9 DEF Types, LockOK, WaitsOn, PCs, Open, InMonitor, OnLock
<1> QED BY Zenon, <1>2, <1>6, <1>8, <1>9, <1>10, <1>11, LocalStep, OutsideMonitor

\* yield() calls sched() with p->lock only, and saves intena, which is off.
LEMMA yieldStep ==
  ASSUME NEW c \in CPUs, NEW p \in Procs, SchedInv, yield(c, p)
  PROVE  SchedInv'
<1> DEFINE r == [PushOff(cpu[c]) EXCEPT !.at = "back"]
           x == [th[p] EXCEPT !.trap = "resched", !.intena = r.intena]
<1> USE TableAssumption DEF Procs
<1>1. /\ Runs(c, p) /\ th[p].pc \in Open /\ th[p].trap = "yield"
      /\ Types /\ cpu[c] \in Cpu /\ th[p] \in Th /\ HartOK(c) /\ PlaceOK(p) /\ ProcOK(p) /\ LockOK(p)
  BY Zenon, Running DEF yield, At, PlaceOK
<1>2. /\ cpu[c].noff = 0 /\ plock[p] = (IF Locked(th[p]) THEN c ELSE 0)
      /\ state[p] = "RUNNING" /\ cpu[c].at = "run" /\ cpu[c].proc = p /\ th[p].i = 1
      /\ cpu[c].intr => th[p].trap = "no" /\ th[p].pc \in Open
  <2>1. Depth(th[p]) = 0
    BY <1>1 DEF Depth, Locked, InMonitor, Open
  <2>2. th[p].i = 1
    BY Zenon, <1>1 DEF PlaceOK, Open
  <2>3. /\ cpu[c].noff = Depth(th[p]) /\ plock[p] = (IF Locked(th[p]) THEN c ELSE 0)
        /\ state[p] = "RUNNING" /\ cpu[c].at = "run" /\ cpu[c].proc = p
        /\ cpu[c].intr => th[p].trap = "no" /\ th[p].pc \in Open
    BY Zenon, <1>1, Running
  <2> QED BY Zenon, <2>1, <2>2, <2>3
<1>3. r \in Cpu /\ r.noff = 1 /\ r.at = "back" /\ r.proc = p /\ ~r.intr /\ ~r.intena
  BY <1>1, <1>2, PushOffOK DEF Cpu, Depth, Locked, PCs, Open, InMonitor, OnLock, HartOK, PlaceOK
<1>4. x \in Th /\ x.pc = th[p].pc /\ x.trap = "resched" /\ x.i = 1 /\ ~x.intena
  BY Zenon, <1>1, <1>2, <1>3 DEF Th, Cpu, PCs, Open, InMonitor, OnLock
<1>6. /\ cpu' = [cpu EXCEPT ![c] = r] /\ th' = [th EXCEPT ![p] = x]
      /\ plock' = [plock EXCEPT ![p] = c] /\ state' = [state EXCEPT ![p] = "RUNNABLE"] /\ chan' = chan
      /\ UNCHANGED <<killed, lk, locked, lpid>>
  BY Zenon, <1>1 DEF yield, At, Runs, Goto, procVars, lockVars, sched, Types, Th, Cpu
<1>7. panic' = FALSE
  <2>1. plock'[p] = c /\ cpu'[c].noff = 1 /\ state'[p] # "RUNNING" /\ ~cpu'[c].intr
    BY Zenon, <1>1, <1>2, <1>3, <1>6 DEF Types, Locked
  <2> QED BY Zenon, <2>1 DEF yield, sched
<1> HIDE DEF r, x
<1>8. Types'
  BY Zenon, <1>1, <1>3, <1>4, <1>6, <1>7 DEF Types, PlaceOK, PCs, Open, InMonitor, OnLock
<1>9. cpu'[c] = r /\ th'[p] = x /\ Frame(c, p)
  BY Zenon, <1>1, <1>3, <1>6 DEF Types, Frame
<1>10. /\ HartOK(c)' /\ PlaceOK(p)' /\ plock'[p] \in {0, c}
       /\ state'[p] = "SLEEPING" => th'[p].pc = "slept" /\ th'[p].trap = "no" /\ chan'[p] = th'[p].arg
  <2>1. Depth(x) = r.noff
    BY <1>1, <1>3, <1>4 DEF Depth, Locked, InMonitor, Open
  <2>2. HartOK(c)'
    BY Zenon, <1>1, <1>2, <1>3, <1>4, <1>6, <1>9, <2>1 DEF Types, HartOK, Parked, Locked, Open, InMonitor
  <2>3. PlaceOK(p)'
    BY Zenon, <1>1, <1>2, <1>4, <1>9 DEF PlaceOK, Locked, Open, OnLock, InMonitor
  <2> QED BY Zenon, <1>1, <1>2, <1>6, <2>2, <2>3 DEF Types
<1>11. /\ LockOK(p)' /\ \A k \in Locks : WaitsOn(p, k)' => WaitsOn(p, k)
       /\ th[p].pc \in InMonitor =>
            cpu'[c].at = "run" /\ th'[p].pc \in InMonitor /\ th'[p].arg = th[p].arg
  BY Zenon, <1>1, <1>2, <1>3, <1>4, <1>6, <1>9 DEF Types, LockOK, WaitsOn, PCs, Open, InMonitor, OnLock
<1> QED BY Zenon, <1>2, <1>6, <1>8, <1>9, <1>10, <1>11, LocalStep, OutsideMonitor

\* Back from sched() in yield(), on whatever hart.
LEMMA YieldReturnStep ==
  ASSUME NEW c \in CPUs, NEW p \in Procs, SchedInv, YieldReturn(c, p)
  PROVE  SchedInv'
<1> DEFINE r == PopOff([cpu[c] EXCEPT !.intena = th[p].intena])
           x == [th[p] EXCEPT !.trap = "ret"]
<1> USE TableAssumption DEF Procs
<1>1. /\ Runs(c, p) /\ th[p].pc \in Open /\ th[p].trap = "resched"
      /\ Types /\ cpu[c] \in Cpu /\ th[p] \in Th /\ HartOK(c) /\ PlaceOK(p) /\ ProcOK(p) /\ LockOK(p)
  BY Zenon, Running DEF YieldReturn, At, PlaceOK
<1>2. /\ cpu[c].noff = 1 /\ plock[p] = (IF Locked(th[p]) THEN c ELSE 0)
      /\ state[p] = "RUNNING" /\ cpu[c].at = "run" /\ cpu[c].proc = p /\ th[p].i = 1
      /\ cpu[c].intr => th[p].trap = "no" /\ th[p].pc \in Open
  <2>1. Depth(th[p]) = 1
    BY <1>1 DEF Depth, Locked, InMonitor, Open
  <2>2. th[p].i = 1
    BY Zenon, <1>1 DEF PlaceOK, Open
  <2>3. /\ cpu[c].noff = Depth(th[p]) /\ plock[p] = (IF Locked(th[p]) THEN c ELSE 0)
        /\ state[p] = "RUNNING" /\ cpu[c].at = "run" /\ cpu[c].proc = p
        /\ cpu[c].intr => th[p].trap = "no" /\ th[p].pc \in Open
    BY Zenon, <1>1, Running
  <2> QED BY Zenon, <2>1, <2>2, <2>3
<1>5. [cpu[c] EXCEPT !.intena = th[p].intena] \in Cpu
  BY Zenon, <1>1 DEF Cpu, Th
<1>3. r \in Cpu /\ r.noff = 0 /\ r.at = "run" /\ r.proc = p /\ ~r.intr
  BY <1>1, <1>5, <1>2, PopOffOK DEF Cpu, Depth, Locked, PCs, Open, InMonitor, OnLock, HartOK, PlaceOK
<1>4. x \in Th /\ x.pc = th[p].pc /\ x.trap = "ret" /\ x.i = 1
  BY <1>1, <1>2, <1>3 DEF Th, Cpu, PCs, Open, InMonitor, OnLock
<1>6. /\ cpu' = [cpu EXCEPT ![c] = r] /\ th' = [th EXCEPT ![p] = x]
      /\ plock' = [plock EXCEPT ![p] = 0] /\ state' = state /\ chan' = chan
      /\ UNCHANGED <<killed, lk, locked, lpid>>
  BY Zenon, <1>1 DEF YieldReturn, At, Runs, Goto, procVars, lockVars, Types, Th, Cpu
<1>7. panic' = FALSE
  BY Zenon, <1>1 DEF YieldReturn, Types
<1> HIDE DEF r, x
<1>8. Types'
  BY Zenon, <1>1, <1>3, <1>4, <1>6, <1>7 DEF Types, PlaceOK, PCs, Open, InMonitor, OnLock
<1>9. cpu'[c] = r /\ th'[p] = x /\ Frame(c, p)
  BY Zenon, <1>1, <1>3, <1>6 DEF Types, Frame
<1>10. /\ HartOK(c)' /\ PlaceOK(p)' /\ plock'[p] \in {0, c}
       /\ state'[p] = "SLEEPING" => th'[p].pc = "slept" /\ th'[p].trap = "no" /\ chan'[p] = th'[p].arg
  <2>1. Depth(x) = r.noff
    BY <1>1, <1>3, <1>4 DEF Depth, Locked, InMonitor, Open
  <2>2. HartOK(c)'
    BY Zenon, <1>1, <1>2, <1>3, <1>4, <1>6, <1>9, <2>1 DEF Types, HartOK, Locked, Open, InMonitor
  <2>3. PlaceOK(p)'
    BY Zenon, <1>1, <1>2, <1>4, <1>9 DEF PlaceOK, Locked, Open, OnLock, InMonitor
  <2> QED BY Zenon, <1>1, <1>2, <1>6, <2>2, <2>3 DEF Types
<1>11. /\ LockOK(p)' /\ \A k \in Locks : WaitsOn(p, k)' => WaitsOn(p, k)
       /\ th[p].pc \in InMonitor =>
            cpu'[c].at = "run" /\ th'[p].pc \in InMonitor /\ th'[p].arg = th[p].arg
  BY Zenon, <1>1, <1>2, <1>3, <1>4, <1>6, <1>9 DEF Types, LockOK, WaitsOn, PCs, Open, InMonitor, OnLock
<1> QED BY Zenon, <1>2, <1>6, <1>8, <1>9, <1>10, <1>11, LocalStep, OutsideMonitor

\* The end of the trap.
LEMMA TrapReturnStep ==
  ASSUME NEW c \in CPUs, NEW p \in Procs, SchedInv, TrapReturn(c, p)
  PROVE  SchedInv'
<1> DEFINE r == [cpu[c] EXCEPT !.intr = TRUE]
           x == [th[p] EXCEPT !.trap = "no"]
<1> USE TableAssumption DEF Procs
<1>1. /\ Runs(c, p) /\ th[p].pc \in Open /\ th[p].trap = "ret"
      /\ Types /\ cpu[c] \in Cpu /\ th[p] \in Th /\ HartOK(c) /\ PlaceOK(p) /\ ProcOK(p) /\ LockOK(p)
  BY Zenon, Running DEF TrapReturn, At, PlaceOK
<1>2. /\ cpu[c].noff = 0 /\ plock[p] = (IF Locked(th[p]) THEN c ELSE 0)
      /\ state[p] = "RUNNING" /\ cpu[c].at = "run" /\ cpu[c].proc = p /\ th[p].i = 1
      /\ cpu[c].intr => th[p].trap = "no" /\ th[p].pc \in Open
  <2>1. Depth(th[p]) = 0
    BY <1>1 DEF Depth, Locked, InMonitor, Open
  <2>2. th[p].i = 1
    BY Zenon, <1>1 DEF PlaceOK, Open
  <2>3. /\ cpu[c].noff = Depth(th[p]) /\ plock[p] = (IF Locked(th[p]) THEN c ELSE 0)
        /\ state[p] = "RUNNING" /\ cpu[c].at = "run" /\ cpu[c].proc = p
        /\ cpu[c].intr => th[p].trap = "no" /\ th[p].pc \in Open
    BY Zenon, <1>1, Running
  <2> QED BY Zenon, <2>1, <2>2, <2>3
<1>3. r \in Cpu /\ r.noff = 0 /\ r.at = "run" /\ r.proc = p /\ r.intr
  BY Zenon, <1>1, <1>2, IntrOK
<1>4. x \in Th /\ x.pc = th[p].pc /\ x.trap = "no" /\ x.i = 1
  BY Zenon, <1>1, <1>2, <1>3 DEF Th, Cpu, PCs, Open, InMonitor, OnLock
<1>6. /\ cpu' = [cpu EXCEPT ![c] = r] /\ th' = [th EXCEPT ![p] = x]
      /\ plock' = plock /\ state' = state /\ chan' = chan
      /\ UNCHANGED <<killed, lk, locked, lpid>>
  BY Zenon, <1>1 DEF TrapReturn, At, Runs, Goto, procVars, lockVars, Types, Th, Cpu
<1>7. panic' = FALSE
  BY Zenon, <1>1 DEF TrapReturn, Types
<1> HIDE DEF r, x
<1>8. Types'
  BY Zenon, <1>1, <1>3, <1>4, <1>6, <1>7 DEF Types, PlaceOK, PCs, Open, InMonitor, OnLock
<1>9. cpu'[c] = r /\ th'[p] = x /\ Frame(c, p)
  BY Zenon, <1>1, <1>3, <1>6 DEF Types, Frame
<1>10. /\ HartOK(c)' /\ PlaceOK(p)' /\ plock'[p] \in {0, c}
       /\ state'[p] = "SLEEPING" => th'[p].pc = "slept" /\ th'[p].trap = "no" /\ chan'[p] = th'[p].arg
  <2>1. Depth(x) = r.noff
    BY <1>1, <1>3, <1>4 DEF Depth, Locked, InMonitor, Open
  <2>2. HartOK(c)'
    BY ZenonT(30), <1>1, <1>2, <1>3, <1>4, <1>6, <1>9, <2>1 DEF Types, HartOK, Locked, Open, InMonitor
  <2>3. PlaceOK(p)'
    BY Zenon, <1>1, <1>2, <1>4, <1>9 DEF PlaceOK, Locked, Open, OnLock, InMonitor
  <2> QED BY Zenon, <1>1, <1>2, <1>6, <2>2, <2>3 DEF Types
<1>11. /\ LockOK(p)' /\ \A k \in Locks : WaitsOn(p, k)' => WaitsOn(p, k)
       /\ th[p].pc \in InMonitor =>
            cpu'[c].at = "run" /\ th'[p].pc \in InMonitor /\ th'[p].arg = th[p].arg
  BY Zenon, <1>1, <1>2, <1>3, <1>4, <1>6, <1>9 DEF Types, LockOK, WaitsOn, PCs, Open, InMonitor, OnLock
<1> QED BY Zenon, <1>2, <1>6, <1>8, <1>9, <1>10, <1>11, LocalStep, OutsideMonitor

\* sleep() takes p->lock while it still has lk.
LEMMA SleepAcquireStep ==
  ASSUME NEW c \in CPUs, NEW p \in Procs, SchedInv, SleepAcquire(c, p)
  PROVE  SchedInv'
<1> DEFINE r == PushOff(cpu[c])
           x == [th[p] EXCEPT !.pc = "release"]
<1> USE TableAssumption DEF Procs
<1>1. /\ Runs(c, p) /\ th[p].pc = "sleep" /\ th[p].trap = "no"
      /\ Types /\ cpu[c] \in Cpu /\ th[p] \in Th /\ HartOK(c) /\ PlaceOK(p) /\ ProcOK(p) /\ LockOK(p)
  BY Running DEF SleepAcquire, At, PlaceOK
<1>2. /\ cpu[c].noff = 1 /\ plock[p] = (IF Locked(th[p]) THEN c ELSE 0)
      /\ state[p] = "RUNNING" /\ cpu[c].at = "run" /\ cpu[c].proc = p /\ th[p].i = 1
      /\ cpu[c].intr => th[p].trap = "no" /\ th[p].pc \in Open
  <2>1. Depth(th[p]) = 1
    BY <1>1 DEF Depth, Locked, InMonitor, Open
  <2>2. th[p].i = 1
    BY Zenon, <1>1 DEF PlaceOK
  <2>3. /\ cpu[c].noff = Depth(th[p]) /\ plock[p] = (IF Locked(th[p]) THEN c ELSE 0)
        /\ state[p] = "RUNNING" /\ cpu[c].at = "run" /\ cpu[c].proc = p
        /\ cpu[c].intr => th[p].trap = "no" /\ th[p].pc \in Open
    BY Zenon, <1>1, Running
  <2> QED BY Zenon, <2>1, <2>2, <2>3
<1>3. r \in Cpu /\ r.noff = 2 /\ r.at = "run" /\ r.proc = p /\ ~r.intr /\ ~r.intena
  BY <1>1, <1>2, PushOffOK DEF Cpu, Depth, Locked, PCs, Open, InMonitor, OnLock, HartOK, PlaceOK
<1>4. x \in Th /\ x.pc = "release" /\ x.trap = "no" /\ x.i = 1 /\ x.arg = th[p].arg
  BY Zenon, <1>1, <1>2, <1>3 DEF Th, Cpu, PCs, Open, InMonitor, OnLock
<1>6. /\ cpu' = [cpu EXCEPT ![c] = r] /\ th' = [th EXCEPT ![p] = x]
      /\ plock' = [plock EXCEPT ![p] = c] /\ state' = state /\ chan' = chan
      /\ UNCHANGED <<killed, lk, locked, lpid>>
  BY Zenon, <1>1 DEF SleepAcquire, At, Runs, Goto, procVars, lockVars, Types, Th, Cpu
<1>7. panic' = FALSE
  BY Zenon, <1>1 DEF SleepAcquire, Types
<1> HIDE DEF r, x
<1>8. Types'
  BY Zenon, <1>1, <1>3, <1>4, <1>6, <1>7 DEF Types, PlaceOK, PCs, Open, InMonitor, OnLock
<1>9. cpu'[c] = r /\ th'[p] = x /\ Frame(c, p)
  BY Zenon, <1>1, <1>3, <1>6 DEF Types, Frame
<1>10. /\ HartOK(c)' /\ PlaceOK(p)' /\ plock'[p] \in {0, c}
       /\ state'[p] = "SLEEPING" => th'[p].pc = "slept" /\ th'[p].trap = "no" /\ chan'[p] = th'[p].arg
  <2>1. Depth(x) = r.noff
    BY <1>1, <1>3, <1>4 DEF Depth, Locked, InMonitor, Open
  <2>2. HartOK(c)'
    BY Zenon, <1>1, <1>2, <1>3, <1>4, <1>6, <1>9, <2>1 DEF Types, HartOK, Locked, Open, InMonitor
  <2>3. PlaceOK(p)'
    BY Zenon, <1>1, <1>2, <1>4, <1>9 DEF PlaceOK, Locked, Open, OnLock, InMonitor
  <2> QED BY Zenon, <1>1, <1>2, <1>6, <2>2, <2>3 DEF Types
<1>11. /\ LockOK(p)' /\ \A k \in Locks : WaitsOn(p, k)' => WaitsOn(p, k)
       /\ th[p].pc \in InMonitor =>
            cpu'[c].at = "run" /\ th'[p].pc \in InMonitor /\ th'[p].arg = th[p].arg
  BY Zenon, <1>1, <1>2, <1>3, <1>4, <1>6, <1>9 DEF Types, LockOK, WaitsOn, PCs, Open, InMonitor, OnLock
<1> QED BY Zenon, <1>2, <1>6, <1>8, <1>9, <1>10, <1>11, LocalStep, OutsideMonitor

\* sleep() calls sched() as a sleeper on its channel, with p->lock only.
LEMMA SleepSchedStep ==
  ASSUME NEW c \in CPUs, NEW p \in Procs, SchedInv, SleepSched(c, p)
  PROVE  SchedInv'
<1> DEFINE r == [cpu[c] EXCEPT !.at = "back"]
           x == [th[p] EXCEPT !.pc = "slept", !.intena = r.intena]
<1> USE TableAssumption DEF Procs
<1>1. /\ Runs(c, p) /\ th[p].pc = "sched" /\ th[p].trap = "no"
      /\ Types /\ cpu[c] \in Cpu /\ th[p] \in Th /\ HartOK(c) /\ PlaceOK(p) /\ ProcOK(p) /\ LockOK(p)
  BY Running DEF SleepSched, At, PlaceOK
<1>2. /\ cpu[c].noff = 1 /\ plock[p] = (IF Locked(th[p]) THEN c ELSE 0)
      /\ state[p] = "RUNNING" /\ cpu[c].at = "run" /\ cpu[c].proc = p /\ th[p].i = 1
      /\ cpu[c].intr => th[p].trap = "no" /\ th[p].pc \in Open
  <2>1. Depth(th[p]) = 1
    BY <1>1 DEF Depth, Locked, InMonitor, Open
  <2>2. th[p].i = 1
    BY Zenon, <1>1 DEF PlaceOK
  <2>3. /\ cpu[c].noff = Depth(th[p]) /\ plock[p] = (IF Locked(th[p]) THEN c ELSE 0)
        /\ state[p] = "RUNNING" /\ cpu[c].at = "run" /\ cpu[c].proc = p
        /\ cpu[c].intr => th[p].trap = "no" /\ th[p].pc \in Open
    BY Zenon, <1>1, Running
  <2> QED BY Zenon, <2>1, <2>2, <2>3
<1>3. r \in Cpu /\ r.noff = 1 /\ r.at = "back" /\ r.proc = p /\ ~r.intr /\ ~r.intena
  BY Zenon, <1>1, <1>2 DEF Cpu, Depth, Locked, PCs, Open, InMonitor, OnLock, HartOK, PlaceOK
<1>4. x \in Th /\ x.pc = "slept" /\ x.trap = "no" /\ x.i = 1 /\ x.arg = th[p].arg /\ ~x.intena
  BY Zenon, <1>1, <1>2, <1>3 DEF Th, Cpu, PCs, Open, InMonitor, OnLock
<1>6. /\ cpu' = [cpu EXCEPT ![c] = r] /\ th' = [th EXCEPT ![p] = x]
      /\ plock' = plock /\ state' = [state EXCEPT ![p] = "SLEEPING"] /\ chan' = [chan EXCEPT ![p] = th[p].arg]
      /\ UNCHANGED <<killed, lk, locked, lpid>>
  BY Zenon, <1>1 DEF SleepSched, At, Runs, Goto, procVars, lockVars, sched, Types, Th, Cpu
<1>7. panic' = FALSE
  <2>1. plock'[p] = c /\ cpu'[c].noff = 1 /\ state'[p] # "RUNNING" /\ ~cpu'[c].intr
    BY Zenon, <1>1, <1>2, <1>3, <1>6 DEF Types, Locked
  <2> QED BY Zenon, <2>1 DEF SleepSched, sched
<1> HIDE DEF r, x
<1>8. Types'
  BY Zenon, <1>1, <1>3, <1>4, <1>6, <1>7 DEF Types, PlaceOK, PCs, Open, InMonitor, OnLock
<1>9. cpu'[c] = r /\ th'[p] = x /\ Frame(c, p)
  BY Zenon, <1>1, <1>3, <1>6 DEF Types, Frame
<1>10. /\ HartOK(c)' /\ PlaceOK(p)' /\ plock'[p] \in {0, c}
       /\ state'[p] = "SLEEPING" => th'[p].pc = "slept" /\ th'[p].trap = "no" /\ chan'[p] = th'[p].arg
  BY Zenon, <1>1, <1>2, <1>3, <1>4, <1>6, <1>9 DEF Types, HartOK, PlaceOK, Depth, Locked, Parked, PCs, Open, InMonitor, OnLock
<1>11. /\ LockOK(p)' /\ \A k \in Locks : WaitsOn(p, k)' => WaitsOn(p, k)
       /\ th[p].pc \in InMonitor =>
            cpu'[c].at = "run" /\ th'[p].pc \in InMonitor /\ th'[p].arg = th[p].arg
  BY Zenon, <1>1, <1>2, <1>3, <1>4, <1>6, <1>9 DEF Types, LockOK, WaitsOn, PCs, Open, InMonitor, OnLock
<1> QED BY Zenon, <1>2, <1>6, <1>8, <1>9, <1>10, <1>11, LocalStep, OutsideMonitor

\* Back from sched() in sleep(), on whatever hart.
LEMMA SleepReturnStep ==
  ASSUME NEW c \in CPUs, NEW p \in Procs, SchedInv, SleepReturn(c, p)
  PROVE  SchedInv'
<1> DEFINE r == PopOff([cpu[c] EXCEPT !.intena = th[p].intena])
           x == [th[p] EXCEPT !.pc = "acquire"]
<1> USE TableAssumption DEF Procs
<1>1. /\ Runs(c, p) /\ th[p].pc = "slept" /\ th[p].trap = "no"
      /\ Types /\ cpu[c] \in Cpu /\ th[p] \in Th /\ HartOK(c) /\ PlaceOK(p) /\ ProcOK(p) /\ LockOK(p)
  BY Running DEF SleepReturn, At, PlaceOK
<1>2. /\ cpu[c].noff = 1 /\ plock[p] = (IF Locked(th[p]) THEN c ELSE 0)
      /\ state[p] = "RUNNING" /\ cpu[c].at = "run" /\ cpu[c].proc = p /\ th[p].i = 1
      /\ cpu[c].intr => th[p].trap = "no" /\ th[p].pc \in Open
  <2>1. Depth(th[p]) = 1
    BY <1>1 DEF Depth, Locked, InMonitor, Open
  <2>2. th[p].i = 1
    BY Zenon, <1>1 DEF PlaceOK
  <2>3. /\ cpu[c].noff = Depth(th[p]) /\ plock[p] = (IF Locked(th[p]) THEN c ELSE 0)
        /\ state[p] = "RUNNING" /\ cpu[c].at = "run" /\ cpu[c].proc = p
        /\ cpu[c].intr => th[p].trap = "no" /\ th[p].pc \in Open
    BY Zenon, <1>1, Running
  <2> QED BY Zenon, <2>1, <2>2, <2>3
<1>5. [cpu[c] EXCEPT !.intena = th[p].intena] \in Cpu
  BY Zenon, <1>1 DEF Cpu, Th
<1>3. r \in Cpu /\ r.noff = 0 /\ r.at = "run" /\ r.proc = p /\ ~r.intr
  BY <1>1, <1>5, <1>2, PopOffOK DEF Cpu, Depth, Locked, PCs, Open, InMonitor, OnLock, HartOK, PlaceOK
<1>4. x \in Th /\ x.pc = "acquire" /\ x.trap = "no" /\ x.i = 1 /\ x.arg = th[p].arg
  BY <1>1, <1>2, <1>3 DEF Th, Cpu, PCs, Open, InMonitor, OnLock
<1>6. /\ cpu' = [cpu EXCEPT ![c] = r] /\ th' = [th EXCEPT ![p] = x]
      /\ plock' = [plock EXCEPT ![p] = 0] /\ state' = state /\ chan' = [chan EXCEPT ![p] = 0]
      /\ UNCHANGED <<killed, lk, locked, lpid>>
  BY Zenon, <1>1 DEF SleepReturn, At, Runs, Goto, procVars, lockVars, Types, Th, Cpu
<1>7. panic' = FALSE
  BY Zenon, <1>1 DEF SleepReturn, Types
<1> HIDE DEF r, x
<1>8. Types'
  BY Zenon, <1>1, <1>3, <1>4, <1>6, <1>7 DEF Types, PlaceOK, PCs, Open, InMonitor, OnLock
<1>9. cpu'[c] = r /\ th'[p] = x /\ Frame(c, p)
  BY Zenon, <1>1, <1>3, <1>6 DEF Types, Frame
<1>10. /\ HartOK(c)' /\ PlaceOK(p)' /\ plock'[p] \in {0, c}
       /\ state'[p] = "SLEEPING" => th'[p].pc = "slept" /\ th'[p].trap = "no" /\ chan'[p] = th'[p].arg
  <2>1. Depth(x) = r.noff
    BY <1>1, <1>3, <1>4 DEF Depth, Locked, InMonitor, Open
  <2>2. HartOK(c)'
    BY Zenon, <1>1, <1>2, <1>3, <1>4, <1>6, <1>9, <2>1 DEF Types, HartOK, Locked, Open, InMonitor
  <2>3. PlaceOK(p)'
    BY Zenon, <1>1, <1>2, <1>4, <1>9 DEF PlaceOK, Locked, Open, OnLock, InMonitor
  <2> QED BY Zenon, <1>1, <1>2, <1>6, <2>2, <2>3 DEF Types
<1>11. /\ LockOK(p)' /\ \A k \in Locks : WaitsOn(p, k)' => WaitsOn(p, k)
       /\ th[p].pc \in InMonitor =>
            cpu'[c].at = "run" /\ th'[p].pc \in InMonitor /\ th'[p].arg = th[p].arg
  BY Zenon, <1>1, <1>2, <1>3, <1>4, <1>6, <1>9 DEF Types, LockOK, WaitsOn, PCs, Open, InMonitor, OnLock
<1> QED BY Zenon, <1>2, <1>6, <1>8, <1>9, <1>10, <1>11, LocalStep, OutsideMonitor

\* The sleep lock is taken: the thread goes on to sleep(), with lk.
LEMMA TestLockedSleepStep ==
  ASSUME NEW c \in CPUs, NEW p \in Procs, locked[th[p].arg], SchedInv, TestLocked(c, p)
  PROVE  SchedInv'
<1> DEFINE r == cpu[c]
           x == [th[p] EXCEPT !.pc = "sleep"]
<1> USE TableAssumption DEF Procs
<1>1. /\ Runs(c, p) /\ th[p].pc = "test" /\ th[p].trap = "no"
      /\ Types /\ cpu[c] \in Cpu /\ th[p] \in Th /\ HartOK(c) /\ PlaceOK(p) /\ ProcOK(p) /\ LockOK(p)
  BY Zenon, Running DEF TestLocked, At, PlaceOK
<1>2. /\ cpu[c].noff = 1 /\ plock[p] = (IF Locked(th[p]) THEN c ELSE 0)
      /\ state[p] = "RUNNING" /\ cpu[c].at = "run" /\ cpu[c].proc = p /\ th[p].i = 1
      /\ cpu[c].intr => th[p].trap = "no" /\ th[p].pc \in Open
  <2>1. Depth(th[p]) = 1
    BY <1>1 DEF Depth, Locked, InMonitor, Open
  <2>2. th[p].i = 1
    BY Zenon, <1>1 DEF PlaceOK
  <2>3. /\ cpu[c].noff = Depth(th[p]) /\ plock[p] = (IF Locked(th[p]) THEN c ELSE 0)
        /\ state[p] = "RUNNING" /\ cpu[c].at = "run" /\ cpu[c].proc = p
        /\ cpu[c].intr => th[p].trap = "no" /\ th[p].pc \in Open
    BY Zenon, <1>1, Running
  <2> QED BY Zenon, <2>1, <2>2, <2>3
<1>3. r \in Cpu /\ r.noff = 1 /\ r.at = "run" /\ r.proc = p /\ ~r.intr /\ ~r.intena
  BY Zenon, <1>1, <1>2 DEF Cpu, Depth, Locked, PCs, Open, InMonitor, OnLock, HartOK, PlaceOK
<1>4. x \in Th /\ x.pc = "sleep" /\ x.trap = "no" /\ x.i = 1 /\ x.arg = th[p].arg
  BY Zenon, <1>1, <1>2, <1>3 DEF Th, Cpu, PCs, Open, InMonitor, OnLock
<1>6. /\ cpu' = [cpu EXCEPT ![c] = r] /\ th' = [th EXCEPT ![p] = x]
      /\ plock' = plock /\ state' = state /\ chan' = chan
      /\ UNCHANGED <<killed, lk, locked, lpid>>
  BY Zenon, <1>1 DEF TestLocked, At, Runs, Goto, procVars, lockVars, Types, Th, Cpu
<1>7. panic' = FALSE
  BY Zenon, <1>1 DEF TestLocked, Types
<1> HIDE DEF r, x
<1>8. Types'
  BY Zenon, <1>1, <1>3, <1>4, <1>6, <1>7 DEF Types, PlaceOK, PCs, Open, InMonitor, OnLock
<1>9. cpu'[c] = r /\ th'[p] = x /\ Frame(c, p)
  BY Zenon, <1>1, <1>3, <1>6 DEF Types, Frame
<1>10. /\ HartOK(c)' /\ PlaceOK(p)' /\ plock'[p] \in {0, c}
       /\ state'[p] = "SLEEPING" => th'[p].pc = "slept" /\ th'[p].trap = "no" /\ chan'[p] = th'[p].arg
  <2>1. Depth(x) = r.noff
    BY <1>1, <1>3, <1>4 DEF Depth, Locked, InMonitor, Open
  <2>2. HartOK(c)'
    BY ZenonT(30), <1>1, <1>2, <1>3, <1>4, <1>6, <1>9, <2>1 DEF Types, HartOK, Locked, Open, InMonitor
  <2>3. PlaceOK(p)'
    BY Zenon, <1>1, <1>2, <1>4, <1>9 DEF PlaceOK, Locked, Open, OnLock, InMonitor
  <2> QED BY Zenon, <1>1, <1>2, <1>6, <2>2, <2>3 DEF Types
<1>11. /\ LockOK(p)' /\ \A k \in Locks : WaitsOn(p, k)' => WaitsOn(p, k)
       /\ th[p].pc \in InMonitor =>
            cpu'[c].at = "run" /\ th'[p].pc \in InMonitor /\ th'[p].arg = th[p].arg
  BY Zenon, <1>1, <1>2, <1>3, <1>4, <1>6, <1>9 DEF Types, LockOK, WaitsOn, PCs, Open, InMonitor, OnLock
<1> QED BY Zenon, <1>2, <1>6, <1>8, <1>9, <1>10, <1>11, LocalStep, OutsideMonitor

\* Of the sleep locks, a step of thread p on hart c concerns l alone.
MonitorOnly(c, p, l) ==
  /\ th[p].arg = l /\ lk[l] \in {0, c}
  /\ \A k \in Locks : k # l => lk'[k] = lk[k] /\ locked'[k] = locked[k] /\ lpid'[k] = lpid[k]
  /\ (locked'[l] <=> lpid'[l] # 0) /\ (lpid'[l] = lpid[l] \/ lpid[l] \in {0, p})
  /\ lk'[l] = 0 \/ (lk'[l] = c /\ cpu'[c].at = "run" /\ th'[p].pc \in InMonitor /\ th'[p].arg = l)
  /\ \A k \in Locks : k # l /\ WaitsOn(p, k)' => WaitsOn(p, k)

\* A step that takes or gives back lk of a sleep lock, or writes its words under lk:
\* nobody else is in this monitor, and the other monitors are not concerned.
LEMMA MonitorStep ==
  ASSUME NEW c \in CPUs, NEW p \in Procs, SchedInv, cpu[c].proc = p, Frame(c, p), Types', LockOK(p)',
         NEW l \in Locks, MonitorOnly(c, p, l)
  PROVE  (\A q \in Procs : LockOK(q)') /\ WordsOK'
<1> USE TableAssumption DEF Procs, MonitorOnly
<1>0. /\ Types /\ WordsOK /\ (\A d \in CPUs : HartOK(d))
      /\ \A q \in Procs : PlaceOK(q) /\ ProcOK(q) /\ LockOK(q)
  BY Zenon DEF SchedInv
<1>1. \A d \in CPUs : cpu'[d].proc = cpu[d].proc
  BY Zenon DEF Frame
<1>2. ASSUME NEW q \in Procs, q # p PROVE LockOK(q)'
  <2>1. th'[q] = th[q]
    BY Zenon, <1>2 DEF Frame
  <2>2. th[q].pc \in InMonitor => th[q].arg \in Locks /\ th[q].arg # l
    <3>1. th[q].pc \in InMonitor => th[q].arg \in Locks /\ lk[th[q].arg] \in CPUs /\ cpu[lk[th[q].arg]].proc = q
      BY Zenon, <1>0 DEF PlaceOK, LockOK, OnLock
    <3> QED BY <3>1, <1>2
  <2>3. th[q].pc \in InMonitor => lk'[th[q].arg] \in CPUs /\ cpu'[lk'[th[q].arg]].proc = q
    BY <1>0, <1>1, <2>2 DEF LockOK
  <2>4. th[q].pc \in {"sleep", "release"} => locked'[th[q].arg]
    BY Zenon, <1>0, <2>2 DEF LockOK, InMonitor
  <2>5. th[q].pc = "held" => lpid'[th[q].arg] = q
    BY <1>0, <1>2 DEF LockOK, PlaceOK, OnLock
  <2>6. th[q].pc = "wakeup" => ~locked'[th[q].arg] /\ \A s \in Procs : s < th[q].i => ~WaitsOn(s, th[q].arg)'
    <3>1. \A s \in Procs, k \in Locks : k # l /\ WaitsOn(s, k)' => WaitsOn(s, k)
      BY DEF Frame, WaitsOn
    <3> SUFFICES ASSUME th[q].pc = "wakeup"
                 PROVE  ~locked'[th[q].arg] /\ \A s \in Procs : s < th[q].i => ~WaitsOn(s, th[q].arg)'
      BY Zenon
    <3>2. th[q].arg \in Locks /\ th[q].arg # l
      BY Zenon, <2>2 DEF InMonitor
    <3>3. ~locked[th[q].arg] /\ \A s \in Procs : s < th[q].i => ~WaitsOn(s, th[q].arg)
      BY Zenon, <1>0 DEF LockOK
    <3>4. \A s \in Procs : WaitsOn(s, th[q].arg)' => WaitsOn(s, th[q].arg)
      BY <2>1, <3>1, <3>2
    <3> QED BY Zenon, <3>2, <3>3, <3>4
  <2> QED BY Zenon, <2>1, <2>3, <2>4, <2>5, <2>6 DEF LockOK
<1>3. WordsOK'
  <2>1. ASSUME NEW k \in Locks, NEW d \in CPUs, lk'[k] = d
        PROVE  cpu'[d].at = "run" /\ th'[cpu'[d].proc].pc \in InMonitor /\ th'[cpu'[d].proc].arg = k
    <3>1. CASE k = l
      <4>1. lk'[l] = d /\ d # 0
        BY Zenon, <2>1, <3>1
      <4>2. d = c /\ cpu'[c].at = "run" /\ th'[p].pc \in InMonitor /\ th'[p].arg = l
        BY Zenon, <4>1
      <4> QED BY Zenon, <1>1, <3>1, <4>2
    <3>2. CASE k # l
      <4>1. cpu[d].at = "run" /\ th[cpu[d].proc].pc \in InMonitor /\ th[cpu[d].proc].arg = k
        BY <1>0, <2>1, <3>2 DEF WordsOK
      <4>2. d # c
        BY Zenon, <3>2, <4>1
      <4>3. cpu[d].proc \in Procs
        BY Zenon, <1>0, <4>1 DEF HartOK
      <4>4. cpu[d].proc # p
        <5>1. p # 0
          OBVIOUS
        <5> QED BY Zenon, <1>0, <4>2, <5>1 DEF WordsOK
      <4>5. cpu'[d] = cpu[d] /\ th'[cpu[d].proc] = th[cpu[d].proc]
        BY Zenon, <4>2, <4>3, <4>4 DEF Frame
      <4> QED BY <4>1, <4>5
    <3> QED BY Zenon, <3>1, <3>2
  <2>2. ASSUME NEW k \in Locks PROVE locked'[k] <=> lpid'[k] # 0
    <3>1. CASE k = l
      BY Zenon, <3>1
    <3>2. CASE k # l
      <4>1. locked'[k] = locked[k] /\ lpid'[k] = lpid[k]
        BY Zenon, <3>2
      <4>2. locked[k] <=> lpid[k] # 0
        BY Zenon, <1>0 DEF WordsOK
      <4> QED BY Zenon, <4>1, <4>2
    <3> QED BY Zenon, <3>1, <3>2
  <2>3. \A a, b \in CPUs : cpu'[a].proc = cpu'[b].proc /\ cpu'[a].proc # 0 => a = b
    <3>1. \A a, b \in CPUs : cpu[a].proc = cpu[b].proc /\ cpu[a].proc # 0 => a = b
      BY Zenon, <1>0 DEF WordsOK
    <3> QED BY <1>1, <3>1
  <2>4. \A k \in Locks, d \in CPUs : lk'[k] = d =>
          cpu'[d].at = "run" /\ th'[cpu'[d].proc].pc \in InMonitor /\ th'[cpu'[d].proc].arg = k
    BY <2>1
  <2>5. \A k \in Locks : locked'[k] <=> lpid'[k] # 0
    BY Zenon, <2>2
  <2> HIDE DEF MonitorOnly
  <2> QED BY Zenon, <2>3, <2>4, <2>5 DEF WordsOK
<1> QED BY Zenon, <1>2, <1>3

\* acquire(&lk->lk), at the start or at the end of sleep().
LEMMA AcquireLkStep ==
  ASSUME NEW c \in CPUs, NEW p \in Procs, SchedInv, AcquireLk(c, p)
  PROVE  SchedInv'
<1> DEFINE r == PushOff(cpu[c])
           x == [th[p] EXCEPT !.pc = "test"]
           l == th[p].arg
<1> USE TableAssumption DEF Procs
<1>1. /\ Runs(c, p) /\ th[p].pc = "acquire" /\ th[p].trap = "no" /\ l \in Locks /\ lk[l] \in {0, c}
      /\ Types /\ cpu[c] \in Cpu /\ th[p] \in Th /\ HartOK(c) /\ PlaceOK(p) /\ ProcOK(p) /\ LockOK(p) /\ WordsOK
  <2>1. /\ Runs(c, p) /\ th[p].pc = "acquire" /\ th[p].trap = "no"
        /\ Types /\ cpu[c] \in Cpu /\ th[p] \in Th /\ HartOK(c) /\ PlaceOK(p) /\ ProcOK(p) /\ LockOK(p) /\ WordsOK
    BY Zenon, Running DEF AcquireLk, At
  <2>2. l \in Locks
    BY Zenon, <2>1 DEF PlaceOK, OnLock, InMonitor
  <2>3. lk[l] \in {0, c}
    BY Zenon, <2>1, <2>2 DEF AcquireLk, LockOK, WordsOK, InMonitor, Runs
  <2> QED BY Zenon, <2>1, <2>2, <2>3
<1>2. /\ cpu[c].noff = 0 /\ plock[p] = (IF Locked(th[p]) THEN c ELSE 0)
      /\ state[p] = "RUNNING" /\ cpu[c].at = "run" /\ cpu[c].proc = p /\ ~cpu[c].intr
  <2>1. Depth(th[p]) = 0
    BY <1>1 DEF Depth, Locked, InMonitor, Open
  <2>2. th[p].pc \notin Open
    BY Zenon, <1>1 DEF Open
  <2>3. /\ cpu[c].noff = Depth(th[p]) /\ plock[p] = (IF Locked(th[p]) THEN c ELSE 0)
        /\ state[p] = "RUNNING" /\ cpu[c].at = "run" /\ cpu[c].proc = p
        /\ cpu[c].intr => th[p].trap = "no" /\ th[p].pc \in Open
    BY ZenonT(30), <1>1, Running
  <2> QED BY Zenon, <2>1, <2>2, <2>3
<1>3. r \in Cpu /\ r.noff = 1 /\ r.at = "run" /\ r.proc = p /\ ~r.intr /\ ~r.intena
  BY <1>1, <1>2, PushOffOK DEF Cpu, PCs, Open, InMonitor, OnLock, HartOK
<1>4. x \in Th /\ x.pc = "test" /\ x.trap = "no" /\ x.i = 1 /\ x.arg = th[p].arg
  BY Zenon, <1>1 DEF Th, PCs, PlaceOK
<1>5. /\ cpu' = [cpu EXCEPT ![c] = r] /\ th' = [th EXCEPT ![p] = x]
      /\ lk' = [lk EXCEPT ![th[p].arg] = c] /\ locked' = locked /\ lpid' = lpid
      /\ panic' = FALSE /\ UNCHANGED <<plock, state, chan, killed>>
  BY Zenon, <1>1 DEF AcquireLk, At, Runs, Goto, procVars, lockVars, Types, Th, Cpu
<1> HIDE DEF r, x
<1>6. Types'
  BY Zenon, <1>1, <1>3, <1>4, <1>5 DEF Types
<1>7. cpu'[c] = r /\ th'[p] = x /\ Frame(c, p)
  BY Zenon, <1>1, <1>3, <1>5 DEF Types, Frame
<1>8. /\ HartOK(c)' /\ PlaceOK(p)' /\ plock'[p] \in {0, c} /\ state'[p] # "SLEEPING"
  <2>1. Depth(x) = r.noff
    BY <1>1, <1>3, <1>4 DEF Depth, Locked, InMonitor, Open
  <2>2. HartOK(c)'
    BY ZenonT(30), <1>1, <1>2, <1>3, <1>4, <1>5, <1>7, <2>1 DEF Types, HartOK, Locked, Open, InMonitor
  <2>3. PlaceOK(p)'
    BY Zenon, <1>1, <1>4, <1>7 DEF PlaceOK, Locked, Open, OnLock, InMonitor
  <2> QED BY Zenon, <1>1, <1>2, <1>5, <2>2, <2>3 DEF Types
<1>9. LockOK(p)'
  BY Zenon, <1>1, <1>2, <1>3, <1>4, <1>5, <1>7 DEF Types, LockOK, PCs, Open, InMonitor, OnLock
<1>10. \A k \in Locks : k # l /\ WaitsOn(p, k)' => WaitsOn(p, k)
  BY Zenon, <1>1, <1>4, <1>5, <1>7 DEF WaitsOn
<1>11. /\ \A k \in Locks : k # l => lk'[k] = lk[k] /\ locked'[k] = locked[k] /\ lpid'[k] = lpid[k]
       /\ (locked'[l] <=> lpid'[l] # 0) /\ (lpid'[l] = lpid[l] \/ lpid[l] \in {0, p})
  BY <1>1, <1>5 DEF Types, WordsOK, LockOK
<1>12. lk'[l] = 0 \/ (lk'[l] = c /\ cpu'[c].at = "run" /\ th'[p].pc \in InMonitor /\ th'[p].arg = l)
  BY Zenon, <1>1, <1>3, <1>4, <1>5, <1>7 DEF Types, InMonitor
<1>13. MonitorOnly(c, p, l)
  BY Zenon, <1>1, <1>10, <1>11, <1>12 DEF MonitorOnly
<1> HIDE DEF l
<1>14. (\A q \in Procs : LockOK(q)') /\ WordsOK'
  BY Zenon, <1>1, <1>2, <1>6, <1>7, <1>9, <1>13, MonitorStep
<1> QED BY Zenon, <1>2, <1>6, <1>7, <1>8, <1>14, LocalStep

\* The sleep lock is free: its words are written before lk is given back.
LEMMA TestLockedTakeStep ==
  ASSUME NEW c \in CPUs, NEW p \in Procs, SchedInv, TestLocked(c, p), ~locked[th[p].arg]
  PROVE  SchedInv'
<1> DEFINE r == PopOff(cpu[c])
           x == [th[p] EXCEPT !.pc = "held"]
           l == th[p].arg
<1> USE TableAssumption DEF Procs
<1>1. /\ Runs(c, p) /\ th[p].pc = "test" /\ th[p].trap = "no" /\ l \in Locks /\ lk[l] \in {0, c}
      /\ Types /\ cpu[c] \in Cpu /\ th[p] \in Th /\ HartOK(c) /\ PlaceOK(p) /\ ProcOK(p) /\ LockOK(p) /\ WordsOK
  <2>1. /\ Runs(c, p) /\ th[p].pc = "test" /\ th[p].trap = "no"
        /\ Types /\ cpu[c] \in Cpu /\ th[p] \in Th /\ HartOK(c) /\ PlaceOK(p) /\ ProcOK(p) /\ LockOK(p) /\ WordsOK
    BY Zenon, Running DEF TestLocked, At
  <2>2. l \in Locks
    BY Zenon, <2>1 DEF PlaceOK, OnLock, InMonitor
  <2>3. lk[l] \in {0, c}
    <3>1. lk[l] \in CPUs /\ cpu[lk[l]].proc = p
      BY Zenon, <2>1 DEF LockOK, InMonitor
    <3>2. p # 0
      OBVIOUS
    <3> QED BY ZenonT(30), <2>1, <3>1, <3>2 DEF WordsOK, Runs
  <2> QED BY Zenon, <2>1, <2>2, <2>3
<1>2. /\ cpu[c].noff = 1 /\ plock[p] = (IF Locked(th[p]) THEN c ELSE 0)
      /\ state[p] = "RUNNING" /\ cpu[c].at = "run" /\ cpu[c].proc = p /\ ~cpu[c].intr
  <2>1. Depth(th[p]) = 1
    BY <1>1 DEF Depth, Locked, InMonitor, Open
  <2>2. th[p].pc \notin Open
    BY Zenon, <1>1 DEF Open
  <2>3. /\ cpu[c].noff = Depth(th[p]) /\ plock[p] = (IF Locked(th[p]) THEN c ELSE 0)
        /\ state[p] = "RUNNING" /\ cpu[c].at = "run" /\ cpu[c].proc = p
        /\ cpu[c].intr => th[p].trap = "no" /\ th[p].pc \in Open
    BY ZenonT(30), <1>1, Running
  <2> QED BY Zenon, <2>1, <2>2, <2>3
<1>3. r \in Cpu /\ r.noff = 0 /\ r.at = "run" /\ r.proc = p /\ ~r.intr
  <2>1. ~cpu[c].intena
    BY Zenon, <1>1, <1>2 DEF HartOK, InMonitor
  <2>2. /\ r \in Cpu /\ r.noff = cpu[c].noff - 1 /\ r.at = cpu[c].at /\ r.proc = cpu[c].proc
        /\ r.intr = (cpu[c].noff = 1 /\ cpu[c].intena) /\ r.intena = cpu[c].intena
    BY Zenon, <1>1, PopOffOK
  <2> HIDE DEF r
  <2>3. r.noff = 0
    BY <1>2, <2>2
  <2> QED BY Zenon, <1>2, <2>1, <2>2, <2>3
<1>4. x \in Th /\ x.pc = "held" /\ x.trap = "no" /\ x.i = 1 /\ x.arg = th[p].arg
  BY Zenon, <1>1 DEF Th, PCs, PlaceOK
<1>5. /\ cpu' = [cpu EXCEPT ![c] = r] /\ th' = [th EXCEPT ![p] = x]
      /\ lk' = [lk EXCEPT ![th[p].arg] = 0] /\ locked' = [locked EXCEPT ![th[p].arg] = TRUE] /\ lpid' = [lpid EXCEPT ![th[p].arg] = p]
      /\ panic' = FALSE /\ UNCHANGED <<plock, state, chan, killed>>
  BY Zenon, <1>1 DEF TestLocked, At, Runs, Goto, procVars, lockVars, Types, Th, Cpu
<1> HIDE DEF r, x
<1>6. Types'
  BY <1>1, <1>3, <1>4, <1>5 DEF Types
<1>7. cpu'[c] = r /\ th'[p] = x /\ Frame(c, p)
  BY Zenon, <1>1, <1>3, <1>5 DEF Types, Frame
<1>8. /\ HartOK(c)' /\ PlaceOK(p)' /\ plock'[p] \in {0, c} /\ state'[p] # "SLEEPING"
  <2>1. Depth(x) = r.noff
    BY <1>1, <1>3, <1>4 DEF Depth, Locked, InMonitor, Open
  <2>2. HartOK(c)'
    BY Zenon, <1>1, <1>2, <1>3, <1>4, <1>5, <1>7, <2>1 DEF Types, HartOK, Locked, Open, InMonitor
  <2>3. PlaceOK(p)'
    BY Zenon, <1>1, <1>4, <1>7 DEF PlaceOK, Locked, Open, OnLock, InMonitor
  <2> QED BY Zenon, <1>1, <1>2, <1>5, <2>2, <2>3 DEF Types
<1>9. LockOK(p)'
  BY Zenon, <1>1, <1>2, <1>3, <1>4, <1>5, <1>7 DEF Types, LockOK, PCs, Open, InMonitor, OnLock
<1>10. \A k \in Locks : k # l /\ WaitsOn(p, k)' => WaitsOn(p, k)
  BY Zenon, <1>1, <1>4, <1>5, <1>7 DEF WaitsOn
<1>11. /\ \A k \in Locks : k # l => lk'[k] = lk[k] /\ locked'[k] = locked[k] /\ lpid'[k] = lpid[k]
       /\ (locked'[l] <=> lpid'[l] # 0) /\ (lpid'[l] = lpid[l] \/ lpid[l] \in {0, p})
  <2>1. \A k \in Locks : k # l => lk'[k] = lk[k] /\ locked'[k] = locked[k] /\ lpid'[k] = lpid[k]
    BY Zenon, <1>1, <1>5 DEF Types
  <2>2. locked'[l] = TRUE /\ lpid'[l] = p
    BY Zenon, <1>1, <1>5 DEF Types
  <2>3. p # 0
    OBVIOUS
  <2>4. lpid[l] = 0
    BY Zenon, <1>1 DEF WordsOK
  <2> QED BY Zenon, <2>1, <2>2, <2>3, <2>4
<1>12. lk'[l] = 0 \/ (lk'[l] = c /\ cpu'[c].at = "run" /\ th'[p].pc \in InMonitor /\ th'[p].arg = l)
  BY Zenon, <1>1, <1>3, <1>4, <1>5, <1>7 DEF Types, InMonitor
<1>13. MonitorOnly(c, p, l)
  BY Zenon, <1>1, <1>10, <1>11, <1>12 DEF MonitorOnly
<1> HIDE DEF l
<1>14. (\A q \in Procs : LockOK(q)') /\ WordsOK'
  BY Zenon, <1>1, <1>2, <1>6, <1>7, <1>9, <1>13, MonitorStep
<1> QED BY Zenon, <1>2, <1>6, <1>7, <1>8, <1>14, LocalStep

\* release(lk) in sleep(): from here on the thread counts as a waiter.
LEMMA SleepReleaseStep ==
  ASSUME NEW c \in CPUs, NEW p \in Procs, SchedInv, SleepRelease(c, p)
  PROVE  SchedInv'
<1> DEFINE r == PopOff(cpu[c])
           x == [th[p] EXCEPT !.pc = "sched"]
           l == th[p].arg
<1> USE TableAssumption DEF Procs
<1>1. /\ Runs(c, p) /\ th[p].pc = "release" /\ th[p].trap = "no" /\ l \in Locks /\ lk[l] \in {0, c}
      /\ Types /\ cpu[c] \in Cpu /\ th[p] \in Th /\ HartOK(c) /\ PlaceOK(p) /\ ProcOK(p) /\ LockOK(p) /\ WordsOK
  <2>1. /\ Runs(c, p) /\ th[p].pc = "release" /\ th[p].trap = "no"
        /\ Types /\ cpu[c] \in Cpu /\ th[p] \in Th /\ HartOK(c) /\ PlaceOK(p) /\ ProcOK(p) /\ LockOK(p) /\ WordsOK
    BY Zenon, Running DEF SleepRelease, At
  <2>2. l \in Locks
    BY Zenon, <2>1 DEF PlaceOK, OnLock, InMonitor
  <2>3. lk[l] \in {0, c}
    <3>1. lk[l] \in CPUs /\ cpu[lk[l]].proc = p
      BY Zenon, <2>1 DEF LockOK, InMonitor
    <3>2. p # 0
      OBVIOUS
    <3> QED BY Zenon, <2>1, <3>1, <3>2 DEF WordsOK, Runs
  <2> QED BY Zenon, <2>1, <2>2, <2>3
<1>2. /\ cpu[c].noff = 2 /\ plock[p] = (IF Locked(th[p]) THEN c ELSE 0)
      /\ state[p] = "RUNNING" /\ cpu[c].at = "run" /\ cpu[c].proc = p /\ ~cpu[c].intr
  <2>1. Depth(th[p]) = 2
    BY <1>1 DEF Depth, Locked, InMonitor, Open
  <2>2. th[p].pc \notin Open
    BY Zenon, <1>1 DEF Open
  <2>3. /\ cpu[c].noff = Depth(th[p]) /\ plock[p] = (IF Locked(th[p]) THEN c ELSE 0)
        /\ state[p] = "RUNNING" /\ cpu[c].at = "run" /\ cpu[c].proc = p
        /\ cpu[c].intr => th[p].trap = "no" /\ th[p].pc \in Open
    BY ZenonT(30), <1>1, Running
  <2> QED BY Zenon, <2>1, <2>2, <2>3
<1>3. r \in Cpu /\ r.noff = 1 /\ r.at = "run" /\ r.proc = p /\ ~r.intr /\ ~r.intena
  <2>1. ~cpu[c].intena
    BY Zenon, <1>1, <1>2 DEF HartOK, InMonitor
  <2>2. /\ r \in Cpu /\ r.noff = cpu[c].noff - 1 /\ r.at = cpu[c].at /\ r.proc = cpu[c].proc
        /\ r.intr = (cpu[c].noff = 1 /\ cpu[c].intena) /\ r.intena = cpu[c].intena
    BY Zenon, <1>1, PopOffOK
  <2> HIDE DEF r
  <2>3. r.noff = 1
    BY <1>2, <2>2
  <2> QED BY Zenon, <1>2, <2>1, <2>2, <2>3
<1>4. x \in Th /\ x.pc = "sched" /\ x.trap = "no" /\ x.i = 1 /\ x.arg = th[p].arg
  BY Zenon, <1>1 DEF Th, PCs, PlaceOK
<1>5. /\ cpu' = [cpu EXCEPT ![c] = r] /\ th' = [th EXCEPT ![p] = x]
      /\ lk' = [lk EXCEPT ![th[p].arg] = 0] /\ locked' = locked /\ lpid' = lpid
      /\ panic' = FALSE /\ UNCHANGED <<plock, state, chan, killed>>
  BY Zenon, <1>1 DEF SleepRelease, At, Runs, Goto, procVars, lockVars, Types, Th, Cpu
<1> HIDE DEF r, x
<1>6. Types'
  BY Zenon, <1>1, <1>3, <1>4, <1>5 DEF Types
<1>7. cpu'[c] = r /\ th'[p] = x /\ Frame(c, p)
  BY Zenon, <1>1, <1>3, <1>5 DEF Types, Frame
<1>8. /\ HartOK(c)' /\ PlaceOK(p)' /\ plock'[p] \in {0, c} /\ state'[p] # "SLEEPING"
  <2>1. Depth(x) = r.noff
    BY <1>1, <1>3, <1>4 DEF Depth, Locked, InMonitor, Open
  <2>2. HartOK(c)'
    BY Zenon, <1>1, <1>2, <1>3, <1>4, <1>5, <1>7, <2>1 DEF Types, HartOK, Locked, Open, InMonitor
  <2>3. PlaceOK(p)'
    BY Zenon, <1>1, <1>4, <1>7 DEF PlaceOK, Locked, Open, OnLock, InMonitor
  <2> QED BY Zenon, <1>1, <1>2, <1>5, <2>2, <2>3 DEF Types
<1>9. LockOK(p)'
  BY Zenon, <1>1, <1>2, <1>3, <1>4, <1>5, <1>7 DEF Types, LockOK, PCs, Open, InMonitor, OnLock
<1>10. \A k \in Locks : k # l /\ WaitsOn(p, k)' => WaitsOn(p, k)
  BY Zenon, <1>1, <1>4, <1>5, <1>7 DEF WaitsOn
<1>11. /\ \A k \in Locks : k # l => lk'[k] = lk[k] /\ locked'[k] = locked[k] /\ lpid'[k] = lpid[k]
       /\ (locked'[l] <=> lpid'[l] # 0) /\ (lpid'[l] = lpid[l] \/ lpid[l] \in {0, p})
  BY <1>1, <1>5 DEF Types, WordsOK, LockOK
<1>12. lk'[l] = 0 \/ (lk'[l] = c /\ cpu'[c].at = "run" /\ th'[p].pc \in InMonitor /\ th'[p].arg = l)
  BY Zenon, <1>1, <1>3, <1>4, <1>5, <1>7 DEF Types, InMonitor
<1>13. MonitorOnly(c, p, l)
  BY Zenon, <1>1, <1>10, <1>11, <1>12 DEF MonitorOnly
<1> HIDE DEF l
<1>14. (\A q \in Procs : LockOK(q)') /\ WordsOK'
  BY Zenon, <1>1, <1>2, <1>6, <1>7, <1>9, <1>13, MonitorStep
<1> QED BY Zenon, <1>2, <1>6, <1>7, <1>8, <1>14, LocalStep

\* The holder clears the words under lk.
LEMMA releasesleepStep ==
  ASSUME NEW c \in CPUs, NEW p \in Procs, SchedInv, releasesleep(c, p)
  PROVE  SchedInv'
<1> DEFINE r == PushOff(cpu[c])
           x == [th[p] EXCEPT !.pc = "wakeup", !.i = 1]
           l == th[p].arg
<1> USE TableAssumption DEF Procs
<1>1. /\ Runs(c, p) /\ th[p].pc = "held" /\ th[p].trap = "no" /\ l \in Locks /\ lk[l] \in {0, c}
      /\ Types /\ cpu[c] \in Cpu /\ th[p] \in Th /\ HartOK(c) /\ PlaceOK(p) /\ ProcOK(p) /\ LockOK(p) /\ WordsOK
  <2>1. /\ Runs(c, p) /\ th[p].pc = "held" /\ th[p].trap = "no"
        /\ Types /\ cpu[c] \in Cpu /\ th[p] \in Th /\ HartOK(c) /\ PlaceOK(p) /\ ProcOK(p) /\ LockOK(p) /\ WordsOK
    BY Zenon, Running DEF releasesleep, At
  <2>2. l \in Locks
    BY Zenon, <2>1 DEF PlaceOK, OnLock, InMonitor
  <2>3. lk[l] \in {0, c}
    BY Zenon, <2>1, <2>2 DEF releasesleep, LockOK, WordsOK, InMonitor, Runs
  <2> QED BY Zenon, <2>1, <2>2, <2>3
<1>2. /\ cpu[c].noff = 0 /\ plock[p] = (IF Locked(th[p]) THEN c ELSE 0)
      /\ state[p] = "RUNNING" /\ cpu[c].at = "run" /\ cpu[c].proc = p /\ ~cpu[c].intr
  <2>1. Depth(th[p]) = 0
    BY <1>1 DEF Depth, Locked, InMonitor, Open
  <2>2. th[p].pc \notin Open
    BY Zenon, <1>1 DEF Open
  <2>3. /\ cpu[c].noff = Depth(th[p]) /\ plock[p] = (IF Locked(th[p]) THEN c ELSE 0)
        /\ state[p] = "RUNNING" /\ cpu[c].at = "run" /\ cpu[c].proc = p
        /\ cpu[c].intr => th[p].trap = "no" /\ th[p].pc \in Open
    BY Zenon, <1>1, Running
  <2> QED BY Zenon, <2>1, <2>2, <2>3
<1>3. r \in Cpu /\ r.noff = 1 /\ r.at = "run" /\ r.proc = p /\ ~r.intr /\ ~r.intena
  BY <1>1, <1>2, PushOffOK DEF Cpu, PCs, Open, InMonitor, OnLock, HartOK
<1>4. x \in Th /\ x.pc = "wakeup" /\ x.trap = "no" /\ x.i = 1 /\ x.arg = th[p].arg
  BY Zenon, <1>1 DEF Th, PCs, PlaceOK
<1>5. /\ cpu' = [cpu EXCEPT ![c] = r] /\ th' = [th EXCEPT ![p] = x]
      /\ lk' = [lk EXCEPT ![th[p].arg] = c] /\ locked' = [locked EXCEPT ![th[p].arg] = FALSE] /\ lpid' = [lpid EXCEPT ![th[p].arg] = 0]
      /\ panic' = FALSE /\ UNCHANGED <<plock, state, chan, killed>>
  BY Zenon, <1>1 DEF releasesleep, At, Runs, Goto, procVars, lockVars, Types, Th, Cpu
<1> HIDE DEF r, x
<1>6. Types'
  BY <1>1, <1>3, <1>4, <1>5 DEF Types
<1>7. cpu'[c] = r /\ th'[p] = x /\ Frame(c, p)
  BY Zenon, <1>1, <1>3, <1>5 DEF Types, Frame
<1>8. /\ HartOK(c)' /\ PlaceOK(p)' /\ plock'[p] \in {0, c} /\ state'[p] # "SLEEPING"
  <2>1. Depth(x) = r.noff
    BY <1>1, <1>3, <1>4 DEF Depth, Locked, InMonitor, Open
  <2>2. HartOK(c)'
    BY ZenonT(30), <1>1, <1>2, <1>3, <1>4, <1>5, <1>7, <2>1 DEF Types, HartOK, Locked, Open, InMonitor
  <2>3. PlaceOK(p)'
    BY Zenon, <1>1, <1>4, <1>7 DEF PlaceOK, Locked, Open, OnLock, InMonitor
  <2> QED BY Zenon, <1>1, <1>2, <1>5, <2>2, <2>3 DEF Types
<1>9. LockOK(p)'
  BY <1>1, <1>2, <1>3, <1>4, <1>5, <1>7 DEF Types, LockOK, PCs, Open, InMonitor, OnLock
<1>10. \A k \in Locks : k # l /\ WaitsOn(p, k)' => WaitsOn(p, k)
  BY Zenon, <1>1, <1>4, <1>5, <1>7 DEF WaitsOn
<1>11. /\ \A k \in Locks : k # l => lk'[k] = lk[k] /\ locked'[k] = locked[k] /\ lpid'[k] = lpid[k]
       /\ (locked'[l] <=> lpid'[l] # 0) /\ (lpid'[l] = lpid[l] \/ lpid[l] \in {0, p})
  BY <1>1, <1>5 DEF Types, WordsOK, LockOK
<1>12. lk'[l] = 0 \/ (lk'[l] = c /\ cpu'[c].at = "run" /\ th'[p].pc \in InMonitor /\ th'[p].arg = l)
  BY Zenon, <1>1, <1>3, <1>4, <1>5, <1>7 DEF Types, InMonitor
<1>13. MonitorOnly(c, p, l)
  BY Zenon, <1>1, <1>10, <1>11, <1>12 DEF MonitorOnly
<1> HIDE DEF l
<1>14. (\A q \in Procs : LockOK(q)') /\ WordsOK'
  BY Zenon, <1>1, <1>2, <1>6, <1>7, <1>9, <1>13, MonitorStep
<1> QED BY Zenon, <1>2, <1>6, <1>7, <1>8, <1>14, LocalStep

\* releasesleep() gives lk back.
LEMMA WakeupDoneStep ==
  ASSUME NEW c \in CPUs, NEW p \in Procs, SchedInv, WakeupDone(c, p)
  PROVE  SchedInv'
<1> DEFINE r == PopOff(cpu[c])
           x == [th[p] EXCEPT !.pc = "check", !.arg = 0, !.i = 1]
           l == th[p].arg
<1> USE TableAssumption DEF Procs
<1>1. /\ Runs(c, p) /\ th[p].pc = "wakeup" /\ th[p].trap = "no" /\ l \in Locks /\ lk[l] \in {0, c}
      /\ Types /\ cpu[c] \in Cpu /\ th[p] \in Th /\ HartOK(c) /\ PlaceOK(p) /\ ProcOK(p) /\ LockOK(p) /\ WordsOK
  <2>1. /\ Runs(c, p) /\ th[p].pc = "wakeup" /\ th[p].trap = "no"
        /\ Types /\ cpu[c] \in Cpu /\ th[p] \in Th /\ HartOK(c) /\ PlaceOK(p) /\ ProcOK(p) /\ LockOK(p) /\ WordsOK
    BY Zenon, Running DEF WakeupDone, At
  <2>2. l \in Locks
    BY Zenon, <2>1 DEF PlaceOK, OnLock, InMonitor
  <2>3. lk[l] \in {0, c}
    <3>1. lk[l] \in CPUs /\ cpu[lk[l]].proc = p
      BY Zenon, <2>1 DEF LockOK, InMonitor
    <3>2. p # 0
      OBVIOUS
    <3> QED BY Zenon, <2>1, <3>1, <3>2 DEF WordsOK, Runs
  <2> QED BY Zenon, <2>1, <2>2, <2>3
<1>2. /\ cpu[c].noff = 1 /\ plock[p] = (IF Locked(th[p]) THEN c ELSE 0)
      /\ state[p] = "RUNNING" /\ cpu[c].at = "run" /\ cpu[c].proc = p /\ ~cpu[c].intr
  <2>1. Depth(th[p]) = 1
    BY <1>1 DEF Depth, Locked, InMonitor, Open
  <2>2. th[p].pc \notin Open
    BY Zenon, <1>1 DEF Open
  <2>3. /\ cpu[c].noff = Depth(th[p]) /\ plock[p] = (IF Locked(th[p]) THEN c ELSE 0)
        /\ state[p] = "RUNNING" /\ cpu[c].at = "run" /\ cpu[c].proc = p
        /\ cpu[c].intr => th[p].trap = "no" /\ th[p].pc \in Open
    BY Zenon, <1>1, Running
  <2> QED BY Zenon, <2>1, <2>2, <2>3
<1>3. r \in Cpu /\ r.noff = 0 /\ r.at = "run" /\ r.proc = p /\ ~r.intr
  <2>1. ~cpu[c].intena
    BY Zenon, <1>1, <1>2 DEF HartOK, InMonitor
  <2>2. /\ r \in Cpu /\ r.noff = cpu[c].noff - 1 /\ r.at = cpu[c].at /\ r.proc = cpu[c].proc
        /\ r.intr = (cpu[c].noff = 1 /\ cpu[c].intena) /\ r.intena = cpu[c].intena
    BY Zenon, <1>1, PopOffOK
  <2> HIDE DEF r
  <2>3. r.noff = 0
    BY <1>2, <2>2
  <2> QED BY Zenon, <1>2, <2>1, <2>2, <2>3
<1>4. x \in Th /\ x.pc = "check" /\ x.trap = "no" /\ x.i = 1
  <2>1. 0 \in Locks \cup 0..NPROC /\ 1 \in 1..NPROC + 1
    OBVIOUS
  <2> QED BY Zenon, <1>1, <2>1 DEF Th, PCs
<1>5. /\ cpu' = [cpu EXCEPT ![c] = r] /\ th' = [th EXCEPT ![p] = x]
      /\ lk' = [lk EXCEPT ![th[p].arg] = 0] /\ locked' = locked /\ lpid' = lpid
      /\ panic' = FALSE /\ UNCHANGED <<plock, state, chan, killed>>
  BY Zenon, <1>1 DEF WakeupDone, At, Runs, Goto, procVars, lockVars, Types, Th, Cpu
<1> HIDE DEF r, x
<1>6. Types'
  BY Zenon, <1>1, <1>3, <1>4, <1>5 DEF Types
<1>7. cpu'[c] = r /\ th'[p] = x /\ Frame(c, p)
  BY Zenon, <1>1, <1>3, <1>5 DEF Types, Frame
<1>8. /\ HartOK(c)' /\ PlaceOK(p)' /\ plock'[p] \in {0, c} /\ state'[p] # "SLEEPING"
  <2>1. Depth(x) = r.noff
    BY <1>1, <1>3, <1>4 DEF Depth, Locked, InMonitor, Open
  <2>2. HartOK(c)'
    BY Zenon, <1>1, <1>2, <1>3, <1>4, <1>5, <1>7, <2>1 DEF Types, HartOK, Locked, Open, InMonitor
  <2>3. PlaceOK(p)'
    BY Zenon, <1>1, <1>4, <1>7 DEF PlaceOK, Locked, Open, OnLock, InMonitor
  <2> QED BY Zenon, <1>1, <1>2, <1>5, <2>2, <2>3 DEF Types
<1>9. LockOK(p)'
  BY Zenon, <1>1, <1>2, <1>3, <1>4, <1>5, <1>7 DEF Types, LockOK, PCs, Open, InMonitor, OnLock
<1>10. \A k \in Locks : k # l /\ WaitsOn(p, k)' => WaitsOn(p, k)
  BY Zenon, <1>1, <1>4, <1>5, <1>7 DEF WaitsOn
<1>11. /\ \A k \in Locks : k # l => lk'[k] = lk[k] /\ locked'[k] = locked[k] /\ lpid'[k] = lpid[k]
       /\ (locked'[l] <=> lpid'[l] # 0) /\ (lpid'[l] = lpid[l] \/ lpid[l] \in {0, p})
  BY <1>1, <1>5 DEF Types, WordsOK, LockOK
<1>12. lk'[l] = 0 \/ (lk'[l] = c /\ cpu'[c].at = "run" /\ th'[p].pc \in InMonitor /\ th'[p].arg = l)
  BY Zenon, <1>1, <1>3, <1>4, <1>5, <1>7 DEF Types, InMonitor
<1>13. MonitorOnly(c, p, l)
  BY Zenon, <1>1, <1>10, <1>11, <1>12 DEF MonitorOnly
<1> HIDE DEF l
<1>14. (\A q \in Procs : LockOK(q)') /\ WordsOK'
  BY Zenon, <1>1, <1>2, <1>6, <1>7, <1>9, <1>13, MonitorStep
<1> QED BY Zenon, <1>2, <1>6, <1>7, <1>8, <1>14, LocalStep

\* A thread that makes sleepers runnable and else only moves on in its loop.
LEMMA WakenStep ==
  ASSUME NEW c \in CPUs, NEW p \in Procs, SchedInv, Runs(c, p), Types', PlaceOK(p)', LockOK(p)',
         UNCHANGED <<cpu, chan, plock, lk, locked, lpid>>,
         \A q \in Procs : q # p => th'[q] = th[q],
         \A q \in Procs : state'[q] = state[q] \/ (state[q] = "SLEEPING" /\ state'[q] = "RUNNABLE"),
         th[p].trap = "no" /\ th'[p].trap = "no" /\ th'[p].intena = th[p].intena,
         \/ th[p].pc = "wakeup" /\ th'[p].pc = "wakeup" /\ th'[p].arg = th[p].arg
         \/ th[p].pc = "kill" /\ th'[p].pc \in {"kill", "check"}
  PROVE  SchedInv'
<1> USE TableAssumption DEF Procs
<1>0. /\ Types /\ WordsOK /\ (\A d \in CPUs : HartOK(d))
      /\ \A q \in Procs : PlaceOK(q) /\ ProcOK(q) /\ LockOK(q)
  BY Zenon DEF SchedInv
<1>1. cpu[c].at = "run" /\ cpu[c].proc = p /\ state[p] = "RUNNING" /\ state'[p] = "RUNNING"
  <2>1. cpu[c].at = "run" /\ cpu[c].proc = p /\ state[p] = "RUNNING"
    BY Zenon, Running
  <2> QED BY Zenon, <2>1
<1>2. \A q \in Procs : Parked(q) /\ q # p => Parked(q)'
  BY Zenon DEF Parked
<1>3. \A q \in Procs : state[q] = "RUNNING" => state'[q] = "RUNNING"
  BY Zenon
<1>4. HartOK(c)'
  BY Zenon, <1>0, <1>1 DEF HartOK, Depth, Locked, InMonitor, Open
<1>5. ASSUME NEW d \in CPUs, d # c PROVE HartOK(d)'
  <2>1. CASE cpu[d].at = "scan"
    BY Zenon, <1>0, <2>1 DEF HartOK
  <2>2. CASE cpu[d].at # "scan"
    <3>1. PICK q \in Procs : q = cpu[d].proc
      BY Zenon, <1>0, <2>2 DEF HartOK
    <3>2. q # p
      <4>1. q # 0
        OBVIOUS
      <4> QED BY Zenon, <1>0, <1>1, <1>5, <3>1, <4>1 DEF WordsOK
    <3>3. th'[q] = th[q] /\ (Parked(q) => Parked(q)') /\ (state[q] = "RUNNING" => state'[q] = "RUNNING")
      BY Zenon, <1>2, <1>3, <3>2
    <3>4. HartOK(d)
      BY Zenon, <1>0
    <3>5. CASE cpu[d].at = "run"
      BY Zenon, <3>1, <3>3, <3>4, <3>5 DEF HartOK
    <3>6. CASE cpu[d].at = "back"
      BY Zenon, <3>1, <3>3, <3>4, <3>6 DEF HartOK
    <3>7. cpu[d].at \in {"run", "back"}
      BY ZenonT(30), <1>0, <2>2 DEF Types, Cpu
    <3> QED BY Zenon, <3>5, <3>6, <3>7
  <2> QED BY Zenon, <2>1, <2>2
<1>6. ASSUME NEW q \in Procs, q # p PROVE PlaceOK(q)' /\ ProcOK(q)'
  <2>1. PlaceOK(q)'
    BY <1>0, <1>6 DEF PlaceOK
  <2>2. ProcOK(q)'
    BY <1>0, <1>2, <1>6 DEF ProcOK
  <2> QED BY Zenon, <2>1, <2>2
<1>7. ProcOK(p)'
  BY Zenon, <1>0, <1>1 DEF ProcOK
<1>8. \A q \in Procs, l \in Locks : WaitsOn(q, l)' => WaitsOn(q, l)
  BY Zenon DEF WaitsOn
<1>9. ASSUME NEW q \in Procs, q # p PROVE LockOK(q)'
  <2>1. th'[q] = th[q] /\ LockOK(q) /\ (th[q].pc = "wakeup" => th[q].arg \in Locks)
    BY Zenon, <1>0, <1>9 DEF PlaceOK, OnLock, InMonitor
  <2> QED BY Zenon, <1>8, <2>1 DEF LockOK
<1>10. WordsOK'
  <2>1. ASSUME NEW l \in Locks, NEW d \in CPUs, lk[l] = d
        PROVE  cpu[d].at = "run" /\ th'[cpu[d].proc].pc \in InMonitor /\ th'[cpu[d].proc].arg = l
    <3>1. cpu[d].at = "run" /\ th[cpu[d].proc].pc \in InMonitor /\ th[cpu[d].proc].arg = l
      BY <1>0, <2>1 DEF WordsOK
    <3>2. cpu[d].proc \in Procs
      BY Zenon, <1>0, <3>1 DEF HartOK
    <3> QED BY Zenon, <3>1, <3>2 DEF InMonitor
  <2> QED BY <1>0, <2>1 DEF WordsOK
<1> QED BY Zenon, <1>4, <1>5, <1>6, <1>7, <1>9, <1>10 DEF SchedInv

\* One entry of the table in wakeup(): with its p->lock free it is not between
\* release(lk) and SLEEPING, so it is behind the scan for good.
LEMMA wakeupStep ==
  ASSUME NEW c \in CPUs, NEW p \in Procs, SchedInv, wakeup(c, p)
  PROVE  SchedInv'
<1> USE TableAssumption DEF Procs
<1>0. PICK q \in Procs, l \in Locks : q = th[p].i /\ l = th[p].arg
  <2>1. th[p].i \in Procs /\ th[p].pc = "wakeup" /\ PlaceOK(p)
    BY Zenon, Running DEF wakeup, At
  <2> QED BY Zenon, <2>1 DEF PlaceOK, OnLock, InMonitor
<1> DEFINE x == [th[p] EXCEPT !.i = q + 1]
<1>1. /\ Runs(c, p) /\ th[p].pc = "wakeup" /\ th[p].trap = "no"
      /\ Types /\ th[p] \in Th /\ PlaceOK(p) /\ LockOK(p) /\ state[p] = "RUNNING"
  BY Zenon, Running DEF wakeup, At
<1>2. x \in Th /\ x.pc = "wakeup" /\ x.trap = "no" /\ x.arg = l /\ x.i = q + 1 /\ x.intena = th[p].intena
  BY <1>0, <1>1 DEF Th
<1>3. /\ th' = [th EXCEPT ![p] = x] /\ UNCHANGED <<cpu, chan, killed, plock, lk, locked, lpid, panic>>
      /\ q # p => plock[q] = 0
      /\ state' = [state EXCEPT ![q] = IF q # p /\ state[q] = "SLEEPING" /\ chan[q] = l
                                       THEN "RUNNABLE" ELSE state[q]]
  BY Zenon, <1>0, <1>1 DEF wakeup, lockVars, Types, Th
<1> HIDE DEF x
<1>4. Types' /\ th'[p] = x /\ \A s \in Procs : s # p => th'[s] = th[s]
  BY Zenon, <1>1, <1>2, <1>3 DEF Types
<1>5. \A s \in Procs : state'[s] = state[s] \/ (state[s] = "SLEEPING" /\ state'[s] = "RUNNABLE")
  BY Zenon, <1>1, <1>3 DEF Types
<1>6. PlaceOK(p)'
  BY Zenon, <1>1, <1>2, <1>4 DEF PlaceOK, Locked, OnLock, InMonitor, Open
<1>7. ~WaitsOn(q, l)'
  <2>1. CASE q = p
    BY Zenon, <1>1, <1>2, <1>3, <1>4, <2>1 DEF WaitsOn, Types
  <2>2. CASE q # p
    <3>1. th[q].pc # "sched"
      <4> SUFFICES ASSUME th[q].pc = "sched" PROVE FALSE
        BY Zenon
      <4>1. plock[q] = 0 /\ ProcOK(q) /\ PlaceOK(q) /\ \A d \in CPUs : HartOK(d)
        BY Zenon, <1>1, <1>3, <2>2 DEF SchedInv
      <4>2. ~Parked(q) /\ th[q].trap = "no"
        BY Zenon, <4>1 DEF Parked, PlaceOK, Open
      <4>3. PICK d \in CPUs : cpu[d].proc = q
        BY Zenon, <4>1, <4>2 DEF ProcOK
      <4>4. Locked(th[q])
        BY Zenon, <4>2 DEF Locked
      <4>5. plock[q] = d
        <5>1. cpu[d].at \in {"scan", "run", "back"}
          BY Zenon, <1>1 DEF Types, Cpu
        <5>2. cpu[d].at = "run"
          BY <4>1, <4>2, <4>3, <5>1 DEF HartOK
        <5> QED BY Zenon, <4>1, <4>3, <4>4, <5>2 DEF HartOK
      <4> QED BY <4>1, <4>5
    <3>2. ~(state'[q] = "SLEEPING" /\ chan'[q] = l)
      BY Zenon, <1>1, <1>3, <2>2 DEF Types
    <3> QED BY Zenon, <1>4, <2>2, <3>1, <3>2 DEF WaitsOn
  <2> QED BY Zenon, <2>1, <2>2
<1>8. LockOK(p)'
  <2>1. \A s \in Procs : WaitsOn(s, l)' => WaitsOn(s, l)
    BY Zenon, <1>1, <1>2, <1>3, <1>4, <1>5 DEF WaitsOn
  <2>2. \A s \in Procs : s < q => ~WaitsOn(s, l)
    BY Zenon, <1>0, <1>1 DEF LockOK
  <2>3. \A s \in Procs : s < q + 1 => ~WaitsOn(s, l)'
    BY <1>1, <1>7, <2>1, <2>2
  <2> QED BY Zenon, <1>0, <1>1, <1>2, <1>3, <1>4, <2>3 DEF LockOK, InMonitor
<1> QED BY Zenon, <1>0, <1>1, <1>2, <1>3, <1>4, <1>5, <1>6, <1>8, WakenStep

\* kill() goes through the table up to its victim, and wakes it.
LEMMA killStep ==
  ASSUME NEW c \in CPUs, NEW p \in Procs, SchedInv, kill(c, p)
  PROVE  SchedInv'
<1> DEFINE q == th[p].i
           x == IF q = th[p].arg THEN [th[p] EXCEPT !.pc = "check", !.arg = 0, !.i = 1]
                ELSE [th[p] EXCEPT !.i = q + 1]
<1> USE TableAssumption DEF Procs
<1>1. /\ Runs(c, p) /\ th[p].pc = "kill" /\ th[p].trap = "no" /\ Types /\ th[p] \in Th
      /\ th[p].arg \in Procs /\ q \in Procs /\ q <= th[p].arg
  <2>1. /\ Runs(c, p) /\ th[p].pc = "kill" /\ th[p].trap = "no" /\ Types /\ th[p] \in Th /\ PlaceOK(p)
    BY Zenon, Running DEF kill, At
  <2>2. th[p].i \in 1..NPROC + 1
    BY Zenon, <2>1 DEF Th
  <2> QED BY <2>1, <2>2 DEF PlaceOK
<1>2. x \in Th /\ x.trap = "no" /\ x.intena = th[p].intena
      /\ \/ x.pc = "check" /\ x.i = 1
         \/ x.pc = "kill" /\ x.i = q + 1 /\ x.arg = th[p].arg /\ q # th[p].arg
  <2>1. 0 \in Locks \cup 0..NPROC /\ 1 \in 1..NPROC + 1 /\ q + 1 \in 1..NPROC + 1
    BY <1>1
  <2>2. CASE q = th[p].arg
    <3> DEFINE y == [th[p] EXCEPT !.pc = "check", !.arg = 0, !.i = 1]
    <3>1. y \in Th /\ y.trap = "no" /\ y.intena = th[p].intena /\ y.pc = "check" /\ y.i = 1
      BY Zenon, <1>1, <2>1 DEF Th, PCs
    <3>2. x = y
      BY Zenon, <2>2
    <3> HIDE DEF x, y
    <3> QED BY Zenon, <3>1, <3>2
  <2>3. CASE q # th[p].arg
    <3> DEFINE y == [th[p] EXCEPT !.i = q + 1]
    <3>1. y \in Th /\ y.trap = "no" /\ y.intena = th[p].intena /\ y.pc = "kill" /\ y.i = q + 1 /\ y.arg = th[p].arg
      BY Zenon, <1>1, <2>1 DEF Th
    <3>2. x = y
      BY Zenon, <2>3
    <3> HIDE DEF x, y
    <3> QED BY Zenon, <2>3, <3>1, <3>2
  <2> QED BY Zenon, <2>2, <2>3
<1>3. th' = [th EXCEPT ![p] = x] /\ UNCHANGED <<cpu, chan, plock, lk, locked, lpid, panic>>
  BY Zenon, <1>1 DEF kill, lockVars, Types
<1>4. /\ killed' \in [Procs -> BOOLEAN] /\ state' \in [Procs -> {"RUNNABLE", "RUNNING", "SLEEPING", "ZOMBIE"}]
      /\ \A s \in Procs : state'[s] = state[s] \/ (state[s] = "SLEEPING" /\ state'[s] = "RUNNABLE")
  <2>1. CASE q = th[p].arg
    <3>1. /\ killed' = [killed EXCEPT ![q] = TRUE]
          /\ state' = [state EXCEPT ![q] = IF state[q] = "SLEEPING" THEN "RUNNABLE" ELSE state[q]]
      BY Zenon, <1>1, <2>1 DEF kill, Types
    <3> QED BY Zenon, <1>1, <3>1 DEF Types
  <2>2. CASE q # th[p].arg
    <3>1. UNCHANGED <<killed, state>>
      BY Zenon, <2>2 DEF kill
    <3> QED BY Zenon, <1>1, <3>1 DEF Types
  <2> QED BY Zenon, <2>1, <2>2
<1> HIDE DEF x
<1>5. Types' /\ th'[p] = x /\ \A s \in Procs : s # p => th'[s] = th[s]
  BY Zenon, <1>1, <1>2, <1>3, <1>4 DEF Types
<1>6. PlaceOK(p)' /\ LockOK(p)'
  BY <1>1, <1>2, <1>5 DEF PlaceOK, LockOK, Locked, OnLock, InMonitor, Open
<1> QED BY Zenon, <1>1, <1>2, <1>3, <1>4, <1>5, <1>6, WakenStep

\* scheduler() moves on in the table.
LEMMA ScanStep ==
  ASSUME NEW c \in CPUs, SchedInv, cpu[c].at = "scan", NEW r \in Cpu, cpu' = [cpu EXCEPT ![c] = r],
         r.at = "scan", r.proc = 0, r.noff = 0,
         UNCHANGED <<state, chan, killed, plock, lk, locked, lpid, th, panic>>
  PROVE  SchedInv'
<1> USE TableAssumption DEF Procs
<1>0. /\ Types /\ WordsOK /\ (\A d \in CPUs : HartOK(d))
      /\ \A q \in Procs : PlaceOK(q) /\ ProcOK(q) /\ LockOK(q)
  BY Zenon DEF SchedInv
<1>1. Types' /\ cpu'[c] = r /\ \A d \in CPUs : d # c => cpu'[d] = cpu[d]
  BY Zenon, <1>0 DEF Types
<1>2. cpu[c].proc = 0 /\ \A d \in CPUs : cpu'[d].proc = cpu[d].proc
  BY <1>0, <1>1 DEF HartOK
<1>3. ASSUME NEW d \in CPUs PROVE HartOK(d)'
  <2>1. CASE d = c
    BY Zenon, <1>1, <2>1 DEF HartOK
  <2>2. CASE d # c
    BY Zenon, <1>0, <1>1, <2>2, HartSame
  <2> QED BY Zenon, <2>1, <2>2
<1>4. \A q \in Procs : PlaceOK(q)' /\ ProcOK(q)'
  BY <1>0, <1>2 DEF PlaceOK, ProcOK, Parked
<1>5. ASSUME NEW q \in Procs PROVE LockOK(q)'
  BY Zenon, <1>0, <1>2 DEF LockOK, WaitsOn
<1>6. WordsOK'
  BY <1>0, <1>1, <1>2 DEF WordsOK
<1> QED BY Zenon, <1>1, <1>3, <1>4, <1>5, <1>6 DEF SchedInv

LEMMA SchedLoopStep ==
  ASSUME NEW c \in CPUs, SchedInv, SchedLoop(c) PROVE SchedInv'
<1> DEFINE r == [cpu[c] EXCEPT !.i = 1, !.intr = TRUE]
<1>1. cpu[c] \in Cpu /\ cpu[c].at = "scan" /\ cpu[c].proc = 0 /\ cpu[c].noff = 0 /\ 1 \in 1..NPROC + 1
  BY TableAssumption DEF SchedLoop, SchedInv, Types, HartOK
<1>2. r \in Cpu /\ r.at = "scan" /\ r.proc = 0 /\ r.noff = 0
  BY Zenon, <1>1 DEF Cpu
<1>3. cpu' = [cpu EXCEPT ![c] = r] /\ UNCHANGED <<state, chan, killed, plock, lk, locked, lpid, th, panic>>
  BY Zenon DEF SchedLoop, procVars, lockVars, SchedInv, Types
<1> HIDE DEF r
<1> QED BY Zenon, <1>1, <1>2, <1>3, ScanStep

\* A RUNNABLE process with a free p->lock is on no hart: the scheduler takes it with
\* p->lock, which the thread finds held where it continues.
LEMMA SchedScanStep ==
  ASSUME NEW c \in CPUs, SchedInv, SchedScan(c) PROVE SchedInv'
<1> USE TableAssumption DEF Procs
<1>0. /\ Types /\ WordsOK /\ (\A d \in CPUs : HartOK(d))
      /\ \A q \in Procs : PlaceOK(q) /\ ProcOK(q) /\ LockOK(q)
  BY Zenon DEF SchedInv
<1>1. PICK p \in Procs : p = cpu[c].i
  BY Zenon DEF SchedScan
<1>2. cpu[c] \in Cpu /\ cpu[c].at = "scan" /\ cpu[c].proc = 0 /\ cpu[c].noff = 0 /\ plock[p] = 0
  BY <1>0, <1>1 DEF SchedScan, Types, HartOK
<1>3. CASE state[p] # "RUNNABLE"
  <2> DEFINE r == [cpu[c] EXCEPT !.i = p + 1]
  <2>1. r \in Cpu /\ r.at = "scan" /\ r.proc = 0 /\ r.noff = 0
    BY <1>2 DEF Cpu
  <2>2. cpu' = [cpu EXCEPT ![c] = r] /\ UNCHANGED <<state, chan, killed, plock, lk, locked, lpid, th, panic>>
    BY Zenon, <1>0, <1>1, <1>3 DEF SchedScan, lockVars, Types
  <2> HIDE DEF r
  <2> QED BY Zenon, <1>2, <2>1, <2>2, ScanStep
<1>4. CASE state[p] = "RUNNABLE"
  <2> DEFINE r == [PushOff(cpu[c]) EXCEPT !.proc = p, !.at = "run"]
  <2>1. r \in Cpu /\ r.at = "run" /\ r.proc = p /\ r.noff = 1 /\ ~r.intr
    <3>1. p \in 0..NPROC
      BY <1>1
    <3> QED BY Zenon, <3>1, <1>2, SwitchToOK, Zenon
  <2>2. /\ cpu' = [cpu EXCEPT ![c] = r] /\ plock' = [plock EXCEPT ![p] = c]
        /\ state' = [state EXCEPT ![p] = "RUNNING"] /\ UNCHANGED <<chan, killed, lk, locked, lpid, th, panic>>
    BY Zenon, <1>0, <1>1, <1>4 DEF SchedScan, lockVars, Types
  <2> HIDE DEF r
  <2>3. Types' /\ cpu'[c] = r /\ \A d \in CPUs : d # c => cpu'[d] = cpu[d]
    BY Zenon, <1>0, <2>1, <2>2 DEF Types
  <2>4. /\ plock'[p] = c /\ state'[p] = "RUNNING"
        /\ \A q \in Procs : q # p => plock'[q] = plock[q] /\ state'[q] = state[q]
    BY Zenon, <1>0, <2>2 DEF Types
  <2>5. \A d \in CPUs : cpu[d].proc # p
    <3> SUFFICES ASSUME NEW d \in CPUs, cpu[d].proc = p PROVE FALSE
      BY Zenon
    <3>1. HartOK(d) /\ cpu[d].at \in {"scan", "run", "back"}
      BY Zenon, <1>0 DEF Types, Cpu
    <3> QED BY <1>2, <1>4, <3>1 DEF HartOK
  <2>6. Parked(p)
    BY Zenon, <1>0, <2>5 DEF ProcOK
  <2>8. Locked(th[p]) /\ Depth(th[p]) = 1 /\ th[p].pc \notin InMonitor \cup {"sched"}
        /\ (th[p].trap = "no" => th[p].pc # "user")
    BY <1>0, <2>6, <1>4 DEF PlaceOK, Parked, Locked, Depth, InMonitor, Open
  <2>9. HartOK(c)'
    BY Zenon, <2>1, <2>2, <2>3, <2>4, <2>8 DEF HartOK, Types
  <2>10. ASSUME NEW d \in CPUs, d # c PROVE HartOK(d)'
    <3>1. \A q \in Procs : q = cpu[d].proc => th'[q] = th[q] /\ plock'[q] = plock[q] /\ state'[q] = state[q]
      BY Zenon, <2>2, <2>4, <2>5
    <3> QED BY Zenon, <1>0, <2>3, <2>10, <3>1, HartSame
  <2>11. \A q \in Procs : PlaceOK(q)'
    BY Zenon, <1>0, <2>2 DEF PlaceOK
  <2>12. ASSUME NEW q \in Procs PROVE ProcOK(q)'
    <3>1. CASE q = p
      BY <1>0, <2>1, <2>3, <2>4, <3>1 DEF ProcOK, Types
    <3>2. CASE q # p
      BY <1>0, <1>2, <2>1, <2>2, <2>3, <2>4, <3>2 DEF ProcOK, Parked
    <3> QED BY Zenon, <3>1, <3>2
  <2>13. \A l \in Locks : lk[l] # c
    BY Zenon, <1>0, <1>2 DEF WordsOK
  <2>14. ASSUME NEW q \in Procs PROVE LockOK(q)'
    <3>1. th[q].pc \in InMonitor => th[q].arg \in Locks
      BY Zenon, <1>0 DEF PlaceOK, OnLock
    <3>2. \A t \in Procs, l \in Locks : WaitsOn(t, l)' => WaitsOn(t, l)
      BY Zenon, <2>2, <2>4 DEF WaitsOn
    <3>3. ASSUME th[q].pc \in InMonitor
          PROVE  lk'[th[q].arg] \in CPUs /\ cpu'[lk'[th[q].arg]].proc = q
      <4>1. PICK d \in CPUs : d = lk[th[q].arg]
        BY Zenon, <1>0, <3>3 DEF LockOK
      <4>2. cpu[d].proc = q /\ d # c
        BY Zenon, <1>0, <2>13, <3>1, <3>3, <4>1 DEF LockOK
      <4> QED BY Zenon, <2>2, <2>3, <4>1, <4>2
    <3> QED BY Zenon, <1>0, <2>2, <3>1, <3>2, <3>3 DEF LockOK, InMonitor
  <2>15. WordsOK'
    BY <1>0, <2>1, <2>2, <2>3, <2>5, <2>13 DEF WordsOK
  <2> QED BY Zenon, <2>3, <2>9, <2>10, <2>11, <2>12, <2>14, <2>15 DEF SchedInv
<1> QED BY Zenon, <1>3, <1>4

\* Back in scheduler(): the p->lock that came with the thread is given back.
LEMMA SchedBackStep ==
  ASSUME NEW c \in CPUs, SchedInv, SchedBack(c) PROVE SchedInv'
<1> USE TableAssumption DEF Procs
<1>0. /\ Types /\ WordsOK /\ (\A d \in CPUs : HartOK(d))
      /\ \A q \in Procs : PlaceOK(q) /\ ProcOK(q) /\ LockOK(q)
  BY Zenon DEF SchedInv
<1>1. PICK p \in Procs : p = cpu[c].proc
  BY Zenon, <1>0 DEF SchedBack, HartOK
<1>2. cpu[c] \in Cpu /\ cpu[c].at = "back" /\ cpu[c].noff = 1 /\ plock[p] = c /\ Parked(p)
  BY Zenon, <1>0, <1>1 DEF SchedBack, Types, HartOK
<1> DEFINE r == [PopOff(cpu[c]) EXCEPT !.proc = 0, !.at = "scan", !.i = p + 1]
<1>3. r \in Cpu /\ r.at = "scan" /\ r.proc = 0 /\ r.noff = 0
  <2>1. p \in 0..NPROC /\ p + 1 \in 1..NPROC + 1
    BY <1>1
  <2> QED BY Zenon, <1>2, <2>1, SwitchBackOK, Zenon
<1>4. /\ cpu' = [cpu EXCEPT ![c] = r] /\ plock' = [plock EXCEPT ![p] = 0]
      /\ UNCHANGED <<state, chan, killed, lk, locked, lpid, th, panic>>
  BY Zenon, <1>0, <1>1 DEF SchedBack, procVars, lockVars, Types
<1> HIDE DEF r
<1>5. Types' /\ cpu'[c] = r /\ \A d \in CPUs : d # c => cpu'[d] = cpu[d] /\ cpu[d].proc # p
  BY <1>0, <1>1, <1>3, <1>4 DEF Types, WordsOK
<1>6. plock'[p] = 0 /\ \A q \in Procs : q # p => plock'[q] = plock[q]
  BY Zenon, <1>0, <1>4 DEF Types
<1>7. HartOK(c)'
  BY Zenon, <1>3, <1>5 DEF HartOK
<1>8. ASSUME NEW d \in CPUs, d # c PROVE HartOK(d)'
  <2>1. \A q \in Procs : q = cpu[d].proc => th'[q] = th[q] /\ plock'[q] = plock[q] /\ state'[q] = state[q]
    BY Zenon, <1>4, <1>5, <1>6, <1>8
  <2> QED BY Zenon, <1>0, <1>5, <1>8, <2>1, HartSame
<1>9. \A q \in Procs : PlaceOK(q)'
  BY Zenon, <1>0, <1>4 DEF PlaceOK
<1>10. ASSUME NEW q \in Procs PROVE ProcOK(q)'
  <2>1. CASE q = p
    BY <1>0, <1>2, <1>4, <1>6, <2>1 DEF ProcOK, Parked
  <2>2. CASE q # p
    <3>1. q # 0
      OBVIOUS
    <3>2. \A d \in CPUs : cpu'[d].proc = q <=> cpu[d].proc = q
      BY Zenon, <1>1, <1>3, <1>5, <2>2, <3>1
    <3>3. plock'[q] = plock[q] /\ (Parked(q)' <=> Parked(q))
      BY Zenon, <1>4, <1>6, <2>2 DEF Parked
    <3>4. state'[q] = "SLEEPING" => th'[q].pc = "slept" /\ th'[q].trap = "no" /\ chan'[q] = th'[q].arg
      BY Zenon, <1>0, <1>4 DEF ProcOK
    <3>5. (\A d \in CPUs : cpu'[d].proc # q) => plock'[q] = 0 /\ Parked(q)'
      BY Zenon, <1>0, <3>2, <3>3 DEF ProcOK
    <3>6. ASSUME NEW d \in CPUs, plock'[q] = d PROVE cpu'[d].proc = q
      <4>1. plock[q] = d
        BY Zenon, <3>3, <3>6
      <4>2. \A e \in CPUs : plock[q] = e => cpu[e].proc = q
        BY Zenon, <1>0 DEF ProcOK
      <4> QED BY <3>2, <4>1, <4>2
    <3> QED BY Zenon, <3>4, <3>5, <3>6 DEF ProcOK
  <2> QED BY Zenon, <2>1, <2>2
<1>11. \A l \in Locks : lk[l] # c
  BY Zenon, <1>0, <1>2 DEF WordsOK
<1>12. ASSUME NEW q \in Procs PROVE LockOK(q)'
  <2>1. th[q].pc \in InMonitor => th[q].arg \in Locks
    BY Zenon, <1>0 DEF PlaceOK, OnLock
  <2>2. ASSUME th[q].pc \in InMonitor
        PROVE  lk'[th[q].arg] \in CPUs /\ cpu'[lk'[th[q].arg]].proc = q
    <3>1. PICK d \in CPUs : d = lk[th[q].arg]
      BY Zenon, <1>0, <2>2 DEF LockOK
    <3>2. cpu[d].proc = q /\ d # c
      BY Zenon, <1>0, <1>11, <2>1, <2>2, <3>1 DEF LockOK
    <3> QED BY Zenon, <1>4, <1>5, <3>1, <3>2
  <2> QED BY Zenon, <1>0, <1>4, <2>2 DEF LockOK, WaitsOn
<1>13. WordsOK'
  BY <1>0, <1>3, <1>4, <1>5, <1>11 DEF WordsOK
<1> QED BY Zenon, <1>5, <1>7, <1>8, <1>9, <1>10, <1>12, <1>13 DEF SchedInv

-----------------------------------------------------------------------------
LEMMA InitSched == Init => SchedInv
<1> SUFFICES ASSUME Init PROVE SchedInv
  BY Zenon
<1> USE TableAssumption DEF Procs, Init
<1>1. Types
  <2>1. cpu \in [CPUs -> Cpu]
    BY DEF Cpu
  <2>2. th \in [Procs -> Th]
    BY DEF Th, PCs
  <2>3. /\ state \in [Procs -> {"RUNNABLE", "RUNNING", "SLEEPING", "ZOMBIE"}]
        /\ chan \in [Procs -> Locks \cup {0}] /\ plock \in [Procs -> CPUs \cup {0}]
    BY Zenon
  <2>4. lk \in [Locks -> CPUs \cup {0}] /\ lpid \in [Locks -> 0..NPROC]
    OBVIOUS
  <2>5. killed \in [Procs -> BOOLEAN] /\ locked \in [Locks -> BOOLEAN]
    BY Zenon
  <2> QED BY Zenon, <2>1, <2>2, <2>3, <2>4, <2>5 DEF Types
<1>2. \A p \in Procs : PlaceOK(p) /\ ProcOK(p) /\ LockOK(p)
  BY Zenon DEF PlaceOK, ProcOK, LockOK, Parked, Locked, InMonitor, OnLock, Open
<1>3. \A c \in CPUs : HartOK(c)
  BY Zenon DEF HartOK
<1>4. WordsOK
  BY Zenon DEF WordsOK
<1> QED BY Zenon, <1>1, <1>2, <1>3, <1>4 DEF SchedInv

LEMMA SchedInductive == SchedInv /\ [Next]_vars => SchedInv'
<1> SUFFICES ASSUME SchedInv, [Next]_vars PROVE SchedInv'
  BY Zenon
<1>1. CASE UNCHANGED vars
  <2>0. UNCHANGED <<cpu, th, state, chan, killed, plock, lk, locked, lpid, panic>>
    BY Zenon, <1>1 DEF vars
  <2>1. Types' /\ WordsOK'
    BY Zenon, <2>0 DEF SchedInv, Types, WordsOK
  <2>2. ASSUME NEW p \in Procs PROVE PlaceOK(p)' /\ ProcOK(p)' /\ LockOK(p)'
    <3>1. PlaceOK(p) /\ ProcOK(p) /\ LockOK(p)
      BY Zenon DEF SchedInv
    <3>2. PlaceOK(p)'
      BY Zenon, <2>0, <3>1 DEF PlaceOK
    <3>3. ProcOK(p)'
      BY Zenon, <2>0, <3>1 DEF ProcOK, Parked
    <3>4. LockOK(p)'
      BY Zenon, <2>0, <3>1 DEF LockOK, WaitsOn
    <3> QED BY Zenon, <3>2, <3>3, <3>4
  <2>3. \A c \in CPUs : HartOK(c)'
    BY Zenon, <2>0, HartSame DEF SchedInv
  <2> QED BY Zenon, <2>1, <2>2, <2>3 DEF SchedInv
<1>2. ASSUME NEW c \in CPUs, SchedStep(c) PROVE SchedInv'
  BY Zenon, <1>2, SchedScanStep, SchedBackStep, SchedLoopStep DEF SchedStep
<1>3. ASSUME NEW c \in CPUs, NEW p \in Procs, Thread(c, p) PROVE SchedInv'
  <2>1. CASE forkret(c, p) \/ usertrapret(c, p) \/ CheckKilled(c, p) \/ exit(c, p)
    BY Zenon, <2>1, forkretStep, usertrapretStep, CheckKilledStep, exitStep
  <2>2. CASE TestLocked(c, p)
    BY Zenon, <2>2, TestLockedSleepStep, TestLockedTakeStep
  <2>3. CASE AcquireLk(c, p) \/ SleepAcquire(c, p) \/ SleepRelease(c, p) \/ SleepSched(c, p) \/ SleepReturn(c, p)
    BY Zenon, <2>3, AcquireLkStep, SleepAcquireStep, SleepReleaseStep, SleepSchedStep, SleepReturnStep
  <2>4. CASE releasesleep(c, p) \/ wakeup(c, p) \/ WakeupDone(c, p) \/ kill(c, p)
    BY Zenon, <2>4, releasesleepStep, wakeupStep, WakeupDoneStep, killStep
  <2> QED BY Zenon, <1>3, <2>1, <2>2, <2>3, <2>4 DEF Thread
<1>4. ASSUME NEW c \in CPUs, NEW p \in Procs, TrapStep(c, p) \/ TimerTrap(c, p) PROVE SchedInv'
  BY Zenon, <1>4, yieldStep, YieldReturnStep, TrapReturnStep, TimerTrapStep DEF TrapStep
<1>5. ASSUME NEW c \in CPUs, NEW p \in Procs, NEW l \in Locks, Syscall(c, p, "acquire", l) PROVE SchedInv'
  BY Zenon, <1>5, SyscallStep
<1>6. ASSUME NEW c \in CPUs, NEW p \in Procs, NEW q \in Victims, Syscall(c, p, "kill", q) PROVE SchedInv'
  <2>1. q \in Procs
    BY Zenon, TableAssumption DEF Procs
  <2> QED BY Zenon, <1>6, <2>1, SyscallStep
<1> QED BY Zenon, <1>1, <1>2, <1>3, <1>4, <1>5, <1>6 DEF Next

\* For any number of processes, harts and sleep locks: sched() never panics, a process
\* is run by one hart at most, and interrupts are off in the kernel wherever a thread
\* that has slept or yielded continues.
THEOREM SchedSafe == Spec => [](NoPanic /\ OneHartPerProcess /\ InterruptsFollowThread)
<1>1. SchedInv => NoPanic /\ OneHartPerProcess /\ InterruptsFollowThread
  <2> SUFFICES ASSUME SchedInv PROVE NoPanic /\ OneHartPerProcess /\ InterruptsFollowThread
    BY Zenon
  <2> USE TableAssumption DEF Procs
  <2>0. /\ Types /\ WordsOK /\ (\A c \in CPUs : HartOK(c) /\ cpu[c].at \in {"scan", "run", "back"})
        /\ \A q \in Procs : PlaceOK(q) /\ ProcOK(q) /\ LockOK(q)
    BY Zenon DEF SchedInv, Types, Cpu
  <2>1. NoPanic
    BY Zenon, <2>0 DEF NoPanic, Types
  <2>2. \A c, d \in CPUs : c # d /\ cpu[c].proc # 0 => cpu[c].proc # cpu[d].proc
    BY Zenon, <2>0 DEF WordsOK
  <2>3. ASSUME NEW p \in Procs, plock[p] = 0, state[p] = "RUNNING" PROVE \E c \in CPUs : Runs(c, p)
    <3>1. PICK c \in CPUs : cpu[c].proc = p
      BY Zenon, <2>0, <2>3 DEF ProcOK, Parked
    <3>2. cpu[c].at = "run"
      <4>1. p # 0
        OBVIOUS
      <4>2. HartOK(c) /\ cpu[c].at \in {"scan", "run", "back"}
        BY Zenon, <2>0
      <4>3. cpu[c].at # "scan"
        BY Zenon, <3>1, <4>1, <4>2 DEF HartOK
      <4>4. ~Parked(p)
        BY <2>3 DEF Parked
      <4>5. cpu[c].at # "back"
        BY Zenon, <3>1, <4>2, <4>4 DEF HartOK
      <4> QED BY Zenon, <4>2, <4>3, <4>5
    <3> QED BY Zenon, <3>1, <3>2 DEF Runs
  <2>4. ASSUME NEW p \in Procs, NEW c \in CPUs, Runs(c, p) PROVE state[p] = "RUNNING"
    BY Zenon, <2>4, Running
  <2>5. OneHartPerProcess
    BY Zenon, <2>2, <2>3, <2>4 DEF OneHartPerProcess
  <2>6. InterruptsFollowThread
    <3> SUFFICES ASSUME NEW c \in CPUs, NEW p \in Procs, Runs(c, p)
                 PROVE  /\ cpu[c].intr => th[p].trap = "no" /\ th[p].pc \in {"user", "return"}
                        /\ th[p].trap = "no" /\ th[p].pc = "user" => cpu[c].intr
      BY Zenon DEF InterruptsFollowThread
    <3> QED BY Zenon, <2>0 DEF HartOK, Runs, Open
  <2> QED BY Zenon, <2>1, <2>5, <2>6
<1> QED BY <1>1, InitSched, SchedInductive, PTL DEF Spec

-----------------------------------------------------------------------------
\* The refinement mapping, and what the invariant says of it: the owner of a monitor
\* is the thread inside it.
Owner == [l \in Locks |-> IF lk[l] = 0 THEN 0 ELSE cpu[lk[l]].proc]
Waiting == [l \in Locks |-> {p \in Procs : \/ state[p] = "SLEEPING" /\ chan[p] = l
                                           \/ th[p].pc = "sched" /\ th[p].arg = l}]
Inside(p, l) == th[p].pc \in InMonitor /\ th[p].arg = l
OwnerInside ==
  \A l \in Locks : Owner[l] \in 0..NPROC /\ \A p \in Procs : Owner[l] = p <=> Inside(p, l)

LEMMA OwnerIsInside == SchedInv => OwnerInside
<1> SUFFICES ASSUME SchedInv, NEW l \in Locks
             PROVE  Owner[l] \in 0..NPROC /\ \A p \in Procs : Owner[l] = p <=> Inside(p, l)
  BY Zenon DEF OwnerInside
<1> USE TableAssumption DEF Procs
<1>0. /\ Types /\ WordsOK /\ (\A d \in CPUs : HartOK(d)) /\ lk[l] \in CPUs \cup {0}
      /\ \A q \in Procs : LockOK(q)
  BY Zenon DEF SchedInv, Types
<1>1. \A q \in Procs : Inside(q, l) => lk[l] \in CPUs /\ cpu[lk[l]].proc = q
  BY Zenon, <1>0 DEF LockOK, Inside
<1>2. CASE lk[l] = 0
  <2>1. Owner[l] = 0
    BY Zenon, <1>2 DEF Owner
  <2>2. 0 \in 0..NPROC /\ \A p \in Procs : p # 0
    OBVIOUS
  <2>3. 0 \notin CPUs
    BY Zenon
  <2> QED BY Zenon, <1>1, <1>2, <2>1, <2>2, <2>3
<1>3. CASE lk[l] # 0
  <2>1. PICK d \in CPUs : lk[l] = d
    BY Zenon, <1>0, <1>3
  <2>2. cpu[d].proc \in Procs /\ Inside(cpu[d].proc, l)
    BY <1>0, <2>1 DEF WordsOK, HartOK, Inside
  <2>3. Owner[l] = cpu[d].proc
    BY Zenon, <1>3, <2>1 DEF Owner
  <2> QED BY <1>1, <2>1, <2>2, <2>3
<1> QED BY Zenon, <1>2, <1>3

\* A step that concerns one process p and one sleep lock l changes nothing else of the
\* abstract state.
LEMMA AbstractStep ==
  ASSUME SchedInv, SchedInv', NEW p \in Procs, NEW l \in Locks,
         \A q \in Procs, k \in Locks : q # p \/ k # l =>
           (Inside(q, k)' <=> Inside(q, k)) /\ (WaitsOn(q, k)' <=> WaitsOn(q, k))
  PROVE  /\ Owner' = [Owner EXCEPT ![l] = IF Inside(p, l)' THEN p
                                          ELSE IF Inside(p, l) THEN 0 ELSE Owner[l]]
         /\ Waiting' = [Waiting EXCEPT ![l] = IF WaitsOn(p, l)' THEN Waiting[l] \cup {p}
                                              ELSE Waiting[l] \ {p}]
<1>1. \A k \in Locks : Owner[k] \in 0..NPROC /\ \A q \in Procs : Owner[k] = q <=> Inside(q, k)
  BY Zenon, OwnerIsInside DEF OwnerInside
<1>2. \A k \in Locks : Owner'[k] \in 0..NPROC /\ \A q \in Procs : Owner'[k] = q <=> Inside(q, k)'
  <2>1. OwnerInside'
    BY OwnerIsInside, PTL
  <2> QED BY Zenon, <2>1 DEF OwnerInside
<1>3. ASSUME NEW k \in Locks, k # l PROVE Owner'[k] = Owner[k]
  BY <1>1, <1>2, <1>3, TableAssumption DEF Procs
<1>4. Owner'[l] = IF Inside(p, l)' THEN p ELSE IF Inside(p, l) THEN 0 ELSE Owner[l]
  BY <1>1, <1>2, TableAssumption DEF Procs
<1>5. \A k \in Locks, q \in Procs : /\ q \in Waiting[k] <=> WaitsOn(q, k)
                                    /\ q \in Waiting'[k] <=> WaitsOn(q, k)'
  BY Zenon DEF Waiting, WaitsOn
<1>6. \A k \in Locks : Waiting[k] \subseteq Procs /\ Waiting'[k] \subseteq Procs
  BY Zenon DEF Waiting
<1>7. ASSUME NEW k \in Locks, k # l PROVE Waiting'[k] = Waiting[k]
  <2>1. \A q \in Procs : q \in Waiting'[k] <=> q \in Waiting[k]
    BY Zenon, <1>5, <1>7
  <2> QED BY Zenon, <1>6, <2>1
<1>8. Waiting'[l] = IF WaitsOn(p, l)' THEN Waiting[l] \cup {p} ELSE Waiting[l] \ {p}
  <2>1. \A q \in Procs : q # p => (q \in Waiting'[l] <=> q \in Waiting[l])
    BY Zenon, <1>5
  <2>2. p \in Waiting'[l] <=> WaitsOn(p, l)'
    BY Zenon, <1>5
  <2> QED BY Zenon, <1>6, <2>1, <2>2
<1>9. /\ Owner = [k \in Locks |-> Owner[k]] /\ Owner' = [k \in Locks |-> Owner'[k]]
      /\ Waiting = [k \in Locks |-> Waiting[k]] /\ Waiting' = [k \in Locks |-> Waiting'[k]]
  BY Zenon DEF Owner, Waiting
<1> QED BY Zenon, <1>3, <1>4, <1>7, <1>8, <1>9

\* A step that changes neither who is inside nor who waits is a stutter.
LEMMA QuietStep ==
  ASSUME SchedInv, SchedInv', lpid' = lpid,
         \A q \in Procs, k \in Locks :
           (Inside(q, k)' <=> Inside(q, k)) /\ (WaitsOn(q, k)' <=> WaitsOn(q, k))
  PROVE  UNCHANGED Monitor!vars
<1>1. Owner' = Owner /\ Waiting' = Waiting
  <2>1. CASE Locks = {}
    BY Zenon, <2>1 DEF Owner, Waiting
  <2>2. CASE Locks # {}
    <3>1. PICK l \in Locks : TRUE
      BY Zenon, <2>2
    <3>2. 1 \in Procs
      BY TableAssumption DEF Procs
    <3>3. /\ Owner' = [Owner EXCEPT ![l] = IF Inside(1, l)' THEN 1 ELSE IF Inside(1, l) THEN 0 ELSE Owner[l]]
          /\ Waiting' = [Waiting EXCEPT ![l] = IF WaitsOn(1, l)' THEN Waiting[l] \cup {1} ELSE Waiting[l] \ {1}]
      BY Zenon, <3>2, AbstractStep
    <3>4. Inside(1, l) => Owner[l] = 1
      BY Zenon, <3>2, OwnerIsInside DEF OwnerInside
    <3>5. 1 \in Waiting[l] <=> WaitsOn(1, l)
      BY Zenon, <3>2 DEF Waiting, WaitsOn
    <3>6. Waiting[l] = IF WaitsOn(1, l) THEN Waiting[l] \cup {1} ELSE Waiting[l] \ {1}
      BY Zenon, <3>5
    <3>7. (Inside(1, l)' <=> Inside(1, l)) /\ (WaitsOn(1, l)' <=> WaitsOn(1, l))
      BY Zenon, <3>2
    <3>8. /\ Owner' = [Owner EXCEPT ![l] = Owner[l]] /\ Waiting' = [Waiting EXCEPT ![l] = Waiting[l]]
      BY Zenon, <3>3, <3>4, <3>6, <3>7
    <3>9. Owner = [k \in Locks |-> Owner[k]] /\ Waiting = [k \in Locks |-> Waiting[k]]
      BY Zenon DEF Owner, Waiting
    <3> QED BY Zenon, <3>8, <3>9
  <2> QED BY Zenon, <2>1, <2>2
<1> QED BY Zenon, <1>1 DEF Monitor!vars, Owner, Waiting

\* A step of one thread that stays on its side of the monitor and does not wait.
LEMMA QuietThread ==
  ASSUME NEW p \in Procs, SchedInv, SchedInv', lpid' = lpid,
         \A q \in Procs : q # p => th'[q] = th[q] /\ state'[q] = state[q] /\ chan'[q] = chan[q],
         state[p] # "SLEEPING", state'[p] # "SLEEPING", th[p].pc # "sched", th'[p].pc # "sched",
         th[p].pc \in InMonitor <=> th'[p].pc \in InMonitor,
         th[p].pc \in InMonitor => th'[p].arg = th[p].arg
  PROVE  UNCHANGED Monitor!vars
<1>1. \A q \in Procs, k \in Locks :
        (Inside(q, k)' <=> Inside(q, k)) /\ (WaitsOn(q, k)' <=> WaitsOn(q, k))
  BY Zenon DEF Inside, WaitsOn
<1> QED BY Zenon, <1>1, QuietStep

\* The steps outside of the monitors, and those of sleep() before release(lk) and after
\* the sleeper is woken.
LEMMA QuietActions ==
  ASSUME NEW c \in CPUs, NEW p \in Procs, SchedInv, SchedInv',
         \/ forkret(c, p) \/ usertrapret(c, p) \/ CheckKilled(c, p) \/ exit(c, p)
         \/ SleepAcquire(c, p) \/ SleepReturn(c, p) \/ TimerTrap(c, p) \/ TrapStep(c, p)
         \/ (TestLocked(c, p) /\ locked[th[p].arg])
         \/ (\E l \in Locks : Syscall(c, p, "acquire", l))
         \/ (\E q \in Procs : Syscall(c, p, "kill", q))
  PROVE  UNCHANGED Monitor!vars
<1>1. Runs(c, p)
  BY Zenon DEF forkret, usertrapret, CheckKilled, exit, SleepAcquire, SleepReturn, TimerTrap, TrapStep, yield,
         YieldReturn, TrapReturn, TestLocked, Syscall, At
<1>2. Types /\ th[p] \in Th /\ PlaceOK(p) /\ state[p] = "RUNNING"
  BY Zenon, <1>1, Running
<1>3. ASSUME forkret(c, p) \/ usertrapret(c, p) \/ CheckKilled(c, p) \/ SleepReturn(c, p)
      PROVE  UNCHANGED Monitor!vars
  <2>1. /\ lpid' = lpid /\ state' = state /\ th[p].pc \notin InMonitor \cup {"sched"}
        /\ th'[p].pc \notin InMonitor \cup {"sched"}
        /\ \A q \in Procs : q # p => th'[q] = th[q] /\ chan'[q] = chan[q]
    BY <1>2, <1>3 DEF forkret, usertrapret, CheckKilled, SleepReturn, At, Goto, procVars, lockVars,
                      InMonitor, Types, Th
  <2> QED BY Zenon, <1>2, <2>1, QuietThread
<1>4. ASSUME SleepAcquire(c, p) \/ (TestLocked(c, p) /\ locked[th[p].arg])
      PROVE  UNCHANGED Monitor!vars
  <2>1. /\ lpid' = lpid /\ state' = state /\ chan' = chan /\ th[p].pc \in InMonitor \ {"sched"}
        /\ th'[p].pc \in InMonitor \ {"sched"} /\ th'[p].arg = th[p].arg
        /\ \A q \in Procs : q # p => th'[q] = th[q]
    BY <1>2, <1>4 DEF SleepAcquire, TestLocked, At, Goto, procVars, lockVars, InMonitor, Types, Th
  <2> QED BY Zenon, <1>2, <2>1, QuietThread
<1>5. ASSUME TimerTrap(c, p) PROVE UNCHANGED Monitor!vars
  <2>1. th[p].pc \in Open
    BY Zenon, <1>1, <1>5, Running DEF TimerTrap
  <2>2. /\ lpid' = lpid /\ state' = state /\ chan' = chan /\ th'[p].pc \in {th[p].pc, "exit"}
        /\ \A q \in Procs : q # p => th'[q] = th[q]
    BY <1>2, <1>5 DEF TimerTrap, Goto, procVars, lockVars, Types, Th
  <2>3. th[p].pc \notin InMonitor \cup {"sched"} /\ th'[p].pc \notin InMonitor \cup {"sched"}
    BY Zenon, <2>1, <2>2 DEF InMonitor, Open
  <2> QED BY Zenon, <1>2, <2>2, <2>3, QuietThread
<1>6. ASSUME TrapStep(c, p) PROVE UNCHANGED Monitor!vars
  <2>1. th[p].pc \in Open
    BY Zenon, <1>2, <1>6 DEF TrapStep, yield, YieldReturn, TrapReturn, PlaceOK
  <2>2. /\ lpid' = lpid /\ state'[p] # "SLEEPING" /\ th'[p].pc = th[p].pc
        /\ \A q \in Procs : q # p => th'[q] = th[q] /\ state'[q] = state[q] /\ chan'[q] = chan[q]
    <3>1. CASE yield(c, p)
      BY Zenon, <1>2, <3>1 DEF yield, sched, lockVars, Types, Th
    <3>2. CASE YieldReturn(c, p) \/ TrapReturn(c, p)
      BY <1>2, <3>2 DEF YieldReturn, TrapReturn, procVars, lockVars, Types, Th
    <3> QED BY Zenon, <1>6, <3>1, <3>2 DEF TrapStep
  <2>3. th[p].pc \notin InMonitor \cup {"sched"}
    BY Zenon, <2>1 DEF InMonitor, Open
  <2> QED BY Zenon, <1>2, <2>2, <2>3, QuietThread
<1>7. ASSUME exit(c, p) PROVE UNCHANGED Monitor!vars
  <2>1. /\ lpid' = lpid /\ state'[p] # "SLEEPING" /\ th[p].pc = "exit" /\ th'[p].pc = "exit"
        /\ \A q \in Procs : q # p => th'[q] = th[q] /\ state'[q] = state[q] /\ chan'[q] = chan[q]
    BY Zenon, <1>2, <1>7 DEF exit, At, sched, lockVars, Types, Th
  <2>2. "exit" \notin InMonitor \cup {"sched"}
    BY Zenon DEF InMonitor
  <2> QED BY Zenon, <1>2, <2>1, <2>2, QuietThread
<1>8. ASSUME NEW l, Syscall(c, p, "acquire", l) \/ Syscall(c, p, "kill", l) PROVE UNCHANGED Monitor!vars
  <2>1. /\ lpid' = lpid /\ state' = state /\ chan' = chan /\ th[p].pc = "user"
        /\ th'[p].pc \in {"exit", "acquire", "kill"}
        /\ \A q \in Procs : q # p => th'[q] = th[q]
    BY <1>2, <1>8 DEF Syscall, At, procVars, lockVars, Types, Th
  <2>2. th[p].pc \notin InMonitor \cup {"sched"} /\ th'[p].pc \notin InMonitor \cup {"sched"}
    BY Zenon, <2>1 DEF InMonitor
  <2> QED BY Zenon, <1>2, <2>1, <2>2, QuietThread
<1> QED BY Zenon, <1>3, <1>4, <1>5, <1>6, <1>7, <1>8

\* scheduler() does not touch the monitors, and sleep() is a waiter before and after
\* its thread is SLEEPING.
LEMMA QuietSched ==
  ASSUME NEW c \in CPUs, SchedInv, SchedInv',
         SchedStep(c) \/ (\E p \in Procs : SleepSched(c, p)) \/ UNCHANGED vars
  PROVE  UNCHANGED Monitor!vars
<1>1. CASE SchedStep(c)
  <2>1. /\ UNCHANGED <<lpid, th, chan>>
        /\ \A q \in Procs : state'[q] = "SLEEPING" <=> state[q] = "SLEEPING"
    BY Zenon, <1>1 DEF SchedStep, SchedScan, SchedBack, SchedLoop, procVars, lockVars, SchedInv, Types
  <2>2. \A q \in Procs, k \in Locks :
          (Inside(q, k)' <=> Inside(q, k)) /\ (WaitsOn(q, k)' <=> WaitsOn(q, k))
    BY Zenon, <2>1 DEF Inside, WaitsOn
  <2> QED BY Zenon, <2>1, <2>2, QuietStep
<1>2. ASSUME NEW p \in Procs, SleepSched(c, p) PROVE UNCHANGED Monitor!vars
  <2>1. Types /\ th[p] \in Th /\ state[p] = "RUNNING" /\ th[p].pc = "sched"
    BY Zenon, <1>2, Running DEF SleepSched, At
  <2>2. /\ lpid' = lpid /\ th'[p].pc = "slept" /\ state'[p] = "SLEEPING" /\ chan'[p] = th[p].arg
        /\ \A q \in Procs : q # p => th'[q] = th[q] /\ state'[q] = state[q] /\ chan'[q] = chan[q]
    BY Zenon, <1>2, <2>1 DEF SleepSched, sched, lockVars, Types, Th
  <2>3. \A q \in Procs, k \in Locks :
          (Inside(q, k)' <=> Inside(q, k)) /\ (WaitsOn(q, k)' <=> WaitsOn(q, k))
    BY Zenon, <2>1, <2>2 DEF Inside, WaitsOn, InMonitor
  <2> QED BY Zenon, <2>2, <2>3, QuietStep
<1>3. CASE UNCHANGED vars
  BY Zenon, <1>3 DEF vars, Monitor!vars
<1> QED BY Zenon, <1>1, <1>2, <1>3

\* What a step into, inside or out of the monitor of l is in the abstract.
LEMMA MonitorEffect ==
  ASSUME NEW c \in CPUs, NEW p \in Procs, NEW l \in Locks, SchedInv, SchedInv', Runs(c, p),
         th[p].pc # "sched", th[p].arg = l, state'[p] # "SLEEPING",
         \A q \in Procs : q # p => th'[q] = th[q] /\ state'[q] = state[q] /\ chan'[q] = chan[q],
         th'[p].pc \in InMonitor \cup {"sched"} => th'[p].arg = l
  PROVE  /\ Owner' = [Owner EXCEPT ![l] = IF th'[p].pc \in InMonitor THEN p
                                          ELSE IF th[p].pc \in InMonitor THEN 0 ELSE Owner[l]]
         /\ Waiting' = [Waiting EXCEPT ![l] = IF th'[p].pc = "sched" THEN Waiting[l] \cup {p}
                                              ELSE Waiting[l]]
         /\ th[p].pc \in InMonitor => Owner[l] = p
<1>1. state[p] = "RUNNING"
  BY Zenon, Running
<1>2. \A q \in Procs, k \in Locks : q # p \/ k # l =>
        (Inside(q, k)' <=> Inside(q, k)) /\ (WaitsOn(q, k)' <=> WaitsOn(q, k))
  BY Zenon, <1>1 DEF Inside, WaitsOn
<1>3. /\ Inside(p, l) <=> th[p].pc \in InMonitor
      /\ Inside(p, l)' <=> th'[p].pc \in InMonitor
      /\ WaitsOn(p, l)' <=> th'[p].pc = "sched"
      /\ ~WaitsOn(p, l)
  BY Zenon, <1>1 DEF Inside, WaitsOn
<1>4. Waiting[l] \ {p} = Waiting[l]
  BY Zenon, <1>3 DEF Waiting, WaitsOn
<1>5. /\ Owner' = [Owner EXCEPT ![l] = IF Inside(p, l)' THEN p
                                       ELSE IF Inside(p, l) THEN 0 ELSE Owner[l]]
      /\ Waiting' = [Waiting EXCEPT ![l] = IF WaitsOn(p, l)' THEN Waiting[l] \cup {p}
                                           ELSE Waiting[l] \ {p}]
  BY Zenon, <1>2, AbstractStep
<1>6. Inside(p, l) => Owner[l] = p
  BY Zenon, OwnerIsInside DEF OwnerInside
<1> QED BY Zenon, <1>3, <1>4, <1>5, <1>6

\* acquire(&lk->lk) enters, the end of acquiresleep() takes the sleep lock, release(lk)
\* in sleep() waits, releasesleep() frees it and leaves with nobody waiting.
LEMMA MonitorActions ==
  ASSUME NEW c \in CPUs, NEW p \in Procs, SchedInv, SchedInv',
         \/ AcquireLk(c, p) \/ (TestLocked(c, p) /\ ~locked[th[p].arg]) \/ SleepRelease(c, p)
         \/ releasesleep(c, p) \/ WakeupDone(c, p)
  PROVE  Monitor!Next
<1>1. /\ Runs(c, p) /\ th[p].pc \in {"acquire", "test", "release", "held", "wakeup"}
      /\ Types /\ th[p] \in Th /\ PlaceOK(p) /\ LockOK(p) /\ WordsOK /\ state[p] = "RUNNING"
  BY Zenon, Running DEF AcquireLk, TestLocked, SleepRelease, releasesleep, WakeupDone, At
<1>2. PICK l \in Locks : th[p].arg = l
  BY Zenon, <1>1 DEF PlaceOK, OnLock, InMonitor
<1>3. Owner = [k \in Locks |-> Owner[k]] /\ Waiting = [k \in Locks |-> Waiting[k]]
  BY Zenon DEF Owner, Waiting
<1>4. lk[l] = 0 => Owner[l] = 0
  BY Zenon DEF Owner
<1>5. CASE AcquireLk(c, p)
  <2>1. /\ lk[l] = 0 /\ lpid' = lpid /\ state' = state /\ chan' = chan /\ th'[p].arg = l
        /\ th[p].pc = "acquire" /\ th'[p].pc = "test" /\ \A q \in Procs : q # p => th'[q] = th[q]
    BY Zenon, <1>1, <1>2, <1>5 DEF AcquireLk, At, Goto, procVars, Types, Th
  <2>2. Owner' = [Owner EXCEPT ![l] = p] /\ Waiting' = Waiting
    BY <1>1, <1>2, <1>3, <2>1, MonitorEffect DEF InMonitor
  <2>3. Monitor!Enter(p, l)
    BY Zenon, <1>4, <2>1, <2>2 DEF Monitor!Enter, Owner, Waiting
  <2> QED BY Zenon, <2>3 DEF Monitor!Next
<1>6. CASE TestLocked(c, p) /\ ~locked[th[p].arg]
  <2>1. /\ lpid' = [lpid EXCEPT ![l] = p] /\ state' = state /\ chan' = chan
        /\ th[p].pc = "test" /\ th'[p].pc = "held" /\ \A q \in Procs : q # p => th'[q] = th[q]
    BY <1>1, <1>2, <1>6 DEF TestLocked, At, Goto, procVars, Types, Th
  <2>2. Owner[l] = p /\ Owner' = [Owner EXCEPT ![l] = 0] /\ Waiting' = Waiting
    BY <1>1, <1>2, <1>3, <2>1, MonitorEffect DEF InMonitor
  <2>3. lpid[l] = 0
    BY Zenon, <1>1, <1>2, <1>6 DEF WordsOK
  <2>4. Monitor!Take(p, l)
    BY Zenon, <2>1, <2>2, <2>3 DEF Monitor!Take, Owner, Waiting
  <2> QED BY Zenon, <2>4 DEF Monitor!Next
<1>7. CASE SleepRelease(c, p)
  <2>1. /\ lpid' = lpid /\ state' = state /\ chan' = chan /\ th'[p].arg = l
        /\ th[p].pc = "release" /\ th'[p].pc = "sched" /\ \A q \in Procs : q # p => th'[q] = th[q]
    BY Zenon, <1>1, <1>2, <1>7 DEF SleepRelease, At, Goto, procVars, Types, Th
  <2>2. Owner[l] = p /\ Owner' = [Owner EXCEPT ![l] = 0] /\ Waiting' = [Waiting EXCEPT ![l] = Waiting[l] \cup {p}]
    BY <1>1, <1>2, <1>3, <2>1, MonitorEffect DEF InMonitor
  <2>3. lpid[l] # 0
    BY <1>1, <1>2, <2>1 DEF WordsOK, LockOK
  <2>4. Monitor!Wait(p, l)
    BY Zenon, <2>1, <2>2, <2>3 DEF Monitor!Wait, Owner, Waiting
  <2> QED BY Zenon, <2>4 DEF Monitor!Next
<1>8. CASE releasesleep(c, p)
  <2>1. /\ lk[l] = 0 /\ lpid' = [lpid EXCEPT ![l] = 0] /\ state' = state /\ chan' = chan /\ th'[p].arg = l
        /\ th[p].pc = "held" /\ th'[p].pc = "wakeup" /\ \A q \in Procs : q # p => th'[q] = th[q]
    BY Zenon, <1>1, <1>2, <1>8 DEF releasesleep, At, procVars, Types, Th
  <2>2. Owner' = [Owner EXCEPT ![l] = p] /\ Waiting' = Waiting
    BY <1>1, <1>2, <1>3, <2>1, MonitorEffect DEF InMonitor
  <2>3. lpid[l] = p
    BY Zenon, <1>1, <1>2, <2>1 DEF LockOK
  <2>4. Monitor!Free(p, l)
    BY Zenon, <1>4, <2>1, <2>2, <2>3 DEF Monitor!Free, Owner, Waiting
  <2> QED BY Zenon, <2>4 DEF Monitor!Next
<1>9. CASE WakeupDone(c, p)
  <2>1. /\ lpid' = lpid /\ state' = state /\ chan' = chan /\ th[p].i = NPROC + 1
        /\ th[p].pc = "wakeup" /\ th'[p].pc = "check" /\ \A q \in Procs : q # p => th'[q] = th[q]
    BY Zenon, <1>1, <1>9 DEF WakeupDone, At, procVars, Types, Th
  <2>2. Owner[l] = p /\ Owner' = [Owner EXCEPT ![l] = 0] /\ Waiting' = Waiting
    BY <1>1, <1>2, <1>3, <2>1, MonitorEffect DEF InMonitor
  <2>3. lpid[l] = 0 /\ \A q \in Procs : ~WaitsOn(q, l)
    BY <1>1, <1>2, <2>1, TableAssumption DEF WordsOK, LockOK, Procs
  <2>4. Waiting[l] = {}
    BY Zenon, <2>3 DEF Waiting, WaitsOn
  <2>5. Monitor!Leave(p, l)
    BY Zenon, <2>1, <2>2, <2>3, <2>4 DEF Monitor!Leave, Owner, Waiting
  <2> QED BY Zenon, <2>5 DEF Monitor!Next
<1> QED BY Zenon, <1>5, <1>6, <1>7, <1>8, <1>9

\* wakeup() and kill() take at most one process out of one set of waiters.
LEMMA WakeActions ==
  ASSUME NEW c \in CPUs, NEW p \in Procs, SchedInv, SchedInv', wakeup(c, p) \/ kill(c, p)
  PROVE  Monitor!Next \/ UNCHANGED Monitor!vars
<1>1. /\ Runs(c, p) /\ th[p].pc \in {"wakeup", "kill"}
      /\ Types /\ th[p] \in Th /\ state[p] = "RUNNING"
  BY Zenon, Running DEF wakeup, kill, At
<1>2. /\ lpid' = lpid /\ chan' = chan /\ \A q \in Procs : q # p => th'[q] = th[q]
      /\ \/ th[p].pc = "wakeup" /\ th'[p].pc = "wakeup" /\ th'[p].arg = th[p].arg
         \/ th[p].pc = "kill" /\ th'[p].pc \in {"kill", "check"}
  <2>1. CASE wakeup(c, p)
    BY Zenon, <1>1, <2>1 DEF wakeup, At, lockVars, Types, Th
  <2>2. CASE kill(c, p)
    BY <1>1, <2>2 DEF kill, At, lockVars, Types, Th
  <2> QED BY Zenon, <2>1, <2>2
<1>3. \/ state' = state
      \/ \E q \in Procs : q # p /\ state[q] = "SLEEPING" /\ state' = [state EXCEPT ![q] = "RUNNABLE"]
  <2>1. th[p].i \in 1..NPROC + 1 /\ state = [q \in Procs |-> state[q]]
    BY Zenon, <1>1 DEF Types, Th
  <2>2. CASE wakeup(c, p)
    <3>1. PICK q \in Procs : q = th[p].i
      BY Zenon, <2>2 DEF wakeup
    <3>2. state' = [state EXCEPT ![q] = IF q # p /\ state[q] = "SLEEPING" /\ chan[q] = th[p].arg
                                        THEN "RUNNABLE" ELSE state[q]]
      BY Zenon, <2>2, <3>1 DEF wakeup
    <3> QED BY Zenon, <2>1, <3>2
  <2>3. CASE kill(c, p) /\ th[p].i = th[p].arg
    <3>1. PICK q \in Procs : q = th[p].i
      BY Zenon, <1>1, <2>3, Running DEF kill, At, PlaceOK
    <3>2. state' = [state EXCEPT ![q] = IF state[q] = "SLEEPING" THEN "RUNNABLE" ELSE state[q]]
      BY Zenon, <2>3, <3>1 DEF kill
    <3> QED BY Zenon, <1>1, <2>1, <3>2
  <2>4. CASE kill(c, p) /\ th[p].i # th[p].arg
    BY Zenon, <2>4 DEF kill
  <2> QED BY Zenon, <2>2, <2>3, <2>4
<1>4. CASE state' = state
  BY Zenon, <1>1, <1>2, <1>4, QuietThread DEF InMonitor
<1>5. ASSUME NEW q \in Procs, q # p, state[q] = "SLEEPING", state' = [state EXCEPT ![q] = "RUNNABLE"]
      PROVE  Monitor!Next
  <2>1. th[q].pc = "slept" /\ th'[q] = th[q] /\ state'[q] = "RUNNABLE"
        /\ \A s \in Procs : s # q => state'[s] = state[s]
    <3>1. th[q].pc = "slept"
      BY Zenon, <1>5 DEF SchedInv, ProcOK
    <3>2. state'[q] = "RUNNABLE" /\ \A s \in Procs : s # q => state'[s] = state[s]
      BY Zenon, <1>5 DEF SchedInv, Types
    <3> QED BY Zenon, <1>1, <1>2, <1>5, <3>1, <3>2
  <2>2. PICK k \in Locks : chan[q] = k
    <3>1. chan[q] = th[q].arg /\ PlaceOK(q)
      BY Zenon, <1>5 DEF SchedInv, ProcOK
    <3> QED BY Zenon, <2>1, <3>1 DEF PlaceOK, OnLock
  <2>3. \A s \in Procs, j \in Locks : s # q \/ j # k =>
          (Inside(s, j)' <=> Inside(s, j)) /\ (WaitsOn(s, j)' <=> WaitsOn(s, j))
    BY Zenon, <1>1, <1>2, <2>1, <2>2 DEF Inside, WaitsOn, InMonitor
  <2>4. ~Inside(q, k) /\ ~Inside(q, k)' /\ WaitsOn(q, k) /\ ~WaitsOn(q, k)'
    BY Zenon, <1>5, <2>1, <2>2 DEF Inside, WaitsOn, InMonitor
  <2>5. /\ Owner' = [Owner EXCEPT ![k] = IF Inside(q, k)' THEN q
                                         ELSE IF Inside(q, k) THEN 0 ELSE Owner[k]]
        /\ Waiting' = [Waiting EXCEPT ![k] = IF WaitsOn(q, k)' THEN Waiting[k] \cup {q}
                                             ELSE Waiting[k] \ {q}]
    BY Zenon, <2>3, AbstractStep
  <2>6. Owner = [j \in Locks |-> Owner[j]]
    BY Zenon DEF Owner
  <2>7. Owner' = Owner /\ Waiting' = [Waiting EXCEPT ![k] = Waiting[k] \ {q}]
    BY Zenon, <2>4, <2>5, <2>6
  <2>8. q \in Waiting[k]
    BY Zenon, <2>4 DEF Waiting, WaitsOn
  <2>9. Monitor!Wake(q, k)
    BY Zenon, <1>2, <2>7, <2>8 DEF Monitor!Wake, Owner, Waiting
  <2> QED BY Zenon, <2>9 DEF Monitor!Next
<1> QED BY Zenon, <1>3, <1>4, <1>5

\* For any number of processes, harts and sleep locks, proc.c and sleeplock.c implement
\* the monitor: releasing lk and joining the waiters is one step, a sleep lock has one
\* holder, and releasesleep() leaves with every waiter woken.
THEOREM SchedImplementsMonitor == Spec => RefinesMonitor
<1>1. Init => Monitor!Init
  BY TableAssumption DEF Init, Monitor!Init, Procs
<1>2. SchedInv /\ SchedInv' /\ [Next]_vars => [Monitor!Next]_(Monitor!vars)
  <2> SUFFICES ASSUME SchedInv, SchedInv', [Next]_vars
               PROVE  Monitor!Next \/ UNCHANGED Monitor!vars
    BY Zenon
  <2>1. CASE UNCHANGED vars
    BY Zenon, <2>1 DEF vars, Monitor!vars
  <2>2. CASE Next
    <3>1. PICK c \in CPUs : \/ SchedStep(c)
                            \/ \E p \in Procs :
                                 \/ Thread(c, p) \/ TrapStep(c, p) \/ TimerTrap(c, p)
                                 \/ (\E l \in Locks : Syscall(c, p, "acquire", l))
                                 \/ (\E q \in Victims : Syscall(c, p, "kill", q))
      BY Zenon, <2>2 DEF Next
    <3>2. CASE SchedStep(c)
      BY Zenon, <3>2, QuietSched
    <3>3. ASSUME NEW p \in Procs, Thread(c, p) PROVE Monitor!Next \/ UNCHANGED Monitor!vars
      <4>1. CASE forkret(c, p) \/ usertrapret(c, p) \/ CheckKilled(c, p) \/ exit(c, p)
                 \/ SleepAcquire(c, p) \/ SleepReturn(c, p)
        BY Zenon, <4>1, QuietActions
      <4>2. CASE TestLocked(c, p)
        BY Zenon, <4>2, QuietActions, MonitorActions
      <4>3. CASE AcquireLk(c, p) \/ SleepRelease(c, p) \/ releasesleep(c, p) \/ WakeupDone(c, p)
        BY Zenon, <4>3, MonitorActions
      <4>4. CASE SleepSched(c, p)
        BY Zenon, <4>4, QuietSched
      <4>5. CASE wakeup(c, p) \/ kill(c, p)
        BY Zenon, <4>5, WakeActions
      <4> QED BY Zenon, <3>3, <4>1, <4>2, <4>3, <4>4, <4>5 DEF Thread
    <3>4. ASSUME NEW p \in Procs, TrapStep(c, p) \/ TimerTrap(c, p) PROVE UNCHANGED Monitor!vars
      BY Zenon, <3>4, QuietActions
    <3>5. ASSUME NEW p \in Procs, NEW l \in Locks, Syscall(c, p, "acquire", l) PROVE UNCHANGED Monitor!vars
      BY Zenon, <3>5, QuietActions
    <3>6. ASSUME NEW p \in Procs, NEW q \in Victims, Syscall(c, p, "kill", q) PROVE UNCHANGED Monitor!vars
      <4>1. q \in Procs
        BY Zenon, TableAssumption DEF Procs
      <4> QED BY Zenon, <3>6, <4>1, QuietActions
    <3> QED BY Zenon, <3>1, <3>2, <3>3, <3>4, <3>5, <3>6
  <2> QED BY Zenon, <2>1, <2>2
<1> QED BY <1>1, <1>2, InitSched, SchedInductive, PTL DEF Spec, RefinesMonitor, Monitor!Spec
=============================================================================
