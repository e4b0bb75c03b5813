# A TLA+ model of the copy-on-write xv6 kernel

This directory specifies the kernel in `src/xv6-labs-2024/kernel` (xv6 for RISC-V with a
copy-on-write `fork`) and the shell that runs on it, model-checks it with TLC on
small instances and proves some of its properties with TLAPS for every instance. `PROJECT.json`
lists the runs, which lines of the source every definition models, the hazards of the code and
the properties that watch them.

## The system

| part | source | what it keeps |
|---|---|---|
| physical page allocator | `kalloc.c` | free list, one reference count per page, `kmem.lock` |
| user memory, copy-on-write | `vm.c` | page tables, `PTE_W`/`PTE_U`/`PTE_COW`, `p->sz` |
| process table | `proc.c`, `sysproc.c` | slots, states, parents, `wait_lock`, `p->lock`, sleep channels |
| exec | `exec.c` | a second page table beside the running one |
| traps | `trap.c`, `trampoline.S`, `kernelvec.S` | dispatch of faults, system calls, interrupts |
| locks | `spinlock.c`, `sleeplock.c` | lock words, interrupt nesting |
| buffer cache, log | `bio.c`, `log.c` | cached blocks, the on-disk log and its header |
| file system | `fs.c`, `sysfile.c`, `file.c` | inodes, link and reference counts, directories, descriptors |
| pipes | `pipe.c` | a 512-byte ring, two ends |
| drivers | `virtio_disk.c`, `console.c`, `uart.c`, `plic.c` | descriptor rings, input line, transmit ring |
| time | `trap.c`, `sysproc.c` | `ticks` |
| boot | `main.c`, `start.c` | `started`, and everything the initialisers write |
| shell | `user/sh.c`, `user/init.c` | processes and pipes of a command line |
| formatting, other user programs, `mkfs` | `printf.c`, `string.c`, `user/`, `mkfs/` | nothing the other parts depend on later |

The build compiles the kernel with `LAB_SYSCALL`, which removes the junk fill of `kalloc` and
`kfree` and the zeroing in `uvmalloc`; `kfree` still writes its list pointer into the page.

A system call, a fault or an interrupt runs on the kernel thread of a process. Threads of
different processes run at the same time on several CPUs and meet at `kmem.lock` (pages),
`wait_lock` (parents and zombies) and in shared physical pages. Page tables and `p->sz` are
private to a process, except that `fork` fills the child's table and `wait` frees the zombie's.
Everything that waits does so with `sleep` and `wakeup` under a spin lock; the file system
stacks on sleep locks, the buffer cache, the log and the disk driver, each of which relies on
the promise of the one below.

## Modules

One module per part, an abstract module for what the part promises where that is more than a
few invariants, and an `MC` module where TLC needs values, a view or symmetry.

| module | models | promises (abstract module) |
|---|---|---|
| CowVM | `kalloc.c`, the user half of `vm.c`, what `fork`, `exec`, `sbrk`, `exit`, `wait` and store faults do to memory | AddressSpaces: each process has a memory of its own |
| PageTable | three-level tables, byte sizes, `copyin`, `copyinstr`, every page counted | PageMap: one frame per page of the size, calls that fail change nothing |
| Sched | `scheduler`, `sched`, `yield`, `sleep`, `wakeup`, `kill`, sleep locks, over several harts | SleepMonitor: waiting and releasing is one step |
| Boot | `start.c`, `main.c` on weakly ordered memory | |
| Kernel | Boot composed with Sched: a hart schedules once it has booted | |
| Traps | `trampoline.S`, `kernelvec.S`, `usertrap`, `kerneltrap`, `devintr`, PLIC | |
| VirtioDisk | `virtio_disk.c` and the device | |
| Log | `log.c` with crashes, and what it needs of `bio.c` | AtomicDisk: transactions are atomic and durable |
| Blocks | `balloc`, `bfree`, `bmap`, `itrunc`, `readi`, `writei`, `fileread`, `filewrite` | |
| DirTree | `namex`, `create`, `link`, `unlink`, `chdir` | |
| FileTable | `file.c`, descriptors over `open`, `dup`, `pipe`, `fork`, `close`, `exit` | |
| ShellParse, Shell | `user/sh.c`: the parser, and on top of it the processes and pipes of a line, with `init`, `echo` and `cat` | |

**CowVMInv** holds the inductive invariant behind CowVM's properties, **Counting** the laws of
counting it uses; **CowVM_control**, **CowVM_refs**, **CowVM_tables**, **CowVM_memory**,
**CowVM_safety**, **Sched_proofs**, **Log_proofs** and **Traps_proofs** hold the proofs.

How they fit together: a critical section of a spin lock is one step everywhere. Sched shows that
`sleep` releases its lock and joins the waiters as one step, and that waiting for a sleep lock
is a guarded step; VirtioDisk and Log use the first, DirTree and Blocks the second. These links are
arguments about the grain, written in the head of each module. Kernel and Shell are
compositions in TLA+: Kernel conjoins the steps of Boot and Sched, Shell extends ShellParse and
runs the commands it returns.

In every module a process has a place (`pc` or `th`) and the locals that matter there; an action
is the stretch of code between two points where another actor can see or change something, with
every call the stretch makes. An operator named after a definition with a suffix
(`yield_StillRunning`) is a plausible mistake in that definition; no specification uses it, and
`PROJECT.json` names the property that catches it.

### State and grain of CowVM

`refcnt` and `freelist` are `kmem`; the order of the list is dropped, so `kalloc` may return
any free page. `mem` is the content of a page, one value per page. A slot has two tables
(`Tables`) because `exec` builds a new one beside the old; `cur` says which is
`p->pagetable`. `ppn[t][va]` and `perm[t][va]` are the leaf PTE of page `va`. `sz`, `state`,
`parent` are the fields of `struct proc`, `waitlock` the holder of `wait_lock`. `th[p]` is
where the kernel thread of `p` is, with the locals that matter there.

One action is one critical section of `kmem.lock`, or the unlocked work between two of them.
So `kfree` is two steps (count down, push), `uvmcopy` is two per page (map, `incref`), and
`handle_cow_fault` is up to five (read the count, take ownership, or allocate, copy and map,
and the two of `kfree`). Work on the thread's own page table needs no finer grain: no other
thread reads that table, which is what `OwnersOK` states. A `panic` ends the behaviour; where a
module has no property about it, TLC reports it as a deadlock.

| code | actions |
|---|---|
| a store; `usertrap`, scause 15 | `Store`, `StoreFault` |
| `handle_cow_fault` | `CowRefcount`, `CowOwn`, `CowKalloc`, `CowCopy`, `Kfree`, `KfreeEnd` |
| `copyout` | `Write`, `WaitStatus` (entry), `CopyoutStore`, `CopyoutFail` |
| `uvmunmap` | `UnmapPage`, `KfreeEnd`, `Unmapped` |
| `uvmalloc` | `AllocPage`, `MapPage`, `MapFail` |
| `growproc` | `Grow`, `Grown`, `Shrink` |
| `exec` | `Exec`, `ExecBad`, `ExecCommit` |
| `fork`, `uvmcopy` | `Fork`, `DupPage`, `DupIncref`, `DupFail`, `Forked` |
| `exit`, `wait`, `freeproc` | `Exit`, `Wait`, `WaitStatus`, `Unmapped` |

Abstractions: sizes are whole pages; page-table pages and the trapframe are not counted among
`Pages`, and `mappages` may fail at the addresses of `TableStart`, where `walk` would allocate
a table; `exec` may fail at any page boundary, and its segments are one loop; the three
critical sections at the end of `fork` are one step, since nothing can see the child before the
last. User programs make any call at any time, except that init neither exits nor is killed by
`kill`; when init runs out of memory on a store, the kernel panics "init exiting".

### State and grain of the others

* **Sched**: `cpu[c]` is `struct cpu` with the place of its scheduler, `plock` and `lk` the holders of
  `p->lock` and of the lock inside each sleep lock. A holder is a hart, as in `lk->cpu`, because
  `p->lock` is taken by a thread and released by the scheduler, or the other way round.
* **Kernel**: a step of Sched leaves the harts alone that have not booted. All processes exist from
  the start, where the code has only the first process then.
* **Traps**: a register file of three (`pc`, `a0`, and `tp`, which stands for all that is saved and restored
  like it); `local` is what `kernelvec` and `kerneltrap` keep on the kernel stack. A trap from user space
  runs with interrupts off to its end. They are on in the scheduler, and in a new process from the
  `release` in `forkret` to `usertrapret`, `fsinit` included: there a thread is interrupted in the
  kernel, yields inside `kerneltrap` and may come back on another hart. `ctx` and `kctx` are history
  variables, what a program and an interrupted kernel thread should find when they go on.
* **Blocks**: a step is one block: its allocation, or its copy. A byte is the process that wrote it and the
  file it was meant for. A block has the content of its buffer (`data`) and the one the log has or will
  have (`disk`); a buffer nobody refers to may be recycled at any time (`Recycle`). A copy from or to user
  memory may fail after any number of bytes. `text` is a history variable: for each position of a file
  the set of bytes it may hold, which has more than one only where a failed copy left the choice open.
* counters wrap at `WORD` in VirtioDisk (a multiple of the ring size, as 2^16 is) and in the
  offsets of Blocks.
* **VirtioDisk**: the device is external; it takes chains in order and completes them in any order, and
  may raise one interrupt for several.
* **Log**: a block write is one step and `Crash` is enabled between any two, also during recovery;
  buffers nobody refers to may be evicted at any time.
* **DirTree**: a step runs from one wait for an inode's lock to the next. The inode table is
  reduced to counts, and the last `iput` frees an inode in the step that drops its reference; `MaxLink` bounds `nlink`.
* **PageTable**: tables have two entries, and a call is one step. `exec` builds its image segment by segment
  and may fail at every point where the code may; sizes are bytes modulo `WORD`, so that `sbrk` wraps as the
  code does; `ret` is what the last call returned, and PageMap says what it may be. The other processes may leave a call
  any number of free pages, so that `kalloc` fails at every point of it.
* **Shell**: `init` is process 0 and starts `sh`, again whenever it exits, and reaps the orphans it is
  given. A line is typed token by token, parsed, and run by processes that `fork`, `exec`, `open`, `dup`,
  `close`, `read`, `write`, `exit` and `wait`; a pipe is a bounded queue of words, a file a sequence of
  words with an offset per open file. One of `fork`, `pipe`, `open`, `exec` and the write to a
  file may fail for want of resources in a line, and all fail when slots, pipes or files run out. Every
  typed line is parsed; those in `Lines` are also run. `gettoken`'s characters are left out.
* **Boot**: a hart's stores drain to memory in any order except across a fence.

## Runs

Processes, pages and values are symmetric where an `MC` module or cfg says so: no step compares
them. A `VIEW` (MCVirtioDisk, MCBlocks, MCPageTable, Traps) leaves out ring entries, contents or registers
that are written before they are read again, and in MCPageTable the numbers of pages and the last
return value, which no later step reads.

| run | instance | shows |
|---|---|---|
| `cow_fork` | 3 processes, 4 pages, 1 address; fork, read, wait with and without status | `RefcountExact`, `WritableIsPrivate`, `Isolation` |
| `cow_calls` | 2 processes, 3 pages, 2 addresses; fork, exec, sbrk, read | `NoLeak`, `NoVmPanic`, and `PrivateMemories`: CowVM implements AddressSpaces |
| `page_table` | 2 processes, 22 pages, `sbrk` to 9 bytes of 2-byte pages, images of two segments | `PagesExact`, `CopiesExact`, `RefinesPageMap` |
| `sched` | 2 harts that boot, 2 processes, 1 sleep lock, 1 victim | `NoPanic`, `BootedFirst`, `RefinesMonitor`, `SleeperWakes`, `RunnableRuns` |
| `traps` | 2 harts, 2 processes that fork, exit and move between them, 1 device | `TpIsHart`, `ContextKept`, `InterruptsExclusive`, `IrqServed` |
| `disk_requests` | 3 requests, 7 descriptors | `DescriptorsAccounted`, `DoneMeansTransferred`, `CompletionsAnnounced` |
| `log` | 2 threads, 2 blocks, operations of 2 | `QuietIsDurable`, `NoMisuse`, `RefinesAtomicDisk`, `BeginReturns` |
| `blocks` | 2 processes, 2 open files, one of them up to the largest size; 4 calls | `ContentExact`, `ReadsExact`, `BlocksAccounted`, `OpFitsLog` |
| `dir_tree` | 2 processes, 3 inodes, paths a, b, a/b, a/.. | `NoDangling`, `DirsFormTree`, `RefsExact`, `NoLockCycle` |
| `file_table` | 2 processes, 2 descriptors each, 3 files, 1 pipe page | `RefExact`, `ResourcesExact`, `NoMisuse` |
| `shell_session` | lines of up to 5 tokens, and some 100 lines that are run; processes, pipes and files that run out | `ParseExact`, `ExecFds`, `OutputExact`, `PromptReturns` |
| `fork_failure` | 2 processes, 3 pages, 2 addresses, each in a table page of its own | `FailedForkLeavesNoLeaf` is violated, see below |

The bounds are chosen so that the hard cases happen. For CowVM, three processes let two
sharers of a page fault while a third exits or forks again; four pages are enough for all of them
to own a copy and few enough that `kalloc` fails; two addresses and three pages make every loop
fail in the middle. In `sched` one process waits while the other is between release and `SLEEPING`;
the invariants for more processes and harts are proved. Rings and counters are so small that they wrap and
fill: in `disk_requests` two requests take six of the seven descriptors and the third has to wait. In
`log` a caller of `begin_op` sleeps while a commit is under way, and for room while the other
operation has reserved its places and the log is not empty. In `blocks` a
file reaches the indirect block and the largest size, the second file takes the last blocks from it, and
a read asks for more than there is, up to a length at which the sum of offset and length wraps; `MaxCalls`
lets four calls of either process on either file follow and overlap one another. In `traps`
the two processes trade harts, so that a thread that yielded inside `kerneltrap` returns over the trap
registers of another; `Words` has one value, since the programs' own values of `tp` differ from every hart
number already, and the proofs are for any `Words`. In `page_table` 22 pages hold two processes and the
image of a third table, and any number of them may be missing in a call. In `shell_session` files are put
back as they were before each line, and a line is typed only when nothing of the last one runs any more.
Deadlock is checked in every run but `shell_session`, where the kernel stops for good ("init exiting") when
a `fork` of `init` fails.

`ContentExact` and `OutputExact` compare with a reference: the first with the bytes the completed and the
failed writes allow at each position, in the buffer and in what is logged; the second with
`Meaning`, which says by recursion over the parsed command what a line writes to the console and to files.
`Racy` excludes the lines whose output is not determined: `&`, a pipe one side of which writes a file the other uses, and a
redirected file used again. A line in which something failed is excluded as well, and `PromptReturns` covers it.

`RefcountExact` counts every place that refers to a page: PTEs, and threads that hold a page
between `kalloc` and the mapping or before `kfree`. Two windows are not counted by the code
either and are named in `Uncounted`: the child's PTE before `incref`, and the PTE `uvmunmap`
clears only after `kfree`. Neither is harmful, because the parent's own PTE keeps the page
alive in the first and nobody else uses the table in the second; `FreeIsUnreferenced`,
`WritableIsPrivate` and `Isolation` are proved.

`PrivateMemories` alone would let any step of a process change its memory in the way `exec`
can; `Isolation` therefore also says which step may change what.

### Liveness and fairness

| run | assumed | because |
|---|---|---|
| `sched`, `log`, `traps`, `shell_session` | a thread that is not blocked makes its next step | harts keep executing, `scheduler` goes round the table, timer interrupts preempt user code (`RunnableRuns`) |
| `sched`, `log` | strong fairness on steps that wait for a spin lock or a sleep lock | a lock that is free again and again is won some day: the test-and-set of the hart, or the re-test after each wakeup, does not always lose |
| `sched` | stores of hart 0 reach memory | external |
| `log` | operations end | `begin_op` and `end_op` are paired in every system call |
| `traps` | strong fairness on taking an external interrupt: a hart whose interrupts are on again and again takes one that is pending | external |
| `traps` | strong fairness on `intr_on`; weak on the rest of the kernel's steps | a scan of the process table is finite, so that the scheduler's loop begins again; the code of a trap goes on |
| `shell_session` | weak fairness on the processes as a whole (`Run`), none on what is typed | see the first line; no command of a line runs forever by itself |

No fairness is assumed of `kill`, of crashes or of any call a program may make. The other runs are about
safety and the absence of deadlock.

### What does not hold

`fork_failure`: when `walk` cannot allocate a page-table page for a child larger than 2 MiB,
`uvmcopy` returns without undoing the pages it has mapped, although its comment says it does.
`fork` then calls `freeproc` with `np->sz = 0`, and `freewalk` panics. The passing runs of CowVM
therefore let only the first page of a table need a page-table page (`TableStart = {0}`): processes of
up to 2 MiB.

The models show three more places where the code is not what its comments say; the passing runs
keep clear of them.

* `begin_op` counts `LOGSIZE` data blocks, but one of the log's blocks is the header, so that three
  operations of `MAXOPBLOCKS` blocks reach "too big a transaction" (`log.c:220`). Two blocks cannot
  fill the log of the run `log`.
* `usertrap` turns interrupts off before `syscall` (`trap.c:66`) where its comment says they are turned
  on. Consequently kernel code runs with interrupts off everywhere but in `scheduler` and in the first run
  of a new process up to `usertrapret`; `IrqServed` holds all the same.
* A directory removed between two steps of `namex` (`fs.c:676`), or after `nameiparent`, leads ".." to a
  freed inode, or takes a new name with it. The one path of `dir_tree` with ".." goes back to the directory
  it came from, and a name that is lost with its directory breaks none of the properties.

Three more results are what the code does, and are part of what the properties allow.

* A `write` whose copy from user memory fails half way through a block leaves the bytes copied so far in the
  buffer without logging them (`fs.c:522`): a later read may see them or, once the buffer is recycled,
  what was there before. `ContentExact` and `ReadsExact` allow exactly these bytes.
* `>>` opens with `O_WRONLY|O_CREATE` and writes from offset 0, over the old words; nothing appends.
* When `fork` in `init` fails, `init` exits and the kernel panics; `PromptReturns` says "a prompt, or
  halted".

## Proofs

| theorem | states |
|---|---|
| `CowVM_control!ControlInvariant` | `Spec => [](TypeOK /\ ThreadsOK /\ OwnersOK)` |
| `CowVM_safety!ReferenceCounts` | `Spec => [](RefcountExact /\ FreeIsUnreferenced /\ NoLeak /\ LocalsOK)` |
| `CowVM_safety!NoPageLost` | `Spec => []NoLeak` |
| `CowVM_safety!PrivatePages` | `Spec => []WritableIsPrivate` |
| `CowVM_safety!TablesExact` | `Spec => []TablesOK`; the only panics are "init exiting" and, after a failed `fork`, "freewalk: leaf"; `NoVmPanic` when only the first page needs a table page |
| `CowVM_safety!ProcessesIsolated` | `Spec => Isolation`: no step shows to a process other than its own stores, calls and exit, and the `fork` that creates it |
| `CowVM_safety!ImplementsMemories` | `Spec => PrivateMemories`: CowVM implements AddressSpaces |
| `Sched_proofs!SchedSafe` | `Spec => [](NoPanic /\ OneHartPerProcess /\ InterruptsFollowThread)` |
| `Sched_proofs!SchedImplementsMonitor` | `Spec => RefinesMonitor` |
| `Log_proofs!LogSafe`, `LogPhases` | `Spec => [](TypeOK /\ QuietIsDurable /\ NoMisuse)` |
| `Log_proofs!LogImplementsAtomicDisk` | `Spec => RefinesAtomicDisk` |
| `Traps_proofs!TrapsSafe`, `TpKept`, `ClaimsExclusive` | `Spec => [](VectorMatchesMode /\ TpIsHart /\ ContextKept /\ InterruptsExclusive)`: also for threads that yield inside `kerneltrap` and return on another hart |

The only assumptions are the named `ASSUME`s of CowVM, Sched, Log and Traps on their constants.

### CowVM

The proofs are in layers, one module each, over the invariants of CowVMInv.

1. CowVM_control: `TypeOK /\ ThreadsOK /\ OwnersOK`. `TypeOK` is not inductive: that a loop
   counter stays in range needs to know in which loop the thread is (`ThreadsOK`), and that
   `wait` and `fork` act on a process of their own needs `OwnersOK` (a slot has a running thread
   exactly when it is live, an embryo has one forking parent, a zombie is reaped only under
   `wait_lock`). The conjunction is inductive; there is one lemma per group of actions, all
   reduced to `ControlStep`, which says what replacing the record of one thread preserves.
2. CowVM_refs, over Counting: `RefsOK`, that is, every page is balanced (`CountsOK`), the locals
   of each thread describe the PTE and the counter they were read from (`LocalOK`), and writable
   pages are private. Exactness alone is not inductive. Taking ownership after reading a count of
   one needs the locals. Giving a page back needs to know that it is not on its way to the free
   list already.
3. CowVM_tables: `TablesOK`, that is, sizes and loop counters say exactly which PTEs are valid at
   every point of every loop, and from it that no `panic` of `uvmunmap`, `uvmcopy` or `mappages`
   is reached. Layer 2 does not need it: `mappages` panics rather than overwrite a valid PTE, and
   a panic ends the behaviour.
4. CowVM_memory: `MemoryInv`, what user programs see. It adds to the layers below that the pages
   of the image `exec` builds are mapped nowhere else and are not copy-on-write (`ImagesOK`), and
   that what `fork` has mapped in the child so far are the parent's pages (`CopiesOK`). Without
   the first, loading the image could show in another process; without the second, the child
   would not appear with a copy of the parent's memory.

The argument of layer 2 has three parts.

* A step matters to the counts only through a small view: the page a PTE maps (`PageAt`), the
  PTE a thread has left uncounted (`Holes`), the page it holds (`Hands`), the page it is about
  to push (`Pushes`). There is one lemma per change of that view: `kalloc`, a mapping, a
  copy, `incref`, the two halves of `kfree`, an unmapping, a shared mapping. Each is one law of
  Counting, such as "one PTE less, one count less, and the page goes if it was the last".
* A step of one thread leaves the tables and locals of the others alone, because the slots two
  threads work on are disjoint (`SlotsDisjoint`, from `OwnersOK`), and changes the counter only
  of a page it has a reference to, which no other thread relies on having a count of one
  (`OthersLocal`).
* One lemma per action says which change it makes. CowVM_safety proves the laws of counting from
  the library's theorems on finite sets and concludes. The laws are a conjunct of `CountsOK`
  (`CountingLaws`), so that only the last module depends on that library.

In layer 3 a thread's record and the table it works on change together: `LoopStep` treats a turn
of a loop as "one PTE more, counter plus one" or "one PTE less", and `TablesStep` says that the
other processes' tables are untouched.

Layer 4 uses the reference counts only through `PagesOK`: a writable page has one PTE, a page
just taken from `kalloc` has none, a page on its way to the free list at most the one `uvmunmap`
is about to clear. CowVM_safety derives it from layer 2 (`RefsGivePages`). The refinement maps a
process to `Space`, the contents of its pages up to its visible size, and has three parts.

* `MemFrame` lists the only steps that write a page (a store, `copyout`, the copy of a fault, the
  list pointer `kfree` writes, the image `exec` loads), and `PageKept` shows that none of them writes a page some process
  sees, except a store to a page its process alone maps and the `exec` that replaces the image.
* `OthersSpace` and `OwnSpace` conclude that a step changes the memory of no other process, and
  its own only where `Changes` says so; a copied page has the content of the page it replaces.
* `StoreIsWrite` and `ForkedIsFork` identify the steps that AddressSpaces names; `Forked` copies at
  one instant although `uvmcopy` maps page by page, because the parent is in the kernel meanwhile
  and no other process can write a page the parent sees.

### Sched

`SchedInv` says, for each place in the code, which locks the thread has (`HartOK`: `noff` is the number
of them, `Depth`; `p->lock` is held exactly where `Locked` says), where a thread that is on no hart
continues (`ProcOK`, `Parked`), what it knows of its sleep lock (`LockOK`), and that a monitor lock that is
held belongs to a hart whose thread is inside (`WordsOK`). The core of it is `LockOK` at `wakeup`: no
process below the scan waits on the lock. It is kept because a waiter joins only from inside the
monitor, which the waker owns, and because a process seen with `p->lock` free is not between
`release(lk)` and `SLEEPING`. A step of one thread leaves the others alone (`LocalStep`,
`OutsideMonitor`, `MonitorStep`); `wakeup`, `kill` and the scheduler have lemmas of their own.

For the refinement, `OwnerIsInside` turns the mapping's owner (the process on the hart that holds
the lock) into the thread that is inside, so that a step is judged by who is inside and who
waits. `AbstractStep` says that a step about one process and one lock changes nothing else;
`QuietStep` that a step that changes neither is a stutter.

### Log

`LogInvariant` says which thread is where in the commit (`PhasesOK`: one thread commits, and then no
operation is open), that no block is in a header twice (`HeadersOK`), and how home blocks, log
blocks and cached blocks agree while the system runs (`RunningOK`) and while it recovers
(`RecoveryOK`). A crash keeps only the disk, so every step of a commit has to leave a disk from
which recovery reaches the abstract one: `Rec` is what recovery makes of a disk, and the lemmas
`RecSame`, `RecLogged` and `RecEmpty` say when a block written leaves it alone. The header write is
the one step of a commit at which AtomicDisk commits.

### Traps

`TrapsInvariant` says, for each place of a hart, what its registers are (`Control`), where the
registers of its process are (`Context`), who serves which interrupt (`Plic`), and that a process is
on one hart or saved (`Processes`), with what its kernel stack holds. A thread interrupted in the kernel
is judged by the place it was interrupted at (`Place`), so that what is known of the code around the
interruption survives the `yield` and the move to another hart. A step of one hart leaves the others alone
(`OtherHarts`).

### Only model-checked

Liveness and what is enabled are outside the proof system's reach, and so is what the recursive
definitions compute (in PageTable, ShellParse and Shell). Of the safety
properties, `BootedFirst` of Kernel and those of VirtioDisk, Blocks, DirTree, FileTable, PageTable,
ShellParse and Shell are model-checked only; nothing here shows that they hold for
larger instances than those of the runs.

## Not modelled

`PROJECT.json` gives the reason for each part. Formatting and string routines, argument fetching and
the construction of the kernel page table are straight-line code without later state. User
programs other than the shell, and `mkfs`, are sequential programs outside the kernel. The console,
the UART, the tick counter, the ring buffer of a pipe, the list of buffers of `bio.c`, the table of
in-memory inodes and the instructions inside `acquire` and `release` are not
modelled: the other modules take what they need of them as one step. The ELF header is a choice of segments or failure; `exec`'s argument strings are left out. Weak memory is
modelled in Boot only; VirtioDisk writes a ring entry and the index in two steps and in that order,
which the driver's fences ensure, and elsewhere memory is taken to be sequentially consistent, because
`acquire` and `release` are fences. Accesses outside any lock exist (`usertrap` sets `p->killed` of its own
process, `uart.c` reads `panicked`); a frozen console after a panic is not modelled.
A crash is modelled in Log; an inode that was unlinked but open at a crash stays allocated, and nothing in the kernel looks for it.
