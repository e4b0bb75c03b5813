-------------------------------- MODULE Shell --------------------------------
(***************************************************************************)
(* A session of the shell: init starts it, main() reads a line, a child    *)
(* parses it (module ShellParse) and runcmd() turns it into processes,     *)
(* descriptors, pipes and open files that run echo and cat.  A file or a   *)
(* pipe holds words, and a word is written or read at once.  What goes to  *)
(* descriptor 2 is left out.                                               *)
(***************************************************************************)
EXTENDS ShellParse, TLC

CONSTANTS NPROC,         \* process slots besides init's
          NPIPE, NFILE,  \* pipes, and open files
          PIPESIZE,
          MaxLen,        \* bound on the tokens of a line that is only typed
          Lines          \* the lines that are run, as words and symbols

InitPid == 0
Pids == InitPid..NPROC
Fds == 0..4
Pipes == 1..NPIPE
Files == 1..NFILE
Fresh == "f" :> <<"old">>   \* the files before a line: their names and content

(* what a descriptor is open on *)
Nothing == [k |-> "none", id |-> 0]
Cons == [k |-> "cons", id |-> 0]
PipeR(i) == [k |-> "r", id |-> i]
PipeW(i) == [k |-> "w", id |-> i]
File(i, k, f) == [k |-> k, id |-> i, name |-> f]

VARIABLES pr,       \* processes
          buf,      \* the words in each pipe
          off,      \* offset of each open file
          files,    \* content of the files that exist
          out,      \* the words written to the console
          entered,  \* the line s has been entered
          line,     \* what parsecmd() makes of it
          failed,   \* something failed for want of memory, disk or slots since then
          halted    \* the kernel has panicked
io == <<buf, off, files, out>>
Typed == <<s, entered, line>>
vars == <<Typed, io, pr, failed, halted>>

NoCmd == [t |-> "none"]
Console == [f \in Fds |-> IF f < 3 THEN Cons ELSE Nothing]
Dead == [st |-> "none", parent |-> InitPid, at |-> "none", cmd |-> NoCmd, fd |-> [f \in Fds |-> Nothing],
         n |-> 0, src |-> 0]
NoWords == [i \in Pipes |-> <<>>]
Starts == [i \in Files |-> 0]
Init ==
  /\ s = <<>> /\ entered = FALSE /\ line = NoCmd /\ failed = FALSE /\ halted = FALSE
  /\ pr = [p \in Pids |-> IF p = InitPid THEN [Dead EXCEPT !.st = "run", !.at = "start", !.fd = Console] ELSE Dead]
  /\ buf = NoWords /\ off = Starts /\ files = Fresh /\ out = <<>>

At(p, l) == pr[p].st = "run" /\ pr[p].at = l
Is(p, t) == At(p, "run") /\ pr[p].cmd.t = t
Goto(p, l) == pr' = [pr EXCEPT ![p].at = l]
Holds(p, k, i) == \E f \in Fds : pr[p].fd[f].k = k /\ pr[p].fd[f].id = i
HasReader(i) == \E p \in Pids : Holds(p, "r", i)
HasWriter(i) == \E p \in Pids : Holds(p, "w", i)
Slots == {p \in Pids : pr[p].st = "none"}

(* a bound: one failure in a line *)
Fails == ~failed /\ failed' = TRUE
Works == UNCHANGED failed

(* close, and open or dup into the lowest free descriptor *)
Close(fd, f) == [fd EXCEPT ![f] = Nothing]
Lowest(fd) == Min({f \in Fds : fd[f] = Nothing})
Open(fd, o) == [fd EXCEPT ![Lowest(fd)] = o]
FdOf(fd, o) == Min({f \in Fds : fd[f] = o})

(* exit(): the descriptors are closed, the children given to init *)
Exit(p) ==
  pr' = [q \in Pids |->
           IF q = p THEN [Dead EXCEPT !.st = "zombie", !.parent = pr[p].parent]
           ELSE IF pr[q].parent = p THEN [pr[q] EXCEPT !.parent = InitPid] ELSE pr[q]]

(* fork(): the child starts at l with command c; the parent goes to next. *)
fork(p, c, l, next) ==
  \E q \in Slots :
    /\ q = Min(Slots)
    /\ pr' = [pr EXCEPT ![p] = [next EXCEPT !.n = IF p = InitPid THEN q ELSE @],
                        ![q] = [pr[p] EXCEPT !.parent = p, !.at = l, !.cmd = c]]
Then(p, l) == [pr[p] EXCEPT !.at = l]
(* fork1(): panic("fork") when fork() fails *)
fork1(p, c, l, next) ==
  \/ fork(p, c, l, Then(p, next)) /\ Works
  \/ Fails /\ Exit(p)

(* wait(0): the first child that is a zombie, or none is left *)
Children(p) == {q \in Pids \ {InitPid} : pr[q].st # "none" /\ pr[q].parent = p}
Zombies(p) == {q \in Children(p) : pr[q].st = "zombie"}
wait(p, next) ==
  \/ Zombies(p) # {} /\ pr' = [pr EXCEPT ![Min(Zombies(p))] = Dead, ![p] = next]
  \/ Children(p) = {} /\ pr' = [pr EXCEPT ![p] = next]

-----------------------------------------------------------------------------
(* init starts the shell; the kernel panics when init exits *)
InitStart ==
  /\ At(InitPid, "start")
  /\ \/ fork(InitPid, NoCmd, "exec sh", Then(InitPid, "reap")) /\ Works /\ UNCHANGED halted
     \/ Fails /\ halted' = TRUE /\ UNCHANGED pr
  /\ UNCHANGED <<Typed, io>>
(* exec("sh"), which opens the console until it gets descriptor 3 *)
ExecSh(p) ==
  /\ At(p, "exec sh")
  /\ \/ Goto(p, "prompt") /\ Works
     \/ Fails /\ Exit(p)
  /\ UNCHANGED <<Typed, io, halted>>
(* init's inner loop: the shell, or another child that it has been given *)
InitReap ==
  /\ At(InitPid, "reap")
  /\ IF Children(InitPid) = {} THEN halted' = TRUE /\ UNCHANGED pr
     ELSE wait(InitPid, Then(InitPid, IF pr[InitPid].n = Min(Zombies(InitPid)) THEN "start" ELSE "reap"))
          /\ UNCHANGED halted
  /\ UNCHANGED <<Typed, io, failed>>

(* the command with its words named *)
RECURSIVE Named(_, _)
Named(c, w) ==
  CASE c.t = "EXEC" -> [t |-> "EXEC", argv |-> [k \in DOMAIN c.argv |-> w[c.argv[k]]]]
    [] c.t = "REDIR" -> [t |-> "REDIR", c |-> Named(c.c, w), file |-> w[c.file], mode |-> c.mode]
    [] c.t = "BACK" -> Back(Named(c.c, w))
    [] OTHER -> [t |-> c.t, l |-> Named(c.l, w), r |-> Named(c.r, w)]

Parsed(w) == IF parsecmd = Bad THEN Bad ELSE Named(parsecmd, w)

(* a line as tokens, and what its words are *)
Shape(l) == [k \in DOMAIN l |-> IF l[k] \in Tokens \ {"a"} THEN l[k] ELSE "a"]
WordsOf(l) == [k \in {j \in DOMAIN l : Shape(l)[j] = "a"} |-> l[k]]
Shapes == [l \in Lines |-> Shape(l)]
Prefixes == UNION {{SubSeq(Shapes[l], 1, k) : k \in 0..Len(l)} : l \in Lines}

(* gets(), a token at a time; bounds: a line is typed when nothing of the   *)
(* last one is left, a command started with & included, and the files are   *)
(* as they were at first.  (What free pipes and open files hold does not    *)
(* matter.) *)
Type(p, t) ==
  /\ At(p, "prompt") /\ \A q \in Pids \ {InitPid, p} : pr[q].st = "none"
  /\ s' = Append(IF entered THEN <<>> ELSE s, t)
  /\ Len(s') <= MaxLen \/ s' \in Prefixes
  /\ entered' = FALSE /\ line' = NoCmd /\ failed' = FALSE /\ out' = <<>> /\ files' = Fresh /\ buf' = NoWords /\ off' = Starts
  /\ UNCHANGED <<pr, halted>>
(* the line is erased (^U) *)
KillLine(p) ==
  /\ At(p, "prompt") /\ ~entered /\ s # <<>>
  /\ s' = <<>> /\ UNCHANGED <<pr, io, entered, line, failed, halted>>
(* main() itself runs cd; there is no directory to go to *)
IsCd(l) == Len(l) > 1 /\ l[1] = "cd"
Enter(p, l) ==
  /\ At(p, "prompt") /\ ~entered /\ s = Shapes[l]
  /\ entered' = TRUE /\ line' = IF IsCd(l) THEN NoCmd ELSE Parsed(WordsOf(l))
  /\ Goto(p, IF IsCd(l) THEN "prompt" ELSE "fork") /\ UNCHANGED <<s, io, failed, halted>>
(* getcmd() at the end of the input: the shell exits *)
EndOfInput(p) ==
  /\ At(p, "prompt") /\ ~entered /\ s = <<>>
  /\ Exit(p) /\ UNCHANGED <<Typed, io, failed, halted>>

RunLine(p) == At(p, "fork") /\ fork1(p, NoCmd, "parse", "wait") /\ UNCHANGED <<Typed, io, halted>>
WaitLine(p) == At(p, "wait") /\ wait(p, Then(p, "prompt")) /\ UNCHANGED <<Typed, io, failed, halted>>
ParseLine(p) ==
  /\ At(p, "parse")
  /\ IF line = Bad THEN Exit(p)                        \* panic("syntax")
     ELSE pr' = [pr EXCEPT ![p].at = "run", ![p].cmd = line]
  /\ UNCHANGED <<Typed, io, failed, halted>>

-----------------------------------------------------------------------------
(* exec() fails for what is no program; n is the next argument *)
Programs == {"echo", "cat"}
RunExec(p) ==
  LET argv == pr[p].cmd.argv
      found == Len(argv) > 0 /\ argv[1] \in Programs
  IN
  /\ Is(p, "EXEC")
  /\ \/ ~found /\ Exit(p) /\ Works
     \/ found /\ pr' = [pr EXCEPT ![p].at = argv[1], ![p].n = 1] /\ Works
     \/ found /\ Fails /\ Exit(p)
  /\ UNCHANGED <<Typed, io, halted>>

(* open(): the modes of < , > and >>; the process exits when it fails, which *)
(* may leave a new file behind *)
Creates(mode) == mode # "<"
Emptied(f) == f :> <<>> @@ files
FreeFiles == {i \in Files : \A p \in Pids : ~Holds(p, "in", i) /\ ~Holds(p, "out", i)}
open(p, f, mode, fd, opened) ==
  \/ /\ f \in DOMAIN files \/ Creates(mode)
     /\ \E i \in FreeFiles :
          /\ i = Min(FreeFiles)
          /\ pr' = [pr EXCEPT ![p] = [opened EXCEPT !.fd = Open(fd, File(i, IF mode = "<" THEN "in" ELSE "out", f))]]
          /\ off' = [off EXCEPT ![i] = 0]
     /\ files' = IF mode = ">" \/ f \notin DOMAIN files THEN Emptied(f) ELSE files
     /\ Works
  \/ f \notin DOMAIN files /\ ~Creates(mode) /\ Exit(p) /\ Works /\ UNCHANGED <<off, files>>
  \/ /\ Fails /\ Exit(p) /\ UNCHANGED off
     /\ files' \in {files} \cup (IF Creates(mode) /\ f \notin DOMAIN files THEN {Emptied(f)} ELSE {})

(* fault: descriptor 0 for both directions *)
RunRedir_Input(p) ==
  LET c == pr[p].cmd IN
  /\ Is(p, "REDIR")
  /\ open(p, c.file, c.mode, Close(pr[p].fd, 0), [pr[p] EXCEPT !.cmd = c.c])
  /\ UNCHANGED <<Typed, buf, out, halted>>

RunRedir(p) ==
  LET c == pr[p].cmd
      fd == IF c.mode = "<" THEN 0 ELSE 1
  IN
  /\ Is(p, "REDIR")
  /\ open(p, c.file, c.mode, Close(pr[p].fd, fd), [pr[p] EXCEPT !.cmd = c.c])
  /\ UNCHANGED <<Typed, buf, out, halted>>

RunList(p) == Is(p, "LIST") /\ fork1(p, pr[p].cmd.l, "run", "list") /\ UNCHANGED <<Typed, io, halted>>
ListNext(p) ==
  /\ At(p, "list") /\ wait(p, [pr[p] EXCEPT !.at = "run", !.cmd = pr[p].cmd.r])
  /\ UNCHANGED <<Typed, io, failed, halted>>

(* pipe(p) *)
FreePipes == {i \in Pipes : ~HasReader(i) /\ ~HasWriter(i)}
RunPipe(p) ==
  /\ Is(p, "PIPE")
  /\ \/ \E i \in FreePipes :
          /\ i = Min(FreePipes)
          /\ pr' = [pr EXCEPT ![p].fd = Open(Open(@, PipeR(i)), PipeW(i)), ![p].n = i, ![p].at = "fork left"]
          /\ buf' = [buf EXCEPT ![i] = <<>>] /\ Works
     \/ Fails /\ Exit(p) /\ UNCHANGED buf
  /\ UNCHANGED <<Typed, off, files, out, halted>>
ForkLeft(p) == At(p, "fork left") /\ fork1(p, pr[p].cmd.l, "left", "fork right") /\ UNCHANGED <<Typed, io, halted>>
ForkRight(p) == At(p, "fork right") /\ fork1(p, pr[p].cmd.r, "right", "close") /\ UNCHANGED <<Typed, io, halted>>

(* close(f); dup(o); close both ends *)
Ends(fd, i) == Close(Close(fd, FdOf(fd, PipeR(i))), FdOf(fd, PipeW(i)))
Move(fd, f, o, i) ==
  LET r == FdOf(fd, PipeR(i))
      w == FdOf(fd, PipeW(i))
  IN Close(Close(Open(Close(fd, f), o), r), w)

(* fault: the right child keeps the write end *)
RightChild_KeepsEnd(p) ==
  LET i == pr[p].n
      r == FdOf(pr[p].fd, PipeR(i))
  IN
  /\ At(p, "right")
  /\ pr' = [pr EXCEPT ![p].fd = Close(Open(Close(@, 0), PipeR(i)), r), ![p].at = "run", ![p].n = 0]
  /\ UNCHANGED <<Typed, io, failed, halted>>

LeftChild(p) ==
  /\ At(p, "left")
  /\ pr' = [pr EXCEPT ![p].fd = Move(@, 1, PipeW(pr[p].n), pr[p].n), ![p].at = "run", ![p].n = 0]
  /\ UNCHANGED <<Typed, io, failed, halted>>
RightChild(p) ==
  /\ At(p, "right")
  /\ pr' = [pr EXCEPT ![p].fd = Move(@, 0, PipeR(pr[p].n), pr[p].n), ![p].at = "run", ![p].n = 0]
  /\ UNCHANGED <<Typed, io, failed, halted>>

(* fault: the parent keeps the write end *)
CloseEnds_KeepsEnd(p) ==
  /\ At(p, "close")
  /\ pr' = [pr EXCEPT ![p].fd = Close(@, FdOf(@, PipeR(pr[p].n))), ![p].at = "wait left"]
  /\ UNCHANGED <<Typed, io, failed, halted>>

CloseEnds(p) ==
  /\ At(p, "close")
  /\ pr' = [pr EXCEPT ![p].fd = Ends(@, pr[p].n), ![p].at = "wait left"]
  /\ UNCHANGED <<Typed, io, failed, halted>>

WaitEnds(p) ==
  /\ \/ At(p, "wait left") /\ wait(p, Then(p, "wait right"))
     \/ At(p, "wait right") /\ wait(p, Then(p, "done"))
     \/ At(p, "done") /\ Exit(p)
  /\ UNCHANGED <<Typed, io, failed, halted>>

RunBack(p) == Is(p, "BACK") /\ fork1(p, pr[p].cmd.c, "run", "done") /\ UNCHANGED <<Typed, io, halted>>

-----------------------------------------------------------------------------
(* write() of a word w to descriptor 1: then next, or fails when it fails.  *)
(* A file has an offset; a full disk or a pipe nobody reads from is an error *)
Put(p, w, next, fails) ==
  LET o == pr[p].fd[1] IN
  \/ o.k = "cons" /\ out' = Append(out, w) /\ next /\ Works /\ UNCHANGED <<buf, off, files>>
  \/ /\ o.k = "out" /\ next /\ Works /\ off' = [off EXCEPT ![o.id] = @ + 1]
     /\ files' = [files EXCEPT ![o.name] = [k \in 1..Max({Len(@), off'[o.id]}) |-> IF k = off'[o.id] THEN w ELSE @[k]]]
     /\ UNCHANGED <<buf, out>>
  \/ o.k = "out" /\ Fails /\ fails /\ UNCHANGED io
  \/ o.k = "w" /\ ~HasReader(o.id) /\ fails /\ Works /\ UNCHANGED io
  \/ o.k = "w" /\ HasReader(o.id) /\ Len(buf[o.id]) < PIPESIZE
     /\ buf' = [buf EXCEPT ![o.id] = Append(@, w)] /\ next /\ Works /\ UNCHANGED <<off, files, out>>

argc(p) == Len(pr[p].cmd.argv)
(* echo does not look at what write() returns *)
Echo(p) ==
  LET next == pr' = [pr EXCEPT ![p].n = @ + 1] IN
  /\ At(p, "echo")
  /\ \/ pr[p].n < argc(p) /\ Put(p, pr[p].cmd.argv[pr[p].n + 1], next, next)
     \/ pr[p].n = argc(p) /\ Exit(p) /\ Works /\ UNCHANGED io
  /\ UNCHANGED <<Typed, halted>>

(* cat: descriptor 0, or every argument in turn *)
CatOpen(p) ==
  LET opened == [pr[p] EXCEPT !.src = Lowest(pr[p].fd), !.at = "read"] IN
  /\ At(p, "cat")
  /\ \/ argc(p) = 1 /\ pr' = [pr EXCEPT ![p].src = 0, ![p].at = "read"] /\ Works /\ UNCHANGED <<off, files>>
     \/ argc(p) > 1 /\ pr[p].n < argc(p) /\ open(p, pr[p].cmd.argv[pr[p].n + 1], "<", pr[p].fd, opened)
     \/ argc(p) > 1 /\ pr[p].n = argc(p) /\ Exit(p) /\ Works /\ UNCHANGED <<off, files>>
  /\ UNCHANGED <<Typed, buf, out, halted>>
CatEnd(p) ==
  IF argc(p) = 1 THEN Exit(p)
  ELSE pr' = [pr EXCEPT ![p].fd = Close(@, pr[p].src), ![p].n = @ + 1, ![p].at = "cat"]
(* the word read is kept in cmd; the console is at its end *)
Got(p, w) == pr' = [pr EXCEPT ![p].at = "put", ![p].cmd = [t |-> "EXEC", argv |-> @.argv, word |-> w]]
CatRead(p) ==
  LET o == pr[p].fd[pr[p].src] IN
  /\ At(p, "read")
  /\ \/ o.k = "cons" /\ CatEnd(p) /\ UNCHANGED <<buf, off>>
     \/ o.k = "in" /\ off[o.id] >= Len(files[o.name]) /\ CatEnd(p) /\ UNCHANGED <<buf, off>>
     \/ /\ o.k = "in" /\ off[o.id] < Len(files[o.name]) /\ Got(p, files[o.name][off[o.id] + 1])
        /\ off' = [off EXCEPT ![o.id] = @ + 1] /\ UNCHANGED buf
     \/ o.k = "r" /\ buf[o.id] = <<>> /\ ~HasWriter(o.id) /\ CatEnd(p) /\ UNCHANGED <<buf, off>>
     \/ /\ o.k = "r" /\ buf[o.id] # <<>> /\ Got(p, Head(buf[o.id]))
        /\ buf' = [buf EXCEPT ![o.id] = Tail(@)] /\ UNCHANGED off
  /\ UNCHANGED <<Typed, files, out, failed, halted>>
CatWrite(p) ==
  /\ At(p, "put") /\ Put(p, pr[p].cmd.word, Goto(p, "read"), Exit(p))
  /\ UNCHANGED <<Typed, halted>>

-----------------------------------------------------------------------------
Step(p) ==
  \/ ExecSh(p) \/ RunLine(p) \/ WaitLine(p)
  \/ ParseLine(p) \/ RunExec(p) \/ RunRedir(p) \/ RunList(p) \/ ListNext(p) \/ RunPipe(p) \/ RunBack(p)
  \/ ForkLeft(p) \/ ForkRight(p) \/ LeftChild(p) \/ RightChild(p) \/ CloseEnds(p) \/ WaitEnds(p)
  \/ Echo(p) \/ CatOpen(p) \/ CatRead(p) \/ CatWrite(p)
Run == ~halted /\ (InitStart \/ InitReap \/ \E p \in Pids : Step(p))
User == \E p \in Pids : (\E t \in Tokens : Type(p, t)) \/ (\E l \in Lines : Enter(p, l)) \/ KillLine(p) \/ EndOfInput(p)
Next == User \/ Run
Spec == Init /\ [][Next]_vars
FairSpec == Spec /\ WF_vars(Run)

-----------------------------------------------------------------------------
(* A program starts with its three descriptors and nothing else: a pipe's   *)
(* end that stays behind would keep a reader from ever seeing the end. *)
ExecFds ==
  \A p \in Pids : pr[p].st = "run" /\ pr[p].at \in Programs =>
    \A f \in Fds : (pr[p].fd[f] # Nothing) = (f < 3)

(* what a command means, given its input and the files: what it writes,     *)
(* what it leaves of the input, and the files after it.  cat stops at a     *)
(* file that does not exist; >> starts at the beginning of the file *)
RECURSIVE Meaning(_, _, _), Concat(_, _)
Result3(o, i, fs) == [out |-> o, in |-> i, fs |-> fs]
Concat(names, fs) ==
  IF names = <<>> \/ Head(names) \notin DOMAIN fs THEN <<>> ELSE fs[Head(names)] \o Concat(Tail(names), fs)
Over(new, old) == new \o SubSeq(old, Len(new) + 1, Len(old))
Meaning(c, in, fs) ==
  CASE c.t = "EXEC" ->
         IF c.argv = <<>> \/ c.argv[1] \notin Programs THEN Result3(<<>>, in, fs)
         ELSE IF c.argv[1] = "echo" THEN Result3(Tail(c.argv), in, fs)
         ELSE IF Len(c.argv) = 1 THEN Result3(in, <<>>, fs)
         ELSE Result3(Concat(Tail(c.argv), fs), in, fs)
    [] c.t = "REDIR" /\ c.mode = "<" ->
         IF c.file \notin DOMAIN fs THEN Result3(<<>>, in, fs)
         ELSE LET r == Meaning(c.c, fs[c.file], fs) IN Result3(r.out, in, r.fs)
    [] c.t = "REDIR" /\ c.mode # "<" ->
         LET old == IF c.mode = ">" \/ c.file \notin DOMAIN fs THEN <<>> ELSE fs[c.file]
             r == Meaning(c.c, in, c.file :> old @@ fs)
         IN Result3(<<>>, r.in, c.file :> Over(r.out, old) @@ r.fs)
    [] c.t = "PIPE" ->
         LET l == Meaning(c.l, in, fs)
             r == Meaning(c.r, l.out, l.fs)
         IN Result3(r.out, l.in, r.fs)
    [] c.t = "LIST" ->
         LET l == Meaning(c.l, in, fs)
             r == Meaning(c.r, l.in, l.fs)
         IN Result3(l.out \o r.out, r.in, r.fs)

(* lines whose outcome depends on the scheduler, or that read a file they   *)
(* write: &, the two sides of a pipe using a file one of them writes, and a *)
(* redirected file used again inside *)
RECURSIVE Uses(_), Writes(_), Racy(_)
Uses(c) ==
  CASE c.t = "EXEC" -> {c.argv[k] : k \in 2..Len(c.argv)}
    [] c.t = "REDIR" -> Uses(c.c) \cup {c.file}
    [] c.t = "BACK" -> Uses(c.c)
    [] OTHER -> Uses(c.l) \cup Uses(c.r)
Writes(c) ==
  CASE c.t = "EXEC" -> {}
    [] c.t = "REDIR" -> Writes(c.c) \cup IF c.mode = "<" THEN {} ELSE {c.file}
    [] c.t = "BACK" -> Writes(c.c)
    [] OTHER -> Writes(c.l) \cup Writes(c.r)
Racy(c) ==
  CASE c.t = "EXEC" -> FALSE
    [] c.t = "BACK" -> TRUE
    [] c.t = "REDIR" -> Racy(c.c) \/ c.file \in Uses(c.c)
    [] OTHER -> \/ Racy(c.l) \/ Racy(c.r)
                \/ c.t = "PIPE" /\ (Writes(c.l) \cap Uses(c.r)) \cup (Uses(c.l) \cap Writes(c.r)) # {}

Prompting == \E p \in Pids : At(p, "prompt")

(* The processes compute what the line means: when the prompt is back the   *)
(* console has been written, and every file has, exactly the words that the *)
(* pipes, redirections and lists of the line give it, in order; nothing, if *)
(* the parser refuses the line. *)
OutputExact ==
  Prompting /\ entered /\ ~failed =>
    IF line \in {Bad, NoCmd} THEN out = <<>> /\ files = Fresh
    ELSE ~Racy(line) => LET m == Meaning(line, <<>>, Fresh) IN out = m.out /\ files = m.fs

(* The prompt comes back, also when a fork, pipe, open, exec or write fails *)
(* in the middle of a pipeline, and when the shell itself has exited: no    *)
(* reader waits for a writer that will not come.  Only when init cannot     *)
(* start the shell does the kernel panic instead. *)
PromptReturns == ~Prompting ~> Prompting \/ halted
=============================================================================
