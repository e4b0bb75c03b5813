------------------------------ MODULE FileTable ------------------------------
(***************************************************************************)
(* Open files: the global table of file.c, the descriptor tables, and the  *)
(* system calls of sysfile.c and pipe.c that move references between them. *)
(* A step is a stretch under ftable.lock, or a stretch that touches only   *)
(* the caller's own data.  What a file stands for, one end of a pipe or an *)
(* inode, is counted; devices are closed like inodes, and inodes are       *)
(* opened for reading and writing.                                         *)
(***************************************************************************)
EXTENDS Naturals, Sequences, FiniteSets, FiniteSetsExt

CONSTANTS Procs, First,       \* First is init, which never exits
          NOFILE, NFILE,
          Pipes,              \* pages that kalloc() can give to pipes
          Fds
ASSUME FileTableAssumption ==
  First \in Procs /\ Fds = 0..NOFILE - 1 /\ NFILE \in Nat

Files == 1..NFILE
NULL == 0
Closed == [type |-> "none", pipe |-> NULL, writable |-> FALSE]   \* FD_NONE

VARIABLES ref, file,     \* ftable.file[]: the count, and the rest
          ofile,         \* p->ofile
          ends,          \* per pipe page: the ends that are open
          iref,          \* in-memory inode references held by files and cwds
          pc, lv,        \* per process: where it is, and its locals
          inop,          \* processes inside a transaction
          misuse         \* a panic, a nested begin_op() or an iput() outside one
ftable == <<ref, file>>
vars == <<ftable, ofile, ends, iref, pc, lv, inop, misuse>>

(* cl: files fileclose() is still to be called for; ff: its copy; then:     *)
(* where it returns to; f, g: files in hand; fd: loop variable; np: child *)
NoLocals == [cl |-> <<>>, ff |-> Closed, then |-> "user", f |-> NULL, g |-> NULL, fd |-> 0, np |-> First]
Init ==
  /\ ref = [f \in Files |-> 0] /\ file = [f \in Files |-> Closed]
  /\ ofile = [p \in Procs |-> [fd \in Fds |-> NULL]]
  /\ ends = [k \in Pipes |-> {}]
  /\ iref = 1 /\ inop = {} /\ misuse = FALSE
  /\ pc = [p \in Procs |-> IF p = First THEN "user" ELSE "unused"]
  /\ lv = [p \in Procs |-> NoLocals]

Goto(p, l) == pc' = [pc EXCEPT ![p] = l]
User(p) == Goto(p, "user") /\ lv' = [lv EXCEPT ![p] = NoLocals]
begin_op(p) == inop' = inop \cup {p}
end_op(p) == inop' = inop \ {p}
CloseThen(p, files, l) ==
  /\ Goto(p, "close")
  /\ lv' = [lv EXCEPT ![p].cl = SelectSeq(files, LAMBDA f : f # NULL), ![p].then = l]

Slots == {f \in Files : ref[f] = 0}
filealloc(f) == IF Slots = {} THEN f = NULL /\ UNCHANGED ref
                              ELSE f = Min(Slots) /\ ref' = [ref EXCEPT ![f] = 1]
FreeFds(p) == {fd \in Fds : ofile[p][fd] = NULL}
argfd(p) == Fds \ FreeFds(p)              \* the descriptors it accepts

-----------------------------------------------------------------------------
(* fileclose(): the count under the lock, what the file stood for after it *)
CloseDecr(p) ==
  LET f == Head(lv[p].cl) IN
  /\ pc[p] = "close" /\ lv[p].cl # <<>>
  /\ ref' = [ref EXCEPT ![f] = IF @ = 0 THEN 0 ELSE @ - 1]
  /\ file' = IF ref[f] = 1 THEN [file EXCEPT ![f] = Closed] ELSE file
  /\ lv' = [lv EXCEPT ![p].cl = Tail(@), ![p].ff = IF ref[f] = 1 THEN file[f] ELSE Closed]
  /\ misuse' = (misuse \/ ref[f] = 0)
  /\ Goto(p, "closing")
  /\ UNCHANGED <<ofile, ends, iref, inop>>

(* one end is closed; the page of a pipe without ends is free *)
pipeclose(k, writable) ==
  LET end == IF writable THEN "w" ELSE "r" IN
  /\ ends' = [ends EXCEPT ![k] = @ \ {end}]
  /\ misuse' = (misuse \/ end \notin ends[k])

CloseLast(p) ==
  LET ff == lv[p].ff IN
  /\ pc[p] = "closing"
  /\ CASE ff.type = "pipe" -> pipeclose(ff.pipe, ff.writable) /\ UNCHANGED iref
       [] ff.type = "inode" ->           \* begin_op(); iput(); end_op()
            /\ iref' = iref - 1 /\ misuse' = (misuse \/ p \in inop)
            /\ UNCHANGED ends
       [] OTHER -> UNCHANGED <<ends, iref, misuse>>
  /\ lv' = [lv EXCEPT ![p].ff = Closed]
  /\ Goto(p, "close")
  /\ UNCHANGED <<ftable, ofile, inop>>

CloseDone(p) ==
  /\ pc[p] = "close" /\ lv[p].cl = <<>>
  /\ Goto(p, lv[p].then)
  /\ lv' = IF lv[p].then = "user" THEN [lv EXCEPT ![p] = NoLocals] ELSE lv
  /\ UNCHANGED <<ftable, ofile, ends, iref, inop, misuse>>

-----------------------------------------------------------------------------
(* fault: the transaction ends before the error path is through *)
OpenFd_EndFirst(p) ==
  /\ pc[p] = "openfd"
  /\ IF FreeFds(p) = {}
     THEN CloseThen(p, <<lv[p].f>>, "openbad") /\ UNCHANGED <<file, ofile>>
     ELSE /\ ofile' = [ofile EXCEPT ![p][Min(FreeFds(p))] = lv[p].f]
          /\ file' = [file EXCEPT ![lv[p].f] = [Closed EXCEPT !.type = "inode", !.writable = TRUE]]
          /\ User(p)
  /\ end_op(p)
  /\ UNCHANGED <<ref, ends, iref, misuse>>

(* fault: the file gets its type before its descriptor *)
OpenFd_TypeFirst(p) ==
  /\ pc[p] = "openfd"
  /\ file' = [file EXCEPT ![lv[p].f] = [Closed EXCEPT !.type = "inode"]]
  /\ IF FreeFds(p) = {}
     THEN CloseThen(p, <<lv[p].f>>, "openbad") /\ UNCHANGED <<ofile, inop>>
     ELSE /\ ofile' = [ofile EXCEPT ![p][Min(FreeFds(p))] = lv[p].f]
          /\ end_op(p)
          /\ User(p)
  /\ UNCHANGED <<ref, ends, iref, misuse>>

(* sys_open(): the inode, the file, the descriptor, the fields *)
sys_open(p) ==
  /\ pc[p] = "user"
  /\ begin_op(p) /\ misuse' = (misuse \/ p \in inop)
  /\ iref' = iref + 1
  /\ Goto(p, "openfile")
  /\ UNCHANGED <<ftable, ofile, ends, lv>>
OpenFile(p) ==
  /\ pc[p] = "openfile"
  /\ \E f \in Files \cup {NULL} :
       /\ filealloc(f)
       /\ lv' = [lv EXCEPT ![p].f = f]
       /\ Goto(p, IF f = NULL THEN "openbad" ELSE "openfd")
  /\ UNCHANGED <<file, ofile, ends, iref, inop, misuse>>
OpenFd(p) ==
  /\ pc[p] = "openfd"
  /\ IF FreeFds(p) = {}
     THEN CloseThen(p, <<lv[p].f>>, "openbad") /\ UNCHANGED <<file, ofile, inop>>
     ELSE /\ ofile' = [ofile EXCEPT ![p][Min(FreeFds(p))] = lv[p].f]
          /\ file' = [file EXCEPT ![lv[p].f] = [Closed EXCEPT !.type = "inode", !.writable = TRUE]]
          /\ end_op(p)
          /\ User(p)
  /\ UNCHANGED <<ref, ends, iref, misuse>>
OpenBad(p) ==
  /\ pc[p] = "openbad"
  /\ iref' = iref - 1 /\ misuse' = (misuse \/ p \notin inop)
  /\ end_op(p) /\ User(p)
  /\ UNCHANGED <<ftable, ofile, ends>>

-----------------------------------------------------------------------------
(* fault: the descriptors are not cleared when copyout() fails *)
PipeFd_KeepFds(p) ==
  LET rf == lv[p].f
      wf == lv[p].g
      fd0 == Min(FreeFds(p))
      fd1 == Min(FreeFds(p) \ {fd0})
  IN
  /\ pc[p] = "pipefd"
  /\ IF Cardinality(FreeFds(p)) < 2
     THEN CloseThen(p, <<rf, wf>>, "user") /\ UNCHANGED ofile
     ELSE /\ ofile' = [ofile EXCEPT ![p][fd0] = rf, ![p][fd1] = wf]
          /\ User(p) \/ CloseThen(p, <<rf, wf>>, "user")
  /\ UNCHANGED <<ftable, ends, iref, inop, misuse>>

(* sys_pipe(): pipealloc(), two descriptors, copyout() *)
sys_pipe(p) ==
  /\ pc[p] = "user"
  /\ \E f \in Files \cup {NULL} :
       /\ filealloc(f)
       /\ lv' = [lv EXCEPT ![p].f = f]
       /\ Goto(p, IF f = NULL THEN "user" ELSE "pipe2")
  /\ UNCHANGED <<file, ofile, ends, iref, inop, misuse>>
PipeSecond(p) ==
  /\ pc[p] = "pipe2"
  /\ \E f \in Files \cup {NULL} :
       /\ filealloc(f)
       /\ IF f = NULL THEN CloseThen(p, <<lv[p].f>>, "user")
          ELSE Goto(p, "pipepage") /\ lv' = [lv EXCEPT ![p].g = f]
  /\ UNCHANGED <<file, ofile, ends, iref, inop, misuse>>
PipePage(p) ==
  LET rf == lv[p].f
      wf == lv[p].g
      free == {k \in Pipes : ends[k] = {}}
  IN
  /\ pc[p] = "pipepage"
  /\ IF free = {} THEN CloseThen(p, <<rf, wf>>, "user") /\ UNCHANGED <<file, ends>>
     ELSE LET k == Min(free)
              end(w) == [type |-> "pipe", pipe |-> k, writable |-> w]
          IN /\ ends' = [ends EXCEPT ![k] = {"r", "w"}]
             /\ file' = [file EXCEPT ![rf] = end(FALSE), ![wf] = end(TRUE)]
             /\ Goto(p, "pipefd") /\ UNCHANGED lv
  /\ UNCHANGED <<ref, ofile, iref, inop, misuse>>
PipeFd(p) ==
  LET rf == lv[p].f
      wf == lv[p].g
      fd0 == Min(FreeFds(p))
      fd1 == Min(FreeFds(p) \ {fd0})
  IN
  /\ pc[p] = "pipefd"
  /\ \/ Cardinality(FreeFds(p)) < 2        \* fd0, if any, is given back
        /\ CloseThen(p, <<rf, wf>>, "user")
        /\ UNCHANGED ofile
     \/ Cardinality(FreeFds(p)) >= 2       \* copyout() succeeds ...
        /\ ofile' = [ofile EXCEPT ![p][fd0] = rf, ![p][fd1] = wf]
        /\ User(p)
     \/ Cardinality(FreeFds(p)) >= 2       \* ... or fails
        /\ CloseThen(p, <<rf, wf>>, "user")
        /\ UNCHANGED ofile
  /\ UNCHANGED <<ftable, ends, iref, inop, misuse>>

-----------------------------------------------------------------------------
sys_close(p) ==
  /\ pc[p] = "user"
  /\ \E fd \in argfd(p) :
       /\ ofile' = [ofile EXCEPT ![p][fd] = NULL]
       /\ CloseThen(p, <<ofile[p][fd]>>, "user")
  /\ UNCHANGED <<ftable, ends, iref, inop, misuse>>

(* sys_dup(): fdalloc(), then filedup() *)
sys_dup(p) ==
  /\ pc[p] = "user" /\ FreeFds(p) # {}
  /\ \E fd \in argfd(p) :
       /\ ofile' = [ofile EXCEPT ![p][Min(FreeFds(p))] = ofile[p][fd]]
       /\ lv' = [lv EXCEPT ![p].f = ofile[p][fd]]
  /\ Goto(p, "dup")
  /\ UNCHANGED <<ftable, ends, iref, inop, misuse>>
filedup(p) ==
  /\ pc[p] = "dup"
  /\ ref' = [ref EXCEPT ![lv[p].f] = @ + 1]
  /\ misuse' = (misuse \/ ref[lv[p].f] = 0)
  /\ User(p)
  /\ UNCHANGED <<file, ofile, ends, iref, inop>>

(* sys_read(), sys_write(), sys_fstat(): the file is used without a         *)
(* reference of its own, in a transaction if an inode is written *)
Use(p) ==
  /\ pc[p] = "user"
  /\ \E fd \in argfd(p) :
       LET f == ofile[p][fd]
           writes == file[f].type = "inode" /\ file[f].writable
       IN /\ lv' = [lv EXCEPT ![p].f = f]
          /\ inop' = IF writes THEN inop \cup {p} ELSE inop
          /\ misuse' = (misuse \/ (writes /\ p \in inop))
  /\ Goto(p, "using")
  /\ UNCHANGED <<ftable, ofile, ends, iref>>
Used(p) ==
  /\ pc[p] = "using"
  /\ end_op(p) /\ User(p)
  /\ UNCHANGED <<ftable, ofile, ends, iref, misuse>>

-----------------------------------------------------------------------------
(* fork(): a reference per descriptor, then the current directory *)
fork(p) ==
  /\ pc[p] = "user"
  /\ \E c \in {q \in Procs : pc[q] = "unused"} :
       /\ pc' = [pc EXCEPT ![p] = "forkfd", ![c] = "embryo"]
       /\ lv' = [lv EXCEPT ![p].np = c, ![p].fd = 0]
  /\ UNCHANGED <<ftable, ofile, ends, iref, inop, misuse>>
ForkFd(p) ==
  LET fd == lv[p].fd
      f == ofile[p][fd]
  IN
  /\ pc[p] = "forkfd" /\ fd < NOFILE
  /\ ofile' = [ofile EXCEPT ![lv[p].np][fd] = f]
  /\ IF f = NULL THEN UNCHANGED <<ref, misuse>>
     ELSE ref' = [ref EXCEPT ![f] = @ + 1] /\ misuse' = (misuse \/ ref[f] = 0)
  /\ lv' = [lv EXCEPT ![p].fd = fd + 1]
  /\ UNCHANGED <<file, ends, iref, pc, inop>>
ForkCwd(p) ==
  /\ pc[p] = "forkfd" /\ lv[p].fd = NOFILE
  /\ iref' = iref + 1
  /\ pc' = [pc EXCEPT ![p] = "user", ![lv[p].np] = "user"]
  /\ lv' = [lv EXCEPT ![p] = NoLocals]
  /\ UNCHANGED <<ftable, ofile, ends, inop, misuse>>

(* exit(): every descriptor is closed, then cleared; then the directory *)
exit(p) ==
  /\ pc[p] = "user" /\ p # First
  /\ Goto(p, "exit") /\ UNCHANGED <<ftable, ofile, ends, iref, lv, inop, misuse>>
ExitClose(p) ==
  /\ pc[p] = "exit" /\ lv[p].fd < NOFILE /\ ofile[p][lv[p].fd] # NULL
  /\ CloseThen(p, <<ofile[p][lv[p].fd]>>, "exitfd")
  /\ UNCHANGED <<ftable, ofile, ends, iref, inop, misuse>>
ExitFd(p) ==
  /\ pc[p] = "exitfd" \/ (pc[p] = "exit" /\ lv[p].fd < NOFILE /\ ofile[p][lv[p].fd] = NULL)
  /\ ofile' = [ofile EXCEPT ![p][lv[p].fd] = NULL]
  /\ lv' = [lv EXCEPT ![p].fd = @ + 1]
  /\ Goto(p, "exit")
  /\ UNCHANGED <<ftable, ends, iref, inop, misuse>>
ExitCwd(p) ==
  /\ pc[p] = "exit" /\ lv[p].fd = NOFILE
  /\ iref' = iref - 1 /\ misuse' = (misuse \/ p \in inop)
  /\ Goto(p, "unused") /\ lv' = [lv EXCEPT ![p] = NoLocals]
  /\ UNCHANGED <<ftable, ofile, ends, inop>>

-----------------------------------------------------------------------------
Next == \E p \in Procs :
  \/ CloseDecr(p) \/ CloseLast(p) \/ CloseDone(p)
  \/ sys_open(p) \/ OpenFile(p) \/ OpenFd(p) \/ OpenBad(p)
  \/ sys_pipe(p) \/ PipeSecond(p) \/ PipePage(p) \/ PipeFd(p)
  \/ sys_close(p) \/ sys_dup(p) \/ filedup(p) \/ Use(p) \/ Used(p)
  \/ fork(p) \/ ForkFd(p) \/ ForkCwd(p)
  \/ exit(p) \/ ExitClose(p) \/ ExitFd(p) \/ ExitCwd(p)

Spec == Init /\ [][Next]_vars

-----------------------------------------------------------------------------
Exiting(p) == pc[p] = "exitfd" \/ (pc[p] \in {"close", "closing"} /\ lv[p].then = "exitfd")

(* References to f: the descriptors, and what system calls have in hand. *)
InTables(f) == Cardinality({<<p, fd>> \in Procs \X Fds : ofile[p][fd] = f})
InHand(f) ==
  LET firsts == {p \in Procs : lv[p].f = f /\ pc[p] \in {"openfd", "pipe2", "pipepage", "pipefd"}}
      seconds == {p \in Procs : lv[p].g = f /\ pc[p] \in {"pipepage", "pipefd"}}
      toclose == {p \in Procs : ~Exiting(p) /\ \E i \in DOMAIN lv[p].cl : lv[p].cl[i] = f}
  IN Cardinality(firsts) + Cardinality(seconds) + Cardinality(toclose)
(* descriptors that exist already, or still, without their reference *)
Owed(f) ==
  Cardinality({p \in Procs : \/ pc[p] = "dup" /\ lv[p].f = f
                             \/ Exiting(p) /\ lv[p].cl = <<>> /\ ofile[p][lv[p].fd] = f})

(* A file's count is the number of descriptors and pointers to it, at every *)
(* step of every error path: it is never freed under a user, never leaked. *)
RefExact == \A f \in Files : ref[f] + Owed(f) = InTables(f) + InHand(f)

Live(e) == {f \in Files : file[f] = e}
Closing(e) == {p \in Procs : pc[p] = "closing" /\ lv[p].ff = e}
Opening == {p \in Procs : \/ pc[p] \in {"openfile", "openfd", "openbad"}
                          \/ pc[p] \in {"close", "closing"} /\ lv[p].then = "openbad"}

(* A pipe end is open as long as exactly one file stands for it, and the    *)
(* inode references are those of open files, of current directories and of  *)
(* open() in progress: closing takes the copy of the file, since the slot   *)
(* may be another process's file by then. *)
ResourcesExact ==
  /\ \A k \in Pipes, w \in BOOLEAN :
       LET e == [type |-> "pipe", pipe |-> k, writable |-> w]
       IN Cardinality(Live(e)) + Cardinality(Closing(e)) = IF (IF w THEN "w" ELSE "r") \in ends[k] THEN 1 ELSE 0
  /\ iref = Cardinality({f \in Files : file[f].type = "inode"})
            + Cardinality({p \in Procs : pc[p] = "closing" /\ lv[p].ff.type = "inode"})
            + Cardinality({p \in Procs : pc[p] \notin {"unused", "embryo"}})
            + Cardinality(Opening)

(* No panic in filedup() or fileclose(), no pipe end closed twice, no       *)
(* transaction begun inside another, no iput() outside one. *)
NoMisuse == ~misuse
=============================================================================
