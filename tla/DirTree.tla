------------------------------- MODULE DirTree -------------------------------
(***************************************************************************)
(* Directories: namex() and dirlookup() of fs.c and the calls of sysfile.c *)
(* that change the tree: create() for open, mkdir and mknod, link, unlink  *)
(* and chdir.  A step runs from one wait for an inode's lock to the next.  *)
(* The inode table is abstracted to counts: an inode is                    *)
(* freed by the iput() that leaves neither links nor references.           *)
(***************************************************************************)
EXTENDS Naturals, Sequences, FiniteSets, FiniteSetsExt

CONSTANTS Procs,
          NINUM,           \* inodes on the disk; 1 is the root
          Names,           \* names of directory entries
          Paths,           \* the paths that are looked up, as sequences
          Calls,           \* the calls that are made
          MaxLink          \* bound on nlink
ASSUME DirTreeAssumption ==
  NINUM \in Nat \ {0} /\ \A s \in Paths : s # <<>> /\ \A k \in DOMAIN s : s[k] \in Names \cup {".", ".."}

Inums == 1..NINUM
ROOTINO == 1
None == 0
Nobody == "nobody"
Entries == Names \cup {".", ".."}

VARIABLES ino,      \* type, nlink, ref, lock, and the entries of a directory
          cwd,
          pv,       \* per process: call, place, path, inodes in hand
          panic
vars == <<ino, cwd, pv, panic>>

Free == [type |-> "free", nlink |-> 0, ref |-> 0, lock |-> Nobody, ents |-> [n \in Entries |-> None]]
Dir(i, parent) == [Free EXCEPT !.type = "dir", !.nlink = 1, !.ents["."] = i, !.ents[".."] = parent]
Idle == [op |-> "none", at |-> "idle", path |-> <<>>, ip |-> None, old |-> None]
Init ==
  /\ ino = [i \in Inums |-> IF i = ROOTINO THEN [Dir(i, i) EXCEPT !.ref = Cardinality(Procs)] ELSE Free]
  /\ cwd = [p \in Procs |-> ROOTINO]
  /\ pv = [p \in Procs |-> Idle]
  /\ panic = FALSE

At(p, l) == pv[p].at = l
Unlocked(i) == ino[i].lock = Nobody
Name(p) == pv[p].path[1]
ilock(i) == panic' = (panic \/ ino[i].type = "free")      \* "ilock: no type"

(* iget() or idup(), and iput(), as changes of the inodes t *)
Get(t, i) == [t EXCEPT ![i].ref = @ + 1]
Put(t, i) == IF t[i].ref = 1 /\ t[i].nlink = 0 THEN [t EXCEPT ![i] = Free]
                                               ELSE [t EXCEPT ![i].ref = @ - 1]
Unlock(t, i) == [t EXCEPT ![i].lock = Nobody]
UnlockPut(t, i) == Put(Unlock(t, i), i)

(* the inode a name of directory dp leads to, and a new name for inode i *)
dirlookup(t, dp, name) == t[dp].ents[name]
dirlink(t, dp, name, i) == [t EXCEPT ![dp].ents[name] = i]

Return(p) == pv' = [pv EXCEPT ![p] = Idle]
Fail(p) == IF pv[p].old = None THEN Return(p)             \* sys_link(): bad
           ELSE pv' = [pv EXCEPT ![p] = [Idle EXCEPT !.op = "link", !.at = "bad", !.old = pv[p].old]]

-----------------------------------------------------------------------------
(* a call begins: namex() starts at the root or at the current directory *)
Start(p) == {ROOTINO, cwd[p]}
Call(p, op, path, start) ==
  /\ At(p, "idle")
  /\ ino' = Get(ino, start)
  /\ pv' = [pv EXCEPT ![p] = [Idle EXCEPT !.op = op, !.at = "walk", !.path = path, !.ip = start]]
  /\ UNCHANGED <<cwd, panic>>

(* nameiparent() is asked for, not namei() *)
Parent(p) == pv[p].op \in {"create", "mkdir", "unlink"} \/ pv[p].old # None

(* one turn of namex(): ilock(), look, iunlockput() or iunlock() *)
Walk(p) ==
  LET ip == pv[p].ip
      next == dirlookup(ino, ip, Name(p))
  IN
  /\ At(p, "walk") /\ Unlocked(ip)
  /\ ilock(ip)
  /\ \/ /\ ino[ip].type # "dir"
        /\ ino' = Put(ino, ip) /\ Fail(p)
     \/ /\ ino[ip].type = "dir" /\ Parent(p) /\ Len(pv[p].path) = 1
        /\ pv' = [pv EXCEPT ![p].at = "found"] /\ UNCHANGED ino
     \/ /\ ino[ip].type = "dir" /\ ~(Parent(p) /\ Len(pv[p].path) = 1) /\ next = None
        /\ ino' = Put(ino, ip) /\ Fail(p)
     \/ /\ ino[ip].type = "dir" /\ ~(Parent(p) /\ Len(pv[p].path) = 1) /\ next # None
        /\ ino' = Put(Get(ino, next), ip)
        /\ pv' = [pv EXCEPT ![p].ip = next, ![p].path = Tail(@),
                            ![p].at = IF Len(pv[p].path) = 1 THEN "found" ELSE "walk"]
  /\ UNCHANGED cwd

-----------------------------------------------------------------------------
(* create() with the parent in hand: the name is there already *)
CreateExists(p) ==
  LET dp == pv[p].ip
      ip == dirlookup(ino, dp, Name(p))
  IN
  /\ At(p, "found") /\ pv[p].op \in {"create", "mkdir"} /\ Unlocked(dp) /\ ip # None
  /\ ilock(dp)
  /\ ino' = Put(Get(ino, ip), dp)
  /\ pv' = [pv EXCEPT ![p].at = "exists", ![p].ip = ip]
  /\ UNCHANGED cwd

(* its type decides between success and failure; the caller unlocks it *)
Existing(p) ==
  /\ At(p, "exists") /\ Unlocked(pv[p].ip)
  /\ ilock(pv[p].ip)
  /\ ino' = Put(ino, pv[p].ip) /\ Return(p)
  /\ UNCHANGED cwd

(* a new inode, entered in the parent; it is returned locked *)
FreeInums == {i \in Inums : ino[i].type = "free"}
CreateNew(p) ==
  LET dp == pv[p].ip
      dir == pv[p].op = "mkdir"
  IN
  /\ At(p, "found") /\ pv[p].op \in {"create", "mkdir"} /\ Unlocked(dp) /\ dirlookup(ino, dp, Name(p)) = None
  /\ ilock(dp)
  /\ \E i \in FreeInums :
       LET new == IF dir THEN Dir(i, dp) ELSE [Free EXCEPT !.type = "file", !.nlink = 1]
           made == [ino EXCEPT ![i] = [new EXCEPT !.ref = 1, !.lock = p],
                               ![dp].nlink = IF dir THEN @ + 1 ELSE @]
       IN /\ i = Min(FreeInums)
          /\ ino' = Put(dirlink(made, dp, Name(p), i), dp)
          /\ pv' = [pv EXCEPT ![p].at = "created", ![p].ip = i]
  /\ UNCHANGED cwd
Created(p) ==
  /\ At(p, "created")
  /\ ino' = UnlockPut(ino, pv[p].ip) /\ Return(p)
  /\ UNCHANGED <<cwd, panic>>
(* no inode, or no block for an entry: everything is undone *)
CreateFails(p) ==
  LET dp == pv[p].ip IN
  /\ At(p, "found") /\ pv[p].op \in {"create", "mkdir"} /\ Unlocked(dp) /\ dirlookup(ino, dp, Name(p)) = None
  /\ ilock(dp)
  /\ ino' = Put(ino, dp) /\ Return(p)
  /\ UNCHANGED cwd

-----------------------------------------------------------------------------
(* fault: "." and ".." are looked up like any other name *)
UnlinkParent_Dots(p) ==
  LET dp == pv[p].ip
      ip == dirlookup(ino, dp, Name(p))
  IN
  /\ At(p, "found") /\ pv[p].op = "unlink" /\ Unlocked(dp)
  /\ ilock(dp)
  /\ IF ip = None THEN ino' = Put(ino, dp) /\ Return(p)
     ELSE /\ ino' = [Get(ino, ip) EXCEPT ![dp].lock = p]
          /\ pv' = [pv EXCEPT ![p].at = "unlink", ![p].old = ip]
  /\ UNCHANGED cwd

(* sys_unlink(): the parent is locked while the inode's lock is waited for *)
UnlinkParent(p) ==
  LET dp == pv[p].ip
      ip == dirlookup(ino, dp, Name(p))
  IN
  /\ At(p, "found") /\ pv[p].op = "unlink" /\ Unlocked(dp)
  /\ ilock(dp)
  /\ IF Name(p) \in {".", ".."} \/ ip = None THEN ino' = Put(ino, dp) /\ Return(p)
     ELSE /\ ino' = [Get(ino, ip) EXCEPT ![dp].lock = p]
          /\ pv' = [pv EXCEPT ![p].at = "unlink", ![p].old = ip]
  /\ UNCHANGED cwd
isdirempty(i) == \A n \in Names : ino[i].ents[n] = None
UnlinkEntry(p) ==
  LET dp == pv[p].ip
      ip == pv[p].old
      dir == ino[ip].type = "dir"
  IN
  /\ At(p, "unlink") /\ Unlocked(ip)
  /\ panic' = (panic \/ ino[ip].type = "free" \/ ino[ip].nlink < 1)
  /\ IF dir /\ ~isdirempty(ip) THEN ino' = UnlockPut(Put(ino, ip), dp) /\ Return(p)
     ELSE /\ ino' = UnlockPut([ino EXCEPT ![dp].ents[Name(p)] = None,
                                          ![dp].nlink = IF dir THEN @ - 1 ELSE @,
                                          ![ip].lock = p], dp)
          /\ pv' = [pv EXCEPT ![p].at = "unlinked"]
  /\ UNCHANGED cwd
Unlinked(p) ==
  LET ip == pv[p].old IN
  /\ At(p, "unlinked")
  /\ ino' = UnlockPut([ino EXCEPT ![ip].nlink = @ - 1], ip) /\ Return(p)
  /\ UNCHANGED <<cwd, panic>>

-----------------------------------------------------------------------------
(* fault: the count is left to the entry's writer *)
LinkOld_NoCount(p) ==
  LET ip == pv[p].ip IN
  /\ At(p, "found") /\ pv[p].op = "link" /\ pv[p].old = None /\ Unlocked(ip)
  /\ ilock(ip)
  /\ IF ino[ip].type = "dir" \/ ino[ip].nlink >= MaxLink THEN ino' = Put(ino, ip) /\ Return(p)
     ELSE \E new \in Paths, start \in Start(p) :
            /\ ino' = Get(ino, start)
            /\ pv' = [pv EXCEPT ![p].at = "walk", ![p].path = new, ![p].ip = start, ![p].old = ip]
  /\ UNCHANGED cwd

(* fault: directories can be linked *)
LinkOld_Dirs(p) ==
  LET ip == pv[p].ip IN
  /\ At(p, "found") /\ pv[p].op = "link" /\ pv[p].old = None /\ Unlocked(ip)
  /\ ilock(ip)
  /\ ino[ip].nlink < MaxLink
  /\ \E new \in Paths, start \in Start(p) :
       /\ ino' = Get([ino EXCEPT ![ip].nlink = @ + 1], start)
       /\ pv' = [pv EXCEPT ![p].at = "walk", ![p].path = new, ![p].ip = start, ![p].old = ip]
  /\ UNCHANGED cwd

(* sys_link(): the count first, then the lookup of the new name *)
LinkOld(p) ==
  LET ip == pv[p].ip IN
  /\ At(p, "found") /\ pv[p].op = "link" /\ pv[p].old = None /\ Unlocked(ip)
  /\ ilock(ip)
  /\ IF ino[ip].type = "dir" \/ ino[ip].nlink >= MaxLink THEN ino' = Put(ino, ip) /\ Return(p)
     ELSE \E new \in Paths, start \in Start(p) :
            /\ ino' = Get([ino EXCEPT ![ip].nlink = @ + 1], start)
            /\ pv' = [pv EXCEPT ![p].at = "walk", ![p].path = new, ![p].ip = start, ![p].old = ip]
  /\ UNCHANGED cwd
LinkNew(p) ==
  LET dp == pv[p].ip
      ip == pv[p].old
  IN
  /\ At(p, "found") /\ pv[p].op = "link" /\ ip # None /\ Unlocked(dp)
  /\ ilock(dp)
  /\ \/ /\ dirlookup(ino, dp, Name(p)) = None
        /\ ino' = Put(Put(dirlink(ino, dp, Name(p), ip), dp), ip) /\ Return(p)
     \/ ino' = Put(ino, dp) /\ Fail(p)            \* the name exists, or no block
  /\ UNCHANGED cwd
LinkBad(p) ==
  LET ip == pv[p].old IN
  /\ At(p, "bad") /\ Unlocked(ip)
  /\ ilock(ip)
  /\ ino' = Put([ino EXCEPT ![ip].nlink = @ - 1], ip) /\ Return(p)
  /\ UNCHANGED cwd

(* fault: the old directory's reference is kept *)
sys_chdir_NoPut(p) ==
  LET ip == pv[p].ip IN
  /\ At(p, "found") /\ pv[p].op = "chdir" /\ Unlocked(ip)
  /\ ilock(ip)
  /\ IF ino[ip].type = "dir" THEN cwd' = [cwd EXCEPT ![p] = ip] /\ UNCHANGED ino
     ELSE ino' = Put(ino, ip) /\ UNCHANGED cwd
  /\ Return(p)

sys_chdir(p) ==
  LET ip == pv[p].ip IN
  /\ At(p, "found") /\ pv[p].op = "chdir" /\ Unlocked(ip)
  /\ ilock(ip)
  /\ IF ino[ip].type = "dir" THEN ino' = Put(ino, cwd[p]) /\ cwd' = [cwd EXCEPT ![p] = ip]
     ELSE ino' = Put(ino, ip) /\ UNCHANGED cwd
  /\ Return(p)

-----------------------------------------------------------------------------
Step(p) ==
  \/ Walk(p) \/ CreateExists(p) \/ Existing(p) \/ CreateNew(p) \/ Created(p) \/ CreateFails(p)
  \/ UnlinkParent(p) \/ UnlinkEntry(p) \/ Unlinked(p)
  \/ LinkOld(p) \/ LinkNew(p) \/ LinkBad(p) \/ sys_chdir(p)
Next ==
  /\ ~panic
  /\ \E p \in Procs :
       Step(p) \/ \E op \in Calls, path \in Paths, start \in Start(p) : Call(p, op, path, start)

Spec == Init /\ [][Next]_vars

-----------------------------------------------------------------------------
EntriesOf(i) == {<<d, n>> \in Inums \X Names : ino[d].type = "dir" /\ ino[d].ents[n] = i}

(* Every entry leads to an inode that is allocated and counts it: nothing   *)
(* is freed or reused while a name leads to it, whoever renames, links and  *)
(* unlinks at the same time. *)
NoDangling ==
  \A i \in Inums : EntriesOf(i) # {} =>
    /\ ino[i].type # "free"
    /\ ino[i].type = "file" => ino[i].nlink + Cardinality({p \in Procs : At(p, "unlinked") /\ pv[p].old = i})
                                 >= Cardinality(EntriesOf(i))

(* Directories form a tree: a directory has one entry at most, and its ".." *)
(* is the directory that has it. *)
DirsFormTree ==
  \A i \in Inums : ino[i].type = "dir" =>
    /\ Cardinality(EntriesOf(i)) <= 1
    /\ \A e \in EntriesOf(i) : ino[i].ents[".."] = e[1]

(* References are exact on every path through the calls: each inode a call  *)
(* or a current directory holds is counted once, so that it is freed at the *)
(* last iput() and not before. *)
RefsExact ==
  \A i \in Inums :
    ino[i].ref = Cardinality({p \in Procs : cwd[p] = i}) + Cardinality({p \in Procs : pv[p].old = i})
               + Cardinality({p \in Procs : pv[p].ip = i /\ ~At(p, "unlinked")})

(* The inode whose lock a process waits for, if any. *)
Wanted(p) == IF pv[p].at \in {"walk", "found", "exists"} THEN pv[p].ip
             ELSE IF pv[p].at \in {"unlink", "bad"} THEN pv[p].old ELSE None

(* Nobody waits in a circle: of the processes of any set at least one does  *)
(* not wait for an inode that is locked within the set.  unlink waits for   *)
(* an entry's inode with the directory locked, so it may only go down the   *)
(* tree, whatever the others rename, remove or reach by ".." meanwhile.     *)
NoLockCycle ==
  \A S \in SUBSET Procs \ {{}} :
    \E p \in S : Wanted(p) = None \/ ino[Wanted(p)].lock \notin S

=============================================================================
