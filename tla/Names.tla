-------------------------------- MODULE Names --------------------------------
(***************************************************************************)
(* The name layer: fs.c's inode cache (iget, ilock, iput), directories and *)
(* path lookup, file.c's table of open files, and the system calls of      *)
(* sysfile.c that work on names: open, close, dup, link, unlink, mkdir,    *)
(* mknod and chdir, called by several processes at once.                   *)
(*                                                                         *)
(* A step ends where the code gives up or waits for an inode's sleep lock  *)
(* (SleepLock shows that lock to be a mutex) or takes icache.lock.  What   *)
(* is done under one inode lock, with no other lock waited for, is one     *)
(* step.  The contents of files and directories (blocks, offsets) are in   *)
(* Blocks; here a directory is a function from names to inode numbers.     *)
(* Each call runs inside one transaction of the log (Log), so crashes are  *)
(* not modelled again.                                                     *)
(***************************************************************************)
EXTENDS Integers, Sequences, FiniteSets, FiniteSetsExt, SequencesExt

CONSTANTS
  Procs,      \* the processes
  NINODES,    \* inodes on disk, numbered from ROOTINO = 1
  NINODE,     \* entries of the inode cache
  NFILE,      \* entries of ftable
  NOFILE,     \* file descriptors per process
  Elems,      \* names of files, apart from "." and ".."
  Paths,      \* the paths that calls use; an absolute one starts with "/"
  Links,      \* the pairs <<old, new>> that link() is called with
  MaxCalls    \* system calls in a behaviour

Inums == 1..NINODES
Slots == 1..NINODE
Dots == {".", ".."}
DirNames == Elems \cup Dots
Nobody == "nobody"

VARIABLES
  dinode,     \* on disk: type (0 is free) and nlink of each inode
  dir,        \* on disk: the entries of each inode that is a directory
  icache,     \* inum, ref, valid, and the copies of type and nlink
  lock,       \* the holder of each cache entry's sleep lock
  cwd,        \* each process's current directory, a cache entry
  ftable,     \* ref and ip of each open file
  ofile,      \* each process's descriptors, 0 is closed
  fr,         \* each process's kernel stack: pc, and the local variables
  calls, panicked,
  lost        \* inodes that were given a name in a directory already removed

disk == <<dinode, dir>>
inodes == <<icache, lock>>
files == <<cwd, ftable, ofile>>
misc == <<calls, panicked, lost>>
vars == <<disk, inodes, files, fr, misc>>

\* The locals of a system call.  dp, ip, nx (namex's ip) and put (iput's ip)
\* are cache entries to which the call holds a reference, 0 when it does not.
Idle == [pc |-> "idle", op |-> "none", new |-> << >>, rest |-> << >>,
         parent |-> 0, found |-> "none", failed |-> "none",
         dp |-> 0, ip |-> 0, nx |-> 0, put |-> 0, after |-> "none"]

NoEntries == [n \in DirNames |-> 0]
NoFile == [ref |-> 0, ip |-> 0]
RootDir == [n \in DirNames |-> IF n \in Dots THEN 1 ELSE 0]

\* The trees calls start from: mkfs's root, with a file "a", or a directory
\* "a" that an earlier mkdir() has made.
Init ==
  /\ \E t \in {"FILE", "DIR"} :
       /\ dinode = [i \in Inums |->
            CASE i = 1 -> [type |-> "DIR", nlink |-> IF t = "DIR" THEN 2 ELSE 1]
              [] i = 2 -> [type |-> t, nlink |-> 1]
              [] OTHER -> [type |-> "0", nlink |-> 0]]
       /\ dir = [i \in Inums |->
            CASE i = 1 -> [RootDir EXCEPT !["a"] = 2]
              [] i = 2 /\ t = "DIR" -> [RootDir EXCEPT !["."] = 2]
              [] OTHER -> NoEntries]
  /\ icache = [s \in Slots |->
       [inum |-> IF s = 1 THEN 1 ELSE 0, ref |-> IF s = 1 THEN Cardinality(Procs) ELSE 0,
        valid |-> 0, type |-> "0", nlink |-> 0]]
  /\ lock = [s \in Slots |-> Nobody]
  /\ cwd = [p \in Procs |-> 1]
  /\ ftable = [f \in 1..NFILE |-> NoFile]
  /\ ofile = [p \in Procs |-> [d \in 1..NOFILE |-> 0]]
  /\ fr = [p \in Procs |-> Idle]
  /\ calls = 0 /\ panicked = "none" /\ lost = {}
-----------------------------------------------------------------------------
(***************************************************************************)
(* The inode cache.  The operators map a cache to the cache afterwards.    *)
(***************************************************************************)

\* The entries in use for inode i.  Mutant: one with a single reference is
\* taken for free.
CachedNot(ic, i) == {s \in Slots : ic[s].ref > 1 /\ ic[s].inum = i}

Cached(ic, i) == {s \in Slots : ic[s].ref > 0 /\ ic[s].inum = i}

Empty(ic) == {s \in Slots : ic[s].ref = 0}

\* The entry that iget() returns for inode i; 0 when it panics.
Entry(ic, i) ==
  IF Cached(ic, i) # {} THEN Min(Cached(ic, i))
  ELSE IF Empty(ic) # {} THEN Min(Empty(ic)) ELSE 0

iget(ic, i) ==
  LET s == Entry(ic, i) IN
  IF s = 0 THEN ic
  ELSE IF Cached(ic, i) # {} THEN [ic EXCEPT ![s].ref = @ + 1]
  ELSE [ic EXCEPT ![s] = [@ EXCEPT !.inum = i, !.ref = 1, !.valid = 0]]

idup(ic, s) == [ic EXCEPT ![s].ref = @ + 1]

\* What ilock() does to the entry once it has the sleep lock.
ilock_load(ic, s) ==
  IF ic[s].valid = 1 THEN ic
  ELSE LET d == dinode[ic[s].inum] IN
       [ic EXCEPT ![s] = [@ EXCEPT !.valid = 1, !.type = d.type, !.nlink = d.nlink]]

\* The on-disk inodes after iupdate(entry s) from cache ic.  Mutant: skipped.
iupdate_not(d, ic, s) == d

iupdate(d, ic, s) ==
  [d EXCEPT ![ic[s].inum] = [type |-> ic[s].type, nlink |-> ic[s].nlink]]

AddLink(ic, s, k) == [ic EXCEPT ![s].nlink = @ + k]

Free(s) == lock[s] = Nobody

\* Mutant: the lock is kept.
iunlock_not(lk, s) == lk

iunlock(lk, s) == [lk EXCEPT ![s] = Nobody]

\* p's frame with some fields set, and its pc moved.
Goto(p, f) == fr' = [fr EXCEPT ![p] = f]

\* iput(s) and then pc k, for a frame f whose reference to s moves to put.
Put(f, s, k) == [f EXCEPT !.pc = "iput", !.put = s, !.after = k]

\* The machine stops.
Panic(msg) ==
  /\ panicked' = msg
  /\ fr' = [p \in Procs |-> Idle]
  /\ UNCHANGED <<calls, lost>>

\* iput() up to the free of the inode.  ref is read once, under icache.lock.
\* Mutant: the count of references is not looked at.
MustFreeAny(e) == e.valid = 1 /\ e.nlink = 0

MustFree(e) == e.valid = 1 /\ e.nlink = 0 /\ e.ref = 1

iput(p) ==
  LET f == fr[p]  s == f.put  e == icache[s] IN
  /\ f.pc = "iput"
  /\ Free(s)
  /\ IF MustFree(e)
       THEN LET ic == [icache EXCEPT ![s].type = "0"] IN
            /\ icache' = ic
            /\ dinode' = iupdate(dinode, ic, s)
            /\ dir' = [dir EXCEPT ![e.inum] = NoEntries]
            /\ lock' = [lock EXCEPT ![s] = p]
            /\ Goto(p, [f EXCEPT !.pc = "ifree"])
       ELSE /\ Goto(p, [f EXCEPT !.pc = "iref"])
            /\ UNCHANGED <<disk, inodes>>
  /\ UNCHANGED <<files, misc>>

\* ip->valid = 0 and the release of the sleep lock.
iput_free(p) ==
  LET f == fr[p] IN
  /\ f.pc = "ifree"
  /\ icache' = [icache EXCEPT ![f.put].valid = 0]
  /\ lock' = iunlock(lock, f.put)
  /\ Goto(p, [f EXCEPT !.pc = "iref"])
  /\ UNCHANGED <<disk, files, misc>>

\* Mutant: dropped twice.
ref_twice(n) == n - 2

ref_down(n) == n - 1

\* ip->ref-- under icache.lock, and the return to the caller of iput().
iput_ref(p) ==
  LET f == fr[p] IN
  /\ f.pc = "iref"
  /\ icache' = [icache EXCEPT ![f.put].ref = ref_down(@)]
  /\ Goto(p, IF f.after = "idle" THEN Idle
             ELSE [f EXCEPT !.pc = f.after, !.put = 0, !.after = "none"])
  /\ UNCHANGED <<disk, lock, files, misc>>
-----------------------------------------------------------------------------
(***************************************************************************)
(* Path lookup.                                                            *)
(***************************************************************************)
Absolute(path) == path # << >> /\ Head(path) = "/"

StartEntry(ic, p, path) == IF Absolute(path) THEN Entry(ic, 1) ELSE cwd[p]
StartCache(ic, p, path) == IF Absolute(path) THEN iget(ic, 1) ELSE idup(ic, cwd[p])

\* The frame at the start of namex(path, parent): found and failed are the
\* caller's continuations.
CallNamex(f, ic, p, path, parent, found, failed) ==
  [f EXCEPT !.pc = "namex", !.nx = StartEntry(ic, p, path),
            !.rest = IF Absolute(path) THEN Tail(path) ELSE path,
            !.parent = parent, !.found = found, !.failed = failed]

dirlookup(d, name) == dir[d][name]

\* The lock of the directory is released before the next inode is locked.
lookup_ref(ic, i) == iget(ic, i)

\* One round of namex's loop: lock the directory, look the element up, unlock;
\* iput() of the directory follows.
namex(p) ==
  LET f == fr[p]  s == f.nx  ic == ilock_load(icache, s)  e == ic[s]
      name == Head(f.rest)
      next == dirlookup(e.inum, name)
      give_up == Put([f EXCEPT !.nx = 0], s, f.failed)
  IN
  /\ f.pc = "namex"
  /\ IF f.rest = << >>
       THEN /\ Goto(p, IF f.parent = 1 THEN give_up
                       ELSE [f EXCEPT !.pc = f.found, !.ip = s, !.nx = 0])
            /\ UNCHANGED <<icache, misc>>
       ELSE /\ Free(s)
            /\ IF e.type = "0"
                 THEN Panic("ilock: no type") /\ UNCHANGED icache
               ELSE IF e.type = "DIR" /\ f.parent = 1 /\ Len(f.rest) = 1
                 THEN /\ Goto(p, [f EXCEPT !.pc = f.found, !.dp = s, !.nx = 0])
                      /\ icache' = ic /\ UNCHANGED misc
               ELSE IF e.type # "DIR" \/ next = 0
                 THEN Goto(p, give_up) /\ icache' = ic /\ UNCHANGED misc
               ELSE IF Entry(ic, next) = 0
                 THEN Panic("iget: no inodes") /\ UNCHANGED icache
                 ELSE /\ icache' = lookup_ref(ic, next)
                      /\ Goto(p, Put([f EXCEPT !.nx = Entry(ic, next),
                                               !.rest = Tail(f.rest)], s, "namex"))
                      /\ UNCHANGED misc
  /\ UNCHANGED <<disk, lock, files>>
-----------------------------------------------------------------------------
(***************************************************************************)
(* System calls: the start of each.                                        *)
(***************************************************************************)
StartCall(p, op, path, new, parent, found) ==
  /\ fr[p].pc = "idle" /\ calls < MaxCalls /\ panicked = "none"
  /\ icache' = StartCache(icache, p, path)
  /\ Goto(p, CallNamex([Idle EXCEPT !.op = op, !.new = new], icache, p, path,
                       parent, found, "idle"))
  /\ calls' = calls + 1
  /\ UNCHANGED <<disk, lock, files, panicked, lost>>

sys_open(p) ==
  \E path \in Paths, op \in {"O_RDONLY", "O_RDWR"} :
    StartCall(p, op, path, << >>, 0, "open")

\* open(O_CREATE), mkdir() and mknod() all start with create().
sys_create(p) ==
  \E path \in Paths, op \in {"O_CREATE", "mkdir", "mknod"} :
    StartCall(p, op, path, << >>, 1, "create")

sys_link(p) == \E l \in Links : StartCall(p, "link", l[1], l[2], 0, "link")

sys_unlink(p) == \E path \in Paths : StartCall(p, "unlink", path, << >>, 1, "unlink")

sys_chdir(p) == \E path \in Paths : StartCall(p, "chdir", path, << >>, 0, "chdir")

\* close(): the descriptor is cleared, and the last close of the file puts
\* its inode.
sys_close(p) ==
  /\ fr[p].pc = "idle" /\ calls < MaxCalls /\ panicked = "none"
  /\ \E d \in 1..NOFILE :
       LET f == ofile[p][d] IN
       /\ f # 0
       /\ ofile' = [ofile EXCEPT ![p][d] = 0]
       /\ IF ftable[f].ref > 1
            THEN ftable' = [ftable EXCEPT ![f].ref = @ - 1] /\ UNCHANGED fr
            ELSE /\ ftable' = [ftable EXCEPT ![f] = NoFile]
                 /\ Goto(p, Put([Idle EXCEPT !.op = "close"], ftable[f].ip, "idle"))
  /\ calls' = calls + 1
  /\ UNCHANGED <<disk, inodes, cwd, panicked, lost>>

FreeFds(p) == {d \in 1..NOFILE : ofile[p][d] = 0}
FreeFiles == {f \in 1..NFILE : ftable[f].ref = 0}

\* dup(): a second descriptor for the same file.  Mutant: without filedup().
nodup(t, f) == t

filedup(t, f) == [t EXCEPT ![f].ref = @ + 1]

sys_dup(p) ==
  /\ fr[p].pc = "idle" /\ calls < MaxCalls /\ panicked = "none"
  /\ \E d \in 1..NOFILE :
       LET f == ofile[p][d] IN
       /\ f # 0 /\ FreeFds(p) # {}
       /\ ofile' = [ofile EXCEPT ![p][Min(FreeFds(p))] = f]
       /\ ftable' = filedup(ftable, f)
  /\ calls' = calls + 1
  /\ UNCHANGED <<disk, inodes, cwd, fr, panicked, lost>>
-----------------------------------------------------------------------------
(***************************************************************************)
(* open().                                                                 *)
(***************************************************************************)

\* filealloc() and fdalloc() for the locked inode ip, then iunlock(ip); or
\* iunlockput(ip) when there is no file or no descriptor left.
Install(p, f) ==
  /\ lock' = iunlock(lock, f.ip)
  /\ IF FreeFiles # {} /\ FreeFds(p) # {}
       THEN /\ ftable' = [ftable EXCEPT ![Min(FreeFiles)] = [ref |-> 1, ip |-> f.ip]]
            /\ ofile' = [ofile EXCEPT ![p][Min(FreeFds(p))] = Min(FreeFiles)]
            /\ Goto(p, Idle)
       ELSE Goto(p, Put([f EXCEPT !.ip = 0], f.ip, "idle")) /\ UNCHANGED <<ftable, ofile>>
  /\ UNCHANGED <<disk, cwd, misc>>

open_ilock(p) ==
  LET f == fr[p]  ic == ilock_load(icache, f.ip) IN
  /\ f.pc = "open" /\ Free(f.ip)
  /\ icache' = ic
  /\ IF ic[f.ip].type = "0"
       THEN Panic("ilock: no type") /\ UNCHANGED <<disk, lock, files>>
     ELSE IF ic[f.ip].type = "DIR" /\ f.op # "O_RDONLY"
       THEN /\ Goto(p, Put([f EXCEPT !.ip = 0], f.ip, "idle"))
            /\ UNCHANGED <<disk, lock, files, misc>>
       ELSE Install(p, f)
-----------------------------------------------------------------------------
(***************************************************************************)
(* create().                                                               *)
(***************************************************************************)
FreeInums == {i \in Inums : dinode[i].type = "0"}

TypeOf(op) == CASE op = "mkdir" -> "DIR" [] op = "mknod" -> "DEV" [] OTHER -> "FILE"

\* With dp locked: the name exists, and dp is unlocked before the inode is
\* locked; or ialloc() takes a free inode, and dp stays locked.
create(p) ==
  LET f == fr[p]  s == f.dp  d == icache[s].inum
      old == dirlookup(d, Head(f.rest))
      new == Min(FreeInums)
  IN
  /\ f.pc = "create" /\ Free(s)
  /\ IF old # 0
       THEN /\ icache' = iget(icache, old)
            /\ Goto(p, Put([f EXCEPT !.dp = 0, !.ip = Entry(icache, old)], s, "create_found"))
            /\ UNCHANGED <<disk, lock, misc>>
     ELSE IF FreeInums = {}
       THEN Panic("ialloc: no inodes") /\ UNCHANGED <<disk, inodes>>
       ELSE /\ dinode' = [dinode EXCEPT ![new] = [type |-> TypeOf(f.op), nlink |-> 0]]
            /\ icache' = iget(icache, new)
            /\ lock' = [lock EXCEPT ![s] = p]
            /\ lost' = lost \ {new}
            /\ Goto(p, [f EXCEPT !.pc = "create_ilock", !.ip = Entry(icache, new)])
            /\ UNCHANGED <<dir, calls, panicked>>
  /\ UNCHANGED files

\* ilock(ip) of an existing name.
create_found(p) ==
  LET f == fr[p]  s == f.ip  ic == ilock_load(icache, s) IN
  /\ f.pc = "create_found" /\ Free(s)
  /\ icache' = ic
  /\ IF ic[s].type = "0"
       THEN Panic("ilock: no type") /\ UNCHANGED lock
     ELSE IF f.op = "O_CREATE" /\ ic[s].type = "FILE"
       THEN /\ lock' = [lock EXCEPT ![s] = p]
            /\ Goto(p, [f EXCEPT !.pc = "created"]) /\ UNCHANGED misc
       ELSE Goto(p, Put([f EXCEPT !.ip = 0], s, "idle")) /\ UNCHANGED <<lock, misc>>
  /\ UNCHANGED <<disk, files>>

\* dp->nlink++ for "..".
dotdot_link(ic, dp) == AddLink(ic, dp, 1)

\* The new inode: ilock(ip), its link count and its name; ".", ".." and the
\* parent's link for a directory; then iunlockput(dp), with ip locked.
create_new(p) ==
  LET f == fr[p]  s == f.ip  d == icache[f.dp].inum  i == icache[s].inum
      ic1 == [ilock_load(icache, s) EXCEPT ![s].nlink = 1]
      ic2 == IF f.op = "mkdir" THEN dotdot_link(ic1, f.dp) ELSE ic1
      named == [dir EXCEPT ![d][Head(f.rest)] = i]
  IN
  /\ f.pc = "create_ilock" /\ Free(s)
  /\ icache' = ic2
  /\ dinode' = iupdate(iupdate(dinode, ic2, s), ic2, f.dp)
  /\ dir' = IF f.op = "mkdir"
              THEN [named EXCEPT ![i] = [NoEntries EXCEPT !["."] = i, ![".."] = d]]
              ELSE named
  /\ lost' = IF icache[f.dp].nlink = 0 THEN lost \cup {i, d} ELSE lost
  /\ lock' = [iunlock(lock, f.dp) EXCEPT ![s] = p]
  /\ Goto(p, Put([f EXCEPT !.dp = 0], f.dp, "created"))
  /\ UNCHANGED <<files, calls, panicked>>

\* create() has returned with ip locked.
created(p) ==
  LET f == fr[p] IN
  /\ f.pc = "created"
  /\ IF f.op = "O_CREATE"
       THEN Install(p, f)
       ELSE /\ lock' = iunlock(lock, f.ip)
            /\ Goto(p, Put([f EXCEPT !.ip = 0], f.ip, "idle"))
            /\ UNCHANGED <<disk, files, misc>>
  /\ UNCHANGED icache
-----------------------------------------------------------------------------
(***************************************************************************)
(* link().                                                                 *)
(***************************************************************************)

\* ip->nlink is raised before the new name is written, and lowered again at
\* "bad".  Mutant: not raised.
link_later(ic, s) == ic

link_first(ic, s) == AddLink(ic, s, 1)

link_ilock(p) ==
  LET f == fr[p]  s == f.ip  ic == ilock_load(icache, s)
      ic2 == link_first(ic, s)
  IN
  /\ f.pc = "link" /\ Free(s)
  /\ IF ic[s].type = "0"
       THEN Panic("ilock: no type") /\ icache' = ic /\ UNCHANGED dinode
     ELSE IF ic[s].type = "DIR"
       THEN /\ icache' = ic
            /\ Goto(p, Put([f EXCEPT !.ip = 0], s, "idle")) /\ UNCHANGED <<dinode, misc>>
       ELSE /\ icache' = StartCache(ic2, p, f.new)
            /\ dinode' = iupdate(dinode, ic2, s)
            /\ Goto(p, CallNamex(f, ic2, p, f.new, 1, "link_dp", "link_bad"))
            /\ UNCHANGED misc
  /\ UNCHANGED <<dir, lock, files>>

\* dirlink(dp, name, ip->inum): a name that exists is looked up and put while
\* dp is locked.
link_dp(p) ==
  LET f == fr[p]  s == f.dp  d == icache[s].inum
      old == dirlookup(d, Head(f.rest))
  IN
  /\ f.pc = "link_dp" /\ Free(s)
  /\ IF old # 0
       THEN /\ icache' = iget(icache, old)
            /\ lock' = [lock EXCEPT ![s] = p]
            /\ Goto(p, Put(f, Entry(icache, old), "link_exists"))
            /\ UNCHANGED <<dir, lost>>
       ELSE /\ dir' = [dir EXCEPT ![d][Head(f.rest)] = icache[f.ip].inum]
            /\ lost' = IF icache[s].nlink = 0 THEN lost \cup {icache[f.ip].inum} ELSE lost
            /\ Goto(p, Put([f EXCEPT !.dp = 0], s, "link_put"))
            /\ UNCHANGED <<icache, lock>>
  /\ UNCHANGED <<dinode, files, calls, panicked>>

link_exists(p) ==
  LET f == fr[p] IN
  /\ f.pc = "link_exists"
  /\ lock' = iunlock(lock, f.dp)
  /\ Goto(p, Put([f EXCEPT !.dp = 0], f.dp, "link_bad"))
  /\ UNCHANGED <<disk, icache, files, misc>>

link_put(p) ==
  LET f == fr[p] IN
  /\ f.pc = "link_put"
  /\ Goto(p, Put([f EXCEPT !.ip = 0], f.ip, "idle"))
  /\ UNCHANGED <<disk, inodes, files, misc>>

\* Mutant: the count is not taken back.
link_keep(ic, s) == ic

link_undo(ic, s) == AddLink(ic, s, -1)

link_bad(p) ==
  LET f == fr[p]  ic == link_undo(icache, f.ip) IN
  /\ f.pc = "link_bad" /\ Free(f.ip)
  /\ icache' = ic
  /\ dinode' = iupdate(dinode, ic, f.ip)
  /\ Goto(p, Put([f EXCEPT !.ip = 0], f.ip, "idle"))
  /\ UNCHANGED <<dir, lock, files, misc>>
-----------------------------------------------------------------------------
(***************************************************************************)
(* unlink() and chdir().                                                   *)
(***************************************************************************)

\* ilock(dp) and the lookup of the name; dp stays locked for the inode.
unlink(p) ==
  LET f == fr[p]  s == f.dp  name == Head(f.rest)
      i == dirlookup(icache[s].inum, name)
  IN
  /\ f.pc = "unlink" /\ Free(s)
  /\ IF name \in Dots \/ i = 0
       THEN /\ Goto(p, Put([f EXCEPT !.dp = 0], s, "idle"))
            /\ UNCHANGED inodes
       ELSE /\ icache' = iget(icache, i)
            /\ lock' = [lock EXCEPT ![s] = p]
            /\ Goto(p, [f EXCEPT !.pc = "unlink_ilock", !.ip = Entry(icache, i)])
  /\ UNCHANGED <<disk, files, misc>>

isdirempty(i) == \A n \in Elems : dir[i][n] = 0

\* A directory with entries cannot be removed.
removable(e) == e.type = "DIR" => isdirempty(e.inum)

\* ilock(ip) under dp's lock, the checks, and the removal of the entry; ip
\* stays locked during iunlockput(dp).
unlink_ilock(p) ==
  LET f == fr[p]  s == f.ip  d == icache[f.dp].inum
      ic == ilock_load(icache, s)
      ic2 == IF ic[s].type = "DIR" THEN AddLink(ic, f.dp, -1) ELSE ic
  IN
  /\ f.pc = "unlink_ilock" /\ Free(s)
  /\ IF ic[s].type = "0" \/ ic[s].nlink < 1
       THEN /\ Panic(IF ic[s].type = "0" THEN "ilock: no type" ELSE "unlink: nlink < 1")
            /\ UNCHANGED <<disk, inodes>>
     ELSE IF ~removable(ic[s])
       THEN /\ icache' = ic
            /\ Goto(p, Put([f EXCEPT !.ip = 0], s, "unlink_bad"))
            /\ UNCHANGED <<disk, lock, misc>>
       ELSE /\ icache' = ic2
            /\ dinode' = iupdate(dinode, ic2, f.dp)
            /\ dir' = [dir EXCEPT ![d][Head(f.rest)] = 0]
            /\ lock' = [iunlock(lock, f.dp) EXCEPT ![s] = p]
            /\ Goto(p, Put([f EXCEPT !.dp = 0], f.dp, "unlink_dec"))
            /\ UNCHANGED misc
  /\ UNCHANGED files

unlink_bad(p) ==
  LET f == fr[p] IN
  /\ f.pc = "unlink_bad"
  /\ lock' = iunlock(lock, f.dp)
  /\ Goto(p, Put([f EXCEPT !.dp = 0], f.dp, "idle"))
  /\ UNCHANGED <<disk, icache, files, misc>>

\* The end of unlink(), with ip still locked.
unlink_dec(p) ==
  LET f == fr[p]  ic == AddLink(icache, f.ip, -1) IN
  /\ f.pc = "unlink_dec"
  /\ icache' = ic
  /\ dinode' = iupdate(dinode, ic, f.ip)
  /\ lock' = iunlock(lock, f.ip)
  /\ Goto(p, Put([f EXCEPT !.ip = 0], f.ip, "idle"))
  /\ UNCHANGED <<dir, files, misc>>

chdir_ilock(p) ==
  LET f == fr[p]  s == f.ip  ic == ilock_load(icache, s) IN
  /\ f.pc = "chdir" /\ Free(s)
  /\ icache' = ic
  /\ IF ic[s].type = "0"
       THEN Panic("ilock: no type") /\ UNCHANGED cwd
     ELSE IF ic[s].type # "DIR"
       THEN Goto(p, Put([f EXCEPT !.ip = 0], s, "idle")) /\ UNCHANGED <<cwd, misc>>
       ELSE \* cwd is put, then overwritten: the reference moves to put
            /\ Goto(p, Put([f EXCEPT !.ip = 0], cwd[p], "idle"))
            /\ cwd' = [cwd EXCEPT ![p] = s]
            /\ UNCHANGED misc
  /\ UNCHANGED <<disk, lock, ftable, ofile>>

Handler(p) ==
  \/ iput(p) \/ iput_free(p) \/ iput_ref(p) \/ namex(p)
  \/ open_ilock(p) \/ create(p) \/ create_found(p) \/ create_new(p) \/ created(p)
  \/ link_ilock(p) \/ link_dp(p) \/ link_exists(p) \/ link_put(p) \/ link_bad(p)
  \/ unlink(p) \/ unlink_ilock(p) \/ unlink_bad(p) \/ unlink_dec(p)
  \/ chdir_ilock(p)

Call(p) ==
  \/ sys_open(p) \/ sys_create(p) \/ sys_link(p) \/ sys_unlink(p)
  \/ sys_chdir(p) \/ sys_close(p) \/ sys_dup(p)

\* Every call has returned, or a panic has stopped the machine.
Stopped ==
  /\ \/ panicked # "none"
     \/ calls = MaxCalls /\ \A p \in Procs : fr[p].pc = "idle"
  /\ UNCHANGED vars

Next ==
  \/ \E p \in Procs : Call(p) \/ Handler(p)
  \/ Stopped

Spec == Init /\ [][Next]_vars
-----------------------------------------------------------------------------
(***************************************************************************)
(* Properties.                                                             *)
(***************************************************************************)
Types == {"0", "FILE", "DIR", "DEV"}

TypeOK ==
  /\ dinode \in [Inums -> [type : Types, nlink : Nat]]
  /\ dir \in [Inums -> [DirNames -> 0..NINODES]]
  /\ icache \in [Slots -> [inum : 0..NINODES, ref : Nat, valid : {0, 1},
                           type : Types, nlink : Nat]]
  /\ lock \in [Slots -> Procs \cup {Nobody}]
  /\ cwd \in [Procs -> Slots]
  /\ ftable \in [1..NFILE -> [ref : Nat, ip : 0..NINODE]]
  /\ ofile \in [Procs -> [1..NOFILE -> 0..NFILE]]
  /\ DOMAIN fr = Procs /\ calls \in 0..MaxCalls /\ lost \subseteq Inums

\* ip->ref "tracks the number of in-memory pointers to the entry": open files,
\* current directories, and the calls in progress; a file's ref is the number
\* of descriptors.  An error path that forgets or repeats an iput() or a
\* fileclose() breaks it.
RefExact ==
  /\ \A s \in Slots :
       icache[s].ref =
         Cardinality({p \in Procs : cwd[p] = s})
         + Cardinality({f \in 1..NFILE : ftable[f].ref > 0 /\ ftable[f].ip = s})
         + Cardinality({x \in Procs \X {"dp", "ip", "nx", "put"} : fr[x[1]][x[2]] = s})
  /\ \A f \in 1..NFILE :
       ftable[f].ref = Cardinality({x \in Procs \X (1..NOFILE) : ofile[x[1]][x[2]] = f})

\* An inode has at most one entry in the cache: iget() finds the entry in use
\* although inodes are freed and numbers reused while references are dropped.
OneEntryPerInode ==
  \A s, t \in Slots :
    icache[s].ref > 0 /\ icache[t].ref > 0 /\ icache[s].inum = icache[t].inum => s = t

\* The inode cache is write-through: a valid entry that nobody has locked
\* equals the inode on disk.
WriteThrough ==
  \A s \in Slots :
    icache[s].ref > 0 /\ icache[s].valid = 1 /\ lock[s] = Nobody =>
      dinode[icache[s].inum] = [type |-> icache[s].type, nlink |-> icache[s].nlink]

\* A directory that still has a name.
Linked(d) == dinode[d].type = "DIR" /\ dinode[d].nlink > 0

\* A name never refers to an inode that iput() has freed, although nlink and
\* the entry are changed under different locks and at different times.  (The
\* ".." of a directory being removed may: its parent can go first.)
NoDanglingName ==
  \A d \in Inums, n \in Elems :
    Linked(d) /\ dir[d][n] # 0 => dinode[dir[d][n]].type # "0"

Quiet == panicked = "none" /\ \A p \in Procs : fr[p].pc = "idle"

\* The names of inode i: entries other than "." (not counted, create()), with
\* one for the root, which mkfs makes with a count of 1.
NamesOf(i) ==
  Cardinality({x \in Inums \X (DirNames \ {"."}) :
                 x[1] # i /\ Linked(x[1]) /\ dir[x[1]][x[2]] = i})
  + (IF i = 1 THEN 1 ELSE 0)

\* When no call is in progress, nlink counts the names: link() and unlink(),
\* failing at any point and running against each other, never leave a count
\* too high or too low.  Excepted are behaviours in which create() or link()
\* has made a name in a directory already removed: they do not test dp->nlink.
LinkCountExact ==
  Quiet /\ lost = {} =>
    \A i \in Inums : dinode[i].type # "0" => dinode[i].nlink = NamesOf(i)

\* No panic() of fs.c or sysfile.c is reached.
NoPanic == panicked = "none"

\* The cache entry whose sleep lock p's next step takes; 0 when it takes none.
WaitsFor(p) ==
  LET f == fr[p] IN
  CASE f.pc = "iput" -> f.put
    [] f.pc = "namex" /\ f.rest # << >> -> f.nx
    [] f.pc \in {"create", "link_dp", "unlink"} -> f.dp
    [] f.pc \in {"open", "create_found", "create_ilock", "link", "link_bad",
                 "unlink_ilock", "chdir"} -> f.ip
    [] OTHER -> 0

\* The order of inode locks: a call that holds the lock of one inode while it
\* waits for another's holds that of a directory and waits for an inode that
\* is named, or about to be named, in it.  iput() alone goes the other way.
ParentFirst ==
  \A p \in Procs, s \in Slots :
    lock[s] = p /\ WaitsFor(p) # 0 /\ fr[p].pc # "iput" =>
      /\ s = fr[p].dp /\ WaitsFor(p) # s
      /\ \/ fr[p].pc = "create_ilock"
         \/ dir[icache[s].inum][Head(fr[p].rest)] = icache[fr[p].ip].inum

\* fs.c says of iget() and ilock() that "The separation also helps avoid
\* deadlock and races during pathname lookup": no two calls wait for each
\* other's inode, and none for its own.
NoDeadlock ==
  \A p, q \in Procs :
    ~ /\ WaitsFor(p) # 0 /\ lock[WaitsFor(p)] = q
      /\ WaitsFor(q) # 0 /\ lock[WaitsFor(q)] = p

\* The inode cache and the file table are consistent between any two steps of
\* any calls: exact reference counts, one entry for an inode, entries equal to
\* the disk, and no panic.
InodesConsistent ==
  TypeOK /\ RefExact /\ OneEntryPerInode /\ WriteThrough /\ NoPanic

\* Names and link counts agree: no name of an inode that has been freed, and no
\* inode whose count is not that of its names.
NamesCounted == NoDanglingName /\ LinkCountExact
=============================================================================
