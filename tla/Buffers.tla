------------------------------- MODULE Buffers -------------------------------
(***************************************************************************)
(* The buffer cache (bio.c) over the disk driver (ide.c): processes read,  *)
(* change and write blocks through bread(), bwrite(), log_write()'s        *)
(* pinning and brelse(), while the disk serves one request at a time and   *)
(* interrupts when it is done.                                             *)
(*                                                                         *)
(* bcache.lock and idelock sections are single steps.  A buffer's sleep    *)
(* lock is the mutex that SleepLock implements.  A block's contents are    *)
(* a version number.  A process holds one buffer at a time.                *)
(***************************************************************************)
EXTENDS Integers, Sequences, FiniteSets, Functions

CONSTANTS
  Procs,
  NBUF,       \* buffers
  NBLOCKS,    \* blocks on the disk, FSSIZE
  MaxReads,   \* calls of bread() in a behaviour
  MaxWrites,  \* changes of blocks in a behaviour
  MaxPins,    \* blocks that the log may keep dirty at a time
  MaxFaults   \* reads that the disk may fail

Bufs == 1..NBUF
Blocks == 1..NBLOCKS
Nobody == "nobody"

ASSUME SizesAssumption ==
  NBUF \in Nat \ {0} /\ NBLOCKS \in Nat /\ MaxWrites \in Nat /\ MaxPins \in Nat
ASSUME ProcsAssumption == IsFiniteSet(Procs) /\ Nobody \notin Procs

NoCmd == [op |-> "none", blk |-> 0, val |-> 0]

VARIABLES
  lru,       \* the list from bcache.head.next: most recently used first
  blockno, valid, dirty, refcnt, data,   \* of each buffer
  owner,     \* holder of each buffer's sleep lock
  idequeue,  \* requests; the first is the active one
  hw,        \* the command the disk is executing
  disk,      \* contents of each block on disk
  pc, cur,   \* each process's place in bio.c or ide.c, and its buffer
  latest,    \* the last version that a holder has given each block
  failed,    \* blocks whose last read from disk failed
  touched,   \* blocks that have been asked for
  reads, writes, faults, panicked

bufVars == <<lru, blockno, valid, dirty, refcnt, data, owner>>
ideVars == <<idequeue, hw, disk>>
ghosts == <<latest, failed, touched, reads, writes, faults, panicked>>
vars == <<bufVars, ideVars, pc, cur, ghosts>>

\* binit() pushes each buffer at the front; no buffer matches a block yet.
Init ==
  /\ lru = [i \in Bufs |-> NBUF + 1 - i]
  /\ blockno = [b \in Bufs |-> 0]
  /\ valid = [b \in Bufs |-> 0] /\ dirty = [b \in Bufs |-> 0]
  /\ refcnt = [b \in Bufs |-> 0] /\ data = [b \in Bufs |-> 0]
  /\ owner = [b \in Bufs |-> Nobody]
  /\ idequeue = << >> /\ hw = NoCmd
  /\ disk = [k \in Blocks |-> 0] /\ latest = disk
  /\ pc = [p \in Procs |-> "idle"] /\ cur = [p \in Procs |-> 0]
  /\ failed = {} /\ touched = {} /\ reads = 0 /\ writes = 0 /\ faults = 0 /\ panicked = "none"

Goto(p, l) == pc' = [pc EXCEPT ![p] = l]
-----------------------------------------------------------------------------
\* Mutant: a buffer that nobody uses is recycled although the log pins it.
recyclable_dirty(b) == refcnt[b] = 0

recyclable(b) == refcnt[b] = 0 /\ dirty[b] = 0

\* The walk from bcache.head.prev.
Victim == lru[CHOOSE i \in Bufs : recyclable(lru[i]) /\ \A j \in i+1..NBUF : ~recyclable(lru[j])]

\* A buffer holds block k if its number says so, in use or not.  Mutant: only
\* buffers in use are looked at.
holds_used(b, k) == blockno[b] = k /\ refcnt[b] > 0

holds(b, k) == blockno[b] = k

\* A recycled buffer's flags are cleared.  Mutant: it stays valid.
keep_flags(b) == valid[b]

clear_flags(b) == 0

\* Blocks are interchangeable: new ones are asked for in order of number.
InOrder(k) == 1..(k - 1) \subseteq touched

\* bget() up to acquiresleep().
bget(p) ==
  \E k \in Blocks :
    /\ pc[p] = "idle" /\ panicked = "none" /\ reads < MaxReads
    /\ InOrder(k)
    /\ touched' = touched \cup {k} /\ reads' = reads + 1
    /\ IF \E b \in Bufs : holds(b, k)
         THEN LET b == CHOOSE b \in Bufs : holds(b, k) IN
              /\ refcnt' = [refcnt EXCEPT ![b] = @ + 1]
              /\ cur' = [cur EXCEPT ![p] = b]
              /\ Goto(p, "lock")
              /\ UNCHANGED <<blockno, valid, panicked>>
       ELSE IF \E b \in Bufs : recyclable(b)
         THEN /\ blockno' = [blockno EXCEPT ![Victim] = k]
              /\ valid' = [valid EXCEPT ![Victim] = clear_flags(Victim)]
              /\ refcnt' = [refcnt EXCEPT ![Victim] = 1]
              /\ cur' = [cur EXCEPT ![p] = Victim]
              /\ Goto(p, "lock")
              /\ UNCHANGED panicked
         ELSE /\ panicked' = "bget: no buffers"
              /\ UNCHANGED <<blockno, valid, refcnt, cur, pc>>
    /\ UNCHANGED <<lru, dirty, data, owner, ideVars, latest, failed, writes, faults>>

\* Mutant: the test of B_VALID is left out.
bread_always(b) == "iderw"

bread_test(b) == IF valid[b] = 1 THEN "hold" ELSE "iderw"

\* acquiresleep() succeeds; bread() goes to the disk for a buffer not valid.
bread(p) ==
  LET b == cur[p] IN
  /\ pc[p] = "lock" /\ owner[b] = Nobody
  /\ owner' = [owner EXCEPT ![b] = p]
  /\ Goto(p, bread_test(b))
  /\ UNCHANGED <<lru, blockno, valid, dirty, refcnt, data, ideVars, cur, ghosts>>

\* The holder changes the block and calls bwrite(), or log_write(), which
\* marks it dirty for the log to write later.
Change(p) ==
  LET b == cur[p]  k == blockno[b] IN
  /\ pc[p] = "hold" /\ writes < MaxWrites
  /\ data' = [data EXCEPT ![b] = writes + 1]
  /\ latest' = [latest EXCEPT ![k] = writes + 1]
  /\ writes' = writes + 1
  /\ dirty' = [dirty EXCEPT ![b] = 1]
  /\ \/ Goto(p, "iderw")
     \/ /\ Cardinality({c \in Bufs : dirty[c] = 1 \/ c = b}) <= MaxPins
        /\ Goto(p, "brelse")
  /\ UNCHANGED <<lru, blockno, valid, refcnt, owner, ideVars, cur, failed, touched, reads, faults, panicked>>

\* install_trans(): bwrite() of a block that the log had pinned.
WritePinned(p) ==
  /\ pc[p] = "hold" /\ dirty[cur[p]] = 1
  /\ Goto(p, "iderw")
  /\ UNCHANGED <<bufVars, ideVars, cur, ghosts>>

\* brelse(): the sleep lock goes first, then the reference; the last one
\* moves the buffer to the front.
brelse(p) ==
  /\ pc[p] \in {"hold", "brelse"}
  /\ owner' = [owner EXCEPT ![cur[p]] = Nobody]
  /\ Goto(p, "refcnt")
  /\ UNCHANGED <<lru, blockno, valid, dirty, refcnt, data, ideVars, cur, ghosts>>

\* Mutant: dropped twice.
refcnt_twice(n) == n - 2

refcnt_down(n) == n - 1

\* b is taken out of the list and linked in behind bcache.head.
move_to_front(b) ==
  LET n == CHOOSE i \in Bufs : lru[i] = b IN
  [i \in Bufs |-> IF i = 1 THEN b ELSE IF i <= n THEN lru[i - 1] ELSE lru[i]]

brelse_refcnt(p) ==
  LET b == cur[p] IN
  /\ pc[p] = "refcnt"
  /\ refcnt' = [refcnt EXCEPT ![b] = refcnt_down(@)]
  /\ lru' = IF refcnt[b] = 1 THEN move_to_front(b) ELSE lru
  /\ cur' = [cur EXCEPT ![p] = 0]
  /\ Goto(p, "idle")
  /\ UNCHANGED <<blockno, valid, dirty, data, owner, ideVars, ghosts>>
-----------------------------------------------------------------------------
(***************************************************************************)
(* ide.c.                                                                  *)
(***************************************************************************)

\* The command for buffer b; the data of a write is sent with it.
idestart(b) ==
  IF dirty[b] = 1 THEN [op |-> "write", blk |-> blockno[b], val |-> data[b]]
  ELSE [op |-> "read", blk |-> blockno[b], val |-> 0]

\* Mutant: the disk is started for every request.
start_always(q, b) == idestart(b)

start_first(q, b) == IF q = << >> THEN idestart(b) ELSE hw

\* iderw(): its panics, the append, the start, and the first test of the
\* flags, which puts the caller to sleep.
iderw(p) ==
  LET b == cur[p] IN
  /\ pc[p] = "iderw"
  /\ IF valid[b] = 1 /\ dirty[b] = 0
       THEN panicked' = "iderw: nothing to do" /\ UNCHANGED <<idequeue, hw, pc>>
       ELSE /\ idequeue' = Append(idequeue, b)
            /\ hw' = start_first(idequeue, b)
            /\ Goto(p, "asleep")
            /\ UNCHANGED panicked
  /\ UNCHANGED <<bufVars, disk, cur, latest, failed, touched, reads, writes, faults>>

\* Mutant: ideintr() does not wake the process that waits for b.
wake_none(b) == pc

wakeup(b) == [p \in Procs |-> IF pc[p] = "asleep" /\ cur[p] = b THEN "woken" ELSE pc[p]]

\* The next request, if there is one, is started.
next_start(q) == IF q = << >> THEN NoCmd ELSE idestart(Head(q))

\* The disk has done hw and interrupts.  err: idewait(1) reports an error, and
\* the data of a read is not transferred; the buffer is marked valid anyway.
ideintr(err) ==
  LET b == Head(idequeue)  rest == Tail(idequeue) IN
  /\ hw.op # "none"
  /\ err = 1 => hw.op = "read" /\ faults < MaxFaults
  /\ disk' = IF hw.op = "write" THEN [disk EXCEPT ![hw.blk] = hw.val] ELSE disk
  /\ data' = IF dirty[b] = 0 /\ err = 0 THEN [data EXCEPT ![b] = disk[hw.blk]] ELSE data
  /\ failed' = IF dirty[b] = 1 THEN failed
               ELSE IF err = 1 THEN failed \cup {blockno[b]} ELSE failed \ {blockno[b]}
  /\ idequeue' = rest
  /\ valid' = [valid EXCEPT ![b] = 1]
  /\ dirty' = [dirty EXCEPT ![b] = 0]
  /\ pc' = wakeup(b)
  /\ hw' = next_start(rest)
  /\ faults' = faults + err
  /\ UNCHANGED <<lru, blockno, refcnt, owner, cur, latest, touched, reads, writes, panicked>>

\* sleep() returns in iderw(): the flags are tested again.
done(b) == valid[b] = 1 /\ dirty[b] = 0

iderw_woken(p) ==
  /\ pc[p] = "woken"
  /\ Goto(p, IF done(cur[p]) THEN "hold" ELSE "asleep")
  /\ UNCHANGED <<bufVars, ideVars, cur, ghosts>>

\* kill() wakes a sleeper whatever it waits for.
kill(p) ==
  /\ pc[p] = "asleep"
  /\ Goto(p, "woken")
  /\ UNCHANGED <<bufVars, ideVars, cur, ghosts>>

Step(p) ==
  bread(p) \/ brelse(p) \/ brelse_refcnt(p) \/ iderw(p) \/ iderw_woken(p)

\* Every process has released its buffer, or a panic has stopped the machine.
Stopped ==
  /\ panicked # "none" \/ (reads = MaxReads /\ \A p \in Procs : pc[p] = "idle")
  /\ UNCHANGED vars

Next ==
  \/ \E p \in Procs : bget(p) \/ Step(p) \/ Change(p) \/ WritePinned(p) \/ kill(p)
  \/ \E err \in {0, 1} : ideintr(err)
  \/ Stopped

Spec == Init /\ [][Next]_vars

\* A process in the kernel runs on, a holder releases its buffer in the end,
\* and the disk answers.  A sleep lock need not be fair: the other calls of
\* bread() are finitely many.
Fairness ==
  /\ WF_vars(\E err \in {0, 1} : ideintr(err))
  /\ \A p \in Procs : WF_vars(Step(p))

FairSpec == Spec /\ Fairness
-----------------------------------------------------------------------------
(***************************************************************************)
(* Properties.                                                             *)
(***************************************************************************)
TypeOK ==
  /\ lru \in [Bufs -> Bufs] /\ blockno \in [Bufs -> 0..NBLOCKS]
  /\ valid \in [Bufs -> {0, 1}] /\ dirty \in [Bufs -> {0, 1}]
  /\ refcnt \in [Bufs -> Nat] /\ data \in [Bufs -> 0..MaxWrites]
  /\ owner \in [Bufs -> Procs \cup {Nobody}]
  /\ idequeue \in Seq(Bufs) /\ disk \in [Blocks -> 0..MaxWrites]
  /\ hw \in [op : {"none", "read", "write"}, blk : 0..NBLOCKS, val : 0..MaxWrites]
  /\ pc \in [Procs -> {"idle", "lock", "iderw", "asleep", "woken", "hold", "brelse", "refcnt"}]
  /\ cur \in [Procs -> 0..NBUF] /\ failed \subseteq Blocks

\* A block is in at most one buffer, so that the buffer's lock is the block's
\* lock; and a buffer's refcnt is the number of processes between bget() and
\* the end of brelse(), although brelse() gives the lock up first.
OneBufferPerBlock ==
  /\ \A b, c \in Bufs : blockno[b] # 0 /\ blockno[b] = blockno[c] => b = c
  /\ \A b \in Bufs : refcnt[b] = Cardinality({p \in Procs : cur[p] = b})

\* The holder of a block sees what the last holder left, through recycling,
\* pinning and the disk; except after a read that failed, which iderw() does
\* not report.
ReadsLatest ==
  \A p \in Procs : pc[p] = "hold" /\ blockno[cur[p]] \notin failed =>
    data[cur[p]] = latest[blockno[cur[p]]]

\* No change of a block is lost: it is on disk, or in a buffer that bget()
\* will find.
NothingLost ==
  \A k \in Blocks : disk[k] = latest[k] \/
    \E b \in Bufs : blockno[b] = k /\ valid[b] = 1 /\ data[b] = latest[k]
      /\ (dirty[b] = 1 \/ owner[b] # Nobody)

\* The queue holds the buffer of each process that waits in iderw(), once, and
\* the disk executes the request of the first.
QueueExact ==
  /\ IsInjective(idequeue)
  /\ Range(idequeue) = {cur[p] : p \in {q \in Procs : pc[q] \in {"asleep", "woken"} /\ ~done(cur[q])}}
  /\ hw = IF idequeue = << >> THEN NoCmd ELSE idestart(Head(idequeue))

\* bget() finds a buffer and iderw() is called only when there is something to
\* do, while pinned buffers and processes number no more than NBUF.
NoPanic == panicked = "none"

\* Every bread() returns: the lock of the buffer is passed on, the request is
\* started when its turn comes, and its process is woken.
EveryReadReturns == \A p \in Procs : pc[p] = "lock" ~> pc[p] = "hold"

\* The cache and the driver agree on who uses which buffer and which request is
\* on the disk, and neither panics.
CacheConsistent == TypeOK /\ OneBufferPerBlock /\ QueueExact /\ NoPanic

\* The last change of a block is what the next bread() returns, and is never
\* without a place: through recycling, pinning, the queue and the disk.
LatestKept == ReadsLatest /\ NothingLost
=============================================================================
