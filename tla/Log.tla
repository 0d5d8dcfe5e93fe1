--------------------------------- MODULE Log ---------------------------------
(***************************************************************************)
(* The redo log of xv6/log.c, with the parts of the buffer cache           *)
(* (xv6/bio.c) that its correctness rests on: a modified buffer stays in   *)
(* the cache while it is locked or B_DIRTY, any other may be evicted and   *)
(* is read again from its home location.                                   *)
(*                                                                         *)
(* Processes run file-system operations, each between begin_op() and       *)
(* end_op(), and modify blocks through bread / log_write / brelse.  A      *)
(* crash may happen between any two writes of a disk block; it loses the   *)
(* memory, and initlog() then recovers.  Sections under log.lock are one   *)
(* step; the checks log_write() makes before it takes the lock are not.    *)
(***************************************************************************)
EXTENDS Integers, Sequences, FiniteSets, Functions

CONSTANTS Procs,
          Blocks,       \* block numbers of the file system proper
          MAXOPBLOCKS,  \* blocks an operation may write
          LOGSIZE,      \* blocks begin_op() reserves from
          nlog,         \* sb.nlog, blocks of the on-disk log, header included
          MaxOps,       \* bound: operations begun
          MaxCrashes    \* bound: crashes

NoBlock == "none"

ASSUME SizesAssumption ==
  /\ MAXOPBLOCKS \in Nat /\ LOGSIZE \in Nat /\ nlog \in Nat
  /\ 1 <= MAXOPBLOCKS /\ MAXOPBLOCKS <= LOGSIZE
ASSUME NoBlockAssumption == NoBlock \notin Blocks
ASSUME BoundsAssumption == MaxOps \in Nat /\ MaxCrashes \in Nat

VARIABLES
  \* the disk
  home,         \* the contents of the blocks at their home location
  logdata,      \* the data blocks of the log
  head,         \* the header block: the block numbers it lists
  \* memory
  cache,        \* the contents of the blocks as the buffer cache has them
  dirty,        \* the blocks whose buffer has B_DIRTY set
  lh,           \* log.lh: the block numbers listed so far
  outstanding,
  committing,
  pc, tail,     \* where each process is; the loops of write_log, install_trans
  blk, op,      \* the buffer a process has locked; its operation's number
  wrote,        \* the blocks its operation has logged
  boot,         \* "up", or where initlog() is
  rtail,        \* the loop of install_trans() in recover_from_log()
  panicked,
  \* bounds
  ops, crashes

disk == <<home, logdata, head>>

logVars == <<lh, outstanding, committing>>

procVars == <<pc, tail, blk, op, wrote>>

bootVars == <<boot, rtail, panicked>>

bounds == <<ops, crashes>>

vars == <<disk, cache, dirty, logVars, procVars, bootVars, bounds>>

Slots == 1..LOGSIZE

Values == 0..MaxOps

Labels == {"idle", "begin", "asleep", "in", "log_write", "absorb", "commit", "write_log",
           "write_head", "install", "erase", "committed"}

Init ==
  /\ home = [b \in Blocks |-> 0]
  /\ logdata = [i \in Slots |-> 0]
  /\ head = << >>
  /\ cache = home
  /\ dirty = {}
  /\ lh = << >> /\ outstanding = 0 /\ committing = 0
  /\ pc = [p \in Procs |-> "idle"]
  /\ tail = [p \in Procs |-> 1]
  /\ blk = [p \in Procs |-> NoBlock]
  /\ op = [p \in Procs |-> 0]
  /\ wrote = [p \in Procs |-> {}]
  /\ boot = "read_head" /\ rtail = 1 /\ panicked = "none"
  /\ ops = 0 /\ crashes = 0

At(p, label) == panicked = "none" /\ boot = "up" /\ pc[p] = label

Goto(p, label) == pc' = [pc EXCEPT ![p] = label]

\* wakeup(&log), with the process p going to the label as well.  Mutant: the
\* sleepers are not woken.
GotoOnly(p, label) == Goto(p, label)

WakeupAnd(p, label) ==
  pc' = [q \in Procs |-> IF q = p THEN label
                         ELSE IF pc[q] = "asleep" THEN "begin" ELSE pc[q]]
-----------------------------------------------------------------------------
(***************************************************************************)
(* File-system operations.                                                 *)
(***************************************************************************)
Start(p) ==
  /\ At(p, "idle") /\ ops < MaxOps
  /\ ops' = ops + 1
  /\ op' = [op EXCEPT ![p] = ops + 1]
  /\ wrote' = [wrote EXCEPT ![p] = {}]
  /\ Goto(p, "begin")
  /\ UNCHANGED <<disk, cache, dirty, logVars, tail, blk, bootVars, crashes>>

\* Mutant: the operation's own blocks are not reserved.
MustWaitOff ==
  \/ committing = 1
  \/ Len(lh) + outstanding * MAXOPBLOCKS > LOGSIZE

\* Mutant: operations are admitted during a commit.
MustWaitSpace ==
  Len(lh) + (outstanding + 1) * MAXOPBLOCKS > LOGSIZE

\* The test of begin_op(): this operation may have to wait for a commit.
MustWait ==
  \/ committing = 1
  \/ Len(lh) + (outstanding + 1) * MAXOPBLOCKS > LOGSIZE

\* One turn of the loop of begin_op(), under log.lock.
begin_op(p) ==
  /\ At(p, "begin")
  /\ IF MustWait
       THEN Goto(p, "asleep") /\ UNCHANGED outstanding
       ELSE Goto(p, "in") /\ outstanding' = outstanding + 1
  /\ UNCHANGED <<disk, cache, dirty, lh, committing, tail, blk, op, wrote, bootVars, bounds>>

\* bread() returns the locked buffer; the caller modifies its data.
Modify(p, b) ==
  /\ At(p, "in")
  /\ \A q \in Procs : blk[q] # b
  /\ Cardinality(wrote[p] \cup {b}) <= MAXOPBLOCKS
  /\ cache' = [cache EXCEPT ![b] = op[p]]
  /\ blk' = [blk EXCEPT ![p] = b]
  /\ Goto(p, "log_write")
  /\ UNCHANGED <<disk, dirty, logVars, tail, op, wrote, bootVars, bounds>>

\* log_write(): the checks, made before log.lock is taken.
log_write_check(p) ==
  /\ At(p, "log_write")
  /\ panicked' = IF Len(lh) >= LOGSIZE \/ Len(lh) >= nlog - 1 THEN "too big a transaction"
                 ELSE IF outstanding < 1 THEN "log_write outside of trans"
                 ELSE "none"
  /\ Goto(p, "absorb")
  /\ UNCHANGED <<disk, cache, dirty, logVars, tail, blk, op, wrote, boot, rtail, bounds>>

\* Log absorption.  Mutant: every log_write() is listed.
append(l, b) == Append(l, b)

absorb(l, b) == IF b \in Range(l) THEN l ELSE Append(l, b)

\* b->flags |= B_DIRTY.  Mutant: it is not set.
leave_clean(b) == dirty

set_dirty(b) == dirty \cup {b}

\* log_write(), under log.lock: absorption, B_DIRTY; then brelse().
log_write(p) ==
  /\ At(p, "absorb")
  /\ lh' = absorb(lh, blk[p])
  /\ dirty' = set_dirty(blk[p])
  /\ wrote' = [wrote EXCEPT ![p] = @ \cup {blk[p]}]
  /\ blk' = [blk EXCEPT ![p] = NoBlock]
  /\ Goto(p, "in")
  /\ UNCHANGED <<disk, cache, outstanding, committing, tail, op, bootVars, bounds>>

\* end_op(), its section under log.lock.
end_op(p) ==
  /\ At(p, "in")
  /\ outstanding' = outstanding - 1
  /\ panicked' = IF committing = 1 THEN "log.committing" ELSE "none"
  /\ IF outstanding = 1
       THEN /\ committing' = 1
            /\ Goto(p, "commit")
       ELSE /\ WakeupAnd(p, "idle")
            /\ UNCHANGED committing
  /\ UNCHANGED <<disk, cache, dirty, lh, tail, blk, op, wrote, boot, rtail, bounds>>

\* bget() reuses a buffer that is neither locked nor dirty; the next bread()
\* of the block reads its home location.
Evict(b) ==
  /\ panicked = "none" /\ boot = "up"
  /\ b \notin dirty /\ \A p \in Procs : blk[p] # b
  /\ cache' = [cache EXCEPT ![b] = home[b]]
  /\ UNCHANGED <<disk, dirty, logVars, procVars, bootVars, bounds>>
-----------------------------------------------------------------------------
(***************************************************************************)
(* commit(), one step per disk write.                                      *)
(***************************************************************************)
\* commit() writes the log first.  Mutant: it starts with the header.
head_first == "write_head"

log_first == "write_log"

CommitStart(p) ==
  /\ At(p, "commit")
  /\ tail' = [tail EXCEPT ![p] = 1]
  /\ Goto(p, IF lh = << >> THEN "committed" ELSE log_first)
  /\ UNCHANGED <<disk, cache, dirty, logVars, blk, op, wrote, bootVars, bounds>>

write_log(p) ==
  /\ At(p, "write_log")
  /\ IF tail[p] <= Len(lh)
       THEN /\ logdata' = [logdata EXCEPT ![tail[p]] = cache[lh[tail[p]]]]
            /\ tail' = [tail EXCEPT ![p] = @ + 1]
            /\ UNCHANGED pc
       ELSE Goto(p, "write_head") /\ UNCHANGED <<logdata, tail>>
  /\ UNCHANGED <<home, head, cache, dirty, logVars, blk, op, wrote, bootVars, bounds>>

\* write_head(): "the real commit".
write_head(p) ==
  /\ At(p, "write_head")
  /\ head' = lh
  /\ tail' = [tail EXCEPT ![p] = 1]
  /\ Goto(p, "install")
  /\ UNCHANGED <<home, logdata, cache, dirty, logVars, blk, op, wrote, bootVars, bounds>>

\* install_trans(): the home location gets the log block; bwrite() leaves the
\* buffer clean.
install_trans(p) ==
  /\ At(p, "install")
  /\ IF tail[p] <= Len(lh)
       THEN LET b == lh[tail[p]] IN
            /\ home' = [home EXCEPT ![b] = logdata[tail[p]]]
            /\ cache' = [cache EXCEPT ![b] = logdata[tail[p]]]
            /\ dirty' = dirty \ {b}
            /\ tail' = [tail EXCEPT ![p] = @ + 1]
            /\ UNCHANGED <<pc, lh>>
       ELSE /\ lh' = << >>
            /\ Goto(p, "erase")
            /\ UNCHANGED <<home, cache, dirty, tail>>
  /\ UNCHANGED <<logdata, head, outstanding, committing, blk, op, wrote, bootVars, bounds>>

\* log.lh.n = 0 as the second write_head() writes it.  Mutant: the header stays.
keep_header == head

empty_header == lh

\* The second write_head(): the transaction is erased from the log.
erase_head(p) ==
  /\ At(p, "erase")
  /\ head' = empty_header
  /\ Goto(p, "committed")
  /\ UNCHANGED <<home, logdata, cache, dirty, logVars, tail, blk, op, wrote, bootVars, bounds>>

\* The end of end_op() after commit().
CommitEnd(p) ==
  /\ At(p, "committed")
  /\ committing' = 0
  /\ tail' = [tail EXCEPT ![p] = 1]
  /\ WakeupAnd(p, "idle")
  /\ UNCHANGED <<disk, cache, dirty, lh, outstanding, blk, op, wrote, bootVars, bounds>>
-----------------------------------------------------------------------------
(***************************************************************************)
(* Crash and recovery.                                                     *)
(***************************************************************************)

\* Power fails: only the disk is left.
Crash ==
  /\ crashes < MaxCrashes
  /\ crashes' = crashes + 1
  /\ cache' = home
  /\ dirty' = {}
  /\ lh' = << >> /\ outstanding' = 0 /\ committing' = 0
  /\ pc' = [p \in Procs |-> "idle"]
  /\ tail' = [p \in Procs |-> 1]
  /\ blk' = [p \in Procs |-> NoBlock]
  /\ op' = [p \in Procs |-> 0]
  /\ wrote' = [p \in Procs |-> {}]
  /\ boot' = "read_head" /\ rtail' = 1 /\ panicked' = "none"
  /\ UNCHANGED <<disk, ops>>

read_head ==
  /\ boot = "read_head"
  /\ lh' = head
  /\ boot' = "install"
  /\ UNCHANGED <<disk, cache, dirty, outstanding, committing, procVars, rtail, panicked, bounds>>

\* install_trans() in recover_from_log().
recover_install ==
  /\ boot = "install"
  /\ IF rtail <= Len(lh)
       THEN /\ home' = [home EXCEPT ![lh[rtail]] = logdata[rtail]]
            /\ cache' = [cache EXCEPT ![lh[rtail]] = logdata[rtail]]
            /\ rtail' = rtail + 1
            /\ UNCHANGED <<boot, lh>>
       ELSE /\ lh' = << >>
            /\ boot' = "erase"
            /\ UNCHANGED <<home, cache, rtail>>
  /\ UNCHANGED <<logdata, head, dirty, outstanding, committing, procVars, panicked, bounds>>

recover_erase ==
  /\ boot = "erase"
  /\ head' = lh
  /\ boot' = "up" /\ rtail' = 1
  /\ UNCHANGED <<home, logdata, cache, dirty, logVars, procVars, panicked, bounds>>

Recover == read_head \/ recover_install \/ recover_erase

LogStep(p) ==
  \/ begin_op(p)
  \/ log_write_check(p) \/ log_write(p) \/ end_op(p)
  \/ CommitStart(p) \/ write_log(p) \/ write_head(p) \/ install_trans(p)
  \/ erase_head(p) \/ CommitEnd(p)

\* Every operation has ended, or a panic has stopped the machine.
Stopped ==
  /\ \/ panicked # "none"
     \/ ops = MaxOps /\ boot = "up" /\ \A p \in Procs : pc[p] = "idle"
  /\ UNCHANGED vars

Next ==
  \/ \E p \in Procs : Start(p) \/ LogStep(p) \/ \E b \in Blocks : Modify(p, b)
  \/ \E b \in Blocks : Evict(b)
  \/ Recover
  \/ Crash
  \/ Stopped

Spec == Init /\ [][Next]_vars

\* The code keeps executing; an operation ends (end_op() is taken in the end
\* although Modify stays enabled); recovery runs.
Fairness ==
  /\ WF_vars(Recover)
  /\ \A p \in Procs : WF_vars(LogStep(p)) /\ SF_vars(end_op(p))

FairSpec == Spec /\ Fairness
-----------------------------------------------------------------------------
(***************************************************************************)
(* Properties.                                                             *)
(***************************************************************************)
TypeOK ==
  /\ home \in [Blocks -> Values] /\ cache \in [Blocks -> Values]
  /\ logdata \in [Slots -> Values]
  /\ head \in Seq(Blocks) /\ lh \in Seq(Blocks)
  /\ dirty \subseteq Blocks
  /\ outstanding \in Nat /\ committing \in {0, 1}
  /\ pc \in [Procs -> Labels]
  /\ tail \in [Procs -> 1..(LOGSIZE + 1)]
  /\ blk \in [Procs -> Blocks \cup {NoBlock}]
  /\ op \in [Procs -> Values]
  /\ wrote \in [Procs -> SUBSET Blocks]
  /\ boot \in {"up", "read_head", "install", "erase"}
  /\ rtail \in 1..(LOGSIZE + 1)
  /\ panicked \in {"none", "too big a transaction", "log_write outside of trans",
                  "log.committing"}
  /\ ops \in 0..MaxOps /\ crashes \in 0..MaxCrashes

\* What is on disk once recovery has run: the log, if the header lists it,
\* over the home locations.
AfterRecovery ==
  [b \in Blocks |->
     IF b \in Range(head)
       THEN logdata[CHOOSE i \in DOMAIN head : head[i] = b]
       ELSE home[b]]

D == INSTANCE AtomicDisk WITH
       stable <- AfterRecovery,
       cur <- IF boot = "up" THEN cache ELSE AfterRecovery,
       active <- outstanding

\* Crash atomicity: whatever is interrupted by a crash (an operation, the
\* writing of the log, the commit, the installation, or recovery itself), the
\* contents that survive are those after whole operations, and an operation
\* that is still running is never part of them.
CrashAtomic == D!Spec

\* The processes between begin_op() and end_op().
InOp == {p \in Procs : pc[p] \in {"in", "log_write", "absorb"}}

\* The blocks that they may still add to the log, one by one.
Reserved == {r \in InOp \X (1..MAXOPBLOCKS) : r[2] > Cardinality(wrote[r[1]])}

\* The blocks that operations in progress may still add fit in LOGSIZE.
ReservationCovers == Len(lh) + Cardinality(Reserved) <= LOGSIZE

\* No operation ends during a commit, and no block is logged outside an
\* operation: log_write() and end_op() never see the log in another's hands.
NoProtocolPanic ==
  panicked \notin {"log.committing", "log_write outside of trans"}

\* When no operation is in progress and no commit is running, everything that
\* was written is at its home location and the log is empty: a completed
\* end_op() that found nobody else leaves nothing to lose.
QuietIsDurable ==
  boot = "up" /\ outstanding = 0 /\ committing = 0 =>
    home = cache /\ head = << >> /\ lh = << >> /\ dirty = {}

\* A block that differs from its home location is pinned in the cache: locked
\* by the process that is modifying it, or listed in the log and dirty.
PinnedInCache ==
  boot = "up" =>
    \A b \in Blocks : cache[b] # home[b] =>
      b \in dirty \/ \E p \in Procs : blk[p] = b

\* Every operation that calls begin_op() gets through, unless the machine
\* panics: it is woken after each commit and each end_op(), and no process
\* sleeps for ever.
EveryOpEnds ==
  \A p \in Procs : pc[p] = "begin" ~> pc[p] = "idle" \/ panicked # "none"

\* What param.h says of LOGSIZE ("max data blocks in on-disk log"), for the
\* blocks that log_write() lists and write_log() copies: they have a place in
\* the on-disk log, whose nlog blocks include the header.
LogFits == Len(lh) <= nlog - 1

\* While operations run together and commits come in between, the space that
\* begin_op() has reserved suffices, every change not yet installed is pinned
\* in the cache, a quiet log is empty, and nobody finds the log in another's
\* hands.
LogConsistent ==
  TypeOK /\ ReservationCovers /\ NoProtocolPanic /\ QuietIsDurable /\ PinnedInCache
=============================================================================
