----------------------------- MODULE LogProofs -----------------------------
(***************************************************************************)
(* The inductive invariant of the log, for any processes, blocks and sizes *)
(* and any number of operations and crashes; why begin_op(), log_write()   *)
(* and end_op(), commit(), crashes and recovery keep it; and what follows: *)
(* the log is consistent, and implements the disk that survives crashes    *)
(* with whole operations only.                                             *)
(***************************************************************************)
EXTENDS Log, FiniteSetTheorems, TLAPS

\* The places of end_op() after its section under log.lock, when it commits.
Commits == {"commit", "write_log", "write_head", "install", "erase", "committed"}

\* A header: blocks that are all different, and that the log has room for.
Listing(l) ==
  /\ l \in Seq(Blocks) /\ Len(l) <= LOGSIZE
  /\ \A i, j \in 1..Len(l) : l[i] = l[j] => i = j

\* The first n blocks that l lists are at home as the log has them.
Installed(l, n) == \A i \in 1..n : home[l[i]] = logdata[i]

\* The first n blocks that lh lists are in the log as the cache has them.
Copied(n) == \A i \in 1..n : logdata[i] = cache[lh[i]]

\* Until recovery is over there is nothing in memory but what it reads.
Booting ==
  boot # "up" =>
    /\ \A p \in Procs : pc[p] = "idle" /\ blk[p] = NoBlock
    /\ outstanding = 0 /\ committing = 0 /\ dirty = {} /\ panicked = "none"
    /\ cache = home
    /\ boot = "read_head" => lh = << >> /\ rtail = 1
    /\ boot = "install" => lh = head /\ rtail <= Len(head) + 1 /\ Installed(head, rtail - 1)
    /\ boot = "erase" => lh = << >> /\ Installed(head, Len(head))

\* outstanding counts the operations in progress; one process commits, and
\* only while there are none.
Control ==
  /\ IsFiniteSet(InOp) /\ outstanding = Cardinality(InOp)
  /\ committing = 1 <=> \E p \in Procs : pc[p] \in Commits
  /\ \A p, q \in Procs : pc[p] \in Commits /\ pc[q] \in Commits => p = q
  /\ committing = 1 => InOp = {}

\* A process has a buffer from bread() to log_write(), which it may still log.
HoldsOf(p) ==
  /\ blk[p] # NoBlock <=> pc[p] \in {"log_write", "absorb"}
  /\ pc[p] \in {"begin", "asleep"} => wrote[p] = {}
  /\ pc[p] \in {"in", "log_write", "absorb"} =>
       /\ IsFiniteSet(wrote[p]) /\ wrote[p] \subseteq Range(lh)
       /\ Cardinality(wrote[p]) <= MAXOPBLOCKS
       /\ blk[p] # NoBlock => Cardinality(wrote[p] \cup {blk[p]}) <= MAXOPBLOCKS

Holds == \A p \in Procs : HoldsOf(p)

\* What the steps of commit() have done so far.
ProgressOf(p) ==
  /\ pc[p] = "write_log" => tail[p] <= Len(lh) + 1 /\ Copied(tail[p] - 1)
  /\ pc[p] = "write_head" => Copied(Len(lh))
  /\ pc[p] = "install" =>
       /\ head = lh /\ Copied(Len(lh))
       /\ tail[p] <= Len(lh) + 1 /\ Installed(lh, tail[p] - 1)
       /\ \A b \in Blocks : b \in dirty <=> \E i \in tail[p]..Len(lh) : lh[i] = b
  /\ pc[p] = "erase" => lh = << >> /\ Installed(head, Len(head))
  /\ pc[p] = "committed" => lh = << >>

Progress == \A p \in Procs : ProgressOf(p)

\* What is true while the kernel runs, except where Progress says otherwise.
Steady ==
  boot = "up" =>
    /\ (\A p \in Procs : pc[p] \notin {"install", "erase"}) => head = << >>
    /\ (\A p \in Procs : pc[p] # "install") =>
         \A b \in Blocks : b \in dirty <=> \E i \in 1..Len(lh) : lh[i] = b
    /\ InOp = {} /\ committing = 0 => lh = << >>

\* The inductive invariant.
IInv ==
  /\ TypeOK /\ NoProtocolPanic /\ Listing(lh) /\ Listing(head)
  /\ Booting /\ Control /\ Holds /\ ReservationCovers
  /\ Progress /\ Steady /\ PinnedInCache
-----------------------------------------------------------------------------
(***************************************************************************)
(* Facts about lists and about the operations in progress.                 *)
(***************************************************************************)

\* The blocks that a header lists, position by position.
LEMMA RangeOfList ==
  ASSUME NEW l \in Seq(Blocks)
  PROVE  /\ Range(l) \subseteq Blocks
         /\ \A b : b \in Range(l) <=> \E i \in 1..Len(l) : l[i] = b
<1>1. DOMAIN l = 1..Len(l) /\ \A i \in 1..Len(l) : l[i] \in Blocks
  OBVIOUS
<1> QED
  BY <1>1 DEF Range

\* The state of an empty disk and an empty memory satisfies the invariant.
LEMMA InitInv == Init => IInv
<1> SUFFICES ASSUME Init PROVE IInv
  OBVIOUS
<1> USE SizesAssumption, BoundsAssumption, NoBlockAssumption DEF Init
<1>1. TypeOK
  BY SMT DEF TypeOK, Values, Slots, Labels
<1>2. InOp = {}
  BY Zenon DEF InOp
<1>3. Cardinality(InOp) = 0 /\ IsFiniteSet(InOp)
  BY <1>2, FS_EmptySet
<1>4. Reserved = {}
  BY <1>2, Zenon DEF Reserved
<1>5. ReservationCovers
  BY <1>4, FS_EmptySet, SMT DEF ReservationCovers
<1>6. Listing(lh) /\ Listing(head)
  BY SMT DEF Listing
<1>7. Booting
  BY SMT DEF Booting
<1>8. Control
  BY <1>2, <1>3, SMT DEF Control, Commits
<1>9. Holds
  BY SMT DEF Holds, HoldsOf
<1>10. Progress /\ Steady /\ PinnedInCache /\ NoProtocolPanic
  BY SMT DEF Progress, ProgressOf, Steady, PinnedInCache, NoProtocolPanic
<1> QED
  BY SMT, SMTT(40), <1>1, <1>5, <1>6, <1>7, <1>8, <1>9, <1>10 DEF IInv

\* What is reserved changes only with the operations and what they wrote.
LEMMA SameReserved ==
  ASSUME InOp' = InOp, \A q \in InOp : wrote'[q] = wrote[q]
  PROVE  Reserved' = Reserved
<1>1. \A r \in InOp \X (1..MAXOPBLOCKS) : wrote'[r[1]] = wrote[r[1]]
  OBVIOUS
<1> QED
  BY <1>1, Zenon DEF Reserved

\* No more is reserved than MAXOPBLOCKS for each operation.
LEMMA ReservedBound ==
  ASSUME NEW P, IsFiniteSet(P), NEW R \in SUBSET (P \X (1..MAXOPBLOCKS))
  PROVE  /\ IsFiniteSet(R) /\ Cardinality(R) \in Nat /\ Cardinality(P) \in Nat
         /\ Cardinality(R) <= Cardinality(P) * MAXOPBLOCKS
<1> DEFINE A == P \X (1..MAXOPBLOCKS)
<1>1. IsFiniteSet(1..MAXOPBLOCKS) /\ Cardinality(1..MAXOPBLOCKS) = MAXOPBLOCKS
  BY SizesAssumption, FS_Interval
<1>2. IsFiniteSet(A) /\ Cardinality(A) = Cardinality(P) * MAXOPBLOCKS
  BY ZenonT(60), <1>1, FS_Product
<1>3. R \in SUBSET A
  OBVIOUS
<1> HIDE DEF A
<1> QED
  BY <1>2, <1>3, FS_Subset, FS_CardinalityType

\* A process that another's step leaves alone, or wakes, keeps its buffer.
LEMMA HoldsFrame ==
  ASSUME NEW q \in Procs, HoldsOf(q),
         pc'[q] = pc[q] \/ (pc[q] = "asleep" /\ pc'[q] = "begin"),
         blk'[q] = blk[q], wrote'[q] = wrote[q], Range(lh) \subseteq Range(lh)'
  PROVE  HoldsOf(q)'
BY DEF HoldsOf

\* Only between bread() and log_write() is a buffer locked.
LEMMA NoBuffer ==
  ASSUME NEW q \in Procs, HoldsOf(q), pc[q] \notin {"log_write", "absorb"}
  PROVE  blk[q] = NoBlock
BY DEF HoldsOf

\* What an operation has logged is listed, and is no more than it may log.
LEMMA OperationHolds ==
  ASSUME NEW q \in Procs, HoldsOf(q), pc[q] \in {"in", "log_write", "absorb"}
  PROVE  /\ IsFiniteSet(wrote[q]) /\ wrote[q] \subseteq Range(lh)
         /\ Cardinality(wrote[q]) <= MAXOPBLOCKS
         /\ pc[q] # "in" => /\ blk[q] # NoBlock
                            /\ Cardinality(wrote[q] \cup {blk[q]}) <= MAXOPBLOCKS
BY DEF HoldsOf

\* A process that is not committing has made no progress.
LEMMA NoProgress ==
  ASSUME NEW q \in Procs, pc'[q] \notin Commits
  PROVE  ProgressOf(q)'
BY DEF ProgressOf, Commits

\* A step that leaves the disk, the log and the cache alone keeps the progress
\* of the process that commits.
LEMMA ProgressFrame ==
  ASSUME NEW q \in Procs, ProgressOf(q), pc'[q] = pc[q], tail'[q] = tail[q],
         UNCHANGED <<home, logdata, head, cache, dirty, lh>>
  PROVE  ProgressOf(q)'
BY DEF ProgressOf, Copied, Installed

\* While a process commits there is no operation, and no buffer is locked.
LEMMA Alone ==
  ASSUME IInv, NEW p \in Procs, pc[p] \in Commits
  PROVE  /\ committing = 1 /\ boot = "up" /\ InOp = {} /\ outstanding = 0
         /\ \A q \in Procs : q # p => pc[q] \notin Commits
         /\ \A q \in Procs : blk[q] = NoBlock
         /\ \A b \in Blocks : b \notin dirty => cache[b] = home[b]
<1> USE DEF IInv
<1>1. committing = 1 /\ InOp = {} /\ \A q \in Procs : q # p => pc[q] \notin Commits
  BY DEF Control
<1>2. boot = "up"
  BY DEF Booting, Commits
<1>3. outstanding = 0
  BY <1>1, FS_EmptySet DEF Control
<1>4. \A q \in Procs : blk[q] = NoBlock
  BY ZenonT(60), <1>1 DEF Holds, HoldsOf, InOp
<1>5. \A b \in Blocks : b \notin dirty => cache[b] = home[b]
  BY <1>2, <1>4, NoBlockAssumption DEF PinnedInCache
<1> QED
  BY SMT, SMTT(40), <1>1, <1>2, <1>3, <1>4, <1>5

\* From one place of commit() to the next.
LEMMA CommitterMoves ==
  ASSUME IInv, NEW p \in Procs, pc[p] \in Commits, NEW label \in Commits,
         \A q \in Procs : pc'[q] = IF q = p THEN label ELSE pc[q],
         UNCHANGED <<outstanding, committing, blk, wrote, boot, panicked>>
  PROVE  /\ InOp' = {} /\ Control' /\ Holds' /\ Booting'
         /\ Cardinality(Reserved') = 0 /\ NoProtocolPanic'
         /\ \A q \in Procs : q # p => ProgressOf(q)'
<1>1. /\ committing = 1 /\ boot = "up" /\ InOp = {} /\ outstanding = 0
      /\ \A q \in Procs : q # p => pc[q] \notin Commits
      /\ \A q \in Procs : blk[q] = NoBlock
  BY Alone
<1>2. label \notin {"in", "log_write", "absorb", "begin", "asleep"}
  BY DEF Commits
<1>3. InOp' = {}
  BY SMT, SMTT(40), <1>1, <1>2 DEF InOp
<1>4. Control'
  BY SMT, SMTT(40), <1>1, <1>3, FS_EmptySet DEF Control
<1>5. Holds'
  <2> SUFFICES ASSUME NEW q \in Procs PROVE HoldsOf(q)'
    BY DEF Holds
  <2>1. HoldsOf(q)
    BY DEF IInv, Holds
  <2>2. pc'[q] \notin {"in", "log_write", "absorb"}
    BY SMT, SMTT(40), <1>3 DEF InOp
  <2> QED
    BY SMT, SMTT(40), <1>1, <1>2, <2>1, <2>2 DEF HoldsOf
<1>6. Reserved' = {}
  BY SMT, SMTT(40), <1>3 DEF Reserved
<1>7. \A q \in Procs : q # p => ProgressOf(q)'
  BY SMT, SMTT(40), <1>1, NoProgress
<1> QED
  BY Zenon, <1>1, <1>3, <1>4, <1>5, <1>6, <1>7, FS_EmptySet DEF Booting, IInv, NoProtocolPanic
-----------------------------------------------------------------------------
(***************************************************************************)
(* Operations.                                                             *)
(***************************************************************************)

\* A call of begin_op() that has not yet been admitted changes nothing.
LEMMA StartInv ==
  ASSUME IInv, NEW p \in Procs, Start(p)
  PROVE  IInv'
<1> USE DEF IInv
<1>0. /\ pc \in [Procs -> Labels] /\ wrote \in [Procs -> SUBSET Blocks]
      /\ op \in [Procs -> Values] /\ ops \in 0..MaxOps
  BY Zenon DEF TypeOK
<1>1. /\ boot = "up" /\ pc[p] = "idle" /\ ops < MaxOps /\ ops' = ops + 1
      /\ op' = [op EXCEPT ![p] = ops + 1] /\ wrote' = [wrote EXCEPT ![p] = {}]
      /\ pc' = [pc EXCEPT ![p] = "begin"]
      /\ UNCHANGED <<home, logdata, head, cache, dirty, lh, outstanding, committing, tail,
                     blk, boot, rtail, panicked, crashes>>
  BY DEF Start, At, Goto, disk, logVars, bootVars
<1>2. TypeOK'
  <2>1. ops' \in 0..MaxOps /\ op' \in [Procs -> Values]
    BY <1>0, <1>1, BoundsAssumption, SMT, SMTT(40) DEF Values
  <2>2. pc' \in [Procs -> Labels] /\ wrote' \in [Procs -> SUBSET Blocks]
    BY <1>0, <1>1, SMT, SMTT(40) DEF Labels
  <2> QED
    BY Zenon, <1>1, <2>1, <2>2 DEF TypeOK
<1>3. /\ \A q \in Procs : pc'[q] = IF q = p THEN "begin" ELSE pc[q]
      /\ \A q \in Procs : wrote'[q] = IF q = p THEN {} ELSE wrote[q]
  BY SMT, SMTT(40), <1>0, <1>1
<1>4. InOp' = InOp /\ p \notin InOp
  BY <1>1, <1>3, SMT, SMTT(40) DEF InOp
<1>5. Reserved' = Reserved
  <2>1. \A q \in InOp : wrote'[q] = wrote[q]
    BY SMT, SMTT(40), <1>3, <1>4 DEF InOp
  <2> QED
    BY SMT, SMTT(40), <1>4, <2>1, SameReserved
<1>6. Control'
  BY <1>1, <1>3, <1>4, SMT, SMTT(40) DEF Control, Commits
<1>7. Holds'
  <2>0. \A q \in Procs : HoldsOf(q)
    BY DEF Holds
  <2>1. HoldsOf(p)'
    <3>1. blk'[p] = NoBlock /\ pc'[p] = "begin" /\ wrote'[p] = {}
      BY Zenon, SMTT(40), <1>1, <1>3, <2>0, NoBuffer
    <3> QED
      BY <3>1, SMT DEF HoldsOf
  <2>2. ASSUME NEW q \in Procs, q # p PROVE HoldsOf(q)'
    <3>1. HoldsOf(q) /\ pc'[q] = pc[q] /\ blk'[q] = blk[q] /\ wrote'[q] = wrote[q]
      BY SMT, SMTT(40), <1>1, <1>3, <2>0, <2>2
    <3>2. Range(lh) \subseteq Range(lh)'
      BY SMT, SMTT(40), <1>1
    <3> QED
      BY SMT, SMTT(40), <3>1, <3>2, HoldsFrame
  <2> QED
    BY SMT, SMTT(40), <2>1, <2>2 DEF Holds
<1>8. Progress'
  <2>1. ProgressOf(p)'
    BY SMT, SMTT(40), <1>3, NoProgress DEF Commits
  <2>2. \A q \in Procs : q # p => ProgressOf(q)'
    BY Zenon, SMTT(40), <1>1, <1>3, ProgressFrame DEF Progress
  <2> QED
    BY SMT, SMTT(40), <2>1, <2>2 DEF Progress
<1>9. Steady'
  BY <1>1, <1>3, <1>4, SMT, SMTT(40) DEF Steady
<1>10. Booting' /\ PinnedInCache'
  BY SMT, SMTT(40), <1>1 DEF Booting, PinnedInCache
<1>11. NoProtocolPanic' /\ Listing(lh)' /\ Listing(head)' /\ ReservationCovers'
  BY Zenon, <1>1, <1>5 DEF NoProtocolPanic, Listing, ReservationCovers
<1> QED
  BY SMT, SMTT(40), <1>2, <1>6, <1>7, <1>8, <1>9, <1>10, <1>11

\* begin_op() admits an operation when the log has room for it and for all
\* that is reserved already; else it sleeps.
LEMMA BeginInv ==
  ASSUME IInv, NEW p \in Procs, begin_op(p)
  PROVE  IInv'
<1> USE DEF IInv
<1>0. /\ pc \in [Procs -> Labels] /\ outstanding \in Nat /\ committing \in {0, 1}
      /\ lh \in Seq(Blocks)
  BY Zenon DEF TypeOK
<1>1. /\ boot = "up" /\ pc[p] = "begin"
      /\ \/ MustWait /\ pc' = [pc EXCEPT ![p] = "asleep"] /\ outstanding' = outstanding
         \/ ~MustWait /\ pc' = [pc EXCEPT ![p] = "in"] /\ outstanding' = outstanding + 1
      /\ UNCHANGED <<home, logdata, head, cache, dirty, lh, committing, tail, blk, op, wrote,
                     boot, rtail, panicked, ops, crashes>>
  BY DEF begin_op, At, Goto, disk, bootVars, bounds
<1>2. TypeOK'
  <2>1. pc' \in [Procs -> Labels] /\ outstanding' \in Nat
    BY <1>0, <1>1, SMT, SMTT(40) DEF Labels
  <2> QED
    BY Zenon, <1>1, <2>1 DEF TypeOK
<1>3. /\ \A q \in Procs : q # p => pc'[q] = pc[q]
      /\ pc'[p] \in {"in", "asleep"} /\ (pc'[p] = "in" <=> ~MustWait)
  BY SMT, SMTT(40), <1>0, <1>1
<1>4. wrote[p] = {} /\ blk[p] = NoBlock /\ p \notin InOp
  BY ZenonT(60), <1>1, NoBuffer DEF Holds, HoldsOf, InOp
<1>5. MustWait => InOp' = InOp
  BY <1>3, <1>4, Zenon DEF InOp
<1>6. ~MustWait => InOp' = InOp \cup {p}
  BY <1>3, SMT, SMTT(40) DEF InOp
<1>7. IsFiniteSet(InOp') /\ outstanding' = Cardinality(InOp') /\ (~MustWait => committing = 0)
  <2>1. CASE MustWait
    BY Zenon, SMTT(40), <1>1, <1>5, <2>1 DEF Control
  <2>2. CASE ~MustWait
    BY SMT, SMTT(40), <1>0, <1>1, <1>4, <1>6, <2>2, FS_AddElement DEF Control, MustWait
  <2> QED
    BY SMT, SMTT(40), <2>1, <2>2
<1>8. Control'
  <2>1. \A q \in Procs : pc'[q] \in Commits <=> pc[q] \in Commits
    BY SMT, SMTT(40), <1>1, <1>3 DEF Commits
  <2>2. committing' = 1 => InOp' = {}
    BY SMT, SMTT(40), <1>1, <1>5, <1>7 DEF Control
  <2> QED
    BY SMT, SMTT(40), <1>1, <1>7, <2>1, <2>2 DEF Control
<1>9. Holds'
  <2>0. \A q \in Procs : HoldsOf(q)
    BY DEF Holds
  <2>1. HoldsOf(p)'
    <3>1. blk'[p] = NoBlock /\ wrote'[p] = {}
      BY SMT, SMTT(40), <1>1, <1>4
    <3>2. IsFiniteSet({}) /\ Cardinality({}) = 0
      BY Zenon, SMTT(40), FS_EmptySet
    <3> QED
      BY SMT, SMTT(40), <1>3, <3>1, <3>2, SizesAssumption DEF HoldsOf
  <2>2. ASSUME NEW q \in Procs, q # p PROVE HoldsOf(q)'
    <3>1. HoldsOf(q) /\ pc'[q] = pc[q] /\ blk'[q] = blk[q] /\ wrote'[q] = wrote[q]
      BY SMT, SMTT(40), <1>1, <1>3, <2>0, <2>2
    <3>2. Range(lh) \subseteq Range(lh)'
      BY SMT, SMTT(40), <1>1
    <3> QED
      BY <3>1, <3>2, HoldsFrame
  <2> QED
    BY <2>1, <2>2 DEF Holds
<1>10. Progress'
  <2>1. ProgressOf(p)'
    BY SMT, SMTT(40), <1>3, NoProgress DEF Commits
  <2>2. \A q \in Procs : q # p => ProgressOf(q)'
    BY SMT, SMTT(40), <1>1, <1>3, ProgressFrame DEF Progress
  <2> QED
    BY <2>1, <2>2 DEF Progress
<1>11. Steady'
  <2>1. \A q \in Procs : \A label \in {"install", "erase"} : pc'[q] = label <=> pc[q] = label
    BY SMT, SMTT(40), <1>1, <1>3
  <2>2. InOp' = {} => InOp = {}
    BY SMT, SMTT(40), <1>5, <1>6
  <2> QED
    BY <1>1, <2>1, <2>2, SMT, SMTT(40) DEF Steady
<1>12. ReservationCovers'
  <2>1. CASE MustWait
    BY SMT, SMTT(40), <1>1, <1>5, <2>1, SameReserved DEF ReservationCovers
  <2>2. CASE ~MustWait
    <3>0. Reserved' \in SUBSET (InOp' \X (1..MAXOPBLOCKS))
      BY SMT, SMTT(40) DEF Reserved
    <3>1. /\ Cardinality(Reserved') <= Cardinality(InOp') * MAXOPBLOCKS
          /\ Cardinality(Reserved') \in Nat
      BY SMT, SMTT(40), <1>7, <3>0, ReservedBound
    <3>2. Len(lh) + (outstanding + 1) * MAXOPBLOCKS <= LOGSIZE
      BY SMT, SMTT(40), <1>0, <2>2, SizesAssumption DEF MustWait
    <3>3. Cardinality(InOp') = outstanding + 1
      BY SMT, SMTT(40), <1>1, <1>7, <2>2
    <3>4. Cardinality(Reserved') <= (outstanding + 1) * MAXOPBLOCKS
      BY SMT, SMTT(40), <3>1, <3>3
    <3>5. (outstanding + 1) * MAXOPBLOCKS \in Nat
      BY SMT, SMTT(40), <1>0, SizesAssumption
    <3> QED
      BY <1>0, <1>1, <3>1, <3>2, <3>4, <3>5, SizesAssumption, SMT, SMTT(40) DEF ReservationCovers
  <2> QED
    BY SMT, SMTT(40), <2>1, <2>2
<1>13. Booting' /\ PinnedInCache' /\ NoProtocolPanic' /\ Listing(lh)' /\ Listing(head)'
  BY Zenon, <1>1 DEF Booting, PinnedInCache, NoProtocolPanic, Listing
<1> QED
  BY SMT, SMTT(40), <1>2, <1>8, <1>9, <1>10, <1>11, <1>12, <1>13

\* While there is an operation nobody commits: the header on disk is empty, and
\* the dirty buffers are those that lh lists.
LEMMA InOperation ==
  ASSUME IInv, boot = "up", NEW p \in Procs, pc[p] \in {"in", "log_write", "absorb"}
  PROVE  /\ p \in InOp /\ committing = 0 /\ outstanding \in Nat /\ outstanding >= 1
         /\ \A q \in Procs : pc[q] \notin Commits
         /\ head = << >>
         /\ \A b \in Blocks : b \in dirty <=> \E i \in 1..Len(lh) : lh[i] = b
<1> USE DEF IInv
<1>1. p \in InOp
  BY DEF InOp
<1>2. committing = 0 /\ \A q \in Procs : pc[q] \notin Commits
  BY Zenon, <1>1 DEF Control, TypeOK
<1>3. outstanding \in Nat /\ outstanding >= 1
  <2>1. IsFiniteSet(InOp) /\ outstanding = Cardinality(InOp)
    BY DEF Control
  <2>2. outstanding \in Nat /\ outstanding # 0
    BY SMT, SMTT(40), <1>1, <2>1, FS_EmptySet, FS_CardinalityType
  <2> QED
    BY SMT, SMTT(40), <2>2
<1>4. \A q \in Procs : pc[q] \notin {"install", "erase"}
  BY SMT, SMTT(40), <1>2 DEF Commits
<1> QED
  BY <1>1, <1>2, <1>3, <1>4 DEF Steady

\* From one place of an operation to another.
LEMMA OperationMoves ==
  ASSUME IInv, boot = "up", NEW p \in Procs, pc[p] \in {"in", "log_write", "absorb"},
         NEW label \in {"in", "log_write", "absorb"},
         \A q \in Procs : pc'[q] = IF q = p THEN label ELSE pc[q],
         UNCHANGED <<outstanding, committing, boot>>
  PROVE  /\ InOp' = InOp /\ p \in InOp /\ Control' /\ Progress' /\ Booting'
         /\ \A q \in Procs : pc'[q] \notin {"install", "erase"}
<1>1. /\ p \in InOp /\ committing = 0
      /\ \A q \in Procs : pc[q] \notin Commits
  BY SMT, SMTT(40), InOperation
<1>2. label \notin Commits
  BY SMT, SMTT(40) DEF Commits
<1>3. InOp' = InOp
  BY SMT, SMTT(40), <1>1 DEF InOp
<1>4. \A q \in Procs : pc'[q] \notin Commits
  BY Zenon, SMTT(40), <1>1, <1>2
<1>5. Control'
  BY SMT, SMTT(40), <1>1, <1>3, <1>4 DEF Control, IInv
<1>6. Progress'
  BY SMT, SMTT(40), <1>4, NoProgress DEF Progress
<1>7. \A q \in Procs : pc'[q] \notin {"install", "erase"}
  BY SMT, SMTT(40), <1>4 DEF Commits
<1> QED
  BY SMT, SMTT(40), <1>1, <1>3, <1>5, <1>6, <1>7 DEF Booting

\* The buffer that an operation modifies is locked.
LEMMA ModifyInv ==
  ASSUME IInv, NEW p \in Procs, NEW b \in Blocks, Modify(p, b)
  PROVE  IInv'
<1> USE DEF IInv
<1>0. /\ pc \in [Procs -> Labels] /\ blk \in [Procs -> Blocks \cup {NoBlock}]
      /\ cache \in [Blocks -> Values] /\ op \in [Procs -> Values]
  BY Zenon DEF TypeOK
<1>1. /\ boot = "up" /\ pc[p] = "in"
      /\ \A q \in Procs : blk[q] # b
      /\ Cardinality(wrote[p] \cup {b}) <= MAXOPBLOCKS
      /\ cache' = [cache EXCEPT ![b] = op[p]] /\ blk' = [blk EXCEPT ![p] = b]
      /\ pc' = [pc EXCEPT ![p] = "log_write"]
      /\ UNCHANGED <<home, logdata, head, dirty, lh, outstanding, committing, tail, op, wrote,
                     boot, rtail, panicked, ops, crashes>>
  BY SMTT(40) DEF Modify, At, Goto, disk, logVars, bootVars, bounds
<1>2. TypeOK'
  <2>1. /\ pc' \in [Procs -> Labels] /\ blk' \in [Procs -> Blocks \cup {NoBlock}]
        /\ cache' \in [Blocks -> Values]
    BY <1>0, <1>1, SMT, SMTT(40) DEF Labels
  <2> QED
    BY ZenonT(60), <1>1, <2>1 DEF TypeOK
<1>3. /\ \A q \in Procs : pc'[q] = IF q = p THEN "log_write" ELSE pc[q]
      /\ \A q \in Procs : blk'[q] = IF q = p THEN b ELSE blk[q]
      /\ \A c \in Blocks : cache'[c] = IF c = b THEN op[p] ELSE cache[c]
  BY Zenon, SMTT(40), <1>0, <1>1
<1>4. /\ InOp' = InOp /\ p \in InOp /\ Control' /\ Progress' /\ Booting'
      /\ \A q \in Procs : pc'[q] \notin {"install", "erase"}
  BY SMT, SMTT(40), <1>1, <1>3, OperationMoves
<1>5. Holds'
  <2>0. \A q \in Procs : HoldsOf(q)
    BY SMTT(40) DEF Holds
  <2>1. HoldsOf(p)'
    <3>1. /\ IsFiniteSet(wrote[p]) /\ wrote[p] \subseteq Range(lh)
          /\ Cardinality(wrote[p]) <= MAXOPBLOCKS
      BY ZenonT(60), <1>1, <2>0, OperationHolds
    <3>2. blk'[p] = b /\ b # NoBlock /\ pc'[p] = "log_write" /\ wrote' = wrote /\ lh' = lh
      BY SMT, SMTT(40), <1>1, <1>3, NoBlockAssumption
    <3> QED
      BY ZenonT(60), <1>1, <3>1, <3>2 DEF HoldsOf
  <2>2. ASSUME NEW q \in Procs, q # p PROVE HoldsOf(q)'
    <3>1. HoldsOf(q) /\ pc'[q] = pc[q] /\ blk'[q] = blk[q] /\ wrote'[q] = wrote[q]
      BY ZenonT(60), <1>1, <1>3, <2>0, <2>2
    <3>2. Range(lh) \subseteq Range(lh)'
      BY Zenon, SMTT(40), <1>1
    <3> QED
      BY Zenon, <3>1, <3>2, HoldsFrame
  <2> QED
    BY SMT, SMTT(40), <2>1, <2>2 DEF Holds
<1>6. Steady'
  <2>1. head = << >> /\ \A c \in Blocks : c \in dirty <=> \E i \in 1..Len(lh) : lh[i] = c
    BY Zenon, SMTT(40), <1>1, InOperation
  <2> QED
    BY Zenon, SMTT(40), <1>1, <1>4, <2>1 DEF Steady
<1>7. PinnedInCache'
  <2> SUFFICES ASSUME NEW c \in Blocks, cache'[c] # home[c]
               PROVE  c \in dirty \/ \E q \in Procs : blk'[q] = c
    BY SMT, SMTT(40), <1>1 DEF PinnedInCache
  <2>1. CASE c = b
    BY SMT, SMTT(40), <1>3, <2>1
  <2>2. CASE c # b
    <3>1. c \in dirty \/ \E q \in Procs : blk[q] = c
      BY Zenon, SMTT(40), <1>1, <1>3, <2>2 DEF PinnedInCache
    <3>2. blk[p] = NoBlock /\ c # NoBlock
      BY Zenon, SMTT(40), <1>1, NoBuffer, NoBlockAssumption DEF Holds
    <3> QED
      BY SMT, SMTT(40), <1>3, <3>1, <3>2
  <2> QED
    BY Zenon, SMTT(40), <2>1, <2>2
<1>8. ReservationCovers'
  BY SMT, SMTT(40), <1>1, <1>4, SameReserved DEF ReservationCovers
<1>9. NoProtocolPanic' /\ Listing(lh)' /\ Listing(head)'
  BY Zenon, <1>1 DEF NoProtocolPanic, Listing
<1> QED
  BY SMT, SMTT(40), <1>2, <1>4, <1>5, <1>6, <1>7, <1>8, <1>9

\* log_write() is called in an operation.
LEMMA CheckInv ==
  ASSUME IInv, NEW p \in Procs, log_write_check(p)
  PROVE  IInv'
<1> USE DEF IInv
<1>0. pc \in [Procs -> Labels]
  BY Zenon DEF TypeOK
<1>1. /\ boot = "up" /\ pc[p] = "log_write"
      /\ pc' = [pc EXCEPT ![p] = "absorb"]
      /\ UNCHANGED <<home, logdata, head, cache, dirty, lh, outstanding, committing, tail, blk, op,
                     wrote, boot, rtail, ops, crashes>>
  BY Zenon DEF log_write_check, At, Goto, disk, logVars, bounds
<1>2. TypeOK'
  <2>1. pc' \in [Procs -> Labels]
    BY <1>0, <1>1, SMT, SMTT(40) DEF Labels
  <2>2. panicked' \in {"none", "too big a transaction", "log_write outside of trans",
                       "log.committing"}
    BY Zenon DEF log_write_check
  <2> QED
    BY Zenon, <1>1, <2>1, <2>2 DEF TypeOK
<1>3. \A q \in Procs : pc'[q] = IF q = p THEN "absorb" ELSE pc[q]
  BY Zenon, SMTT(40), <1>0, <1>1
<1>4. /\ InOp' = InOp /\ p \in InOp /\ Control' /\ Progress' /\ Booting'
      /\ \A q \in Procs : pc'[q] \notin {"install", "erase"}
  BY Zenon, SMTT(40), <1>1, <1>3, OperationMoves
<1>5. /\ outstanding \in Nat /\ outstanding >= 1
      /\ head = << >> /\ \A c \in Blocks : c \in dirty <=> \E i \in 1..Len(lh) : lh[i] = c
  BY Zenon, SMTT(40), <1>1, InOperation
<1>6. Holds'
  <2>0. \A q \in Procs : HoldsOf(q)
    BY DEF Holds
  <2>1. HoldsOf(p)'
    <3>1. /\ IsFiniteSet(wrote[p]) /\ wrote[p] \subseteq Range(lh) /\ blk[p] # NoBlock
          /\ Cardinality(wrote[p]) <= MAXOPBLOCKS
          /\ Cardinality(wrote[p] \cup {blk[p]}) <= MAXOPBLOCKS
      BY SMT, SMTT(40), <1>1, <2>0, OperationHolds
    <3>2. blk' = blk /\ pc'[p] = "absorb" /\ wrote' = wrote /\ lh' = lh
      BY Zenon, SMTT(40), <1>1, <1>3
    <3> QED
      BY Zenon, SMTT(40), <3>1, <3>2 DEF HoldsOf
  <2>2. ASSUME NEW q \in Procs, q # p PROVE HoldsOf(q)'
    <3>1. HoldsOf(q) /\ pc'[q] = pc[q] /\ blk'[q] = blk[q] /\ wrote'[q] = wrote[q]
      BY Zenon, SMTT(40), <1>1, <1>3, <2>0, <2>2
    <3>2. Range(lh) \subseteq Range(lh)'
      BY Zenon, SMTT(40), <1>1
    <3> QED
      BY <3>1, <3>2, HoldsFrame
  <2> QED
    BY <2>1, <2>2 DEF Holds
<1>7. Steady'
  BY Zenon, SMTT(40), <1>1, <1>4, <1>5 DEF Steady
<1>8. PinnedInCache' /\ Listing(lh)' /\ Listing(head)'
  BY Zenon, SMTT(40), <1>1 DEF PinnedInCache, Listing
<1>9. ReservationCovers'
  BY SMT, SMTT(40), <1>1, <1>4, SameReserved DEF ReservationCovers
<1>10. NoProtocolPanic'
  <2>1. panicked' \in {"none", "too big a transaction"}
    <3>1. ~(outstanding < 1)
      BY <1>5, SMT, SMTT(40)
    <3> QED
      BY <3>1, Zenon DEF log_write_check
  <2> QED
    BY Zenon, <2>1 DEF NoProtocolPanic
<1> QED
  BY Zenon, SMTT(40), <1>2, <1>4, <1>6, <1>7, <1>8, <1>9, <1>10

\* Absorption lists a block once.
LEMMA AbsorbLists ==
  ASSUME NEW l, Listing(l), NEW b \in Blocks, b \notin Range(l) => Len(l) < LOGSIZE
  PROVE  /\ Listing(absorb(l, b)) /\ Range(absorb(l, b)) = Range(l) \cup {b}
         /\ b \in Range(l) => absorb(l, b) = l
         /\ Len(absorb(l, b)) <= Len(l) + 1
<1>1. l \in Seq(Blocks) /\ Len(l) \in Nat
  BY SMT, SMTT(40) DEF Listing
<1>2. CASE b \in Range(l)
  BY SMT, SMTT(40), <1>1, <1>2 DEF absorb
<1>3. CASE b \notin Range(l)
  <2> DEFINE m == Append(l, b)
  <2>1. absorb(l, b) = m
    BY SMT, SMTT(40), <1>3 DEF absorb
  <2>2. /\ m \in Seq(Blocks) /\ Len(m) = Len(l) + 1
        /\ \A i \in 1..Len(l) : m[i] = l[i]
        /\ m[Len(l) + 1] = b
    BY SMT, SMTT(40), <1>1
  <2>3. \A i \in 1..Len(l) : l[i] # b
    BY SMT, SMTT(40), <1>1, <1>3, RangeOfList
  <2> HIDE DEF m
  <2>4. \A i, j \in 1..Len(m) : m[i] = m[j] => i = j
    BY SMT, SMTT(40), <1>1, <2>2, <2>3 DEF Listing
  <2>5. Listing(m)
    BY <1>1, <1>3, <2>2, <2>4, SizesAssumption, SMT, SMTT(40) DEF Listing
  <2>6. Range(m) = Range(l) \cup {b}
    <3>1. \A c : c \in Range(m) <=> \E i \in 1..Len(m) : m[i] = c
      BY SMT, SMTT(40), <2>2, RangeOfList
    <3>2. \A c : c \in Range(l) <=> \E i \in 1..Len(l) : l[i] = c
      BY Zenon, SMTT(40), <1>1, RangeOfList
    <3>3. ASSUME NEW c \in Range(m) PROVE c \in Range(l) \cup {b}
      <4>1. PICK i \in 1..Len(m) : m[i] = c
        BY SMT, SMTT(40), <3>1
      <4> QED
        BY SMT, SMTT(40), <1>1, <2>2, <3>2, <4>1
    <3>4. ASSUME NEW c \in Range(l) PROVE c \in Range(m)
      <4>1. PICK i \in 1..Len(l) : l[i] = c
        BY SMT, SMTT(40), <3>2
      <4>2. i \in 1..Len(m) /\ m[i] = c
        BY SMT, SMTT(40), <1>1, <2>2, <4>1
      <4> QED
        BY SMT, SMTT(40), <3>1, <4>2
    <3>5. b \in Range(m)
      <4>1. Len(l) + 1 \in 1..Len(m)
        BY SMT, SMTT(40), <1>1, <2>2
      <4> QED
        BY Zenon, SMTT(40), <2>2, <3>1, <4>1
    <3> QED
      BY <3>3, <3>4, <3>5, Zenon
  <2> QED
    BY <1>1, <1>3, <2>1, <2>2, <2>5, <2>6, SMT, SMTT(40)
<1> QED
  BY SMT, SMTT(40), <1>2, <1>3

\* A block that the operation had not logged takes one of its reserved places.
LEMMA LoggedReserved ==
  ASSUME IInv, NEW p \in InOp, NEW b, InOp' = InOp,
         blk[p] = b, b # NoBlock,
         \A q \in Procs : wrote'[q] = IF q = p THEN wrote[q] \cup {b} ELSE wrote[q]
  PROVE  /\ Cardinality(Reserved) \in Nat /\ Cardinality(Reserved') \in Nat
         /\ b \in wrote[p] => Reserved' = Reserved
         /\ b \notin wrote[p] => Cardinality(Reserved') <= Cardinality(Reserved) - 1
<1> USE DEF IInv
<1>0. p \in Procs /\ pc[p] \in {"in", "log_write", "absorb"} /\ InOp \subseteq Procs
  BY Zenon, SMTT(40) DEF InOp
<1>1. HoldsOf(p)
  BY Zenon, SMTT(40), <1>0 DEF Holds
<1>2. /\ IsFiniteSet(wrote[p]) /\ Cardinality(wrote[p] \cup {b}) <= MAXOPBLOCKS
  BY Zenon, SMTT(40), <1>0, <1>1, OperationHolds, NoBuffer
<1>3. Reserved \in SUBSET (InOp \X (1..MAXOPBLOCKS)) /\ IsFiniteSet(InOp)
  BY Zenon, SMTT(40) DEF Reserved, Control
<1>4. IsFiniteSet(Reserved) /\ Cardinality(Reserved) \in Nat
  BY Zenon, SMTT(40), <1>3, ReservedBound
<1>5. CASE b \in wrote[p]
  <2>1. \A q \in InOp : wrote'[q] = wrote[q]
    BY ZenonT(60), <1>0, <1>5
  <2> QED
    BY Zenon, SMTT(40), <1>4, <1>5, <2>1, SameReserved
<1>6. CASE b \notin wrote[p]
  <2> DEFINE n == Cardinality(wrote[p])
             r0 == <<p, n + 1>>
  <2>1. n \in Nat /\ Cardinality(wrote[p] \cup {b}) = n + 1
    BY ZenonT(60), <1>2, <1>6, FS_AddElement, FS_CardinalityType
  <2>2. r0 \in Reserved
    <3>1. r0 \in InOp \X (1..MAXOPBLOCKS) /\ r0[2] > Cardinality(wrote[r0[1]])
      BY SMT, SMTT(40), <1>2, <2>1, SizesAssumption
    <3> QED
      BY <3>1, Zenon DEF Reserved
  <2>3. Reserved' \subseteq Reserved \ {r0}
    <3> SUFFICES ASSUME NEW r \in Reserved' PROVE r \in Reserved /\ r # r0
      OBVIOUS
    <3>1. r \in InOp \X (1..MAXOPBLOCKS) /\ r[2] > Cardinality(wrote'[r[1]])
      BY Zenon DEF Reserved
    <3>2. CASE r[1] = p
      <4>1. r[2] > n + 1 /\ r[2] \in Nat
        BY SMT, SMTT(40), <1>0, <2>1, <3>1, <3>2
      <4>2. r[2] > Cardinality(wrote[r[1]]) /\ r # r0
        BY SMT, SMTT(40), <2>1, <3>2, <4>1
      <4> QED
        BY <3>1, <4>2, Zenon DEF Reserved
    <3>3. CASE r[1] # p
      <4>1. r[1] \in Procs /\ r # r0
        BY SMT, SMTT(40), <1>0, <3>1, <3>3
      <4>2. wrote'[r[1]] = wrote[r[1]]
        BY ZenonT(60), <3>3, <4>1
      <4> QED
        BY <3>1, <4>1, <4>2, Zenon DEF Reserved
    <3> QED
      BY SMT, SMTT(40), <3>2, <3>3
  <2> HIDE DEF r0, n
  <2>4. /\ IsFiniteSet(Reserved \ {r0})
        /\ Cardinality(Reserved \ {r0}) = Cardinality(Reserved) - 1
    BY Zenon, <1>4, <2>2, FS_RemoveElement
  <2>5. /\ Cardinality(Reserved') \in Nat
        /\ Cardinality(Reserved') <= Cardinality(Reserved \ {r0})
    BY Zenon, SMTT(40), <2>3, <2>4, FS_Subset, FS_CardinalityType
  <2> QED
    BY Zenon, SMTT(40), <1>4, <1>6, <2>4, <2>5
<1> QED
  BY Zenon, SMTT(40), <1>5, <1>6

\* log_write() lists the block and pins it: the place was reserved.
LEMMA LogWriteInv ==
  ASSUME IInv, NEW p \in Procs, log_write(p)
  PROVE  IInv'
<1> USE DEF IInv
<1> DEFINE b == blk[p]
<1>0. /\ pc \in [Procs -> Labels] /\ blk \in [Procs -> Blocks \cup {NoBlock}]
      /\ wrote \in [Procs -> SUBSET Blocks] /\ dirty \subseteq Blocks
      /\ Len(lh) \in Nat
  <2>1. /\ pc \in [Procs -> Labels] /\ blk \in [Procs -> Blocks \cup {NoBlock}]
        /\ wrote \in [Procs -> SUBSET Blocks] /\ dirty \subseteq Blocks
        /\ lh \in Seq(Blocks)
    BY Zenon DEF TypeOK
  <2> QED
    BY <2>1
<1>1. /\ boot = "up" /\ pc[p] = "absorb"
      /\ lh' = absorb(lh, blk[p]) /\ dirty' = dirty \cup {blk[p]}
      /\ wrote' = [wrote EXCEPT ![p] = @ \cup {blk[p]}]
      /\ blk' = [blk EXCEPT ![p] = NoBlock]
      /\ pc' = [pc EXCEPT ![p] = "in"]
      /\ UNCHANGED <<home, logdata, head, cache, outstanding, committing, tail, op,
                     boot, rtail, panicked, ops, crashes>>
  BY ZenonT(60) DEF log_write, set_dirty, At, Goto, disk, bootVars, bounds
<1>2. /\ IsFiniteSet(wrote[p]) /\ wrote[p] \subseteq Range(lh) /\ blk[p] # NoBlock
      /\ Cardinality(wrote[p] \cup {blk[p]}) <= MAXOPBLOCKS
  BY Zenon, SMTT(40), <1>1, OperationHolds DEF Holds
<1>3. b \in Blocks
  BY SMT, SMTT(40), <1>0, <1>2
<1>4. /\ \A q \in Procs : pc'[q] = IF q = p THEN "in" ELSE pc[q]
      /\ \A q \in Procs : blk'[q] = IF q = p THEN NoBlock ELSE blk[q]
      /\ \A q \in Procs : wrote'[q] = IF q = p THEN wrote[q] \cup {b} ELSE wrote[q]
  BY ZenonT(60), <1>0, <1>1
<1>5. /\ InOp' = InOp /\ p \in InOp /\ Control' /\ Progress' /\ Booting'
      /\ \A q \in Procs : pc'[q] \notin {"install", "erase"}
  BY Zenon, SMTT(40), <1>1, <1>4, OperationMoves
<1>6. /\ Cardinality(Reserved) \in Nat /\ Cardinality(Reserved') \in Nat
      /\ b \in wrote[p] => Reserved' = Reserved
      /\ b \notin wrote[p] => Cardinality(Reserved') <= Cardinality(Reserved) - 1
  BY ZenonT(60), <1>2, <1>4, <1>5, LoggedReserved
<1>7. Len(lh) + Cardinality(Reserved) <= LOGSIZE
  BY Zenon, SMTT(40) DEF ReservationCovers
<1>8. b \notin Range(lh) => Len(lh) < LOGSIZE
  BY SMT, SMTT(40), <1>0, <1>2, <1>6, <1>7, SizesAssumption
<1>9. /\ Listing(lh') /\ Range(lh') = Range(lh) \cup {b}
      /\ b \in Range(lh) => lh' = lh
      /\ Len(lh') <= Len(lh) + 1
  BY Zenon, SMTT(40), <1>1, <1>3, <1>8, AbsorbLists
<1>10. Len(lh') \in Nat /\ lh' \in Seq(Blocks)
  BY SMTT(40), <1>9 DEF Listing
<1>11. TypeOK'
  <2>1. /\ pc' \in [Procs -> Labels] /\ blk' \in [Procs -> Blocks \cup {NoBlock}]
    BY Zenon, SMTT(40), <1>0, <1>1 DEF Labels
  <2>2. wrote' \in [Procs -> SUBSET Blocks] /\ dirty' \subseteq Blocks
    BY Zenon, SMTT(40), <1>0, <1>1, <1>3
  <2> QED
    BY ZenonT(60), <1>1, <1>10, <2>1, <2>2 DEF TypeOK
<1>12. ReservationCovers'
  <2>1. CASE b \in wrote[p]
    BY Zenon, SMTT(40), <1>2, <1>6, <1>7, <1>9, <2>1 DEF ReservationCovers
  <2>2. CASE b \notin wrote[p]
    BY SMT, SMTT(40), <1>0, <1>6, <1>7, <1>9, <1>10, <2>2, SizesAssumption DEF ReservationCovers
  <2> QED
    BY Zenon, SMTT(40), <2>1, <2>2
<1>13. Holds'
  <2>0. \A q \in Procs : HoldsOf(q)
    BY DEF Holds
  <2>1. HoldsOf(p)'
    <3>1. /\ pc'[p] = "in" /\ blk'[p] = NoBlock /\ wrote'[p] = wrote[p] \cup {b}
      BY ZenonT(60), <1>4
    <3>2. IsFiniteSet(wrote[p] \cup {b})
      BY Zenon, SMTT(40), <1>2, FS_AddElement
    <3>3. wrote[p] \cup {b} \subseteq Range(lh')
      BY Zenon, SMTT(40), <1>2, <1>9
    <3> QED
      BY Zenon, SMTT(40), <1>2, <3>1, <3>2, <3>3 DEF HoldsOf
  <2>2. ASSUME NEW q \in Procs, q # p PROVE HoldsOf(q)'
    <3>1. HoldsOf(q) /\ pc'[q] = pc[q] /\ blk'[q] = blk[q] /\ wrote'[q] = wrote[q]
      BY ZenonT(60), <1>4, <2>0, <2>2
    <3>2. Range(lh) \subseteq Range(lh)'
      BY Zenon, SMTT(40), <1>9
    <3> QED
      BY <3>1, <3>2, HoldsFrame
  <2> QED
    BY <2>1, <2>2 DEF Holds
<1>14. Steady'
  <2>1. head = << >> /\ \A c \in Blocks : c \in dirty <=> \E i \in 1..Len(lh) : lh[i] = c
    BY Zenon, SMTT(40), <1>1, InOperation
  <2>2. \A c \in Blocks : c \in dirty <=> c \in Range(lh)
    BY SMT, SMTT(40), <2>1, RangeOfList DEF Listing
  <2>3. \A c \in Blocks : c \in dirty' <=> c \in Range(lh')
    BY SMT, SMTT(40), <1>1, <1>9, <2>2
  <2>4. \A c \in Blocks : c \in dirty' <=> \E i \in 1..Len(lh') : lh'[i] = c
    BY Zenon, SMTT(40), <1>10, <2>3, RangeOfList
  <2> QED
    BY Zenon, SMTT(40), <1>1, <1>5, <2>1, <2>4 DEF Steady
<1>15. PinnedInCache'
  <2> SUFFICES ASSUME NEW c \in Blocks, cache[c] # home[c]
               PROVE  c \in dirty' \/ \E q \in Procs : blk'[q] = c
    BY ZenonT(60), <1>1 DEF PinnedInCache
  <2>1. c \in dirty \/ \E q \in Procs : blk[q] = c
    BY SMT, SMTT(40), <1>1 DEF PinnedInCache
  <2> QED
    BY Zenon, SMTT(40), <1>1, <1>4, <2>1
<1>16. NoProtocolPanic' /\ Listing(lh)' /\ Listing(head)'
  BY Zenon, <1>1, <1>9 DEF NoProtocolPanic, Listing
<1> QED
  BY Zenon, <1>5, <1>11, <1>12, <1>13, <1>14, <1>15, <1>16

\* end_op() gives back what its operation has reserved; the last one commits.
LEMMA EndInv ==
  ASSUME IInv, NEW p \in Procs, end_op(p)
  PROVE  IInv'
<1> USE DEF IInv
<1>0. pc \in [Procs -> Labels] /\ lh \in Seq(Blocks)
  BY Zenon DEF TypeOK
<1>1. /\ boot = "up" /\ pc[p] = "in" /\ outstanding' = outstanding - 1
      /\ panicked' = IF committing = 1 THEN "log.committing" ELSE "none"
      /\ UNCHANGED <<home, logdata, head, cache, dirty, lh, tail, blk, op, wrote,
                     boot, rtail, ops, crashes>>
  BY Zenon, SMTT(40) DEF end_op, At, disk, bounds
<1>2. /\ p \in InOp /\ committing = 0 /\ outstanding \in Nat /\ outstanding >= 1
      /\ \A q \in Procs : pc[q] \notin Commits
      /\ head = << >>
      /\ \A b \in Blocks : b \in dirty <=> \E i \in 1..Len(lh) : lh[i] = b
  BY Zenon, SMTT(40), <1>1, InOperation
<1>3. \/ /\ outstanding = 1 /\ committing' = 1
         /\ pc' = [pc EXCEPT ![p] = "commit"]
      \/ /\ outstanding # 1 /\ committing' = 0
         /\ pc' = [q \in Procs |-> IF q = p THEN "idle"
                                   ELSE IF pc[q] = "asleep" THEN "begin" ELSE pc[q]]
  BY <1>2 DEF end_op, Goto, WakeupAnd
<1>4. panicked' = "none"
  <2>1. committing # 1
    BY SMT, SMTT(40), <1>2
  <2> QED
    BY <1>1, <2>1, Zenon
<1>4a. pc' \in [Procs -> Labels]
  BY <1>0, <1>3, SMT, SMTT(40) DEF Labels
<1>5. /\ pc'[p] = IF outstanding = 1 THEN "commit" ELSE "idle"
      /\ committing' = IF outstanding = 1 THEN 1 ELSE 0
  BY <1>0, <1>3, Zenon
<1>6. \A q \in Procs : q # p =>
        pc'[q] = pc[q] \/ (pc[q] = "asleep" /\ pc'[q] = "begin")
  BY <1>0, <1>3, ZenonT(60)
<1>7. TypeOK'
  <2>1. /\ outstanding' \in Nat /\ committing' \in {0, 1}
    BY SMT, SMTT(40), <1>1, <1>2, <1>5
  <2> QED
    BY <1>1, <1>4, <1>4a, <2>1, ZenonT(60) DEF TypeOK
<1>8. InOp' = InOp \ {p}
  BY Zenon, SMTT(40), <1>2, <1>5, <1>6 DEF InOp
<1>9. IsFiniteSet(InOp') /\ outstanding' = Cardinality(InOp')
  BY ZenonT(60), <1>1, <1>2, <1>8, FS_RemoveElement DEF Control
<1>10. outstanding = 1 <=> InOp' = {}
  BY SMT, SMTT(40), <1>1, <1>2, <1>9, FS_EmptySet
<1>11. \A q \in Procs : q # p => pc'[q] \notin Commits
  BY Zenon, SMTT(40), <1>2, <1>6 DEF Commits
<1>12. Control'
  <2>1. committing' = 1 <=> \E q \in Procs : pc'[q] \in Commits
    BY SMT, SMTT(40), <1>5, <1>11 DEF Commits
  <2>2. committing' = 1 => InOp' = {}
    BY SMT, SMTT(40), <1>5, <1>10
  <2> QED
    BY Zenon, <1>9, <1>11, <2>1, <2>2 DEF Control
<1>13. Holds'
  <2>0. \A q \in Procs : HoldsOf(q)
    BY DEF Holds
  <2>1. HoldsOf(p)'
    <3>1. blk'[p] = NoBlock /\ pc'[p] \in {"commit", "idle"}
      BY ZenonT(60), <1>1, <1>5, <2>0, NoBuffer
    <3> QED
      BY <3>1, Zenon DEF HoldsOf
  <2>2. ASSUME NEW q \in Procs, q # p PROVE HoldsOf(q)'
    <3>1. /\ HoldsOf(q) /\ blk'[q] = blk[q] /\ wrote'[q] = wrote[q]
          /\ pc'[q] = pc[q] \/ (pc[q] = "asleep" /\ pc'[q] = "begin")
      BY Zenon, <1>1, <1>6, <2>0, <2>2
    <3>2. Range(lh) \subseteq Range(lh)'
      BY Zenon, SMTT(40), <1>1
    <3> QED
      BY ZenonT(60), <3>1, <3>2, HoldsFrame
  <2> QED
    BY <2>1, <2>2 DEF Holds
<1>14. Progress'
  <2>1. ProgressOf(p)'
    <3>1. pc'[p] \in {"commit", "idle"}
      BY Zenon, SMTT(40), <1>5
    <3>2. pc'[p] \notin {"write_log", "write_head", "install", "erase", "committed"}
      BY ONLY Zenon, SMTT(40), <3>1
    <3> QED
      BY ONLY <3>2, Zenon DEF ProgressOf
  <2> QED
    BY Zenon, SMTT(40), <1>11, <2>1, NoProgress DEF Progress
<1>15. Steady'
  <2>1. InOp' = {} => committing' # 0
    BY SMT, SMTT(40), <1>5, <1>10
  <2> QED
    BY Zenon, SMTT(40), <1>1, <1>2, <2>1 DEF Steady
<1>16. ReservationCovers'
  <2>1. Reserved' \subseteq Reserved
    BY <1>1, <1>8, Zenon DEF Reserved
  <2>2. Reserved \in SUBSET (InOp \X (1..MAXOPBLOCKS)) /\ IsFiniteSet(InOp)
    BY Zenon, SMTT(40) DEF Reserved, Control
  <2>3. IsFiniteSet(Reserved) /\ Cardinality(Reserved) \in Nat
    BY Zenon, SMTT(40), <2>2, ReservedBound
  <2>4. Cardinality(Reserved') \in Nat /\ Cardinality(Reserved') <= Cardinality(Reserved)
    BY SMT, SMTT(40), <2>1, <2>3, FS_Subset, FS_CardinalityType
  <2> QED
    BY SMT, SMTT(40), <1>0, <1>1, <2>3, <2>4, SizesAssumption DEF ReservationCovers
<1>17. NoProtocolPanic'
  BY Zenon, <1>4 DEF NoProtocolPanic
<1>18. Listing(lh)' /\ Listing(head)' /\ Booting' /\ PinnedInCache'
  BY ZenonT(60), <1>1 DEF Listing, Booting, PinnedInCache
<1> QED
  BY Zenon, SMTT(40), <1>7, <1>12, <1>13, <1>14, <1>15, <1>16, <1>17, <1>18

\* A buffer that may be reused holds what is at its home location: reading it
\* again gives the same.
LEMMA EvictSame ==
  ASSUME IInv, NEW b \in Blocks, Evict(b)
  PROVE  UNCHANGED vars
<1> USE DEF IInv
<1>1. cache[b] = home[b]
  BY Zenon, SMTT(40) DEF Evict, PinnedInCache
<1>2. cache' = cache
  BY Zenon, SMTT(40), <1>1 DEF Evict, TypeOK
<1> QED
  BY Zenon, SMTT(40), <1>2 DEF Evict, vars

\* A step that changes nothing.
LEMMA StutterInv ==
  ASSUME IInv, UNCHANGED vars
  PROVE  IInv'
<1>1. UNCHANGED <<home, logdata, head, cache, dirty, lh, outstanding, committing, pc, tail, blk, op,
                  wrote, boot, rtail, panicked, ops, crashes>>
  BY DEF vars, disk, logVars, procVars, bootVars, bounds
<1>2. TypeOK' /\ NoProtocolPanic' /\ PinnedInCache'
  BY ZenonT(60), <1>1 DEF IInv, TypeOK, NoProtocolPanic, PinnedInCache
<1>3. Listing(lh)' /\ Listing(head)' /\ Booting'
  BY SMT, SMTT(40), <1>1 DEF IInv, Listing, Booting, Installed
<1>4. InOp' = InOp
  BY SMT, SMTT(40), <1>1 DEF InOp
<1>5. Reserved' = Reserved
  BY ZenonT(60), <1>1, <1>4, SameReserved
<1>6. Control' /\ Steady' /\ ReservationCovers'
  BY Zenon, SMTT(40), <1>1, <1>4, <1>5 DEF IInv, Control, Steady, ReservationCovers
<1>7. Holds'
  BY ZenonT(60), <1>1 DEF IInv, Holds, HoldsOf
<1>8. Progress'
  BY ZenonT(60), <1>1, ProgressFrame DEF IInv, Progress
<1> QED
  BY Zenon, SMTT(40), <1>2, <1>3, <1>6, <1>7, <1>8 DEF IInv
-----------------------------------------------------------------------------
(***************************************************************************)
(* commit().                                                               *)
(***************************************************************************)

\* What a step of commit() has to show beyond what CommitterMoves does.
LEMMA CommitterInv ==
  ASSUME IInv, NEW p \in Procs, pc[p] \in Commits, NEW label \in Commits,
         \A q \in Procs : pc'[q] = IF q = p THEN label ELSE pc[q],
         UNCHANGED <<outstanding, committing, blk, wrote, boot, panicked>>,
         TypeOK', Listing(lh'), Listing(head'), ProgressOf(p)', Steady', PinnedInCache'
  PROVE  IInv'
<1>1. /\ InOp' = {} /\ Control' /\ Holds' /\ Booting'
      /\ Cardinality(Reserved') = 0 /\ NoProtocolPanic'
      /\ \A q \in Procs : q # p => ProgressOf(q)'
  BY ZenonT(60), CommitterMoves
<1>2. Progress'
  BY Zenon, SMTT(40), <1>1 DEF Progress
<1>3. ReservationCovers'
  BY SMT, SMTT(40), <1>1, SizesAssumption DEF ReservationCovers, Listing
<1>4. Listing(lh)' /\ Listing(head)'
  BY Zenon, SMTT(40) DEF Listing
<1> QED
  BY Zenon, <1>1, <1>2, <1>3, <1>4 DEF IInv

\* Except during the installation, the dirty buffers are those that lh lists;
\* the header is empty before it, and after it is erased.
LEMMA CommitSteady ==
  ASSUME IInv, NEW p \in Procs, pc[p] \in Commits
  PROVE  /\ pc[p] \notin {"install", "erase"} => head = << >>
         /\ pc[p] # "install" => \A b \in Blocks : b \in dirty <=> \E i \in 1..Len(lh) : lh[i] = b
<1>1. boot = "up" /\ \A q \in Procs : q # p => pc[q] \notin Commits
  BY Alone
<1>2. \A q \in Procs : q # p => pc[q] \notin {"install", "erase"}
  BY Zenon, <1>1 DEF Commits
<1> QED
  BY Zenon, SMTT(40), <1>1, <1>2 DEF IInv, Steady

\* commit() with an empty log is over at once.
LEMMA CommitStartInv ==
  ASSUME IInv, NEW p \in Procs, CommitStart(p)
  PROVE  IInv'
<1> DEFINE label == IF lh = << >> THEN "committed" ELSE "write_log"
<1>0. /\ pc \in [Procs -> Labels] /\ tail \in [Procs -> 1..(LOGSIZE + 1)]
      /\ lh \in Seq(Blocks)
  BY Zenon DEF IInv, TypeOK
<1>1. /\ pc[p] = "commit" /\ tail' = [tail EXCEPT ![p] = 1]
      /\ pc' = [pc EXCEPT ![p] = label]
      /\ UNCHANGED <<home, logdata, head, cache, dirty, lh, outstanding, committing, blk, op, wrote,
                     boot, rtail, panicked, ops, crashes>>
  BY Zenon, SMTT(40) DEF CommitStart, log_first, At, Goto, disk, logVars, bootVars, bounds
<1>2. pc[p] \in Commits /\ label \in Commits /\ label \in Labels
  BY Zenon, SMTT(40), <1>1 DEF Commits, Labels
<1>3. /\ \A q \in Procs : pc'[q] = IF q = p THEN label ELSE pc[q]
      /\ tail'[p] = 1
  BY SMT, SMTT(40), <1>0, <1>1
<1>4. TypeOK'
  <2>1. tail' \in [Procs -> 1..(LOGSIZE + 1)]
    BY SMT, SMTT(40), <1>0, <1>1, SizesAssumption
  <2>2. pc' \in [Procs -> Labels]
    BY SMT, SMTT(40), <1>0, <1>1, <1>2
  <2> QED
    BY Zenon, <1>1, <2>1, <2>2 DEF IInv, TypeOK
<1>5. ProgressOf(p)'
  <2>1. CASE lh = << >>
    <3>1. pc'[p] = "committed" /\ lh' = << >>
      BY Zenon, <1>1, <1>3, <2>1
    <3> QED
      BY <3>1, SMT, SMTT(40) DEF ProgressOf
  <2>2. CASE lh # << >>
    <3>1. pc'[p] = "write_log" /\ tail'[p] <= Len(lh') + 1
      BY SMT, SMTT(40), <1>0, <1>1, <1>3, <2>2
    <3>2. Copied(tail[p] - 1)'
      BY SMT, SMTT(40), <1>3 DEF Copied
    <3> QED
      BY <3>1, <3>2, Zenon DEF ProgressOf
  <2> QED
    BY Zenon, <2>1, <2>2
<1>6. Steady'
  <2>1. /\ head = << >>
        /\ \A b \in Blocks : b \in dirty <=> \E i \in 1..Len(lh) : lh[i] = b
        /\ committing = 1
    BY Zenon, <1>1, <1>2, CommitSteady, Alone
  <2> QED
    BY SMT, SMTT(40), <1>1, <2>1 DEF Steady
<1>7. PinnedInCache'
  BY SMT, SMTT(40), <1>1 DEF IInv, PinnedInCache
<1>8. Listing(lh') /\ Listing(head')
  BY ZenonT(60), <1>1 DEF IInv
<1> HIDE DEF label
<1> QED
  BY Zenon, <1>1, <1>2, <1>3, <1>4, <1>5, <1>6, <1>7, <1>8, CommitterInv

\* write_log() copies the next block from the cache.
LEMMA WriteLogInv ==
  ASSUME IInv, NEW p \in Procs, write_log(p)
  PROVE  IInv'
<1> DEFINE t == tail[p]
           label == IF t <= Len(lh) THEN "write_log" ELSE "write_head"
<1>0. /\ pc \in [Procs -> Labels] /\ tail \in [Procs -> 1..(LOGSIZE + 1)]
      /\ lh \in Seq(Blocks) /\ Len(lh) <= LOGSIZE /\ logdata \in [Slots -> Values]
      /\ cache \in [Blocks -> Values]
  BY Zenon DEF IInv, TypeOK, Listing
<1>1. /\ pc[p] = "write_log"
      /\ \/ /\ t <= Len(lh) /\ pc' = pc
            /\ logdata' = [logdata EXCEPT ![t] = cache[lh[t]]]
            /\ tail' = [tail EXCEPT ![p] = t + 1]
         \/ /\ ~(t <= Len(lh)) /\ pc' = [pc EXCEPT ![p] = "write_head"]
            /\ UNCHANGED <<logdata, tail>>
      /\ UNCHANGED <<home, head, cache, dirty, lh, outstanding, committing, blk, op, wrote,
                     boot, rtail, panicked, ops, crashes>>
  BY ZenonT(60) DEF write_log, At, Goto, logVars, bootVars, bounds
<1>2. pc[p] \in Commits /\ label \in Commits /\ label \in Labels
  BY Zenon, SMTT(40), <1>1 DEF Commits, Labels
<1>3. \A q \in Procs : pc'[q] = IF q = p THEN label ELSE pc[q]
  BY Zenon, <1>0, <1>1
<1>4. t <= Len(lh) + 1 /\ Copied(t - 1) /\ t \in 1..(LOGSIZE + 1)
  <2>1. ProgressOf(p)
    BY Zenon, SMTT(40) DEF IInv, Progress
  <2> QED
    BY <1>0, <1>1, <2>1, SMT, SMTT(40) DEF ProgressOf
<1>5. Steady'
  <2>1. /\ head = << >>
        /\ \A b \in Blocks : b \in dirty <=> \E i \in 1..Len(lh) : lh[i] = b
        /\ committing = 1
    BY Zenon, <1>1, <1>2, CommitSteady, Alone
  <2> QED
    BY SMT, SMTT(40), <1>1, <2>1 DEF Steady
<1>6. PinnedInCache'
  BY ZenonT(60), <1>1 DEF IInv, PinnedInCache
<1>7. Listing(lh') /\ Listing(head')
  BY Zenon, <1>1 DEF IInv
<1>8. TypeOK' /\ ProgressOf(p)'
  <2>1. CASE t <= Len(lh)
    <3>1. /\ t \in 1..Len(lh) /\ t \in Slots /\ lh[t] \in Blocks /\ cache[lh[t]] \in Values
      BY SMT, SMTT(40), <1>0, <1>4, <2>1, SizesAssumption DEF Slots
    <3>2. /\ logdata' \in [Slots -> Values] /\ tail' \in [Procs -> 1..(LOGSIZE + 1)]
          /\ pc' \in [Procs -> Labels] /\ tail'[p] = t + 1
          /\ \A i \in Slots : logdata'[i] = IF i = t THEN cache[lh[t]] ELSE logdata[i]
      <4>1. t + 1 \in 1..(LOGSIZE + 1)
        BY SMT, SMTT(40), <1>0, <3>1, SizesAssumption
      <4>2. tail' \in [Procs -> 1..(LOGSIZE + 1)] /\ tail'[p] = t + 1
        BY Zenon, <1>0, <1>1, <2>1, <4>1
      <4>3. /\ logdata' \in [Slots -> Values]
            /\ \A i \in Slots : logdata'[i] = IF i = t THEN cache[lh[t]] ELSE logdata[i]
        BY Zenon, SMTT(40), <1>0, <1>1, <2>1, <3>1
      <4> QED
        BY Zenon, SMTT(40), <1>0, <1>1, <2>1, <4>2, <4>3
    <3>3. TypeOK'
      BY Zenon, <1>1, <3>2 DEF IInv, TypeOK
    <3>4. Copied(tail[p] - 1)'
      <4> SUFFICES ASSUME NEW i \in 1..t PROVE logdata'[i] = cache[lh[i]]
        BY SMT, SMTT(40), <1>0, <1>1, <1>4, <3>2 DEF Copied
      <4>1. i \in Slots
        BY SMT, SMTT(40), <1>0, <3>1, SizesAssumption DEF Slots
      <4>2. i # t => i \in 1..(t - 1)
        BY SMT, SMTT(40), <3>1
      <4> QED
        BY Zenon, <1>4, <3>2, <4>1, <4>2 DEF Copied
    <3>5. pc'[p] = "write_log" /\ tail'[p] <= Len(lh') + 1
      BY SMT, SMTT(40), <1>0, <1>1, <1>3, <1>4, <2>1, <3>2
    <3> QED
      BY Zenon, SMTT(40), <3>3, <3>4, <3>5 DEF ProgressOf
  <2>2. CASE ~(t <= Len(lh))
    <3>1. TypeOK'
      BY Zenon, <1>0, <1>1, <1>2, <2>2 DEF IInv, TypeOK
    <3>2. t - 1 = Len(lh)
      BY SMT, SMTT(40), <1>0, <1>4, <2>2
    <3>3. pc'[p] = "write_head" /\ Copied(Len(lh))'
      BY Zenon, <1>1, <1>3, <1>4, <2>2, <3>2 DEF Copied
    <3> QED
      BY <3>1, <3>3, SMT, SMTT(40) DEF ProgressOf
  <2> QED
    BY Zenon, <2>1, <2>2
<1> HIDE DEF label
<1> QED
  BY Zenon, SMTT(40), <1>1, <1>2, <1>3, <1>5, <1>6, <1>7, <1>8, CommitterInv

\* write_head() lists the blocks that have been copied: the commit.
LEMMA WriteHeadInv ==
  ASSUME IInv, NEW p \in Procs, write_head(p)
  PROVE  IInv'
<1>0. /\ pc \in [Procs -> Labels] /\ tail \in [Procs -> 1..(LOGSIZE + 1)]
      /\ lh \in Seq(Blocks)
  BY Zenon DEF IInv, TypeOK
<1>1. /\ pc[p] = "write_head" /\ head' = lh /\ tail' = [tail EXCEPT ![p] = 1]
      /\ pc' = [pc EXCEPT ![p] = "install"]
      /\ UNCHANGED <<home, logdata, cache, dirty, lh, outstanding, committing, blk, op, wrote,
                     boot, rtail, panicked, ops, crashes>>
  BY SMT, SMTT(40) DEF write_head, At, Goto, logVars, bootVars, bounds
<1>2. pc[p] \in Commits /\ "install" \in Commits
  BY Zenon, SMTT(40), <1>1 DEF Commits
<1>3. /\ \A q \in Procs : pc'[q] = IF q = p THEN "install" ELSE pc[q]
      /\ tail'[p] = 1
  BY SMT, SMTT(40), <1>0, <1>1
<1>4. TypeOK'
  <2>1. tail' \in [Procs -> 1..(LOGSIZE + 1)]
    BY SMT, SMTT(40), <1>0, <1>1, SizesAssumption
  <2>2. pc' \in [Procs -> Labels]
    BY <1>0, <1>1, Zenon DEF Labels
  <2> QED
    BY Zenon, <1>0, <1>1, <2>1, <2>2 DEF IInv, TypeOK
<1>5. /\ \A b \in Blocks : b \in dirty <=> \E i \in 1..Len(lh) : lh[i] = b
      /\ committing = 1
  BY Zenon, <1>1, <1>2, CommitSteady, Alone
<1>6. ProgressOf(p)'
  <2>1. Copied(Len(lh))
    <3>1. ProgressOf(p)
      BY DEF IInv, Progress
    <3> QED
      BY <1>1, <3>1, Zenon DEF ProgressOf
  <2>2. Copied(Len(lh))'
    BY Zenon, SMTT(40), <1>1, <2>1 DEF Copied
  <2>3. Installed(lh, tail[p] - 1)'
    BY SMT, SMTT(40), <1>3 DEF Installed
  <2>4. head' = lh' /\ tail'[p] <= Len(lh') + 1 /\ pc'[p] = "install"
    BY SMT, SMTT(40), <1>0, <1>1, <1>3
  <2>5. \A b \in Blocks : b \in dirty' <=> \E i \in tail'[p]..Len(lh') : lh'[i] = b
    BY Zenon, SMTT(40), <1>1, <1>3, <1>5
  <2> QED
    BY <2>2, <2>3, <2>4, <2>5, Zenon DEF ProgressOf
<1>7. Steady'
  BY SMT, SMTT(40), <1>1, <1>3, <1>5 DEF Steady
<1>8. PinnedInCache'
  BY <1>1 DEF IInv, PinnedInCache
<1>9. Listing(lh') /\ Listing(head')
  BY Zenon, <1>1 DEF IInv
<1> QED
  BY ZenonT(60), <1>1, <1>2, <1>3, <1>4, <1>6, <1>7, <1>8, <1>9, CommitterInv

\* install_trans() writes the next block home, as the cache has it.
LEMMA InstallInv ==
  ASSUME IInv, NEW p \in Procs, install_trans(p)
  PROVE  IInv'
<1> DEFINE t == tail[p]
           b == lh[t]
           label == IF t <= Len(lh) THEN "install" ELSE "erase"
<1>0. /\ pc \in [Procs -> Labels] /\ tail \in [Procs -> 1..(LOGSIZE + 1)]
      /\ lh \in Seq(Blocks) /\ Len(lh) <= LOGSIZE /\ logdata \in [Slots -> Values]
      /\ cache \in [Blocks -> Values] /\ home \in [Blocks -> Values] /\ dirty \subseteq Blocks
      /\ \A i, j \in 1..Len(lh) : lh[i] = lh[j] => i = j
  BY Zenon DEF IInv, TypeOK, Listing
<1>1. /\ pc[p] = "install"
      /\ \/ /\ t <= Len(lh) /\ pc' = pc /\ lh' = lh
            /\ home' = [home EXCEPT ![b] = logdata[t]]
            /\ cache' = [cache EXCEPT ![b] = logdata[t]]
            /\ dirty' = dirty \ {b}
            /\ tail' = [tail EXCEPT ![p] = t + 1]
         \/ /\ ~(t <= Len(lh)) /\ pc' = [pc EXCEPT ![p] = "erase"] /\ lh' = << >>
            /\ UNCHANGED <<home, cache, dirty, tail>>
      /\ UNCHANGED <<logdata, head, outstanding, committing, blk, op, wrote,
                     boot, rtail, panicked, ops, crashes>>
  BY Zenon, SMTT(40) DEF install_trans, At, Goto, bootVars, bounds
<1>2. pc[p] \in Commits /\ label \in Commits /\ label \in Labels
  BY <1>1 DEF Commits, Labels
<1>3. \A q \in Procs : pc'[q] = IF q = p THEN label ELSE pc[q]
  BY Zenon, <1>0, <1>1
<1>4. /\ head = lh /\ Copied(Len(lh))
      /\ t <= Len(lh) + 1 /\ Installed(lh, t - 1) /\ t \in 1..(LOGSIZE + 1)
      /\ \A c \in Blocks : c \in dirty <=> \E i \in t..Len(lh) : lh[i] = c
  <2>1. ProgressOf(p)
    BY DEF IInv, Progress
  <2> QED
    BY <1>0, <1>1, <2>1, Zenon DEF ProgressOf
<1>5. committing = 1 /\ \A c \in Blocks : c \notin dirty => cache[c] = home[c]
  BY ZenonT(60), <1>2, Alone
<1>6. Listing(lh') /\ Listing(head')
  <2>1. Listing(<< >>)
    BY SMT, SMTT(40), SizesAssumption DEF Listing
  <2> QED
    BY Zenon, SMTT(40), <1>1, <2>1 DEF IInv
<1>7. TypeOK' /\ ProgressOf(p)' /\ Steady' /\ PinnedInCache'
  <2>1. CASE t <= Len(lh)
    <3>1. t \in 1..Len(lh) /\ t \in Slots /\ b \in Blocks /\ logdata[t] \in Values
      BY SMT, SMTT(40), <1>0, <1>4, <2>1, SizesAssumption DEF Slots
    <3>2. /\ pc' = pc /\ lh' = lh /\ home' = [home EXCEPT ![b] = logdata[t]]
          /\ cache' = [cache EXCEPT ![b] = logdata[t]] /\ dirty' = dirty \ {b}
          /\ tail' = [tail EXCEPT ![p] = t + 1]
      BY Zenon, SMTT(40), <1>1, <2>1
    <3> HIDE DEF b
    <3>3. /\ home' \in [Blocks -> Values] /\ cache' \in [Blocks -> Values]
          /\ \A c \in Blocks : home'[c] = IF c = b THEN logdata[t] ELSE home[c]
          /\ \A c \in Blocks : cache'[c] = IF c = b THEN logdata[t] ELSE cache[c]
      BY Zenon, SMTT(40), <1>0, <3>1, <3>2
    <3>4. tail' \in [Procs -> 1..(LOGSIZE + 1)] /\ tail'[p] = t + 1
      <4>1. t + 1 \in 1..(LOGSIZE + 1)
        BY SMTT(40), <1>0, <3>1, SizesAssumption
      <4> QED
        BY Zenon, SMTT(40), <1>0, <3>2, <4>1
    <3>5. TypeOK'
      BY Zenon, <1>0, <1>1, <3>2, <3>3, <3>4 DEF IInv, TypeOK
    <3>6. \A i \in 1..Len(lh) : lh[i] \in Blocks /\ (lh[i] = b <=> i = t)
      BY SMT, SMTT(40), <1>0, <3>1 DEF b
    <3>7. Copied(Len(lh))'
      BY SMTT(40), <1>1, <1>4, <3>2, <3>3, <3>6 DEF Copied
    <3>8. Installed(lh, tail[p] - 1)'
      <4> SUFFICES ASSUME NEW i \in 1..t PROVE home'[lh[i]] = logdata[i]
        BY SMT, SMTT(40), <1>1, <1>4, <3>2, <3>4 DEF Installed
      <4>1. i \in 1..Len(lh) /\ (i # t => i \in 1..(t - 1))
        BY SMT, SMTT(40), <1>0, <3>1
      <4> QED
        BY Zenon, <1>4, <3>3, <3>6, <4>1 DEF Installed
    <3>9. \A c \in Blocks : c \in dirty' <=> \E i \in tail'[p]..Len(lh') : lh'[i] = c
      <4> SUFFICES ASSUME NEW c \in Blocks
                   PROVE  c \in dirty' <=> \E i \in (t + 1)..Len(lh) : lh[i] = c
        BY Zenon, SMTT(40), <3>2, <3>4
      <4>1. c \in dirty <=> \E i \in t..Len(lh) : lh[i] = c
        BY Zenon, <1>4
      <4>2. \A i \in t..Len(lh) : i \in 1..Len(lh) /\ (i # t <=> i \in (t + 1)..Len(lh))
        BY SMT, SMTT(40), <1>0, <3>1
      <4>3. \A i \in (t + 1)..Len(lh) : i \in t..Len(lh)
        BY SMT, SMTT(40), <1>0, <3>1
      <4> QED
        BY <3>2, <3>6, <4>1, <4>2, <4>3, Zenon
    <3>10. head' = lh' /\ tail'[p] <= Len(lh') + 1 /\ pc'[p] = "install"
      BY SMT, SMTT(40), <1>0, <1>1, <1>4, <3>1, <3>2, <3>4
    <3>11. ProgressOf(p)'
      BY <3>7, <3>8, <3>9, <3>10, Zenon DEF ProgressOf
    <3>12. Steady'
      BY SMT, SMTT(40), <1>1, <1>5, <3>10 DEF Steady
    <3>13. PinnedInCache'
      BY Zenon, <1>5, <3>2, <3>3 DEF PinnedInCache
    <3> QED
      BY Zenon, SMTT(40), <3>5, <3>11, <3>12, <3>13
  <2>2. CASE ~(t <= Len(lh))
    <3>1. pc' = [pc EXCEPT ![p] = "erase"] /\ lh' = << >> /\ UNCHANGED <<home, cache, dirty, tail>>
      BY SMT, SMTT(40), <1>1, <2>2
    <3>2. TypeOK'
      <4>1. pc' \in [Procs -> Labels]
        BY <1>0, <3>1, SMT, SMTT(40) DEF Labels
      <4>2. lh' \in Seq(Blocks)
        BY SMT, SMTT(40), <3>1
      <4> QED
        BY Zenon, <1>1, <3>1, <4>1, <4>2 DEF IInv, TypeOK
    <3>3. t - 1 = Len(lh)
      BY SMT, SMTT(40), <1>0, <1>4, <2>2
    <3>4. Installed(head, Len(head))'
      BY Zenon, <1>1, <1>4, <3>1, <3>3 DEF Installed
    <3>5. pc'[p] = "erase"
      BY Zenon, <1>3, <2>2
    <3>6. ProgressOf(p)'
      BY <3>1, <3>4, <3>5, Zenon DEF ProgressOf
    <3>7. \A c \in Blocks : c \notin dirty
      BY SMT, SMTT(40), <1>0, <1>4, <3>3
    <3>8. Steady'
      BY SMT, SMTT(40), <1>1, <1>5, <3>1, <3>5, <3>7 DEF Steady
    <3>9. PinnedInCache'
      BY Zenon, <1>5, <3>1 DEF PinnedInCache
    <3> QED
      BY SMT, SMTT(40), <3>2, <3>6, <3>8, <3>9
  <2> QED
    BY SMT, SMTT(40), <2>1, <2>2
<1> HIDE DEF label
<1> QED
  BY SMT, SMTT(40), <1>1, <1>2, <1>3, <1>6, <1>7, CommitterInv

\* The header is erased once every block is at home.
LEMMA EraseInv ==
  ASSUME IInv, NEW p \in Procs, erase_head(p)
  PROVE  IInv'
<1>0. pc \in [Procs -> Labels] /\ lh \in Seq(Blocks)
  BY Zenon DEF IInv, TypeOK
<1>1. /\ pc[p] = "erase" /\ head' = lh /\ pc' = [pc EXCEPT ![p] = "committed"]
      /\ UNCHANGED <<home, logdata, cache, dirty, lh, outstanding, committing, tail, blk, op, wrote,
                     boot, rtail, panicked, ops, crashes>>
  BY SMT, SMTT(40) DEF erase_head, empty_header, At, Goto, logVars, bootVars, bounds
<1>2. pc[p] \in Commits /\ "committed" \in Commits
  BY SMT, SMTT(40), <1>1 DEF Commits
<1>3. \A q \in Procs : pc'[q] = IF q = p THEN "committed" ELSE pc[q]
  BY SMT, SMTT(40), <1>0, <1>1
<1>4. TypeOK'
  <2>1. pc' \in [Procs -> Labels]
    BY Zenon, <1>0, <1>1, SMTT(40) DEF Labels
  <2> QED
    BY Zenon, <1>0, <1>1, <2>1 DEF IInv, TypeOK
<1>5. /\ \A b \in Blocks : b \in dirty <=> \E i \in 1..Len(lh) : lh[i] = b
      /\ committing = 1
  BY Zenon, <1>1, <1>2, CommitSteady, Alone
<1>6. lh = << >>
  <2>1. ProgressOf(p)
    BY DEF IInv, Progress
  <2> QED
    BY Zenon, <1>1, <2>1, SMTT(40) DEF ProgressOf
<1>7. ProgressOf(p)'
  <2>1. pc'[p] = "committed" /\ lh' = << >>
    BY Zenon, <1>1, <1>3, <1>6
  <2> QED
    BY <2>1, SMT DEF ProgressOf
<1>8. Steady'
  BY Zenon, <1>1, <1>5, <1>6 DEF Steady
<1>9. PinnedInCache'
  BY Zenon, SMTT(40), <1>1 DEF IInv, PinnedInCache
<1>10. Listing(lh') /\ Listing(head')
  BY Zenon, SMTT(40), <1>1 DEF IInv
<1> QED
  BY Zenon, <1>1, <1>2, <1>3, <1>4, <1>7, <1>8, <1>9, <1>10, CommitterInv

\* The end of the commit wakes those who wait for room.
LEMMA CommitEndInv ==
  ASSUME IInv, NEW p \in Procs, CommitEnd(p)
  PROVE  IInv'
<1> USE DEF IInv
<1>0. pc \in [Procs -> Labels] /\ tail \in [Procs -> 1..(LOGSIZE + 1)]
  BY Zenon DEF TypeOK
<1>1. /\ pc[p] = "committed" /\ committing' = 0 /\ tail' = [tail EXCEPT ![p] = 1]
      /\ pc' = [q \in Procs |-> IF q = p THEN "idle"
                                ELSE IF pc[q] = "asleep" THEN "begin" ELSE pc[q]]
      /\ UNCHANGED <<home, logdata, head, cache, dirty, lh, outstanding, blk, op, wrote,
                     boot, rtail, panicked, ops, crashes>>
  BY DEF CommitEnd, At, WakeupAnd, disk, bootVars, bounds
<1>2. pc[p] \in Commits
  BY Zenon, <1>1 DEF Commits
<1>3. /\ committing = 1 /\ boot = "up" /\ InOp = {} /\ outstanding = 0
      /\ \A q \in Procs : q # p => pc[q] \notin Commits
      /\ \A q \in Procs : blk[q] = NoBlock
  BY SMT, SMTT(40), <1>2, Alone
<1>4. /\ pc'[p] = "idle"
      /\ \A q \in Procs : q # p =>
           pc'[q] = pc[q] \/ (pc[q] = "asleep" /\ pc'[q] = "begin")
  BY <1>0, <1>1, Zenon
<1>5. TypeOK'
  <2>1. pc' \in [Procs -> Labels]
    BY Zenon, SMTT(40), <1>0, <1>1 DEF Labels
  <2>2. tail' \in [Procs -> 1..(LOGSIZE + 1)]
    BY SMT, SMTT(40), <1>0, <1>1, SizesAssumption
  <2> QED
    BY Zenon, <1>1, <2>1, <2>2 DEF TypeOK
<1>6. InOp' = {}
  <2>1. \A q \in Procs : pc[q] \notin {"in", "log_write", "absorb"}
    BY <1>3 DEF InOp
  <2>2. \A q \in Procs : pc'[q] \notin {"in", "log_write", "absorb"}
    BY Zenon, <1>4, <2>1
  <2> QED
    BY Zenon, SMTT(40), <2>2 DEF InOp
<1>7. \A q \in Procs : pc'[q] \notin Commits
  BY Zenon, SMTT(40), <1>3, <1>4 DEF Commits
<1>8. Control'
  BY SMT, SMTT(40), <1>1, <1>3, <1>6, <1>7, FS_EmptySet DEF Control
<1>9. Holds'
  <2>0. \A q \in Procs : HoldsOf(q)
    BY SMTT(40) DEF Holds
  <2>1. HoldsOf(p)'
    <3>1. blk'[p] = NoBlock
      BY ZenonT(60), <1>1, <1>3
    <3> QED
      BY Zenon, SMTT(40), <1>4, <3>1 DEF HoldsOf
  <2>2. ASSUME NEW q \in Procs, q # p PROVE HoldsOf(q)'
    <3>1. /\ HoldsOf(q) /\ blk'[q] = blk[q] /\ wrote'[q] = wrote[q]
          /\ pc'[q] = pc[q] \/ (pc[q] = "asleep" /\ pc'[q] = "begin")
      BY Zenon, <1>1, <1>4, <2>0, <2>2
    <3>2. Range(lh) \subseteq Range(lh)'
      BY SMT, SMTT(40), <1>1
    <3> QED
      BY Zenon, <3>1, <3>2, HoldsFrame
  <2> QED
    BY <2>1, <2>2 DEF Holds
<1>10. Progress'
  BY Zenon, <1>7, NoProgress DEF Progress
<1>11. Steady'
  <2>1. lh = << >>
    BY <1>1, SMT, SMTT(40) DEF Progress, ProgressOf
  <2>2. /\ head = << >>
        /\ \A b \in Blocks : b \in dirty <=> \E i \in 1..Len(lh) : lh[i] = b
    BY Zenon, <1>1, <1>2, CommitSteady
  <2> QED
    BY Zenon, SMTT(40), <1>1, <2>1, <2>2 DEF Steady
<1>12. ReservationCovers'
  <2>1. Reserved' = {}
    BY SMTT(40), <1>6 DEF Reserved
  <2> QED
    BY SMT, SMTT(40), <1>1, <2>1, FS_EmptySet, SizesAssumption DEF ReservationCovers, Listing
<1>13. Listing(lh)' /\ Listing(head)' /\ Booting' /\ PinnedInCache' /\ NoProtocolPanic'
  BY ZenonT(60), <1>1, <1>3 DEF Listing, Booting, PinnedInCache, NoProtocolPanic
<1> QED
  BY Zenon, SMTT(40), <1>5, <1>8, <1>9, <1>10, <1>11, <1>12, <1>13
-----------------------------------------------------------------------------
(***************************************************************************)
(* Crash and recovery.                                                     *)
(***************************************************************************)

\* With no process in the kernel, only the disk and recovery matter.
LEMMA BootInv ==
  ASSUME TypeOK', Listing(lh'), Listing(head'), Booting', boot' # "up",
         \A q \in Procs : pc'[q] = "idle" /\ blk'[q] = NoBlock,
         outstanding' = 0, committing' = 0, panicked' = "none"
  PROVE  IInv'
<1>1. InOp' = {}
  BY DEF InOp
<1>2. \A q \in Procs : pc'[q] \notin Commits
  BY ZenonT(60) DEF Commits
<1>3. Control'
  BY SMT, SMTT(40), <1>1, <1>2, FS_EmptySet DEF Control
<1>4. Holds'
  BY Zenon DEF Holds, HoldsOf
<1>5. Progress'
  BY Zenon, <1>2, NoProgress DEF Progress
<1>6. Reserved' = {}
  BY Zenon, <1>1 DEF Reserved
<1>7. ReservationCovers'
  BY SMT, SMTT(40), <1>6, FS_EmptySet, SizesAssumption DEF ReservationCovers, Listing
<1>8. Steady' /\ PinnedInCache' /\ NoProtocolPanic' /\ Listing(lh)' /\ Listing(head)'
  BY DEF Steady, PinnedInCache, NoProtocolPanic, Listing
<1> QED
  BY ZenonT(60), <1>3, <1>4, <1>5, <1>7, <1>8 DEF IInv

\* After a crash only the disk is left.
LEMMA CrashInv ==
  ASSUME IInv, Crash
  PROVE  IInv'
<1>1. /\ cache' = home /\ dirty' = {} /\ lh' = << >> /\ outstanding' = 0 /\ committing' = 0
      /\ boot' = "read_head" /\ rtail' = 1 /\ panicked' = "none"
      /\ UNCHANGED <<home, logdata, head>>
  BY Zenon, SMTT(40) DEF Crash, disk
<1>2. \A q \in Procs : pc'[q] = "idle" /\ blk'[q] = NoBlock
  BY Zenon, SMTT(40) DEF Crash
<1>3. TypeOK'
  <2>0. /\ home \in [Blocks -> Values] /\ logdata \in [Slots -> Values]
        /\ head \in Seq(Blocks) /\ ops \in 0..MaxOps /\ crashes \in 0..MaxCrashes
    BY Zenon DEF IInv, TypeOK
  <2>1. pc' \in [Procs -> Labels] /\ blk' \in [Procs -> Blocks \cup {NoBlock}]
    BY Zenon, SMTT(40) DEF Crash, Labels
  <2>2. tail' \in [Procs -> 1..(LOGSIZE + 1)] /\ rtail' \in 1..(LOGSIZE + 1)
    BY SizesAssumption, SMT, SMTT(40) DEF Crash
  <2>3. op' \in [Procs -> Values] /\ wrote' \in [Procs -> SUBSET Blocks]
    BY SMT, SMTT(40), BoundsAssumption DEF Crash, Values
  <2>4. crashes' \in 0..MaxCrashes /\ ops' = ops
    BY SMT, SMTT(40), <2>0, BoundsAssumption DEF Crash
  <2> QED
    BY SMT, SMTT(40), <1>1, <2>0, <2>1, <2>2, <2>3, <2>4 DEF TypeOK
<1>4. Booting'
  BY Zenon, SMTT(40), <1>1, <1>2 DEF Booting
<1>5. Listing(lh') /\ Listing(head')
  BY SMT, SMTT(40), <1>1, SizesAssumption DEF IInv, Listing
<1>6. boot' # "up"
  BY Zenon, <1>1
<1> QED
  BY Zenon, <1>1, <1>2, <1>3, <1>4, <1>5, <1>6, BootInv

\* What the bootstrap has in memory, and what it cannot have touched.
LEMMA BootState ==
  ASSUME IInv, boot # "up"
  PROVE  /\ \A q \in Procs : pc[q] = "idle" /\ blk[q] = NoBlock
         /\ outstanding = 0 /\ committing = 0 /\ dirty = {} /\ panicked = "none"
         /\ cache = home
         /\ boot = "read_head" => lh = << >> /\ rtail = 1
         /\ boot = "install" => lh = head /\ rtail <= Len(head) + 1 /\ Installed(head, rtail - 1)
         /\ boot = "erase" => lh = << >> /\ Installed(head, Len(head))
BY Zenon DEF IInv, Booting

\* recover_from_log() reads the header first.
LEMMA ReadHeadInv ==
  ASSUME IInv, read_head
  PROVE  IInv'
<1>0. head \in Seq(Blocks) /\ boot # "up"
  BY Zenon DEF IInv, TypeOK, read_head
<1>1. /\ boot = "read_head" /\ lh' = head /\ boot' = "install"
      /\ UNCHANGED <<home, logdata, head, cache, dirty, outstanding, committing, pc, tail, blk, op,
                     wrote, rtail, panicked, ops, crashes>>
  BY Zenon DEF read_head, disk, procVars, bounds
<1>2. /\ \A q \in Procs : pc[q] = "idle" /\ blk[q] = NoBlock
      /\ outstanding = 0 /\ committing = 0 /\ dirty = {} /\ panicked = "none"
      /\ cache = home /\ rtail = 1
  BY SMT, SMTT(40), <1>0, <1>1, BootState
<1>3. TypeOK'
  BY Zenon, <1>0, <1>1 DEF IInv, TypeOK
<1>4. Booting'
  <2>1. Installed(head, rtail - 1)'
    BY SMT, SMTT(40), <1>1, <1>2 DEF Installed
  <2>2. rtail' <= Len(head') + 1
    BY SMT, SMTT(40), <1>0, <1>1, <1>2
  <2> QED
    BY ZenonT(60), <1>1, <1>2, <2>1, <2>2 DEF Booting
<1>5. Listing(lh') /\ Listing(head') /\ boot' # "up"
  BY ZenonT(60), <1>1 DEF IInv
<1> QED
  BY Zenon, SMTT(40), <1>1, <1>2, <1>3, <1>4, <1>5, BootInv

\* install_trans() in recovery writes the next block home.
LEMMA RecoverInstallInv ==
  ASSUME IInv, recover_install
  PROVE  IInv'
<1>0. /\ lh \in Seq(Blocks) /\ logdata \in [Slots -> Values] /\ home \in [Blocks -> Values]
      /\ cache \in [Blocks -> Values] /\ rtail \in 1..(LOGSIZE + 1) /\ Len(lh) <= LOGSIZE
      /\ \A i, j \in 1..Len(lh) : lh[i] = lh[j] => i = j
  BY Zenon DEF IInv, TypeOK, Listing
<1>1. /\ boot = "install"
      /\ \/ /\ rtail <= Len(lh) /\ rtail' = rtail + 1 /\ boot' = boot /\ lh' = lh
            /\ home' = [home EXCEPT ![lh[rtail]] = logdata[rtail]]
            /\ cache' = [cache EXCEPT ![lh[rtail]] = logdata[rtail]]
         \/ /\ ~(rtail <= Len(lh)) /\ boot' = "erase" /\ lh' = << >>
            /\ UNCHANGED <<home, cache, rtail>>
      /\ UNCHANGED <<logdata, head, dirty, outstanding, committing, pc, tail, blk, op,
                     wrote, panicked, ops, crashes>>
  BY Zenon DEF recover_install, procVars, bounds
<1>2. boot # "up" /\ boot' # "up" /\ boot' \in {"up", "read_head", "install", "erase"}
  BY Zenon, <1>1
<1>3. /\ \A q \in Procs : pc[q] = "idle" /\ blk[q] = NoBlock
      /\ outstanding = 0 /\ committing = 0 /\ dirty = {} /\ panicked = "none"
      /\ cache = home
      /\ lh = head /\ rtail <= Len(head) + 1 /\ Installed(head, rtail - 1)
  BY ZenonT(60), <1>1, <1>2, BootState
<1>4. Listing(lh') /\ Listing(head')
  <2>1. Listing(<< >>)
    BY SMT, SMTT(40), SizesAssumption DEF Listing
  <2> QED
    BY SMT, SMTT(40), <1>1, <2>1 DEF IInv
<1>5. TypeOK' /\ Booting'
  <2>1. CASE rtail <= Len(lh)
    <3> DEFINE b == lh[rtail]
    <3>1. rtail \in 1..Len(lh) /\ rtail \in Slots /\ b \in Blocks /\ logdata[rtail] \in Values
      BY SMT, SMTT(40), <1>0, <2>1, SizesAssumption DEF Slots
    <3>2. \A i \in 1..Len(lh) : lh[i] \in Blocks /\ (lh[i] = b <=> i = rtail)
      BY SMT, SMTT(40), <1>0, <3>1
    <3>3. /\ home' = [home EXCEPT ![b] = logdata[rtail]]
          /\ cache' = [cache EXCEPT ![b] = logdata[rtail]]
          /\ boot' = "install" /\ lh' = lh /\ rtail' = rtail + 1
      BY Zenon, <1>1, <2>1
    <3> HIDE DEF b
    <3>4. /\ home' \in [Blocks -> Values] /\ cache' \in [Blocks -> Values]
          /\ \A c \in Blocks : home'[c] = IF c = b THEN logdata[rtail] ELSE home[c]
      BY ZenonT(60), <1>0, <3>1, <3>3
    <3>5. rtail' \in 1..(LOGSIZE + 1) /\ rtail' <= Len(lh) + 1
      BY SMTT(40), <1>0, <3>1, <3>3, SizesAssumption
    <3>6. TypeOK'
      BY ZenonT(60), <1>0, <1>1, <1>2, <3>3, <3>4, <3>5 DEF IInv, TypeOK
    <3>7. Installed(head, rtail - 1)'
      <4> SUFFICES ASSUME NEW i \in 1..rtail PROVE home'[lh[i]] = logdata[i]
        BY SMT, SMTT(40), <1>0, <1>1, <1>3, <3>3 DEF Installed
      <4>1. i \in 1..Len(lh) /\ (i # rtail => i \in 1..(rtail - 1))
        BY SMT, SMTT(40), <1>0, <3>1
      <4> QED
        BY ZenonT(60), <1>3, <3>2, <3>4, <4>1 DEF Installed
    <3>8. cache' = home'
      BY ZenonT(60), <1>3, <3>3
    <3> QED
      BY ZenonT(60), <1>1, <1>3, <3>3, <3>5, <3>6, <3>7, <3>8 DEF Booting
  <2>2. CASE ~(rtail <= Len(lh))
    <3>1. boot' = "erase" /\ lh' = << >> /\ UNCHANGED <<home, cache, rtail>>
      BY SMT, SMTT(40), <1>1, <2>2
    <3>2. lh' \in Seq(Blocks)
      BY SMT, SMTT(40), <3>1
    <3>3. TypeOK'
      BY ZenonT(60), <1>1, <1>2, <3>1, <3>2 DEF IInv, TypeOK
    <3>4. rtail - 1 = Len(head)
      BY SMT, SMTT(40), <1>0, <1>3, <2>2
    <3>5. Installed(head, Len(head))'
      BY Zenon, <1>1, <1>3, <3>1, <3>4 DEF Installed
    <3> QED
      BY ZenonT(60), <1>1, <1>3, <3>1, <3>3, <3>5 DEF Booting
  <2> QED
    BY Zenon, <2>1, <2>2
<1> QED
  BY Zenon, SMTT(40), <1>1, <1>2, <1>3, <1>4, <1>5, BootInv

\* Recovery ends with an empty log and an empty cache.
LEMMA RecoverEraseInv ==
  ASSUME IInv, recover_erase
  PROVE  IInv'
<1>1. /\ boot = "erase" /\ head' = lh /\ boot' = "up" /\ rtail' = 1
      /\ UNCHANGED <<home, logdata, cache, dirty, lh, outstanding, committing, pc, tail, blk, op,
                     wrote, panicked, ops, crashes>>
  BY ZenonT(60) DEF recover_erase, logVars, procVars, bounds
<1>2. /\ \A q \in Procs : pc[q] = "idle" /\ blk[q] = NoBlock
      /\ outstanding = 0 /\ committing = 0 /\ dirty = {} /\ panicked = "none"
      /\ cache = home /\ lh = << >>
  BY Zenon, <1>1, BootState
<1>3. TypeOK'
  <2>1. << >> \in Seq(Blocks) /\ 1 \in 1..(LOGSIZE + 1)
    BY SMT, SMTT(40), SizesAssumption
  <2>2. head' \in Seq(Blocks) /\ rtail' \in 1..(LOGSIZE + 1)
    BY <1>1, <1>2, <2>1, Zenon
  <2> QED
    BY ZenonT(60), <1>1, <2>2 DEF IInv, TypeOK
<1>4. InOp' = {} /\ InOp = {}
  BY SMT, SMTT(40), <1>1, <1>2 DEF InOp
<1>5. Control' /\ Holds' /\ Progress' /\ ReservationCovers'
  <2>1. Reserved' = Reserved
    BY SMT, SMTT(40), <1>1, <1>4, SameReserved
  <2>2. \A q \in Procs : pc'[q] \notin Commits
    BY Zenon, <1>1, <1>2 DEF Commits
  <2>3. Control'
    BY SMT, SMTT(40), <1>1, <1>2, <1>4, <2>2, FS_EmptySet DEF Control
  <2>4. Progress'
    BY Zenon, <2>2, NoProgress DEF Progress
  <2>5. Holds'
    BY <1>1, <1>2, Zenon DEF Holds, HoldsOf
  <2>6. ReservationCovers'
    BY Zenon, <1>1, <2>1 DEF IInv, ReservationCovers
  <2> QED
    BY SMT, SMTT(40), <2>3, <2>4, <2>5, <2>6
<1>6. Steady' /\ PinnedInCache' /\ Booting'
  BY SMT, SMTT(40), <1>1, <1>2 DEF Steady, PinnedInCache, Booting
<1>7. NoProtocolPanic' /\ Listing(lh)' /\ Listing(head)'
  BY Zenon, <1>1 DEF IInv, NoProtocolPanic, Listing
<1> QED
  BY Zenon, <1>3, <1>5, <1>6, <1>7 DEF IInv

\* Every step keeps the invariant.
LEMMA NextInv == IInv /\ [Next]_vars => IInv'
<1> SUFFICES ASSUME IInv, [Next]_vars PROVE IInv'
  BY SMT, SMTT(40)
<1>1. ASSUME NEW p \in Procs, Start(p) PROVE IInv'
  BY SMT, SMTT(40), <1>1, StartInv
<1>2. ASSUME NEW p \in Procs, LogStep(p) PROVE IInv'
  BY Zenon, <1>2, BeginInv, CheckInv, LogWriteInv, EndInv, CommitStartInv, WriteLogInv, WriteHeadInv,
     InstallInv, EraseInv, CommitEndInv DEF LogStep
<1>3. ASSUME NEW p \in Procs, NEW b \in Blocks, Modify(p, b) PROVE IInv'
  BY SMT, SMTT(40), <1>3, ModifyInv
<1>4. ASSUME NEW b \in Blocks, Evict(b) PROVE IInv'
  BY Zenon, SMTT(40), <1>4, EvictSame, StutterInv
<1>5. CASE Recover
  BY Zenon, SMTT(40), <1>5, ReadHeadInv, RecoverInstallInv, RecoverEraseInv DEF Recover
<1>6. CASE Crash
  BY Zenon, SMTT(40), <1>6, CrashInv
<1>7. CASE Stopped \/ UNCHANGED vars
  BY SMT, SMTT(40), <1>7, StutterInv DEF Stopped
<1> QED
  BY Zenon, SMTT(40), <1>1, <1>2, <1>3, <1>4, <1>5, <1>6, <1>7 DEF Next

\* The invariant holds in every state that log.c reaches.
THEOREM SpecInv == Spec => []IInv
BY InitInv, NextInv, PTL DEF Spec

\* The log is consistent in every state: what begin_op() reserved suffices,
\* nobody finds the log in another's hands, every change that is not installed
\* is pinned in the cache, and once no operation and no commit is in progress
\* everything is at its home location.
THEOREM Consistent == Spec => []LogConsistent
<1>1. IInv => LogConsistent
  <2> SUFFICES ASSUME IInv PROVE LogConsistent
    BY SMT, SMTT(40)
  <2>1. QuietIsDurable
    <3> SUFFICES ASSUME boot = "up", outstanding = 0, committing = 0
                 PROVE  home = cache /\ head = << >> /\ lh = << >> /\ dirty = {}
      BY SMT, SMTT(40) DEF QuietIsDurable
    <3>1. InOp = {}
      BY ZenonT(60), FS_EmptySet DEF IInv, Control
    <3>2. \A p \in Procs : pc[p] \notin Commits
      BY SMT, SMTT(40) DEF IInv, Control
    <3>3. \A p \in Procs : pc[p] \notin {"install", "erase"}
      BY Zenon, SMTT(40), <3>2 DEF Commits
    <3>4. lh = << >> /\ head = << >>
      BY SMT, SMTT(40), <3>1, <3>3 DEF IInv, Steady
    <3>5. \A b \in Blocks : b \notin dirty
      BY SMT, SMTT(40), <3>3, <3>4 DEF IInv, Steady
    <3>6. dirty = {}
      BY Zenon, <3>5 DEF IInv, TypeOK
    <3>7. \A p \in Procs : blk[p] = NoBlock
      <4>1. \A p \in Procs : pc[p] \notin {"log_write", "absorb"}
        BY Zenon, <3>1 DEF InOp
      <4> QED
        BY SMT, SMTT(40), <4>1, NoBuffer DEF IInv, Holds
    <3>8. \A b \in Blocks : cache[b] = home[b]
      BY SMT, SMTT(40), <3>5, <3>7, NoBlockAssumption DEF IInv, PinnedInCache
    <3>9. home \in [Blocks -> Values] /\ cache \in [Blocks -> Values]
      BY Zenon DEF IInv, TypeOK
    <3>10. home = cache
      BY SMT, SMTT(40), <3>8, <3>9
    <3> QED
      BY Zenon, SMTT(40), <3>4, <3>6, <3>10
  <2> QED
    BY SMT, SMTT(40), <2>1 DEF IInv, LogConsistent
<1> QED
  BY <1>1, SpecInv, PTL

-----------------------------------------------------------------------------
(***************************************************************************)
(* The log implements the disk of AtomicDisk.                              *)
(***************************************************************************)

\* The log l, where the header h lists it, over the home locations d.
Over(h, l, d) ==
  [b \in Blocks |-> IF b \in Range(h) THEN l[CHOOSE i \in DOMAIN h : h[i] = b] ELSE d[b]]

\* Over is the one function that has the log blocks where h lists them, and
\* the home locations elsewhere.
LEMMA OverIs ==
  ASSUME NEW h, Listing(h), NEW l \in [Slots -> Values], NEW d \in [Blocks -> Values],
         NEW g \in [Blocks -> Values],
         \A i \in 1..Len(h) : g[h[i]] = l[i],
         \A b \in Blocks : b \notin Range(h) => g[b] = d[b]
  PROVE  Over(h, l, d) = g
<1>1. h \in Seq(Blocks) /\ DOMAIN h = 1..Len(h)
  BY SMT, SMTT(40) DEF Listing
<1>2. ASSUME NEW b \in Blocks PROVE Over(h, l, d)[b] = g[b]
  <2>1. CASE b \notin Range(h)
    BY Zenon, <2>1 DEF Over
  <2>2. CASE b \in Range(h)
    <3> DEFINE i == CHOOSE j \in DOMAIN h : h[j] = b
    <3>1. \E j \in DOMAIN h : h[j] = b
      BY SMT, SMTT(40), <1>1, <2>2, RangeOfList
    <3>2. i \in DOMAIN h /\ h[i] = b
      BY Zenon, <3>1
    <3>3. Over(h, l, d)[b] = l[i]
      BY Zenon, SMTT(40), <2>2 DEF Over
    <3> HIDE DEF i
    <3> QED
      BY Zenon, SMTT(40), <1>1, <3>2, <3>3
  <2> QED
    BY Zenon, <2>1, <2>2
<1>3. Over(h, l, d) = [b \in Blocks |-> Over(h, l, d)[b]]
  BY SMT, SMTT(40) DEF Over
<1>4. g = [b \in Blocks |-> g[b]]
  BY SMT, SMTT(40)
<1> QED
  BY <1>2, <1>3, <1>4, Zenon

\* With an empty header it is the home locations.
LEMMA OverEmpty ==
  ASSUME NEW l, NEW d \in [Blocks -> Values]
  PROVE  Over(<< >>, l, d) = d
<1>1. Range(<< >>) = {}
  BY DEF Range
<1>2. Over(<< >>, l, d) = [b \in Blocks |-> d[b]]
  BY <1>1, Zenon DEF Over
<1> QED
  BY SMT, SMTT(40), <1>2

\* The contents after recovery, before and after a step.
LEMMA AfterRecoveryIs ==
  AfterRecovery = Over(head, logdata, home) /\ AfterRecovery' = Over(head', logdata', home')
BY Zenon DEF AfterRecovery, Over

\* A step that leaves the disk alone.
LEMMA DiskSame ==
  ASSUME UNCHANGED <<home, logdata, head>>
  PROVE  AfterRecovery' = AfterRecovery
BY SMT, SMTT(40) DEF AfterRecovery

\* A step with an empty header before and after.
LEMMA EmptySame ==
  ASSUME IInv, head = << >>, head' = << >>, home' = home
  PROVE  AfterRecovery' = AfterRecovery /\ AfterRecovery = home
<1>1. home \in [Blocks -> Values]
  BY Zenon DEF IInv, TypeOK
<1> QED
  BY Zenon, SMTT(40), <1>1, OverEmpty, AfterRecoveryIs

\* Writing a listed block home, as the log has it, changes nothing that
\* recovery leaves.
LEMMA InstallSame ==
  ASSUME IInv, NEW t \in 1..Len(head),
         home' = [home EXCEPT ![head[t]] = logdata[t]], UNCHANGED <<head, logdata>>
  PROVE  AfterRecovery' = AfterRecovery
<1>0. head \in Seq(Blocks) /\ home \in [Blocks -> Values]
  BY Zenon DEF IInv, TypeOK
<1>1. head \in Seq(Blocks) /\ home \in [Blocks -> Values] /\ head[t] \in Blocks
  BY SMT, SMTT(40), <1>0
<1>2. head[t] \in Range(head)
  BY Zenon, SMTT(40), <1>1, RangeOfList
<1>3. \A b \in Blocks : b \notin Range(head) => home'[b] = home[b]
  BY Zenon, SMTT(40), <1>1, <1>2
<1>4. Over(head, logdata, home') = Over(head, logdata, home)
  BY <1>3, SMT, SMTT(40) DEF Over
<1> QED
  BY SMT, SMTT(40), <1>4, AfterRecoveryIs

\* Once every listed block is at home, recovery would change nothing.
LEMMA InstalledIsHome ==
  ASSUME IInv, Installed(head, Len(head))
  PROVE  AfterRecovery = home
<1>1. home \in [Blocks -> Values] /\ logdata \in [Slots -> Values] /\ Listing(head)
  BY Zenon DEF IInv, TypeOK
<1>2. \A i \in 1..Len(head) : home[head[i]] = logdata[i]
  BY Zenon, SMTT(40) DEF Installed
<1>3. Over(head, logdata, home) = home
  BY <1>1, <1>2, OverIs, SMTT(40)
<1> QED
  BY <1>3, AfterRecoveryIs, Zenon

\* What the operations see.
Cur == IF boot = "up" THEN cache ELSE AfterRecovery

\* The steps of the log that the abstract disk does not see.
Unseen == AfterRecovery' = AfterRecovery /\ Cur' = Cur /\ outstanding' = outstanding

\* The steps of commit(), but write_head(), do not change what a crash leaves
\* or what the operations see.
LEMMA CommitUnseen ==
  ASSUME IInv, NEW p \in Procs,
         \/ CommitStart(p) \/ write_log(p) \/ install_trans(p) \/ erase_head(p) \/ CommitEnd(p)
  PROVE  Unseen
<1>1. CASE CommitStart(p) \/ CommitEnd(p)
  <2>1. UNCHANGED <<home, logdata, head, cache, boot, outstanding>>
    BY Zenon, SMTT(40), <1>1 DEF CommitStart, CommitEnd, disk, logVars, bootVars
  <2> QED
    BY Zenon, <2>1, DiskSame DEF Unseen, Cur
<1>2. CASE write_log(p)
  <2>1. UNCHANGED <<home, head, cache, boot, outstanding>> /\ pc[p] = "write_log"
    BY ZenonT(60), <1>2 DEF write_log, At, logVars, bootVars
  <2>2. head = << >>
    BY SMT, SMTT(40), <2>1, CommitSteady DEF Commits
  <2> QED
    BY Zenon, SMTT(40), <2>1, <2>2, EmptySame DEF Unseen, Cur
<1>3. CASE install_trans(p)
  <2>1. /\ pc[p] = "install" /\ boot = "up"
        /\ UNCHANGED <<logdata, head, outstanding, boot>>
    BY SMT, SMTT(40), <1>3 DEF install_trans, At, bootVars
  <2>2. head = lh /\ Copied(Len(lh))
    <3>1. ProgressOf(p)
      BY SMT, SMTT(40) DEF IInv, Progress
    <3> QED
      BY <2>1, <3>1, Zenon DEF ProgressOf
  <2>3. CASE UNCHANGED <<home, cache>>
    BY Zenon, <2>1, <2>3, DiskSame DEF Unseen, Cur
  <2>4. CASE ~ UNCHANGED <<home, cache>>
    <3> DEFINE t == tail[p]
    <3>1. /\ home' = [home EXCEPT ![head[t]] = logdata[t]]
          /\ cache' = [cache EXCEPT ![head[t]] = logdata[t]]
          /\ t <= Len(head)
      BY <1>3, <2>2, <2>4, Zenon DEF install_trans
    <3>2. /\ head \in Seq(Blocks) /\ t \in 1..(LOGSIZE + 1) /\ cache \in [Blocks -> Values]
      BY Zenon DEF IInv, TypeOK
    <3>3. t \in 1..Len(head)
      BY SMT, SMTT(40), <3>1, <3>2, SizesAssumption
    <3>4. logdata[t] = cache[head[t]]
      BY Zenon, <2>2, <3>3 DEF Copied
    <3>5. cache' = cache
      BY SMTT(40), <3>1, <3>2, <3>3, <3>4
    <3> HIDE DEF t
    <3>6. AfterRecovery' = AfterRecovery
      BY ZenonT(60), <2>1, <3>1, <3>3, InstallSame
    <3> QED
      BY SMTT(40), <2>1, <3>5, <3>6 DEF Unseen, Cur
  <2> QED
    BY ZenonT(60), <2>3, <2>4
<1>4. CASE erase_head(p)
  <2>1. /\ pc[p] = "erase" /\ head' = lh /\ UNCHANGED <<home, logdata, cache, boot, outstanding>>
        /\ boot = "up"
    BY SMT, SMTT(40), <1>4 DEF erase_head, empty_header, At, logVars, bootVars
  <2>2. lh = << >> /\ Installed(head, Len(head))
    <3>1. ProgressOf(p)
      BY DEF IInv, Progress
    <3> QED
      BY <2>1, <3>1, Zenon DEF ProgressOf
  <2>3. AfterRecovery = home
    BY SMT, SMTT(40), <2>2, InstalledIsHome
  <2>4. home \in [Blocks -> Values]
    BY Zenon DEF IInv, TypeOK
  <2>5. AfterRecovery' = home
    BY SMT, SMTT(40), <2>1, <2>2, <2>4, OverEmpty, AfterRecoveryIs
  <2> QED
    BY Zenon, SMTT(40), <2>1, <2>3, <2>5 DEF Unseen, Cur
<1> QED
  BY Zenon, SMTT(40), <1>1, <1>2, <1>3, <1>4

\* Recovery, interrupted or not, does not change what a crash leaves; when it
\* is over the operations see just that.
LEMMA RecoverUnseen ==
  ASSUME IInv, Recover
  PROVE  Unseen
<1>1. CASE read_head
  <2>1. UNCHANGED <<home, logdata, head, outstanding>> /\ boot # "up" /\ boot' # "up"
    BY SMT, SMTT(40), <1>1 DEF read_head, disk
  <2> QED
    BY SMT, SMTT(40), <2>1, DiskSame DEF Unseen, Cur
<1>2. CASE recover_install
  <2>1. /\ boot = "install" /\ boot' # "up" /\ UNCHANGED <<logdata, head, outstanding>>
        /\ \/ /\ rtail <= Len(lh)
              /\ home' = [home EXCEPT ![lh[rtail]] = logdata[rtail]]
           \/ UNCHANGED home
    BY Zenon, <1>2 DEF recover_install
  <2>2. lh = head /\ boot # "up"
    BY SMT, SMTT(40), <2>1, BootState
  <2>3. AfterRecovery' = AfterRecovery
    <3>1. CASE UNCHANGED home
      BY SMT, SMTT(40), <2>1, <3>1, DiskSame
    <3>2. CASE ~ UNCHANGED home
      <4>1. home' = [home EXCEPT ![head[rtail]] = logdata[rtail]] /\ rtail <= Len(head)
        BY SMT, SMTT(40), <2>1, <2>2, <3>2
      <4>2. head \in Seq(Blocks) /\ rtail \in 1..(LOGSIZE + 1)
        BY Zenon DEF IInv, TypeOK
      <4>3. rtail \in 1..Len(head)
        BY SMT, SMTT(40), <4>1, <4>2, SizesAssumption
      <4> QED
        BY ZenonT(60), <2>1, <4>1, <4>3, InstallSame
    <3> QED
      BY SMT, SMTT(40), <3>1, <3>2
  <2> QED
    BY Zenon, <2>1, <2>2, <2>3 DEF Unseen, Cur
<1>3. CASE recover_erase
  <2>1. boot = "erase" /\ boot' = "up" /\ head' = lh
        /\ UNCHANGED <<home, logdata, cache, outstanding>>
    BY Zenon, <1>3 DEF recover_erase, logVars
  <2>2. lh = << >> /\ Installed(head, Len(head)) /\ cache = home
    BY SMT, SMTT(40), <2>1, BootState
  <2>3. AfterRecovery = home
    BY SMT, SMTT(40), <2>2, InstalledIsHome
  <2>4. home \in [Blocks -> Values]
    BY Zenon DEF IInv, TypeOK
  <2>5. AfterRecovery' = home
    BY Zenon, <2>1, <2>2, <2>4, OverEmpty, AfterRecoveryIs
  <2> QED
    BY Zenon, <2>1, <2>2, <2>3, <2>5 DEF Unseen, Cur
<1> QED
  BY SMT, SMTT(40), <1>1, <1>2, <1>3 DEF Recover

\* The step that commits makes what the operations see stable, all of it.
LEMMA WriteHeadCommits ==
  ASSUME IInv, NEW p \in Procs, write_head(p)
  PROVE  outstanding = 0 /\ AfterRecovery' = Cur /\ Cur' = Cur /\ outstanding' = outstanding
<1>1. /\ pc[p] = "write_head" /\ boot = "up" /\ head' = lh
      /\ UNCHANGED <<home, logdata, cache, boot, outstanding>>
  BY SMT, SMTT(40) DEF write_head, At, logVars, bootVars
<1>2. pc[p] \in Commits
  BY Zenon, <1>1 DEF Commits
<1>3. outstanding = 0 /\ \A b \in Blocks : b \notin dirty => cache[b] = home[b]
  BY Zenon, <1>2, Alone
<1>4. \A b \in Blocks : b \in dirty <=> \E i \in 1..Len(lh) : lh[i] = b
  BY Zenon, <1>1, <1>2, CommitSteady
<1>5. \A i \in 1..Len(lh) : cache[lh[i]] = logdata[i]
  <2>1. ProgressOf(p)
    BY DEF IInv, Progress
  <2> QED
    BY Zenon, SMTT(40), <1>1, <2>1 DEF ProgressOf, Copied
<1>6. /\ Listing(lh) /\ lh \in Seq(Blocks) /\ logdata \in [Slots -> Values]
      /\ cache \in [Blocks -> Values] /\ home \in [Blocks -> Values]
  BY Zenon DEF IInv, TypeOK
<1>7. \A b \in Blocks : b \notin Range(lh) => cache[b] = home[b]
  BY SMT, SMTT(40), <1>3, <1>4, <1>6, RangeOfList
<1>8. Over(lh, logdata, home) = cache
  BY SMT, SMTT(40), <1>5, <1>6, <1>7, OverIs
<1>9. AfterRecovery' = cache
  BY SMT, SMTT(40), <1>1, <1>8, AfterRecoveryIs
<1> QED
  BY Zenon, <1>1, <1>3, <1>9 DEF Cur

\* Crash atomicity: log.c implements a disk that a crash, at any point of an
\* operation, of commit() or of recovery itself, leaves with the effects of
\* whole operations only.
THEOREM Atomic == Spec => CrashAtomic
<1>1. Init => D!Init
  <2> SUFFICES ASSUME Init PROVE D!Init
    OBVIOUS
  <2>1. IInv
    BY Zenon, SMTT(40), InitInv
  <2>2. head = << >> /\ home = [b \in Blocks |-> 0] /\ boot # "up" /\ outstanding = 0
    BY SMT, SMTT(40) DEF Init
  <2>3. home \in [Blocks -> Values]
    BY Zenon, <2>1 DEF IInv, TypeOK
  <2>4. AfterRecovery = home
    BY Zenon, SMTT(40), <2>2, <2>3, OverEmpty, AfterRecoveryIs
  <2> QED
    BY SMT, SMTT(40), <2>2, <2>4 DEF D!Init
<1>2. IInv /\ [Next]_vars => [D!Next]_(D!vars)
  <2> SUFFICES ASSUME IInv, [Next]_vars PROVE [D!Next]_(D!vars)
    BY Zenon, SMTT(40)
  <2>0. Unseen => UNCHANGED D!vars
    BY Zenon, SMTT(40) DEF Unseen, Cur, D!vars
  <2>1. ASSUME NEW p \in Procs, Start(p) \/ log_write_check(p) \/ log_write(p) PROVE Unseen
    <3>1. UNCHANGED <<home, logdata, head, cache, boot, outstanding>>
      BY Zenon, <2>1 DEF Start, log_write_check, log_write, disk, logVars, bootVars
    <3> QED
      BY SMTT(40), <3>1, DiskSame DEF Unseen, Cur
  <2>2. ASSUME NEW p \in Procs, begin_op(p) PROVE D!Begin \/ Unseen
    <3>1. /\ UNCHANGED <<home, logdata, head, cache, boot>>
          /\ outstanding' = outstanding \/ outstanding' = outstanding + 1
      BY Zenon, SMTT(40), <2>2 DEF begin_op, disk, bootVars
    <3>2. AfterRecovery' = AfterRecovery /\ Cur' = Cur
      BY SMT, SMTT(40), <3>1, DiskSame DEF Cur
    <3> QED
      BY Zenon, SMTT(40), <3>1, <3>2 DEF Unseen, Cur, D!Begin
  <2>3. ASSUME NEW p \in Procs, end_op(p) PROVE D!End
    <3>1. /\ UNCHANGED <<home, logdata, head, cache, boot>> /\ boot = "up" /\ pc[p] = "in"
          /\ outstanding' = outstanding - 1
      BY Zenon, SMTT(40), <2>3 DEF end_op, At, disk
    <3>2. AfterRecovery' = AfterRecovery /\ Cur' = Cur
      BY Zenon, SMTT(40), <3>1, DiskSame DEF Cur
    <3>3. outstanding > 0
      BY SMT, SMTT(40), <3>1, InOperation
    <3> QED
      BY Zenon, SMTT(40), <3>1, <3>2, <3>3 DEF Cur, D!End
  <2>4. ASSUME NEW p \in Procs, NEW b \in Blocks, Modify(p, b)
        PROVE  \E v \in Values : D!Write(b, v)
    <3>1. /\ UNCHANGED <<home, logdata, head, boot, outstanding>> /\ boot = "up" /\ pc[p] = "in"
          /\ cache' = [cache EXCEPT ![b] = op[p]]
      BY ZenonT(60), <2>4 DEF Modify, At, disk, logVars, bootVars
    <3>2. AfterRecovery' = AfterRecovery
      BY ZenonT(60), <3>1, DiskSame
    <3>3. outstanding > 0
      BY SMTT(40), <3>1, InOperation
    <3>4. op[p] \in Values
      BY ZenonT(60) DEF IInv, TypeOK
    <3>5. D!Write(b, op[p])
      BY SMT, SMTT(40), <3>1, <3>2, <3>3 DEF D!Write
    <3> QED
      BY Zenon, SMTT(40), <3>4, <3>5
  <2>5. ASSUME NEW p \in Procs, write_head(p) PROVE D!Commit
    BY Zenon, SMTT(40), <2>5, WriteHeadCommits DEF Cur, D!Commit
  <2>6. ASSUME NEW p \in Procs, LogStep(p) PROVE [D!Next]_(D!vars)
    BY Zenon, SMTT(40), <2>0, <2>1, <2>2, <2>3, <2>5, <2>6, CommitUnseen DEF LogStep, D!Next
  <2>7. ASSUME Crash PROVE D!Crash
    <3>1. UNCHANGED <<home, logdata, head>> /\ boot' # "up" /\ outstanding' = 0
      BY Zenon, SMTT(40), <2>7 DEF Crash, disk
    <3> QED
      BY Zenon, SMTT(40), <3>1, DiskSame DEF D!Crash
  <2>8. ASSUME UNCHANGED vars PROVE Unseen
    <3>1. UNCHANGED <<home, logdata, head, cache, boot, outstanding>>
      BY SMT, SMTT(40), <2>8 DEF vars, disk, logVars, bootVars
    <3> QED
      BY Zenon, SMTT(40), <3>1, DiskSame DEF Unseen, Cur
  <2>9. ASSUME NEW b \in Blocks, Evict(b) PROVE Unseen
    BY SMT, SMTT(40), <2>8, <2>9, EvictSame
  <2> QED
    BY Zenon, SMTT(40), <2>0, <2>1, <2>4, <2>6, <2>7, <2>8, <2>9, RecoverUnseen DEF Next, Stopped, D!Next
<1> QED
  BY <1>1, <1>2, SpecInv, PTL DEF Spec, CrashAtomic, D!Spec
=============================================================================
