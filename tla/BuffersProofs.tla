---------------------------- MODULE BuffersProofs ----------------------------
(***************************************************************************)
(* Proofs about Buffers, for any processes, buffers and blocks, any number *)
(* of calls and any disk errors: a block has one buffer, the queue and the *)
(* disk work for the processes that wait, the holder of a block sees its   *)
(* last version, and no version is lost.                                   *)
(***************************************************************************)
EXTENDS Buffers, FiniteSetTheorems, WellFoundedInduction, SequenceTheorems, TLAPS

\* The places of a process that waits for the disk, and of one that has the
\* sleep lock of its buffer.
Waiting == {"iderw", "asleep", "woken"}
Owning == Waiting \cup {"hold", "brelse"}

\* A process has a buffer, which is some block's, outside idle.
UsersOf(p) ==
  /\ cur[p] = 0 <=> pc[p] = "idle"
  /\ cur[p] # 0 => blockno[cur[p]] # 0

Users == \A p \in Procs : UsersOf(p)

\* The holder of a sleep lock is the process that is in its section.
Owners == \A p \in Procs, b \in Bufs : owner[b] = p <=> cur[p] = b /\ pc[p] \in Owning

\* Only a valid buffer is dirty, only a buffer with a block valid.
FlagsOf(b) ==
  /\ dirty[b] = 1 => valid[b] = 1
  /\ valid[b] = 1 => blockno[b] # 0

\* A process calls iderw() and sleeps for something to do, and goes on with a
\* valid buffer.
NeedsOf(p) ==
  /\ pc[p] \in {"iderw", "asleep"} => ~done(cur[p])
  /\ pc[p] \in {"hold", "brelse"} => valid[cur[p]] = 1

Flags == (\A b \in Bufs : FlagsOf(b)) /\ (\A p \in Procs : NeedsOf(p))

\* What a buffer and the disk have of a block.  A failed read leaves its mark
\* on the data, but not on the disk.
ContentsOf(b) ==
  blockno[b] # 0 =>
    /\ dirty[b] = 0 => disk[blockno[b]] = latest[blockno[b]]
    /\ valid[b] = 1 /\ (dirty[b] = 1 \/ blockno[b] \notin failed) => data[b] = latest[blockno[b]]

Contents ==
  /\ \A b \in Bufs : ContentsOf(b)
  /\ \A k \in Blocks : (\A b \in Bufs : blockno[b] # k) => disk[k] = latest[k]

\* Every buffer is in the list.
Listed == \A b \in Bufs : \E i \in Bufs : lru[i] = b

\* The buffers that the log keeps: dirty, and nobody is writing them.
Pinned == {b \in Bufs : dirty[b] = 1 /\ ~ \E p \in Procs : cur[p] = b /\ pc[p] \in Waiting}

\* The log pins no more than it may.
Pins == Cardinality(Pinned) <= MaxPins

\* A process whose request is in the queue.
InQueue(p) == pc[p] \in {"asleep", "woken"} /\ ~done(cur[p])

\* Nothing panics but bget().
Panics == {"none", "bget: no buffers"}

\* The types, and those of what TypeOK says nothing of.
Types ==
  /\ TypeOK
  /\ writes \in 0..MaxWrites /\ latest \in [Blocks -> 0..MaxWrites] /\ panicked \in Panics

\* The inductive invariant.
IInv ==
  /\ Types /\ Users /\ Owners /\ Flags /\ Contents /\ Listed
  /\ OneBufferPerBlock /\ QueueExact /\ Pins

-----------------------------------------------------------------------------
(***************************************************************************)
(* What the steps have in common.                                          *)
(***************************************************************************)

\* The buffers are finitely many, and 0 is none of them.
LEMMA BufTypes ==
  /\ 0 \notin Bufs /\ Bufs \subseteq Nat /\ Bufs \subseteq 0..NBUF /\ IsFiniteSet(Bufs)
  /\ 0 \notin Blocks /\ Blocks \subseteq 0..NBLOCKS /\ 0 \in 0..NBUF /\ 0 \in 0..NBLOCKS
<1>1. IsFiniteSet(1..NBUF)
  BY SizesAssumption, FS_Interval
<1>. QED BY <1>1, SizesAssumption DEF Bufs, Blocks

\* A process in bio.c has a buffer, which is a block's; and a buffer is held by
\* one process only.
LEMMA CurTypes ==
  ASSUME IInv, NEW p \in Procs
  PROVE  /\ pc[p] # "idle" => cur[p] \in Bufs /\ blockno[cur[p]] \in Blocks
         /\ pc[p] = "idle" => cur[p] = 0
         /\ \A q \in Procs : pc[p] \in Owning /\ pc[q] \in Owning /\ cur[p] = cur[q] => p = q
<1>. USE DEF IInv
<1>1. cur[p] \in 0..NBUF /\ blockno \in [Bufs -> 0..NBLOCKS]
  BY Zenon DEF Types, TypeOK
<1>2. pc[p] # "idle" => cur[p] # 0 /\ blockno[cur[p]] # 0
  BY Zenon DEF Users, UsersOf
<1>3. pc[p] # "idle" => cur[p] \in Bufs
  BY <1>1, <1>2, SizesAssumption DEF Bufs
<1>4. pc[p] # "idle" => blockno[cur[p]] \in Blocks
  BY SMT, SMTT(40), <1>1, <1>2, <1>3, SizesAssumption DEF Blocks
<1>5. pc[p] = "idle" => cur[p] = 0
  BY Zenon DEF Users, UsersOf
<1>6. ASSUME NEW q \in Procs, pc[p] \in Owning, pc[q] \in Owning, cur[p] = cur[q]
      PROVE  p = q
  <2>1. cur[p] \in Bufs
    BY <1>3, <1>6 DEF Owning, Waiting
  <2>2. owner[cur[p]] = p /\ owner[cur[p]] = q
    BY <1>6, <2>1, Zenon DEF Owners
  <2>. QED BY <2>2, Zenon
<1>. QED BY <1>3, <1>4, <1>5, <1>6, Zenon

\* The queue is as it was if the requests in it are.
LEMMA QueueFrame ==
  ASSUME QueueExact, idequeue \in Seq(Bufs), UNCHANGED <<idequeue, hw>>,
         \A q \in Procs : InQueue(q)' <=> InQueue(q),
         \A q \in Procs : InQueue(q) =>
           /\ cur'[q] = cur[q] /\ dirty'[cur[q]] = dirty[cur[q]]
           /\ blockno'[cur[q]] = blockno[cur[q]] /\ data'[cur[q]] = data[cur[q]]
  PROVE  QueueExact'
<1>1. Range(idequeue) = {cur[q] : q \in {r \in Procs : InQueue(r)}}
  BY Zenon DEF QueueExact, InQueue
<1>2. {cur[q] : q \in {r \in Procs : InQueue(r)}} = {cur'[q] : q \in {r \in Procs : InQueue(r)'}}
  OBVIOUS
<1>3. Range(idequeue)' = {cur'[q] : q \in {r \in Procs : InQueue(r)'}}
  BY <1>1, <1>2, Zenon DEF Range
<1>4. idequeue # << >> => idestart(Head(idequeue))' = idestart(Head(idequeue))
  <2>1. SUFFICES ASSUME idequeue # << >>
                 PROVE  idestart(Head(idequeue))' = idestart(Head(idequeue))
    BY Zenon
  <2>2. Head(idequeue) = idequeue[1] /\ 1 \in DOMAIN idequeue
    BY <2>1
  <2>3. PICK q \in Procs : InQueue(q) /\ Head(idequeue) = cur[q]
    <3>1. idequeue[1] \in Range(idequeue)
      BY <2>2, Zenon DEF Range
    <3>. QED BY <1>1, <2>2, <3>1
  <2>4. Head(idequeue)' = cur[q]
    BY <2>3, Zenon
  <2>. QED BY <2>3, <2>4, Zenon DEF idestart
<1>5. hw' = IF idequeue' = << >> THEN NoCmd ELSE idestart(Head(idequeue))'
  BY <1>4, Zenon DEF QueueExact
<1>6. IsInjective(idequeue)'
  BY Zenon DEF QueueExact, IsInjective
<1>. QED BY <1>3, <1>5, <1>6, Zenon DEF QueueExact, InQueue

\* No step but that of log_write() pins another buffer.
LEMMA PinsFrame ==
  ASSUME Pins, Pinned' \subseteq Pinned
  PROVE  Pins'
<1>1. IsFiniteSet(Pinned)
  BY SMT, SMTT(40), BufTypes, FS_Subset DEF Pinned
<1>2. IsFiniteSet(Pinned') /\ Cardinality(Pinned') <= Cardinality(Pinned)
  BY <1>1, FS_Subset
<1>3. Cardinality(Pinned) \in Nat /\ Cardinality(Pinned') \in Nat
  BY SMT, SMTT(40), <1>1, <1>2, FS_CardinalityType
<1>. QED BY SMT, SMTT(40), <1>2, <1>3, SizesAssumption DEF Pins

\* The places of a process.
Places == {"idle", "lock", "iderw", "asleep", "woken", "hold", "brelse", "refcnt"}

\* A step of one process within bio.c or ide.c that leaves the buffers and the disk
\* alone, but may take or release the sleep lock of its buffer.
LEMMA StepInv ==
  ASSUME IInv, NEW p \in Procs, NEW l \in Places, pc[p] # "idle", l # "idle",
         pc' = [pc EXCEPT ![p] = l],
         UNCHANGED <<lru, blockno, valid, dirty, refcnt, data, ideVars, cur, ghosts>>,
         owner' \in [Bufs -> Procs \cup {Nobody}],
         \A q \in Procs \ {p}, b \in Bufs : owner'[b] = q <=> owner[b] = q,
         \A b \in Bufs : owner'[b] = p <=> cur[p] = b /\ l \in Owning,
         NeedsOf(p)', InQueue(p)' <=> InQueue(p),
         pc[p] \in Waiting => l \in Waiting \/ dirty[cur[p]] = 0
  PROVE  IInv'
<1>. USE DEF IInv
<1>1. pc'[p] = l /\ \A q \in Procs \ {p} : pc'[q] = pc[q]
  BY ZenonT(60) DEF Types, TypeOK
<1>2. Types'
  <2>1. pc' \in [Procs -> Places]
    BY Zenon DEF Types, TypeOK, Places
  <2>. QED BY <2>1, Zenon DEF Types, TypeOK, Places, ideVars, ghosts
<1>3. Users'
  BY <1>1, Zenon DEF Users, UsersOf
<1>4. Owners'
  <2>1. ASSUME NEW q \in Procs, NEW b \in Bufs
        PROVE  owner'[b] = q <=> cur'[q] = b /\ pc'[q] \in Owning
    <3>1. CASE q = p
      BY ZenonT(60), <1>1, <3>1
    <3>2. CASE q # p
      <4>1. (owner'[b] = q <=> owner[b] = q) /\ pc'[q] = pc[q] /\ cur' = cur
        BY <1>1, <3>2, Zenon
      <4>2. owner[b] = q <=> cur[q] = b /\ pc[q] \in Owning
        BY Zenon DEF Owners
      <4>. QED BY <4>1, <4>2
    <3>. QED BY <3>1, <3>2, Zenon
  <2>. QED BY <2>1, Zenon DEF Owners
<1>5. Flags'
  <2>1. ASSUME NEW b \in Bufs PROVE FlagsOf(b)'
    BY Zenon DEF Flags, FlagsOf
  <2>2. ASSUME NEW q \in Procs PROVE NeedsOf(q)'
    <3>1. CASE q = p
      BY <3>1, Zenon
    <3>2. CASE q # p
      BY <1>1, <3>2, Zenon DEF Flags, NeedsOf, done
    <3>. QED BY <3>1, <3>2, Zenon
  <2>. QED BY <2>1, <2>2, Zenon DEF Flags
<1>6. Contents' /\ Listed'
  BY Zenon DEF Contents, ContentsOf, Listed, ideVars, ghosts
<1>7. OneBufferPerBlock'
  BY Zenon DEF OneBufferPerBlock
<1>8. QueueExact'
  <2>1. \A q \in Procs : InQueue(q)' <=> InQueue(q)
    BY <1>1, Zenon DEF InQueue, done
  <2>2. idequeue \in Seq(Bufs) /\ UNCHANGED <<idequeue, hw>>
    BY Zenon DEF Types, TypeOK, ideVars
  <2>. QED BY <2>1, <2>2, QueueFrame, Zenon
<1>9. Pins'
  <2>1. ASSUME NEW b \in Bufs, b \in Pinned' PROVE b \in Pinned
    <3>1. dirty[b] = 1 /\ ~ \E q \in Procs : cur[q] = b /\ pc'[q] \in Waiting
      BY <2>1, Zenon DEF Pinned
    <3>2. dirty[b] # 0
      BY <3>1
    <3>3. \A q \in Procs : ~(cur[q] = b /\ pc[q] \in Waiting)
      BY ZenonT(60), <1>1, <3>1, <3>2
    <3>. QED BY <3>1, <3>3, Zenon DEF Pinned
  <2>. QED BY <2>1, PinsFrame, Zenon DEF Pinned
<1>. QED BY <1>2, <1>3, <1>4, <1>5, <1>6, <1>7, <1>8, <1>9, Zenon

\* A process that keeps its sleep lock.
LEMMA HolderStays ==
  ASSUME IInv, NEW p \in Procs, UNCHANGED owner, pc[p] \in Owning
  PROVE  /\ owner' \in [Bufs -> Procs \cup {Nobody}]
         /\ \A q \in Procs \ {p}, b \in Bufs : owner'[b] = q <=> owner[b] = q
         /\ \A b \in Bufs : owner'[b] = p <=> cur[p] = b
BY Zenon DEF IInv, Types, TypeOK, Owners

\* A step of a process that keeps its sleep lock.
LEMMA StayInv ==
  ASSUME IInv, NEW p \in Procs, NEW l \in Owning, pc[p] \in Owning, pc' = [pc EXCEPT ![p] = l],
         UNCHANGED <<bufVars, ideVars, cur, ghosts>>,
         NeedsOf(p)', InQueue(p)' <=> InQueue(p),
         pc[p] \in Waiting => l \in Waiting \/ dirty[cur[p]] = 0
  PROVE  IInv'
<1>1. l \in Places /\ l # "idle" /\ pc[p] # "idle"
  BY DEF Owning, Waiting, Places
<1>2. UNCHANGED owner /\ UNCHANGED <<lru, blockno, valid, dirty, refcnt, data, ideVars, cur, ghosts>>
  BY Zenon DEF bufVars
<1>3. /\ owner' \in [Bufs -> Procs \cup {Nobody}]
      /\ \A q \in Procs \ {p}, b \in Bufs : owner'[b] = q <=> owner[b] = q
      /\ \A b \in Bufs : owner'[b] = p <=> cur[p] = b /\ l \in Owning
  <2>1. /\ owner' \in [Bufs -> Procs \cup {Nobody}]
        /\ \A q \in Procs \ {p}, b \in Bufs : owner'[b] = q <=> owner[b] = q
        /\ \A b \in Bufs : owner'[b] = p <=> cur[p] = b
    BY <1>2, HolderStays, Zenon
  <2>. QED BY <2>1
<1>. QED BY <1>1, <1>2, <1>3, StepInv, Zenon

\* kill() wakes a process that waits for the disk.
LEMMA KillInv ==
  ASSUME IInv, NEW p \in Procs, kill(p)
  PROVE  IInv'
<1>. USE DEF IInv
<1>1. pc[p] = "asleep" /\ pc' = [pc EXCEPT ![p] = "woken"] /\ UNCHANGED <<bufVars, ideVars, cur, ghosts>>
  BY Zenon DEF kill, Goto
<1>2. pc'[p] = "woken"
  BY <1>1, Zenon DEF Types, TypeOK
<1>3. NeedsOf(p)'
  BY <1>2 DEF NeedsOf
<1>4. InQueue(p)' <=> InQueue(p)
  BY SMT, SMTT(40), <1>1, <1>2 DEF InQueue, done, bufVars
<1>5. pc[p] \in Owning /\ "woken" \in Owning /\ (pc[p] \in Waiting => "woken" \in Waiting)
  BY <1>1 DEF Owning, Waiting
<1>. QED BY <1>1, <1>3, <1>4, <1>5, StayInv, Zenon

\* install_trans() writes a block that is in the log.
LEMMA WritePinnedInv ==
  ASSUME IInv, NEW p \in Procs, WritePinned(p)
  PROVE  IInv'
<1>. USE DEF IInv
<1>1. /\ pc[p] = "hold" /\ dirty[cur[p]] = 1 /\ pc' = [pc EXCEPT ![p] = "iderw"]
      /\ UNCHANGED <<bufVars, ideVars, cur, ghosts>>
  BY Zenon DEF WritePinned, Goto
<1>2. pc'[p] = "iderw"
  BY <1>1, Zenon DEF Types, TypeOK
<1>3. NeedsOf(p)'
  BY SMT, SMTT(40), <1>1, <1>2 DEF NeedsOf, done, bufVars
<1>4. InQueue(p)' <=> InQueue(p)
  BY SMT, SMTT(40), <1>1, <1>2 DEF InQueue
<1>5. pc[p] \in Owning /\ "iderw" \in Owning /\ (pc[p] \in Waiting => "iderw" \in Waiting)
  BY <1>1 DEF Owning, Waiting
<1>. QED BY <1>1, <1>3, <1>4, <1>5, StayInv, Zenon

\* sleep() returns in iderw().
LEMMA IderwWokenInv ==
  ASSUME IInv, NEW p \in Procs, iderw_woken(p)
  PROVE  IInv'
<1>. USE DEF IInv
<1>1. /\ pc[p] = "woken" /\ pc' = [pc EXCEPT ![p] = IF done(cur[p]) THEN "hold" ELSE "asleep"]
      /\ UNCHANGED <<bufVars, ideVars, cur, ghosts>>
  BY Zenon DEF iderw_woken, Goto
<1>2. CASE done(cur[p])
  <2>1. pc' = [pc EXCEPT ![p] = "hold"]
    BY <1>1, <1>2, Zenon
  <2>2. pc'[p] = "hold"
    BY <2>1, Zenon DEF Types, TypeOK
  <2>3. NeedsOf(p)'
    BY SMT, SMTT(40), <1>1, <1>2, <2>2 DEF NeedsOf, done, bufVars
  <2>4. InQueue(p)' <=> InQueue(p)
    BY SMT, SMTT(40), <1>2, <2>2 DEF InQueue
  <2>5. pc[p] \in Owning /\ "hold" \in Owning /\ dirty[cur[p]] = 0
    BY SMT, SMTT(40), <1>1, <1>2 DEF Owning, Waiting, done
  <2>. QED BY <1>1, <2>1, <2>3, <2>4, <2>5, StayInv, Zenon
<1>3. CASE ~done(cur[p])
  <2>1. pc' = [pc EXCEPT ![p] = "asleep"]
    BY <1>1, <1>3, Zenon
  <2>2. pc'[p] = "asleep"
    BY <2>1, Zenon DEF Types, TypeOK
  <2>3. NeedsOf(p)'
    BY SMT, SMTT(40), <1>1, <1>3, <2>2 DEF NeedsOf, done, bufVars
  <2>4. InQueue(p)' <=> InQueue(p)
    BY SMT, SMTT(40), <1>1, <1>3, <2>2 DEF InQueue, done, bufVars
  <2>5. pc[p] \in Owning /\ "asleep" \in Owning /\ "asleep" \in Waiting
    BY <1>1 DEF Owning, Waiting
  <2>. QED BY <1>1, <2>1, <2>3, <2>4, <2>5, StayInv, Zenon
<1>. QED BY <1>2, <1>3, Zenon

\* bread() has the sleep lock, and goes to the disk for a buffer that is not valid.
LEMMA BreadInv ==
  ASSUME IInv, NEW p \in Procs, bread(p)
  PROVE  IInv'
<1>. USE DEF IInv
<1>1. PICK b \in Bufs : cur[p] = b
  BY CurTypes DEF bread
<1>2. /\ pc[p] = "lock" /\ owner[b] = Nobody /\ owner' = [owner EXCEPT ![b] = p]
      /\ pc' = [pc EXCEPT ![p] = bread_test(b)]
      /\ UNCHANGED <<lru, blockno, valid, dirty, refcnt, data, ideVars, cur, ghosts>>
  BY <1>1, Zenon DEF bread, Goto
<1>3. bread_test(b) \in {"hold", "iderw"} /\ pc'[p] = bread_test(b)
  BY <1>2 DEF Types, TypeOK, bread_test
<1>4. NeedsOf(p)'
  <2>1. CASE valid[b] = 1
    BY SMT, SMTT(40), <1>1, <1>2, <1>3, <2>1 DEF bread_test, NeedsOf
  <2>2. CASE valid[b] # 1
    BY SMT, SMTT(40), <1>1, <1>2, <1>3, <2>2 DEF bread_test, NeedsOf, done
  <2>. QED BY <2>1, <2>2, Zenon
<1>5. InQueue(p)' <=> InQueue(p)
  BY <1>2, <1>3 DEF InQueue
<1>6. owner' \in [Bufs -> Procs \cup {Nobody}] /\ owner'[b] = p /\ \A c \in Bufs \ {b} : owner'[c] = owner[c]
  BY <1>2, Zenon DEF Types, TypeOK
<1>7. \A q \in Procs \ {p}, c \in Bufs : owner'[c] = q <=> owner[c] = q
  BY <1>2, <1>6, ProcsAssumption, Zenon
<1>8. \A c \in Bufs : owner'[c] = p <=> cur[p] = c /\ bread_test(b) \in Owning
  <2>1. \A c \in Bufs \ {b} : owner[c] # p
    BY <1>1, Zenon DEF Owners
  <2>2. bread_test(b) \in Owning
    BY <1>3 DEF Owning, Waiting
  <2>. QED BY <1>1, <1>6, <2>1, <2>2, Zenon
<1>9. bread_test(b) \in Places /\ bread_test(b) # "idle" /\ pc[p] # "idle" /\ pc[p] \notin Waiting
  BY SMT, SMTT(40), <1>2, <1>3 DEF Places, Waiting
<1>. QED BY <1>2, <1>4, <1>5, <1>6, <1>7, <1>8, <1>9, StepInv, Zenon

\* brelse() gives up the sleep lock.
LEMMA BrelseInv ==
  ASSUME IInv, NEW p \in Procs, brelse(p)
  PROVE  IInv'
<1>. USE DEF IInv
<1>1. PICK b \in Bufs : cur[p] = b
  BY CurTypes DEF brelse
<1>2. /\ pc[p] \in {"hold", "brelse"} /\ owner' = [owner EXCEPT ![b] = Nobody]
      /\ pc' = [pc EXCEPT ![p] = "refcnt"]
      /\ UNCHANGED <<lru, blockno, valid, dirty, refcnt, data, ideVars, cur, ghosts>>
  BY <1>1, Zenon DEF brelse, Goto
<1>3. pc'[p] = "refcnt" /\ owner[b] = p
  <2>1. pc[p] \in Owning
    BY <1>2 DEF Owning
  <2>. QED BY ZenonT(60), <1>1, <1>2, <2>1 DEF Types, TypeOK, Owners
<1>4. NeedsOf(p)' /\ (InQueue(p)' <=> InQueue(p))
  BY <1>2, <1>3 DEF NeedsOf, InQueue
<1>5. owner' \in [Bufs -> Procs \cup {Nobody}] /\ owner'[b] = Nobody /\ \A c \in Bufs \ {b} : owner'[c] = owner[c]
  BY <1>2, Zenon DEF Types, TypeOK
<1>6. \A q \in Procs \ {p}, c \in Bufs : owner'[c] = q <=> owner[c] = q
  BY <1>3, <1>5, ProcsAssumption, Zenon
<1>7. \A c \in Bufs : owner'[c] = p <=> cur[p] = c /\ "refcnt" \in Owning
  <2>1. \A c \in Bufs \ {b} : owner[c] # p
    BY <1>1, Zenon DEF Owners
  <2>2. "refcnt" \notin Owning
    BY DEF Owning, Waiting
  <2>. QED BY <1>5, <2>1, <2>2, ProcsAssumption, Zenon
<1>8. "refcnt" \in Places /\ "refcnt" # "idle" /\ pc[p] # "idle" /\ pc[p] \notin Waiting
  BY <1>2 DEF Places, Waiting
<1>. QED BY <1>2, <1>4, <1>5, <1>6, <1>7, <1>8, StepInv, Zenon

-----------------------------------------------------------------------------
(***************************************************************************)
(* bget() and the end of brelse().                                         *)
(***************************************************************************)

\* A step that leaves buffers, requests and processes alone.
LEMMA NothingInv ==
  ASSUME IInv, UNCHANGED <<bufVars, ideVars, pc, cur, latest, failed, writes>>, panicked' \in Panics
  PROVE  IInv'
<1>. USE DEF IInv, bufVars, ideVars
<1>1. Types'
  BY Zenon DEF Types, TypeOK
<1>2. Users' /\ Owners' /\ Listed' /\ OneBufferPerBlock'
  <2>1. Users' /\ Owners'
    BY Zenon DEF Users, UsersOf, Owners
  <2>. QED BY <2>1, Zenon DEF Listed, OneBufferPerBlock
<1>3. Flags' /\ Contents'
  BY Zenon DEF Flags, FlagsOf, NeedsOf, done, Contents, ContentsOf
<1>4. QueueExact'
  BY QueueFrame, Zenon DEF Types, TypeOK, InQueue, done
<1>5. Pins'
  BY PinsFrame, Zenon DEF Pinned
<1>. QED BY <1>1, <1>2, <1>3, <1>4, <1>5, Zenon

\* A process begins or ceases to use the buffer n; a buffer that nobody uses may get
\* another block.
LEMMA UseInv ==
  ASSUME IInv, NEW p \in Procs, NEW l \in {"idle", "lock"}, NEW n \in 0..NBUF,
         pc[p] \notin Owning, pc' = [pc EXCEPT ![p] = l], cur' = [cur EXCEPT ![p] = n],
         n = 0 <=> l = "idle", n # 0 => blockno'[n] # 0,
         UNCHANGED <<dirty, data, owner, ideVars, latest, failed, writes, panicked>>,
         \A q \in Procs \ {p} : cur[q] # 0 =>
           blockno'[cur[q]] = blockno[cur[q]] /\ valid'[cur[q]] = valid[cur[q]],
         lru' \in [Bufs -> Bufs], blockno' \in [Bufs -> 0..NBLOCKS],
         valid' \in [Bufs -> {0, 1}], refcnt' \in [Bufs -> Nat],
         Listed', OneBufferPerBlock', Contents', \A b \in Bufs : FlagsOf(b)'
  PROVE  IInv'
<1>. USE DEF IInv
<1>0. l \in Places /\ l \notin Owning /\ l \notin Waiting /\ l \notin {"asleep", "woken", "hold", "brelse", "iderw"}
  BY DEF Places, Owning, Waiting
<1>1. /\ pc'[p] = l /\ \A q \in Procs \ {p} : pc'[q] = pc[q]
      /\ cur'[p] = n /\ \A q \in Procs \ {p} : cur'[q] = cur[q]
  BY Zenon DEF Types, TypeOK
<1>2. Types'
  <2>1. pc' \in [Procs -> Places] /\ cur' \in [Procs -> 0..NBUF]
    BY <1>0, Zenon DEF Types, TypeOK, Places
  <2>. QED BY <2>1, Zenon DEF Types, TypeOK, Places, ideVars
<1>3. Users'
  <2>1. ASSUME NEW q \in Procs PROVE UsersOf(q)'
    <3>1. CASE q = p
      BY SMT, SMTT(40), <1>1, <3>1 DEF UsersOf
    <3>2. CASE q # p
      <4>1. UsersOf(q) /\ cur'[q] = cur[q] /\ pc'[q] = pc[q]
        BY <1>1, <3>2, Zenon DEF Users
      <4>2. cur[q] # 0 => blockno'[cur[q]] = blockno[cur[q]]
        BY <3>2, Zenon
      <4>. QED BY SMT, SMTT(40), <4>1, <4>2 DEF UsersOf
    <3>. QED BY <3>1, <3>2, Zenon
  <2>. QED BY <2>1, Zenon DEF Users
<1>4. Owners'
  <2>1. ASSUME NEW q \in Procs, NEW b \in Bufs
        PROVE  owner'[b] = q <=> cur'[q] = b /\ pc'[q] \in Owning
    <3>1. owner[b] = q <=> cur[q] = b /\ pc[q] \in Owning
      BY Zenon DEF Owners
    <3>2. CASE q = p
      BY <1>0, <1>1, <3>1, <3>2, Zenon
    <3>3. CASE q # p
      BY <1>1, <3>1, <3>3
    <3>. QED BY <3>2, <3>3, Zenon
  <2>. QED BY <2>1, Zenon DEF Owners
<1>5. ASSUME NEW q \in Procs \ {p}, pc[q] # "idle"
      PROVE  /\ cur[q] # 0 /\ cur'[q] = cur[q] /\ valid'[cur'[q]] = valid[cur[q]]
             /\ blockno'[cur[q]] = blockno[cur[q]] /\ dirty'[cur'[q]] = dirty[cur[q]]
  BY <1>1, <1>5, Zenon DEF Users, UsersOf
<1>6. \A q \in Procs \ {p} : pc[q] # "idle" => (done(cur[q])' <=> done(cur[q]))
  BY <1>5, Zenon DEF done
<1>7. Flags'
  <2>1. ASSUME NEW q \in Procs PROVE NeedsOf(q)'
    <3>1. CASE q = p
      BY <1>0, <1>1, <3>1, Zenon DEF NeedsOf
    <3>2. CASE q # p /\ pc[q] # "idle"
      <4>1. NeedsOf(q) /\ valid'[cur'[q]] = valid[cur[q]] /\ pc'[q] = pc[q]
        BY <1>1, <1>5, <3>2, Zenon DEF Flags
      <4>2. done(cur[q])' <=> done(cur[q])
        BY <1>6, <3>2, Zenon
      <4>. QED BY SMT, SMTT(40), <4>1, <4>2 DEF NeedsOf
    <3>3. CASE q # p /\ pc[q] = "idle"
      BY SMT, SMTT(40), <1>1, <3>3 DEF NeedsOf
    <3>. QED BY <3>1, <3>2, <3>3, Zenon
  <2>. QED BY <2>1, Zenon DEF Flags
<1>8. QueueExact'
  <2>1. ~InQueue(p) /\ ~InQueue(p)'
    BY SMT, SMTT(40), <1>0, <1>1 DEF InQueue, Owning, Waiting
  <2>2. \A q \in Procs \ {p} : InQueue(q)' <=> InQueue(q)
    <3>1. \A q \in Procs \ {p} : pc[q] \in {"asleep", "woken"} => pc[q] # "idle"
      OBVIOUS
    <3>2. ASSUME NEW q \in Procs \ {p} PROVE InQueue(q)' <=> InQueue(q)
      <4>1. CASE pc[q] \in {"asleep", "woken"}
        BY <1>1, <1>6, <3>1, <4>1, Zenon DEF InQueue
      <4>2. CASE pc[q] \notin {"asleep", "woken"}
        BY <1>1, <4>2, Zenon DEF InQueue
      <4>. QED BY <4>1, <4>2, Zenon
    <3>. QED BY <3>2, Zenon
  <2>3. \A q \in Procs : InQueue(q)' <=> InQueue(q)
    BY <2>1, <2>2, Zenon
  <2>4. \A q \in Procs : InQueue(q) =>
           /\ cur'[q] = cur[q] /\ dirty'[cur[q]] = dirty[cur[q]]
           /\ blockno'[cur[q]] = blockno[cur[q]] /\ data'[cur[q]] = data[cur[q]]
    <3>1. \A q \in Procs : InQueue(q) => q # p /\ pc[q] # "idle"
      BY <2>1 DEF InQueue
    <3>. QED BY <1>1, <1>5, <3>1, Zenon
  <2>5. idequeue \in Seq(Bufs) /\ UNCHANGED <<idequeue, hw>>
    BY Zenon DEF Types, TypeOK, ideVars
  <2>. QED BY <2>3, <2>4, <2>5, QueueFrame, Zenon
<1>9. Pins'
  <2>1. ASSUME NEW b \in Bufs, b \in Pinned' PROVE b \in Pinned
    <3>1. dirty[b] = 1 /\ \A q \in Procs : ~(cur'[q] = b /\ pc'[q] \in Waiting)
      BY <2>1, Zenon DEF Pinned
    <3>2. pc[p] \notin Waiting
      BY Zenon DEF Owning
    <3>3. \A q \in Procs : ~(cur[q] = b /\ pc[q] \in Waiting)
      BY <1>1, <3>1, <3>2, Zenon
    <3>. QED BY <3>1, <3>3, Zenon DEF Pinned
  <2>. QED BY <2>1, PinsFrame, Zenon DEF Pinned
<1>. QED BY <1>2, <1>3, <1>4, <1>7, <1>8, <1>9, Zenon

\* How many processes use the buffer b.
Count(b) == Cardinality({q \in Procs : cur[q] = b})

\* It changes by one when a process begins or ceases to use b.
LEMMA CountUsers ==
  ASSUME NEW p \in Procs, NEW n \in 0..NBUF, cur \in [Procs -> 0..NBUF],
         cur' = [cur EXCEPT ![p] = n], cur[p] # n
  PROVE  \A b \in 0..NBUF :
           /\ Count(b) \in Nat /\ Count(b)' \in Nat
           /\ b = n => Count(b)' = Count(b) + 1
           /\ b = cur[p] => Count(b)' = Count(b) - 1
           /\ b \notin {n, cur[p]} => Count(b)' = Count(b)
<1>1. SUFFICES ASSUME NEW b \in 0..NBUF
               PROVE  /\ Count(b) \in Nat /\ Count(b)' \in Nat
                      /\ b = n => Count(b)' = Count(b) + 1
                      /\ b = cur[p] => Count(b)' = Count(b) - 1
                      /\ b \notin {n, cur[p]} => Count(b)' = Count(b)
  BY Zenon
<1>. DEFINE new == {q \in Procs : cur'[q] = b}
            old == {q \in Procs : cur[q] = b}
<1>2. IsFiniteSet(new) /\ IsFiniteSet(old)
  BY SMT, SMTT(40), ProcsAssumption, FS_Subset
<1>3. Cardinality(new) \in Nat /\ Cardinality(old) \in Nat
  BY SMT, SMTT(40), <1>2, FS_CardinalityType
<1>4. CASE b = n
  <2>1. new = old \cup {p} /\ p \notin old
    BY SMT, SMTT(40), <1>4
  <2>. HIDE DEF new, old
  <2>2. Cardinality(new) = Cardinality(old) + 1
    BY SMT, SMTT(40), <1>2, <2>1, FS_AddElement
  <2>. QED BY SMT, SMTT(40), <1>3, <1>4, <2>2 DEF new, old, Count
<1>5. CASE b = cur[p]
  <2>1. new = old \ {p} /\ p \in old
    BY SMT, SMTT(40), <1>5
  <2>. HIDE DEF new, old
  <2>2. Cardinality(new) = Cardinality(old) - 1
    BY SMT, SMTT(40), <1>2, <2>1, FS_RemoveElement
  <2>. QED BY SMT, SMTT(40), <1>3, <1>5, <2>2 DEF new, old, Count
<1>6. CASE b \notin {n, cur[p]}
  <2>1. new = old
    BY <1>6
  <2>. QED BY SMT, SMTT(40), <1>3, <1>6, <2>1 DEF Count
<1>. QED BY <1>4, <1>5, <1>6, Zenon

\* A buffer that is moved to the front leaves every other one in the list.
LEMMA MoveToFront ==
  ASSUME lru \in [Bufs -> Bufs], Listed, NEW b \in Bufs, lru' = move_to_front(b)
  PROVE  lru' \in [Bufs -> Bufs] /\ Listed'
<1>1. PICK n \in Bufs : /\ lru[n] = b
                        /\ lru' = [i \in Bufs |-> IF i = 1 THEN b ELSE IF i <= n THEN lru[i - 1] ELSE lru[i]]
  <2>1. \E i \in Bufs : lru[i] = b
    BY Zenon DEF Listed
  <2>. QED BY <2>1 DEF move_to_front
<1>2. \A i \in Bufs : i # 1 => i - 1 \in Bufs
  BY SMT, SMTT(40), SizesAssumption DEF Bufs
<1>3. lru' \in [Bufs -> Bufs]
  BY SMT, SMTT(40), <1>1, <1>2
<1>4. ASSUME NEW c \in Bufs PROVE \E i \in Bufs : lru'[i] = c
  <2>1. CASE c = b
    <3>1. 1 \in Bufs
      BY SMT, SMTT(40), SizesAssumption DEF Bufs
    <3>. QED BY SMT, SMTT(40), <1>1, <2>1, <3>1
  <2>2. CASE c # b
    <3>1. PICK j \in Bufs : lru[j] = c
      BY Zenon DEF Listed
    <3>2. CASE j < n
      <4>1. j + 1 \in Bufs /\ j + 1 # 1 /\ j + 1 <= n /\ (j + 1) - 1 = j
        BY SMT, SMTT(40), <3>2, SizesAssumption DEF Bufs
      <4>2. lru'[j + 1] = c
        BY SMT, SMTT(40), <1>1, <3>1, <4>1
      <4>. QED BY <4>1, <4>2, Zenon
    <3>3. CASE ~(j < n)
      <4>1. j # n
        BY SMT, SMTT(40), <1>1, <2>2, <3>1
      <4>2. j # 1 /\ ~(j <= n)
        BY SMT, SMTT(40), <3>3, <4>1, SizesAssumption DEF Bufs
      <4>3. lru'[j] = c
        BY <1>1, <3>1, <4>2, Zenon
      <4>. QED BY <4>3, Zenon
    <3>. QED BY <3>2, <3>3, Zenon
  <2>. QED BY <2>1, <2>2, Zenon
<1>. QED BY <1>3, <1>4, Zenon DEF Listed

\* brelse() gives up its reference; the last user moves the buffer to the front.
LEMMA BrelseRefcntInv ==
  ASSUME IInv, NEW p \in Procs, brelse_refcnt(p)
  PROVE  IInv'
<1>. USE DEF IInv
<1>1. PICK b \in Bufs : cur[p] = b
  BY SMT, SMTT(40), CurTypes DEF brelse_refcnt
<1>2. /\ pc[p] = "refcnt" /\ refcnt' = [refcnt EXCEPT ![b] = refcnt[b] - 1]
      /\ lru' = IF refcnt[b] = 1 THEN move_to_front(b) ELSE lru
      /\ cur' = [cur EXCEPT ![p] = 0] /\ pc' = [pc EXCEPT ![p] = "idle"]
      /\ UNCHANGED <<blockno, valid, dirty, data, owner, ideVars, ghosts>>
  BY <1>1 DEF brelse_refcnt, Goto, refcnt_down
<1>3. /\ cur \in [Procs -> 0..NBUF] /\ lru \in [Bufs -> Bufs] /\ refcnt \in [Bufs -> Nat]
      /\ blockno \in [Bufs -> 0..NBLOCKS] /\ valid \in [Bufs -> {0, 1}]
  BY Zenon DEF Types, TypeOK
<1>4. lru' \in [Bufs -> Bufs] /\ Listed'
  <2>1. CASE refcnt[b] = 1
    BY <1>2, <1>3, <2>1, MoveToFront, Zenon
  <2>2. CASE refcnt[b] # 1
    BY <1>2, <1>3, <2>2, Zenon DEF Listed
  <2>. QED BY <2>1, <2>2, Zenon
<1>5. b # 0 /\ b \in 0..NBUF /\ 0 \in 0..NBUF /\ Bufs \subseteq 0..NBUF /\ 0 \notin Bufs
  BY BufTypes, Zenon
<1>6. \A c \in Bufs : refcnt[c] = Count(c)
  BY Zenon DEF OneBufferPerBlock, Count
<1>7. ASSUME NEW c \in Bufs
      PROVE  refcnt'[c] \in Nat /\ refcnt'[c] = Count(c)'
  <2>1. /\ c = b => Count(c)' = Count(c) - 1
        /\ c # b => Count(c)' = Count(c)
        /\ Count(c)' \in Nat
    BY ZenonT(60), <1>1, <1>2, <1>3, <1>5, CountUsers
  <2>. QED BY SMT, SMTT(40), <1>2, <1>3, <1>6, <2>1
<1>8. refcnt' \in [Bufs -> Nat]
  <2>1. refcnt[b] - 1 \in Nat
    BY <1>2, <1>3, <1>7
  <2>. QED BY <1>2, <1>3, <2>1, Zenon
<1>9. OneBufferPerBlock'
  BY <1>2, <1>7, Zenon DEF OneBufferPerBlock, Count
<1>10. Contents' /\ \A c \in Bufs : FlagsOf(c)'
  BY <1>2, Zenon DEF Contents, ContentsOf, Flags, FlagsOf, ideVars, ghosts
<1>11. pc[p] \notin Owning /\ UNCHANGED <<latest, failed, writes, panicked>>
  BY <1>2 DEF Owning, Waiting, ghosts
<1>12. "idle" \in {"idle", "lock"} /\ (0 = 0 <=> "idle" = "idle") /\ (0 # 0 => blockno'[0] # 0)
  OBVIOUS
<1>. QED BY <1>2, <1>3, <1>4, <1>5, <1>8, <1>9, <1>10, <1>11, <1>12, UseInv, Zenon

\* The walk from bcache.head.prev finds a buffer if there is one to recycle.
LEMMA VictimFound ==
  ASSUME lru \in [Bufs -> Bufs], Listed, \E b \in Bufs : recyclable(b)
  PROVE  Victim \in Bufs /\ recyclable(Victim)
<1>. DEFINE T == {m \in Nat : NBUF - m \in Bufs /\ recyclable(lru[NBUF - m])}
<1>1. T # {}
  <2>1. PICK i \in Bufs : recyclable(lru[i])
    BY Zenon DEF Listed
  <2>2. NBUF - i \in Nat /\ NBUF - (NBUF - i) = i
    BY SMT, SMTT(40), SizesAssumption DEF Bufs
  <2>3. NBUF - i \in T
    BY <2>1, <2>2
  <2>. QED BY <2>3, Zenon
<1>2. PICK m \in T : \A n \in T : ~(<<n, m>> \in OpToRel(<, Nat))
  <2>1. T \subseteq Nat
    OBVIOUS
  <2>. HIDE DEF T
  <2>. QED BY <1>1, <2>1, NatLessThanWellFounded, WFMin, Zenon
<1>3. \A n \in T : ~(n < m)
  <2>1. OpToRel(<, Nat) = {z \in Nat \X Nat : z[1] < z[2]}
    BY DEF OpToRel
  <2>2. ASSUME NEW n \in T PROVE ~(n < m)
    <3>1. m \in Nat /\ n \in Nat
      BY SMT, SMTT(40)
    <3>2. <<n, m>> \in {z \in Nat \X Nat : z[1] < z[2]} <=> n < m
      BY <3>1
    <3>3. ~(<<n, m>> \in {z \in Nat \X Nat : z[1] < z[2]})
      BY <1>2, <2>1, Zenon
    <3>. QED BY <3>2, <3>3, Zenon
  <2>. QED BY <2>2, Zenon
<1>4. /\ NBUF - m \in Bufs /\ recyclable(lru[NBUF - m])
      /\ \A j \in NBUF - m + 1..NBUF : ~recyclable(lru[j])
  <2>1. NBUF - m \in Bufs /\ recyclable(lru[NBUF - m]) /\ m \in Nat
    BY SMT, SMTT(40)
  <2>2. ASSUME NEW j \in NBUF - m + 1..NBUF PROVE ~recyclable(lru[j])
    <3>1. j \in Bufs /\ NBUF - j \in Nat /\ NBUF - (NBUF - j) = j /\ NBUF - j < m
      BY SMT, SMTT(40), <2>1, SizesAssumption DEF Bufs
    <3>2. NBUF - j \notin T
      BY <1>3, <3>1, Zenon
    <3>. QED BY SMT, SMTT(40), <3>1, <3>2
  <2>. QED BY <2>1, <2>2, Zenon
<1>5. \E i \in Bufs : recyclable(lru[i]) /\ \A j \in i+1..NBUF : ~recyclable(lru[j])
  BY <1>4, Zenon
<1>6. PICK i \in Bufs : recyclable(lru[i]) /\ Victim = lru[i]
  BY <1>5, Zenon DEF Victim
<1>. QED BY <1>6, Zenon

\* bget() finds the block in a buffer.
LEMMA BgetFoundInv ==
  ASSUME IInv, NEW p \in Procs, pc[p] = "idle", NEW b \in Bufs, blockno[b] # 0,
         refcnt' = [refcnt EXCEPT ![b] = refcnt[b] + 1], cur' = [cur EXCEPT ![p] = b],
         pc' = [pc EXCEPT ![p] = "lock"],
         UNCHANGED <<lru, blockno, valid, dirty, data, owner, ideVars, latest, failed, writes, panicked>>
  PROVE  IInv'
<1>. USE DEF IInv
<1>1. /\ cur \in [Procs -> 0..NBUF] /\ lru \in [Bufs -> Bufs] /\ refcnt \in [Bufs -> Nat]
      /\ blockno \in [Bufs -> 0..NBLOCKS] /\ valid \in [Bufs -> {0, 1}]
  BY Zenon DEF Types, TypeOK
<1>2. b # 0 /\ b \in 0..NBUF /\ cur[p] = 0 /\ Bufs \subseteq 0..NBUF /\ 0 \notin Bufs
  BY BufTypes, CurTypes, Zenon
<1>3. ASSUME NEW c \in Bufs PROVE refcnt'[c] = Count(c)'
  <2>1. /\ c = b => Count(c)' = Count(c) + 1
        /\ c # b => Count(c)' = Count(c)
    BY ZenonT(60), <1>1, <1>2, CountUsers
  <2>2. refcnt[c] = Count(c)
    BY Zenon DEF OneBufferPerBlock, Count
  <2>. QED BY SMT, SMTT(40), <1>1, <2>1, <2>2
<1>4. refcnt' \in [Bufs -> Nat]
  BY <1>1
<1>5. OneBufferPerBlock'
  BY <1>3, Zenon DEF OneBufferPerBlock, Count
<1>6. Contents' /\ Listed' /\ \A c \in Bufs : FlagsOf(c)'
  BY Zenon DEF Contents, ContentsOf, Flags, FlagsOf, Listed, ideVars
<1>7. "lock" \in {"idle", "lock"} /\ (b = 0 <=> "lock" = "idle") /\ pc[p] \notin Owning
  BY SMT, SMTT(40), <1>2 DEF Owning, Waiting
<1>. QED BY <1>1, <1>2, <1>4, <1>5, <1>6, <1>7, UseInv, Zenon

\* bget() recycles a buffer for a block that is in none: what it held is on disk.
LEMMA BgetRecycleInv ==
  ASSUME IInv, NEW p \in Procs, pc[p] = "idle", NEW v \in Bufs, recyclable(v),
         NEW k \in Blocks, \A b \in Bufs : blockno[b] # k,
         blockno' = [blockno EXCEPT ![v] = k], valid' = [valid EXCEPT ![v] = 0],
         refcnt' = [refcnt EXCEPT ![v] = 1], cur' = [cur EXCEPT ![p] = v],
         pc' = [pc EXCEPT ![p] = "lock"],
         UNCHANGED <<lru, dirty, data, owner, ideVars, latest, failed, writes, panicked>>
  PROVE  IInv'
<1>. USE DEF IInv
<1>1. /\ cur \in [Procs -> 0..NBUF] /\ lru \in [Bufs -> Bufs] /\ refcnt \in [Bufs -> Nat]
      /\ blockno \in [Bufs -> 0..NBLOCKS] /\ valid \in [Bufs -> {0, 1}]
  BY Zenon DEF Types, TypeOK
<1>2. /\ v # 0 /\ v \in 0..NBUF /\ cur[p] = 0 /\ Bufs \subseteq 0..NBUF /\ 0 \notin Bufs
      /\ k # 0 /\ k \in 0..NBLOCKS /\ refcnt[v] = 0 /\ dirty[v] = 0
  BY BufTypes, CurTypes, Zenon DEF recyclable
<1>3. ASSUME NEW c \in Bufs PROVE refcnt[c] = Count(c) /\ refcnt'[c] = Count(c)'
  <2>1. /\ c = v => Count(c)' = Count(c) + 1
        /\ c # v => Count(c)' = Count(c)
    BY ZenonT(60), <1>1, <1>2, CountUsers
  <2>2. refcnt[c] = Count(c)
    BY Zenon DEF OneBufferPerBlock, Count
  <2>. QED BY SMT, SMTT(40), <1>1, <1>2, <2>1, <2>2
<1>4. \A q \in Procs : cur[q] # v
  <2>1. Cardinality({q \in Procs : cur[q] = v}) = 0
    BY <1>2, <1>3, Zenon DEF Count
  <2>2. IsFiniteSet({q \in Procs : cur[q] = v})
    BY ProcsAssumption, FS_Subset
  <2>3. {q \in Procs : cur[q] = v} = {}
    BY SMT, SMTT(40), <2>1, <2>2, FS_EmptySet
  <2>. QED BY <2>3
<1>5. /\ blockno' \in [Bufs -> 0..NBLOCKS] /\ valid' \in [Bufs -> {0, 1}] /\ refcnt' \in [Bufs -> Nat]
      /\ blockno'[v] = k /\ valid'[v] = 0
      /\ \A b \in Bufs \ {v} : blockno'[b] = blockno[b] /\ valid'[b] = valid[b]
  BY SMT, SMTT(40), <1>1, <1>2
<1>6. OneBufferPerBlock'
  <2>1. ASSUME NEW b \in Bufs, NEW c \in Bufs, blockno'[b] # 0, blockno'[b] = blockno'[c]
        PROVE  b = c
    BY <1>5, <2>1, Zenon DEF OneBufferPerBlock
  <2>. QED BY <1>3, <2>1, Zenon DEF OneBufferPerBlock, Count
<1>7. \A b \in Bufs : FlagsOf(b)'
  <2>1. ASSUME NEW b \in Bufs PROVE FlagsOf(b)'
    <3>1. CASE b = v
      BY SMT, SMTT(40), <1>2, <1>5, <3>1 DEF FlagsOf
    <3>2. CASE b # v
      BY <1>5, <3>2, Zenon DEF Flags, FlagsOf
    <3>. QED BY <3>1, <3>2, Zenon
  <2>. QED BY <2>1, Zenon
<1>8. Contents'
  <2>0. UNCHANGED <<disk, latest>>
    BY Zenon DEF ideVars
  <2>1. ASSUME NEW b \in Bufs PROVE ContentsOf(b)'
    <3>1. CASE b = v
      <4>1. disk[k] = latest[k]
        BY Zenon DEF Contents
      <4>. QED BY SMT, SMTT(40), <1>5, <2>0, <3>1, <4>1 DEF ContentsOf
    <3>2. CASE b # v
      <4>1. ContentsOf(b) /\ blockno'[b] = blockno[b] /\ valid'[b] = valid[b]
        BY <1>5, <3>2, Zenon DEF Contents
      <4>. QED BY SMT, SMTT(40), <2>0, <4>1 DEF ContentsOf
    <3>. QED BY <3>1, <3>2, Zenon
  <2>2. ASSUME NEW j \in Blocks, \A b \in Bufs : blockno'[b] # j PROVE disk[j] = latest[j]
    <3>1. CASE blockno[v] = j
      <4>1. blockno[v] # 0
        BY <3>1, BufTypes, Zenon
      <4>. QED BY <1>2, <3>1, <4>1, Zenon DEF Contents, ContentsOf
    <3>2. CASE blockno[v] # j
      <4>1. \A b \in Bufs : blockno[b] # j
        BY <1>5, <2>2, <3>2, Zenon
      <4>. QED BY <4>1, Zenon DEF Contents
    <3>. QED BY <3>1, <3>2, Zenon
  <2>. QED BY <2>0, <2>1, <2>2, Zenon DEF Contents
<1>9. \A q \in Procs \ {p} : cur[q] # 0 =>
        blockno'[cur[q]] = blockno[cur[q]] /\ valid'[cur[q]] = valid[cur[q]]
  <2>1. \A q \in Procs : cur[q] # 0 => cur[q] \in Bufs
    BY CurTypes, Zenon DEF Users, UsersOf
  <2>. QED BY <1>4, <1>5, <2>1, Zenon
<1>10. "lock" \in {"idle", "lock"} /\ (v = 0 <=> "lock" = "idle") /\ pc[p] \notin Owning
  BY <1>2 DEF Owning, Waiting
<1>11. Listed' /\ lru' \in [Bufs -> Bufs] /\ (v # 0 => blockno'[v] # 0)
  BY <1>1, <1>2, <1>5, Zenon DEF Listed
<1>. QED BY ZenonT(60), <1>2, <1>5, <1>6, <1>7, <1>8, <1>9, <1>10, <1>11, UseInv

\* bget() up to acquiresleep().
LEMMA BgetInv ==
  ASSUME IInv, NEW p \in Procs, bget(p)
  PROVE  IInv'
<1>. USE DEF IInv
<1>1. PICK k \in Blocks :
        /\ pc[p] = "idle"
        /\ IF \E b \in Bufs : holds(b, k)
             THEN LET b == CHOOSE b \in Bufs : holds(b, k) IN
                  /\ refcnt' = [refcnt EXCEPT ![b] = refcnt[b] + 1]
                  /\ cur' = [cur EXCEPT ![p] = b]
                  /\ Goto(p, "lock")
                  /\ UNCHANGED <<blockno, valid, panicked>>
           ELSE IF \E b \in Bufs : recyclable(b)
             THEN /\ blockno' = [blockno EXCEPT ![Victim] = k]
                  /\ valid' = [valid EXCEPT ![Victim] = clear_flags(Victim)]
                  /\ refcnt' = [refcnt EXCEPT ![Victim] = 1]
                  /\ cur' = [cur EXCEPT ![p] = Victim]
                  /\ Goto(p, "lock")
                  /\ UNCHANGED panicked
             ELSE /\ panicked' = "bget: no buffers"
                  /\ UNCHANGED <<blockno, valid, refcnt, cur, pc>>
        /\ UNCHANGED <<lru, dirty, data, owner, ideVars, latest, failed, writes, faults>>
  BY Zenon DEF bget
<1>2. CASE \E b \in Bufs : holds(b, k)
  <2>1. PICK b \in Bufs : b = CHOOSE c \in Bufs : holds(c, k)
    BY <1>2, Zenon
  <2>2. holds(b, k)
    BY <1>2, <2>1, Zenon
  <2>3. /\ refcnt' = [refcnt EXCEPT ![b] = refcnt[b] + 1] /\ cur' = [cur EXCEPT ![p] = b]
        /\ pc' = [pc EXCEPT ![p] = "lock"]
        /\ UNCHANGED <<lru, blockno, valid, dirty, data, owner, ideVars, latest, failed, writes, panicked>>
    BY <1>1, <1>2, <2>1, Zenon DEF Goto
  <2>4. blockno[b] # 0
    BY <2>2, BufTypes, Zenon DEF holds
  <2>. QED BY <1>1, <2>3, <2>4, BgetFoundInv, Zenon
<1>3. CASE ~(\E b \in Bufs : holds(b, k)) /\ \E b \in Bufs : recyclable(b)
  <2>1. PICK v \in Bufs : v = Victim /\ recyclable(v)
    BY <1>3, VictimFound, Zenon DEF Types, TypeOK
  <2>2. /\ blockno' = [blockno EXCEPT ![v] = k] /\ valid' = [valid EXCEPT ![v] = 0]
        /\ refcnt' = [refcnt EXCEPT ![v] = 1] /\ cur' = [cur EXCEPT ![p] = v]
        /\ pc' = [pc EXCEPT ![p] = "lock"]
        /\ UNCHANGED <<lru, dirty, data, owner, ideVars, latest, failed, writes, panicked>>
    BY <1>1, <1>3, <2>1, Zenon DEF Goto, clear_flags
  <2>3. \A b \in Bufs : blockno[b] # k
    BY <1>3, Zenon DEF holds
  <2>. QED BY <1>1, <2>1, <2>2, <2>3, BgetRecycleInv, Zenon
<1>4. CASE ~(\E b \in Bufs : holds(b, k)) /\ ~ \E b \in Bufs : recyclable(b)
  <2>1. /\ panicked' \in Panics /\ UNCHANGED <<bufVars, ideVars, pc, cur, latest, failed, writes>>
    BY <1>1, <1>4, Zenon DEF Panics, bufVars
  <2>. QED BY <2>1, NothingInv, Zenon
<1>. QED BY <1>2, <1>3, <1>4, Zenon

-----------------------------------------------------------------------------
(***************************************************************************)
(* Changes of a block, and ide.c.                                          *)
(***************************************************************************)

\* The processes in a queue that a step on the buffer b leaves alone.
LEMMA OtherInQueue ==
  ASSUME IInv, NEW p \in Procs, NEW q \in Procs \ {p}, pc[p] \in Owning, pc[q] \in Owning
  PROVE  cur[q] # cur[p]
BY CurTypes, Zenon

\* The holder of a block changes it, and writes it or has it pinned.
LEMMA ChangeInv ==
  ASSUME IInv, NEW p \in Procs, Change(p)
  PROVE  IInv'
<1>. USE DEF IInv
<1>1. PICK b \in Bufs, k \in Blocks : cur[p] = b /\ blockno[b] = k
  BY SMT, SMTT(40), CurTypes DEF Change
<1>2. PICK l \in {"iderw", "brelse"} :
        /\ pc[p] = "hold" /\ writes < MaxWrites
        /\ data' = [data EXCEPT ![b] = writes + 1] /\ latest' = [latest EXCEPT ![k] = writes + 1]
        /\ writes' = writes + 1 /\ dirty' = [dirty EXCEPT ![b] = 1]
        /\ pc' = [pc EXCEPT ![p] = l]
        /\ l = "brelse" => Cardinality({c \in Bufs : dirty[c] = 1 \/ c = b}) <= MaxPins
        /\ UNCHANGED <<lru, blockno, valid, refcnt, owner, ideVars, cur, failed, panicked>>
  <2>1. CASE pc' = [pc EXCEPT ![p] = "iderw"]
    BY SMT, SMTT(40), <1>1, <2>1 DEF Change, Goto
  <2>2. CASE ~(pc' = [pc EXCEPT ![p] = "iderw"])
    BY SMT, SMTT(40), <1>1, <2>2 DEF Change, Goto
  <2>. QED BY <2>1, <2>2, Zenon
<1>3. l \in Places /\ l \in Owning /\ pc[p] \in Owning /\ pc[p] # "idle" /\ l # "idle"
      /\ l \notin {"asleep", "woken"}
  BY SMT, SMTT(40), <1>2 DEF Places, Owning, Waiting
<1>4. writes + 1 \in 0..MaxWrites
  BY SMT, SMTT(40), <1>2, SizesAssumption DEF Types
<1>5. /\ pc'[p] = l /\ \A q \in Procs \ {p} : pc'[q] = pc[q]
      /\ data'[b] = writes + 1 /\ dirty'[b] = 1 /\ latest'[k] = writes + 1
      /\ \A c \in Bufs \ {b} : data'[c] = data[c] /\ dirty'[c] = dirty[c]
      /\ \A j \in Blocks \ {k} : latest'[j] = latest[j]
  BY <1>2, Zenon DEF Types, TypeOK
<1>6. Types'
  <2>1. /\ pc' \in [Procs -> Places] /\ data' \in [Bufs -> 0..MaxWrites]
        /\ latest' \in [Blocks -> 0..MaxWrites] /\ writes' \in 0..MaxWrites
    BY <1>2, <1>3, <1>4, Zenon DEF Types, TypeOK, Places
  <2>2. dirty' \in [Bufs -> {0, 1}]
    BY SMT, SMTT(40), <1>2 DEF Types, TypeOK
  <2>. QED BY <1>2, <2>1, <2>2, Zenon DEF Types, TypeOK, Places, ideVars
<1>7. Users'
  BY <1>2, <1>3, <1>5, Zenon DEF Users, UsersOf
<1>8. Owners'
  <2>1. ASSUME NEW q \in Procs PROVE pc'[q] \in Owning <=> pc[q] \in Owning
    BY <1>3, <1>5, Zenon
  <2>. QED BY ZenonT(60), <1>2, <2>1 DEF Owners
<1>9. valid[b] = 1
  BY <1>1, <1>2, Zenon DEF Flags, NeedsOf
<1>10. \A q \in Procs \ {p} : pc[q] \in Owning => cur[q] \in Bufs \ {b}
  <2>1. \A q \in Procs \ {p} : pc[q] \in Owning => cur[q] # b
    BY <1>1, <1>3, OtherInQueue, Zenon
  <2>2. \A q \in Procs : pc[q] \in Owning => cur[q] \in Bufs
    <3>1. \A q \in Procs : pc[q] \in Owning => pc[q] # "idle"
      BY DEF Owning, Waiting
    <3>. QED BY <3>1, CurTypes, Zenon
  <2>. QED BY <2>1, <2>2, Zenon
<1>11. Flags'
  <2>1. ASSUME NEW c \in Bufs PROVE FlagsOf(c)'
    <3>1. CASE c = b
      BY <1>2, <1>9, <3>1, Zenon DEF Flags, FlagsOf
    <3>2. CASE c # b
      BY <1>2, <1>5, <3>2, Zenon DEF Flags, FlagsOf
    <3>. QED BY <3>1, <3>2, Zenon
  <2>2. ASSUME NEW q \in Procs PROVE NeedsOf(q)'
    <3>1. CASE q = p
      BY SMT, SMTT(40), <1>1, <1>2, <1>5, <1>9, <3>1 DEF NeedsOf, done
    <3>2. CASE q # p /\ pc[q] \in Owning
      <4>1. NeedsOf(q) /\ pc'[q] = pc[q] /\ dirty'[cur[q]] = dirty[cur[q]] /\ cur' = cur /\ valid' = valid
        BY <1>2, <1>5, <1>10, <3>2, Zenon DEF Flags
      <4>. QED BY SMT, SMTT(40), <4>1 DEF NeedsOf, done
    <3>3. CASE q # p /\ pc[q] \notin Owning
      BY SMT, SMTT(40), <1>5, <3>3 DEF NeedsOf, Owning, Waiting
    <3>. QED BY <3>1, <3>2, <3>3, Zenon
  <2>. QED BY <2>1, <2>2, Zenon DEF Flags
<1>12. Contents'
  <2>0. disk' = disk /\ k # 0
    BY <1>2, BufTypes, Zenon DEF ideVars
  <2>1. ASSUME NEW c \in Bufs PROVE ContentsOf(c)'
    <3>1. CASE c = b
      BY SMT, SMTT(40), <1>1, <1>2, <1>5, <3>1 DEF ContentsOf
    <3>2. CASE c # b
      <4>1. blockno[c] # 0 => blockno[c] # k /\ blockno[c] \in Blocks
        <5>1. blockno[c] \in 0..NBLOCKS
          BY Zenon DEF Types, TypeOK
        <5>2. blockno[c] # 0 => blockno[c] \in Blocks
          BY SMT, SMTT(40), <5>1, SizesAssumption DEF Blocks
        <5>. QED BY <1>1, <2>0, <3>2, <5>2, Zenon DEF OneBufferPerBlock
      <4>2. blockno[c] # 0 => latest'[blockno[c]] = latest[blockno[c]]
        BY <1>5, <4>1, Zenon
      <4>3. ContentsOf(c) /\ data'[c] = data[c] /\ dirty'[c] = dirty[c]
        BY <1>5, <3>2, Zenon DEF Contents
      <4>. QED BY SMT, SMTT(40), <1>2, <2>0, <4>2, <4>3 DEF ContentsOf
    <3>. QED BY ZenonT(60), <3>1, <3>2
  <2>2. ASSUME NEW j \in Blocks, \A c \in Bufs : blockno'[c] # j PROVE disk'[j] = latest'[j]
    <3>1. j # k /\ \A c \in Bufs : blockno[c] # j
      BY <1>1, <1>2, <2>2, Zenon
    <3>. QED BY <1>5, <2>0, <3>1, Zenon DEF Contents
  <2>. QED BY <2>1, <2>2, Zenon DEF Contents
<1>13. Listed' /\ OneBufferPerBlock'
  BY ZenonT(60), <1>2 DEF Listed, OneBufferPerBlock
<1>14. QueueExact'
  <2>1. ~InQueue(p) /\ ~InQueue(p)'
    BY <1>2, <1>3, <1>5 DEF InQueue
  <2>2. ASSUME NEW q \in Procs \ {p}, pc[q] \in {"asleep", "woken"}
        PROVE  cur' = cur /\ pc'[q] = pc[q] /\ cur[q] \in Bufs \ {b} /\ valid' = valid
               /\ dirty'[cur[q]] = dirty[cur[q]] /\ data'[cur[q]] = data[cur[q]]
    <3>1. pc[q] \in Owning
      BY SMT, SMTT(40), <2>2 DEF Owning, Waiting
    <3>. QED BY <1>2, <1>5, <1>10, <3>1, Zenon
  <2>3. ASSUME NEW q \in Procs PROVE InQueue(q)' <=> InQueue(q)
    <3>1. CASE q = p
      BY ZenonT(60), <2>1, <3>1
    <3>2. CASE q # p /\ pc[q] \in {"asleep", "woken"}
      BY SMT, SMTT(40), <2>2, <3>2 DEF InQueue, done
    <3>3. CASE q # p /\ pc[q] \notin {"asleep", "woken"}
      BY <1>5, <3>3, Zenon DEF InQueue
    <3>. QED BY <3>1, <3>2, <3>3, Zenon
  <2>4. \A q \in Procs : InQueue(q) =>
           /\ cur'[q] = cur[q] /\ dirty'[cur[q]] = dirty[cur[q]]
           /\ blockno'[cur[q]] = blockno[cur[q]] /\ data'[cur[q]] = data[cur[q]]
    BY <1>2, <2>1, <2>2, Zenon DEF InQueue
  <2>5. idequeue \in Seq(Bufs) /\ UNCHANGED <<idequeue, hw>>
    BY <1>2, Zenon DEF Types, TypeOK, ideVars
  <2>. QED BY <2>3, <2>4, <2>5, QueueFrame, Zenon
<1>15. Pins'
  <2>1. CASE l = "iderw"
    <3>1. ASSUME NEW c \in Bufs, c \in Pinned' PROVE c \in Pinned
      <4>1. dirty'[c] = 1 /\ \A q \in Procs : ~(cur[q] = c /\ pc'[q] \in Waiting)
        BY <1>2, <3>1, Zenon DEF Pinned
      <4>2. pc'[p] \in Waiting /\ pc[p] \notin Waiting
        BY SMT, SMTT(40), <1>2, <1>5, <2>1 DEF Waiting
      <4>3. c # b
        BY <1>1, <4>1, <4>2, Zenon
      <4>4. dirty[c] = 1 /\ \A q \in Procs : ~(cur[q] = c /\ pc[q] \in Waiting)
        BY <1>5, <4>1, <4>2, <4>3, Zenon
      <4>. QED BY <4>4, Zenon DEF Pinned
    <3>. QED BY <3>1, PinsFrame, Zenon DEF Pinned
  <2>2. CASE l = "brelse"
    <3>. DEFINE D == {c \in Bufs : dirty[c] = 1 \/ c = b}
    <3>1. Pinned' \subseteq D
      BY SMT, SMTT(40), <1>5 DEF Pinned
    <3>2. IsFiniteSet(D)
      BY SMT, SMTT(40), BufTypes, FS_Subset
    <3>3. Cardinality(D) <= MaxPins
      BY <1>2, <2>2, Zenon
    <3>. HIDE DEF D
    <3>4. /\ Cardinality(Pinned') <= Cardinality(D) /\ Cardinality(D) \in Nat
          /\ Cardinality(Pinned') \in Nat
      BY SMT, SMTT(40), <3>1, <3>2, FS_Subset, FS_CardinalityType
    <3>. QED BY SMT, SMTT(40), <3>3, <3>4, SizesAssumption DEF Pins
  <2>. QED BY <2>1, <2>2, Zenon
<1>. QED BY ZenonT(60), <1>6, <1>7, <1>8, <1>11, <1>12, <1>13, <1>14, <1>15

\* A request is appended to the queue.
LEMMA AppendQueue ==
  ASSUME NEW q \in Seq(Bufs), NEW b \in Bufs, b \notin Range(q), IsInjective(q)
  PROVE  /\ Append(q, b) \in Seq(Bufs) /\ Append(q, b) # << >> /\ IsInjective(Append(q, b))
         /\ Range(Append(q, b)) = Range(q) \cup {b}
         /\ q = << >> => Head(Append(q, b)) = b
         /\ q # << >> => Head(Append(q, b)) = Head(q)
<1>1. /\ Len(q) \in Nat /\ DOMAIN q = 1..Len(q) /\ Append(q, b) \in Seq(Bufs)
      /\ Len(Append(q, b)) = Len(q) + 1 /\ DOMAIN Append(q, b) = 1..(Len(q) + 1)
      /\ \A i \in 1..Len(q) : Append(q, b)[i] = q[i]
      /\ Append(q, b)[Len(q) + 1] = b
  BY SMT, SMTT(40)
<1>2. \A i \in 1..Len(q) : q[i] # b
  BY <1>1, Zenon DEF Range
<1>3. IsInjective(Append(q, b))
  <2>1. ASSUME NEW i \in 1..(Len(q) + 1), NEW j \in 1..(Len(q) + 1), Append(q, b)[i] = Append(q, b)[j]
        PROVE  i = j
    <3>1. \A m \in 1..(Len(q) + 1) : m \in 1..Len(q) \/ m = Len(q) + 1
      BY SMT, SMTT(40), <1>1
    <3>2. \A m, n \in 1..Len(q) : q[m] = q[n] => m = n
      BY <1>1, Zenon DEF IsInjective
    <3>. QED BY <1>1, <1>2, <2>1, <3>1, <3>2, Zenon
  <2>. QED BY <1>1, <2>1, Zenon DEF IsInjective
<1>4. Range(Append(q, b)) = Range(q) \cup {b}
  <2>1. ASSUME NEW x \in Range(Append(q, b)) PROVE x \in Range(q) \cup {b}
    <3>1. PICK i \in 1..(Len(q) + 1) : x = Append(q, b)[i]
      BY <1>1, Zenon DEF Range
    <3>2. CASE i = Len(q) + 1
      BY <1>1, <3>1, <3>2, Zenon
    <3>3. CASE i # Len(q) + 1
      <4>1. i \in 1..Len(q)
        BY SMT, SMTT(40), <1>1, <3>3
      <4>2. x = q[i]
        BY <1>1, <3>1, <4>1, Zenon
      <4>. QED BY <1>1, <4>1, <4>2, Zenon DEF Range
    <3>. QED BY <3>2, <3>3, Zenon
  <2>2. ASSUME NEW x \in Range(q) PROVE x \in Range(Append(q, b))
    <3>1. PICK i \in 1..Len(q) : x = q[i]
      BY <1>1, Zenon DEF Range
    <3>2. i \in 1..(Len(q) + 1)
      BY SMT, SMTT(40), <1>1
    <3>. QED BY <1>1, <3>1, <3>2, Zenon DEF Range
  <2>3. b \in Range(Append(q, b))
    <3>1. Len(q) + 1 \in 1..(Len(q) + 1)
      BY SMT, SMTT(40), <1>1
    <3>. QED BY <1>1, <3>1, Zenon DEF Range
  <2>. QED BY <2>1, <2>2, <2>3, Zenon
<1>5. /\ Append(q, b) # << >>
      /\ q = << >> => Head(Append(q, b)) = b
      /\ q # << >> => Head(Append(q, b)) = Head(q)
  OBVIOUS
<1>. QED BY <1>1, <1>3, <1>4, <1>5, Zenon

\* The first request leaves the queue.
LEMMA TailQueue ==
  ASSUME NEW q \in Seq(Bufs), q # << >>, IsInjective(q)
  PROVE  /\ Tail(q) \in Seq(Bufs) /\ IsInjective(Tail(q))
         /\ Head(q) \in Range(q) /\ Range(Tail(q)) = Range(q) \ {Head(q)}
         /\ Tail(q) # << >> => Head(Tail(q)) \in Range(Tail(q))
<1>1. /\ Len(q) \in Nat /\ Len(q) > 0 /\ DOMAIN q = 1..Len(q) /\ Tail(q) \in Seq(Bufs)
      /\ Len(Tail(q)) = Len(q) - 1 /\ DOMAIN Tail(q) = 1..(Len(q) - 1)
      /\ \A i \in 1..(Len(q) - 1) : Tail(q)[i] = q[i + 1]
      /\ Head(q) = q[1] /\ 1 \in 1..Len(q)
  BY SMT, SMTT(40)
<1>2. \A m, n \in 1..Len(q) : q[m] = q[n] => m = n
  BY <1>1, Zenon DEF IsInjective
<1>3. \A i \in 1..(Len(q) - 1) : i + 1 \in 1..Len(q) /\ i + 1 # 1
  BY SMT, SMTT(40), <1>1
<1>4. IsInjective(Tail(q))
  <2>1. ASSUME NEW i \in 1..(Len(q) - 1), NEW j \in 1..(Len(q) - 1), Tail(q)[i] = Tail(q)[j]
        PROVE  i = j
    <3>1. /\ i + 1 \in 1..Len(q) /\ j + 1 \in 1..Len(q)
          /\ Tail(q)[i] = q[i + 1] /\ Tail(q)[j] = q[j + 1]
      BY <1>1, <1>3, Zenon
    <3>2. i + 1 = j + 1
      BY <1>2, <2>1, <3>1, Zenon
    <3>. QED BY SMT, SMTT(40), <3>2
  <2>. QED BY <1>1, <2>1, Zenon DEF IsInjective
<1>5. Head(q) \in Range(q)
  BY <1>1, Zenon DEF Range
<1>6. Range(Tail(q)) = Range(q) \ {Head(q)}
  <2>1. ASSUME NEW x \in Range(Tail(q)) PROVE x \in Range(q) \ {Head(q)}
    <3>1. PICK i \in 1..(Len(q) - 1) : x = q[i + 1]
      BY <1>1, Zenon DEF Range
    <3>2. x # q[1]
      BY <1>1, <1>2, <1>3, <3>1, Zenon
    <3>. QED BY <1>1, <1>3, <3>1, <3>2, Zenon DEF Range
  <2>2. ASSUME NEW x \in Range(q) \ {Head(q)} PROVE x \in Range(Tail(q))
    <3>1. PICK i \in 1..Len(q) : x = q[i]
      BY <1>1, Zenon DEF Range
    <3>2. i # 1
      BY <1>1, <3>1, Zenon
    <3>3. i - 1 \in 1..(Len(q) - 1) /\ (i - 1) + 1 = i
      BY SMT, SMTT(40), <1>1, <3>2
    <3>4. Tail(q)[i - 1] = x
      BY SMT, SMTT(40), <1>1, <3>1, <3>3
    <3>. QED BY <1>1, <3>3, <3>4, Zenon DEF Range
  <2>. QED BY <2>1, <2>2, Zenon
<1>7. ASSUME Tail(q) # << >> PROVE Head(Tail(q)) \in Range(Tail(q))
  <2>1. Head(Tail(q)) = Tail(q)[1] /\ 1 \in DOMAIN Tail(q)
    BY SMT, SMTT(40), <1>1, <1>7
  <2>. QED BY <2>1, Zenon DEF Range
<1>. QED BY <1>1, <1>4, <1>5, <1>6, <1>7, Zenon

\* The buffers of the queue are those of the processes in it.
LEMMA InRange ==
  ASSUME IInv
  PROVE  /\ idequeue \in Seq(Bufs) /\ IsInjective(idequeue)
         /\ \A b : b \in Range(idequeue) <=> \E q \in Procs : InQueue(q) /\ cur[q] = b
         /\ \A q \in Procs : InQueue(q) => pc[q] \in Owning /\ pc[q] \in Waiting
<1>1. Range(idequeue) = {cur[q] : q \in {r \in Procs : InQueue(r)}} /\ IsInjective(idequeue)
  BY Zenon DEF IInv, QueueExact, InQueue
<1>2. \A b : b \in Range(idequeue) <=> \E q \in Procs : InQueue(q) /\ cur[q] = b
  BY SMT, SMTT(40), <1>1
<1>3. \A q \in Procs : InQueue(q) => pc[q] \in Owning /\ pc[q] \in Waiting
  BY SMT, SMTT(40) DEF InQueue, Owning, Waiting
<1>. QED BY <1>1, <1>2, <1>3, Zenon DEF IInv, Types, TypeOK

\* A command for a buffer.
LEMMA CommandType ==
  ASSUME TypeOK, NEW b \in Bufs
  PROVE  idestart(b) \in [op : {"none", "read", "write"}, blk : 0..NBLOCKS, val : 0..MaxWrites]
<1>1. blockno[b] \in 0..NBLOCKS /\ data[b] \in 0..MaxWrites /\ 0 \in 0..MaxWrites
  BY SMT, SMTT(40), SizesAssumption DEF TypeOK
<1>. QED BY SMT, SMTT(40), <1>1 DEF idestart

\* iderw() appends its request, and starts the disk if it is the first.
LEMMA IderwInv ==
  ASSUME IInv, NEW p \in Procs, iderw(p)
  PROVE  IInv'
<1>. USE DEF IInv
<1>1. PICK b \in Bufs : cur[p] = b
  BY Zenon, CurTypes DEF iderw
<1>2. pc[p] = "iderw" /\ ~done(b)
  BY <1>1, Zenon DEF iderw, Flags, NeedsOf
<1>3. /\ idequeue' = Append(idequeue, b)
      /\ hw' = IF idequeue = << >> THEN idestart(b) ELSE hw
      /\ pc' = [pc EXCEPT ![p] = "asleep"]
      /\ UNCHANGED <<bufVars, disk, cur, latest, failed, writes, panicked>>
  BY <1>1, <1>2, Zenon DEF iderw, start_first, Goto, done
<1>4. pc'[p] = "asleep" /\ \A q \in Procs \ {p} : pc'[q] = pc[q]
  BY <1>3, Zenon DEF Types, TypeOK
<1>5. /\ pc[p] \in Owning /\ pc[p] \in Waiting /\ "asleep" \in Owning /\ "asleep" \in Waiting
      /\ "asleep" \in Places /\ "asleep" # "idle" /\ pc[p] # "idle" /\ pc[p] \notin {"asleep", "woken"}
      /\ "asleep" \notin {"hold", "brelse"}
  BY SMT, SMTT(40), <1>2 DEF Places, Owning, Waiting
<1>6. b \notin Range(idequeue)
  <2>1. ASSUME NEW q \in Procs, InQueue(q), cur[q] = b PROVE FALSE
    <3>1. pc[q] \in Owning /\ pc[q] \in {"asleep", "woken"}
      BY <2>1, InRange, Zenon DEF InQueue
    <3>2. q = p
      BY <1>1, <1>5, <2>1, <3>1, CurTypes, Zenon
    <3>. QED BY <1>5, <3>1, <3>2, Zenon
  <2>. QED BY <2>1, InRange, Zenon
<1>7. /\ idequeue' \in Seq(Bufs) /\ idequeue' # << >> /\ IsInjective(idequeue')
      /\ Range(idequeue') = Range(idequeue) \cup {b}
      /\ idequeue = << >> => Head(idequeue') = b
      /\ idequeue # << >> => Head(idequeue') = Head(idequeue)
  BY <1>3, <1>6, AppendQueue, InRange, Zenon
<1>8. Types'
  <2>1. pc' \in [Procs -> Places]
    BY <1>3, <1>5, Zenon DEF Types, TypeOK, Places
  <2>2. hw' \in [op : {"none", "read", "write"}, blk : 0..NBLOCKS, val : 0..MaxWrites]
    BY <1>3, CommandType, Zenon DEF Types, TypeOK
  <2>. QED BY <1>3, <1>7, <2>1, <2>2, Zenon DEF Types, TypeOK, Places, bufVars
<1>9. Users' /\ Owners'
  <2>1. ASSUME NEW q \in Procs
        PROVE  (pc'[q] \in Owning <=> pc[q] \in Owning) /\ (pc'[q] = "idle" <=> pc[q] = "idle")
    BY <1>4, <1>5, Zenon
  <2>2. Users'
    BY <1>3, <2>1, Zenon DEF Users, UsersOf, bufVars
  <2>3. Owners'
    BY <1>3, <2>1, Zenon DEF Owners, bufVars
  <2>. QED BY <2>2, <2>3, Zenon
<1>10. \A q \in Procs : done(cur[q])' <=> done(cur[q])
  BY <1>3, Zenon DEF done, bufVars
<1>11. Flags'
  <2>1. ASSUME NEW c \in Bufs PROVE FlagsOf(c)'
    BY <1>3, Zenon DEF Flags, FlagsOf, bufVars
  <2>2. ASSUME NEW q \in Procs PROVE NeedsOf(q)'
    <3>1. CASE q = p
      BY <1>1, <1>2, <1>4, <1>5, <1>10, <3>1, Zenon DEF NeedsOf
    <3>2. CASE q # p
      <4>1. NeedsOf(q) /\ pc'[q] = pc[q] /\ UNCHANGED <<valid, cur>>
        BY <1>3, <1>4, <3>2, Zenon DEF Flags, bufVars
      <4>. QED BY SMT, SMTT(40), <1>10, <4>1 DEF NeedsOf
    <3>. QED BY <3>1, <3>2, Zenon
  <2>. QED BY <2>1, <2>2, Zenon DEF Flags
<1>12. Contents' /\ Listed' /\ OneBufferPerBlock'
  <2>1. Contents'
    BY <1>3, Zenon DEF Contents, ContentsOf, bufVars
  <2>. QED BY <1>3, <2>1, Zenon DEF Listed, OneBufferPerBlock, bufVars
<1>13. QueueExact'
  <2>1. InQueue(p)' /\ ~InQueue(p)
    BY SMT, SMTT(40), <1>1, <1>2, <1>4, <1>5, <1>10 DEF InQueue
  <2>2. \A q \in Procs \ {p} : InQueue(q)' <=> InQueue(q)
    BY <1>4, <1>10, Zenon DEF InQueue
  <2>3. ASSUME NEW c PROVE c \in Range(idequeue') <=> \E q \in Procs : InQueue(q)' /\ cur'[q] = c
    <3>1. c \in Range(idequeue') <=> (\E q \in Procs : InQueue(q) /\ cur[q] = c) \/ c = b
      BY <1>7, InRange, Zenon
    <3>2. (\E q \in Procs : InQueue(q)' /\ cur'[q] = c) <=> (\E q \in Procs : InQueue(q) /\ cur[q] = c) \/ c = b
      BY <1>1, <1>3, <2>1, <2>2, Zenon
    <3>. QED BY <3>1, <3>2, Zenon
  <2>4. Range(idequeue') = {cur'[q] : q \in {r \in Procs : InQueue(r)'}}
    BY SMT, SMTT(40), <2>3
  <2>5. hw' = idestart(Head(idequeue))'
    <3>1. UNCHANGED <<dirty, blockno, data>>
      BY <1>3, Zenon DEF bufVars
    <3>2. CASE idequeue = << >>
      BY <1>3, <1>7, <3>1, <3>2, Zenon DEF idestart
    <3>3. CASE idequeue # << >>
      <4>1. hw' = idestart(Head(idequeue)) /\ Head(idequeue') = Head(idequeue)
        BY <1>3, <1>7, <3>3, Zenon DEF QueueExact
      <4>. QED BY <3>1, <4>1, Zenon DEF idestart
    <3>. QED BY <3>2, <3>3, Zenon
  <2>6. hw' = IF idequeue' = << >> THEN NoCmd ELSE idestart(Head(idequeue))'
    BY <1>7, <2>5, Zenon
  <2>. QED BY <1>7, <2>4, <2>6, Zenon DEF QueueExact, InQueue
<1>14. Pins'
  <2>1. \A q \in Procs : pc'[q] \in Waiting <=> pc[q] \in Waiting
    BY <1>4, <1>5, Zenon
  <2>2. Pinned' \subseteq Pinned
    BY <1>3, <2>1, Zenon DEF Pinned, bufVars
  <2>. QED BY <2>2, PinsFrame, Zenon
<1>. QED BY <1>8, <1>9, <1>11, <1>12, <1>13, <1>14, Zenon

\* ideintr() completes the request for b: the disk has the last version of its
\* block, and so has b unless the read has failed.
LEMMA CompleteInv ==
  ASSUME IInv, NEW b, b = Head(idequeue), idequeue # << >>, NEW k, k = blockno[b],
         idequeue' = Tail(idequeue), hw' = next_start(Tail(idequeue)), pc' = wakeup(b),
         valid' = [valid EXCEPT ![b] = 1], dirty' = [dirty EXCEPT ![b] = 0],
         disk' \in [Blocks -> 0..MaxWrites], data' \in [Bufs -> 0..MaxWrites], failed' \subseteq Blocks,
         \A j \in Blocks \ {k} : disk'[j] = disk[j] /\ (j \in failed' <=> j \in failed),
         \A c \in Bufs \ {b} : data'[c] = data[c],
         disk'[k] = latest[k], k \notin failed' => data'[b] = latest[k],
         UNCHANGED <<lru, blockno, refcnt, owner, cur, latest, writes, panicked>>
  PROVE  IInv'
<1>. USE DEF IInv
<1>1. /\ idequeue \in Seq(Bufs) /\ IsInjective(idequeue)
      /\ idequeue' \in Seq(Bufs) /\ IsInjective(idequeue') /\ Range(idequeue') = Range(idequeue) \ {b}
      /\ b \in Range(idequeue) /\ (idequeue' # << >> => Head(idequeue') \in Range(idequeue'))
  BY InRange, TailQueue, Zenon
<1>2. PICK p \in Procs : InQueue(p) /\ cur[p] = b
  BY <1>1, InRange, Zenon
<1>3. pc[p] \in Owning /\ pc[p] # "idle" /\ b \in Bufs /\ k \in Blocks /\ k # 0
  <2>1. pc[p] \in Owning /\ pc[p] # "idle"
    BY SMT, SMTT(40), <1>2 DEF InQueue, Owning, Waiting
  <2>2. cur[p] \in Bufs /\ blockno[cur[p]] \in Blocks /\ 0 \notin Blocks
    BY <2>1, CurTypes, BufTypes, Zenon
  <2>. QED BY SMT, SMTT(40), <1>2, <2>1, <2>2
<1>4. /\ valid'[b] = 1 /\ dirty'[b] = 0
      /\ \A c \in Bufs \ {b} : valid'[c] = valid[c] /\ dirty'[c] = dirty[c] /\ data'[c] = data[c]
  BY <1>3, Zenon DEF Types, TypeOK
<1>5. ASSUME NEW q \in Procs
      PROVE  /\ pc'[q] \in Places
             /\ pc'[q] \in Owning <=> pc[q] \in Owning
             /\ pc'[q] \in Waiting <=> pc[q] \in Waiting
             /\ pc'[q] \in {"asleep", "woken"} <=> pc[q] \in {"asleep", "woken"}
             /\ cur[q] # b => pc'[q] = pc[q]
             /\ cur[q] = b => pc'[q] # "asleep"
             /\ pc'[q] # "woken" => pc'[q] = pc[q]
             /\ pc'[q] = "idle" <=> pc[q] = "idle"
  <2>1. pc'[q] = IF pc[q] = "asleep" /\ cur[q] = b THEN "woken" ELSE pc[q]
    BY Zenon DEF wakeup
  <2>2. pc[q] \in Places
    BY Zenon DEF Types, TypeOK, Places
  <2>. QED BY SMT, SMTT(40), <2>1, <2>2 DEF Places, Owning, Waiting
<1>6. Types'
  <2>1. pc' \in [Procs -> Places]
    <3>1. pc' = [q \in Procs |-> pc'[q]]
      BY Zenon DEF wakeup
    <3>. QED BY <1>5, <3>1, Zenon
  <2>2. valid' \in [Bufs -> {0, 1}] /\ dirty' \in [Bufs -> {0, 1}]
    BY Zenon, <1>3 DEF Types, TypeOK
  <2>3. hw' \in [op : {"none", "read", "write"}, blk : 0..NBLOCKS, val : 0..MaxWrites]
    <3>1. CASE idequeue' = << >>
      <4>1. hw' = NoCmd
        BY <3>1, Zenon DEF next_start
      <4>2. 0 \in 0..NBLOCKS /\ 0 \in 0..MaxWrites
        BY SizesAssumption
      <4>. QED BY ONLY <4>1, <4>2, SMT, SMTT(40) DEF NoCmd
    <3>2. CASE idequeue' # << >>
      <4>1. Head(idequeue') \in Bufs
        BY SMT, SMTT(40), <1>1, <3>2
      <4>. QED BY <3>2, <4>1, CommandType, Zenon DEF next_start, Types
    <3>. QED BY ZenonT(60), <3>1, <3>2
  <2>. QED BY <1>1, <2>1, <2>2, <2>3, Zenon DEF Types, TypeOK, Places
<1>7. Users' /\ Owners'
  <2>1. Users'
    BY <1>5, Zenon DEF Users, UsersOf
  <2>2. Owners'
    <3>1. ASSUME NEW q \in Procs, NEW c \in Bufs
          PROVE  owner'[c] = q <=> cur'[q] = c /\ pc'[q] \in Owning
      <4>1. owner[c] = q <=> cur[q] = c /\ pc[q] \in Owning
        BY Zenon DEF Owners
      <4>. QED BY <1>5, <4>1, Zenon
    <3>. QED BY <3>1, Zenon DEF Owners
  <2>. QED BY <2>1, <2>2, Zenon
<1>8. \A q \in Procs \ {p} : pc[q] \in Owning => cur[q] \in Bufs \ {b}
  <2>1. \A q \in Procs \ {p} : pc[q] \in Owning => cur[q] # b
    BY ZenonT(60), <1>2, <1>3, OtherInQueue
  <2>2. \A q \in Procs : pc[q] \in Owning => cur[q] \in Bufs
    <3>1. \A q \in Procs : pc[q] \in Owning => pc[q] # "idle"
      BY SMT, SMTT(40) DEF Owning, Waiting
    <3>. QED BY <3>1, CurTypes, Zenon
  <2>. QED BY <2>1, <2>2, Zenon
<1>9. Flags'
  <2>1. ASSUME NEW c \in Bufs PROVE FlagsOf(c)'
    <3>1. CASE c = b
      BY SMT, SMTT(40), <1>3, <1>4, <3>1 DEF FlagsOf
    <3>2. CASE c # b
      BY ZenonT(60), <1>4, <3>2 DEF Flags, FlagsOf
    <3>. QED BY <3>1, <3>2, Zenon
  <2>2. ASSUME NEW q \in Procs PROVE NeedsOf(q)'
    <3>1. CASE q = p
      <4>1. pc'[p] \in {"asleep", "woken"} /\ pc'[p] # "asleep"
        BY ZenonT(60), <1>2, <1>5 DEF InQueue
      <4>. QED BY SMT, SMTT(40), <3>1, <4>1 DEF NeedsOf
    <3>2. CASE q # p /\ pc[q] \in Owning
      <4>1. NeedsOf(q) /\ pc'[q] = pc[q] /\ cur' = cur
            /\ dirty'[cur[q]] = dirty[cur[q]] /\ valid'[cur[q]] = valid[cur[q]]
        BY ZenonT(60), <1>4, <1>5, <1>8, <3>2 DEF Flags
      <4>. QED BY SMT, SMTT(40), <4>1 DEF NeedsOf, done
    <3>3. CASE q # p /\ pc[q] \notin Owning
      <4>1. pc'[q] \notin Owning
        BY <1>5, <3>3, Zenon
      <4>. QED BY SMT, SMTT(40), <4>1 DEF NeedsOf, Owning, Waiting
    <3>. QED BY <3>1, <3>2, <3>3, Zenon
  <2>. QED BY <2>1, <2>2, Zenon DEF Flags
<1>10. Contents'
  <2>1. ASSUME NEW c \in Bufs PROVE ContentsOf(c)'
    <3>1. CASE c = b
      BY SMT, SMTT(40), <1>4, <3>1 DEF ContentsOf
    <3>2. CASE c # b
      <4>1. blockno[c] # 0 => blockno[c] # k /\ blockno[c] \in Blocks
        <5>1. blockno[c] \in 0..NBLOCKS
          BY ZenonT(60) DEF Types, TypeOK
        <5>2. blockno[c] # 0 => blockno[c] \in Blocks
          BY SMT, SMTT(40), <5>1, SizesAssumption DEF Blocks
        <5>. QED BY <1>3, <3>2, <5>2, Zenon DEF OneBufferPerBlock
      <4>2. blockno[c] # 0 => /\ disk'[blockno[c]] = disk[blockno[c]]
                              /\ (blockno[c] \in failed' <=> blockno[c] \in failed)
        BY <4>1, Zenon
      <4>3. ContentsOf(c) /\ data'[c] = data[c] /\ dirty'[c] = dirty[c] /\ valid'[c] = valid[c]
        BY <1>4, <3>2, Zenon DEF Contents
      <4>. QED BY SMT, SMTT(40), <4>2, <4>3 DEF ContentsOf
    <3>. QED BY ZenonT(60), <3>1, <3>2
  <2>2. ASSUME NEW j \in Blocks, \A c \in Bufs : blockno'[c] # j PROVE disk'[j] = latest'[j]
    <3>1. j # k /\ \A c \in Bufs : blockno[c] # j
      BY <1>3, <2>2, Zenon
    <3>. QED BY <3>1, Zenon DEF Contents
  <2>. QED BY <2>1, <2>2, Zenon DEF Contents
<1>11. Listed' /\ OneBufferPerBlock'
  <2>1. Listed'
    BY Zenon DEF Listed
  <2>2. OneBufferPerBlock'
    BY Zenon DEF OneBufferPerBlock
  <2>. QED BY <2>1, <2>2, Zenon
<1>12. QueueExact'
  <2>1. ASSUME NEW q \in Procs PROVE InQueue(q)' <=> InQueue(q) /\ cur[q] # b
    <3>1. CASE pc[q] \notin {"asleep", "woken"}
      BY <1>5, <3>1, Zenon DEF InQueue
    <3>2. CASE cur[q] = b
      <4>1. done(cur[q])'
        BY SMT, SMTT(40), <1>4, <3>2 DEF done
      <4>. QED BY <3>2, <4>1, Zenon DEF InQueue
    <3>3. CASE pc[q] \in {"asleep", "woken"} /\ cur[q] # b
      <4>1. pc[q] \in Owning /\ q # p
        BY SMT, SMTT(40), <1>2, <3>3 DEF Owning, Waiting
      <4>2. dirty'[cur[q]] = dirty[cur[q]] /\ valid'[cur[q]] = valid[cur[q]] /\ cur' = cur
        BY ZenonT(60), <1>4, <1>8, <4>1
      <4>3. done(cur[q])' <=> done(cur[q])
        BY SMT, SMTT(40), <4>2 DEF done
      <4>. QED BY ZenonT(60), <1>5, <3>3, <4>3 DEF InQueue
    <3>. QED BY <3>1, <3>2, <3>3, Zenon
  <2>2. ASSUME NEW c PROVE c \in Range(idequeue') <=> \E q \in Procs : InQueue(q)' /\ cur'[q] = c
    <3>1. c \in Range(idequeue') <=> (\E q \in Procs : InQueue(q) /\ cur[q] = c) /\ c # b
      BY <1>1, InRange, Zenon
    <3>2. (\E q \in Procs : InQueue(q)' /\ cur'[q] = c) <=> (\E q \in Procs : InQueue(q) /\ cur[q] = c) /\ c # b
      BY ZenonT(60), <2>1
    <3>. QED BY <3>1, <3>2, Zenon
  <2>3. Range(idequeue') = {cur'[q] : q \in {r \in Procs : InQueue(r)'}}
    BY SMT, SMTT(40), <2>2
  <2>4. ASSUME idequeue' # << >> PROVE hw' = idestart(Head(idequeue))'
    <3>1. PICK c \in Bufs \ {b} : c = Head(idequeue')
      <4>1. Head(idequeue') \in Range(idequeue) \ {b} /\ Head(idequeue') \in Bufs
        <5>1. Head(idequeue') \in Bufs
          BY <1>1, <2>4
        <5>. QED BY <1>1, <2>4, <5>1, Zenon
      <4>. QED BY <4>1, Zenon
    <3>2. hw' = idestart(c)
      BY <2>4, <3>1, Zenon DEF next_start
    <3>3. dirty'[c] = dirty[c] /\ data'[c] = data[c] /\ blockno' = blockno
      BY <1>4, <3>1, Zenon
    <3>. QED BY <3>1, <3>2, <3>3, Zenon DEF idestart
  <2>5. hw' = IF idequeue' = << >> THEN NoCmd ELSE idestart(Head(idequeue))'
    BY <2>4, Zenon DEF next_start
  <2>. QED BY <1>1, <2>3, <2>5, Zenon DEF QueueExact, InQueue
<1>13. Pins'
  <2>1. ASSUME NEW c \in Bufs, c \in Pinned' PROVE c \in Pinned
    <3>1. dirty'[c] = 1 /\ \A q \in Procs : ~(cur[q] = c /\ pc'[q] \in Waiting)
      BY ZenonT(60), <2>1 DEF Pinned
    <3>2. dirty'[c] # 0
      BY <3>1
    <3>3. c # b
      BY <1>4, <3>2, Zenon
    <3>4. dirty[c] = 1 /\ \A q \in Procs : ~(cur[q] = c /\ pc[q] \in Waiting)
      BY ZenonT(60), <1>4, <1>5, <3>1, <3>3
    <3>. QED BY <3>4, Zenon DEF Pinned
  <2>. QED BY <2>1, PinsFrame, Zenon DEF Pinned
<1>. QED BY <1>6, <1>7, <1>9, <1>10, <1>11, <1>12, <1>13, Zenon

\* The disk has carried out the request at the head of the queue and interrupts.
LEMMA IdeintrInv ==
  ASSUME IInv, NEW err \in {0, 1}, ideintr(err)
  PROVE  IInv'
<1>. USE DEF IInv
<1>1. idequeue # << >>
  <2>1. hw.op # "none"
    BY Zenon DEF ideintr
  <2>2. NoCmd.op = "none"
    BY DEF NoCmd
  <2>. QED BY <2>1, <2>2, Zenon DEF QueueExact
<1>2. PICK b \in Bufs : b = Head(idequeue) /\ \E p \in Procs : InQueue(p) /\ cur[p] = b
  <2>1. Head(idequeue) \in Bufs /\ Head(idequeue) \in Range(idequeue)
    <3>1. Head(idequeue) \in Range(idequeue)
      BY <1>1, InRange, TailQueue, Zenon
    <3>2. Head(idequeue) \in Bufs
      BY SMT, SMTT(40), <1>1, InRange
    <3>. QED BY <3>1, <3>2, Zenon
  <2>. QED BY <2>1, InRange, Zenon
<1>3. PICK k \in Blocks : k = blockno[b]
  <2>1. PICK p \in Procs : InQueue(p) /\ cur[p] = b
    BY <1>2, Zenon
  <2>2. pc[p] # "idle"
    BY SMT, SMTT(40), <2>1 DEF InQueue
  <2>. QED BY <2>1, <2>2, CurTypes, Zenon
<1>4. hw = idestart(b) /\ k # 0
  BY <1>1, <1>2, BufTypes, Zenon DEF QueueExact
<1>5. /\ err = 1 => hw.op = "read"
      /\ disk' = IF hw.op = "write" THEN [disk EXCEPT ![hw.blk] = hw.val] ELSE disk
      /\ data' = IF dirty[b] = 0 /\ err = 0 THEN [data EXCEPT ![b] = disk[hw.blk]] ELSE data
      /\ failed' = IF dirty[b] = 1 THEN failed
                   ELSE IF err = 1 THEN failed \cup {k} ELSE failed \ {k}
  BY <1>2, <1>3, Zenon DEF ideintr
<1>6. /\ idequeue' = Tail(idequeue) /\ hw' = next_start(Tail(idequeue)) /\ pc' = wakeup(b)
      /\ valid' = [valid EXCEPT ![b] = 1] /\ dirty' = [dirty EXCEPT ![b] = 0]
      /\ UNCHANGED <<lru, blockno, refcnt, owner, cur, latest, writes, panicked>>
  BY <1>2, Zenon DEF ideintr
<1>7. /\ disk \in [Blocks -> 0..MaxWrites] /\ data \in [Bufs -> 0..MaxWrites] /\ failed \subseteq Blocks
      /\ dirty[b] \in {0, 1}
  BY Zenon DEF Types, TypeOK
<1>8. ContentsOf(b) /\ FlagsOf(b)
  BY Zenon DEF Contents, Flags
<1>9. CASE dirty[b] = 1
  <2>1. hw.op = "write" /\ hw.blk = k /\ hw.val = data[b]
    BY SMT, SMTT(40), <1>3, <1>4, <1>9 DEF idestart
  <2>2. disk' = [disk EXCEPT ![k] = data[b]] /\ data' = data /\ failed' = failed
    BY SMT, SMTT(40), <1>5, <1>9, <2>1
  <2>3. data[b] = latest[k]
    BY <1>3, <1>4, <1>8, <1>9, Zenon DEF ContentsOf, FlagsOf
  <2>4. /\ disk' \in [Blocks -> 0..MaxWrites] /\ data' \in [Bufs -> 0..MaxWrites] /\ failed' \subseteq Blocks
        /\ \A j \in Blocks \ {k} : disk'[j] = disk[j] /\ (j \in failed' <=> j \in failed)
        /\ \A c \in Bufs \ {b} : data'[c] = data[c]
        /\ disk'[k] = latest[k] /\ (k \notin failed' => data'[b] = latest[k])
    BY <1>7, <2>2, <2>3, Zenon
  <2>. QED BY ZenonT(60), <1>1, <1>2, <1>3, <1>6, <2>4, CompleteInv
<1>10. CASE dirty[b] = 0
  <2>1. hw.op = "read" /\ hw.blk = k /\ disk[k] = latest[k]
    BY SMT, SMTT(40), <1>3, <1>4, <1>8, <1>10 DEF idestart, ContentsOf
  <2>2. /\ disk' = disk /\ data' = IF err = 0 THEN [data EXCEPT ![b] = latest[k]] ELSE data
        /\ failed' = IF err = 1 THEN failed \cup {k} ELSE failed \ {k}
    BY SMT, SMTT(40), <1>5, <1>10, <2>1
  <2>3. /\ disk' \in [Blocks -> 0..MaxWrites] /\ disk'[k] = latest[k] /\ latest[k] \in 0..MaxWrites
        /\ \A j \in Blocks \ {k} : disk'[j] = disk[j]
    BY <1>7, <2>1, <2>2, Zenon
  <2>4. CASE err = 0
    <3>1. data' = [data EXCEPT ![b] = latest[k]] /\ failed' = failed \ {k}
      BY SMT, SMTT(40), <2>2, <2>4
    <3>2. /\ data' \in [Bufs -> 0..MaxWrites] /\ failed' \subseteq Blocks /\ data'[b] = latest[k]
          /\ \A c \in Bufs \ {b} : data'[c] = data[c]
          /\ \A j \in Blocks \ {k} : j \in failed' <=> j \in failed
      BY <1>7, <2>3, <3>1, Zenon
    <3>. QED BY ZenonT(60), <1>1, <1>2, <1>3, <1>6, <2>3, <3>2, CompleteInv
  <2>5. CASE err = 1
    <3>1. data' = data /\ failed' = failed \cup {k}
      BY SMT, SMTT(40), <2>2, <2>5
    <3>2. /\ data' \in [Bufs -> 0..MaxWrites] /\ failed' \subseteq Blocks
          /\ \A c \in Bufs \ {b} : data'[c] = data[c]
          /\ k \in failed' /\ \A j \in Blocks \ {k} : j \in failed' <=> j \in failed
      BY <1>7, <3>1, Zenon
    <3>. QED BY ZenonT(60), <1>1, <1>2, <1>3, <1>6, <2>3, <3>2, CompleteInv
  <2>. QED BY ZenonT(60), <2>4, <2>5
<1>. QED BY SMT, SMTT(40), <1>7, <1>9, <1>10
-----------------------------------------------------------------------------
(***************************************************************************)
(* The theorems.                                                           *)
(***************************************************************************)

\* The state after binit() satisfies the invariant.
LEMMA InitInv == Init => IInv
<1>. SUFFICES ASSUME Init PROVE IInv
  OBVIOUS
<1>1. 0 \in 0..MaxWrites /\ 0 \in 0..NBLOCKS /\ 0 \in 0..NBUF /\ \A i \in Bufs : NBUF + 1 - i \in Bufs
  BY SMT, SMTT(40), SizesAssumption DEF Bufs
<1>2. Types
  <2>1. lru \in [Bufs -> Bufs]
    BY SMT, SMTT(40), <1>1 DEF Init
  <2>2. hw \in [op : {"none", "read", "write"}, blk : 0..NBLOCKS, val : 0..MaxWrites]
    BY SMT, SMTT(40), <1>1 DEF Init, NoCmd
  <2>3. idequeue \in Seq(Bufs)
    BY SMT, SMTT(40) DEF Init
  <2>. QED BY Zenon, <1>1, <2>1, <2>2, <2>3 DEF Types, TypeOK, Init, Panics
<1>3. Users
  BY DEF Init, Users, UsersOf
<1>4. Owners
  BY Zenon, ProcsAssumption DEF Init, Owners, Owning, Waiting
<1>5. Flags /\ Contents
  BY DEF Init, Flags, FlagsOf, NeedsOf, Contents, ContentsOf
<1>6. Listed
  <2>1. ASSUME NEW b \in Bufs PROVE NBUF + 1 - b \in Bufs /\ lru[NBUF + 1 - b] = b
    BY SizesAssumption DEF Init, Bufs
  <2>. QED BY Zenon, <2>1 DEF Listed
<1>7. OneBufferPerBlock
  <2>1. ASSUME NEW b \in Bufs PROVE refcnt[b] = Cardinality({p \in Procs : cur[p] = b})
    <3>1. {p \in Procs : cur[p] = b} = {}
      BY SMT, SMTT(40), BufTypes DEF Init
    <3>. QED BY Zenon, <3>1, FS_EmptySet DEF Init
  <2>. QED BY Zenon, <2>1 DEF Init, OneBufferPerBlock
<1>8. QueueExact
  <2>1. IsInjective(idequeue) /\ Range(idequeue) = {} /\ hw = NoCmd /\ idequeue = << >>
    BY SMT, SMTT(40) DEF Init, IsInjective, Range
  <2>2. {q \in Procs : pc[q] \in {"asleep", "woken"} /\ ~done(cur[q])} = {}
    BY DEF Init
  <2>. QED BY SMT, SMTT(40), <2>1, <2>2 DEF QueueExact
<1>9. Pins
  <2>1. Pinned = {}
    BY DEF Init, Pinned
  <2>. QED BY SMT, SMTT(40), <2>1, FS_EmptySet, SizesAssumption DEF Pins
<1>. QED BY <1>2, <1>3, <1>4, <1>5, <1>6, <1>7, <1>8, <1>9, Zenon DEF IInv

\* Every step keeps the invariant.
LEMMA NextInv ==
  ASSUME IInv, [Next]_vars
  PROVE  IInv'
<1>1. CASE UNCHANGED vars
  <2>1. UNCHANGED <<bufVars, ideVars, pc, cur, latest, failed, writes>> /\ panicked' = panicked
    BY <1>1, Zenon DEF vars, ghosts
  <2>2. panicked \in Panics
    BY Zenon DEF IInv, Types
  <2>. QED BY <2>1, <2>2, NothingInv, Zenon
<1>2. CASE Stopped
  BY <1>1, <1>2, Zenon DEF Stopped
<1>3. ASSUME NEW p \in Procs, bget(p) \/ Change(p) \/ WritePinned(p) \/ kill(p) PROVE IInv'
  BY <1>3, BgetInv, ChangeInv, WritePinnedInv, KillInv, Zenon
<1>4. ASSUME NEW p \in Procs, Step(p) PROVE IInv'
  BY <1>4, BreadInv, BrelseInv, BrelseRefcntInv, IderwInv, IderwWokenInv, Zenon DEF Step
<1>5. ASSUME NEW err \in {0, 1}, ideintr(err) PROVE IInv'
  BY <1>5, IdeintrInv, Zenon
<1>. QED BY <1>1, <1>2, <1>3, <1>4, <1>5, Zenon DEF Next

\* For any number of processes, buffers, blocks, calls and failed reads, the
\* buffer cache and the disk driver keep the invariant.
THEOREM Invariant == Spec => []IInv
<1>1. Init => IInv
  BY SMT, SMTT(40), InitInv
<1>2. IInv /\ [Next]_vars => IInv'
  BY SMT, SMTT(40), NextInv
<1>. QED BY <1>1, <1>2, PTL DEF Spec

\* The holder of a block sees its last version, and no version is lost: through
\* recycling, pinning, the request queue and the disk, even after a failed read
\* and when bget() has run out of buffers.
THEOREM Kept == Spec => []LatestKept
<1>1. ASSUME IInv PROVE LatestKept
  <2>. USE <1>1 DEF IInv
  <2>1. ASSUME NEW p \in Procs, pc[p] = "hold", blockno[cur[p]] \notin failed
        PROVE  data[cur[p]] = latest[blockno[cur[p]]]
    <3>1. cur[p] \in Bufs /\ blockno[cur[p]] # 0
      <4>1. pc[p] # "idle"
        BY <2>1
      <4>. QED BY <4>1, CurTypes, BufTypes, Zenon
    <3>2. valid[cur[p]] = 1
      BY <2>1, Zenon DEF Flags, NeedsOf
    <3>. QED BY <2>1, <3>1, <3>2, Zenon DEF Contents, ContentsOf
  <2>2. ASSUME NEW k \in Blocks, disk[k] # latest[k]
        PROVE  \E b \in Bufs : blockno[b] = k /\ valid[b] = 1 /\ data[b] = latest[k]
                 /\ (dirty[b] = 1 \/ owner[b] # Nobody)
    <3>1. PICK b \in Bufs : blockno[b] = k
      BY <2>2, Zenon DEF Contents
    <3>2. k # 0 /\ dirty[b] \in {0, 1}
      BY BufTypes, Zenon DEF Types, TypeOK
    <3>3. dirty[b] # 0
      BY <2>2, <3>1, <3>2, Zenon DEF Contents, ContentsOf
    <3>4. dirty[b] = 1
      BY <3>2, <3>3, Zenon
    <3>5. valid[b] = 1
      BY <3>4, Zenon DEF Flags, FlagsOf
    <3>6. data[b] = latest[k]
      BY <3>1, <3>2, <3>4, <3>5, Zenon DEF Contents, ContentsOf
    <3>. QED BY <3>1, <3>4, <3>5, <3>6, Zenon
  <2>. QED BY <2>1, <2>2, Zenon DEF LatestKept, ReadsLatest, NothingLost
<1>. QED BY <1>1, Invariant, PTL

\* With a buffer for every process and every block that the log may pin, bget()
\* never runs out: a buffer that cannot be recycled is pinned or in use, and the
\* caller uses none.
LEMMA BufferLeft ==
  ASSUME IInv, Cardinality(Procs) + MaxPins <= NBUF, NEW p \in Procs, pc[p] = "idle"
  PROVE  \E b \in Bufs : recyclable(b)
<1>. USE DEF IInv
<1>. DEFINE InUse == {cur[q] : q \in Procs \ {p}}
<1>1. /\ IsFiniteSet(Procs \ {p}) /\ Cardinality(Procs \ {p}) = Cardinality(Procs) - 1
      /\ Cardinality(Procs) \in Nat
  BY Zenon, ProcsAssumption, FS_RemoveElement, FS_CardinalityType
<1>2. IsFiniteSet(InUse) /\ Cardinality(InUse) <= Cardinality(Procs) - 1
  <2>. DEFINE f == [q \in Procs \ {p} |-> cur[q]]
  <2>1. f \in Surjection(Procs \ {p}, InUse)
    BY SMT, SMTT(40) DEF Surjection
  <2>. HIDE DEF f, InUse
  <2>. QED BY SMT, SMTT(40), <1>1, <2>1, FS_Surjection
<1>3. IsFiniteSet(Pinned) /\ Cardinality(Pinned) <= MaxPins
  BY SMT, SMTT(40), BufTypes, FS_Subset DEF Pinned, Pins
<1>4. /\ IsFiniteSet(InUse \cup Pinned)
      /\ Cardinality(InUse \cup Pinned) <= Cardinality(InUse) + Cardinality(Pinned)
  <2>. HIDE DEF InUse
  <2>1. IsFiniteSet(InUse \cup Pinned) /\ IsFiniteSet(InUse \cap Pinned)
        /\ Cardinality(InUse \cup Pinned) = Cardinality(InUse) + Cardinality(Pinned) - Cardinality(InUse \cap Pinned)
    BY Zenon, <1>2, <1>3, FS_Union, FS_Intersection
  <2>2. /\ Cardinality(InUse \cap Pinned) \in Nat /\ Cardinality(InUse) \in Nat
        /\ Cardinality(Pinned) \in Nat
    BY SMT, SMTT(40), <1>2, <1>3, <2>1, FS_CardinalityType
  <2>. QED BY SMT, SMTT(40), <2>1, <2>2
<1>5. SUFFICES ASSUME \A b \in Bufs : ~recyclable(b) PROVE FALSE
  BY Zenon
<1>6. Bufs \subseteq InUse \cup Pinned
  <2>1. ASSUME NEW b \in Bufs, b \notin Pinned PROVE b \in InUse
    <3>1. \E q \in Procs : cur[q] = b
      <4>1. CASE dirty[b] = 1
        BY <2>1, <4>1, Zenon DEF Pinned
      <4>2. CASE dirty[b] # 1
        <5>1. dirty[b] = 0
          BY <4>2, Zenon DEF Types, TypeOK
        <5>2. refcnt[b] # 0
          BY <1>5, <5>1, Zenon DEF recyclable
        <5>3. Cardinality({q \in Procs : cur[q] = b}) # 0
          BY <5>2, Zenon DEF OneBufferPerBlock
        <5>4. {q \in Procs : cur[q] = b} # {}
          BY SMT, SMTT(40), <5>3, FS_EmptySet
        <5>. QED BY SMT, SMTT(40), <5>4
      <4>. QED BY <4>1, <4>2, Zenon
    <3>2. cur[p] # b
      BY CurTypes, BufTypes, Zenon
    <3>. QED BY <3>1, <3>2, Zenon
  <2>. QED BY <2>1, Zenon
<1>7. Cardinality(Bufs) = NBUF /\ NBUF \in Nat /\ MaxPins \in Nat
  BY SMT, SMTT(40), SizesAssumption, FS_Interval DEF Bufs
<1>. HIDE DEF InUse
<1>8. Cardinality(Bufs) <= Cardinality(InUse \cup Pinned)
  BY Zenon, <1>4, <1>6, FS_Subset
<1>9. /\ Cardinality(InUse \cup Pinned) \in Nat /\ Cardinality(InUse) \in Nat
      /\ Cardinality(Pinned) \in Nat
  BY Zenon, <1>2, <1>3, <1>4, FS_CardinalityType
<1>. QED BY SMT, SMTT(40), <1>1, <1>2, <1>3, <1>4, <1>7, <1>8, <1>9

\* As long as NBUF is at least the number of processes and of blocks that the
\* log may pin, the cache and the driver agree and neither panics.
THEOREM Consistent ==
  ASSUME Cardinality(Procs) + MaxPins <= NBUF
  PROVE  Spec => []CacheConsistent
<1>1. Init => NoPanic
  BY Zenon DEF Init, NoPanic
<1>2. IInv /\ NoPanic /\ [Next]_vars => NoPanic'
  <2>. SUFFICES ASSUME IInv, NoPanic, [Next]_vars PROVE NoPanic'
    BY Zenon
  <2>1. ASSUME NEW p \in Procs, bget(p) PROVE NoPanic'
    <3>1. \E b \in Bufs : recyclable(b)
      BY <2>1, BufferLeft, Zenon DEF bget
    <3>. QED BY <2>1, <3>1, Zenon DEF bget, NoPanic
  <2>2. ASSUME NEW p \in Procs, iderw(p) PROVE NoPanic'
    <3>1. ~done(cur[p])
      BY <2>2, Zenon DEF IInv, Flags, NeedsOf, iderw
    <3>. QED BY <2>2, <3>1, Zenon DEF iderw, NoPanic, done
  <2>3. ASSUME NEW p \in Procs, bread(p) \/ brelse(p) \/ brelse_refcnt(p) \/ iderw_woken(p)
        PROVE  NoPanic'
    BY <2>3, Zenon DEF bread, brelse, brelse_refcnt, iderw_woken, ghosts, NoPanic
  <2>4. ASSUME NEW p \in Procs, Change(p) \/ WritePinned(p) \/ kill(p) PROVE NoPanic'
    BY <2>4, Zenon DEF Change, WritePinned, kill, ghosts, NoPanic
  <2>5. ASSUME NEW err \in {0, 1}, ideintr(err) PROVE NoPanic'
    BY <2>5, Zenon DEF ideintr, NoPanic
  <2>6. CASE Stopped \/ UNCHANGED vars
    BY <2>6, Zenon DEF Stopped, vars, ghosts, NoPanic
  <2>. QED BY <2>1, <2>2, <2>3, <2>4, <2>5, <2>6, Zenon DEF Next, Step
<1>3. IInv /\ NoPanic => CacheConsistent
  BY Zenon DEF IInv, Types, CacheConsistent
<1>. QED BY <1>1, <1>2, <1>3, Invariant, PTL DEF Spec
=============================================================================
