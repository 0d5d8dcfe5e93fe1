------------------------------- MODULE Blocks -------------------------------
(***************************************************************************)
(* The contents of files: mkfs.c makes the disk, and fs.c maps, reads,     *)
(* writes and truncates files on it (balloc, bfree, bmap, itrunc, readi,   *)
(* writei), called by file.c's fileread() and filewrite().                 *)
(*                                                                         *)
(* One call runs at a time: a file's lock is held throughout (Names), and  *)
(* calls on different files share only the bitmap, which balloc() and      *)
(* bfree() change under its buffer's lock (Buffers).  A block is BSIZE     *)
(* values; a value is a byte of data, a directory entry, or, in an         *)
(* indirect block, a block number.                                         *)
(***************************************************************************)
EXTENDS Integers, Sequences, FiniteSets, FiniteSetsExt, Functions

CONSTANTS
  BSIZE, BPB,          \* values, and bits of the bitmap, in a block
  FSSIZE,              \* blocks on the disk
  NDIRECT, NINDIRECT,  \* of an inode's addrs
  nlog, ninodeblocks,  \* mkfs.c's layout
  MAXOPBLOCKS,
  NFILES,              \* files that mkfs is given
  FileSizes,           \* their sizes
  Counts,              \* arguments of read() and write()
  MaxOps               \* calls in a behaviour

nbitmap == FSSIZE \div BPB + 1
nmeta == 2 + nlog + ninodeblocks + nbitmap
MAXFILE == NDIRECT + NINDIRECT
BlockNos == 0..(FSSIZE - 1)
Inums == 1..(NFILES + 2)          \* the root, mkfs's files and a new one
Zero == [i \in 0..(BSIZE - 1) |-> 0]
NoInode == [addrs |-> [i \in 0..NDIRECT |-> 0], size |-> 0]

VARIABLES
  fs,        \* used: the bits of the bitmap; blk: the blocks; ino: the cached
             \* inodes; dino: the inodes on disk; logged: the blocks written in
             \* this transaction
  todo,      \* what mkfs has still to append: inode, count and value
  freeblock, \* mkfs's counter
  call,      \* the call in progress
  contents,  \* what each file should hold, a sequence of values
  ops, panicked

vars == <<fs, todo, freeblock, call, contents, ops, panicked>>

NoCall == [op |-> "none", f |-> 0, off |-> 0, n |-> 0, left |-> 0, v |-> 0, got |-> << >>]

\* mkfs's main(): "." and ".." in the root, then, for each file, its entry in
\* the root and its contents, a block at a time.
Appends(f, size) ==
  << <<1, 1, f>> >> \o
  [k \in 1..((size + BSIZE - 1) \div BSIZE) |-> <<f, Min({BSIZE, size - (k - 1) * BSIZE}), f>>]

Init ==
  /\ fs = [used |-> {}, blk |-> [b \in BlockNos |-> Zero],
           ino |-> [f \in Inums |-> NoInode], dino |-> [f \in Inums |-> NoInode],
           logged |-> {}]
  /\ \E size \in FileSizes :
       todo = << <<1, 1, 1>>, <<1, 1, 1>> >>
              \o (IF NFILES > 0 THEN Appends(2, size) ELSE << >>)
              \o (IF NFILES > 1 THEN Appends(3, size) ELSE << >>)
  /\ freeblock = nmeta
  /\ call = NoCall
  /\ contents = [f \in Inums |-> << >>]
  /\ ops = 0 /\ panicked = "none"

\* Block d with m copies of v from the offset that off has in its block.
Filled(d, off, m, v) ==
  [i \in DOMAIN Zero |-> IF (off % BSIZE) <= i /\ i < (off % BSIZE) + m THEN v ELSE d[i]]

\* s with n copies of v from offset off on; s may grow.
Overlay(s, off, n, v) ==
  [i \in 1..Max({Len(s), off + n}) |-> IF i > off /\ i <= off + n THEN v ELSE s[i]]
-----------------------------------------------------------------------------
(***************************************************************************)
(* mkfs.c.                                                                 *)
(***************************************************************************)

\* One round of iappend()'s loop: freeblock++ where the block, or the indirect
\* block, is missing.
iappend ==
  LET f == Head(todo)[1]  n == Head(todo)[2]  v == Head(todo)[3]
      d == fs.dino[f]  off == d.size  fbn == off \div BSIZE
      n1 == Min({n, (fbn + 1) * BSIZE - off})
      slot == IF fbn < NDIRECT THEN fbn ELSE NDIRECT
      fresh == d.addrs[slot] = 0
      top == IF fresh THEN freeblock ELSE d.addrs[slot]
      after == IF fresh THEN freeblock + 1 ELSE freeblock
      below == IF fresh THEN 0 ELSE fs.blk[top][fbn - NDIRECT]
      x == IF fbn < NDIRECT THEN top ELSE IF below = 0 THEN after ELSE below
      linked == IF fbn < NDIRECT THEN fs.blk ELSE [fs.blk EXCEPT ![top][fbn - NDIRECT] = x]
  IN
  /\ todo # << >> /\ panicked = "none"
  /\ IF fbn >= MAXFILE
       THEN panicked' = "fbn < MAXFILE" /\ UNCHANGED <<fs, todo, freeblock, contents>>
       ELSE /\ fs' = [fs EXCEPT
                 !.dino[f] = [addrs |-> [d.addrs EXCEPT ![slot] = top], size |-> off + n1],
                 !.blk = [linked EXCEPT ![x] = Filled(@, off, n1, v)]]
            /\ freeblock' = IF x = after THEN after + 1 ELSE after
            /\ todo' = IF n1 = n THEN Tail(todo) ELSE << <<f, n - n1, v>> >> \o Tail(todo)
            /\ contents' = [contents EXCEPT ![f] = Overlay(@, off, n1, v)]
            /\ UNCHANGED panicked
  /\ UNCHANGED <<call, ops>>

\* The root's size is rounded up to whole blocks.  Mutant: as if it were
\* counted in blocks.
RootSize_blocks(size) == (size + 1) * BSIZE

RootSize(size) == (size \div BSIZE + 1) * BSIZE

\* The bitmap that mkfs's balloc() writes.  Mutant: one bit short.
first_blocks_short(n) == 0..(n - 2)

first_blocks(n) == 0..(n - 1)

\* The end of main(): the root's size and the bitmap, of which balloc() writes
\* one block.  The kernel then reads inodes from disk.
mkfs_done ==
  LET d == [fs.dino EXCEPT ![1].size = RootSize(@)] IN
  /\ todo = << >> /\ fs.used = {} /\ panicked = "none"
  /\ IF freeblock >= BPB
       THEN panicked' = "used < BSIZE*8" /\ UNCHANGED <<fs, contents>>
       ELSE /\ fs' = [fs EXCEPT !.dino = d, !.ino = d, !.used = first_blocks(freeblock)]
            /\ contents' = [contents EXCEPT ![1] =
                 [i \in 1..d[1].size |-> IF i <= Len(@) THEN @[i] ELSE 0]]
            /\ UNCHANGED panicked
  /\ UNCHANGED <<todo, freeblock, call, ops>>

Up == fs.used # {} /\ panicked = "none"
-----------------------------------------------------------------------------
(***************************************************************************)
(* fs.c: blocks.  The operators map a file system to the one afterwards.   *)
(***************************************************************************)
FreeBlocks(s) == BlockNos \ s.used

BitmapBlock(b) == <<"bitmap", b \div BPB>>
InodeBlock == <<"inode", 0>>
Data(b) == <<"block", b>>

\* balloc() takes the first free block: its bit, and bzero().
balloc(s) ==
  LET b == Min(FreeBlocks(s)) IN
  [s EXCEPT !.used = @ \cup {b}, !.blk[b] = Zero,
            !.logged = @ \cup {BitmapBlock(b), Data(b)}]

\* addrs[i] of file f, allocated if it is 0.
bmap_slot(s, f, i) ==
  IF s.ino[f].addrs[i] # 0 THEN s
  ELSE [balloc(s) EXCEPT !.ino[f].addrs[i] = Min(FreeBlocks(s))]

bmap(s, f, bn) ==
  IF bn < NDIRECT THEN bmap_slot(s, f, bn)
  ELSE LET t == bmap_slot(s, f, NDIRECT)  a == t.ino[f].addrs[NDIRECT]  j == bn - NDIRECT IN
       IF t.blk[a][j] # 0 THEN t
       ELSE [balloc(t) EXCEPT !.blk[a][j] = Min(FreeBlocks(t)), !.logged = @ \cup {Data(a)}]

\* The block number that bmap() returns in the file system it leaves.
Addr(s, f, bn) ==
  IF bn < NDIRECT THEN s.ino[f].addrs[bn]
  ELSE s.blk[s.ino[f].addrs[NDIRECT]][bn - NDIRECT]

\* The blocks that itrunc() frees: those below the indirect block, then the
\* indirect block itself.  Mutant: without the indirect block.
itrunc_blocks_direct(s, f) ==
  LET a == s.ino[f].addrs[NDIRECT] IN
  ({s.ino[f].addrs[i] : i \in 0..(NDIRECT - 1)}
   \cup (IF a = 0 THEN {} ELSE {s.blk[a][j] : j \in 0..(NINDIRECT - 1)})) \ {0}

itrunc_blocks(s, f) ==
  LET a == s.ino[f].addrs[NDIRECT] IN
  ({s.ino[f].addrs[i] : i \in 0..NDIRECT}
   \cup (IF a = 0 THEN {} ELSE {s.blk[a][j] : j \in 0..(NINDIRECT - 1)})) \ {0}

\* itrunc(), when the last reference to a file without names is put.
itrunc(f) ==
  LET B == itrunc_blocks(fs, f) IN
  /\ Up /\ call = NoCall /\ ops < MaxOps /\ f # 1
  /\ ops' = ops + 1
  /\ IF B \subseteq fs.used
       THEN /\ fs' = [fs EXCEPT !.used = @ \ B, !.ino[f] = NoInode, !.dino[f] = NoInode,
                                !.logged = {BitmapBlock(b) : b \in B} \cup {InodeBlock}]
            /\ contents' = [contents EXCEPT ![f] = << >>]
            /\ UNCHANGED panicked
       ELSE panicked' = "freeing free block" /\ UNCHANGED <<fs, contents>>
  /\ UNCHANGED <<todo, freeblock, call>>
-----------------------------------------------------------------------------
(***************************************************************************)
(* read() and write().                                                     *)
(***************************************************************************)

\* fileread(): readi() refuses an offset past the end and cuts n there.
fileread(f, off, n) ==
  LET size == fs.ino[f].size IN
  /\ Up /\ call = NoCall /\ ops < MaxOps
  /\ off <= size
  /\ ops' = ops + 1
  /\ call' = [NoCall EXCEPT !.op = "read", !.f = f, !.off = off,
                            !.n = Min({n, size - off}), !.left = Min({n, size - off})]
  /\ fs' = [fs EXCEPT !.logged = {}]
  /\ UNCHANGED <<todo, freeblock, contents, panicked>>

\* The count of one round of the loops of readi() and writei(): up to the end
\* of the block.  Mutant: up to a block's length.
round_block(c) == Min({c.left, BSIZE})

round(c) == Min({c.left, BSIZE - (c.off % BSIZE)})

readi(c) ==
  LET s == bmap(fs, c.f, c.off \div BSIZE)  m == round(c)
      b == s.blk[Addr(s, c.f, c.off \div BSIZE)]
  IN
  /\ c.op = "read" /\ c.left > 0
  /\ fs' = s
  /\ call' = [c EXCEPT !.off = @ + m, !.left = @ - m,
                       !.got = @ \o [i \in 1..m |-> b[((c.off + i) - 1) % BSIZE]]]
  /\ UNCHANGED <<todo, freeblock, contents, ops, panicked>>

read_done(c) ==
  /\ c.op = "read" /\ c.left = 0
  /\ call' = NoCall
  /\ UNCHANGED <<fs, todo, freeblock, contents, ops, panicked>>

\* The most that filewrite() passes to one writei().  Mutant: the blocks that
\* allocation changes are not counted.
chunk_all == MAXOPBLOCKS * BSIZE

chunk == ((MAXOPBLOCKS - 1 - 1 - 2) \div 2) * BSIZE

\* filewrite() of n values; v is the number of the call.
filewrite(f, off, n) ==
  /\ Up /\ call = NoCall /\ ops < MaxOps
  /\ off <= fs.ino[f].size + 1
  /\ ops' = ops + 1
  /\ call' = [NoCall EXCEPT !.op = "filewrite", !.f = f, !.off = off, !.n = n, !.v = 10 + ops]
  /\ UNCHANGED <<fs, todo, freeblock, contents, panicked>>

\* The head of filewrite()'s loop: begin_op(), and writei()'s checks of the
\* next chunk.
write_chunk(c) ==
  LET n1 == Min({c.n, chunk}) IN
  /\ c.op = "filewrite"
  /\ IF c.n = 0 \/ c.off > fs.ino[c.f].size \/ c.off + n1 > MAXFILE * BSIZE
       THEN call' = NoCall /\ UNCHANGED <<fs, contents>>
       ELSE /\ call' = [c EXCEPT !.op = "writei", !.left = n1, !.n = @ - n1]
            /\ contents' = [contents EXCEPT ![c.f] = Overlay(@, c.off, n1, c.v)]
            /\ fs' = [fs EXCEPT !.logged = {}]
  /\ UNCHANGED <<todo, freeblock, ops, panicked>>

writei(c) ==
  LET bn == c.off \div BSIZE  s == bmap(fs, c.f, bn)  m == round(c)  b == Addr(s, c.f, bn) IN
  /\ c.op = "writei" /\ c.left > 0
  /\ fs' = [s EXCEPT !.logged = @ \cup {Data(b)},
                     !.blk[b] = Filled(@, c.off, m, c.v)]
  /\ call' = [c EXCEPT !.off = @ + m, !.left = @ - m]
  /\ UNCHANGED <<todo, freeblock, contents, ops, panicked>>

\* writei()'s new size.  Mutant: it grows although the place was there.
grown_always(size, off) == size + 1

grown(size, off) == Max({size, off})

\* Mutant: the inode is not written.
iupdate_not(s, f) == s

iupdate(s, f) == [s EXCEPT !.dino[f] = s.ino[f], !.logged = @ \cup {InodeBlock}]

\* The end of writei(): iupdate(), only when the size has grown.
write_size(c) ==
  LET size == grown(fs.ino[c.f].size, c.off) IN
  /\ c.op = "writei" /\ c.left = 0
  /\ fs' = IF size > fs.ino[c.f].size
             THEN iupdate([fs EXCEPT !.ino[c.f].size = size], c.f)
             ELSE fs
  /\ call' = [c EXCEPT !.op = "filewrite"]
  /\ UNCHANGED <<todo, freeblock, contents, ops, panicked>>

\* The calls are over, or an assertion or a panic has stopped the program.
Stopped ==
  /\ panicked # "none" \/ (ops = MaxOps /\ call = NoCall)
  /\ UNCHANGED vars

Next ==
  \/ iappend \/ mkfs_done
  \/ \E f \in Inums : itrunc(f)
  \/ \E f \in Inums, off \in 0..(MAXFILE * BSIZE), n \in Counts :
       fileread(f, off, n) \/ filewrite(f, off, n)
  \/ readi(call) \/ read_done(call)
  \/ write_chunk(call) \/ writei(call) \/ write_size(call)
  \/ Stopped

Spec == Init /\ [][Next]_vars
-----------------------------------------------------------------------------
(***************************************************************************)
(* Properties.                                                             *)
(***************************************************************************)
Inodes == [addrs : [0..NDIRECT -> BlockNos], size : 0..(MAXFILE * BSIZE)]

TypeOK ==
  /\ fs.used \subseteq BlockNos /\ fs.blk \in [BlockNos -> [DOMAIN Zero -> Nat]]
  /\ fs.ino \in [Inums -> Inodes] /\ fs.dino \in [Inums -> Inodes]
  /\ freeblock \in nmeta..FSSIZE /\ ops \in 0..MaxOps

Quiet == Up /\ call = NoCall

\* The number of places that refer to block b.
Refs(b) ==
  Cardinality({x \in Inums \X (0..NDIRECT) : fs.ino[x[1]].addrs[x[2]] = b})
  + Cardinality({x \in Inums \X (0..(NINDIRECT - 1)) :
       /\ fs.ino[x[1]].addrs[NDIRECT] # 0
       /\ fs.blk[fs.ino[x[1]].addrs[NDIRECT]][x[2]] = b})

\* The bitmap is exact: between calls, the blocks in use are those before the
\* data area and those that exactly one place of one file refers to.  Blocks
\* are neither leaked nor shared, from mkfs on.
BitmapExact ==
  Quiet => \A b \in BlockNos :
    IF b < nmeta THEN b \in fs.used /\ (b = 0 \/ Refs(b) = 0)
    ELSE Refs(b) = IF b \in fs.used THEN 1 ELSE 0

\* A file has no holes, so that bmap() allocates only for a writei() that goes
\* on to write the inode.
NoHoles ==
  Quiet => \A f \in Inums, bn \in 0..(MAXFILE - 1) :
    bn * BSIZE < fs.ino[f].size =>
      /\ fs.ino[f].addrs[IF bn < NDIRECT THEN bn ELSE NDIRECT] # 0
      /\ Addr(fs, f, bn) # 0

\* The inode on disk is the one in the cache after every call: iput() may drop
\* the cached one.
InodeOnDisk == Quiet => fs.ino = fs.dino

\* read() returns what the last write() of each place has put there, across
\* blocks, the indirect block, truncation and reuse of blocks.
ReadBack ==
  call.op = "read" /\ call.left = 0 =>
    call.got = SubSeq(contents[call.f], call.off - call.n + 1, call.off)

\* read() changes no block: fileread() runs outside a transaction, where
\* log_write() panics.
ReadWritesNothing == call.op = "read" => fs.logged = {}

\* Each chunk of write() changes at most the MAXOPBLOCKS blocks that begin_op()
\* reserves for it.
TransactionFits == call.op \in {"writei", "filewrite"} => Cardinality(fs.logged) <= MAXOPBLOCKS

\* No panic of fs.c, and no assertion of mkfs.c, fails.
NoPanic == panicked = "none"

\* What a file system checker would look for, from mkfs on and after any
\* sequence of open(), read() and write(): leaked and shared blocks, holes,
\* inodes not written back; and no panic on the way.
FsckClean == TypeOK /\ BitmapExact /\ NoHoles /\ InodeOnDisk /\ NoPanic

\* read() returns what write() has put in a file, and changes nothing.
FilesReadBack == ReadWritesNothing /\ ReadBack
=============================================================================
