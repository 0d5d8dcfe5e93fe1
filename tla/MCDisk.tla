------------------------------- MODULE MCDisk -------------------------------
(***************************************************************************)
(* Below and above the log: the buffer cache with the IDE driver (Buffers),*)
(* and the blocks of files with the bitmap, from mkfs on (Blocks).  They   *)
(* share no variable: a behaviour is one of either, chosen at the start.   *)
(***************************************************************************)
EXTENDS Buffers

CONSTANTS
  BSIZE, BPB, FSSIZE, NDIRECT, NINDIRECT, nlog, ninodeblocks, MAXOPBLOCKS,
  NFILES, FileSizes, Counts, MaxOps

VARIABLES
  part,
  b_fs, b_todo, b_freeblock, b_call, b_contents, b_ops, b_panicked

blockvars == <<b_fs, b_todo, b_freeblock, b_call, b_contents, b_ops, b_panicked>>
allvars == <<part, vars, blockvars>>

B ==
  INSTANCE Blocks WITH
    fs <- b_fs, todo <- b_todo, freeblock <- b_freeblock, call <- b_call,
    contents <- b_contents, ops <- b_ops, panicked <- b_panicked

MCInit ==
  /\ part \in {"buffers", "blocks"}
  /\ Init /\ B!Init
  \* of the sizes that mkfs may be given, one will do for the cache
  /\ part = "buffers" => \A i \in 1..Len(b_todo) : b_todo[i][1] # 2 \/ b_todo[i][2] = 1

MCNext ==
  \/ part = "buffers" /\ Next /\ UNCHANGED <<part, blockvars>>
  \/ part = "blocks" /\ B!Next /\ UNCHANGED <<part, vars>>

\* The fairness of Buffers, when it runs.
MCFairness ==
  /\ WF_vars(part = "buffers" /\ \E err \in {0, 1} : ideintr(err))
  /\ \A p \in Procs : WF_vars(part = "buffers" /\ Step(p))

MCSpec == MCInit /\ [][MCNext]_allvars /\ MCFairness
-----------------------------------------------------------------------------
(***************************************************************************)
(* The properties of Blocks (Buffers' are its own).                        *)
(***************************************************************************)

\* Between calls the bitmap, the inodes and the blocks they refer to agree, in
\* the cache and on disk, and no panic of fs.c or assertion of mkfs.c fails.
FsckClean == B!FsckClean

\* readi() returns what writei() has put in a file, and changes no block.
FilesReadBack == B!FilesReadBack

\* filewrite()'s chunks stay within MAXOPBLOCKS.
TransactionFits == B!TransactionFits
=============================================================================
