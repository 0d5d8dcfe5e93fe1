------------------------------- MODULE MCProc -------------------------------
(***************************************************************************)
(* Instances for TLC: the process table (Proc) on several CPUs; the same   *)
(* with room for a great-grandchild of init on one CPU; the processes'     *)
(* memory (Memory).  They share no variable: a behaviour is one of them,   *)
(* chosen at the start.  The CPUs are interchangeable.                     *)
(***************************************************************************)
EXTENDS Proc, TLC

CONSTANTS
  NFRAMES, PGSIZE, NPT, NPAGES, MaxCalls

VARIABLES
  part,
  t_state, t_pid, t_parent, t_killed, t_chan, t_kstack, t_pc, t_ret, t_np,
  t_sv, t_run, t_idx, t_lock, t_intena, t_fl_if, t_nextpid, t_panicked,
  m_free, m_other, m_st, m_kstack, m_sz, m_as, m_na, m_loc, m_guard,
  m_calls, m_panicked

treevars ==
  <<t_state, t_pid, t_parent, t_killed, t_chan, t_kstack, t_pc, t_ret, t_np,
    t_sv, t_run, t_idx, t_lock, t_intena, t_fl_if, t_nextpid, t_panicked>>
memvars ==
  <<m_free, m_other, m_st, m_kstack, m_sz, m_as, m_na, m_loc, m_guard,
    m_calls, m_panicked>>
allvars == <<part, vars, treevars, memvars>>

CPUSymmetry == Permutations(CPUs)

\* Four slots on one CPU, without kill().
T ==
  INSTANCE Proc WITH
    NPROC <- 4, CPUs <- {"cpu"}, NoCPU <- "none", MaxPid <- 4, KillTargets <- {},
    state <- t_state, pid <- t_pid, parent <- t_parent, killed <- t_killed,
    chan <- t_chan, kstack <- t_kstack, pc <- t_pc, ret <- t_ret, np <- t_np,
    sv <- t_sv, run <- t_run, idx <- t_idx, lock <- t_lock, intena <- t_intena,
    fl_if <- t_fl_if, nextpid <- t_nextpid, panicked <- t_panicked

\* Two processes; sizes within a page, at its end, and across a page table.
M ==
  INSTANCE Memory WITH
    Procs <- {"p1", "p2"}, Initproc <- "p1",
    Held <- {0, 2, 4, 5}, Ends <- {1, 4}, Sbrks <- {3, -2, -9}, Argvs <- {1, 2, 3},
    free <- m_free, other <- m_other, st <- m_st, kstack <- m_kstack,
    sz <- m_sz, as <- m_as, na <- m_na, loc <- m_loc, guard <- m_guard,
    calls <- m_calls, panicked <- m_panicked

MCInit ==
  /\ part \in {"proc", "tree", "memory"}
  /\ Init /\ T!Init /\ M!Init
  /\ part # "memory" => m_other = {}

MCNext ==
  \/ part = "proc" /\ Next /\ UNCHANGED <<part, treevars, memvars>>
  \/ part = "tree" /\ T!Next /\ UNCHANGED <<part, vars, memvars>>
  \/ part = "memory" /\ M!Next /\ UNCHANGED <<part, vars, treevars>>

MCSpec == MCInit /\ [][MCNext]_allvars
-----------------------------------------------------------------------------
(***************************************************************************)
(* The properties of the deeper tree and of Memory (Proc's are its own).   *)
(***************************************************************************)

\* No process sleeps in wait() over a child that has exited, also where exit()
\* hands a zombie over to an init that is asleep: neither an exit nor a kill
\* slips between the scan of wait() and its sleep().
ExitsNoticed == NoLostExit /\ T!NoLostExit

\* Every frame is free or has one owner, at every step of fork(), exec(),
\* sbrk(), exit() and wait(), through all their error paths; so none is freed
\* twice and no page is mapped over another.
FrameOwnedOnce == part = "memory" => M!TypeOK /\ M!FrameOwnedOnce /\ M!NoPanic

\* Between calls a process has the pages below sz, the page that exec() puts
\* below the stack out of its reach, and its arguments above that page.
AddressSpaceExact == part = "memory" => M!AddressSpaceExact
=============================================================================
