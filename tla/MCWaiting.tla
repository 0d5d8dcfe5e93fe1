----------------------------- MODULE MCWaiting ------------------------------
(***************************************************************************)
(* The places where a process waits for another or for a device: sleep     *)
(* locks (SleepLock), pipes (Pipe), the console (Console), the clock       *)
(* (Syscall).  They share no variable, so that a behaviour is one of any   *)
(* of them, chosen at the start.                                           *)
(***************************************************************************)
EXTENDS SleepLock, Sequences

CONSTANTS
  Users,                 \* the processes of the pipe, the console and the clock
  PIPESIZE, INPUT_BUF, WRAP, Counts, Sleeps,
  MaxBytes, MaxKeys, MaxKills, MaxSyscalls

VARIABLES
  part,   \* the part of the kernel that runs
  p_plock, p_data, p_nread, p_nwrite, p_readopen, p_writeopen, p_freed,
  p_pc, p_left, p_killed, p_sent, p_received,
  c_clock, c_buf, c_r, c_w, c_e, c_pc, c_n, c_target, c_got, c_killed,
  c_keys,
  s_ticks, s_tickslock, s_shared_int, s_num_sys_calls,
  s_shared_syscall_num, s_pc, s_n, s_ticks0, s_elapsed, s_seen, s_ret,
  s_killed, s_calls

pipevars ==
  <<p_plock, p_data, p_nread, p_nwrite, p_readopen, p_writeopen, p_freed,
  p_pc, p_left, p_killed, p_sent, p_received>>
consolevars ==
  <<c_clock, c_buf, c_r, c_w, c_e, c_pc, c_n, c_target, c_got, c_killed,
  c_keys>>
syscallvars ==
  <<s_ticks, s_tickslock, s_shared_int, s_num_sys_calls,
  s_shared_syscall_num, s_pc, s_n, s_ticks0, s_elapsed, s_seen, s_ret,
  s_killed, s_calls>>
allvars == <<part, vars, pipevars, consolevars, syscallvars>>

MCSleeps == {1, -1}

TheReader == CHOOSE u \in Users : TRUE

P ==
  INSTANCE Pipe WITH
    Writers <- Users \ {TheReader}, Readers <- {TheReader},
    plock <- p_plock, data <- p_data, nread <- p_nread,
    nwrite <- p_nwrite, readopen <- p_readopen,
    writeopen <- p_writeopen, freed <- p_freed, pc <- p_pc,
    left <- p_left, killed <- p_killed, sent <- p_sent,
    received <- p_received

ASSUME PipeAssumption == P!PipeConstants

C ==
  INSTANCE Console WITH
    Readers <- Users \ {TheReader}, Counts <- {1, 2},
    clock <- c_clock, buf <- c_buf, r <- c_r, w <- c_w, e <- c_e,
    pc <- c_pc, n <- c_n, target <- c_target, got <- c_got,
    killed <- c_killed, keys <- c_keys

ASSUME ConsoleAssumption == C!ConsoleConstants

S ==
  INSTANCE Syscall WITH
    Procs <- Users \ {TheReader}, CPUS <- 2, MaxCalls <- MaxSyscalls,
    ticks <- s_ticks, tickslock <- s_tickslock,
    shared_int <- s_shared_int, num_sys_calls <- s_num_sys_calls,
    shared_syscall_num <- s_shared_syscall_num, pc <- s_pc, n <- s_n,
    ticks0 <- s_ticks0, elapsed <- s_elapsed, seen <- s_seen,
    ret <- s_ret, killed <- s_killed, calls <- s_calls

MCInit ==
  /\ part \in {"sleeplock", "pipe", "console", "syscall"}
  /\ Init /\ P!Init /\ C!Init /\ S!Init
  /\ part # "console" => c_r = 0

MCNext ==
  \/ part = "sleeplock" /\ Next /\ UNCHANGED <<part, pipevars, consolevars, syscallvars>>
  \/ part = "pipe" /\ P!Next /\ UNCHANGED <<part, vars, consolevars, syscallvars>>
  \/ part = "console" /\ C!Next /\ UNCHANGED <<part, vars, pipevars, syscallvars>>
  \/ part = "syscall" /\ S!Next /\ UNCHANGED <<part, vars, pipevars, consolevars>>

\* The fairness of each part, for the one that runs.
MCFairness ==
  /\ \A p \in Procs : SF_vars(part = "sleeplock" /\ ProcStep(p))
  /\ \A p \in Users : WF_pipevars(part = "pipe" /\ P!Step(p))
  /\ \A p \in Users \ {TheReader} : WF_syscallvars(part = "syscall" /\ S!Step(p))
  /\ WF_syscallvars(part = "syscall" /\ S!timer)

MCSpec == MCInit /\ [][MCNext]_allvars /\ MCFairness
-----------------------------------------------------------------------------
(***************************************************************************)
(* The properties of the parts (SleepLock's are its own).                  *)
(***************************************************************************)

\* No lost wakeup: nobody sleeps in acquiresleep(), pipewrite(), piperead() or
\* consoleread() over a condition that holds, but for a wakeup() that is about
\* to come, and for the readers of a pipe that a killed writer has left full.
\* A console ring that is full has been handed over: nobody can type more.
SleepersMustWait ==
  NoLostWakeup /\ P!SleepersMustWait /\ C!SleepersMustWait /\ C!FullIsReady

\* What comes out of a pipe is what went in, in order, while its counters wrap
\* (pipewrite(), piperead()), and pipeclose() frees it at the last close.
PipeConsistent == P!PipeConsistent

\* The ring of consoleintr() and consoleread() implements a line editor, and a
\* ^D that follows other characters is kept for the next call.
ConsoleReads == []C!TypeOK /\ C!ImplementsLineEditor /\ C!EofKept

\* System calls that read what others change return what they should:
\* sys_sleep() sleeps for the number of ticks it is given, as an unsigned
\* number, and no longer, and sys_print_num_syscalls(), which takes no lock,
\* prints a total that the CPUs' counts reach.
SyscallResults == S!TypeOK /\ S!SleepExact /\ S!PrintedTotals

\* Every acquiresleep(), pipewrite(), piperead() and sys_sleep() returns, also
\* that of a process killed between its test of killed and sleep().
CallsReturn == EveryCallReturns /\ P!EveryCallReturns /\ S!EverySleepReturns
=============================================================================
