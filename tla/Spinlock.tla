------------------------------ MODULE Spinlock ------------------------------
(***************************************************************************)
(* The spin locks of xv6/spinlock.c and the per-CPU interrupt bookkeeping  *)
(* they are built on.  This module holds the state of the locks and of the *)
(* CPUs, and one operator per step of acquire() and release() that another *)
(* CPU (or an interrupt on the same CPU) can tell apart; the modules that  *)
(* extend it say which thread executes them and when.                      *)
(*                                                                         *)
(* acquire(lk) is three steps: pushcli() with the re-acquisition check,    *)
(* the winning xchg, and the recording of the owner, which happens after   *)
(* the lock has been taken.  release(lk) is two: the ownership check with  *)
(* the clearing of the owner, and the store to lk->locked with popcli().   *)
(* A losing xchg writes 1 over 1, so a spinning CPU takes no step.         *)
(***************************************************************************)
EXTENDS Integers

CONSTANTS CPUs,   \* the processors that run the kernel
          Locks,  \* the spin locks
          NoCPU   \* the null struct cpu pointer

ASSUME NoCPUAssumption == NoCPU \notin CPUs

VARIABLES
  locked,   \* lk->locked
  lkcpu,    \* lk->cpu, the CPU recorded as holding the lock
  ncli,     \* cpu->ncli, the depth of pushcli nesting
  intena,   \* cpu->intena, were interrupts enabled before pushcli?
  fl_if,    \* the FL_IF bit of the CPU's eflags
  panicked  \* the message of the first panic(), "none" while there is none

spinVars == <<locked, lkcpu, ncli, intena, fl_if, panicked>>

cpuVars == <<ncli, intena, fl_if>>

\* Every lock initialised by initlock(), every CPU running with interrupts on.
SpinInit ==
  /\ locked = [lk \in Locks |-> 0]
  /\ lkcpu = [lk \in Locks |-> NoCPU]
  /\ ncli = [c \in CPUs |-> 0]
  /\ intena = [c \in CPUs |-> 0]
  /\ fl_if = [c \in CPUs |-> 1]
  /\ panicked = "none"

panic(msg) == panicked' = msg

holding(lk, c) == locked[lk] = 1 /\ lkcpu[lk] = c

\* Mutant: interrupts stay as they are.
pushcli_nocli(c) ==
  /\ intena' = [intena EXCEPT ![c] = IF ncli[c] = 0 THEN fl_if[c] ELSE @]
  /\ ncli' = [ncli EXCEPT ![c] = @ + 1]
  /\ UNCHANGED fl_if

\* Mutant: the nesting is not counted.
pushcli_nocount(c) ==
  /\ fl_if' = [fl_if EXCEPT ![c] = 0]
  /\ intena' = [intena EXCEPT ![c] = IF ncli[c] = 0 THEN fl_if[c] ELSE @]
  /\ UNCHANGED ncli

\* Mutant: intena is overwritten by a nested call.
pushcli_always(c) ==
  /\ fl_if' = [fl_if EXCEPT ![c] = 0]
  /\ intena' = [intena EXCEPT ![c] = fl_if[c]]
  /\ ncli' = [ncli EXCEPT ![c] = @ + 1]

pushcli(c) ==
  /\ fl_if' = [fl_if EXCEPT ![c] = 0]
  /\ intena' = [intena EXCEPT ![c] = IF ncli[c] = 0 THEN fl_if[c] ELSE @]
  /\ ncli' = [ncli EXCEPT ![c] = @ + 1]

\* Mutant: the first popcli() turns interrupts on again.
popcli_eager(c) ==
  /\ ncli' = [ncli EXCEPT ![c] = @ - 1]
  /\ fl_if' = [fl_if EXCEPT ![c] = IF intena[c] = 1 THEN 1 ELSE @]
  /\ UNCHANGED intena

popcli(c) ==
  /\ ncli' = [ncli EXCEPT ![c] = @ - 1]
  /\ fl_if' = [fl_if EXCEPT ![c] = IF ncli[c] = 1 /\ intena[c] = 1 THEN 1 ELSE @]
  /\ UNCHANGED intena

\* What popcli's two checks make of panicked.
popcli_check(c) ==
  IF fl_if[c] = 1 THEN panic("popcli - interruptible")
  ELSE IF ncli[c] < 1 THEN panic("popcli")
  ELSE UNCHANGED panicked

\* acquire(), first step: no interrupts from here on, and the lock must not
\* be this CPU's already.
acquire_enter(lk, c) ==
  /\ pushcli(c)
  /\ IF holding(lk, c) THEN panic("acquire") ELSE UNCHANGED panicked
  /\ UNCHANGED <<locked, lkcpu>>

\* Mutant: the lock is taken whether or not it was free.
acquire_store(lk) ==
  /\ locked' = [locked EXCEPT ![lk] = 1]
  /\ UNCHANGED <<lkcpu, ncli, intena, fl_if, panicked>>

\* acquire(), second step: the xchg that finds 0.
acquire_xchg(lk) ==
  /\ locked[lk] = 0
  /\ locked' = [locked EXCEPT ![lk] = 1]
  /\ UNCHANGED <<lkcpu, ncli, intena, fl_if, panicked>>

\* acquire(), third step: the owner is recorded.
acquire_record(lk, c) ==
  /\ lkcpu' = [lkcpu EXCEPT ![lk] = c]
  /\ UNCHANGED <<locked, ncli, intena, fl_if, panicked>>

\* release(), first step: the lock must be this CPU's; the owner is cleared.
release_clear(lk, c) ==
  /\ IF holding(lk, c)
       THEN lkcpu' = [lkcpu EXCEPT ![lk] = NoCPU] /\ UNCHANGED panicked
       ELSE panic("release") /\ UNCHANGED lkcpu
  /\ UNCHANGED <<locked, ncli, intena, fl_if>>

\* Mutant: the lock is not freed.
release_nostore(lk, c) ==
  /\ popcli(c)
  /\ popcli_check(c)
  /\ UNCHANGED <<locked, lkcpu>>

\* release(), second step: the store that frees the lock, then popcli().
release_store(lk, c) ==
  /\ locked' = [locked EXCEPT ![lk] = 0]
  /\ popcli(c)
  /\ popcli_check(c)
  /\ UNCHANGED lkcpu

\* The panics of spinlock.c.
Panics == {"acquire", "release", "popcli", "popcli - interruptible",
           "queue null", "not found in queue"}

SpinTypeOK ==
  /\ locked \in [Locks -> {0, 1}]
  /\ lkcpu \in [Locks -> CPUs \cup {NoCPU}]
  /\ ncli \in [CPUs -> Int]
  /\ intena \in [CPUs -> {0, 1}]
  /\ fl_if \in [CPUs -> {0, 1}]
  /\ panicked \in Panics \cup {"none"}
=============================================================================
