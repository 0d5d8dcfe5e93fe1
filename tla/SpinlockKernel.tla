--------------------------- MODULE SpinlockKernel ---------------------------
(***************************************************************************)
(* The kernel as a client of its spin locks: on every CPU a thread that    *)
(* nests locks in a fixed order, and on top of it the interrupt handler of *)
(* that CPU, which takes the same locks (ideintr() takes idelock, the      *)
(* timer takes tickslock, both then take ptable.lock in wakeup()).         *)
(*                                                                         *)
(* An interrupt is delivered while FL_IF is set, at any point of the       *)
(* thread; the gate clears FL_IF (trap.c, tvinit: every gate but T_SYSCALL *)
(* is an interrupt gate) and iret restores it.  Locks are released in any  *)
(* order, as sleep() does when it drops lk after taking ptable.lock.       *)
(***************************************************************************)
EXTENDS Spinlock, FiniteSets

CONSTANT MaxNest   \* bound: how many locks a thread or handler holds at once

ASSUME LockOrder == Locks \subseteq Nat /\ Locks # {}

VARIABLES
  frame,   \* what the CPU executes: its thread or the handler on top of it
  at,      \* where each of the two is: "run", or inside acquire or release
  lk,      \* the lock that acquire() or release() was called with
  held     \* the locks that the thread or the handler has acquired

kernelVars == <<frame, at, lk, held>>

vars == <<spinVars, kernelVars>>

Frames == {"thread", "handler"}

Init ==
  /\ SpinInit
  /\ frame = [c \in CPUs |-> "thread"]
  /\ at = [c \in CPUs |-> [f \in Frames |-> "run"]]
  /\ lk = [c \in CPUs |-> [f \in Frames |-> CHOOSE l \in Locks : TRUE]]
  /\ held = [c \in CPUs |-> [f \in Frames |-> {}]]

At(c, label) == panicked = "none" /\ at[c][frame[c]] = label

Lk(c) == lk[c][frame[c]]

Held(c) == held[c][frame[c]]

Goto(c, label) == at' = [at EXCEPT ![c][frame[c]] = label]

\* A call of acquire(l), for an l that comes after every lock already held.
Acquire(c, l) ==
  /\ At(c, "run")
  /\ Cardinality(Held(c)) < MaxNest
  /\ \A h \in Held(c) : h < l
  /\ acquire_enter(l, c)
  /\ lk' = [lk EXCEPT ![c][frame[c]] = l]
  /\ Goto(c, "spin")
  /\ UNCHANGED <<frame, held>>

Xchg(c) ==
  /\ At(c, "spin")
  /\ acquire_xchg(Lk(c))
  /\ Goto(c, "record")
  /\ UNCHANGED <<frame, lk, held>>

Record(c) ==
  /\ At(c, "record")
  /\ acquire_record(Lk(c), c)
  /\ held' = [held EXCEPT ![c][frame[c]] = @ \cup {Lk(c)}]
  /\ Goto(c, "run")
  /\ UNCHANGED <<frame, lk>>

\* A call of release(l).
Release(c, l) ==
  /\ At(c, "run")
  /\ l \in Held(c)
  /\ release_clear(l, c)
  /\ lk' = [lk EXCEPT ![c][frame[c]] = l]
  /\ Goto(c, "store")
  /\ UNCHANGED <<frame, held>>

Store(c) ==
  /\ At(c, "store")
  /\ release_store(Lk(c), c)
  /\ held' = [held EXCEPT ![c][frame[c]] = @ \ {Lk(c)}]
  /\ Goto(c, "run")
  /\ UNCHANGED <<frame, lk>>

\* Through an interrupt gate: FL_IF is cleared and the handler starts.
Interrupt(c) ==
  /\ panicked = "none"
  /\ frame[c] = "thread" /\ fl_if[c] = 1
  /\ frame' = [frame EXCEPT ![c] = "handler"]
  /\ fl_if' = [fl_if EXCEPT ![c] = 0]
  /\ UNCHANGED <<locked, lkcpu, ncli, intena, panicked, at, lk, held>>

\* trapret: iret pops the eflags that the interrupt pushed.
Iret(c) ==
  /\ frame[c] = "handler" /\ At(c, "run") /\ Held(c) = {}
  /\ frame' = [frame EXCEPT ![c] = "thread"]
  /\ fl_if' = [fl_if EXCEPT ![c] = 1]
  /\ UNCHANGED <<locked, lkcpu, ncli, intena, panicked, at, lk, held>>

Next ==
  \E c \in CPUs :
    \/ \E l \in Locks : Acquire(c, l) \/ Release(c, l)
    \/ Xchg(c) \/ Record(c) \/ Store(c)
    \/ Interrupt(c) \/ Iret(c)

Spec == Init /\ [][Next]_vars

\* Every critical section and every handler ends (a lock that can be released
\* again and again is released), the straight-line code keeps executing, and
\* the bus is fair to a CPU that spins.
Fairness ==
  \A c \in CPUs :
    /\ WF_vars(Record(c) \/ Store(c))
    /\ SF_vars(Xchg(c))
    /\ \A l \in Locks : SF_vars(Release(c, l))

FairSpec == Spec /\ Fairness
-----------------------------------------------------------------------------
TypeOK ==
  /\ SpinTypeOK
  /\ frame \in [CPUs -> Frames]
  /\ at \in [CPUs -> [Frames -> {"run", "spin", "record", "store"}]]
  /\ lk \in [CPUs -> [Frames -> Locks]]
  /\ held \in [CPUs -> [Frames -> SUBSET Locks]]
  /\ \A c \in CPUs : ncli[c] >= 0

\* acquire() admits one holder at a time, whether the contenders are threads
\* on two CPUs or a thread and the handler that interrupted it.
LockExclusive ==
  \A c, d \in CPUs : \A f, g \in Frames :
    <<c, f>> # <<d, g>> => held[c][f] \cap held[d][g] = {}

\* No acquire() finds its own CPU already holding the lock, no release() a
\* lock it does not hold, and every popcli() matches a pushcli().
NoPanic == panicked = "none"

\* The reason acquire() turns interrupts off ("disable interrupts to avoid
\* deadlock"): a handler never runs on top of a thread that holds a lock or
\* is inside acquire() or release().
HandlerAboveNoLock ==
  \A c \in CPUs : frame[c] = "handler" =>
    /\ held[c]["thread"] = {}
    /\ at[c]["thread"] = "run"

\* Outside every lock a thread runs with the interrupts it had before, however
\* the locks were nested and in whatever order they were released.
InterruptsRestored ==
  \A c \in CPUs :
    frame[c] = "thread" /\ at[c]["thread"] = "run" =>
      /\ ncli[c] = Cardinality(held[c]["thread"])
      /\ fl_if[c] = 1 <=> held[c]["thread"] = {}

\* A spin lock has one holder, which is the one that its owner field and the
\* panics of acquire() and release() take it for.
LocksConsistent == TypeOK /\ LockExclusive /\ NoPanic

\* Interrupts are off wherever a handler could meet a lock of the thread below
\* it, and on again outside: pushcli() and popcli() nest.
InterruptsSafe == HandlerAboveNoLock /\ InterruptsRestored

\* Every acquire() returns: neither the handlers nor the nesting of ordered
\* locks leaves a CPU spinning for ever.
AcquireReturns ==
  \A c \in CPUs : \A f \in Frames : at[c][f] = "spin" ~> at[c][f] = "run"
=============================================================================
