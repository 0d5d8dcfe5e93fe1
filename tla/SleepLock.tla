------------------------------ MODULE SleepLock ------------------------------
(***************************************************************************)
(* The sleep locks of xv6/sleeplock.c on top of sleep() and wakeup() of    *)
(* xv6/proc.c, with the two spin locks involved: lk->lk, which protects    *)
(* the sleep lock, and ptable.lock, which protects the process states.     *)
(*                                                                         *)
(* Every process runs on some CPU whenever it is RUNNING; the scheduler    *)
(* that takes over in sched() and gives ptable.lock back is part of the    *)
(* steps Sched and Resume.  kill() may wake a sleeper at any time.  A      *)
(* process may also call releasesleep() on a lock it does not own, which   *)
(* the owner check in that function turns into a no-op.                    *)
(***************************************************************************)
EXTENDS Integers

CONSTANTS Procs,     \* the processes, named by their pids
          NoProc,    \* pid 0: no owner, no holder
          MaxCalls   \* bound: how many times each process takes the lock

ASSUME NoProcAssumption == NoProc \notin Procs
ASSUME MaxCallsAssumption == MaxCalls \in Nat

VARIABLES
  lk,       \* who holds the spin lock lk->lk
  ptable,   \* who holds ptable.lock
  locked,   \* lk->locked
  pid,      \* lk->pid
  state,    \* p->state
  chan,     \* p->chan is the sleep lock (1) or nothing (0)
  pc,       \* what the process executes next
  calls     \* how many calls of acquiresleep() it has made

vars == <<lk, ptable, locked, pid, state, chan, pc, calls>>

\* idle    outside                        enter   acquiresleep(): acquire(&lk->lk)
\* test    the while (lk->locked)         sleep1  sleep(): acquire(&ptable.lock)
\* sleep2  sleep(): release(lk)           sleep3  sleep(): chan, state
\* sched   sched()                        off     switched out
\* again   sleep(): acquire(lk)           crit    owns the sleep lock
\* exit    releasesleep(): acquire(&lk->lk)
\* check   its owner check                wake    wakeup(lk)
\* drop    release(&lk->lk)
Labels == {"idle", "enter", "test", "sleep1", "sleep2", "sleep3", "sched",
           "off", "again", "crit", "exit", "check", "wake", "drop"}

Init ==
  /\ lk = NoProc
  /\ ptable = NoProc
  /\ locked = 0
  /\ pid = NoProc
  /\ state = [p \in Procs |-> "RUNNING"]
  /\ chan = [p \in Procs |-> 0]
  /\ pc = [p \in Procs |-> "idle"]
  /\ calls = [p \in Procs |-> 0]

Goto(p, from, to) == pc[p] = from /\ pc' = [pc EXCEPT ![p] = to]

\* acquire(&lk->lk) in acquiresleep(), sleep() and releasesleep().
AcquireLk(p, from, to) ==
  /\ Goto(p, from, to)
  /\ lk = NoProc
  /\ lk' = p
  /\ UNCHANGED <<ptable, locked, pid, state, chan, calls>>

Call(p) ==
  /\ Goto(p, "idle", "enter")
  /\ calls[p] < MaxCalls
  /\ calls' = [calls EXCEPT ![p] = @ + 1]
  /\ UNCHANGED <<lk, ptable, locked, pid, state, chan>>

\* releasesleep() by a process that does not own the lock.
StrayRelease(p) ==
  /\ Goto(p, "idle", "exit")
  /\ calls[p] < MaxCalls
  /\ calls' = [calls EXCEPT ![p] = @ + 1]
  /\ UNCHANGED <<lk, ptable, locked, pid, state, chan>>

\* The while loop finds the lock taken and calls sleep(lk, &lk->lk).
MustSleep(p) ==
  /\ Goto(p, "test", "sleep1")
  /\ locked = 1
  /\ UNCHANGED <<lk, ptable, locked, pid, state, chan, calls>>

\* Mutant: if instead of while.
TakeLockNoTest(p) ==
  /\ Goto(p, "test", "crit")
  /\ locked' = 1
  /\ pid' = p
  /\ lk' = NoProc
  /\ UNCHANGED <<ptable, state, chan, calls>>

\* The while loop ends: the lock is taken, its owner recorded, lk->lk freed.
TakeLock(p) ==
  /\ Goto(p, "test", "crit")
  /\ locked = 0
  /\ locked' = 1
  /\ pid' = p
  /\ lk' = NoProc
  /\ UNCHANGED <<ptable, state, chan, calls>>

\* Mutant: lk is released and ptable.lock is not taken.
SleepAcquireNot(p) ==
  /\ Goto(p, "sleep1", "sleep2")
  /\ lk' = NoProc
  /\ UNCHANGED <<ptable, locked, pid, state, chan, calls>>

\* sleep(): ptable.lock is taken before lk is released.
SleepAcquire(p) ==
  /\ Goto(p, "sleep1", "sleep2")
  /\ ptable = NoProc
  /\ ptable' = p
  /\ UNCHANGED <<lk, locked, pid, state, chan, calls>>

SleepRelease(p) ==
  /\ Goto(p, "sleep2", "sleep3")
  /\ lk' = NoProc
  /\ UNCHANGED <<ptable, locked, pid, state, chan, calls>>

SleepMark(p) ==
  /\ Goto(p, "sleep3", "sched")
  /\ chan' = [chan EXCEPT ![p] = 1]
  /\ state' = [state EXCEPT ![p] = "SLEEPING"]
  /\ UNCHANGED <<lk, ptable, locked, pid, calls>>

\* sched(): the process leaves its CPU, whose scheduler releases ptable.lock.
Sched(p) ==
  /\ Goto(p, "sched", "off")
  /\ ptable' = NoProc
  /\ UNCHANGED <<lk, locked, pid, state, chan, calls>>

\* A scheduler takes ptable.lock and switches to a RUNNABLE process, which
\* clears its chan and releases the lock.
Resume(p) ==
  /\ Goto(p, "off", "again")
  /\ ptable = NoProc
  /\ state[p] = "RUNNABLE"
  /\ state' = [state EXCEPT ![p] = "RUNNING"]
  /\ chan' = [chan EXCEPT ![p] = 0]
  /\ UNCHANGED <<lk, ptable, locked, pid, calls>>

Leave(p) ==
  /\ Goto(p, "crit", "exit")
  /\ UNCHANGED <<lk, ptable, locked, pid, state, chan, calls>>

\* Mutant: no owner check.
OwnerCheckNot(p) ==
  /\ Goto(p, "check", "wake")
  /\ locked' = 0
  /\ pid' = NoProc
  /\ UNCHANGED <<lk, ptable, state, chan, calls>>

\* releasesleep(): the owner check, and the release of the sleep lock.
OwnerCheck(p) ==
  /\ IF pid # p
       THEN Goto(p, "check", "drop") /\ UNCHANGED <<locked, pid>>
       ELSE /\ Goto(p, "check", "wake")
            /\ locked' = 0
            /\ pid' = NoProc
  /\ UNCHANGED <<lk, ptable, state, chan, calls>>

\* Mutant: no wakeup.
WakeupNot(p) ==
  /\ Goto(p, "wake", "drop")
  /\ UNCHANGED <<lk, ptable, locked, pid, state, chan, calls>>

\* wakeup(lk): every process asleep on the lock becomes RUNNABLE.
Wakeup(p) ==
  /\ Goto(p, "wake", "drop")
  /\ ptable = NoProc
  /\ state' = [q \in Procs |->
                 IF state[q] = "SLEEPING" /\ chan[q] = 1 THEN "RUNNABLE" ELSE state[q]]
  /\ UNCHANGED <<lk, ptable, locked, pid, chan, calls>>

DropLk(p) ==
  /\ Goto(p, "drop", "idle")
  /\ lk' = NoProc
  /\ UNCHANGED <<ptable, locked, pid, state, chan, calls>>

\* kill(): some process wakes p, whatever p is waiting for.
Kill(p) ==
  /\ ptable = NoProc
  /\ state[p] = "SLEEPING"
  /\ state' = [state EXCEPT ![p] = "RUNNABLE"]
  /\ UNCHANGED <<lk, ptable, locked, pid, chan, pc, calls>>

ProcStep(p) ==
  \/ AcquireLk(p, "enter", "test")
  \/ AcquireLk(p, "again", "test")
  \/ AcquireLk(p, "exit", "check")
  \/ MustSleep(p) \/ TakeLock(p)
  \/ SleepAcquire(p) \/ SleepRelease(p) \/ SleepMark(p) \/ Sched(p) \/ Resume(p)
  \/ Leave(p) \/ OwnerCheck(p) \/ Wakeup(p) \/ DropLk(p)

Done == \A p \in Procs : pc[p] = "idle" /\ calls[p] = MaxCalls

Finished == Done /\ UNCHANGED vars

Next ==
  \/ \E p \in Procs : ProcStep(p) \/ Call(p) \/ StrayRelease(p) \/ Kill(p)
  \/ Finished

Spec == Init /\ [][Next]_vars

\* A process keeps executing, does not lose every race for a spin lock, and
\* ends its critical section; a RUNNABLE process is run.  Nothing makes a
\* process call acquiresleep() or kill().
Fairness == \A p \in Procs : SF_vars(ProcStep(p))

FairSpec == Spec /\ Fairness
-----------------------------------------------------------------------------
TypeOK ==
  /\ lk \in Procs \cup {NoProc}
  /\ ptable \in Procs \cup {NoProc}
  /\ locked \in {0, 1}
  /\ pid \in Procs \cup {NoProc}
  /\ state \in [Procs -> {"RUNNING", "RUNNABLE", "SLEEPING"}]
  /\ chan \in [Procs -> {0, 1}]
  /\ pc \in [Procs -> Labels]
  /\ calls \in [Procs -> 0..MaxCalls]

\* At most one process is between acquiresleep() and releasesleep(), and it is
\* the one that lk->pid names: neither a spurious wakeup nor a releasesleep()
\* by somebody else lets a second one in.
SleepLockExclusive ==
  \A p \in Procs : pc[p] = "crit" => locked = 1 /\ pid = p

\* A process is asleep on a free sleep lock only while somebody who is in
\* releasesleep() has yet to call wakeup(): no wakeup falls between the test
\* of lk->locked and the SLEEPING state.
NoLostWakeup ==
  \A p \in Procs : state[p] = "SLEEPING" /\ locked = 0 =>
    \E q \in Procs : pc[q] = "wake"

\* sched() is entered with ptable.lock held and no other spin lock ("sched
\* locks"), although sleep() was called with lk->lk held.
SchedHoldsOnlyPtable ==
  \A p \in Procs : pc[p] = "sched" => ptable = p /\ lk # p

\* Every call of acquiresleep() and releasesleep() returns, as long as the
\* processes make finitely many (the losers of a race go back to sleep).
EveryCallReturns ==
  \A p \in Procs : pc[p] # "idle" ~> pc[p] = "idle"

\* The owner of the lock as the outside sees it.
M == INSTANCE Mutex WITH owner <- IF locked = 1 THEN pid ELSE NoProc

\* The sleep lock implements the mutex.
ImplementsMutex == M!Spec
=============================================================================
