--------------------------- MODULE SleepLockProofs ---------------------------
(***************************************************************************)
(* Proofs about SleepLock, for every set of processes and every number of  *)
(* calls: mutual exclusion, no lost wakeup, and that the sleep lock        *)
(* implements the abstract mutex.                                          *)
(***************************************************************************)
EXTENDS SleepLock, TLAPS

\* The places where a process holds lk->lk, and where it holds ptable.lock.
HoldsLk == {"test", "sleep1", "sleep2", "check", "wake", "drop"}

HoldsPtable == {"sleep2", "sleep3", "sched"}

\* p has found the sleep lock taken and is on its way to sleep, or asleep.
GoingToSleep(p) ==
  pc[p] \in {"sleep1", "sleep2", "sleep3"} \/ state[p] = "SLEEPING"

\* The inductive invariant.  The two spin locks are held exactly where the pc
\* says so; lk->pid names the owner, who is in its critical section or on its
\* way into releasesleep(); and a process that is going to sleep while the
\* sleep lock is free has somebody who is about to call wakeup().
IInv ==
  /\ TypeOK
  /\ \A p \in Procs : lk = p <=> pc[p] \in HoldsLk
  /\ \A p \in Procs : ptable = p <=> pc[p] \in HoldsPtable
  /\ locked = 1 <=> pid # NoProc
  /\ \A p \in Procs : pid = p => pc[p] \in {"crit", "exit", "check"}
  /\ \A p \in Procs : pc[p] = "crit" => pid = p
  /\ \A p \in Procs : state[p] = "SLEEPING" => pc[p] \in {"sched", "off"} /\ chan[p] = 1
  /\ \A p \in Procs : GoingToSleep(p) /\ locked = 0 => \E q \in Procs : pc[q] = "wake"

USE DEF Labels

\* The state sleep locks start in, free and with nobody calling, satisfies it.
LEMMA InitIInv == Init => IInv
BY SMT, SMTT(40), NoProcAssumption, MaxCallsAssumption
   DEF Init, IInv, TypeOK, HoldsLk, HoldsPtable, GoingToSleep

\* Every step of acquiresleep(), releasesleep(), sleep(), wakeup() and kill()
\* preserves it: one step of the proof per action.
LEMMA NextIInv == IInv /\ [Next]_vars => IInv'
<1> SUFFICES ASSUME IInv, [Next]_vars PROVE IInv'
  OBVIOUS
<1> USE NoProcAssumption, MaxCallsAssumption
        DEF IInv, TypeOK, HoldsLk, HoldsPtable, GoingToSleep, Goto
<1>1. ASSUME NEW p \in Procs, Call(p) PROVE IInv'
  BY <1>1 DEF Call
<1>2. ASSUME NEW p \in Procs, StrayRelease(p) PROVE IInv'
  BY <1>2 DEF StrayRelease
<1>3. ASSUME NEW p \in Procs, AcquireLk(p, "enter", "test") PROVE IInv'
  BY <1>3 DEF AcquireLk
<1>4. ASSUME NEW p \in Procs, AcquireLk(p, "again", "test") PROVE IInv'
  BY <1>4 DEF AcquireLk
<1>5. ASSUME NEW p \in Procs, AcquireLk(p, "exit", "check") PROVE IInv'
  BY <1>5 DEF AcquireLk
<1>6. ASSUME NEW p \in Procs, MustSleep(p) PROVE IInv'
  BY <1>6 DEF MustSleep
<1>7. ASSUME NEW p \in Procs, TakeLock(p) PROVE IInv'
  BY <1>7 DEF TakeLock
<1>8. ASSUME NEW p \in Procs, SleepAcquire(p) PROVE IInv'
  BY <1>8 DEF SleepAcquire
<1>9. ASSUME NEW p \in Procs, SleepRelease(p) PROVE IInv'
  BY <1>9 DEF SleepRelease
<1>10. ASSUME NEW p \in Procs, SleepMark(p) PROVE IInv'
  BY <1>10 DEF SleepMark
<1>11. ASSUME NEW p \in Procs, Sched(p) PROVE IInv'
  BY <1>11 DEF Sched
<1>12. ASSUME NEW p \in Procs, Resume(p) PROVE IInv'
  BY <1>12 DEF Resume
<1>13. ASSUME NEW p \in Procs, Leave(p) PROVE IInv'
  BY <1>13 DEF Leave
<1>14. ASSUME NEW p \in Procs, OwnerCheck(p) PROVE IInv'
  BY <1>14 DEF OwnerCheck
<1>15. ASSUME NEW p \in Procs, Wakeup(p) PROVE IInv'
  BY <1>15 DEF Wakeup
<1>16. ASSUME NEW p \in Procs, DropLk(p) PROVE IInv'
  BY <1>16 DEF DropLk
<1>17. ASSUME NEW p \in Procs, Kill(p) PROVE IInv'
  BY <1>17 DEF Kill
<1>18. CASE UNCHANGED vars
  BY <1>18 DEF vars
<1> QED
  BY <1>1, <1>2, <1>3, <1>4, <1>5, <1>6, <1>7, <1>8, <1>9, <1>10, <1>11, <1>12,
     <1>13, <1>14, <1>15, <1>16, <1>17, <1>18 DEF Next, ProcStep, Finished

\* So it holds in every reachable state of the sleep lock.
LEMMA SpecIInv == Spec => []IInv
BY InitIInv, NextIInv, PTL DEF Spec

\* The variables of the model always have their types.
THEOREM TypeCorrect == Spec => []TypeOK
<1>1. IInv => TypeOK
  BY DEF IInv
<1> QED
  BY <1>1, SpecIInv, PTL

\* For any number of processes, at most one is between acquiresleep() and
\* releasesleep(), whoever else is killed or calls releasesleep().
THEOREM MutualExclusion == Spec => []SleepLockExclusive
<1>1. IInv => SleepLockExclusive
  BY NoProcAssumption DEF IInv, SleepLockExclusive, TypeOK
<1> QED
  BY <1>1, SpecIInv, PTL

\* For any number of processes, sleep() and wakeup() lose no wakeup.
THEOREM WakeupsReachSleepers == Spec => []NoLostWakeup
<1>1. IInv => NoLostWakeup
  BY DEF IInv, NoLostWakeup, GoingToSleep
<1> QED
  BY <1>1, SpecIInv, PTL

\* sched() is always entered with exactly one spin lock, ptable.lock.
THEOREM SchedPrecondition == Spec => []SchedHoldsOnlyPtable
<1>1. IInv => SchedHoldsOnlyPtable
  BY DEF IInv, SchedHoldsOnlyPtable, HoldsLk, HoldsPtable
<1> QED
  BY <1>1, SpecIInv, PTL

\* The sleep lock refines the mutex: TakeLock is a Take, the part of
\* releasesleep() after a successful owner check is a Give, and every other
\* step, the failed owner check included, leaves the owner alone.
THEOREM Refinement == Spec => ImplementsMutex
<1>1. Init => M!Init
  BY DEF Init, M!Init
<1>2. IInv /\ [Next]_vars => [M!Next]_(IF locked = 1 THEN pid ELSE NoProc)
  <2> SUFFICES ASSUME IInv, [Next]_vars
               PROVE [M!Next]_(IF locked = 1 THEN pid ELSE NoProc)
    OBVIOUS
  <2> USE NoProcAssumption DEF IInv, TypeOK
  <2>1. ASSUME NEW p \in Procs, TakeLock(p) PROVE M!Take(p)
    BY <2>1 DEF TakeLock, M!Take
  <2>2. ASSUME NEW p \in Procs, OwnerCheck(p), pid = p PROVE M!Give(p)
    BY <2>2 DEF OwnerCheck, Goto, M!Give
  <2>3. ASSUME NEW p \in Procs, OwnerCheck(p), pid # p PROVE UNCHANGED <<locked, pid>>
    BY SMT, SMTT(40), <2>3 DEF OwnerCheck
  <2>4. ASSUME NEW p \in Procs,
               \/ AcquireLk(p, "enter", "test") \/ AcquireLk(p, "again", "test")
               \/ AcquireLk(p, "exit", "check") \/ MustSleep(p) \/ SleepAcquire(p)
               \/ SleepRelease(p) \/ SleepMark(p) \/ Sched(p) \/ Resume(p)
               \/ Leave(p) \/ Wakeup(p) \/ DropLk(p)
               \/ Call(p) \/ StrayRelease(p) \/ Kill(p)
        PROVE UNCHANGED <<locked, pid>>
    BY <2>4 DEF AcquireLk, MustSleep, SleepAcquire, SleepRelease, SleepMark, Sched,
                Resume, Leave, Wakeup, DropLk, Call, StrayRelease, Kill
  <2>5. CASE UNCHANGED vars
    BY <2>5 DEF vars
  <2> QED
    BY <2>1, <2>2, <2>3, <2>4, <2>5 DEF Next, ProcStep, Finished, M!Next
<1> QED
  BY <1>1, <1>2, SpecIInv, PTL DEF Spec, ImplementsMutex, M!Spec
=============================================================================
