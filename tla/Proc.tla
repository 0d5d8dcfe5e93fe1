-------------------------------- MODULE Proc --------------------------------
(***************************************************************************)
(* The process table of xv6/proc.c: fork, exit, wait, kill, yield and the  *)
(* per-CPU scheduler, with the traps of xv6/trap.c that lead into them.    *)
(*                                                                         *)
(* A process is named by its slot in ptable.proc[], slot 1 being initproc. *)
(* Every slot has a kernel thread, whose position is pc; a CPU executes    *)
(* either the thread of a process or its own scheduler thread.             *)
(* ptable.lock is handed from thread to thread across swtch(), so its      *)
(* holder is explicit; a section that acquires and releases it with no     *)
(* swtch() in between is one step, enabled while the lock is free.  The    *)
(* interrupt flag is modelled with it: the timer interrupts a thread       *)
(* wherever FL_IF is set, in user mode or inside a system call.            *)
(***************************************************************************)
EXTENDS Integers, FiniteSets, FiniteSetsExt

CONSTANTS NPROC,       \* slots in the process table
          CPUs,        \* processors
          NoCPU,       \* the lock is free
          MaxPid,      \* bound: the last pid that allocproc() hands out
          KillTargets  \* the arguments that kill() is called with

ASSUME NPROCAssumption == NPROC \in Nat /\ NPROC >= 1
ASSUME NoCPUAssumption == NoCPU \notin CPUs
ASSUME MaxPidAssumption == MaxPid \in Nat \ {0}
ASSUME KillTargetsAssumption == KillTargets \subseteq Int

VARIABLES
  state, pid, parent, killed, chan, kstack,  \* struct proc, slot by slot
  pc,        \* where the slot's kernel thread is
  ret,       \* where it was when the timer interrupted it
  np,        \* fork(): the new process, 0 outside it
  sv,        \* sched(): the local variable intena, 0 outside it
  run,       \* the slot whose thread the CPU executes, 0 for its scheduler
  idx,       \* scheduler(): the next slot of the scan, 0 outside it
  lock,      \* the CPU that holds ptable.lock
  intena,    \* cpu->intena
  fl_if,     \* the FL_IF bit of the CPU
  nextpid,
  panicked   \* the message of the first panic()

procVars == <<state, pid, parent, killed, chan, kstack>>

threadVars == <<pc, ret, np, sv>>

cpuVars == <<run, idx, lock, intena, fl_if>>

vars == <<procVars, threadVars, cpuVars, nextpid, panicked>>

Slots == 1..NPROC

initproc == 1

Used == {s \in Slots : state[s] # "UNUSED"}

\* The system calls begin at fork, wait, kill and exit and end at sysret; the
\* three calls of sched() are at zombie, asleep and yielded, and swtch()
\* returns from them at undead, woken and resumed.
SysCalls == {"fork", "wait", "kill"}

AfterSched == [zombie |-> "undead", asleep |-> "woken", yielded |-> "resumed"]

Labels == {"user", "kstack", "copy", "setrun", "exit", "scan", "timer",
           "sysret", "trapret", "forkret", "iret", "zombie", "undead",
           "asleep", "woken", "yielded", "resumed"} \cup SysCalls

\* After userinit(): init is RUNNABLE, every other slot is unused, and every
\* CPU is in its scheduler with interrupts on.
Init ==
  /\ state = [s \in Slots |-> IF s = initproc THEN "RUNNABLE" ELSE "UNUSED"]
  /\ pid = [s \in Slots |-> IF s = initproc THEN 1 ELSE 0]
  /\ parent = [s \in Slots |-> 0]
  /\ killed = [s \in Slots |-> 0]
  /\ chan = [s \in Slots |-> 0]
  /\ kstack = [s \in Slots |-> IF s = initproc THEN 1 ELSE 0]
  /\ pc = [s \in Slots |-> "forkret"]
  /\ ret = [s \in Slots |-> "user"]
  /\ np = [s \in Slots |-> 0]
  /\ sv = [s \in Slots |-> 0]
  /\ run = [c \in CPUs |-> 0]
  /\ idx = [c \in CPUs |-> 0]
  /\ lock = NoCPU
  /\ intena = [c \in CPUs |-> 0]
  /\ fl_if = [c \in CPUs |-> 1]
  /\ nextpid = 2
  /\ panicked = "none"
-----------------------------------------------------------------------------
panic(msg) == panicked' = msg

\* CPU c executes a process thread that is at the label.
At(c, label) == panicked = "none" /\ run[c] # 0 /\ pc[run[c]] = label

Goto(c, label) == pc' = [pc EXCEPT ![run[c]] = label]

\* acquire(&ptable.lock) and keep it.
Acquire(c) ==
  /\ lock = NoCPU
  /\ lock' = c
  /\ intena' = [intena EXCEPT ![c] = fl_if[c]]
  /\ fl_if' = [fl_if EXCEPT ![c] = 0]

\* release(&ptable.lock) by its holder.  The next acquire() overwrites intena:
\* it is kept 0 until then.
Release(c) ==
  /\ lock' = NoCPU
  /\ fl_if' = [fl_if EXCEPT ![c] = intena[c]]
  /\ intena' = [intena EXCEPT ![c] = 0]

\* A section that acquires and releases ptable.lock.
Locked(c) == lock = NoCPU /\ UNCHANGED <<lock, intena, fl_if>>

\* exit() by the thread on c begins with a check.
ExitCheck(c) ==
  IF run[c] = initproc THEN panic("init exiting") ELSE UNCHANGED panicked

\* wakeup1(): the states st with every sleeper on the channels cs runnable.
wakeup1(st, cs) ==
  [s \in Slots |-> IF st[s] = "SLEEPING" /\ chan[s] \in cs THEN "RUNNABLE"
                   ELSE st[s]]
-----------------------------------------------------------------------------
(***************************************************************************)
(* fork().                                                                 *)
(***************************************************************************)

\* nextpid++.  Mutants: it is not advanced; it is advanced twice.
nextpid_same == UNCHANGED nextpid

nextpid_twice == nextpid' = nextpid + 2

nextpid_inc == nextpid' = nextpid + 1

\* allocproc(): the first unused slot, or -1.
ForkAlloc(c) ==
  /\ At(c, "fork")
  /\ Locked(c)
  /\ LET free == {s \in Slots : state[s] = "UNUSED"} IN
     IF free = {}
       THEN /\ Goto(c, "sysret")
            /\ UNCHANGED <<state, pid, np, nextpid>>
       ELSE LET p == Min(free) IN
            /\ state' = [state EXCEPT ![p] = "EMBRYO"]
            /\ pid' = [pid EXCEPT ![p] = nextpid]
            /\ nextpid_inc
            /\ np' = [np EXCEPT ![run[c]] = p]
            /\ Goto(c, "kstack")
  /\ UNCHANGED <<parent, killed, chan, kstack, ret, sv, run, idx, panicked>>

\* allocproc(), after the lock: the kernel stack, or -1; on failure the slot
\* is given back without the lock and with its pid.
ForkKstack(c) ==
  /\ At(c, "kstack")
  /\ LET p == np[run[c]] IN
     \/ /\ kstack' = [kstack EXCEPT ![p] = 1]
        /\ Goto(c, "copy")
        /\ UNCHANGED <<state, np>>
     \/ /\ state' = [state EXCEPT ![p] = "UNUSED"]
        /\ np' = [np EXCEPT ![run[c]] = 0]
        /\ Goto(c, "sysret")
        /\ UNCHANGED kstack
  /\ UNCHANGED <<pid, parent, killed, chan, ret, sv, cpuVars, nextpid, panicked>>

\* copyuvm() and the rest of the copying, or -1 with the slot given back.
ForkCopy(c) ==
  /\ At(c, "copy")
  /\ LET p == np[run[c]] IN
     \/ /\ parent' = [parent EXCEPT ![p] = run[c]]
        /\ pc' = [pc EXCEPT ![run[c]] = "setrun", ![p] = "forkret"]
        /\ UNCHANGED <<state, kstack, np>>
     \/ /\ kstack' = [kstack EXCEPT ![p] = 0]
        /\ state' = [state EXCEPT ![p] = "UNUSED"]
        /\ np' = [np EXCEPT ![run[c]] = 0]
        /\ Goto(c, "sysret")
        /\ UNCHANGED parent
  /\ UNCHANGED <<pid, killed, chan, ret, sv, cpuVars, nextpid, panicked>>

ForkRun(c) ==
  /\ At(c, "setrun")
  /\ Locked(c)
  /\ state' = [state EXCEPT ![np[run[c]]] = "RUNNABLE"]
  /\ np' = [np EXCEPT ![run[c]] = 0]
  /\ Goto(c, "sysret")
  /\ UNCHANGED <<pid, parent, killed, chan, kstack, ret, sv, run, idx, nextpid, panicked>>
-----------------------------------------------------------------------------
(***************************************************************************)
(* exit(), wait(), kill().                                                 *)
(***************************************************************************)

\* A system call exit(), or any trap of a killed process in user mode.
ExitCall(c) ==
  /\ At(c, "user")
  /\ run[c] # initproc \/ killed[initproc] = 1
  /\ ExitCheck(c)
  /\ Goto(c, "exit")
  /\ UNCHANGED <<procVars, ret, np, sv, cpuVars, nextpid>>

\* A fault in user mode: trap() kills the process, which then exits.
Fault(c) ==
  /\ At(c, "user") /\ run[c] # initproc
  /\ killed' = [killed EXCEPT ![run[c]] = 1]
  /\ Goto(c, "exit")
  /\ UNCHANGED <<state, pid, parent, chan, kstack, ret, np, sv, cpuVars, nextpid, panicked>>

\* The channels that exit() wakes: the parent, and init if it inherits a
\* zombie.  Mutants: not the parent; not init.
exit_wakes_init(me) ==
  IF \E s \in Slots : parent[s] = me /\ state[s] = "ZOMBIE" THEN {initproc} ELSE {}

exit_wakes_parent(me) == {parent[me]}

exit_wakes(me) == exit_wakes_parent(me) \cup exit_wakes_init(me)

\* The children of an exiting process go to init.  Mutant: they do not.
keep_children(me) == parent

pass_children(me) ==
  [s \in Slots |-> IF parent[s] = me THEN initproc ELSE parent[s]]

\* exit() acquires ptable.lock and keeps it.  Mutant: it does not keep it.
exit_unlocked(c) == Locked(c)

exit_acquire(c) == Acquire(c)

\* exit() from the acquire on: the parent is woken, the children go to init,
\* and the process becomes a zombie with the lock held.
ExitLocked(c) ==
  /\ At(c, "exit")
  /\ exit_acquire(c)
  /\ parent' = pass_children(run[c])
  /\ state' = [wakeup1(state, exit_wakes(run[c])) EXCEPT ![run[c]] = "ZOMBIE"]
  /\ Goto(c, "zombie")
  /\ UNCHANGED <<pid, killed, chan, kstack, ret, np, sv, run, idx, nextpid, panicked>>

\* The exited children of a process.
zombie_children(me) == {s \in Slots : parent[s] = me /\ state[s] = "ZOMBIE"}

\* The loop of wait(), with the lock held: the first zombie child is freed,
\* or there is nothing to wait for, or sleep(curproc, &ptable.lock).
WaitScan(c) ==
  /\ At(c, "scan")
  /\ LET me == run[c]
         kids == {s \in Slots : parent[s] = me}
         zombies == zombie_children(me)
     IN \/ /\ zombies # {}
           /\ LET z == Min(zombies) IN
              /\ kstack' = [kstack EXCEPT ![z] = 0]
              /\ pid' = [pid EXCEPT ![z] = 0]
              /\ parent' = [parent EXCEPT ![z] = 0]
              /\ killed' = [killed EXCEPT ![z] = 0]
              /\ state' = [state EXCEPT ![z] = "UNUSED"]
           /\ Release(c)
           /\ Goto(c, "sysret")
           /\ UNCHANGED chan
        \/ /\ zombies = {}
           /\ kids = {} \/ killed[me] = 1
           /\ Release(c)
           /\ Goto(c, "sysret")
           /\ UNCHANGED procVars
        \/ /\ zombies = {} /\ kids # {} /\ killed[me] = 0
           /\ chan' = [chan EXCEPT ![me] = me]
           /\ state' = [state EXCEPT ![me] = "SLEEPING"]
           /\ Goto(c, "asleep")
           /\ UNCHANGED <<pid, parent, killed, kstack, lock, intena, fl_if>>
  /\ UNCHANGED <<ret, np, sv, run, idx, nextpid, panicked>>

WaitEnter(c) ==
  /\ At(c, "wait")
  /\ Acquire(c)
  /\ Goto(c, "scan")
  /\ UNCHANGED <<procVars, ret, np, sv, run, idx, nextpid, panicked>>

\* kill() wakes the slot it has marked.  Mutant: it does not.
kill_nowake(s) == state

kill_wake(s) == [state EXCEPT ![s] = IF @ = "SLEEPING" THEN "RUNNABLE" ELSE @]

\* The first slot with this pid, whatever its state, is marked and woken.
Kill(c, p) ==
  /\ At(c, "kill")
  /\ Locked(c)
  /\ LET match == {s \in Slots : pid[s] = p} IN
     IF match = {} THEN UNCHANGED <<state, killed>>
     ELSE /\ killed' = [killed EXCEPT ![Min(match)] = 1]
          /\ state' = kill_wake(Min(match))
  /\ Goto(c, "sysret")
  /\ UNCHANGED <<pid, parent, chan, kstack, ret, np, sv, run, idx, nextpid, panicked>>
-----------------------------------------------------------------------------
(***************************************************************************)
(* Traps, yield(), sched() and scheduler().                                *)
(***************************************************************************)

\* The calls of fork() on their way to allocproc(): MaxPid bounds them too.
Forking == {s \in Slots : "fork" \in {pc[s], ret[s]}}

\* trap() on a system call, for a process that has not been killed.
SysCall(c, call) ==
  /\ At(c, "user") /\ killed[run[c]] = 0
  /\ call = "fork" => nextpid + Cardinality(Forking) <= MaxPid
  /\ Goto(c, call)
  /\ UNCHANGED <<procVars, ret, np, sv, cpuVars, nextpid, panicked>>

\* The end of trap() for a system call: the killed check, then user mode.
SysRet(c) ==
  /\ At(c, "sysret")
  /\ IF killed[run[c]] = 1
       THEN /\ ExitCheck(c)
            /\ Goto(c, "exit")
       ELSE Goto(c, "user") /\ UNCHANGED panicked
  /\ UNCHANGED <<procVars, ret, np, sv, cpuVars, nextpid>>

\* The timer interrupts a thread: the gate clears FL_IF; a killed process in
\* user mode exits (with interrupts off), any other will yield().
Timer(c) ==
  /\ panicked = "none" /\ run[c] # 0 /\ fl_if[c] = 1
  /\ fl_if' = [fl_if EXCEPT ![c] = 0]
  /\ IF pc[run[c]] = "user" /\ killed[run[c]] = 1
       THEN /\ ExitCheck(c)
            /\ Goto(c, "exit")
            /\ UNCHANGED ret
       ELSE /\ ret' = [ret EXCEPT ![run[c]] = pc[run[c]]]
            /\ Goto(c, "timer")
            /\ UNCHANGED panicked
  /\ UNCHANGED <<procVars, np, sv, run, idx, lock, intena, nextpid>>

Yield(c) ==
  /\ At(c, "timer")
  /\ Acquire(c)
  /\ state' = [state EXCEPT ![run[c]] = "RUNNABLE"]
  /\ Goto(c, "yielded")
  /\ UNCHANGED <<pid, parent, killed, chan, kstack, ret, np, sv, run, idx, nextpid, panicked>>

\* sched(): its checks, and swtch() to the CPU's scheduler.
Sched(c) ==
  /\ panicked = "none" /\ run[c] # 0
  /\ pc[run[c]] \in DOMAIN AfterSched
  /\ IF lock # c THEN panic("sched ptable.lock")
     ELSE IF state[run[c]] = "RUNNING" THEN panic("sched running")
     ELSE IF fl_if[c] = 1 THEN panic("sched interruptible")
     ELSE UNCHANGED panicked
  /\ sv' = [sv EXCEPT ![run[c]] = intena[c]]
  /\ Goto(c, AfterSched[pc[run[c]]])
  /\ run' = [run EXCEPT ![c] = 0]
  /\ UNCHANGED <<procVars, ret, np, idx, lock, intena, fl_if, nextpid>>

\* scheduler(): sti(), acquire(&ptable.lock), the scan starts.
SchedulerEnter(c) ==
  /\ panicked = "none" /\ run[c] = 0 /\ idx[c] = 0
  /\ Acquire(c)
  /\ idx' = [idx EXCEPT ![c] = 1]
  /\ UNCHANGED <<procVars, threadVars, run, nextpid, panicked>>

\* p->state = RUNNING.  Mutant: it stays RUNNABLE.
mark_not(s) == UNCHANGED state

mark_running(s) == state' = [state EXCEPT ![s] = "RUNNING"]

\* The scan goes on to the next RUNNABLE slot and swtch()es to its thread, or
\* ends: release(&ptable.lock), and sti() at the top of the loop.
SchedulerScan(c) ==
  /\ panicked = "none" /\ run[c] = 0 /\ idx[c] # 0
  /\ LET ready == {s \in Slots : s >= idx[c] /\ state[s] = "RUNNABLE"} IN
     IF ready # {}
       THEN LET s == Min(ready) IN
            /\ mark_running(s)
            /\ run' = [run EXCEPT ![c] = s]
            /\ idx' = [idx EXCEPT ![c] = s + 1]
            /\ UNCHANGED <<lock, intena, fl_if>>
       ELSE /\ lock' = NoCPU
            /\ fl_if' = [fl_if EXCEPT ![c] = 1]
            /\ intena' = [intena EXCEPT ![c] = 0]
            /\ idx' = [idx EXCEPT ![c] = 0]
            /\ UNCHANGED <<state, run>>
  /\ UNCHANGED <<pid, parent, killed, chan, kstack, threadVars, nextpid, panicked>>

\* After swtch(): the thread's intena goes to the CPU it is on now.  Mutant:
\* the CPU keeps the one it has.
intena_of_cpu(c) == intena[c]

intena_of_thread(c) == sv[run[c]]

\* sched() returns in wait(): sleep() clears chan, the loop scans again.
WakeInWait(c) ==
  /\ At(c, "woken")
  /\ intena' = [intena EXCEPT ![c] = intena_of_thread(c)]
  /\ sv' = [sv EXCEPT ![run[c]] = 0]
  /\ chan' = [chan EXCEPT ![run[c]] = 0]
  /\ Goto(c, "scan")
  /\ UNCHANGED <<state, pid, parent, killed, kstack, ret, np, run, idx, lock, fl_if, nextpid, panicked>>

\* sched() of an exited process must not return.
ZombieExit(c) ==
  IF pc[run[c]] = "undead" THEN panic("zombie exit") ELSE UNCHANGED panicked

\* sched() returns in yield() (or in exit()): release(&ptable.lock), back in trap().
YieldReturn(c) ==
  /\ panicked = "none" /\ run[c] # 0 /\ pc[run[c]] \in {"resumed", "undead"}
  /\ ZombieExit(c)
  /\ lock' = NoCPU
  /\ fl_if' = [fl_if EXCEPT ![c] = intena_of_thread(c)]
  /\ intena' = [intena EXCEPT ![c] = 0]
  /\ sv' = [sv EXCEPT ![run[c]] = 0]
  /\ Goto(c, "trapret")
  /\ UNCHANGED <<procVars, ret, np, run, idx, nextpid>>

\* A new process starts in forkret(), with the lock its scheduler took, and
\* goes to user mode without passing the checks of trap().
ForkRet(c) ==
  /\ At(c, "forkret")
  /\ Release(c)
  /\ Goto(c, "iret")
  /\ UNCHANGED <<procVars, ret, np, sv, run, idx, nextpid, panicked>>

Iret(c) ==
  /\ At(c, "iret")
  /\ fl_if' = [fl_if EXCEPT ![c] = 1]
  /\ Goto(c, "user")
  /\ UNCHANGED <<procVars, ret, np, sv, run, idx, lock, intena, nextpid, panicked>>

\* The last killed check of trap(), for an interrupt from user mode, and iret.
TrapRet(c) ==
  /\ At(c, "trapret")
  /\ LET back == ret[run[c]] IN
     IF back = "user" /\ killed[run[c]] = 1
       THEN /\ ExitCheck(c)
            /\ Goto(c, "exit")
            /\ UNCHANGED fl_if
       ELSE /\ Goto(c, back)
            /\ fl_if' = [fl_if EXCEPT ![c] = 1]
            /\ UNCHANGED panicked
  /\ ret' = [ret EXCEPT ![run[c]] = "user"]
  /\ UNCHANGED <<procVars, np, sv, run, idx, lock, intena, nextpid>>

\* The code of the system calls, of exit() and of a new process.
KernelStep(c) ==
  \/ ForkAlloc(c) \/ ForkKstack(c) \/ ForkCopy(c) \/ ForkRun(c)
  \/ ExitLocked(c) \/ WaitEnter(c) \/ WaitScan(c)
  \/ \E p \in KillTargets : Kill(c, p)
  \/ SysRet(c) \/ ForkRet(c) \/ Iret(c)

\* The code that gives the CPU away and gets it back.
SwitchStep(c) ==
  \/ Yield(c) \/ Sched(c) \/ YieldReturn(c) \/ TrapRet(c)
  \/ WakeInWait(c)

\* What the program in user mode does.
UserStep(c) ==
  \/ \E call \in SysCalls : SysCall(c, call)
  \/ ExitCall(c)
  \/ Fault(c)

SchedulerStep(c) == SchedulerEnter(c) \/ SchedulerScan(c)

Next ==
  \E c \in CPUs :
    KernelStep(c) \/ SwitchStep(c) \/ UserStep(c) \/ Timer(c) \/ SchedulerStep(c)

Spec == Init /\ [][Next]_vars

\* Every CPU keeps executing and does not lose every race for ptable.lock; a
\* thread that gets a CPU again and again gets on with its code between the
\* interrupts, and in user mode meets the timer in the end; and init keeps
\* calling wait() (init.c).
Fairness ==
  /\ \A c \in CPUs : SF_vars(SwitchStep(c)) /\ SF_vars(SchedulerStep(c))
  /\ \A s \in Slots :
       /\ SF_vars(\E c \in CPUs : run[c] = s /\ KernelStep(c))
       /\ SF_vars(\E c \in CPUs : run[c] = s /\ pc[s] = "user" /\ Timer(c))
  /\ SF_vars(\E c \in CPUs : run[c] = initproc /\ SysCall(c, "wait"))

FairSpec == Spec /\ Fairness
-----------------------------------------------------------------------------
(***************************************************************************)
(* Properties.                                                             *)
(***************************************************************************)
TypeOK ==
  /\ state \in [Slots -> {"UNUSED", "EMBRYO", "SLEEPING", "RUNNABLE", "RUNNING", "ZOMBIE"}]
  /\ pid \in [Slots -> 0..MaxPid]
  /\ parent \in [Slots -> 0..NPROC]
  /\ killed \in [Slots -> {0, 1}]
  /\ chan \in [Slots -> 0..NPROC]
  /\ kstack \in [Slots -> {0, 1}]
  /\ pc \in [Slots -> Labels]
  /\ ret \in [Slots -> Labels]
  /\ np \in [Slots -> 0..NPROC]
  /\ sv \in [Slots -> {0, 1}]
  /\ run \in [CPUs -> 0..NPROC]
  /\ idx \in [CPUs -> 0..(NPROC + 1)]
  /\ lock \in CPUs \cup {NoCPU}
  /\ intena \in [CPUs -> {0, 1}]
  /\ fl_if \in [CPUs -> {0, 1}]
  /\ nextpid \in 1..(MaxPid + 1)
  /\ panicked \in {"none", "init exiting", "sched ptable.lock", "sched running",
                  "sched interruptible", "zombie exit"}

\* No two CPUs execute the same kernel thread, and while ptable.lock is free
\* the RUNNING slots are exactly those that some CPU executes: a thread that
\* has given up its CPU in exit(), sleep() or yield() is not picked up by
\* another scheduler before its context has been saved.
OneCpuPerThread ==
  /\ \A c, d \in CPUs : c # d /\ run[c] # 0 => run[c] # run[d]
  /\ lock = NoCPU =>
       {s \in Slots : state[s] = "RUNNING"} = {run[c] : c \in CPUs} \ {0}

\* No CPU executes on a kernel stack that wait() has freed, and a slot that is
\* unused owns no stack: exit() keeps the lock until it has left its stack.
StackSafety ==
  /\ \A c \in CPUs : run[c] # 0 => kstack[run[c]] = 1
  /\ \A s \in Slots : kstack[s] = 1 => state[s] # "UNUSED"

\* While the lock is free, a process asleep in wait() has a child to wait for,
\* none of its children is a zombie, and it has not been killed: neither an
\* exit nor a kill slips between the scan of wait() and its sleep().
NoLostExit ==
  lock = NoCPU =>
    \A s \in Slots : state[s] = "SLEEPING" =>
      /\ killed[s] = 0
      /\ \E k \in Slots : parent[k] = s
      /\ \A k \in Slots : parent[k] = s => state[k] # "ZOMBIE"

\* While the lock is free, the parent of every process but init is a process
\* that can still wait for it: exit() hands every child to init, although
\* fork() sets np->parent without the lock.
OrphansAdopted ==
  lock = NoCPU =>
    \A s \in Slots :
      /\ parent[s] # 0 => /\ state[s] # "UNUSED"
                          /\ state[parent[s]] \notin {"UNUSED", "EMBRYO", "ZOMBIE"}
      /\ state[s] \notin {"UNUSED", "EMBRYO"} /\ s # initproc => parent[s] # 0

\* Two processes never have the same pid, and none has pid 0.
PidUnique ==
  \A s, t \in Used : pid[s] # 0 /\ (s # t => pid[s] # pid[t])

\* Interrupts are on in user mode and throughout a system call outside the
\* lock, even after sched() has moved the thread to another CPU, and off from
\* a timer interrupt to its iret: sched() saves and restores intena.
InterruptsFollowThread ==
  \A c \in CPUs : run[c] # 0 =>
    /\ pc[run[c]] \in {"user", "fork", "wait", "kill", "kstack", "copy", "setrun", "sysret"}
         => fl_if[c] = 1
    /\ pc[run[c]] \in {"timer", "trapret"} => fl_if[c] = 0

\* None of the panics of exit(), sched() and scheduler() is reached as long as
\* nobody kills init.
NoPanic == panicked = "none"

\* The table is consistent at every moment: pids are distinct and every process
\* has a parent that can wait for it, through any interleaving of fork(),
\* exit(), wait() and kill(), and none of their panics is reached.
TableConsistent == TypeOK /\ PidUnique /\ OrphansAdopted /\ NoPanic

\* A kernel thread is executed by one CPU at a time, and on a stack that it
\* still owns, while exit(), sleep() and yield() give it up and scheduler()
\* picks it up again.
ThreadsSafe == OneCpuPerThread /\ StackSafety

\* A process that has been killed stops running, wherever the kill finds it.
KilledDies ==
  \A s \in Slots \ {initproc} :
    killed[s] = 1 /\ s \in Used ~> state[s] \in {"ZOMBIE", "UNUSED"}

\* A child of init that has exited is removed from the table.
OrphanReaped ==
  \A s \in Slots \ {initproc} :
    state[s] = "ZOMBIE" /\ parent[s] = initproc ~> state[s] = "UNUSED"

\* Processes come to an end: a killed one stops wherever kill() finds it, and
\* what it leaves to init is reaped.
ProcessesEnd == KilledDies /\ OrphanReaped

\* What the comment above kill() says ("Kill the process with the given pid"):
\* a process that kill() has never seen is not killed, so a slot that fork()
\* takes is not marked already.
ForkedAlive ==
  [][\A s \in Slots : state[s] = "UNUSED" /\ state'[s] = "EMBRYO" =>
       killed'[s] = 0]_vars
=============================================================================
