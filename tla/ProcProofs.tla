----------------------------- MODULE ProcProofs -----------------------------
(***************************************************************************)
(* Proofs about Proc, for any slots, CPUs, pids and arguments of kill():   *)
(* the inductive invariant, why every step keeps it, and that it implies   *)
(* that no thread is on two CPUs or on a freed stack, that no exit is      *)
(* missed, that interrupts follow the thread, and that pids and families   *)
(* are in order.                                                           *)
(***************************************************************************)
EXTENDS Proc, FiniteSetTheorems, WellFoundedInduction, TLAPS

\* A thread that the timer has interrupted, up to its iret.
TimerLabels == {"timer", "yielded", "resumed", "trapret"}

\* The places of a thread outside ptable.lock with interrupts on.
Open == {"user", "fork", "wait", "kill", "kstack", "copy", "setrun", "sysret"}

\* The places of an executing thread that has ptable.lock.
Inside == {"scan", "asleep", "woken", "yielded", "resumed", "zombie", "undead", "forkret"}

\* Where the code of slot s is, a timer interrupt apart.
Where(s) == IF pc[s] \in TimerLabels THEN ret[s] ELSE pc[s]

\* A CPU has ptable.lock exactly while its scheduler is in the scan or the
\* thread it executes is in one of the places inside the lock.
Holding ==
  \A c \in CPUs :
    lock = c <=> \/ run[c] = 0 /\ idx[c] # 0
                 \/ run[c] # 0 /\ pc[run[c]] \in Inside

\* The slot that a CPU executes is RUNNING, but for a thread that has changed
\* its state and is about to call sched(); no two CPUs execute the same slot.
Running ==
  \A c \in CPUs : run[c] # 0 =>
    /\ idx[c] # 0
    /\ pc[run[c]] # "undead"
    /\ pc[run[c]] = "zombie" => state[run[c]] = "ZOMBIE"
    /\ pc[run[c]] = "asleep" => state[run[c]] = "SLEEPING"
    /\ pc[run[c]] = "yielded" => state[run[c]] = "RUNNABLE"
    /\ pc[run[c]] \notin {"zombie", "asleep", "yielded"} => state[run[c]] = "RUNNING"
    /\ \A d \in CPUs : d # c => run[d] # run[c]

\* A slot that no CPU executes is not RUNNING, and its saved context is where
\* the state says: a runnable thread will return from swtch() into forkret(),
\* sleep() or yield(), a sleeping one into sleep(), and a zombie nowhere.
Parked ==
  \A s \in Slots : (\A c \in CPUs : run[c] # s) =>
    /\ state[s] # "RUNNING"
    /\ state[s] = "RUNNABLE" => pc[s] \in {"forkret", "woken", "resumed"}
    /\ state[s] = "SLEEPING" => pc[s] = "woken"
    /\ state[s] = "ZOMBIE" => pc[s] = "undead"
    /\ state[s] \in {"UNUSED", "EMBRYO"} => pc[s] \in {"forkret", "undead"}

\* An unused slot has no kernel stack, and every process has one.
Stacks ==
  \A s \in Slots :
    /\ state[s] = "UNUSED" => kstack[s] = 0
    /\ state[s] \notin {"UNUSED", "EMBRYO"} => kstack[s] = 1

\* A fork() that has allocated its new process owns it: it is an EMBRYO with
\* the stack and the parent of the step that fork() has come to, no other
\* fork() has it, and before it is made RUNNABLE its thread is at forkret().
Forks ==
  \A s \in Slots :
    /\ np[s] # 0 <=> Where(s) \in {"kstack", "copy", "setrun"}
    /\ np[s] # 0 =>
         /\ state[np[s]] = "EMBRYO"
         /\ kstack[np[s]] = IF Where(s) = "kstack" THEN 0 ELSE 1
         /\ parent[np[s]] = IF Where(s) = "setrun" THEN s ELSE 0
         /\ Where(s) = "setrun" => pc[np[s]] = "forkret"
         /\ \A t \in Slots : t # s => np[t] # np[s]

\* The timer interrupts a thread only outside the lock.
Returns ==
  \A s \in Slots :
    /\ ret[s] \in Open \cup {"exit", "iret"}
    /\ pc[s] \notin TimerLabels => ret[s] = "user"

\* The processes that have not exited.
Alive == {s \in Slots : state[s] \in {"SLEEPING", "RUNNABLE", "RUNNING"}}

\* init never exits without a panic, and is nobody's child; a child is in use
\* and its parent is another process, alive; everybody but init has a parent.
Families ==
  /\ initproc \in Alive /\ parent[initproc] = 0
  /\ Where(initproc) = "exit" => panicked # "none"
  /\ \A s \in Slots :
       /\ parent[s] # 0 => state[s] # "UNUSED" /\ parent[s] \in Alive \ {s}
       /\ state[s] \notin {"UNUSED", "EMBRYO"} /\ s # initproc => parent[s] # 0

\* A process asleep in wait() has not been killed, has a child, and has no
\* child that is a zombie.
Sleepers ==
  \A s \in Slots : state[s] = "SLEEPING" =>
    /\ killed[s] = 0 /\ chan[s] = s
    /\ \E k \in Slots : parent[k] = s
    /\ \A k \in Slots : parent[k] = s => state[k] # "ZOMBIE"

\* pids are distinct and below nextpid, the bound on them leaves one for every
\* fork() under way, and init has pid 1.
Pids ==
  /\ PidUnique
  /\ \A s \in Slots : pid[s] < nextpid
  /\ nextpid + Cardinality(Forking) <= MaxPid + 1
  /\ pid[initproc] = 1

\* FL_IF and intena of a CPU are what the place of its thread needs: the timer
\* comes in only where it may, and yield() and wait() will restore the flag
\* they have entered with.
Flags ==
  \A c \in CPUs :
    /\ lock = c => fl_if[c] = 0
    /\ run[c] # 0 =>
         /\ pc[run[c]] \in Open => fl_if[c] = 1
         /\ pc[run[c]] \in {"timer", "trapret"} => fl_if[c] = 0
         /\ pc[run[c]] \in {"scan", "asleep"} => intena[c] = 1
         /\ pc[run[c]] = "yielded" => intena[c] = 0

\* The intena that sched() saved is that of its caller: wait() came in with
\* interrupts on, yield() from the timer with interrupts off.
Saved ==
  \A s \in Slots :
    /\ pc[s] = "woken" => sv[s] = 1
    /\ pc[s] = "resumed" => sv[s] = 0

\* The inductive invariant.
IInv ==
  /\ TypeOK /\ Holding /\ Running /\ Parked /\ Stacks /\ Forks /\ Returns
  /\ Families /\ Sleepers /\ Pids /\ Flags /\ Saved
  /\ panicked \in {"none", "init exiting"}

-----------------------------------------------------------------------------
(***************************************************************************)
(* What the steps of a thread have in common.                              *)
(***************************************************************************)

\* 0 is no slot; a CPU, a fork() and a parent name a slot or 0.
LEMMA SlotTypes ==
  ASSUME TypeOK
  PROVE  /\ 0 \notin Slots /\ initproc \in Slots /\ NoCPU \notin CPUs
         /\ 0 \in 0..NPROC /\ Slots \subseteq 0..NPROC
         /\ \A c \in CPUs : run[c] # 0 => run[c] \in Slots
         /\ \A s \in Slots : np[s] # 0 => np[s] \in Slots
         /\ \A s \in Slots : parent[s] # 0 => parent[s] \in Slots
<1>1. /\ run \in [CPUs -> 0..NPROC] /\ np \in [Slots -> 0..NPROC]
      /\ parent \in [Slots -> 0..NPROC]
  BY Zenon DEF TypeOK
<1>2. 0..NPROC = {0} \cup Slots /\ 0 \notin Slots /\ initproc \in Slots
  BY NPROCAssumption DEF Slots, initproc
<1>. QED BY <1>1, <1>2, NoCPUAssumption

\* What the invariant says of the slot that a CPU executes.
LEMMA SlotFacts ==
  ASSUME IInv, NEW c \in CPUs, run[c] # 0
  PROVE  /\ run[c] \in Slots
         /\ pc[run[c]] \notin {"zombie", "asleep", "yielded"} => state[run[c]] = "RUNNING"
         /\ lock = c <=> pc[run[c]] \in Inside
         /\ idx[c] # 0
         /\ \A d \in CPUs \ {c} : run[d] # run[c]
<1>1. run[c] \in Slots
  BY SlotTypes, Zenon DEF IInv
<1>2. lock = c <=> pc[run[c]] \in Inside
  BY Zenon DEF IInv, Holding
<1>. QED BY <1>1, <1>2, Zenon DEF IInv, Running

\* The table is finite.
LEMMA SlotsFinite == IsFiniteSet(Slots)
BY FS_Interval, NPROCAssumption DEF Slots

\* The pids stay distinct where no slot comes into use, pids go only to 0, and
\* a fork() begins only within the bound.
LEMMA PidsFrame ==
  ASSUME TypeOK, Pids, NEW s \in Slots, nextpid' = nextpid, pid'[initproc] = pid[initproc],
         \A t \in Slots : pid'[t] \in {0, pid[t]},
         \A t \in Slots : state'[t] # "UNUSED" => state[t] # "UNUSED" /\ pid'[t] = pid[t],
         \/ Forking' \subseteq Forking
         \/ Forking' \subseteq Forking \cup {s} /\ nextpid + Cardinality(Forking) <= MaxPid
  PROVE  Pids'
<1>1. nextpid \in Nat
  <2>1. nextpid \in 1..(MaxPid + 1)
    BY Zenon DEF TypeOK
  <2>. QED BY <2>1, MaxPidAssumption
<1>2. IsFiniteSet(Forking) /\ IsFiniteSet(Forking \cup {s})
  BY SlotsFinite, FS_Subset, FS_AddElement DEF Forking
<1>3. \A S \in SUBSET Forking : Cardinality(S) \in Nat /\ Cardinality(S) <= Cardinality(Forking)
  BY <1>2, FS_Subset, FS_CardinalityType
<1>4. \A S \in SUBSET (Forking \cup {s}) :
        Cardinality(S) \in Nat /\ Cardinality(S) <= Cardinality(Forking \cup {s})
  BY SMT, SMTT(40), <1>2, FS_Subset, FS_CardinalityType
<1>5. Cardinality(Forking \cup {s}) \in {Cardinality(Forking), Cardinality(Forking) + 1}
  BY <1>2, FS_AddElement
<1>6. Cardinality(Forking) \in Nat /\ nextpid + Cardinality(Forking) <= MaxPid + 1
  BY <1>2, FS_CardinalityType, Zenon DEF Pids
<1>7. nextpid' + Cardinality(Forking') <= MaxPid + 1
  <2>1. CASE Forking' \subseteq Forking
    BY SMT, SMTT(40), <1>1, <1>3, <1>6, <2>1, MaxPidAssumption
  <2>2. CASE Forking' \subseteq Forking \cup {s} /\ nextpid + Cardinality(Forking) <= MaxPid
    BY SMT, SMTT(40), <1>1, <1>4, <1>5, <1>6, <2>2, MaxPidAssumption
  <2>. QED BY <2>1, <2>2
<1>8. \A t \in Slots : pid'[t] < nextpid'
  <2>1. nextpid > 0
    <3>1. nextpid \in 1..(MaxPid + 1)
      BY Zenon DEF TypeOK
    <3>. QED BY SMT, SMTT(40), <3>1, MaxPidAssumption
  <2>. QED BY <2>1 DEF Pids
<1>9. PidUnique'
  BY DEF Pids, PidUnique, Used
<1>. QED BY <1>7, <1>8, <1>9 DEF Pids

\* A fork() under way has a pid left for it.
LEMMA ForkingLess ==
  ASSUME TypeOK, Pids, NEW s \in Forking, NEW S \in SUBSET (Forking \ {s})
  PROVE  nextpid \in 1..MaxPid /\ nextpid + 1 + Cardinality(S) <= MaxPid + 1
<1>1. nextpid \in 1..(MaxPid + 1) /\ nextpid + Cardinality(Forking) <= MaxPid + 1
  BY Zenon DEF TypeOK, Pids
<1>2. IsFiniteSet(Forking)
  BY SlotsFinite, FS_Subset DEF Forking
<1>3. /\ IsFiniteSet(Forking \ {s}) /\ Cardinality(Forking) \in Nat
      /\ Cardinality(Forking \ {s}) = Cardinality(Forking) - 1
  BY <1>2, FS_RemoveElement, FS_CardinalityType
<1>4. Cardinality(S) \in Nat /\ Cardinality(S) <= Cardinality(Forking \ {s})
  BY <1>3, FS_Subset, FS_CardinalityType
<1>. QED BY SMT, SMTT(40), <1>1, <1>3, <1>4, MaxPidAssumption

\* The places with the lock that a step of a thread can lead to.
Holds == {"scan", "asleep", "yielded", "zombie"}

\* The thread of s on c goes to l and has there the state, the lock and the
\* flag that l asks for; the other CPUs see nothing of it.
GoesTo(c, s, l) ==
  /\ run' = run /\ idx' = idx
  /\ pc'[s] = l /\ l \in {"timer", "trapret", "exit", "iret"} \cup Open \cup Holds
  /\ state'[s] = CASE l = "zombie" -> "ZOMBIE" [] l = "asleep" -> "SLEEPING"
                   [] l = "yielded" -> "RUNNABLE" [] OTHER -> "RUNNING"
  /\ \A d \in CPUs \ {c} :
       /\ run[d] # 0 => pc'[run[d]] = pc[run[d]] /\ state'[run[d]] = state[run[d]]
       /\ fl_if'[d] = fl_if[d] /\ intena'[d] = intena[d]
  /\ l \in Holds => lock \in {c, NoCPU} /\ lock' = c /\ fl_if'[c] = 0
  /\ l \notin Holds /\ lock = c => lock' = NoCPU
  /\ l \notin Holds /\ lock # c => lock' = lock
  /\ l \in Open => fl_if'[c] = 1
  /\ l \in {"timer", "trapret"} => fl_if'[c] = 0
  /\ l \in {"scan", "asleep"} => intena'[c] = 1
  /\ l = "yielded" => intena'[c] = 0

\* Such a step keeps what the invariant says of the CPUs.
LEMMA CpuFrame ==
  ASSUME IInv, NEW c \in CPUs, NEW s \in Slots, NEW l, run[c] = s, GoesTo(c, s, l)
  PROVE  Holding' /\ Running' /\ Flags'
<1>. USE DEF IInv
<1>1. /\ run' = run /\ idx' = idx /\ pc'[s] = l
      /\ \A d \in CPUs \ {c} : run[d] # 0 =>
           pc'[run[d]] = pc[run[d]] /\ state'[run[d]] = state[run[d]]
  BY Zenon DEF GoesTo
<1>2. s # 0 /\ idx[c] # 0 /\ \A d \in CPUs \ {c} : run[d] # s
  BY Zenon, SlotTypes, SlotFacts
<1>3. \A d \in CPUs \ {c} : lock' = d <=> lock = d
  BY Zenon, NoCPUAssumption DEF GoesTo
<1>4. lock' = c <=> l \in Holds
  BY Zenon, NoCPUAssumption DEF GoesTo
<1>5. Holding'
  <2>1. l \in Inside <=> l \in Holds
    BY Zenon DEF GoesTo, Open, Inside, Holds
  <2>2. lock' = c <=> \/ run'[c] = 0 /\ idx'[c] # 0
                      \/ run'[c] # 0 /\ pc'[run'[c]] \in Inside
    BY Zenon, <1>1, <1>2, <1>4, <2>1
  <2>3. ASSUME NEW d \in CPUs \ {c}
        PROVE  lock' = d <=> \/ run'[d] = 0 /\ idx'[d] # 0
                             \/ run'[d] # 0 /\ pc'[run'[d]] \in Inside
    BY <1>1, <1>3, Zenon DEF Holding
  <2>. QED BY <2>2, <2>3, Zenon DEF Holding
<1>6. Running'
  <2>1. /\ l # "undead"
        /\ l = "zombie" => state'[s] = "ZOMBIE"
        /\ l = "asleep" => state'[s] = "SLEEPING"
        /\ l = "yielded" => state'[s] = "RUNNABLE"
        /\ l \notin {"zombie", "asleep", "yielded"} => state'[s] = "RUNNING"
    BY Zenon DEF GoesTo, Open, Holds
  <2>. QED BY ZenonT(60), <1>1, <1>2, <2>1 DEF Running
<1>7. Flags'
  <2>. SUFFICES ASSUME NEW d \in CPUs
                PROVE  (/\ lock = d => fl_if[d] = 0
                        /\ run[d] # 0 =>
                             /\ pc[run[d]] \in Open => fl_if[d] = 1
                             /\ pc[run[d]] \in {"timer", "trapret"} => fl_if[d] = 0
                             /\ pc[run[d]] \in {"scan", "asleep"} => intena[d] = 1
                             /\ pc[run[d]] = "yielded" => intena[d] = 0)'
    BY Zenon DEF Flags
  <2>1. CASE d = c
    BY Zenon, <1>1, <1>2, <1>4, <2>1 DEF GoesTo
  <2>2. CASE d # c
    <3>1. /\ fl_if'[d] = fl_if[d] /\ intena'[d] = intena[d] /\ run'[d] = run[d]
          /\ (lock' = d <=> lock = d) /\ (run[d] # 0 => pc'[run[d]] = pc[run[d]])
      BY Zenon, <1>1, <1>3, <2>2 DEF GoesTo
    <3>. QED BY Zenon, <3>1 DEF Flags
  <2>. QED BY Zenon, <2>1, <2>2
<1>. QED BY Zenon, <1>5, <1>6, <1>7

\* fork()s that have a new process keep it where no step touches an EMBRYO.
LEMMA ForksFrame ==
  ASSUME TypeOK, Forks, np' = np,
         \A t \in Slots : state[t] = "EMBRYO" =>
           state'[t] = "EMBRYO" /\ kstack'[t] = kstack[t] /\ pc'[t] = pc[t],
         \A t \in Slots : np[t] # 0 => parent'[np[t]] = parent[np[t]],
         \A t \in Slots : \/ Where(t)' = Where(t)
                          \/ {Where(t), Where(t)'} \cap {"kstack", "copy", "setrun"} = {}
  PROVE  Forks'
<1>. SUFFICES ASSUME NEW s \in Slots
              PROVE  (/\ np[s] # 0 <=> Where(s) \in {"kstack", "copy", "setrun"}
                      /\ np[s] # 0 =>
                           /\ state[np[s]] = "EMBRYO"
                           /\ kstack[np[s]] = IF Where(s) = "kstack" THEN 0 ELSE 1
                           /\ parent[np[s]] = IF Where(s) = "setrun" THEN s ELSE 0
                           /\ Where(s) = "setrun" => pc[np[s]] = "forkret"
                           /\ \A t \in Slots : t # s => np[t] # np[s])'
  BY DEF Forks
<1>1. np[s] # 0 <=> Where(s) \in {"kstack", "copy", "setrun"}
  BY Zenon DEF Forks
<1>2. CASE np[s] = 0
  BY Zenon, <1>1, <1>2
<1>3. CASE np[s] # 0
  <2>1. np[s] \in Slots /\ state[np[s]] = "EMBRYO"
    BY <1>3, SlotTypes, Zenon DEF Forks
  <2>2. Where(s)' = Where(s)
    BY Zenon, <1>1, <1>3
  <2>. QED BY SMT, SMTT(40), <1>3, <2>1, <2>2 DEF Forks
<1>. QED BY SMT, SMTT(40), <1>2, <1>3

\* The step of s leaves the other slots alone, but for waking sleepers while
\* the lock is free.
Keeps(s) ==
  /\ UNCHANGED <<pid, kstack, np, nextpid>>
  /\ \A t \in Slots \ {s} :
       /\ pc'[t] = pc[t] /\ ret'[t] = ret[t] /\ sv'[t] = sv[t]
       /\ \/ state'[t] = state[t]
          \/ lock = NoCPU /\ state[t] = "SLEEPING" /\ state'[t] = "RUNNABLE"
  /\ \A t \in Slots : np[t] # 0 => parent'[np[t]] = parent[np[t]]

\* The code of s goes to l in a way that concerns no fork() of another
\* process: it enters or leaves no section of fork() that owns a new process,
\* only an exit() that panics is init's, and a new fork() is within the bound.
GoesOn(s, l) ==
  /\ ret'[s] \in Open \cup {"exit", "iret"}
  /\ l \notin TimerLabels => ret'[s] = "user"
  /\ \/ Where(s)' = Where(s)
     \/ {Where(s), Where(s)'} \cap {"kstack", "copy", "setrun"} = {}
  /\ s = initproc /\ Where(s)' = "exit" => panicked' # "none"
  /\ \/ "fork" \in {l, ret'[s]} => "fork" \in {pc[s], ret[s]}
     \/ nextpid + Cardinality(Forking) <= MaxPid

\* A step of one thread that leaves the other slots alone keeps the invariant,
\* if it keeps the families and the sleepers.
LEMMA MoveInv ==
  ASSUME IInv, NEW c \in CPUs, NEW s \in Slots, NEW l, run[c] = s, state[s] = "RUNNING",
         TypeOK', Keeps(s), GoesTo(c, s, l), GoesOn(s, l), Families', Sleepers',
         panicked' \in {"none", "init exiting"}
  PROVE  IInv'
<1>. USE DEF IInv
<1>1. pc'[s] = l /\ \A t \in Slots \ {s} : pc'[t] = pc[t]
  BY Zenon DEF Keeps, GoesTo
<1>2. \A t \in Slots \ {s} : Where(t)' = Where(t)
  BY Zenon DEF Where, Keeps
<1>3. Holding' /\ Running' /\ Flags'
  BY Zenon, CpuFrame
<1>4. Parked'
  <2>1. run' = run /\ \E d \in CPUs : run[d] = s
    BY Zenon DEF GoesTo
  <2>2. \A t \in Slots \ {s} :
           state'[t] = state[t] \/ (state[t] = "SLEEPING" /\ state'[t] = "RUNNABLE")
    BY Zenon DEF Keeps
  <2>. QED BY ZenonT(60), <1>1, <2>1, <2>2 DEF Parked
<1>5. state'[s] \notin {"UNUSED", "EMBRYO"}
  BY Zenon DEF GoesTo
<1>6. Stacks'
  <2>1. /\ kstack' = kstack
        /\ \A t \in Slots \ {s} :
           state'[t] = state[t] \/ (state[t] = "SLEEPING" /\ state'[t] = "RUNNABLE")
    BY Zenon DEF Keeps
  <2>. QED BY Zenon, <1>5, <2>1 DEF Stacks
<1>7. Forks'
  <2>1. np' = np /\ \A t \in Slots : state[t] = "EMBRYO" =>
                        state'[t] = "EMBRYO" /\ kstack'[t] = kstack[t] /\ pc'[t] = pc[t]
    BY Zenon DEF Keeps
  <2>2. \A t \in Slots : \/ Where(t)' = Where(t)
                         \/ {Where(t), Where(t)'} \cap {"kstack", "copy", "setrun"} = {}
    BY Zenon, <1>2 DEF GoesOn
  <2>3. \A t \in Slots : np[t] # 0 => parent'[np[t]] = parent[np[t]]
    BY Zenon DEF Keeps
  <2>. QED BY Zenon, <2>1, <2>2, <2>3, ForksFrame
<1>8. Returns'
  BY ZenonT(60), <1>1 DEF Returns, Keeps, GoesOn
<1>9. Pids'
  <2>1. pid' = pid /\ nextpid' = nextpid
        /\ \A t \in Slots : state'[t] # "UNUSED" => state[t] # "UNUSED"
    BY Zenon DEF Keeps
  <2>2. CASE "fork" \in {l, ret'[s]} => "fork" \in {pc[s], ret[s]}
    <3>1. Forking' \subseteq Forking
      BY Zenon, <1>1, <2>2 DEF Forking, Keeps
    <3>. QED BY Zenon, <2>1, <3>1, PidsFrame
  <2>3. CASE nextpid + Cardinality(Forking) <= MaxPid
    <3>1. Forking' \subseteq Forking \cup {s}
      BY Zenon, <1>1 DEF Forking, Keeps
    <3>. QED BY Zenon, <2>1, <2>3, <3>1, PidsFrame
  <2>. QED BY Zenon, <2>2, <2>3 DEF GoesOn
<1>10. Saved'
  <2>1. l \notin {"woken", "resumed"}
    BY Zenon DEF GoesTo, Open, Holds
  <2>2. \A t \in Slots \ {s} : sv'[t] = sv[t]
    BY Zenon DEF Keeps
  <2>. QED BY Zenon, <1>1, <2>1, <2>2 DEF Saved
<1>. QED BY Zenon, <1>3, <1>4, <1>6, <1>7, <1>8, <1>9, <1>10

\* The step of s on c changes neither the table nor the other threads and
\* CPUs.
Stays(c, s) ==
  /\ UNCHANGED <<state, pid, parent, kstack, np, run, idx, nextpid>>
  /\ \A t \in Slots \ {s} : /\ pc'[t] = pc[t] /\ ret'[t] = ret[t] /\ sv'[t] = sv[t]
                            /\ killed'[t] = killed[t] /\ chan'[t] = chan[t]
  /\ \A d \in CPUs \ {c} : fl_if'[d] = fl_if[d] /\ intena'[d] = intena[d]

\* The thread of s on c, RUNNING before and after, is at l with the lock and
\* the flag that l asks for.
Lands(c, s, l) ==
  /\ pc'[s] = l /\ l \in {"scan", "timer", "trapret", "exit", "iret"} \cup Open
  /\ l = "scan" => lock \in {c, NoCPU} /\ lock' = c
  /\ l # "scan" /\ lock = c => lock' = NoCPU
  /\ l # "scan" /\ lock # c => lock' = lock
  /\ l \in Open => fl_if'[c] = 1
  /\ l \in {"scan", "timer", "trapret"} => fl_if'[c] = 0
  /\ l = "scan" => intena'[c] = 1

\* A step of one thread that leaves the table alone keeps the invariant.
LEMMA StayInv ==
  ASSUME IInv, panicked = "none", NEW c \in CPUs, NEW s \in Slots, NEW l,
         run[c] = s, state[s] = "RUNNING",
         TypeOK', Stays(c, s), Lands(c, s, l), GoesOn(s, l),
         panicked' \in {"none", "init exiting"}
  PROVE  IInv'
<1>. USE DEF IInv
<1>1. UNCHANGED <<state, parent>>
  BY Zenon DEF Stays
<1>2. GoesTo(c, s, l)
  <2>1. \A d \in CPUs \ {c} : run[d] # 0 => run[d] \in Slots \ {s}
    BY Zenon, SlotTypes, SlotFacts
  <2>2. \A d \in CPUs \ {c} :
          /\ run[d] # 0 => pc'[run[d]] = pc[run[d]] /\ state'[run[d]] = state[run[d]]
          /\ fl_if'[d] = fl_if[d] /\ intena'[d] = intena[d]
    BY Zenon, <1>1, <2>1 DEF Stays
  <2>3. l \in Holds <=> l = "scan"
    BY Zenon DEF Lands, Holds, Open
  <2>4. state'[s] = CASE l = "zombie" -> "ZOMBIE" [] l = "asleep" -> "SLEEPING"
                      [] l = "yielded" -> "RUNNABLE" [] OTHER -> "RUNNING"
    BY Zenon, <1>1 DEF Lands, Open
  <2>5. run' = run /\ idx' = idx
    BY Zenon DEF Stays
  <2>. QED BY Zenon, <2>2, <2>3, <2>4, <2>5 DEF GoesTo, Lands, Open
<1>3. Keeps(s)
  BY Zenon DEF Keeps, Stays
<1>4. Families'
  <2>1. \A t \in Slots \ {s} : Where(t)' = Where(t)
    BY Zenon DEF Where, Stays
  <2>2. Where(initproc)' = "exit" => panicked' # "none"
    BY Zenon, <2>1, SlotTypes DEF Families, GoesOn
  <2>. QED BY Zenon, <1>1, <2>2 DEF Families, Alive
<1>5. Sleepers'
  <2>1. \A t \in Slots : state[t] = "SLEEPING" => killed'[t] = killed[t] /\ chan'[t] = chan[t]
    BY Zenon DEF Stays
  <2>. QED BY Zenon, <1>1, <2>1 DEF Sleepers
<1>. QED BY Zenon, <1>2, <1>3, <1>4, <1>5, MoveInv

-----------------------------------------------------------------------------
(***************************************************************************)
(* Traps, and the system calls where they leave the table alone.           *)
(***************************************************************************)

\* trap() enters a system call.
LEMMA SysCallInv ==
  ASSUME IInv, NEW c \in CPUs, NEW call \in SysCalls, SysCall(c, call)
  PROVE  IInv'
<1>. USE DEF IInv
<1>1. /\ panicked = "none" /\ run[c] # 0 /\ pc[run[c]] = "user"
  BY Zenon DEF SysCall, At
<1>2. PICK s \in Slots :
        /\ run[c] = s /\ state[s] = "RUNNING"
        /\ lock = c <=> pc[s] \in Inside
  BY <1>1, SlotFacts
<1>3. ret[s] = "user" /\ call \in Labels
  BY SMT, SMTT(40), <1>1, <1>2 DEF Returns, TimerLabels, Labels, SysCalls
<1>4. TypeOK'
  BY Zenon, <1>2, <1>3 DEF TypeOK, SysCall, Goto, procVars, cpuVars
<1>5. Stays(c, s)
  BY Zenon, <1>2 DEF Stays, TypeOK, SysCall, Goto, procVars, cpuVars
<1>6. Lands(c, s, call)
  BY SMT, SMTT(40), <1>1, <1>2, NoCPUAssumption DEF Lands, TypeOK, Flags, SysCall, Goto, cpuVars, Open,
       Inside, SysCalls
<1>7. GoesOn(s, call)
  <2>1. pc'[s] = call /\ ret' = ret /\ Where(s)' = call /\ Where(s) = "user"
    BY SMT, SMTT(40), <1>1, <1>2 DEF TypeOK, SysCall, Goto, Where, TimerLabels, SysCalls
  <2>2. call # "fork" \/ nextpid + Cardinality(Forking) <= MaxPid
    BY Zenon DEF SysCall
  <2>. QED BY <1>3, <2>1, <2>2, Zenon DEF GoesOn, SysCalls, Open
<1>8. panicked' \in {"none", "init exiting"}
  BY <1>1 DEF SysCall
<1>. QED BY Zenon, <1>1, <1>2, <1>3, <1>4, <1>5, <1>6, <1>7, <1>8, StayInv

\* The first return of a new process to user mode.
LEMMA IretInv ==
  ASSUME IInv, NEW c \in CPUs, Iret(c)
  PROVE  IInv'
<1>. USE DEF IInv
<1>1. /\ panicked = "none" /\ run[c] # 0 /\ pc[run[c]] = "iret"
  BY Zenon DEF Iret, At
<1>2. PICK s \in Slots :
        /\ run[c] = s /\ state[s] = "RUNNING"
        /\ lock = c <=> pc[s] \in Inside
  BY SMT, SMTT(40), <1>1, SlotFacts
<1>3. ret[s] = "user" /\ "user" \in Labels
  BY SMT, SMTT(40), <1>1, <1>2 DEF Returns, TimerLabels, Labels, SysCalls
<1>4. TypeOK'
  BY Zenon, <1>2, <1>3 DEF TypeOK, Iret, Goto, procVars, cpuVars
<1>5. Stays(c, s)
  BY Zenon, <1>2 DEF Stays, TypeOK, Iret, Goto, procVars, cpuVars
<1>6. Lands(c, s, "user")
  BY SMT, SMTT(40), <1>1, <1>2, NoCPUAssumption DEF Lands, TypeOK, Flags, Iret, Goto, cpuVars, Open,
       Inside, SysCalls
<1>7. GoesOn(s, "user")
  BY SMT, SMTT(40), <1>1, <1>2, <1>3 DEF GoesOn, TypeOK, Iret, Goto, Where, TimerLabels, Open, SysCalls
<1>8. panicked' \in {"none", "init exiting"}
  BY SMT, SMTT(40), <1>1 DEF Iret
<1>. QED BY Zenon, <1>1, <1>2, <1>3, <1>4, <1>5, <1>6, <1>7, <1>8, StayInv

\* trap() enters exit(); init panics there.
LEMMA ExitCallInv ==
  ASSUME IInv, NEW c \in CPUs, ExitCall(c)
  PROVE  IInv'
<1>. USE DEF IInv
<1>1. /\ panicked = "none" /\ run[c] # 0 /\ pc[run[c]] = "user"
  BY Zenon DEF ExitCall, At
<1>2. PICK s \in Slots :
        /\ run[c] = s /\ state[s] = "RUNNING"
        /\ lock = c <=> pc[s] \in Inside
  BY SMT, SMTT(40), <1>1, SlotFacts
<1>3. ret[s] = "user" /\ "exit" \in Labels
  BY SMT, SMTT(40), <1>1, <1>2 DEF Returns, TimerLabels, Labels, SysCalls
<1>4. TypeOK'
  BY Zenon, <1>2, <1>3 DEF TypeOK, ExitCall, Goto, ExitCheck, panic, procVars, cpuVars
<1>5. Stays(c, s)
  BY Zenon, <1>2 DEF Stays, TypeOK, ExitCall, Goto, ExitCheck, panic, procVars, cpuVars
<1>6. Lands(c, s, "exit")
  BY Zenon, <1>1, <1>2, NoCPUAssumption DEF Lands, TypeOK, Flags, ExitCall, Goto, ExitCheck,
       panic, cpuVars, Open, Inside, SysCalls
<1>7. GoesOn(s, "exit")
  <2>1. ret'[s] = "user" /\ Where(s)' = "exit" /\ Where(s) = "user"
    BY SMT, SMTT(40), <1>1, <1>2, <1>3 DEF TypeOK, ExitCall, Goto, Where, TimerLabels
  <2>2. s = initproc => panicked' = "init exiting"
    BY Zenon, <1>2 DEF ExitCall, ExitCheck, panic
  <2>. QED BY Zenon, <2>1, <2>2 DEF GoesOn, Open
<1>8. panicked' \in {"none", "init exiting"}
  BY Zenon, <1>1 DEF ExitCall, ExitCheck, panic
<1>. QED BY Zenon, <1>1, <1>2, <1>3, <1>4, <1>5, <1>6, <1>7, <1>8, StayInv

\* trap() kills a process that faults.
LEMMA FaultInv ==
  ASSUME IInv, NEW c \in CPUs, Fault(c)
  PROVE  IInv'
<1>. USE DEF IInv
<1>1. /\ panicked = "none" /\ run[c] # 0 /\ pc[run[c]] = "user"
  BY Zenon DEF Fault, At
<1>2. PICK s \in Slots :
        /\ run[c] = s /\ state[s] = "RUNNING"
        /\ lock = c <=> pc[s] \in Inside
  BY <1>1, SlotFacts
<1>3. ret[s] = "user" /\ "exit" \in Labels
  BY <1>1, <1>2 DEF Returns, TimerLabels, Labels, SysCalls
<1>4. TypeOK'
  BY Zenon, <1>2, <1>3 DEF TypeOK, Fault, Goto, procVars, cpuVars
<1>5. Stays(c, s)
  BY Zenon, <1>2 DEF Stays, TypeOK, Fault, Goto, procVars, cpuVars
<1>6. Lands(c, s, "exit")
  BY SMT, SMTT(40), <1>1, <1>2, NoCPUAssumption DEF Lands, TypeOK, Flags, Fault, Goto, cpuVars, Open,
       Inside, SysCalls
<1>7. GoesOn(s, "exit")
  BY SMT, SMTT(40), <1>1, <1>2, <1>3 DEF GoesOn, TypeOK, Fault, Goto, Where, TimerLabels, Open, SysCalls
<1>8. panicked' \in {"none", "init exiting"}
  BY <1>1 DEF Fault
<1>. QED BY Zenon, <1>1, <1>2, <1>3, <1>4, <1>5, <1>6, <1>7, <1>8, StayInv

\* wait() acquires ptable.lock: its caller had interrupts on.
LEMMA WaitEnterInv ==
  ASSUME IInv, NEW c \in CPUs, WaitEnter(c)
  PROVE  IInv'
<1>. USE DEF IInv
<1>1. /\ panicked = "none" /\ run[c] # 0 /\ pc[run[c]] = "wait"
  BY Zenon DEF WaitEnter, At
<1>2. PICK s \in Slots :
        /\ run[c] = s /\ state[s] = "RUNNING"
        /\ lock = c <=> pc[s] \in Inside
  BY SMT, SMTT(40), <1>1, SlotFacts
<1>3. ret[s] = "user" /\ "scan" \in Labels
  BY SMT, SMTT(40), <1>1, <1>2 DEF Returns, TimerLabels, Labels, SysCalls
<1>4. TypeOK'
  BY Zenon, <1>2, <1>3 DEF TypeOK, WaitEnter, Goto, Acquire, procVars, cpuVars
<1>5. Stays(c, s)
  BY Zenon, <1>2 DEF Stays, TypeOK, WaitEnter, Goto, Acquire, procVars, cpuVars
<1>6. Lands(c, s, "scan")
  BY SMT, SMTT(40), <1>1, <1>2, NoCPUAssumption DEF Lands, TypeOK, Flags, WaitEnter, Goto, Acquire,
       cpuVars, Open, Inside, SysCalls
<1>7. GoesOn(s, "scan")
  BY SMT, SMTT(40), <1>1, <1>2, <1>3 DEF GoesOn, TypeOK, WaitEnter, Goto, Acquire, Where, TimerLabels,
       Open, SysCalls
<1>8. panicked' \in {"none", "init exiting"}
  BY <1>1 DEF WaitEnter, Acquire
<1>. QED BY Zenon, <1>1, <1>2, <1>3, <1>4, <1>5, <1>6, <1>7, <1>8, StayInv

\* forkret() releases the lock that its scheduler acquired.
LEMMA ForkRetInv ==
  ASSUME IInv, NEW c \in CPUs, ForkRet(c)
  PROVE  IInv'
<1>. USE DEF IInv
<1>1. /\ panicked = "none" /\ run[c] # 0 /\ pc[run[c]] = "forkret"
  BY Zenon DEF ForkRet, At
<1>2. PICK s \in Slots :
        /\ run[c] = s /\ state[s] = "RUNNING"
        /\ lock = c <=> pc[s] \in Inside
  BY SMT, SMTT(40), <1>1, SlotFacts
<1>3. ret[s] = "user" /\ "iret" \in Labels
  BY <1>1, <1>2 DEF Returns, TimerLabels, Labels, SysCalls
<1>4. TypeOK'
  BY Zenon, <1>2, <1>3 DEF TypeOK, ForkRet, Goto, Release, procVars, cpuVars
<1>5. Stays(c, s)
  BY Zenon, <1>2 DEF Stays, TypeOK, ForkRet, Goto, Release, procVars, cpuVars
<1>6. Lands(c, s, "iret")
  BY SMT, SMTT(40), <1>1, <1>2, NoCPUAssumption DEF Lands, TypeOK, Flags, ForkRet, Goto, Release, cpuVars,
       Open, Inside, SysCalls
<1>7. GoesOn(s, "iret")
  BY SMT, SMTT(40), <1>1, <1>2, <1>3 DEF GoesOn, TypeOK, ForkRet, Goto, Release, Where, TimerLabels, Open,
       SysCalls
<1>8. panicked' \in {"none", "init exiting"}
  BY <1>1 DEF ForkRet, Release
<1>. QED BY Zenon, <1>1, <1>2, <1>3, <1>4, <1>5, <1>6, <1>7, <1>8, StayInv

\* sched() returns in wait(), on the CPU that picked the thread, and restores
\* the intena it saved.
LEMMA WakeInWaitInv ==
  ASSUME IInv, NEW c \in CPUs, WakeInWait(c)
  PROVE  IInv'
<1>. USE DEF IInv
<1>1. /\ panicked = "none" /\ run[c] # 0 /\ pc[run[c]] = "woken"
  BY Zenon DEF WakeInWait, At
<1>2. PICK s \in Slots :
        /\ run[c] = s /\ state[s] = "RUNNING"
        /\ lock = c <=> pc[s] \in Inside
  BY SMT, SMTT(40), <1>1, SlotFacts
<1>3. ret[s] = "user" /\ "scan" \in Labels
  BY SMT, SMTT(40), <1>1, <1>2 DEF Returns, TimerLabels, Labels, SysCalls
<1>4. TypeOK'
  <2>1. chan' = [chan EXCEPT ![s] = 0] /\ pc' = [pc EXCEPT ![s] = "scan"]
        /\ sv' = [sv EXCEPT ![s] = 0] /\ intena' = [intena EXCEPT ![c] = sv[s]]
    BY <1>2, Zenon DEF WakeInWait, Goto, intena_of_thread
  <2>2. chan' \in [Slots -> 0..NPROC]
    <3>1. chan \in [Slots -> 0..NPROC] /\ 0 \in 0..NPROC
      BY SlotTypes, Zenon DEF TypeOK
    <3>. QED BY <2>1, <3>1, Zenon
  <2>3. intena' \in [CPUs -> {0, 1}] /\ sv' \in [Slots -> {0, 1}] /\ pc' \in [Slots -> Labels]
    BY Zenon, <1>2, <1>3, <2>1 DEF TypeOK
  <2>. QED BY Zenon, <2>2, <2>3 DEF TypeOK, WakeInWait
<1>5. Stays(c, s)
  BY Zenon, <1>2 DEF Stays, TypeOK, WakeInWait, Goto, intena_of_thread, procVars, cpuVars
<1>6. Lands(c, s, "scan")
  BY SMT, SMTT(40), <1>1, <1>2, NoCPUAssumption DEF Lands, TypeOK, Flags, Saved, WakeInWait, Goto,
       intena_of_thread, cpuVars, Open, Inside, SysCalls
<1>7. GoesOn(s, "scan")
  BY Zenon, SMTT(40), <1>1, <1>2, <1>3 DEF GoesOn, TypeOK, WakeInWait, Goto, intena_of_thread, Where,
       TimerLabels, Open, SysCalls
<1>8. panicked' \in {"none", "init exiting"}
  BY <1>1 DEF WakeInWait, intena_of_thread
<1>. QED BY Zenon, <1>1, <1>2, <1>3, <1>4, <1>5, <1>6, <1>7, <1>8, StayInv

\* A system call returns, or exits if the process has been killed.
LEMMA SysRetInv ==
  ASSUME IInv, NEW c \in CPUs, SysRet(c)
  PROVE  IInv'
<1>. USE DEF IInv
<1>1. panicked = "none" /\ run[c] # 0 /\ pc[run[c]] = "sysret"
  BY Zenon DEF SysRet, At
<1>2. PICK s \in Slots :
        /\ run[c] = s /\ state[s] = "RUNNING"
        /\ lock = c <=> pc[s] \in Inside
  BY SMT, SMTT(40), <1>1, SlotFacts
<1>3. PICK l \in {"exit", "user"} :
        /\ pc' = [pc EXCEPT ![s] = l]
        /\ l = "exit" => ExitCheck(c)
        /\ l = "user" => panicked' = panicked
  BY Zenon, <1>2 DEF SysRet, Goto
<1>4. ret[s] = "user" /\ l \in Labels
  BY SMT, SMTT(40), <1>1, <1>2 DEF Returns, TimerLabels, Labels
<1>5. /\ panicked' \in {"none", "init exiting"}
      /\ s = initproc /\ l = "exit" => panicked' = "init exiting"
  BY Zenon, <1>1, <1>2, <1>3 DEF ExitCheck, panic
<1>6. TypeOK'
  BY Zenon, <1>2, <1>3, <1>4, <1>5 DEF TypeOK, SysRet, procVars, cpuVars
<1>7. Stays(c, s)
  BY Zenon, <1>2, <1>3 DEF Stays, TypeOK, SysRet, procVars, cpuVars
<1>8. Lands(c, s, l)
  BY SMT, SMTT(40), <1>1, <1>2, <1>3 DEF Lands, TypeOK, Flags, SysRet, cpuVars, Open, Inside
<1>9. GoesOn(s, l)
  BY Zenon, <1>1, <1>2, <1>3, <1>4, <1>5 DEF GoesOn, TypeOK, SysRet, Where, TimerLabels, Open
<1>. QED BY Zenon, <1>1, <1>2, <1>4, <1>5, <1>6, <1>7, <1>8, <1>9, StayInv

\* The timer interrupts only outside the lock, as FL_IF says.
LEMMA TimerInv ==
  ASSUME IInv, NEW c \in CPUs, Timer(c)
  PROVE  IInv'
<1>. USE DEF IInv
<1>1. panicked = "none" /\ run[c] # 0 /\ fl_if[c] = 1
  BY Zenon DEF Timer
<1>2. PICK s \in Slots : run[c] = s /\ (lock = c <=> pc[s] \in Inside)
  BY SMT, SMTT(40), <1>1, SlotFacts
<1>3. pc[s] \in Open \cup {"exit", "iret"}
  <2>1. pc[s] \in Labels
    BY Zenon, <1>2 DEF TypeOK
  <2>2. pc[s] \notin {"timer", "trapret"} \cup Inside
    BY SMT, SMTT(40), <1>1, <1>2 DEF Flags
  <2>. QED BY Zenon, <2>1, <2>2 DEF Labels, Inside, SysCalls, Open
<1>4. state[s] = "RUNNING" /\ lock # c
  BY SMT, SMTT(40), <1>1, <1>2, <1>3, SlotFacts DEF Open, Inside
<1>5. ret[s] = "user" /\ pc[s] \notin TimerLabels
  BY Zenon, <1>2, <1>3 DEF Returns, TimerLabels, Open
<1>6. PICK l \in {"exit", "timer"} :
        /\ pc' = [pc EXCEPT ![s] = l]
        /\ l = "exit" => ExitCheck(c) /\ ret' = ret /\ pc[s] = "user"
        /\ l = "timer" => panicked' = panicked /\ ret' = [ret EXCEPT ![s] = pc[s]]
  BY SMT, SMTT(40), <1>2 DEF Timer, Goto
<1>7. /\ panicked' \in {"none", "init exiting"}
      /\ s = initproc /\ l = "exit" => panicked' = "init exiting"
  BY Zenon, <1>1, <1>2, <1>6 DEF ExitCheck, panic
<1>8. l \in Labels /\ ret \in [Slots -> Labels] /\ pc \in [Slots -> Labels]
      /\ ret' \in [Slots -> Labels]
  BY Zenon, <1>2, <1>6 DEF Labels, TypeOK
<1>9. TypeOK'
  BY Zenon, <1>2, <1>6, <1>7, <1>8 DEF TypeOK, Timer, procVars
<1>10. Stays(c, s)
  BY SMT, SMTT(40), <1>2, <1>6, <1>8 DEF Stays, TypeOK, Timer, procVars
<1>11. Lands(c, s, l)
  BY Zenon, SMTT(40), <1>2, <1>4, <1>6, <1>8 DEF Lands, TypeOK, Timer, Open
<1>12. GoesOn(s, l)
  <2>1. CASE l = "exit"
    <3>1. Where(s)' = "exit" /\ Where(s) = "user" /\ ret'[s] = "user"
      BY Zenon, <1>2, <1>5, <1>6, <1>8, <2>1 DEF Where, TimerLabels
    <3>. QED BY Zenon, <1>7, <2>1, <3>1 DEF GoesOn, Open
  <2>2. CASE l = "timer"
    <3>1. /\ Where(s)' = pc[s] /\ Where(s) = pc[s]
          /\ ret'[s] = pc[s]
      BY Zenon, <1>2, <1>5, <1>6, <1>8, <2>2 DEF Where, TimerLabels
    <3>2. s = initproc => pc[s] # "exit"
      BY <1>1, <3>1, Zenon DEF Families
    <3>. QED BY Zenon, <1>3, <2>2, <3>1, <3>2 DEF GoesOn, TimerLabels
  <2>. QED BY Zenon, <2>1, <2>2
<1>. QED BY Zenon, <1>1, <1>2, <1>4, <1>7, <1>8, <1>9, <1>10, <1>11, <1>12, StayInv

\* trap() returns to what the timer interrupted.
LEMMA TrapRetInv ==
  ASSUME IInv, NEW c \in CPUs, TrapRet(c)
  PROVE  IInv'
<1>. USE DEF IInv
<1>1. panicked = "none" /\ run[c] # 0 /\ pc[run[c]] = "trapret"
  BY Zenon DEF TrapRet, At
<1>2. PICK s \in Slots : run[c] = s /\ state[s] = "RUNNING" /\ lock # c
  BY SMT, SMTT(40), <1>1, SlotFacts DEF Inside
<1>3. ret[s] \in Open \cup {"exit", "iret"} /\ fl_if[c] = 0
  BY SMT, SMTT(40), <1>1, <1>2 DEF Returns, Flags
<1>4. PICK l \in Open \cup {"exit", "iret"} :
        /\ pc' = [pc EXCEPT ![s] = l]
        /\ \/ l = "exit" /\ ret[s] = "user" /\ ExitCheck(c) /\ fl_if' = fl_if
           \/ l = ret[s] /\ panicked' = panicked /\ fl_if' = [fl_if EXCEPT ![c] = 1]
  <2>1. CASE ret[s] = "user" /\ killed[s] = 1
    BY Zenon, <1>2, <2>1 DEF TrapRet, Goto
  <2>2. CASE ~(ret[s] = "user" /\ killed[s] = 1)
    BY Zenon, <1>2, <1>3, <2>2 DEF TrapRet, Goto
  <2>. QED BY Zenon, <2>1, <2>2
<1>5. Where(s) = ret[s] /\ (s = initproc => ret[s] # "exit")
  BY <1>1, <1>2, Zenon DEF Families, Where, TimerLabels
<1>6. /\ panicked' \in {"none", "init exiting"}
      /\ s = initproc /\ l = "exit" => panicked' = "init exiting"
  BY Zenon, <1>1, <1>2, <1>4, <1>5 DEF ExitCheck, panic
<1>7. /\ l \in Labels /\ "user" \in Labels /\ l \notin TimerLabels
      /\ ret \in [Slots -> Labels] /\ pc \in [Slots -> Labels]
      /\ ret' = [ret EXCEPT ![s] = "user"]
  BY Zenon, <1>2 DEF Labels, TypeOK, Open, SysCalls, TimerLabels, TrapRet
<1>8. fl_if \in [CPUs -> {0, 1}] /\ fl_if' \in [CPUs -> {0, 1}]
      /\ \A d \in CPUs \ {c} : fl_if'[d] = fl_if[d]
      /\ l \in Open => fl_if'[c] = 1
  BY Zenon, <1>4 DEF TypeOK, Open
<1>9. TypeOK'
  <2>1. pc' \in [Slots -> Labels] /\ ret' \in [Slots -> Labels]
    BY Zenon, <1>2, <1>4, <1>7
  <2>. QED BY Zenon, <1>6, <1>8, <2>1 DEF TypeOK, TrapRet, procVars
<1>10. Stays(c, s)
  BY Zenon, <1>2, <1>4, <1>7, <1>8 DEF Stays, TrapRet, procVars
<1>11. Lands(c, s, l)
  BY Zenon, <1>2, <1>4, <1>7, <1>8 DEF Lands, TrapRet, Open
<1>12. GoesOn(s, l)
  <2>1. pc'[s] = l /\ ret'[s] = "user" /\ Where(s)' = l
    BY Zenon, <1>2, <1>4, <1>7 DEF Where
  <2>. QED BY Zenon, <1>1, <1>4, <1>5, <1>6, <2>1 DEF GoesOn, Open
<1>. QED BY Zenon, <1>1, <1>2, <1>6, <1>7, <1>9, <1>10, <1>11, <1>12, StayInv

\* sched() returns in yield(): no exited thread gets here, and the flag that
\* release() restores is the one saved.
LEMMA YieldReturnInv ==
  ASSUME IInv, NEW c \in CPUs, YieldReturn(c)
  PROVE  IInv'
<1>. USE DEF IInv
<1>1. panicked = "none" /\ run[c] # 0 /\ pc[run[c]] = "resumed"
  BY Zenon DEF YieldReturn, Running
<1>2. PICK s \in Slots : run[c] = s /\ state[s] = "RUNNING" /\ lock = c
  BY Zenon, <1>1, SlotFacts DEF Inside
<1>3. sv[s] = 0 /\ ret[s] \in Open \cup {"exit", "iret"}
  BY SMT, SMTT(40), <1>1, <1>2 DEF Saved, Returns
<1>4. panicked' = "none" /\ ret' = ret /\ "trapret" \in Labels
  BY Zenon, SMTT(40), <1>1 DEF YieldReturn, ZombieExit, Labels
<1>5. TypeOK'
  BY SMT, SMTT(40), <1>2, <1>4 DEF TypeOK, YieldReturn, intena_of_thread, Goto, procVars
<1>6. Stays(c, s)
  BY Zenon, <1>2 DEF Stays, TypeOK, YieldReturn, Goto, procVars
<1>7. Lands(c, s, "trapret")
  BY SMT, SMTT(40), <1>2, <1>3 DEF Lands, TypeOK, YieldReturn, intena_of_thread, Goto, Open
<1>8. GoesOn(s, "trapret")
  <2>1. pc'[s] = "trapret" /\ Where(s)' = ret[s] /\ Where(s) = ret[s]
    BY SMT, SMTT(40), <1>1, <1>2, <1>4 DEF Where, TypeOK, YieldReturn, Goto, TimerLabels
  <2>2. s = initproc => ret[s] # "exit"
    BY <1>1, <2>1, Zenon DEF Families
  <2>. QED BY Zenon, <1>3, <1>4, <2>1, <2>2 DEF GoesOn, TimerLabels
<1>. QED BY SMT, SMTT(40), <1>1, <1>2, <1>4, <1>5, <1>6, <1>7, <1>8, StayInv

-----------------------------------------------------------------------------
(***************************************************************************)
(* yield(), kill() and exit().                                             *)
(***************************************************************************)

\* The first slot of a nonempty set of slots is one of them.
LEMMA MinIn ==
  ASSUME NEW S \in SUBSET Slots, S # {}
  PROVE  Min(S) \in S
<1>1. S \subseteq Nat
  BY NPROCAssumption DEF Slots
<1>2. PICK x \in S : \A y \in S : ~(<<y, x>> \in OpToRel(<, Nat))
  BY Zenon, <1>1, NatLessThanWellFounded, WFMin
<1>3. ASSUME NEW y \in S
      PROVE  x <= y
  <2>1. x \in Nat /\ y \in Nat
    BY SMT, SMTT(40), <1>1
  <2>2. <<y, x>> \in {z \in Nat \X Nat : z[1] < z[2]} <=> y < x
    BY SMT, SMTT(40), <2>1
  <2>3. OpToRel(<, Nat) = {z \in Nat \X Nat : z[1] < z[2]}
    BY SMT, SMTT(40) DEF OpToRel
  <2>4. ~(<<y, x>> \in {z \in Nat \X Nat : z[1] < z[2]})
    BY <1>2, <2>3, Zenon
  <2>. QED BY SMT, SMTT(40), <2>1, <2>2, <2>4
<1>. QED BY <1>3, Zenon DEF Min

\* The families stay where nobody exits and no parent changes.
LEMMA FamiliesFrame ==
  ASSUME Families, parent' = parent,
         \A t \in Slots : \/ state'[t] = state[t]
                          \/ state[t] \in {"SLEEPING", "RUNNABLE", "RUNNING"}
                             /\ state'[t] \in {"SLEEPING", "RUNNABLE", "RUNNING"},
         Where(initproc)' = "exit" => panicked' # "none"
  PROVE  Families'
BY DEF Families, Alive

\* The sleepers stay where nobody falls asleep, exits, or loses a child.
LEMMA SleepersFrame ==
  ASSUME Sleepers,
         \A t \in Slots : state'[t] = "SLEEPING" =>
           /\ state[t] = "SLEEPING" /\ killed'[t] = killed[t] /\ chan'[t] = chan[t]
           /\ \A k \in Slots : parent'[k] = t <=> parent[k] = t,
         \A t \in Slots : state'[t] = "ZOMBIE" => state[t] = "ZOMBIE"
  PROVE  Sleepers'
<1>1. ASSUME NEW t \in Slots, state'[t] = "SLEEPING"
      PROVE  killed'[t] = 0 /\ chan'[t] = t /\ \E k \in Slots : parent'[k] = t
  BY <1>1, Zenon DEF Sleepers
<1>2. ASSUME NEW t \in Slots, state'[t] = "SLEEPING", NEW k \in Slots, parent'[k] = t
      PROVE  state'[k] # "ZOMBIE"
  <2>1. state[t] = "SLEEPING" /\ parent[k] = t
    BY <1>2
  <2>2. state[k] # "ZOMBIE"
    BY <2>1 DEF Sleepers
  <2>. QED BY <2>2, Zenon
<1>. QED BY <1>1, <1>2, Zenon DEF Sleepers

\* yield() makes its caller RUNNABLE with the lock held.
LEMMA YieldInv ==
  ASSUME IInv, NEW c \in CPUs, Yield(c)
  PROVE  IInv'
<1>. USE DEF IInv
<1>1. panicked = "none" /\ run[c] # 0 /\ pc[run[c]] = "timer" /\ lock = NoCPU
  BY Zenon DEF Yield, At, Acquire
<1>2. PICK s \in Slots : run[c] = s /\ state[s] = "RUNNING"
  BY SMT, SMTT(40), <1>1, SlotFacts
<1>3. fl_if[c] = 0 /\ "yielded" \in Labels
  BY Zenon, <1>1 DEF Flags, Labels
<1>4. /\ pc' = [pc EXCEPT ![s] = "yielded"] /\ state' = [state EXCEPT ![s] = "RUNNABLE"]
      /\ UNCHANGED <<pid, parent, killed, chan, kstack, ret, np, sv, run, idx, nextpid, panicked>>
  BY <1>2, Zenon DEF Yield, Goto
<1>5. TypeOK'
  <2>1. /\ intena' \in [CPUs -> {0, 1}] /\ fl_if' \in [CPUs -> {0, 1}] /\ lock' \in CPUs
        /\ pc' \in [Slots -> Labels]
    BY Zenon, <1>3, <1>4 DEF TypeOK, Yield, Acquire
  <2>. QED BY Zenon, <1>4, <2>1 DEF TypeOK
<1>6. Keeps(s)
  BY Zenon, <1>2, <1>4 DEF Keeps, TypeOK
<1>7. GoesTo(c, s, "yielded")
  <2>1. \A d \in CPUs \ {c} : run[d] # 0 => run[d] \in Slots \ {s}
    BY Zenon, <1>1, <1>2, SlotTypes, SlotFacts
  <2>2. pc'[s] = "yielded" /\ state'[s] = "RUNNABLE"
        /\ \A t \in Slots \ {s} : pc'[t] = pc[t] /\ state'[t] = state[t]
    BY Zenon, <1>2, <1>4 DEF TypeOK
  <2>3. lock' = c /\ fl_if'[c] = 0 /\ intena'[c] = 0
        /\ \A d \in CPUs \ {c} : fl_if'[d] = fl_if[d] /\ intena'[d] = intena[d]
    BY Zenon, <1>3 DEF Yield, Acquire, TypeOK
  <2>. QED BY SMT, SMTT(40), <1>1, <1>4, <2>1, <2>2, <2>3 DEF GoesTo, Holds, Open
<1>8. pc'[s] = "yielded" /\ Where(s)' = Where(s)
  BY Zenon, SMTT(40), <1>1, <1>2, <1>4 DEF Where, TimerLabels, TypeOK
<1>9. Where(initproc)' = "exit" => panicked' # "none"
  <2>1. \A t \in Slots : Where(t)' = Where(t)
    BY Zenon, <1>4, <1>8 DEF Where, TypeOK
  <2>. QED BY SMT, SMTT(40), <1>1, <2>1, SlotTypes DEF Families
<1>10. GoesOn(s, "yielded")
  BY Zenon, <1>1, <1>2, <1>4, <1>8, <1>9 DEF GoesOn, TimerLabels, Returns
<1>11. Families'
  BY Zenon, <1>2, <1>4, <1>9, FamiliesFrame DEF TypeOK
<1>12. Sleepers'
  BY Zenon, <1>2, <1>4, SleepersFrame DEF TypeOK
<1>. QED BY Zenon, <1>1, <1>2, <1>4, <1>5, <1>6, <1>7, <1>10, <1>11, <1>12, MoveInv

\* While the lock is free every slot that a CPU executes is RUNNING.
LEMMA AwakeOnCpu ==
  ASSUME IInv, lock = NoCPU, NEW c \in CPUs, run[c] # 0
  PROVE  run[c] \in Slots /\ state[run[c]] = "RUNNING"
BY SMT, SMTT(40), SlotFacts, NoCPUAssumption DEF Inside

\* kill() marks and wakes the slot it finds, whatever that slot is.
LEMMA KillInv ==
  ASSUME IInv, NEW c \in CPUs, NEW p \in KillTargets, Kill(c, p)
  PROVE  IInv'
<1>. USE DEF IInv
<1>1. panicked = "none" /\ run[c] # 0 /\ pc[run[c]] = "kill" /\ lock = NoCPU
  BY Zenon DEF Kill, At, Locked
<1>2. PICK s \in Slots : run[c] = s /\ state[s] = "RUNNING"
  BY SMT, SMTT(40), <1>1, SlotFacts
<1>3. fl_if[c] = 1 /\ ret[s] = "user" /\ "sysret" \in Labels
  BY Zenon, <1>1, <1>2 DEF Flags, Open, Returns, TimerLabels, Labels
<1>4. /\ pc' = [pc EXCEPT ![s] = "sysret"] /\ UNCHANGED <<lock, intena, fl_if>>
      /\ UNCHANGED <<pid, parent, chan, kstack, ret, np, sv, run, idx, nextpid, panicked>>
  BY <1>2, Zenon DEF Kill, Goto, Locked
<1>5. \/ UNCHANGED <<state, killed>>
      \/ \E m \in Slots : /\ killed' = [killed EXCEPT ![m] = 1]
                          /\ state' = [state EXCEPT ![m] = IF @ = "SLEEPING" THEN "RUNNABLE" ELSE @]
  <2>. DEFINE match == {t \in Slots : pid[t] = p}
  <2>1. IF match = {} THEN UNCHANGED <<state, killed>>
        ELSE /\ killed' = [killed EXCEPT ![Min(match)] = 1]
             /\ state' = kill_wake(Min(match))
    BY Zenon DEF Kill
  <2>2. match # {} => Min(match) \in Slots
    BY MinIn, match \in SUBSET Slots, Zenon
  <2>. HIDE DEF match
  <2>. QED BY <2>1, <2>2, Zenon DEF kill_wake
<1>6. /\ state' \in [Slots -> {"UNUSED", "EMBRYO", "SLEEPING", "RUNNABLE", "RUNNING", "ZOMBIE"}]
      /\ killed' \in [Slots -> {0, 1}]
      /\ \A t \in Slots : state'[t] = state[t] \/ (state[t] = "SLEEPING" /\ state'[t] = "RUNNABLE")
      /\ \A t \in Slots : state'[t] = "SLEEPING" => killed'[t] = killed[t]
  <2>. state \in [Slots -> {"UNUSED", "EMBRYO", "SLEEPING", "RUNNABLE", "RUNNING", "ZOMBIE"}]
       /\ killed \in [Slots -> {0, 1}]
    BY Zenon DEF TypeOK
  <2>1. CASE UNCHANGED <<state, killed>>
    BY Zenon, <2>1
  <2>2. CASE \E m \in Slots : /\ killed' = [killed EXCEPT ![m] = 1]
                             /\ state' = [state EXCEPT ![m] = IF @ = "SLEEPING" THEN "RUNNABLE" ELSE @]
    BY Zenon, <2>2
  <2>. QED BY Zenon, <1>5, <2>1, <2>2
<1>7. TypeOK'
  BY Zenon, <1>2, <1>3, <1>4, <1>6 DEF TypeOK
<1>8. pc'[s] = "sysret" /\ \A t \in Slots \ {s} : pc'[t] = pc[t]
  BY Zenon, <1>2, <1>4 DEF TypeOK
<1>9. Keeps(s)
  BY SMT, SMTT(40), <1>1, <1>4, <1>6, <1>8 DEF Keeps
<1>10. GoesTo(c, s, "sysret")
  <2>1. \A d \in CPUs \ {c} : run[d] # 0 =>
          run[d] \in Slots \ {s} /\ state[run[d]] # "SLEEPING"
    BY Zenon, SMTT(40), <1>1, <1>2, AwakeOnCpu, SlotFacts
  <2>. QED BY SMT, SMTT(40), <1>1, <1>2, <1>3, <1>4, <1>6, <1>8, <2>1, NoCPUAssumption
       DEF GoesTo, Holds, Open
<1>11. Where(s) = "kill" /\ Where(s)' = "sysret" /\ \A t \in Slots \ {s} : Where(t)' = Where(t)
  BY Zenon, SMTT(40), <1>1, <1>2, <1>4, <1>8 DEF Where, TimerLabels
<1>12. GoesOn(s, "sysret")
  BY Zenon, <1>3, <1>4, <1>11 DEF GoesOn, Open
<1>13. Families'
  <2>1. Where(initproc)' = "exit" => panicked' # "none"
    BY SMT, SMTT(40), <1>1, <1>11, SlotTypes DEF Families
  <2>. QED BY Zenon, <1>4, <1>6, <2>1, FamiliesFrame
<1>14. Sleepers'
  BY Zenon, <1>4, <1>6, SleepersFrame
<1>. QED BY Zenon, <1>1, <1>2, <1>4, <1>7, <1>9, <1>10, <1>12, <1>13, <1>14, MoveInv

\* exit() under the lock: the parent is woken, and init if it inherits a
\* zombie, so nobody is left asleep over a zombie child; the children that are
\* still EMBRYOs of other fork()s are not passed on.
LEMMA ExitLockedInv ==
  ASSUME IInv, NEW c \in CPUs, ExitLocked(c)
  PROVE  IInv'
<1>. USE DEF IInv
<1>1. panicked = "none" /\ run[c] # 0 /\ pc[run[c]] = "exit" /\ lock = NoCPU
  BY Zenon DEF ExitLocked, At, exit_acquire, Acquire
<1>2. PICK s \in Slots : run[c] = s /\ state[s] = "RUNNING"
  BY Zenon, SMTT(40), <1>1, SlotFacts
<1>3. ret[s] = "user" /\ "zombie" \in Labels /\ Where(s) = "exit" /\ s # initproc
  BY SMT, SMTT(40), <1>1, <1>2 DEF Returns, TimerLabels, Labels, Where, Families
<1>4. /\ pc' = [pc EXCEPT ![s] = "zombie"]
      /\ parent' = [t \in Slots |-> IF parent[t] = s THEN initproc ELSE parent[t]]
      /\ state' = [wakeup1(state, exit_wakes(s)) EXCEPT ![s] = "ZOMBIE"]
      /\ lock' = c /\ intena' = [intena EXCEPT ![c] = fl_if[c]] /\ fl_if' = [fl_if EXCEPT ![c] = 0]
      /\ UNCHANGED <<pid, killed, chan, kstack, ret, np, sv, run, idx, nextpid, panicked>>
  BY <1>2, Zenon DEF ExitLocked, Goto, exit_acquire, Acquire, pass_children
<1>5. /\ state'[s] = "ZOMBIE"
      /\ \A t \in Slots \ {s} :
           state'[t] = IF state[t] = "SLEEPING" /\ chan[t] \in exit_wakes(s) THEN "RUNNABLE" ELSE state[t]
      /\ state' \in [Slots -> {"UNUSED", "EMBRYO", "SLEEPING", "RUNNABLE", "RUNNING", "ZOMBIE"}]
  BY Zenon, <1>2, <1>4 DEF wakeup1, TypeOK
<1>6. \A t \in Slots : parent'[t] = IF parent[t] = s THEN initproc ELSE parent[t]
  BY Zenon, <1>4
<1>7. pc'[s] = "zombie" /\ \A t \in Slots \ {s} : pc'[t] = pc[t]
  BY Zenon, <1>2, <1>4 DEF TypeOK
<1>8. TypeOK'
  <2>1. parent' \in [Slots -> 0..NPROC]
    <3>1. parent \in [Slots -> 0..NPROC] /\ initproc \in 0..NPROC
      BY SlotTypes, Zenon DEF TypeOK
    <3>. QED BY Zenon, <1>4, <3>1
  <2>2. /\ intena' \in [CPUs -> {0, 1}] /\ fl_if' \in [CPUs -> {0, 1}] /\ lock' \in CPUs
        /\ pc' \in [Slots -> Labels]
    BY Zenon, <1>3, <1>4 DEF TypeOK
  <2>. QED BY Zenon, <1>4, <1>5, <2>1, <2>2 DEF TypeOK
<1>9. \A t \in Slots : np[t] # 0 => parent'[np[t]] = parent[np[t]]
  <2>1. np[s] = 0
    BY Zenon, <1>3 DEF Forks
  <2>2. ASSUME NEW t \in Slots, np[t] # 0
        PROVE  np[t] \in Slots /\ parent[np[t]] # s
    BY ZenonT(60), <2>1, <2>2, SlotTypes DEF Forks
  <2>. QED BY Zenon, <1>6, <2>2
<1>10. Keeps(s)
  BY <1>1, <1>4, <1>5, <1>7, <1>9 DEF Keeps
<1>11. GoesTo(c, s, "zombie")
  <2>1. \A d \in CPUs \ {c} : run[d] # 0 =>
          run[d] \in Slots \ {s} /\ state[run[d]] # "SLEEPING"
    BY <1>1, <1>2, AwakeOnCpu, SlotFacts
  <2>2. /\ fl_if'[c] = 0
        /\ \A d \in CPUs \ {c} : fl_if'[d] = fl_if[d] /\ intena'[d] = intena[d]
    BY Zenon, <1>4 DEF TypeOK
  <2>3. \A d \in CPUs \ {c} : run[d] # 0 =>
          pc'[run[d]] = pc[run[d]] /\ state'[run[d]] = state[run[d]]
    BY Zenon, <1>5, <1>7, <2>1
  <2>. QED BY <1>1, <1>4, <1>5, <1>7, <2>2, <2>3 DEF GoesTo, Holds, Open
<1>12. Where(s)' = "zombie" /\ \A t \in Slots \ {s} : Where(t)' = Where(t)
  BY Zenon, <1>4, <1>7 DEF Where, TimerLabels
<1>13. GoesOn(s, "zombie")
  BY Zenon, <1>3, <1>4, <1>12 DEF GoesOn, Open
<1>14. Families'
  <2>1. Where(initproc)' = "exit" => panicked' # "none"
    BY SMT, SMTT(40), <1>1, <1>3, <1>12, SlotTypes DEF Families
  <2>2. \A t \in Slots : t \in Alive' <=> t \in Alive \ {s}
    BY Zenon, <1>2, <1>5 DEF Alive
  <2>3. \A t \in Slots : parent'[t] \in {parent[t], initproc} /\ parent'[t] # s
                         /\ (parent'[t] = 0 <=> parent[t] = 0)
    BY Zenon, <1>3, <1>6, SlotTypes
  <2>4. initproc \in Alive' /\ parent'[initproc] = 0
    BY Zenon, <1>3, <1>6, <2>2, SlotTypes DEF Families
  <2>5. ASSUME NEW t \in Slots, parent'[t] # 0
        PROVE  state'[t] # "UNUSED" /\ parent'[t] \in Alive' \ {t}
    <3>1. state[t] # "UNUSED" /\ parent[t] \in Alive \ {t}
      BY Zenon, <2>3, <2>5 DEF Families
    <3>2. state'[t] # "UNUSED"
      BY Zenon, <1>5, <3>1
    <3>3. t # initproc
      BY Zenon, <2>4, <2>5
    <3>4. parent'[t] \in Alive'
      BY Zenon, <2>2, <2>3, <2>4, <3>1 DEF Alive
    <3>. QED BY Zenon, <2>3, <3>1, <3>2, <3>3, <3>4
  <2>6. ASSUME NEW t \in Slots, state'[t] \notin {"UNUSED", "EMBRYO"}, t # initproc
        PROVE  parent'[t] # 0
    <3>1. state[t] \notin {"UNUSED", "EMBRYO"}
      BY Zenon, <1>2, <1>5, <2>6
    <3>. QED BY Zenon, <2>3, <2>6, <3>1 DEF Families
  <2>. QED BY Zenon, <2>1, <2>4, <2>5, <2>6 DEF Families
<1>15. Sleepers'
  <2>1. SUFFICES ASSUME NEW t \in Slots, state'[t] = "SLEEPING"
                 PROVE  /\ killed'[t] = 0 /\ chan'[t] = t
                        /\ \E k \in Slots : parent'[k] = t
                        /\ \A k \in Slots : parent'[k] = t => state'[k] # "ZOMBIE"
    BY Zenon DEF Sleepers
  <2>2. t # s /\ state[t] = "SLEEPING" /\ chan[t] \notin exit_wakes(s)
    BY Zenon, <1>5, <2>1
  <2>3. /\ killed[t] = 0 /\ chan[t] = t
        /\ \E k \in Slots : parent[k] = t
        /\ \A k \in Slots : parent[k] = t => state[k] # "ZOMBIE"
    BY <2>2, Zenon DEF Sleepers
  <2>4. t # parent[s]
    BY Zenon, <2>2, <2>3 DEF exit_wakes, exit_wakes_parent
  <2>5. t = initproc => \A k \in Slots : parent[k] = s => state[k] # "ZOMBIE"
    BY Zenon, <2>2, <2>3 DEF exit_wakes, exit_wakes_init
  <2>6. \E k \in Slots : parent'[k] = t
    BY Zenon, <1>6, <2>2, <2>3
  <2>7. ASSUME NEW k \in Slots, parent'[k] = t
        PROVE  state'[k] # "ZOMBIE"
    <3>1. parent[s] # s
      BY Zenon, SlotTypes, <1>2 DEF Families
    <3>2. k # s
      BY Zenon, <1>6, <2>4, <2>7, <3>1
    <3>3. state[k] # "ZOMBIE"
      BY Zenon, <1>6, <2>3, <2>5, <2>7
    <3>. QED BY Zenon, <1>5, <3>2, <3>3
  <2>. QED BY Zenon, <1>4, <2>3, <2>6, <2>7
<1>. QED BY SMT, SMTT(40), <1>1, <1>2, <1>4, <1>8, <1>10, <1>11, <1>13, <1>14, <1>15, MoveInv

-----------------------------------------------------------------------------
(***************************************************************************)
(* A step on a second slot.                                                *)
(***************************************************************************)

\* A step of s that goes on to l and changes one slot p besides: a slot that
\* nobody executes, unused, EMBRYO or ZOMBIE before, and a child of s or of
\* nobody.
Touches(s, p, l) ==
  /\ UNCHANGED <<ret, sv, chan, panicked>>
  /\ pc'[s] = l /\ l \in Open /\ ret[s] = "user"
  /\ state'[s] = "RUNNING" /\ parent'[s] = parent[s]
  /\ \A t \in Slots \ {s, p} : /\ pc'[t] = pc[t] /\ state'[t] = state[t]
                               /\ parent'[t] = parent[t] /\ killed'[t] = killed[t]
  /\ state[p] \in {"UNUSED", "EMBRYO", "ZOMBIE"} /\ parent[p] \in {0, s}
  /\ pc[p] \in {"forkret", "undead"} /\ pc'[p] \in {"forkret", "undead"}
  /\ \/ state'[p] \in {"UNUSED", "EMBRYO"}
     \/ state'[p] = "RUNNABLE" /\ pc'[p] = "forkret" /\ parent'[p] = s
  /\ parent'[p] \in {0, s} /\ (state'[p] = "UNUSED" => parent'[p] = 0)

\* A step that allocates, starts or frees another slot keeps the invariant.
LEMMA TouchInv ==
  ASSUME IInv, panicked = "none", NEW c \in CPUs, NEW s \in Slots, NEW p \in Slots \ {s}, NEW l,
         run[c] = s, state[s] = "RUNNING", \A d \in CPUs : run[d] # p,
         GoesTo(c, s, l), Touches(s, p, l), TypeOK', Stacks', Forks', Pids'
  PROVE  IInv'
<1>. USE DEF IInv
<1>1. Holding' /\ Running' /\ Flags'
  BY Zenon, CpuFrame
<1>2. Parked'
  <2>1. run' = run
    BY Zenon DEF GoesTo
  <2>. QED BY SMT, SMTT(40), <2>1 DEF Parked, Touches
<1>3. Returns'
  <2>1. ret[p] = "user" /\ l \notin TimerLabels
    BY Zenon DEF Returns, Touches, TimerLabels, Open
  <2>. QED BY Zenon, <2>1 DEF Returns, Touches, TimerLabels, Open
<1>4. p # initproc /\ p \notin Alive /\ s \in Alive /\ s \in Alive'
  BY Zenon DEF Families, Alive, Touches
<1>5. Families'
  <2>1. \A t \in Slots \ {p} : t \in Alive' <=> t \in Alive
    BY Zenon, <1>4 DEF Alive, Touches
  <2>2. \A t \in Slots \ {p} : parent'[t] = parent[t] /\ (state'[t] # state[t] => t = s)
    BY SMT, SMTT(40) DEF Touches
  <2>3. Where(initproc)' = "exit" => panicked' # "none"
    <3>1. \A t \in Slots \ {s, p} : Where(t)' = Where(t)
      BY Zenon, SMTT(40) DEF Where, Touches
    <3>2. Where(s)' # "exit"
      BY DEF Where, Touches, Open, TimerLabels
    <3>3. panicked' = panicked
      BY Zenon DEF Touches
    <3>. QED BY ZenonT(60), <1>4, <3>1, <3>2, <3>3, SlotTypes DEF Families
  <2>4. initproc \in Alive' /\ parent'[initproc] = 0
    BY SMT, SMTT(40), <1>4, <2>1, <2>2, SlotTypes DEF Families
  <2>5. ASSUME NEW t \in Slots, parent'[t] # 0
        PROVE  state'[t] # "UNUSED" /\ parent'[t] \in Alive' \ {t}
    <3>1. CASE t = p
      BY Zenon, SMTT(40), <1>4, <2>5, <3>1 DEF Touches
    <3>2. CASE t # p
      <4>1. state[t] # "UNUSED" /\ parent[t] \in Alive \ {t}
        BY Zenon, <2>2, <2>5, <3>2 DEF Families
      <4>2. parent[t] \in Slots \ {p}
        BY Zenon, <1>4, <4>1 DEF Alive
      <4>3. state'[t] # "UNUSED"
        BY Zenon, <3>2, <4>1 DEF Touches
      <4>. QED BY Zenon, <2>1, <2>2, <3>2, <4>1, <4>2, <4>3
    <3>. QED BY Zenon, <3>1, <3>2
  <2>6. ASSUME NEW t \in Slots, state'[t] \notin {"UNUSED", "EMBRYO"}, t # initproc
        PROVE  parent'[t] # 0
    <3>1. CASE t = p
      BY Zenon, <2>6, <3>1, SlotTypes DEF Touches
    <3>2. CASE t # p
      <4>1. state[t] \notin {"UNUSED", "EMBRYO"}
        BY Zenon, <2>2, <2>6, <3>2
      <4>. QED BY Zenon, <2>2, <2>6, <3>2, <4>1 DEF Families
    <3>. QED BY Zenon, <3>1, <3>2
  <2>. QED BY Zenon, SMTT(40), <2>3, <2>4, <2>5, <2>6 DEF Families
<1>6. Sleepers'
  <2>1. ASSUME NEW t \in Slots, state'[t] = "SLEEPING"
        PROVE  /\ state[t] = "SLEEPING" /\ killed'[t] = killed[t] /\ chan'[t] = chan[t]
               /\ \A k \in Slots : parent'[k] = t <=> parent[k] = t
    <3>1. t \notin {0, s, p}
      BY Zenon, <2>1, SlotTypes DEF Touches
    <3>2. ASSUME NEW k \in Slots
          PROVE  parent'[k] = t <=> parent[k] = t
      BY SMT, SMTT(40), <3>1 DEF Touches
    <3>. QED BY Zenon, SMTT(40), <2>1, <3>1, <3>2 DEF Touches
  <2>2. \A t \in Slots : state'[t] = "ZOMBIE" => state[t] = "ZOMBIE"
    BY DEF Touches
  <2>. QED BY ZenonT(60), <2>1, <2>2, SleepersFrame
<1>7. Saved'
  <2>1. ASSUME NEW t \in Slots, pc'[t] \in {"woken", "resumed"}
        PROVE  pc'[t] = pc[t] /\ sv' = sv
    BY Zenon, <2>1 DEF Touches, Open
  <2>. QED BY <2>1, Zenon DEF Saved
<1>8. panicked' \in {"none", "init exiting"}
  BY Zenon, SMTT(40) DEF Touches
<1>. QED BY Zenon, <1>1, <1>2, <1>3, <1>5, <1>6, <1>7, <1>8
-----------------------------------------------------------------------------
(***************************************************************************)
(* wait().                                                                 *)
(***************************************************************************)

\* wait() returns: there is nothing to wait for.
LEMMA NoneInv ==
  ASSUME IInv, panicked = "none", NEW c \in CPUs, NEW s \in Slots, run[c] = s,
         state[s] = "RUNNING", pc[s] = "scan", Release(c), pc' = [pc EXCEPT ![s] = "sysret"],
         UNCHANGED <<procVars, ret, np, sv, run, idx, nextpid, panicked>>
  PROVE  IInv'
<1>. USE DEF IInv
<1>1. lock = c /\ intena[c] = 1 /\ ret[s] = "user" /\ "sysret" \in Labels /\ s # 0
  BY Zenon, SMTT(40), SlotTypes, SlotFacts DEF Flags, Returns, TimerLabels, Labels, Inside
<1>2. TypeOK'
  BY Zenon, SMTT(40), <1>1 DEF TypeOK, Release, procVars
<1>3. Stays(c, s)
  BY SMT, SMTT(40) DEF Stays, TypeOK, Release, procVars
<1>4. Lands(c, s, "sysret")
  BY Zenon, SMTT(40), <1>1 DEF Lands, TypeOK, Release, Open
<1>5. GoesOn(s, "sysret")
  BY Zenon, SMTT(40), <1>1 DEF GoesOn, TypeOK, Where, TimerLabels, Open
<1>. QED BY Zenon, SMTT(40), <1>2, <1>3, <1>4, <1>5, StayInv

\* wait() goes to sleep: it has just seen that there is a child and no zombie,
\* and it still has the lock.
LEMMA SleepInv ==
  ASSUME IInv, panicked = "none", NEW c \in CPUs, NEW s \in Slots, run[c] = s,
         state[s] = "RUNNING", pc[s] = "scan",
         zombie_children(s) = {}, {t \in Slots : parent[t] = s} # {}, killed[s] = 0,
         chan' = [chan EXCEPT ![s] = s], state' = [state EXCEPT ![s] = "SLEEPING"],
         pc' = [pc EXCEPT ![s] = "asleep"],
         UNCHANGED <<pid, parent, killed, kstack, lock, intena, fl_if>>,
         UNCHANGED <<ret, np, sv, run, idx, nextpid, panicked>>
  PROVE  IInv'
<1>. USE DEF IInv
<1>1. lock = c /\ intena[c] = 1 /\ fl_if[c] = 0 /\ ret[s] = "user" /\ "asleep" \in Labels /\ s # 0
  BY Zenon, SMTT(40), SlotTypes, SlotFacts DEF Flags, Returns, TimerLabels, Labels, Inside
<1>2. TypeOK'
  <2>1. chan' \in [Slots -> 0..NPROC]
    <3>1. chan \in [Slots -> 0..NPROC] /\ s \in 0..NPROC
      BY SlotTypes, Zenon DEF TypeOK
    <3>. QED BY <3>1, Zenon
  <2>. QED BY SMT, SMTT(40), <1>1, <2>1 DEF TypeOK
<1>3. /\ pc'[s] = "asleep" /\ state'[s] = "SLEEPING" /\ chan'[s] = s
      /\ \A t \in Slots \ {s} : pc'[t] = pc[t] /\ state'[t] = state[t] /\ chan'[t] = chan[t]
  BY SMT, SMTT(40) DEF TypeOK
<1>4. Keeps(s)
  BY SMT, SMTT(40), <1>3 DEF Keeps
<1>5. GoesTo(c, s, "asleep")
  <2>1. \A d \in CPUs \ {c} : run[d] # 0 => run[d] \in Slots \ {s}
    BY Zenon, SMTT(40), SlotTypes, SlotFacts, <1>1
  <2>. QED BY Zenon, SMTT(40), <1>1, <1>3, <2>1 DEF GoesTo, Holds, Open
<1>6. Where(s)' = "asleep" /\ Where(s) = "scan" /\ \A t \in Slots \ {s} : Where(t)' = Where(t)
  BY SMT, SMTT(40), <1>3 DEF Where, TimerLabels
<1>7. GoesOn(s, "asleep")
  BY Zenon, SMTT(40), <1>1, <1>6 DEF GoesOn, Open
<1>8. Families'
  <2>1. Where(initproc)' = "exit" => panicked' # "none"
    BY Zenon, SMTT(40), <1>6, SlotTypes DEF Families
  <2>. QED BY Zenon, SMTT(40), <1>3, <2>1, FamiliesFrame
<1>9. Sleepers'
  <2>1. \A k \in Slots : parent[k] = s => state[k] # "ZOMBIE"
    BY Zenon, SMTT(40) DEF zombie_children
  <2>2. \E k \in Slots : parent[k] = s
    BY Zenon, SMTT(40)
  <2>3. \A k \in Slots : state'[k] = "ZOMBIE" => state[k] = "ZOMBIE"
    BY Zenon, SMTT(40), <1>3
  <2>. QED BY SMT, SMTT(40), <1>3, <2>1, <2>2, <2>3 DEF Sleepers
<1>. QED BY Zenon, SMTT(40), <1>2, <1>4, <1>5, <1>7, <1>8, <1>9, MoveInv

\* wait() frees the slot of a zombie: the zombie has left its CPU, for its
\* exit() kept the lock until then.
LEMMA ReapInv ==
  ASSUME IInv, panicked = "none", NEW c \in CPUs, NEW s \in Slots, run[c] = s,
         state[s] = "RUNNING", pc[s] = "scan",
         NEW z \in Slots, parent[z] = s, state[z] = "ZOMBIE",
         kstack' = [kstack EXCEPT ![z] = 0], pid' = [pid EXCEPT ![z] = 0],
         parent' = [parent EXCEPT ![z] = 0], killed' = [killed EXCEPT ![z] = 0],
         state' = [state EXCEPT ![z] = "UNUSED"],
         Release(c), pc' = [pc EXCEPT ![s] = "sysret"],
         UNCHANGED <<chan, ret, np, sv, run, idx, nextpid, panicked>>
  PROVE  IInv'
<1>. USE DEF IInv
<1>1. lock = c /\ intena[c] = 1 /\ ret[s] = "user" /\ "sysret" \in Labels /\ s # 0
  BY SMT, SMTT(40), SlotTypes, SlotFacts DEF Flags, Returns, TimerLabels, Labels, Inside
<1>2. z # s /\ \A d \in CPUs : run[d] # z
  <2>1. ASSUME NEW d \in CPUs, run[d] = z
        PROVE  FALSE
    <3>1. pc[z] = "zombie" /\ run[d] # 0
      BY SMT, SMTT(40), <2>1, SlotTypes DEF Running
    <3>2. lock = d
      BY Zenon, SMTT(40), <2>1, <3>1, SlotFacts DEF Inside
    <3>. QED BY SMT, SMTT(40), <1>1, <2>1, <3>2
  <2>. QED BY SMT, SMTT(40), <2>1
<1>3. pc[z] = "undead"
  BY <1>2, Zenon DEF Parked
<1>4. /\ kstack \in [Slots -> {0, 1}] /\ pid \in [Slots -> 0..MaxPid]
      /\ parent \in [Slots -> 0..NPROC] /\ killed \in [Slots -> {0, 1}]
      /\ state \in [Slots -> {"UNUSED", "EMBRYO", "SLEEPING", "RUNNABLE", "RUNNING", "ZOMBIE"}]
      /\ pc \in [Slots -> Labels] /\ 0 \in 0..NPROC
  BY SlotTypes, Zenon DEF TypeOK
<1>5. /\ kstack'[z] = 0 /\ pid'[z] = 0 /\ parent'[z] = 0 /\ state'[z] = "UNUSED" /\ pc'[s] = "sysret"
      /\ pc'[z] = "undead" /\ state'[s] = "RUNNING" /\ parent'[s] = parent[s]
      /\ \A t \in Slots \ {z} : /\ kstack'[t] = kstack[t] /\ pid'[t] = pid[t]
                                /\ parent'[t] = parent[t] /\ killed'[t] = killed[t]
                                /\ state'[t] = state[t]
      /\ \A t \in Slots \ {s} : pc'[t] = pc[t]
  BY Zenon, SMTT(40), <1>2, <1>3, <1>4
<1>6. TypeOK'
  <2>1. pid' \in [Slots -> 0..MaxPid]
    BY SMT, SMTT(40), <1>4, MaxPidAssumption
  <2>2. parent' \in [Slots -> 0..NPROC]
    BY <1>4, Zenon
  <2>. QED BY Zenon, SMTT(40), <1>1, <2>1, <2>2 DEF TypeOK, Release
<1>7. GoesTo(c, s, "sysret")
  <2>1. \A d \in CPUs \ {c} : run[d] # 0 => run[d] \in Slots \ {s, z}
    BY Zenon, SMTT(40), <1>1, <1>2, SlotTypes, SlotFacts
  <2>2. lock' = NoCPU /\ fl_if'[c] = 1
        /\ \A d \in CPUs \ {c} : fl_if'[d] = fl_if[d] /\ intena'[d] = intena[d]
    BY Zenon, SMTT(40), <1>1 DEF Release, TypeOK
  <2>. QED BY Zenon, SMTT(40), <1>1, <1>5, <2>1, <2>2 DEF GoesTo, Holds, Open
<1>8. Touches(s, z, "sysret")
  BY SMT, SMTT(40), <1>1, <1>2, <1>3, <1>5 DEF Touches, Open
<1>9. Stacks'
  BY SMT, SMTT(40), <1>5 DEF Stacks
<1>10. Forks'
  <2>1. \A t \in Slots : state[t] = "EMBRYO" =>
          state'[t] = "EMBRYO" /\ kstack'[t] = kstack[t] /\ pc'[t] = pc[t]
    BY Zenon, SMTT(40), <1>5
  <2>2. \A t \in Slots : np[t] # 0 => parent'[np[t]] = parent[np[t]]
    BY Zenon, SMTT(40), <1>5, SlotTypes DEF Forks
  <2>3. Where(s) = "scan" /\ Where(s)' = "sysret" /\ \A t \in Slots \ {s} : Where(t)' = Where(t)
    BY SMT, SMTT(40), <1>5 DEF Where, TimerLabels
  <2>. QED BY SMT, SMTT(40), <2>1, <2>2, <2>3, ForksFrame
<1>11. Pids'
  <2>1. Forking' \subseteq Forking
    BY SMT, SMTT(40), <1>5 DEF Forking
  <2>2. z # initproc
    BY DEF Families, Alive
  <2>. QED BY Zenon, SMTT(40), <1>5, <2>1, <2>2, SlotTypes, PidsFrame
<1>. QED BY Zenon, SMTT(40), <1>2, <1>6, <1>7, <1>8, <1>9, <1>10, <1>11, TouchInv

\* The loop of wait().
LEMMA WaitScanInv ==
  ASSUME IInv, NEW c \in CPUs, WaitScan(c)
  PROVE  IInv'
<1>1. panicked = "none" /\ run[c] # 0 /\ pc[run[c]] = "scan"
  BY Zenon DEF WaitScan, At
<1>2. PICK s \in Slots : run[c] = s /\ state[s] = "RUNNING"
  BY SMT, SMTT(40), <1>1, SlotFacts
<1>3. CASE /\ zombie_children(s) # {}
           /\ kstack' = [kstack EXCEPT ![Min(zombie_children(s))] = 0]
           /\ pid' = [pid EXCEPT ![Min(zombie_children(s))] = 0]
           /\ parent' = [parent EXCEPT ![Min(zombie_children(s))] = 0]
           /\ killed' = [killed EXCEPT ![Min(zombie_children(s))] = 0]
           /\ state' = [state EXCEPT ![Min(zombie_children(s))] = "UNUSED"]
           /\ Release(c) /\ Goto(c, "sysret") /\ UNCHANGED chan
  <2>1. PICK z \in Slots : z = Min(zombie_children(s)) /\ parent[z] = s /\ state[z] = "ZOMBIE"
    <3>1. zombie_children(s) \in SUBSET Slots
      BY Zenon, SMTT(40) DEF zombie_children
    <3>2. Min(zombie_children(s)) \in zombie_children(s)
      BY Zenon, SMTT(40), <1>3, <3>1, MinIn
    <3>. QED BY Zenon, SMTT(40), <3>2 DEF zombie_children
  <2>. QED BY <1>1, <1>2, <1>3, <2>1, ReapInv, Zenon DEF WaitScan, Goto
<1>4. CASE Release(c) /\ Goto(c, "sysret") /\ UNCHANGED procVars
  BY <1>1, <1>2, <1>4, NoneInv, Zenon DEF WaitScan, Goto
<1>5. CASE /\ zombie_children(s) = {} /\ {t \in Slots : parent[t] = s} # {} /\ killed[s] = 0
           /\ chan' = [chan EXCEPT ![s] = s] /\ state' = [state EXCEPT ![s] = "SLEEPING"]
           /\ Goto(c, "asleep")
           /\ UNCHANGED <<pid, parent, killed, kstack, lock, intena, fl_if>>
  BY <1>1, <1>2, <1>5, SleepInv, Zenon DEF WaitScan, Goto
<1>. QED BY <1>2, <1>3, <1>4, <1>5, Zenon DEF WaitScan

-----------------------------------------------------------------------------
(***************************************************************************)
(* fork().                                                                 *)
(***************************************************************************)

\* fork() fails for want of a slot.
LEMMA ForkFull ==
  ASSUME IInv, panicked = "none", NEW c \in CPUs, NEW s \in Slots, run[c] = s,
         state[s] = "RUNNING", pc[s] = "fork", pc' = [pc EXCEPT ![s] = "sysret"],
         UNCHANGED <<procVars, ret, np, sv, cpuVars, nextpid, panicked>>
  PROVE  IInv'
<1>. USE DEF IInv
<1>1. lock # c /\ fl_if[c] = 1 /\ ret[s] = "user" /\ "sysret" \in Labels /\ s # 0
  BY Zenon, SMTT(40), SlotTypes, SlotFacts DEF Flags, Returns, TimerLabels, Labels, Inside, Open
<1>2. TypeOK'
  BY Zenon, SMTT(40), <1>1 DEF TypeOK, procVars, cpuVars
<1>3. Stays(c, s)
  BY SMT, SMTT(40) DEF Stays, TypeOK, procVars, cpuVars
<1>4. Lands(c, s, "sysret")
  BY Zenon, SMTT(40), <1>1 DEF Lands, TypeOK, cpuVars, Open
<1>5. GoesOn(s, "sysret")
  BY SMT, SMTT(40), <1>1 DEF GoesOn, TypeOK, Where, TimerLabels, Open
<1>. QED BY Zenon, SMTT(40), <1>2, <1>3, <1>4, <1>5, StayInv

\* What the steps of fork() have in common: the caller s, the new process p
LEMMA ForkFacts ==
  ASSUME IInv, NEW c \in CPUs, NEW s \in Slots, run[c] = s, s # 0,
         pc[s] \in {"fork", "kstack", "copy", "setrun"},
         NEW p \in Slots, state[p] \in {"UNUSED", "EMBRYO"}
  PROVE  /\ lock # c /\ fl_if[c] = 1 /\ ret[s] = "user" /\ Where(s) = pc[s]
         /\ state[s] = "RUNNING" /\ p # s /\ \A d \in CPUs : run[d] # p
         /\ pc[p] \in {"forkret", "undead"} /\ p # initproc
<1>. USE DEF IInv
<1>1. lock # c /\ fl_if[c] = 1 /\ ret[s] = "user" /\ Where(s) = pc[s]
  BY Zenon, SlotFacts DEF Flags, Returns, TimerLabels, Inside, Open, Where
<1>2. state[s] = "RUNNING"
  BY Zenon, SlotFacts
<1>3. \A d \in CPUs : run[d] # p
  BY Zenon, SlotTypes DEF Running
<1>4. pc[p] \in {"forkret", "undead"}
  BY <1>3, Zenon DEF Parked
<1>5. p # initproc
  BY Zenon DEF Families, Alive
<1>. QED BY Zenon, <1>1, <1>2, <1>3, <1>4, <1>5

\* They leave the CPUs alone.
LEMMA ForkGoes ==
  ASSUME IInv, NEW c \in CPUs, NEW s \in Slots, run[c] = s, s # 0, lock # c, fl_if[c] = 1,
         state[s] = "RUNNING",
         NEW p \in Slots \ {s}, \A d \in CPUs : run[d] # p, UNCHANGED cpuVars,
         NEW l \in Open, pc'[s] = l, state'[s] = state[s],
         \A t \in Slots \ {s, p} : pc'[t] = pc[t] /\ state'[t] = state[t]
  PROVE  GoesTo(c, s, l)
<1>1. \A d \in CPUs \ {c} : run[d] # 0 => run[d] \in Slots \ {s, p}
  BY Zenon, SlotTypes, SlotFacts DEF IInv
<1>2. l \notin Holds
  BY Zenon, SMTT(40) DEF Open, Holds
<1>3. l \notin {"zombie", "asleep", "yielded", "timer", "trapret", "scan"}
  BY SMT, SMTT(40) DEF Open
<1>. QED BY SMT, SMTT(40), <1>1, <1>2, <1>3 DEF GoesTo, cpuVars

\* p is the new process of the fork() by s.
Child(s, p) ==
  /\ np[s] = p /\ Where(s) \in {"kstack", "copy", "setrun"}
  /\ state[p] = "EMBRYO"
  /\ kstack[p] = IF Where(s) = "kstack" THEN 0 ELSE 1
  /\ parent[p] = IF Where(s) = "setrun" THEN s ELSE 0
  /\ Where(s) = "setrun" => pc[p] = "forkret"

\* A fork() that has a new process has it alone.
LEMMA NewProc ==
  ASSUME TypeOK, Forks, NEW s \in Slots, Where(s) \in {"kstack", "copy", "setrun"}
  PROVE  \E p \in Slots : Child(s, p) /\ \A t \in Slots \ {s} : np[t] # p
<1>1. np[s] # 0
  BY Zenon DEF Forks
<1>2. np[s] \in Slots
  BY SMT, SMTT(40), <1>1, SlotTypes
<1>3. Child(s, np[s]) /\ \A t \in Slots \ {s} : np[t] # np[s]
  BY <1>1, Zenon DEF Forks, Child
<1>. QED BY SMT, SMTT(40), <1>2, <1>3

\* The step of one fork() on its new process p leaves the others theirs.
LEMMA ForksChange ==
  ASSUME TypeOK, Forks, NEW s \in Slots, NEW p \in Slots,
         \A t \in Slots \ {s} :
           /\ np'[t] = np[t] /\ np[t] # p
           /\ \/ Where(t)' = Where(t)
              \/ {Where(t), Where(t)'} \cap {"kstack", "copy", "setrun"} = {},
         \A t \in Slots \ {p} : state[t] = "EMBRYO" =>
           /\ state'[t] = "EMBRYO" /\ kstack'[t] = kstack[t]
           /\ parent'[t] = parent[t] /\ pc'[t] = pc[t],
         \/ np'[s] = 0 /\ Where(s)' \notin {"kstack", "copy", "setrun"}
         \/ Child(s, p)'
  PROVE  Forks'
<1>. SUFFICES ASSUME NEW t \in Slots
              PROVE  (/\ np[t] # 0 <=> Where(t) \in {"kstack", "copy", "setrun"}
                      /\ np[t] # 0 =>
                           /\ state[np[t]] = "EMBRYO"
                           /\ kstack[np[t]] = IF Where(t) = "kstack" THEN 0 ELSE 1
                           /\ parent[np[t]] = IF Where(t) = "setrun" THEN t ELSE 0
                           /\ Where(t) = "setrun" => pc[np[t]] = "forkret"
                           /\ \A u \in Slots : u # t => np[u] # np[t])'
  BY Zenon, SMTT(40) DEF Forks
<1>1. p # 0
  BY Zenon, SMTT(40), SlotTypes
<1>2. CASE t = s
  BY Zenon, SMTT(40), <1>1, <1>2 DEF Child
<1>3. CASE t # s /\ np[t] # 0
  <2>1. np[t] \in Slots \ {p} /\ state[np[t]] = "EMBRYO" /\ np'[t] = np[t]
    BY Zenon, SMTT(40), <1>3, SlotTypes DEF Forks
  <2>2. \A u \in Slots : u # t => np'[u] # np[t]
    BY SMT, SMTT(40), <1>3, <2>1 DEF Forks, Child
  <2>3. Where(t)' = Where(t)
    <3>1. Where(t) \in {"kstack", "copy", "setrun"}
      BY <1>3, Zenon DEF Forks
    <3>. QED BY Zenon, <1>3, <3>1
  <2>. QED BY SMT, SMTT(40), <1>3, <2>1, <2>2, <2>3 DEF Forks
<1>4. CASE t # s /\ np[t] = 0
  <2>1. Where(t) \notin {"kstack", "copy", "setrun"} /\ np'[t] = 0
    BY Zenon, <1>4 DEF Forks
  <2>. QED BY Zenon, <1>4, <2>1
<1>. QED BY Zenon, SMTT(40), <1>2, <1>3, <1>4

\* allocproc() takes an unused slot and gives it the next pid.
LEMMA ForkNewInv ==
  ASSUME IInv, panicked = "none", NEW c \in CPUs, NEW s \in Slots, run[c] = s,
         pc[s] = "fork", NEW p \in Slots, state[p] = "UNUSED",
         state' = [state EXCEPT ![p] = "EMBRYO"], pid' = [pid EXCEPT ![p] = nextpid],
         nextpid' = nextpid + 1, np' = [np EXCEPT ![s] = p], pc' = [pc EXCEPT ![s] = "kstack"],
         UNCHANGED <<parent, killed, chan, kstack, ret, sv, cpuVars, panicked>>
  PROVE  IInv'
<1>. USE DEF IInv
<1>1. /\ lock # c /\ fl_if[c] = 1 /\ ret[s] = "user" /\ Where(s) = "fork" /\ s # 0
      /\ state[s] = "RUNNING" /\ p # s /\ \A d \in CPUs : run[d] # p
      /\ pc[p] \in {"forkret", "undead"} /\ p # initproc /\ "kstack" \in Labels
  BY SMT, SMTT(40), SlotTypes, ForkFacts DEF Labels
<1>2. /\ pc'[s] = "kstack" /\ \A t \in Slots \ {s} : pc'[t] = pc[t]
      /\ state'[p] = "EMBRYO" /\ \A t \in Slots \ {p} : state'[t] = state[t]
      /\ np'[s] = p /\ \A t \in Slots \ {s} : np'[t] = np[t]
      /\ pid'[p] = nextpid /\ \A t \in Slots \ {p} : pid'[t] = pid[t]
  BY Zenon, SMTT(40) DEF TypeOK
<1>3. parent[p] = 0 /\ kstack[p] = 0
  BY Zenon, SMTT(40), <1>1 DEF Families, Stacks
<1>4. nextpid \in 1..MaxPid /\ nextpid + 1 + Cardinality(Forking') <= MaxPid + 1
  <2>1. s \in Forking /\ Forking' \subseteq Forking \ {s}
    BY SMT, SMTT(40), <1>1, <1>2 DEF Forking
  <2>. QED BY Zenon, <2>1, ForkingLess
<1>5. TypeOK'
  <2>1. pid' \in [Slots -> 0..MaxPid] /\ nextpid' \in 1..(MaxPid + 1)
    BY SMT, SMTT(40), <1>4, MaxPidAssumption DEF TypeOK
  <2>2. np' \in [Slots -> 0..NPROC]
    <3>1. np \in [Slots -> 0..NPROC] /\ p \in 0..NPROC
      BY ZenonT(60), SlotTypes DEF TypeOK
    <3>. QED BY <3>1, Zenon
  <2>. QED BY Zenon, <1>1, <2>1, <2>2 DEF TypeOK, cpuVars
<1>6. GoesTo(c, s, "kstack")
  BY SMT, SMTT(40), <1>1, <1>2, ForkGoes DEF Open
<1>7. Touches(s, p, "kstack")
  BY SMT, SMTT(40), <1>1, <1>2, <1>3 DEF Touches, Open
<1>8. Stacks'
  BY ZenonT(60), <1>2, <1>3 DEF Stacks
<1>9. Forks'
  <2>1. Where(s)' = "kstack" /\ \A t \in Slots \ {s} : Where(t)' = Where(t)
    BY Zenon, <1>2 DEF Where, TimerLabels
  <2>2. \A t \in Slots : np[t] # p
    BY SMT, SMTT(40), <1>1, SlotTypes DEF Forks
  <2>3. Child(s, p)'
    BY Zenon, <1>2, <1>3, <2>1 DEF Child
  <2>. QED BY SMT, SMTT(40), <1>1, <1>2, <2>1, <2>2, <2>3, ForksChange
<1>10. Pids'
  <2>1. \A t \in Slots : pid[t] \in Int /\ pid[t] < nextpid
    BY SMT, SMTT(40), MaxPidAssumption DEF TypeOK, Pids
  <2>2. PidUnique'
    BY SMT, SMTT(40), <1>2, <1>4, <2>1 DEF Pids, PidUnique, Used
  <2>. QED BY SMT, SMTT(40), <1>1, <1>2, <1>4, <2>1, <2>2, SlotTypes DEF Pids
<1>. QED BY ZenonT(60), <1>1, <1>5, <1>6, <1>7, <1>8, <1>9, <1>10, TouchInv

\* allocproc() under the lock.
LEMMA ForkAllocInv ==
  ASSUME IInv, NEW c \in CPUs, ForkAlloc(c)
  PROVE  IInv'
<1>1. panicked = "none" /\ run[c] # 0 /\ pc[run[c]] = "fork"
  BY Zenon DEF ForkAlloc, At
<1>2. PICK s \in Slots : run[c] = s /\ state[s] = "RUNNING"
  BY SMT, SMTT(40), <1>1, SlotFacts
<1>. DEFINE free == {t \in Slots : state[t] = "UNUSED"}
<1>3. UNCHANGED cpuVars
  BY Zenon DEF ForkAlloc, Locked, cpuVars
<1>4. CASE free = {}
  <2>1. Goto(c, "sysret") /\ UNCHANGED <<state, pid, np, nextpid>>
    BY <1>4, Zenon DEF ForkAlloc
  <2>. QED BY <1>1, <1>2, <1>3, <2>1, ForkFull, Zenon DEF ForkAlloc, Goto, procVars
<1>5. CASE free # {}
  <2>1. PICK p \in Slots : p = Min(free) /\ state[p] = "UNUSED"
    BY Zenon, <1>5, MinIn, free \in SUBSET Slots
  <2>2. /\ state' = [state EXCEPT ![p] = "EMBRYO"] /\ pid' = [pid EXCEPT ![p] = nextpid]
        /\ nextpid_inc /\ np' = [np EXCEPT ![run[c]] = p] /\ Goto(c, "kstack")
    BY <1>5, <2>1, Zenon DEF ForkAlloc
  <2>. QED BY <1>1, <1>2, <1>3, <2>1, <2>2, ForkNewInv, Zenon
       DEF ForkAlloc, Goto, nextpid_inc
<1>. QED BY SMT, SMTT(40), <1>4, <1>5

\* allocproc() outside the lock: the kernel stack, or the slot given back.
LEMMA ForkKstackInv ==
  ASSUME IInv, NEW c \in CPUs, ForkKstack(c)
  PROVE  IInv'
<1>. USE DEF IInv
<1>1. panicked = "none" /\ run[c] # 0 /\ pc[run[c]] = "kstack"
  BY Zenon DEF ForkKstack, At
<1>2. PICK s \in Slots : run[c] = s
  BY Zenon, <1>1, SlotFacts
<1>3. Where(s) = "kstack"
  BY SMT, SMTT(40), <1>1, <1>2 DEF Where, TimerLabels
<1>4. PICK p \in Slots : /\ np[s] = p /\ state[p] = "EMBRYO" /\ kstack[p] = 0 /\ parent[p] = 0
                         /\ \A t \in Slots \ {s} : np[t] # p
  BY ZenonT(60), <1>3, NewProc DEF Child
<1>5. /\ lock # c /\ fl_if[c] = 1 /\ ret[s] = "user" /\ s # 0
      /\ state[s] = "RUNNING" /\ p # s /\ \A d \in CPUs : run[d] # p
      /\ pc[p] \in {"forkret", "undead"} /\ p # initproc
  BY SMT, SMTT(40), <1>1, <1>2, <1>4, ForkFacts
<1>6. UNCHANGED <<pid, parent, killed, chan, ret, sv, cpuVars, nextpid, panicked>>
  BY Zenon DEF ForkKstack
<1>7. PICK l \in {"copy", "sysret"} :
        /\ pc' = [pc EXCEPT ![s] = l]
        /\ l = "copy" => kstack' = [kstack EXCEPT ![p] = 1] /\ UNCHANGED <<state, np>>
        /\ l = "sysret" => /\ state' = [state EXCEPT ![p] = "UNUSED"]
                           /\ np' = [np EXCEPT ![s] = 0] /\ UNCHANGED kstack
  BY Zenon, <1>2, <1>4 DEF ForkKstack, Goto
<1>8. /\ l \in Labels /\ l \in Open /\ l \notin TimerLabels /\ l # "fork"
      /\ pc \in [Slots -> Labels] /\ np \in [Slots -> 0..NPROC] /\ kstack \in [Slots -> {0, 1}]
      /\ state \in [Slots -> {"UNUSED", "EMBRYO", "SLEEPING", "RUNNABLE", "RUNNING", "ZOMBIE"}]
  BY Zenon DEF Labels, Open, TimerLabels, TypeOK
<1>9. /\ pc'[s] = l /\ \A t \in Slots \ {s} : pc'[t] = pc[t]
      /\ \A t \in Slots \ {p} : state'[t] = state[t] /\ kstack'[t] = kstack[t]
      /\ \A t \in Slots \ {s} : np'[t] = np[t]
      /\ l = "copy" => kstack'[p] = 1 /\ state'[p] = "EMBRYO" /\ np'[s] = p
      /\ l = "sysret" => kstack'[p] = 0 /\ state'[p] = "UNUSED" /\ np'[s] = 0
  BY Zenon, <1>4, <1>7, <1>8
<1>10. TypeOK'
  <2>1. np' \in [Slots -> 0..NPROC]
    BY <1>7, <1>8, SlotTypes, Zenon
  <2>2. /\ pc' \in [Slots -> Labels] /\ kstack' \in [Slots -> {0, 1}]
        /\ state' \in [Slots -> {"UNUSED", "EMBRYO", "SLEEPING", "RUNNABLE", "RUNNING", "ZOMBIE"}]
    BY Zenon, <1>7, <1>8
  <2>. QED BY Zenon, <1>6, <2>1, <2>2 DEF TypeOK, cpuVars
<1>11. GoesTo(c, s, l)
  <2>1. /\ pc'[s] = l /\ state'[s] = state[s] /\ p \in Slots \ {s}
        /\ \A t \in Slots \ {s, p} : pc'[t] = pc[t] /\ state'[t] = state[t]
    BY Zenon, <1>5, <1>9
  <2>2. l \in Open /\ UNCHANGED cpuVars
    BY Zenon, <1>6, <1>8
  <2>. QED BY Zenon, <1>2, <1>5, <2>1, <2>2, ForkGoes
<1>12. Touches(s, p, l)
  BY Zenon, <1>4, <1>5, <1>6, <1>8, <1>9 DEF Touches
<1>13. Stacks'
  BY Zenon, <1>9 DEF Stacks
<1>14. Forks'
  <2>1. Where(s)' = l /\ \A t \in Slots \ {s} : Where(t)' = Where(t)
    BY Zenon, <1>6, <1>8, <1>9 DEF Where
  <2>2. \A t \in Slots \ {p} : state[t] = "EMBRYO" =>
          /\ state'[t] = "EMBRYO" /\ kstack'[t] = kstack[t]
          /\ parent'[t] = parent[t] /\ pc'[t] = pc[t]
    BY Zenon, <1>5, <1>6, <1>9
  <2>3. \A t \in Slots \ {s} :
          /\ np'[t] = np[t] /\ np[t] # p
          /\ \/ Where(t)' = Where(t)
             \/ {Where(t), Where(t)'} \cap {"kstack", "copy", "setrun"} = {}
    BY Zenon, <1>4, <1>9, <2>1
  <2>4. CASE l = "copy"
    <3>1. Child(s, p)'
      BY Zenon, <1>4, <1>6, <1>9, <2>1, <2>4 DEF Child
    <3>. QED BY Zenon, <2>2, <2>3, <3>1, ForksChange
  <2>5. CASE l = "sysret"
    BY Zenon, <1>9, <2>1, <2>2, <2>3, <2>5, ForksChange
  <2>. QED BY Zenon, <2>4, <2>5
<1>15. Pids'
  <2>1. Forking' \subseteq Forking
    BY Zenon, <1>5, <1>6, <1>8, <1>9 DEF Forking
  <2>2. \A t \in Slots : state'[t] # "UNUSED" => state[t] # "UNUSED"
    BY Zenon, <1>4, <1>9
  <2>. QED BY Zenon, <1>6, <2>1, <2>2, PidsFrame
<1>. QED BY ZenonT(60), <1>1, <1>2, <1>5, <1>10, <1>11, <1>12, <1>13, <1>14, <1>15, TouchInv

\* fork() outside the lock: the copy and the parent, or the slot given back.
LEMMA ForkCopyInv ==
  ASSUME IInv, NEW c \in CPUs, ForkCopy(c)
  PROVE  IInv'
<1>. USE DEF IInv
<1>1. panicked = "none" /\ run[c] # 0 /\ pc[run[c]] = "copy"
  BY Zenon DEF ForkCopy, At
<1>2. PICK s \in Slots : run[c] = s
  BY SMT, SMTT(40), <1>1, SlotFacts
<1>3. Where(s) = "copy"
  BY SMT, SMTT(40), <1>1, <1>2 DEF Where, TimerLabels
<1>4. PICK p \in Slots : /\ np[s] = p /\ state[p] = "EMBRYO" /\ kstack[p] = 1 /\ parent[p] = 0
                         /\ \A t \in Slots \ {s} : np[t] # p
  BY ZenonT(60), <1>3, NewProc DEF Child
<1>5. /\ lock # c /\ fl_if[c] = 1 /\ ret[s] = "user" /\ s # 0
      /\ state[s] = "RUNNING" /\ p # s /\ \A d \in CPUs : run[d] # p
      /\ pc[p] \in {"forkret", "undead"} /\ p # initproc
  BY SMT, SMTT(40), <1>1, <1>2, <1>4, ForkFacts
<1>6. UNCHANGED <<pid, killed, chan, ret, sv, cpuVars, nextpid, panicked>>
  BY Zenon DEF ForkCopy
<1>7. PICK l \in {"setrun", "sysret"} :
        /\ l = "setrun" => /\ parent' = [parent EXCEPT ![p] = s]
                           /\ pc' = [pc EXCEPT ![s] = "setrun", ![p] = "forkret"]
                           /\ UNCHANGED <<state, kstack, np>>
        /\ l = "sysret" => /\ kstack' = [kstack EXCEPT ![p] = 0]
                           /\ state' = [state EXCEPT ![p] = "UNUSED"]
                           /\ np' = [np EXCEPT ![s] = 0]
                           /\ pc' = [pc EXCEPT ![s] = "sysret"] /\ UNCHANGED parent
  BY Zenon, <1>2, <1>4 DEF ForkCopy, Goto
<1>8. /\ l \in Labels /\ "forkret" \in Labels /\ l \in Open /\ l \notin TimerLabels /\ l # "fork"
      /\ pc \in [Slots -> Labels] /\ np \in [Slots -> 0..NPROC] /\ kstack \in [Slots -> {0, 1}]
      /\ parent \in [Slots -> 0..NPROC]
      /\ state \in [Slots -> {"UNUSED", "EMBRYO", "SLEEPING", "RUNNABLE", "RUNNING", "ZOMBIE"}]
  BY Zenon DEF Labels, Open, TimerLabels, TypeOK
<1>9. /\ pc'[s] = l /\ \A t \in Slots \ {s, p} : pc'[t] = pc[t]
      /\ \A t \in Slots \ {p} : /\ state'[t] = state[t] /\ kstack'[t] = kstack[t]
                                /\ parent'[t] = parent[t]
      /\ \A t \in Slots \ {s} : np'[t] = np[t]
      /\ l = "setrun" => /\ parent'[p] = s /\ pc'[p] = "forkret" /\ kstack'[p] = 1
                         /\ state'[p] = "EMBRYO" /\ np'[s] = p
      /\ l = "sysret" => /\ parent'[p] = 0 /\ pc'[p] = pc[p] /\ kstack'[p] = 0
                         /\ state'[p] = "UNUSED" /\ np'[s] = 0
  <2>1. CASE l = "setrun"
    BY Zenon, <1>4, <1>5, <1>7, <1>8, <2>1
  <2>2. CASE l = "sysret"
    BY ZenonT(60), <1>4, <1>5, <1>7, <1>8, <2>2
  <2>. QED BY Zenon, <2>1, <2>2
<1>10. TypeOK'
  <2>1. np' \in [Slots -> 0..NPROC] /\ parent' \in [Slots -> 0..NPROC]
    <3>1. s \in 0..NPROC /\ 0 \in 0..NPROC
      BY Zenon, SlotTypes
    <3>2. CASE l = "setrun"
      BY ZenonT(60), <1>7, <1>8, <3>1, <3>2
    <3>3. CASE l = "sysret"
      BY ZenonT(60), <1>7, <1>8, <3>1, <3>3
    <3>. QED BY Zenon, <3>2, <3>3
  <2>2. /\ pc' \in [Slots -> Labels] /\ kstack' \in [Slots -> {0, 1}]
        /\ state' \in [Slots -> {"UNUSED", "EMBRYO", "SLEEPING", "RUNNABLE", "RUNNING", "ZOMBIE"}]
    <3>1. CASE l = "setrun"
      BY ZenonT(60), <1>7, <1>8, <3>1
    <3>2. CASE l = "sysret"
      BY ZenonT(60), <1>7, <1>8, <3>2
    <3>. QED BY Zenon, <3>1, <3>2
  <2>. QED BY Zenon, <1>6, <2>1, <2>2 DEF TypeOK, cpuVars
<1>11. GoesTo(c, s, l)
  <2>1. /\ pc'[s] = l /\ state'[s] = state[s] /\ p \in Slots \ {s}
        /\ \A t \in Slots \ {s, p} : pc'[t] = pc[t] /\ state'[t] = state[t]
    BY Zenon, <1>5, <1>9
  <2>2. l \in Open /\ UNCHANGED cpuVars
    BY Zenon, <1>6, <1>8
  <2>. QED BY Zenon, <1>2, <1>5, <2>1, <2>2, ForkGoes
<1>12. Touches(s, p, l)
  BY ZenonT(60), <1>4, <1>5, <1>6, <1>8, <1>9 DEF Touches
<1>13. Stacks'
  BY ZenonT(60), <1>9 DEF Stacks
<1>14. Forks'
  <2>1. Where(s)' = l /\ \A t \in Slots \ {s, p} : Where(t)' = Where(t)
    BY Zenon, <1>6, <1>8, <1>9 DEF Where
  <2>2. Where(p)' \notin {"kstack", "copy", "setrun"} /\ Where(p) \notin {"kstack", "copy", "setrun"}
    BY Zenon, <1>5, <1>9 DEF Where, TimerLabels
  <2>3. \A t \in Slots \ {p} : state[t] = "EMBRYO" =>
          /\ state'[t] = "EMBRYO" /\ kstack'[t] = kstack[t]
          /\ parent'[t] = parent[t] /\ pc'[t] = pc[t]
    BY Zenon, <1>5, <1>9
  <2>4. \A t \in Slots \ {s} :
          /\ np'[t] = np[t] /\ np[t] # p
          /\ \/ Where(t)' = Where(t)
             \/ {Where(t), Where(t)'} \cap {"kstack", "copy", "setrun"} = {}
    BY ZenonT(60), <1>4, <1>9, <2>1, <2>2
  <2>5. CASE l = "setrun"
    <3>1. Child(s, p)'
      BY Zenon, <1>9, <2>1, <2>5 DEF Child
    <3>. QED BY Zenon, <2>3, <2>4, <3>1, ForksChange
  <2>6. CASE l = "sysret"
    BY Zenon, <1>9, <2>1, <2>3, <2>4, <2>6, ForksChange
  <2>. QED BY Zenon, <2>5, <2>6
<1>15. Pids'
  <2>1. Forking' \subseteq Forking
    BY ZenonT(60), <1>5, <1>6, <1>8, <1>9 DEF Forking
  <2>2. \A t \in Slots : state'[t] # "UNUSED" => state[t] # "UNUSED"
    BY Zenon, <1>4, <1>9
  <2>. QED BY Zenon, <1>6, <2>1, <2>2, PidsFrame
<1>. QED BY ZenonT(60), <1>1, <1>2, <1>5, <1>10, <1>11, <1>12, <1>13, <1>14, <1>15, TouchInv

\* fork() makes the new process RUNNABLE.
LEMMA ForkRunInv ==
  ASSUME IInv, NEW c \in CPUs, ForkRun(c)
  PROVE  IInv'
<1>. USE DEF IInv
<1>1. panicked = "none" /\ run[c] # 0 /\ pc[run[c]] = "setrun"
  BY Zenon DEF ForkRun, At
<1>2. PICK s \in Slots : run[c] = s
  BY SMT, SMTT(40), <1>1, SlotFacts
<1>3. Where(s) = "setrun"
  BY SMT, SMTT(40), <1>1, <1>2 DEF Where, TimerLabels
<1>4. PICK p \in Slots : /\ np[s] = p /\ state[p] = "EMBRYO" /\ kstack[p] = 1 /\ parent[p] = s
                         /\ pc[p] = "forkret" /\ \A t \in Slots \ {s} : np[t] # p
  BY ZenonT(60), <1>3, NewProc DEF Child
<1>5. /\ lock # c /\ fl_if[c] = 1 /\ ret[s] = "user" /\ s # 0
      /\ state[s] = "RUNNING" /\ p # s /\ \A d \in CPUs : run[d] # p /\ p # initproc
  BY SMT, SMTT(40), <1>1, <1>2, <1>4, ForkFacts
<1>6. /\ UNCHANGED <<pid, parent, killed, chan, kstack, ret, sv, cpuVars, nextpid, panicked>>
      /\ state' = [state EXCEPT ![p] = "RUNNABLE"]
      /\ np' = [np EXCEPT ![s] = 0] /\ pc' = [pc EXCEPT ![s] = "sysret"]
  BY <1>2, <1>4, Zenon DEF ForkRun, Goto, Locked, cpuVars
<1>7. "sysret" \in Labels /\ "sysret" \in Open /\ "sysret" \notin TimerLabels
  BY Zenon DEF Labels, Open, TimerLabels
<1>8. /\ pc'[s] = "sysret" /\ \A t \in Slots \ {s} : pc'[t] = pc[t]
      /\ state'[p] = "RUNNABLE" /\ \A t \in Slots \ {p} : state'[t] = state[t]
      /\ np'[s] = 0 /\ \A t \in Slots \ {s} : np'[t] = np[t]
  BY Zenon, <1>6 DEF TypeOK
<1>9. TypeOK'
  <2>1. np' \in [Slots -> 0..NPROC]
    <3>1. np \in [Slots -> 0..NPROC] /\ 0 \in 0..NPROC
      BY SlotTypes, Zenon DEF TypeOK
    <3>. QED BY <1>6, <3>1, Zenon
  <2>. QED BY Zenon, <1>6, <1>7, <2>1 DEF TypeOK, cpuVars
<1>10. GoesTo(c, s, "sysret")
  <2>1. /\ pc'[s] = "sysret" /\ state'[s] = state[s] /\ p \in Slots \ {s}
        /\ \A t \in Slots \ {s, p} : pc'[t] = pc[t] /\ state'[t] = state[t]
    BY Zenon, <1>5, <1>8
  <2>2. "sysret" \in Open /\ UNCHANGED cpuVars
    BY Zenon, <1>6, <1>7
  <2>. QED BY Zenon, <1>2, <1>5, <2>1, <2>2, ForkGoes
<1>11. Touches(s, p, "sysret")
  <2>1. /\ UNCHANGED <<ret, sv, chan, panicked>> /\ pc'[s] = "sysret" /\ "sysret" \in Open
        /\ ret[s] = "user" /\ parent'[s] = parent[s]
    BY Zenon, <1>5, <1>6, <1>7, <1>8
  <2>2. state'[s] = "RUNNING" /\ p \in Slots \ {s} /\ pc'[p] = "forkret"
    BY Zenon, <1>4, <1>5, <1>8
  <2>4. \A t \in Slots \ {s, p} : pc'[t] = pc[t] /\ state'[t] = state[t]
    BY Zenon, <1>8
  <2>5. parent' = parent /\ killed' = killed
    BY Zenon, <1>6
  <2>3. state'[p] = "RUNNABLE" /\ parent[p] = s /\ parent'[p] = s /\ state[p] = "EMBRYO"
    BY Zenon, <1>4, <1>6, <1>8
  <2>. QED BY Zenon, <1>4, <2>1, <2>2, <2>3, <2>4, <2>5 DEF Touches
<1>12. Stacks'
  BY ZenonT(60), <1>4, <1>6, <1>8 DEF Stacks
<1>13. Forks'
  <2>1. Where(s)' = "sysret" /\ \A t \in Slots \ {s} : Where(t)' = Where(t)
    BY Zenon, <1>6, <1>7, <1>8 DEF Where
  <2>2. \A t \in Slots \ {p} : state[t] = "EMBRYO" =>
          /\ state'[t] = "EMBRYO" /\ kstack'[t] = kstack[t]
          /\ parent'[t] = parent[t] /\ pc'[t] = pc[t]
    BY Zenon, <1>5, <1>6, <1>8
  <2>3. \A t \in Slots \ {s} :
          /\ np'[t] = np[t] /\ np[t] # p
          /\ \/ Where(t)' = Where(t)
             \/ {Where(t), Where(t)'} \cap {"kstack", "copy", "setrun"} = {}
    BY Zenon, <1>4, <1>8, <2>1
  <2>. QED BY ZenonT(60), <1>8, <2>1, <2>2, <2>3, ForksChange
<1>14. Pids'
  <2>1. Forking' \subseteq Forking
    BY Zenon, <1>5, <1>6, <1>8 DEF Forking
  <2>2. \A t \in Slots : state'[t] # "UNUSED" => state[t] # "UNUSED"
    BY Zenon, <1>4, <1>8
  <2>. QED BY ZenonT(60), <1>6, <2>1, <2>2, PidsFrame
<1>. QED BY ZenonT(60), <1>1, <1>2, <1>5, <1>9, <1>10, <1>11, <1>12, <1>13, <1>14, TouchInv

-----------------------------------------------------------------------------
(***************************************************************************)
(* sched() and scheduler().                                                *)
(***************************************************************************)

\* The step of c changes nothing for the other CPUs.
Others(c) ==
  /\ \A d \in CPUs \ {c} :
       /\ run'[d] = run[d] /\ idx'[d] = idx[d]
       /\ fl_if'[d] = fl_if[d] /\ intena'[d] = intena[d]
       /\ lock' = d <=> lock = d
       /\ run[d] # 0 => pc'[run[d]] = pc[run[d]] /\ state'[run[d]] = state[run[d]]

\* A CPU that goes to its scheduler, or is there and stays, keeps what the
\* invariant says of the CPUs.
LEMMA IdleFrame ==
  ASSUME IInv, NEW c \in CPUs, Others(c), run'[c] = 0,
         lock' = c <=> idx'[c] # 0, lock' = c => fl_if'[c] = 0
  PROVE  Holding' /\ Running' /\ Flags'
<1>. USE DEF IInv
<1>1. Holding'
  <2>. SUFFICES ASSUME NEW d \in CPUs
                PROVE  lock' = d <=> \/ run'[d] = 0 /\ idx'[d] # 0
                                     \/ run'[d] # 0 /\ pc'[run'[d]] \in Inside
    BY Zenon DEF Holding
  <2>1. CASE d = c
    BY Zenon, <2>1
  <2>2. CASE d # c
    <3>1. /\ run'[d] = run[d] /\ idx'[d] = idx[d] /\ (lock' = d <=> lock = d)
          /\ run[d] # 0 => pc'[run[d]] = pc[run[d]]
      BY Zenon, <2>2 DEF Others
    <3>. QED BY Zenon, <3>1 DEF Holding
  <2>. QED BY Zenon, <2>1, <2>2
<1>2. Running'
  <2>. SUFFICES ASSUME NEW d \in CPUs, run'[d] # 0
                PROVE  /\ idx'[d] # 0
                       /\ pc'[run'[d]] # "undead"
                       /\ pc'[run'[d]] = "zombie" => state'[run'[d]] = "ZOMBIE"
                       /\ pc'[run'[d]] = "asleep" => state'[run'[d]] = "SLEEPING"
                       /\ pc'[run'[d]] = "yielded" => state'[run'[d]] = "RUNNABLE"
                       /\ pc'[run'[d]] \notin {"zombie", "asleep", "yielded"} =>
                            state'[run'[d]] = "RUNNING"
                       /\ \A e \in CPUs : e # d => run'[e] # run'[d]
    BY Zenon DEF Running
  <2>1. /\ d # c /\ run'[d] = run[d] /\ idx'[d] = idx[d]
        /\ pc'[run[d]] = pc[run[d]] /\ state'[run[d]] = state[run[d]]
    BY ZenonT(60) DEF Others
  <2>2. ASSUME NEW e \in CPUs, e # d
        PROVE  run'[e] # run'[d]
    <3>1. CASE e = c
      BY Zenon, <3>1
    <3>2. CASE e # c
      <4>1. run'[e] = run[e]
        BY Zenon, <3>2 DEF Others
      <4>. QED BY ZenonT(60), <2>1, <2>2, <4>1 DEF Running
    <3>. QED BY Zenon, <3>1, <3>2
  <2>. QED BY Zenon, <2>1, <2>2 DEF Running
<1>3. Flags'
  <2>. SUFFICES ASSUME NEW d \in CPUs
                PROVE  (/\ lock = d => fl_if[d] = 0
                        /\ run[d] # 0 =>
                             /\ pc[run[d]] \in Open => fl_if[d] = 1
                             /\ pc[run[d]] \in {"timer", "trapret"} => fl_if[d] = 0
                             /\ pc[run[d]] \in {"scan", "asleep"} => intena[d] = 1
                             /\ pc[run[d]] = "yielded" => intena[d] = 0)'
    BY Zenon DEF Flags
  <2>1. CASE d = c
    BY Zenon, <2>1
  <2>2. CASE d # c
    <3>1. /\ fl_if'[d] = fl_if[d] /\ intena'[d] = intena[d] /\ run'[d] = run[d]
          /\ (lock' = d <=> lock = d) /\ (run[d] # 0 => pc'[run[d]] = pc[run[d]])
      BY Zenon, <2>2 DEF Others
    <3>. QED BY Zenon, <3>1 DEF Flags
  <2>. QED BY Zenon, <2>1, <2>2
<1>. QED BY Zenon, <1>1, <1>2, <1>3

\* The places of the scan of scheduler().
LEMMA ScanTypes ==
  0 \in 0..(NPROC + 1) /\ 1 \in 0..(NPROC + 1) /\ \A s \in Slots : s + 1 \in 1..(NPROC + 1)
BY SMT, SMTT(40), NPROCAssumption DEF Slots

\* sched(): its three checks hold, and the context it saves is where the state
\* of the slot says.
LEMMA SchedInv ==
  ASSUME IInv, NEW c \in CPUs, Sched(c)
  PROVE  IInv'
<1>. USE DEF IInv
<1>1. panicked = "none" /\ run[c] # 0 /\ pc[run[c]] \in {"zombie", "asleep", "yielded"}
  BY Zenon DEF Sched, AfterSched
<1>2. PICK s \in Slots : run[c] = s
  BY SMT, SMTT(40), <1>1, SlotFacts
<1>3. /\ lock = c /\ idx[c] # 0 /\ s # 0 /\ \A d \in CPUs \ {c} : run[d] # s
      /\ fl_if[c] = 0 /\ state[s] # "RUNNING"
      /\ state[s] = CASE pc[s] = "zombie" -> "ZOMBIE" [] pc[s] = "asleep" -> "SLEEPING"
                      [] OTHER -> "RUNNABLE"
  <2>1. lock = c /\ idx[c] # 0 /\ \A d \in CPUs \ {c} : run[d] # s
    BY Zenon, <1>1, <1>2, SlotFacts DEF Inside
  <2>2. fl_if[c] = 0
    BY <2>1, Zenon DEF Flags
  <2>3. /\ pc[s] = "zombie" => state[s] = "ZOMBIE"
        /\ pc[s] = "asleep" => state[s] = "SLEEPING"
        /\ pc[s] = "yielded" => state[s] = "RUNNABLE"
    BY <1>1, <1>2, Zenon DEF Running
  <2>. QED BY Zenon, SMTT(40), <1>1, <1>2, <2>1, <2>2, <2>3
<1>4. panicked' = "none"
  BY SMT, SMTT(40), <1>1, <1>2, <1>3 DEF Sched
<1>5. PICK l \in {"undead", "woken", "resumed"} :
        /\ pc' = [pc EXCEPT ![s] = l]
        /\ pc[s] = "zombie" <=> l = "undead"
        /\ pc[s] = "asleep" <=> l = "woken"
        /\ pc[s] = "yielded" <=> l = "resumed"
  <2>1. pc' = [pc EXCEPT ![s] = AfterSched[pc[s]]]
    BY <1>2, Zenon DEF Sched, Goto
  <2>2. /\ AfterSched["zombie"] = "undead" /\ AfterSched["asleep"] = "woken"
        /\ AfterSched["yielded"] = "resumed"
    BY Zenon DEF AfterSched
  <2>3. CASE pc[s] = "zombie"
    BY ZenonT(60), <2>1, <2>2, <2>3
  <2>4. CASE pc[s] = "asleep"
    BY Zenon, <2>1, <2>2, <2>4
  <2>5. CASE pc[s] = "yielded"
    BY Zenon, <2>1, <2>2, <2>5
  <2>. QED BY Zenon, <1>1, <1>2, <2>3, <2>4, <2>5
<1>6. /\ sv' = [sv EXCEPT ![s] = intena[c]] /\ run' = [run EXCEPT ![c] = 0]
      /\ UNCHANGED <<procVars, ret, np, idx, lock, intena, fl_if, nextpid>>
  BY <1>2, Zenon DEF Sched
<1>7. /\ pc'[s] = l /\ \A t \in Slots \ {s} : pc'[t] = pc[t] /\ sv'[t] = sv[t]
      /\ sv'[s] = intena[c]
      /\ run'[c] = 0 /\ \A d \in CPUs \ {c} : run'[d] = run[d]
  BY Zenon, <1>5, <1>6 DEF TypeOK
<1>8. UNCHANGED <<state, pid, parent, killed, chan, kstack>>
  BY Zenon, <1>6 DEF procVars
<1>9. TypeOK'
  <2>1. pc' \in [Slots -> Labels]
    BY Zenon, <1>5 DEF TypeOK, Labels
  <2>2. run' \in [CPUs -> 0..NPROC]
    <3>1. run \in [CPUs -> 0..NPROC] /\ 0 \in 0..NPROC
      BY SlotTypes, Zenon DEF TypeOK
    <3>. QED BY <1>6, <3>1, Zenon
  <2>3. sv' \in [Slots -> {0, 1}]
    BY Zenon, <1>6 DEF TypeOK
  <2>. QED BY ZenonT(60), <1>4, <1>6, <1>8, <2>1, <2>2, <2>3 DEF TypeOK
<1>10. \A d \in CPUs \ {c} : run[d] # 0 => run[d] \in Slots \ {s}
  BY Zenon, <1>3, SlotTypes
<1>11. Holding' /\ Running' /\ Flags'
  <2>1. Others(c)
    BY Zenon, <1>6, <1>7, <1>8, <1>10 DEF Others
  <2>2. lock' = c /\ idx'[c] # 0 /\ fl_if'[c] = 0
    BY Zenon, <1>3, <1>6
  <2>. QED BY Zenon, <1>7, <2>1, <2>2, IdleFrame
<1>13. Parked'
  <2>. SUFFICES ASSUME NEW t \in Slots, \A d \in CPUs : run'[d] # t
                PROVE  /\ state[t] # "RUNNING"
                       /\ state[t] = "RUNNABLE" => pc'[t] \in {"forkret", "woken", "resumed"}
                       /\ state[t] = "SLEEPING" => pc'[t] = "woken"
                       /\ state[t] = "ZOMBIE" => pc'[t] = "undead"
                       /\ state[t] \in {"UNUSED", "EMBRYO"} => pc'[t] \in {"forkret", "undead"}
    BY Zenon, <1>8 DEF Parked
  <2>1. CASE t = s
    BY Zenon, <1>3, <1>5, <1>7, <2>1
  <2>2. CASE t # s
    <3>1. \A d \in CPUs : run[d] # t
      BY Zenon, <1>2, <1>7, <2>2
    <3>. QED BY Zenon, <1>7, <2>2, <3>1 DEF Parked
  <2>. QED BY Zenon, <2>1, <2>2
<1>14. Stacks'
  BY Zenon, <1>8 DEF Stacks
<1>15. \A t \in Slots \ {s} : Where(t)' = Where(t)
  BY Zenon, <1>6, <1>7 DEF Where
<1>16. /\ Where(s)' = IF l = "resumed" THEN ret[s] ELSE l
       /\ Where(s) = IF l = "resumed" THEN ret[s] ELSE pc[s]
  BY SMT, SMTT(40), <1>1, <1>2, <1>5, <1>6, <1>7 DEF Where, TimerLabels
<1>17. Forks'
  <2>1. \A t \in Slots : state[t] = "EMBRYO" => t # s
    BY Zenon, <1>3
  <2>2. \A t \in Slots : \/ Where(t)' = Where(t)
                         \/ {Where(t), Where(t)'} \cap {"kstack", "copy", "setrun"} = {}
    BY Zenon, SMTT(40), <1>1, <1>2, <1>15, <1>16
  <2>. QED BY Zenon, <1>6, <1>7, <1>8, <2>1, <2>2, ForksFrame
<1>18. Returns'
  <2>1. l \notin TimerLabels => pc[s] \notin TimerLabels
    BY SMT, SMTT(40), <1>1, <1>2, <1>5 DEF TimerLabels
  <2>. QED BY Zenon, <1>6, <1>7, <2>1 DEF Returns
<1>19. Families'
  <2>1. Where(initproc)' = "exit" => panicked' # "none"
    <3>1. Where(s)' = "exit" => Where(s) = "exit"
      BY Zenon, <1>16
    <3>. QED BY Zenon, SMTT(40), <1>1, <1>15, <3>1, SlotTypes DEF Families
  <2>. QED BY Zenon, <1>8, <2>1, FamiliesFrame
<1>20. Sleepers'
  BY Zenon, <1>8, SleepersFrame
<1>21. Pids'
  <2>1. Forking' \subseteq Forking
    BY Zenon, <1>6, <1>7 DEF Forking
  <2>. QED BY Zenon, <1>6, <1>8, <2>1, PidsFrame
<1>23. Saved'
  <2>1. l = "woken" => intena[c] = 1
    BY Zenon, <1>2, <1>3, <1>5 DEF Flags
  <2>2. l = "resumed" => intena[c] = 0
    BY Zenon, <1>2, <1>3, <1>5 DEF Flags
  <2>. QED BY Zenon, <1>7, <2>1, <2>2 DEF Saved
<1>. QED BY ZenonT(60), <1>4, <1>9, <1>11, <1>13, <1>14, <1>17, <1>18, <1>19, <1>20, <1>21, <1>23

\* scheduler() acquires the lock and begins a scan.
LEMMA SchedulerEnterInv ==
  ASSUME IInv, NEW c \in CPUs, SchedulerEnter(c)
  PROVE  IInv'
<1>. USE DEF IInv
<1>1. /\ panicked = "none" /\ run[c] = 0 /\ lock = NoCPU /\ lock' = c
      /\ idx' = [idx EXCEPT ![c] = 1] /\ fl_if' = [fl_if EXCEPT ![c] = 0]
      /\ intena' = [intena EXCEPT ![c] = fl_if[c]]
      /\ UNCHANGED <<procVars, threadVars, run, nextpid, panicked>>
  BY Zenon DEF SchedulerEnter, Acquire
<1>2. /\ UNCHANGED <<state, pid, parent, killed, chan, kstack>>
      /\ UNCHANGED <<pc, ret, np, sv, run, nextpid, panicked>>
  BY SMT, SMTT(40), <1>1 DEF procVars, threadVars
<1>3. TypeOK'
  <2>1. idx' \in [CPUs -> 0..(NPROC + 1)]
    <3>1. 1 \in 0..(NPROC + 1)
      BY ScanTypes, Zenon
    <3>2. idx \in [CPUs -> 0..(NPROC + 1)]
      BY Zenon DEF TypeOK
    <3>. QED BY <1>1, <3>1, <3>2, Zenon
  <2>2. intena' \in [CPUs -> {0, 1}] /\ fl_if' \in [CPUs -> {0, 1}] /\ lock' \in CPUs
    BY Zenon, SMTT(40), <1>1 DEF TypeOK
  <2>. QED BY Zenon, <1>2, <2>1, <2>2 DEF TypeOK
<1>4. Others(c) /\ idx'[c] # 0 /\ fl_if'[c] = 0
  <2>1. \A d \in CPUs \ {c} : lock' = d <=> lock = d
    BY Zenon, SMTT(40), <1>1, NoCPUAssumption
  <2>. QED BY SMT, SMTT(40), <1>1, <1>2, <2>1 DEF Others, TypeOK
<1>5. Holding' /\ Running' /\ Flags'
  BY Zenon, SMTT(40), <1>1, <1>2, <1>4, IdleFrame
<1>6. \A t \in Slots : Where(t)' = Where(t)
  BY Zenon, <1>2 DEF Where
<1>7. Parked' /\ Stacks' /\ Returns' /\ Saved'
  BY Zenon, <1>2 DEF Parked, Stacks, Returns, Saved
<1>8. Forks'
  BY Zenon, <1>2, <1>6, ForksFrame
<1>9. Families' /\ Sleepers'
  <2>1. Where(initproc)' = "exit" => panicked' # "none"
    BY Zenon, <1>2, <1>6, SlotTypes DEF Families
  <2>. QED BY Zenon, <1>2, <2>1, FamiliesFrame, SleepersFrame
<1>10. Pids'
  <2>1. Forking' \subseteq Forking
    BY Zenon, <1>2 DEF Forking
  <2>. QED BY Zenon, <1>2, <2>1, SlotTypes, PidsFrame
<1>. QED BY SMT, SMTT(40), <1>1, <1>2, <1>3, <1>5, <1>7, <1>8, <1>9, <1>10

\* The scan is at its end.
LEMMA ScanEndInv ==
  ASSUME IInv, NEW c \in CPUs, panicked = "none", run[c] = 0, idx[c] # 0,
         lock' = NoCPU, fl_if' = [fl_if EXCEPT ![c] = 1],
         intena' = [intena EXCEPT ![c] = 0], idx' = [idx EXCEPT ![c] = 0],
         UNCHANGED <<state, run>>,
         UNCHANGED <<pid, parent, killed, chan, kstack, threadVars, nextpid, panicked>>
  PROVE  IInv'
<1>. USE DEF IInv
<1>1. lock = c
  BY Zenon DEF Holding
<1>2. /\ UNCHANGED <<state, pid, parent, killed, chan, kstack>>
      /\ UNCHANGED <<pc, ret, np, sv, run, nextpid, panicked>>
  BY SMT, SMTT(40) DEF threadVars
<1>3. TypeOK'
  <2>1. idx' \in [CPUs -> 0..(NPROC + 1)]
    <3>1. 0 \in 0..(NPROC + 1)
      BY ScanTypes, Zenon
    <3>2. idx \in [CPUs -> 0..(NPROC + 1)]
      BY Zenon DEF TypeOK
    <3>. QED BY <3>1, <3>2, Zenon
  <2>2. intena' \in [CPUs -> {0, 1}] /\ fl_if' \in [CPUs -> {0, 1}] /\ lock' = NoCPU
    BY Zenon DEF TypeOK
  <2>. QED BY Zenon, <1>2, <2>1, <2>2 DEF TypeOK
<1>4. Others(c) /\ idx'[c] = 0 /\ lock' # c
  <2>1. \A d \in CPUs \ {c} : lock' = d <=> lock = d
    BY Zenon, SMTT(40), <1>1, NoCPUAssumption
  <2>2. lock' # c
    BY Zenon, SMTT(40), NoCPUAssumption
  <2>. QED BY Zenon, <1>2, <2>1, <2>2 DEF Others, TypeOK
<1>5. Holding' /\ Running' /\ Flags'
  BY SMT, SMTT(40), <1>2, <1>4, IdleFrame
<1>6. \A t \in Slots : Where(t)' = Where(t)
  BY Zenon, <1>2 DEF Where
<1>7. Parked' /\ Stacks' /\ Returns' /\ Saved'
  BY SMT, SMTT(40), <1>2 DEF Parked, Stacks, Returns, Saved
<1>8. Forks'
  BY Zenon, <1>2, <1>6, ForksFrame
<1>9. Families' /\ Sleepers'
  <2>1. Where(initproc)' = "exit" => panicked' # "none"
    BY Zenon, <1>2, <1>6, SlotTypes DEF Families
  <2>. QED BY Zenon, <1>2, <2>1, FamiliesFrame, SleepersFrame
<1>10. Pids'
  <2>1. Forking' \subseteq Forking
    BY Zenon, <1>2 DEF Forking
  <2>. QED BY ZenonT(60), <1>2, <2>1, SlotTypes, PidsFrame
<1>. QED BY Zenon, <1>2, <1>3, <1>5, <1>7, <1>8, <1>9, <1>10

\* scheduler() picks a RUNNABLE slot: its old CPU has left it, for a yield()
\* under way would have the lock.
LEMMA PickInv ==
  ASSUME IInv, NEW c \in CPUs, panicked = "none", run[c] = 0, idx[c] # 0,
         NEW s \in Slots, state[s] = "RUNNABLE",
         state' = [state EXCEPT ![s] = "RUNNING"],
         run' = [run EXCEPT ![c] = s], idx' = [idx EXCEPT ![c] = s + 1],
         UNCHANGED <<lock, intena, fl_if>>,
         UNCHANGED <<pid, parent, killed, chan, kstack, threadVars, nextpid, panicked>>
  PROVE  IInv'
<1>. USE DEF IInv
<1>1. /\ UNCHANGED <<pid, parent, killed, chan, kstack>>
      /\ UNCHANGED <<pc, ret, np, sv, nextpid, panicked>>
  BY ZenonT(60) DEF threadVars
<1>2. lock = c /\ fl_if[c] = 0 /\ s # 0
  BY Zenon, SlotTypes DEF Holding, Flags
<1>3. \A d \in CPUs : run[d] # s
  <2>. SUFFICES ASSUME NEW d \in CPUs, run[d] = s
                PROVE  FALSE
    BY Zenon
  <2>1. pc[s] = "yielded"
    BY Zenon, <1>2 DEF Running
  <2>2. lock = d
    BY Zenon, <1>2, <2>1 DEF Holding, Inside
  <2>. QED BY Zenon, <1>2, <2>2
<1>4. pc[s] \in {"forkret", "woken", "resumed"}
  BY Zenon, <1>3 DEF Parked
<1>5. s + 1 # 0 /\ s + 1 \in 0..(NPROC + 1)
  BY SMT, SMTT(40), NPROCAssumption DEF Slots
<1>6. /\ run'[c] = s /\ idx'[c] # 0 /\ state'[s] = "RUNNING"
      /\ \A t \in Slots \ {s} : state'[t] = state[t]
      /\ \A d \in CPUs \ {c} : run'[d] = run[d] /\ idx'[d] = idx[d]
  BY Zenon, <1>5 DEF TypeOK
<1>7. \A d \in CPUs \ {c} : run[d] # 0 => run[d] \in Slots \ {s}
  BY SMT, SMTT(40), <1>3, SlotTypes
<1>8. TypeOK'
  <2>1. idx' \in [CPUs -> 0..(NPROC + 1)]
    <3>1. idx \in [CPUs -> 0..(NPROC + 1)]
      BY Zenon DEF TypeOK
    <3>. QED BY <1>5, <3>1, Zenon
  <2>2. run' \in [CPUs -> 0..NPROC]
    <3>1. run \in [CPUs -> 0..NPROC] /\ s \in 0..NPROC
      BY Zenon, SlotTypes DEF TypeOK
    <3>. QED BY <3>1, Zenon
  <2>3. state' \in [Slots -> {"UNUSED", "EMBRYO", "SLEEPING", "RUNNABLE", "RUNNING", "ZOMBIE"}]
    BY DEF TypeOK
  <2>. QED BY Zenon, <1>1, <2>1, <2>2, <2>3 DEF TypeOK
<1>9. Holding'
  <2>. SUFFICES ASSUME NEW d \in CPUs
                PROVE  lock' = d <=> \/ run'[d] = 0 /\ idx'[d] # 0
                                     \/ run'[d] # 0 /\ pc'[run'[d]] \in Inside
    BY Zenon DEF Holding
  <2>1. CASE d = c
    BY Zenon, <1>1, <1>2, <1>4, <1>6, <2>1 DEF Inside
  <2>2. CASE d # c
    BY Zenon, <1>1, <1>6, <2>2 DEF Holding
  <2>. QED BY Zenon, <2>1, <2>2
<1>10. Running'
  <2>. SUFFICES ASSUME NEW d \in CPUs, run'[d] # 0
                PROVE  /\ idx'[d] # 0
                       /\ pc'[run'[d]] # "undead"
                       /\ pc'[run'[d]] = "zombie" => state'[run'[d]] = "ZOMBIE"
                       /\ pc'[run'[d]] = "asleep" => state'[run'[d]] = "SLEEPING"
                       /\ pc'[run'[d]] = "yielded" => state'[run'[d]] = "RUNNABLE"
                       /\ pc'[run'[d]] \notin {"zombie", "asleep", "yielded"} =>
                            state'[run'[d]] = "RUNNING"
                       /\ \A e \in CPUs : e # d => run'[e] # run'[d]
    BY Zenon DEF Running
  <2>1. CASE d = c
    BY Zenon, <1>1, <1>3, <1>4, <1>6, <2>1
  <2>2. CASE d # c
    <3>1. /\ run'[d] = run[d] /\ idx'[d] = idx[d] /\ run[d] # s
          /\ state'[run[d]] = state[run[d]] /\ pc' = pc
      BY ZenonT(60), <1>1, <1>3, <1>6, <1>7, <2>2
    <3>2. \A e \in CPUs : e # d => run'[e] # run[d]
      BY SMT, SMTT(40), <1>6, <2>2, <3>1 DEF Running
    <3>. QED BY Zenon, <3>1, <3>2 DEF Running
  <2>. QED BY Zenon, <2>1, <2>2
<1>11. Flags'
  <2>. SUFFICES ASSUME NEW d \in CPUs
                PROVE  (/\ lock = d => fl_if[d] = 0
                        /\ run[d] # 0 =>
                             /\ pc[run[d]] \in Open => fl_if[d] = 1
                             /\ pc[run[d]] \in {"timer", "trapret"} => fl_if[d] = 0
                             /\ pc[run[d]] \in {"scan", "asleep"} => intena[d] = 1
                             /\ pc[run[d]] = "yielded" => intena[d] = 0)'
    BY Zenon DEF Flags
  <2>1. CASE d = c
    BY Zenon, <1>1, <1>2, <1>4, <1>6, <2>1 DEF Open
  <2>2. CASE d # c
    BY ZenonT(60), <1>1, <1>6, <2>2 DEF Flags
  <2>. QED BY Zenon, <2>1, <2>2
<1>12. Parked'
  <2>1. \A t \in Slots : (\A d \in CPUs : run'[d] # t) =>
                           t # s /\ \A d \in CPUs : run[d] # t
    BY Zenon, <1>6, SlotTypes
  <2>. QED BY SMT, SMTT(40), <1>1, <1>6, <2>1 DEF Parked
<1>13. Stacks' /\ Returns' /\ Saved'
  BY SMT, SMTT(40), <1>1, <1>6 DEF Stacks, Returns, Saved
<1>14. \A t \in Slots : Where(t)' = Where(t)
  BY Zenon, <1>1 DEF Where
<1>15. Forks'
  BY Zenon, <1>1, <1>6, <1>14, ForksFrame
<1>16. Families' /\ Sleepers'
  <2>1. Where(initproc)' = "exit" => panicked' # "none"
    BY Zenon, <1>1, <1>14, SlotTypes DEF Families
  <2>2. Families'
    BY Zenon, <1>1, <1>6, <2>1, FamiliesFrame
  <2>3. Sleepers'
    BY Zenon, <1>1, <1>6, SleepersFrame
  <2>. QED BY Zenon, <2>2, <2>3
<1>17. Pids'
  <2>1. Forking' \subseteq Forking
    BY Zenon, SMTT(40), <1>1 DEF Forking
  <2>. QED BY Zenon, <1>1, <1>6, <2>1, PidsFrame
<1>. QED BY ZenonT(60), <1>1, <1>8, <1>9, <1>10, <1>11, <1>12, <1>13, <1>15, <1>16, <1>17

\* The scan goes on or ends.
LEMMA SchedulerScanInv ==
  ASSUME IInv, NEW c \in CPUs, SchedulerScan(c)
  PROVE  IInv'
<1>. DEFINE ready == {s \in Slots : s >= idx[c] /\ state[s] = "RUNNABLE"}
<1>1. CASE ready = {}
  <2>1. /\ panicked = "none" /\ run[c] = 0 /\ idx[c] # 0 /\ lock' = NoCPU
        /\ fl_if' = [fl_if EXCEPT ![c] = 1] /\ intena' = [intena EXCEPT ![c] = 0]
        /\ idx' = [idx EXCEPT ![c] = 0] /\ UNCHANGED <<state, run>>
        /\ UNCHANGED <<pid, parent, killed, chan, kstack, threadVars, nextpid, panicked>>
    BY <1>1, Zenon DEF SchedulerScan
  <2>. QED BY Zenon, <2>1, ScanEndInv
<1>2. CASE ready # {}
  <2>1. Min(ready) \in ready
    BY Zenon, SMTT(40), <1>2, MinIn
  <2>2. PICK s \in Slots : s = Min(ready) /\ state[s] = "RUNNABLE"
    BY SMT, SMTT(40), <2>1
  <2>3. /\ panicked = "none" /\ run[c] = 0 /\ idx[c] # 0
        /\ state' = [state EXCEPT ![s] = "RUNNING"]
        /\ run' = [run EXCEPT ![c] = s] /\ idx' = [idx EXCEPT ![c] = s + 1]
        /\ UNCHANGED <<lock, intena, fl_if>>
        /\ UNCHANGED <<pid, parent, killed, chan, kstack, threadVars, nextpid, panicked>>
    BY <1>2, <2>2, Zenon DEF SchedulerScan, mark_running
  <2>. QED BY Zenon, SMTT(40), <2>2, <2>3, PickInv
<1>. QED BY Zenon, SMTT(40), <1>1, <1>2

-----------------------------------------------------------------------------
(***************************************************************************)
(* The theorems.                                                           *)
(***************************************************************************)

\* The state after userinit() satisfies the invariant.
LEMMA InitInv ==
  ASSUME Init
  PROVE  IInv
<1>1. TypeOK
  <2>1. 0 \in 0..NPROC /\ 0 \in 0..(NPROC + 1) /\ 0 \in 0..MaxPid /\ 1 \in 0..MaxPid
    BY SMT, SMTT(40), NPROCAssumption, MaxPidAssumption
  <2>2. 2 \in 1..(MaxPid + 1)
    BY SMT, SMTT(40), MaxPidAssumption
  <2>. QED BY <2>1, <2>2, Zenon DEF Init, TypeOK, Labels
<1>2. 0 \notin Slots /\ initproc \in Slots
  BY SMT, SMTT(40), NPROCAssumption DEF Slots, initproc
<1>3. /\ \A s \in Slots : /\ state[s] = IF s = initproc THEN "RUNNABLE" ELSE "UNUSED"
                          /\ pid[s] = IF s = initproc THEN 1 ELSE 0
                          /\ parent[s] = 0 /\ killed[s] = 0 /\ chan[s] = 0
                          /\ kstack[s] = IF s = initproc THEN 1 ELSE 0
                          /\ pc[s] = "forkret" /\ ret[s] = "user" /\ np[s] = 0
      /\ \A c \in CPUs : run[c] = 0 /\ idx[c] = 0
      /\ lock = NoCPU /\ nextpid = 2 /\ panicked = "none"
  BY Zenon DEF Init
<1>4. Holding /\ Running /\ Flags
  BY Zenon, <1>3, NoCPUAssumption DEF Holding, Running, Flags
<1>5. Parked /\ Stacks /\ Saved
  BY Zenon, <1>3 DEF Parked, Stacks, Saved
<1>6. \A s \in Slots : Where(s) = "forkret"
  BY Zenon, <1>3 DEF Where, TimerLabels
<1>7. Forks
  BY Zenon, <1>3, <1>6 DEF Forks
<1>8. Returns
  BY Zenon, <1>3 DEF Returns, Open
<1>9. Families
  BY Zenon, <1>2, <1>3, <1>6 DEF Families, Alive
<1>10. Sleepers
  BY Zenon, SMTT(40), <1>3 DEF Sleepers
<1>11. Pids
  <2>1. Forking = {}
    BY SMT, SMTT(40), <1>3 DEF Forking
  <2>2. Cardinality(Forking) = 0
    BY Zenon, <2>1, FS_EmptySet
  <2>3. nextpid + Cardinality(Forking) <= MaxPid + 1
    BY SMT, SMTT(40), <1>3, <2>2, MaxPidAssumption
  <2>4. PidUnique
    BY SMT, SMTT(40), <1>3 DEF PidUnique, Used
  <2>5. (\A s \in Slots : pid[s] < nextpid) /\ pid[initproc] = 1
    BY SMT, SMTT(40), <1>2, <1>3
  <2>. QED BY Zenon, <2>3, <2>4, <2>5 DEF Pids
<1>. QED BY Zenon, SMTT(40), <1>1, <1>3, <1>4, <1>5, <1>7, <1>8, <1>9, <1>10, <1>11 DEF IInv

\* So does a state in which nothing has changed.
LEMMA StutterInv ==
  ASSUME IInv, UNCHANGED vars
  PROVE  IInv'
<1>1. UNCHANGED <<state, pid, parent, killed, chan, kstack>>
  BY SMT, SMTT(40) DEF vars, procVars
<1>2. UNCHANGED <<pc, ret, np, sv, nextpid, panicked>>
  BY SMT, SMTT(40) DEF vars, threadVars
<1>3. UNCHANGED <<run, idx, lock, intena, fl_if>>
  BY DEF vars, cpuVars
<1>4. TypeOK' /\ Holding' /\ Running' /\ Parked' /\ Flags'
  <2>1. TypeOK'
    BY Zenon, <1>1, <1>2, <1>3 DEF IInv, TypeOK
  <2>2. Holding' /\ Running'
    BY Zenon, <1>1, <1>2, <1>3 DEF IInv, Holding, Running
  <2>3. Parked' /\ Flags'
    BY Zenon, <1>1, <1>2, <1>3 DEF IInv, Parked, Flags
  <2>. QED BY Zenon, <2>1, <2>2, <2>3
<1>5. \A s \in Slots : Where(s)' = Where(s)
  BY SMT, SMTT(40), <1>2 DEF Where
<1>6. Stacks' /\ Forks' /\ Returns' /\ Sleepers' /\ Saved'
  <2>1. Forks'
    BY Zenon, <1>1, <1>2, <1>5, ForksFrame DEF IInv
  <2>2. Stacks' /\ Returns' /\ Saved'
    BY Zenon, <1>1, <1>2 DEF IInv, Stacks, Returns, Saved
  <2>3. Sleepers'
    BY Zenon, <1>1, SleepersFrame DEF IInv
  <2>. QED BY Zenon, SMTT(40), <2>1, <2>2, <2>3
<1>7. Families'
  BY Zenon, <1>1, <1>2, <1>5, SlotTypes DEF IInv, Families, Alive
<1>8. Pids'
  <2>1. Forking' = Forking
    BY SMT, SMTT(40), <1>2 DEF Forking
  <2>. QED BY Zenon, <1>1, <1>2, <2>1 DEF IInv, Pids, PidUnique, Used
<1>. QED BY Zenon, <1>2, <1>4, <1>6, <1>7, <1>8 DEF IInv

\* Every step keeps the invariant.
LEMMA NextInv ==
  ASSUME IInv, [Next]_vars
  PROVE  IInv'
<1>1. CASE UNCHANGED vars
  BY SMT, SMTT(40), <1>1, StutterInv
<1>2. ASSUME NEW c \in CPUs, KernelStep(c)
      PROVE  IInv'
  BY ZenonT(60), <1>2, ForkAllocInv, ForkKstackInv, ForkCopyInv, ForkRunInv, ExitLockedInv,
       WaitEnterInv,
     WaitScanInv, KillInv, SysRetInv, ForkRetInv, IretInv, Zenon DEF KernelStep
<1>3. ASSUME NEW c \in CPUs, SwitchStep(c)
      PROVE  IInv'
  BY <1>3, YieldInv, SchedInv, YieldReturnInv, TrapRetInv, WakeInWaitInv, Zenon
       DEF SwitchStep
<1>4. ASSUME NEW c \in CPUs, UserStep(c)
      PROVE  IInv'
  BY <1>4, SysCallInv, ExitCallInv, FaultInv, Zenon DEF UserStep
<1>5. ASSUME NEW c \in CPUs, SchedulerStep(c)
      PROVE  IInv'
  BY <1>5, SchedulerEnterInv, SchedulerScanInv, Zenon DEF SchedulerStep
<1>. QED BY <1>1, <1>2, <1>3, <1>4, <1>5, TimerInv, Zenon DEF Next

\* For any number of slots, any CPUs, any bound on the pids and any arguments
\* of kill(), the process table of proc.c satisfies the invariant at every
\* step of fork(), exit(), wait(), kill(), yield() and the schedulers.
THEOREM Invariant == Spec => []IInv
<1>1. Init => IInv
  BY SMT, SMTT(40), InitInv
<1>2. IInv /\ [Next]_vars => IInv'
  BY SMT, SMTT(40), NextInv
<1>. QED BY <1>1, <1>2, PTL DEF Spec

\* A flag that is set is not clear.
LEMMA ZeroOne == 0 # 1
BY SMT, SMTT(40)

\* The invariant implies the properties that the runs check.
LEMMA Consequences ==
  ASSUME IInv
  PROVE  ThreadsSafe /\ InterruptsFollowThread /\ NoLostExit /\ OrphansAdopted
<1>. USE DEF IInv
<1>1. OneCpuPerThread
  <2>1. \A c, d \in CPUs : c # d /\ run[c] # 0 => run[c] # run[d]
    BY Zenon DEF Running
  <2>2. ASSUME lock = NoCPU, NEW s \in Slots
        PROVE  state[s] = "RUNNING" <=> \E c \in CPUs : run[c] = s
    <3>1. state[s] = "RUNNING" => \E c \in CPUs : run[c] = s
      BY Zenon DEF Parked
    <3>2. ASSUME NEW c \in CPUs, run[c] = s
          PROVE  state[s] = "RUNNING"
      <4>1. pc[s] \notin Inside
        BY Zenon, <2>2, <3>2, SlotTypes DEF Holding
      <4>. QED BY Zenon, <3>2, <4>1, SlotTypes DEF Running, Inside
    <3>. QED BY Zenon, <3>1, <3>2
  <2>3. ASSUME lock = NoCPU
        PROVE  {s \in Slots : state[s] = "RUNNING"} = {run[c] : c \in CPUs} \ {0}
    <3>1. \A c \in CPUs : run[c] # 0 => run[c] \in Slots
      BY SlotTypes, Zenon
    <3>2. 0 \notin Slots
      BY SlotTypes, Zenon
    <3>. QED BY Zenon, <2>2, <2>3, <3>1, <3>2
  <2>. QED BY <2>1, <2>3, Zenon DEF OneCpuPerThread
<1>2. StackSafety
  <2>1. ASSUME NEW c \in CPUs, run[c] # 0
        PROVE  kstack[run[c]] = 1
    <3>1. run[c] \in Slots /\ state[run[c]] \notin {"UNUSED", "EMBRYO"}
      BY Zenon, <2>1, SlotTypes DEF Running
    <3>. QED BY Zenon, <3>1 DEF Stacks
  <2>2. ASSUME NEW s \in Slots, kstack[s] = 1
        PROVE  state[s] # "UNUSED"
    <3>1. state[s] = "UNUSED" => kstack[s] = 0
      BY Zenon DEF Stacks
    <3>. QED BY <2>2, <3>1, ZeroOne, Zenon
  <2>. QED BY <2>1, <2>2, Zenon DEF StackSafety
<1>3. InterruptsFollowThread
  BY Zenon DEF InterruptsFollowThread, Flags, Open
<1>4. NoLostExit
  BY Zenon DEF NoLostExit, Sleepers
<1>5. OrphansAdopted
  BY Zenon DEF OrphansAdopted, Families, Alive
<1>. QED BY Zenon, <1>1, <1>2, <1>3, <1>4, <1>5 DEF ThreadsSafe

\* No kernel thread is executed by two CPUs or on a freed stack: exit(), sleep()
\* and yield() keep ptable.lock until swtch() has left the thread.
THEOREM Threads == Spec => []ThreadsSafe
BY Invariant, Consequences, PTL

\* Interrupts are on or off as the code of the thread needs, on whichever CPU it
\* goes on: sched() saves and restores intena.
THEOREM Interrupts == Spec => []InterruptsFollowThread
BY Invariant, Consequences, PTL

\* A parent asleep in wait() has no child that has exited: exit() and kill()
\* cannot come between the scan of wait() and its sleep().
THEOREM ExitsSeen == Spec => []NoLostExit
BY Invariant, Consequences, PTL

\* Whoever is killed, init included, the table keeps its types, pids are unique,
\* orphans go to init, and the only panic is exit()'s "init exiting".
THEOREM AnyKill ==
  Spec => [](TypeOK /\ PidUnique /\ OrphansAdopted /\ panicked \in {"none", "init exiting"})
<1>1. IInv => TypeOK /\ PidUnique /\ OrphansAdopted /\ panicked \in {"none", "init exiting"}
  BY Consequences, Zenon DEF IInv, Pids
<1>. QED BY <1>1, Invariant, PTL

\* Nobody has killed init, and nothing has panicked.
InitLives == killed[initproc] = 0 /\ panicked = "none"

\* As long as kill() is not called with init's pid, that stays so: a kill() of
\* another pid finds another slot, and only init's exit() panics.
LEMMA InitLivesStep ==
  ASSUME 1 \notin KillTargets, IInv, IInv', InitLives, [Next]_vars
  PROVE  InitLives'
<1>. USE DEF IInv
<1>1. CASE UNCHANGED vars
  BY SMT, SMTT(40), <1>1 DEF InitLives, vars, procVars
<1>2. ASSUME NEW c \in CPUs, NEW p \in KillTargets, Kill(c, p)
      PROVE  InitLives'
  <2>. DEFINE match == {s \in Slots : pid[s] = p}
  <2>1. panicked' = panicked
    BY <1>2, Zenon DEF Kill
  <2>2. CASE match = {}
    BY SMT, SMTT(40), <1>2, <2>1, <2>2 DEF Kill, InitLives
  <2>3. CASE match # {}
    <3>1. Min(match) \in match
      BY Zenon, <2>3, MinIn
    <3>2. Min(match) # initproc
      BY Zenon, <3>1, SlotTypes DEF Pids
    <3>3. killed' = [killed EXCEPT ![Min(match)] = 1]
      BY <1>2, <2>3, Zenon DEF Kill
    <3>. QED BY ZenonT(60), <2>1, <3>2, <3>3, SlotTypes DEF InitLives, TypeOK
  <2>. QED BY Zenon, <2>2, <2>3
<1>3. ASSUME NEW c \in CPUs, WaitScan(c)
      PROVE  InitLives'
  <2>1. panicked' = panicked
    BY <1>3, Zenon DEF WaitScan
  <2>2. killed' = killed \/ \E z : killed' = [killed EXCEPT ![z] = 0]
    BY <1>3, Zenon DEF WaitScan, procVars
  <2>. QED BY ZenonT(60), <2>1, <2>2, SlotTypes DEF InitLives, TypeOK
<1>4. ASSUME NEW c \in CPUs, KernelStep(c)
      PROVE  InitLives'
  <2>1. CASE ForkAlloc(c) \/ ForkKstack(c) \/ ForkCopy(c) \/ ForkRun(c)
    BY Zenon, <2>1 DEF ForkAlloc, ForkKstack, ForkCopy, ForkRun, InitLives
  <2>2. CASE ExitLocked(c) \/ WaitEnter(c) \/ ForkRet(c) \/ Iret(c)
    BY Zenon, <2>2 DEF ExitLocked, WaitEnter, ForkRet, Iret, InitLives, procVars
  <2>3. CASE SysRet(c)
    <3>1. run[c] = initproc => UNCHANGED panicked
      BY <2>3, ZeroOne, Zenon DEF SysRet, InitLives
    <3>2. run[c] # initproc => UNCHANGED panicked
      BY <2>3, Zenon DEF SysRet, ExitCheck
    <3>. QED BY Zenon, <2>3, <3>1, <3>2 DEF SysRet, InitLives, procVars
  <2>. QED BY <1>2, <1>3, <1>4, <2>1, <2>2, <2>3, Zenon DEF KernelStep
<1>5. ASSUME NEW c \in CPUs, SwitchStep(c)
      PROVE  InitLives'
  <2>1. CASE Yield(c) \/ WakeInWait(c)
    BY Zenon, <2>1 DEF Yield, WakeInWait, InitLives
  <2>2. CASE Sched(c)
    BY Zenon, <2>2 DEF Sched, panic, InitLives, procVars
  <2>3. CASE YieldReturn(c)
    BY Zenon, <2>3 DEF YieldReturn, ZombieExit, panic, InitLives, procVars
  <2>4. CASE TrapRet(c)
    <3>1. run[c] = initproc => UNCHANGED panicked
      BY <2>4, ZeroOne, Zenon DEF TrapRet, InitLives
    <3>2. run[c] # initproc => UNCHANGED panicked
      BY <2>4, Zenon DEF TrapRet, ExitCheck
    <3>. QED BY Zenon, <2>4, <3>1, <3>2 DEF TrapRet, InitLives, procVars
  <2>. QED BY <1>5, <2>1, <2>2, <2>3, <2>4, Zenon DEF SwitchStep
<1>6. ASSUME NEW c \in CPUs, UserStep(c)
      PROVE  InitLives'
  <2>1. CASE \E call \in SysCalls : SysCall(c, call)
    BY Zenon, <2>1 DEF SysCall, InitLives, procVars
  <2>2. CASE ExitCall(c)
    BY SMT, SMTT(40), <2>2 DEF ExitCall, ExitCheck, panic, InitLives, procVars
  <2>3. CASE Fault(c)
    BY ZenonT(60), <2>3, SlotTypes DEF Fault, InitLives, TypeOK
  <2>. QED BY <1>6, <2>1, <2>2, <2>3, Zenon DEF UserStep
<1>7. ASSUME NEW c \in CPUs, Timer(c)
      PROVE  InitLives'
  <2>1. run[c] = initproc => UNCHANGED panicked
    BY <1>7, ZeroOne, Zenon DEF Timer, InitLives
  <2>2. run[c] # initproc => UNCHANGED panicked
    BY <1>7, Zenon DEF Timer, ExitCheck
  <2>. QED BY Zenon, <1>7, <2>1, <2>2 DEF Timer, InitLives, procVars
<1>8. ASSUME NEW c \in CPUs, SchedulerStep(c)
      PROVE  InitLives'
  BY Zenon, <1>8 DEF SchedulerStep, SchedulerEnter, SchedulerScan, InitLives, procVars
<1>. QED BY ZenonT(60), <1>1, <1>4, <1>5, <1>6, <1>7, <1>8 DEF Next

\* As long as nobody calls kill() with the pid of init, 1, the table is
\* consistent at every step and no panic of exit(), sched() or scheduler() is
\* reached.
THEOREM Table ==
  ASSUME 1 \notin KillTargets
  PROVE  Spec => []TableConsistent
<1>1. Init => InitLives
  <2>1. initproc \in Slots
    BY SMT, SMTT(40), NPROCAssumption DEF Slots, initproc
  <2>. QED BY SMT, SMTT(40), <2>1 DEF Init, InitLives
<1>2. IInv /\ IInv' /\ InitLives /\ [Next]_vars => InitLives'
  BY Zenon, InitLivesStep
<1>3. IInv /\ InitLives => TableConsistent
  BY SMT, SMTT(40), Consequences DEF TableConsistent, InitLives, NoPanic, IInv, Pids
<1>. QED BY <1>1, <1>2, <1>3, Invariant, PTL DEF Spec
=============================================================================
