------------------------------ MODULE Syscall -------------------------------
(***************************************************************************)
(* System calls from trap() on: the tests of killed around them, the       *)
(* clock and sys_sleep() (trap.c, sysproc.c), and the counts of system     *)
(* calls that syscall() keeps for each CPU and for all of them             *)
(* (syscall.c), which sys_print_num_syscalls() reads without a lock.       *)
(***************************************************************************)
EXTENDS Integers, FiniteSets, Functions, Folds

CONSTANTS
  Procs,
  CPUS,      \* CPUs are 0..CPUS-1
  WRAP,      \* 2^32: ticks counts modulo WRAP
  Sleeps,    \* arguments of sleep(), ints
  MaxCalls,  \* bound: calls of each process
  MaxKills

VARIABLES
  ticks,
  tickslock,   \* the process about to sleep that holds tickslock, or "free"
  shared_int,  \* the process that holds shared_int, or "free"
  num_sys_calls, shared_syscall_num,
  pc,
  n, ticks0,   \* sys_sleep()'s variables
  elapsed,     \* ticks since sys_sleep() was called, up to WRAP
  seen,        \* what sys_print_num_syscalls() has printed: the total, the CPUs
  ret,         \* what the call returns: 0, -1 or nothing yet
  killed, calls

vars == <<ticks, tickslock, shared_int, num_sys_calls, shared_syscall_num, pc, n, ticks0,
          elapsed, seen, ret, killed, calls>>

locks == <<tickslock, shared_int>>
counts == <<num_sys_calls, shared_syscall_num>>
sleepvars == <<n, ticks0, elapsed>>

Init ==
  /\ ticks = 0
  /\ tickslock = "free" /\ shared_int = "free"
  /\ num_sys_calls = [c \in 0..(CPUS - 1) |-> 0] /\ shared_syscall_num = 0
  /\ pc = [p \in Procs |-> "user"]
  /\ n = [p \in Procs |-> 0] /\ ticks0 = [p \in Procs |-> 0]
  /\ elapsed = [p \in Procs |-> 0]
  /\ seen = [p \in Procs |-> << >>]
  /\ ret = [p \in Procs |-> "none"]
  /\ killed = [p \in Procs |-> 0] /\ calls = [p \in Procs |-> 0]

Goto(p, from, to) == pc[p] = from /\ pc' = [pc EXCEPT ![p] = to]

\* trap(): a killed process exits; another calls.  A number that is not that
\* of a call returns -1 and is not counted.
trap_entry(p) ==
  /\ killed[p] = 1 /\ Goto(p, "user", "exit")
  /\ UNCHANGED <<ticks, locks, counts, sleepvars, seen, ret, killed, calls>>

trap_call(p, call) ==
  /\ killed[p] = 0 /\ calls[p] < MaxCalls
  /\ Goto(p, "user", call)
  /\ calls' = [calls EXCEPT ![p] = @ + 1]
  /\ UNCHANGED <<ticks, locks, counts, sleepvars, seen, ret, killed>>

unknown(p) ==
  /\ Goto(p, "unknown", "return")
  /\ UNCHANGED <<ticks, locks, counts, sleepvars, seen, ret, killed, calls>>

\* Mutant: the total first.
first_total == 0

\* Which of the two counts syscall() increments first: that of the CPU.
first == 1

\* syscall(): the two counts, one after the other, under shared_int.  Until
\* they are done the process stays on its CPU.  The call's own variables end.
count(p) ==
  /\ Goto(p, "count", "count2") /\ shared_int = "free"
  /\ shared_int' = p
  /\ IF first = 1
       THEN (\E c \in DOMAIN num_sys_calls : num_sys_calls' = [num_sys_calls EXCEPT ![c] = @ + 1])
            /\ UNCHANGED shared_syscall_num
       ELSE shared_syscall_num' = shared_syscall_num + 1 /\ UNCHANGED num_sys_calls
  /\ n' = [n EXCEPT ![p] = 0] /\ ticks0' = [ticks0 EXCEPT ![p] = 0]
  /\ elapsed' = [elapsed EXCEPT ![p] = 0]
  /\ ret' = [ret EXCEPT ![p] = "none"] /\ seen' = [seen EXCEPT ![p] = << >>]
  /\ UNCHANGED <<ticks, tickslock, killed, calls>>

count2(p) ==
  /\ Goto(p, "count2", "return")
  /\ shared_int' = "free"
  /\ IF first = 1
       THEN shared_syscall_num' = shared_syscall_num + 1 /\ UNCHANGED num_sys_calls
       ELSE (\E c \in DOMAIN num_sys_calls : num_sys_calls' = [num_sys_calls EXCEPT ![c] = @ + 1])
            /\ UNCHANGED shared_syscall_num
  /\ UNCHANGED <<ticks, tickslock, sleepvars, seen, ret, killed, calls>>

\* trap() after the call.
trap_return(p) ==
  /\ Goto(p, "return", IF killed[p] = 1 THEN "exit" ELSE "user")
  /\ UNCHANGED <<ticks, locks, counts, sleepvars, seen, ret, killed, calls>>

\* sys_print_num_syscalls(): the total, then each CPU's count, unlocked.
print_total(p) ==
  /\ pc[p] = "print" /\ seen[p] = << >>
  /\ seen' = [seen EXCEPT ![p] = <<shared_syscall_num>>]
  /\ UNCHANGED <<ticks, locks, counts, sleepvars, pc, ret, killed, calls>>

print_cpu(p) ==
  LET done == Cardinality(DOMAIN seen[p]) - 1 IN
  /\ pc[p] = "print" /\ done \in DOMAIN num_sys_calls
  /\ seen' = [seen EXCEPT ![p] = [i \in 1..(done + 2) |->
                IF i = done + 2 THEN num_sys_calls[done] ELSE @[i]]]
  /\ pc' = [pc EXCEPT ![p] = IF done = CPUS - 1 THEN "count" ELSE @]
  /\ UNCHANGED <<ticks, locks, counts, sleepvars, ret, killed, calls>>
-----------------------------------------------------------------------------
(***************************************************************************)
(* The clock.                                                              *)
(***************************************************************************)

\* sys_uptime() and the start of sys_sleep().
uptime(p) ==
  /\ Goto(p, "uptime", "count") /\ tickslock = "free"
  /\ UNCHANGED <<ticks, locks, counts, sleepvars, seen, ret, killed, calls>>

sleep_start(p, k) ==
  /\ Goto(p, "sleep", "test") /\ tickslock = "free"
  /\ n' = [n EXCEPT ![p] = k] /\ ticks0' = [ticks0 EXCEPT ![p] = ticks]
  /\ UNCHANGED <<ticks, locks, counts, elapsed, seen, ret, killed, calls>>

\* ticks - ticks0 < n compares unsigned numbers.  Mutant: ticks < ticks0 + n.
early_sum(t, t0, k) == t < t0 + k

early(t, t0, k) == (t - t0) % WRAP < k % WRAP

\* The loop of sys_sleep(): its test, and the sleep() that follows, up to
\* which the process holds tickslock and kill() can come.
sleep_test(p) ==
  /\ pc[p] = "test" /\ tickslock = "free"
  /\ \/ /\ early(ticks, ticks0[p], n[p]) /\ killed[p] = 1
        /\ pc' = [pc EXCEPT ![p] = "count"] /\ ret' = [ret EXCEPT ![p] = "-1"]
        /\ UNCHANGED tickslock
     \/ /\ early(ticks, ticks0[p], n[p]) /\ killed[p] = 0
        /\ pc' = [pc EXCEPT ![p] = "sleeping"] /\ tickslock' = p
        /\ UNCHANGED ret
     \/ /\ ~early(ticks, ticks0[p], n[p])
        /\ pc' = [pc EXCEPT ![p] = "count"] /\ ret' = [ret EXCEPT ![p] = "0"]
        /\ UNCHANGED tickslock
  /\ UNCHANGED <<ticks, shared_int, counts, sleepvars, seen, killed, calls>>

sleep(p) ==
  /\ Goto(p, "sleeping", "asleep")
  /\ tickslock' = "free"
  /\ UNCHANGED <<ticks, shared_int, counts, sleepvars, seen, ret, killed, calls>>

\* wakeup(&ticks).
wakeup(q) == [p \in Procs |-> IF q[p] = "asleep" THEN "test" ELSE q[p]]

\* The timer interrupt on CPU 0.  It is assumed that no process is kept from
\* the CPU for as long as ticks takes to wrap.
timer ==
  /\ tickslock = "free"
  /\ \A p \in Procs : pc[p] = "test" => elapsed[p] < WRAP - 1
  /\ ticks' = (ticks + 1) % WRAP
  /\ pc' = wakeup(pc)
  /\ elapsed' = [p \in Procs |->
       IF pc[p] \in {"test", "asleep"} /\ elapsed[p] < WRAP THEN elapsed[p] + 1 ELSE elapsed[p]]
  /\ UNCHANGED <<locks, counts, n, ticks0, seen, ret, killed, calls>>

kill(p) ==
  /\ killed[p] = 0 /\ pc[p] # "exit"
  /\ Cardinality({q \in Procs : killed[q] = 1}) < MaxKills
  /\ killed' = [killed EXCEPT ![p] = 1]
  /\ pc' = [pc EXCEPT ![p] = IF @ = "asleep" THEN "test" ELSE @]
  /\ UNCHANGED <<ticks, locks, counts, sleepvars, seen, ret, calls>>

Step(p) ==
  \/ trap_entry(p) \/ unknown(p) \/ count(p) \/ count2(p) \/ trap_return(p)
  \/ print_total(p) \/ print_cpu(p)
  \/ uptime(p) \/ \E k \in Sleeps : sleep_start(p, k)
  \/ sleep_test(p) \/ sleep(p)

Next ==
  \/ \E p \in Procs, c \in {"unknown", "print", "uptime", "sleep", "count"} : trap_call(p, c)
  \/ \E p \in Procs : Step(p) \/ kill(p)
  \/ timer

\* The clock ticks and the processes run on.
Fairness == WF_vars(timer) /\ \A p \in Procs : WF_vars(Step(p))

FairSpec == Init /\ [][Next]_vars /\ Fairness
-----------------------------------------------------------------------------
(***************************************************************************)
(* Properties.                                                             *)
(***************************************************************************)
TypeOK ==
  /\ ticks \in 0..(WRAP - 1) /\ shared_syscall_num \in Nat
  /\ \A p \in Procs :
       /\ (tickslock = p) = (pc[p] = "sleeping")
       /\ (shared_int = p) = (pc[p] = "count2")
       /\ elapsed[p] \in 0..(WRAP - 1) /\ killed[p] \in {0, 1}

\* sleep(k) returns 0 after k ticks and not before, and does not sleep on once
\* they have gone by, also when ticks wraps.  A negative k sleeps for 2^32 + k
\* ticks, as the comparison is of unsigned numbers.
SleepExact ==
  \A p \in Procs :
    /\ ret[p] = "0" => elapsed[p] >= n[p] % WRAP
    /\ pc[p] = "asleep" => elapsed[p] < n[p] % WRAP

\* Although it is read without a lock, the total that is printed is never more
\* than the sum of the CPUs' counts printed below it.
PrintedTotals ==
  \A p \in Procs :
    Cardinality(DOMAIN seen[p]) = CPUS + 1 =>
      seen[p][1] <= MapThenFoldSet(+, 0, LAMBDA i : seen[p][i], LAMBDA S : CHOOSE i \in S : TRUE,
                                   2..(CPUS + 1))

\* Every sleep() returns, also that of a process killed between its test of
\* killed and sleep(): the next tick wakes it.
EverySleepReturns == \A p \in Procs : pc[p] = "sleep" ~> pc[p] \in {"user", "exit"}
=============================================================================
